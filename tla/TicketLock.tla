----------------------------- MODULE TicketLock -----------------------------
(***************************************************************************)
(* The ticket spinlock of include/os3/spinlock.h: spin_lock (92-107),      *)
(* spin_unlock (112-119) and spin_trylock (125-146).  head and tail are    *)
(* the two uint16_t halves of head_tail; a CPU's ticket is its private     *)
(* copy of the tail it fetched.  The fetch-add and the compare-exchange    *)
(* are single atomic steps; the spin is one step per load of head.         *)
(*                                                                         *)
(* The lock fragments (Take, Served, Give, TryTake) are used by the        *)
(* rwlock and seqlock modules for their inner spinlocks; the client        *)
(* actions below give each CPU the cycle idle -> spin -> cs -> idle.       *)
(***************************************************************************)
EXTENDS Naturals

CONSTANTS
    Procs,       \* CPUs that use the lock
    TicketMod,   \* 2^16 for the uint16_t halves, reduced
    NoOwner      \* no CPU holds the lock

ASSUME TicketMod >= 2 /\ NoOwner \notin Procs

VARIABLES
    head,   \* lock->head: the ticket being served
    tail,   \* lock->tail: the next ticket to be issued
    tkt,    \* [Procs -> ticket]: the local ticket of each CPU
    pc      \* [Procs -> state] of each CPU

lockVars == <<head, tail, tkt>>

(***************************************************************************)
(* Lock fragments.                                                         *)
(***************************************************************************)
\* Mutant: the ticket counter is wider than the uint16_t tail.
TakeNoWrap(p) ==
    /\ tkt' = [tkt EXCEPT ![p] = tail]
    /\ tail' = tail + 1
    /\ UNCHANGED head

\* ticket = __atomic_fetch_add(&lock->tail, 1)
Take(p) ==
    /\ tkt' = [tkt EXCEPT ![p] = tail]
    /\ tail' = (tail + 1) % TicketMod
    /\ UNCHANGED head

\* Mutant: the local ticket is kept in a narrower type than head.
ServedTruncated(p) == head % (TicketMod \div 2) = tkt[p] % (TicketMod \div 2)

\* __atomic_load_n(&lock->head) == ticket ends the spin
Served(p) == head = tkt[p]

\* Mutant: the release bumps the tail half of head_tail.
GiveTail == tail' = (tail + 1) % TicketMod /\ UNCHANGED <<head, tkt>>

\* __atomic_fetch_add(&lock->head, 1)
Give == head' = (head + 1) % TicketMod /\ UNCHANGED <<tail, tkt>>

\* spin_trylock: the lock is free when the halves of head_tail are equal;
\* the compare-exchange then stores tail + 1 (old + 0x10000).  A failed
\* check or exchange returns 0 and changes nothing.
IsFree == head = tail

\* Mutant: spin_trylock without the free check.
TryTakeNoFree(p) == Take(p)

TryTake(p) == IsFree /\ Take(p)

(***************************************************************************)
(* A CPU using the lock.                                                   *)
(***************************************************************************)
Init ==
    /\ head = 0 /\ tail = 0
    /\ tkt = [p \in Procs |-> 0]
    /\ pc = [p \in Procs |-> "idle"]

Lock(p) ==
    /\ pc[p] = "idle" /\ Take(p)
    /\ pc' = [pc EXCEPT ![p] = "spin"]

Acquire(p) ==
    /\ pc[p] = "spin" /\ Served(p)
    /\ pc' = [pc EXCEPT ![p] = "cs"]
    /\ UNCHANGED lockVars

Unlock(p) ==
    /\ pc[p] = "cs" /\ Give
    /\ pc' = [pc EXCEPT ![p] = "idle"]

TryLock(p) ==
    /\ pc[p] = "idle" /\ TryTake(p)
    /\ pc' = [pc EXCEPT ![p] = "cs"]

Next == \E p \in Procs : Lock(p) \/ Acquire(p) \/ Unlock(p) \/ TryLock(p)

\* A CPU that holds a spinlock releases it (kernel critical sections are
\* finite and run with the lock held); a spinning CPU keeps loading head.
\* Nothing forces a CPU to ask for the lock.
Fairness == \A p \in Procs : WF_<<lockVars, pc>>(Acquire(p)) /\ WF_<<lockVars, pc>>(Unlock(p))

Spec == Init /\ [][Next]_<<lockVars, pc>> /\ Fairness

(***************************************************************************)
(* Properties.                                                             *)
(***************************************************************************)
Holder == IF \E p \in Procs : pc[p] = "cs" THEN CHOOSE p \in Procs : pc[p] = "cs" ELSE NoOwner

TypeOK ==
    /\ head \in 0..(TicketMod - 1) /\ tail \in 0..(TicketMod - 1)
    /\ tkt \in [Procs -> 0..(TicketMod - 1)]
    /\ pc \in [Procs -> {"idle", "spin", "cs"}]

\* The ticket lock implements the abstract lock, the owner being the CPU
\* that returned from spin_lock or a successful spin_trylock.
Abs == INSTANCE AbstractLock WITH owner <- Holder
ImplementsLock == Abs!Spec

\* Every CPU that calls spin_lock eventually returns from it.
StarvationFree == \A p \in Procs : pc[p] = "spin" ~> pc[p] = "cs"

=============================================================================
