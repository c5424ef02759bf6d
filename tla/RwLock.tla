------------------------------- MODULE RwLock -------------------------------
(***************************************************************************)
(* The read-write spinlock of include/os3/spinlock.h (246-287): an atomic  *)
(* count (0 free, n > 0 readers, -1 a writer) and a ticket spinlock "wait" *)
(* that serialises writers.  A read of count followed by a successful      *)
(* cmpxchg is one atomic step (a failed cmpxchg retries and changes        *)
(* nothing); the writer's spin on wait and its cmpxchg loop are separate   *)
(* steps, as are the two halves of write_trylock.                          *)
(***************************************************************************)
EXTENDS Integers, FiniteSets, Atomic

CONSTANTS Procs, TicketMod, NoOwner

VARIABLES
    cnt,                    \* rw->count
    wHead, wTail, wTkt,     \* rw->wait
    pc                      \* [Procs -> state] of each CPU

W == INSTANCE TicketLock WITH head <- wHead, tail <- wTail, tkt <- wTkt

rwVars == <<cnt, wHead, wTail, wTkt>>
waitVars == <<wHead, wTail, wTkt>>

Init == cnt = 0 /\ wHead = 0 /\ wTail = 0 /\ wTkt = [p \in Procs |-> 0]

Goto(p, s) == pc' = [pc EXCEPT ![p] = s]

\* Mutant: the reader does not wait for count >= 0.
ReadLockNoCheck(p) ==
    /\ pc[p] = "idle"
    /\ cnt' = cnt + 1 /\ Goto(p, "r_hold")
    /\ UNCHANGED waitVars

\* read_lock, and read_trylock when it returns 1: count >= 0 and
\* atomic_cmpxchg(count, count, count + 1) succeeds.
ReadLock(p) ==
    /\ pc[p] = "idle" /\ cnt >= 0
    /\ cnt' = CmpxchgNew(cnt, cnt, cnt + 1) /\ Goto(p, "r_hold")
    /\ UNCHANGED waitVars

\* read_unlock: atomic_dec(&rw->count).
ReadUnlock(p) ==
    /\ pc[p] = "r_hold"
    /\ cnt' = AtomicDec(cnt) /\ Goto(p, "idle")
    /\ UNCHANGED waitVars

\* write_lock: spin_lock(&rw->wait) ...
WriteLock(p) ==
    /\ pc[p] = "idle" /\ W!Take(p)
    /\ Goto(p, "w_spin") /\ UNCHANGED cnt

WriteServed(p) ==
    /\ pc[p] = "w_spin" /\ W!Served(p)
    /\ Goto(p, "w_cas") /\ UNCHANGED rwVars

\* ... then while (atomic_cmpxchg(&rw->count, 0, -1) != 0) cpu_relax().
WriteCas(p) ==
    /\ pc[p] = "w_cas" /\ CmpxchgOk(cnt, 0)
    /\ cnt' = CmpxchgNew(cnt, 0, -1) /\ Goto(p, "w_hold")
    /\ UNCHANGED waitVars

\* write_unlock: atomic_set(&rw->count, 0); spin_unlock(&rw->wait).
WriteUnlock(p) ==
    /\ pc[p] = "w_hold"
    /\ cnt' = 0 /\ W!Give /\ Goto(p, "idle")

\* write_trylock: spin_trylock(&rw->wait) ...
WriteTry(p) ==
    /\ pc[p] = "idle" /\ W!TryTake(p)
    /\ Goto(p, "wt_cas") /\ UNCHANGED cnt

\* ... then atomic_cmpxchg(&rw->count, 0, -1): returns 1 on success,
\* otherwise spin_unlock(&rw->wait) and returns 0.
WriteTryCas(p) ==
    /\ pc[p] = "wt_cas"
    /\ \/ CmpxchgOk(cnt, 0) /\ cnt' = CmpxchgNew(cnt, 0, -1) /\ Goto(p, "w_hold")
          /\ UNCHANGED waitVars
       \/ ~CmpxchgOk(cnt, 0) /\ W!Give /\ Goto(p, "idle") /\ UNCHANGED cnt

Next ==
    \E p \in Procs :
        \/ ReadLock(p) \/ ReadUnlock(p)
        \/ WriteLock(p) \/ WriteServed(p) \/ WriteCas(p) \/ WriteUnlock(p)
        \/ WriteTry(p) \/ WriteTryCas(p)

PcStates == {"r_hold", "w_spin", "w_cas", "w_hold", "wt_cas"}

TypeOK ==
    /\ cnt \in -1..Cardinality(Procs)
    /\ wHead \in 0..(TicketMod - 1) /\ wTail \in 0..(TicketMod - 1)
    /\ wTkt \in [Procs -> 0..(TicketMod - 1)]

Readers == {p \in Procs : pc[p] = "r_hold"}
Writers == {p \in Procs : pc[p] = "w_hold"}

\* Readers and a writer exclude each other and writers exclude each other,
\* and count says exactly who holds the lock: -1 for the one writer, the
\* number of readers otherwise (the comment of rwlock_t).
RwExclusion ==
    /\ Cardinality(Writers) <= 1
    /\ Writers = {} \/ Readers = {}
    /\ cnt = IF Writers # {} THEN -1 ELSE Cardinality(Readers)

(***************************************************************************)
(* The rwlock on its own, for its progress property.  No reader is obliged *)
(* to take the lock (no fairness on ReadLock), but a holder leaves its     *)
(* critical section, and a writer keeps spinning: on wait's ticket, then   *)
(* on the cmpxchg, whose success is only intermittently possible, so it   *)
(* gets strong fairness: a writer that finds count = 0 infinitely often    *)
(* takes the lock.                                                         *)
(***************************************************************************)
RwInit == Init /\ pc = [p \in Procs |-> "idle"]

RwFairness ==
    \A p \in Procs :
        /\ WF_<<rwVars, pc>>(ReadUnlock(p)) /\ WF_<<rwVars, pc>>(WriteUnlock(p))
        /\ WF_<<rwVars, pc>>(WriteServed(p)) /\ SF_<<rwVars, pc>>(WriteCas(p))
        /\ WF_<<rwVars, pc>>(WriteTryCas(p))

RwSpec == RwInit /\ [][Next]_<<rwVars, pc>> /\ RwFairness

\* A CPU in write_lock eventually holds the lock: the companion spinlock
\* "serializes writers and prevents writer starvation" (spec 4.1).  read_lock
\* never looks at wait, so readers that overlap keep count above 0.
WriterEnters == \A p \in Procs : pc[p] \in {"w_spin", "w_cas"} ~> pc[p] = "w_hold"

========================================================================
