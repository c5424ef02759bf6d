------------------------------ MODULE MC_Locks ------------------------------
(***************************************************************************)
(* The ticket spinlock and the rwlock of include/os3/spinlock.h side by   *)
(* side: CPUs p1..p3 use a ticket spinlock while CPUs r1 and r2 use an     *)
(* rwlock, whose writers share its inner ticket lock; CPUs s1 and s2 use a *)
(* seqlock with its own inner ticket lock.  The locks share no state.  The *)
(* spinlock and the rwlock run interleaved in one behaviour; the seqlock   *)
(* runs in behaviours of its own ("part"), which checks every property of  *)
(* each lock without the product of their state spaces.                    *)
(***************************************************************************)
EXTENDS TicketLock

CONSTANTS p1, p2, p3, r1, r2, s1, s2,
    SeqMod, MaxWrites

RwProcs  == {r1, r2}       \* the CPUs that use the rwlock
SeqProcs == {s1, s2}       \* the CPUs that use the seqlock

VARIABLES cnt, wHead, wTail, wTkt, rpc,
          seq, qHead, qTail, qTkt, word, ver, start, snap, spc,
          part   \* which locks this behaviour exercises

RW == INSTANCE RwLock WITH Procs <- RwProcs, pc <- rpc
SL == INSTANCE SeqLock WITH Procs <- SeqProcs, pc <- spc

tlVars == <<head, tail, tkt>>
rwVars == <<cnt, wHead, wTail, wTkt, rpc>>
slVars  == <<seq, qHead, qTail, qTkt, word, ver, start, snap, spc>>
allVars == <<head, tail, tkt, pc, cnt, wHead, wTail, wTkt, rpc, slVars, part>>

LocksInit ==
    /\ Init /\ RW!Init /\ rpc = [p \in RwProcs |-> "idle"] /\ SL!Init
    /\ part \in {"spin_rw", "seq"}

LocksNext ==
    /\ \/ part = "spin_rw" /\ Next /\ UNCHANGED <<rwVars, slVars>>
       \/ part = "spin_rw" /\ RW!Next /\ UNCHANGED <<tlVars, pc, slVars>>
       \/ part = "seq" /\ SL!Next /\ UNCHANGED <<tlVars, pc, rwVars>>
    /\ UNCHANGED part

LocksSpec == LocksInit /\ [][LocksNext]_allVars /\ Fairness /\ SL!Fairness

LocksTypeOK ==
    /\ head \in 0..(TicketMod - 1) /\ tail \in 0..(TicketMod - 1)
    /\ tkt \in [Procs -> 0..(TicketMod - 1)]
    /\ pc \in [Procs -> {"idle", "spin", "cs"}]
    /\ rpc \in [RwProcs -> {"idle"} \cup RW!PcStates]
    /\ RW!TypeOK
    /\ SL!TypeOK

RwExclusion == RW!RwExclusion

ReaderCompletes == SL!ReaderCompletes

=============================================================================
