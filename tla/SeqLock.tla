------------------------------ MODULE SeqLock ------------------------------
(***************************************************************************)
(* The sequence lock of include/os3/spinlock.h (289-329).  A writer takes  *)
(* the inner ticket spinlock, makes sequence odd, updates the data and     *)
(* makes sequence even again before it unlocks; a reader waits for an even *)
(* sequence, copies the data and goes round again if sequence changed:     *)
(*   do { s = read_seqbegin(sl); copy } while (read_seqretry(sl, s));      *)
(* The data are two words that a write sets, one after the other, to the   *)
(* next version; a torn copy is one whose words differ.  x86 keeps loads   *)
(* and stores in program order (the acquire/release atomics and the        *)
(* lfence/sfence of rmb/wmb), so every load and store is one step.         *)
(***************************************************************************)
EXTENDS Naturals, FiniteSets

CONSTANTS
    Procs, TicketMod, NoOwner,
    SeqMod,      \* 2^32 for the uint32_t sequence, reduced
    MaxWrites    \* bound: writes in a behaviour, started ones included

\* sequence wraps only after SeqMod / 2 writes; with uint32_t that is 2^31
\* writes during one read, which no reader lasts.  The bound keeps the
\* reduced counter from wrapping within a read.
ASSUME SeqMod % 2 = 0 /\ MaxWrites \in Nat /\ 2 * MaxWrites < SeqMod

VARIABLES
    seq,                    \* sl->sequence
    qHead, qTail, qTkt,     \* sl->lock
    word,                   \* <<w1, w2>>: the data the seqlock protects
    ver,                    \* writes completed
    start,                  \* [Procs -> the sequence read_seqbegin returned]
    snap,                   \* [Procs -> <<w1, w2>> as the reader copied them]
    pc

Q == INSTANCE TicketLock WITH head <- qHead, tail <- qTail, tkt <- qTkt

seqVars == <<seq, qHead, qTail, qTkt, word, ver, start, snap>>
vars    == <<seqVars, pc>>

\* seqlock_init / SEQLOCK_INIT: sequence 0, the spinlock free.
Init ==
    /\ seq = 0 /\ qHead = 0 /\ qTail = 0 /\ qTkt = [p \in Procs |-> 0]
    /\ word = <<0, 0>> /\ ver = 0
    /\ start = [p \in Procs |-> 0] /\ snap = [p \in Procs |-> <<0, 0>>]
    /\ pc = [p \in Procs |-> "idle"]

Goto(p, s) == pc' = [pc EXCEPT ![p] = s]

WriterStates == {"ws_spin", "ws_w1", "ws_w2", "ws_end"}
Writing == {p \in Procs : pc[p] \in WriterStates}

(***************************************************************************)
(* Writer.                                                                 *)
(***************************************************************************)
\* write_seqlock: spin_lock(&sl->lock) takes a ticket ...
WriteSeqlock(p) ==
    /\ pc[p] = "idle" /\ ver + Cardinality(Writing) < MaxWrites /\ Q!Take(p)
    /\ Goto(p, "ws_spin")
    /\ UNCHANGED <<seq, word, ver, start, snap>>

\* ... and, once served, __atomic_fetch_add(&sl->sequence, 1): odd.
WriteSeqBegin(p) ==
    /\ pc[p] = "ws_spin" /\ Q!Served(p)
    /\ seq' = (seq + 1) % SeqMod /\ Goto(p, "ws_w1")
    /\ UNCHANGED <<qHead, qTail, qTkt, word, ver, start, snap>>

\* The caller's update of the protected data, one word at a time.
WriteWord1(p) ==
    /\ pc[p] = "ws_w1"
    /\ word' = [word EXCEPT ![1] = ver + 1] /\ Goto(p, "ws_w2")
    /\ UNCHANGED <<seq, qHead, qTail, qTkt, ver, start, snap>>

WriteWord2(p) ==
    /\ pc[p] = "ws_w2"
    /\ word' = [word EXCEPT ![2] = ver + 1] /\ ver' = ver + 1
    /\ Goto(p, "ws_end")
    /\ UNCHANGED <<seq, qHead, qTail, qTkt, start, snap>>

\* write_sequnlock: __atomic_fetch_add(&sl->sequence, 1) (even again),
\* then spin_unlock(&sl->lock).
WriteSequnlock(p) ==
    /\ pc[p] = "ws_end"
    /\ seq' = (seq + 1) % SeqMod /\ Q!Give /\ Goto(p, "idle")
    /\ UNCHANGED <<word, ver, start, snap>>

(***************************************************************************)
(* Reader.                                                                 *)
(***************************************************************************)
\* The caller enters its read loop.
ReadBegin(p) ==
    /\ pc[p] = "idle" /\ Goto(p, "rs_begin")
    /\ UNCHANGED seqVars

ReadSeqbegin(p) ==
    /\ pc[p] = "rs_begin" /\ seq % 2 = 0
    /\ start' = [start EXCEPT ![p] = seq] /\ Goto(p, "rs_w1")
    /\ UNCHANGED <<seq, qHead, qTail, qTkt, word, ver, snap>>

\* The caller's copy of the data, one word at a time.
ReadWord1(p) ==
    /\ pc[p] = "rs_w1"
    /\ snap' = [snap EXCEPT ![p][1] = word[1]] /\ Goto(p, "rs_w2")
    /\ UNCHANGED <<seq, qHead, qTail, qTkt, word, ver, start>>

ReadWord2(p) ==
    /\ pc[p] = "rs_w2"
    /\ snap' = [snap EXCEPT ![p][2] = word[2]] /\ Goto(p, "rs_check")
    /\ UNCHANGED <<seq, qHead, qTail, qTkt, word, ver, start>>

\* Mutant: read_seqretry tests sequence == start.
ReadSeqretryInverted(p) ==
    /\ pc[p] = "rs_check"
    /\ Goto(p, IF seq = start[p] THEN "rs_begin" ELSE "rs_done")
    /\ UNCHANGED seqVars

\* read_seqretry: rmb(); sequence != start sends the reader round again.
ReadSeqretry(p) ==
    /\ pc[p] = "rs_check"
    /\ Goto(p, IF seq # start[p] THEN "rs_begin" ELSE "rs_done")
    /\ UNCHANGED seqVars

\* The caller uses its copy and leaves.
ReadUse(p) ==
    /\ pc[p] = "rs_done" /\ Goto(p, "idle")
    /\ UNCHANGED seqVars

Next ==
    \E p \in Procs :
        \/ WriteSeqlock(p) \/ WriteSeqBegin(p) \/ WriteWord1(p) \/ WriteWord2(p)
        \/ WriteSequnlock(p)
        \/ ReadBegin(p) \/ ReadSeqbegin(p) \/ ReadWord1(p) \/ ReadWord2(p)
        \/ ReadSeqretry(p) \/ ReadUse(p)

\* A writer holding sl->lock finishes its write section; a reader in its
\* loop keeps loading sequence and copying.  Nothing forces a CPU to start
\* a read or a write.
Fairness ==
    \A p \in Procs :
        /\ WF_vars(WriteSeqBegin(p)) /\ WF_vars(WriteWord1(p)) /\ WF_vars(WriteWord2(p))
        /\ WF_vars(WriteSequnlock(p))
        /\ WF_vars(ReadSeqbegin(p)) /\ WF_vars(ReadWord1(p)) /\ WF_vars(ReadWord2(p))
        /\ WF_vars(ReadSeqretry(p))

Spec == Init /\ [][Next]_vars /\ Fairness

PcStates == {"idle", "rs_begin", "rs_w1", "rs_w2", "rs_check", "rs_done"} \cup WriterStates

TypeOK ==
    /\ seq \in 0..(SeqMod - 1) /\ ver \in 0..MaxWrites
    /\ word \in (0..MaxWrites) \X (0..MaxWrites)
    /\ start \in [Procs -> 0..(SeqMod - 1)]
    /\ snap \in [Procs -> (0..MaxWrites) \X (0..MaxWrites)]
    /\ pc \in [Procs -> PcStates]

ReaderCompletes == \A p \in Procs : pc[p] = "rs_begin" ~> pc[p] = "rs_done"

=============================================================================
