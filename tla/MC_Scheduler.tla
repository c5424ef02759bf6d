---------------------------- MODULE MC_Scheduler ----------------------------
(***************************************************************************)
(* Instantiates Scheduler for TLC: up to four CPUs and three user         *)
(* threads, the idle class and the Regular class at the levels the code   *)
(* produces.                                                               *)
(***************************************************************************)
EXTENDS Scheduler

CONSTANTS i0, i1, i2, i3, t1, t2, t3

MCIdleOf == [c \in CPUS |-> <<i0, i1, i2, i3>>[c + 1]]

\* The lists grow without bound only by the idle-thread re-enqueue; cut the
\* state space there.
QueueBound == \A c \in CPUS, k \in Keys : Len(rq[c].q[k]) <= MaxQueueLen

\* States after a kernel oops are not explored further.
NotCrashed == ~oops

\* The two-CPU runs stop exploring once the run-queue lists and counters
\* disagree or a thread is on two lists (the violation runs show how that
\* happens); the state where it first happens is still checked.
QueuesSound ==
    /\ CountsMatchLists
    /\ \A t \in AllThreads : Occurrences(t) <= 1

ThreadSymmetry == Permutations(Threads)

MCDeltas == {0, 1}
=============================================================================
