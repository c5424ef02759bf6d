--------------------------- MODULE PickNextCheck ---------------------------
(***************************************************************************)
(* Priority dominance from the thread API to pick_next_thread: threads    *)
(* made by DosCreateThread, some of them given a new priority by           *)
(* DosSetPriority(PRTYS_THREAD), are queued on one run queue, and the      *)
(* thread pick_next_thread returns is compared with the order the spec     *)
(* gives their OS/2 priorities.                                            *)
(***************************************************************************)
EXTENDS RunQueue, SequencesExt

CONSTANTS
    Items,     \* threads that may be queued (model values)
    Idle,      \* rq->idle
    Nowhere,   \* placement of a thread on no list
    PClasses,  \* DosSetPriority ulClass inputs, 0..4
    Deltas     \* DosSetPriority delta inputs, -31..31

ASSUME PClasses \subseteq 0..4 /\ Deltas \subseteq -31..31

\* A thread's priority fields: sched_class, base_priority, dynamic_priority.
\* DosCreateThread: Regular class, base 16, dynamic 16.
Created == [cls |-> 1, base |-> 16, dyn |-> 16]

\* DosSetPriority's class switch (0 keeps the class), then
\* apply_priority_change on a created thread: base clamped to 0..31 and
\* dynamic = os2_to_internal_priority(class + 1, base - 16).
ClassOf(pcl)  == IF pcl = 0 THEN Created.cls ELSE pcl - 1
Clamp31(p)    == IF p < 0 THEN 0 ELSE IF p > 31 THEN 31 ELSE p
SetPrio(pcl, d) ==
    LET c == ClassOf(pcl)
        b == Clamp31(Created.base + d)
    IN [cls |-> c, base |-> b, dyn |-> Os2ToInternal(c + 1, b - 16)]

Prios == {Created} \cup {SetPrio(pcl, d) : pcl \in PClasses, d \in Deltas}

\* queues[sched_class][dynamic_priority % 32].
KeyOf(p) == <<p.cls, p.dyn % 32>>

VARIABLE r     \* one run queue, chosen in Init and never changed

\* The well-formed run queue holding each thread i with priority f[i] on
\* its list (counters and both bitmaps exact), as enqueue_thread leaves it.
RqOf(f) ==
    LET at(i) == IF f[i] = Nowhere THEN Nowhere ELSE KeyOf(f[i])
        q == [k \in Keys |-> SetToSeq({i \in Items : at(i) = k})]
        ne == {k \in Keys : q[k] # <<>>}
    IN [q |-> q, cnt |-> [k \in Keys |-> Len(q[k])],
        nr |-> Cardinality({i \in Items : f[i] # Nowhere}),
        act |-> [c \in Classes |-> {31 - k[2] : k \in {x \in ne : x[1] = c}}],
        cbm |-> {k[1] : k \in ne}]

VARIABLE prio  \* [Items -> Prios \cup {Nowhere}]: each thread's priority

Init ==
    /\ prio \in [Items -> Prios \cup {Nowhere}]
    /\ \A i \in Items : prio[i] # Nowhere => KeyOf(prio[i]) \in Keys
    /\ r = RqOf(prio)
Next == UNCHANGED <<r, prio>>
Spec == Init /\ [][Next]_<<r, prio>>

\* The spec's rank of a priority (sections 4.5 and 9): class first, then
\* the level: clamp((delta + 31) / 2, 0, 31) of delta = base - 16 for a
\* priority DosSetPriority set (the canonical formula of section 9), and
\* level 16 for a thread as created (section 4.7 gives it base 16 directly).
SpecRank(p) ==
    <<p.cls, IF p = Created THEN Created.dyn % 32 ELSE Clamp31((p.base - 16 + 31) \div 2)>>
Above(x, y) == x[1] > y[1] \/ (x[1] = y[1] /\ x[2] > y[2])

\* Priority dominance (spec section 8): pick_next_thread returns a queued
\* thread whose OS/2 priority no other queued thread exceeds, and the idle
\* thread only when nothing is queued.  It goes wrong through the
\* bit-index mix-up of pick_next_thread's scan and through
\* os2_to_internal_priority's uint8_t arithmetic on a negative level.
PickIsHighest ==
    LET t == PickNext(r, Idle)
        queued == {i \in Items : prio[i] # Nowhere}
    IN IF queued = {} THEN t = Idle
       ELSE /\ t \in queued
            /\ \A u \in queued : ~Above(SpecRank(prio[u]), SpecRank(prio[t]))

\* The deltas the run uses: one step below, at and above the created
\* thread's base (a .cfg file cannot write a negative number).
MCDeltas == {-2, 0, 2}

=============================================================================
