----------------------------- MODULE RunQueue -----------------------------
(***************************************************************************)
(* One CPU's run queue (run_queue_t, include/os3/scheduler.h:121-158) and  *)
(* the operations on it that do not depend on the rest of the system:      *)
(* the list and counter updates of enqueue/dequeue/schedule, the O(1)      *)
(* pick_next_thread scan, and the OS/2 priority mapping.                   *)
(*                                                                         *)
(* A run queue is a record                                                 *)
(*   q   : [Keys -> Seq(thread)]   queues[class][level].queue              *)
(*   cnt : [Keys -> counter]       queues[class][level].count              *)
(*   nr  : counter                 nr_running                              *)
(*   act : [Classes -> SUBSET 0..31]  active_bitmap[class] as bit indices  *)
(*   cbm : SUBSET Classes          class_bitmap                            *)
(* plus cur and ticks, used by Scheduler.                                  *)
(***************************************************************************)
EXTENDS Integers, Sequences, FiniteSets, FiniteSetsExt

CONSTANTS
    Classes,      \* scheduling classes the model's run queues carry
    Levels,       \* priority levels (dynamic_priority % 32) carried
    CounterMod    \* 2^w: uint32 queue counters reduced to w bits

ASSUME Classes \subseteq 0..4 /\ Levels \subseteq 0..31 /\ 0 \in Classes /\ 0 \in Levels

Keys == Classes \X Levels               \* the prio_queue_t array of a run queue

(***************************************************************************)
(* uint32 counters, reduced to CounterMod.                                 *)
(***************************************************************************)
Inc(x) == (x + 1) % CounterMod
Dec(x) == (x + CounterMod - 1) % CounterMod


\* queues[c][p] for any p the scan computes; queues outside Keys are empty.
QueueAt(r, k) == IF k \in Keys THEN r.q[k] ELSE <<>>

(***************************************************************************)
(* os2_to_internal_priority (scheduler.h:185-201).  prtylevel is a uint8_t *)
(* parameter, so the caller's (new_prio - 16) arrives reduced mod 256, and *)
(* the uint8_t result is reduced mod 256 again.                            *)
(***************************************************************************)
Os2ToInternal(pclass, plevel) ==
    LET sc == CASE pclass = 1 -> 0 [] pclass = 2 -> 1 [] pclass = 3 -> 2
                [] pclass = 4 -> 3 [] OTHER -> 1
        lv == ((plevel % 256) + 31) \div 2
    IN (sc * 32 + (IF lv > 31 THEN 31 ELSE lv)) % 256

(***************************************************************************)
(* pick_next_thread (scheduler.c:133-165), translated bit for bit:         *)
(* active_bitmap[c] is the set of bit indices 31 - level; find_first_bit   *)
(* is the least set index; the loop tests bit (31 - p) and then reads      *)
(* queues[c][31 - p].                                                      *)
(***************************************************************************)
ScanHits(r, c) ==
    IF r.act[c] = {} THEN {}
    ELSE {p \in Min(r.act[c])..31 : (31 - p) \in r.act[c]
                                     /\ QueueAt(r, <<c, 31 - p>>) # <<>>}

PickNext(r, idle) ==
    IF r.nr = 0 THEN idle
    ELSE LET ok == {c \in r.cbm : ScanHits(r, c) # {}}
         IN IF ok = {} THEN idle
            ELSE LET c == Max(ok) IN Head(r.q[<<c, 31 - Min(ScanHits(r, c))>>])

(***************************************************************************)
(* Mutants: faults of the code below that the properties must detect.      *)
(***************************************************************************)
\* The bit of the level itself instead of bit (31 - level).
AddToRqBitIndex(r, t, k) ==
    [r EXCEPT !.q[k] = Append(@, t), !.cnt[k] = Inc(@), !.nr = Inc(@),
              !.act[k[1]] = @ \cup {k[2]}, !.cbm = @ \cup {k[1]}]

\* nr_running-- forgotten.
DropCountKeepNr(r, k) ==
    LET n == Dec(r.cnt[k])
    IN [r EXCEPT !.cnt[k] = n,
                 !.act[k[1]] = IF n = 0 THEN @ \ {31 - k[2]} ELSE @,
                 !.cbm = IF n = 0 /\ r.act[k[1]] \ {31 - k[2]} = {} THEN @ \ {k[1]} ELSE @]

\* The class bit cleared whenever one of its levels empties.
DropCountClassEager(r, k) ==
    LET n == Dec(r.cnt[k])
    IN [r EXCEPT !.cnt[k] = n, !.nr = Dec(@),
                 !.act[k[1]] = IF n = 0 THEN @ \ {31 - k[2]} ELSE @,
                 !.cbm = IF n = 0 THEN @ \ {k[1]} ELSE @]

\* list_add_tail plus the counter and bitmap updates of enqueue_thread and
\* of the re-enqueue in schedule().
AddToRq(r, t, k) ==
    [r EXCEPT !.q[k] = Append(@, t), !.cnt[k] = Inc(@), !.nr = Inc(@),
              !.act[k[1]] = @ \cup {31 - k[2]}, !.cbm = @ \cup {k[1]}]

\* The counter and bitmap updates of dequeue_thread / schedule() for list k.
DropCount(r, k) ==
    LET n == Dec(r.cnt[k])
        a == IF n = 0 THEN r.act[k[1]] \ {31 - k[2]} ELSE r.act[k[1]]
    IN [r EXCEPT !.cnt[k] = n, !.nr = Dec(@), !.act[k[1]] = a,
                 !.cbm = IF n = 0 /\ a = {} THEN @ \ {k[1]} ELSE @]

=============================================================================
