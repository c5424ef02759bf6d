------------------------------ MODULE NumaPolicy ------------------------------
(***************************************************************************)
(* The placement computations of kernel/mm/numa.c, each checked against a  *)
(* reference definition over every small input.                            *)
(*                                                                         *)
(* numa_build_fallback_order (numa.c:137-160): for every node i            *)
(* the row fallback[i] starts as 0..N-1 and is bubble-sorted by            *)
(* distance[i][.] with a strict ">" swap test.  numa_alloc_pages then      *)
(* tries fallback[node][1..N-1], taking entry 0 to be the node itself.     *)
(*                                                                         *)
(* The row is checked against the stable sort of the node indices by       *)
(* distance, ties by index, which spec section 4.4 asks for.               *)
(*                                                                         *)
(* kmalloc_node (numa.c:347-359) turns a size in bytes into a buddy order  *)
(* by doubling alloc_size from PAGE_SIZE.                                  *)
(***************************************************************************)
EXTENDS Naturals, Sequences, SequencesExt

CONSTANTS
    NodeCount,   \* numa_topo.num_nodes
    DistVals,    \* distance values a SLIT (or the 10/20 default) may hold
    PAGE_SIZE,   \* bytes per page frame, reduced
    Sizes        \* kmalloc_node size arguments

ASSUME NodeCount \in 1..6 /\ DistVals \subseteq 10..255
ASSUME PAGE_SIZE >= 1 /\ Sizes \subseteq Nat \ {0}

Nodes == 0..(NodeCount - 1)

\* One compare-and-swap of the inner loop, at 0-based position k of row fb
\* (a 1-based TLA+ sequence of node indices), for distance row d.
BubbleStepUnstable(d, fb, k) ==
    IF d[fb[k + 1]] >= d[fb[k + 2]]
    THEN [fb EXCEPT ![k + 1] = fb[k + 2], ![k + 2] = fb[k + 1]]
    ELSE fb

BubbleStep(d, fb, k) ==
    IF d[fb[k + 1]] > d[fb[k + 2]]
    THEN [fb EXCEPT ![k + 1] = fb[k + 2], ![k + 2] = fb[k + 1]]
    ELSE fb

\* The positions k the two loops visit, in order:
\* for (j = 0; j < n - 1; j++) for (k = 0; k < n - j - 1; k++).
Passes(n) ==
    FoldLeft(LAMBDA acc, j : acc \o [x \in 1..(n - j - 1) |-> x - 1],
             <<>>, [x \in 1..(n - 1) |-> x - 1])

\* Row i of numa_topo.fallback for the distance row d = distance[i].
BuildRow(d) ==
    FoldLeft(LAMBDA fb, k : BubbleStep(d, fb, k),
             [x \in 1..NodeCount |-> x - 1], Passes(NodeCount))

\* Reference: node x goes to the position given by the number of nodes that
\* precede it in (distance, index) order.
Precedes(d, y, x) == d[y] < d[x] \/ (d[y] = d[x] /\ y < x)
RefRow(d) ==
    [pos \in 1..NodeCount |->
        CHOOSE x \in Nodes : Cardinality({y \in Nodes : Precedes(d, y, x)}) = pos - 1]

\* Mutant: the loop also doubles when alloc_size = size.
RECURSIVE SizeOrderPastEqual(_, _, _)
SizeOrderPastEqual(size, allocSize, order) ==
    IF allocSize <= size THEN SizeOrderPastEqual(size, allocSize * 2, order + 1) ELSE order

\* while (alloc_size < size) { alloc_size <<= 1; order++; }
RECURSIVE SizeOrder(_, _, _)
SizeOrder(size, allocSize, order) ==
    IF allocSize < size THEN SizeOrder(size, allocSize * 2, order + 1) ELSE order

\* The order kmalloc_node passes to numa_alloc_pages.
KmallocOrder(size) == SizeOrder(size, PAGE_SIZE, 0)

VARIABLES
    dist,   \* distance[i][.] of the node i whose row is built
    req     \* the size argument of kmalloc_node

pvars == <<dist, req>>

Init ==
    /\ dist \in [Nodes -> DistVals]
    /\ req \in Sizes

Next == UNCHANGED pvars

Spec == Init /\ [][Next]_pvars

TypeOK == dist \in [Nodes -> DistVals] /\ req \in Sizes

\* The bubble sort yields the stable distance order the spec requires, so
\* the fallback order is deterministic for equal distances.
FallbackIsStableSort == BuildRow(dist) = RefRow(dist)

\* kmalloc_node asks for the smallest block that holds the request: order
\* o with PAGE_SIZE * 2^o >= size and, for o > 0, PAGE_SIZE * 2^(o-1) < size
\* (a size of exactly PAGE_SIZE * 2^k must not take a block twice as big).
KmallocOrderMinimal ==
    LET o == KmallocOrder(req)
    IN /\ PAGE_SIZE * 2 ^ o >= req
       /\ o = 0 \/ PAGE_SIZE * 2 ^ (o - 1) < req

=============================================================================
