----------------------------- MODULE BuddyAlloc -----------------------------
(***************************************************************************)
(* The per-node buddy allocator of kernel/mm/numa.c: numa_alloc_pages     *)
(* (198-264) with its split loop and strict fallback to other nodes        *)
(* (numa_alloc_pages_strict, 269-296), and numa_free_pages (301-342) with  *)
(* its merge loop.  numa_free_pages runs under one node lock and is one   *)
(* step.  numa_alloc_pages drops and re-takes the node lock for every     *)
(* order it tries and calls numa_alloc_pages_strict for every fallback    *)
(* node: each of those locked sections is one step of the calling CPU,    *)
(* and the other CPUs' calls run in between.                              *)
(*                                                                         *)
(* A block is a pair <<pfn, order>>.  The struct page fields the code      *)
(* reads are kept per page frame: PAGE_FLAG_BUDDY and page->order.         *)
(* No code of this repository fills the free lists (numa_add_memory only   *)
(* records the range): the model starts with every page frame held by the  *)
(* boot code as an order-0 block that it may hand to numa_free_pages.      *)
(***************************************************************************)
EXTENDS Naturals, Sequences, SequencesExt, Bitwise, Bags, BagsExt

CONSTANTS
    NodeCount,      \* numa_topo.num_nodes (NUMA enabled: at least 2)
    PagesPerNode,   \* page frames per node, node n owns n*PagesPerNode ..
    MAX_ORDER,      \* number of free lists per node
    Distance,       \* [node -> [node -> distance]], the SLIT matrix
    CountMod,       \* 2^32 for the uint32_t free_count, reduced
    PAGE_SIZE,      \* bytes per page frame, reduced
    Sizes,          \* kmalloc_node size arguments
    Cpus,           \* CPUs calling the allocator
    NoCall          \* a CPU with no numa_alloc_pages call in progress

ASSUME NodeCount >= 2 /\ MAX_ORDER >= 1
ASSUME PagesPerNode % (2 ^ (MAX_ORDER - 1)) = 0
\* numa_alloc_pages has no order check: a size above the largest block
\* would index free_count past MAX_ORDER.  The model passes none.
ASSUME PAGE_SIZE >= 1 /\ Sizes \subseteq 1..(PAGE_SIZE * 2 ^ (MAX_ORDER - 1))

Nodes  == 0..(NodeCount - 1)
Pfns   == 0..(NodeCount * PagesPerNode - 1)
Orders == 0..(MAX_ORDER - 1)
NodeOf(p) == p \div PagesPerNode          \* page->numa_node

\* The fallback rows numa_build_fallback_order computes from Distance.
FB(n) == INSTANCE NumaPolicy WITH DistVals <- {}, dist <- Distance[n], req <- 0
Fallback(n) == FB(n)!BuildRow(Distance[n])

VARIABLES
    fl,      \* [node -> [order -> Seq(pfn)]]: free_list, head first
    fc,      \* [node -> [order -> count]]: free_count
    fp,      \* [node -> Nat]: free_pages
    buddy,   \* [pfn -> BOOLEAN]: PAGE_FLAG_BUDDY of struct page
    pord,    \* [pfn -> order]: page->order
    held,    \* bag of blocks the callers hold (returned and not yet freed)
    apc,     \* [Cpus -> the numa_alloc_pages call in progress, or NoCall]
    wild     \* an allocation popped an empty list: list_first_entry of an
             \* empty list returns the list head itself as a page

vars == <<fl, fc, fp, buddy, pord, held, apc, wild>>

Dec(x) == (x + CountMod - 1) % CountMod
Inc(x) == (x + 1) % CountMod

St == [fl |-> fl, fc |-> fc, fp |-> fp, buddy |-> buddy, pord |-> pord]

ApplySt(s) ==
    /\ fl' = s.fl /\ fc' = s.fc /\ fp' = s.fp /\ buddy' = s.buddy /\ pord' = s.pord

(***************************************************************************)
(* Allocation.                                                             *)
(***************************************************************************)
\* list_first_entry + list_del + free_count-- of free_list[o] on node n.
Pop(s, n, o) == [s EXCEPT !.fl[n][o] = Tail(@), !.fc[n][o] = Dec(@)]

\* The split loop: while (i > order) { i--; list_add(page + 2^i, free_list[i]) }.
SplitShort(s, n, p, i, o) ==
    FoldLeft(LAMBDA acc, j : [acc EXCEPT !.fl[n][j] = <<p + 2 ^ j>> \o @,
                                         !.fc[n][j] = Inc(@)],
             s, [x \in 1..(i - o - 1) |-> i - x])

Split(s, n, p, i, o) ==
    FoldLeft(LAMBDA acc, j : [acc EXCEPT !.fl[n][j] = <<p + 2 ^ j>> \o @,
                                         !.fc[n][j] = Inc(@)],
             s, [x \in 1..(i - o) |-> i - x])

\* A call in progress is [node, order, try]: the try-th locked section of
\* numa_alloc_pages(node, order).  Tries 1 .. MAX_ORDER - order look at
\* orders order .. MAX_ORDER - 1 of the node itself (the first check, then
\* the split loop); the next NodeCount - 1 tries are
\* numa_alloc_pages_strict(fallback[node][x], order) for x = 1 .. n - 1.
LocalTries(a) == MAX_ORDER - a.order
TryNode(a)  == IF a.try <= LocalTries(a) THEN a.node
               ELSE Fallback(a.node)[a.try - LocalTries(a) + 1]
TryOrder(a) == IF a.try <= LocalTries(a) THEN a.order + a.try - 1 ELSE a.order
LastTry(a)  == a.try = LocalTries(a) + NodeCount - 1

\* numa_alloc_pages takes a block of order i from node m for a request of
\* order o: the block is popped, split down to o (its upper halves go back
\* on the lists of node m) and free_pages of m drops by 2^o.  When
\* free_count says the list is non-empty but it is empty, list_first_entry
\* returns the list head itself (wild).
AllocFrom(m, i, n, o) ==
    LET s == St IN
    IF fl[m][i] = <<>>
    THEN wild' = TRUE /\ ApplySt([s EXCEPT !.fc[m][i] = Dec(@)]) /\ UNCHANGED held
    ELSE LET p  == Head(fl[m][i])
             s1 == Split(Pop(s, m, i), m, p, i, o)
         IN /\ ApplySt([s1 EXCEPT !.fp[m] = @ - 2 ^ o])
            /\ held' = held (+) SetToBag({<<p, o>>})
            /\ UNCHANGED wild

\* One locked section of CPU c's call a: spin_lock_irqsave(&nmi->lock),
\* if free_count[i] > 0 take the block and return it, else unlock and go
\* on to the next try; after the last fallback node the call returns NULL.
Try(c, a) ==
    LET m == TryNode(a)
        i == TryOrder(a)
    IN /\ ~wild
       /\ \/ /\ fc[m][i] > 0 /\ AllocFrom(m, i, a.node, a.order)
             /\ apc' = [apc EXCEPT ![c] = NoCall]
          \/ /\ fc[m][i] = 0
             /\ apc' = [apc EXCEPT ![c] = IF LastTry(a) THEN NoCall ELSE [a EXCEPT !.try = @ + 1]]
             /\ UNCHANGED <<fl, fc, fp, buddy, pord, held, wild>>

\* CPU c calls numa_alloc_pages(n, o) and runs its first locked section.
Alloc(c, n, o) == apc[c] = NoCall /\ Try(c, [node |-> n, order |-> o, try |-> 1])

\* CPU c runs the next locked section of its call.
AllocNext(c) == apc[c] # NoCall /\ Try(c, apc[c])

(***************************************************************************)
(* kmalloc_node (numa.c:347-359): numa_alloc_pages of the smallest order   *)
(* whose block holds size bytes.                                           *)
(***************************************************************************)
KmallocNode(c, size, node) ==
    LET o == FB(node)!KmallocOrder(size)
    IN o \in Orders /\ Alloc(c, node, o)

(***************************************************************************)
(* Free.                                                                   *)
(***************************************************************************)
\* Mutant: the merge loop runs while order < MAX_ORDER.
RECURSIVE MergeTooFar(_, _, _, _)
MergeTooFar(s, n, p, o) ==
    LET b == p ^^ (2 ^ o) IN
    IF o < MAX_ORDER /\ b \in Pfns /\ s.buddy[b] /\ s.pord[b] = o
    THEN MergeTooFar([s EXCEPT !.fl[n][o] = RemoveFirst(@, b), !.fc[n][o] = Dec(@),
                               !.buddy[b] = FALSE], n, IF b < p THEN b ELSE p, o + 1)
    ELSE [s EXCEPT !.pord[p] = o, !.buddy[p] = TRUE, !.fl[n][o] = <<p>> \o @,
                   !.fc[n][o] = Inc(@), !.fp[n] = @ + 2 ^ o]

\* Mutant: the merged block keeps the higher address.
RECURSIVE MergeHigh(_, _, _, _)
MergeHigh(s, n, p, o) ==
    LET b == p ^^ (2 ^ o) IN
    IF o < MAX_ORDER - 1 /\ s.buddy[b] /\ s.pord[b] = o
    THEN MergeHigh([s EXCEPT !.fl[n][o] = RemoveFirst(@, b), !.fc[n][o] = Dec(@),
                             !.buddy[b] = FALSE], n, IF b < p THEN p ELSE b, o + 1)
    ELSE [s EXCEPT !.pord[p] = o, !.buddy[p] = TRUE, !.fl[n][o] = <<p>> \o @,
                   !.fc[n][o] = Inc(@), !.fp[n] = @ + 2 ^ o]

\* The merge loop and the final list_add of numa_free_pages for the block
\* at page p, order o, on node n.  The buddy "is free" when its page has
\* PAGE_FLAG_BUDDY and page->order = o; list_del of a buddy that is on no
\* list leaves the lists as they are.  free_pages grows by 2^(final order).
RECURSIVE Merge(_, _, _, _)
Merge(s, n, p, o) ==
    LET b == p ^^ (2 ^ o) IN
    IF o < MAX_ORDER - 1 /\ s.buddy[b] /\ s.pord[b] = o
    THEN Merge([s EXCEPT !.fl[n][o] = RemoveFirst(@, b), !.fc[n][o] = Dec(@),
                         !.buddy[b] = FALSE], n, IF b < p THEN b ELSE p, o + 1)
    ELSE [s EXCEPT !.pord[p] = o, !.buddy[p] = TRUE, !.fl[n][o] = <<p>> \o @,
                   !.fc[n][o] = Inc(@), !.fp[n] = @ + 2 ^ o]

\* numa_free_pages(ptr, order) by a caller holding block blk.
Free(blk) ==
    /\ ~wild
    /\ BagIn(blk, held)
    /\ ApplySt(Merge(St, NodeOf(blk[1]), blk[1], blk[2]))
    /\ held' = held (-) SetToBag({blk})
    /\ UNCHANGED <<apc, wild>>

Init ==
    /\ fl = [n \in Nodes |-> [o \in Orders |-> <<>>]]
    /\ fc = [n \in Nodes |-> [o \in Orders |-> 0]]
    /\ fp = [n \in Nodes |-> 0]
    /\ buddy = [p \in Pfns |-> FALSE]
    /\ pord = [p \in Pfns |-> 0]
    /\ held = SetToBag({<<p, 0>> : p \in Pfns})
    /\ apc = [c \in Cpus |-> NoCall]
    /\ wild = FALSE

Next ==
    \/ \E c \in Cpus, n \in Nodes, o \in Orders : Alloc(c, n, o)
    \/ \E c \in Cpus : AllocNext(c)
    \/ \E blk \in BagToSet(held) : Free(blk)
    \/ \E c \in Cpus, sz \in Sizes, n \in Nodes : KmallocNode(c, sz, n)

Spec == Init /\ [][Next]_vars

(***************************************************************************)
(* Properties.                                                             *)
(***************************************************************************)
PagesOf(blk) == blk[1]..(blk[1] + 2 ^ blk[2] - 1)

\* Every free-list entry of node n at order o, with its multiplicity.
FreeEntries ==
    UNION {{<<no[1], no[2], i>> : i \in 1..Len(fl[no[1]][no[2]])} : no \in Nodes \X Orders}
BlockOf(e) == <<fl[e[1]][e[2]][e[3]], e[2]>>

TypeOK ==
    /\ fl \in [Nodes -> [Orders -> Seq(Pfns)]]
    /\ fc \in [Nodes -> [Orders -> 0..(CountMod - 1)]]
    /\ fp \in [Nodes -> Nat]
    /\ buddy \in [Pfns -> BOOLEAN]
    /\ pord \in [Pfns -> Orders]
    /\ IsABag(held) /\ BagToSet(held) \subseteq Pfns \X Orders
    /\ apc \in [Cpus -> {NoCall} \cup [node : Nodes, order : Orders,
                                       try : 1..(MAX_ORDER + NodeCount - 1)]]
    /\ wild \in BOOLEAN

\* No page frame is lost: every frame lies in a block some caller holds or
\* in a block on a free list.  The split loop must push back every upper
\* half and the merge loop must keep the lower address of a merged pair.
NoPageLost ==
    \A p \in Pfns :
        \/ \E blk \in BagToSet(held) : p \in PagesOf(blk)
        \/ \E e \in FreeEntries : p \in PagesOf(BlockOf(e))

\* A block on node n's free list of order o starts on a multiple of 2^o and
\* lies within node n (spec section 3: "buddies on a free list have the
\* documented alignment and order").
FreeBlocksAligned ==
    \A e \in FreeEntries :
        /\ BlockOf(e)[1] % (2 ^ e[2]) = 0
        /\ \A p \in PagesOf(BlockOf(e)) : NodeOf(p) = e[1]

\* No page frame is in two blocks at once, counting blocks held by callers
\* and blocks on free lists (spec section 8: no two free blocks overlap):
\* otherwise two callers own the same memory.
BlocksDisjoint ==
    \A p \in Pfns :
        LET inHeld == MapThenSumSet(LAMBDA blk : IF p \in PagesOf(blk)
                                                 THEN CopiesIn(blk, held) ELSE 0,
                                    BagToSet(held))
            inFree == Cardinality({e \in FreeEntries : p \in PagesOf(BlockOf(e))})
        IN inHeld + inFree <= 1

\* free_pages is the sum of free_count[k] * 2^k over the orders (spec
\* section 8).
FreePagesExact ==
    \A n \in Nodes : fp[n] = MapThenSumSet(LAMBDA o : fc[n][o] * 2 ^ o, Orders)

\* Every page frame is accounted for once: no frame is owned twice
\* (BlocksDisjoint) and free_pages counts each free frame once
\* (FreePagesExact).  numa_free_pages breaks both when it merges: a merged
\* buddy that was in fact allocated, and the buddy's pages counted again.
BuddyAccountedOnce == BlocksDisjoint /\ FreePagesExact

=============================================================================
