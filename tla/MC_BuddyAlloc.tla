--------------------------- MODULE MC_BuddyAlloc ---------------------------
(***************************************************************************)
(* Instantiates BuddyAlloc for TLC: two nodes at the default distances     *)
(* numa_init uses without a SLIT (10 local, 20 remote).                    *)
(***************************************************************************)
EXTENDS BuddyAlloc

CONSTANTS MaxFreePages   \* bound: free_pages grows past the node size

MCDistance == [i \in Nodes |-> [j \in Nodes |-> IF i = j THEN 10 ELSE 20]]

\* free_pages is over-counted by merges and grows without bound over
\* alloc/free cycles; states past the bound, and states after a wild
\* allocation, are not explored further.
StateBound == (\A n \in Nodes : fp[n] <= MaxFreePages) /\ ~wild

\* The CPUs calling the allocator are interchangeable.
CpuSymmetry == Permutations(Cpus)

=============================================================================
