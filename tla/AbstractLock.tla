---------------------------- MODULE AbstractLock ----------------------------
(***************************************************************************)
(* What a mutual-exclusion lock promises its callers: at any time at most  *)
(* one owner; a caller takes the lock only when it is free and only the    *)
(* owner gives it back.  spin_lock/spin_unlock/spin_trylock of             *)
(* include/os3/spinlock.h are shown to implement it (TicketLock).          *)
(***************************************************************************)
CONSTANTS Procs, NoOwner

ASSUME NoOwner \notin Procs

VARIABLE owner

Take(p) == owner = NoOwner /\ owner' = p
Drop(p) == owner = p /\ owner' = NoOwner

Init == owner = NoOwner
Next == \E p \in Procs : Take(p) \/ Drop(p)
Spec == Init /\ [][Next]_owner

=============================================================================
