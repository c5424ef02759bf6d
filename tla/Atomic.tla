------------------------------- MODULE Atomic -------------------------------
(***************************************************************************)
(* The atomic_t operations of include/os3/atomic.h that this kernel uses   *)
(* (read, set, dec, cmpxchg), as functions of the int32_t counter.         *)
(* Each is a single __atomic builtin, so a caller's use of one is part of  *)
(* one indivisible step.  atomic_read and atomic_set are a load and a      *)
(* store of the counter and need no operator.                              *)
(***************************************************************************)
EXTENDS Integers

\* The int32_t range; the counter wraps in two's complement at its ends.
IntMax == 2147483647
IntMin == -IntMax - 1

\* atomic_dec: __atomic_fetch_sub by 1.  (atomic_inc is called only on
\* smp_info.ready_count, which nothing reads.)
AtomicDec(v) == IF v = IntMin THEN IntMax ELSE v - 1

\* atomic_cmpxchg(v, old, new) returns old exactly when it stored new ...
CmpxchgOk(v, old) == v = old

\* ... and leaves the counter at new if it held old, unchanged otherwise.
CmpxchgNew(v, old, new) == IF v = old THEN new ELSE v

=============================================================================
