------------------------------- MODULE MCProc -------------------------------
(***************************************************************************)
(* Model checking of Proc.  The proc_t objects of user processes are       *)
(* interchangeable: which free one the slab allocator returns is not       *)
(* determined.                                                             *)
(***************************************************************************)
EXTENDS Proc, TLC

UserSymmetry == Permutations(User)
=============================================================================
