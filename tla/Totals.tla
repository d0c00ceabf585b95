------------------------------- MODULE Totals -------------------------------
(***************************************************************************)
(* The sum of f[x] over the x of a finite set S, counted as the number of  *)
(* pairs <<x, n>> with n among the first f[x] numbers.  References and     *)
(* buffers are counted with it.                                            *)
(***************************************************************************)
EXTENDS Integers, FiniteSets

Units(f, x) == {x} \X (1 .. f[x])

Total(f, S) == Cardinality(UNION {Units(f, x) : x \in S})
=============================================================================
