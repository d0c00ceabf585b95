------------------------------ MODULE MCMy402 -------------------------------
(***************************************************************************)
(* Model checking of My402Sort: lines of input at the limits of what read  *)
(* accepts, and amounts with every number of digits that matters.          *)
(***************************************************************************)
EXTENDS My402Sort

Line(type, time, whole, cents) ==
  [chars |-> 30, blank |-> FALSE, fields |-> 4, type |-> type, tchars |-> 10, time |-> time,
   numeric |-> TRUE, whole |-> whole, cents |-> cents, ncents |-> 2]

Good == {Line("+", 1, 0, 5), Line("+", 1, 9999999, 99), Line("-", 2, 0, 42), Line("-", 2, 9999999, 99),
         Line("+", 3, 1234, 56), Line("+", 3, 9999999, 99), Line("-", 0, 1000, 0)}

Some == Line("+", 2, 10, 0)

Malformed == {[Some EXCEPT !.chars = 1025], [Some EXCEPT !.fields = 3], [Some EXCEPT !.fields = 5],
              [Some EXCEPT !.type = "*"], [Some EXCEPT !.tchars = 11],
              [Some EXCEPT !.time = 4], [Some EXCEPT !.numeric = FALSE],
              [Some EXCEPT !.whole = 10000000], [Some EXCEPT !.ncents = 3, !.whole = 9999999, !.cents = 123],
              [Some EXCEPT !.blank = TRUE]}

SomeLines == Good \cup Malformed
=============================================================================
