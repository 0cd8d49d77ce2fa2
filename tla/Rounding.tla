------------------------------ MODULE Rounding ------------------------------
(* Integer counterparts of the Python and torch functions the budgets and  *)
(* the scales are computed with.                                           *)
EXTENDS Integers

Least(a, b) == IF a < b THEN a ELSE b
Most(a, b)  == IF a < b THEN b ELSE a

(* round(n / d): the nearest integer; half goes to the even neighbour. *)
Round(n, d) ==
  LET f == n \div d  r == n % d IN
  IF 2 * r < d \/ (2 * r = d /\ f % 2 = 0) THEN f ELSE f + 1
=============================================================================
