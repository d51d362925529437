------------------------------- MODULE Totals -------------------------------
(* Sums, counted unit by unit: the sum of a function's values is the number  *)
(* of its units, one pair of a point and a unit of its value for each.       *)
EXTENDS Integers, FiniteSets

\* The sum of a function into the naturals; what is not above zero adds nothing.
TotalOf(f) == Cardinality(UNION {{x} \X (1 .. f[x]) : x \in DOMAIN f})

\* The sum of one into the integers.
BalanceOf(f) == TotalOf(f) - TotalOf([x \in DOMAIN f |-> -f[x]])
=============================================================================
