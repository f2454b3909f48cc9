---------------------------- MODULE MCRiskManager ----------------------------
(* Three interchangeable orders of a symbol with a limit of two lots: two to  *)
(* pass the range of the counter and one to make room for the second.  Three  *)
(* fills are enough to open, extend or flip, and close.                       *)
EXTENDS RiskManager, TLC

CONSTANT s1

OneSymbol == {s1}
TwoPrices == {2, 3}
Limited == [s \in {s1} |-> 2]
Symmetry == Permutations(OrderIds)
=============================================================================
