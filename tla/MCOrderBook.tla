----------------------------- MODULE MCOrderBook -----------------------------
(* Three interchangeable orders of one or two lots share three nodes: lists *)
(* as long as it takes to unlink from the middle, and free-list orders      *)
(* other than the initial one.                                              *)
EXTENDS OrderBook

\* One price more than a side has levels, so that the level array gets full.
ThreePrices == {1, 2, 3}

Symmetry == Permutations(OrderIds)
=============================================================================
