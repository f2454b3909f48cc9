--------------------------- MODULE MCOrderReplay ---------------------------
(* A small instance of the order manager with its journal.  The event of    *)
(* the last step is left out of the view: replay has read it.               *)
EXTENDS OrderReplay, TLC

TwoPrices == {1, 2}
Limited == [s \in {Symbol} |-> 2]
Symmetry == Permutations(OwnIds)
View == <<book, taker, ledger, active, history, call, calls, approved, outside,
          replay>>
=============================================================================
