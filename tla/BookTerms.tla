------------------------------ MODULE BookTerms ------------------------------
(***************************************************************************)
(* What an order book is given and gives: orders, the incoming order and   *)
(* its trades, and the limits of the class.  Both books have these terms,  *)
(* the one that is promised (PriceTimeBook) and the one that is built      *)
(* (OrderBook).                                                            *)
(***************************************************************************)
EXTENDS Integers, Sequences, FiniteSets

CONSTANTS
    OrderIds,    \* order identifiers
    Prices,      \* price ticks
    MaxLots,     \* largest quantity of an order, in lots
    OrderTypes,  \* order types in use, among LIMIT, MARKET and STOP
    PoolSize,    \* kOrderNodePoolSize: how many orders can rest
    MaxLevels,   \* kMaxPriceLevels: how many prices a side can hold
    NoOrder,     \* the value of an identifier that does not rest
    NoTaker      \* no match in progress

Sides == {"BUY", "SELL"}
Lots == 1 .. MaxLots
Orders == [side : Sides, price : Prices, lots : Lots]
Trades == [maker : OrderIds, price : Prices, lots : Lots]
Takers == [id : OrderIds, side : Sides, type : OrderTypes, price : Prices,
           remaining : 0 .. MaxLots, rest : BOOLEAN, trades : Seq(Trades)]

\* The identifiers and levels are finite, ticks and lots are positive (what
\* validate_order enforces), and the absent values are not orders or takers.
ASSUME BookAssumption ==
    /\ IsFiniteSet(OrderIds)
    /\ Prices \subseteq Nat \ {0}
    /\ MaxLots \in Nat \ {0}
    /\ OrderTypes \subseteq {"LIMIT", "MARKET", "STOP"}
    /\ PoolSize \in Nat \ {0}
    /\ MaxLevels \in Nat \ {0}
    /\ NoOrder \notin Orders
    /\ NoTaker \notin Takers
=============================================================================
