---------------------------- MODULE PriceTimeBook ----------------------------
(***************************************************************************)
(* What engine::OrderBook promises to its one client, the order manager: a *)
(* two-sided limit order book with price-time priority, bounded in orders  *)
(* (the node pool) and in price levels per side.  The nodes, links, level  *)
(* arrays and lookup table that realise it are in module OrderBook, which  *)
(* is checked to implement this one.                                       *)
(*                                                                         *)
(* The book is a record: the resting orders, and the relation "arrived     *)
(* before" between orders of one price level.  Its operations are          *)
(* operators on such records, so that a client can chain them as the code  *)
(* does (a modification is a cancellation followed by an addition).        *)
(* The operators called deviations, here and in the other modules, are no  *)
(* part of the specification: each is the definition after it with a       *)
(* plausible error, which a property must find.                            *)
(*                                                                         *)
(* match_order is a loop; each trade is one step, with the incoming order  *)
(* (the taker) in `taker` meanwhile.                                       *)
(***************************************************************************)
EXTENDS BookTerms

VARIABLES
    book,   \* [orders |-> what rests, ahead |-> time priority in each level]
    taker   \* the incoming order being matched, or NoTaker

vars == <<book, taker>>

Opposite(side) == IF side = "BUY" THEN "SELL" ELSE "BUY"

-----------------------------------------------------------------------------
(* The book as a value                                                     *)

EmptyBook == [orders |-> [id \in OrderIds |-> NoOrder], ahead |-> {}]

Live(b) == {id \in OrderIds : b.orders[id] # NoOrder}

SideOf(b, side) == {id \in Live(b) : b.orders[id].side = side}

Level(b, side, price) == {id \in SideOf(b, side) : b.orders[id].price = price}

LevelPrices(b, side) == {b.orders[id].price : id \in SideOf(b, side)}

\* Deviation: add_order that looks for a free node after taking one.
CanAddOneTooMany(b, id, o) ==
    /\ id \notin Live(b)
    /\ Cardinality(Live(b)) <= PoolSize
    /\ \/ Level(b, o.side, o.price) # {}
       \/ Cardinality(LevelPrices(b, o.side)) < MaxLevels

\* add_order: the identifier is new, a node is free, and the level exists or
\* there is room for one more.
CanAdd(b, id, o) ==
    /\ id \notin Live(b)
    /\ Cardinality(Live(b)) < PoolSize
    /\ \/ Level(b, o.side, o.price) # {}
       \/ Cardinality(LevelPrices(b, o.side)) < MaxLevels

\* The new order goes behind everything that rests in its level.
Added(b, id, o) ==
    [orders |-> [b.orders EXCEPT ![id] = o],
     ahead  |-> b.ahead \cup (Level(b, o.side, o.price) \X {id})]

Canceled(b, id) ==
    [orders |-> [b.orders EXCEPT ![id] = NoOrder],
     ahead  |-> {p \in b.ahead : p[1] # id /\ p[2] # id}]

\* cancel_order_partial, and a fill of n lots: the order keeps its place
\* unless nothing is left of it.
Reduced(b, id, n) ==
    IF n >= b.orders[id].lots
    THEN Canceled(b, id)
    ELSE [orders |-> [b.orders EXCEPT ![id].lots = @ - n], ahead |-> b.ahead]

\* modify_order is a cancellation and an addition: the order loses its place
\* in the queue even when the replacement does not fit and it is put back.
CanModify(b, id, o) == CanAdd(Canceled(b, id), id, o)

Modified(b, id, o) ==
    Added(Canceled(b, id), id, IF CanModify(b, id, o) THEN o ELSE b.orders[id])

\* Everything but a LIMIT order crosses any price (a STOP has no trigger).
Crosses(t, price) ==
    \/ t.type # "LIMIT"
    \/ t.side = "BUY" /\ price <= t.price
    \/ t.side = "SELL" /\ price >= t.price

Candidates(b, t) ==
    {id \in SideOf(b, Opposite(t.side)) : Crosses(t, b.orders[id].price)}

\* x trades before y: at a better price for the taker's opposite side, or at
\* the same price and in front of it.
Before(b, x, y) ==
    \/ b.orders[x].side = "BUY" /\ b.orders[x].price > b.orders[y].price
    \/ b.orders[x].side = "SELL" /\ b.orders[x].price < b.orders[y].price
    \/ <<x, y>> \in b.ahead

IsBest(b, t, m) ==
    /\ m \in Candidates(b, t)
    /\ \A other \in Candidates(b, t) \ {m} : Before(b, m, other)

Smaller(x, y) == IF x <= y THEN x ELSE y

-----------------------------------------------------------------------------
(* The operations                                                          *)

Init == book = EmptyBook /\ taker = NoTaker

\* An operation that the code refuses changes nothing and is not a step.
AddOrder(id, o) ==
    /\ taker = NoTaker /\ UNCHANGED taker
    /\ CanAdd(book, id, o)
    /\ book' = Added(book, id, o)

CancelOrder(id) ==
    /\ taker = NoTaker /\ UNCHANGED taker
    /\ id \in Live(book)
    /\ book' = Canceled(book, id)

CancelOrderPartial(id, n) ==
    /\ taker = NoTaker /\ UNCHANGED taker
    /\ id \in Live(book)
    /\ book' = Reduced(book, id, n)

ModifyOrder(id, o) ==
    /\ taker = NoTaker /\ UNCHANGED taker
    /\ id \in Live(book)
    /\ book' = Modified(book, id, o)

MatchBegin(id, side, type, price, lots, rest) ==
    /\ taker = NoTaker
    /\ taker' = [id |-> id, side |-> side, type |-> type, price |-> price,
                 remaining |-> lots, rest |-> rest, trades |-> <<>>]
    /\ UNCHANGED book

\* One trade, at the maker's price, with the best order that crosses.
MatchTrade ==
    /\ taker # NoTaker
    /\ taker.remaining > 0
    /\ \E m \in OrderIds :
         /\ IsBest(book, taker, m)
         /\ LET n == Smaller(taker.remaining, book.orders[m].lots) IN
            /\ taker' = [taker EXCEPT
                           !.remaining = @ - n,
                           !.trades = Append(@, [maker |-> m, lots |-> n,
                                                 price |-> book.orders[m].price])]
            /\ book' = Reduced(book, m, n)

\* What is left of a LIMIT order rests if it is asked to and fits; if it does
\* not fit it is dropped without a word (the result of add_order is ignored).
Residual(t) == [side |-> t.side, price |-> t.price, lots |-> t.remaining]

Rests(b, t) ==
    /\ t.rest /\ t.type = "LIMIT" /\ t.remaining > 0
    /\ CanAdd(b, t.id, Residual(t))

MatchEnd ==
    /\ taker # NoTaker
    /\ taker.remaining = 0 \/ Candidates(book, taker) = {}
    /\ book' = IF Rests(book, taker)
               THEN Added(book, taker.id, Residual(taker))
               ELSE book
    /\ taker' = NoTaker

Next ==
    \/ \E id \in OrderIds, o \in Orders : AddOrder(id, o) \/ ModifyOrder(id, o)
    \/ \E id \in OrderIds : CancelOrder(id)
    \/ \E id \in OrderIds, n \in Lots : CancelOrderPartial(id, n)
    \/ \E id \in OrderIds, side \in Sides, type \in OrderTypes, price \in Prices,
          lots \in Lots, rest \in BOOLEAN :
            /\ rest => type = "LIMIT"
            /\ MatchBegin(id, side, type, price, lots, rest)
    \/ MatchTrade
    \/ MatchEnd

Spec == Init /\ [][Next]_vars

-----------------------------------------------------------------------------
(* Properties                                                              *)

TypeOK ==
    /\ book \in [orders : [OrderIds -> Orders \cup {NoOrder}],
                 ahead : SUBSET (OrderIds \X OrderIds)]
    /\ taker \in Takers \cup {NoTaker}

SameLevel(b, x, y) ==
    /\ b.orders[x].side = b.orders[y].side
    /\ b.orders[x].price = b.orders[y].price

\* Time priority is a strict total order on the orders of each level and says
\* nothing of any other pair, however orders are added, cut, replaced and
\* filled: match_order always has exactly one order to take next.
TimePriority(b) ==
    /\ \A p \in b.ahead : /\ p[1] \in Live(b) /\ p[2] \in Live(b)
                          /\ SameLevel(b, p[1], p[2])
                          /\ <<p[2], p[1]>> \notin b.ahead
    /\ \A x, y \in Live(b) : SameLevel(b, x, y) /\ x # y
                               => <<x, y>> \in b.ahead \/ <<y, x>> \in b.ahead
    /\ \A x, y, z \in OrderIds :
          <<x, y>> \in b.ahead /\ <<y, z>> \in b.ahead => <<x, z>> \in b.ahead

PriorityTotal == TimePriority(book)

Fits(b) ==
    /\ Cardinality(Live(b)) <= PoolSize
    /\ \A side \in Sides : Cardinality(LevelPrices(b, side)) <= MaxLevels

\* The pool and the level arrays never overflow: add_order, the residual of a
\* match and both halves of modify_order stay within kOrderNodePoolSize nodes
\* and kMaxPriceLevels levels.
WithinCapacity == Fits(book)
=============================================================================
