-------------------------- MODULE OrderManagerProofs --------------------------
(***************************************************************************)
(* The order manager, for every set of orders, prices, limits and          *)
(* capacities, and what replay rebuilds from its journal.                  *)
(***************************************************************************)
EXTENDS OrderReplay, SumProofs, SequenceTheorems

BookProofs == INSTANCE PriceTimeBookProofs

-----------------------------------------------------------------------------
(* The book as a value                                                     *)

Books == [orders : [OrderIds -> Book!Orders \cup {NoOrder}],
          ahead : SUBSET (OrderIds \X OrderIds)]

\* A book that the pool and the level arrays have room for.
SoundBook(b) == b \in Books /\ Book!Fits(b)

LEMMA SameOrders ==
    /\ BookProofs!Books = Books
    /\ BookProofs!Orders = Book!Orders
    /\ BookProofs!Lots = Book!Lots
    /\ \A b : BookProofs!Live(b) = Book!Live(b)
BY DEF BookProofs!Books, Books, BookProofs!Orders, Book!Orders, BookProofs!Lots, Book!Lots,
       BookProofs!Sides, Book!Sides, BookProofs!Live, Book!Live

LEMMA SameOperations ==
    /\ \A b : BookProofs!Fits(b) = Book!Fits(b)
    /\ \A b, id : BookProofs!Canceled(b, id) = Book!Canceled(b, id)
    /\ \A b, id, o : BookProofs!Added(b, id, o) = Book!Added(b, id, o)
    /\ \A b, id, o : BookProofs!CanAdd(b, id, o) = Book!CanAdd(b, id, o)
    /\ \A b, id, o : BookProofs!Modified(b, id, o) = Book!Modified(b, id, o)
    /\ \A b, id, n : BookProofs!Reduced(b, id, n) = Book!Reduced(b, id, n)
<1>1. \A S : BookProofs!Cardinality(S) = Book!Cardinality(S)
  BY DEF BookProofs!Cardinality, Book!Cardinality
<1>2. \A b, side, price : /\ BookProofs!LevelPrices(b, side) = Book!LevelPrices(b, side)
                         /\ BookProofs!Level(b, side, price) = Book!Level(b, side, price)
  BY DEF BookProofs!Level, Book!Level, BookProofs!LevelPrices, Book!LevelPrices,
         BookProofs!SideOf, Book!SideOf, BookProofs!Live, Book!Live
<1>3. \A b : BookProofs!Fits(b) = Book!Fits(b)
  BY <1>1, <1>2, SameOrders DEF BookProofs!Fits, Book!Fits, BookProofs!Sides, Book!Sides
<1>4. \A b, id : BookProofs!Canceled(b, id) = Book!Canceled(b, id)
  BY DEF BookProofs!Canceled, Book!Canceled
<1>5. \A b, id, o : BookProofs!Added(b, id, o) = Book!Added(b, id, o)
  BY <1>2 DEF BookProofs!Added, Book!Added
<1>6. \A b, id, o : BookProofs!CanAdd(b, id, o) = Book!CanAdd(b, id, o)
  BY <1>1, <1>2, SameOrders DEF BookProofs!CanAdd, Book!CanAdd
<1>7. \A b, id, o : BookProofs!Modified(b, id, o) = Book!Modified(b, id, o)
  BY <1>4, <1>5, <1>6
  DEF BookProofs!Modified, Book!Modified, BookProofs!CanModify, Book!CanModify
<1>8. \A b, id, n : BookProofs!Reduced(b, id, n) = Book!Reduced(b, id, n)
  BY <1>4 DEF BookProofs!Reduced, Book!Reduced
<1>9. QED
  BY <1>3, <1>4, <1>5, <1>6, <1>7, <1>8

LEMMA BookHolds == BookProofs!BookAssumption /\ IsFiniteSet(OrderIds)
<1>1. \A S : BookProofs!IsFiniteSet(S) = IsFiniteSet(S) /\ Book!IsFiniteSet(S) = IsFiniteSet(S)
  BY DEF BookProofs!IsFiniteSet, Book!IsFiniteSet, IsFiniteSet
<1>2. BookProofs!Orders = Book!Orders /\ BookProofs!Takers = Book!Takers
  BY DEF BookProofs!Orders, BookProofs!Takers, BookProofs!Lots, BookProofs!Sides, BookProofs!Trades,
         Book!Orders, Book!Takers, Book!Lots, Book!Sides, Book!Trades
<1>3. QED
  BY <1>1, <1>2, OrderManagerAssumption

LEMMA Quantities ==
    /\ MaxLots \in Nat \ {0}
    /\ Book!Lots = 1 .. MaxLots /\ Book!Lots \subseteq Nat \ {0}
    /\ Prices \subseteq Nat \ {0}
    /\ NoOrder \notin Book!Orders
    /\ Book!Sides = {"BUY", "SELL"}
BY OrderManagerAssumption DEF Book!Lots, Book!Sides

\* The steps of the book, as what they do to the orders.
LEMMA CanceledOrders ==
    ASSUME NEW b, SoundBook(b), NEW id \in OrderIds
    PROVE  /\ SoundBook(Book!Canceled(b, id))
           /\ Book!Canceled(b, id).orders = [b.orders EXCEPT ![id] = NoOrder]
<1>1. Book!Canceled(b, id) \in Books /\ Book!Fits(Book!Canceled(b, id))
  BY BookProofs!CanceledType, BookProofs!CanceledFits, BookHolds, SameOrders, SameOperations
  DEF SoundBook
<1>2. QED BY <1>1 DEF SoundBook, Book!Canceled

LEMMA AddedOrders ==
    ASSUME NEW b, SoundBook(b), NEW id \in OrderIds, NEW o \in Book!Orders, Book!CanAdd(b, id, o)
    PROVE  /\ SoundBook(Book!Added(b, id, o))
           /\ Book!Added(b, id, o).orders = [b.orders EXCEPT ![id] = o]
<1>1. Book!Added(b, id, o) \in Books /\ Book!Fits(Book!Added(b, id, o))
  BY BookProofs!AddedType, BookProofs!AddedFits, BookHolds, SameOrders, SameOperations
  DEF SoundBook
<1>2. QED BY <1>1 DEF SoundBook, Book!Added

LEMMA ModifiedOrders ==
    ASSUME NEW b, SoundBook(b), NEW id \in Book!Live(b), NEW o \in Book!Orders
    PROVE  /\ SoundBook(Book!Modified(b, id, o))
           /\ Book!Modified(b, id, o).orders =
                [b.orders EXCEPT ![id] = IF Book!CanModify(b, id, o) THEN o ELSE b.orders[id]]
<1>1. Book!Modified(b, id, o) \in Books /\ Book!Fits(Book!Modified(b, id, o))
  BY BookProofs!ModifiedType, BookProofs!ModifiedFits, BookHolds, SameOrders, SameOperations
  DEF SoundBook
<1>2. id \in OrderIds /\ b \in Books
  BY DEF Book!Live, SoundBook
<1>3. QED
  BY <1>1, <1>2 DEF SoundBook, Books, Book!Modified, Book!Added, Book!Canceled

LEMMA ReducedOrders ==
    ASSUME NEW b, SoundBook(b), NEW id \in Book!Live(b), NEW n \in Book!Lots
    PROVE  /\ SoundBook(Book!Reduced(b, id, n))
           /\ Book!Reduced(b, id, n).orders =
                [b.orders EXCEPT ![id] = IF n >= b.orders[id].lots THEN NoOrder
                                         ELSE [b.orders[id] EXCEPT !.lots = b.orders[id].lots - n]]
<1>1. Book!Reduced(b, id, n) \in Books /\ Book!Fits(Book!Reduced(b, id, n))
  BY BookProofs!ReducedType, BookProofs!ReducedFits, BookHolds, SameOrders, SameOperations
  DEF SoundBook
<1>2. id \in OrderIds /\ b \in Books
  BY DEF Book!Live, SoundBook
<1>3. Book!Reduced(b, id, n).orders =
        [b.orders EXCEPT ![id] = IF n >= b.orders[id].lots THEN NoOrder
                                 ELSE [b.orders[id] EXCEPT !.lots = b.orders[id].lots - n]]
  <2>1. CASE n >= b.orders[id].lots
    BY <1>2, <2>1 DEF Books, Book!Reduced, Book!Canceled
  <2>2. CASE ~(n >= b.orders[id].lots)
    <3>1. Book!Reduced(b, id, n).orders = [b.orders EXCEPT ![id].lots = @ - n]
      BY <2>2 DEF Book!Reduced
    <3>2. QED BY <2>2, <3>1
  <2>3. QED BY <2>1, <2>2
<1>4. QED BY <1>1, <1>3 DEF SoundBook

-----------------------------------------------------------------------------
(* The ledger as a value                                                   *)

Ledgers == [reserved : [OrderIds -> Risk!Reservations \cup {NoReservation}],
            committed : -MaxUnits - 1 .. MaxUnits,
            net : [DOMAIN SymbolLimit -> Int],
            killed : BOOLEAN]

\* What is left of a reservation when n lots are released.
LeftOf(r, n) ==
    IF r = NoReservation THEN r
    ELSE IF n >= r.remaining THEN NoReservation
    ELSE [r EXCEPT !.remaining = r.remaining - n]

LEMMA LimitFacts ==
    /\ MaxUnits \in Nat \ {0}
    /\ NoReservation \notin Risk!Reservations
    /\ Risk!Lots = Book!Lots /\ Risk!Sides = Book!Sides
BY OrderManagerAssumption DEF Risk!Lots, Book!Lots, Risk!Sides, Book!Sides

LEMMA Remainder ==
    ASSUME NEW c \in Nat \ {0}, NEW x \in Int
    PROVE  x % c \in 0 .. c - 1
OBVIOUS

LEMMA WrappedInRange ==
    ASSUME NEW x \in Int
    PROVE  Risk!Wrapped(x) \in -MaxUnits - 1 .. MaxUnits
<1> DEFINE c == 2 * (MaxUnits + 1)
<1>1. c \in Nat \ {0} /\ x + MaxUnits + 1 \in Int
  BY LimitFacts
<1>2. (x + MaxUnits + 1) % c \in 0 .. c - 1
  BY <1>1, Remainder
<1>3. Risk!Wrapped(x) = ((x + MaxUnits + 1) % c) - MaxUnits - 1
  BY DEF Risk!Wrapped
<1> DEFINE r == (x + MaxUnits + 1) % c
<1>4. r \in 0 .. c - 1 /\ Risk!Wrapped(x) = r - MaxUnits - 1
  BY <1>2, <1>3
<1> HIDE DEF r
<1>5. QED
  BY <1>4, LimitFacts

LEMMA NotionalInt ==
    ASSUME NEW price \in Prices, NEW n \in Nat, NEW side \in Book!Sides
    PROVE  Risk!Signed(side, Risk!Notional(price, n)) \in Int
<1>1. price * n \in Int
  BY Quantities
<1>2. Risk!Notional(price, n) \in Int
  BY <1>1, LimitFacts DEF Risk!Notional
<1>3. QED BY <1>2 DEF Risk!Signed

LEMMA ReleasedLedger ==
    ASSUME NEW l \in Ledgers, NEW id \in OrderIds, NEW n \in Nat
    PROVE  /\ Risk!Released(l, id, n) \in Ledgers
           /\ Risk!Released(l, id, n).reserved =
                [l.reserved EXCEPT ![id] = LeftOf(l.reserved[id], n)]
           /\ Risk!Released(l, id, n).net = l.net
<1> DEFINE r == l.reserved[id]
           m == IF n <= r.remaining THEN n ELSE r.remaining
           rest == [r EXCEPT !.remaining = r.remaining - m]
           left == IF m = r.remaining THEN NoReservation ELSE rest
           units == Risk!Signed(r.side, Risk!Notional(r.price, m))
<1>1. CASE id \notin Risk!Reserving(l)
  <2>1. r = NoReservation /\ Risk!Released(l, id, n) = l
    BY <1>1 DEF Risk!Reserving, Risk!Released
  <2>2. QED BY <2>1 DEF Ledgers, LeftOf
<1>2. CASE id \in Risk!Reserving(l)
  <2>1. /\ r \in Risk!Reservations /\ r # NoReservation
        /\ Risk!Released(l, id, n) =
             [l EXCEPT !.reserved[id] = left,
                       !.committed = Risk!Wrapped(l.committed - units)]
    BY <1>2, LimitFacts DEF Risk!Reserving, Risk!Released, Ledgers
  <2>2. /\ r.side \in Book!Sides /\ r.price \in Prices /\ r.remaining \in Book!Lots
    BY <2>1, LimitFacts DEF Risk!Reservations
  <2>3. m \in Nat /\ (m # r.remaining => r.remaining - m \in Book!Lots /\ m = n)
    BY <2>2, Quantities
  <2>4. left \in Risk!Reservations \cup {NoReservation}
    BY <2>1, <2>2, <2>3, LimitFacts DEF Risk!Reservations
  <2>5. Risk!Wrapped(l.committed - units) \in -MaxUnits - 1 .. MaxUnits
    BY <2>2, <2>3, NotionalInt, WrappedInRange, LimitFacts DEF Ledgers
  <2>6. left = LeftOf(r, n)
    BY <2>1, <2>2, <2>3, Quantities DEF LeftOf
  <2> DEFINE total == Risk!Wrapped(l.committed - units)
  <2>7. /\ Risk!Released(l, id, n) =
             [l EXCEPT !.reserved[id] = left, !.committed = total]
        /\ left \in Risk!Reservations \cup {NoReservation}
        /\ total \in -MaxUnits - 1 .. MaxUnits
    BY <2>1, <2>4, <2>5
  <2> HIDE DEF left, total, r
  <2>8. /\ Risk!Released(l, id, n) \in Ledgers
        /\ Risk!Released(l, id, n).reserved = [l.reserved EXCEPT ![id] = left]
        /\ Risk!Released(l, id, n).net = l.net
    BY <2>7 DEF Ledgers
  <2>9. QED BY <2>6, <2>8 DEF r
<1>3. QED BY <1>1, <1>2

LEMMA BookedLedger ==
    ASSUME NEW l \in Ledgers, NEW id \in OrderIds, NEW side \in Book!Sides, NEW price \in Prices,
           NEW n \in Book!Lots
    PROVE  LET after == Risk!Booked(l, RiskOrder(id, side, price, n))
           IN  /\ after \in Ledgers
               /\ after.reserved = [l.reserved EXCEPT ![id] = LeftOf(l.reserved[id], n)]
               /\ Symbol \in DOMAIN SymbolLimit =>
                    after.net[Symbol] = l.net[Symbol] + Risk!Signed(side, n)
<1> DEFINE o == RiskOrder(id, side, price, n)
           m == Risk!Released(l, id, n)
<1>1. /\ m \in Ledgers
      /\ m.reserved = [l.reserved EXCEPT ![id] = LeftOf(l.reserved[id], n)]
      /\ m.net = l.net
  BY ReleasedLedger, Quantities
<1>2. Risk!Signed(side, n) \in Int
  BY Quantities DEF Risk!Signed
<1>3. Risk!Booked(l, o) =
        IF Symbol \in DOMAIN SymbolLimit
        THEN [m EXCEPT !.net[Symbol] = m.net[Symbol] + Risk!Signed(side, n)]
        ELSE m
  BY DEF Risk!Booked, RiskOrder
<1> HIDE DEF m
<1>4. QED
  BY <1>1, <1>2, <1>3 DEF Ledgers

LEMMA ReservedLedger ==
    ASSUME NEW l \in Ledgers, NEW id \in OrderIds, NEW side \in Book!Sides, NEW price \in Prices,
           NEW n \in Book!Lots, Risk!Admits(l, RiskOrder(id, side, price, n))
    PROVE  LET after == Risk!Reserved(l, RiskOrder(id, side, price, n))
           IN  /\ after \in Ledgers
               /\ after.reserved = [l.reserved EXCEPT ![id] =
                                      [side |-> side, price |-> price, remaining |-> n]]
               /\ after.net = l.net
<1> DEFINE units == Risk!Signed(side, Risk!Notional(price, n))
<1>1. l.committed + units \in -MaxUnits - 1 .. MaxUnits
  BY DEF Risk!Admits, RiskOrder
<1>2. [side |-> side, price |-> price, remaining |-> n] \in Risk!Reservations
  BY LimitFacts DEF Risk!Reservations
<1>3. Risk!Reserved(l, RiskOrder(id, side, price, n)) =
        [l EXCEPT !.reserved[id] = [side |-> side, price |-> price, remaining |-> n],
                  !.committed = l.committed + units]
  BY DEF Risk!Reserved, RiskOrder
<1> HIDE DEF units
<1>4. QED
  BY <1>1, <1>2, <1>3 DEF Ledgers

-----------------------------------------------------------------------------
(* The history as a value                                                  *)

\* The queue has stored orders, each once.
SoundHistory(h) ==
    /\ h \in [states : [OrderIds -> OrderStates \cup {NoState}], queue : Seq(OrderIds)]
    /\ Range(h.queue) \subseteq {id \in OrderIds : h.states[id] # NoState}
    /\ IsInjective(h.queue)

LEMMA Suffix ==
    ASSUME NEW S, NEW q \in Seq(S), NEW n \in 0 .. Len(q)
    PROVE  /\ SubSeq(q, n + 1, Len(q)) \in Seq(S)
           /\ Len(SubSeq(q, n + 1, Len(q))) = Len(q) - n
           /\ \A k \in 1 .. Len(q) - n : SubSeq(q, n + 1, Len(q))[k] = q[n + k]
BY LenProperties

LEMMA WithoutOne ==
    ASSUME NEW S, NEW q \in Seq(S), IsInjective(q), NEW e
    PROVE  /\ RemoveFirst(q, e) \in Seq(S)
           /\ IsInjective(RemoveFirst(q, e))
           /\ \A x \in Range(RemoveFirst(q, e)) : x \in Range(q) /\ x # e
<1>1. DOMAIN q = 1 .. Len(q) /\ Len(q) \in Nat
  BY LenProperties
<1>2. CASE ~(\E i \in 1 .. Len(q) : q[i] = e)
  <2>1. RemoveFirst(q, e) = q
    BY <1>2 DEF RemoveFirst
  <2>2. QED BY <1>1, <1>2, <2>1 DEF Range
<1>3. CASE \E i \in 1 .. Len(q) : q[i] = e
  <2>1. PICK i \in 1 .. Len(q) : q[i] = e
    BY <1>3
  <2>2. {k \in 1 .. Len(q) : q[k] = e} = {i}
    BY <1>1, <2>1 DEF IsInjective
  <2>3. Min({i}) = i
    BY <1>1, <2>1 DEF Min
  <2>4. RemoveFirst(q, e) = RemoveAt(q, i)
    BY <1>3, <2>2, <2>3 DEF RemoveFirst, SelectInSeq
  <2> DEFINE front == SubSeq(q, 1, i - 1)
             back == SubSeq(q, i + 1, Len(q))
             rest == front \o back
  <2>5. /\ front \in Seq(S) /\ Len(front) = i - 1
        /\ \A k \in 1 .. i - 1 : front[k] = q[k]
    <3>1. /\ i - 1 \in Int /\ (\A k \in 1 .. i - 1 : q[k] \in S)
          /\ (IF 1 <= i - 1 THEN i - 1 - 1 + 1 ELSE 0) = i - 1
          /\ i - 1 - 1 + 1 = i - 1 /\ (\A k \in 1 .. i - 1 : 1 + k - 1 = k)
      BY <1>1, <2>1
    <3>2. QED BY <3>1, SubSeqProperties
  <2>6. /\ back \in Seq(S) /\ Len(back) = Len(q) - i
        /\ \A k \in 1 .. Len(q) - i : back[k] = q[i + k]
    <3>1. i \in 0 .. Len(q)
      BY <1>1, <2>1
    <3>2. QED BY <3>1, Suffix
  <2> HIDE DEF front, back
  <2>7. /\ rest \in Seq(S) /\ Len(rest) = Len(q) - 1
        /\ \A k \in 1 .. Len(q) - 1 : rest[k] = IF k <= i - 1 THEN front[k] ELSE back[k - (i - 1)]
    <3>1. Len(front) + Len(back) = Len(q) - 1
      BY <1>1, <2>1, <2>5, <2>6
    <3>2. rest \in Seq(S) /\ Len(rest) = Len(q) - 1
      BY <2>5, <2>6, <3>1, ConcatProperties
    <3>3. \A k \in 1 .. Len(front) + Len(back) :
            rest[k] = IF k <= Len(front) THEN front[k] ELSE back[k - Len(front)]
      BY <2>5, <2>6, ConcatProperties
    <3>4. QED BY <2>5, <3>1, <3>2, <3>3
  <2>8. \A k \in 1 .. Len(q) - 1 : rest[k] = q[IF k < i THEN k ELSE k + 1]
    <3> SUFFICES ASSUME NEW k \in 1 .. Len(q) - 1 PROVE rest[k] = q[IF k < i THEN k ELSE k + 1]
      OBVIOUS
    <3>1. CASE k < i
      <4>1. k <= i - 1 /\ k \in 1 .. i - 1
        BY <1>1, <2>1, <3>1
      <4>2. QED BY <2>5, <2>7, <3>1, <4>1
    <3>2. CASE ~(k < i)
      <4>1. ~(k <= i - 1) /\ k - (i - 1) \in 1 .. Len(q) - i /\ i + (k - (i - 1)) = k + 1
        BY <1>1, <2>1, <3>2
      <4>2. QED BY <2>6, <2>7, <3>2, <4>1
    <3>3. QED BY <3>1, <3>2
  <2> HIDE DEF rest
  <2>9. DOMAIN rest = 1 .. Len(q) - 1
    BY <2>7, LenProperties
  <2>10. \A k \in 1 .. Len(q) - 1 : rest[k] \in Range(q) /\ rest[k] # e
    <3> SUFFICES ASSUME NEW k \in 1 .. Len(q) - 1 PROVE rest[k] \in Range(q) /\ rest[k] # e
      OBVIOUS
    <3>1. PICK j \in 1 .. Len(q) : j = (IF k < i THEN k ELSE k + 1) /\ j # i
      BY <1>1, <2>1
    <3>2. QED BY <1>1, <2>1, <2>8, <3>1 DEF Range, IsInjective
  <2>11. IsInjective(rest)
    <3> SUFFICES ASSUME NEW j \in 1 .. Len(q) - 1, NEW k \in 1 .. Len(q) - 1, rest[j] = rest[k]
                 PROVE  j = k
      BY <2>9 DEF IsInjective
    <3>1. PICK x \in 1 .. Len(q) : x = (IF j < i THEN j ELSE j + 1)
      BY <1>1, <2>1
    <3>2. PICK y \in 1 .. Len(q) : y = (IF k < i THEN k ELSE k + 1)
      BY <1>1, <2>1
    <3>3. x = y
      BY <1>1, <2>8, <3>1, <3>2 DEF IsInjective
    <3>4. QED BY <1>1, <2>1, <3>1, <3>2, <3>3
  <2>12. RemoveFirst(q, e) = rest
    BY <2>4 DEF RemoveAt, rest, front, back
  <2>13. QED BY <2>7, <2>9, <2>10, <2>11, <2>12 DEF Range
<1>4. QED BY <1>2, <1>3

\* What is trimmed are orders that are not active.
LEMMA TrimmedHistory ==
    ASSUME NEW h, SoundHistory(h), NEW act
    PROVE  /\ SoundHistory(Trimmed(h, act))
           /\ \A id \in OrderIds : act[id] # NoState => Trimmed(h, act).states[id] = h.states[id]
<1> DEFINE q == h.queue
           stored == {id \in OrderIds : h.states[id] # NoState}
           popped == {k \in DOMAIN q : Cardinality(stored \ Oldest(h, act, k - 1)) > HistoryCap}
           n == Cardinality(popped)
           kept == SubSeq(q, n + 1, Len(q))
           states == [id \in OrderIds |->
                        IF id \in Oldest(h, act, n) THEN NoState ELSE h.states[id]]
<1>1. /\ q \in Seq(OrderIds) /\ Len(q) \in Nat /\ DOMAIN q = 1 .. Len(q)
      /\ h.states \in [OrderIds -> OrderStates \cup {NoState}]
      /\ \A k \in 1 .. Len(q) : q[k] \in OrderIds /\ h.states[q[k]] # NoState
      /\ \A j, k \in 1 .. Len(q) : q[j] = q[k] => j = k
  BY LenProperties DEF SoundHistory, Range, IsInjective
<1>2. Trimmed(h, act) = [states |-> states, queue |-> kept]
  BY DEF Trimmed
<1>3. n \in 0 .. Len(q)
  <2>1. IsFiniteSet(1 .. Len(q)) /\ Cardinality(1 .. Len(q)) = Len(q)
    BY <1>1, FS_Interval
  <2>2. popped \subseteq 1 .. Len(q)
    BY <1>1
  <2> HIDE DEF popped
  <2>3. IsFiniteSet(popped) /\ Cardinality(popped) <= Len(q)
    BY <2>1, <2>2, FS_Subset
  <2>4. Cardinality(popped) \in Nat
    BY <2>3, FS_CardinalityType
  <2>5. QED BY <1>1, <2>3, <2>4
<1> HIDE DEF n
<1>4. /\ kept \in Seq(OrderIds) /\ Len(kept) = Len(q) - n
      /\ \A k \in 1 .. Len(q) - n : kept[k] = q[n + k]
  BY <1>1, <1>3, Suffix
<1> HIDE DEF kept
<1>5. DOMAIN kept = 1 .. Len(q) - n
  BY <1>4, LenProperties
<1>6. \A k \in 1 .. Len(q) - n : states[kept[k]] # NoState /\ kept[k] \in OrderIds
  <2> SUFFICES ASSUME NEW k \in 1 .. Len(q) - n
               PROVE  states[kept[k]] # NoState /\ kept[k] \in OrderIds
    OBVIOUS
  <2>1. n + k \in 1 .. Len(q) /\ (\A j \in 1 .. n : j \in 1 .. Len(q) /\ j # n + k)
    BY <1>1, <1>3
  <2>2. kept[k] \notin Oldest(h, act, n)
    BY <1>1, <1>4, <2>1 DEF Oldest
  <2>3. QED BY <1>1, <1>4, <2>1, <2>2
<1>7. IsInjective(kept)
  <2> SUFFICES ASSUME NEW j \in 1 .. Len(q) - n, NEW k \in 1 .. Len(q) - n, kept[j] = kept[k]
               PROVE  j = k
    BY <1>5 DEF IsInjective
  <2>1. n + j \in 1 .. Len(q) /\ n + k \in 1 .. Len(q)
    BY <1>1, <1>3
  <2>2. n + j = n + k
    BY <1>1, <1>4, <2>1
  <2>3. QED BY <1>3, <2>2
<1>8. Range(kept) \subseteq {id \in OrderIds : states[id] # NoState}
  BY <1>5, <1>6 DEF Range
<1>9. states \in [OrderIds -> OrderStates \cup {NoState}]
  BY <1>1
<1>10. \A id \in OrderIds : act[id] # NoState => states[id] = h.states[id]
  BY DEF Oldest
<1> HIDE DEF states
<1>11. QED
  BY <1>2, <1>4, <1>7, <1>8, <1>9, <1>10 DEF SoundHistory

LEMMA UpsertedHistory ==
    ASSUME NEW h, SoundHistory(h), NEW act, NEW id \in OrderIds, NEW s \in OrderStates
    PROVE  /\ SoundHistory(Upserted(h, act, id, s))
           /\ act[id] # NoState => Upserted(h, act, id, s).states[id] = s
           /\ \A x \in OrderIds : act[x] # NoState /\ x # id =>
                Upserted(h, act, id, s).states[x] = h.states[x]
<1> DEFINE rest == RemoveFirst(h.queue, id)
           queue == Append(rest, id)
           states == [h.states EXCEPT ![id] = s]
           after == [states |-> states, queue |-> queue]
<1>1. /\ h.queue \in Seq(OrderIds) /\ IsInjective(h.queue)
      /\ h.states \in [OrderIds -> OrderStates \cup {NoState}]
      /\ s # NoState
      /\ Range(h.queue) \subseteq {x \in OrderIds : h.states[x] # NoState}
  BY OrderManagerAssumption DEF SoundHistory
<1>2. /\ rest \in Seq(OrderIds) /\ IsInjective(rest)
      /\ \A x \in Range(rest) : x \in Range(h.queue) /\ x # id
  BY <1>1, WithoutOne
<1> HIDE DEF rest
<1>3. /\ queue \in Seq(OrderIds) /\ DOMAIN queue = 1 .. Len(rest) + 1
      /\ Len(rest) \in Nat /\ DOMAIN rest = 1 .. Len(rest)
      /\ \A k \in 1 .. Len(rest) : queue[k] = rest[k] /\ rest[k] \in Range(rest)
      /\ queue[Len(rest) + 1] = id
  BY <1>2, AppendProperties, LenProperties DEF Range
<1>4. \A k \in DOMAIN queue : k = Len(rest) + 1 \/ k \in 1 .. Len(rest)
  BY <1>3
<1> HIDE DEF queue
<1>5. \A k \in DOMAIN queue : queue[k] \in OrderIds /\ states[queue[k]] # NoState
  BY <1>1, <1>2, <1>3, <1>4
<1>6. IsInjective(queue)
  BY <1>2, <1>3, <1>4 DEF IsInjective
<1>7. SoundHistory(after)
  BY <1>1, <1>3, <1>5, <1>6 DEF SoundHistory, Range
<1>8. Upserted(h, act, id, s) = Trimmed(after, act)
  BY DEF Upserted, queue, rest
<1>9. after.states[id] = s /\ (\A x \in OrderIds \ {id} : after.states[x] = h.states[x])
  BY <1>1
<1> HIDE DEF after
<1>10. QED
  BY <1>7, <1>8, <1>9, TrimmedHistory

-----------------------------------------------------------------------------
(* The inductive invariant                                                 *)

StateOK ==
    /\ SoundBook(book) /\ taker \in Book!Takers \cup {NoTaker}
    /\ ledger \in Ledgers
    /\ active \in [OrderIds -> OrderStates \cup {NoState}]
    /\ SoundHistory(history)
    /\ call \in CallStates \cup {Idle} /\ calls \in 0 .. MaxCalls
    /\ approved \in [OrderIds -> Approvals \cup {NoState}]
    /\ outside \in Int

\* submit_order, or modify_order with the old order to put back, holds the mutex.
Taking == call # Idle /\ call.op \in {"match", "settle"}
Restoring == call # Idle /\ call.op = "restore"

\* The trades of the match that active orders, ledger and history do not have yet.
Pending == IF call.op = "match" THEN taker.trades ELSE call.trades

IsPending(id) == \E k \in DOMAIN Pending : Pending[k].maker = id

\* The call in progress has nothing to do with the order.
Untouched(id) ==
    /\ Taking => id # call.order.id /\ ~IsPending(id)
    /\ Restoring => id # call.id

\* What is active was admitted, and is in the history.
ActiveFine(id) ==
    active[id] # NoState =>
      /\ id \in OwnIds
      /\ active[id].remaining \in Book!Lots
      /\ active[id].filled = active[id].initial - active[id].remaining
      /\ approved[id] \in Approvals
      /\ approved[id].side = active[id].side /\ approved[id].price = active[id].price
      /\ approved[id].lots = active[id].initial /\ approved[id].gone = active[id].filled
      /\ history.states[id] = active[id]

\* What the ledger should have reserved for an order.
Due(id) ==
    IF active[id] # NoState
    THEN IF approved[id].bare \/ (Restoring /\ id = call.id) THEN NoReservation
         ELSE [side |-> active[id].side, price |-> active[id].price,
               remaining |-> active[id].remaining]
    ELSE IF Taking /\ id = call.order.id /\ call.remaining > 0
         THEN [side |-> call.order.side, price |-> call.order.price, remaining |-> call.remaining]
         ELSE NoReservation

ReservedFine(id) == ledger.reserved[id] = Due(id)

BookFine(id) ==
    book.orders[id] = IF active[id] = NoState THEN NoOrder
                      ELSE Replacement(id, active[id].price, active[id].remaining)

OrdersOK ==
    /\ \A id \in OrderIds : ActiveFine(id) /\ ReservedFine(id)
    /\ \A id \in OwnIds : Untouched(id) => BookFine(id)

\* The order that is submitted is not active, and rests once it is matched.
TakingOK ==
    Taking =>
      LET o == call.order
      IN  /\ active[o.id] = NoState
          /\ call.remaining <= o.lots
          /\ approved[o.id] = [side |-> o.side, price |-> o.price, lots |-> o.lots,
                               gone |-> o.lots - call.remaining, bare |-> FALSE]
          /\ call.op = "match" =>
               /\ taker # NoTaker
               /\ taker.id = o.id /\ taker.side = o.side /\ taker.price = o.price
               /\ taker.rest = Rests(o)
               /\ book.orders[o.id] = NoOrder
          /\ call.op = "settle" /\ book.orders[o.id] # NoOrder =>
               /\ Rests(o)
               /\ book.orders[o.id].side = o.side /\ book.orders[o.id].price = o.price

\* The maker of a pending trade is another order, on the other side; it made one
\* trade of the match, and only the last maker still rests.
PendingOK ==
    Taking => \A k \in DOMAIN Pending :
      LET t == Pending[k]
          s == active[t.maker]
      IN  /\ t.maker # call.order.id
          /\ \A j \in DOMAIN Pending : Pending[j].maker = t.maker => j = k
          /\ call.op = "match" /\ book.orders[t.maker] # NoOrder => taker.remaining = 0
          /\ t.maker \in OwnIds =>
               /\ s # NoState
               /\ s.side = Book!Opposite(call.order.side)
               /\ t.lots <= s.remaining
               /\ book.orders[t.maker] =
                    IF t.lots = s.remaining THEN NoOrder
                    ELSE Replacement(t.maker, s.price, s.remaining - t.lots)

\* The quantities that the order has left before, between and after the pending
\* trades lead from what its call holds to what the match left of it.
RunsDown(f) ==
    /\ f \in [0 .. Len(Pending) -> 0 .. MaxLots]
    /\ f[0] = call.remaining
    /\ \A k \in 1 .. Len(Pending) : f[k] = f[k - 1] - Pending[k].lots
    /\ call.op = "match" => f[Len(Pending)] = taker.remaining
    /\ call.op = "settle" /\ book.orders[call.order.id] # NoOrder =>
         f[Len(Pending)] = book.orders[call.order.id].lots

RunsOK == Taking => \E f \in [0 .. Len(Pending) -> 0 .. MaxLots] : RunsDown(f)

\* The order of a refused modification fits the book again.
RestoringOK ==
    Restoring =>
      /\ active[call.id] # NoState
      /\ book.orders[call.id] # NoOrder
      /\ Book!CanModify(book, call.id,
                        Replacement(call.id, active[call.id].price, active[call.id].remaining))

PositionOK == Symbol \in DOMAIN SymbolLimit => ledger.net[Symbol] = outside

ManagerInv ==
    StateOK /\ OrdersOK /\ TakingOK /\ PendingOK /\ RunsOK /\ RestoringOK /\ PositionOK

LEMMA InitManagerInv == Init => ManagerInv
<1> SUFFICES ASSUME Init PROVE ManagerInv
  OBVIOUS
<1>1. /\ book = Book!EmptyBook /\ taker = NoTaker /\ call = Idle /\ calls = 0 /\ outside = 0
      /\ ledger = Risk!EmptyLedger
      /\ active = [id \in OrderIds |-> NoState] /\ approved = [id \in OrderIds |-> NoState]
      /\ history = [states |-> [id \in OrderIds |-> NoState], queue |-> <<>>]
  BY DEF Init, Book!Init
<1>2. SoundBook(book)
  <2>1. /\ Book!Live(book) = {}
        /\ \A side \in Book!Sides : Book!LevelPrices(book, side) = {}
    BY <1>1 DEF Book!Live, Book!EmptyBook, Book!LevelPrices, Book!SideOf
  <2>2. Book!Cardinality({}) = 0
    <3>1. Book!Cardinality({}) = Cardinality({})
      BY DEF Book!Cardinality, Cardinality
    <3>2. QED BY <3>1, FS_EmptySet
  <2>3. Book!Fits(book)
    BY <2>1, <2>2, OrderManagerAssumption DEF Book!Fits, Book!BookAssumption
  <2>4. QED BY <1>1, <2>3 DEF SoundBook, Books, Book!EmptyBook
<1>3. ledger \in Ledgers /\ ledger.reserved = [id \in OrderIds |-> NoReservation]
  BY <1>1, LimitFacts DEF Ledgers, Risk!EmptyLedger
<1>4. SoundHistory(history)
  BY <1>1 DEF SoundHistory, Range, IsInjective
<1>5. StateOK
  BY <1>1, <1>2, <1>3, <1>4, OrderManagerAssumption DEF StateOK
<1>6. ~Taking /\ ~Restoring
  BY <1>1 DEF Taking, Restoring
<1>7. OrdersOK
  BY <1>1, <1>3, <1>6
  DEF OrdersOK, ActiveFine, ReservedFine, BookFine, Due, Book!EmptyBook, OwnIds
<1>8. PositionOK
  BY <1>1 DEF PositionOK, Risk!EmptyLedger
<1>9. QED
  BY <1>5, <1>6, <1>7, <1>8 DEF ManagerInv, TakingOK, PendingOK, RunsOK, RestoringOK

LEMMA CallFacts ==
    ASSUME StateOK
    PROVE  /\ Taking =>
                /\ call \in [op : {"match", "settle"}, order : Requests,
                             remaining : 0 .. MaxLots, trades : Seq(Book!Trades)]
                /\ call.order.id \in OwnIds /\ ~Restoring
           /\ Restoring => call.id \in OwnIds /\ ~Taking
BY DEF StateOK, CallStates, Taking, Restoring, Requests

\* A call that ends, or was a single step, and changed one order.
LEMMA OneOrder ==
    ASSUME ManagerInv, StateOK', PositionOK', call' = Idle, NEW x \in OwnIds,
           ActiveFine(x)', ReservedFine(x)', BookFine(x)',
           \A id \in OrderIds \ {x} :
             /\ id \in OwnIds => Untouched(id)
             /\ active'[id] = active[id] /\ approved'[id] = approved[id]
             /\ book'.orders[id] = book.orders[id]
             /\ ledger'.reserved[id] = ledger.reserved[id]
             /\ active[id] # NoState => history'.states[id] = history.states[id]
    PROVE  ManagerInv'
<1>1. ~Taking' /\ ~Restoring'
  BY DEF Taking, Restoring
<1>2. ASSUME NEW id \in OrderIds, id # x
      PROVE  ActiveFine(id)' /\ ReservedFine(id)' /\ (id \in OwnIds => BookFine(id)')
  <2>1. ActiveFine(id) /\ ReservedFine(id) /\ (id \in OwnIds => BookFine(id))
    BY <1>2 DEF ManagerInv, OrdersOK
  <2>2. ActiveFine(id)'
    BY <1>2, <2>1 DEF ActiveFine
  <2>3. (id \in OwnIds => BookFine(id)')
    BY <1>2, <2>1 DEF BookFine, Replacement
  <2>4. (Taking => id # call.order.id) /\ (Restoring => id # call.id)
    BY <1>2, CallFacts DEF ManagerInv, Untouched
  <2>5. Due(id)' = Due(id)
    BY <1>1, <1>2, <2>4 DEF Due
  <2>6. QED BY <1>2, <2>1, <2>2, <2>3, <2>5 DEF ReservedFine
<1>3. OrdersOK'
  BY <1>2 DEF OrdersOK, OwnIds
<1>4. QED
  BY <1>1, <1>3 DEF ManagerInv, TakingOK, PendingOK, RunsOK, RestoringOK

-----------------------------------------------------------------------------
(* The calls of one step                                                   *)

LEMMA NoCall ==
    ASSUME ManagerInv, CallsLeft
    PROVE  /\ call = Idle /\ calls' \in 0 .. MaxCalls
           /\ ~Taking /\ ~Restoring
           /\ \A id : Untouched(id)
BY OrderManagerAssumption DEF ManagerInv, StateOK, CallsLeft, Taking, Restoring, Untouched

LEMMA LeftOfAll ==
    ASSUME NEW r, NEW n \in Nat, r = NoReservation \/ r.remaining = n
    PROVE  LeftOf(r, n) = NoReservation
BY DEF LeftOf

\* An active order that no call is about: its state, what it has reserved, and
\* its place in the book.
LEMMA ActiveFacts ==
    ASSUME ManagerInv, CallsLeft, NEW id \in OwnIds, active[id] # NoState
    PROVE  /\ id \in OrderIds /\ active[id] \in OrderStates
           /\ active[id].side \in Book!Sides /\ active[id].price \in Prices
           /\ active[id].remaining \in Book!Lots /\ active[id].initial \in Book!Lots
           /\ active[id].filled = active[id].initial - active[id].remaining
           /\ id \in Book!Live(book)
           /\ book.orders[id] = [side |-> active[id].side, price |-> active[id].price,
                                 lots |-> active[id].remaining]
           /\ approved[id].bare => ledger.reserved[id] = NoReservation
           /\ ~approved[id].bare =>
                ledger.reserved[id] = [side |-> active[id].side, price |-> active[id].price,
                                       remaining |-> active[id].remaining]
           /\ LeftOf(ledger.reserved[id], active[id].remaining) = NoReservation
<1>1. id \in OrderIds /\ Untouched(id) /\ ~Taking /\ ~Restoring
  BY NoCall DEF OwnIds
<1>2. ActiveFine(id) /\ ReservedFine(id) /\ BookFine(id)
  BY <1>1 DEF ManagerInv, OrdersOK
<1>3. active[id] \in OrderStates
  BY <1>1 DEF ManagerInv, StateOK
<1>4. /\ active[id].side \in Book!Sides /\ active[id].price \in Prices
      /\ active[id].remaining \in Book!Lots /\ active[id].initial \in Book!Lots
  BY <1>2, <1>3 DEF ActiveFine, OrderStates
<1>5. book.orders[id] = [side |-> active[id].side, price |-> active[id].price,
                         lots |-> active[id].remaining]
  BY <1>2 DEF BookFine, Replacement
<1>6. book.orders[id] \in Book!Orders
  BY <1>4, <1>5 DEF Book!Orders
<1>7. /\ approved[id].bare => ledger.reserved[id] = NoReservation
      /\ ~approved[id].bare =>
           ledger.reserved[id] = [side |-> active[id].side, price |-> active[id].price,
                                  remaining |-> active[id].remaining]
  BY <1>1, <1>2 DEF ReservedFine, Due
<1>8. LeftOf(ledger.reserved[id], active[id].remaining) = NoReservation
  <2>1. \/ ledger.reserved[id] = NoReservation
        \/ ledger.reserved[id].remaining = active[id].remaining
    BY <1>7
  <2>2. active[id].remaining \in Nat
    BY <1>4, Quantities
  <2>3. QED BY <2>1, <2>2, LeftOfAll
<1>9. QED
  BY <1>1, <1>2, <1>3, <1>4, <1>5, <1>6, <1>7, <1>8, Quantities
  DEF ActiveFine, Book!Live

LEMMA HistoryAfter ==
    ASSUME StateOK, NEW id \in OrderIds, NEW s \in OrderStates,
           history' = Upserted(history, active', id, s)
    PROVE  /\ SoundHistory(history')
           /\ active'[id] # NoState => history'.states[id] = s
           /\ \A x \in OrderIds : active'[x] # NoState /\ x # id =>
                history'.states[x] = history.states[x]
<1>1. PICK act : act = active'
  OBVIOUS
<1>2. SoundHistory(history)
  BY DEF StateOK
<1> DEFINE after == Upserted(history, act, id, s)
<1>3. SoundHistory(after) /\ (act[id] # NoState => after.states[id] = s)
  BY <1>2, UpsertedHistory
<1>4. \A x \in OrderIds : act[x] # NoState /\ x # id => after.states[x] = history.states[x]
  BY <1>2, UpsertedHistory
<1> HIDE DEF after
<1>5. history' = after
  BY <1>1 DEF after
<1>6. QED
  BY <1>1, <1>3, <1>4, <1>5

LEMMA CanceledStateType ==
    ASSUME NEW s \in OrderStates
    PROVE  CanceledState(s) \in OrderStates
<1>1. 0 \in 0 .. MaxLots
  BY Quantities
<1>2. QED BY <1>1 DEF CanceledState, OrderStates

LEMMA CancelInv ==
    ASSUME ManagerInv, NEW id \in OwnIds, Cancel(id)
    PROVE  ManagerInv'
<1> DEFINE s == active[id]
           h == CanceledState(s)
<1>1. /\ CallsLeft /\ s # NoState
      /\ book' = Book!Canceled(book, id)
      /\ ledger' = Risk!Released(ledger, id, s.remaining)
      /\ active' = [active EXCEPT ![id] = NoState]
      /\ history' = Upserted(history, active', id, h)
      /\ UNCHANGED <<taker, call, approved, outside>>
  BY DEF Cancel
<1>2. StateOK /\ call = Idle /\ calls' \in 0 .. MaxCalls /\ (\A x : Untouched(x))
  BY <1>1, NoCall DEF ManagerInv
<1>3. /\ id \in OrderIds /\ s \in OrderStates /\ s.remaining \in Nat
      /\ LeftOf(ledger.reserved[id], s.remaining) = NoReservation
  BY <1>1, ActiveFacts, Quantities
<1>4. h \in OrderStates
  BY <1>3, CanceledStateType
<1> HIDE DEF h
<1>5. SoundBook(book') /\ book'.orders = [book.orders EXCEPT ![id] = NoOrder]
  BY <1>1, <1>2, <1>3, CanceledOrders DEF StateOK
<1>6. /\ ledger' \in Ledgers /\ ledger'.net = ledger.net
      /\ ledger'.reserved = [ledger.reserved EXCEPT ![id] = NoReservation]
  BY <1>1, <1>2, <1>3, ReleasedLedger DEF StateOK
<1>7. /\ SoundHistory(history')
      /\ \A x \in OrderIds : active'[x] # NoState /\ x # id =>
           history'.states[x] = history.states[x]
  BY <1>1, <1>2, <1>3, <1>4, HistoryAfter
<1>8. active' \in [OrderIds -> OrderStates \cup {NoState}] /\ active'[id] = NoState
  BY <1>1, <1>2, <1>3 DEF StateOK
<1>9. StateOK'
  BY <1>1, <1>2, <1>5, <1>6, <1>7, <1>8 DEF StateOK
<1>10. call' = Idle /\ ~Taking' /\ ~Restoring'
  BY <1>1, <1>2 DEF Taking, Restoring
<1>11. ActiveFine(id)' /\ BookFine(id)' /\ ReservedFine(id)'
  <2>1. book'.orders[id] = NoOrder /\ ledger'.reserved[id] = NoReservation
    BY <1>2, <1>3, <1>5, <1>6 DEF StateOK, SoundBook, Books, Ledgers
  <2>2. QED BY <1>8, <1>10, <2>1 DEF ActiveFine, BookFine, ReservedFine, Due
<1>12. ASSUME NEW x \in OrderIds \ {id}
       PROVE  /\ active'[x] = active[x] /\ approved'[x] = approved[x]
              /\ book'.orders[x] = book.orders[x]
              /\ ledger'.reserved[x] = ledger.reserved[x]
              /\ active[x] # NoState => history'.states[x] = history.states[x]
  BY <1>1, <1>2, <1>3, <1>5, <1>6, <1>7 DEF StateOK, SoundBook, Books, Ledgers
<1>13. PositionOK'
  BY <1>1, <1>6 DEF ManagerInv, PositionOK
<1>14. QED
  BY <1>2, <1>9, <1>10, <1>11, <1>12, <1>13, OneOrder

LEMMA CancelPartialInv ==
    ASSUME ManagerInv, NEW id \in OwnIds, NEW n \in Book!Lots, CancelPartial(id, n)
    PROVE  ManagerInv'
<1> DEFINE s == active[id]
           r == ledger.reserved[id]
           a == approved[id]
           left == IF n >= s.remaining THEN 0 ELSE s.remaining - n
           cut == [s EXCEPT !.remaining = left, !.filled = s.initial - left,
                            !.status = IF s.initial > left THEN "PARTIALLY_FILLED" ELSE "RESTING"]
           after == IF left = 0 THEN CanceledState(s) ELSE cut
           left2 == IF book'.orders[id] = NoOrder THEN 0 ELSE book'.orders[id].lots
<1>1. CallsLeft /\ s # NoState /\ id \in Book!Live(book) /\ book' = Book!Reduced(book, id, n)
  BY DEF CancelPartial
<1>2. /\ StateOK /\ call = Idle /\ calls' \in 0 .. MaxCalls /\ (\A x : Untouched(x))
      /\ id \in OrderIds /\ ActiveFine(id)
  BY <1>1, NoCall DEF ManagerInv, OwnIds, OrdersOK
<1>3. /\ s \in OrderStates /\ s.side \in Book!Sides /\ s.price \in Prices
      /\ s.remaining \in Nat \ {0} /\ s.initial \in Book!Lots /\ n \in Nat \ {0}
      /\ s.filled = s.initial - s.remaining /\ s.remaining <= MaxLots
      /\ book.orders[id] = [side |-> s.side, price |-> s.price, lots |-> s.remaining]
      /\ LeftOf(r, s.remaining) = NoReservation
  <2>1. /\ s \in OrderStates /\ s.side \in Book!Sides /\ s.price \in Prices
        /\ s.remaining \in Book!Lots /\ s.initial \in Book!Lots
        /\ s.filled = s.initial - s.remaining
        /\ book.orders[id] = [side |-> s.side, price |-> s.price, lots |-> s.remaining]
        /\ LeftOf(r, s.remaining) = NoReservation
    BY <1>1, ActiveFacts
  <2>2. n \in Nat \ {0} /\ s.remaining \in Nat \ {0} /\ s.remaining <= MaxLots
    BY <2>1, Quantities
  <2>3. QED BY <2>1, <2>2
<1>4. /\ left \in 0 .. MaxLots /\ left < s.remaining /\ (left # 0 => left \in Book!Lots)
      /\ s.initial - left \in 0 .. MaxLots
  <2>1. PICK k, lots : k = s.remaining /\ lots = s.initial
    OBVIOUS
  <2>2. lots - k \in Nat
    BY <1>3, <2>1 DEF OrderStates
  <2>3. /\ k \in Nat \ {0} /\ n \in Nat \ {0} /\ lots \in Nat /\ lots <= MaxLots
        /\ k <= MaxLots /\ MaxLots \in Nat
    BY <1>3, <2>1, Quantities
  <2>4. left = IF n >= k THEN 0 ELSE k - n
    BY <2>1
  <2> HIDE DEF left, s
  <2>5. /\ left \in 0 .. MaxLots /\ left < k /\ (left # 0 => left \in 1 .. MaxLots)
        /\ lots - left \in 0 .. MaxLots
    BY <2>2, <2>3, <2>4
  <2>6. QED BY <2>1, <2>5, Quantities
<1>5. /\ SoundBook(book')
      /\ book'.orders = [book.orders EXCEPT ![id] =
           IF left = 0 THEN NoOrder ELSE [side |-> s.side, price |-> s.price, lots |-> left]]
  <2>1. SoundBook(book)
    BY <1>2 DEF StateOK
  <2>2. /\ SoundBook(book')
        /\ book'.orders =
             [book.orders EXCEPT ![id] = IF n >= book.orders[id].lots THEN NoOrder
                                         ELSE [book.orders[id] EXCEPT !.lots = book.orders[id].lots - n]]
    BY <1>1, <2>1, ReducedOrders
  <2>3. left = 0 <=> n >= book.orders[id].lots
    BY <1>3, Quantities
  <2>4. left # 0 => [book.orders[id] EXCEPT !.lots = book.orders[id].lots - n]
                      = [side |-> s.side, price |-> s.price, lots |-> left]
    BY <1>3, <2>3
  <2> HIDE DEF left
  <2>5. QED BY <2>2, <2>3, <2>4
<1> HIDE DEF left
<1>6. left2 = left
  <2>1. book'.orders[id] = IF left = 0 THEN NoOrder
                           ELSE [side |-> s.side, price |-> s.price, lots |-> left]
    BY <1>2, <1>5 DEF StateOK, SoundBook, Books
  <2>2. left # 0 => [side |-> s.side, price |-> s.price, lots |-> left] \in Book!Orders
    BY <1>3, <1>4 DEF Book!Orders
  <2>3. QED BY <2>1, <2>2, Quantities
<1>7. /\ ledger' = Risk!Released(ledger, id, s.remaining - left)
      /\ active' = [active EXCEPT ![id] = IF left = 0 THEN NoState ELSE cut]
      /\ history' = Upserted(history, active', id, after)
      /\ approved' = [approved EXCEPT ![id].gone = @ + (s.remaining - left)]
      /\ UNCHANGED <<taker, call, outside>>
  <2> DEFINE cut2 == [s EXCEPT !.remaining = left2, !.filled = s.initial - left2,
                            !.status = IF s.initial > left2 THEN "PARTIALLY_FILLED" ELSE "RESTING"]
             after2 == IF left2 = 0 THEN CanceledState(s) ELSE cut2
  <2>1. /\ ledger' = Risk!Released(ledger, id, s.remaining - left2)
        /\ active' = [active EXCEPT ![id] = IF left2 = 0 THEN NoState ELSE cut2]
        /\ history' = Upserted(history, active', id, after2)
        /\ approved' = [approved EXCEPT ![id].gone = @ + (s.remaining - left2)]
        /\ UNCHANGED <<taker, call, outside>>
    BY DEF CancelPartial
  <2> HIDE DEF left2
  <2>2. QED BY <1>6, <2>1
<1>8. /\ cut \in OrderStates /\ cut # NoState /\ after \in OrderStates
      /\ cut.remaining = left /\ cut.filled = s.initial - left
      /\ cut.side = s.side /\ cut.price = s.price /\ cut.initial = s.initial
  <2> DEFINE status == IF s.initial > left THEN "PARTIALLY_FILLED" ELSE "RESTING"
             filled == s.initial - left
  <2>1. status \in {"PARTIALLY_FILLED", "RESTING"} /\ filled \in 0 .. MaxLots
    BY <1>4
  <2>2. cut = [s EXCEPT !.remaining = left, !.filled = filled, !.status = status]
    OBVIOUS
  <2> HIDE DEF status, cut, filled
  <2>3. /\ cut \in OrderStates /\ cut.remaining = left /\ cut.filled = filled
        /\ cut.side = s.side /\ cut.price = s.price /\ cut.initial = s.initial
    BY <1>3, <1>4, <2>1, <2>2 DEF OrderStates
  <2>4. CanceledState(s) \in OrderStates
    BY <1>3, CanceledStateType
  <2>5. QED BY <2>3, <2>4, OrderManagerAssumption DEF filled
<1> HIDE DEF cut, after
<1>9. /\ ledger' \in Ledgers /\ ledger'.net = ledger.net
      /\ ledger'.reserved = [ledger.reserved EXCEPT ![id] = LeftOf(r, s.remaining - left)]
  <2>1. ledger \in Ledgers /\ s.remaining - left \in Nat
    BY <1>2, <1>3, <1>4 DEF StateOK
  <2>2. QED BY <1>2, <1>7, <2>1, ReleasedLedger
<1>10. /\ SoundHistory(history')
       /\ active'[id] # NoState => history'.states[id] = after
       /\ \A x \in OrderIds : active'[x] # NoState /\ x # id =>
            history'.states[x] = history.states[x]
  BY <1>2, <1>7, <1>8, HistoryAfter
<1>11. /\ active' \in [OrderIds -> OrderStates \cup {NoState}]
       /\ active'[id] = IF left = 0 THEN NoState ELSE cut
  BY <1>2, <1>7, <1>8 DEF StateOK
<1>12. a \in Approvals /\ a.gone = s.filled /\ a.side = s.side /\ a.price = s.price
       /\ a.lots = s.initial
  BY <1>1, <1>2 DEF ActiveFine
<1>13. /\ approved'[id] = [a EXCEPT !.gone = s.initial - left]
       /\ approved' \in [OrderIds -> Approvals \cup {NoState}]
  <2>1. a.gone + (s.remaining - left) = s.initial - left
    BY <1>3, <1>4, <1>12, Quantities
  <2>2. approved' = [approved EXCEPT ![id] = [a EXCEPT !.gone = s.initial - left]]
    BY <1>7, <2>1
  <2>3. [a EXCEPT !.gone = s.initial - left] \in Approvals
    BY <1>4, <1>12 DEF Approvals
  <2>4. QED BY <1>2, <2>2, <2>3 DEF StateOK
<1>14. StateOK'
  BY <1>2, <1>5, <1>7, <1>9, <1>10, <1>11, <1>13 DEF StateOK
<1>15. call' = Idle /\ ~Taking' /\ ~Restoring'
  BY <1>2, <1>7 DEF Taking, Restoring
<1>16. /\ ledger'.reserved[id] = LeftOf(r, s.remaining - left)
       /\ book'.orders[id] = IF left = 0 THEN NoOrder
                             ELSE [side |-> s.side, price |-> s.price, lots |-> left]
  BY <1>2, <1>5, <1>9 DEF StateOK, SoundBook, Books, Ledgers
<1>17. ActiveFine(id)' /\ BookFine(id)' /\ ReservedFine(id)'
  <2>1. CASE left = 0
    <3>1. active'[id] = NoState /\ book'.orders[id] = NoOrder /\ ledger'.reserved[id] = NoReservation
      <4>1. s.remaining - left = s.remaining
        BY <1>3, <2>1
      <4>2. QED BY <1>3, <1>11, <1>16, <2>1, <4>1
    <3>2. QED BY <1>15, <3>1 DEF ActiveFine, BookFine, ReservedFine, Due
  <2>2. CASE left # 0
    <3>1. active'[id] = cut /\ history'.states[id] = cut /\ cut # NoState
      BY <1>8, <1>10, <1>11, <2>2 DEF after
    <3>2. /\ approved'[id] \in Approvals /\ approved'[id].gone = s.initial - left
          /\ approved'[id].side = s.side /\ approved'[id].price = s.price
          /\ approved'[id].lots = s.initial /\ approved'[id].bare = a.bare
      <4>1. [a EXCEPT !.gone = s.initial - left] \in Approvals
        BY <1>4, <1>12 DEF Approvals
      <4>2. QED BY <1>12, <1>13, <4>1 DEF Approvals
    <3>3. ActiveFine(id)'
      BY <1>4, <1>8, <2>2, <3>1, <3>2 DEF ActiveFine
    <3>4. BookFine(id)'
      BY <1>8, <1>16, <2>2, <3>1 DEF BookFine, Replacement
    <3>5. a.bare => ledger'.reserved[id] = NoReservation
      BY <1>1, <1>16, ActiveFacts DEF LeftOf
    <3>6. ~a.bare => ledger'.reserved[id] =
                       [side |-> s.side, price |-> s.price, remaining |-> left]
      <4> SUFFICES ASSUME ~a.bare
                   PROVE  ledger'.reserved[id] =
                            [side |-> s.side, price |-> s.price, remaining |-> left]
        OBVIOUS
      <4>1. r = [side |-> s.side, price |-> s.price, remaining |-> s.remaining]
        BY <1>1, ActiveFacts
      <4>2. r # NoReservation
        <5>1. r \in Risk!Reservations
          BY <1>3, <4>1, LimitFacts, Quantities DEF Risk!Reservations
        <5>2. QED BY <5>1, LimitFacts
      <4>3. ~(s.remaining - left >= s.remaining) /\ s.remaining - (s.remaining - left) = left
        BY <1>3, <1>4, <2>2
      <4>4. r.remaining = s.remaining
        BY <4>1
      <4>5. LeftOf(r, s.remaining - left) = [r EXCEPT !.remaining = left]
        BY <4>2, <4>3, <4>4 DEF LeftOf
      <4>6. QED BY <1>16, <4>1, <4>5
    <3>7. Due(id)' = IF a.bare THEN NoReservation
                     ELSE [side |-> s.side, price |-> s.price, remaining |-> left]
      BY <1>8, <1>15, <3>1, <3>2 DEF Due
    <3>8. ReservedFine(id)'
      BY <3>5, <3>6, <3>7 DEF ReservedFine
    <3>9. QED BY <3>3, <3>4, <3>8
  <2>3. QED BY <2>1, <2>2
<1>18. ASSUME NEW x \in OrderIds \ {id}
       PROVE  /\ active'[x] = active[x] /\ approved'[x] = approved[x]
              /\ book'.orders[x] = book.orders[x]
              /\ ledger'.reserved[x] = ledger.reserved[x]
              /\ active[x] # NoState => history'.states[x] = history.states[x]
  BY <1>2, <1>5, <1>7, <1>9, <1>10 DEF StateOK, SoundBook, Books, Ledgers
<1>19. PositionOK'
  BY <1>7, <1>9 DEF ManagerInv, PositionOK
<1>20. QED
  BY <1>2, <1>14, <1>15, <1>17, <1>18, <1>19, OneOrder

LEMMA ReplacementType ==
    ASSUME ManagerInv, CallsLeft, NEW id \in OwnIds, active[id] # NoState,
           NEW price \in Prices, NEW lots \in Book!Lots
    PROVE  Replacement(id, price, lots) \in Book!Orders
BY ActiveFacts DEF Replacement, Book!Orders

LEMMA ModifyUnfitInv ==
    ASSUME ManagerInv, NEW id \in OwnIds, NEW price \in Prices, NEW lots \in Book!Lots,
           ModifyUnfit(id, price, lots)
    PROVE  ManagerInv'
<1>1. /\ CallsLeft /\ active[id] # NoState /\ id \in Book!Live(book)
      /\ ~Book!CanModify(book, id, Replacement(id, price, lots))
      /\ book' = Book!Modified(book, id, Replacement(id, price, lots))
      /\ UNCHANGED <<taker, ledger, active, history, call, approved, outside>>
  BY DEF ModifyUnfit
<1>2. StateOK /\ call = Idle /\ calls' \in 0 .. MaxCalls /\ (\A x : Untouched(x)) /\ id \in OrderIds
  BY <1>1, NoCall DEF ManagerInv, OwnIds
<1>3. Replacement(id, price, lots) \in Book!Orders
  BY <1>1, ReplacementType
<1>4. SoundBook(book') /\ book'.orders = [book.orders EXCEPT ![id] = book.orders[id]]
  BY <1>1, <1>2, <1>3, ModifiedOrders DEF StateOK
<1>5. book'.orders = book.orders
  BY <1>2, <1>4 DEF StateOK, SoundBook, Books
<1>6. StateOK'
  BY <1>1, <1>2, <1>4 DEF StateOK
<1>7. call' = Idle /\ ~Taking /\ ~Restoring /\ ~Taking' /\ ~Restoring'
  BY <1>1, <1>2 DEF Taking, Restoring
<1>8. ActiveFine(id) /\ ReservedFine(id) /\ BookFine(id)
  BY <1>2 DEF ManagerInv, OrdersOK
<1>9. ActiveFine(id)'
  BY <1>1, <1>8 DEF ActiveFine
<1>10. BookFine(id)'
  BY <1>1, <1>5, <1>8 DEF BookFine, Replacement
<1>11. ReservedFine(id)'
  BY <1>1, <1>7, <1>8 DEF ReservedFine, Due
<1>12. PositionOK'
  BY <1>1 DEF ManagerInv, PositionOK
<1>13. QED
  BY <1>1, <1>2, <1>5, <1>6, <1>7, <1>9, <1>10, <1>11, <1>12, OneOrder

\* The reservation of an active order released: the order has none.
LEMMA ReleasedActive ==
    ASSUME ManagerInv, CallsLeft, NEW id \in OwnIds, active[id] # NoState,
           NEW l, l = Risk!Released(ledger, id, active[id].remaining)
    PROVE  /\ l \in Ledgers /\ l.net = ledger.net
           /\ l.reserved = [ledger.reserved EXCEPT ![id] = NoReservation]
<1>1. /\ ledger \in Ledgers /\ id \in OrderIds /\ active[id].remaining \in Nat
      /\ LeftOf(ledger.reserved[id], active[id].remaining) = NoReservation
  BY ActiveFacts, Quantities DEF ManagerInv, StateOK
<1>2. QED BY <1>1, ReleasedLedger

LEMMA ModifyAcceptedInv ==
    ASSUME ManagerInv, NEW id \in OwnIds, NEW price \in Prices, NEW lots \in Book!Lots,
           ModifyAccepted(id, price, lots)
    PROVE  ManagerInv'
<1> DEFINE side == active[id].side
           new == Replacement(id, price, lots)
           released == Risk!Released(ledger, id, active[id].remaining)
           o == RiskOrder(id, side, price, lots)
           s == State(side, price, lots, lots, 0, "RESTING")
           a == [side |-> side, price |-> price, lots |-> lots, gone |-> 0, bare |-> FALSE]
           r == [side |-> side, price |-> price, remaining |-> lots]
<1>1. /\ CallsLeft /\ active[id] # NoState /\ id \in Book!Live(book)
      /\ Book!CanModify(book, id, new)
      /\ book' = Book!Modified(book, id, new)
      /\ Risk!Admits(released, o)
      /\ ledger' = Risk!Reserved(released, o)
      /\ active' = [active EXCEPT ![id] = s]
      /\ history' = Upserted(history, active', id, s)
      /\ approved' = [approved EXCEPT ![id] = a]
      /\ UNCHANGED <<taker, call, outside>>
  BY DEF ModifyAccepted, RiskOrder
<1>2. StateOK /\ call = Idle /\ calls' \in 0 .. MaxCalls /\ (\A x : Untouched(x)) /\ id \in OrderIds
  BY <1>1, NoCall DEF ManagerInv, OwnIds
<1>3. side \in Book!Sides /\ new \in Book!Orders
  BY <1>1, ActiveFacts, ReplacementType
<1>4. s \in OrderStates /\ a \in Approvals /\ s # NoState /\ a # NoState
  <2>1. 0 \in 0 .. MaxLots /\ lots \in 0 .. MaxLots
    BY Quantities
  <2>2. s \in OrderStates /\ a \in Approvals
    BY <1>3, <2>1 DEF OrderStates, Approvals, State
  <2>3. QED BY <2>2, OrderManagerAssumption
<1>5. /\ s.side = side /\ s.price = price /\ s.initial = lots /\ s.remaining = lots /\ s.filled = 0
      /\ a.side = side /\ a.price = price /\ a.lots = lots /\ a.gone = 0 /\ a.bare = FALSE
  BY DEF State
<1>6. SoundBook(book') /\ book'.orders = [book.orders EXCEPT ![id] = new]
  BY <1>1, <1>2, <1>3, ModifiedOrders DEF StateOK
<1>7. /\ released \in Ledgers /\ released.net = ledger.net
      /\ released.reserved = [ledger.reserved EXCEPT ![id] = NoReservation]
  BY <1>1, ReleasedActive
<1> HIDE DEF released
<1>8. /\ ledger' \in Ledgers /\ ledger'.net = ledger.net
      /\ ledger'.reserved = [ledger.reserved EXCEPT ![id] = r]
  <2>1. /\ ledger' \in Ledgers /\ ledger'.net = released.net
        /\ ledger'.reserved = [released.reserved EXCEPT ![id] = r]
    <3>1. /\ Risk!Admits(released, RiskOrder(id, side, price, lots))
          /\ ledger' = Risk!Reserved(released, RiskOrder(id, side, price, lots))
      BY <1>1
    <3> HIDE DEF side
    <3>2. QED BY <1>2, <1>3, <1>7, <3>1, ReservedLedger
  <2>2. [[ledger.reserved EXCEPT ![id] = NoReservation] EXCEPT ![id] = r]
          = [ledger.reserved EXCEPT ![id] = r]
    <3> HIDE DEF r
    <3>1. QED OBVIOUS
  <2> HIDE DEF r
  <2>3. QED BY <1>7, <2>1, <2>2
<1> HIDE DEF s, a
<1>9. /\ SoundHistory(history')
      /\ active'[id] # NoState => history'.states[id] = s
      /\ \A x \in OrderIds : active'[x] # NoState /\ x # id =>
           history'.states[x] = history.states[x]
  BY <1>1, <1>2, <1>4, HistoryAfter
<1>10. /\ active' \in [OrderIds -> OrderStates \cup {NoState}] /\ active'[id] = s
       /\ approved' \in [OrderIds -> Approvals \cup {NoState}] /\ approved'[id] = a
  BY <1>1, <1>2, <1>4 DEF StateOK
<1>11. StateOK'
  BY <1>1, <1>2, <1>6, <1>8, <1>9, <1>10 DEF StateOK
<1>12. call' = Idle /\ ~Taking' /\ ~Restoring'
  BY <1>1, <1>2 DEF Taking, Restoring
<1>13. book'.orders[id] = new /\ ledger'.reserved[id] = r
  BY <1>2, <1>6, <1>8 DEF StateOK, SoundBook, Books, Ledgers
<1>14. ActiveFine(id)'
  <2>1. 0 = lots - lots
    BY Quantities
  <2>2. QED BY <1>4, <1>5, <1>9, <1>10, <2>1 DEF ActiveFine
<1>15. BookFine(id)'
  BY <1>4, <1>5, <1>10, <1>13 DEF BookFine, Replacement
<1>16. ReservedFine(id)'
  BY <1>4, <1>5, <1>10, <1>12, <1>13 DEF ReservedFine, Due
<1>17. ASSUME NEW x \in OrderIds \ {id}
       PROVE  /\ active'[x] = active[x] /\ approved'[x] = approved[x]
              /\ book'.orders[x] = book.orders[x]
              /\ ledger'.reserved[x] = ledger.reserved[x]
              /\ active[x] # NoState => history'.states[x] = history.states[x]
  BY <1>1, <1>2, <1>6, <1>8, <1>9 DEF StateOK, SoundBook, Books, Ledgers
<1>18. PositionOK'
  BY <1>1, <1>8 DEF ManagerInv, PositionOK
<1>19. QED
  BY <1>2, <1>11, <1>12, <1>14, <1>15, <1>16, <1>17, <1>18, OneOrder

-----------------------------------------------------------------------------
(* Steps that change no order of the manager                               *)

LEMMA NoOrderChanged ==
    ASSUME ManagerInv, StateOK', UNCHANGED <<taker, active, call, approved, outside>>,
           ledger'.reserved = ledger.reserved, ledger'.net = ledger.net,
           call # Idle => book' = book,
           \A id \in OwnIds : book'.orders[id] = book.orders[id],
           \A id \in OrderIds : active[id] # NoState => history'.states[id] = history.states[id]
    PROVE  ManagerInv'
<1>1. /\ Taking' = Taking /\ Restoring' = Restoring /\ Pending' = Pending
      /\ \A id : IsPending(id)' = IsPending(id)
  BY DEF Taking, Restoring, Pending, IsPending
<1>2. OrdersOK'
  <2>1. ASSUME NEW id \in OrderIds
        PROVE  ActiveFine(id)' /\ ReservedFine(id)'
    <3>1. ActiveFine(id) /\ ReservedFine(id)
      BY DEF ManagerInv, OrdersOK
    <3>2. ActiveFine(id)'
      BY <3>1 DEF ActiveFine
    <3>3. Due(id)' = Due(id)
      BY <1>1 DEF Due
    <3>4. QED BY <3>1, <3>2, <3>3 DEF ReservedFine
  <2>2. ASSUME NEW id \in OwnIds, Untouched(id)'
        PROVE  BookFine(id)'
    <3>1. Untouched(id)
      BY <1>1, <2>2 DEF Untouched
    <3>2. BookFine(id)
      BY <3>1 DEF ManagerInv, OrdersOK
    <3>3. QED BY <3>2 DEF BookFine, Replacement
  <2>3. QED BY <2>1, <2>2 DEF OrdersOK
<1>3. TakingOK'
  <2> SUFFICES ASSUME Taking PROVE TakingOK'
    BY <1>1 DEF TakingOK
  <2>1. TakingOK /\ book' = book
    BY DEF ManagerInv, Taking
  <2>2. QED BY <2>1, <1>1 DEF TakingOK
<1>4. PendingOK'
  <2> SUFFICES ASSUME Taking PROVE PendingOK'
    BY <1>1 DEF PendingOK
  <2>1. PendingOK /\ book' = book
    BY DEF ManagerInv, Taking
  <2>2. QED BY <2>1, <1>1 DEF PendingOK, Replacement
<1>5. RunsOK'
  <2> SUFFICES ASSUME Taking PROVE RunsOK'
    BY <1>1 DEF RunsOK
  <2>1. RunsOK /\ book' = book
    BY DEF ManagerInv, Taking
  <2>2. QED BY <2>1, <1>1 DEF RunsOK, RunsDown
<1>6. RestoringOK'
  <2> SUFFICES ASSUME Restoring PROVE RestoringOK'
    BY <1>1 DEF RestoringOK
  <2>1. RestoringOK /\ book' = book
    BY DEF ManagerInv, Restoring
  <2>2. QED BY <2>1, <1>1 DEF RestoringOK, Replacement
<1>7. PositionOK'
  BY DEF ManagerInv, PositionOK
<1>8. QED
  BY <1>2, <1>3, <1>4, <1>5, <1>6, <1>7 DEF ManagerInv

LEMMA SubmitDuplicateInv ==
    ASSUME ManagerInv, NEW o \in Requests, SubmitDuplicate(o)
    PROVE  ManagerInv'
<1>1. /\ CallsLeft
      /\ UNCHANGED <<book, taker, ledger, active, history, call, approved, outside>>
  BY DEF SubmitDuplicate
<1>2. StateOK'
  BY <1>1, NoCall DEF ManagerInv, StateOK
<1>3. QED BY <1>1, <1>2, NoOrderChanged

\* A rejected order goes into the history and nowhere else.
LEMMA SubmitRejectedInv ==
    ASSUME ManagerInv, NEW o \in Requests, SubmitRejected(o)
    PROVE  ManagerInv'
<1> DEFINE s == State(o.side, o.price, o.lots, o.lots, 0, "REJECTED")
<1>1. /\ CallsLeft /\ ~Known(o.id)
      /\ history' = Upserted(history, active, o.id, s)
      /\ UNCHANGED <<book, taker, ledger, active, call, approved, outside>>
  BY DEF SubmitRejected
<1>2. s \in OrderStates /\ o.id \in OrderIds /\ active'[o.id] = NoState
  <2>1. o.side \in Book!Sides /\ o.price \in Prices /\ o.lots \in Book!Lots /\ o.id \in OrderIds
    BY DEF Requests, OwnIds
  <2>2. o.lots \in 0 .. MaxLots /\ 0 \in 0 .. MaxLots
    BY <2>1, Quantities
  <2>3. QED BY <1>1, <2>1, <2>2 DEF State, OrderStates, Known
<1> HIDE DEF s
<1>3. /\ SoundHistory(history')
      /\ \A x \in OrderIds : active'[x] # NoState /\ x # o.id =>
           history'.states[x] = history.states[x]
  <2>1. StateOK /\ history' = Upserted(history, active', o.id, s)
    BY <1>1 DEF ManagerInv
  <2>2. QED BY <1>2, <2>1, HistoryAfter
<1>4. StateOK'
  BY <1>1, <1>3, NoCall DEF ManagerInv, StateOK
<1>5. QED BY <1>1, <1>2, <1>3, <1>4, NoOrderChanged

LEMMA KillSwitchInv ==
    ASSUME ManagerInv, TriggerKillSwitch \/ ResetKillSwitch
    PROVE  ManagerInv'
<1>1. /\ UNCHANGED <<book, taker, active, history, call, calls, approved, outside>>
      /\ \E killed \in BOOLEAN : ledger' = [ledger EXCEPT !.killed = killed]
  BY DEF TriggerKillSwitch, ResetKillSwitch, Risk!Killed, Risk!Reset
<1>2. ledger \in Ledgers
  BY DEF ManagerInv, StateOK
<1>3. ledger' \in Ledgers /\ ledger'.reserved = ledger.reserved /\ ledger'.net = ledger.net
  BY <1>1, <1>2 DEF Ledgers
<1>4. StateOK'
  BY <1>1, <1>3 DEF ManagerInv, StateOK
<1>5. QED BY <1>1, <1>3, <1>4, NoOrderChanged

LEMMA QuotePlacedInv ==
    ASSUME ManagerInv, NEW id \in ExternalIds, NEW o \in Book!Orders, QuotePlaced(id, o)
    PROVE  ManagerInv'
<1>1. /\ CallsLeft /\ Book!CanAdd(book, id, o) /\ book' = Book!Added(book, id, o)
      /\ UNCHANGED <<taker, ledger, active, history, call, approved, outside>>
  BY DEF QuotePlaced
<1>2. StateOK /\ call = Idle /\ calls' \in 0 .. MaxCalls /\ id \in OrderIds
  BY <1>1, NoCall, OrderManagerAssumption DEF ManagerInv
<1>3. SoundBook(book') /\ book'.orders = [book.orders EXCEPT ![id] = o]
  BY <1>1, <1>2, AddedOrders DEF StateOK
<1>4. \A x \in OwnIds : book'.orders[x] = book.orders[x]
  BY <1>2, <1>3 DEF StateOK, SoundBook, Books, OwnIds
<1>5. StateOK'
  BY <1>1, <1>2, <1>3 DEF StateOK
<1>6. QED BY <1>1, <1>2, <1>4, <1>5, NoOrderChanged

LEMMA QuotePulledInv ==
    ASSUME ManagerInv, NEW id \in ExternalIds, QuotePulled(id)
    PROVE  ManagerInv'
<1>1. /\ call = Idle /\ book' = Book!Canceled(book, id)
      /\ UNCHANGED <<taker, ledger, active, history, call, calls, approved, outside>>
  BY DEF QuotePulled
<1>2. StateOK /\ id \in OrderIds
  BY OrderManagerAssumption DEF ManagerInv
<1>3. SoundBook(book') /\ book'.orders = [book.orders EXCEPT ![id] = NoOrder]
  BY <1>1, <1>2, CanceledOrders DEF StateOK
<1>4. \A x \in OwnIds : book'.orders[x] = book.orders[x]
  BY <1>2, <1>3 DEF StateOK, SoundBook, Books, OwnIds
<1>5. StateOK'
  BY <1>1, <1>2, <1>3 DEF StateOK
<1>6. QED BY <1>1, <1>4, <1>5, NoOrderChanged

-----------------------------------------------------------------------------
(* A refused modification                                                  *)

\* The order that is put back fits: the replacement had taken its room.
LEMMA OldOrderFits ==
    ASSUME NEW b, SoundBook(b), NEW id \in Book!Live(b), NEW o \in Book!Orders,
           Book!CanModify(b, id, o)
    PROVE  Book!CanModify(Book!Modified(b, id, o), id, b.orders[id])
<1>1. \A c, i, x : BookProofs!CanModify(c, i, x) = Book!CanModify(c, i, x)
  BY SameOperations DEF BookProofs!CanModify, Book!CanModify
<1>2. /\ b \in BookProofs!Books /\ id \in BookProofs!Live(b) /\ o \in BookProofs!Orders
      /\ BookProofs!Fits(b) /\ BookProofs!CanModify(b, id, o)
  BY <1>1, SameOrders, SameOperations DEF SoundBook
<1>3. BookProofs!CanModify(BookProofs!Modified(b, id, o), id, b.orders[id])
  BY <1>2, BookHolds, BookProofs!PutBackFits
<1>4. QED BY <1>1, <1>3, SameOperations

LEMMA ModifyRefusedInv ==
    ASSUME ManagerInv, NEW id \in OwnIds, NEW price \in Prices, NEW lots \in Book!Lots,
           ModifyRefused(id, price, lots)
    PROVE  ManagerInv'
<1> DEFINE new == Replacement(id, price, lots)
           s == active[id]
<1>1. /\ CallsLeft /\ s # NoState /\ id \in Book!Live(book)
      /\ Book!CanModify(book, id, new)
      /\ book' = Book!Modified(book, id, new)
      /\ ledger' = Risk!Released(ledger, id, s.remaining)
      /\ call' = [op |-> "restore", id |-> id]
      /\ UNCHANGED <<taker, active, history, approved, outside>>
  BY DEF ModifyRefused
<1>2. StateOK /\ call = Idle /\ calls' \in 0 .. MaxCalls /\ (\A x : Untouched(x)) /\ id \in OrderIds
  BY <1>1, NoCall DEF ManagerInv, OwnIds
<1>3. /\ new \in Book!Orders
      /\ book.orders[id] = [side |-> s.side, price |-> s.price, lots |-> s.remaining]
  BY <1>1, ActiveFacts, ReplacementType
<1>4. SoundBook(book') /\ book'.orders = [book.orders EXCEPT ![id] = new]
  BY <1>1, <1>2, <1>3, ModifiedOrders DEF StateOK
<1>5. /\ ledger' \in Ledgers /\ ledger'.net = ledger.net
      /\ ledger'.reserved = [ledger.reserved EXCEPT ![id] = NoReservation]
  <2>1. \A l : l = Risk!Released(ledger, id, s.remaining) =>
          /\ l \in Ledgers /\ l.net = ledger.net
          /\ l.reserved = [ledger.reserved EXCEPT ![id] = NoReservation]
    BY <1>1, ReleasedActive
  <2>2. QED BY <1>1, <2>1
<1>6. call' \in CallStates /\ call' # Idle
  BY <1>1, OrderManagerAssumption DEF CallStates
<1>7. Restoring' /\ ~Taking' /\ ~Taking /\ ~Restoring /\ call'.id = id
  BY <1>1, <1>2, <1>6 DEF Restoring, Taking
<1>8. StateOK'
  BY <1>1, <1>2, <1>4, <1>5, <1>6 DEF StateOK
<1>9. OrdersOK'
  <2>1. ASSUME NEW x \in OrderIds PROVE ActiveFine(x)' /\ ReservedFine(x)'
    <3>1. ActiveFine(x) /\ ReservedFine(x)
      BY DEF ManagerInv, OrdersOK
    <3>2. ActiveFine(x)'
      BY <1>1, <3>1 DEF ActiveFine
    <3>3. ledger'.reserved[x] = IF x = id THEN NoReservation ELSE ledger.reserved[x]
      BY <1>2, <1>5 DEF StateOK, Ledgers
    <3>4. Due(x)' = IF x = id THEN NoReservation ELSE Due(x)
      BY <1>1, <1>7 DEF Due
    <3>5. QED BY <3>1, <3>2, <3>3, <3>4 DEF ReservedFine
  <2>2. ASSUME NEW x \in OwnIds, Untouched(x)' PROVE BookFine(x)'
    <3>1. x # id /\ x \in OrderIds
      BY <1>7, <2>2 DEF Untouched, OwnIds
    <3>2. BookFine(x)
      BY <1>2 DEF ManagerInv, OrdersOK
    <3>3. book'.orders[x] = book.orders[x]
      BY <1>2, <1>4, <3>1 DEF StateOK, SoundBook, Books
    <3>4. QED BY <1>1, <3>2, <3>3 DEF BookFine, Replacement
  <2>3. QED BY <2>1, <2>2 DEF OrdersOK
<1>10. RestoringOK'
  <2>1. Book!CanModify(book', id, book.orders[id])
    BY <1>1, <1>2, <1>3, OldOrderFits DEF StateOK
  <2>2. book'.orders[id] = new /\ book'.orders[id] # NoOrder
    BY <1>2, <1>3, <1>4, Quantities DEF StateOK, SoundBook, Books
  <2>3. book.orders[id] = Replacement(id, s.price, s.remaining)'
    BY <1>1, <1>3 DEF Replacement
  <2>4. Book!CanModify(book', id, Replacement(id, s.price, s.remaining)')
    BY <2>1, <2>3
  <2>5. QED BY <1>1, <1>7, <2>2, <2>4 DEF RestoringOK, Replacement
<1>11. PositionOK'
  BY <1>1, <1>5 DEF ManagerInv, PositionOK
<1>12. QED
  BY <1>7, <1>8, <1>9, <1>10, <1>11 DEF ManagerInv, TakingOK, PendingOK, RunsOK

LEMMA ModifyRestoreInv ==
    ASSUME ManagerInv, ModifyRestore
    PROVE  ManagerInv'
<1>1. PICK id : id = call.id
  OBVIOUS
<1> DEFINE s == active[id]
           old == Replacement(id, s.price, s.remaining)
           o == RiskOrder(id, s.side, s.price, s.remaining)
           admitted == Risk!Admits(ledger, o)
           a == approved[id]
           r == [side |-> s.side, price |-> s.price, remaining |-> s.remaining]
<1>2. /\ Restoring
      /\ book' = Book!Modified(book, id, old)
      /\ ledger' = IF admitted THEN Risk!Reserved(ledger, o) ELSE ledger
      /\ approved' = [approved EXCEPT ![id].bare = ~admitted]
      /\ call' = Idle
      /\ UNCHANGED <<taker, active, history, calls, outside>>
  BY <1>1 DEF ModifyRestore, Restoring
<1>3. /\ StateOK /\ ~Taking /\ id \in OwnIds /\ id \in OrderIds
      /\ s # NoState /\ book.orders[id] # NoOrder /\ Book!CanModify(book, id, old)
      /\ ActiveFine(id) /\ ReservedFine(id)
  BY <1>1, <1>2, CallFacts DEF ManagerInv, RestoringOK, OwnIds, OrdersOK
<1>4. /\ s \in OrderStates /\ s.side \in Book!Sides /\ s.price \in Prices
      /\ s.remaining \in Book!Lots /\ a \in Approvals
      /\ ledger.reserved[id] = NoReservation
  BY <1>1, <1>2, <1>3 DEF StateOK, OrderStates, ActiveFine, ReservedFine, Due
<1>5. old \in Book!Orders /\ id \in Book!Live(book)
  BY <1>3, <1>4 DEF Replacement, Book!Orders, Book!Live
<1>6. SoundBook(book') /\ book'.orders = [book.orders EXCEPT ![id] = old]
  BY <1>2, <1>3, <1>5, ModifiedOrders DEF StateOK
<1>7. /\ ledger' \in Ledgers /\ ledger'.net = ledger.net
      /\ ledger'.reserved = [ledger.reserved EXCEPT ![id] = IF admitted THEN r ELSE NoReservation]
  <2>1. CASE admitted
    <3>1. ledger' = Risk!Reserved(ledger, o)
      BY <1>2, <2>1
    <3>2. ledger \in Ledgers
      BY <1>3 DEF StateOK
    <3>3. /\ Risk!Reserved(ledger, o) \in Ledgers /\ Risk!Reserved(ledger, o).net = ledger.net
          /\ Risk!Reserved(ledger, o).reserved = [ledger.reserved EXCEPT ![id] = r]
      BY <1>3, <1>4, <2>1, <3>2, ReservedLedger
    <3> HIDE DEF admitted, o
    <3>4. QED BY <2>1, <3>1, <3>3
  <2>2. CASE ~admitted
    <3>1. ledger' = ledger
      BY <1>2, <2>2
    <3> HIDE DEF admitted
    <3>2. QED BY <1>3, <1>4, <2>2, <3>1 DEF StateOK, Ledgers
  <2>3. QED BY <2>1, <2>2
<1>8. PICK bare \in BOOLEAN : bare = ~admitted
  OBVIOUS
<1> HIDE DEF admitted
<1>9. /\ approved' = [approved EXCEPT ![id] = [a EXCEPT !.bare = bare]]
      /\ [a EXCEPT !.bare = bare] \in Approvals
  BY <1>2, <1>4, <1>8 DEF Approvals
<1>10. approved' \in [OrderIds -> Approvals \cup {NoState}] /\ approved'[id] = [a EXCEPT !.bare = bare]
  BY <1>3, <1>9 DEF StateOK
<1>11. StateOK'
  BY <1>2, <1>3, <1>6, <1>7, <1>10 DEF StateOK
<1>12. ~Taking' /\ ~Restoring'
  BY <1>2 DEF Taking, Restoring
<1>13. /\ book'.orders[id] = old
       /\ ledger'.reserved[id] = IF bare THEN NoReservation ELSE r
  BY <1>3, <1>6, <1>7, <1>8 DEF StateOK, SoundBook, Books, Ledgers
<1>14. ActiveFine(id)'
  <2>1. /\ approved'[id] \in Approvals /\ approved'[id].side = a.side /\ approved'[id].price = a.price
        /\ approved'[id].lots = a.lots /\ approved'[id].gone = a.gone
    BY <1>4, <1>9, <1>10 DEF Approvals
  <2>2. QED BY <1>2, <1>3, <2>1 DEF ActiveFine
<1>15. BookFine(id)'
  BY <1>2, <1>3, <1>13 DEF BookFine, Replacement
<1>16. ReservedFine(id)'
  <2>1. approved'[id].bare = bare
    BY <1>4, <1>10 DEF Approvals
  <2>2. Due(id)' = IF bare THEN NoReservation ELSE r
    BY <1>2, <1>3, <1>12, <2>1 DEF Due
  <2>3. QED BY <1>13, <2>2 DEF ReservedFine
<1>17. ASSUME NEW x \in OrderIds \ {id}
       PROVE  /\ x \in OwnIds => Untouched(x)
              /\ active'[x] = active[x] /\ approved'[x] = approved[x]
              /\ book'.orders[x] = book.orders[x]
              /\ ledger'.reserved[x] = ledger.reserved[x]
              /\ active[x] # NoState => history'.states[x] = history.states[x]
  <2>1. Untouched(x)
    BY <1>1, <1>3 DEF Untouched
  <2>2. QED BY <1>2, <1>3, <1>6, <1>7, <1>9, <2>1 DEF StateOK, SoundBook, Books, Ledgers
<1>18. PositionOK'
  BY <1>2, <1>7 DEF ManagerInv, PositionOK
<1>19. QED
  BY <1>2, <1>3, <1>11, <1>14, <1>15, <1>16, <1>17, <1>18, OneOrder

-----------------------------------------------------------------------------
(* submit_order                                                            *)

LEMMA RequestFacts ==
    ASSUME NEW o \in Requests
    PROVE  /\ o.id \in OwnIds /\ o.id \in OrderIds /\ o.side \in Book!Sides
           /\ o.type \in OrderTypes /\ o.price \in Prices /\ o.lots \in Book!Lots
           /\ o.lots \in 1 .. MaxLots /\ Rests(o) \in BOOLEAN
BY Quantities DEF Requests, OwnIds, Rests

LEMMA SubmitAcceptedInv ==
    ASSUME ManagerInv, NEW o \in Requests, SubmitAccepted(o)
    PROVE  ManagerInv'
<1> DEFINE a == [side |-> o.side, price |-> o.price, lots |-> o.lots, gone |-> 0, bare |-> FALSE]
           r == [side |-> o.side, price |-> o.price, remaining |-> o.lots]
           ro == RiskOrder(o.id, o.side, o.price, o.lots)
           t == [id |-> o.id, side |-> o.side, type |-> o.type, price |-> o.price,
                 remaining |-> o.lots, rest |-> Rests(o), trades |-> <<>>]
           c == [op |-> "match", order |-> o, remaining |-> o.lots, trades |-> <<>>]
<1>1. /\ CallsLeft /\ ~Known(o.id)
      /\ Risk!Admits(ledger, ro) /\ ledger' = Risk!Reserved(ledger, ro)
      /\ taker' = t /\ book' = book /\ call' = c
      /\ approved' = [approved EXCEPT ![o.id] = a]
      /\ UNCHANGED <<active, history, outside>>
  BY DEF SubmitAccepted, Book!MatchBegin
<1>2. /\ StateOK /\ call = Idle /\ calls' \in 0 .. MaxCalls /\ (\A x : Untouched(x))
      /\ ~Taking /\ ~Restoring
  BY <1>1, NoCall DEF ManagerInv
<1>3. /\ o.id \in OwnIds /\ o.id \in OrderIds /\ o.side \in Book!Sides
      /\ o.type \in OrderTypes /\ o.price \in Prices /\ o.lots \in Book!Lots
      /\ o.lots \in 0 .. MaxLots /\ 0 \in 0 .. MaxLots /\ Rests(o) \in BOOLEAN
  BY RequestFacts, Quantities
<1>4. active[o.id] = NoState /\ book.orders[o.id] = NoOrder
  BY <1>1, <1>2, <1>3 DEF Known, ManagerInv, OrdersOK, BookFine
<1>5. /\ ledger' \in Ledgers /\ ledger'.net = ledger.net
      /\ ledger'.reserved = [ledger.reserved EXCEPT ![o.id] = r]
  <2>1. /\ Risk!Reserved(ledger, ro) \in Ledgers /\ Risk!Reserved(ledger, ro).net = ledger.net
        /\ Risk!Reserved(ledger, ro).reserved = [ledger.reserved EXCEPT ![o.id] = r]
    BY <1>1, <1>2, <1>3, ReservedLedger DEF StateOK
  <2>2. QED BY <1>1, <2>1
<1>6. t \in Book!Takers
  BY <1>3 DEF Book!Takers
<1>7. c \in CallStates /\ c # Idle
  <2>1. c \in CallStates
    BY <1>3 DEF CallStates
  <2>2. QED BY <2>1, OrderManagerAssumption
<1>8. a \in Approvals
  BY <1>3 DEF Approvals
<1>9. approved' \in [OrderIds -> Approvals \cup {NoState}] /\ approved'[o.id] = a
  BY <1>1, <1>2, <1>3, <1>8 DEF StateOK
<1>10. StateOK'
  BY <1>1, <1>2, <1>5, <1>6, <1>7, <1>9 DEF StateOK
<1>11. Taking' /\ ~Restoring' /\ Pending' = <<>> /\ call'.order = o /\ call'.remaining = o.lots
  BY <1>1, <1>7 DEF Taking, Restoring, Pending
<1>12. OrdersOK'
  <2>1. ASSUME NEW x \in OrderIds PROVE ActiveFine(x)' /\ ReservedFine(x)'
    <3>1. ActiveFine(x) /\ ReservedFine(x)
      BY DEF ManagerInv, OrdersOK
    <3>2. ActiveFine(x)'
      BY <1>1, <1>2, <1>3, <1>4, <3>1 DEF ActiveFine, StateOK
    <3>3. ledger'.reserved[x] = IF x = o.id THEN r ELSE ledger.reserved[x]
      BY <1>2, <1>3, <1>5 DEF StateOK, Ledgers
    <3>4. Due(x)' = IF x = o.id THEN r ELSE Due(x)
      <4>1. CASE x = o.id
        BY <1>1, <1>3, <1>4, <1>11, <4>1, Quantities DEF Due
      <4>2. CASE x # o.id
        <5>1. approved'[x] = approved[x]
          BY <1>1, <1>2, <4>2 DEF StateOK
        <5>2. QED BY <1>1, <1>2, <1>11, <4>2, <5>1 DEF Due
      <4>3. QED BY <4>1, <4>2
    <3>5. QED BY <3>1, <3>2, <3>3, <3>4 DEF ReservedFine
  <2>2. ASSUME NEW x \in OwnIds PROVE BookFine(x)'
    BY <1>1, <1>2 DEF ManagerInv, OrdersOK, BookFine, Replacement
  <2>3. QED BY <2>1, <2>2 DEF OrdersOK
<1>13. TakingOK'
  <2>1. o.lots - o.lots = 0 /\ o.lots <= o.lots
    BY <1>3
  <2>2. t \notin {NoTaker}
    BY <1>6, OrderManagerAssumption DEF Book!BookAssumption
  <2>3. /\ call'.op = "match" /\ active'[o.id] = NoState /\ book'.orders[o.id] = NoOrder
        /\ taker' # NoTaker /\ taker'.id = o.id /\ taker'.side = o.side
        /\ taker'.price = o.price /\ taker'.rest = Rests(o)
    BY <1>1, <1>4, <2>2
  <2>4. TakingOK' <=>
          LET p == call'.order
          IN  /\ active'[p.id] = NoState
              /\ call'.remaining <= p.lots
              /\ approved'[p.id] = [side |-> p.side, price |-> p.price, lots |-> p.lots,
                                    gone |-> p.lots - call'.remaining, bare |-> FALSE]
              /\ call'.op = "match" =>
                   /\ taker' # NoTaker
                   /\ taker'.id = p.id /\ taker'.side = p.side /\ taker'.price = p.price
                   /\ taker'.rest = Rests(p)
                   /\ book'.orders[p.id] = NoOrder
              /\ call'.op = "settle" /\ book'.orders[p.id] # NoOrder =>
                   /\ Rests(p)
                   /\ book'.orders[p.id].side = p.side /\ book'.orders[p.id].price = p.price
    BY <1>11 DEF TakingOK, Rests
  <2>5. QED BY <1>9, <1>11, <2>1, <2>3, <2>4
<1>14. PendingOK'
  BY <1>11 DEF PendingOK
<1>15. RunsOK'
  <2> DEFINE f == [k \in 0 .. 0 |-> o.lots]
  <2>1. Len(<<>>) = 0 /\ f \in [0 .. 0 -> 0 .. MaxLots] /\ f[0] = o.lots
    BY <1>3
  <2> HIDE DEF f
  <2>2. call'.op = "match" /\ taker'.remaining = o.lots
    BY <1>1
  <2>3. RunsDown(f)'
    BY <1>11, <2>1, <2>2 DEF RunsDown
  <2>4. QED BY <1>11, <2>1, <2>3 DEF RunsOK
<1>16. RestoringOK' /\ PositionOK'
  BY <1>1, <1>5, <1>11 DEF ManagerInv, RestoringOK, PositionOK
<1>17. QED
  BY <1>10, <1>12, <1>13, <1>14, <1>15, <1>16 DEF ManagerInv

LEMMA Appended ==
    ASSUME NEW S, NEW q \in Seq(S), NEW e \in S
    PROVE  /\ Append(q, e) \in Seq(S) /\ Len(Append(q, e)) = Len(q) + 1 /\ Len(q) \in Nat
           /\ DOMAIN q = 1 .. Len(q) /\ DOMAIN Append(q, e) = 1 .. Len(q) + 1
           /\ \A k \in 1 .. Len(q) : q[k] \in S /\ Append(q, e)[k] = q[k]
           /\ Append(q, e)[Len(q) + 1] = e
BY AppendProperties, LenProperties

\* One step of a match, as what it does to the book and to the taker.
LEMMA MatchTradeFacts ==
    ASSUME ManagerInv, MatchTrade
    PROVE  \E m \in OrderIds, n \in Book!Lots :
             LET o == book.orders[m]
                 t == [maker |-> m, lots |-> n, price |-> o.price]
             IN  /\ o \in Book!Orders /\ o.side = Book!Opposite(taker.side)
                 /\ n <= taker.remaining /\ n <= o.lots
                 /\ n = o.lots \/ n = taker.remaining
                 /\ t \in Book!Trades
                 /\ taker \in Book!Takers /\ taker.remaining > 0
                 /\ taker' = [taker EXCEPT !.remaining = taker.remaining - n,
                                           !.trades = Append(taker.trades, t)]
                 /\ SoundBook(book')
                 /\ book'.orders = [book.orders EXCEPT ![m] =
                      IF n = o.lots THEN NoOrder ELSE [o EXCEPT !.lots = o.lots - n]]
<1>1. SoundBook(book) /\ taker \in Book!Takers /\ taker # NoTaker /\ taker.remaining > 0
  BY DEF ManagerInv, StateOK, MatchTrade, Book!MatchTrade
<1>2. PICK m \in OrderIds : LET n == Book!Smaller(taker.remaining, book.orders[m].lots) IN
        /\ Book!IsBest(book, taker, m)
        /\ taker' = [taker EXCEPT
                       !.remaining = @ - n,
                       !.trades = Append(@, [maker |-> m, lots |-> n,
                                             price |-> book.orders[m].price])]
        /\ book' = Book!Reduced(book, m, n)
  BY DEF MatchTrade, Book!MatchTrade
<1> DEFINE o == book.orders[m]
           n == Book!Smaller(taker.remaining, o.lots)
           t == [maker |-> m, lots |-> n, price |-> o.price]
<1>3. m \in Book!Live(book) /\ o.side = Book!Opposite(taker.side)
  BY <1>2 DEF Book!IsBest, Book!Candidates, Book!SideOf
<1>4. o \in Book!Orders
  BY <1>1, <1>3 DEF SoundBook, Books, Book!Live
<1>5. o.lots \in Book!Lots /\ o.price \in Prices /\ taker.remaining \in 0 .. MaxLots
  BY <1>1, <1>4 DEF Book!Orders, Book!Takers
<1>6. /\ n \in Book!Lots /\ n <= taker.remaining /\ n <= o.lots
      /\ n = o.lots \/ n = taker.remaining
      /\ n >= o.lots <=> n = o.lots
  BY <1>1, <1>5, Quantities DEF Book!Smaller
<1>7. t \in Book!Trades
  BY <1>5, <1>6 DEF Book!Trades
<1>8. taker' = [taker EXCEPT !.remaining = taker.remaining - n,
                             !.trades = Append(taker.trades, t)]
  BY <1>2
<1>9. book' = Book!Reduced(book, m, n)
  BY <1>2
<1> HIDE DEF n
<1>10. /\ SoundBook(book')
       /\ book'.orders = [book.orders EXCEPT ![m] =
            IF n >= o.lots THEN NoOrder ELSE [o EXCEPT !.lots = o.lots - n]]
  BY <1>1, <1>3, <1>6, <1>9, ReducedOrders
<1>11. book'.orders = [book.orders EXCEPT ![m] =
         IF n = o.lots THEN NoOrder ELSE [o EXCEPT !.lots = o.lots - n]]
  BY <1>6, <1>10
<1> HIDE DEF o, t
<1>12. QED BY <1>1, <1>3, <1>4, <1>6, <1>7, <1>8, <1>10, <1>11 DEF o, t

LEMMA TakingFacts ==
    ASSUME ManagerInv, Taking
    PROVE  /\ ~Restoring /\ call # Idle /\ call.op \in {"match", "settle"}
           /\ call \in [op : {"match", "settle"}, order : Requests,
                        remaining : 0 .. MaxLots, trades : Seq(Book!Trades)]
           /\ call.order.id \in OwnIds /\ call.order.id \in OrderIds
           /\ call.order.side \in Book!Sides /\ call.order.price \in Prices
           /\ call.order.lots \in Book!Lots /\ call.order.lots \in 1 .. MaxLots
           /\ call.remaining \in 0 .. MaxLots /\ call.remaining <= call.order.lots
           /\ active[call.order.id] = NoState
           /\ approved[call.order.id] =
                [side |-> call.order.side, price |-> call.order.price, lots |-> call.order.lots,
                 gone |-> call.order.lots - call.remaining, bare |-> FALSE]
<1>1. call \in [op : {"match", "settle"}, order : Requests,
                remaining : 0 .. MaxLots, trades : Seq(Book!Trades)]
  BY CallFacts DEF ManagerInv
<1>2. call.order \in Requests /\ call.remaining \in 0 .. MaxLots
  BY <1>1
<1>3. TakingOK
  BY DEF ManagerInv
<1>4. ~Restoring
  BY DEF Taking, Restoring
<1>5. QED
  BY <1>1, <1>2, <1>3, <1>4, RequestFacts DEF TakingOK, Taking

LEMMA MatchTradeInv ==
    ASSUME ManagerInv, MatchTrade
    PROVE  ManagerInv'
<1> DEFINE o == call.order
           q == taker.trades
<1>1. /\ call # Idle /\ call.op = "match" /\ Taking
      /\ UNCHANGED <<ledger, active, history, call, calls, approved, outside>>
  BY DEF MatchTrade, Taking
<1>2. /\ StateOK /\ TakingOK /\ PendingOK /\ RunsOK /\ ~Restoring
      /\ o.id \in OwnIds /\ o.id \in OrderIds
  BY <1>1, TakingFacts DEF ManagerInv
<1>3. PICK m \in OrderIds, n \in Book!Lots :
        LET b == book.orders[m]
            t == [maker |-> m, lots |-> n, price |-> b.price]
        IN  /\ b \in Book!Orders /\ b.side = Book!Opposite(taker.side)
            /\ n <= taker.remaining /\ n <= b.lots
            /\ n = b.lots \/ n = taker.remaining
            /\ t \in Book!Trades
            /\ taker \in Book!Takers /\ taker.remaining > 0
            /\ taker' = [taker EXCEPT !.remaining = taker.remaining - n,
                                      !.trades = Append(taker.trades, t)]
            /\ SoundBook(book')
            /\ book'.orders = [book.orders EXCEPT ![m] =
                 IF n = b.lots THEN NoOrder ELSE [b EXCEPT !.lots = b.lots - n]]
  BY MatchTradeFacts
<1> DEFINE b == book.orders[m]
           t == [maker |-> m, lots |-> n, price |-> b.price]
           left == IF n = b.lots THEN NoOrder ELSE [b EXCEPT !.lots = b.lots - n]
<1>4. /\ b \in Book!Orders /\ b.side = Book!Opposite(taker.side)
      /\ n <= taker.remaining /\ n <= b.lots
      /\ n = b.lots \/ n = taker.remaining
      /\ t \in Book!Trades
      /\ taker \in Book!Takers /\ taker.remaining > 0
      /\ taker' = [taker EXCEPT !.remaining = taker.remaining - n, !.trades = Append(q, t)]
      /\ SoundBook(book')
      /\ book'.orders = [book.orders EXCEPT ![m] = left]
  BY <1>3
<1>5. /\ b \in Book!Orders /\ b # NoOrder /\ b.lots \in Nat \ {0} /\ n \in Nat \ {0}
      /\ taker.remaining \in 0 .. MaxLots /\ q \in Seq(Book!Trades)
  <2>1. b.lots \in Book!Lots /\ taker.remaining \in 0 .. MaxLots /\ q \in Seq(Book!Trades)
    BY <1>4 DEF Book!Orders, Book!Takers
  <2>2. QED BY <1>4, <2>1, Quantities
<1>6. /\ taker.id = o.id /\ taker.side = o.side /\ taker.price = o.price
      /\ taker.rest = Rests(o) /\ taker # NoTaker /\ book.orders[o.id] = NoOrder
  BY <1>1, <1>2 DEF TakingOK
<1>7. m # o.id
  BY <1>5, <1>6
<1>8. Pending = q /\ Pending' = Append(q, t) /\ taker'.remaining = taker.remaining - n
  BY <1>1, <1>4 DEF Pending, Book!Takers
<1>9. taker.remaining - n \in 0 .. MaxLots
  BY <1>4, <1>5, Quantities
<1>10. taker' \in Book!Takers /\ taker' # NoTaker
       /\ taker'.id = o.id /\ taker'.side = o.side /\ taker'.price = o.price
       /\ taker'.rest = Rests(o)
  <2>1. Append(q, t) \in Seq(Book!Trades)
    BY <1>4, <1>5, Appended
  <2>2. /\ taker' \in Book!Takers
        /\ taker'.id = taker.id /\ taker'.side = taker.side /\ taker'.price = taker.price
        /\ taker'.rest = taker.rest
    BY <1>4, <1>9, <2>1 DEF Book!Takers
  <2>3. QED BY <1>6, <2>2, OrderManagerAssumption DEF Book!BookAssumption
<1> HIDE DEF left, t
<1>11. /\ book'.orders[m] = left
       /\ \A x \in OrderIds : x # m => book'.orders[x] = book.orders[x]
  BY <1>2, <1>4 DEF StateOK, SoundBook, Books
<1>12. StateOK'
  BY <1>1, <1>2, <1>4, <1>10 DEF StateOK
<1>13. Taking' /\ ~Restoring' /\ call' = call
  BY <1>1, <1>2 DEF Taking, Restoring
<1>14. /\ Len(q) \in Nat /\ DOMAIN q = 1 .. Len(q) /\ DOMAIN Pending' = 1 .. Len(q) + 1
       /\ Len(Pending') = Len(q) + 1
       /\ \A k \in 1 .. Len(q) : Pending'[k] = q[k]
       /\ Pending'[Len(q) + 1] = t
  BY <1>4, <1>5, <1>8, Appended
<1>15. t.maker = m /\ t.lots = n
  BY DEF t
<1>16. \A k \in 1 .. Len(q) : q[k] \in Book!Trades /\ q[k].maker \in OrderIds
         /\ q[k].maker # o.id /\ book.orders[q[k].maker] = NoOrder /\ q[k].maker # m
  <2> SUFFICES ASSUME NEW k \in 1 .. Len(q)
               PROVE  q[k] \in Book!Trades /\ q[k].maker \in OrderIds
                      /\ q[k].maker # o.id /\ book.orders[q[k].maker] = NoOrder
    BY <1>5
  <2>1. q[k] \in Book!Trades
    BY <1>5, Appended, <1>4
  <2>2. taker.remaining # 0
    BY <1>4, <1>5
  <2>3. q[k].maker # o.id /\ book.orders[q[k].maker] = NoOrder
    BY <1>1, <1>2, <1>8, <1>14, <2>2 DEF PendingOK
  <2>4. QED BY <2>1, <2>3 DEF Book!Trades
<1>17. \A x : Untouched(x)' => Untouched(x) /\ x # m
  <2> SUFFICES ASSUME NEW x, Untouched(x)'
               PROVE  x # o.id /\ ~IsPending(x) /\ x # m
    BY <1>2 DEF Untouched
  <2>1. x # o.id /\ ~(\E k \in DOMAIN Pending' : Pending'[k].maker = x)
    BY <1>13 DEF Untouched, IsPending
  <2>2. \A k \in 1 .. Len(q) : k \in 1 .. Len(q) + 1
    BY <1>14
  <2>3. ~(\E k \in DOMAIN q : q[k].maker = x)
    BY <1>14, <2>1, <2>2
  <2>4. Len(q) + 1 \in 1 .. Len(q) + 1
    BY <1>14
  <2>5. x # m
    BY <1>14, <1>15, <2>1, <2>4
  <2>6. QED BY <1>8, <2>1, <2>3, <2>5 DEF IsPending
<1>18. OrdersOK'
  <2>1. ASSUME NEW x \in OrderIds PROVE ActiveFine(x)' /\ ReservedFine(x)'
    <3>1. ActiveFine(x) /\ ReservedFine(x)
      BY DEF ManagerInv, OrdersOK
    <3>2. ActiveFine(x)'
      BY <1>1, <3>1 DEF ActiveFine
    <3>3. Due(x)' = Due(x)
      BY <1>1, <1>2, <1>13 DEF Due
    <3>4. QED BY <1>1, <3>1, <3>2, <3>3 DEF ReservedFine
  <2>2. ASSUME NEW x \in OwnIds, Untouched(x)' PROVE BookFine(x)'
    <3>1. BookFine(x) /\ x # m /\ x \in OrderIds
      BY <1>17, <2>2 DEF ManagerInv, OrdersOK, OwnIds
    <3>2. book'.orders[x] = book.orders[x]
      BY <1>11, <3>1
    <3>3. QED BY <1>1, <3>1, <3>2 DEF BookFine, Replacement
  <2>3. QED BY <2>1, <2>2 DEF OrdersOK
<1>19. TakingOK'
  <2>1. /\ active[o.id] = NoState /\ call.remaining <= o.lots
        /\ approved[o.id] = [side |-> o.side, price |-> o.price, lots |-> o.lots,
                             gone |-> o.lots - call.remaining, bare |-> FALSE]
    BY <1>1, <1>2 DEF TakingOK
  <2>2. book'.orders[o.id] = NoOrder
    BY <1>2, <1>6, <1>7, <1>11
  <2>3. QED BY <1>1, <1>10, <1>13, <2>1, <2>2 DEF TakingOK, Rests
\* The maker is an order of the manager that no earlier trade took.
<1>20. m \in OwnIds =>
         /\ active[m] # NoState
         /\ b = [side |-> active[m].side, price |-> active[m].price, lots |-> active[m].remaining]
  <2> SUFFICES ASSUME m \in OwnIds
               PROVE  /\ active[m] # NoState
                      /\ b = [side |-> active[m].side, price |-> active[m].price,
                              lots |-> active[m].remaining]
    OBVIOUS
  <2>1. Untouched(m)
    BY <1>2, <1>7, <1>8, <1>14, <1>16 DEF Untouched, IsPending
  <2>2. BookFine(m)
    BY <2>1 DEF ManagerInv, OrdersOK
  <2>3. QED BY <1>5, <2>2 DEF BookFine, Replacement
<1>21. PendingOK'
  <2> SUFFICES ASSUME NEW k \in 1 .. Len(q) + 1
               PROVE  LET p == Pending'[k]
                          s == active[p.maker]
                      IN  /\ p.maker # o.id
                          /\ \A j \in 1 .. Len(q) + 1 : Pending'[j].maker = p.maker => j = k
                          /\ book'.orders[p.maker] # NoOrder => taker'.remaining = 0
                          /\ p.maker \in OwnIds =>
                               /\ s # NoState
                               /\ s.side = Book!Opposite(o.side)
                               /\ p.lots <= s.remaining
                               /\ book'.orders[p.maker] =
                                    IF p.lots = s.remaining THEN NoOrder
                                    ELSE [side |-> s.side, price |-> s.price,
                                          lots |-> s.remaining - p.lots]
    BY <1>1, <1>13, <1>14 DEF PendingOK, Replacement
  <2>1. CASE k \in 1 .. Len(q)
    <3>1. /\ Pending'[k] = q[k] /\ q[k].maker # m /\ q[k].maker # o.id
          /\ q[k].maker \in OrderIds /\ book.orders[q[k].maker] = NoOrder
          /\ book'.orders[q[k].maker] = book.orders[q[k].maker]
      BY <1>11, <1>14, <1>16, <2>1
    <3>2. \A j \in 1 .. Len(q) + 1 : Pending'[j].maker = q[k].maker => j = k
      <4>1. ASSUME NEW j \in 1 .. Len(q), q[j].maker = q[k].maker PROVE j = k
        BY <1>1, <1>2, <1>8, <1>14, <2>1, <4>1 DEF PendingOK
      <4>2. \A j \in 1 .. Len(q) + 1 : j \in 1 .. Len(q) \/ j = Len(q) + 1
        BY <1>14
      <4>3. QED BY <1>14, <1>15, <3>1, <4>1, <4>2
    <3>3. q[k].maker \in OwnIds =>
            LET s == active[q[k].maker]
            IN  /\ s # NoState
                /\ s.side = Book!Opposite(o.side)
                /\ q[k].lots <= s.remaining
                /\ book.orders[q[k].maker] =
                     IF q[k].lots = s.remaining THEN NoOrder
                     ELSE [side |-> s.side, price |-> s.price, lots |-> s.remaining - q[k].lots]
      BY <1>1, <1>2, <1>8, <1>14, <2>1 DEF PendingOK, Replacement
    <3>4. QED BY <3>1, <3>2, <3>3
  <2>2. CASE k = Len(q) + 1
    <3>1. Pending'[k] = t /\ t.maker = m /\ t.lots = n
      BY <1>14, <1>15, <2>2
    <3>2. \A j \in 1 .. Len(q) + 1 : Pending'[j].maker = m => j = k
      <4>1. \A j \in 1 .. Len(q) + 1 : j \in 1 .. Len(q) \/ j = Len(q) + 1
        BY <1>14
      <4>2. QED BY <1>14, <1>16, <2>2, <4>1
    <3>3. book'.orders[m] # NoOrder => taker'.remaining = 0
      <4>1. n # b.lots => taker.remaining - n = 0
        BY <1>4, <1>5
      <4>2. n = b.lots => left = NoOrder
        BY DEF left
      <4>3. QED BY <1>8, <1>11, <4>1, <4>2
    <3>4. ASSUME m \in OwnIds
          PROVE  LET s == active[m]
                 IN  /\ s # NoState
                     /\ s.side = Book!Opposite(o.side)
                     /\ n <= s.remaining
                     /\ book'.orders[m] =
                          IF n = s.remaining THEN NoOrder
                          ELSE [side |-> s.side, price |-> s.price, lots |-> s.remaining - n]
      <4> DEFINE s == active[m]
      <4>1. s # NoState /\ b = [side |-> s.side, price |-> s.price, lots |-> s.remaining]
        BY <1>20, <3>4
      <4>2. /\ b.side = s.side /\ b.price = s.price /\ b.lots = s.remaining
        BY <4>1
      <4>3. n # b.lots => [b EXCEPT !.lots = b.lots - n] =
                            [side |-> s.side, price |-> s.price, lots |-> s.remaining - n]
        BY <4>1
      <4> HIDE DEF b, s
      <4>4. left = IF n = s.remaining THEN NoOrder
                   ELSE [side |-> s.side, price |-> s.price, lots |-> s.remaining - n]
        BY <4>2, <4>3 DEF left
      <4>5. QED BY <1>4, <1>6, <1>11, <4>1, <4>2, <4>4 DEF s
    <3>5. QED BY <1>7, <3>1, <3>2, <3>3, <3>4
  <2>3. QED BY <1>14, <2>1, <2>2
<1>22. RunsOK'
  <2>1. PICK f \in [0 .. Len(q) -> 0 .. MaxLots] : RunsDown(f)
    BY <1>1, <1>2, <1>8 DEF RunsOK
  <2>2. /\ f[0] = call.remaining /\ f[Len(q)] = taker.remaining
        /\ \A k \in 1 .. Len(q) : f[k] = f[k - 1] - q[k].lots
    BY <1>1, <1>8, <2>1 DEF RunsDown
  <2>0. PICK g : g = [k \in 0 .. Len(q) + 1 |->
                        IF k = Len(q) + 1 THEN taker.remaining - n ELSE f[k]]
    OBVIOUS
  <2>3. g \in [0 .. Len(q) + 1 -> 0 .. MaxLots]
    <3>1. \A k \in 0 .. Len(q) + 1 : k = Len(q) + 1 \/ k \in 0 .. Len(q)
      BY <1>14
    <3>2. QED BY <1>9, <2>0, <3>1
  <2>4. g[Len(q) + 1] = taker.remaining - n /\ (\A k \in 0 .. Len(q) : g[k] = f[k])
    BY <1>14, <2>0
  <2>5. g[0] = call.remaining
    BY <1>14, <2>2, <2>4
  <2>6. \A k \in 1 .. Len(q) + 1 : g[k] = g[k - 1] - Pending'[k].lots
    <3> SUFFICES ASSUME NEW k \in 1 .. Len(q) + 1 PROVE g[k] = g[k - 1] - Pending'[k].lots
      OBVIOUS
    <3>1. CASE k = Len(q) + 1
      <4>1. k - 1 = Len(q) /\ Len(q) \in 0 .. Len(q)
        BY <1>14, <3>1
      <4>2. QED BY <1>14, <1>15, <2>2, <2>4, <3>1, <4>1
    <3>2. CASE k \in 1 .. Len(q)
      <4>1. k - 1 \in 0 .. Len(q) /\ k \in 0 .. Len(q)
        BY <1>14, <3>2
      <4>2. QED BY <1>14, <2>2, <2>4, <3>2, <4>1
    <3>3. QED BY <1>14, <3>1, <3>2
  <2>7. RunsDown(g)'
    BY <1>1, <1>8, <1>14, <2>3, <2>4, <2>5, <2>6 DEF RunsDown
  <2>8. QED BY <1>14, <2>3, <2>7 DEF RunsOK
<1>23. RestoringOK' /\ PositionOK'
  BY <1>1, <1>13 DEF ManagerInv, RestoringOK, PositionOK
<1>24. QED
  BY <1>12, <1>18, <1>19, <1>21, <1>22, <1>23 DEF ManagerInv

\* What is left of the order rests in the book, or not.
LEMMA MatchEndFacts ==
    ASSUME ManagerInv, MatchEnd
    PROVE  LET o == call.order
           IN  /\ SoundBook(book') /\ taker \in Book!Takers
               /\ \A x \in OrderIds : x # o.id => book'.orders[x] = book.orders[x]
               /\ book'.orders[o.id] # NoOrder =>
                    /\ Rests(o)
                    /\ book'.orders[o.id] =
                         [side |-> o.side, price |-> o.price, lots |-> taker.remaining]
<1> DEFINE o == call.order
           left == Book!Residual(taker)
<1>1. /\ Taking /\ call.op = "match" /\ taker # NoTaker
      /\ book' = IF Book!Rests(book, taker) THEN Book!Added(book, taker.id, left) ELSE book
  BY DEF MatchEnd, Taking, Book!MatchEnd
<1>2. /\ SoundBook(book) /\ taker \in Book!Takers
      /\ taker.id = o.id /\ taker.side = o.side /\ taker.price = o.price
      /\ taker.rest = Rests(o) /\ book.orders[o.id] = NoOrder
      /\ o.id \in OrderIds
  BY <1>1, TakingFacts DEF ManagerInv, StateOK, TakingOK
<1>3. CASE Book!Rests(book, taker)
  <2>1. /\ taker.rest /\ taker.remaining > 0 /\ Book!CanAdd(book, o.id, left)
        /\ book' = Book!Added(book, o.id, left)
    BY <1>1, <1>2, <1>3 DEF Book!Rests
  <2>2. left = [side |-> o.side, price |-> o.price, lots |-> taker.remaining]
    BY <1>2 DEF Book!Residual
  <2>3. left \in Book!Orders
    <3>1. taker.remaining \in 0 .. MaxLots /\ taker.side \in Book!Sides /\ taker.price \in Prices
      BY <1>2 DEF Book!Takers
    <3>2. taker.remaining \in Book!Lots
      BY <2>1, <3>1, Quantities
    <3>3. QED BY <1>2, <2>2, <3>1, <3>2 DEF Book!Orders
  <2>4. SoundBook(book') /\ book'.orders = [book.orders EXCEPT ![o.id] = left]
    BY <1>2, <2>1, <2>3, AddedOrders
  <2> HIDE DEF left
  <2>5. /\ book'.orders[o.id] = left
        /\ \A x \in OrderIds : x # o.id => book'.orders[x] = book.orders[x]
    BY <1>2, <2>4 DEF SoundBook, Books
  <2>6. Rests(o)
    BY <1>2, <2>1
  <2>7. QED BY <1>2, <2>2, <2>4, <2>5, <2>6
<1>4. CASE ~Book!Rests(book, taker)
  BY <1>1, <1>2, <1>4
<1>5. QED BY <1>3, <1>4

LEMMA MatchEndInv ==
    ASSUME ManagerInv, MatchEnd
    PROVE  ManagerInv'
<1> DEFINE o == call.order
           q == taker.trades
<1>1. /\ call # Idle /\ call.op = "match" /\ Taking /\ taker' = NoTaker
      /\ call' = [call EXCEPT !.op = "settle", !.trades = q]
      /\ UNCHANGED <<ledger, active, history, calls, approved, outside>>
  BY DEF MatchEnd, Taking, Book!MatchEnd
<1>2. /\ StateOK /\ TakingOK /\ PendingOK /\ RunsOK /\ ~Restoring
      /\ o.id \in OwnIds /\ o.id \in OrderIds
      /\ call \in [op : {"match", "settle"}, order : Requests,
                   remaining : 0 .. MaxLots, trades : Seq(Book!Trades)]
  BY <1>1, TakingFacts DEF ManagerInv
<1>3. /\ SoundBook(book') /\ taker \in Book!Takers /\ q \in Seq(Book!Trades)
      /\ \A x \in OrderIds : x # o.id => book'.orders[x] = book.orders[x]
      /\ book'.orders[o.id] # NoOrder =>
           /\ Rests(o)
           /\ book'.orders[o.id] =
                [side |-> o.side, price |-> o.price, lots |-> taker.remaining]
  BY MatchEndFacts DEF Book!Takers
<1>4. /\ call' \in CallStates /\ call' # Idle
      /\ call'.op = "settle" /\ call'.trades = q /\ call'.order = o
      /\ call'.remaining = call.remaining
  <2>1. /\ call' \in [op : {"match", "settle"}, order : Requests,
                      remaining : 0 .. MaxLots, trades : Seq(Book!Trades)]
        /\ call'.op = "settle" /\ call'.trades = q /\ call'.order = o
        /\ call'.remaining = call.remaining
    BY <1>1, <1>2, <1>3
  <2>2. QED BY <2>1, OrderManagerAssumption DEF CallStates
<1>5. Pending = q /\ Pending' = q /\ Taking' /\ ~Restoring'
  BY <1>1, <1>4 DEF Pending, Taking, Restoring
<1>6. StateOK'
  BY <1>1, <1>2, <1>3, <1>4 DEF StateOK
<1>7. Len(q) \in Nat /\ DOMAIN q = 1 .. Len(q) /\ \A k \in 1 .. Len(q) : q[k].maker \in OrderIds
  <2>1. Len(q) \in Nat /\ DOMAIN q = 1 .. Len(q) /\ \A k \in 1 .. Len(q) : q[k] \in Book!Trades
    BY <1>3, LenProperties
  <2>2. QED BY <2>1 DEF Book!Trades
<1>8. OrdersOK'
  <2>1. ASSUME NEW x \in OrderIds PROVE ActiveFine(x)' /\ ReservedFine(x)'
    <3>1. ActiveFine(x) /\ ReservedFine(x)
      BY DEF ManagerInv, OrdersOK
    <3>2. ActiveFine(x)'
      BY <1>1, <3>1 DEF ActiveFine
    <3>3. Due(x)' = Due(x)
      BY <1>1, <1>2, <1>4, <1>5 DEF Due
    <3>4. QED BY <1>1, <3>1, <3>2, <3>3 DEF ReservedFine
  <2>2. ASSUME NEW x \in OwnIds, Untouched(x)' PROVE BookFine(x)'
    <3>1. Untouched(x) /\ x # o.id /\ x \in OrderIds
      BY <1>2, <1>4, <1>5, <2>2 DEF Untouched, IsPending, OwnIds
    <3>2. BookFine(x) /\ book'.orders[x] = book.orders[x]
      BY <1>3, <3>1 DEF ManagerInv, OrdersOK
    <3>3. QED BY <1>1, <3>2 DEF BookFine, Replacement
  <2>3. QED BY <2>1, <2>2 DEF OrdersOK
<1>9. TakingOK'
  <2>1. /\ active[o.id] = NoState /\ call.remaining <= o.lots
        /\ approved[o.id] = [side |-> o.side, price |-> o.price, lots |-> o.lots,
                             gone |-> o.lots - call.remaining, bare |-> FALSE]
    BY <1>1, <1>2 DEF TakingOK
  <2>2. book'.orders[o.id] # NoOrder =>
          Rests(o) /\ book'.orders[o.id].side = o.side /\ book'.orders[o.id].price = o.price
    BY <1>3
  <2>3. QED BY <1>1, <1>4, <1>5, <2>1, <2>2 DEF TakingOK, Rests
<1>10. PendingOK'
  <2> SUFFICES ASSUME NEW k \in 1 .. Len(q)
               PROVE  LET t == q[k]
                          s == active[t.maker]
                      IN  /\ t.maker # o.id
                          /\ \A j \in 1 .. Len(q) : q[j].maker = t.maker => j = k
                          /\ t.maker \in OwnIds =>
                               /\ s # NoState
                               /\ s.side = Book!Opposite(o.side)
                               /\ t.lots <= s.remaining
                               /\ book'.orders[t.maker] =
                                    IF t.lots = s.remaining THEN NoOrder
                                    ELSE Replacement(t.maker, s.price, s.remaining - t.lots)
    BY <1>1, <1>4, <1>5, <1>7 DEF PendingOK, Replacement
  <2>1. LET t == q[k]
            s == active[t.maker]
        IN  /\ t.maker # o.id
            /\ \A j \in 1 .. Len(q) : q[j].maker = t.maker => j = k
            /\ t.maker \in OwnIds =>
                 /\ s # NoState
                 /\ s.side = Book!Opposite(o.side)
                 /\ t.lots <= s.remaining
                 /\ book.orders[t.maker] =
                      IF t.lots = s.remaining THEN NoOrder
                      ELSE Replacement(t.maker, s.price, s.remaining - t.lots)
    BY <1>1, <1>2, <1>5, <1>7 DEF PendingOK
  <2>2. book'.orders[q[k].maker] = book.orders[q[k].maker]
    BY <1>3, <1>7, <2>1
  <2>3. QED BY <2>1, <2>2
<1>11. RunsOK'
  <2>1. PICK f \in [0 .. Len(q) -> 0 .. MaxLots] : RunsDown(f)
    BY <1>1, <1>2, <1>5 DEF RunsOK
  <2>2. /\ f[0] = call.remaining /\ f[Len(q)] = taker.remaining
        /\ \A k \in 1 .. Len(q) : f[k] = f[k - 1] - q[k].lots
    BY <1>1, <1>5, <2>1 DEF RunsDown
  <2>3. book'.orders[o.id] # NoOrder => f[Len(q)] = book'.orders[o.id].lots
    BY <1>3, <2>2
  <2>4. RunsDown(f)'
    BY <1>4, <1>5, <2>1, <2>2, <2>3 DEF RunsDown
  <2>5. QED BY <1>5, <2>1, <2>4 DEF RunsOK
<1>12. RestoringOK' /\ PositionOK'
  BY <1>1, <1>5 DEF ManagerInv, RestoringOK, PositionOK
<1>13. QED
  BY <1>6, <1>8, <1>9, <1>10, <1>11, <1>12 DEF ManagerInv

LEMMA SubmitFinishInv ==
    ASSUME ManagerInv, SubmitFinish
    PROVE  ManagerInv'
<1>1. PICK o : o = call.order
  OBVIOUS
<1> DEFINE left == call.remaining
           filled == o.lots - left
           resting == Rests(o) /\ left > 0 /\ o.id \in Book!Live(book)
           status == IF left = 0 THEN "FILLED"
                     ELSE IF filled > 0 THEN "PARTIALLY_FILLED"
                     ELSE IF resting THEN "RESTING" ELSE "CANCELED"
           s == State(o.side, o.price, o.lots, IF resting THEN left ELSE 0, filled, status)
           due == [side |-> o.side, price |-> o.price, remaining |-> left]
<1>2. /\ call # Idle /\ call.op = "settle" /\ call.trades = <<>> /\ Taking
      /\ active' = [active EXCEPT ![o.id] = IF resting THEN s ELSE @]
      /\ ledger' = IF resting THEN ledger ELSE Risk!Released(ledger, o.id, left)
      /\ history' = Upserted(history, active', o.id, s)
      /\ call' = Idle
      /\ UNCHANGED <<book, taker, calls, approved, outside>>
  BY <1>1 DEF SubmitFinish, Taking
<1>3. /\ StateOK /\ TakingOK /\ RunsOK /\ ~Restoring
      /\ o.id \in OwnIds /\ o.id \in OrderIds /\ o.side \in Book!Sides /\ o.price \in Prices
      /\ o.lots \in Book!Lots /\ o.lots \in 1 .. MaxLots
      /\ left \in 0 .. MaxLots /\ left <= o.lots
      /\ active[o.id] = NoState
      /\ approved[o.id] = [side |-> o.side, price |-> o.price, lots |-> o.lots,
                           gone |-> filled, bare |-> FALSE]
  BY <1>1, <1>2, TakingFacts DEF ManagerInv
<1>4. filled \in 0 .. MaxLots /\ filled = o.lots - left /\ left = o.lots - filled
  BY <1>3, Quantities
\* What rests is what is left.
<1>5. /\ book.orders[o.id] # NoOrder =>
           /\ Rests(o) /\ left > 0 /\ left \in Book!Lots
           /\ book.orders[o.id] = [side |-> o.side, price |-> o.price, lots |-> left]
      /\ resting <=> book.orders[o.id] # NoOrder
  <2> SUFFICES ASSUME book.orders[o.id] # NoOrder
               PROVE  /\ Rests(o) /\ left > 0 /\ left \in Book!Lots
                      /\ book.orders[o.id] = [side |-> o.side, price |-> o.price, lots |-> left]
    BY <1>3 DEF Book!Live
  <2>1. book.orders[o.id] \in Book!Orders
    BY <1>3 DEF StateOK, SoundBook, Books
  <2>2. Rests(o) /\ book.orders[o.id].side = o.side /\ book.orders[o.id].price = o.price
    BY <1>1, <1>2, <1>3 DEF TakingOK
  <2>3. PICK f : RunsDown(f)
    BY <1>2, <1>3 DEF RunsOK
  <2>4. Pending = <<>> /\ Len(<<>>) = 0
    BY <1>2 DEF Pending
  <2>5. book.orders[o.id].lots = left
    BY <1>1, <1>2, <2>3, <2>4 DEF RunsDown
  <2>6. left \in Book!Lots /\ left > 0
    BY <2>1, <2>5, Quantities DEF Book!Orders
  <2>7. QED BY <2>1, <2>2, <2>5, <2>6 DEF Book!Orders
<1>6. PICK rests \in BOOLEAN : rests = resting
  OBVIOUS
<1>7. /\ active' = [active EXCEPT ![o.id] = IF rests THEN s ELSE NoState]
      /\ ledger' = IF rests THEN ledger ELSE Risk!Released(ledger, o.id, left)
  <2> HIDE DEF s
  <2>1. active = [active EXCEPT ![o.id] = NoState]
    BY <1>3 DEF StateOK
  <2>2. QED BY <1>2, <1>3, <1>6, <2>1
<1>8. rests => s.remaining = left
  BY <1>6 DEF State
<1>9. /\ s \in OrderStates /\ s # NoState
      /\ s.side = o.side /\ s.price = o.price /\ s.initial = o.lots /\ s.filled = filled
  <2> DEFINE shown == IF resting THEN left ELSE 0
  <2>1. shown \in 0 .. MaxLots
    BY <1>3, Quantities
  <2>2. status \in {"RESTING", "PARTIALLY_FILLED", "FILLED", "CANCELED", "REJECTED"}
    OBVIOUS
  <2>3. s = State(o.side, o.price, o.lots, shown, filled, status)
    OBVIOUS
  <2> HIDE DEF shown, status, s
  <2>4. s \in OrderStates
    BY <1>3, <1>4, <2>1, <2>2, <2>3 DEF State, OrderStates
  <2>5. QED BY <2>3, <2>4, OrderManagerAssumption DEF State
<1> HIDE DEF s, status, resting
<1>10. /\ SoundHistory(history')
       /\ active'[o.id] # NoState => history'.states[o.id] = s
       /\ \A x \in OrderIds : active'[x] # NoState /\ x # o.id =>
            history'.states[x] = history.states[x]
  BY <1>2, <1>3, <1>9, HistoryAfter
<1>11. /\ active' \in [OrderIds -> OrderStates \cup {NoState}]
       /\ active'[o.id] = IF rests THEN s ELSE NoState
  BY <1>3, <1>7, <1>9 DEF StateOK
<1>12. ledger.reserved[o.id] = IF left > 0 THEN due ELSE NoReservation
  BY <1>1, <1>2, <1>3 DEF ManagerInv, OrdersOK, ReservedFine, Due
<1>13. /\ ledger' \in Ledgers /\ ledger'.net = ledger.net
       /\ ledger'.reserved = IF rests THEN ledger.reserved
                             ELSE [ledger.reserved EXCEPT ![o.id] = NoReservation]
  <2>1. CASE rests
    BY <1>3, <1>7, <2>1 DEF StateOK
  <2>2. CASE ~rests
    <3>1. left \in Nat /\ (left > 0 \/ left = 0)
      BY <1>3, Quantities
    <3>2. ledger.reserved[o.id] = NoReservation \/ ledger.reserved[o.id].remaining = left
      BY <1>12, <3>1
    <3>3. LeftOf(ledger.reserved[o.id], left) = NoReservation
      BY <3>1, <3>2, LeftOfAll
    <3>4. QED BY <1>3, <1>7, <2>2, <3>1, <3>3, ReleasedLedger DEF StateOK
  <2>3. QED BY <2>1, <2>2
<1>14. StateOK'
  BY <1>2, <1>3, <1>10, <1>11, <1>13 DEF StateOK
<1>15. ~Taking' /\ ~Restoring'
  BY <1>2 DEF Taking, Restoring
<1>16. ActiveFine(o.id)' /\ BookFine(o.id)' /\ ReservedFine(o.id)'
  <2>1. CASE rests
    <3>1. /\ active'[o.id] = s /\ history'.states[o.id] = s /\ s.remaining = left
          /\ book.orders[o.id] = [side |-> o.side, price |-> o.price, lots |-> left]
          /\ left \in Book!Lots /\ left > 0
      BY <1>5, <1>6, <1>8, <1>9, <1>10, <1>11, <2>1
    <3>2. approved'[o.id] \in Approvals
      BY <1>2, <1>3, <1>4 DEF Approvals
    <3>3. ActiveFine(o.id)'
      BY <1>2, <1>3, <1>4, <1>9, <3>1, <3>2 DEF ActiveFine
    <3>4. BookFine(o.id)'
      BY <1>2, <1>9, <3>1 DEF BookFine, Replacement
    <3>5. Due(o.id)' = due
      BY <1>2, <1>3, <1>9, <1>15, <3>1 DEF Due
    <3>6. ledger'.reserved[o.id] = due
      BY <1>12, <1>13, <2>1, <3>1
    <3>7. QED BY <3>3, <3>4, <3>5, <3>6 DEF ReservedFine
  <2>2. CASE ~rests
    <3>1. active'[o.id] = NoState /\ book'.orders[o.id] = NoOrder
      BY <1>2, <1>5, <1>6, <1>11, <2>2
    <3>2. ledger'.reserved[o.id] = NoReservation
      BY <1>3, <1>13, <2>2 DEF StateOK, Ledgers
    <3>3. QED BY <1>15, <3>1, <3>2 DEF ActiveFine, BookFine, ReservedFine, Due
  <2>3. QED BY <2>1, <2>2
<1>17. ASSUME NEW x \in OrderIds \ {o.id}
       PROVE  /\ x \in OwnIds => Untouched(x)
              /\ active'[x] = active[x] /\ approved'[x] = approved[x]
              /\ book'.orders[x] = book.orders[x]
              /\ ledger'.reserved[x] = ledger.reserved[x]
              /\ active[x] # NoState => history'.states[x] = history.states[x]
  <2>1. Pending = <<>>
    BY <1>2 DEF Pending
  <2>2. Untouched(x)
    BY <1>1, <1>3, <2>1 DEF Untouched, IsPending
  <2>3. active'[x] = active[x]
    BY <1>3, <1>7 DEF StateOK
  <2>4. ledger'.reserved[x] = ledger.reserved[x]
    BY <1>3, <1>13 DEF StateOK, Ledgers
  <2>5. QED BY <1>2, <1>10, <2>2, <2>3, <2>4
<1>18. PositionOK'
  BY <1>2, <1>13 DEF ManagerInv, PositionOK
<1>19. QED
  BY <1>2, <1>3, <1>14, <1>16, <1>17, <1>18, OneOrder

LEMMA HeadAndTail ==
    ASSUME NEW S, NEW q \in Seq(S), q # <<>>
    PROVE  /\ Head(q) = q[1] /\ q[1] \in S /\ Tail(q) \in Seq(S)
           /\ Len(q) \in Nat \ {0} /\ Len(Tail(q)) = Len(q) - 1
           /\ DOMAIN q = 1 .. Len(q) /\ DOMAIN Tail(q) = 1 .. Len(q) - 1
           /\ \A k \in 1 .. Len(q) : q[k] \in S
           /\ \A k \in 1 .. Len(q) - 1 : Tail(q)[k] = q[k + 1]
BY LenProperties, EmptySeq, HeadTailProperties

LEMMA FilledByType ==
    ASSUME NEW s \in OrderStates, NEW n \in Book!Lots, n <= s.remaining,
           s.filled = s.initial - s.remaining
    PROVE  LET after == FilledBy(s, n)
           IN  /\ after \in OrderStates
               /\ after.side = s.side /\ after.price = s.price /\ after.initial = s.initial
               /\ after.remaining = s.remaining - n /\ after.remaining \in 0 .. MaxLots
               /\ after.filled = after.initial - after.remaining
               /\ after.filled = s.filled + n /\ after.filled \in 0 .. MaxLots
<1> DEFINE left == s.remaining - n
           filled == s.filled + n
           status == IF left = 0 THEN "FILLED" ELSE "PARTIALLY_FILLED"
<1>1. /\ s.remaining \in 0 .. MaxLots /\ s.initial \in 1 .. MaxLots /\ n \in 1 .. MaxLots
      /\ s.filled \in 0 .. MaxLots
  BY Quantities DEF OrderStates
<1>2. left \in 0 .. MaxLots /\ filled \in 0 .. MaxLots /\ filled = s.initial - left
  BY <1>1, Quantities
<1>3. FilledBy(s, n) = [s EXCEPT !.filled = filled, !.remaining = left, !.status = status]
  BY DEF FilledBy
<1>4. status \in {"FILLED", "PARTIALLY_FILLED"}
  OBVIOUS
<1> DEFINE after == FilledBy(s, n)
<1> HIDE DEF left, filled, status, after
<1>5. /\ after \in OrderStates
      /\ after.side = s.side /\ after.price = s.price /\ after.initial = s.initial
      /\ after.remaining = left /\ after.filled = filled
  BY <1>2, <1>3, <1>4 DEF OrderStates, after
<1>6. QED BY <1>2, <1>5 DEF left, filled, after

\* The trade that is settled, what the order then has left, and the state that
\* the maker gets if it is an order of the manager.
Settled == call.trades[1]
Maker == Settled.maker
Left == call.remaining - Settled.lots
Filled == FilledBy(active[Maker], Settled.lots)

\* The order has the quantity that the trade takes, and so has the maker.
LEMMA SettleFacts ==
    ASSUME ManagerInv, SettleTrade
    PROVE  LET o == call.order
               q == call.trades
               m == Maker
               n == Settled.lots
               s == active[m]
           IN
           /\ Taking /\ q \in Seq(Book!Trades) /\ q # <<>> /\ Pending = q
           /\ Settled.price \in Prices /\ n \in Book!Lots /\ n <= call.remaining
           /\ m \in OrderIds /\ m # o.id
           /\ ledger.reserved[o.id] =
                [side |-> o.side, price |-> o.price, remaining |-> call.remaining]
           /\ s = NoState => m \notin OwnIds
           /\ s # NoState =>
                /\ m \in OwnIds /\ s \in OrderStates /\ s.side = Book!Opposite(o.side)
                /\ n <= s.remaining
                /\ book.orders[m] = IF n = s.remaining THEN NoOrder
                                    ELSE Replacement(m, s.price, s.remaining - n)
                /\ s.filled = s.initial - s.remaining
                /\ approved[m] \in Approvals
                /\ approved[m].side = s.side /\ approved[m].price = s.price
                /\ approved[m].lots = s.initial /\ approved[m].gone = s.filled
                /\ approved[m].bare => ledger.reserved[m] = NoReservation
                /\ ~approved[m].bare => ledger.reserved[m] =
                     [side |-> s.side, price |-> s.price, remaining |-> s.remaining]
<1> DEFINE o == call.order
           q == call.trades
           t == Settled
           m == Maker
           n == Settled.lots
           s == active[m]
<1>1. call # Idle /\ call.op = "settle" /\ call.trades # <<>> /\ Taking
  BY DEF SettleTrade, Taking
<1>2. q \in Seq(Book!Trades) /\ q # <<>> /\ Pending = q
  BY <1>1, TakingFacts DEF Pending
<1>3. /\ t = q[1] /\ t \in Book!Trades /\ Len(q) \in Nat \ {0}
      /\ DOMAIN q = 1 .. Len(q) /\ 1 \in 1 .. Len(q)
  BY <1>2, HeadAndTail DEF Settled
<1>4. t.price \in Prices /\ n \in Book!Lots /\ m \in OrderIds
  BY <1>3 DEF Book!Trades, Maker
<1>5. StateOK /\ PendingOK /\ RunsOK /\ ActiveFine(m) /\ ReservedFine(m) /\ ~Restoring
  BY <1>1, <1>4, TakingFacts DEF ManagerInv, OrdersOK
<1>6. n <= call.remaining
  <2>1. PICK f \in [0 .. Len(q) -> 0 .. MaxLots] : RunsDown(f)
    BY <1>1, <1>2, <1>5 DEF RunsOK
  <2>2. f[0] = call.remaining /\ f[1] = f[1 - 1] - n
    BY <1>2, <1>3, <2>1 DEF RunsDown
  <2>3. f[0] \in Nat /\ f[1] \in Nat /\ n \in Nat
    BY <1>3, <1>4, <2>1, Quantities
  <2>4. QED BY <2>2, <2>3
<1>7. call.remaining > 0
  BY <1>4, <1>6, TakingFacts, <1>1, Quantities
<1>8. ledger.reserved[o.id] = [side |-> o.side, price |-> o.price, remaining |-> call.remaining]
  <2>1. ReservedFine(o.id) /\ active[o.id] = NoState
    BY <1>1, TakingFacts DEF ManagerInv, OrdersOK
  <2>2. QED BY <1>1, <1>7, <2>1 DEF ReservedFine, Due
<1>9. /\ m # o.id
      /\ m \in OwnIds =>
           /\ s # NoState /\ s.side = Book!Opposite(o.side) /\ n <= s.remaining
           /\ book.orders[m] = IF n = s.remaining THEN NoOrder
                               ELSE Replacement(m, s.price, s.remaining - n)
  BY <1>1, <1>2, <1>3, <1>5 DEF PendingOK, Maker
<1>10. s # NoState =>
         /\ m \in OwnIds /\ s \in OrderStates
         /\ s.filled = s.initial - s.remaining
         /\ approved[m] \in Approvals
         /\ approved[m].side = s.side /\ approved[m].price = s.price
         /\ approved[m].lots = s.initial /\ approved[m].gone = s.filled
         /\ approved[m].bare => ledger.reserved[m] = NoReservation
         /\ ~approved[m].bare => ledger.reserved[m] =
              [side |-> s.side, price |-> s.price, remaining |-> s.remaining]
  BY <1>4, <1>5 DEF ActiveFine, ReservedFine, Due, StateOK
<1>11. QED BY <1>1, <1>2, <1>4, <1>6, <1>8, <1>9, <1>10

\* What the settlement of a trade changes, with or without an order of the
\* manager as the maker.
LEMMA SettleEffects ==
    ASSUME ManagerInv, SettleTrade
    PROVE  LET o == call.order
               m == Maker
               n == Settled.lots
               s == active[m]
           IN
           /\ StateOK' /\ PositionOK' /\ book' = book /\ taker' = taker
           /\ call' # Idle /\ call'.op = "settle" /\ call'.order = o
           /\ call'.remaining = Left /\ call'.trades = Tail(call.trades)
           /\ \A x \in OrderIds \ {m} :
                /\ active'[x] = active[x]
                /\ active[x] # NoState => history'.states[x] = history.states[x]
           /\ \A x \in OrderIds \ {m, o.id} :
                approved'[x] = approved[x] /\ ledger'.reserved[x] = ledger.reserved[x]
           /\ approved'[o.id] = [approved[o.id] EXCEPT !.gone = o.lots - Left]
           /\ ledger'.reserved[o.id] = LeftOf(ledger.reserved[o.id], n)
           /\ s = NoState =>
                /\ active'[m] = NoState /\ approved'[m] = approved[m]
                /\ ledger'.reserved[m] = ledger.reserved[m]
           /\ s # NoState =>
                /\ active'[m] = IF Filled.remaining = 0 THEN NoState ELSE Filled
                /\ history'.states[m] = Filled
                /\ approved'[m] = [approved[m] EXCEPT !.gone = Filled.filled]
                /\ ledger'.reserved[m] = LeftOf(ledger.reserved[m], n)
<1> DEFINE o == call.order
           q == call.trades
           t == Settled
           m == Maker
           n == Settled.lots
           s == active[m]
           left == Left
           after == Filled
           taken == Risk!Booked(ledger, RiskOrder(o.id, o.side, t.price, n))
           a == approved[o.id]
           spent == [approved EXCEPT ![o.id] = [a EXCEPT !.gone = o.lots - left]]
<1>1. /\ Taking /\ q \in Seq(Book!Trades) /\ q # <<>>
      /\ t.price \in Prices /\ n \in Book!Lots /\ n <= call.remaining
      /\ m \in OrderIds /\ m # o.id
  BY SettleFacts
<1>2. /\ StateOK /\ o.id \in OrderIds /\ o.side \in Book!Sides
      /\ o.lots \in 1 .. MaxLots /\ call.remaining \in 0 .. MaxLots /\ call.remaining <= o.lots
      /\ call \in [op : {"match", "settle"}, order : Requests,
                   remaining : 0 .. MaxLots, trades : Seq(Book!Trades)]
      /\ a = [side |-> o.side, price |-> o.price, lots |-> o.lots,
              gone |-> o.lots - call.remaining, bare |-> FALSE]
      /\ o.price \in Prices /\ o.lots \in Book!Lots
  BY <1>1, TakingFacts DEF ManagerInv
<1>3. /\ n \in Nat \ {0} /\ left \in 0 .. MaxLots /\ left <= o.lots
      /\ a.gone + n = o.lots - left /\ o.lots - left \in 0 .. MaxLots
  <2>1. a.gone = o.lots - call.remaining
    BY <1>2
  <2> HIDE DEF a
  <2>2. n \in Nat \ {0} /\ MaxLots \in Nat
    BY <1>1, Quantities
  <2>3. PICK z : z = call.remaining
    OBVIOUS
  <2>4. z \in Nat /\ n <= z /\ left = z - n /\ o.lots \in 1 .. MaxLots /\ z <= o.lots
    BY <1>1, <1>2, <2>2, <2>3 DEF Left
  <2>5. left \in 0 .. MaxLots /\ left <= o.lots
    BY <2>2, <2>4
  <2>6. a.gone + n = o.lots - left
    BY <2>1, <2>2, <2>3, <2>4
  <2>7. o.lots - left \in 0 .. MaxLots
    BY <2>2, <2>4
  <2>8. QED BY <2>2, <2>5, <2>6, <2>7
<1>4. [a EXCEPT !.gone = o.lots - left] \in Approvals
  <2> DEFINE gone == o.lots - left
  <2>1. PICK g : g = o.lots - call.remaining
    OBVIOUS
  <2>2. g \in 0 .. MaxLots /\ gone \in 0 .. MaxLots
    BY <1>2, <1>3, <2>1, Quantities
  <2>3. a = [side |-> o.side, price |-> o.price, lots |-> o.lots, gone |-> g, bare |-> FALSE]
    BY <1>2, <2>1
  <2> HIDE DEF a, gone
  <2>4. a \in Approvals
    BY <1>2, <2>2, <2>3 DEF Approvals
  <2>5. [a EXCEPT !.gone = gone] \in Approvals
    BY <2>2, <2>4 DEF Approvals
  <2>6. QED BY <2>5 DEF gone
<1>5. /\ SettleTrade
      /\ Head(q) = t /\ t.maker = m /\ t.lots = n
      /\ Tail(q) \in Seq(Book!Trades)
  BY <1>1, HeadAndTail, SMTT(60) DEF Settled, Maker
<1>6. /\ call' = [call EXCEPT !.remaining = left, !.trades = Tail(q)]
      /\ UNCHANGED <<book, taker, calls>>
      /\ s = NoState =>
           /\ ledger' = taken
           /\ outside' = outside + Risk!Signed(o.side, n)
           /\ approved' = [approved EXCEPT ![o.id].gone = @ + n]
           /\ UNCHANGED <<active, history>>
      /\ s # NoState =>
           /\ ledger' = Risk!Booked(taken, RiskOrder(m, s.side, t.price, n))
           /\ history' = Upserted(history, active, m, after)
           /\ active' = [active EXCEPT ![m] = IF after.remaining = 0 THEN NoState ELSE after]
           /\ approved' = [[approved EXCEPT ![o.id].gone = @ + n] EXCEPT ![m].gone = @ + n]
           /\ UNCHANGED outside
  BY <1>1, <1>5 DEF SettleTrade, Left, Filled
<1>7. [approved EXCEPT ![o.id].gone = @ + n] = spent
  BY <1>3
<1>8. /\ spent \in [OrderIds -> Approvals \cup {NoState}]
      /\ spent[o.id] = [a EXCEPT !.gone = o.lots - left]
      /\ \A x \in OrderIds \ {o.id} : spent[x] = approved[x]
  BY <1>2, <1>4 DEF StateOK
<1>9. /\ taken \in Ledgers
      /\ taken.reserved = [ledger.reserved EXCEPT ![o.id] = LeftOf(ledger.reserved[o.id], n)]
      /\ Symbol \in DOMAIN SymbolLimit =>
           taken.net[Symbol] = ledger.net[Symbol] + Risk!Signed(o.side, n)
  BY <1>1, <1>2, BookedLedger DEF StateOK
<1>10. /\ call' \in CallStates /\ call' # Idle /\ call'.op = "settle" /\ call'.order = o
       /\ call'.remaining = left /\ call'.trades = Tail(q)
  <2>1. call.op = "settle"
    BY DEF SettleTrade
  <2>2. /\ call' \in [op : {"match", "settle"}, order : Requests,
                      remaining : 0 .. MaxLots, trades : Seq(Book!Trades)]
        /\ call'.op = "settle" /\ call'.order = o
        /\ call'.remaining = left /\ call'.trades = Tail(q)
    BY <1>2, <1>3, <1>5, <1>6, <2>1
  <2>3. QED BY <2>2, OrderManagerAssumption DEF CallStates
<1> HIDE DEF taken, spent, t
<1>11. CASE s = NoState
  <2>1. ledger' = taken /\ approved' = spent /\ UNCHANGED <<active, history>>
        /\ outside' = outside + Risk!Signed(o.side, n)
    BY <1>6, <1>7, <1>11
  <2>2. outside' \in Int
    BY <1>2, <1>3, <2>1 DEF StateOK, Risk!Signed
  <2>3. StateOK'
    BY <1>2, <1>6, <1>8, <1>9, <1>10, <2>1, <2>2 DEF StateOK
  <2>4. PositionOK'
    BY <1>9, <2>1 DEF ManagerInv, PositionOK
  <2>5. /\ ledger'.reserved[o.id] = LeftOf(ledger.reserved[o.id], n)
        /\ \A x \in OrderIds \ {o.id} : ledger'.reserved[x] = ledger.reserved[x]
    BY <1>2, <1>9, <2>1 DEF StateOK, Ledgers
  <2>6. QED BY <1>1, <1>6, <1>8, <1>10, <1>11, <2>1, <2>3, <2>4, <2>5
<1>12. CASE s # NoState
  <2> DEFINE am == approved[m]
  <2>1. /\ s \in OrderStates /\ s.side = Book!Opposite(o.side) /\ n <= s.remaining
        /\ s.filled = s.initial - s.remaining /\ am \in Approvals /\ am.gone = s.filled
    <3>1. s # NoState => s \in OrderStates /\ s.side = Book!Opposite(o.side) /\ n <= s.remaining
      BY SettleFacts
    <3>2. s # NoState => s.filled = s.initial - s.remaining /\ am \in Approvals /\ am.gone = s.filled
      BY SettleFacts
    <3>3. QED BY <1>12, <3>1, <3>2
  <2>2. /\ after = FilledBy(s, n)
        /\ after \in OrderStates /\ after # NoState
        /\ after.filled = s.filled + n /\ after.filled \in 0 .. MaxLots
    BY <1>1, <1>12, <2>1, FilledByType, OrderManagerAssumption DEF Filled
  <2>3. /\ ledger' = Risk!Booked(taken, RiskOrder(m, s.side, t.price, n))
        /\ history' = Upserted(history, active, m, after)
        /\ active' = [active EXCEPT ![m] = IF after.remaining = 0 THEN NoState ELSE after]
        /\ approved' = [spent EXCEPT ![m] = [am EXCEPT !.gone = after.filled]]
        /\ UNCHANGED outside
    <3>1. spent[m] = am
      BY <1>1, <1>8
    <3>2. approved' = [spent EXCEPT ![m].gone = @ + n]
      BY <1>6, <1>7, <1>12
    <3>3. approved' = [spent EXCEPT ![m] = [am EXCEPT !.gone = after.filled]]
      BY <2>1, <2>2, <3>1, <3>2
    <3>4. QED BY <1>6, <1>12, <3>3
  <2>4. s.side \in Book!Sides
    BY <2>1 DEF OrderStates
  <2>5. /\ ledger' \in Ledgers
        /\ ledger'.reserved = [taken.reserved EXCEPT ![m] = LeftOf(taken.reserved[m], n)]
        /\ Symbol \in DOMAIN SymbolLimit =>
             ledger'.net[Symbol] = taken.net[Symbol] + Risk!Signed(s.side, n)
    <3> DEFINE booked == Risk!Booked(taken, RiskOrder(m, s.side, t.price, n))
    <3>1. /\ booked \in Ledgers
          /\ booked.reserved = [taken.reserved EXCEPT ![m] = LeftOf(taken.reserved[m], n)]
          /\ Symbol \in DOMAIN SymbolLimit =>
               booked.net[Symbol] = taken.net[Symbol] + Risk!Signed(s.side, n)
      BY <1>1, <1>9, <2>4, BookedLedger DEF t
    <3> HIDE DEF booked
    <3>2. ledger' = booked
      BY <2>3 DEF booked
    <3>3. QED BY <3>1, <3>2
  <2>6. /\ ledger'.reserved[o.id] = LeftOf(ledger.reserved[o.id], n)
        /\ ledger'.reserved[m] = LeftOf(ledger.reserved[m], n)
        /\ \A x \in OrderIds \ {m, o.id} : ledger'.reserved[x] = ledger.reserved[x]
    <3>1. ledger.reserved \in [OrderIds -> Risk!Reservations \cup {NoReservation}]
      BY <1>2 DEF StateOK, Ledgers
    <3>2. taken.reserved \in [OrderIds -> Risk!Reservations \cup {NoReservation}]
      BY <1>9 DEF Ledgers
    <3>3. QED BY <1>1, <1>2, <1>9, <2>5, <3>1, <3>2
  <2>7. PositionOK'
    <3> SUFFICES ASSUME Symbol \in DOMAIN SymbolLimit PROVE ledger'.net[Symbol] = outside'
      BY DEF PositionOK
    <3>1. ledger.net[Symbol] = outside /\ outside \in Int
      BY <1>2 DEF ManagerInv, PositionOK, StateOK
    <3>2. Risk!Signed(o.side, n) + Risk!Signed(s.side, n) = 0
      BY <1>2, <1>3, <2>1, Quantities DEF Risk!Signed, Book!Opposite
    <3>3. Risk!Signed(o.side, n) \in Int /\ Risk!Signed(s.side, n) \in Int
      BY <1>3 DEF Risk!Signed
    <3>4. QED BY <1>9, <2>3, <2>5, <3>1, <3>2, <3>3
  <2>8. /\ SoundHistory(history') /\ history'.states[m] = after
        /\ \A x \in OrderIds \ {m} : active[x] # NoState =>
             history'.states[x] = history.states[x]
    <3> DEFINE h == Upserted(history, active, m, after)
    <3>1. /\ SoundHistory(history) /\ active[m] # NoState
          /\ m \in OrderIds /\ after \in OrderStates
      BY <1>1, <1>2, <1>12, <2>2 DEF StateOK
    <3>2. SoundHistory(h)
      BY <3>1, UpsertedHistory
    <3>3. h.states[m] = after
      BY <3>1, UpsertedHistory
    <3>4. \A x \in OrderIds : active[x] # NoState /\ x # m => h.states[x] = history.states[x]
      BY <3>1, UpsertedHistory
    <3> HIDE DEF h
    <3>5. history' = h
      BY <2>3 DEF h
    <3>6. QED BY <3>2, <3>3, <3>4, <3>5
  <2>9. /\ approved' \in [OrderIds -> Approvals \cup {NoState}]
        /\ approved'[m] = [am EXCEPT !.gone = after.filled]
        /\ \A x \in OrderIds \ {m} : approved'[x] = spent[x]
    <3>1. [am EXCEPT !.gone = after.filled] \in Approvals
      BY <2>1, <2>2 DEF Approvals
    <3>2. QED BY <1>1, <1>8, <2>3, <3>1
  <2>10. /\ active' \in [OrderIds -> OrderStates \cup {NoState}]
         /\ active'[m] = IF after.remaining = 0 THEN NoState ELSE after
         /\ \A x \in OrderIds \ {m} : active'[x] = active[x]
    BY <1>1, <1>2, <2>2, <2>3 DEF StateOK
  <2>11. StateOK'
    BY <1>2, <1>6, <1>10, <2>3, <2>5, <2>8, <2>9, <2>10 DEF StateOK
  <2>12. QED
    BY <1>1, <1>2, <1>6, <1>8, <1>10, <1>12, <2>6, <2>7, <2>8, <2>9, <2>10, <2>11
<1>13. QED BY <1>11, <1>12

LEMMA GoneUpdated ==
    ASSUME NEW side, NEW price, NEW lots, NEW before, NEW gone, NEW bare
    PROVE  [[side |-> side, price |-> price, lots |-> lots, gone |-> before, bare |-> bare]
              EXCEPT !.gone = gone]
             = [side |-> side, price |-> price, lots |-> lots, gone |-> gone, bare |-> bare]
OBVIOUS

LEMMA SettleTradeInv ==
    ASSUME ManagerInv, SettleTrade
    PROVE  ManagerInv'
<1>1. PICK o, q, m, n, s, left, after :
        /\ o = call.order /\ q = call.trades /\ m = Maker /\ n = Settled.lots
        /\ s = active[Maker] /\ left = Left /\ after = Filled
  OBVIOUS
<1> DEFINE due == [side |-> o.side, price |-> o.price, remaining |-> call.remaining]
           a == approved[m]
\* What is settled, and what that changes, of o and of m.
<1>2. /\ Taking /\ q \in Seq(Book!Trades) /\ q # <<>> /\ Pending = q
      /\ n \in Book!Lots /\ n <= call.remaining /\ m \in OrderIds /\ m # o.id
      /\ ledger.reserved[o.id] = due
      /\ s = NoState => m \notin OwnIds
  BY <1>1, SettleFacts
<1>3. s # NoState =>
        /\ m \in OwnIds /\ s \in OrderStates /\ n <= s.remaining
        /\ book.orders[m] = IF n = s.remaining THEN NoOrder
                            ELSE Replacement(m, s.price, s.remaining - n)
        /\ s.filled = s.initial - s.remaining
        /\ a \in Approvals
        /\ a.side = s.side /\ a.price = s.price /\ a.lots = s.initial
        /\ a.bare => ledger.reserved[m] = NoReservation
        /\ ~a.bare => ledger.reserved[m] =
             [side |-> s.side, price |-> s.price, remaining |-> s.remaining]
  BY <1>1, SettleFacts
<1>4. /\ StateOK' /\ PositionOK' /\ book' = book /\ taker' = taker
      /\ call' # Idle /\ call'.op = "settle" /\ call'.order = o
      /\ call'.remaining = left /\ call'.trades = Tail(q)
  BY <1>1, SettleEffects
<1>5. /\ \A x \in OrderIds \ {m} :
           /\ active'[x] = active[x]
           /\ active[x] # NoState => history'.states[x] = history.states[x]
      /\ \A x \in OrderIds \ {m, o.id} :
           approved'[x] = approved[x] /\ ledger'.reserved[x] = ledger.reserved[x]
  BY <1>1, SettleEffects
<1>6. /\ approved'[o.id] = [approved[o.id] EXCEPT !.gone = o.lots - left]
      /\ ledger'.reserved[o.id] = LeftOf(ledger.reserved[o.id], n)
  BY <1>1, SettleEffects
<1>7. /\ s = NoState =>
           /\ active'[m] = NoState /\ approved'[m] = approved[m]
           /\ ledger'.reserved[m] = ledger.reserved[m]
      /\ s # NoState =>
           /\ active'[m] = IF after.remaining = 0 THEN NoState ELSE after
           /\ history'.states[m] = after
           /\ approved'[m] = [a EXCEPT !.gone = after.filled]
           /\ ledger'.reserved[m] = LeftOf(ledger.reserved[m], n)
  BY <1>1, SettleEffects
<1>8. /\ StateOK /\ PendingOK /\ RunsOK /\ ~Restoring /\ call.op = "settle"
      /\ o.id \in OwnIds /\ o.id \in OrderIds /\ o.side \in Book!Sides /\ o.price \in Prices
      /\ o.lots \in 1 .. MaxLots /\ call.remaining \in 0 .. MaxLots /\ call.remaining <= o.lots
      /\ active[o.id] = NoState
      /\ approved[o.id] = [side |-> o.side, price |-> o.price, lots |-> o.lots,
                           gone |-> o.lots - call.remaining, bare |-> FALSE]
  BY <1>1, <1>2, TakingFacts DEF ManagerInv, SettleTrade
<1>9. s # NoState =>
        /\ after \in OrderStates /\ after # NoState
        /\ after.side = s.side /\ after.price = s.price /\ after.initial = s.initial
        /\ after.remaining = s.remaining - n /\ after.remaining \in 0 .. MaxLots
        /\ after.filled = after.initial - after.remaining /\ after.filled \in 0 .. MaxLots
  BY <1>1, <1>2, <1>3, FilledByType, OrderManagerAssumption DEF Filled
<1>10. /\ n \in Nat \ {0} /\ left = call.remaining - n /\ left \in 0 .. MaxLots /\ left <= o.lots
       /\ left > 0 <=> ~(n >= call.remaining)
  <2>1. n \in Nat \ {0} /\ left = call.remaining - n /\ MaxLots \in Nat
    BY <1>1, <1>2, Quantities DEF Left
  <2>2. PICK z : z = call.remaining
    OBVIOUS
  <2>3. z \in 0 .. MaxLots /\ z <= o.lots /\ o.lots \in 1 .. MaxLots /\ n <= z /\ left = z - n
    BY <1>2, <1>8, <2>1, <2>2
  <2>4. /\ left \in 0 .. MaxLots /\ left <= o.lots
        /\ left > 0 <=> ~(n >= z)
    BY <2>1, <2>3
  <2>5. QED BY <2>1, <2>2, <2>4
<1>11. Taking' /\ ~Restoring' /\ Pending' = Tail(q)
  BY <1>4 DEF Taking, Restoring, Pending
<1>12. /\ Len(q) \in Nat \ {0} /\ Len(Tail(q)) = Len(q) - 1
       /\ DOMAIN q = 1 .. Len(q) /\ DOMAIN Tail(q) = 1 .. Len(q) - 1
       /\ \A k \in 1 .. Len(q) : q[k].maker \in OrderIds
       /\ \A k \in 1 .. Len(q) - 1 : Tail(q)[k] = q[k + 1]
       /\ q[1].maker = m /\ q[1].lots = n
  <2>1. /\ Len(q) \in Nat \ {0} /\ Len(Tail(q)) = Len(q) - 1
        /\ DOMAIN q = 1 .. Len(q) /\ DOMAIN Tail(q) = 1 .. Len(q) - 1
        /\ \A k \in 1 .. Len(q) : q[k] \in Book!Trades
        /\ \A k \in 1 .. Len(q) - 1 : Tail(q)[k] = q[k + 1]
    BY <1>2, HeadAndTail
  <2>2. q[1].maker = m /\ q[1].lots = n
    BY <1>1 DEF Settled, Maker
  <2>3. QED BY <2>1, <2>2 DEF Book!Trades
\* The order itself.
<1>13. ActiveFine(o.id)' /\ ReservedFine(o.id)'
  <2>1. active'[o.id] = NoState
    BY <1>2, <1>5, <1>8
  <2>2. ledger'.reserved[o.id] =
          IF left > 0 THEN [side |-> o.side, price |-> o.price, remaining |-> left]
          ELSE NoReservation
    <3>1. due \in Risk!Reservations
      <4>1. call.remaining \in Book!Lots
        BY <1>2, <1>8, <1>10, Quantities
      <4>2. QED BY <1>8, <4>1, LimitFacts DEF Risk!Reservations
    <3>2. due # NoReservation /\ due.remaining = call.remaining
      BY <3>1, LimitFacts
    <3>3. [due EXCEPT !.remaining = call.remaining - n]
            = [side |-> o.side, price |-> o.price, remaining |-> left]
      BY <1>10
    <3> HIDE DEF due
    <3>4. QED BY <1>2, <1>6, <1>10, <3>2, <3>3 DEF LeftOf
  <2>3. Due(o.id)' = IF left > 0 THEN [side |-> o.side, price |-> o.price, remaining |-> left]
                     ELSE NoReservation
    BY <1>4, <1>11, <2>1 DEF Due
  <2>4. QED BY <2>1, <2>2, <2>3 DEF ActiveFine, ReservedFine
\* The maker.
<1>14. ActiveFine(m)' /\ ReservedFine(m)' /\ (m \in OwnIds => BookFine(m)')
  <2>1. Due(m)' = IF active'[m] # NoState
                  THEN IF approved'[m].bare THEN NoReservation
                       ELSE [side |-> active'[m].side, price |-> active'[m].price,
                             remaining |-> active'[m].remaining]
                  ELSE NoReservation
    BY <1>2, <1>4, <1>11 DEF Due
  <2>2. CASE s = NoState
    <3>1. active[m] = NoState /\ active'[m] = NoState /\ m \notin OwnIds
      BY <1>1, <1>2, <1>7, <2>2
    <3>2. ledger'.reserved[m] = NoReservation
      <4>1. ReservedFine(m)
        BY <1>2 DEF ManagerInv, OrdersOK
      <4>2. QED BY <1>1, <1>2, <1>7, <2>2, <3>1, <4>1 DEF ReservedFine, Due
    <3>3. QED BY <2>1, <3>1, <3>2 DEF ActiveFine, ReservedFine
  <2>3. CASE s # NoState
    <3>1. s.remaining \in 0 .. MaxLots /\ s.remaining \in Nat
      BY <1>3, <2>3, Quantities DEF OrderStates
    <3>2. n >= s.remaining <=> after.remaining = 0
      BY <1>3, <1>9, <1>10, <2>3, <3>1
    <3>3. /\ approved'[m] \in Approvals /\ approved'[m].bare = a.bare
          /\ approved'[m].side = s.side /\ approved'[m].price = s.price
          /\ approved'[m].lots = s.initial /\ approved'[m].gone = after.filled
      BY <1>3, <1>7, <1>9, <2>3 DEF Approvals
    <3>4. a.bare => ledger'.reserved[m] = NoReservation
      BY <1>3, <1>7, <2>3 DEF LeftOf
    <3>5. ~a.bare => ledger'.reserved[m] =
                       IF after.remaining = 0 THEN NoReservation
                       ELSE [side |-> s.side, price |-> s.price, remaining |-> after.remaining]
      <4> SUFFICES ASSUME ~a.bare
                   PROVE  ledger'.reserved[m] =
                            IF after.remaining = 0 THEN NoReservation
                            ELSE [side |-> s.side, price |-> s.price, remaining |-> after.remaining]
        OBVIOUS
      <4> DEFINE r == ledger.reserved[m]
      <4>1. r = [side |-> s.side, price |-> s.price, remaining |-> s.remaining]
        BY <1>3, <2>3
      <4>2. r # NoReservation
        <5>1. s.side \in Book!Sides /\ s.price \in Prices /\ s.remaining \in Book!Lots
          BY <1>3, <1>10, <2>3, <3>1, Quantities DEF OrderStates
        <5>2. r \in Risk!Reservations
          BY <4>1, <5>1, LimitFacts DEF Risk!Reservations
        <5>3. QED BY <5>2, LimitFacts
      <4>3. r.remaining = s.remaining
        BY <4>1
      <4>4. [r EXCEPT !.remaining = r.remaining - n]
              = [side |-> s.side, price |-> s.price, remaining |-> after.remaining]
        BY <1>9, <2>3, <4>1
      <4>5. ledger'.reserved[m] = LeftOf(r, n)
        BY <1>7, <2>3
      <4> HIDE DEF r
      <4>6. QED BY <3>2, <4>2, <4>3, <4>4, <4>5 DEF LeftOf
    <3>6. CASE after.remaining = 0
      <4>1. active'[m] = NoState /\ ledger'.reserved[m] = NoReservation
        BY <1>7, <2>3, <3>4, <3>5, <3>6
      <4>2. book'.orders[m] = NoOrder
        <5>1. n = s.remaining
          BY <1>3, <1>10, <2>3, <3>1, <3>2, <3>6
        <5>2. QED BY <1>3, <1>4, <2>3, <5>1
      <4>3. QED BY <2>1, <4>1, <4>2 DEF ActiveFine, ReservedFine, BookFine
    <3>7. CASE after.remaining # 0
      <4>1. active'[m] = after /\ history'.states[m] = after /\ after # NoState
        BY <1>7, <1>9, <2>3, <3>7
      <4>2. after.remaining \in Book!Lots
        BY <1>9, <2>3, <3>7, Quantities
      <4>3. ActiveFine(m)'
        BY <1>3, <1>9, <2>3, <3>3, <4>1, <4>2 DEF ActiveFine
      <4>4. Due(m)' = IF a.bare THEN NoReservation
                      ELSE [side |-> s.side, price |-> s.price, remaining |-> after.remaining]
        BY <1>9, <2>1, <2>3, <3>3, <4>1
      <4>5. ReservedFine(m)'
        BY <3>4, <3>5, <3>7, <4>4 DEF ReservedFine
      <4>6. book'.orders[m] = [side |-> s.side, price |-> s.price, lots |-> after.remaining]
        <5>1. n # s.remaining
          BY <1>10, <3>1, <3>2, <3>7
        <5>2. QED BY <1>1, <1>3, <1>4, <1>9, <2>3, <5>1 DEF Replacement
      <4>7. BookFine(m)'
        BY <1>9, <2>3, <4>1, <4>6 DEF BookFine, Replacement
      <4>8. QED BY <4>3, <4>5, <4>7
    <3>8. QED BY <3>6, <3>7
  <2>4. QED BY <2>2, <2>3
<1>15. \A x : Untouched(x)' /\ x # m => Untouched(x) /\ x # o.id
  <2> SUFFICES ASSUME NEW x, Untouched(x)', x # m
               PROVE  x # o.id /\ ~IsPending(x)
    BY <1>1, <1>8 DEF Untouched
  <2>1. x # o.id /\ ~(\E k \in 1 .. Len(q) - 1 : q[k + 1].maker = x)
    BY <1>4, <1>11, <1>12 DEF Untouched, IsPending
  <2>2. ASSUME NEW k \in 1 .. Len(q), q[k].maker = x PROVE FALSE
    <3>1. k # 1
      BY <1>12, <2>2
    <3>2. k - 1 \in 1 .. Len(q) - 1 /\ k - 1 + 1 = k
      BY <1>12, <3>1
    <3>3. QED BY <2>1, <2>2, <3>2
  <2>3. QED BY <1>2, <1>12, <2>1, <2>2 DEF IsPending
<1>16. OrdersOK'
  <2>1. ASSUME NEW x \in OrderIds, x # m, x # o.id PROVE ActiveFine(x)' /\ ReservedFine(x)'
    <3>1. ActiveFine(x) /\ ReservedFine(x)
      BY DEF ManagerInv, OrdersOK
    <3>2. /\ active'[x] = active[x] /\ approved'[x] = approved[x]
          /\ ledger'.reserved[x] = ledger.reserved[x]
          /\ active[x] # NoState => history'.states[x] = history.states[x]
      BY <1>5, <2>1
    <3>3. ActiveFine(x)'
      BY <3>1, <3>2 DEF ActiveFine
    <3>4. Due(x)' = Due(x)
      BY <1>1, <1>4, <1>8, <1>11, <2>1, <3>2 DEF Due
    <3>5. QED BY <3>1, <3>2, <3>3, <3>4 DEF ReservedFine
  <2>2. ASSUME NEW x \in OwnIds, Untouched(x)', x # m PROVE BookFine(x)'
    <3>1. Untouched(x) /\ x \in OrderIds
      BY <1>15, <2>2 DEF OwnIds
    <3>2. BookFine(x) /\ active'[x] = active[x]
      BY <1>5, <2>2, <3>1 DEF ManagerInv, OrdersOK
    <3>3. QED BY <1>4, <3>2 DEF BookFine, Replacement
  <2>3. QED BY <1>13, <1>14, <2>1, <2>2 DEF OrdersOK
<1>17. TakingOK'
  <2>1. active'[o.id] = NoState
    BY <1>2, <1>5, <1>8
  <2>2. approved'[o.id] = [side |-> o.side, price |-> o.price, lots |-> o.lots,
                           gone |-> o.lots - left, bare |-> FALSE]
    <3>1. PICK b, g0, g, no : /\ b = approved[o.id] /\ no = FALSE
                              /\ g0 = o.lots - call.remaining /\ g = o.lots - left
      OBVIOUS
    <3>2. b = [side |-> o.side, price |-> o.price, lots |-> o.lots, gone |-> g0, bare |-> no]
      <4>1. b = [side |-> o.side, price |-> o.price, lots |-> o.lots, gone |-> g0, bare |-> FALSE]
        BY <1>8, <3>1
      <4>2. QED BY <3>1, <4>1
    <3>3. approved'[o.id] = [b EXCEPT !.gone = g]
      BY <1>6, <3>1
    <3>4. [b EXCEPT !.gone = g]
            = [side |-> o.side, price |-> o.price, lots |-> o.lots, gone |-> g, bare |-> no]
      BY <3>2, GoneUpdated
    <3>5. approved'[o.id] = [side |-> o.side, price |-> o.price, lots |-> o.lots, gone |-> g,
                             bare |-> no]
      BY <3>3, <3>4
    <3>6. QED BY <3>1, <3>5
  <2>3. book'.orders[o.id] # NoOrder =>
          Rests(o) /\ book'.orders[o.id].side = o.side /\ book'.orders[o.id].price = o.price
    BY <1>1, <1>2, <1>4, <1>8 DEF ManagerInv, TakingOK
  <2>4. QED BY <1>4, <1>10, <1>11, <2>1, <2>2, <2>3 DEF TakingOK, Rests
<1>18. PendingOK'
  <2>1. /\ DOMAIN Pending' = 1 .. Len(q) - 1
        /\ \A k \in 1 .. Len(q) - 1 : Pending'[k] = q[k + 1]
        /\ call'.op # "match" /\ call'.order = o /\ book' = book
    BY <1>4, <1>11, <1>12
  <2>2. SUFFICES ASSUME NEW k \in DOMAIN Pending'
                 PROVE  LET p == Pending'[k]
                            u == active'[p.maker]
                        IN  /\ p.maker # call'.order.id
                            /\ \A j \in DOMAIN Pending' : Pending'[j].maker = p.maker => j = k
                            /\ call'.op # "match"
                            /\ p.maker \in OwnIds =>
                                 /\ u # NoState
                                 /\ u.side = Book!Opposite(call'.order.side)
                                 /\ p.lots <= u.remaining
                                 /\ book'.orders[p.maker] =
                                      IF p.lots = u.remaining THEN NoOrder
                                      ELSE [side |-> u.side, price |-> u.price,
                                            lots |-> u.remaining - p.lots]
    BY DEF PendingOK, Replacement
  <2>3. PICK i, p, u : i = k + 1 /\ p = q[i] /\ u = active[p.maker]
    OBVIOUS
  <2>4. /\ k \in 1 .. Len(q) - 1 /\ i \in 1 .. Len(q) /\ i # 1 /\ 1 \in 1 .. Len(q)
        /\ \A j \in 1 .. Len(q) - 1 : j + 1 \in 1 .. Len(q) /\ (j + 1 = i => j = k)
    <3>1. k \in 1 .. Len(q) - 1
      BY <2>1
    <3>2. QED BY <1>12, <2>3, <3>1
  <2>5. PendingOK /\ Taking /\ Pending = q /\ DOMAIN q = 1 .. Len(q) /\ call.order = o
    BY <1>1, <1>2, <1>8, <1>12
  <2>6. p.maker # o.id /\ (\A j \in 1 .. Len(q) : q[j].maker = p.maker => j = i)
    BY <2>3, <2>4, <2>5 DEF PendingOK
  <2>7. p.maker \in OwnIds =>
          /\ u # NoState /\ u.side = Book!Opposite(o.side) /\ p.lots <= u.remaining
          /\ book.orders[p.maker] =
               IF p.lots = u.remaining THEN NoOrder
               ELSE Replacement(p.maker, u.price, u.remaining - p.lots)
    BY <2>3, <2>4, <2>5 DEF PendingOK
  <2>8. Pending'[k] = p
    BY <2>1, <2>3, <2>4
  <2>9. active'[p.maker] = u
    <3>1. p.maker # m /\ p.maker \in OrderIds
      BY <1>12, <2>3, <2>4, <2>6
    <3>2. QED BY <1>5, <2>3, <3>1
  <2>10. \A j \in DOMAIN Pending' : Pending'[j].maker = p.maker => j = k
    BY <2>1, <2>4, <2>6
  <2>11. p.maker \in OwnIds =>
           book.orders[p.maker] =
             IF p.lots = u.remaining THEN NoOrder
             ELSE [side |-> u.side, price |-> u.price, lots |-> u.remaining - p.lots]
    BY <2>3, <2>7 DEF Replacement
  <2>12. QED BY <2>1, <2>6, <2>7, <2>8, <2>9, <2>10, <2>11
<1>19. RunsOK'
  <2>1. PICK f \in [0 .. Len(q) -> 0 .. MaxLots] : RunsDown(f)
    BY <1>2, <1>8 DEF RunsOK
  <2>2. /\ f[0] = call.remaining
        /\ \A k \in 1 .. Len(q) : f[k] = f[k - 1] - q[k].lots
        /\ book.orders[o.id] # NoOrder => f[Len(q)] = book.orders[o.id].lots
    BY <1>1, <1>2, <1>8, <2>1 DEF RunsDown
  <2>3. PICK g : g = [k \in 0 .. Len(q) - 1 |-> f[k + 1]]
    OBVIOUS
  <2>4. g \in [0 .. Len(q) - 1 -> 0 .. MaxLots] /\ (\A k \in 0 .. Len(q) - 1 : g[k] = f[k + 1])
    <3>1. \A k \in 0 .. Len(q) - 1 : k + 1 \in 0 .. Len(q)
      BY <1>12
    <3>2. QED BY <2>3, <3>1
  <2>5. g[0] = left
    <3>1. 0 \in 0 .. Len(q) - 1 /\ 0 + 1 = 1 /\ 1 - 1 = 0 /\ 1 \in 1 .. Len(q)
      BY <1>12
    <3>2. g[0] = f[1] /\ f[1] = f[0] - n
      BY <1>12, <2>2, <2>4, <3>1
    <3>3. QED BY <1>10, <2>2, <3>2
  <2>6. \A k \in 1 .. Len(q) - 1 : g[k] = g[k - 1] - Tail(q)[k].lots
    <3> SUFFICES ASSUME NEW k \in 1 .. Len(q) - 1
                 PROVE  g[k] = g[k - 1] - Tail(q)[k].lots
      OBVIOUS
    <3>1. /\ k \in 0 .. Len(q) - 1 /\ k - 1 \in 0 .. Len(q) - 1 /\ k - 1 + 1 = k
          /\ k + 1 \in 1 .. Len(q) /\ k + 1 - 1 = k
      BY <1>12
    <3>2. g[k] = f[k + 1] /\ g[k - 1] = f[k]
      BY <2>4, <3>1
    <3>3. f[k + 1] = f[k] - q[k + 1].lots
      BY <2>2, <3>1
    <3>4. QED BY <1>12, <3>2, <3>3
  <2>7. g[Len(q) - 1] = f[Len(q)]
    <3>1. Len(q) - 1 \in 0 .. Len(q) - 1 /\ Len(q) - 1 + 1 = Len(q)
      BY <1>12
    <3>2. QED BY <2>4, <3>1
  <2>8. RunsDown(g)'
    BY <1>4, <1>11, <1>12, <2>2, <2>4, <2>5, <2>6, <2>7 DEF RunsDown
  <2>9. QED BY <1>11, <1>12, <2>4, <2>8 DEF RunsOK
<1>20. RestoringOK'
  BY <1>11 DEF RestoringOK
<1>21. QED
  BY <1>4, <1>16, <1>17, <1>18, <1>19, <1>20 DEF ManagerInv

-----------------------------------------------------------------------------
(* Every step, and what follows                                            *)

LEMMA CallStepInv ==
    ASSUME ManagerInv, CallStep
    PROVE  ManagerInv'
<1>1. CASE MatchTrade
  BY <1>1, MatchTradeInv
<1>2. CASE MatchEnd
  BY <1>2, MatchEndInv
<1>3. CASE SettleTrade
  BY <1>3, SettleTradeInv
<1>4. CASE SubmitFinish
  BY <1>4, SubmitFinishInv
<1>5. CASE ModifyRestore
  BY <1>5, ModifyRestoreInv
<1>6. QED BY <1>1, <1>2, <1>3, <1>4, <1>5 DEF CallStep

LEMMA NextManagerInv == ManagerInv /\ [Next]_vars => ManagerInv'
<1> SUFFICES ASSUME ManagerInv, [Next]_vars PROVE ManagerInv'
  OBVIOUS
<1>1. ASSUME NEW o \in Requests, SubmitDuplicate(o) \/ SubmitRejected(o) \/ SubmitAccepted(o)
      PROVE  ManagerInv'
  BY <1>1, SubmitDuplicateInv, SubmitRejectedInv, SubmitAcceptedInv
<1>2. CASE CallStep
  BY <1>2, CallStepInv
<1>3. ASSUME NEW id \in OwnIds, Cancel(id) PROVE ManagerInv'
  BY <1>3, CancelInv
<1>4. ASSUME NEW id \in OwnIds, NEW n \in Book!Lots, CancelPartial(id, n) PROVE ManagerInv'
  BY <1>4, CancelPartialInv
<1>5. ASSUME NEW id \in OwnIds, NEW price \in Prices, NEW lots \in Book!Lots,
             \/ ModifyUnfit(id, price, lots)
             \/ ModifyAccepted(id, price, lots)
             \/ ModifyRefused(id, price, lots)
      PROVE  ManagerInv'
  BY <1>5, ModifyUnfitInv, ModifyAcceptedInv, ModifyRefusedInv
<1>6. CASE TriggerKillSwitch \/ ResetKillSwitch
  BY <1>6, KillSwitchInv
<1>7. ASSUME NEW id \in ExternalIds, NEW o \in Book!Orders, QuotePlaced(id, o) PROVE ManagerInv'
  BY <1>7, QuotePlacedInv
<1>8. ASSUME NEW id \in ExternalIds, QuotePulled(id) PROVE ManagerInv'
  BY <1>8, QuotePulledInv
<1>9. CASE UNCHANGED vars
  <2>1. UNCHANGED <<book, taker, ledger, active, history, call, calls, approved, outside>>
    BY <1>9 DEF vars
  <2>2. StateOK'
    BY <2>1 DEF ManagerInv, StateOK
  <2>3. QED BY <2>1, <2>2, NoOrderChanged
<1>10. CASE Next
  BY <1>1, <1>2, <1>3, <1>4, <1>5, <1>6, <1>7, <1>8, <1>10 DEF Next
<1>11. QED BY <1>9, <1>10

\* Whatever orders are submitted, cancelled and modified, whatever the market
\* quotes, and whenever the kill switch is thrown: the inductive invariant, which
\* also says what book, ledger and active orders hold while a call of OrderManager
\* has matched an order and not yet settled all its trades.
THEOREM ManagerInvariant == Spec => []ManagerInv
<1>1. QED BY InitManagerInv, NextManagerInv, PTL DEF Spec

LEMMA OrdersAgreeHolds == ManagerInv => OrdersAgree
<1> SUFFICES ASSUME ManagerInv PROVE OrdersAgree
  OBVIOUS
<1>1. StateOK /\ OrdersOK
  BY DEF ManagerInv
<1>2. TypeOK
  <2>1. Book!TypeOK
    BY <1>1 DEF StateOK, SoundBook, Books, Book!TypeOK
  <2>2. /\ ledger.reserved \in [OrderIds -> Risk!Reservations \cup {NoReservation}]
        /\ ledger.committed \in -MaxUnits - 1 .. MaxUnits
    BY <1>1 DEF StateOK, Ledgers
  <2>3. QED BY <1>1, <2>1, <2>2 DEF StateOK, SoundHistory, TypeOK
<1>3. ASSUME call = Idle PROVE \A id : Untouched(id)
  BY <1>3 DEF Untouched, Taking, Restoring
<1>4. ASSUME call = Idle, NEW id \in ActiveIds
      PROVE  /\ id \in OrderIds /\ active[id] # NoState /\ ActiveFine(id) /\ id \in OwnIds
             /\ active[id] \in OrderStates
             /\ book.orders[id] = Replacement(id, active[id].price, active[id].remaining)
  <2>1. id \in OrderIds /\ active[id] # NoState /\ ActiveFine(id)
    BY <1>1, <1>4 DEF ActiveIds, OrdersOK
  <2>2. id \in OwnIds /\ active[id] \in OrderStates
    BY <1>1, <2>1 DEF ActiveFine, StateOK
  <2>3. BookFine(id)
    BY <1>1, <1>3, <1>4, <2>2 DEF OrdersOK
  <2>4. QED BY <2>1, <2>2, <2>3 DEF BookFine
<1>5. ActiveIsBook
  <2> SUFFICES ASSUME call = Idle
               PROVE  ActiveIds = Book!Live(book) \ ExternalIds
    BY <1>4 DEF ActiveIsBook
  <2>1. ASSUME NEW id \in ActiveIds PROVE id \in Book!Live(book) \ ExternalIds
    <3>1. /\ id \in OwnIds /\ id \in OrderIds /\ active[id] \in OrderStates
          /\ active[id].remaining \in Book!Lots
          /\ book.orders[id] = Replacement(id, active[id].price, active[id].remaining)
      BY <1>4, <2>1 DEF ActiveFine
    <3>2. book.orders[id] \in Book!Orders
      BY <3>1 DEF Replacement, OrderStates, Book!Orders
    <3>3. QED BY <3>1, <3>2, Quantities DEF Book!Live, OwnIds
  <2>2. ASSUME NEW id \in Book!Live(book) \ ExternalIds PROVE id \in ActiveIds
    <3>1. id \in OwnIds /\ id \in OrderIds /\ book.orders[id] # NoOrder
      BY <2>2 DEF Book!Live, OwnIds
    <3>2. BookFine(id)
      BY <1>1, <1>3, <3>1 DEF OrdersOK
    <3>3. QED BY <3>1, <3>2 DEF BookFine, ActiveIds
  <2>3. QED BY <2>1, <2>2
<1>6. RestsAsApproved
  <2> SUFFICES ASSUME call = Idle, NEW id \in ActiveIds
               PROVE  /\ approved[id] # NoState
                      /\ book.orders[id] = [side |-> approved[id].side,
                                            price |-> approved[id].price,
                                            lots |-> approved[id].lots - approved[id].gone]
                      /\ active[id].filled = approved[id].gone
    BY DEF RestsAsApproved
  <2>1. /\ approved[id] \in Approvals /\ approved[id] # NoState
        /\ approved[id].side = active[id].side /\ approved[id].price = active[id].price
        /\ approved[id].lots = active[id].initial /\ approved[id].gone = active[id].filled
        /\ active[id].filled = active[id].initial - active[id].remaining
        /\ active[id].initial \in Book!Lots /\ active[id].remaining \in Book!Lots
        /\ book.orders[id] = [side |-> active[id].side, price |-> active[id].price,
                              lots |-> active[id].remaining]
    <3>1. ActiveFine(id) /\ active[id] \in OrderStates /\ active[id] # NoState
      BY <1>4
    <3>2. book.orders[id] = Replacement(id, active[id].price, active[id].remaining)
      BY <1>4
    <3>3. NoState \notin Approvals
      BY OrderManagerAssumption
    <3>4. QED BY <3>1, <3>2, <3>3 DEF ActiveFine, OrderStates, Replacement
  <2>2. approved[id].lots - approved[id].gone = active[id].remaining
    BY <2>1, Quantities
  <2>3. QED BY <2>1, <2>2
<1>7. HistoryMirrorsActive
  BY <1>4 DEF HistoryMirrorsActive, ActiveFine
<1>8. QED BY <1>2, <1>5, <1>6, <1>7 DEF OrdersAgree

\* Between two calls the active orders of OrderManager, the order book, what the
\* risk manager admitted and the history say the same of every resting order.
THEOREM ManagerOrdersAgree == Spec => []OrdersAgree
<1>1. QED BY ManagerInvariant, OrdersAgreeHolds, PTL

LEMMA LedgerAgreesHolds == ManagerInv => LedgerAgrees
<1> SUFFICES ASSUME ManagerInv PROVE LedgerAgrees
  OBVIOUS
<1>1. \A id \in OrderIds : ReservedFine(id)
  BY DEF ManagerInv, OrdersOK
<1>2. ReservationsMatch
  <2> SUFFICES ASSUME call = Idle
               PROVE  /\ Risk!Reserving(ledger) \subseteq ActiveIds
                      /\ \A id \in ActiveIds :
                           ledger.reserved[id] =
                             IF approved[id].bare THEN NoReservation
                             ELSE [side |-> active[id].side, price |-> active[id].price,
                                   remaining |-> active[id].remaining]
    BY DEF ReservationsMatch
  <2>1. ~Taking /\ ~Restoring
    BY DEF Taking, Restoring
  <2>2. QED BY <1>1, <2>1 DEF ReservedFine, Due, Risk!Reserving, ActiveIds
<1>3. PositionIsOutside
  BY DEF ManagerInv, PositionOK, PositionIsOutside
<1>4. QED BY <1>2, <1>3 DEF LedgerAgrees

\* Between two calls the risk manager has reserved exactly what the active orders
\* can still trade, and its position is what was traded with others: on_fill and
\* release_order are called for neither too little nor too much.
THEOREM ManagerLedgerAgrees == Spec => []LedgerAgrees
<1>1. QED BY ManagerInvariant, LedgerAgreesHolds, PTL

-----------------------------------------------------------------------------
(* Orders that are filled or killed                                        *)

\* What executable_lots adds up.
LotsOf(b) == [id \in OrderIds |-> IF b.orders[id] = NoOrder THEN 0 ELSE b.orders[id].lots]

Executable(b, t) == Sum(LotsOf(b), Book!Candidates(b, t))

\* While a FOK order is matched, the book has what it still lacks; then the trades
\* that are not settled yet take all that it has left.
FokCovered ==
    Taking /\ call.op = "match" /\ call.order.tif = "FOK" =>
      taker.remaining <= Executable(book, taker)

FokRuns ==
    Taking /\ call.op = "settle" /\ call.order.tif = "FOK" =>
      \E f \in [0 .. Len(Pending) -> 0 .. MaxLots] : RunsDown(f) /\ f[Len(Pending)] = 0

FokInv == ManagerInv /\ FokCovered /\ FokRuns

LEMMA CandidateLots ==
    ASSUME NEW b \in Books, NEW t
    PROVE  /\ IsFiniteSet(Book!Candidates(b, t)) /\ Book!Candidates(b, t) \subseteq OrderIds
           /\ \A id \in Book!Candidates(b, t) :
                LotsOf(b)[id] = b.orders[id].lots /\ LotsOf(b)[id] \in Book!Lots
           /\ \A id \in Book!Candidates(b, t) : LotsOf(b)[id] \in Int
<1>1. Book!Candidates(b, t) \subseteq OrderIds
  BY DEF Book!Candidates, Book!SideOf, Book!Live
<1>2. IsFiniteSet(Book!Candidates(b, t))
  BY <1>1, BookHolds, FS_Subset
<1>3. ASSUME NEW id \in Book!Candidates(b, t)
      PROVE  LotsOf(b)[id] = b.orders[id].lots /\ LotsOf(b)[id] \in Book!Lots
  <2>1. id \in OrderIds /\ b.orders[id] # NoOrder
    BY DEF Book!Candidates, Book!SideOf, Book!Live
  <2>2. b.orders[id] \in Book!Orders
    BY <2>1 DEF Books
  <2>3. QED BY <2>1, <2>2 DEF LotsOf, Book!Orders
<1>4. Book!Lots \subseteq Int
  BY Quantities
<1>5. QED BY <1>1, <1>2, <1>3, <1>4

\* executable_lots is the sum.
LEMMA LiquidIsSum ==
    ASSUME book \in Books, NEW o
    PROVE  Liquid(o) <=> Executable(book, TakerOf(o)) >= o.lots
<1>1. PICK S, f : S = Book!Candidates(book, TakerOf(o)) /\ f = LotsOf(book)
  OBVIOUS
<1>2. IsFiniteSet(S) /\ \A id \in S : f[id] = book.orders[id].lots
  BY <1>1, CandidateLots
<1> DEFINE E(g) == g = [s \in SUBSET S |->
                          IF s = {} THEN 0 ELSE book.orders[Pick(s)].lots + g[s \ {Pick(s)}]]
<1>3. ASSUME NEW g PROVE E(g) <=> Sums(f, S, g)
  <2>1. \A s \in SUBSET S : s # {} => f[Pick(s)] = book.orders[Pick(s)].lots
    BY <1>2, Picked
  <2>2. [s \in SUBSET S |-> IF s = {} THEN 0 ELSE book.orders[Pick(s)].lots + g[s \ {Pick(s)}]]
          = [s \in SUBSET S |-> IF s = {} THEN 0 ELSE f[Pick(s)] + g[s \ {Pick(s)}]]
    BY <2>1
  <2>3. QED BY <2>2 DEF Sums
<1>4. MapThenSumSet(LAMBDA id : book.orders[id].lots, S) = (CHOOSE g : E(g))[S]
  BY DEF MapThenSumSet, MapThenFoldSet, Pick
<1>5. \E g : E(g)
  BY <1>2, <1>3, SumsExist
<1> HIDE DEF E
<1>6. E(CHOOSE g : E(g))
  BY <1>5
<1>7. Sums(f, S, CHOOSE g : E(g)) /\ Sums(f, S, Subtotals(f, S))
  BY <1>3, <1>6 DEF Subtotals
<1>8. (CHOOSE g : E(g)) = Subtotals(f, S)
  BY <1>2, <1>7, SumsUnique
<1>9. MapThenSumSet(LAMBDA id : book.orders[id].lots, S) = Sum(f, S)
  BY <1>4, <1>8 DEF Sum
<1>10. Liquid(o) <=> MapThenSumSet(LAMBDA id : book.orders[id].lots, S) >= o.lots
  BY <1>1 DEF Liquid
<1>11. QED BY <1>1, <1>9, <1>10 DEF Executable

\* A trade takes as much from what can be executed as from what the order lacks.
LEMMA FokMatchTrade ==
    ASSUME ManagerInv, FokCovered, MatchTrade
    PROVE  FokCovered'
<1> SUFFICES ASSUME call.order.tif = "FOK"
             PROVE  taker'.remaining <= Executable(book', taker')
  BY DEF MatchTrade, FokCovered
<1>1. /\ call # Idle /\ call.op = "match" /\ Taking
  BY DEF MatchTrade, Taking
<1>2. /\ SoundBook(book) /\ book \in Books /\ taker \in Book!Takers
      /\ taker.remaining <= Executable(book, taker)
  BY <1>1 DEF ManagerInv, StateOK, SoundBook, TakingOK, FokCovered
<1>3. PICK m \in OrderIds : LET n == Book!Smaller(taker.remaining, book.orders[m].lots) IN
        /\ Book!IsBest(book, taker, m) /\ taker.remaining > 0
        /\ taker' = [taker EXCEPT
                       !.remaining = @ - n,
                       !.trades = Append(@, [maker |-> m, lots |-> n,
                                             price |-> book.orders[m].price])]
        /\ book' = Book!Reduced(book, m, n)
  BY DEF MatchTrade, Book!MatchTrade
<1> DEFINE b == book.orders[m]
           n == Book!Smaller(taker.remaining, b.lots)
           c == Book!Candidates(book, taker)
<1>4. m \in c /\ m \in Book!Live(book) /\ b # NoOrder /\ b \in Book!Orders
  BY <1>2, <1>3 DEF Book!IsBest, Book!Candidates, Book!SideOf, Book!Live, Books
<1>5. b.lots \in Book!Lots /\ b.lots \in Nat \ {0} /\ taker.remaining \in Nat \ {0}
  BY <1>2, <1>3, <1>4, Quantities DEF Book!Orders, Book!Takers
<1>6. /\ n \in Book!Lots /\ n \in Nat \ {0} /\ (n >= b.lots <=> n = b.lots)
      /\ n <= b.lots
  BY <1>5, Quantities DEF Book!Smaller
<1>7. /\ taker'.remaining = taker.remaining - n
      /\ taker'.type = taker.type /\ taker'.side = taker.side /\ taker'.price = taker.price
  BY <1>2, <1>3 DEF Book!Takers
<1>8. book' = Book!Reduced(book, m, n)
  BY <1>3
<1> HIDE DEF n
<1> DEFINE left == IF n = b.lots THEN NoOrder ELSE [b EXCEPT !.lots = b.lots - n]
<1>9. SoundBook(book') /\ book'.orders = [book.orders EXCEPT ![m] = left]
  <2>1. /\ SoundBook(book')
        /\ book'.orders = [book.orders EXCEPT ![m] =
             IF n >= b.lots THEN NoOrder ELSE [b EXCEPT !.lots = b.lots - n]]
    BY <1>2, <1>4, <1>6, <1>8, ReducedOrders
  <2>2. QED BY <1>6, <2>1
<1>10. /\ book' \in Books /\ book'.orders[m] = left
       /\ \A x \in OrderIds : x # m => book'.orders[x] = book.orders[x]
  BY <1>2, <1>9 DEF SoundBook, Books
<1>11. left # NoOrder =>
         /\ n # b.lots /\ left.side = b.side /\ left.price = b.price /\ left.lots = b.lots - n
  BY <1>4 DEF Book!Orders
<1>12. left = NoOrder => n = b.lots
  <2>1. n # b.lots => left \in Book!Orders
    BY <1>4, <1>5, <1>6, Quantities DEF Book!Orders
  <2>2. QED BY <2>1, Quantities
<1> HIDE DEF left, b, c
<1>13. Book!Candidates(book', taker') = IF left = NoOrder THEN c \ {m} ELSE c
  <2>1. \A x : x \in c <=>
          /\ x \in OrderIds /\ book.orders[x] # NoOrder
          /\ book.orders[x].side = Book!Opposite(taker.side)
          /\ Book!Crosses(taker, book.orders[x].price)
    BY DEF c, Book!Candidates, Book!SideOf, Book!Live
  <2>2. \A p : Book!Crosses(taker', p) <=> Book!Crosses(taker, p)
    BY <1>7 DEF Book!Crosses
  <2>3. \A x : x \in Book!Candidates(book', taker') <=>
          /\ x \in OrderIds /\ book'.orders[x] # NoOrder
          /\ book'.orders[x].side = Book!Opposite(taker.side)
          /\ Book!Crosses(taker, book'.orders[x].price)
    BY <1>7, <2>2 DEF Book!Candidates, Book!SideOf, Book!Live
  <2>4. \A x : x # m => (x \in Book!Candidates(book', taker') <=> x \in c)
    BY <1>10, <2>1, <2>3
  <2>5. m \in Book!Candidates(book', taker') <=> left # NoOrder
    BY <1>4, <1>10, <1>11, <2>1, <2>3 DEF b
  <2>6. QED BY <1>4, <2>4, <2>5
<1> DEFINE f == LotsOf(book)
           g == LotsOf(book')
<1>14. /\ IsFiniteSet(c) /\ c \subseteq OrderIds /\ (\A x \in c : f[x] \in Int)
       /\ f[m] = b.lots /\ IsFiniteSet(c \ {m})
  <2>1. /\ IsFiniteSet(c) /\ c \subseteq OrderIds /\ (\A x \in c : f[x] \in Int)
        /\ \A x \in c : f[x] = book.orders[x].lots
    BY <1>2, CandidateLots DEF c
  <2>2. IsFiniteSet(c \ {m})
    BY <2>1, FS_RemoveElement
  <2>3. QED BY <1>4, <2>1, <2>2 DEF b
<1>15. /\ \A x \in c \ {m} : f[x] = g[x]
       /\ left # NoOrder => g[m] = f[m] - n
  BY <1>4, <1>10, <1>11, <1>14 DEF LotsOf
<1>16. left # NoOrder => \A x \in c : g[x] \in Int
  BY <1>6, <1>14, <1>15
<1> HIDE DEF f, g
<1>17. PICK u : u = Sum(f, c \ {m})
  OBVIOUS
<1>18. u \in Int /\ Sum(g, c \ {m}) = u /\ Sum(f, c) = b.lots + u
  <2>1. u \in Int
    BY <1>14, <1>17, SumType
  <2>2. Sum(f, c \ {m}) = Sum(g, c \ {m})
    BY <1>14, <1>15, SumSame
  <2>3. Sum(f, c) = f[m] + Sum(f, c \ {m})
    BY <1>4, <1>14, SumWithout
  <2>4. QED BY <1>14, <1>17, <2>1, <2>2, <2>3
<1>19. Executable(book', taker') = b.lots + u - n
  <2>1. CASE left = NoOrder
    <3>1. Executable(book', taker') = u
      BY <1>13, <1>18, <2>1 DEF Executable, g
    <3>2. QED BY <1>5, <1>12, <1>18, <2>1, <3>1 DEF b
  <2>2. CASE left # NoOrder
    <3>1. Sum(g, c) = g[m] + Sum(g, c \ {m})
      BY <1>4, <1>14, <1>16, <2>2, SumWithout
    <3>2. Executable(book', taker') = Sum(g, c)
      BY <1>13, <2>2 DEF Executable, g
    <3>3. QED BY <1>5, <1>6, <1>14, <1>15, <1>18, <2>2, <3>1, <3>2 DEF b
  <2>3. QED BY <2>1, <2>2
<1>20. Executable(book, taker) = b.lots + u
  BY <1>18 DEF Executable, f, c
<1>21. QED BY <1>2, <1>5, <1>6, <1>7, <1>18, <1>19, <1>20 DEF b

\* The match ends when nothing more can be executed: then the order lacks nothing.
LEMMA FokMatchEnd ==
    ASSUME ManagerInv, FokCovered, MatchEnd
    PROVE  FokCovered' /\ FokRuns'
<1> DEFINE q == taker.trades
<1>1. /\ call # Idle /\ call.op = "match" /\ Taking
      /\ taker.remaining = 0 \/ Book!Candidates(book, taker) = {}
      /\ call' = [call EXCEPT !.op = "settle", !.trades = q]
  BY DEF MatchEnd, Taking, Book!MatchEnd
<1>2. /\ taker \in Book!Takers /\ taker.remaining \in Nat
      /\ call \in [op : {"match", "settle"}, order : Requests,
                   remaining : 0 .. MaxLots, trades : Seq(Book!Trades)]
  BY <1>1, TakingFacts, Quantities DEF ManagerInv, StateOK, TakingOK, Book!Takers
<1>3. /\ call'.op = "settle" /\ call'.trades = q /\ call'.order = call.order
      /\ call'.remaining = call.remaining
  BY <1>1, <1>2
<1>4. Pending = q /\ Pending' = q
  BY <1>1, <1>3 DEF Pending
<1>5. FokCovered'
  BY <1>3 DEF FokCovered
<1>6. ASSUME call.order.tif = "FOK" PROVE taker.remaining = 0
  <2>1. taker.remaining <= Executable(book, taker)
    BY <1>1, <1>6 DEF FokCovered
  <2>2. Book!Candidates(book, taker) = {} => Executable(book, taker) = 0
    BY SumStep, FS_EmptySet DEF Executable
  <2>3. QED BY <1>1, <1>2, <2>1, <2>2
<1>7. ASSUME call.order.tif = "FOK"
      PROVE  \E f \in [0 .. Len(q) -> 0 .. MaxLots] : RunsDown(f)' /\ f[Len(q)] = 0
  <2>1. PICK f \in [0 .. Len(q) -> 0 .. MaxLots] : RunsDown(f)
    BY <1>1, <1>4 DEF ManagerInv, RunsOK
  <2>2. /\ f[0] = call.remaining /\ f[Len(q)] = taker.remaining
        /\ \A k \in 1 .. Len(q) : f[k] = f[k - 1] - q[k].lots
    BY <1>1, <1>4, <2>1 DEF RunsDown
  <2>3. book'.orders[call.order.id] # NoOrder =>
          f[Len(q)] = book'.orders[call.order.id].lots
    BY <2>2, MatchEndFacts
  <2>4. RunsDown(f)'
    BY <1>3, <1>4, <2>1, <2>2, <2>3 DEF RunsDown
  <2>5. QED BY <1>6, <1>7, <2>1, <2>2, <2>4
<1>8. QED BY <1>3, <1>4, <1>5, <1>7 DEF FokRuns

LEMMA FokSettleTrade ==
    ASSUME ManagerInv, FokRuns, SettleTrade
    PROVE  FokCovered' /\ FokRuns'
<1> DEFINE q == call.trades
           n == Settled.lots
<1>1. /\ call # Idle /\ call.op = "settle" /\ q # <<>> /\ Taking /\ Pending = q
      /\ q \in Seq(Book!Trades) /\ n \in Book!Lots /\ n <= call.remaining
      /\ book' = book
  BY SettleFacts DEF SettleTrade
<1>2. /\ call \in [op : {"match", "settle"}, order : Requests,
                   remaining : 0 .. MaxLots, trades : Seq(Book!Trades)]
      /\ call.remaining \in Nat
  BY <1>1, TakingFacts, Quantities
<1>3. /\ call'.op = "settle" /\ call'.trades = Tail(q) /\ call'.order = call.order
      /\ call'.remaining = call.remaining - n
  <2>1. call' = [call EXCEPT
                   !.remaining = IF Head(q).lots <= @ THEN @ - Head(q).lots ELSE 0,
                   !.trades = Tail(@)]
    BY DEF SettleTrade
  <2>2. Head(q).lots = n
    BY <1>1, HeadAndTail DEF Settled
  <2>3. QED BY <1>1, <1>2, <2>1, <2>2
<1>4. Pending' = Tail(q)
  BY <1>3 DEF Pending
<1>5. /\ Len(q) \in Nat \ {0} /\ Len(Tail(q)) = Len(q) - 1
      /\ \A k \in 1 .. Len(q) - 1 : Tail(q)[k] = q[k + 1]
      /\ q[1] = Settled /\ n \in Int
  BY <1>1, HeadAndTail, Quantities DEF Settled
<1>6. FokCovered'
  BY <1>3 DEF FokCovered
<1>7. ASSUME call.order.tif = "FOK"
      PROVE  \E f \in [0 .. Len(q) - 1 -> 0 .. MaxLots] : RunsDown(f)' /\ f[Len(q) - 1] = 0
  <2>1. PICK f \in [0 .. Len(q) -> 0 .. MaxLots] : RunsDown(f) /\ f[Len(q)] = 0
    BY <1>1, <1>7 DEF FokRuns
  <2>2. /\ f[0] = call.remaining
        /\ \A k \in 1 .. Len(q) : f[k] = f[k - 1] - q[k].lots
        /\ book.orders[call.order.id] # NoOrder => f[Len(q)] = book.orders[call.order.id].lots
    BY <1>1, <2>1 DEF RunsDown
  <2>3. PICK g : g = [k \in 0 .. Len(q) - 1 |-> f[k + 1]]
    OBVIOUS
  <2>4. g \in [0 .. Len(q) - 1 -> 0 .. MaxLots] /\ (\A k \in 0 .. Len(q) - 1 : g[k] = f[k + 1])
    <3>1. \A k \in 0 .. Len(q) - 1 : k + 1 \in 0 .. Len(q)
      BY <1>5
    <3>2. QED BY <2>3, <3>1
  <2>5. g[0] = call.remaining - n
    <3>1. 0 \in 0 .. Len(q) - 1 /\ 0 + 1 = 1 /\ 1 - 1 = 0 /\ 1 \in 1 .. Len(q)
      BY <1>5
    <3>2. g[0] = f[1] /\ f[1] = f[0] - n
      BY <1>5, <2>2, <2>4, <3>1
    <3>3. QED BY <2>2, <3>2
  <2>6. \A k \in 1 .. Len(q) - 1 : g[k] = g[k - 1] - Tail(q)[k].lots
    <3> SUFFICES ASSUME NEW k \in 1 .. Len(q) - 1
                 PROVE  g[k] = g[k - 1] - Tail(q)[k].lots
      OBVIOUS
    <3>1. /\ k \in 0 .. Len(q) - 1 /\ k - 1 \in 0 .. Len(q) - 1 /\ k - 1 + 1 = k
          /\ k + 1 \in 1 .. Len(q) /\ k + 1 - 1 = k
      BY <1>5
    <3>2. g[k] = f[k + 1] /\ g[k - 1] = f[k]
      BY <2>4, <3>1
    <3>3. f[k + 1] = f[k] - q[k + 1].lots
      BY <2>2, <3>1
    <3>4. QED BY <1>5, <3>2, <3>3
  <2>7. g[Len(q) - 1] = f[Len(q)]
    <3>1. Len(q) - 1 \in 0 .. Len(q) - 1 /\ Len(q) - 1 + 1 = Len(q)
      BY <1>5
    <3>2. QED BY <2>4, <3>1
  <2>8. RunsDown(g)'
    BY <1>1, <1>3, <1>4, <1>5, <2>2, <2>4, <2>5, <2>6, <2>7 DEF RunsDown
  <2>9. QED BY <2>1, <2>4, <2>7, <2>8
<1>8. QED BY <1>3, <1>4, <1>5, <1>6, <1>7 DEF FokRuns

\* No other step has to do with the match or the settlement of an order in a call.
LEMMA FokOtherwise ==
    ASSUME FokInv,
           \/ UNCHANGED <<book, taker, call>>
           \/ call' = Idle
           \/ call' # Idle /\ call'.op = "restore"
    PROVE  FokCovered' /\ FokRuns'
<1>1. CASE UNCHANGED <<book, taker, call>>
  <2>1. Taking' = Taking /\ Pending' = Pending
    BY <1>1 DEF Taking, Pending
  <2>2. QED BY <1>1, <2>1 DEF FokInv, FokCovered, FokRuns, RunsDown
<1>2. CASE call' = Idle
  BY <1>2 DEF FokCovered, FokRuns, Taking
<1>3. CASE call' # Idle /\ call'.op = "restore"
  BY <1>3 DEF FokCovered, FokRuns, Taking
<1>4. QED BY <1>1, <1>2, <1>3

LEMMA FokSubmitAccepted ==
    ASSUME FokInv, NEW o \in Requests, SubmitAccepted(o)
    PROVE  FokCovered' /\ FokRuns'
<1>1. /\ o.tif = "FOK" => Liquid(o)
      /\ taker' = TakerOf(o) /\ book' = book
      /\ call' = [op |-> "match", order |-> o, remaining |-> o.lots, trades |-> <<>>]
  BY DEF SubmitAccepted, Book!MatchBegin, TakerOf
<1>2. book \in Books
  BY DEF FokInv, ManagerInv, StateOK, SoundBook
<1>3. o.tif = "FOK" => Executable(book', taker') >= o.lots
  BY <1>1, <1>2, LiquidIsSum
<1>4. taker'.remaining = o.lots
  BY <1>1 DEF TakerOf
<1>5. QED BY <1>1, <1>3, <1>4 DEF FokCovered, FokRuns

LEMMA NextFokInv == FokInv /\ [Next]_vars => FokInv'
<1> SUFFICES ASSUME FokInv, [Next]_vars PROVE FokInv'
  OBVIOUS
<1>1. ManagerInv /\ ManagerInv' /\ FokCovered /\ FokRuns
  BY NextManagerInv DEF FokInv
<1> SUFFICES FokCovered' /\ FokRuns'
  BY <1>1 DEF FokInv
<1>2. ASSUME NEW o \in Requests, SubmitDuplicate(o) \/ SubmitRejected(o) \/ SubmitAccepted(o)
      PROVE  FokCovered' /\ FokRuns'
  BY <1>2, FokOtherwise, FokSubmitAccepted DEF SubmitDuplicate, SubmitRejected
<1>3. CASE MatchTrade
  <2>1. FokRuns'
    BY <1>3 DEF MatchTrade, FokRuns
  <2>2. QED BY <1>1, <1>3, <2>1, FokMatchTrade
<1>4. CASE MatchEnd
  BY <1>1, <1>4, FokMatchEnd
<1>5. CASE SettleTrade
  BY <1>1, <1>5, FokSettleTrade
<1>6. CASE SubmitFinish \/ ModifyRestore
  BY <1>6, FokOtherwise DEF SubmitFinish, ModifyRestore
<1>7. ASSUME NEW id \in OwnIds, Cancel(id) PROVE FokCovered' /\ FokRuns'
  BY <1>7, FokOtherwise DEF Cancel, CallsLeft
<1>8. ASSUME NEW id \in OwnIds, NEW n \in Book!Lots, CancelPartial(id, n)
      PROVE  FokCovered' /\ FokRuns'
  BY <1>8, FokOtherwise DEF CancelPartial, CallsLeft
<1>9. ASSUME NEW id \in OwnIds, NEW price \in Prices, NEW lots \in Book!Lots,
             ModifyUnfit(id, price, lots) \/ ModifyAccepted(id, price, lots)
      PROVE  FokCovered' /\ FokRuns'
  BY <1>9, FokOtherwise DEF ModifyUnfit, ModifyAccepted, CallsLeft
<1>10. ASSUME NEW id \in OwnIds, NEW price \in Prices, NEW lots \in Book!Lots,
              ModifyRefused(id, price, lots)
       PROVE  FokCovered' /\ FokRuns'
  <2>1. call' = [op |-> "restore", id |-> id]
    BY <1>10 DEF ModifyRefused
  <2>2. QED BY <2>1, FokOtherwise, OrderManagerAssumption DEF CallStates
<1>11. CASE TriggerKillSwitch \/ ResetKillSwitch
  BY <1>11, FokOtherwise DEF TriggerKillSwitch, ResetKillSwitch
<1>12. ASSUME NEW id \in ExternalIds, NEW o \in Book!Orders, QuotePlaced(id, o)
       PROVE  FokCovered' /\ FokRuns'
  BY <1>12, FokOtherwise DEF QuotePlaced, CallsLeft
<1>13. ASSUME NEW id \in ExternalIds, QuotePulled(id) PROVE FokCovered' /\ FokRuns'
  BY <1>13, FokOtherwise DEF QuotePulled
<1>14. CASE UNCHANGED vars
  BY <1>14, FokOtherwise DEF vars
<1>15. CASE Next
  BY <1>2, <1>3, <1>4, <1>5, <1>6, <1>7, <1>8, <1>9, <1>10, <1>11, <1>12, <1>13, <1>15
  DEF Next, CallStep
<1>16. QED BY <1>14, <1>15

LEMMA FokMeans == FokInv => FokAllOrNone
<1> SUFFICES ASSUME FokInv, call # Idle, call.op = "settle", call.order.tif = "FOK",
                    call.trades = <<>>
             PROVE  call.remaining = 0
  BY DEF FokAllOrNone
<1>1. Taking /\ Pending = <<>>
  BY DEF Taking, Pending
<1>2. PICK f : RunsDown(f) /\ f[0] = 0
  BY <1>1 DEF FokInv, FokRuns
<1>3. QED BY <1>2 DEF RunsDown

\* A FOK order that the order manager admits trades in full: executable_lots, asked
\* before the risk check, promises no more than match_order finds, and nothing comes
\* between the two.
THEOREM ManagerFokAllOrNone == Spec => []FokAllOrNone
<1>1. Init => FokInv
  BY InitManagerInv DEF Init, FokInv, FokCovered, FokRuns, Taking
<1>2. QED BY <1>1, NextFokInv, FokMeans, PTL DEF Spec

-----------------------------------------------------------------------------
(* The replayed journal                                                    *)

Replays ==
    [active : [OrderIds -> ReplayStates \cup {NoState}],
     history : [OrderIds -> ReplayStates \cup {NoState}],
     seen : [OrderIds -> Nat]]

\* What replay has of an order, when the manager has s: a is active and h in the
\* history, and n lots of it were seen to trade.
Rebuilt(s, a, h, n) ==
    /\ a # NoState => h = a /\ a.status # "REJECTED"
    /\ IF s = NoState \/ (h # NoState /\ h.status = "REJECTED")
       THEN a = NoState
       ELSE /\ a # NoState
            /\ a.side = s.side /\ a.price = s.price
            /\ a.initial = s.initial /\ a.remaining = s.remaining
            /\ a.filled >= s.filled
            /\ n <= s.filled => a.filled = s.filled

\* The end of an order that the manager has as s, if it is done.
Ended(s, h, n) ==
    s # NoState =>
      /\ h # NoState
      /\ h.status = "REJECTED" \/ n > s.filled \/ h.status = s.status

FoundFine(id) == Rebuilt(active[id], replay.active[id], replay.history[id], replay.seen[id])

EndFine(id) ==
    active[id] = NoState => Ended(history.states[id], replay.history[id], replay.seen[id])

\* The order that is submitted is not in the history, and its trades were seen.
TakerSeen ==
    Taking =>
      /\ history.states[call.order.id] = NoState
      /\ call.order.lots - call.remaining <= replay.seen[call.order.id]

\* Replay follows the manager after each line, so also in the middle of a call.
ReplayInv ==
    /\ ManagerInv
    /\ replay \in Replays
    /\ \A id \in OrderIds : FoundFine(id)
    /\ \A id \in OwnIds : EndFine(id)
    /\ TakerSeen

Stored(r, id, a, s) == [r EXCEPT !.active[id] = a, !.history[id] = s]

\* The replayed states r and after differ in one order only.
OnlyAt(id, r, after) ==
    \A x \in OrderIds \ {id} :
      /\ after.active[x] = r.active[x] /\ after.history[x] = r.history[x]
      /\ after.seen[x] = r.seen[x]

LEMMA StoredEffect ==
    ASSUME NEW r \in Replays, NEW id \in OrderIds, NEW a, a \in ReplayStates \/ a = NoState,
           NEW s \in ReplayStates
    PROVE  /\ Stored(r, id, a, s) \in Replays /\ OnlyAt(id, r, Stored(r, id, a, s))
           /\ Stored(r, id, a, s).active[id] = a /\ Stored(r, id, a, s).history[id] = s
           /\ Stored(r, id, a, s).seen = r.seen
<1>1. s \in ReplayStates \cup {NoState} /\ a \in ReplayStates \cup {NoState}
  OBVIOUS
<1>2. Stored(r, id, a, s) \in Replays
  BY <1>1 DEF Replays, Stored
<1>3. QED BY <1>2 DEF Replays, Stored, OnlyAt

\* What n more lots make of a state.
ReplayFilled(s, n) ==
    [s EXCEPT !.filled = @ + Replay!Least(n, s.remaining),
              !.remaining = s.remaining - Replay!Least(n, s.remaining),
              !.status = IF s.remaining - Replay!Least(n, s.remaining) = 0 THEN "FILLED"
                         ELSE "PARTIALLY_FILLED"]

LEMMA FilledFields ==
    ASSUME NEW s \in ReplayStates, NEW n \in Nat
    PROVE  LET m == Replay!Least(n, s.remaining)
               f == ReplayFilled(s, n)
           IN  /\ m \in Nat /\ m <= s.remaining /\ (n <= s.remaining => m = n)
               /\ f \in ReplayStates
               /\ f.side = s.side /\ f.price = s.price /\ f.initial = s.initial
               /\ f.filled = s.filled + m /\ f.remaining = s.remaining - m
               /\ f.status \in {"FILLED", "PARTIALLY_FILLED"}
               /\ f.remaining = 0 => f.status = "FILLED"
<1>1. PICK m : m = Replay!Least(n, s.remaining)
  OBVIOUS
<1>2. s.remaining \in 0 .. MaxLots /\ s.filled \in Nat /\ MaxLots \in Nat
  BY Quantities DEF ReplayStates
<1>3. m \in Nat /\ m <= s.remaining /\ (n <= s.remaining => m = n)
  BY <1>1, <1>2 DEF Replay!Least
<1>4. s.filled + m \in Nat /\ s.remaining - m \in 0 .. MaxLots
  BY <1>2, <1>3
<1>5. PICK st \in {"FILLED", "PARTIALLY_FILLED"} :
        st = IF s.remaining - m = 0 THEN "FILLED" ELSE "PARTIALLY_FILLED"
  OBVIOUS
<1>6. PICK f : f = [s EXCEPT !.filled = s.filled + m, !.remaining = s.remaining - m, !.status = st]
  OBVIOUS
<1>7. f = ReplayFilled(s, n)
  BY <1>1, <1>5, <1>6 DEF ReplayFilled
<1>8. f \in ReplayStates /\ f.side = s.side /\ f.price = s.price /\ f.initial = s.initial
      /\ f.filled = s.filled + m /\ f.remaining = s.remaining - m /\ f.status = st
  BY <1>4, <1>5, <1>6 DEF ReplayStates
<1>9. QED BY <1>1, <1>3, <1>5, <1>7, <1>8

LEMMA FillEffect ==
    ASSUME NEW r \in Replays, NEW id \in OrderIds, NEW n \in Nat
    PROVE  LET after == Replay!FillApplied(r, id, n)
               s == r.active[id]
           IN  /\ after \in Replays
               /\ OnlyAt(id, r, after) /\ after.seen[id] = r.seen[id] + n
               /\ s = NoState =>
                    after.active[id] = NoState /\ after.history[id] = r.history[id]
               /\ s # NoState =>
                    /\ s \in ReplayStates
                    /\ after.active[id] = IF ReplayFilled(s, n).remaining > 0
                                          THEN ReplayFilled(s, n) ELSE NoState
                    /\ after.history[id] = ReplayFilled(s, n)
<1>1. PICK c : c = [r EXCEPT !.seen[id] = @ + n]
  OBVIOUS
<1>2. PICK s : s = r.active[id]
  OBVIOUS
<1>3. /\ c \in Replays /\ OnlyAt(id, r, c) /\ c.seen[id] = r.seen[id] + n
      /\ c.active = r.active /\ c.history = r.history
  <2>1. r.seen[id] + n \in Nat
    BY DEF Replays
  <2>2. QED BY <1>1, <2>1 DEF Replays, OnlyAt
<1>4. s = NoState => Replay!FillApplied(r, id, n) = c
  BY <1>1, <1>2 DEF Replay!FillApplied
<1>5. CASE s = NoState
  BY <1>2, <1>3, <1>4, <1>5
<1>6. CASE s # NoState
  <2>1. s \in ReplayStates
    BY <1>2, <1>6 DEF Replays
  <2>2. PICK f : f = ReplayFilled(s, n)
    OBVIOUS
  <2>3. f \in ReplayStates /\ f.remaining = s.remaining - Replay!Least(n, s.remaining)
    BY <2>1, <2>2, FilledFields
  <2>4. PICK a : a = IF f.remaining > 0 THEN f ELSE NoState
    OBVIOUS
  <2>5. Replay!FillApplied(r, id, n) = Stored(c, id, a, f)
    BY <1>1, <1>2, <1>6, <2>2, <2>3, <2>4 DEF Stored, Replay!FillApplied, Replay!Put, ReplayFilled
  <2>6. (a \in ReplayStates \/ a = NoState) /\ c \in Replays /\ f \in ReplayStates
    BY <1>3, <2>3, <2>4
  <2>7. /\ Stored(c, id, a, f) \in Replays /\ OnlyAt(id, c, Stored(c, id, a, f))
        /\ Stored(c, id, a, f).active[id] = a /\ Stored(c, id, a, f).history[id] = f
        /\ Stored(c, id, a, f).seen = c.seen
    BY <2>6, StoredEffect
  <2>8. PICK after : after = Stored(c, id, a, f)
    OBVIOUS
  <2>9. OnlyAt(id, r, after)
    BY <1>3, <2>7, <2>8 DEF OnlyAt
  <2>10. QED BY <1>2, <1>3, <1>6, <2>1, <2>2, <2>4, <2>5, <2>7, <2>8, <2>9
<1>7. QED BY <1>5, <1>6

\* What an update leaves of the history: the state that is put, and of the others
\* what was there, unless it is forgotten.
LEMMA UpsertedOnly ==
    ASSUME NEW h, SoundHistory(h), NEW act, NEW id \in OrderIds, NEW s
    PROVE  /\ Upserted(h, act, id, s).states[id] \in {s, NoState}
           /\ \A x \in OrderIds \ {id} :
                Upserted(h, act, id, s).states[x] \in {h.states[x], NoState}
<1>1. DOMAIN h.states = OrderIds
  BY DEF SoundHistory
<1>2. PICK g : g = [states |-> [h.states EXCEPT ![id] = s],
                    queue |-> Append(RemoveFirst(h.queue, id), id)]
  OBVIOUS
<1>3. Upserted(h, act, id, s) = Trimmed(g, act)
  BY <1>2 DEF Upserted
<1>4. \A x \in OrderIds : Trimmed(g, act).states[x] \in {g.states[x], NoState}
  BY DEF Trimmed
<1>5. g.states[id] = s /\ \A x \in OrderIds \ {id} : g.states[x] = h.states[x]
  BY <1>1, <1>2
<1>6. QED BY <1>3, <1>4, <1>5

\* A line about one order.
LEMMA OneLine ==
    ASSUME ReplayInv, ManagerInv', replay' \in Replays, NEW x \in OrderIds,
           FoundFine(x)', x \in OwnIds => EndFine(x)', TakerSeen',
           \A id \in OrderIds \ {x} :
             /\ active'[id] = active[id]
             /\ history'.states[id] = history.states[id] \/ history'.states[id] = NoState,
           OnlyAt(x, replay, replay')
    PROVE  ReplayInv'
<1>1. ASSUME NEW id \in OrderIds PROVE FoundFine(id)'
  <2>1. CASE id = x
    BY <2>1
  <2>2. CASE id # x
    BY <2>2 DEF ReplayInv, FoundFine, OnlyAt
  <2>3. QED BY <2>1, <2>2
<1>2. ASSUME NEW id \in OwnIds PROVE EndFine(id)'
  <2>1. CASE id = x
    BY <2>1
  <2>2. CASE id # x
    <3>1. id \in OrderIds /\ EndFine(id)
      BY DEF OwnIds, ReplayInv
    <3>2. QED BY <2>2, <3>1 DEF EndFine, Ended, OnlyAt
  <2>3. QED BY <2>1, <2>2
<1>3. QED BY <1>1, <1>2 DEF ReplayInv

\* A step without a line, that changes no order.
LEMMA NoLine ==
    ASSUME ReplayInv, ManagerInv', replay' = replay, active' = active, history' = history,
           TakerSeen'
    PROVE  ReplayInv'
<1>1. ASSUME NEW id \in OrderIds PROVE FoundFine(id)'
  BY DEF ReplayInv, FoundFine
<1>2. ASSUME NEW id \in OwnIds PROVE EndFine(id)'
  BY DEF ReplayInv, EndFine
<1>3. QED BY <1>1, <1>2 DEF ReplayInv

\* A line that puts a state.
LEMMA StoredLine ==
    ASSUME ReplayInv, ManagerInv', call' = Idle, NEW x \in OwnIds, NEW a, NEW s \in ReplayStates,
           a \in ReplayStates \/ a = NoState, replay' = Stored(replay, x, a, s),
           Rebuilt(active'[x], a, s, replay.seen[x]),
           active'[x] = NoState => Ended(history'.states[x], s, replay.seen[x]),
           \A id \in OrderIds \ {x} :
             /\ active'[id] = active[id]
             /\ history'.states[id] = history.states[id] \/ history'.states[id] = NoState
    PROVE  ReplayInv'
<1>1. replay \in Replays /\ x \in OrderIds
  BY DEF ReplayInv, OwnIds
<1>2. /\ replay' \in Replays /\ OnlyAt(x, replay, replay')
      /\ replay'.active[x] = a /\ replay'.history[x] = s /\ replay'.seen = replay.seen
  BY <1>1, StoredEffect
<1>3. FoundFine(x)' /\ EndFine(x)'
  BY <1>2 DEF FoundFine, EndFine
<1>4. TakerSeen'
  BY DEF TakerSeen, Taking
<1>5. QED BY <1>1, <1>2, <1>3, <1>4, OneLine

LEMMA StateEventFields ==
    \A type, id, s :
      LET e == StateEvent(type, id, s)
      IN  /\ e.type = type /\ e.id = id /\ e.related = id /\ e.side = s.side
          /\ e.price = s.price /\ e.lots = s.initial /\ e.remaining = s.remaining
BY DEF Event, StateEvent

EventTypes == {"ACCEPTED", "REJECTED", "TRADE", "CANCELED", "REPLACED"}

LEMMA EventIsOne ==
    ASSUME NEW type \in EventTypes, NEW id \in OrderIds, NEW related \in OrderIds,
           NEW side \in Book!Sides, NEW price \in Prices, NEW lots \in Book!Lots,
           NEW remaining \in 0 .. MaxLots, NEW resting \in BOOLEAN
    PROVE  Event(type, id, related, side, price, lots, remaining, resting) # NoEvent
<1>1. Event(type, id, related, side, price, lots, remaining, resting) \in Events
  BY DEF Event, Events, EventTypes
<1>2. QED BY <1>1, ReplayAssumption

LEMMA StateEventIsOne ==
    ASSUME NEW type \in EventTypes, NEW id \in OrderIds, NEW s \in OrderStates
    PROVE  StateEvent(type, id, s) # NoEvent
<1>1. /\ s.side \in Book!Sides /\ s.price \in Prices /\ s.initial \in Book!Lots
      /\ s.remaining \in 0 .. MaxLots
  BY DEF OrderStates
<1>2. CASE s.remaining > 0
  <2>1. StateEvent(type, id, s) =
          Event(type, id, id, s.side, s.price, s.initial, s.remaining, TRUE)
    BY <1>2 DEF StateEvent, Event
  <2>2. QED BY <1>1, <2>1, EventIsOne
<1>3. CASE ~(s.remaining > 0)
  <2>1. StateEvent(type, id, s) =
          Event(type, id, id, s.side, s.price, s.initial, s.remaining, FALSE)
    <3>1. (s.remaining > 0) = FALSE
      BY <1>3
    <3>2. QED BY <3>1 DEF StateEvent, Event
  <2>2. QED BY <1>1, <2>1, EventIsOne
<1>4. QED BY <1>2, <1>3

\* The line of a cancelled order.
LEMMA CanceledRebuilt ==
    ASSUME ReplayInv, ManagerInv', call' = Idle, Journaled, NEW id \in OwnIds,
           active[id] \in OrderStates,
           event' = StateEvent("CANCELED", id, CanceledState(active[id])),
           active'[id] = NoState,
           \A x \in OrderIds \ {id} : active'[x] = active[x],
           history' = Upserted(history, active', id, CanceledState(active[id]))
    PROVE  ReplayInv'
<1>1. PICK e : e = event'
  OBVIOUS
<1>2. PICK h : h = replay.history[id]
  OBVIOUS
<1>3. id \in OrderIds /\ replay \in Replays /\ FoundFine(id) /\ SoundHistory(history)
  BY DEF OwnIds, ReplayInv, ManagerInv, StateOK
<1>4. active[id] # NoState
  BY OrderManagerAssumption
<1>5. h \in ReplayStates
  <2>1. h # NoState
    BY <1>2, <1>3, <1>4 DEF FoundFine, Rebuilt
  <2>2. QED BY <1>2, <1>3, <2>1 DEF Replays
<1>6. PICK s : s = [h EXCEPT !.remaining = 0, !.status = "CANCELED"]
  OBVIOUS
<1>7. s \in ReplayStates /\ s.status = "CANCELED"
  <2>1. 0 \in 0 .. MaxLots
    BY Quantities
  <2>2. QED BY <1>5, <1>6, <2>1 DEF ReplayStates
<1>8. e.type = "CANCELED" /\ e.id = id
  BY <1>1, StateEventFields
<1>9. replay' = Replay!CanceledLine(replay, e)
  <2>1. event' # NoEvent
    BY <1>3, CanceledStateType, StateEventIsOne DEF EventTypes
  <2>2. replay' = Replay!Applied(replay, e)
    BY <1>1, <2>1 DEF Journaled
  <2>3. QED BY <1>8, <2>2 DEF Replay!Applied
<1>10. replay' = Stored(replay, id, NoState, s)
  <2>1. h # NoState
    BY <1>5, ReplayAssumption
  <2>2. QED BY <1>2, <1>6, <1>8, <1>9, <2>1 DEF Replay!CanceledLine, Replay!Put, Stored
<1>11. /\ history'.states[id] \in {CanceledState(active[id]), NoState}
       /\ \A x \in OrderIds \ {id} : history'.states[x] \in {history.states[x], NoState}
  <2>1. PICK act : act = active'
    OBVIOUS
  <2>2. history' = Upserted(history, act, id, CanceledState(active[id]))
    BY <2>1
  <2>3. QED BY <1>3, <2>2, UpsertedOnly
<1>12. Rebuilt(active'[id], NoState, s, replay.seen[id])
  BY DEF Rebuilt
<1>13. CanceledState(active[id]).status = "CANCELED"
  BY DEF CanceledState, OrderStates
<1>14. Ended(history'.states[id], s, replay.seen[id])
  BY <1>7, <1>11, <1>13, ReplayAssumption DEF Ended
<1>15. \A x \in OrderIds \ {id} :
         history'.states[x] = history.states[x] \/ history'.states[x] = NoState
  BY <1>11
<1>16. QED BY <1>3, <1>7, <1>10, <1>12, <1>14, <1>15, StoredLine

\* What Replaced puts for an order of which n lots were seen to trade.
ReplacedState(side, price, initial, remaining, n) ==
    LET filled == Replay!Least(initial, Replay!Most(n, initial - remaining))
    IN  Replay!ReplayState(side, price, initial, remaining, filled,
                           IF remaining = 0 /\ filled = 0 THEN "CANCELED"
                           ELSE Replay!WorkingStatus(filled))

LEMMA ReplacedFields ==
    ASSUME NEW side \in Book!Sides, NEW price \in Prices, NEW initial \in Book!Lots,
           NEW remaining \in Book!Lots, NEW n \in Nat
    PROVE  LET s == ReplacedState(side, price, initial, remaining, n)
           IN  /\ s \in ReplayStates /\ s.status # "REJECTED"
               /\ s.side = side /\ s.price = price /\ s.initial = initial
               /\ s.remaining = remaining /\ s.filled >= initial - remaining
               /\ (n <= initial - remaining /\ remaining <= initial
                     => s.filled = initial - remaining)
<1>1. PICK filled : filled = Replay!Least(initial, Replay!Most(n, initial - remaining))
  OBVIOUS
<1>2. initial \in Nat \ {0} /\ remaining \in Nat \ {0} /\ remaining \in 0 .. MaxLots
  BY Quantities
<1>3. /\ filled \in Nat /\ filled >= initial - remaining
      /\ (n <= initial - remaining /\ remaining <= initial => filled = initial - remaining)
  BY <1>1, <1>2 DEF Replay!Least, Replay!Most
<1>4. PICK st \in {"RESTING", "PARTIALLY_FILLED"} : st = Replay!WorkingStatus(filled)
  BY DEF Replay!WorkingStatus
<1>5. PICK s : s = Replay!ReplayState(side, price, initial, remaining, filled, st)
  OBVIOUS
<1>6. s = ReplacedState(side, price, initial, remaining, n)
  BY <1>1, <1>2, <1>4, <1>5 DEF ReplacedState
<1>7. /\ s \in ReplayStates /\ s.status = st /\ s.side = side /\ s.price = price
      /\ s.initial = initial /\ s.remaining = remaining /\ s.filled = filled
  BY <1>2, <1>3, <1>4, <1>5 DEF Replay!ReplayState, ReplayStates
<1>8. QED BY <1>3, <1>6, <1>7

\* The line of an order that was cut or modified.
LEMMA ReplacedRebuilt ==
    ASSUME ReplayInv, ManagerInv', call' = Idle, Journaled, NEW id \in OwnIds,
           NEW s \in OrderStates, event' = StateEvent("REPLACED", id, s),
           s.remaining \in Book!Lots, s.filled = s.initial - s.remaining,
           active'[id] = s,
           \A x \in OrderIds \ {id} : active'[x] = active[x],
           history' = Upserted(history, active', id, s)
    PROVE  ReplayInv'
<1>1. PICK e : e = event'
  OBVIOUS
<1>2. /\ id \in OrderIds /\ replay \in Replays /\ SoundHistory(history)
      /\ replay.seen[id] \in Nat
  BY DEF OwnIds, ReplayInv, ManagerInv, StateOK, Replays
<1>3. /\ s.side \in Book!Sides /\ s.price \in Prices /\ s.initial \in Book!Lots
      /\ s.remaining \in Nat \ {0} /\ s.filled \in Nat /\ s.initial \in Nat
  BY Quantities DEF OrderStates
<1>4. PICK r : r = ReplacedState(s.side, s.price, s.initial, s.remaining, replay.seen[id])
  OBVIOUS
<1>5. /\ r \in ReplayStates /\ r.status # "REJECTED"
      /\ r.side = s.side /\ r.price = s.price /\ r.initial = s.initial
      /\ r.remaining = s.remaining /\ r.filled >= s.initial - s.remaining
      /\ (replay.seen[id] <= s.initial - s.remaining /\ s.remaining <= s.initial
            => r.filled = s.initial - s.remaining)
  BY <1>2, <1>3, <1>4, ReplacedFields
<1>6. /\ e.type = "REPLACED" /\ e.id = id /\ e.side = s.side /\ e.price = s.price
      /\ e.lots = s.initial /\ e.remaining = s.remaining
  BY <1>1, StateEventFields
<1>7. replay' = Replay!Replaced(replay, e)
  <2>1. event' # NoEvent
    BY <1>2, StateEventIsOne DEF EventTypes
  <2>2. replay' = Replay!Applied(replay, e)
    BY <1>1, <2>1 DEF Journaled
  <2>3. QED BY <1>6, <2>2 DEF Replay!Applied
<1>8. replay' = Stored(replay, id, r, r)
  <2>1. r = ReplacedState(e.side, e.price, e.lots, e.remaining, replay.seen[e.id])
    BY <1>4, <1>6
  <2>2. replay' = Replay!Put(replay, e.id, r, e.remaining > 0)
    BY <1>7, <2>1 DEF Replay!Replaced, ReplacedState
  <2>3. e.id = id /\ e.remaining > 0
    BY <1>3, <1>6
  <2>4. QED BY <2>2, <2>3 DEF Replay!Put, Stored
<1>9. \A x \in OrderIds \ {id} :
        history'.states[x] = history.states[x] \/ history'.states[x] = NoState
  <2>1. PICK act : act = active'
    OBVIOUS
  <2>2. history' = Upserted(history, act, id, s)
    BY <2>1
  <2>3. QED BY <1>2, <2>2, UpsertedOnly
<1>10. s # NoState /\ r # NoState
  BY <1>5, OrderManagerAssumption, ReplayAssumption
<1>11. Rebuilt(s, r, r, replay.seen[id])
  BY <1>2, <1>3, <1>5, <1>10 DEF Rebuilt
<1>12. QED BY <1>2, <1>5, <1>9, <1>10, <1>11, <1>8, StoredLine

\* The line of a rejection strikes the order, also the order that has the identifier
\* already.
LEMMA RejectedRebuilt ==
    ASSUME ReplayInv, ManagerInv', call' = Idle, Journaled, NEW o \in Requests,
           event' = Event("REJECTED", o.id, o.id, o.side, o.price, o.lots, o.lots, FALSE),
           active' = active,
           \A x \in OrderIds \ {o.id} : history'.states[x] \in {history.states[x], NoState}
    PROVE  ReplayInv'
<1>1. PICK e : e = event'
  OBVIOUS
<1>2. PICK id \in OwnIds : id = o.id
  BY RequestFacts
<1>3. /\ o.side \in Book!Sides /\ o.price \in Prices /\ o.lots \in Book!Lots
      /\ o.lots \in 0 .. MaxLots /\ id \in OrderIds
  BY <1>2, RequestFacts, Quantities DEF OwnIds
<1>4. PICK s : s = Replay!ReplayState(o.side, o.price, o.lots, o.lots, 0, "REJECTED")
  OBVIOUS
<1>5. s \in ReplayStates /\ s.status = "REJECTED"
  BY <1>3, <1>4 DEF Replay!ReplayState, ReplayStates
<1>6. /\ e.type = "REJECTED" /\ e.id = id /\ e.side = o.side /\ e.price = o.price
      /\ e.lots = o.lots /\ e.remaining = o.lots
  BY <1>1, <1>2 DEF Event
<1>7. replay' = Replay!Rejected(replay, e)
  <2>1. event' # NoEvent
    BY <1>2, <1>3, EventIsOne DEF EventTypes
  <2>2. replay' = Replay!Applied(replay, e)
    BY <1>1, <2>1 DEF Journaled
  <2>3. QED BY <1>6, <2>2 DEF Replay!Applied
<1>8. replay' = Stored(replay, id, NoState, s)
  <2>1. s = Replay!ReplayState(e.side, e.price, e.lots, e.remaining, 0, "REJECTED")
    BY <1>4, <1>6
  <2>2. replay' = Replay!Put(replay, e.id, s, FALSE)
    BY <1>7, <2>1 DEF Replay!Rejected
  <2>3. QED BY <1>6, <2>2 DEF Replay!Put, Stored
<1>9. Rebuilt(active'[id], NoState, s, replay.seen[id])
  BY <1>5, ReplayAssumption DEF Rebuilt
<1>10. Ended(history'.states[id], s, replay.seen[id])
  BY <1>5, ReplayAssumption DEF Ended
<1>11. \A x \in OrderIds \ {id} :
         /\ active'[x] = active[x]
         /\ history'.states[x] = history.states[x] \/ history'.states[x] = NoState
  BY <1>2
<1>12. QED BY <1>5, <1>8, <1>9, <1>10, <1>11, StoredLine

\* What Accepted puts for an order of which n lots were seen to trade.
AcceptedState(o, remaining, working, n) ==
    LET filled == Replay!Least(o.lots, n)
    IN  Replay!ReplayState(o.side, o.price, o.lots, IF working THEN remaining ELSE 0, filled,
                           IF working THEN Replay!WorkingStatus(filled)
                           ELSE IF filled = o.lots THEN "FILLED"
                           ELSE IF filled > 0 THEN "PARTIALLY_FILLED" ELSE "CANCELED")

LEMMA AcceptedFields ==
    ASSUME NEW o \in Requests, NEW left \in 0 .. MaxLots, left <= o.lots, NEW n \in Nat,
           o.lots - left <= n, NEW working \in BOOLEAN
    PROVE  LET s == AcceptedState(o, left, working, n)
           IN  /\ s \in ReplayStates /\ s.status # "REJECTED"
               /\ s.side = o.side /\ s.price = o.price /\ s.initial = o.lots
               /\ s.remaining = (IF working THEN left ELSE 0)
               /\ s.filled >= o.lots - left
               /\ (n <= o.lots - left => s.filled = o.lots - left)
               /\ (~working /\ n <= o.lots - left =>
                     s.status = IF left = 0 THEN "FILLED"
                                ELSE IF o.lots - left > 0 THEN "PARTIALLY_FILLED" ELSE "CANCELED")
<1>1. PICK filled : filled = Replay!Least(o.lots, n)
  OBVIOUS
<1>2. /\ o.side \in Book!Sides /\ o.price \in Prices /\ o.lots \in Book!Lots
      /\ o.lots \in Nat \ {0} /\ left \in Nat
  BY RequestFacts, Quantities
<1>3. /\ filled \in Nat /\ filled >= o.lots - left
      /\ (n <= o.lots - left => filled = o.lots - left)
  BY <1>1, <1>2 DEF Replay!Least
<1>4. PICK st \in {"RESTING", "PARTIALLY_FILLED", "FILLED", "CANCELED"} :
        st = IF working THEN Replay!WorkingStatus(filled)
             ELSE IF filled = o.lots THEN "FILLED"
             ELSE IF filled > 0 THEN "PARTIALLY_FILLED" ELSE "CANCELED"
  BY DEF Replay!WorkingStatus
<1>5. PICK rest \in 0 .. MaxLots : rest = IF working THEN left ELSE 0
  BY Quantities
<1>6. PICK s : s = Replay!ReplayState(o.side, o.price, o.lots, rest, filled, st)
  OBVIOUS
<1>7. s = AcceptedState(o, left, working, n)
  BY <1>1, <1>4, <1>5, <1>6 DEF AcceptedState
<1>8. /\ s \in ReplayStates /\ s.status = st /\ s.side = o.side /\ s.price = o.price
      /\ s.initial = o.lots /\ s.remaining = rest /\ s.filled = filled
  BY <1>2, <1>3, <1>4, <1>5, <1>6 DEF Replay!ReplayState, ReplayStates
<1>9. ~working /\ n <= o.lots - left =>
        st = IF left = 0 THEN "FILLED"
             ELSE IF o.lots - left > 0 THEN "PARTIALLY_FILLED" ELSE "CANCELED"
  BY <1>2, <1>3, <1>4
<1>10. QED BY <1>3, <1>4, <1>5, <1>7, <1>8, <1>9

\* What submit_order puts into the history in the end.
FinalState(o, left, resting) ==
    LET filled == o.lots - left
    IN  State(o.side, o.price, o.lots, IF resting THEN left ELSE 0, filled,
              IF left = 0 THEN "FILLED" ELSE IF filled > 0 THEN "PARTIALLY_FILLED"
              ELSE IF resting THEN "RESTING" ELSE "CANCELED")

LEMMA FinalFields ==
    ASSUME NEW o \in Requests, NEW left \in 0 .. MaxLots, left <= o.lots, NEW resting \in BOOLEAN
    PROVE  LET s == FinalState(o, left, resting)
           IN  /\ s \in OrderStates
               /\ s.side = o.side /\ s.price = o.price /\ s.initial = o.lots
               /\ s.remaining = (IF resting THEN left ELSE 0) /\ s.filled = o.lots - left
               /\ s.status = IF left = 0 THEN "FILLED"
                             ELSE IF o.lots - left > 0 THEN "PARTIALLY_FILLED"
                             ELSE IF resting THEN "RESTING" ELSE "CANCELED"
<1>1. /\ o.side \in Book!Sides /\ o.price \in Prices /\ o.lots \in Book!Lots
      /\ o.lots \in 1 .. MaxLots /\ MaxLots \in Nat
  BY RequestFacts, Quantities
<1>2. PICK filled \in 0 .. MaxLots : filled = o.lots - left
  BY <1>1
<1>3. PICK rest \in 0 .. MaxLots : rest = IF resting THEN left ELSE 0
  BY <1>1
<1>4. PICK st \in {"RESTING", "PARTIALLY_FILLED", "FILLED", "CANCELED"} :
        st = IF left = 0 THEN "FILLED" ELSE IF filled > 0 THEN "PARTIALLY_FILLED"
             ELSE IF resting THEN "RESTING" ELSE "CANCELED"
  OBVIOUS
<1>5. PICK s : s = State(o.side, o.price, o.lots, rest, filled, st)
  OBVIOUS
<1>6. s = FinalState(o, left, resting)
  BY <1>2, <1>3, <1>4, <1>5 DEF FinalState
<1>7. s \in OrderStates /\ s.side = o.side /\ s.price = o.price /\ s.initial = o.lots
      /\ s.remaining = rest /\ s.filled = filled /\ s.status = st
  BY <1>1, <1>5 DEF State, OrderStates
<1>8. QED BY <1>2, <1>3, <1>4, <1>6, <1>7

\* The line of an order that was matched: its trades have been seen.
LEMMA SubmitFinishReplay ==
    ASSUME ReplayInv, ManagerInv', SubmitFinish, Journaled
    PROVE  ReplayInv'
<1>1. PICK o : o = call.order
  OBVIOUS
<1>2. PICK left : left = call.remaining
  OBVIOUS
<1>3. PICK resting \in BOOLEAN : resting = (Rests(o) /\ left > 0 /\ o.id \in Book!Live(book))
  OBVIOUS
<1>4. PICK s : s = FinalState(o, left, resting)
  OBVIOUS
<1>5. /\ Taking /\ call' = Idle
      /\ active' = [active EXCEPT ![o.id] = IF resting THEN s ELSE @]
      /\ history' = Upserted(history, active', o.id, s)
      /\ event' = Event("ACCEPTED", o.id, o.id, o.side, o.price, o.lots, s.remaining, resting)
  BY <1>1, <1>2, <1>3, <1>4 DEF SubmitFinish, Taking, FinalState
<1>6. /\ o \in Requests /\ o.id \in OwnIds /\ o.id \in OrderIds
      /\ o.side \in Book!Sides /\ o.price \in Prices /\ o.lots \in Book!Lots
      /\ left \in 0 .. MaxLots /\ left <= o.lots /\ active[o.id] = NoState
      /\ SoundHistory(history)
  BY <1>1, <1>2, <1>5, TakingFacts DEF ReplayInv, ManagerInv, StateOK
<1>7. /\ s \in OrderStates
      /\ s.side = o.side /\ s.price = o.price /\ s.initial = o.lots
      /\ s.remaining = (IF resting THEN left ELSE 0) /\ s.filled = o.lots - left
      /\ s.status = IF left = 0 THEN "FILLED"
                    ELSE IF o.lots - left > 0 THEN "PARTIALLY_FILLED"
                    ELSE IF resting THEN "RESTING" ELSE "CANCELED"
  BY <1>4, <1>6, FinalFields
<1>8. PICK id \in OwnIds : id = o.id /\ id \in OrderIds
  BY <1>6
<1>9. replay \in Replays /\ replay.seen[id] \in Nat
  BY <1>8 DEF ReplayInv, Replays
<1>10. o.lots - left <= replay.seen[id]
  BY <1>1, <1>2, <1>5, <1>8 DEF ReplayInv, TakerSeen
<1>11. PICK r : r = AcceptedState(o, left, resting, replay.seen[id])
  OBVIOUS
<1>12. /\ r \in ReplayStates /\ r.status # "REJECTED"
       /\ r.side = o.side /\ r.price = o.price /\ r.initial = o.lots
       /\ r.remaining = (IF resting THEN left ELSE 0)
       /\ r.filled >= o.lots - left
       /\ (replay.seen[id] <= o.lots - left => r.filled = o.lots - left)
       /\ (~resting /\ replay.seen[id] <= o.lots - left =>
             r.status = IF left = 0 THEN "FILLED"
                        ELSE IF o.lots - left > 0 THEN "PARTIALLY_FILLED" ELSE "CANCELED")
  BY <1>6, <1>9, <1>10, <1>11, AcceptedFields
<1>13. s.remaining \in 0 .. MaxLots /\ (resting => s.remaining = left /\ left > 0)
  <2>1. resting => left > 0
    BY <1>3
  <2>2. QED BY <1>7, <2>1 DEF OrderStates
<1>14. PICK e : e = event'
  OBVIOUS
<1>15. /\ e.type = "ACCEPTED" /\ e.id = id /\ e.side = o.side /\ e.price = o.price
       /\ e.lots = o.lots /\ e.remaining = s.remaining /\ e.resting = resting
  BY <1>5, <1>8, <1>14 DEF Event
<1>16. replay' = Replay!Accepted(replay, e)
  <2>1. event' # NoEvent
    BY <1>5, <1>6, <1>13, EventIsOne DEF EventTypes
  <2>2. replay' = Replay!Applied(replay, e)
    BY <1>14, <2>1 DEF Journaled
  <2>3. QED BY <1>15, <2>2 DEF Replay!Applied
<1>17. PICK a : a = IF resting THEN r ELSE NoState
  OBVIOUS
<1>18. replay' = Stored(replay, id, a, r)
  <2>1. CASE resting
    <3>1. e.resting /\ e.remaining > 0 /\ e.remaining = left
      BY <1>13, <1>15, <2>1
    <3>2. r = Replay!ReplayState(e.side, e.price, e.lots, e.remaining,
                                 Replay!Least(e.lots, replay.seen[e.id]),
                                 Replay!WorkingStatus(Replay!Least(e.lots, replay.seen[e.id])))
      BY <1>11, <1>15, <2>1, <3>1 DEF AcceptedState
    <3>3. replay' = [replay EXCEPT !.active[e.id] = r, !.history[e.id] = r]
      BY <1>16, <3>1, <3>2 DEF Replay!Accepted, Replay!Put
    <3>4. QED BY <1>15, <1>17, <2>1, <3>3 DEF Stored
  <2>2. CASE ~resting
    <3>1. ~(e.resting /\ e.remaining > 0)
      BY <1>15, <2>2
    <3>2. r = Replay!ReplayState(e.side, e.price, e.lots, 0,
                                 Replay!Least(e.lots, replay.seen[e.id]),
                                 IF Replay!Least(e.lots, replay.seen[e.id]) = e.lots THEN "FILLED"
                                 ELSE IF Replay!Least(e.lots, replay.seen[e.id]) > 0
                                 THEN "PARTIALLY_FILLED" ELSE "CANCELED")
      BY <1>11, <1>15, <2>2 DEF AcceptedState
    <3>3. replay' = [replay EXCEPT !.active[e.id] = NoState, !.history[e.id] = r]
      BY <1>16, <3>1, <3>2 DEF Replay!Accepted, Replay!Put
    <3>4. QED BY <1>15, <1>17, <2>2, <3>3 DEF Stored
  <2>3. QED BY <2>1, <2>2
<1>19. active'[id] = IF resting THEN s ELSE NoState
  BY <1>5, <1>6, <1>8 DEF ReplayInv, ManagerInv, StateOK
<1>20. \A x \in OrderIds \ {id} : active'[x] = active[x]
  BY <1>5, <1>8
<1>21. /\ history'.states[id] \in {s, NoState}
       /\ \A x \in OrderIds \ {id} :
            history'.states[x] = history.states[x] \/ history'.states[x] = NoState
  <2>1. PICK act : act = active'
    OBVIOUS
  <2>2. history' = Upserted(history, act, id, s)
    BY <1>5, <1>8, <2>1
  <2>3. QED BY <1>6, <1>8, <2>2, UpsertedOnly
<1>22. r # NoState
  BY <1>12, ReplayAssumption
<1>23. Rebuilt(active'[id], a, r, replay.seen[id])
  <2>1. CASE resting
    <3>1. s.filled = o.lots - left /\ s # NoState
      BY <1>7, OrderManagerAssumption
    <3>2. QED BY <1>7, <3>1, <1>12, <1>17, <1>19, <1>22, <2>1 DEF Rebuilt
  <2>2. CASE ~resting
    BY <1>17, <1>19, <2>2 DEF Rebuilt
  <2>3. QED BY <2>1, <2>2
<1>24. active'[id] = NoState => Ended(history'.states[id], r, replay.seen[id])
  <2>1. CASE history'.states[id] = NoState
    BY <2>1 DEF Ended
  <2>2. CASE resting
    <3>1. active'[id] \in OrderStates \cup {NoState} /\ active'[id] = s
      BY <1>8, <1>19, <2>2 DEF ManagerInv, StateOK
    <3>2. active'[id] = NoState => history'.states[id] = NoState
      BY <1>21, <3>1
    <3>3. QED BY <3>2, <2>1
  <2>3. CASE ~resting /\ history'.states[id] = s
    <3>1. replay.seen[id] > s.filled \/ r.status = s.status
      BY <1>7, <1>6, <1>9, <1>12, <2>3, Quantities
    <3>2. QED BY <1>22, <2>3, <3>1 DEF Ended
  <2>4. QED BY <1>21, <2>1, <2>2, <2>3
<1>25. a \in ReplayStates \/ a = NoState
  BY <1>12, <1>17
<1>26. QED BY <1>5, <1>12, <1>18, <1>20, <1>21, <1>23, <1>24, <1>25, StoredLine

\* The line of a trade: the taker is not active yet, its lots are remembered; the
\* maker is filled, if it is an order of the manager that is not struck.
LEMMA SettleTradeReplay ==
    ASSUME ReplayInv, ManagerInv', SettleTrade, Journaled
    PROVE  ReplayInv'
<1>1. PICK o : o = call.order
  OBVIOUS
<1>2. PICK m : m = Maker
  OBVIOUS
<1>3. PICK n : n = Settled.lots
  OBVIOUS
<1>4. PICK s : s = active[m]
  OBVIOUS
<1>5. ManagerInv /\ replay \in Replays /\ SoundHistory(history)
  BY DEF ReplayInv, ManagerInv, StateOK
<1>6. /\ Taking /\ call.trades \in Seq(Book!Trades) /\ call.trades # <<>>
      /\ Settled.price \in Prices /\ n \in Book!Lots /\ n <= call.remaining
      /\ m \in OrderIds /\ m # o.id
      /\ s = NoState => m \notin OwnIds
      /\ s # NoState => /\ m \in OwnIds /\ s \in OrderStates /\ n <= s.remaining
                        /\ s.filled = s.initial - s.remaining
  BY <1>1, <1>2, <1>3, <1>4, <1>5, SettleFacts
<1>7. /\ o.id \in OwnIds /\ o.id \in OrderIds /\ o.side \in Book!Sides
      /\ o.lots \in Book!Lots /\ call.remaining \in 0 .. MaxLots
      /\ active[o.id] = NoState
  BY <1>1, <1>5, <1>6, TakingFacts
<1>8. PICK f : f = Filled
  OBVIOUS
<1>9. /\ call' # Idle /\ call'.op = "settle" /\ call'.order = o
      /\ call'.remaining = call.remaining - n
      /\ \A x \in OrderIds \ {m} : active'[x] = active[x]
      /\ s = NoState => active'[m] = NoState
      /\ s # NoState =>
           /\ active'[m] = IF f.remaining = 0 THEN NoState ELSE f
           /\ history'.states[m] = f
  BY <1>1, <1>2, <1>3, <1>4, <1>5, <1>8, SettleEffects DEF Left
<1>10. \A x \in OrderIds \ {m} :
         history'.states[x] = history.states[x] \/ history'.states[x] = NoState
  <2>1. /\ s = NoState => history' = history
        /\ s # NoState => \E g : history' = Upserted(history, active, m, g)
    BY <1>2, <1>4, <1>6, HeadAndTail DEF SettleTrade, Settled, Maker
  <2>2. QED BY <1>5, <1>6, <2>1, UpsertedOnly
<1>11. PICK e : e = event'
  OBVIOUS
<1>12. e.type = "TRADE" /\ e.id = o.id /\ e.related = m /\ e.lots = n /\ event' # NoEvent
  <2>1. e = Event("TRADE", o.id, m, o.side, Settled.price, n, 0, FALSE)
    BY <1>1, <1>2, <1>3, <1>6, <1>11, HeadAndTail DEF SettleTrade, Settled, Maker
  <2>2. e # NoEvent
    <3>1. 0 \in 0 .. MaxLots /\ FALSE \in BOOLEAN /\ "TRADE" \in EventTypes
      BY Quantities DEF EventTypes
    <3>2. QED BY <1>6, <1>7, <2>1, <3>1, EventIsOne
  <2>3. QED BY <1>11, <2>1, <2>2 DEF Event
<1>13. PICK r : r = Replay!FillApplied(replay, o.id, n)
  OBVIOUS
<1>14. replay' = Replay!FillApplied(r, m, n)
  <2>1. replay' = Replay!Applied(replay, e)
    BY <1>11, <1>12 DEF Journaled
  <2>2. replay' = Replay!Traded(replay, e)
    BY <1>12, <2>1 DEF Replay!Applied
  <2>3. QED BY <1>12, <1>13, <2>2 DEF Replay!Traded
<1>15. n \in Nat /\ n > 0
  BY <1>6, Quantities
<1>16. replay.active[o.id] = NoState
  BY <1>7 DEF ReplayInv, FoundFine, Rebuilt
<1>17. /\ r \in Replays /\ OnlyAt(o.id, replay, r) /\ r.active[o.id] = NoState
       /\ r.history[o.id] = replay.history[o.id] /\ r.seen[o.id] = replay.seen[o.id] + n
  BY <1>5, <1>7, <1>13, <1>15, <1>16, FillEffect
<1>18. PICK a : a = replay.active[m]
  OBVIOUS
<1>19. /\ replay' \in Replays /\ OnlyAt(m, r, replay') /\ replay'.seen[m] = r.seen[m] + n
       /\ r.active[m] = a /\ r.history[m] = replay.history[m] /\ r.seen[m] = replay.seen[m]
       /\ a = NoState =>
            replay'.active[m] = NoState /\ replay'.history[m] = replay.history[m]
       /\ a # NoState =>
            /\ a \in ReplayStates
            /\ replay'.active[m] = IF ReplayFilled(a, n).remaining > 0
                                   THEN ReplayFilled(a, n) ELSE NoState
            /\ replay'.history[m] = ReplayFilled(a, n)
  <2>1. r.active[m] = a /\ r.history[m] = replay.history[m] /\ r.seen[m] = replay.seen[m]
    BY <1>6, <1>17, <1>18 DEF OnlyAt
  <2>2. PICK after : after = replay'
    OBVIOUS
  <2>3. after = Replay!FillApplied(r, m, n)
    BY <1>14, <2>2
  <2>4. /\ after \in Replays /\ OnlyAt(m, r, after) /\ after.seen[m] = r.seen[m] + n
        /\ a = NoState => after.active[m] = NoState /\ after.history[m] = r.history[m]
        /\ a # NoState =>
             /\ a \in ReplayStates
             /\ after.active[m] = IF ReplayFilled(a, n).remaining > 0
                                  THEN ReplayFilled(a, n) ELSE NoState
             /\ after.history[m] = ReplayFilled(a, n)
    BY <1>6, <1>15, <1>17, <2>1, <2>3, FillEffect
  <2>5. QED BY <2>1, <2>2, <2>4
\* The taker.
<1>20. /\ replay'.active[o.id] = NoState /\ replay'.history[o.id] = replay.history[o.id]
       /\ replay'.seen[o.id] = replay.seen[o.id] + n
  BY <1>6, <1>7, <1>17, <1>19 DEF OnlyAt
<1>21. active'[o.id] = NoState /\ history'.states[o.id] = NoState
  <2>1. history.states[o.id] = NoState
    BY <1>1, <1>6 DEF ReplayInv, TakerSeen
  <2>2. QED BY <1>6, <1>7, <1>9, <1>10, <2>1
<1>22. FoundFine(o.id)' /\ EndFine(o.id)'
  <2>1. PICK id : id = o.id
    OBVIOUS
  <2>2. o' = o
    OBVIOUS
  <2>3. FoundFine(id)' /\ EndFine(id)'
    BY <1>20, <1>21, <2>1 DEF FoundFine, EndFine, Rebuilt, Ended
  <2>4. QED BY <2>1, <2>3
<1>23. TakerSeen'
  <2>1. replay.seen[o.id] \in Nat /\ o.lots \in Nat /\ call.remaining \in Nat
    BY <1>5, <1>7, Quantities DEF Replays
  <2>2. o.lots - call.remaining <= replay.seen[o.id]
    BY <1>1, <1>6 DEF ReplayInv, TakerSeen
  <2>3. o.lots - (call.remaining - n) <= replay.seen[o.id] + n
    BY <1>15, <2>1, <2>2
  <2>4. QED BY <1>9, <1>20, <1>21, <2>3 DEF TakerSeen
\* The maker.
<1>24. FoundFine(m)' /\ (m \in OwnIds => EndFine(m)')
  <2>1. Rebuilt(s, a, replay.history[m], replay.seen[m])
    BY <1>4, <1>6, <1>18 DEF ReplayInv, FoundFine
  <2>2. CASE s = NoState
    <3>1. a = NoState
      BY <2>1, <2>2 DEF Rebuilt
    <3>2. QED BY <1>6, <1>9, <1>19, <2>2, <3>1 DEF FoundFine, Rebuilt
  <2>3. CASE s # NoState
    <3>1. f = FilledBy(s, n)
      BY <1>2, <1>3, <1>4, <1>8 DEF Filled
    <3>2. /\ f \in OrderStates
          /\ f.side = s.side /\ f.price = s.price /\ f.initial = s.initial
          /\ f.remaining = s.remaining - n /\ f.filled = s.filled + n
          /\ f.remaining \in Nat /\ s.remaining \in Nat /\ s.filled \in Nat
      <4>1. s.remaining \in 0 .. MaxLots /\ s.filled \in 0 .. MaxLots
        BY <1>6, <2>3 DEF OrderStates
      <4>2. QED BY <1>6, <2>3, <3>1, <4>1, FilledByType, Quantities
    <3>3. f.remaining = 0 => f.status = "FILLED"
      <4>1. PICK left : left = s.remaining - n
        OBVIOUS
      <4>2. f.remaining = 0 => left = 0
        BY <3>2, <4>1
      <4>3. f = [s EXCEPT !.filled = s.filled + n, !.remaining = left,
                          !.status = IF left = 0 THEN "FILLED" ELSE "PARTIALLY_FILLED"]
        BY <1>6, <2>3, <3>1, <3>2, <4>1 DEF FilledBy
      <4>4. QED BY <1>6, <2>3, <4>2, <4>3 DEF OrderStates
    <3>4. f # NoState /\ replay.seen[m] \in Nat
      BY <1>5, <1>6, <3>2, OrderManagerAssumption DEF Replays
    <3>5. CASE a = NoState
      <4>1. replay.history[m] # NoState /\ replay.history[m].status = "REJECTED"
        BY <2>1, <2>3, <3>5 DEF Rebuilt
      <4>2. QED BY <1>9, <1>19, <2>3, <3>5, <4>1 DEF FoundFine, EndFine, Rebuilt, Ended
    <3>6. CASE a # NoState
      <4>1. PICK g : g = ReplayFilled(a, n)
        OBVIOUS
      <4>2. /\ a.side = s.side /\ a.price = s.price /\ a.initial = s.initial
            /\ a.remaining = s.remaining /\ a.filled >= s.filled
            /\ (replay.seen[m] <= s.filled => a.filled = s.filled)
            /\ a \in ReplayStates /\ a.filled \in Nat
        BY <1>19, <2>1, <2>3, <3>6 DEF Rebuilt, ReplayStates
      <4>3. PICK k : k = Replay!Least(n, a.remaining)
        OBVIOUS
      <4>4. /\ g \in ReplayStates /\ g.side = a.side /\ g.price = a.price
            /\ g.initial = a.initial
            /\ g.filled = a.filled + k /\ g.remaining = a.remaining - k
            /\ g.status \in {"FILLED", "PARTIALLY_FILLED"}
            /\ (g.remaining = 0 => g.status = "FILLED")
            /\ (n <= a.remaining => k = n)
        <5>1. a \in ReplayStates /\ n \in Nat
          BY <1>15, <4>2
        <5>2. /\ n <= a.remaining => Replay!Least(n, a.remaining) = n
              /\ ReplayFilled(a, n) \in ReplayStates
              /\ ReplayFilled(a, n).side = a.side /\ ReplayFilled(a, n).price = a.price
              /\ ReplayFilled(a, n).initial = a.initial
          BY <5>1, FilledFields
        <5>3. /\ ReplayFilled(a, n).filled = a.filled + k
              /\ ReplayFilled(a, n).remaining = a.remaining - k
          BY <4>3, <5>1, FilledFields
        <5>4. /\ ReplayFilled(a, n).status \in {"FILLED", "PARTIALLY_FILLED"}
              /\ ReplayFilled(a, n).remaining = 0 => ReplayFilled(a, n).status = "FILLED"
          BY <5>1, FilledFields
        <5>5. QED BY <4>1, <4>3, <5>2, <5>3, <5>4
      <4>5. k = n
        BY <1>6, <2>3, <4>2, <4>4
      <4>6. /\ g.remaining = f.remaining /\ g.filled >= f.filled
            /\ (replay.seen[m] + n <= f.filled => g.filled = f.filled)
        BY <1>15, <3>2, <3>4, <4>2, <4>4, <4>5
      <4>7. g # NoState /\ g.status # "REJECTED"
        BY <4>4, ReplayAssumption
      <4>8. /\ replay'.history[m] = g /\ replay'.seen[m] = replay.seen[m] + n
            /\ replay'.active[m] = IF f.remaining = 0 THEN NoState ELSE g
        BY <1>19, <3>2, <3>6, <4>1, <4>6
      <4>9. CASE f.remaining = 0
        <5>1. g.status = "FILLED" /\ f.status = "FILLED"
          BY <3>3, <4>4, <4>6, <4>9
        <5>2. QED BY <1>9, <2>3, <4>7, <4>8, <4>9, <5>1 DEF FoundFine, EndFine, Rebuilt, Ended
      <4>10. CASE f.remaining # 0
        <5>1. active'[m] = f /\ replay'.active[m] = g
          BY <1>9, <2>3, <4>8, <4>10
        <5>2. Rebuilt(f, g, g, replay.seen[m] + n)
          BY <3>2, <3>4, <4>2, <4>4, <4>6, <4>7 DEF Rebuilt
        <5>3. QED BY <3>4, <4>8, <5>1, <5>2 DEF FoundFine, EndFine
      <4>11. QED BY <4>9, <4>10
    <3>7. QED BY <3>5, <3>6
  <2>4. QED BY <2>2, <2>3
\* The other orders.
<1>25. ASSUME NEW x \in OrderIds \ {m, o.id} PROVE FoundFine(x)' /\ (x \in OwnIds => EndFine(x)')
  <2>1. /\ replay'.active[x] = replay.active[x] /\ replay'.history[x] = replay.history[x]
        /\ replay'.seen[x] = replay.seen[x] /\ active'[x] = active[x]
    BY <1>9, <1>17, <1>19 DEF OnlyAt
  <2>2. FoundFine(x)'
    BY <2>1 DEF ReplayInv, FoundFine
  <2>3. x \in OwnIds => EndFine(x)'
    BY <1>10, <2>1 DEF ReplayInv, EndFine, Ended
  <2>4. QED BY <2>2, <2>3
<1>26. \A x \in OrderIds : FoundFine(x)' /\ (x \in OwnIds => EndFine(x)')
  BY <1>22, <1>24, <1>25
<1>27. (\A x \in OrderIds : FoundFine(x))' /\ (\A x \in OwnIds : EndFine(x))'
  BY <1>26 DEF OwnIds
<1>28. QED BY <1>19, <1>23, <1>27 DEF ReplayInv

LEMMA SubmitReplay ==
    ASSUME ReplayInv, ManagerInv', Journaled, NEW o \in Requests,
           SubmitDuplicate(o) \/ SubmitRejected(o) \/ SubmitAccepted(o)
    PROVE  ReplayInv'
<1>1. o.id \in OrderIds /\ SoundHistory(history)
  BY RequestFacts DEF ReplayInv, ManagerInv, StateOK
<1>2. CASE SubmitDuplicate(o)
  <2>1. /\ call = Idle /\ call' = call /\ active' = active /\ history' = history
        /\ event' = Event("REJECTED", o.id, o.id, o.side, o.price, o.lots, o.lots, FALSE)
    BY <1>2 DEF SubmitDuplicate, CallsLeft
  <2>2. QED BY <2>1, RejectedRebuilt
<1>3. CASE SubmitRejected(o)
  <2>1. /\ call = Idle /\ call' = call /\ active' = active
        /\ \E s : history' = Upserted(history, active, o.id, s)
        /\ event' = Event("REJECTED", o.id, o.id, o.side, o.price, o.lots, o.lots, FALSE)
    BY <1>3 DEF SubmitRejected, CallsLeft
  <2>2. \A x \in OrderIds \ {o.id} : history'.states[x] \in {history.states[x], NoState}
    BY <1>1, <2>1, UpsertedOnly
  <2>3. QED BY <2>1, <2>2, RejectedRebuilt
<1>4. CASE SubmitAccepted(o)
  <2>1. /\ event' = NoEvent /\ active' = active /\ history' = history /\ ~Known(o.id)
        /\ call' = [op |-> "match", order |-> o, remaining |-> o.lots, trades |-> <<>>]
    BY <1>4 DEF SubmitAccepted
  <2>2. replay' = replay
    BY <2>1 DEF Journaled
  <2>3. TakerSeen'
    <3>1. call'.order = o /\ call'.remaining = o.lots
      BY <2>1
    <3>2. history'.states[o.id] = NoState
      BY <2>1 DEF Known
    <3>3. replay.seen[o.id] \in Nat /\ o.lots \in Nat
      BY <1>1, RequestFacts, Quantities DEF ReplayInv, Replays
    <3>4. o.lots - o.lots <= replay'.seen[o.id]
      BY <2>2, <3>3
    <3>5. QED BY <3>1, <3>2, <3>4 DEF TakerSeen
  <2>4. QED BY <2>1, <2>2, <2>3, NoLine
<1>5. QED BY <1>2, <1>3, <1>4

\* Steps that write no line.
LEMMA SilentReplay ==
    ASSUME ReplayInv, ManagerInv', replay' = replay, active' = active, history' = history,
           \/ call' = call \/ call' = Idle
           \/ call'.op = "restore"
           \/ MatchEnd
    PROVE  ReplayInv'
<1>1. TakerSeen'
  <2>1. CASE call' = call
    BY <2>1 DEF ReplayInv, TakerSeen, Taking
  <2>2. CASE call' = Idle \/ call'.op = "restore"
    BY <2>2 DEF TakerSeen, Taking
  <2>3. CASE MatchEnd
    <3>1. /\ Taking /\ call \in [op : {"match", "settle"}, order : Requests,
                                 remaining : 0 .. MaxLots, trades : Seq(Book!Trades)]
      <4>1. Taking
        BY <2>3 DEF MatchEnd, Taking
      <4>2. QED BY <4>1, TakingFacts DEF ReplayInv
    <3>2. call' = [call EXCEPT !.op = "settle", !.trades = taker.trades]
      BY <2>3 DEF MatchEnd
    <3>3. call'.order = call.order /\ call'.remaining = call.remaining
      BY <3>1, <3>2
    <3>4. QED BY <3>1, <3>3 DEF ReplayInv, TakerSeen
  <2>4. QED BY <2>1, <2>2, <2>3
<1>2. QED BY <1>1, NoLine

LEMMA CancelReplay ==
    ASSUME ReplayInv, ManagerInv', Journaled, NEW id \in OwnIds, Cancel(id)
    PROVE  ReplayInv'
<1>1. /\ call' = Idle /\ active' = [active EXCEPT ![id] = NoState] /\ active[id] # NoState
      /\ history' = Upserted(history, active', id, CanceledState(active[id]))
      /\ event' = StateEvent("CANCELED", id, CanceledState(active[id]))
  BY DEF Cancel, CallsLeft
<1>2. active \in [OrderIds -> OrderStates \cup {NoState}] /\ id \in OrderIds
  BY DEF ReplayInv, ManagerInv, StateOK, OwnIds
<1>3. active[id] \in OrderStates /\ active'[id] = NoState
  BY <1>1, <1>2
<1>4. \A x \in OrderIds \ {id} : active'[x] = active[x]
  BY <1>1
<1>5. QED BY <1>1, <1>3, <1>4, CanceledRebuilt

LEMMA CancelPartialReplay ==
    ASSUME ReplayInv, ManagerInv', Journaled, NEW id \in OwnIds, NEW n \in Book!Lots,
           CancelPartial(id, n)
    PROVE  ReplayInv'
<1>1. PICK s : s = active[id]
  OBVIOUS
<1>2. PICK left : left = IF book'.orders[id] = NoOrder THEN 0 ELSE book'.orders[id].lots
  OBVIOUS
<1>3. PICK st \in {"PARTIALLY_FILLED", "RESTING"} :
        st = IF s.initial > left THEN "PARTIALLY_FILLED" ELSE "RESTING"
  OBVIOUS
<1>4. PICK cut : cut = [s EXCEPT !.remaining = left, !.filled = s.initial - left, !.status = st]
  OBVIOUS
<1>5. /\ call' = Idle /\ s # NoState
      /\ active' = [active EXCEPT ![id] = IF left = 0 THEN NoState ELSE cut]
      /\ history' = Upserted(history, active', id, IF left = 0 THEN CanceledState(s) ELSE cut)
      /\ event' = StateEvent(IF left = 0 THEN "CANCELED" ELSE "REPLACED", id,
                             IF left = 0 THEN CanceledState(s) ELSE cut)
  BY <1>1, <1>2, <1>3, <1>4 DEF CancelPartial, CallsLeft
<1>6. /\ active \in [OrderIds -> OrderStates \cup {NoState}] /\ id \in OrderIds
      /\ active' \in [OrderIds -> OrderStates \cup {NoState}]
      /\ book'.orders \in [OrderIds -> Book!Orders \cup {NoOrder}]
  BY DEF ReplayInv, ManagerInv, StateOK, OwnIds, SoundBook, Books
<1>7. s \in OrderStates /\ (\A x \in OrderIds \ {id} : active'[x] = active[x])
  BY <1>1, <1>5, <1>6
<1>8. left = 0 \/ left \in Book!Lots
  BY <1>2, <1>6 DEF Book!Orders
<1>9. CASE left = 0
  <2>1. active'[id] = NoState
    BY <1>5, <1>6, <1>9
  <2>2. QED BY <1>1, <1>5, <1>7, <1>9, <2>1, CanceledRebuilt
<1>10. CASE left # 0
  <2>1. active'[id] = cut
    BY <1>5, <1>6, <1>10
  <2>2. /\ cut.remaining = left /\ cut.filled = s.initial - left /\ cut.initial = s.initial
        /\ cut # NoState
    <3>1. /\ cut.remaining = left /\ cut.filled = s.initial - left /\ cut.initial = s.initial
      BY <1>4, <1>7 DEF OrderStates
    <3>2. ActiveFine(id)
      BY <1>6 DEF ReplayInv, ManagerInv, OrdersOK
    <3>3. book'.orders[id] # NoOrder
      BY <1>2, <1>10
    <3>4. BookFine(id)'
      <4>1. ~Taking' /\ ~Restoring'
        BY <1>5 DEF Taking, Restoring
      <4>2. QED BY <4>1 DEF ManagerInv, OrdersOK, Untouched
    <3>5. active'[id] # NoState
      BY <3>3, <3>4 DEF BookFine
    <3>6. QED BY <2>1, <3>1, <3>5
  <2>3. cut \in OrderStates
    BY <1>6, <2>1, <2>2
  <2>4. cut.remaining \in Book!Lots /\ cut.filled = cut.initial - cut.remaining
    BY <1>8, <1>10, <2>2
  <2>5. history' = Upserted(history, active', id, cut) /\ event' = StateEvent("REPLACED", id, cut)
    BY <1>5, <1>10
  <2>6. QED BY <1>5, <1>7, <2>1, <2>3, <2>4, <2>5, ReplacedRebuilt
<1>11. QED BY <1>9, <1>10

LEMMA ModifyAcceptedReplay ==
    ASSUME ReplayInv, ManagerInv', Journaled, NEW id \in OwnIds, NEW price \in Prices,
           NEW lots \in Book!Lots, ModifyAccepted(id, price, lots)
    PROVE  ReplayInv'
<1>1. PICK s : s = State(active[id].side, price, lots, lots, 0, "RESTING")
  OBVIOUS
<1>2. /\ call' = Idle /\ active[id] # NoState /\ active' = [active EXCEPT ![id] = s]
      /\ history' = Upserted(history, active', id, s)
      /\ event' = StateEvent("REPLACED", id, s)
  BY <1>1 DEF ModifyAccepted, CallsLeft, RiskOrder
<1>3. active \in [OrderIds -> OrderStates \cup {NoState}] /\ id \in OrderIds
  BY DEF ReplayInv, ManagerInv, StateOK, OwnIds
<1>4. active[id].side \in Book!Sides
  BY <1>2, <1>3 DEF OrderStates
<1>5. lots \in 0 .. MaxLots /\ 0 \in 0 .. MaxLots /\ lots - lots = 0
  BY Quantities
<1>6. /\ s \in OrderStates /\ s.remaining = lots /\ s.initial = lots /\ s.filled = 0
  BY <1>1, <1>4, <1>5 DEF State, OrderStates
<1>7. s.remaining \in Book!Lots /\ s.filled = s.initial - s.remaining
  BY <1>5, <1>6
<1>8. active'[id] = s /\ (\A x \in OrderIds \ {id} : active'[x] = active[x])
  BY <1>2, <1>3
<1>9. QED BY <1>2, <1>6, <1>7, <1>8, ReplacedRebuilt

LEMMA InitReplayInv == ReplayInit => ReplayInv
<1> SUFFICES ASSUME ReplayInit PROVE ReplayInv
  OBVIOUS
<1>1. ManagerInv
  BY InitManagerInv DEF ReplayInit
<1>2. /\ active = [id \in OrderIds |-> NoState] /\ call = Idle
      /\ history.states = [id \in OrderIds |-> NoState]
  BY DEF ReplayInit, Init
<1>3. replay = [active |-> [id \in OrderIds |-> NoState],
                history |-> [id \in OrderIds |-> NoState],
                seen |-> [id \in OrderIds |-> 0]]
  BY DEF ReplayInit, Replay!EmptyReplay
<1>4. replay \in Replays
  BY <1>3 DEF Replays
<1>5. \A id \in OrderIds : FoundFine(id)
  BY <1>2, <1>3 DEF FoundFine, Rebuilt
<1>6. \A id \in OwnIds : EndFine(id)
  BY <1>2 DEF EndFine, Ended, OwnIds
<1>7. TakerSeen
  BY <1>2 DEF TakerSeen, Taking
<1>8. QED BY <1>1, <1>4, <1>5, <1>6, <1>7 DEF ReplayInv

LEMMA NextReplayInv == ReplayInv /\ [ReplayNext]_replayVars => ReplayInv'
<1> SUFFICES ASSUME ReplayInv, [ReplayNext]_replayVars PROVE ReplayInv'
  OBVIOUS
<1>1. ManagerInv'
  <2>1. [Next]_vars
    BY DEF ReplayNext, replayVars
  <2>2. QED BY <2>1, NextManagerInv DEF ReplayInv
<1>2. CASE UNCHANGED replayVars
  <2>1. UNCHANGED <<active, history, call, replay>>
    BY <1>2 DEF replayVars, vars
  <2>2. QED BY <1>1, <2>1, SilentReplay
<1>3. CASE Next /\ Journaled
  <2>1. ASSUME NEW o \in Requests, SubmitDuplicate(o) \/ SubmitRejected(o) \/ SubmitAccepted(o)
        PROVE  ReplayInv'
    BY <1>1, <1>3, <2>1, SubmitReplay
  <2>2. CASE CallStep
    <3>1. CASE MatchTrade \/ MatchEnd \/ ModifyRestore
      <4>1. /\ event' = NoEvent /\ active' = active /\ history' = history
            /\ call' = call \/ call' = Idle \/ MatchEnd
        BY <3>1 DEF MatchTrade, MatchEnd, ModifyRestore
      <4>2. replay' = replay
        BY <1>3, <4>1 DEF Journaled
      <4>3. QED BY <1>1, <4>1, <4>2, SilentReplay
    <3>2. CASE SettleTrade
      BY <1>1, <1>3, <3>2, SettleTradeReplay
    <3>3. CASE SubmitFinish
      BY <1>1, <1>3, <3>3, SubmitFinishReplay
    <3>4. QED BY <2>2, <3>1, <3>2, <3>3 DEF CallStep
  <2>3. ASSUME NEW id \in OwnIds, Cancel(id) PROVE ReplayInv'
    BY <1>1, <1>3, <2>3, CancelReplay
  <2>4. ASSUME NEW id \in OwnIds, NEW n \in Book!Lots, CancelPartial(id, n) PROVE ReplayInv'
    BY <1>1, <1>3, <2>4, CancelPartialReplay
  <2>5. ASSUME NEW id \in OwnIds, NEW price \in Prices, NEW lots \in Book!Lots,
               ModifyUnfit(id, price, lots) \/ ModifyRefused(id, price, lots)
        PROVE  ReplayInv'
    <3>1. /\ event' = NoEvent /\ active' = active /\ history' = history
          /\ call' = call \/ call'.op = "restore"
      BY <2>5 DEF ModifyUnfit, ModifyRefused
    <3>2. replay' = replay
      BY <1>3, <3>1 DEF Journaled
    <3>3. QED BY <1>1, <3>1, <3>2, SilentReplay
  <2>6. ASSUME NEW id \in OwnIds, NEW price \in Prices, NEW lots \in Book!Lots,
               ModifyAccepted(id, price, lots)
        PROVE  ReplayInv'
    BY <1>1, <1>3, <2>6, ModifyAcceptedReplay
  <2>7. CASE \/ TriggerKillSwitch \/ ResetKillSwitch
             \/ \E id \in ExternalIds, o \in Book!Orders : QuotePlaced(id, o)
             \/ \E id \in ExternalIds : QuotePulled(id)
    <3>1. event' = NoEvent /\ active' = active /\ history' = history /\ call' = call
      BY <2>7 DEF TriggerKillSwitch, ResetKillSwitch, QuotePlaced, QuotePulled
    <3>2. replay' = replay
      BY <1>3, <3>1 DEF Journaled
    <3>3. QED BY <1>1, <3>1, <3>2, SilentReplay
  <2>8. QED BY <1>3, <2>1, <2>2, <2>3, <2>4, <2>5, <2>6, <2>7 DEF Next
<1>4. QED BY <1>2, <1>3 DEF ReplayNext

\* Whatever lines the manager's calls write, in the middle of a call too, what
\* replay has rebuilt of each order from the lines so far is what the manager has,
\* with the exceptions of ReplayAgrees.
THEOREM ReplayInvariant == ReplaySpec => []ReplayInv
<1>1. QED BY InitReplayInv, NextReplayInv, PTL DEF ReplaySpec

-----------------------------------------------------------------------------
(* The committed exposure                                                  *)

\* The theorems of the risk manager are about its ledger, which is this one.
RiskProofs == INSTANCE RiskManagerProofs
                WITH Symbols <- {Symbol}, MaxDailyLoss <- 0, MaxFills <- 0, MaxDay <- 0,
                     filled <- 0, positions <- 0, pnl <- 0, cash <- 0, fills <- 0

LEMMA SameLedgers ==
    /\ RiskProofs!Ledgers = Ledgers
    /\ RiskProofs!Lots = Book!Lots /\ RiskProofs!Sides = Book!Sides
    /\ RiskProofs!RiskOrders = Risk!RiskOrders
    /\ RiskProofs!Reservations = Risk!Reservations
    /\ \A l : RiskProofs!Reserving(l) = Risk!Reserving(l)
BY DEF RiskProofs!Ledgers, Ledgers, RiskProofs!Reservations, Risk!Reservations,
       RiskProofs!Lots, Risk!Lots, Book!Lots, RiskProofs!Sides, Risk!Sides, Book!Sides,
       RiskProofs!RiskOrders, Risk!RiskOrders, RiskProofs!Reserving, Risk!Reserving

LEMMA SameUnits ==
    /\ \A side, x : RiskProofs!Signed(side, x) = Risk!Signed(side, x)
    /\ \A price, n : RiskProofs!Notional(price, n) = Risk!Notional(price, n)
    /\ \A x : RiskProofs!Wrapped(x) = Risk!Wrapped(x)
    /\ \A x : RiskProofs!Abs(x) = Risk!Abs(x)
BY DEF RiskProofs!Signed, Risk!Signed, RiskProofs!Notional, Risk!Notional,
       RiskProofs!Wrapped, Risk!Wrapped, RiskProofs!Abs, Risk!Abs

LEMMA SameLedgerOperations ==
    /\ \A l, id, n : RiskProofs!Released(l, id, n) = Risk!Released(l, id, n)
    /\ \A l, o : RiskProofs!Reserved(l, o) = Risk!Reserved(l, o)
    /\ \A l, o : RiskProofs!Admits(l, o) = Risk!Admits(l, o)
<1>1. ASSUME NEW l, NEW id, NEW n
      PROVE  RiskProofs!Released(l, id, n) = Risk!Released(l, id, n)
  <2>1. PICK r, m : r = l.reserved[id] /\ m = IF n <= r.remaining THEN n ELSE r.remaining
    OBVIOUS
  <2>2. PICK c : c = Risk!Wrapped(l.committed - Risk!Signed(r.side, Risk!Notional(r.price, m)))
    OBVIOUS
  <2>3. RiskProofs!Wrapped(l.committed - RiskProofs!Signed(r.side, RiskProofs!Notional(r.price, m))) = c
    BY <2>2, SameUnits
  <2>4. RiskProofs!Reserving(l) = Risk!Reserving(l)
    BY SameLedgers
  <2>5. QED BY <2>1, <2>2, <2>3, <2>4 DEF RiskProofs!Released, Risk!Released
<1>2. \A l, o : RiskProofs!Reserved(l, o) = Risk!Reserved(l, o)
  BY SameUnits DEF RiskProofs!Reserved, Risk!Reserved
<1>3. \A l, o : RiskProofs!Admits(l, o) = Risk!Admits(l, o)
  BY SameLedgers, SameUnits DEF RiskProofs!Admits, Risk!Admits
<1>4. QED BY <1>1, <1>2, <1>3

LEMMA LedgerHolds == RiskProofs!LedgerAssumption /\ RiskProofs!RiskAssumption
<1>1. \A S : RiskProofs!IsFiniteSet(S) = IsFiniteSet(S)
  BY DEF RiskProofs!IsFiniteSet, IsFiniteSet
<1>2. IsFiniteSet(OrderIds) /\ IsFiniteSet({Symbol})
  BY BookHolds, FS_Singleton
<1>3. RiskProofs!RiskAssumption
  BY <1>1, <1>2
<1>4. RiskProofs!LedgerAssumption
  BY OrderManagerAssumption, SameLedgers, LimitFacts
<1>5. QED BY <1>3, <1>4

\* The largest order that is allowed does not saturate.
OrderFits == MaxOrderValue <= MaxUnits

LEMMA SameLimit == OrderFits => RiskProofs!OrderFits
BY DEF OrderFits, RiskProofs!OrderFits

\* What the steps do to a ledger whose committed exposure is what is reserved.
LEMMA ReleasedSum ==
    ASSUME OrderFits, NEW l \in Ledgers, RiskProofs!Covered(l), NEW id \in OrderIds,
           NEW n \in Book!Lots
    PROVE  Risk!Released(l, id, n) \in Ledgers /\ RiskProofs!Covered(Risk!Released(l, id, n))
<1>1. l \in RiskProofs!Ledgers /\ n \in RiskProofs!Lots
  BY SameLedgers
<1>2. RiskProofs!OrderFits
  BY SameLimit
<1>3. RiskProofs!Covered(RiskProofs!Released(l, id, n))
  BY <1>1, <1>2, LedgerHolds, RiskProofs!ReleasedCovered
<1>4. RiskProofs!Released(l, id, n) = Risk!Released(l, id, n)
  BY SameLedgerOperations
<1>5. Risk!Released(l, id, n) \in Ledgers
  BY ReleasedLedger, Quantities
<1>6. QED BY <1>3, <1>4, <1>5

LEMMA UnmovedSum ==
    ASSUME NEW l \in Ledgers, RiskProofs!Covered(l), NEW after \in Ledgers,
           after.reserved = l.reserved, after.committed = l.committed
    PROVE  RiskProofs!Covered(after)
<1>1. l \in RiskProofs!Ledgers /\ after \in RiskProofs!Ledgers
  BY SameLedgers
<1>2. QED BY <1>1, LedgerHolds, RiskProofs!SameCovered

LEMMA BookedSum ==
    ASSUME OrderFits, NEW l \in Ledgers, RiskProofs!Covered(l), NEW id \in OrderIds,
           NEW side \in Book!Sides, NEW price \in Prices, NEW n \in Book!Lots
    PROVE  /\ Risk!Booked(l, RiskOrder(id, side, price, n)) \in Ledgers
           /\ RiskProofs!Covered(Risk!Booked(l, RiskOrder(id, side, price, n)))
<1>1. PICK m, after : /\ m = Risk!Released(l, id, n)
                      /\ after = Risk!Booked(l, RiskOrder(id, side, price, n))
  OBVIOUS
<1>2. m \in Ledgers /\ RiskProofs!Covered(m)
  BY <1>1, ReleasedSum
<1>3. after \in Ledgers
  <2>1. Risk!Booked(l, RiskOrder(id, side, price, n)) \in Ledgers
    BY BookedLedger
  <2>2. QED BY <1>1, <2>1
<1>4. after.reserved = m.reserved /\ after.committed = m.committed
  <2>1. after = IF Symbol \in DOMAIN SymbolLimit
                THEN [m EXCEPT !.net[Symbol] = m.net[Symbol] + Risk!Signed(side, n)]
                ELSE m
    BY <1>1 DEF Risk!Booked, RiskOrder
  <2>2. QED BY <1>2, <2>1 DEF Ledgers
<1>5. RiskProofs!Covered(after)
  BY <1>2, <1>3, <1>4, UnmovedSum
<1>6. QED BY <1>1, <1>3, <1>5

LEMMA ReservedSum ==
    ASSUME NEW l \in Ledgers, RiskProofs!Covered(l), NEW id \in OrderIds,
           NEW side \in Book!Sides, NEW price \in Prices, NEW n \in Book!Lots,
           Risk!Admits(l, RiskOrder(id, side, price, n))
    PROVE  RiskProofs!Covered(Risk!Reserved(l, RiskOrder(id, side, price, n)))
<1>1. PICK o : o = RiskOrder(id, side, price, n)
  OBVIOUS
<1>2. o \in RiskProofs!RiskOrders /\ l \in RiskProofs!Ledgers
  <2>1. o \in Risk!RiskOrders
    BY <1>1, LimitFacts DEF RiskOrder, Risk!RiskOrders
  <2>2. QED BY <2>1, SameLedgers
<1>3. RiskProofs!Admits(l, o)
  BY <1>1, SameLedgerOperations
<1>4. RiskProofs!Covered(RiskProofs!Reserved(l, o))
  BY <1>2, <1>3, LedgerHolds, RiskProofs!ReservedCovered
<1>5. RiskProofs!Reserved(l, o) = Risk!Reserved(l, o)
  BY SameLedgerOperations
<1>6. QED BY <1>1, <1>4, <1>5

LEMMA SameSum == \A f, S : RiskProofs!Sum(f, S) = Sum(f, S)
<1>1. \A s : RiskProofs!Pick(s) = Pick(s)
  BY DEF RiskProofs!Pick, Pick
<1>2. \A f, S, g : RiskProofs!Sums(f, S, g) <=> Sums(f, S, g)
  BY <1>1 DEF RiskProofs!Sums, Sums
<1>3. \A f, S : RiskProofs!Subtotals(f, S) = Subtotals(f, S)
  BY <1>2 DEF RiskProofs!Subtotals, Subtotals
<1>4. QED BY <1>3 DEF RiskProofs!Sum, Sum

LEMMA InitCovered == Init => RiskProofs!Covered(ledger)
<1> SUFFICES ASSUME Init PROVE RiskProofs!Covered(ledger)
  OBVIOUS
<1>1. ledger.committed = 0 /\ RiskProofs!Reserving(ledger) = {}
  BY DEF Init, Risk!EmptyLedger, RiskProofs!Reserving
<1>2. RiskProofs!Sum(RiskProofs!Units(ledger), {}) = 0
  BY SameSum, SumStep, FS_EmptySet
<1>3. RiskProofs!Wrapped(0) = 0
  BY LedgerHolds, OrderManagerAssumption, RiskProofs!WrappedSame
<1>4. QED BY <1>1, <1>2, <1>3 DEF RiskProofs!Covered

\* A cut releases what it takes from the order.
LEMMA CutReleases ==
    ASSUME ManagerInv, NEW id \in OwnIds, NEW n \in Book!Lots, CancelPartial(id, n)
    PROVE  /\ id \in OrderIds
           /\ \E cut \in Book!Lots : ledger' = Risk!Released(ledger, id, cut)
<1>1. PICK s, left :
        s = active[id] /\ left = IF book'.orders[id] = NoOrder THEN 0 ELSE book'.orders[id].lots
  OBVIOUS
<1>2. /\ CallsLeft /\ s # NoState /\ book' = Book!Reduced(book, id, n)
      /\ ledger' = Risk!Released(ledger, id, s.remaining - left)
  BY <1>1 DEF CancelPartial
<1>3. /\ id \in OrderIds /\ s.remaining \in Book!Lots
      /\ book.orders[id] = [side |-> s.side, price |-> s.price, lots |-> s.remaining]
      /\ id \in Book!Live(book)
  BY <1>1, <1>2, ActiveFacts
<1>4. book'.orders = [book.orders EXCEPT ![id] =
                        IF n >= book.orders[id].lots THEN NoOrder
                        ELSE [book.orders[id] EXCEPT !.lots = book.orders[id].lots - n]]
  <2>1. SoundBook(book)
    BY DEF ManagerInv, StateOK
  <2>2. QED BY <1>2, <1>3, <2>1, ReducedOrders
<1>5. book.orders \in [OrderIds -> Book!Orders \cup {NoOrder}]
  BY DEF ManagerInv, StateOK, SoundBook, Books
<1>6. PICK lots : lots = s.remaining
  OBVIOUS
<1>7. lots \in Nat /\ n \in Nat \ {0} /\ lots <= MaxLots /\ lots > 0 /\ MaxLots \in Nat
  BY <1>3, <1>6, Quantities
<1>8. left = IF n >= lots THEN 0 ELSE lots - n
  <2>1. book'.orders[id] = IF n >= lots THEN NoOrder
                           ELSE [book.orders[id] EXCEPT !.lots = lots - n]
    BY <1>3, <1>4, <1>5, <1>6
  <2>2. CASE n >= lots
    BY <1>1, <2>1, <2>2
  <2>3. CASE ~(n >= lots)
    <3>1. book'.orders[id] = [side |-> s.side, price |-> s.price, lots |-> lots - n]
      BY <1>3, <2>1, <2>3
    <3>2. lots - n \in Book!Lots
      BY <1>7, <2>3, Quantities
    <3>3. book'.orders[id] # NoOrder
      <4>1. book.orders[id] \in Book!Orders
        BY <1>3, <1>5, Quantities DEF Book!Live
      <4>2. s.side \in Book!Sides /\ s.price \in Prices
        BY <1>3, <4>1 DEF Book!Orders
      <4>3. book'.orders[id] \in Book!Orders
        BY <3>1, <3>2, <4>2 DEF Book!Orders
      <4>4. QED BY <4>3, Quantities
    <3>4. QED BY <1>1, <2>3, <3>1, <3>3
  <2>4. QED BY <2>2, <2>3
<1>9. s.remaining - left \in Book!Lots
  BY <1>6, <1>7, <1>8, Quantities
<1>10. QED BY <1>2, <1>3, <1>9

LEMMA NextCovered ==
    ASSUME OrderFits, ManagerInv, ManagerInv', RiskProofs!Covered(ledger), [Next]_vars
    PROVE  RiskProofs!Covered(ledger')
<1>1. StateOK /\ ledger \in Ledgers /\ ledger' \in Ledgers
  BY DEF ManagerInv, StateOK
<1>2. ASSUME NEW id \in OwnIds, CallsLeft, active[id] # NoState
      PROVE  /\ id \in OrderIds /\ active[id].side \in Book!Sides /\ active[id].price \in Prices
             /\ active[id].remaining \in Book!Lots
  BY <1>2, ActiveFacts
<1>3. ASSUME NEW o \in Requests, SubmitAccepted(o) PROVE RiskProofs!Covered(ledger')
  <2>1. /\ ledger' = Risk!Reserved(ledger, RiskOrder(o.id, o.side, o.price, o.lots))
        /\ Risk!Admits(ledger, RiskOrder(o.id, o.side, o.price, o.lots))
    BY <1>3 DEF SubmitAccepted
  <2>2. o.id \in OrderIds /\ o.side \in Book!Sides /\ o.price \in Prices /\ o.lots \in Book!Lots
    BY DEF Requests, OwnIds
  <2>3. QED BY <1>1, <2>1, <2>2, ReservedSum
<1>4. CASE SettleTrade
  <2>1. PICK o, t, m, taken :
          /\ o = call.order /\ t = Head(call.trades) /\ m = t.maker
          /\ taken = Risk!Booked(ledger, RiskOrder(o.id, o.side, t.price, t.lots))
    OBVIOUS
  <2>2. \/ ledger' = taken
        \/ /\ active[m] # NoState
           /\ ledger' = Risk!Booked(taken, RiskOrder(m, active[m].side, t.price, t.lots))
    BY <1>4, <2>1 DEF SettleTrade
  <2>3. /\ o.id \in OrderIds /\ o.side \in Book!Sides /\ t.price \in Prices /\ t.lots \in Book!Lots
        /\ m \in OrderIds /\ (active[m] # NoState => active[m].side \in Book!Sides)
    <3>1. /\ Taking /\ call.trades \in Seq(Book!Trades) /\ call.trades # <<>>
          /\ Settled.price \in Prices /\ Settled.lots \in Book!Lots /\ Maker \in OrderIds
          /\ active[Maker] # NoState => active[Maker] \in OrderStates
      BY <1>4, SettleFacts
    <3>2. t = Settled /\ m = Maker
      BY <2>1, <3>1, HeadAndTail DEF Settled, Maker
    <3>3. o.id \in OrderIds /\ o.side \in Book!Sides
      BY <2>1, <3>1, TakingFacts
    <3>4. QED BY <3>1, <3>2, <3>3 DEF OrderStates
  <2>4. taken \in Ledgers /\ RiskProofs!Covered(taken)
    <3>1. /\ Risk!Booked(ledger, RiskOrder(o.id, o.side, t.price, t.lots)) \in Ledgers
          /\ RiskProofs!Covered(Risk!Booked(ledger, RiskOrder(o.id, o.side, t.price, t.lots)))
      BY <1>1, <2>3, BookedSum
    <3>2. QED BY <2>1, <3>1
  <2>5. active[m] # NoState =>
          RiskProofs!Covered(Risk!Booked(taken, RiskOrder(m, active[m].side, t.price, t.lots)))
    BY <2>3, <2>4, BookedSum
  <2>6. QED BY <2>2, <2>4, <2>5
<1>5. CASE SubmitFinish
  <2>1. PICK id, n : id = call.order.id /\ n = call.remaining
    OBVIOUS
  <2>2. ledger' = ledger \/ ledger' = Risk!Released(ledger, id, n)
    BY <1>5, <2>1 DEF SubmitFinish
  <2>3. Taking /\ id \in OrderIds /\ n \in 0 .. MaxLots /\ active[id] = NoState
    <3>1. Taking
      BY <1>5 DEF SubmitFinish, Taking
    <3>2. QED BY <2>1, <3>1, TakingFacts
  <2>4. CASE n = 0
    <3>1. ReservedFine(id)
      BY <2>3 DEF ManagerInv, OrdersOK
    <3>2. ledger.reserved[id] = NoReservation
      <4>1. ~(call.remaining > 0)
        BY <2>1, <2>4
      <4>2. Due(id) = NoReservation
        BY <2>3, <4>1 DEF Due
      <4>3. QED BY <3>1, <4>2 DEF ReservedFine
    <3>3. Risk!Released(ledger, id, n) = ledger
      BY <3>2 DEF Risk!Released, Risk!Reserving
    <3>4. QED BY <2>2, <3>3
  <2>5. CASE n # 0
    <3>1. n \in Book!Lots
      BY <2>3, <2>5, Quantities
    <3>2. QED BY <1>1, <2>2, <2>3, <3>1, ReleasedSum
  <2>6. QED BY <2>4, <2>5
<1>6. ASSUME NEW id \in OwnIds, Cancel(id) PROVE RiskProofs!Covered(ledger')
  <2>1. /\ CallsLeft /\ active[id] # NoState
        /\ ledger' = Risk!Released(ledger, id, active[id].remaining)
    BY <1>6 DEF Cancel
  <2>2. QED BY <1>1, <1>2, <2>1, ReleasedSum
<1>7. ASSUME NEW id \in OwnIds, NEW n \in Book!Lots, CancelPartial(id, n)
      PROVE  RiskProofs!Covered(ledger')
  <2>1. PICK cut : /\ ledger' = Risk!Released(ledger, id, cut) /\ cut \in Book!Lots
                   /\ id \in OrderIds
    BY <1>7, CutReleases
  <2>2. QED BY <1>1, <2>1, ReleasedSum
<1>8. ASSUME NEW id \in OwnIds, NEW price \in Prices, NEW lots \in Book!Lots,
             ModifyAccepted(id, price, lots) \/ ModifyRefused(id, price, lots)
      PROVE  RiskProofs!Covered(ledger')
  <2>1. PICK released, side :
          released = Risk!Released(ledger, id, active[id].remaining) /\ side = active[id].side
    OBVIOUS
  <2>2. /\ CallsLeft /\ active[id] # NoState
        /\ \/ ledger' = released
           \/ /\ Risk!Admits(released, RiskOrder(id, side, price, lots))
              /\ ledger' = Risk!Reserved(released, RiskOrder(id, side, price, lots))
    BY <1>8, <2>1 DEF ModifyAccepted, ModifyRefused
  <2>3. id \in OrderIds /\ side \in Book!Sides /\ active[id].remaining \in Book!Lots
    BY <1>2, <2>1, <2>2
  <2>4. released \in Ledgers /\ RiskProofs!Covered(released)
    <3>1. /\ Risk!Released(ledger, id, active[id].remaining) \in Ledgers
          /\ RiskProofs!Covered(Risk!Released(ledger, id, active[id].remaining))
      BY <1>1, <2>3, ReleasedSum
    <3>2. QED BY <2>1, <3>1
  <2>5. QED BY <2>2, <2>3, <2>4, ReservedSum
<1>9. CASE ModifyRestore
  <2>1. PICK id, s : id = call.id /\ s = active[id]
    OBVIOUS
  <2>2. \/ ledger' = ledger
        \/ /\ Risk!Admits(ledger, RiskOrder(id, s.side, s.price, s.remaining))
           /\ ledger' = Risk!Reserved(ledger, RiskOrder(id, s.side, s.price, s.remaining))
    BY <1>9, <2>1 DEF ModifyRestore
  <2>3. id \in OrderIds /\ s.side \in Book!Sides /\ s.price \in Prices /\ s.remaining \in Book!Lots
    <3>1. call # Idle /\ call.op = "restore" /\ Restoring
      BY <1>9 DEF ModifyRestore, Restoring
    <3>2. id \in OwnIds /\ id \in OrderIds
      BY <1>1, <2>1, <3>1 DEF StateOK, CallStates, OwnIds
    <3>3. s # NoState /\ ActiveFine(id)
      BY <2>1, <3>1, <3>2 DEF ManagerInv, OrdersOK, RestoringOK
    <3>4. s \in OrderStates
      BY <1>1, <2>1, <3>2, <3>3 DEF StateOK
    <3>5. QED BY <2>1, <3>2, <3>3, <3>4 DEF ActiveFine, OrderStates
  <2>4. QED BY <1>1, <2>2, <2>3, ReservedSum
<1>10. CASE TriggerKillSwitch \/ ResetKillSwitch
  <2>1. ledger'.reserved = ledger.reserved /\ ledger'.committed = ledger.committed
    BY <1>1, <1>10 DEF TriggerKillSwitch, ResetKillSwitch, Risk!Killed, Risk!Reset, Ledgers
  <2>2. QED BY <1>1, <2>1, UnmovedSum
<1>11. CASE ledger' = ledger
  BY <1>11
<1>12. CASE UNCHANGED vars
  <2>1. ledger' = ledger
    BY <1>12 DEF vars
  <2>2. QED BY <1>11, <2>1
<1>13. CASE Next
  <2>1. ASSUME NEW o \in Requests, SubmitDuplicate(o) \/ SubmitRejected(o) \/ SubmitAccepted(o)
        PROVE  RiskProofs!Covered(ledger')
    BY <1>3, <1>11, <2>1 DEF SubmitDuplicate, SubmitRejected
  <2>2. CASE CallStep
    BY <1>4, <1>5, <1>9, <1>11, <2>2 DEF CallStep, MatchTrade, MatchEnd
  <2>3. ASSUME NEW id \in OwnIds, NEW price \in Prices, NEW lots \in Book!Lots,
               \/ ModifyUnfit(id, price, lots)
               \/ ModifyAccepted(id, price, lots)
               \/ ModifyRefused(id, price, lots)
        PROVE  RiskProofs!Covered(ledger')
    BY <1>8, <1>11, <2>3 DEF ModifyUnfit
  <2>4. CASE \/ \E id \in ExternalIds, o \in Book!Orders : QuotePlaced(id, o)
             \/ \E id \in ExternalIds : QuotePulled(id)
    BY <1>11, <2>4 DEF QuotePlaced, QuotePulled
  <2>5. QED BY <1>6, <1>7, <1>10, <1>13, <2>1, <2>2, <2>3, <2>4 DEF Next
<1>14. QED BY <1>12, <1>13

-----------------------------------------------------------------------------
(* What replay finds                                                       *)

LEMMA ReplayFindsOrders ==
    ReplayInv => ReplayFindsActive /\ ReplayFindsFills /\ ReplayFindsOutcome
<1> SUFFICES ASSUME ReplayInv
             PROVE  ReplayFindsActive /\ ReplayFindsFills /\ ReplayFindsOutcome
  OBVIOUS
<1>1. \A id \in OrderIds :
        Rebuilt(active[id], replay.active[id], replay.history[id], replay.seen[id])
  BY DEF ReplayInv, FoundFine
<1>2. ReplayFindsActive
  <2>1. SUFFICES ASSUME NEW id \in OwnIds
                 PROVE  IF active[id] = NoState \/ Struck(id) THEN replay.active[id] = NoState
                        ELSE /\ replay.active[id] # NoState
                             /\ <<replay.active[id].side, replay.active[id].price,
                                  replay.active[id].initial, replay.active[id].remaining>> =
                                  <<active[id].side, active[id].price,
                                    active[id].initial, active[id].remaining>>
    BY DEF ReplayFindsActive
  <2>2. id \in OrderIds
    BY DEF OwnIds
  <2>3. QED BY <1>1, <2>2 DEF Rebuilt, Struck
<1>3. ReplayFindsFills
  <2>1. SUFFICES ASSUME NEW id \in ActiveIds, ~Struck(id)
                 PROVE  /\ replay.history[id].filled >= active[id].filled
                        /\ replay.seen[id] <= active[id].filled =>
                             replay.history[id].filled = active[id].filled
    BY DEF ReplayFindsFills
  <2>2. id \in OrderIds /\ active[id] # NoState
    BY DEF ActiveIds
  <2>3. QED BY <1>1, <2>1, <2>2 DEF Rebuilt, Struck
<1>4. ReplayFindsOutcome
  <2>1. SUFFICES ASSUME NEW id \in OwnIds, history.states[id] # NoState, active[id] = NoState
                 PROVE  \/ replay.history[id].status = "REJECTED"
                        \/ replay.seen[id] > history.states[id].filled
                        \/ replay.history[id].status = history.states[id].status
    BY DEF ReplayFindsOutcome
  <2>2. EndFine(id)
    BY DEF ReplayInv
  <2>3. QED BY <2>1, <2>2 DEF EndFine, Ended
<1>5. QED BY <1>2, <1>3, <1>4

LEMMA ReplaysUnits ==
    /\ \A side, x : Replay!Signed(side, x) = RiskProofs!Signed(side, x)
    /\ \A price, n : Replay!Notional(price, n) = RiskProofs!Notional(price, n)
    /\ \A x : Replay!Wrapped(x) = RiskProofs!Wrapped(x)
BY DEF Replay!Signed, RiskProofs!Signed, Replay!Notional, RiskProofs!Notional,
       Replay!Wrapped, RiskProofs!Wrapped

\* What replay has resting, when nothing is struck or unreserved, adds up to
\* what is reserved.
LEMMA ReplayHasReserved ==
    ASSUME ReplayInv, call = Idle, \A id \in ActiveIds : ~Struck(id) /\ ~approved[id].bare
    PROVE  /\ {id \in OrderIds : replay.active[id] # NoState} = Risk!Reserving(ledger)
           /\ \A id \in Risk!Reserving(ledger) :
                RiskProofs!Units(ledger)[id] =
                  Replay!Signed(replay.active[id].side,
                                Replay!Notional(replay.active[id].price,
                                                replay.active[id].remaining))
<1>1. ASSUME NEW id \in OrderIds
      PROVE  /\ active[id] = NoState => replay.active[id] = NoState /\ id \notin Risk!Reserving(ledger)
             /\ active[id] # NoState =>
                  /\ replay.active[id] # NoState
                  /\ replay.active[id].side = active[id].side
                  /\ replay.active[id].price = active[id].price
                  /\ replay.active[id].remaining = active[id].remaining
                  /\ ledger.reserved[id] =
                       [side |-> active[id].side, price |-> active[id].price,
                        remaining |-> active[id].remaining]
  <2>1. ~Taking /\ ~Restoring
    BY DEF Taking, Restoring
  <2>2. Rebuilt(active[id], replay.active[id], replay.history[id], replay.seen[id])
    BY DEF ReplayInv, FoundFine
  <2>3. ledger.reserved[id] = Due(id)
    BY DEF ReplayInv, ManagerInv, OrdersOK, ReservedFine
  <2>4. CASE active[id] = NoState
    <3>1. ledger.reserved[id] = NoReservation
      BY <2>1, <2>3, <2>4 DEF Due
    <3>2. QED BY <2>2, <2>4, <3>1 DEF Rebuilt, Risk!Reserving
  <2>5. CASE active[id] # NoState
    <3>1. ~Struck(id) /\ ~approved[id].bare
      BY <2>5 DEF ActiveIds
    <3>2. ledger.reserved[id] =
            [side |-> active[id].side, price |-> active[id].price,
             remaining |-> active[id].remaining]
      BY <2>1, <2>3, <2>5, <3>1 DEF Due
    <3>3. QED BY <2>2, <2>5, <3>1, <3>2 DEF Rebuilt, Struck
  <2>6. QED BY <2>4, <2>5
<1>2. ledger \in Ledgers
  BY DEF ReplayInv, ManagerInv, StateOK
<1>3. ASSUME NEW id \in OrderIds, active[id] # NoState
      PROVE  id \in Risk!Reserving(ledger)
  <2>1. ledger.reserved[id] \in Risk!Reservations \cup {NoReservation}
    BY <1>2 DEF Ledgers
  <2>2. ActiveFine(id) /\ active[id] \in OrderStates
    BY <1>3 DEF ReplayInv, ManagerInv, OrdersOK, StateOK
  <2>3. /\ active[id].side \in Risk!Sides /\ active[id].price \in Prices
        /\ active[id].remaining \in Risk!Lots
    BY <1>3, <2>2, LimitFacts DEF ActiveFine, OrderStates
  <2>4. [side |-> active[id].side, price |-> active[id].price,
         remaining |-> active[id].remaining] \in Risk!Reservations
    BY <2>3 DEF Risk!Reservations
  <2>5. ledger.reserved[id] # NoReservation
    BY <1>1, <1>3, <2>4, LimitFacts
  <2>6. QED BY <2>5 DEF Risk!Reserving
<1>4. {id \in OrderIds : replay.active[id] # NoState} = Risk!Reserving(ledger)
  <2>1. \A id \in OrderIds : replay.active[id] # NoState <=> id \in Risk!Reserving(ledger)
    BY <1>1, <1>3
  <2>2. Risk!Reserving(ledger) \subseteq OrderIds
    BY DEF Risk!Reserving
  <2>3. QED BY <2>1, <2>2
<1>5. ASSUME NEW id \in Risk!Reserving(ledger)
      PROVE  RiskProofs!Units(ledger)[id] =
               Replay!Signed(replay.active[id].side,
                             Replay!Notional(replay.active[id].price,
                                             replay.active[id].remaining))
  <2>1. id \in OrderIds /\ id \in RiskProofs!Reserving(ledger)
    BY SameLedgers DEF Risk!Reserving
  <2>2. PICK r : r = ledger.reserved[id]
    OBVIOUS
  <2>3. active[id] # NoState
    BY <1>1, <2>1
  <2>4. /\ replay.active[id].side = r.side /\ replay.active[id].price = r.price
        /\ replay.active[id].remaining = r.remaining
    <3>1. PICK s, a : s = active[id] /\ a = replay.active[id]
      OBVIOUS
    <3>2. /\ a.side = s.side /\ a.price = s.price /\ a.remaining = s.remaining
          /\ ledger.reserved[id] =
               [side |-> active[id].side, price |-> active[id].price,
                remaining |-> active[id].remaining]
      BY <1>1, <2>1, <2>3, <3>1
    <3>3. r = [side |-> s.side, price |-> s.price, remaining |-> s.remaining]
      BY <2>2, <3>1, <3>2
    <3>4. QED BY <3>1, <3>2, <3>3
  <2>5. RiskProofs!Units(ledger)[id] =
          RiskProofs!Signed(r.side, RiskProofs!Notional(r.price, r.remaining))
    BY <2>1, <2>2 DEF RiskProofs!Units, RiskProofs!UnitsOf
  <2>6. QED BY <2>4, <2>5, ReplaysUnits
<1>6. QED BY <1>4, <1>5

LEMMA ReplayFindsSum == ReplayInv /\ RiskProofs!Covered(ledger) => ReplayFindsExposure
<1> SUFFICES ASSUME ReplayInv, RiskProofs!Covered(ledger), call = Idle,
                    \A id \in ActiveIds : ~Struck(id) /\ ~approved[id].bare
             PROVE  Replay!CommittedExposure(replay) = ledger.committed
  BY DEF ReplayFindsExposure
<1>1. PICK S, f, r : S = Risk!Reserving(ledger) /\ f = RiskProofs!Units(ledger) /\ r = replay
  OBVIOUS
<1> DEFINE value(id) == LET s == r.active[id]
                        IN  Replay!Signed(s.side, Replay!Notional(s.price, s.remaining))
<1>2. {id \in OrderIds : r.active[id] # NoState} = S /\ \A id \in S : f[id] = value(id)
  BY <1>1, ReplayHasReserved
<1>3. IsFiniteSet(S)
  BY <1>1, BookHolds, FS_Subset DEF Risk!Reserving
<1> DEFINE E(g) == g = [s \in SUBSET S |->
                          IF s = {} THEN 0 ELSE value(Pick(s)) + g[s \ {Pick(s)}]]
<1> HIDE DEF value
<1>4. ASSUME NEW g PROVE E(g) <=> Sums(f, S, g)
  <2>1. \A s \in SUBSET S : s # {} => f[Pick(s)] = value(Pick(s))
    BY <1>2, Picked
  <2>2. [s \in SUBSET S |-> IF s = {} THEN 0 ELSE value(Pick(s)) + g[s \ {Pick(s)}]]
          = [s \in SUBSET S |-> IF s = {} THEN 0 ELSE f[Pick(s)] + g[s \ {Pick(s)}]]
    BY <2>1
  <2>3. QED BY <2>2 DEF Sums
<1>5. Replay!CommittedExposure(r) = Replay!Wrapped((CHOOSE g : E(g))[S])
  BY <1>2 DEF Replay!CommittedExposure, Replay!MapThenSumSet, Replay!MapThenFoldSet, Pick, value
<1>6. \E g : E(g)
  BY <1>3, <1>4, SumsExist
<1> HIDE DEF E
<1>7. E(CHOOSE g : E(g))
  BY <1>6
<1>8. Sums(f, S, CHOOSE g : E(g)) /\ Sums(f, S, Subtotals(f, S))
  BY <1>4, <1>7 DEF Subtotals
<1>9. (CHOOSE g : E(g)) = Subtotals(f, S)
  BY <1>3, <1>8, SumsUnique
<1>10. Replay!CommittedExposure(r) = Replay!Wrapped(Sum(f, S))
  BY <1>5, <1>9 DEF Sum
<1>11. ledger.committed = RiskProofs!Wrapped(Sum(f, S))
  BY <1>1, SameSum, SameLedgers DEF RiskProofs!Covered
<1>12. QED BY <1>1, <1>10, <1>11, ReplaysUnits

\* What replay_file rebuilds from the journal is what the order manager holds
\* between calls, with the exceptions that the property names, as long as no
\* allowed order saturates.
THEOREM ReplayedAgrees ==
    ASSUME OrderFits
    PROVE  ReplaySpec => []ReplayAgrees
<1>1. ReplayInit => RiskProofs!Covered(ledger)
  BY InitCovered DEF ReplayInit
<1>2. ReplayInv /\ ReplayInv' /\ RiskProofs!Covered(ledger) /\ [ReplayNext]_replayVars
        => RiskProofs!Covered(ledger)'
  BY NextCovered DEF ReplayInv, ReplayNext, replayVars
<1>3. ReplayInv /\ RiskProofs!Covered(ledger) => ReplayAgrees
  BY ReplayFindsOrders, ReplayFindsSum DEF ReplayAgrees
<1>4. QED BY <1>1, <1>2, <1>3, ReplayInvariant, PTL DEF ReplaySpec
=============================================================================
