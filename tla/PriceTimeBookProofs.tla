------------------------- MODULE PriceTimeBookProofs -------------------------
(***************************************************************************)
(* The price-time priority book, for every set of orders and prices and    *)
(* every capacity: its types, that time priority is a strict total order   *)
(* of each level, and that the pool and the level arrays never overflow.   *)
(*                                                                         *)
(* The operations on the book are Added, Canceled and Reduced, chained; a  *)
(* lemma says of each what it does to a well-formed book, and the theorems *)
(* only follow the steps.                                                  *)
(***************************************************************************)
EXTENDS PriceTimeBook, FiniteSetTheorems, TLAPS

Books == [orders : [OrderIds -> Orders \cup {NoOrder}],
          ahead : SUBSET (OrderIds \X OrderIds)]

\* A replacement or a new order is an order, which NoOrder is not.
LEMMA OrderFacts ==
    ASSUME NEW b \in Books, NEW id \in Live(b)
    PROVE  /\ id \in OrderIds
           /\ b.orders[id] \in Orders
           /\ b.orders[id].side \in Sides
           /\ b.orders[id].price \in Prices
           /\ b.orders[id].lots \in Lots
BY DEF Books, Live, Orders

-----------------------------------------------------------------------------
(* Types                                                                   *)

LEMMA AddedType ==
    ASSUME NEW b \in Books, NEW id \in OrderIds, NEW o \in Orders
    PROVE  Added(b, id, o) \in Books
BY DEF Books, Added, Level, SideOf, Live

LEMMA CanceledType ==
    ASSUME NEW b \in Books, NEW id \in OrderIds
    PROVE  Canceled(b, id) \in Books
BY DEF Books, Canceled

LEMMA ReducedType ==
    ASSUME NEW b \in Books, NEW id \in Live(b), NEW n \in Lots
    PROVE  Reduced(b, id, n) \in Books
<1>1. CASE n >= b.orders[id].lots
  BY <1>1, CanceledType DEF Reduced, Live
<1>2. CASE ~(n >= b.orders[id].lots)
  <2>1. b.orders[id].lots - n \in Lots
    BY <1>2, OrderFacts, BookAssumption DEF Lots
  <2>2. [b.orders[id] EXCEPT !.lots = @ - n] \in Orders
    BY <2>1, OrderFacts DEF Orders
  <2>3. QED
    BY <1>2, <2>2, OrderFacts DEF Reduced, Books
<1>3. QED BY <1>1, <1>2

LEMMA ModifiedType ==
    ASSUME NEW b \in Books, NEW id \in Live(b), NEW o \in Orders
    PROVE  Modified(b, id, o) \in Books
BY OrderFacts, CanceledType, AddedType DEF Modified

-----------------------------------------------------------------------------
(* Time priority                                                           *)

LEMMA AddedTimePriority ==
    ASSUME NEW b \in Books, NEW id \in OrderIds, NEW o \in Orders,
           TimePriority(b), id \notin Live(b)
    PROVE  TimePriority(Added(b, id, o))
<1> DEFINE a == Added(b, id, o)
           behind == Level(b, o.side, o.price)
<1>1. /\ a.orders = [b.orders EXCEPT ![id] = o]
      /\ a.ahead = b.ahead \cup (behind \X {id})
  BY DEF Added
<1>2. /\ id \notin Live(b) /\ id \notin behind
      /\ Live(a) = Live(b) \cup {id}
  BY <1>1, BookAssumption DEF Live, Books, Level, SideOf
<1>3. \A x, y \in OrderIds : <<x, y>> \in a.ahead <=>
         <<x, y>> \in b.ahead \/ (x \in behind /\ y = id)
  BY <1>1
<1>4. \A x, y \in OrderIds : <<x, y>> \in b.ahead =>
         /\ x \in Live(b) /\ y \in Live(b) /\ x # id /\ y # id
         /\ SameLevel(b, x, y) /\ <<y, x>> \notin b.ahead
  BY <1>2 DEF TimePriority
<1>5. /\ a.orders[id] = o
      /\ \A x \in OrderIds : x # id => a.orders[x] = b.orders[x]
  BY <1>1 DEF Books
<1>6. \A x \in OrderIds : x \in behind <=>
         /\ x \in Live(b)
         /\ b.orders[x].side = o.side /\ b.orders[x].price = o.price
  BY DEF Level, SideOf, Live
<1>7. \A p \in a.ahead : p = <<p[1], p[2]>> /\ p[1] \in OrderIds /\ p[2] \in OrderIds
  BY AddedType DEF Books
<1>8. ASSUME NEW x \in OrderIds, NEW y \in OrderIds, <<x, y>> \in a.ahead
      PROVE  x \in Live(a) /\ y \in Live(a) /\ SameLevel(a, x, y) /\ <<y, x>> \notin a.ahead
  BY <1>2, <1>3, <1>4, <1>5, <1>6, <1>8 DEF SameLevel
<1>9. ASSUME NEW x \in Live(a), NEW y \in Live(a), SameLevel(a, x, y), x # y
      PROVE  <<x, y>> \in a.ahead \/ <<y, x>> \in a.ahead
  <2>1. x \in OrderIds /\ y \in OrderIds
    BY DEF Live
  <2>2. CASE x # id /\ y # id
    BY <1>2, <1>3, <1>5, <1>9, <2>1, <2>2 DEF TimePriority, SameLevel
  <2>3. CASE x = id \/ y = id
    BY <1>2, <1>3, <1>5, <1>6, <1>9, <2>1, <2>3 DEF SameLevel
  <2>4. QED BY <2>2, <2>3
<1>10. ASSUME NEW x \in OrderIds, NEW y \in OrderIds, NEW z \in OrderIds,
              <<x, y>> \in a.ahead, <<y, z>> \in a.ahead
       PROVE  <<x, z>> \in a.ahead
  <2>1. <<x, y>> \in b.ahead
    BY <1>2, <1>3, <1>4, <1>10
  <2>2. CASE <<y, z>> \in b.ahead
    BY <1>3, <2>1, <2>2 DEF TimePriority
  <2>3. CASE y \in behind /\ z = id
    <3>1. x \in Live(b) /\ SameLevel(b, x, y)
      BY <1>4, <2>1
    <3>2. x \in behind
      BY <1>6, <2>3, <3>1 DEF SameLevel
    <3>3. QED
      BY <1>3, <2>3, <3>2
  <2>4. QED BY <1>3, <1>10, <2>2, <2>3
<1>11. \A p \in a.ahead : /\ p[1] \in Live(a) /\ p[2] \in Live(a)
                          /\ SameLevel(a, p[1], p[2])
                          /\ <<p[2], p[1]>> \notin a.ahead
  BY <1>7, <1>8
<1>12. QED
  BY <1>9, <1>10, <1>11 DEF TimePriority

LEMMA CanceledTimePriority ==
    ASSUME NEW b \in Books, NEW id \in OrderIds, TimePriority(b)
    PROVE  TimePriority(Canceled(b, id))
<1> DEFINE c == Canceled(b, id)
<1>1. Live(c) = Live(b) \ {id} /\ \A x \in OrderIds \ {id} : c.orders[x] = b.orders[x]
  BY DEF Canceled, Live, Books
<1>2. \A x, y \in OrderIds : <<x, y>> \in c.ahead <=>
         <<x, y>> \in b.ahead /\ x # id /\ y # id
  BY DEF Canceled
<1>3. \A p \in c.ahead : p \in b.ahead /\ p[1] # id /\ p[2] # id
                         /\ p = <<p[1], p[2]>> /\ p[1] \in OrderIds /\ p[2] \in OrderIds
  BY DEF Canceled, Books
<1>4. \A p \in c.ahead : /\ p[1] \in Live(c) /\ p[2] \in Live(c)
                         /\ SameLevel(c, p[1], p[2])
                         /\ <<p[2], p[1]>> \notin c.ahead
  BY <1>1, <1>2, <1>3 DEF TimePriority, SameLevel
<1>5. \A x, y \in Live(c) : SameLevel(c, x, y) /\ x # y
                              => <<x, y>> \in c.ahead \/ <<y, x>> \in c.ahead
  BY <1>1, <1>2 DEF TimePriority, SameLevel, Live
<1>6. \A x, y, z \in OrderIds :
         <<x, y>> \in c.ahead /\ <<y, z>> \in c.ahead => <<x, z>> \in c.ahead
  BY <1>2 DEF TimePriority
<1>7. QED
  BY <1>4, <1>5, <1>6 DEF TimePriority

\* An order that keeps some lots keeps its side, its price and its place.
LEMMA ReducedTimePriority ==
    ASSUME NEW b \in Books, NEW id \in Live(b), NEW n \in Lots, TimePriority(b)
    PROVE  TimePriority(Reduced(b, id, n))
<1> DEFINE r == Reduced(b, id, n)
<1>1. CASE n >= b.orders[id].lots
  BY <1>1, CanceledTimePriority DEF Reduced, Live
<1>2. CASE ~(n >= b.orders[id].lots)
  <2>1. /\ r.ahead = b.ahead
        /\ r.orders = [b.orders EXCEPT ![id] = [b.orders[id] EXCEPT !.lots = @ - n]]
    BY <1>2 DEF Reduced
  <2>2. r \in Books /\ [b.orders[id] EXCEPT !.lots = @ - n] # NoOrder
    <3>1. [b.orders[id] EXCEPT !.lots = @ - n] \in Orders
      <4>1. b.orders[id].lots - n \in Lots
        BY <1>2, OrderFacts, BookAssumption DEF Lots
      <4>2. QED
        BY <4>1, OrderFacts DEF Orders
    <3>2. QED
      BY <3>1, ReducedType, BookAssumption
  <2>3. \A x \in Live(b) : r.orders[x].side = b.orders[x].side
                           /\ r.orders[x].price = b.orders[x].price
    BY <2>1, OrderFacts DEF Books, Orders, Live
  <2>4. Live(r) = Live(b)
    BY <2>1, <2>2 DEF Live, Books
  <2>5. \A x, y \in Live(b) : SameLevel(r, x, y) <=> SameLevel(b, x, y)
    BY <2>3 DEF SameLevel
  <2>6. QED
    BY <2>1, <2>4, <2>5 DEF TimePriority
<1>3. QED BY <1>1, <1>2

LEMMA ModifiedTimePriority ==
    ASSUME NEW b \in Books, NEW id \in Live(b), NEW o \in Orders, TimePriority(b)
    PROVE  TimePriority(Modified(b, id, o))
<1>1. /\ Canceled(b, id) \in Books
      /\ TimePriority(Canceled(b, id))
      /\ id \in OrderIds
      /\ id \notin Live(Canceled(b, id))
  BY CanceledType, CanceledTimePriority DEF Live, Canceled, Books
<1>2. b.orders[id] \in Orders
  BY OrderFacts
<1>3. QED
  BY <1>1, <1>2, AddedTimePriority DEF Modified

-----------------------------------------------------------------------------
(* Capacity                                                                *)

LEMMA FiniteBook ==
    ASSUME NEW b \in Books, NEW side \in Sides
    PROVE  IsFiniteSet(Live(b)) /\ IsFiniteSet(LevelPrices(b, side))
<1>1. IsFiniteSet(Live(b)) /\ IsFiniteSet(SideOf(b, side))
  BY BookAssumption, FS_Subset DEF Live, SideOf
<1> DEFINE priceOf == [id \in SideOf(b, side) |-> b.orders[id].price]
<1>2. priceOf \in Surjection(SideOf(b, side), LevelPrices(b, side))
  BY DEF Surjection, LevelPrices
<1>3. QED
  BY <1>1, <1>2, FS_Surjection

\* A book with no more orders and no more levels than one that fits, fits.
LEMMA SmallerFits ==
    ASSUME NEW b \in Books, NEW c \in Books, Fits(b), Live(c) \subseteq Live(b),
           \A side \in Sides : LevelPrices(c, side) \subseteq LevelPrices(b, side)
    PROVE  Fits(c)
<1>1. Cardinality(Live(c)) <= PoolSize
  <2>1. IsFiniteSet(Live(b)) /\ IsFiniteSet(Live(c))
    BY FiniteBook DEF Sides
  <2>2. Cardinality(Live(c)) <= Cardinality(Live(b))
    BY <2>1, FS_Subset
  <2>3. Cardinality(Live(c)) \in Nat /\ Cardinality(Live(b)) \in Nat
    BY <2>1, FS_CardinalityType
  <2>4. QED BY <2>2, <2>3, BookAssumption DEF Fits
<1>2. ASSUME NEW side \in Sides
      PROVE  Cardinality(LevelPrices(c, side)) <= MaxLevels
  <2>1. IsFiniteSet(LevelPrices(b, side)) /\ IsFiniteSet(LevelPrices(c, side))
    BY FiniteBook
  <2>2. Cardinality(LevelPrices(c, side)) <= Cardinality(LevelPrices(b, side))
    BY <2>1, FS_Subset
  <2>3. /\ Cardinality(LevelPrices(c, side)) \in Nat
        /\ Cardinality(LevelPrices(b, side)) \in Nat
    BY <2>1, FS_CardinalityType
  <2>4. QED BY <2>2, <2>3, BookAssumption DEF Fits
<1>3. QED BY <1>1, <1>2 DEF Fits

LEMMA AddedFits ==
    ASSUME NEW b \in Books, NEW id \in OrderIds, NEW o \in Orders,
           Fits(b), CanAdd(b, id, o)
    PROVE  Fits(Added(b, id, o))
<1> DEFINE a == Added(b, id, o)
<1>1. /\ a.orders = [b.orders EXCEPT ![id] = o]
      /\ id \notin Live(b) /\ o # NoOrder
      /\ o.side \in Sides /\ o.price \in Prices
  BY BookAssumption DEF Added, CanAdd, Orders
<1>2. Live(a) = Live(b) \cup {id}
  BY <1>1 DEF Live, Books
<1>3. Cardinality(Live(a)) <= PoolSize
  <2>1. IsFiniteSet(Live(b))
    BY <1>1, FiniteBook
  <2>2. Cardinality(Live(b) \cup {id}) = Cardinality(Live(b)) + 1
    BY <1>1, <2>1, FS_AddElement
  <2>3. Cardinality(Live(b)) \in Nat
    BY <2>1, FS_CardinalityType
  <2>4. QED BY <1>2, <2>2, <2>3, BookAssumption DEF CanAdd
<1>4. ASSUME NEW side \in Sides
      PROVE  SideOf(a, side) = IF side = o.side THEN SideOf(b, side) \cup {id}
                                                ELSE SideOf(b, side)
  BY <1>1, <1>2 DEF SideOf, Live, Books
<1>5. ASSUME NEW side \in Sides
      PROVE  LevelPrices(a, side) =
               IF side = o.side THEN LevelPrices(b, side) \cup {o.price}
                                ELSE LevelPrices(b, side)
  <2>1. /\ a.orders[id] = o
        /\ \A x \in SideOf(b, side) : x # id /\ a.orders[x] = b.orders[x]
    BY <1>1 DEF Books, SideOf, Live
  <2>2. QED BY <1>4, <2>1 DEF LevelPrices
<1>6. ASSUME NEW side \in Sides
      PROVE  Cardinality(LevelPrices(a, side)) <= MaxLevels
  <2>1. IsFiniteSet(LevelPrices(b, side)) /\ Cardinality(LevelPrices(b, side)) \in Nat
    BY FiniteBook, FS_CardinalityType
  <2>2. CASE side # o.side
    BY <1>5, <2>2 DEF Fits
  <2>3. CASE side = o.side /\ Level(b, o.side, o.price) # {}
    <3>1. o.price \in LevelPrices(b, side)
      BY <2>3 DEF Level, LevelPrices
    <3>2. LevelPrices(a, side) = LevelPrices(b, side)
      BY <1>5, <2>3, <3>1
    <3>3. QED BY <3>2 DEF Fits
  <2>4. CASE side = o.side /\ Cardinality(LevelPrices(b, side)) < MaxLevels
    <3>1. Cardinality(LevelPrices(b, side) \cup {o.price}) =
            IF o.price \in LevelPrices(b, side) THEN Cardinality(LevelPrices(b, side))
                                                ELSE Cardinality(LevelPrices(b, side)) + 1
      BY <2>1, FS_AddElement
    <3>2. LevelPrices(a, side) = LevelPrices(b, side) \cup {o.price}
      BY <1>5, <2>4
    <3>3. QED
      BY <2>1, <2>4, <3>1, <3>2, BookAssumption
  <2>5. QED BY <2>2, <2>3, <2>4 DEF CanAdd
<1>7. QED BY <1>3, <1>6 DEF Fits

LEMMA CanceledFits ==
    ASSUME NEW b \in Books, NEW id \in OrderIds, Fits(b)
    PROVE  Fits(Canceled(b, id))
<1> DEFINE c == Canceled(b, id)
<1>1. c \in Books
  BY CanceledType
<1>2. /\ Live(c) \subseteq Live(b)
      /\ \A x \in Live(c) : c.orders[x] = b.orders[x]
  BY DEF Canceled, Live, Books
<1>3. \A side \in Sides : LevelPrices(c, side) \subseteq LevelPrices(b, side)
  BY <1>2 DEF LevelPrices, SideOf
<1>4. QED
  BY <1>1, <1>2, <1>3, SmallerFits

LEMMA ReducedFits ==
    ASSUME NEW b \in Books, NEW id \in Live(b), NEW n \in Lots, Fits(b)
    PROVE  Fits(Reduced(b, id, n))
<1> DEFINE r == Reduced(b, id, n)
<1>1. CASE n >= b.orders[id].lots
  BY <1>1, CanceledFits DEF Reduced, Live
<1>2. CASE ~(n >= b.orders[id].lots)
  <2>1. r.orders = [b.orders EXCEPT ![id] = [b.orders[id] EXCEPT !.lots = @ - n]]
    BY <1>2 DEF Reduced
  <2>2. \A x \in Live(b) : r.orders[x].side = b.orders[x].side
                           /\ r.orders[x].price = b.orders[x].price
    BY <2>1, OrderFacts DEF Books, Orders, Live
  <2>3. Live(r) \subseteq Live(b)
    BY <2>1 DEF Live, Books
  <2>4. \A side \in Sides : LevelPrices(r, side) \subseteq LevelPrices(b, side)
    BY <2>2, <2>3 DEF LevelPrices, SideOf
  <2>5. QED
    BY <2>3, <2>4, ReducedType, SmallerFits
<1>3. QED BY <1>1, <1>2

\* The order that is put back takes the place it had.
LEMMA ModifiedFits ==
    ASSUME NEW b \in Books, NEW id \in Live(b), NEW o \in Orders, Fits(b)
    PROVE  Fits(Modified(b, id, o))
<1> DEFINE c == Canceled(b, id)
           old == b.orders[id]
<1>1. /\ c \in Books /\ Fits(c)
      /\ id \in OrderIds /\ old \in Orders
  BY CanceledType, CanceledFits, OrderFacts
<1>2. CASE CanModify(b, id, o)
  BY <1>1, <1>2, AddedFits DEF Modified, CanModify
<1>3. CASE ~CanModify(b, id, o)
  <2> DEFINE m == Added(c, id, old)
  <2>1. /\ Modified(b, id, o) = m
        /\ m \in Books
    BY <1>1, <1>3, AddedType DEF Modified
  <2>2. m.orders = b.orders
    BY DEF Added, Canceled, Books
  <2>3. /\ Live(m) = Live(b)
        /\ \A side \in Sides : LevelPrices(m, side) = LevelPrices(b, side)
    BY <2>2 DEF Live, LevelPrices, SideOf
  <2>4. QED
    BY <2>1, <2>3, SmallerFits
<1>4. QED BY <1>2, <1>3

\* The order of an undone modification fits where it was: taking the new order
\* out leaves the room that the old one had.
LEMMA PutBackFits ==
    ASSUME NEW b \in Books, NEW id \in Live(b), NEW o \in Orders, Fits(b), CanModify(b, id, o)
    PROVE  CanModify(Modified(b, id, o), id, b.orders[id])
<1> DEFINE c == Canceled(b, id)
           d == Canceled(Modified(b, id, o), id)
           old == b.orders[id]
<1>1. /\ c \in Books /\ id \in OrderIds /\ old \in Orders /\ old.side \in Sides
      /\ id \notin Live(c) /\ Live(b) = Live(c) \cup {id}
  BY CanceledType, OrderFacts, BookAssumption DEF Canceled, Live, Books, Orders
<1>2. d.orders = c.orders
  <2>1. Modified(b, id, o).orders = [b.orders EXCEPT ![id] = o]
    BY <1>1 DEF Modified, Added, Canceled, Books
  <2>2. QED BY <1>1, <2>1 DEF Canceled, Books
<1>3. /\ Live(d) = Live(c)
      /\ Level(d, old.side, old.price) = Level(c, old.side, old.price)
      /\ LevelPrices(d, old.side) = LevelPrices(c, old.side)
  BY <1>2 DEF Live, Level, LevelPrices, SideOf
<1>4. Cardinality(Live(c)) < PoolSize
  <2>1. IsFiniteSet(Live(c))
    BY <1>1, FiniteBook
  <2>2. Cardinality(Live(b)) = Cardinality(Live(c)) + 1 /\ Cardinality(Live(c)) \in Nat
    BY <1>1, <2>1, FS_AddElement, FS_CardinalityType
  <2>3. QED BY <2>2, BookAssumption DEF Fits
<1>5. \/ Level(c, old.side, old.price) # {}
      \/ Cardinality(LevelPrices(c, old.side)) < MaxLevels
  <2> SUFFICES ASSUME Level(c, old.side, old.price) = {}
               PROVE  Cardinality(LevelPrices(c, old.side)) < MaxLevels
    OBVIOUS
  <2>1. old.price \notin LevelPrices(c, old.side)
    BY DEF Level, LevelPrices
  <2>2. LevelPrices(b, old.side) = LevelPrices(c, old.side) \cup {old.price}
    <3>1. \A x \in OrderIds : x # id => c.orders[x] = b.orders[x]
      BY DEF Canceled, Books
    <3>2. SideOf(b, old.side) = SideOf(c, old.side) \cup {id}
      BY <1>1, <3>1 DEF SideOf, Live
    <3>3. id \notin SideOf(c, old.side) /\ SideOf(c, old.side) \subseteq OrderIds
      BY <1>1 DEF SideOf, Live
    <3> HIDE DEF c
    <3>4. QED BY <3>1, <3>2, <3>3 DEF LevelPrices
  <2>3. IsFiniteSet(LevelPrices(c, old.side))
    BY <1>1, FiniteBook
  <2>4. /\ Cardinality(LevelPrices(b, old.side)) = Cardinality(LevelPrices(c, old.side)) + 1
        /\ Cardinality(LevelPrices(c, old.side)) \in Nat
    BY <2>1, <2>2, <2>3, FS_AddElement, FS_CardinalityType
  <2>5. QED BY <1>1, <2>4, BookAssumption DEF Fits
<1>6. CanAdd(d, id, old)
  BY <1>1, <1>3, <1>4, <1>5 DEF CanAdd
<1>7. QED BY <1>6 DEF CanModify

-----------------------------------------------------------------------------
(* The theorems                                                            *)

\* The maker a trade takes is a resting order, and the trade takes no more
\* than either side has.
LEMMA TradeFacts ==
    ASSUME TypeOK, taker # NoTaker, taker.remaining > 0, NEW m \in OrderIds,
           IsBest(book, taker, m),
           NEW n, n = Smaller(taker.remaining, book.orders[m].lots)
    PROVE  /\ book \in Books /\ m \in Live(book)
           /\ n \in Lots /\ taker.remaining - n \in 0 .. MaxLots
           /\ [maker |-> m, lots |-> n, price |-> book.orders[m].price] \in Trades
<1>1. book \in Books /\ taker \in Takers
  BY DEF TypeOK, Books
<1>2. m \in Live(book)
  BY DEF IsBest, Candidates, SideOf
<1>3. /\ book.orders[m].lots \in Lots /\ book.orders[m].price \in Prices
      /\ taker.remaining \in 0 .. MaxLots
  BY <1>1, <1>2, OrderFacts DEF Takers
<1>4. n \in Lots /\ taker.remaining - n \in 0 .. MaxLots
  BY <1>3, BookAssumption DEF Smaller, Lots
<1>5. QED
  BY <1>1, <1>2, <1>3, <1>4 DEF Trades

LEMMA ResidualType ==
    ASSUME taker \in Takers, taker.remaining > 0
    PROVE  Residual(taker) \in Orders /\ taker.id \in OrderIds
BY BookAssumption DEF Takers, Residual, Orders, Lots

\* Every value a step of the book or of a match leaves behind is of its type.
THEOREM BookTypeCorrect == Spec => []TypeOK
<1>1. Init => TypeOK
  BY DEF Init, TypeOK, EmptyBook
<1>2. TypeOK /\ [Next]_vars => TypeOK'
  <2> SUFFICES ASSUME TypeOK, [Next]_vars PROVE TypeOK'
    OBVIOUS
  <2>1. book \in Books /\ taker \in Takers \cup {NoTaker}
    BY DEF TypeOK, Books
  <2> SUFFICES book' \in Books /\ taker' \in Takers \cup {NoTaker}
    BY DEF TypeOK, Books
  <2>2. ASSUME NEW id \in OrderIds, NEW o \in Orders, AddOrder(id, o)
        PROVE  book' \in Books /\ taker' \in Takers \cup {NoTaker}
    BY <2>1, <2>2, AddedType DEF AddOrder
  <2>3. ASSUME NEW id \in OrderIds, NEW o \in Orders, ModifyOrder(id, o)
        PROVE  book' \in Books /\ taker' \in Takers \cup {NoTaker}
    BY <2>1, <2>3, ModifiedType DEF ModifyOrder
  <2>4. ASSUME NEW id \in OrderIds, CancelOrder(id)
        PROVE  book' \in Books /\ taker' \in Takers \cup {NoTaker}
    BY <2>1, <2>4, CanceledType DEF CancelOrder
  <2>5. ASSUME NEW id \in OrderIds, NEW n \in Lots, CancelOrderPartial(id, n)
        PROVE  book' \in Books /\ taker' \in Takers \cup {NoTaker}
    BY <2>1, <2>5, ReducedType DEF CancelOrderPartial
  <2>6. ASSUME NEW id \in OrderIds, NEW side \in Sides, NEW type \in OrderTypes,
               NEW price \in Prices, NEW lots \in Lots, NEW rest \in BOOLEAN,
               MatchBegin(id, side, type, price, lots, rest)
        PROVE  book' \in Books /\ taker' \in Takers \cup {NoTaker}
    <3>1. lots \in 0 .. MaxLots /\ <<>> \in Seq(Trades)
      BY BookAssumption DEF Lots
    <3>2. QED
      BY <2>1, <2>6, <3>1 DEF MatchBegin, Takers
  <2>7. CASE MatchTrade
    <3>1. taker # NoTaker /\ taker \in Takers /\ taker.remaining > 0
      BY <2>1, <2>7 DEF MatchTrade
    <3>2. PICK m \in OrderIds :
            /\ IsBest(book, taker, m)
            /\ LET n == Smaller(taker.remaining, book.orders[m].lots) IN
               /\ taker' = [taker EXCEPT
                              !.remaining = @ - n,
                              !.trades = Append(@, [maker |-> m, lots |-> n,
                                                    price |-> book.orders[m].price])]
               /\ book' = Reduced(book, m, n)
      BY <2>7 DEF MatchTrade
    <3> DEFINE n == Smaller(taker.remaining, book.orders[m].lots)
               trade == [maker |-> m, lots |-> n, price |-> book.orders[m].price]
    <3>3. /\ m \in Live(book) /\ n \in Lots /\ trade \in Trades
          /\ taker.remaining - n \in 0 .. MaxLots
      BY <3>1, <3>2, TradeFacts
    <3>4. book' \in Books
      BY <2>1, <3>2, <3>3, ReducedType
    <3>5. Append(taker.trades, trade) \in Seq(Trades)
      BY <3>1, <3>3 DEF Takers
    <3>6. taker' = [taker EXCEPT !.remaining = taker.remaining - n,
                                 !.trades = Append(taker.trades, trade)]
      BY <3>2
    <3> HIDE DEF n, trade
    <3>7. taker' \in Takers
      BY <3>1, <3>3, <3>5, <3>6 DEF Takers
    <3>8. QED
      BY <3>4, <3>7
  <2>8. CASE MatchEnd
    <3>1. book' \in Books
      <4>1. CASE Rests(book, taker)
        BY <2>1, <2>8, <4>1, ResidualType, AddedType DEF MatchEnd, Rests
      <4>2. CASE ~Rests(book, taker)
        BY <2>1, <2>8, <4>2 DEF MatchEnd
      <4>3. QED BY <4>1, <4>2
    <3>2. QED
      BY <2>8, <3>1 DEF MatchEnd
  <2>9. CASE UNCHANGED vars
    BY <2>1, <2>9 DEF vars
  <2>10. QED
    BY <2>2, <2>3, <2>4, <2>5, <2>6, <2>7, <2>8, <2>9 DEF Next
<1>3. QED
  BY <1>1, <1>2, PTL DEF Spec

\* What any step may do to the book: nothing, or one of the four operations,
\* applied to what the operation requires.
LEMMA BookSteps ==
    ASSUME TypeOK, [Next]_vars
    PROVE  \/ book' = book
           \/ \E id \in OrderIds, o \in Orders :
                CanAdd(book, id, o) /\ book' = Added(book, id, o)
           \/ \E id \in OrderIds : book' = Canceled(book, id)
           \/ \E id \in Live(book), n \in Lots : book' = Reduced(book, id, n)
           \/ \E id \in Live(book), o \in Orders : book' = Modified(book, id, o)
<1>1. ASSUME NEW id \in OrderIds, NEW o \in Orders, AddOrder(id, o)
      PROVE  CanAdd(book, id, o) /\ book' = Added(book, id, o)
  BY <1>1 DEF AddOrder
<1>2. ASSUME NEW id \in OrderIds, NEW o \in Orders, ModifyOrder(id, o)
      PROVE  id \in Live(book) /\ book' = Modified(book, id, o)
  BY <1>2 DEF ModifyOrder
<1>3. ASSUME NEW id \in OrderIds, CancelOrder(id)
      PROVE  book' = Canceled(book, id)
  BY <1>3 DEF CancelOrder
<1>4. ASSUME NEW id \in OrderIds, NEW n \in Lots, CancelOrderPartial(id, n)
      PROVE  id \in Live(book) /\ book' = Reduced(book, id, n)
  BY <1>4 DEF CancelOrderPartial
<1>5. ASSUME NEW id \in OrderIds, NEW side \in Sides, NEW type \in OrderTypes,
             NEW price \in Prices, NEW lots \in Lots, NEW rest \in BOOLEAN,
             MatchBegin(id, side, type, price, lots, rest)
      PROVE  book' = book
  BY <1>5 DEF MatchBegin
<1>6. ASSUME MatchTrade
      PROVE  \E id \in Live(book), n \in Lots : book' = Reduced(book, id, n)
  <2>1. taker # NoTaker /\ taker.remaining > 0
    BY <1>6 DEF MatchTrade
  <2>2. PICK m \in OrderIds :
          /\ IsBest(book, taker, m)
          /\ book' = Reduced(book, m, Smaller(taker.remaining, book.orders[m].lots))
    BY <1>6 DEF MatchTrade
  <2>3. m \in Live(book) /\ Smaller(taker.remaining, book.orders[m].lots) \in Lots
    BY <2>1, <2>2, TradeFacts
  <2>4. QED BY <2>2, <2>3
<1>7. ASSUME MatchEnd
      PROVE  \/ book' = book
             \/ \E id \in OrderIds, o \in Orders :
                  CanAdd(book, id, o) /\ book' = Added(book, id, o)
  <2>1. CASE Rests(book, taker)
    <3>1. taker \in Takers /\ taker.remaining > 0
      BY <1>7, <2>1 DEF MatchEnd, Rests, TypeOK
    <3>2. CanAdd(book, taker.id, Residual(taker))
      BY <2>1 DEF Rests
    <3>3. book' = Added(book, taker.id, Residual(taker))
      BY <1>7, <2>1 DEF MatchEnd
    <3>4. QED BY <3>1, <3>2, <3>3, ResidualType
  <2>2. CASE ~Rests(book, taker)
    BY <1>7, <2>2 DEF MatchEnd
  <2>3. QED BY <2>1, <2>2
<1>8. CASE UNCHANGED vars
  BY <1>8 DEF vars
<1>9. QED
  BY <1>1, <1>2, <1>3, <1>4, <1>5, <1>6, <1>7, <1>8 DEF Next

\* match_order always has exactly one order to take next: however orders come,
\* go, shrink and are replaced, the orders of a level stay strictly and totally
\* ordered by arrival.
THEOREM BookPriorityTotal == Spec => []PriorityTotal
<1>1. Init => PriorityTotal
  BY DEF Init, PriorityTotal, TimePriority, EmptyBook, Live
<1>2. TypeOK /\ PriorityTotal /\ [Next]_vars => PriorityTotal'
  <2> SUFFICES ASSUME TypeOK, TimePriority(book), [Next]_vars
               PROVE  TimePriority(book')
    BY DEF PriorityTotal, TimePriority, Live, SameLevel
  <2>1. book \in Books
    BY DEF TypeOK, Books
  <2>2. CASE book' = book
    BY <2>2
  <2>3. ASSUME NEW id \in OrderIds, NEW o \in Orders,
               CanAdd(book, id, o), book' = Added(book, id, o)
        PROVE  TimePriority(book')
    BY <2>1, <2>3, AddedTimePriority DEF CanAdd
  <2>4. ASSUME NEW id \in OrderIds, book' = Canceled(book, id)
        PROVE  TimePriority(book')
    BY <2>1, <2>4, CanceledTimePriority
  <2>5. ASSUME NEW id \in Live(book), NEW n \in Lots, book' = Reduced(book, id, n)
        PROVE  TimePriority(book')
    BY <2>1, <2>5, ReducedTimePriority
  <2>6. ASSUME NEW id \in Live(book), NEW o \in Orders, book' = Modified(book, id, o)
        PROVE  TimePriority(book')
    BY <2>1, <2>6, ModifiedTimePriority
  <2>7. QED
    BY <2>2, <2>3, <2>4, <2>5, <2>6, BookSteps
<1>3. QED
  BY <1>1, <1>2, BookTypeCorrect, PTL DEF Spec

\* No sequence of operations overflows the node pool or a side's level array.
\* The invariant carries the order that modify_order puts back: it always fits.
THEOREM BookWithinCapacity == Spec => []WithinCapacity
<1>1. Init => WithinCapacity
  <2>1. /\ Live(EmptyBook) = {}
        /\ \A side \in Sides : LevelPrices(EmptyBook, side) = {}
    BY DEF Live, EmptyBook, LevelPrices, SideOf
  <2>2. Fits(EmptyBook)
    BY <2>1, FS_EmptySet, BookAssumption DEF Fits
  <2>3. QED BY <2>2 DEF Init, WithinCapacity
<1>2. TypeOK /\ WithinCapacity /\ [Next]_vars => WithinCapacity'
  <2> SUFFICES ASSUME TypeOK, Fits(book), [Next]_vars
               PROVE  Fits(book')
    BY DEF WithinCapacity, Fits, Live, LevelPrices, SideOf
  <2>1. book \in Books
    BY DEF TypeOK, Books
  <2>2. CASE book' = book
    BY <2>2
  <2>3. ASSUME NEW id \in OrderIds, NEW o \in Orders,
               CanAdd(book, id, o), book' = Added(book, id, o)
        PROVE  Fits(book')
    BY <2>1, <2>3, AddedFits
  <2>4. ASSUME NEW id \in OrderIds, book' = Canceled(book, id)
        PROVE  Fits(book')
    BY <2>1, <2>4, CanceledFits
  <2>5. ASSUME NEW id \in Live(book), NEW n \in Lots, book' = Reduced(book, id, n)
        PROVE  Fits(book')
    BY <2>1, <2>5, ReducedFits
  <2>6. ASSUME NEW id \in Live(book), NEW o \in Orders, book' = Modified(book, id, o)
        PROVE  Fits(book')
    BY <2>1, <2>6, ModifiedFits
  <2>7. QED
    BY <2>2, <2>3, <2>4, <2>5, <2>6, BookSteps
<1>3. QED
  BY <1>1, <1>2, BookTypeCorrect, PTL DEF Spec
=============================================================================
