-------------------------- MODULE OrderBookProofs --------------------------
(***************************************************************************)
(* The order book, for every set of identifiers, prices, pool capacity and *)
(* level capacity.  The linked levels, the node pool and the lookup table  *)
(* stand at every step for a list of orders per side and price (Inv); a    *)
(* match fills exactly what executable_lots answered (MatchInv); and every *)
(* operation and every trade of a match is what PriceTimeBook says of it.  *)
(***************************************************************************)
EXTENDS OrderBook, SumProofs, SequenceTheorems

LEMMA Constants ==
    /\ IsFiniteSet(OrderIds) /\ Prices \subseteq Int /\ \A p \in Prices : p \in Int /\ p > 0
    /\ MaxLots \in Nat /\ MaxLots > 0
    /\ PoolSize \in Nat /\ PoolSize > 0
    /\ MaxLevels \in Nat /\ MaxLevels > 0
    /\ NoOrder \notin Orders /\ NoOrder \notin Locators
    /\ NoTaker \notin Takers /\ NoTaker \notin Cursors
BY BookAssumption, StructureAssumption

-----------------------------------------------------------------------------
(* The bisection of find_level_index                                       *)

\* One step of the bisection of the range from left to right, given what it
\* finds in the smaller ranges.
Bisected(ls, side, price, g, left, right) ==
    LET mid == left + ((right - left) \div 2)
    IN  IF left >= right THEN [found |-> FALSE, at |-> left + 1]
        ELSE IF ls[mid + 1].price = price THEN [found |-> TRUE, at |-> mid + 1]
        ELSE IF BetterOrEqual(side, ls[mid + 1].price, price)
             THEN g[<<mid + 1, right>>]
             ELSE g[<<left, mid>>]

Bounds(ls) == (0 .. Len(ls)) \X (0 .. Len(ls))

Bisects(ls, side, price, g) ==
    g = [range \in Bounds(ls) |-> Bisected(ls, side, price, g, range[1], range[2])]

\* find_level_index bisects the whole array of the side.
LEMMA FindLevelBisects ==
    ASSUME NEW s, NEW side, NEW price
    PROVE  FindLevel(s, side, price) =
             (CHOOSE g : Bisects(s.levels[side], side, price, g))[<<0, Len(s.levels[side])>>]
BY DEF FindLevel, Bisects, Bisected, Bounds

LinkValues == Nodes \cup {NIL}

LevelRecords == [price : Prices, head : LinkValues, tail : LinkValues, total : Int, count : Nat]

\* Best price first, and no price twice.
Sorted(side, ls) ==
    \A j, k \in 1 .. Len(ls) : j < k => ~BetterOrEqual(side, ls[k].price, ls[j].price)

\* How many of the levels are at the price or at a better one.
Rank(side, ls, price, m) ==
    /\ m \in 0 .. Len(ls)
    /\ \A j \in 1 .. Len(ls) : BetterOrEqual(side, ls[j].price, price) <=> j <= m

\* The fields of the levels of a side.
LEMMA LevelFacts ==
    ASSUME NEW ls \in Seq(LevelRecords)
    PROVE  /\ Len(ls) \in Nat /\ DOMAIN ls = 1 .. Len(ls)
           /\ \A j \in 1 .. Len(ls) :
                /\ ls[j] \in LevelRecords
                /\ ls[j].price \in Prices /\ ls[j].price \in Int
                /\ ls[j].head \in LinkValues /\ ls[j].tail \in LinkValues
                /\ ls[j].total \in Int /\ ls[j].count \in Nat
<1>1. Len(ls) \in Nat /\ DOMAIN ls = 1 .. Len(ls)
  OBVIOUS
<1>2. \A j \in 1 .. Len(ls) : ls[j] \in LevelRecords
  BY ElementOfSeq
<1>3. \A r \in LevelRecords : /\ r.price \in Prices /\ r.price \in Int
                              /\ r.head \in LinkValues /\ r.tail \in LinkValues
                              /\ r.total \in Int /\ r.count \in Nat
  BY Constants DEF LevelRecords
<1>4. QED BY <1>1, <1>2, <1>3

\* In a sorted array there is a place before which all levels are better.
LEMMA RankExists ==
    ASSUME NEW side \in Sides, NEW ls \in Seq(LevelRecords), Sorted(side, ls), NEW price \in Prices
    PROVE  \E m : Rank(side, ls, price, m)
<1> DEFINE n == Len(ls)
           S == {j \in 1 .. n : ~BetterOrEqual(side, ls[j].price, price)}
<1>1. n \in Nat /\ \A j \in 1 .. n : ls[j].price \in Int
  BY LevelFacts
<1>2. CASE S = {}
  <2>1. Rank(side, ls, price, n)
    BY <1>1, <1>2 DEF Rank
  <2>2. QED BY <2>1
<1>3. CASE S # {}
  <2>1. PICK k \in S : \A j \in S : k <= j
    <3>1. S \subseteq Nat
      OBVIOUS
    <3> HIDE DEF S
    <3>2. QED BY <1>3, <3>1, Least
  <2>2. k \in 1 .. n /\ ~BetterOrEqual(side, ls[k].price, price)
    BY <2>1
  <2>3. ASSUME NEW j \in 1 .. n PROVE BetterOrEqual(side, ls[j].price, price) <=> j <= k - 1
    <3>1. CASE j < k
      BY <1>1, <2>1, <2>2, <3>1
    <3>2. CASE j = k
      BY <1>1, <2>2, <3>2
    <3>3. CASE j > k
      <4>1. ~BetterOrEqual(side, ls[j].price, ls[k].price)
        BY <2>2, <3>3 DEF Sorted
      <4>2. ls[j].price \in Int /\ ls[k].price \in Int /\ price \in Int
        BY <1>1, <2>2, Constants
      <4>3. QED BY <2>2, <3>3, <4>1, <4>2 DEF BetterOrEqual
    <3>4. QED BY <1>1, <2>2, <3>1, <3>2, <3>3
  <2>4. Rank(side, ls, price, k - 1)
    BY <1>1, <2>2, <2>3 DEF Rank
  <2>5. QED BY <2>4
<1>4. QED BY <1>2, <1>3

\* Only the last of the levels that are at the price or better can be at it.
LEMMA RankIsPlace ==
    ASSUME NEW side \in Sides, NEW ls \in Seq(LevelRecords), Sorted(side, ls), NEW price \in Prices,
           NEW m, Rank(side, ls, price, m), NEW j \in 1 .. Len(ls), ls[j].price = price
    PROVE  j = m
<1>1. ls[j].price \in Int /\ price \in Int /\ Len(ls) \in Nat /\ m \in 0 .. Len(ls)
  BY LevelFacts, Constants DEF Rank
<1>2. j <= m
  <2>1. BetterOrEqual(side, ls[j].price, price)
    BY <1>1 DEF BetterOrEqual
  <2>2. QED BY <2>1 DEF Rank
<1>3. CASE j < m
  <2>1. ~BetterOrEqual(side, ls[m].price, ls[j].price)
    BY <1>1, <1>3 DEF Sorted
  <2>2. BetterOrEqual(side, ls[m].price, price)
    BY <1>1, <1>3 DEF Rank
  <2>3. QED BY <2>1, <2>2
<1>4. QED BY <1>1, <1>2, <1>3

FoundAt(k) == [found |-> TRUE, at |-> k]
MissingAt(k) == [found |-> FALSE, at |-> k]

\* What the bisection of a range finds, when m levels are at the price or at a
\* better one and the level `hit`, if that is not 0, is at the price.
Place(m, hit, left, right) ==
    IF left >= right THEN MissingAt(left + 1)
    ELSE IF left < hit /\ hit <= right THEN FoundAt(hit)
    ELSE IF m <= left THEN MissingAt(left + 1)
    ELSE IF m >= right THEN MissingAt(right + 1)
    ELSE MissingAt(m + 1)

Hit(ls, price, m) == IF m > 0 /\ ls[m].price = price THEN m ELSE 0

Narrower(ls, m, hit, g, width) ==
    \A l, r \in 0 .. Len(ls) : r - l < width => g[<<l, r>>] = Place(m, hit, l, r)

\* Whether a range of the array holds the place is decided at its middle.
LEMMA PlaceBisected ==
    ASSUME NEW side \in Sides, NEW ls \in Seq(LevelRecords), Sorted(side, ls), NEW price \in Prices,
           NEW m, Rank(side, ls, price, m), NEW hit, hit = Hit(ls, price, m),
           NEW g, NEW left \in 0 .. Len(ls), NEW right \in 0 .. Len(ls),
           Narrower(ls, m, hit, g, right - left)
    PROVE  Bisected(ls, side, price, g, left, right) = Place(m, hit, left, right)
<1> m \in Int /\ hit \in Int /\ (hit = 0 \/ hit = m) /\ Len(ls) \in Nat
  BY DEF Rank, Hit
<1>1. CASE left >= right
  BY <1>1 DEF Bisected, Place, MissingAt
<1>2. CASE left < right
  <2> DEFINE mid == left + ((right - left) \div 2)
  <2>1. mid \in left .. (right - 1) /\ mid + 1 \in 1 .. Len(ls) /\ m \in 0 .. Len(ls)
    BY <1>2 DEF Rank
  <2> HIDE DEF mid
  <2>2. Bisected(ls, side, price, g, left, right) =
          IF ls[mid + 1].price = price THEN FoundAt(mid + 1)
          ELSE IF BetterOrEqual(side, ls[mid + 1].price, price)
               THEN g[<<mid + 1, right>>] ELSE g[<<left, mid>>]
    BY <1>2 DEF Bisected, mid, FoundAt
  <2>3. CASE ls[mid + 1].price = price
    <3>1. mid + 1 = m
      BY <2>1, <2>3, RankIsPlace
    <3>2. hit = mid + 1
      BY <2>1, <2>3, <3>1 DEF Hit
    <3>3. Place(m, hit, left, right) = FoundAt(mid + 1)
      BY <1>2, <2>1, <3>2 DEF Place
    <3>4. QED BY <2>2, <2>3, <3>3
  <2>4. CASE ls[mid + 1].price # price
    <3>1. hit # mid + 1
      BY <2>1, <2>4 DEF Hit
    <3> left \in Nat /\ right \in Int /\ mid \in Int /\ left <= mid /\ mid < right
      BY <1>2, <2>1
    <3>2. CASE BetterOrEqual(side, ls[mid + 1].price, price)
      <4>1. mid + 1 <= m
        BY <2>1, <3>2 DEF Rank
      <4>2. g[<<mid + 1, right>>] = Place(m, hit, mid + 1, right)
        BY <1>2, <2>1 DEF Narrower
      <4>3. Place(m, hit, mid + 1, right) = Place(m, hit, left, right)
        <5>1. PICK up \in Int : up = mid + 1
          OBVIOUS
        <5>2. Place(m, hit, up, right) = Place(m, hit, left, right)
          <6>1. left < up /\ up <= right /\ hit # up /\ up <= m
            BY <3>1, <4>1, <5>1
          <6>2. QED BY <6>1 DEF Place
        <5>3. QED BY <5>1, <5>2
      <4>4. QED BY <2>2, <2>4, <3>2, <4>2, <4>3
    <3>3. CASE ~BetterOrEqual(side, ls[mid + 1].price, price)
      <4>1. m <= mid
        BY <2>1, <3>3 DEF Rank
      <4>2. g[<<left, mid>>] = Place(m, hit, left, mid)
        BY <1>2, <2>1 DEF Narrower
      <4>3. Place(m, hit, left, mid) = Place(m, hit, left, right)
        BY <3>1, <4>1 DEF Place
      <4>4. QED BY <2>2, <2>4, <3>3, <4>2, <4>3
    <3>4. QED BY <3>2, <3>3
  <2>5. QED BY <2>3, <2>4
<1>3. QED BY <1>1, <1>2

\* The bisection of a range that holds the place finds the place.
LEMMA BisectsIsPlace ==
    ASSUME NEW side \in Sides, NEW ls \in Seq(LevelRecords), Sorted(side, ls), NEW price \in Prices,
           NEW m, Rank(side, ls, price, m), NEW hit, hit = Hit(ls, price, m),
           NEW g, Bisects(ls, side, price, g), NEW left \in 0 .. Len(ls), NEW right \in 0 .. Len(ls)
    PROVE  g[<<left, right>>] = Place(m, hit, left, right)
<1>1. Len(ls) \in Nat
  OBVIOUS
<1>2. \A l, r \in 0 .. Len(ls) : g[<<l, r>>] = Bisected(ls, side, price, g, l, r)
  <2>1. g = [range \in Bounds(ls) |-> Bisected(ls, side, price, g, range[1], range[2])]
    BY DEF Bisects
  <2> TAKE l, r \in 0 .. Len(ls)
  <2>2. PICK x : x = <<l, r>>
    OBVIOUS
  <2>3. x \in Bounds(ls) /\ x[1] = l /\ x[2] = r
    BY <2>2 DEF Bounds
  <2>4. g[x] = Bisected(ls, side, price, g, x[1], x[2])
    BY <2>1, <2>3, Zenon
  <2>5. QED BY <2>2, <2>3, <2>4
<1> DEFINE Wrong(l, r) == g[<<l, r>>] # Place(m, hit, l, r)
           Bad == {w \in 0 .. (2 * Len(ls)) :
                     \E l, r \in 0 .. Len(ls) : w = r - l + Len(ls) /\ Wrong(l, r)}
<1>3. CASE Bad = {}
  <2>1. PICK w : w = right - left + Len(ls)
    OBVIOUS
  <2>2. w \in 0 .. (2 * Len(ls))
    BY <1>1, <2>1
  <2> HIDE DEF Wrong
  <2>3. ~Wrong(left, right)
    BY <1>3, <2>1, <2>2
  <2>4. QED BY <2>3 DEF Wrong
<1>4. CASE Bad # {}
  <2>1. PICK w \in Bad : \A v \in Bad : w <= v
    <3>1. Bad \subseteq Nat
      OBVIOUS
    <3> HIDE DEF Bad
    <3>2. QED BY <1>4, <3>1, Least
  <2>2. PICK l \in 0 .. Len(ls), r \in 0 .. Len(ls) : w = r - l + Len(ls) /\ Wrong(l, r)
    <3> HIDE DEF Wrong
    <3>1. QED BY <2>1
  <2>3. Narrower(ls, m, hit, g, r - l)
    <3> SUFFICES ASSUME NEW x \in 0 .. Len(ls), NEW y \in 0 .. Len(ls), y - x < r - l
                 PROVE  ~Wrong(x, y)
      BY DEF Narrower
    <3> HIDE DEF Wrong
    <3>1. PICK v : v = y - x + Len(ls)
      OBVIOUS
    <3>2. v \in 0 .. (2 * Len(ls)) /\ v < w /\ v \in Int /\ w \in Int
      <4>1. PICK n \in Nat : n = Len(ls)
        BY <1>1
      <4>2. w = r - l + n /\ v = y - x + n /\ y - x < r - l
        BY <2>2, <3>1, <4>1
      <4>3. l \in 0 .. n /\ r \in 0 .. n /\ x \in 0 .. n /\ y \in 0 .. n
        BY <4>1
      <4>4. v \in 0 .. (2 * n) /\ v < w /\ v \in Int /\ w \in Int
        BY <4>2, <4>3
      <4>5. QED BY <4>1, <4>4
    <3>3. v \notin Bad
      <4> HIDE DEF Bad
      <4>1. QED BY <2>1, <3>2
    <3>4. QED BY <3>1, <3>2, <3>3
  <2>4. Bisected(ls, side, price, g, l, r) = Place(m, hit, l, r)
    <3> HIDE DEF Wrong, Bad
    <3>1. QED BY <2>3, PlaceBisected
  <2>5. QED BY <1>2, <2>2, <2>4
<1>5. QED BY <1>3, <1>4

LEMMA PlacesBisect ==
    ASSUME NEW side \in Sides, NEW ls \in Seq(LevelRecords), Sorted(side, ls), NEW price \in Prices,
           NEW m, Rank(side, ls, price, m), NEW hit, hit = Hit(ls, price, m)
    PROVE  \E g : Bisects(ls, side, price, g)
<1> DEFINE g == [range \in Bounds(ls) |-> Place(m, hit, range[1], range[2])]
<1>1. \A l, r \in 0 .. Len(ls) : g[<<l, r>>] = Place(m, hit, l, r)
  <2> TAKE l, r \in 0 .. Len(ls)
  <2>1. PICK x : x = <<l, r>>
    OBVIOUS
  <2>2. x \in Bounds(ls) /\ x[1] = l /\ x[2] = r
    BY <2>1 DEF Bounds
  <2>3. g[x] = Place(m, hit, x[1], x[2])
    BY <2>2, Zenon
  <2> HIDE DEF g
  <2>4. QED BY <2>1, <2>2, <2>3
<1>2. \A range \in Bounds(ls) :
        Place(m, hit, range[1], range[2]) = Bisected(ls, side, price, g, range[1], range[2])
  <2> HIDE DEF g
  <2> TAKE range \in Bounds(ls)
  <2>1. PICK l \in 0 .. Len(ls), r \in 0 .. Len(ls) : range[1] = l /\ range[2] = r
    BY DEF Bounds
  <2>2. Narrower(ls, m, hit, g, r - l)
    BY <1>1 DEF Narrower
  <2>3. Bisected(ls, side, price, g, l, r) = Place(m, hit, l, r)
    BY <2>2, PlaceBisected
  <2>4. QED BY <2>1, <2>3
<1>3. g = [range \in Bounds(ls) |-> Bisected(ls, side, price, g, range[1], range[2])]
  <2>1. g = [range \in Bounds(ls) |-> Place(m, hit, range[1], range[2])]
    OBVIOUS
  <2> HIDE DEF g
  <2>2. QED BY <1>2, <2>1, Zenon
<1>4. Bisects(ls, side, price, g)
  <2> HIDE DEF g
  <2>1. QED BY <1>3 DEF Bisects
<1>5. QED BY <1>4

\* What find_level_index answers on a sorted side: the level at the price, or
\* the place where it would keep the side sorted.
LEMMA FindLevelFinds ==
    ASSUME NEW s, NEW side \in Sides, s.levels[side] \in Seq(LevelRecords),
           Sorted(side, s.levels[side]), NEW price \in Prices
    PROVE  \E m : /\ Rank(side, s.levels[side], price, m)
                  /\ FindLevel(s, side, price) =
                       IF m > 0 /\ s.levels[side][m].price = price THEN FoundAt(m)
                       ELSE MissingAt(m + 1)
<1>1. PICK ls : ls = s.levels[side]
  OBVIOUS
<1>2. ls \in Seq(LevelRecords) /\ Sorted(side, ls) /\ Len(ls) \in Nat
  BY <1>1
<1>3. PICK m : Rank(side, ls, price, m)
  BY <1>2, RankExists
<1>4. PICK hit : hit = Hit(ls, price, m)
  OBVIOUS
<1>5. PICK g : g = CHOOSE h : Bisects(ls, side, price, h)
  OBVIOUS
<1>6. Bisects(ls, side, price, g)
  <2>1. \E h : Bisects(ls, side, price, h)
    BY <1>2, <1>3, <1>4, PlacesBisect
  <2>2. QED BY <1>5, <2>1
<1>7. g[<<0, Len(ls)>>] = Place(m, hit, 0, Len(ls))
  <2>1. 0 \in 0 .. Len(ls) /\ Len(ls) \in 0 .. Len(ls)
    BY <1>2
  <2>2. QED BY <1>2, <1>3, <1>4, <1>6, <2>1, BisectsIsPlace
<1>8. FindLevel(s, side, price) = g[<<0, Len(ls)>>]
  BY <1>1, <1>5, FindLevelBisects
<1>9. Place(m, hit, 0, Len(ls)) =
        IF m > 0 /\ ls[m].price = price THEN FoundAt(m) ELSE MissingAt(m + 1)
  <2>1. m \in 0 .. Len(ls)
    BY <1>3 DEF Rank
  <2>2. CASE m > 0 /\ ls[m].price = price
    <3>1. hit = m
      BY <1>4, <2>2 DEF Hit
    <3>2. QED BY <1>2, <2>1, <2>2, <3>1 DEF Place
  <2>3. CASE ~(m > 0 /\ ls[m].price = price)
    <3>1. hit = 0
      BY <1>4, <2>3 DEF Hit
    <3>2. QED BY <1>2, <2>1, <2>3, <3>1 DEF Place
  <2>4. QED BY <2>2, <2>3
<1>10. QED BY <1>1, <1>3, <1>7, <1>8, <1>9

\* find_level_index finds the level of the price, or where it belongs.
LEMMA FindLevelFacts ==
    ASSUME NEW s, NEW side \in Sides, NEW ls, ls = s.levels[side], ls \in Seq(LevelRecords),
           Sorted(side, ls), NEW price \in Prices,
           NEW w, w = FindLevel(s, side, price)
    PROVE  /\ w.at \in 1 .. Len(ls) + 1
           /\ w.found <=> \E j \in 1 .. Len(ls) : ls[j].price = price
           /\ w.found => w.at \in 1 .. Len(ls) /\ ls[w.at].price = price
           /\ \A j \in 1 .. Len(ls) : ls[j].price = price => j = w.at
           /\ ~w.found => \A j \in 1 .. Len(ls) :
                /\ j < w.at => ~BetterOrEqual(side, price, ls[j].price)
                /\ j >= w.at => ~BetterOrEqual(side, ls[j].price, price)
<1>1. PICK m : /\ Rank(side, ls, price, m)
               /\ w = IF m > 0 /\ ls[m].price = price THEN FoundAt(m) ELSE MissingAt(m + 1)
  BY FindLevelFinds
<1>2. /\ m \in 0 .. Len(ls) /\ Len(ls) \in Nat
      /\ \A j \in 1 .. Len(ls) : BetterOrEqual(side, ls[j].price, price) <=> j <= m
  BY <1>1, LevelFacts DEF Rank
<1>3. \A j \in 1 .. Len(ls) : ls[j].price = price => j = m
  BY <1>1, RankIsPlace
<1>4. price \in Int /\ \A j \in 1 .. Len(ls) : ls[j].price \in Int
  BY LevelFacts, Constants
<1>5. CASE m > 0 /\ ls[m].price = price
  <2>1. w.at = m /\ (w.found <=> TRUE)
    BY <1>1, <1>5 DEF FoundAt
  <2>2. m \in 1 .. Len(ls)
    BY <1>2, <1>5
  <2>3. QED BY <1>2, <1>3, <1>5, <2>1, <2>2
<1>6. CASE ~(m > 0 /\ ls[m].price = price)
  <2>1. w.at = m + 1 /\ (w.found <=> FALSE)
    BY <1>1, <1>6 DEF MissingAt
  <2>2. \A j \in 1 .. Len(ls) : ls[j].price # price
    BY <1>2, <1>3, <1>6
  <2>3. ASSUME NEW j \in 1 .. Len(ls), j < w.at PROVE ~BetterOrEqual(side, price, ls[j].price)
    <3>1. BetterOrEqual(side, ls[j].price, price)
      BY <1>2, <2>1, <2>3
    <3>2. ls[j].price \in Int /\ price \in Int /\ ls[j].price # price
      BY <1>4, <2>2
    <3>3. QED BY <3>1, <3>2 DEF BetterOrEqual
  <2>4. ASSUME NEW j \in 1 .. Len(ls), j >= w.at PROVE ~BetterOrEqual(side, ls[j].price, price)
    BY <1>2, <2>1, <2>4
  <2>5. QED BY <1>2, <2>1, <2>2, <2>3, <2>4
<1>7. QED BY <1>5, <1>6

-----------------------------------------------------------------------------
(* Inserting into and removing from a sequence                             *)

\* x is ls with e put in at a.
PutIn(ls, a, e, x) ==
    \A j \in 1 .. Len(ls) + 1 : x[j] = IF j < a THEN ls[j] ELSE IF j = a THEN e ELSE ls[j - 1]

\* Which element is where after an insertion.
LEMMA InsertAtFacts ==
    ASSUME NEW S, NEW s \in Seq(S), NEW a \in 1 .. Len(s) + 1, NEW e \in S
    PROVE  /\ InsertAt(s, a, e) \in Seq(S)
           /\ Len(InsertAt(s, a, e)) = Len(s) + 1
           /\ PutIn(s, a, e, InsertAt(s, a, e))
<1>1. Len(s) \in Nat
  OBVIOUS
<1>2. PICK l, m, r : l = SubSeq(s, 1, a - 1) /\ m = <<e>> /\ r = SubSeq(s, a, Len(s))
  OBVIOUS
<1>3. l \in Seq(S) /\ Len(l) = a - 1 /\ \A j \in 1 .. a - 1 : l[j] = s[j]
  <2>1. \A i \in 1 .. a - 1 : s[i] \in S
    BY <1>1
  <2>2. QED BY <1>1, <1>2, <2>1, SubSeqProperties
<1>4. r \in Seq(S) /\ Len(r) = Len(s) - a + 1 /\ \A j \in 1 .. Len(s) - a + 1 : r[j] = s[a + j - 1]
  <2>1. \A i \in a .. Len(s) : s[i] \in S
    BY <1>1
  <2>2. QED BY <1>1, <1>2, <2>1, SubSeqProperties
<1>5. m \in Seq(S) /\ Len(m) = 1 /\ m[1] = e
  <2>1. <<e>> \in Seq(S) /\ Len(<<e>>) = 1 /\ <<e>>[1] = e
    OBVIOUS
  <2>2. QED BY <1>2, <2>1
<1>6. PICK lm : lm = l \o m
  OBVIOUS
<1>7. /\ lm \in Seq(S) /\ Len(lm) = a
      /\ \A j \in 1 .. a : lm[j] = IF j <= a - 1 THEN s[j] ELSE e
  <2>1. /\ lm \in Seq(S) /\ Len(lm) = Len(l) + Len(m)
        /\ \A j \in 1 .. Len(l) + Len(m) : lm[j] = IF j <= Len(l) THEN l[j] ELSE m[j - Len(l)]
    BY <1>3, <1>5, <1>6, ConcatProperties
  <2>2. Len(l) = a - 1 /\ Len(l) + Len(m) = a
    BY <1>1, <1>3, <1>5
  <2>3. \A j \in 1 .. a : lm[j] = IF j <= a - 1 THEN s[j] ELSE e
    BY <1>1, <1>3, <1>5, <2>1, <2>2
  <2>4. QED BY <2>1, <2>2, <2>3
<1>8. InsertAt(s, a, e) = lm \o r
  BY <1>2, <1>6 DEF InsertAt
<1>9. PICK x : x = lm \o r
  OBVIOUS
<1>10. /\ x \in Seq(S) /\ Len(x) = Len(s) + 1
       /\ \A j \in 1 .. Len(s) + 1 : x[j] = IF j <= a THEN lm[j] ELSE r[j - a]
  <2>1. /\ x \in Seq(S) /\ Len(x) = Len(lm) + Len(r)
        /\ \A j \in 1 .. Len(lm) + Len(r) : x[j] = IF j <= Len(lm) THEN lm[j] ELSE r[j - Len(lm)]
    BY <1>4, <1>7, <1>9, ConcatProperties
  <2>2. Len(lm) = a /\ Len(lm) + Len(r) = Len(s) + 1
    BY <1>1, <1>4, <1>7
  <2>3. QED BY <2>1, <2>2
<1>11. ASSUME NEW j \in 1 .. Len(s) + 1
       PROVE  x[j] = IF j < a THEN s[j] ELSE IF j = a THEN e ELSE s[j - 1]
  <2>1. CASE j <= a
    BY <1>7, <1>10, <2>1
  <2>2. CASE j > a
    <3>1. j - a \in 1 .. Len(s) - a + 1 /\ a + (j - a) - 1 = j - 1
      BY <1>1, <2>2
    <3>2. x[j] = r[j - a]
      BY <1>1, <1>10, <2>2
    <3>3. r[j - a] = s[a + (j - a) - 1]
      BY <1>4, <3>1
    <3>4. QED BY <1>1, <2>2, <3>1, <3>2, <3>3
  <2>3. QED BY <1>1, <2>1, <2>2
<1>12. PutIn(s, a, e, x)
  BY <1>11 DEF PutIn
<1>13. QED BY <1>8, <1>9, <1>10, <1>12

\* Which element is where after a removal.
LEMMA RemoveAtFacts ==
    ASSUME NEW S, NEW s \in Seq(S), NEW a \in 1 .. Len(s)
    PROVE  /\ RemoveAt(s, a) \in Seq(S)
           /\ Len(RemoveAt(s, a)) = Len(s) - 1
           /\ \A j \in 1 .. Len(s) - 1 : RemoveAt(s, a)[j] = IF j < a THEN s[j] ELSE s[j + 1]
<1>1. Len(s) \in Nat
  OBVIOUS
<1>2. PICK l, r : l = SubSeq(s, 1, a - 1) /\ r = SubSeq(s, a + 1, Len(s))
  OBVIOUS
<1>3. l \in Seq(S) /\ Len(l) = a - 1 /\ \A j \in 1 .. a - 1 : l[j] = s[j]
  <2>1. \A i \in 1 .. a - 1 : s[i] \in S
    BY <1>1
  <2>2. QED BY <1>1, <1>2, <2>1, SubSeqProperties
<1>4. r \in Seq(S) /\ Len(r) = Len(s) - a /\ \A j \in 1 .. Len(s) - a : r[j] = s[a + j]
  <2>1. \A i \in a + 1 .. Len(s) : s[i] \in S
    BY <1>1
  <2>2. /\ r \in Seq(S) /\ Len(r) = (IF a + 1 <= Len(s) THEN Len(s) - (a + 1) + 1 ELSE 0)
        /\ \A j \in 1 .. Len(s) - (a + 1) + 1 : r[j] = s[(a + 1) + j - 1]
    BY <1>1, <1>2, <2>1, SubSeqProperties
  <2>3. QED BY <1>1, <2>2
<1>5. PICK x : x = l \o r
  OBVIOUS
<1>6. /\ x \in Seq(S) /\ Len(x) = Len(s) - 1
      /\ \A j \in 1 .. Len(s) - 1 : x[j] = IF j <= a - 1 THEN l[j] ELSE r[j - (a - 1)]
  <2>1. /\ x \in Seq(S) /\ Len(x) = Len(l) + Len(r)
        /\ \A j \in 1 .. Len(l) + Len(r) : x[j] = IF j <= Len(l) THEN l[j] ELSE r[j - Len(l)]
    BY <1>3, <1>4, <1>5, ConcatProperties
  <2>2. Len(l) = a - 1 /\ Len(l) + Len(r) = Len(s) - 1
    BY <1>1, <1>3, <1>4
  <2>3. QED BY <2>1, <2>2
<1>7. ASSUME NEW j \in 1 .. Len(s) - 1 PROVE x[j] = IF j < a THEN s[j] ELSE s[j + 1]
  <2>1. CASE j < a
    BY <1>1, <1>3, <1>6, <2>1
  <2>2. CASE j >= a
    <3>1. j - (a - 1) \in 1 .. Len(s) - a /\ a + (j - (a - 1)) = j + 1
      BY <1>1, <2>2
    <3>2. x[j] = r[j - (a - 1)]
      BY <1>1, <1>6, <2>2
    <3>3. r[j - (a - 1)] = s[a + (j - (a - 1))]
      BY <1>4, <3>1
    <3>4. QED BY <1>1, <2>2, <3>1, <3>2, <3>3
  <2>3. QED BY <1>1, <2>1, <2>2
<1>8. RemoveAt(s, a) = x
  BY <1>2, <1>5 DEF RemoveAt
<1>9. QED BY <1>6, <1>7, <1>8

-----------------------------------------------------------------------------
(* The invariant                                                           *)
(*                                                                         *)
(* L says which nodes each level holds, in order: L[side][price] is the    *)
(* list of a level, empty where there is none.  The structure is sound     *)
(* when there are such lists that the links, the ends, the totals, the     *)
(* level arrays and the lookup table all agree with.                       *)

NodeRecords == [id : OrderIds \cup {NoOrder}, lots : 0 .. MaxLots, prev : LinkValues, next : LinkValues]

Pools == [Nodes -> NodeRecords]

Structures == [pool : Pools, used : SUBSET Nodes, free : Seq(Nodes),
               levels : [Sides -> Seq(LevelRecords)],
               lookup : [OrderIds -> Locators \cup {NoOrder}]]

Lists == [Sides -> [Prices -> Seq(Nodes)]]

LotsOf(pool) == [i \in Nodes |-> pool[i].lots]

Total(pool, c) == Sum(LotsOf(pool), Range(c))

Linked(pool, c) ==
    \A k \in 1 .. Len(c) :
      /\ pool[c[k]].prev = IF k = 1 THEN NIL ELSE c[k - 1]
      /\ pool[c[k]].next = IF k = Len(c) THEN NIL ELSE c[k + 1]

FirstOf(c) == IF Len(c) = 0 THEN NIL ELSE c[1]
LastOf(c) == IF Len(c) = 0 THEN NIL ELSE c[Len(c)]

LevelIs(pool, level, c) ==
    /\ level.count = Len(c)
    /\ level.head = FirstOf(c) /\ level.tail = LastOf(c)
    /\ level.total = Total(pool, c)

SideSound(side, ls, pool, lists) ==
    /\ Sorted(side, ls)
    /\ \A j \in 1 .. Len(ls) : LevelIs(pool, ls[j], lists[ls[j].price])
    /\ \A price \in Prices :
         Len(lists[price]) > 0 => \E j \in 1 .. Len(ls) : ls[j].price = price

FreeSound(free, used) == Range(free) = Nodes \ used /\ IsInjective(free)

\* A node of a list is in use, in this place of this list only, and belongs to
\* the order whose locator leads to it.
ListOwned(pool, used, lookup, c, side, price) ==
    /\ \A k \in 1 .. Len(c) :
         /\ c[k] \in used
         /\ pool[c[k]].id \in OrderIds
         /\ lookup[pool[c[k]].id] = [side |-> side, price |-> price, node |-> c[k]]
    /\ \A j, k \in 1 .. Len(c) : c[j] = c[k] => j = k

ListedAt(pool, L, id, loc) ==
    /\ pool[loc.node].id = id
    /\ \E k \in 1 .. Len(L[loc.side][loc.price]) : L[loc.side][loc.price][k] = loc.node

OrdersListed(pool, lookup, L) ==
    \A id \in OrderIds : lookup[id] # NoOrder => ListedAt(pool, L, id, lookup[id])

UsedOwned(pool, used, lookup) ==
    \A i \in used : /\ pool[i].id \in OrderIds
                    /\ lookup[pool[i].id] # NoOrder
                    /\ lookup[pool[i].id].node = i

\* All of it but that no level is empty and no resting order without lots,
\* which does not hold in the middle of an operation.
Base(s, L) ==
    /\ s \in Structures /\ L \in Lists
    /\ FreeSound(s.free, s.used)
    /\ \A side \in Sides, price \in Prices :
         /\ ListOwned(s.pool, s.used, s.lookup, L[side][price], side, price)
         /\ Linked(s.pool, L[side][price])
    /\ OrdersListed(s.pool, s.lookup, L)
    /\ UsedOwned(s.pool, s.used, s.lookup)
    /\ \A side \in Sides : SideSound(side, s.levels[side], s.pool, L[side])

NoEmptyLevel(s) == \A side \in Sides : \A j \in 1 .. Len(s.levels[side]) : s.levels[side][j].count > 0

AllHaveLots(s) == \A i \in s.used : s.pool[i].lots > 0

WithinLevels(s) == \A side \in Sides : Len(s.levels[side]) <= MaxLevels

Sound(s, L) == Base(s, L) /\ NoEmptyLevel(s) /\ AllHaveLots(s) /\ WithinLevels(s)

LEMMA NodesFinite == IsFiniteSet(Nodes) /\ NIL \notin Nodes /\ Nodes \subseteq Int
BY Constants, FS_Interval DEF Nodes, NIL

LEMMA StructureFacts ==
    ASSUME NEW s \in Structures
    PROVE  /\ s.pool \in Pools /\ s.used \in SUBSET Nodes /\ s.free \in Seq(Nodes)
           /\ s.levels \in [Sides -> Seq(LevelRecords)]
           /\ s.lookup \in [OrderIds -> Locators \cup {NoOrder}]
           /\ s = [pool |-> s.pool, used |-> s.used, free |-> s.free, levels |-> s.levels,
                   lookup |-> s.lookup]
BY DEF Structures

LEMMA PoolFacts ==
    ASSUME NEW pool \in Pools, NEW i \in Nodes
    PROVE  /\ pool[i] \in NodeRecords
           /\ pool[i].id \in OrderIds \cup {NoOrder} /\ pool[i].lots \in 0 .. MaxLots
           /\ pool[i].lots \in Int
           /\ pool[i].prev \in LinkValues /\ pool[i].next \in LinkValues
BY Constants DEF Pools, NodeRecords

\* The lists hold nodes.
LEMMA ListFacts ==
    ASSUME NEW L \in Lists, NEW side \in Sides, NEW price \in Prices
    PROVE  /\ L[side][price] \in Seq(Nodes)
           /\ Len(L[side][price]) \in Nat
           /\ \A k \in 1 .. Len(L[side][price]) : L[side][price][k] \in Nodes
           /\ Range(L[side][price]) = {L[side][price][k] : k \in 1 .. Len(L[side][price])}
           /\ Range(L[side][price]) \subseteq Nodes
<1>1. L[side][price] \in Seq(Nodes)
  BY DEF Lists
<1>2. PICK c \in Seq(Nodes) : c = L[side][price]
  BY <1>1
<1>3. Len(c) \in Nat /\ \A k \in 1 .. Len(c) : c[k] \in Nodes
  BY ElementOfSeq
<1>4. Range(c) = {c[k] : k \in 1 .. Len(c)}
  BY RangeEquality
<1>5. QED BY <1>2, <1>3, <1>4

\* A locator gives a side, a price and a node.
LEMMA LocatorFacts ==
    ASSUME NEW s \in Structures, NEW id \in OrderIds, s.lookup[id] # NoOrder
    PROVE  /\ s.lookup[id] \in Locators
           /\ s.lookup[id].side \in Sides /\ s.lookup[id].price \in Prices
           /\ s.lookup[id].node \in Nodes
           /\ s.lookup[id] = [side |-> s.lookup[id].side, price |-> s.lookup[id].price,
                              node |-> s.lookup[id].node]
<1>1. s.lookup[id] \in Locators
  BY StructureFacts
<1>2. QED BY <1>1 DEF Locators

-----------------------------------------------------------------------------
(* Lists and their totals                                                  *)

Distinct(c) == \A j, k \in 1 .. Len(c) : c[j] = c[k] => j = k

LEMMA SeqRange ==
    ASSUME NEW c \in Seq(Nodes)
    PROVE  /\ Len(c) \in Nat /\ DOMAIN c = 1 .. Len(c)
           /\ \A k \in 1 .. Len(c) : c[k] \in Nodes
           /\ \A i : i \in Range(c) <=> \E k \in 1 .. Len(c) : c[k] = i
           /\ Range(c) \subseteq Nodes /\ IsFiniteSet(Range(c))
<1>1. Len(c) \in Nat /\ DOMAIN c = 1 .. Len(c) /\ \A k \in 1 .. Len(c) : c[k] \in Nodes
  BY ElementOfSeq
<1>2. Range(c) = {c[k] : k \in 1 .. Len(c)}
  BY RangeEquality
<1>3. \A i : i \in Range(c) <=> \E k \in 1 .. Len(c) : c[k] = i
  BY <1>2
<1>4. Range(c) \subseteq Nodes
  BY <1>1, <1>2
<1>5. IsFiniteSet(Range(c))
  BY <1>4, NodesFinite, FS_Subset
<1>6. QED BY <1>1, <1>3, <1>4, <1>5

\* The nodes of a list with one more at its end.
LEMMA AppendFacts ==
    ASSUME NEW c \in Seq(Nodes), NEW i \in Nodes
    PROVE  /\ Append(c, i) \in Seq(Nodes)
           /\ Len(Append(c, i)) = Len(c) + 1
           /\ \A k \in 1 .. Len(c) : Append(c, i)[k] = c[k]
           /\ Append(c, i)[Len(c) + 1] = i
           /\ Range(Append(c, i)) = Range(c) \cup {i}
<1>1. PICK d : d = Append(c, i)
  OBVIOUS
<1>2. /\ d \in Seq(Nodes) /\ Len(d) = Len(c) + 1 /\ Len(c) \in Nat
      /\ \A k \in 1 .. Len(c) : d[k] = c[k]
      /\ d[Len(c) + 1] = i
  BY <1>1, AppendProperties
<1>3. \A x : x \in Range(d) <=> x \in Range(c) \cup {i}
  <2> TAKE x
  <2>1. x \in Range(d) <=> \E k \in 1 .. Len(d) : d[k] = x
    BY <1>2, SeqRange
  <2>2. x \in Range(c) <=> \E k \in 1 .. Len(c) : c[k] = x
    BY SeqRange
  <2>3. (\E k \in 1 .. Len(d) : d[k] = x) => (\E k \in 1 .. Len(c) : c[k] = x) \/ x = i
    BY <1>2
  <2>4. (\E k \in 1 .. Len(c) : c[k] = x) \/ x = i => \E k \in 1 .. Len(d) : d[k] = x
    <3>1. CASE x = i
      <4>1. Len(c) + 1 \in 1 .. Len(d) /\ d[Len(c) + 1] = x
        BY <1>2, <3>1
      <4>2. QED BY <4>1
    <3>2. ASSUME NEW k \in 1 .. Len(c), c[k] = x PROVE \E m \in 1 .. Len(d) : d[m] = x
      <4>1. k \in 1 .. Len(d) /\ d[k] = x
        BY <1>2, <3>2
      <4>2. QED BY <4>1
    <3>3. QED BY <3>1, <3>2
  <2>5. QED BY <2>1, <2>2, <2>3, <2>4
<1>4. Range(d) = Range(c) \cup {i}
  BY <1>3, Zenon
<1>5. QED BY <1>1, <1>2, <1>4

\* The nodes of a list with one less.
LEMMA RemoveFacts ==
    ASSUME NEW c \in Seq(Nodes), Distinct(c), NEW k \in 1 .. Len(c)
    PROVE  /\ RemoveAt(c, k) \in Seq(Nodes)
           /\ Len(RemoveAt(c, k)) = Len(c) - 1
           /\ \A j \in 1 .. Len(c) - 1 : RemoveAt(c, k)[j] = IF j < k THEN c[j] ELSE c[j + 1]
           /\ Range(RemoveAt(c, k)) = Range(c) \ {c[k]}
<1>1. PICK d : d = RemoveAt(c, k)
  OBVIOUS
<1>2. /\ d \in Seq(Nodes) /\ Len(d) = Len(c) - 1 /\ Len(c) \in Nat
      /\ \A j \in 1 .. Len(c) - 1 : d[j] = IF j < k THEN c[j] ELSE c[j + 1]
  <2>1. /\ RemoveAt(c, k) \in Seq(Nodes) /\ Len(RemoveAt(c, k)) = Len(c) - 1 /\ Len(c) \in Nat
        /\ \A j \in 1 .. Len(c) - 1 : RemoveAt(c, k)[j] = IF j < k THEN c[j] ELSE c[j + 1]
    BY RemoveAtFacts
  <2>2. QED BY <1>1, <2>1, Zenon
<1>3. \A x : x \in Range(d) <=> x \in Range(c) \ {c[k]}
  <2> TAKE x
  <2>1. x \in Range(d) <=> \E j \in 1 .. Len(d) : d[j] = x
    BY <1>2, SeqRange
  <2>2. x \in Range(c) <=> \E j \in 1 .. Len(c) : c[j] = x
    BY SeqRange
  <2>3. ASSUME NEW j \in 1 .. Len(d), d[j] = x PROVE x # c[k] /\ \E m \in 1 .. Len(c) : c[m] = x
    <3>1. PICK m \in 1 .. Len(c) : m # k /\ d[j] = c[m]
      <4>1. CASE j < k
        BY <1>2, <4>1
      <4>2. CASE j >= k
        <5>1. j + 1 \in 1 .. Len(c) /\ j + 1 # k /\ d[j] = c[j + 1]
          BY <1>2, <4>2
        <5>2. QED BY <5>1
      <4>3. QED BY <1>2, <4>1, <4>2
    <3>2. QED BY <2>3, <3>1 DEF Distinct
  <2>4. ASSUME NEW m \in 1 .. Len(c), c[m] = x, x # c[k] PROVE \E j \in 1 .. Len(d) : d[j] = x
    <3>1. CASE m < k
      <4>1. m \in 1 .. Len(d) /\ d[m] = c[m]
        BY <1>2, <3>1
      <4>2. QED BY <2>4, <4>1
    <3>2. CASE m > k
      <4>1. m - 1 \in 1 .. Len(d) /\ d[m - 1] = c[m]
        BY <1>2, <3>2
      <4>2. QED BY <2>4, <4>1
    <3>3. QED BY <1>2, <2>4, <3>1, <3>2
  <2>5. QED BY <2>1, <2>2, <2>3, <2>4
<1>4. Range(d) = Range(c) \ {c[k]}
  BY <1>3, Zenon
<1>5. QED BY <1>1, <1>2, <1>4

\* The lots of the nodes are natural numbers.
LEMMA LotsFacts ==
    ASSUME NEW pool \in Pools, NEW S, S \subseteq Nodes
    PROVE  /\ \A i \in S : LotsOf(pool)[i] = pool[i].lots /\ LotsOf(pool)[i] \in Int
           /\ IsFiniteSet(S)
<1>1. IsFiniteSet(S)
  BY NodesFinite, FS_Subset
<1>2. QED BY <1>1, PoolFacts DEF LotsOf

\* A total depends on the lots of the list only.
LEMMA TotalSame ==
    ASSUME NEW p \in Pools, NEW q \in Pools, NEW S, S \subseteq Nodes,
           \A i \in S : q[i].lots = p[i].lots
    PROVE  Sum(LotsOf(q), S) = Sum(LotsOf(p), S)
<1>1. \A i \in S : LotsOf(q)[i] = LotsOf(p)[i]
  BY LotsFacts
<1>2. IsFiniteSet(S)
  BY LotsFacts
<1>3. QED BY <1>1, <1>2, SumSame

LEMMA TotalType ==
    ASSUME NEW p \in Pools, NEW S, S \subseteq Nodes
    PROVE  Sum(LotsOf(p), S) \in Int
BY LotsFacts, SumType

\* The total of a list with one node less.
LEMMA TotalWithout ==
    ASSUME NEW p \in Pools, NEW S, S \subseteq Nodes, NEW i \in S
    PROVE  Sum(LotsOf(p), S \ {i}) = Sum(LotsOf(p), S) - p[i].lots
<1>1. Sum(LotsOf(p), S) = LotsOf(p)[i] + Sum(LotsOf(p), S \ {i})
  BY LotsFacts, SumWithout
<1>2. LotsOf(p)[i] = p[i].lots /\ LotsOf(p)[i] \in Int
  BY LotsFacts
<1>3. PICK a, b, T : T = S \ {i} /\ b = Sum(LotsOf(p), T) /\ a = LotsOf(p)[i]
  OBVIOUS
<1>4. b \in Int
  <2>1. T \subseteq Nodes
    BY <1>3
  <2>2. QED BY <1>3, <2>1, TotalType
<1>5. QED BY <1>1, <1>2, <1>3, <1>4

\* The total of a list with one node more.
LEMMA TotalWith ==
    ASSUME NEW p \in Pools, NEW S, S \subseteq Nodes, NEW i \in Nodes, i \notin S
    PROVE  Sum(LotsOf(p), S \cup {i}) = Sum(LotsOf(p), S) + p[i].lots
<1>1. PICK T : T = S \cup {i}
  OBVIOUS
<1>2. T \subseteq Nodes /\ i \in T /\ T \ {i} = S
  BY <1>1
<1>3. Sum(LotsOf(p), T \ {i}) = Sum(LotsOf(p), T) - p[i].lots
  BY <1>2, TotalWithout
<1>4. PICK a, b : a = Sum(LotsOf(p), T) /\ b = p[i].lots
  OBVIOUS
<1>5. a \in Int /\ b \in Int
  BY <1>2, <1>4, TotalType, PoolFacts
<1>6. Sum(LotsOf(p), S) = a - b
  BY <1>2, <1>3, <1>4
<1>7. QED BY <1>1, <1>4, <1>5, <1>6

\* n lots less at one node of the set.
LEMMA TotalCut ==
    ASSUME NEW p \in Pools, NEW q \in Pools, NEW S, S \subseteq Nodes, NEW i \in S, NEW n \in Int,
           q[i].lots = p[i].lots - n, \A x \in S \ {i} : q[x].lots = p[x].lots
    PROVE  Sum(LotsOf(q), S) = Sum(LotsOf(p), S) - n
<1>1. PICK T : T = S \ {i}
  OBVIOUS
<1>2. T \subseteq Nodes
  BY <1>1
<1>3. Sum(LotsOf(q), T) = Sum(LotsOf(p), T)
  <2>1. \A x \in T : q[x].lots = p[x].lots
    BY <1>1
  <2>2. QED BY <1>2, <2>1, TotalSame
<1>4. /\ Sum(LotsOf(p), T) = Sum(LotsOf(p), S) - p[i].lots
      /\ Sum(LotsOf(q), T) = Sum(LotsOf(q), S) - q[i].lots
  BY <1>1, TotalWithout
<1>5. PICK a, b, d : a = Sum(LotsOf(p), S) /\ b = Sum(LotsOf(q), S) /\ d = p[i].lots
  OBVIOUS
<1>6. a \in Int /\ b \in Int /\ d \in Int
  BY <1>5, TotalType, PoolFacts
<1>7. b - (d - n) = a - d
  BY <1>3, <1>4, <1>5
<1>8. QED BY <1>5, <1>6, <1>7

LEMMA TotalEmpty == ASSUME NEW p PROVE Sum(LotsOf(p), {}) = 0
BY SumStep, FS_EmptySet

-----------------------------------------------------------------------------
(* The levels of a side                                                    *)

EmptyLevel(price) == [price |-> price, head |-> NIL, tail |-> NIL, total |-> 0, count |-> 0]

\* The level that create_level makes is that of an empty list.
LEMMA EmptyLevelFacts ==
    ASSUME NEW price \in Prices
    PROVE  /\ EmptyLevel(price) \in LevelRecords
           /\ EmptyLevel(price).price = price /\ EmptyLevel(price).count = 0
           /\ \A pool, c : c = <<>> => LevelIs(pool, EmptyLevel(price), c)
<1>1. EmptyLevel(price) \in LevelRecords
  BY DEF EmptyLevel, LevelRecords, LinkValues
<1>2. ASSUME NEW pool PROVE LevelIs(pool, EmptyLevel(price), <<>>)
  <2>1. Range(<<>>) = {} /\ Len(<<>>) = 0
    BY DEF Range
  <2>2. Total(pool, <<>>) = 0
    BY <2>1, TotalEmpty DEF Total
  <2>3. QED BY <2>1, <2>2 DEF EmptyLevel, LevelIs, FirstOf, LastOf
<1>3. EmptyLevel(price).price = price /\ EmptyLevel(price).count = 0
  BY DEF EmptyLevel
<1>4. QED BY <1>1, <1>2, <1>3

LEMMA EmptyList == ASSUME NEW c \in Seq(Nodes), Len(c) = 0 PROVE c = <<>>
OBVIOUS

\* A price belongs at a.
Belongs(side, ls, a, price) ==
    \A j \in 1 .. Len(ls) :
      /\ j < a => ~BetterOrEqual(side, price, ls[j].price)
      /\ j >= a => ~BetterOrEqual(side, ls[j].price, price)

\* A level inserted where find_level_index says leaves the side sorted.
LEMMA SortedInserted ==
    ASSUME NEW side \in Sides, NEW ls \in Seq(LevelRecords), Sorted(side, ls),
           NEW e \in LevelRecords, NEW a \in 1 .. Len(ls) + 1, Belongs(side, ls, a, e.price),
           NEW x \in Seq(LevelRecords), Len(x) = Len(ls) + 1, PutIn(ls, a, e, x)
    PROVE  Sorted(side, x)
<1> Len(ls) \in Nat
  OBVIOUS
<1> USE DEF PutIn, Belongs
<1> SUFFICES ASSUME NEW j \in 1 .. Len(x), NEW k \in 1 .. Len(x), j < k
             PROVE  ~BetterOrEqual(side, x[k].price, x[j].price)
  BY DEF Sorted
<1>1. CASE k < a
  <2>1. x[j] = ls[j] /\ x[k] = ls[k] /\ j \in 1 .. Len(ls) /\ k \in 1 .. Len(ls)
    BY <1>1
  <2>2. QED BY <2>1 DEF Sorted
<1>2. CASE k = a
  <2>1. x[j] = ls[j] /\ x[k] = e /\ j \in 1 .. Len(ls) /\ j < a
    BY <1>2
  <2>2. QED BY <2>1
<1>3. CASE k > a /\ j < a
  <2>1. x[j] = ls[j] /\ x[k] = ls[k - 1] /\ j \in 1 .. Len(ls) /\ k - 1 \in 1 .. Len(ls) /\ j < k - 1
    BY <1>3
  <2>2. QED BY <2>1 DEF Sorted
<1>4. CASE k > a /\ j = a
  <2>1. x[j] = e /\ x[k] = ls[k - 1] /\ k - 1 \in 1 .. Len(ls) /\ k - 1 >= a
    BY <1>4
  <2>2. QED BY <2>1
<1>5. CASE k > a /\ j > a
  <2>1. /\ x[j] = ls[j - 1] /\ x[k] = ls[k - 1]
        /\ j - 1 \in 1 .. Len(ls) /\ k - 1 \in 1 .. Len(ls) /\ j - 1 < k - 1
    BY <1>5
  <2>2. QED BY <2>1 DEF Sorted
<1>6. QED BY <1>1, <1>2, <1>3, <1>4, <1>5

\* x has, outside a, only levels of ls.
OnlyNewAt(ls, a, x) == \A j \in 1 .. Len(x) : j # a => \E m \in 1 .. Len(ls) : x[j] = ls[m]

NoneAt(ls, price) == \A j \in 1 .. Len(ls) : ls[j].price # price

\* A side stays sound when the level of an empty list is inserted.
LEMMA SideInserted ==
    ASSUME NEW side \in Sides, NEW ls \in Seq(LevelRecords),
           NEW pool, NEW lists \in [Prices -> Seq(Nodes)], SideSound(side, ls, pool, lists),
           NEW price \in Prices, NEW a \in 1 .. Len(ls) + 1, Belongs(side, ls, a, price),
           NoneAt(ls, price), NEW e, e = EmptyLevel(price),
           NEW x \in Seq(LevelRecords), Len(x) = Len(ls) + 1, PutIn(ls, a, e, x)
    PROVE  /\ SideSound(side, x, pool, lists)
           /\ x[a].price = price
           /\ OnlyNewAt(ls, a, x)
<1>1. Sorted(side, ls) /\ Len(ls) \in Nat
  BY DEF SideSound
<1>2. e \in LevelRecords /\ e.price = price /\ LevelIs(pool, e, <<>>)
  BY EmptyLevelFacts
<1>3. \A j \in 1 .. Len(ls) + 1 : x[j] = IF j < a THEN ls[j] ELSE IF j = a THEN e ELSE ls[j - 1]
  BY DEF PutIn
<1>4. Sorted(side, x)
  <2>1. Belongs(side, ls, a, e.price)
    BY <1>2
  <2>2. QED BY <1>1, <1>2, <2>1, SortedInserted
<1>5. x[a] = e /\ a \in 1 .. Len(x)
  BY <1>1, <1>3
<1>6. ASSUME NEW j \in 1 .. Len(x), j # a PROVE \E m \in 1 .. Len(ls) : x[j] = ls[m]
  <2>1. CASE j < a
    <3>1. j \in 1 .. Len(ls) /\ x[j] = ls[j]
      BY <1>1, <1>3, <2>1
    <3>2. QED BY <3>1
  <2>2. CASE j > a
    <3>1. j - 1 \in 1 .. Len(ls) /\ x[j] = ls[j - 1]
      BY <1>1, <1>3, <2>2
    <3>2. QED BY <3>1
  <2>3. QED BY <1>1, <1>3, <1>6, <2>1, <2>2
<1>7. ASSUME NEW j \in 1 .. Len(ls) PROVE \E m \in 1 .. Len(x) : x[m] = ls[j]
  <2>1. CASE j < a
    <3>1. j \in 1 .. Len(x) /\ x[j] = ls[j]
      BY <1>1, <1>3, <2>1
    <3>2. QED BY <3>1
  <2>2. CASE j >= a
    <3>1. j + 1 \in 1 .. Len(ls) + 1 /\ ~(j + 1 < a) /\ j + 1 # a /\ (j + 1) - 1 = j
      BY <1>1, <2>2
    <3>2. j + 1 \in 1 .. Len(x) /\ x[j + 1] = ls[j]
      BY <1>3, <3>1
    <3>3. QED BY <3>2
  <2>3. QED BY <1>1, <2>1, <2>2
<1>8. Len(lists[price]) = 0 /\ lists[price] = <<>>
  <2>1. lists[price] \in Seq(Nodes)
    OBVIOUS
  <2>2. ~(Len(lists[price]) > 0)
    BY DEF SideSound, NoneAt
  <2>3. Len(lists[price]) = 0
    BY <2>1, <2>2
  <2>4. QED BY <2>1, <2>3, EmptyList
<1>9. ASSUME NEW j \in 1 .. Len(x) PROVE LevelIs(pool, x[j], lists[x[j].price])
  <2>1. CASE j = a
    BY <1>2, <1>5, <1>8, <2>1
  <2>2. CASE j # a
    <3>1. PICK m \in 1 .. Len(ls) : x[j] = ls[m]
      BY <1>6, <2>2
    <3>2. QED BY <3>1 DEF SideSound
  <2>3. QED BY <2>1, <2>2
<1>10. ASSUME NEW p \in Prices, Len(lists[p]) > 0 PROVE \E j \in 1 .. Len(x) : x[j].price = p
  <2>1. PICK m \in 1 .. Len(ls) : ls[m].price = p
    BY <1>10 DEF SideSound
  <2>2. PICK j \in 1 .. Len(x) : x[j] = ls[m]
    BY <1>7
  <2>3. QED BY <2>1, <2>2
<1>11. SideSound(side, x, pool, lists)
  BY <1>4, <1>9, <1>10 DEF SideSound
<1>12. QED BY <1>2, <1>5, <1>6, <1>11 DEF OnlyNewAt

\* The levels ms are those of ls but the one at index at, in their order.
LevelsWithin(ls, ms, at) ==
    /\ \A j \in 1 .. Len(ms) : \E m \in 1 .. Len(ls) : m # at /\ ms[j] = ls[m]
    /\ at = 1 => \A j \in 1 .. Len(ms) : ms[j] = ls[j + 1]

\* A side stays sound when the level of an empty list is erased.
LEMMA SideRemoved ==
    ASSUME NEW side \in Sides, NEW ls \in Seq(LevelRecords),
           NEW pool, NEW lists \in [Prices -> Seq(Nodes)], SideSound(side, ls, pool, lists),
           NEW a \in 1 .. Len(ls), ls[a].count = 0, NEW x, x = RemoveAt(ls, a)
    PROVE  /\ x \in Seq(LevelRecords) /\ SideSound(side, x, pool, lists)
           /\ Len(x) = Len(ls) - 1
           /\ LevelsWithin(ls, x, a)
<1>1. /\ x \in Seq(LevelRecords) /\ Len(x) = Len(ls) - 1 /\ Len(ls) \in Nat
      /\ \A j \in 1 .. Len(ls) - 1 : x[j] = IF j < a THEN ls[j] ELSE ls[j + 1]
  <2>1. /\ RemoveAt(ls, a) \in Seq(LevelRecords) /\ Len(RemoveAt(ls, a)) = Len(ls) - 1
        /\ \A j \in 1 .. Len(ls) - 1 : RemoveAt(ls, a)[j] = IF j < a THEN ls[j] ELSE ls[j + 1]
    BY RemoveAtFacts
  <2>2. QED BY <2>1
<1>2. ASSUME NEW j \in 1 .. Len(x) PROVE \E m \in 1 .. Len(ls) : m # a /\ x[j] = ls[m]
  <2>1. CASE j < a
    BY <1>1, <2>1
  <2>2. CASE j >= a
    <3>1. j + 1 \in 1 .. Len(ls) /\ j + 1 # a /\ x[j] = ls[j + 1]
      BY <1>1, <2>2
    <3>2. QED BY <3>1
  <2>3. QED BY <1>1, <2>1, <2>2
<1>3. ASSUME NEW m \in 1 .. Len(ls), m # a PROVE \E j \in 1 .. Len(x) : x[j] = ls[m]
  <2>1. CASE m < a
    <3>1. m \in 1 .. Len(x) /\ x[m] = ls[m]
      BY <1>1, <2>1
    <3>2. QED BY <3>1
  <2>2. CASE m > a
    <3>1. m - 1 \in 1 .. Len(ls) - 1 /\ ~(m - 1 < a) /\ (m - 1) + 1 = m
      BY <1>1, <2>2
    <3>2. m - 1 \in 1 .. Len(x) /\ x[m - 1] = ls[m]
      BY <1>1, <3>1
    <3>3. QED BY <3>2
  <2>3. QED BY <1>1, <1>3, <2>1, <2>2
<1>4. Sorted(side, x)
  <2> SUFFICES ASSUME NEW j \in 1 .. Len(x), NEW k \in 1 .. Len(x), j < k
               PROVE  ~BetterOrEqual(side, x[k].price, x[j].price)
    BY DEF Sorted
  <2>1. PICK m \in 1 .. Len(ls), o \in 1 .. Len(ls) : m < o /\ x[j] = ls[m] /\ x[k] = ls[o]
    <3>1. CASE k < a
      <4>1. j \in 1 .. Len(ls) /\ k \in 1 .. Len(ls) /\ x[j] = ls[j] /\ x[k] = ls[k]
        BY <1>1, <3>1
      <4>2. QED BY <4>1
    <3>2. CASE k >= a /\ j < a
      <4>1. j \in 1 .. Len(ls) /\ k + 1 \in 1 .. Len(ls) /\ j < k + 1 /\ x[j] = ls[j] /\ x[k] = ls[k + 1]
        BY <1>1, <3>2
      <4>2. QED BY <4>1
    <3>3. CASE k >= a /\ j >= a
      <4>1. j + 1 \in 1 .. Len(ls) /\ k + 1 \in 1 .. Len(ls) /\ j + 1 < k + 1
            /\ x[j] = ls[j + 1] /\ x[k] = ls[k + 1]
        BY <1>1, <3>3
      <4>2. QED BY <4>1
    <3>4. QED BY <1>1, <3>1, <3>2, <3>3
  <2>2. QED BY <2>1 DEF Sorted, SideSound
<1>5. ASSUME NEW j \in 1 .. Len(x) PROVE LevelIs(pool, x[j], lists[x[j].price])
  <2>1. PICK m \in 1 .. Len(ls) : x[j] = ls[m]
    BY <1>2
  <2>2. QED BY <2>1 DEF SideSound
<1>6. ASSUME NEW p \in Prices, Len(lists[p]) > 0 PROVE \E j \in 1 .. Len(x) : x[j].price = p
  <2>1. PICK m \in 1 .. Len(ls) : ls[m].price = p
    BY <1>6 DEF SideSound
  <2>2. m # a
    <3>1. ls[m].count = Len(lists[p])
      BY <2>1 DEF SideSound, LevelIs
    <3>2. QED BY <1>6, <3>1
  <2>3. PICK j \in 1 .. Len(x) : x[j] = ls[m]
    BY <1>3, <2>2
  <2>4. QED BY <2>1, <2>3
<1>7. SideSound(side, x, pool, lists)
  BY <1>4, <1>5, <1>6 DEF SideSound
<1>8. a = 1 => \A j \in 1 .. Len(x) : x[j] = ls[j + 1]
  BY <1>1
<1>9. LevelsWithin(ls, x, a)
  BY <1>2, <1>8 DEF LevelsWithin
<1>10. QED BY <1>1, <1>7, <1>9

\* No two levels of a side share a price.
LEMMA PricesDiffer ==
    ASSUME NEW side \in Sides, NEW ls \in Seq(LevelRecords), Sorted(side, ls),
           NEW j \in 1 .. Len(ls), NEW k \in 1 .. Len(ls), ls[j].price = ls[k].price
    PROVE  j = k
<1>1. ls[j].price \in Int /\ ls[k].price \in Int /\ Len(ls) \in Nat
  BY LevelFacts
<1>2. BetterOrEqual(side, ls[k].price, ls[j].price) /\ BetterOrEqual(side, ls[j].price, ls[k].price)
  BY <1>1 DEF BetterOrEqual
<1>3. ~(j < k) /\ ~(k < j)
  BY <1>2 DEF Sorted
<1>4. QED BY <1>1, <1>3

\* The lots of the nodes in the lists at other prices are the same.
LotsKept(p, q, lists, price) ==
    \A r \in Prices \ {price} : \A i \in Range(lists[r]) : q[i].lots = p[i].lots

\* One level and its list change, and no other node of the side its lots.
IsReplaced(f, a, e, g) == g = [f EXCEPT ![a] = e]
IsAppended(c, i, d) == d = Append(c, i)

\* A side stays sound when one level follows the change of its list.
LEMMA SideUpdated ==
    ASSUME NEW side \in Sides, NEW ls \in Seq(LevelRecords),
           NEW p \in Pools, NEW q \in Pools, NEW lists \in [Prices -> Seq(Nodes)],
           SideSound(side, ls, p, lists), NEW a \in 1 .. Len(ls),
           NEW level \in LevelRecords, NEW price \in Prices,
           level.price = price, ls[a].price = price,
           NEW d \in Seq(Nodes), LevelIs(q, level, d),
           LotsKept(p, q, lists, price),
           NEW x, IsReplaced(ls, a, level, x), NEW after, IsReplaced(lists, price, d, after)
    PROVE  /\ x \in Seq(LevelRecords) /\ SideSound(side, x, q, after)
           /\ Len(x) = Len(ls) /\ x[a] = level
           /\ \A j \in 1 .. Len(ls) : j # a => x[j] = ls[j]
<1>1. /\ x \in Seq(LevelRecords) /\ Len(x) = Len(ls) /\ Len(ls) \in Nat
      /\ \A j \in 1 .. Len(ls) : x[j] = IF j = a THEN level ELSE ls[j]
  BY ExceptSeq DEF IsReplaced
<1>2. \A j \in 1 .. Len(ls) : x[j].price = ls[j].price
  BY <1>1
<1>3. Sorted(side, x)
  BY <1>1, <1>2 DEF SideSound, Sorted
<1>4. after[price] = d /\ \A r \in Prices \ {price} : after[r] = lists[r]
  BY DEF IsReplaced
<1>5. ASSUME NEW j \in 1 .. Len(x) PROVE LevelIs(q, x[j], after[x[j].price])
  <2>1. CASE j = a
    BY <1>1, <1>4, <2>1
  <2>2. CASE j # a
    <3>1. PICK r, c : r = ls[j].price /\ c = lists[r]
      OBVIOUS
    <3>2. r \in Prices \ {price}
      <4>1. r \in Prices
        BY <1>1, <3>1, LevelFacts
      <4>2. r # price
        BY <1>1, <2>2, <3>1, PricesDiffer DEF SideSound
      <4>3. QED BY <4>1, <4>2
    <3>3. x[j] = ls[j] /\ after[x[j].price] = c
      BY <1>1, <1>4, <2>2, <3>1, <3>2
    <3>4. LevelIs(p, ls[j], c)
      BY <1>1, <3>1 DEF SideSound
    <3>5. Total(q, c) = Total(p, c)
      <4>1. c \in Seq(Nodes)
        BY <3>1, <3>2
      <4>2. Range(c) \subseteq Nodes /\ \A i \in Range(c) : q[i].lots = p[i].lots
        BY <3>1, <3>2, <4>1, SeqRange DEF LotsKept
      <4>3. QED BY <4>2, TotalSame DEF Total
    <3>6. QED BY <3>3, <3>4, <3>5 DEF LevelIs
  <2>3. QED BY <2>1, <2>2
<1>6. ASSUME NEW r \in Prices, Len(after[r]) > 0 PROVE \E j \in 1 .. Len(x) : x[j].price = r
  <2>1. CASE r = price
    <3>1. x[a].price = r
      BY <1>1, <2>1
    <3>2. QED BY <1>1, <3>1
  <2>2. CASE r # price
    <3>1. Len(lists[r]) > 0
      BY <1>4, <1>6, <2>2
    <3>2. PICK j \in 1 .. Len(ls) : ls[j].price = r
      BY <3>1 DEF SideSound
    <3>3. QED BY <1>1, <1>2, <3>2
  <2>3. QED BY <2>1, <2>2
<1>7. SideSound(side, x, q, after)
  BY <1>3, <1>5, <1>6 DEF SideSound
<1>8. QED BY <1>1, <1>7

-----------------------------------------------------------------------------
(* The steps of an operation: a level is made                              *)

\* s and t differ in their level arrays only.
SameButLevels(s, t) ==
    t.pool = s.pool /\ t.used = s.used /\ t.free = s.free /\ t.lookup = s.lookup

LEMMA LevelsReplaced ==
    ASSUME NEW s \in Structures, NEW side \in Sides, NEW x \in Seq(LevelRecords),
           NEW t, t = [s EXCEPT !.levels[side] = x]
    PROVE  /\ t \in Structures /\ SameButLevels(s, t)
           /\ t.levels[side] = x
           /\ \A other \in Sides : other # side => t.levels[other] = s.levels[other]
<1>1. t = [s EXCEPT !.levels = [s.levels EXCEPT ![side] = x]]
  OBVIOUS
<1>2. PICK y : y = [s.levels EXCEPT ![side] = x]
  OBVIOUS
<1>3. s.levels \in [Sides -> Seq(LevelRecords)]
  BY StructureFacts
<1>4. /\ y \in [Sides -> Seq(LevelRecords)] /\ y[side] = x
      /\ \A other \in Sides : other # side => y[other] = s.levels[other]
  BY <1>2, <1>3
<1>5. t = [pool |-> s.pool, used |-> s.used, free |-> s.free, levels |-> y, lookup |-> s.lookup]
  <2>1. t = [s EXCEPT !.levels = y]
    BY <1>1, <1>2
  <2>2. PICK p, u, f, l, k : s = [pool |-> p, used |-> u, free |-> f, levels |-> l, lookup |-> k]
    BY DEF Structures
  <2>3. QED BY <2>1, <2>2
<1>6. SameButLevels(s, t) /\ t.levels = y
  BY <1>5 DEF SameButLevels
<1>7. t \in Structures
  BY <1>4, <1>5, StructureFacts DEF Structures
<1>8. QED BY <1>4, <1>6, <1>7

\* Base, when only the level arrays change and stay sound.
LEMMA LevelsChange ==
    ASSUME NEW s, NEW L, Base(s, L), NEW t \in Structures, SameButLevels(s, t),
           \A side \in Sides : SideSound(side, t.levels[side], s.pool, L[side])
    PROVE  Base(t, L)
BY DEF Base, SameButLevels

\* The levels of a side, at every step of an operation.
LEMMA BaseLevels ==
    ASSUME NEW s, NEW L, Base(s, L), NEW side \in Sides
    PROVE  /\ s \in Structures /\ L \in Lists
           /\ s.levels[side] \in Seq(LevelRecords)
           /\ Len(s.levels[side]) \in Nat
           /\ L[side] \in [Prices -> Seq(Nodes)]
           /\ SideSound(side, s.levels[side], s.pool, L[side])
           /\ Sorted(side, s.levels[side])
<1>1. s \in Structures /\ L \in Lists /\ SideSound(side, s.levels[side], s.pool, L[side])
  BY DEF Base
<1>2. s.levels[side] \in Seq(LevelRecords)
  BY <1>1, StructureFacts
<1>3. L[side] \in [Prices -> Seq(Nodes)]
  BY <1>1 DEF Lists
<1>4. QED BY <1>1, <1>2, <1>3 DEF SideSound

\* What find_or_create_level leaves: the level is there and nothing else is new.
LEMMA LevelMade ==
    ASSUME NEW s, NEW L, Base(s, L), NEW side \in Sides, NEW price \in Prices,
           NEW t, t = WithLevel(s, side, price),
           NEW at, at = FindLevel(t, side, price).at
    PROVE  /\ Base(t, L) /\ SameButLevels(s, t)
           /\ at \in 1 .. Len(t.levels[side]) /\ t.levels[side][at].price = price
           /\ \A other \in Sides : other # side => t.levels[other] = s.levels[other]
           /\ \A j \in 1 .. Len(t.levels[side]) : j # at =>
                \E m \in 1 .. Len(s.levels[side]) : t.levels[side][j] = s.levels[side][m]
           /\ Len(t.levels[side]) = IF FindLevel(s, side, price).found THEN Len(s.levels[side])
                                    ELSE Len(s.levels[side]) + 1
<1>1. PICK ls, w, lists, pool : /\ ls = s.levels[side] /\ w = FindLevel(s, side, price)
                                /\ lists = L[side] /\ pool = s.pool
  OBVIOUS
<1>2. /\ ls \in Seq(LevelRecords) /\ Len(ls) \in Nat /\ SideSound(side, ls, pool, lists)
      /\ Sorted(side, ls) /\ s \in Structures /\ lists \in [Prices -> Seq(Nodes)]
  BY <1>1, BaseLevels
<1>3. CASE w.found
  <2>1. t = s
    BY <1>1, <1>3 DEF WithLevel
  <2>2. at = w.at
    BY <1>1, <2>1
  <2>3. w.at \in 1 .. Len(ls) /\ ls[w.at].price = price
    BY <1>1, <1>2, <1>3, FindLevelFacts
  <2>4. QED BY <1>1, <1>3, <2>1, <2>2, <2>3 DEF SameButLevels
<1>4. CASE ~w.found
  <2>1. PICK x, a, e : x = InsertAt(ls, a, e) /\ a = w.at /\ e = EmptyLevel(price)
    OBVIOUS
  <2>2. /\ x \in Seq(LevelRecords) /\ SideSound(side, x, pool, lists)
        /\ w.at \in 1 .. Len(x) /\ Len(x) = Len(ls) + 1
        /\ x[w.at].price = price
        /\ OnlyNewAt(ls, w.at, x)
    <3>1. /\ a \in 1 .. Len(ls) + 1
          /\ \A j \in 1 .. Len(ls) : ls[j].price # price
          /\ \A j \in 1 .. Len(ls) :
               /\ j < a => ~BetterOrEqual(side, price, ls[j].price)
               /\ j >= a => ~BetterOrEqual(side, ls[j].price, price)
      BY <1>1, <1>2, <1>4, <2>1, FindLevelFacts
    <3>2. Belongs(side, ls, a, price) /\ NoneAt(ls, price)
      BY <3>1 DEF Belongs, NoneAt
    <3>3. e \in LevelRecords
      BY <2>1, EmptyLevelFacts
    <3>4. /\ InsertAt(ls, a, e) \in Seq(LevelRecords) /\ Len(InsertAt(ls, a, e)) = Len(ls) + 1
          /\ PutIn(ls, a, e, InsertAt(ls, a, e))
      BY <1>2, <3>1, <3>3, InsertAtFacts
    <3>5. x \in Seq(LevelRecords) /\ Len(x) = Len(ls) + 1 /\ PutIn(ls, a, e, x)
      BY <2>1, <3>4
    <3>6. /\ SideSound(side, x, pool, lists)
          /\ x[a].price = price
          /\ OnlyNewAt(ls, a, x)
      <4>1. e = EmptyLevel(price)
        BY <2>1
      <4>2. QED BY <1>2, <3>1, <3>2, <3>5, <4>1, SideInserted
    <3>7. a \in 1 .. Len(x)
      BY <1>2, <3>1, <3>5
    <3>8. QED BY <2>1, <3>5, <3>6, <3>7
  <2>3. t = [s EXCEPT !.levels[side] = x]
    BY <1>1, <1>4, <2>1 DEF WithLevel, EmptyLevel
  <2>4. /\ t \in Structures /\ SameButLevels(s, t) /\ t.levels[side] = x
        /\ \A other \in Sides : other # side => t.levels[other] = s.levels[other]
    BY <1>2, <2>2, <2>3, LevelsReplaced
  <2>5. \A other \in Sides : SideSound(other, t.levels[other], s.pool, L[other])
    <3> TAKE other \in Sides
    <3>1. CASE other = side
      BY <1>1, <2>2, <2>4, <3>1
    <3>2. CASE other # side
      BY <2>4, <3>2, BaseLevels
    <3>3. QED BY <3>1, <3>2
  <2>6. Base(t, L)
    BY <2>4, <2>5, LevelsChange
  <2>7. at = w.at
    <3>1. PICK v : v = FindLevel(t, side, price)
      OBVIOUS
    <3>2. \A j \in 1 .. Len(x) : x[j].price = price => j = v.at
      BY <2>2, <2>4, <3>1, FindLevelFacts DEF SideSound
    <3>3. QED BY <2>2, <3>1, <3>2
  <2>8. QED BY <1>1, <1>4, <2>2, <2>4, <2>6, <2>7 DEF OnlyNewAt
<1>5. QED BY <1>3, <1>4

-----------------------------------------------------------------------------
(* What a step leaves of a list, and of a side, that it does not touch     *)

\* The list of a side and a price, at every step of an operation.
LEMMA BaseLists ==
    ASSUME NEW s, NEW L, Base(s, L), NEW side \in Sides, NEW price \in Prices,
           NEW c, c = L[side][price]
    PROVE  /\ c \in Seq(Nodes) /\ Len(c) \in Nat
           /\ ListOwned(s.pool, s.used, s.lookup, c, side, price)
           /\ Linked(s.pool, c) /\ Distinct(c)
           /\ \A k \in 1 .. Len(c) :
                /\ c[k] \in Nodes /\ c[k] \in s.used /\ s.pool[c[k]].id \in OrderIds
                /\ s.lookup[s.pool[c[k]].id] = [side |-> side, price |-> price, node |-> c[k]]
           /\ Range(c) \subseteq s.used
<1>1. c \in Seq(Nodes) /\ ListOwned(s.pool, s.used, s.lookup, c, side, price) /\ Linked(s.pool, c)
  BY ListFacts DEF Base
<1>2. Len(c) \in Nat /\ \A k \in 1 .. Len(c) : c[k] \in Nodes
  BY <1>1, ElementOfSeq
<1>3. \A k \in 1 .. Len(c) :
        /\ c[k] \in s.used /\ s.pool[c[k]].id \in OrderIds
        /\ s.lookup[s.pool[c[k]].id] = [side |-> side, price |-> price, node |-> c[k]]
  BY <1>1 DEF ListOwned
<1>4. Distinct(c)
  BY <1>1 DEF ListOwned, Distinct
<1>5. ASSUME NEW i \in Range(c) PROVE i \in s.used
  <2>1. PICK k \in 1 .. Len(c) : c[k] = i
    BY <1>1, SeqRange
  <2>2. QED BY <1>3, <2>1
<1>6. QED BY <1>1, <1>2, <1>3, <1>4, <1>5, Zenon

Held(p, used, lookup, side, price, c) ==
    /\ c \in Seq(Nodes) /\ Len(c) \in Nat
    /\ ListOwned(p, used, lookup, c, side, price)
    /\ Linked(p, c) /\ Distinct(c)
    /\ \A k \in 1 .. Len(c) :
         /\ c[k] \in Nodes /\ c[k] \in used /\ p[c[k]].id \in OrderIds
         /\ lookup[p[c[k]].id] = [side |-> side, price |-> price, node |-> c[k]]
    /\ Range(c) \subseteq used

LEMMA BaseHeld ==
    ASSUME NEW s, NEW L, Base(s, L), NEW side \in Sides, NEW price \in Prices,
           NEW c, c = L[side][price], NEW p, p = s.pool
    PROVE  Held(p, s.used, s.lookup, side, price, c)
BY BaseLists DEF Held

\* No node is in two lists.
LEMMA ListsApart ==
    ASSUME NEW s, NEW L, Base(s, L), NEW side \in Sides, NEW price \in Prices,
           NEW other \in Sides, NEW at \in Prices, side # other \/ price # at,
           NEW c, c = L[side][price], NEW d, d = L[other][at],
           NEW j \in 1 .. Len(c), NEW k \in 1 .. Len(d)
    PROVE  c[j] # d[k]
<1>1. s.lookup[s.pool[c[j]].id] = [side |-> side, price |-> price, node |-> c[j]]
  BY BaseLists
<1>2. s.lookup[s.pool[d[k]].id] = [side |-> other, price |-> at, node |-> d[k]]
  BY BaseLists
<1>3. PICK x, y : /\ x = s.lookup[s.pool[c[j]].id] /\ x.side = side /\ x.price = price
                 /\ y = s.lookup[s.pool[d[k]].id] /\ y.side = other /\ y.price = at
  BY <1>1, <1>2
<1>4. QED BY <1>3, Zenon

\* On the nodes of c, the pools differ in nothing but lots, and lookup knows
\* the same orders.
SameLinks(p, q, c) ==
    \A k \in 1 .. Len(c) :
      q[c[k]].id = p[c[k]].id /\ q[c[k]].prev = p[c[k]].prev /\ q[c[k]].next = p[c[k]].next

\* An order that rests is in the list that its locator names.
LEMMA OrderListed ==
    ASSUME NEW pool, NEW lookup, NEW L, OrdersListed(pool, lookup, L),
           NEW x \in OrderIds, NEW loc, loc = lookup[x], loc # NoOrder,
           NEW n, n = loc.node, NEW c, c = L[loc.side][loc.price]
    PROVE  pool[n].id = x /\ \E k \in 1 .. Len(c) : c[k] = n
<1>1. ListedAt(pool, L, x, loc)
  BY DEF OrdersListed
<1>2. QED BY <1>1 DEF ListedAt

SameLocators(p, lookup, lookup2, c) ==
    \A k \in 1 .. Len(c) : lookup2[p[c[k]].id] = lookup[p[c[k]].id]

\* A list whose nodes and locators do not change keeps its owners.
LEMMA ListKept ==
    ASSUME NEW c \in Seq(Nodes), NEW p, NEW q, SameLinks(p, q, c), NEW side, NEW price,
           NEW used, NEW used2, NEW lookup, NEW lookup2,
           ListOwned(p, used, lookup, c, side, price), Linked(p, c),
           \A k \in 1 .. Len(c) : c[k] \in used2,
           SameLocators(p, lookup, lookup2, c)
    PROVE  ListOwned(q, used2, lookup2, c, side, price) /\ Linked(q, c)
BY DEF ListOwned, Linked, SameLinks, SameLocators

\* A side whose lots do not change stays sound.
LEMMA SideKept ==
    ASSUME NEW side \in Sides, NEW ls \in Seq(LevelRecords), NEW p \in Pools, NEW q \in Pools,
           NEW lists \in [Prices -> Seq(Nodes)], SideSound(side, ls, p, lists),
           \A price \in Prices : \A i \in Range(lists[price]) : q[i].lots = p[i].lots
    PROVE  SideSound(side, ls, q, lists)
<1>1. ASSUME NEW j \in 1 .. Len(ls) PROVE LevelIs(q, ls[j], lists[ls[j].price])
  <2>1. PICK r, c : r = ls[j].price /\ c = lists[r]
    OBVIOUS
  <2>2. r \in Prices /\ c \in Seq(Nodes)
    <3>1. r \in Prices
      BY <2>1, LevelFacts
    <3>2. QED BY <2>1, <3>1
  <2>3. LevelIs(p, ls[j], c)
    BY <2>1 DEF SideSound
  <2>4. Total(q, c) = Total(p, c)
    <3>1. Range(c) \subseteq Nodes /\ \A i \in Range(c) : q[i].lots = p[i].lots
      BY <2>1, <2>2, SeqRange
    <3>2. QED BY <3>1, TotalSame DEF Total
  <2>5. LevelIs(q, ls[j], c)
    BY <2>3, <2>4 DEF LevelIs
  <2>6. QED BY <2>1, <2>5
<1>2. QED BY <1>1 DEF SideSound

\* Where a level's price leads to.
LEMMA LevelAt ==
    ASSUME NEW s, NEW L, Base(s, L), NEW side \in Sides, NEW ls, ls = s.levels[side],
           NEW at \in 1 .. Len(ls), NEW level, level = ls[at],
           NEW c, c = L[side][level.price]
    PROVE  /\ level \in LevelRecords /\ level.price \in Prices
           /\ c \in Seq(Nodes) /\ Len(c) \in Nat
           /\ LevelIs(s.pool, level, c)
           /\ level.count = Len(c)
           /\ level.head = FirstOf(c) /\ level.tail = LastOf(c)
           /\ level.total = Total(s.pool, c)
<1>1. ls \in Seq(LevelRecords) /\ SideSound(side, ls, s.pool, L[side])
  BY BaseLevels
<1>2. level \in LevelRecords /\ level.price \in Prices
  BY <1>1, LevelFacts
<1>3. LevelIs(s.pool, level, c)
  BY <1>1 DEF SideSound
<1>4. c \in Seq(Nodes) /\ Len(c) \in Nat
  BY <1>2, BaseLists
<1>5. QED BY <1>2, <1>3, <1>4 DEF LevelIs

LevelHolds(p, level, price, c) ==
    /\ level \in LevelRecords /\ level.price = price /\ price \in Prices
    /\ c \in Seq(Nodes) /\ Len(c) \in Nat
    /\ LevelIs(p, level, c)
    /\ level.count = Len(c) /\ level.head = FirstOf(c) /\ level.tail = LastOf(c)
    /\ level.total = Total(p, c)

LEMMA LevelHeld ==
    ASSUME NEW s, NEW L, Base(s, L), NEW side \in Sides, NEW at \in 1 .. Len(s.levels[side]),
           NEW level, level = s.levels[side][at], NEW price, level.price = price,
           NEW c, c = L[side][price], NEW p, p = s.pool
    PROVE  LevelHolds(p, level, price, c)
<1>1. PICK ls : ls = s.levels[side]
  OBVIOUS
<1>2. c = L[side][level.price] /\ at \in 1 .. Len(ls) /\ level = ls[at]
  BY <1>1
<1>3. QED BY <1>1, <1>2, LevelAt DEF LevelHolds

-----------------------------------------------------------------------------
(* The steps of an operation: an order goes to the end of a level          *)

PushedPool(p, i, id, lots, tail) ==
    LET stored == [p EXCEPT ![i] = [id |-> id, lots |-> lots, prev |-> tail, next |-> NIL]]
    IN  IF tail # NIL THEN [stored EXCEPT ![tail].next = i] ELSE stored

PushedLevel(level, i, lots) ==
    [level EXCEPT !.head = IF level.tail = NIL THEN i ELSE @, !.tail = i,
                  !.total = @ + lots, !.count = @ + 1]

\* What add_order does once the level at index at is there.
Pushed(t, at, i, id, o) ==
    [t EXCEPT
       !.free = Front(@),
       !.used = @ \cup {i},
       !.pool = PushedPool(t.pool, i, id, o.lots, t.levels[o.side][at].tail),
       !.levels[o.side][at] = PushedLevel(t.levels[o.side][at], i, o.lots),
       !.lookup[id] = [side |-> o.side, price |-> o.price, node |-> i]]

\* add_order finds or makes the level, then puts the order at its end.
LEMMA AddedIsPushed ==
    ASSUME NEW s, NEW id, NEW o,
           NEW i, i = Last(s.free), NEW t, t = WithLevel(s, o.side, o.price),
           NEW at, at = FindLevel(t, o.side, o.price).at
    PROVE  Added(s, id, o) = Pushed(t, at, i, id, o)
BY DEF Added, Pushed, PushedPool, PushedLevel

\* What a node at the end of a level changes in the pool.
LEMMA PushedPoolFacts ==
    ASSUME NEW p \in Pools, NEW i \in Nodes, NEW id \in OrderIds, NEW lots \in 1 .. MaxLots,
           NEW tail \in LinkValues, tail # i,
           NEW q, q = PushedPool(p, i, id, lots, tail)
    PROVE  /\ q \in Pools
           /\ q[i].id = id /\ q[i].lots = lots /\ q[i].prev = tail /\ q[i].next = NIL
           /\ \A k \in Nodes : k # i =>
                /\ q[k].id = p[k].id /\ q[k].lots = p[k].lots /\ q[k].prev = p[k].prev
                /\ q[k].next = IF k = tail THEN i ELSE p[k].next
<1>1. PICK new : new = [id |-> id, lots |-> lots, prev |-> tail, next |-> NIL]
  OBVIOUS
<1>2. /\ new \in NodeRecords
      /\ new.id = id /\ new.lots = lots /\ new.prev = tail /\ new.next = NIL
  BY <1>1, Constants DEF NodeRecords, LinkValues
<1>3. PICK r : r = [p EXCEPT ![i] = new]
  OBVIOUS
<1>4. r \in Pools /\ r[i] = new /\ \A k \in Nodes : k # i => r[k] = p[k]
  BY <1>2, <1>3 DEF Pools
<1>5. CASE tail = NIL
  <2>1. q = r
    BY <1>1, <1>3, <1>5 DEF PushedPool
  <2>2. \A k \in Nodes : k # tail
    BY <1>5, NodesFinite
  <2>3. QED BY <1>2, <1>4, <2>1, <2>2
<1>6. CASE tail # NIL
  <2>1. q = [r EXCEPT ![tail].next = i]
    BY <1>1, <1>3, <1>6 DEF PushedPool
  <2>2. tail \in Nodes
    BY <1>6 DEF LinkValues
  <2>3. PICK v : v = [p[tail] EXCEPT !.next = i]
    OBVIOUS
  <2>4. p[tail] \in NodeRecords
    BY <2>2, PoolFacts
  <2>5. /\ v \in NodeRecords /\ v.next = i /\ v.id = p[tail].id /\ v.lots = p[tail].lots
        /\ v.prev = p[tail].prev
    BY <2>3, <2>4 DEF NodeRecords, LinkValues
  <2>6. q = [r EXCEPT ![tail] = v]
    BY <1>4, <2>1, <2>2, <2>3
  <2>7. q \in Pools /\ q[tail] = v /\ \A k \in Nodes : k # tail => q[k] = r[k]
    BY <1>4, <2>2, <2>5, <2>6 DEF Pools
  <2>8. QED BY <1>2, <1>4, <2>2, <2>5, <2>7
<1>7. QED BY <1>5, <1>6

\* What a node at the end of a level changes in the level.
LEMMA PushedLevelFacts ==
    ASSUME NEW level \in LevelRecords, NEW i \in Nodes, NEW lots \in Int,
           NEW x, x = PushedLevel(level, i, lots)
    PROVE  /\ x \in LevelRecords /\ x.price = level.price
           /\ x.head = (IF level.tail = NIL THEN i ELSE level.head) /\ x.tail = i
           /\ x.total = level.total + lots /\ x.count = level.count + 1
<1>1. PICK p, h, l, s, n : /\ level = [price |-> p, head |-> h, tail |-> l, total |-> s, count |-> n]
                          /\ p \in Prices /\ h \in LinkValues /\ l \in LinkValues
                          /\ s \in Int /\ n \in Nat
  BY DEF LevelRecords
<1>2. x = [price |-> p, head |-> IF l = NIL THEN i ELSE h, tail |-> i, total |-> s + lots,
           count |-> n + 1]
  BY <1>1 DEF PushedLevel
<1>3. (IF l = NIL THEN i ELSE h) \in LinkValues /\ i \in LinkValues /\ s + lots \in Int /\ n + 1 \in Nat
  BY <1>1 DEF LinkValues
<1>4. x \in LevelRecords
  BY <1>1, <1>2, <1>3 DEF LevelRecords
<1>5. QED BY <1>1, <1>2, <1>4

PushedTo(t, u, at, i, id, side, price, lots, level) ==
    /\ u = [pool |-> u.pool, used |-> u.used, free |-> u.free, levels |-> u.levels,
            lookup |-> u.lookup]
    /\ u.pool = PushedPool(t.pool, i, id, lots, level.tail)
    /\ u.used = t.used \cup {i} /\ u.free = Front(t.free)
    /\ u.levels = [t.levels EXCEPT ![side] =
                     [t.levels[side] EXCEPT ![at] = PushedLevel(level, i, lots)]]
    /\ u.lookup = [t.lookup EXCEPT ![id] = [side |-> side, price |-> price, node |-> i]]

LEMMA PushedShape ==
    ASSUME NEW t \in Structures, NEW at, NEW i, NEW id \in OrderIds, NEW o \in Orders,
           NEW side, NEW price, NEW lots, side = o.side /\ price = o.price /\ lots = o.lots,
           NEW u, u = Pushed(t, at, i, id, o), NEW level, level = t.levels[side][at]
    PROVE  PushedTo(t, u, at, i, id, side, price, lots, level)
<1>1. PICK p, us, f, l, k : t = [pool |-> p, used |-> us, free |-> f, levels |-> l, lookup |-> k]
  BY DEF Structures
<1>2. u = [pool |-> PushedPool(p, i, id, lots, level.tail), used |-> us \cup {i},
           free |-> Front(f),
           levels |-> [l EXCEPT ![side][at] = PushedLevel(level, i, lots)],
           lookup |-> [k EXCEPT ![id] = [side |-> side, price |-> price, node |-> i]]]
  BY <1>1 DEF Pushed
<1>3. t.pool = p /\ t.used = us /\ t.free = f /\ t.levels = l /\ t.lookup = k
  BY <1>1
<1>4. PICK v : v = [l EXCEPT ![side][at] = PushedLevel(level, i, lots)]
  OBVIOUS
<1>5. v = [l EXCEPT ![side] = [l[side] EXCEPT ![at] = PushedLevel(level, i, lots)]]
  BY <1>4
<1>6. PICK q, m : /\ q = PushedPool(p, i, id, lots, level.tail)
                 /\ m = [k EXCEPT ![id] = [side |-> side, price |-> price, node |-> i]]
  OBVIOUS
<1>7. u = [pool |-> q, used |-> us \cup {i}, free |-> Front(f), levels |-> v, lookup |-> m]
  BY <1>2, <1>4, <1>6
<1>8. u.pool = q /\ u.used = us \cup {i} /\ u.free = Front(f) /\ u.levels = v /\ u.lookup = m
  BY <1>7
<1>9. u = [pool |-> u.pool, used |-> u.used, free |-> u.free, levels |-> u.levels,
           lookup |-> u.lookup]
  BY <1>7, <1>8
<1>10. QED BY <1>3, <1>5, <1>6, <1>8, <1>9 DEF PushedTo

\* The node that comes off the free list.
LEMMA FrontFacts ==
    ASSUME NEW f \in Seq(Nodes), f # <<>>, Distinct(f), NEW g, g = Front(f), NEW i, i = Last(f)
    PROVE  /\ Len(f) \in Nat /\ Len(f) > 0 /\ i = f[Len(f)] /\ i \in Nodes /\ i \in Range(f)
           /\ g \in Seq(Nodes) /\ Distinct(g) /\ Len(g) = Len(f) - 1
           /\ Range(g) = Range(f) \ {i}
<1>1. Len(f) \in Nat /\ Len(f) > 0 /\ i = f[Len(f)] /\ \A k \in 1 .. Len(f) : f[k] \in Nodes
  BY EmptySeq, ElementOfSeq DEF Last
<1>2. i \in Nodes /\ i \in Range(f)
  BY <1>1, SeqRange
<1>3. g \in Seq(Nodes) /\ Len(g) = Len(f) - 1 /\ \A k \in 1 .. Len(f) - 1 : g[k] = f[k]
  <2>1. \A k \in 1 .. Len(f) - 1 : f[k] \in Nodes
    BY <1>1
  <2>2. PICK n : n = Len(f) - 1
    OBVIOUS
  <2>3. g = SubSeq(f, 1, n) /\ n \in Int /\ 1 <= n + 1 /\ n <= Len(f)
    BY <1>1, <2>2 DEF Front
  <2>4. \A k \in 1 .. n : f[k] \in Nodes
    BY <2>1, <2>2
  <2>5. /\ SubSeq(f, 1, n) \in Seq(Nodes)
        /\ Len(SubSeq(f, 1, n)) = IF 1 <= n THEN n - 1 + 1 ELSE 0
        /\ \A k \in 1 .. n - 1 + 1 : SubSeq(f, 1, n)[k] = f[1 + k - 1]
    BY <2>3, <2>4, SubSeqProperties
  <2>6. Len(g) = n
    BY <1>1, <2>2, <2>3, <2>5
  <2>7. \A k \in 1 .. n : g[k] = f[k]
    BY <2>3, <2>5
  <2>8. QED BY <2>2, <2>3, <2>5, <2>6, <2>7
<1>4. Distinct(g)
  BY <1>1, <1>3 DEF Distinct
<1>5. \A x : x \in Range(g) <=> x \in Range(f) \ {i}
  <2> TAKE x
  <2>1. x \in Range(g) <=> \E k \in 1 .. Len(g) : g[k] = x
    BY <1>3, SeqRange
  <2>2. x \in Range(f) <=> \E k \in 1 .. Len(f) : f[k] = x
    BY SeqRange
  <2>3. ASSUME NEW k \in 1 .. Len(g), g[k] = x PROVE x # i /\ \E m \in 1 .. Len(f) : f[m] = x
    <3>1. k \in 1 .. Len(f) /\ f[k] = x /\ k # Len(f) /\ Len(f) \in 1 .. Len(f)
      BY <1>1, <1>3, <2>3
    <3>2. QED BY <1>1, <3>1 DEF Distinct
  <2>4. ASSUME NEW m \in 1 .. Len(f), f[m] = x, x # i PROVE \E k \in 1 .. Len(g) : g[k] = x
    <3>1. m \in 1 .. Len(g) /\ g[m] = x
      BY <1>1, <1>3, <2>4
    <3>2. QED BY <3>1
  <2>5. QED BY <2>1, <2>2, <2>3, <2>4
<1>6. Range(g) = Range(f) \ {i}
  BY <1>5, Zenon
<1>7. QED BY <1>1, <1>2, <1>3, <1>4, <1>6

LEMMA InjectiveIsDistinct ==
    ASSUME NEW f \in Seq(Nodes)
    PROVE  IsInjective(f) <=> Distinct(f)
<1>1. DOMAIN f = 1 .. Len(f)
  BY SeqRange
<1>2. QED BY <1>1 DEF IsInjective, Distinct

\* The pool, the nodes in use and the free list, at every step.
LEMMA BaseFree ==
    ASSUME NEW s, NEW L, Base(s, L)
    PROVE  /\ s.free \in Seq(Nodes) /\ Distinct(s.free) /\ Range(s.free) = Nodes \ s.used
           /\ s.used \subseteq Nodes /\ s.pool \in Pools
           /\ s.lookup \in [OrderIds -> Locators \cup {NoOrder}]
<1>1. s \in Structures /\ FreeSound(s.free, s.used)
  BY DEF Base
<1>2. s.free \in Seq(Nodes) /\ s.used \subseteq Nodes
  BY <1>1, StructureFacts
<1>3. Range(s.free) = Nodes \ s.used /\ Distinct(s.free)
  BY <1>1, <1>2, InjectiveIsDistinct DEF FreeSound
<1>4. QED BY <1>1, <1>2, <1>3, StructureFacts

\* The lists after a step: one is replaced.
WithList(L, side, price, d) == [L EXCEPT ![side] = [L[side] EXCEPT ![price] = d]]

ListReplaced(L, M, side, price, d) ==
    /\ M \in Lists /\ M[side][price] = d
    /\ M[side] = [L[side] EXCEPT ![price] = d]
    /\ \A other \in Sides : other # side => M[other] = L[other]
    /\ \A other \in Sides, at \in Prices :
         other # side \/ at # price => M[other][at] = L[other][at]

\* One list is replaced.
LEMMA WithListFacts ==
    ASSUME NEW L \in Lists, NEW side \in Sides, NEW price \in Prices, NEW d \in Seq(Nodes),
           NEW M, M = WithList(L, side, price, d)
    PROVE  ListReplaced(L, M, side, price, d)
<1>1. PICK x : x = [L[side] EXCEPT ![price] = d]
  OBVIOUS
<1>2. L[side] \in [Prices -> Seq(Nodes)]
  BY DEF Lists
<1>3. x \in [Prices -> Seq(Nodes)] /\ x[price] = d /\ \A at \in Prices : at # price => x[at] = L[side][at]
  BY <1>1, <1>2
<1>4. M = [L EXCEPT ![side] = x]
  BY <1>1 DEF WithList
<1>5. M \in Lists /\ M[side] = x /\ \A other \in Sides : other # side => M[other] = L[other]
  BY <1>3, <1>4 DEF Lists
<1>6. QED BY <1>1, <1>3, <1>5 DEF ListReplaced

\* Two pools agree on the orders and lots of all nodes but i.
NodesSame(p, q, i) == \A k \in Nodes : k # i => q[k].id = p[k].id /\ q[k].lots = p[k].lots

OthersSame(f, g, x) == \A y \in DOMAIN f : y # x => g[y] = f[y]

LEMMA OrderFacts ==
    ASSUME NEW o \in Orders
    PROVE  o.side \in Sides /\ o.price \in Prices /\ o.lots \in 1 .. MaxLots /\ o.lots \in Int
BY Constants DEF Orders, Lots

LEMMA LocatorMade ==
    ASSUME NEW side \in Sides, NEW price \in Prices, NEW i \in Nodes,
           NEW r, r = [side |-> side, price |-> price, node |-> i]
    PROVE  r \in Locators /\ r # NoOrder /\ r.side = side /\ r.price = price /\ r.node = i
BY Constants DEF Locators

LEMMA LevelRecordFacts ==
    ASSUME NEW r \in LevelRecords
    PROVE  /\ r.price \in Prices /\ r.price \in Int /\ r.head \in LinkValues /\ r.tail \in LinkValues
           /\ r.total \in Int /\ r.count \in Nat
BY Constants DEF LevelRecords

\* The links of all nodes but i are the same, except that tail leads to i.
Relinked(p, q, i, tail) ==
    \A k \in Nodes : k # i => /\ q[k].prev = p[k].prev
                              /\ q[k].next = IF k = tail THEN i ELSE p[k].next

PushEffect(t, u, p, q, i, id, side, price, lots, at, level, r) ==
    /\ u \in Structures /\ i \in Nodes /\ i \notin t.used /\ u.used = t.used \cup {i}
    /\ FreeSound(u.free, u.used)
    /\ q[i].id = id /\ q[i].lots = lots
    /\ q[i].prev = level.tail /\ q[i].next = NIL
    /\ Relinked(p, q, i, level.tail)
    /\ NodesSame(p, q, i)
    /\ r # NoOrder /\ r = [side |-> side, price |-> price, node |-> i]
    /\ r.side = side /\ r.price = price /\ r.node = i
    /\ OthersSame(t.lookup, u.lookup, id)
    /\ \A other \in Sides : other # side => u.levels[other] = t.levels[other]
    /\ u.levels[side] = [t.levels[side] EXCEPT ![at] = PushedLevel(level, i, lots)]

\* What an order at the end of a level changes, and what it leaves.
LEMMA PushedFacts ==
    ASSUME NEW t, NEW L, Base(t, L), NEW id \in OrderIds, t.lookup[id] = NoOrder,
           t.free # <<>>, NEW i, i = Last(t.free), NEW o \in Orders,
           NEW side, NEW price, NEW lots, side = o.side /\ price = o.price /\ lots = o.lots,
           NEW at \in 1 .. Len(t.levels[side]), NEW level, level = t.levels[side][at],
           level.price = price, NEW c, c = L[side][price],
           NEW u, u = Pushed(t, at, i, id, o), NEW r, r = u.lookup[id],
           NEW p, p = t.pool, NEW q, q = u.pool
    PROVE  PushEffect(t, u, p, q, i, id, side, price, lots, at, level, r)
<1>1. /\ t \in Structures /\ side \in Sides /\ price \in Prices /\ lots \in 1 .. MaxLots
      /\ lots \in Int
  BY OrderFacts DEF Base
<1>2. PICK f, g : f = t.free /\ g = Front(f)
  OBVIOUS
<1>3. /\ f \in Seq(Nodes) /\ Distinct(f) /\ Range(f) = Nodes \ t.used /\ t.used \subseteq Nodes
      /\ f # <<>> /\ i = Last(f)
  BY <1>2, BaseFree
<1>4. /\ i \in Nodes /\ i \in Range(f) /\ g \in Seq(Nodes) /\ Distinct(g)
      /\ Range(g) = Range(f) \ {i}
  BY <1>2, <1>3, FrontFacts
<1>5. /\ level \in LevelRecords /\ c \in Seq(Nodes) /\ Len(c) \in Nat
      /\ level.tail = LastOf(c)
  <2>1. side \in Sides
    BY <1>1
  <2>2. LevelHolds(p, level, price, c)
    BY <2>1, LevelHeld
  <2>3. QED BY <2>2 DEF LevelHolds
<1>6. level.tail \in LinkValues /\ level.tail # i
  <2>1. level.tail \in LinkValues
    BY <1>5, LevelRecordFacts
  <2>2. CASE Len(c) = 0
    BY <1>4, <1>5, <2>1, <2>2, NodesFinite DEF LastOf
  <2>3. CASE Len(c) # 0
    <3>1. c[Len(c)] \in t.used
      <4>1. Len(c) \in 1 .. Len(c)
        BY <1>5, <2>3
      <4>2. QED BY <1>1, <4>1, BaseLists
    <3>2. level.tail = c[Len(c)]
      BY <1>5, <2>3 DEF LastOf
    <3>3. QED BY <1>3, <1>4, <2>1, <3>1, <3>2
  <2>4. QED BY <2>1, <2>2, <2>3
<1>7. PICK v, m, tail, x :
        /\ v = [t.levels EXCEPT ![side] = x]
        /\ x = [t.levels[side] EXCEPT ![at] = PushedLevel(level, i, lots)]
        /\ m = [t.lookup EXCEPT ![id] = [side |-> side, price |-> price, node |-> i]]
        /\ tail = level.tail
  OBVIOUS
<1>8. /\ u = [pool |-> u.pool, used |-> u.used, free |-> u.free, levels |-> u.levels,
              lookup |-> u.lookup]
      /\ u.pool = PushedPool(t.pool, i, id, lots, tail)
      /\ u.used = t.used \cup {i} /\ u.free = g
      /\ u.levels = v
      /\ u.lookup = m
  <2>1. side = o.side /\ price = o.price /\ lots = o.lots
    OBVIOUS
  <2>2. PushedTo(t, u, at, i, id, side, price, lots, level)
    BY <1>1, <2>1, PushedShape
  <2>3. QED BY <1>2, <1>7, <2>2 DEF PushedTo
<1>9. q = u.pool /\ p = t.pool
  OBVIOUS
<1>10. /\ q \in Pools
       /\ q[i].id = id /\ q[i].lots = lots /\ q[i].prev = tail /\ q[i].next = NIL
       /\ \A k \in Nodes : k # i =>
             /\ q[k].id = t.pool[k].id /\ q[k].lots = t.pool[k].lots /\ q[k].prev = t.pool[k].prev
             /\ q[k].next = IF k = tail THEN i ELSE t.pool[k].next
  <2>1. t.pool \in Pools /\ q = PushedPool(t.pool, i, id, lots, tail)
    BY <1>1, <1>8, <1>9, StructureFacts
  <2>2. tail \in LinkValues /\ tail # i /\ lots \in 1 .. MaxLots
    BY <1>1, <1>6, <1>7
  <2>3. p \in Pools /\ q = PushedPool(p, i, id, lots, tail)
    BY <1>9, <2>1
  <2>4. /\ q \in Pools
        /\ q[i].id = id /\ q[i].lots = lots /\ q[i].prev = tail /\ q[i].next = NIL
        /\ \A k \in Nodes : k # i =>
              /\ q[k].id = p[k].id /\ q[k].lots = p[k].lots /\ q[k].prev = p[k].prev
              /\ q[k].next = IF k = tail THEN i ELSE p[k].next
    BY <1>4, <2>2, <2>3, PushedPoolFacts
  <2>5. QED BY <1>9, <2>4
<1>11. PICK rec : rec = [side |-> side, price |-> price, node |-> i]
  OBVIOUS
<1>12. /\ rec \in Locators /\ rec # NoOrder /\ rec.side = side /\ rec.price = price
       /\ rec.node = i
  BY <1>1, <1>4, <1>11, LocatorMade
<1>13. t.lookup \in [OrderIds -> Locators \cup {NoOrder}]
  BY <1>1, StructureFacts
<1>14. /\ m \in [OrderIds -> Locators \cup {NoOrder}] /\ m[id] = rec
       /\ OthersSame(t.lookup, m, id)
  BY <1>7, <1>11, <1>12, <1>13 DEF OthersSame
<1>15. x \in Seq(LevelRecords)
  <2>1. PushedLevel(level, i, lots) \in LevelRecords
    BY <1>1, <1>4, <1>5, <1>7, PushedLevelFacts
  <2>2. t.levels[side] \in Seq(LevelRecords)
    BY <1>1, StructureFacts
  <2>3. QED BY <1>7, <2>1, <2>2, ExceptSeq
<1>16. /\ v \in [Sides -> Seq(LevelRecords)] /\ v[side] = x
       /\ \A other \in Sides : other # side => v[other] = t.levels[other]
  <2>1. t.levels \in [Sides -> Seq(LevelRecords)]
    BY <1>1, StructureFacts
  <2>2. QED BY <1>1, <1>7, <1>15, <2>1
<1>17. FreeSound(g, u.used)
  <2>1. Range(g) = Nodes \ u.used
    BY <1>3, <1>4, <1>8
  <2>2. QED BY <1>4, <2>1, InjectiveIsDistinct DEF FreeSound
<1>18. u \in Structures
  <2>1. u.used \in SUBSET Nodes
    BY <1>3, <1>4, <1>8
  <2>2. /\ u.pool \in Pools /\ u.free \in Seq(Nodes) /\ u.levels \in [Sides -> Seq(LevelRecords)]
        /\ u.lookup \in [OrderIds -> Locators \cup {NoOrder}]
    BY <1>4, <1>8, <1>9, <1>10, <1>14, <1>16
  <2>3. QED BY <1>8, <2>1, <2>2 DEF Structures
<1>19. i \notin t.used
  BY <1>3, <1>4
<1>20. NodesSame(t.pool, u.pool, i)
  BY <1>9, <1>10 DEF NodesSame
<1>21. r = rec
  BY <1>8, <1>14
<1>22. /\ r # NoOrder /\ r = [side |-> side, price |-> price, node |-> i]
       /\ r.side = side /\ r.price = price /\ r.node = i
  BY <1>11, <1>12, <1>21
<1>23. OthersSame(t.lookup, u.lookup, id)
  BY <1>8, <1>14
<1>24. /\ \A other \in Sides : other # side => u.levels[other] = t.levels[other]
       /\ u.levels[side] = [t.levels[side] EXCEPT ![at] = PushedLevel(level, i, lots)]
  BY <1>7, <1>8, <1>16
<1>25. FreeSound(u.free, u.used) /\ u.used = t.used \cup {i}
  BY <1>8, <1>17
<1>26. /\ u.pool[i].id = id /\ u.pool[i].lots = lots
       /\ u.pool[i].prev = level.tail /\ u.pool[i].next = NIL
       /\ \A k \in Nodes : k # i =>
            /\ u.pool[k].prev = t.pool[k].prev
            /\ u.pool[k].next = IF k = level.tail THEN i ELSE t.pool[k].next
  BY <1>7, <1>9, <1>10
<1>27. QED
  BY <1>4, <1>9, <1>18, <1>19, <1>20, <1>22, <1>23, <1>24, <1>25, <1>26 DEF PushEffect, Relinked

\* The list of the level the order goes to.
LEMMA PushedLinked ==
    ASSUME NEW c \in Seq(Nodes), NEW i \in Nodes, NEW p, NEW q, NEW tail, tail = LastOf(c),
           Distinct(c), i \notin Range(c), Linked(p, c),
           q[i].prev = tail, q[i].next = NIL,
           Relinked(p, q, i, tail), NEW d, d = Append(c, i)
    PROVE  Linked(q, d) /\ Distinct(d)
<1>1. /\ Len(c) \in Nat /\ Len(d) = Len(c) + 1 /\ d[Len(c) + 1] = i
      /\ \A k \in 1 .. Len(c) : d[k] = c[k] /\ c[k] \in Nodes /\ c[k] # i
  BY AppendFacts, SeqRange
<1>2. Distinct(d)
  <2> SUFFICES ASSUME NEW j \in 1 .. Len(d), NEW k \in 1 .. Len(d), d[j] = d[k]
               PROVE  j = k
    BY DEF Distinct
  <2>1. CASE j <= Len(c) /\ k <= Len(c)
    <3>1. c[j] = c[k] /\ j \in 1 .. Len(c) /\ k \in 1 .. Len(c)
      BY <1>1, <2>1
    <3>2. QED BY <3>1 DEF Distinct
  <2>2. CASE ~(j <= Len(c) /\ k <= Len(c))
    BY <1>1, <2>2
  <2>3. QED BY <2>1, <2>2
<1>3. ASSUME NEW k \in 1 .. Len(c)
      PROVE  /\ q[c[k]].prev = (IF k = 1 THEN NIL ELSE c[k - 1])
             /\ q[c[k]].next = (IF k = Len(c) THEN i ELSE c[k + 1])
  <2>1. /\ p[c[k]].prev = (IF k = 1 THEN NIL ELSE c[k - 1])
        /\ p[c[k]].next = (IF k = Len(c) THEN NIL ELSE c[k + 1])
    BY DEF Linked
  <2>2. tail = c[Len(c)] /\ Len(c) \in 1 .. Len(c)
    BY <1>1 DEF LastOf
  <2>3. c[k] = tail <=> k = Len(c)
    BY <2>2 DEF Distinct
  <2>4. QED BY <1>1, <2>1, <2>3 DEF Relinked
<1>4. ASSUME NEW k \in 1 .. Len(d)
      PROVE  /\ q[d[k]].prev = (IF k = 1 THEN NIL ELSE d[k - 1])
             /\ q[d[k]].next = (IF k = Len(d) THEN NIL ELSE d[k + 1])
  <2>1. CASE k \in 1 .. Len(c)
    <3>1. d[k] = c[k] /\ k # Len(d)
      BY <1>1, <2>1
    <3>2. k # 1 => d[k - 1] = c[k - 1]
      BY <1>1, <2>1
    <3>3. d[k + 1] = IF k = Len(c) THEN i ELSE c[k + 1]
      BY <1>1, <2>1
    <3>4. QED BY <1>3, <2>1, <3>1, <3>2, <3>3
  <2>2. CASE k = Len(c) + 1
    <3>1. d[k] = i /\ k = Len(d)
      BY <1>1, <2>2
    <3>2. tail = IF k = 1 THEN NIL ELSE d[k - 1]
      <4>1. CASE Len(c) = 0
        BY <2>2, <4>1 DEF LastOf
      <4>2. CASE Len(c) # 0
        <5>1. k # 1 /\ k - 1 = Len(c) /\ Len(c) \in 1 .. Len(c)
          BY <1>1, <2>2, <4>2
        <5>2. QED BY <1>1, <4>2, <5>1 DEF LastOf
      <4>3. QED BY <4>1, <4>2
    <3>3. QED BY <3>1, <3>2
  <2>3. QED BY <1>1, <2>1, <2>2
<1>5. QED BY <1>2, <1>4 DEF Linked

\* The level with one more node is that of the list with one more.
LEMMA PushedLevelIs ==
    ASSUME NEW p \in Pools, NEW q \in Pools, NEW c \in Seq(Nodes), NEW i \in Nodes,
           i \notin Range(c), NodesSame(p, q, i), NEW lots \in Int, q[i].lots = lots,
           NEW level \in LevelRecords, LevelIs(p, level, c),
           NEW x, x = PushedLevel(level, i, lots), NEW d, IsAppended(c, i, d)
    PROVE  x \in LevelRecords /\ x.price = level.price /\ LevelIs(q, x, d)
<1>1. /\ Len(c) \in Nat /\ d \in Seq(Nodes) /\ Len(d) = Len(c) + 1 /\ d[Len(c) + 1] = i
      /\ \A k \in 1 .. Len(c) : d[k] = c[k] /\ c[k] \in Nodes
      /\ Range(d) = Range(c) \cup {i} /\ Range(c) \subseteq Nodes
  BY AppendFacts, SeqRange DEF IsAppended
<1>2. /\ x \in LevelRecords /\ x.price = level.price
      /\ x.head = (IF level.tail = NIL THEN i ELSE level.head) /\ x.tail = i
      /\ x.total = level.total + lots /\ x.count = level.count + 1
  BY PushedLevelFacts
<1>3. /\ level.count = Len(c) /\ level.head = FirstOf(c) /\ level.tail = LastOf(c)
      /\ level.total = Total(p, c)
  BY DEF LevelIs
<1>4. x.tail = LastOf(d)
  BY <1>1, <1>2 DEF LastOf
<1>5. x.head = FirstOf(d)
  <2>1. CASE Len(c) = 0
    <3>1. level.tail = NIL /\ d[1] = i /\ Len(d) = 1
      BY <1>1, <1>3, <2>1 DEF LastOf
    <3>2. QED BY <1>2, <3>1 DEF FirstOf
  <2>2. CASE Len(c) # 0
    <3>1. Len(c) \in 1 .. Len(c) /\ 1 \in 1 .. Len(c)
      BY <1>1, <2>2
    <3>2. level.tail # NIL
      BY <1>1, <1>3, <2>2, <3>1, NodesFinite DEF LastOf
    <3>3. level.head = c[1] /\ d[1] = c[1] /\ Len(d) # 0
      BY <1>1, <1>3, <2>2, <3>1 DEF FirstOf
    <3>4. QED BY <1>2, <3>2, <3>3 DEF FirstOf
  <2>3. QED BY <2>1, <2>2
<1>6. Total(q, d) = Total(p, c) + lots
  <2>1. PICK S : S = Range(c)
    OBVIOUS
  <2>2. S \subseteq Nodes /\ i \notin S /\ Range(d) = S \cup {i}
    BY <1>1, <2>1, SeqRange
  <2>3. Sum(LotsOf(q), S) = Sum(LotsOf(p), S)
    <3>1. \A k \in S : q[k].lots = p[k].lots
      BY <2>2 DEF NodesSame
    <3>2. QED BY <2>2, <3>1, TotalSame
  <2>4. Sum(LotsOf(q), S \cup {i}) = Sum(LotsOf(q), S) + q[i].lots
    BY <2>2, TotalWith
  <2>5. QED BY <2>1, <2>2, <2>3, <2>4 DEF Total
<1>7. QED BY <1>1, <1>2, <1>3, <1>4, <1>5, <1>6 DEF LevelIs

\* Putting an order at the end of a level keeps the links, the totals, the
\* free list and the lookup table in agreement.
LEMMA PushedBase ==
    ASSUME NEW t, NEW L, Base(t, L), NEW id \in OrderIds, t.lookup[id] = NoOrder,
           t.free # <<>>, NEW i, i = Last(t.free), NEW o \in Orders,
           NEW side, NEW price, NEW lots, side = o.side /\ price = o.price /\ lots = o.lots,
           NEW at \in 1 .. Len(t.levels[side]), t.levels[side][at].price = price,
           NEW u, u = Pushed(t, at, i, id, o),
           NEW M, M = WithList(L, side, price, Append(L[side][price], i))
    PROVE  Base(u, M)
<1>1. side \in Sides /\ price \in Prices /\ lots \in Int /\ L \in Lists /\ t \in Structures
  BY OrderFacts DEF Base
<1>2. PICK p, q, c, d, level, r :
        /\ p = t.pool /\ q = u.pool /\ c = L[side][price] /\ d = Append(c, i)
        /\ level = t.levels[side][at] /\ r = u.lookup[id]
  OBVIOUS
<1>3. PushEffect(t, u, p, q, i, id, side, price, lots, at, level, r)
  <2>1. p = t.pool /\ q = u.pool /\ level.price = price
    BY <1>2
  <2>2. QED BY <1>2, <2>1, PushedFacts
<1>4. /\ u \in Structures /\ i \in Nodes /\ i \notin t.used /\ u.used = t.used \cup {i}
      /\ FreeSound(u.free, u.used)
      /\ q[i].id = id /\ q[i].lots = lots
      /\ q[i].prev = level.tail /\ q[i].next = NIL
      /\ Relinked(p, q, i, level.tail)
      /\ NodesSame(p, q, i)
      /\ r # NoOrder /\ r.side = side /\ r.price = price /\ r.node = i
      /\ OthersSame(t.lookup, u.lookup, id)
      /\ \A other \in Sides : other # side => u.levels[other] = t.levels[other]
  BY <1>3 DEF PushEffect
<1>5. r = [side |-> side, price |-> price, node |-> i]
  BY <1>3 DEF PushEffect
<1>6. u.levels[side] = [t.levels[side] EXCEPT ![at] = PushedLevel(level, i, lots)]
  BY <1>3 DEF PushEffect
<1>7. p \in Pools /\ q \in Pools /\ t.lookup \in [OrderIds -> Locators \cup {NoOrder}]
  BY <1>1, <1>2, <1>4, StructureFacts, Zenon
<1>8. \A x \in OrderIds : x # id => u.lookup[x] = t.lookup[x]
  BY <1>4, <1>7 DEF OthersSame
<1>9. /\ c \in Seq(Nodes) /\ Len(c) \in Nat /\ Linked(p, c) /\ Distinct(c)
      /\ \A k \in 1 .. Len(c) :
           /\ c[k] \in Nodes /\ c[k] \in t.used /\ p[c[k]].id \in OrderIds
           /\ t.lookup[p[c[k]].id] = [side |-> side, price |-> price, node |-> c[k]]
  <2>1. Held(p, t.used, t.lookup, side, price, c)
    BY <1>1, <1>2, BaseHeld
  <2>2. QED BY <2>1 DEF Held
<1>10. /\ level \in LevelRecords /\ level.price = price /\ LevelIs(p, level, c)
      /\ level.tail = LastOf(c)
  <2>1. level.price = price
    BY <1>2
  <2>2. LevelHolds(p, level, price, c)
    BY <1>1, <1>2, <2>1, LevelHeld
  <2>3. QED BY <2>2 DEF LevelHolds
<1>11. i \notin Range(c)
  <2>1. c \in Seq(Nodes) /\ \A k \in 1 .. Len(c) : c[k] \in t.used
    BY <1>9
  <2>2. i \notin t.used
    BY <1>4
  <2>3. QED BY <2>1, <2>2, SeqRange
<1>12. /\ d \in Seq(Nodes) /\ Len(d) = Len(c) + 1 /\ d[Len(c) + 1] = i
      /\ \A k \in 1 .. Len(c) : d[k] = c[k]
  <2>1. /\ Append(c, i) \in Seq(Nodes) /\ Len(Append(c, i)) = Len(c) + 1
        /\ Append(c, i)[Len(c) + 1] = i /\ \A k \in 1 .. Len(c) : Append(c, i)[k] = c[k]
    BY <1>4, <1>9, AppendFacts
  <2>2. QED BY <1>2, <2>1
<1>13. ListReplaced(L, M, side, price, d)
  <2>1. M = WithList(L, side, price, d)
    BY <1>2
  <2>2. QED BY <1>1, <1>12, <2>1, WithListFacts
<1>14. M \in Lists /\ M[side][price] = d
  BY <1>13 DEF ListReplaced
<1>15. \A other \in Sides : other # side => M[other] = L[other]
  BY <1>13 DEF ListReplaced
<1>16. \A other \in Sides, b \in Prices :
          other # side \/ b # price => M[other][b] = L[other][b]
  BY <1>13 DEF ListReplaced
<1>17. M[side] = [L[side] EXCEPT ![price] = d]
  BY <1>13 DEF ListReplaced
<1>18. Linked(q, d) /\ Distinct(d)
  <2>1. d = Append(c, i)
    BY <1>2
  <2>2. q[i].prev = level.tail /\ q[i].next = NIL /\ Relinked(p, q, i, level.tail) /\ i \in Nodes
    BY <1>4
  <2>3. c \in Seq(Nodes) /\ Linked(p, c) /\ Distinct(c)
    BY <1>9
  <2>4. level.tail = LastOf(c)
    BY <1>10
  <2>5. QED BY <1>11, <2>1, <2>2, <2>3, <2>4, PushedLinked
<1>19. \A x \in t.used : /\ x # i /\ x \in Nodes /\ q[x].id = p[x].id /\ q[x].lots = p[x].lots
                         /\ p[x].id \in OrderIds /\ p[x].id # id
                         /\ u.lookup[p[x].id] = t.lookup[p[x].id]
                         /\ t.lookup[p[x].id] # NoOrder /\ t.lookup[p[x].id].node = x
  <2> TAKE x \in t.used
  <2>1. p[x].id \in OrderIds /\ t.lookup[p[x].id] # NoOrder /\ t.lookup[p[x].id].node = x
    BY <1>2 DEF Base, UsedOwned
  <2>2. x # i /\ x \in Nodes
    BY <1>4, BaseFree
  <2>3. q[x].id = p[x].id /\ q[x].lots = p[x].lots
    BY <1>4, <2>2 DEF NodesSame
  <2>4. p[x].id # id
    BY <2>1
  <2>5. QED BY <1>8, <2>1, <2>2, <2>3, <2>4
<1>20. ListOwned(q, u.used, u.lookup, d, side, price)
  <2>1. ASSUME NEW k \in 1 .. Len(d)
        PROVE  /\ d[k] \in u.used /\ q[d[k]].id \in OrderIds
               /\ u.lookup[q[d[k]].id] = [side |-> side, price |-> price, node |-> d[k]]
    <3>1. CASE k \in 1 .. Len(c)
      <4>1. d[k] = c[k] /\ c[k] \in t.used
        BY <1>9, <1>12, <3>1
      <4>2. t.lookup[p[c[k]].id] = [side |-> side, price |-> price, node |-> c[k]]
        BY <1>9, <3>1
      <4>3. QED BY <1>4, <1>19, <4>1, <4>2
    <3>2. CASE k = Len(c) + 1
      <4>1. d[k] = i /\ i \in u.used /\ q[i].id = id
        BY <1>4, <1>12, <3>2
      <4>2. u.lookup[id] = [side |-> side, price |-> price, node |-> i]
        BY <1>2, <1>5
      <4>3. QED BY <4>1, <4>2
    <3>3. QED BY <1>9, <1>12, <3>1, <3>2
  <2>2. QED BY <1>18, <2>1 DEF ListOwned, Distinct
<1>21. ASSUME NEW other \in Sides, NEW b \in Prices, other # side \/ b # price
       PROVE  ListOwned(q, u.used, u.lookup, L[other][b], other, b) /\ Linked(q, L[other][b])
  <2>1. PICK e : e = L[other][b]
    OBVIOUS
  <2>2. /\ e \in Seq(Nodes) /\ ListOwned(p, t.used, t.lookup, e, other, b) /\ Linked(p, e)
        /\ \A k \in 1 .. Len(e) : e[k] \in Nodes /\ e[k] \in t.used
    <3>1. Held(p, t.used, t.lookup, other, b, e)
      BY <1>2, <2>1, BaseHeld
    <3>2. QED BY <3>1 DEF Held
  <2>3. ASSUME NEW k \in 1 .. Len(e) PROVE e[k] # level.tail
    <3>1. CASE Len(c) = 0
      BY <1>10, <2>2, <3>1, NodesFinite DEF LastOf
    <3>2. CASE Len(c) # 0
      <4>1. level.tail = c[Len(c)] /\ Len(c) \in 1 .. Len(c)
        BY <1>9, <1>10, <3>2 DEF LastOf
      <4>2. PICK j \in 1 .. Len(c) : j = Len(c)
        BY <4>1
      <4>3. c[j] # e[k]
        <5>1. c = L[side][price] /\ e = L[other][b]
          BY <1>2, <2>1
        <5>2. side # other \/ price # b
          BY <1>21
        <5>3. side \in Sides /\ price \in Prices
          BY <1>1
        <5>4. QED BY <5>1, <5>2, <5>3, ListsApart
      <4>4. QED BY <4>1, <4>2, <4>3
    <3>3. QED BY <3>1, <3>2
  <2>4. SameLinks(p, q, e)
    BY <1>4, <1>19, <2>2, <2>3 DEF SameLinks, Relinked
  <2>5. \A k \in 1 .. Len(e) : e[k] \in u.used
    BY <1>4, <2>2
  <2>6. SameLocators(p, t.lookup, u.lookup, e)
    BY <1>19, <2>2 DEF SameLocators
  <2>7. ListOwned(q, u.used, u.lookup, e, other, b) /\ Linked(q, e)
    <3>1. e \in Seq(Nodes) /\ ListOwned(p, t.used, t.lookup, e, other, b) /\ Linked(p, e)
      BY <2>2
    <3>2. QED BY <2>4, <2>5, <2>6, <3>1, ListKept
  <2>8. QED BY <2>1, <2>7
<1>22. \A other \in Sides, b \in Prices :
         ListOwned(q, u.used, u.lookup, M[other][b], other, b) /\ Linked(q, M[other][b])
  <2> TAKE other \in Sides, b \in Prices
  <2>1. CASE other = side /\ b = price
    BY <1>14, <1>18, <1>20, <2>1
  <2>2. CASE other # side \/ b # price
    BY <1>16, <1>21, <2>2
  <2>3. QED BY <2>1, <2>2
<1>23. OrdersListed(q, u.lookup, M)
  <2> SUFFICES ASSUME NEW x \in OrderIds, u.lookup[x] # NoOrder
               PROVE  ListedAt(q, M, x, u.lookup[x])
    BY DEF OrdersListed
  <2>1. CASE x = id
    <3>1. Len(c) + 1 \in 1 .. Len(d) /\ d[Len(c) + 1] = i
      BY <1>9, <1>12
    <3>2. u.lookup[x] = r
      BY <1>2, <2>1
    <3>3. q[i].id = x /\ r.side = side /\ r.price = price /\ r.node = i
      BY <1>4, <2>1
    <3>4. M[side][price] = d
      BY <1>14
    <3>5. ListedAt(q, M, x, r)
      BY <3>1, <3>3, <3>4 DEF ListedAt
    <3>6. QED BY <3>2, <3>5
  <2>2. CASE x # id
    <3>1. PICK loc, n : loc = t.lookup[x] /\ n = loc.node
      OBVIOUS
    <3>2. u.lookup[x] = loc /\ loc # NoOrder
      BY <1>8, <2>2, <3>1
    <3>3. loc.side \in Sides /\ loc.price \in Prices /\ n \in Nodes
      BY <1>1, <3>1, <3>2, LocatorFacts
    <3>4. PICK e : e = L[loc.side][loc.price]
      OBVIOUS
    <3>5. p[n].id = x /\ \E k \in 1 .. Len(e) : e[k] = n
      <4>1. OrdersListed(t.pool, t.lookup, L)
        BY DEF Base
      <4>2. p = t.pool
        BY <1>2
      <4>3. QED BY <3>1, <3>2, <3>4, <4>1, <4>2, OrderListed
    <3>6. PICK k \in 1 .. Len(e) : e[k] = n
      BY <3>5
    <3>7. n \in t.used
      BY <3>3, <3>4, <3>6, BaseLists
    <3>8. q[n].id = x
      BY <1>19, <3>5, <3>7
    <3>9. \E m \in 1 .. Len(M[loc.side][loc.price]) : M[loc.side][loc.price][m] = n
      <4>1. CASE loc.side = side /\ loc.price = price
        <5>1. M[loc.side][loc.price] = d
          BY <1>14, <4>1
        <5>2. e = c
          BY <1>2, <3>4, <4>1
        <5>3. k \in 1 .. Len(d) /\ d[k] = n
          BY <1>9, <1>12, <3>6, <5>2
        <5>4. QED BY <5>1, <5>3
      <4>2. CASE loc.side # side \/ loc.price # price
        <5>1. M[loc.side][loc.price] = e
          BY <1>16, <3>3, <3>4, <4>2
        <5>2. QED BY <3>6, <5>1, Zenon
      <4>3. QED BY <4>1, <4>2, Zenon
    <3>10. n = loc.node
      BY <3>1
    <3>11. ListedAt(q, M, x, loc)
      BY <3>8, <3>9, <3>10, Zenon DEF ListedAt
    <3>12. QED BY <3>2, <3>11
  <2>3. QED BY <2>1, <2>2
<1>24. UsedOwned(q, u.used, u.lookup)
  <2> SUFFICES ASSUME NEW x \in u.used
               PROVE  /\ q[x].id \in OrderIds /\ u.lookup[q[x].id] # NoOrder
                      /\ u.lookup[q[x].id].node = x
    BY DEF UsedOwned
  <2>1. CASE x = i
    <3>1. u.lookup[id] = r
      BY <1>2
    <3>2. q[i].id = id /\ r # NoOrder /\ r.node = i
      BY <1>4
    <3>3. QED BY <2>1, <3>1, <3>2
  <2>2. CASE x \in t.used
    BY <1>19, <2>2
  <2>3. QED BY <1>4, <2>1, <2>2
<1>25. SideSound(side, u.levels[side], q, M[side])
  <2>1. PICK ls, lists, y, x, after :
          /\ ls = t.levels[side] /\ lists = L[side] /\ y = PushedLevel(level, i, lots)
          /\ x = [ls EXCEPT ![at] = y] /\ after = [lists EXCEPT ![price] = d]
    OBVIOUS
  <2>2. /\ ls \in Seq(LevelRecords) /\ lists \in [Prices -> Seq(Nodes)]
        /\ SideSound(side, ls, p, lists) /\ at \in 1 .. Len(ls) /\ ls[at].price = price
    BY <1>1, <1>2, <2>1, BaseLevels
  <2>3. y \in LevelRecords /\ y.price = price /\ LevelIs(q, y, d)
    <3>1. /\ c \in Seq(Nodes) /\ i \in Nodes /\ NodesSame(p, q, i) /\ q[i].lots = lots
          /\ level \in LevelRecords /\ LevelIs(p, level, c) /\ IsAppended(c, i, d)
      <4>1. IsAppended(c, i, d)
        BY <1>2 DEF IsAppended
      <4>2. c \in Seq(Nodes)
        BY <1>9
      <4>3. QED BY <1>4, <1>10, <4>1, <4>2
    <3>2. y \in LevelRecords /\ y.price = level.price /\ LevelIs(q, y, d)
      <4>1. y = PushedLevel(level, i, lots)
        BY <2>1
      <4>2. p \in Pools /\ q \in Pools /\ lots \in Int
        BY <1>1, <1>7
      <4>3. QED BY <1>11, <3>1, <4>1, <4>2, PushedLevelIs
    <3>3. QED BY <1>10, <3>2
  <2>4. LotsKept(p, q, lists, price)
    <3>1. ASSUME NEW b \in Prices PROVE Range(lists[b]) \subseteq t.used
      BY <1>1, <2>1, BaseLists
    <3>2. QED BY <1>19, <3>1 DEF LotsKept
  <2>5. SideSound(side, x, q, after)
    <3>1. side \in Sides /\ price \in Prices /\ d \in Seq(Nodes)
      BY <1>1, <1>12
    <3>2. IsReplaced(ls, at, y, x) /\ IsReplaced(lists, price, d, after)
      BY <2>1 DEF IsReplaced
    <3>3. QED BY <1>7, <2>2, <2>3, <2>4, <3>1, <3>2, SideUpdated
  <2>6. u.levels[side] = x
    BY <1>6, <2>1
  <2>7. M[side] = after
    BY <1>17, <2>1
  <2>8. QED BY <2>5, <2>6, <2>7
<1>26. ASSUME NEW other \in Sides, other # side
       PROVE  SideSound(other, u.levels[other], q, M[other])
  <2>1. PICK ls, lists : ls = t.levels[other] /\ lists = L[other]
    OBVIOUS
  <2>2. /\ ls \in Seq(LevelRecords) /\ lists \in [Prices -> Seq(Nodes)]
        /\ SideSound(other, ls, p, lists)
    BY <1>2, <2>1, BaseLevels
  <2>3. \A b \in Prices : \A k \in Range(lists[b]) : q[k].lots = p[k].lots
    <3> TAKE b \in Prices
    <3>1. Range(lists[b]) \subseteq t.used
      BY <2>1, BaseLists
    <3>2. QED BY <1>19, <3>1
  <2>4. SideSound(other, ls, q, lists)
    BY <1>7, <2>2, <2>3, SideKept
  <2>5. u.levels[other] = ls
    BY <1>4, <1>26, <2>1
  <2>6. M[other] = lists
    BY <1>15, <1>26, <2>1
  <2>7. QED BY <2>4, <2>5, <2>6
<1>27. \A other \in Sides : SideSound(other, u.levels[other], q, M[other])
  BY <1>25, <1>26
<1>28. QED BY <1>2, <1>4, <1>14, <1>22, <1>23, <1>24, <1>27, Zenon DEF Base

-----------------------------------------------------------------------------
(* The steps of an operation: an order leaves its level                    *)

\* The pool once node i is unlinked and freed, and the level without it.
DroppedPool(p, i) ==
    LET node == p[i]
        pool1 == IF node.prev # NIL THEN [p EXCEPT ![node.prev].next = node.next] ELSE p
        pool2 == IF node.next # NIL THEN [pool1 EXCEPT ![node.next].prev = node.prev] ELSE pool1
    IN  [pool2 EXCEPT ![i] = BlankNode]

DroppedLevel(level, node) ==
    [level EXCEPT !.head = IF node.prev = NIL THEN node.next ELSE @,
                  !.tail = IF node.next = NIL THEN node.prev ELSE @,
                  !.total = @ - node.lots,
                  !.count = @ - 1]

\* unlink_node, free of the node and erase from the lookup table: what a
\* removal does before it looks whether the level is empty.
Dropped(s, side, at, i) ==
    [s EXCEPT !.pool = DroppedPool(s.pool, i), !.used = @ \ {i}, !.free = Append(@, i),
              !.levels[side][at] = DroppedLevel(s.levels[side][at], s.pool[i]),
              !.lookup[s.pool[i].id] = NoOrder]

\* remove_order takes the node off its level, then erases a level it leaves
\* empty.
LEMMA RemovedIsDropped ==
    ASSUME NEW s \in Structures, NEW side, NEW at, NEW i \in s.used
    PROVE  Removed(s, side, at, i) = ErasedIfEmpty(Dropped(s, side, at, i), side, at)
<1>1. PICK p, us, f, l, k : s = [pool |-> p, used |-> us, free |-> f, levels |-> l, lookup |-> k]
  BY DEF Structures
<1>2. s.pool = p /\ s.used = us /\ s.free = f /\ s.levels = l /\ s.lookup = k
  BY <1>1
<1>3. PICK node : node = p[i]
  OBVIOUS
<1>4. PICK pool1 : pool1 = IF node.prev # NIL THEN [p EXCEPT ![node.prev].next = node.next] ELSE p
  OBVIOUS
<1>5. PICK pool2 : pool2 = IF node.next # NIL THEN [pool1 EXCEPT ![node.next].prev = node.prev]
                                              ELSE pool1
  OBVIOUS
<1>6. PICK l2 : l2 = [l EXCEPT ![side][at] = DroppedLevel(l[side][at], node)]
  OBVIOUS
<1>7. PICK v : v = Unlinked(s, side, at, i)
  OBVIOUS
<1>8. v = [pool |-> pool2, used |-> us, free |-> f, levels |-> l2, lookup |-> k]
  <2>1. v = [s EXCEPT !.pool = pool2,
                      !.levels[side][at] = DroppedLevel(s.levels[side][at], node)]
    BY <1>2, <1>3, <1>4, <1>5, <1>7 DEF Unlinked, DroppedLevel
  <2>2. v = [s EXCEPT !.pool = pool2, !.levels = l2]
    BY <1>2, <1>6, <2>1
  <2>3. QED BY <1>1, <2>2
<1>9. PICK pool3 : pool3 = [pool2 EXCEPT ![i] = BlankNode]
  OBVIOUS
<1>10. pool3 = DroppedPool(p, i)
  BY <1>3, <1>4, <1>5, <1>9 DEF DroppedPool
<1>11. PICK w : w = Released(v, i)
  OBVIOUS
<1>12. w = [pool |-> pool3, used |-> us \ {i}, free |-> Append(f, i), levels |-> l2, lookup |-> k]
  <2>1. i \in v.used
    BY <1>2, <1>8
  <2>2. w = [v EXCEPT !.pool[i] = BlankNode, !.used = @ \ {i}, !.free = Append(@, i)]
    BY <1>11, <2>1 DEF Released
  <2>3. PICK g, us2 : g = Append(f, i) /\ us2 = us \ {i}
    OBVIOUS
  <2>4. v.pool = pool2 /\ v.used = us /\ v.free = f
    BY <1>8
  <2>5. w = [v EXCEPT !.pool = pool3, !.used = us2, !.free = g]
    BY <1>9, <2>2, <2>3, <2>4
  <2>6. w = [pool |-> pool3, used |-> us2, free |-> g, levels |-> l2, lookup |-> k]
    BY <1>8, <2>5
  <2>7. QED BY <2>3, <2>6
<1>13. PICK k2 : k2 = [k EXCEPT ![node.id] = NoOrder]
  OBVIOUS
<1>14. PICK g, us2 : g = Append(f, i) /\ us2 = us \ {i}
  OBVIOUS
<1>15. PICK z : z = [w EXCEPT !.lookup[s.pool[i].id] = NoOrder]
  OBVIOUS
<1>16. z = [pool |-> pool3, used |-> us2, free |-> g, levels |-> l2, lookup |-> k2]
  <2>1. w = [pool |-> pool3, used |-> us2, free |-> g, levels |-> l2, lookup |-> k]
    BY <1>12, <1>14
  <2>2. w.lookup = k /\ s.pool[i].id = node.id
    BY <1>2, <1>3, <2>1
  <2>3. z = [w EXCEPT !.lookup = k2]
    BY <1>13, <1>15, <2>2
  <2>4. QED BY <2>1, <2>3
<1>17. Dropped(s, side, at, i) =
         [pool |-> pool3, used |-> us2, free |-> g, levels |-> l2, lookup |-> k2]
  <2>1. Dropped(s, side, at, i) = [s EXCEPT !.pool = pool3, !.used = us2, !.free = g,
                                            !.levels = l2, !.lookup = k2]
    BY <1>2, <1>3, <1>6, <1>10, <1>13, <1>14 DEF Dropped
  <2>2. QED BY <1>1, <2>1
<1>18. Removed(s, side, at, i) = ErasedIfEmpty(z, side, at)
  BY <1>7, <1>11, <1>15 DEF Removed
<1>19. QED BY <1>16, <1>17, <1>18

\* Around node i, between prev and next, the links are bridged.
Bridged(p, q, i, prev, next) ==
    \A k \in Nodes : k # i =>
      /\ q[k].next = IF k = prev THEN next ELSE p[k].next
      /\ q[k].prev = IF k = next THEN prev ELSE p[k].prev

LEMMA BlankNodeFacts ==
    /\ BlankNode \in NodeRecords /\ BlankNode.id = NoOrder /\ BlankNode.lots = 0
    /\ BlankNode.prev = NIL /\ BlankNode.next = NIL
BY Constants DEF BlankNode, NodeRecords, LinkValues

IsRelinked(p, j, x, q) == q = [p EXCEPT ![j].next = x]
IsBacklinked(p, j, x, q) == q = [p EXCEPT ![j].prev = x]

LEMMA NodeNext ==
    ASSUME NEW p \in Pools, NEW j \in Nodes, NEW x \in LinkValues, NEW q,
           IsRelinked(p, j, x, q)
    PROVE  /\ q \in Pools
           /\ \A k \in Nodes : /\ q[k].id = p[k].id /\ q[k].lots = p[k].lots
                               /\ q[k].prev = p[k].prev
                               /\ q[k].next = IF k = j THEN x ELSE p[k].next
<1>1. PICK v : v = [p[j] EXCEPT !.next = x]
  OBVIOUS
<1>2. p[j] \in NodeRecords
  BY PoolFacts
<1>3. /\ v \in NodeRecords /\ v.next = x /\ v.id = p[j].id /\ v.lots = p[j].lots
      /\ v.prev = p[j].prev
  BY <1>1, <1>2 DEF NodeRecords
<1>4. q = [p EXCEPT ![j] = v]
  BY <1>1 DEF IsRelinked
<1>5. q \in Pools /\ q[j] = v /\ \A k \in Nodes : k # j => q[k] = p[k]
  BY <1>3, <1>4 DEF Pools
<1>6. QED BY <1>3, <1>5

LEMMA NodePrev ==
    ASSUME NEW p \in Pools, NEW j \in Nodes, NEW x \in LinkValues, NEW q,
           IsBacklinked(p, j, x, q)
    PROVE  /\ q \in Pools
           /\ \A k \in Nodes : /\ q[k].id = p[k].id /\ q[k].lots = p[k].lots
                               /\ q[k].next = p[k].next
                               /\ q[k].prev = IF k = j THEN x ELSE p[k].prev
<1>1. PICK v : v = [p[j] EXCEPT !.prev = x]
  OBVIOUS
<1>2. p[j] \in NodeRecords
  BY PoolFacts
<1>3. /\ v \in NodeRecords /\ v.prev = x /\ v.id = p[j].id /\ v.lots = p[j].lots
      /\ v.next = p[j].next
  BY <1>1, <1>2 DEF NodeRecords
<1>4. q = [p EXCEPT ![j] = v]
  BY <1>1 DEF IsBacklinked
<1>5. q \in Pools /\ q[j] = v /\ \A k \in Nodes : k # j => q[k] = p[k]
  BY <1>3, <1>4 DEF Pools
<1>6. QED BY <1>3, <1>5

\* What a node that leaves its level changes in the pool.
LEMMA DroppedPoolFacts ==
    ASSUME NEW p \in Pools, NEW i \in Nodes, NEW prev, prev = p[i].prev, NEW next, next = p[i].next,
           NEW q, q = DroppedPool(p, i)
    PROVE  /\ q \in Pools /\ q[i] = BlankNode
           /\ NodesSame(p, q, i) /\ Bridged(p, q, i, prev, next)
<1>1. prev \in LinkValues /\ next \in LinkValues
  BY PoolFacts
<1>2. PICK r1 : r1 = IF prev # NIL THEN [p EXCEPT ![prev].next = next] ELSE p
  OBVIOUS
<1>3. PICK r2 : r2 = IF next # NIL THEN [r1 EXCEPT ![next].prev = prev] ELSE r1
  OBVIOUS
<1>4. q = [r2 EXCEPT ![i] = BlankNode]
  BY <1>2, <1>3 DEF DroppedPool
<1>5. /\ r1 \in Pools
      /\ \A k \in Nodes : /\ r1[k].id = p[k].id /\ r1[k].lots = p[k].lots
                          /\ r1[k].prev = p[k].prev
                          /\ r1[k].next = IF k = prev THEN next ELSE p[k].next
  <2>1. CASE prev = NIL
    <3>1. r1 = p /\ \A k \in Nodes : k # prev
      BY <1>2, <2>1, NodesFinite
    <3>2. QED BY <3>1
  <2>2. CASE prev # NIL
    <3>1. IsRelinked(p, prev, next, r1) /\ prev \in Nodes
      BY <1>1, <1>2, <2>2 DEF LinkValues, IsRelinked
    <3>2. QED BY <1>1, <3>1, NodeNext
  <2>3. QED BY <2>1, <2>2
<1>6. /\ r2 \in Pools
      /\ \A k \in Nodes : /\ r2[k].id = r1[k].id /\ r2[k].lots = r1[k].lots
                          /\ r2[k].next = r1[k].next
                          /\ r2[k].prev = IF k = next THEN prev ELSE r1[k].prev
  <2>1. CASE next = NIL
    <3>1. r2 = r1 /\ \A k \in Nodes : k # next
      BY <1>3, <2>1, NodesFinite
    <3>2. QED BY <1>5, <3>1
  <2>2. CASE next # NIL
    <3>1. IsBacklinked(r1, next, prev, r2) /\ next \in Nodes
      BY <1>1, <1>3, <2>2 DEF LinkValues, IsBacklinked
    <3>2. QED BY <1>1, <1>5, <3>1, NodePrev
  <2>3. QED BY <2>1, <2>2
<1>7. q \in Pools /\ q[i] = BlankNode /\ \A k \in Nodes : k # i => q[k] = r2[k]
  BY <1>4, <1>6, BlankNodeFacts DEF Pools
<1>8. NodesSame(p, q, i)
  BY <1>5, <1>6, <1>7 DEF NodesSame
<1>9. Bridged(p, q, i, prev, next)
  BY <1>5, <1>6, <1>7 DEF Bridged
<1>10. QED BY <1>7, <1>8, <1>9

\* What a node that leaves its level changes in the level.
LEMMA DroppedLevelFacts ==
    ASSUME NEW level \in LevelRecords, NEW node \in NodeRecords, level.count > 0,
           NEW x, x = DroppedLevel(level, node)
    PROVE  /\ x \in LevelRecords /\ x.price = level.price
           /\ x.head = (IF node.prev = NIL THEN node.next ELSE level.head)
           /\ x.tail = (IF node.next = NIL THEN node.prev ELSE level.tail)
           /\ x.total = level.total - node.lots /\ x.count = level.count - 1
<1>1. PICK p, h, l, s, n : /\ level = [price |-> p, head |-> h, tail |-> l, total |-> s, count |-> n]
                          /\ p \in Prices /\ h \in LinkValues /\ l \in LinkValues
                          /\ s \in Int /\ n \in Nat
  BY DEF LevelRecords
<1>2. PICK pv, nx, lots : /\ pv = node.prev /\ nx = node.next /\ lots = node.lots
                         /\ pv \in LinkValues /\ nx \in LinkValues /\ lots \in Int
  BY Constants DEF NodeRecords
<1>3. PICK h2, l2 : h2 = (IF pv = NIL THEN nx ELSE h) /\ l2 = (IF nx = NIL THEN pv ELSE l)
  OBVIOUS
<1>4. x = [price |-> p, head |-> h2, tail |-> l2, total |-> s - lots, count |-> n - 1]
  BY <1>1, <1>2, <1>3 DEF DroppedLevel
<1>5. h2 \in LinkValues /\ l2 \in LinkValues /\ s - lots \in Int /\ n - 1 \in Nat
  BY <1>1, <1>2, <1>3
<1>6. x \in LevelRecords
  BY <1>1, <1>4, <1>5 DEF LevelRecords
<1>7. QED BY <1>1, <1>2, <1>3, <1>4, <1>6

IsShortened(c, k, d) == d = RemoveAt(c, k)

\* The links around a node that leaves are those of the list without it.
LEMMA DroppedLinked ==
    ASSUME NEW c \in Seq(Nodes), NEW k \in 1 .. Len(c), NEW i, i = c[k], NEW p, NEW q,
           Distinct(c), Linked(p, c),
           NEW prev, prev = p[i].prev, NEW next, next = p[i].next, Bridged(p, q, i, prev, next),
           NEW d, IsShortened(c, k, d)
    PROVE  Linked(q, d) /\ Distinct(d)
<1>1. /\ Len(c) \in Nat /\ Len(d) = Len(c) - 1
      /\ \A j \in 1 .. Len(c) : c[j] \in Nodes
      /\ \A j \in 1 .. Len(c) - 1 : d[j] = IF j < k THEN c[j] ELSE c[j + 1]
  <2>1. /\ Len(RemoveAt(c, k)) = Len(c) - 1
        /\ \A j \in 1 .. Len(c) - 1 : RemoveAt(c, k)[j] = IF j < k THEN c[j] ELSE c[j + 1]
    BY RemoveFacts
  <2>2. QED BY <2>1, SeqRange DEF IsShortened
<1>2. \A j, m \in 1 .. Len(c) : c[j] = c[m] => j = m
  BY DEF Distinct
<1>3. /\ prev = (IF k = 1 THEN NIL ELSE c[k - 1])
      /\ next = (IF k = Len(c) THEN NIL ELSE c[k + 1])
  BY DEF Linked
<1>4. Distinct(d)
  <2> SUFFICES ASSUME NEW j \in 1 .. Len(d), NEW m \in 1 .. Len(d), d[j] = d[m]
               PROVE  j = m
    BY DEF Distinct
  <2>1. PICK x, y : /\ x = (IF j < k THEN j ELSE j + 1) /\ y = (IF m < k THEN m ELSE m + 1)
    OBVIOUS
  <2>2. x \in 1 .. Len(c) /\ y \in 1 .. Len(c) /\ d[j] = c[x] /\ d[m] = c[y]
    BY <1>1, <2>1
  <2>3. x = y
    BY <1>2, <2>2
  <2>4. QED BY <1>1, <2>1, <2>3
<1>5. ASSUME NEW j \in 1 .. Len(c), j # k
      PROVE  /\ q[c[j]].prev = IF j = k + 1 THEN prev ELSE IF j = 1 THEN NIL ELSE c[j - 1]
             /\ q[c[j]].next = IF j = k - 1 THEN next ELSE IF j = Len(c) THEN NIL ELSE c[j + 1]
  <2>1. /\ p[c[j]].prev = (IF j = 1 THEN NIL ELSE c[j - 1])
        /\ p[c[j]].next = (IF j = Len(c) THEN NIL ELSE c[j + 1])
    BY DEF Linked
  <2>2. c[j] # i /\ c[j] \in Nodes
    BY <1>1, <1>2, <1>5
  <2>3. c[j] = next <=> j = k + 1
    <3>1. CASE k = Len(c)
      BY <1>1, <1>3, <2>2, <3>1, NodesFinite
    <3>2. CASE k # Len(c)
      <4>1. k + 1 \in 1 .. Len(c) /\ next = c[k + 1]
        BY <1>1, <1>3, <3>2
      <4>2. QED BY <1>2, <4>1
    <3>3. QED BY <3>1, <3>2
  <2>4. c[j] = prev <=> j = k - 1
    <3>1. CASE k = 1
      BY <1>1, <1>3, <2>2, <3>1, NodesFinite
    <3>2. CASE k # 1
      <4>1. k - 1 \in 1 .. Len(c) /\ prev = c[k - 1]
        BY <1>1, <1>3, <3>2
      <4>2. QED BY <1>2, <4>1
    <3>3. QED BY <3>1, <3>2
  <2>5. /\ q[c[j]].next = IF c[j] = prev THEN next ELSE p[c[j]].next
        /\ q[c[j]].prev = IF c[j] = next THEN prev ELSE p[c[j]].prev
    BY <2>2 DEF Bridged
  <2>6. QED BY <2>1, <2>3, <2>4, <2>5
<1>6. ASSUME NEW j \in 1 .. Len(d)
      PROVE  /\ q[d[j]].prev = (IF j = 1 THEN NIL ELSE d[j - 1])
             /\ q[d[j]].next = (IF j = Len(d) THEN NIL ELSE d[j + 1])
  <2>1. CASE j < k
    <3>1. j \in 1 .. Len(c) /\ j # k /\ d[j] = c[j] /\ j # k + 1 /\ j # Len(c)
      BY <1>1, <2>1
    <3>2. q[d[j]].prev = (IF j = 1 THEN NIL ELSE d[j - 1])
      <4>1. j # 1 => d[j - 1] = c[j - 1]
        BY <1>1, <2>1
      <4>2. QED BY <1>5, <3>1, <4>1
    <3>3. q[d[j]].next = (IF j = Len(d) THEN NIL ELSE d[j + 1])
      <4>1. CASE j = k - 1
        <5>1. next = IF j = Len(d) THEN NIL ELSE d[j + 1]
          BY <1>1, <1>3, <2>1, <4>1
        <5>2. QED BY <1>5, <3>1, <4>1, <5>1
      <4>2. CASE j # k - 1
        <5>1. j # Len(d) /\ d[j + 1] = c[j + 1]
          BY <1>1, <2>1, <4>2
        <5>2. QED BY <1>5, <3>1, <4>2, <5>1
      <4>3. QED BY <4>1, <4>2
    <3>4. QED BY <3>2, <3>3
  <2>2. CASE j >= k
    <3>1. PICK m : m = j + 1
      OBVIOUS
    <3>2. m \in 1 .. Len(c) /\ m # k /\ d[j] = c[m] /\ m # k - 1 /\ m # 1
      BY <1>1, <2>2, <3>1
    <3>3. q[d[j]].prev = (IF j = 1 THEN NIL ELSE d[j - 1])
      <4>1. CASE j = k
        <5>1. prev = IF j = 1 THEN NIL ELSE d[j - 1]
          BY <1>1, <1>3, <4>1
        <5>2. QED BY <1>5, <3>1, <3>2, <4>1, <5>1
      <4>2. CASE j # k
        <5>1. j # 1 /\ d[j - 1] = c[m - 1] /\ m # k + 1
          BY <1>1, <2>2, <3>1, <4>2
        <5>2. QED BY <1>5, <3>2, <5>1
      <4>3. QED BY <4>1, <4>2
    <3>4. q[d[j]].next = (IF j = Len(d) THEN NIL ELSE d[j + 1])
      <4>1. j = Len(d) <=> m = Len(c)
        BY <1>1, <3>1
      <4>2. j # Len(d) => d[j + 1] = c[m + 1]
        BY <1>1, <2>2, <3>1
      <4>3. QED BY <1>5, <3>2, <4>1, <4>2
    <3>5. QED BY <3>3, <3>4
  <2>3. QED BY <1>1, <2>1, <2>2
<1>7. QED BY <1>4, <1>6 DEF Linked

\* The level with one node less is that of the list with one less.
LEMMA DroppedLevelIs ==
    ASSUME NEW p \in Pools, NEW q \in Pools, NEW c \in Seq(Nodes), NEW k \in 1 .. Len(c),
           NEW i \in Nodes, i = c[k], Distinct(c), Linked(p, c), NodesSame(p, q, i),
           NEW level \in LevelRecords, LevelIs(p, level, c), NEW node, node = p[i],
           NEW x, x = DroppedLevel(level, node), NEW d, IsShortened(c, k, d)
    PROVE  x \in LevelRecords /\ x.price = level.price /\ LevelIs(q, x, d)
<1>1. /\ Len(c) \in Nat /\ d \in Seq(Nodes) /\ Len(d) = Len(c) - 1 /\ Range(c) \subseteq Nodes
      /\ i \in Range(c) /\ \A j \in 1 .. Len(c) : c[j] \in Nodes
      /\ \A j \in 1 .. Len(c) - 1 : d[j] = IF j < k THEN c[j] ELSE c[j + 1]
      /\ Range(d) = Range(c) \ {i}
  <2>1. /\ RemoveAt(c, k) \in Seq(Nodes) /\ Len(RemoveAt(c, k)) = Len(c) - 1
        /\ \A j \in 1 .. Len(c) - 1 : RemoveAt(c, k)[j] = IF j < k THEN c[j] ELSE c[j + 1]
        /\ Range(RemoveAt(c, k)) = Range(c) \ {c[k]}
    BY RemoveFacts
  <2>2. QED BY <2>1, SeqRange DEF IsShortened
<1>2. Len(d) = 0 => k = 1 /\ k = Len(c)
  <2>1. PICK n, e : n = Len(c) /\ e = Len(d)
    OBVIOUS
  <2>2. n \in Nat /\ k \in 1 .. n /\ e = n - 1
    BY <1>1, <2>1
  <2>3. e = 0 => k = 1 /\ k = n
    BY <2>2
  <2>4. QED BY <2>1, <2>3
<1>3. /\ level.count = Len(c) /\ level.head = FirstOf(c) /\ level.tail = LastOf(c)
      /\ level.total = Total(p, c)
  BY DEF LevelIs
<1>4. level.head = c[1] /\ level.tail = c[Len(c)] /\ level.count > 0
  BY <1>1, <1>3 DEF FirstOf, LastOf
<1>5. /\ node \in NodeRecords
      /\ node.prev = (IF k = 1 THEN NIL ELSE c[k - 1])
      /\ node.next = (IF k = Len(c) THEN NIL ELSE c[k + 1])
  BY PoolFacts DEF Linked
<1>6. /\ x \in LevelRecords /\ x.price = level.price
      /\ x.head = (IF node.prev = NIL THEN node.next ELSE level.head)
      /\ x.tail = (IF node.next = NIL THEN node.prev ELSE level.tail)
      /\ x.total = level.total - node.lots /\ x.count = level.count - 1
  BY <1>4, <1>5, DroppedLevelFacts
<1>7. node.prev = NIL <=> k = 1
  BY <1>1, <1>5, NodesFinite
<1>8. node.next = NIL <=> k = Len(c)
  BY <1>1, <1>5, NodesFinite
<1>9. x.head = FirstOf(d)
  <2>1. CASE Len(d) = 0
    <3>1. k = 1 /\ k = Len(c)
      BY <1>2, <2>1
    <3>2. QED BY <1>5, <1>6, <1>7, <2>1, <3>1 DEF FirstOf
  <2>2. CASE Len(d) # 0
    <3>1. FirstOf(d) = d[1] /\ 1 \in 1 .. Len(c) - 1
      BY <1>1, <2>2 DEF FirstOf
    <3>2. CASE k = 1
      <4>1. d[1] = c[2] /\ k # Len(c)
        BY <1>1, <2>2, <3>1, <3>2
      <4>2. QED BY <1>5, <1>6, <1>7, <3>1, <3>2, <4>1
    <3>3. CASE k # 1
      <4>1. d[1] = c[1]
        BY <1>1, <3>1, <3>3
      <4>2. QED BY <1>4, <1>6, <1>7, <3>1, <3>3, <4>1
    <3>4. QED BY <3>2, <3>3
  <2>3. QED BY <2>1, <2>2
<1>10. x.tail = LastOf(d)
  <2>1. CASE Len(d) = 0
    <3>1. k = 1 /\ k = Len(c)
      BY <1>2, <2>1
    <3>2. QED BY <1>5, <1>6, <1>8, <2>1, <3>1 DEF LastOf
  <2>2. CASE Len(d) # 0
    <3>1. LastOf(d) = d[Len(c) - 1] /\ Len(c) - 1 \in 1 .. Len(c) - 1
      BY <1>1, <2>2 DEF LastOf
    <3>2. CASE k = Len(c)
      <4>1. d[Len(c) - 1] = c[k - 1] /\ k # 1
        BY <1>1, <2>2, <3>1, <3>2
      <4>2. QED BY <1>5, <1>6, <1>8, <3>1, <3>2, <4>1
    <3>3. CASE k # Len(c)
      <4>1. d[Len(c) - 1] = c[Len(c)]
        BY <1>1, <3>1, <3>3
      <4>2. QED BY <1>4, <1>6, <1>8, <3>1, <3>3, <4>1
    <3>4. QED BY <3>2, <3>3
  <2>3. QED BY <2>1, <2>2
<1>11. Total(q, d) = Total(p, c) - node.lots
  <2>1. PICK S, T : S = Range(c) /\ T = S \ {i}
    OBVIOUS
  <2>2. S \subseteq Nodes /\ i \in S /\ Range(d) = T /\ T \subseteq Nodes
    BY <1>1, <2>1
  <2>3. Sum(LotsOf(q), T) = Sum(LotsOf(p), T)
    <3>1. \A j \in T : q[j].lots = p[j].lots
      BY <2>1, <2>2 DEF NodesSame
    <3>2. QED BY <2>2, <3>1, TotalSame
  <2>4. Sum(LotsOf(p), S \ {i}) = Sum(LotsOf(p), S) - p[i].lots
    BY <2>2, TotalWithout
  <2>5. QED BY <2>1, <2>2, <2>3, <2>4 DEF Total
<1>12. QED BY <1>1, <1>3, <1>6, <1>9, <1>10, <1>11 DEF LevelIs

\* Everything but the lists and the levels' ends and totals after a drop.
DropEffect(s, u, p, q, i, id, side, at, level, prev, next) ==
    /\ u \in Structures /\ i \in Nodes /\ i \in s.used /\ u.used = s.used \ {i}
    /\ FreeSound(u.free, u.used)
    /\ q[i].lots = 0 /\ q[i].id = NoOrder
    /\ NodesSame(p, q, i) /\ Bridged(p, q, i, prev, next)
    /\ u.lookup[id] = NoOrder /\ OthersSame(s.lookup, u.lookup, id)
    /\ \A other \in Sides : other # side => u.levels[other] = s.levels[other]
    /\ IsReplaced(s.levels[side], at, DroppedLevel(level, p[i]), u.levels[side])

\* A node that goes back to the free list was not in it.
LEMMA FreedSound ==
    ASSUME NEW f \in Seq(Nodes), NEW used, used \subseteq Nodes, FreeSound(f, used), NEW i \in used
    PROVE  Append(f, i) \in Seq(Nodes) /\ FreeSound(Append(f, i), used \ {i})
<1>1. PICK g : g = Append(f, i)
  OBVIOUS
<1>2. Range(f) = Nodes \ used /\ Distinct(f) /\ i \in Nodes
  BY InjectiveIsDistinct DEF FreeSound
<1>3. /\ g \in Seq(Nodes) /\ Len(g) = Len(f) + 1 /\ g[Len(f) + 1] = i
      /\ \A k \in 1 .. Len(f) : g[k] = f[k]
      /\ Range(g) = Range(f) \cup {i}
  BY <1>1, <1>2, AppendFacts
<1>4. Len(f) \in Nat /\ \A k \in 1 .. Len(f) : f[k] # i
  BY <1>2, SeqRange
<1>5. Distinct(g)
  <2> SUFFICES ASSUME NEW j \in 1 .. Len(g), NEW k \in 1 .. Len(g), g[j] = g[k]
               PROVE  j = k
    BY DEF Distinct
  <2>1. CASE j <= Len(f) /\ k <= Len(f)
    <3>1. f[j] = f[k] /\ j \in 1 .. Len(f) /\ k \in 1 .. Len(f)
      BY <1>3, <1>4, <2>1
    <3>2. QED BY <1>2, <3>1 DEF Distinct
  <2>2. CASE ~(j <= Len(f) /\ k <= Len(f))
    BY <1>3, <1>4, <2>2
  <2>3. QED BY <2>1, <2>2
<1>6. Range(g) = Nodes \ (used \ {i})
  BY <1>2, <1>3
<1>7. FreeSound(g, used \ {i})
  BY <1>3, <1>5, <1>6, InjectiveIsDistinct DEF FreeSound
<1>8. QED BY <1>1, <1>3, <1>7

\* What an order that leaves its level changes, and what it leaves.
LEMMA DroppedFacts ==
    ASSUME NEW s, NEW L, Base(s, L), NEW i \in s.used, NEW side \in Sides,
           NEW at \in 1 .. Len(s.levels[side]), NEW level, level = s.levels[side][at],
           level.count > 0, NEW p, p = s.pool, NEW id, id = p[i].id,
           NEW prev, prev = p[i].prev, NEW next, next = p[i].next,
           NEW u, u = Dropped(s, side, at, i), NEW q, q = u.pool
    PROVE  DropEffect(s, u, p, q, i, id, side, at, level, prev, next)
<1>1. /\ s \in Structures /\ p \in Pools /\ s.used \subseteq Nodes /\ s.free \in Seq(Nodes)
      /\ s.lookup \in [OrderIds -> Locators \cup {NoOrder}]
      /\ s.levels \in [Sides -> Seq(LevelRecords)] /\ FreeSound(s.free, s.used)
      /\ i \in Nodes
  BY StructureFacts DEF Base
<1>2. PICK v, x, y, m, f, us : /\ v = [s.levels EXCEPT ![side] = x]
                              /\ x = [s.levels[side] EXCEPT ![at] = y]
                              /\ y = DroppedLevel(level, p[i])
                              /\ m = [s.lookup EXCEPT ![id] = NoOrder]
                              /\ f = Append(s.free, i) /\ us = s.used \ {i}
  OBVIOUS
<1>3. u = [pool |-> DroppedPool(p, i), used |-> us, free |-> f, levels |-> v, lookup |-> m]
  <2>1. PICK p1, u1, f1, l1, k1 :
          s = [pool |-> p1, used |-> u1, free |-> f1, levels |-> l1, lookup |-> k1]
    BY <1>1 DEF Structures
  <2>2. s.pool = p1 /\ s.used = u1 /\ s.free = f1 /\ s.levels = l1 /\ s.lookup = k1
    BY <2>1
  <2>3. PICK p2 : p2 = DroppedPool(p, i)
    OBVIOUS
  <2>4. u = [s EXCEPT !.pool = p2, !.used = us, !.free = f, !.levels = v, !.lookup = m]
    <3>1. u = [s EXCEPT !.pool = p2, !.used = us, !.free = f,
                        !.levels[side][at] = y, !.lookup[id] = NoOrder]
      BY <1>2, <2>3 DEF Dropped
    <3>2. u = [s EXCEPT !.pool = p2, !.used = us, !.free = f,
                        !.levels = [s.levels EXCEPT ![side] = [s.levels[side] EXCEPT ![at] = y]],
                        !.lookup = [s.lookup EXCEPT ![id] = NoOrder]]
      BY <3>1
    <3>3. QED BY <1>2, <3>2, Zenon
  <2>5. u = [pool |-> p2, used |-> us, free |-> f, levels |-> v, lookup |-> m]
    BY <2>1, <2>4
  <2>6. QED BY <2>3, <2>5
<1>4. u.pool = DroppedPool(p, i) /\ u.used = us /\ u.free = f /\ u.levels = v /\ u.lookup = m
  BY <1>3
<1>5. q \in Pools /\ q[i] = BlankNode /\ NodesSame(p, q, i) /\ Bridged(p, q, i, prev, next)
  BY <1>1, <1>4, DroppedPoolFacts
<1>6. f \in Seq(Nodes) /\ FreeSound(f, us)
  BY <1>1, <1>2, FreedSound
<1>7. /\ m \in [OrderIds -> Locators \cup {NoOrder}] /\ m[id] = NoOrder
      /\ OthersSame(s.lookup, m, id)
  <2>1. id \in OrderIds
    BY DEF Base, UsedOwned
  <2>2. QED BY <1>1, <1>2, <2>1 DEF OthersSame
<1>8. x \in Seq(LevelRecords)
  <2>1. p[i] \in NodeRecords /\ level \in LevelRecords
    BY <1>1, PoolFacts, BaseLevels, LevelFacts
  <2>2. y \in LevelRecords
    BY <1>2, <2>1, DroppedLevelFacts
  <2>3. s.levels[side] \in Seq(LevelRecords)
    BY <1>1
  <2>4. QED BY <1>2, <2>2, <2>3, ExceptSeq
<1>9. /\ v \in [Sides -> Seq(LevelRecords)] /\ v[side] = x
      /\ \A other \in Sides : other # side => v[other] = s.levels[other]
  BY <1>1, <1>2, <1>8
<1>10. u \in Structures
  <2>1. us \in SUBSET Nodes /\ u.pool \in Pools
    BY <1>1, <1>2, <1>5
  <2>2. PICK p2 : p2 = DroppedPool(p, i) /\ p2 \in Pools
    BY <1>4, <2>1
  <2>3. u = [pool |-> p2, used |-> us, free |-> f, levels |-> v, lookup |-> m]
    BY <1>3, <2>2
  <2>4. QED BY <1>6, <1>7, <1>9, <2>1, <2>2, <2>3 DEF Structures
<1>11. IsReplaced(s.levels[side], at, DroppedLevel(level, p[i]), u.levels[side])
  BY <1>2, <1>4, <1>9 DEF IsReplaced
<1>12. q[i].lots = 0 /\ q[i].id = NoOrder
  BY <1>5, BlankNodeFacts
<1>13. QED BY <1>1, <1>2, <1>4, <1>5, <1>6, <1>7, <1>9, <1>10, <1>11, <1>12 DEF DropEffect

\* Where the node of a resting order is.
LEMMA OrderPlace ==
    ASSUME NEW s, NEW L, Base(s, L), NEW id \in OrderIds, NEW loc, loc = s.lookup[id], loc # NoOrder
    PROVE  /\ loc.side \in Sides /\ loc.price \in Prices /\ loc.node \in Nodes
           /\ loc.node \in s.used /\ s.pool[loc.node].id = id
           /\ loc = [side |-> loc.side, price |-> loc.price, node |-> loc.node]
           /\ \E k \in 1 .. Len(L[loc.side][loc.price]) : L[loc.side][loc.price][k] = loc.node
<1>1. s \in Structures /\ OrdersListed(s.pool, s.lookup, L)
  BY DEF Base
<1>2. /\ loc.side \in Sides /\ loc.price \in Prices /\ loc.node \in Nodes
      /\ loc = [side |-> loc.side, price |-> loc.price, node |-> loc.node]
  BY <1>1, LocatorFacts
<1>3. ListedAt(s.pool, L, id, loc)
  BY <1>1 DEF OrdersListed
<1>4. PICK c : c = L[loc.side][loc.price]
  OBVIOUS
<1>5. PICK k \in 1 .. Len(c) : c[k] = loc.node
  BY <1>3, <1>4 DEF ListedAt
<1>6. loc.node \in s.used
  BY <1>2, <1>4, <1>5, BaseLists
<1>7. QED BY <1>2, <1>3, <1>6, Zenon DEF ListedAt

DropPlace(s, L, id, side, price, i, at, c, k) ==
    /\ s.lookup[id] # NoOrder
    /\ side = s.lookup[id].side /\ price = s.lookup[id].price /\ i = s.lookup[id].node
    /\ at \in 1 .. Len(s.levels[side]) /\ s.levels[side][at].price = price
    /\ c = L[side][price] /\ k \in 1 .. Len(c) /\ c[k] = i

PlaceKnown(s, L, id, side, price, i, at, c, k) ==
    /\ side \in Sides /\ price \in Prices /\ i \in Nodes /\ L \in Lists /\ s \in Structures
    /\ i \in s.used /\ s.pool[i].id = id /\ c = L[side][price]
    /\ at \in 1 .. Len(s.levels[side]) /\ s.levels[side][at].price = price
    /\ k \in 1 .. Len(c) /\ c[k] = i

LEMMA DropPlaceKnown ==
    ASSUME NEW s, NEW L, Base(s, L), NEW id \in OrderIds, NEW side, NEW price, NEW i, NEW at, NEW c,
           NEW k, DropPlace(s, L, id, side, price, i, at, c, k)
    PROVE  PlaceKnown(s, L, id, side, price, i, at, c, k)
<1>1. PICK loc : loc = s.lookup[id]
  OBVIOUS
<1>2. loc # NoOrder
  BY <1>1 DEF DropPlace
<1>3. /\ loc.side \in Sides /\ loc.price \in Prices /\ loc.node \in Nodes
      /\ loc.node \in s.used /\ s.pool[loc.node].id = id
  BY <1>1, <1>2, OrderPlace
<1>4. side = loc.side /\ price = loc.price /\ i = loc.node
  BY <1>1 DEF DropPlace
<1>5. /\ side \in Sides /\ price \in Prices /\ i \in Nodes
      /\ i \in s.used /\ s.pool[i].id = id
  BY <1>3, <1>4
<1>6. QED BY <1>5 DEF Base, DropPlace, PlaceKnown

\* Taking an order off its level, be it the first, the last, the only one or
\* one between two others, keeps all of it in agreement.
LEMMA DroppedBase ==
    ASSUME NEW s, NEW L, Base(s, L), NEW id \in OrderIds, NEW side, NEW price, NEW i, NEW at, NEW c,
           NEW k, DropPlace(s, L, id, side, price, i, at, c, k),
           NEW u, u = Dropped(s, side, at, i),
           NEW d, IsShortened(c, k, d), NEW M, M = WithList(L, side, price, d)
    PROVE  Base(u, M)
<1>1. /\ side \in Sides /\ price \in Prices /\ i \in Nodes /\ L \in Lists /\ s \in Structures
      /\ s.pool[i].id = id /\ i \in s.used
      /\ at \in 1 .. Len(s.levels[side]) /\ k \in 1 .. Len(c) /\ c[k] = i
  <2>1. PlaceKnown(s, L, id, side, price, i, at, c, k)
    BY DropPlaceKnown
  <2>2. QED BY <2>1 DEF PlaceKnown
<1>2. PICK p, q, level, prev, next :
        /\ p = s.pool /\ q = u.pool /\ level = s.levels[side][at]
        /\ prev = p[i].prev /\ next = p[i].next
  OBVIOUS
<1>3. /\ c = L[side][price] /\ s.levels[side][at].price = price
      /\ s.lookup[id].node = i
  BY DEF DropPlace
<1> USE <1>1
<1>4. p \in Pools /\ s.lookup \in [OrderIds -> Locators \cup {NoOrder}] /\ id = p[i].id
  BY <1>2, StructureFacts
<1>5. /\ c \in Seq(Nodes) /\ Len(c) \in Nat /\ Linked(p, c) /\ Distinct(c)
      /\ \A j \in 1 .. Len(c) :
           /\ c[j] \in Nodes /\ c[j] \in s.used /\ p[c[j]].id \in OrderIds
           /\ s.lookup[p[c[j]].id] = [side |-> side, price |-> price, node |-> c[j]]
  <2>1. Held(p, s.used, s.lookup, side, price, c)
    BY <1>3, <1>2, BaseHeld
  <2>2. QED BY <2>1 DEF Held
<1>6. /\ level \in LevelRecords /\ level.price = price /\ LevelIs(p, level, c)
      /\ level.count = Len(c) /\ level.count > 0
  <2>1. level.price = price
    BY <1>3, <1>2
  <2>2. c = L[side][level.price]
    BY <1>3, <2>1
  <2>3. level \in LevelRecords /\ LevelIs(p, level, c) /\ level.count = Len(c)
    <3>1. LevelHolds(p, level, price, c)
      BY <1>3, <1>2, <2>1, LevelHeld
    <3>2. QED BY <3>1 DEF LevelHolds
  <2>4. QED BY <1>5, <2>1, <2>3
<1>7. /\ u \in Structures /\ u.used = s.used \ {i}
      /\ FreeSound(u.free, u.used)
      /\ q[i].lots = 0 /\ q[i].id = NoOrder
      /\ NodesSame(p, q, i) /\ Bridged(p, q, i, prev, next)
      /\ u.lookup[id] = NoOrder /\ OthersSame(s.lookup, u.lookup, id)
      /\ \A other \in Sides : other # side => u.levels[other] = s.levels[other]
      /\ IsReplaced(s.levels[side], at, DroppedLevel(level, p[i]), u.levels[side])
  <2>1. DropEffect(s, u, p, q, i, id, side, at, level, prev, next)
    BY <1>2, <1>4, <1>6, DroppedFacts
  <2>2. QED BY <2>1 DEF DropEffect
<1>8. q \in Pools
  BY <1>2, <1>7, StructureFacts
<1>9. \A x \in OrderIds : x # id => u.lookup[x] = s.lookup[x]
  BY <1>4, <1>7 DEF OthersSame
<1>10. /\ d \in Seq(Nodes) /\ Len(d) = Len(c) - 1
      /\ \A j \in 1 .. Len(c) - 1 : d[j] = IF j < k THEN c[j] ELSE c[j + 1]
  <2>1. /\ RemoveAt(c, k) \in Seq(Nodes) /\ Len(RemoveAt(c, k)) = Len(c) - 1
        /\ \A j \in 1 .. Len(c) - 1 : RemoveAt(c, k)[j] = IF j < k THEN c[j] ELSE c[j + 1]
    BY <1>5, RemoveFacts
  <2>2. QED BY <2>1 DEF IsShortened
<1>11. ListReplaced(L, M, side, price, d)
  BY <1>10, WithListFacts
<1>12. M \in Lists /\ M[side][price] = d
  BY <1>11 DEF ListReplaced
<1>13. \A other \in Sides : other # side => M[other] = L[other]
  BY <1>11 DEF ListReplaced
<1>14. \A other \in Sides, b \in Prices :
          other # side \/ b # price => M[other][b] = L[other][b]
  BY <1>11 DEF ListReplaced
<1>15. M[side] = [L[side] EXCEPT ![price] = d]
  BY <1>11 DEF ListReplaced
<1>16. Linked(q, d) /\ Distinct(d)
  <2>1. i = c[k]
    OBVIOUS
  <2>2. QED BY <1>2, <1>5, <1>7, <2>1, DroppedLinked
<1>17. \A x \in s.used : x # i =>
         /\ x \in Nodes /\ q[x].id = p[x].id /\ q[x].lots = p[x].lots
         /\ p[x].id \in OrderIds /\ p[x].id # id
         /\ u.lookup[p[x].id] = s.lookup[p[x].id]
         /\ s.lookup[p[x].id] # NoOrder /\ s.lookup[p[x].id].node = x
  <2> SUFFICES ASSUME NEW x \in s.used, x # i
               PROVE  /\ x \in Nodes /\ q[x].id = p[x].id /\ q[x].lots = p[x].lots
                      /\ p[x].id \in OrderIds /\ p[x].id # id
                      /\ u.lookup[p[x].id] = s.lookup[p[x].id]
                      /\ s.lookup[p[x].id] # NoOrder /\ s.lookup[p[x].id].node = x
    OBVIOUS
  <2>1. p[x].id \in OrderIds /\ s.lookup[p[x].id] # NoOrder /\ s.lookup[p[x].id].node = x
    BY <1>2 DEF Base, UsedOwned
  <2>2. x \in Nodes
    BY BaseFree
  <2>3. q[x].id = p[x].id /\ q[x].lots = p[x].lots
    BY <1>7, <2>2 DEF NodesSame
  <2>4. p[x].id # id
    BY <1>3, <2>1
  <2>5. QED BY <1>9, <2>1, <2>2, <2>3, <2>4
<1>18. \A j \in 1 .. Len(d) : \E m \in 1 .. Len(c) : m # k /\ d[j] = c[m]
  <2> TAKE j \in 1 .. Len(d)
  <2>1. CASE j < k
    <3>1. j \in 1 .. Len(c) /\ d[j] = c[j]
      BY <1>5, <1>10, <2>1
    <3>2. QED BY <2>1, <3>1
  <2>2. CASE j >= k
    <3>1. j + 1 \in 1 .. Len(c) /\ j + 1 # k /\ d[j] = c[j + 1]
      BY <1>5, <1>10, <2>2
    <3>2. QED BY <3>1
  <2>3. QED BY <1>5, <1>10, <2>1, <2>2
<1>19. ListOwned(q, u.used, u.lookup, d, side, price)
  <2>1. ASSUME NEW j \in 1 .. Len(d)
        PROVE  /\ d[j] \in u.used /\ q[d[j]].id \in OrderIds
               /\ u.lookup[q[d[j]].id] = [side |-> side, price |-> price, node |-> d[j]]
    <3>1. PICK m \in 1 .. Len(c) : m # k /\ d[j] = c[m]
      BY <1>18
    <3>2. c[m] # i /\ c[m] \in s.used
      BY <1>5, <3>1 DEF Distinct
    <3>3. s.lookup[p[c[m]].id] = [side |-> side, price |-> price, node |-> c[m]]
      BY <1>5, <3>1
    <3>4. QED BY <1>7, <1>17, <3>1, <3>2, <3>3
  <2>2. QED BY <1>16, <2>1 DEF ListOwned, Distinct
<1>20. ASSUME NEW other \in Sides, NEW b \in Prices, other # side \/ b # price
       PROVE  ListOwned(q, u.used, u.lookup, L[other][b], other, b) /\ Linked(q, L[other][b])
  <2>1. PICK e : e = L[other][b]
    OBVIOUS
  <2>2. /\ e \in Seq(Nodes) /\ ListOwned(p, s.used, s.lookup, e, other, b) /\ Linked(p, e)
        /\ \A j \in 1 .. Len(e) : e[j] \in Nodes /\ e[j] \in s.used
    <3>1. Held(p, s.used, s.lookup, other, b, e)
      BY <1>2, <2>1, BaseHeld
    <3>2. QED BY <3>1 DEF Held
  <2>3. side # other \/ price # b
    BY <1>20
  <2>4. ASSUME NEW j \in 1 .. Len(e), NEW m \in 1 .. Len(c) PROVE c[m] # e[j]
    <3>1. c = L[side][price]
      BY <1>3
    <3>2. QED BY <2>1, <2>3, <3>1, ListsApart
  <2>5. ASSUME NEW j \in 1 .. Len(e) PROVE e[j] # i /\ e[j] # prev /\ e[j] # next
    <3>1. e[j] # NIL
      BY <2>2, NodesFinite
    <3>2. /\ prev = (IF k = 1 THEN NIL ELSE c[k - 1])
          /\ next = (IF k = Len(c) THEN NIL ELSE c[k + 1])
      BY <1>2, <1>5 DEF Linked
    <3>3. e[j] # prev
      <4>1. CASE k = 1
        BY <3>1, <3>2, <4>1
      <4>2. CASE k # 1
        <5>1. k - 1 \in 1 .. Len(c) /\ prev = c[k - 1]
          BY <1>5, <3>2, <4>2
        <5>2. QED BY <2>4, <5>1
      <4>3. QED BY <4>1, <4>2
    <3>4. e[j] # next
      <4>1. CASE k = Len(c)
        BY <3>1, <3>2, <4>1
      <4>2. CASE k # Len(c)
        <5>1. k + 1 \in 1 .. Len(c) /\ next = c[k + 1]
          BY <1>5, <3>2, <4>2
        <5>2. QED BY <2>4, <5>1
      <4>3. QED BY <4>1, <4>2
    <3>5. e[j] # i
      BY <2>4
    <3>6. QED BY <3>3, <3>4, <3>5
  <2>6. SameLinks(p, q, e)
    BY <1>7, <1>17, <2>2, <2>5 DEF SameLinks, Bridged
  <2>7. \A j \in 1 .. Len(e) : e[j] \in u.used
    BY <1>7, <2>2, <2>5
  <2>8. SameLocators(p, s.lookup, u.lookup, e)
    BY <1>17, <2>2, <2>5 DEF SameLocators
  <2>9. ListOwned(q, u.used, u.lookup, e, other, b) /\ Linked(q, e)
    <3>1. e \in Seq(Nodes) /\ ListOwned(p, s.used, s.lookup, e, other, b) /\ Linked(p, e)
      BY <2>2
    <3>2. QED BY <2>6, <2>7, <2>8, <3>1, ListKept
  <2>10. QED BY <2>1, <2>9
<1>21. \A other \in Sides, b \in Prices :
         ListOwned(q, u.used, u.lookup, M[other][b], other, b) /\ Linked(q, M[other][b])
  <2> TAKE other \in Sides, b \in Prices
  <2>1. CASE other = side /\ b = price
    BY <1>12, <1>16, <1>19, <2>1
  <2>2. CASE other # side \/ b # price
    BY <1>14, <1>20, <2>2
  <2>3. QED BY <2>1, <2>2
<1>22. OrdersListed(q, u.lookup, M)
  <2> SUFFICES ASSUME NEW x \in OrderIds, u.lookup[x] # NoOrder
               PROVE  ListedAt(q, M, x, u.lookup[x])
    BY DEF OrdersListed
  <2>1. x # id
    BY <1>7
  <2>2. PICK l2, n, e : l2 = s.lookup[x] /\ n = l2.node /\ e = L[l2.side][l2.price]
    OBVIOUS
  <2>3. u.lookup[x] = l2 /\ l2 # NoOrder
    BY <1>9, <2>1, <2>2
  <2>4. /\ l2.side \in Sides /\ l2.price \in Prices /\ n \in Nodes /\ n \in s.used
        /\ s.pool[n].id = x /\ \E j \in 1 .. Len(e) : e[j] = n
    BY <2>2, <2>3, OrderPlace
  <2>5. PICK j \in 1 .. Len(e) : e[j] = n
    BY <2>4
  <2>6. n # i
    BY <2>1, <2>4
  <2>7. q[n].id = x
    BY <1>2, <1>17, <2>4, <2>6
  <2>8. \E m \in 1 .. Len(M[l2.side][l2.price]) : M[l2.side][l2.price][m] = n
    <3>1. CASE l2.side = side /\ l2.price = price
      <4>1. M[l2.side][l2.price] = d
        BY <1>12, <3>1
      <4>2. e = c
        BY <1>3, <2>2, <3>1
      <4>3. j # k
        BY <2>5, <2>6, <4>2
      <4>4. \E m \in 1 .. Len(d) : d[m] = n
        <5>1. CASE j < k
          <6>1. j \in 1 .. Len(d) /\ d[j] = n
            BY <1>5, <1>10, <2>5, <4>2, <5>1
          <6>2. QED BY <6>1
        <5>2. CASE j > k
          <6>1. j - 1 \in 1 .. Len(d) /\ ~(j - 1 < k) /\ (j - 1) + 1 = j
            BY <1>5, <1>10, <2>5, <4>2, <5>2
          <6>2. d[j - 1] = n
            BY <1>10, <2>5, <4>2, <6>1
          <6>3. QED BY <6>1, <6>2
        <5>3. QED BY <1>5, <2>5, <4>2, <4>3, <5>1, <5>2
      <4>5. QED BY <4>1, <4>4
    <3>2. CASE l2.side # side \/ l2.price # price
      <4>1. M[l2.side][l2.price] = e
        BY <1>14, <2>2, <2>4, <3>2
      <4>2. QED BY <2>5, <4>1, Zenon
    <3>3. QED BY <3>1, <3>2
  <2>9. n = l2.node
    BY <2>2
  <2>10. ListedAt(q, M, x, l2)
    BY <2>7, <2>8, <2>9 DEF ListedAt
  <2>11. QED BY <2>3, <2>10
<1>23. UsedOwned(q, u.used, u.lookup)
  <2> SUFFICES ASSUME NEW x \in u.used
               PROVE  /\ q[x].id \in OrderIds /\ u.lookup[q[x].id] # NoOrder
                      /\ u.lookup[q[x].id].node = x
    BY DEF UsedOwned
  <2>1. x \in s.used /\ x # i
    BY <1>7
  <2>2. QED BY <1>17, <2>1
<1>24. SideSound(side, u.levels[side], q, M[side])
  <2>1. PICK ls, lists, y, x, after, node :
          /\ ls = s.levels[side] /\ lists = L[side] /\ y = DroppedLevel(level, node)
          /\ x = u.levels[side] /\ after = [lists EXCEPT ![price] = d] /\ node = p[i]
    OBVIOUS
  <2>2. /\ ls \in Seq(LevelRecords) /\ lists \in [Prices -> Seq(Nodes)]
        /\ SideSound(side, ls, p, lists) /\ at \in 1 .. Len(ls) /\ ls[at].price = price
    BY <1>3, <1>2, <2>1, BaseLevels
  <2>3. y \in LevelRecords /\ y.price = price /\ LevelIs(q, y, d)
    <3>1. i = c[k] /\ NodesSame(p, q, i) /\ level \in LevelRecords /\ LevelIs(p, level, c)
      BY <1>6, <1>7
    <3>2. y = DroppedLevel(level, node) /\ node = p[i]
      BY <2>1
    <3>3. y \in LevelRecords /\ y.price = level.price /\ LevelIs(q, y, d)
      BY <1>4, <1>5, <1>8, <3>1, <3>2, DroppedLevelIs
    <3>4. QED BY <1>6, <3>3
  <2>4. LotsKept(p, q, lists, price)
    <3> SUFFICES ASSUME NEW b \in Prices \ {price}, NEW x2 \in Range(lists[b])
                 PROVE  q[x2].lots = p[x2].lots
      BY DEF LotsKept
    <3>1. PICK e : e = L[side][b]
      OBVIOUS
    <3>2. e \in Seq(Nodes) /\ Range(e) \subseteq s.used /\ x2 \in Range(e)
      BY <2>1, <3>1, BaseLists
    <3>3. PICK j \in 1 .. Len(e) : e[j] = x2
      BY <3>2, SeqRange
    <3>4. price # b
      OBVIOUS
    <3>5. c[k] # e[j]
      <4>1. c = L[side][price]
        BY <1>3
      <4>2. QED BY <3>1, <3>4, <4>1, ListsApart
    <3>6. QED BY <1>17, <3>2, <3>3, <3>5
  <2>5. IsReplaced(ls, at, y, x) /\ IsReplaced(lists, price, d, after)
    BY <1>7, <2>1 DEF IsReplaced
  <2>6. SideSound(side, x, q, after)
    BY <1>4, <1>8, <1>10, <2>2, <2>3, <2>4, <2>5, SideUpdated
  <2>7. M[side] = after
    BY <1>15, <2>1
  <2>8. QED BY <2>1, <2>6, <2>7
<1>25. ASSUME NEW other \in Sides, other # side
       PROVE  SideSound(other, u.levels[other], q, M[other])
  <2>1. PICK ls, lists : ls = s.levels[other] /\ lists = L[other]
    OBVIOUS
  <2>2. /\ ls \in Seq(LevelRecords) /\ lists \in [Prices -> Seq(Nodes)]
        /\ SideSound(other, ls, p, lists)
    BY <1>2, <2>1, BaseLevels
  <2>3. \A b \in Prices : \A x \in Range(lists[b]) : q[x].lots = p[x].lots
    <3> SUFFICES ASSUME NEW b \in Prices, NEW x2 \in Range(lists[b])
                 PROVE  q[x2].lots = p[x2].lots
      OBVIOUS
    <3>1. PICK e : e = L[other][b]
      OBVIOUS
    <3>2. e \in Seq(Nodes) /\ Range(e) \subseteq s.used /\ x2 \in Range(e)
      BY <2>1, <3>1, BaseLists
    <3>3. PICK j \in 1 .. Len(e) : e[j] = x2
      BY <3>2, SeqRange
    <3>4. side # other
      BY <1>25
    <3>5. c[k] # e[j]
      <4>1. c = L[side][price]
        BY <1>3
      <4>2. QED BY <3>1, <3>4, <4>1, ListsApart
    <3>6. QED BY <1>17, <3>2, <3>3, <3>5
  <2>4. SideSound(other, ls, q, lists)
    BY <1>4, <1>8, <2>2, <2>3, SideKept
  <2>5. u.levels[other] = ls
    BY <1>7, <1>25, <2>1
  <2>6. M[other] = lists
    BY <1>13, <1>25, <2>1
  <2>7. QED BY <2>4, <2>5, <2>6
<1>26. \A other \in Sides : SideSound(other, u.levels[other], q, M[other])
  BY <1>24, <1>25
<1>27. QED BY <1>2, <1>7, <1>12, <1>21, <1>22, <1>23, <1>26 DEF Base

-----------------------------------------------------------------------------
(* erase_level: an empty level goes, and nothing else changes              *)

\* Only the level at index at of the side may be empty.
OthersHold(s, side, at) ==
    \A other \in Sides : \A j \in 1 .. Len(s.levels[other]) :
      other # side \/ j # at => s.levels[other][j].count > 0

LEMMA LevelErased ==
    ASSUME NEW s, NEW L, Base(s, L), NEW side \in Sides, NEW at \in 1 .. Len(s.levels[side]),
           s.levels[side][at].count = 0, NEW t, t = ErasedIfEmpty(s, side, at)
    PROVE  /\ Base(t, L) /\ SameButLevels(s, t)
           /\ Len(t.levels[side]) = Len(s.levels[side]) - 1
           /\ LevelsWithin(s.levels[side], t.levels[side], at)
           /\ \A other \in Sides : other # side => t.levels[other] = s.levels[other]
<1>1. PICK ls, lists, pool, x :
        /\ ls = s.levels[side] /\ lists = L[side] /\ pool = s.pool /\ x = RemoveAt(ls, at)
  OBVIOUS
<1>2. /\ ls \in Seq(LevelRecords) /\ Len(ls) \in Nat /\ SideSound(side, ls, pool, lists)
      /\ s \in Structures /\ lists \in [Prices -> Seq(Nodes)] /\ at \in 1 .. Len(ls)
      /\ ls[at].count = 0
  BY <1>1, BaseLevels
<1>3. /\ x \in Seq(LevelRecords) /\ SideSound(side, x, pool, lists)
      /\ Len(x) = Len(ls) - 1 /\ LevelsWithin(ls, x, at)
  <2>1. x = RemoveAt(ls, at)
    BY <1>1
  <2>2. QED BY <1>2, <2>1, SideRemoved
<1>4. t = [s EXCEPT !.levels[side] = x]
  BY <1>1, <1>2 DEF ErasedIfEmpty
<1>5. /\ t \in Structures /\ SameButLevels(s, t) /\ t.levels[side] = x
      /\ \A other \in Sides : other # side => t.levels[other] = s.levels[other]
  BY <1>2, <1>3, <1>4, LevelsReplaced
<1>6. \A other \in Sides : SideSound(other, t.levels[other], s.pool, L[other])
  <2> TAKE other \in Sides
  <2>1. CASE other = side
    BY <1>1, <1>3, <1>5, <2>1
  <2>2. CASE other # side
    BY <1>5, <2>2, BaseLevels
  <2>3. QED BY <2>1, <2>2
<1>7. Base(t, L)
  BY <1>5, <1>6, LevelsChange
<1>8. LevelsWithin(s.levels[side], t.levels[side], at)
  BY <1>1, <1>3, <1>5
<1>9. QED BY <1>1, <1>3, <1>5, <1>7, <1>8

\* erase_level keeps the structure sound: the level that goes has no order.
LEMMA ErasedSound ==
    ASSUME NEW s, NEW L, Base(s, L), NEW side \in Sides, NEW at \in 1 .. Len(s.levels[side]),
           OthersHold(s, side, at), WithinLevels(s), NEW t, t = ErasedIfEmpty(s, side, at)
    PROVE  Base(t, L) /\ SameButLevels(s, t) /\ NoEmptyLevel(t) /\ WithinLevels(t)
<1>1. CASE s.levels[side][at].count = 0
  <2>1. /\ Base(t, L) /\ SameButLevels(s, t)
        /\ Len(t.levels[side]) = Len(s.levels[side]) - 1
        /\ LevelsWithin(s.levels[side], t.levels[side], at)
        /\ \A other \in Sides : other # side => t.levels[other] = s.levels[other]
    BY <1>1, LevelErased
  <2>2. NoEmptyLevel(t)
    <3> SUFFICES ASSUME NEW other \in Sides, NEW j \in 1 .. Len(t.levels[other])
                 PROVE  t.levels[other][j].count > 0
      BY DEF NoEmptyLevel
    <3>1. CASE other = side
      <4>1. PICK m \in 1 .. Len(s.levels[side]) : m # at /\ t.levels[side][j] = s.levels[side][m]
        BY <2>1, <3>1 DEF LevelsWithin
      <4>2. s.levels[side][m].count > 0
        BY <4>1 DEF OthersHold
      <4>3. QED BY <3>1, <4>1, <4>2
    <3>2. CASE other # side
      BY <2>1, <3>2 DEF OthersHold
    <3>3. QED BY <3>1, <3>2
  <2>3. WithinLevels(t)
    <3> SUFFICES ASSUME NEW other \in Sides PROVE Len(t.levels[other]) <= MaxLevels
      BY DEF WithinLevels
    <3>1. Len(s.levels[other]) <= MaxLevels /\ Len(s.levels[side]) <= MaxLevels
      BY DEF WithinLevels
    <3>2. Len(s.levels[side]) \in Nat
      BY BaseLevels
    <3>3. CASE other = side
      BY <2>1, <3>1, <3>2, <3>3, Constants
    <3>4. CASE other # side
      BY <2>1, <3>1, <3>4
    <3>5. QED BY <3>3, <3>4
  <2>4. QED BY <2>1, <2>2, <2>3
<1>2. CASE s.levels[side][at].count # 0
  <2>1. t = s
    BY <1>2 DEF ErasedIfEmpty
  <2>2. PICK ls : ls = s.levels[side]
    OBVIOUS
  <2>3. ls[at].count > 0
    <3>1. ls \in Seq(LevelRecords) /\ at \in 1 .. Len(ls) /\ ls[at].count # 0
      BY <1>2, <2>2, BaseLevels
    <3>2. ls[at].count \in Nat
      BY <3>1, LevelFacts
    <3>3. QED BY <3>1, <3>2
  <2>4. NoEmptyLevel(s)
    BY <2>2, <2>3 DEF OthersHold, NoEmptyLevel
  <2>5. QED BY <2>1, <2>4 DEF SameButLevels
<1>3. QED BY <1>1, <1>2

-----------------------------------------------------------------------------
(* What the operations do to the orders and to the lists                   *)

\* Every node of S stores the same order, with as many lots.
SameOrders(p, q, S) == \A x \in S : q[x].id = p[x].id /\ q[x].lots = p[x].lots

AddEffect(s, L, u, M, id, o, i) ==
    /\ i \in Nodes /\ i \notin s.used /\ u.used = s.used \cup {i}
    /\ u.pool[i].id = id /\ u.pool[i].lots = o.lots
    /\ SameOrders(s.pool, u.pool, s.used)
    /\ u.lookup[id] = [side |-> o.side, price |-> o.price, node |-> i]
    /\ OthersSame(s.lookup, u.lookup, id)
    /\ M = WithList(L, o.side, o.price, Append(L[o.side][o.price], i))

\* The order id, at index k of its list, is gone.
RemoveEffect(s, L, u, M, id, i, side, price, k) ==
    /\ i \in s.used /\ u.used = s.used \ {i}
    /\ SameOrders(s.pool, u.pool, u.used)
    /\ u.lookup[id] = NoOrder /\ OthersSame(s.lookup, u.lookup, id)
    /\ M = WithList(L, side, price, RemoveAt(L[side][price], k))

CutEffect(s, u, i, n) ==
    /\ u.used = s.used /\ u.lookup = s.lookup
    /\ i \in s.used /\ u.pool[i].id = s.pool[i].id /\ u.pool[i].lots = s.pool[i].lots - n
    /\ SameOrders(s.pool, u.pool, s.used \ {i})

\* add_order keeps the structure sound, and adds the order at the end.
LEMMA AddedSound ==
    ASSUME NEW s, NEW L, Sound(s, L), NEW id \in OrderIds, NEW o \in Orders, CanAdd(s, id, o),
           NEW u, u = Added(s, id, o)
    PROVE  \E M, i : Sound(u, M) /\ AddEffect(s, L, u, M, id, o, i)
<1>1. PICK side, price, lots : side = o.side /\ price = o.price /\ lots = o.lots
  OBVIOUS
<1>2. side \in Sides /\ price \in Prices /\ lots \in 1 .. MaxLots /\ lots \in Int /\ lots > 0
  BY <1>1, OrderFacts, Constants
<1>3. PICK t, i : t = WithLevel(s, side, price) /\ i = Last(s.free)
  OBVIOUS
<1>4. PICK at : at = FindLevel(t, side, price).at
  OBVIOUS
<1>5. PICK M : M = WithList(L, side, price, Append(L[side][price], i))
  OBVIOUS
<1>6. /\ Base(s, L) /\ NoEmptyLevel(s) /\ AllHaveLots(s) /\ WithinLevels(s)
      /\ s \in Structures
  BY DEF Sound, Base
<1>7. /\ Base(t, L) /\ SameButLevels(s, t)
      /\ at \in 1 .. Len(t.levels[side]) /\ t.levels[side][at].price = price
      /\ \A other \in Sides : other # side => t.levels[other] = s.levels[other]
      /\ \A j \in 1 .. Len(t.levels[side]) : j # at =>
           \E m \in 1 .. Len(s.levels[side]) : t.levels[side][j] = s.levels[side][m]
      /\ Len(t.levels[side]) = IF FindLevel(s, side, price).found THEN Len(s.levels[side])
                               ELSE Len(s.levels[side]) + 1
  BY <1>2, <1>3, <1>4, <1>6, LevelMade
<1>8. t.lookup[id] = NoOrder /\ t.free # <<>> /\ i = Last(t.free)
  BY <1>3, <1>7 DEF CanAdd, SameButLevels
<1>9. u = Pushed(t, at, i, id, o)
  BY <1>1, <1>3, <1>4, AddedIsPushed
<1>10. Base(u, M)
  BY <1>1, <1>5, <1>7, <1>8, <1>9, PushedBase
<1>11. PICK level, p, q, r, c :
         /\ level = t.levels[side][at] /\ p = t.pool /\ q = u.pool /\ r = u.lookup[id]
         /\ c = L[side][price]
  OBVIOUS
<1>12. PushEffect(t, u, p, q, i, id, side, price, lots, at, level, r)
  <2>1. level = t.levels[side][at] /\ level.price = price /\ p = t.pool /\ q = u.pool
    BY <1>7, <1>11
  <2>2. c = L[side][price] /\ r = u.lookup[id]
    BY <1>11
  <2>3. QED BY <1>1, <1>7, <1>8, <1>9, <2>1, <2>2, PushedFacts, Zenon
<1>13. /\ i \in Nodes /\ i \notin t.used /\ u.used = t.used \cup {i}
       /\ q[i].id = id /\ q[i].lots = lots
       /\ NodesSame(p, q, i)
       /\ r = [side |-> side, price |-> price, node |-> i]
       /\ OthersSame(t.lookup, u.lookup, id)
       /\ \A other \in Sides : other # side => u.levels[other] = t.levels[other]
       /\ u.levels[side] = [t.levels[side] EXCEPT ![at] = PushedLevel(level, i, lots)]
  BY <1>12 DEF PushEffect
<1>14. AddEffect(s, L, u, M, id, o, i)
  <2>1. \A x \in s.used : x \in Nodes /\ x # i
    BY <1>6, <1>7, <1>13, StructureFacts DEF SameButLevels
  <2>2. SameOrders(s.pool, u.pool, s.used)
    BY <1>7, <1>11, <1>13, <2>1 DEF SameOrders, NodesSame, SameButLevels
  <2>3. i \notin s.used /\ u.used = s.used \cup {i} /\ OthersSame(s.lookup, u.lookup, id)
    BY <1>7, <1>13 DEF SameButLevels
  <2>4. u.lookup[id] = [side |-> o.side, price |-> o.price, node |-> i]
    BY <1>1, <1>11, <1>13
  <2>5. M = WithList(L, o.side, o.price, Append(L[o.side][o.price], i))
    BY <1>1, <1>5
  <2>6. u.pool[i].id = id /\ u.pool[i].lots = o.lots
    BY <1>1, <1>11, <1>13
  <2>7. QED BY <1>13, <2>2, <2>3, <2>4, <2>5, <2>6 DEF AddEffect
<1>15. /\ t.levels[side] \in Seq(LevelRecords) /\ Len(t.levels[side]) \in Nat
       /\ Len(u.levels[side]) = Len(t.levels[side])
       /\ u.levels[side][at].count > 0
       /\ \A j \in 1 .. Len(t.levels[side]) : j # at => u.levels[side][j] = t.levels[side][j]
  <2>1. PICK ls, e : ls = t.levels[side] /\ e = PushedLevel(level, i, lots)
    OBVIOUS
  <2>2. ls \in Seq(LevelRecords) /\ Len(ls) \in Nat /\ at \in 1 .. Len(ls) /\ level = ls[at]
    BY <1>2, <1>7, <1>11, <2>1, BaseLevels
  <2>3. level \in LevelRecords
    BY <2>2, LevelFacts
  <2>4. e \in LevelRecords /\ e.count = level.count + 1
    BY <1>2, <1>13, <2>1, <2>3, PushedLevelFacts
  <2>5. level.count \in Nat
    BY <2>2, LevelFacts
  <2>6. u.levels[side] = [ls EXCEPT ![at] = e]
    BY <1>13, <2>1
  <2>7. Len([ls EXCEPT ![at] = e]) = Len(ls) /\ [ls EXCEPT ![at] = e][at] = e
    BY <2>2, <2>4
  <2>8. \A j \in 1 .. Len(ls) : j # at => [ls EXCEPT ![at] = e][j] = ls[j]
    BY <2>2
  <2>9. e.count > 0
    BY <2>4, <2>5
  <2>10. QED BY <2>1, <2>2, <2>6, <2>7, <2>8, <2>9
<1>16. NoEmptyLevel(u)
  <2> SUFFICES ASSUME NEW other \in Sides, NEW j \in 1 .. Len(u.levels[other])
               PROVE  u.levels[other][j].count > 0
    BY DEF NoEmptyLevel
  <2>1. CASE other = side /\ j = at
    BY <1>15, <2>1
  <2>2. CASE other = side /\ j # at
    <3>1. u.levels[side][j] = t.levels[side][j] /\ j \in 1 .. Len(t.levels[side])
      BY <1>15, <2>2
    <3>2. PICK m \in 1 .. Len(s.levels[side]) : t.levels[side][j] = s.levels[side][m]
      BY <1>7, <2>2, <3>1
    <3>3. s.levels[side][m].count > 0
      BY <1>2, <1>6 DEF NoEmptyLevel
    <3>4. QED BY <2>2, <3>1, <3>2, <3>3
  <2>3. CASE other # side
    BY <1>6, <1>7, <1>13, <2>3 DEF NoEmptyLevel
  <2>4. QED BY <2>1, <2>2, <2>3
<1>17. WithinLevels(u)
  <2> SUFFICES ASSUME NEW other \in Sides PROVE Len(u.levels[other]) <= MaxLevels
    BY DEF WithinLevels
  <2>1. Len(s.levels[other]) <= MaxLevels /\ Len(s.levels[side]) <= MaxLevels
    BY <1>2, <1>6 DEF WithinLevels
  <2>2. CASE other = side
    <3>1. FindLevel(s, side, price).found \/ Len(s.levels[side]) < MaxLevels
      BY <1>1 DEF CanAdd
    <3>2. Len(s.levels[side]) \in Nat
      BY <1>2, <1>6, BaseLevels
    <3>3. Len(t.levels[side]) <= MaxLevels
      BY <1>7, <2>1, <3>1, <3>2, Constants
    <3>4. QED BY <1>15, <2>2, <3>3
  <2>3. CASE other # side
    BY <1>7, <1>13, <2>1, <2>3
  <2>4. QED BY <2>2, <2>3
<1>18. AllHaveLots(u)
  <2> SUFFICES ASSUME NEW x \in u.used PROVE u.pool[x].lots > 0
    BY DEF AllHaveLots
  <2>1. CASE x = i
    BY <1>2, <1>11, <1>13, <2>1
  <2>2. CASE x # i
    <3>1. x \in s.used
      BY <1>14, <2>2 DEF AddEffect
    <3>2. u.pool[x].lots = s.pool[x].lots
      BY <1>14, <3>1 DEF AddEffect, SameOrders
    <3>3. QED BY <1>6, <3>1, <3>2 DEF AllHaveLots
  <2>3. QED BY <2>1, <2>2
<1>19. QED BY <1>10, <1>14, <1>16, <1>17, <1>18 DEF Sound

\* The level at index at is still there, or it was emptied and is gone.
LevelsAfter(s, u, side, price, at, lots) ==
    /\ \A other \in Sides : other # side => u.levels[other] = s.levels[other]
    /\ s.levels[side][at].count # 1 =>
         /\ Len(u.levels[side]) = Len(s.levels[side]) /\ u.levels[side][at].price = price
         /\ u.levels[side][at].total = s.levels[side][at].total - lots
         /\ \A j \in 1 .. Len(s.levels[side]) : j # at => u.levels[side][j] = s.levels[side][j]
    /\ s.levels[side][at].count = 1 =>
         /\ Len(u.levels[side]) = Len(s.levels[side]) - 1
         /\ LevelsWithin(s.levels[side], u.levels[side], at)

\* Every order but the one at node i has lots.
OthersHaveLots(s, i) == \A x \in s.used : x # i => s.pool[x].lots > 0

\* remove_order keeps the structure sound, and takes one order off its list.
LEMMA RemovedSound ==
    ASSUME NEW s, NEW L, Base(s, L), NoEmptyLevel(s), WithinLevels(s), NEW id \in OrderIds,
           NEW side, NEW price, NEW i, NEW at, NEW c, NEW k,
           DropPlace(s, L, id, side, price, i, at, c, k), OthersHaveLots(s, i),
           NEW u, u = Removed(s, side, at, i)
    PROVE  \E M : /\ Sound(u, M) /\ RemoveEffect(s, L, u, M, id, i, side, price, k)
                  /\ LevelsAfter(s, u, side, price, at, s.pool[i].lots)
<1>1. /\ side \in Sides /\ price \in Prices /\ i \in Nodes /\ i \in s.used /\ s.pool[i].id = id
      /\ c = L[side][price] /\ at \in 1 .. Len(s.levels[side]) /\ k \in 1 .. Len(c) /\ c[k] = i
      /\ s.levels[side][at].price = price /\ s \in Structures
  <2>1. PlaceKnown(s, L, id, side, price, i, at, c, k)
    BY DropPlaceKnown
  <2>2. QED BY <2>1 DEF PlaceKnown
<1>2. PICK v, d, M : v = Dropped(s, side, at, i) /\ d = RemoveAt(c, k) /\ M = WithList(L, side, price, d)
  OBVIOUS
<1>3. Base(v, M)
  <2>1. IsShortened(c, k, d)
    BY <1>2 DEF IsShortened
  <2>2. QED BY <1>2, <2>1, DroppedBase
<1>4. u = ErasedIfEmpty(v, side, at)
  BY <1>1, <1>2, RemovedIsDropped
<1>5. PICK p, q, level, prev, next :
        /\ p = s.pool /\ q = v.pool /\ level = s.levels[side][at]
        /\ prev = p[i].prev /\ next = p[i].next
  OBVIOUS
<1>6. /\ v.used = s.used \ {i} /\ NodesSame(p, q, i)
      /\ v.lookup[id] = NoOrder /\ OthersSame(s.lookup, v.lookup, id)
      /\ \A other \in Sides : other # side => v.levels[other] = s.levels[other]
      /\ IsReplaced(s.levels[side], at, DroppedLevel(level, p[i]), v.levels[side])
  <2>1. id = p[i].id /\ level.count > 0
    BY <1>1, <1>5 DEF NoEmptyLevel
  <2>2. DropEffect(s, v, p, q, i, id, side, at, level, prev, next)
    BY <1>1, <1>2, <1>5, <2>1, DroppedFacts
  <2>3. QED BY <2>2 DEF DropEffect
<1>7. /\ Len(v.levels[side]) = Len(s.levels[side]) /\ Len(s.levels[side]) \in Nat
      /\ \A j \in 1 .. Len(s.levels[side]) : j # at => v.levels[side][j] = s.levels[side][j]
      /\ v.levels[side][at].price = price
      /\ v.levels[side][at].count = s.levels[side][at].count - 1
      /\ s.levels[side][at].count \in Nat
      /\ v.levels[side][at].total = s.levels[side][at].total - s.pool[i].lots
  <2>1. PICK ls, e, node : ls = s.levels[side] /\ e = DroppedLevel(level, node) /\ node = p[i]
    OBVIOUS
  <2>2. ls \in Seq(LevelRecords) /\ at \in 1 .. Len(ls) /\ Len(ls) \in Nat /\ level = ls[at]
    BY <1>1, <1>5, <2>1, BaseLevels
  <2>3. level \in LevelRecords /\ level.count > 0 /\ level.price = price /\ level.count \in Nat
    BY <1>1, <1>5, <2>1, <2>2, LevelFacts DEF NoEmptyLevel
  <2>4. node \in NodeRecords
    BY <1>1, <1>5, <2>1, StructureFacts, PoolFacts
  <2>5. e.price = level.price /\ e.count = level.count - 1 /\ e.total = level.total - node.lots
    BY <2>1, <2>3, <2>4, DroppedLevelFacts
  <2>6. [ls EXCEPT ![at] = e][at] = e
    BY <2>2
  <2>7. v.levels[side] = [ls EXCEPT ![at] = e]
    BY <1>6, <2>1 DEF IsReplaced
  <2>8. Len([ls EXCEPT ![at] = e]) = Len(ls)
    BY <2>2
  <2>9. \A j \in 1 .. Len(ls) : j # at => [ls EXCEPT ![at] = e][j] = ls[j]
    BY <2>2
  <2>10. QED BY <1>5, <2>1, <2>2, <2>7, <2>8, <2>9, <2>3, <2>5, <2>6
<1>8. OthersHold(v, side, at) /\ WithinLevels(v)
  <2>1. ASSUME NEW other \in Sides
        PROVE  Len(v.levels[other]) = Len(s.levels[other])
    BY <1>6, <1>7
  <2>2. ASSUME NEW other \in Sides, NEW j \in 1 .. Len(v.levels[other]), other # side \/ j # at
        PROVE  v.levels[other][j].count > 0
    <3>1. v.levels[other][j] = s.levels[other][j] /\ j \in 1 .. Len(s.levels[other])
      <4>1. CASE other = side
        BY <1>7, <2>2, <4>1
      <4>2. CASE other # side
        BY <1>6, <4>2
      <4>3. QED BY <4>1, <4>2
    <3>2. QED BY <3>1 DEF NoEmptyLevel
  <2>3. WithinLevels(v)
    BY <2>1 DEF WithinLevels
  <2>4. OthersHold(v, side, at)
    BY <2>2 DEF OthersHold
  <2>5. QED BY <2>3, <2>4
<1>9. Base(u, M) /\ SameButLevels(v, u) /\ NoEmptyLevel(u) /\ WithinLevels(u)
  <2>1. at \in 1 .. Len(v.levels[side])
    BY <1>1, <1>7
  <2>2. QED BY <1>1, <1>3, <1>4, <1>8, <2>1, ErasedSound
<1>10. RemoveEffect(s, L, u, M, id, i, side, price, k)
  <2>1. u.used = s.used \ {i} /\ u.lookup[id] = NoOrder /\ OthersSame(s.lookup, u.lookup, id)
    BY <1>6, <1>9 DEF SameButLevels
  <2>2. \A x \in u.used : x \in Nodes /\ x # i
    BY <1>1, <2>1, StructureFacts
  <2>3. SameOrders(s.pool, u.pool, u.used)
    BY <1>5, <1>6, <1>9, <2>2 DEF SameOrders, NodesSame, SameButLevels
  <2>4. M = WithList(L, side, price, RemoveAt(L[side][price], k))
    BY <1>1, <1>2
  <2>5. QED BY <1>1, <2>1, <2>3, <2>4 DEF RemoveEffect
<1>11. AllHaveLots(u)
  <2> SUFFICES ASSUME NEW x \in u.used PROVE u.pool[x].lots > 0
    BY DEF AllHaveLots
  <2>1. x \in s.used /\ x # i /\ u.pool[x].lots = s.pool[x].lots
    BY <1>10 DEF RemoveEffect, SameOrders
  <2>2. QED BY <2>1 DEF OthersHaveLots
<1>12. LevelsAfter(s, u, side, price, at, s.pool[i].lots)
  <2>1. \A other \in Sides : other # side => u.levels[other] = s.levels[other]
    <3>1. CASE v.levels[side][at].count = 0
      BY <1>1, <1>3, <1>4, <1>6, <1>7, <3>1, LevelErased
    <3>2. CASE v.levels[side][at].count # 0
      BY <1>4, <1>6, <3>2 DEF ErasedIfEmpty
    <3>3. QED BY <3>1, <3>2
  <2>2. ASSUME s.levels[side][at].count # 1
        PROVE  /\ Len(u.levels[side]) = Len(s.levels[side]) /\ u.levels[side][at].price = price
               /\ u.levels[side][at].total = s.levels[side][at].total - s.pool[i].lots
               /\ \A j \in 1 .. Len(s.levels[side]) : j # at => u.levels[side][j] = s.levels[side][j]
    <3>1. v.levels[side][at].count # 0
      BY <1>7, <2>2
    <3>2. u = v
      BY <1>4, <3>1 DEF ErasedIfEmpty
    <3>3. QED BY <1>7, <3>2
  <2>3. ASSUME s.levels[side][at].count = 1
        PROVE  /\ Len(u.levels[side]) = Len(s.levels[side]) - 1
               /\ LevelsWithin(s.levels[side], u.levels[side], at)
    <3>1. v.levels[side][at].count = 0 /\ at \in 1 .. Len(v.levels[side])
      BY <1>1, <1>7, <2>3
    <3>2. PICK ls, ms, ns : ls = s.levels[side] /\ ms = v.levels[side] /\ ns = u.levels[side]
      OBVIOUS
    <3>3. Len(ns) = Len(ms) - 1 /\ LevelsWithin(ms, ns, at)
      BY <1>1, <1>3, <1>4, <3>1, <3>2, LevelErased
    <3>4. /\ Len(ms) = Len(ls) /\ Len(ls) \in Nat /\ at \in 1 .. Len(ls)
          /\ \A j \in 1 .. Len(ls) : j # at => ms[j] = ls[j]
      BY <1>1, <1>7, <3>2
    <3>5. ASSUME NEW j \in 1 .. Len(ns) PROVE \E m \in 1 .. Len(ls) : m # at /\ ns[j] = ls[m]
      <4>1. PICK m \in 1 .. Len(ms) : m # at /\ ns[j] = ms[m]
        BY <3>3 DEF LevelsWithin
      <4>2. QED BY <3>4, <4>1
    <3>6. ASSUME at = 1, NEW j \in 1 .. Len(ns) PROVE ns[j] = ls[j + 1]
      <4>1. ns[j] = ms[j + 1]
        BY <3>3, <3>6 DEF LevelsWithin
      <4>2. j + 1 \in 1 .. Len(ls) /\ j + 1 # at
        BY <3>3, <3>4, <3>6
      <4>3. QED BY <3>4, <4>1, <4>2
    <3>7. LevelsWithin(ls, ns, at)
      BY <3>5, <3>6 DEF LevelsWithin
    <3>8. QED BY <3>2, <3>3, <3>4, <3>7
  <2>4. QED BY <2>1, <2>2, <2>3 DEF LevelsAfter
<1>13. QED BY <1>9, <1>10, <1>11, <1>12 DEF Sound

\* Where a resting order is: what cancel_order, cancel_order_partial and
\* modify_order look up before they change anything.
LEMMA OrderFound ==
    ASSUME NEW s, NEW L, Base(s, L), NEW id \in OrderIds, s.lookup[id] # NoOrder,
           NEW loc, loc = s.lookup[id]
    PROVE  \E at, c, k : /\ at = FindLevel(s, loc.side, loc.price).at
                         /\ DropPlace(s, L, id, loc.side, loc.price, loc.node, at, c, k)
<1>1. PICK side, price, ls : side = loc.side /\ price = loc.price /\ ls = s.levels[side]
  OBVIOUS
<1>2. PICK c, w : c = L[side][price] /\ w = FindLevel(s, side, price)
  OBVIOUS
<1>3. side \in Sides /\ price \in Prices
  BY <1>1, OrderPlace
<1>4. PICK k \in 1 .. Len(c) : c[k] = loc.node
  <2>1. \E k \in 1 .. Len(L[loc.side][loc.price]) : L[loc.side][loc.price][k] = loc.node
    BY OrderPlace
  <2>2. c = L[loc.side][loc.price]
    BY <1>1, <1>2
  <2>3. QED BY <2>1, <2>2
<1>5. ls \in Seq(LevelRecords) /\ Sorted(side, ls) /\ SideSound(side, ls, s.pool, L[side])
  BY <1>1, <1>3, BaseLevels
<1>6. Len(c) > 0
  <2>1. Len(c) \in Nat
    BY <1>2, <1>3, BaseLists
  <2>2. QED BY <1>4, <2>1
<1>7. PICK j \in 1 .. Len(ls) : ls[j].price = price
  BY <1>2, <1>3, <1>5, <1>6 DEF SideSound
<1>8. w.at = j
  <2>1. ls = s.levels[side] /\ w = FindLevel(s, side, price)
    BY <1>1, <1>2
  <2>2. ls \in Seq(LevelRecords) /\ Sorted(side, ls)
    BY <1>5
  <2>3. QED BY <1>3, <1>7, <2>1, <2>2, FindLevelFacts
<1>9. DropPlace(s, L, id, side, price, loc.node, w.at, c, k)
  BY <1>1, <1>2, <1>4, <1>7, <1>8 DEF DropPlace
<1>10. QED BY <1>1, <1>2, <1>9

-----------------------------------------------------------------------------
(* Cut: lots off a node, and off the running total of its level            *)

CutPool(p, i, n) == [p EXCEPT ![i].lots = p[i].lots - n]
CutLevel(level, n) == [level EXCEPT !.total = level.total - n]

\* Every node keeps its identity and its links.
SameNodes(p, q) ==
    \A x \in Nodes : q[x].id = p[x].id /\ q[x].prev = p[x].prev /\ q[x].next = p[x].next

\* What lots off a node change in the pool.
LEMMA CutPoolFacts ==
    ASSUME NEW p \in Pools, NEW i \in Nodes, NEW n \in Nat, n <= p[i].lots,
           NEW q, q = CutPool(p, i, n)
    PROVE  /\ q \in Pools /\ SameNodes(p, q) /\ q[i].lots = p[i].lots - n
           /\ \A x \in Nodes : x # i => q[x].lots = p[x].lots
<1>1. PICK a, b, c, d : p[i] = [id |-> a, lots |-> b, prev |-> c, next |-> d]
  BY DEF Pools, NodeRecords
<1>2. /\ a \in OrderIds \cup {NoOrder} /\ b \in 0 .. MaxLots /\ c \in LinkValues /\ d \in LinkValues
      /\ p[i].id = a /\ p[i].lots = b /\ p[i].prev = c /\ p[i].next = d
  BY <1>1, PoolFacts
<1>3. PICK m : m = b - n
  OBVIOUS
<1>4. m \in 0 .. MaxLots
  BY <1>2, <1>3, Constants
<1>5. PICK node : node = [id |-> a, lots |-> m, prev |-> c, next |-> d]
  OBVIOUS
<1>6. q = [p EXCEPT ![i] = node]
  <2>1. q = [p EXCEPT ![i] = [p[i] EXCEPT !.lots = p[i].lots - n]]
    BY DEF CutPool
  <2>2. [p[i] EXCEPT !.lots = p[i].lots - n] = node
    BY <1>1, <1>2, <1>3, <1>5
  <2>3. QED BY <2>1, <2>2
<1>7. node \in NodeRecords
  BY <1>2, <1>4, <1>5 DEF NodeRecords
<1>8. q \in Pools /\ q[i] = node /\ \A x \in Nodes : x # i => q[x] = p[x]
  BY <1>6, <1>7 DEF Pools
<1>9. node.id = a /\ node.lots = m /\ node.prev = c /\ node.next = d
  BY <1>5
<1>10. SameNodes(p, q)
  BY <1>2, <1>8, <1>9 DEF SameNodes
<1>11. QED BY <1>2, <1>3, <1>8, <1>9, <1>10

LEMMA CutLevelFacts ==
    ASSUME NEW level \in LevelRecords, NEW n \in Nat, NEW x, x = CutLevel(level, n)
    PROVE  /\ x \in LevelRecords /\ x.price = level.price /\ x.head = level.head
           /\ x.tail = level.tail /\ x.count = level.count /\ x.total = level.total - n
<1>1. PICK a, b, c, d, e :
        /\ level = [price |-> a, head |-> b, tail |-> c, total |-> d, count |-> e]
        /\ a \in Prices /\ b \in LinkValues /\ c \in LinkValues /\ d \in Int /\ e \in Nat
  BY DEF LevelRecords
<1>2. PICK m : m = d - n
  OBVIOUS
<1>3. m \in Int
  BY <1>1, <1>2
<1>4. level.total = d
  BY <1>1
<1>5. x = [level EXCEPT !.total = m]
  BY <1>2, <1>4 DEF CutLevel
<1>6. x = [price |-> a, head |-> b, tail |-> c, total |-> m, count |-> e]
  BY <1>1, <1>5
<1>7. x \in LevelRecords
  BY <1>1, <1>3, <1>6 DEF LevelRecords
<1>8. x.price = a /\ x.head = b /\ x.tail = c /\ x.count = e /\ x.total = m
  BY <1>6
<1>9. level.price = a /\ level.head = b /\ level.tail = c /\ level.count = e
  BY <1>1
<1>10. QED BY <1>2, <1>4, <1>7, <1>8, <1>9

LEMMA CutShape ==
    ASSUME NEW s \in Structures, NEW side \in Sides, NEW at \in 1 .. Len(s.levels[side]),
           NEW i \in Nodes, NEW n \in Nat, n <= s.pool[i].lots,
           NEW u, u = Cut(s, side, at, i, n),
           NEW level, level = s.levels[side][at]
    PROVE  /\ u \in Structures
           /\ u.pool = CutPool(s.pool, i, n) /\ u.used = s.used /\ u.free = s.free
           /\ u.lookup = s.lookup
           /\ IsReplaced(s.levels[side], at, CutLevel(level, n), u.levels[side])
           /\ \A other \in Sides : other # side => u.levels[other] = s.levels[other]
<1>1. PICK p, us, f, l, m : s = [pool |-> p, used |-> us, free |-> f, levels |-> l, lookup |-> m]
  BY DEF Structures
<1>2. s.pool = p /\ s.used = us /\ s.free = f /\ s.levels = l /\ s.lookup = m
  BY <1>1
<1>3. /\ p \in Pools /\ us \in SUBSET Nodes /\ f \in Seq(Nodes)
      /\ l \in [Sides -> Seq(LevelRecords)] /\ m \in [OrderIds -> Locators \cup {NoOrder}]
  BY <1>2, StructureFacts
<1>4. PICK q, y, x, v : /\ q = CutPool(p, i, n) /\ y = CutLevel(level, n)
                        /\ x = [l[side] EXCEPT ![at] = y] /\ v = [l EXCEPT ![side] = x]
  OBVIOUS
<1>5. u = [pool |-> q, used |-> us, free |-> f, levels |-> v, lookup |-> m]
  <2>1. u = [s EXCEPT !.pool[i].lots = s.pool[i].lots - n,
                      !.levels[side][at].total = s.levels[side][at].total - n]
    BY DEF Cut
  <2>2. u = [s EXCEPT !.pool = [s.pool EXCEPT ![i].lots = s.pool[i].lots - n],
                      !.levels[side][at] = CutLevel(level, n)]
    BY <2>1 DEF CutLevel
  <2>3. [s.pool EXCEPT ![i].lots = s.pool[i].lots - n] = q
    BY <1>2, <1>4 DEF CutPool
  <2>4. u = [s EXCEPT !.pool = q, !.levels[side][at] = y]
    BY <1>4, <2>2, <2>3
  <2>5. u = [s EXCEPT !.pool = q, !.levels = v]
    BY <1>2, <1>4, <2>4, Zenon
  <2>6. QED BY <1>1, <2>5
<1>6. u.pool = q /\ u.used = us /\ u.free = f /\ u.levels = v /\ u.lookup = m
  BY <1>5
<1>7. q \in Pools
  BY <1>2, <1>3, <1>4, CutPoolFacts
<1>8. x \in Seq(LevelRecords)
  <2>1. PICK ls : ls = l[side]
    OBVIOUS
  <2>2. ls \in Seq(LevelRecords) /\ at \in 1 .. Len(ls) /\ level = ls[at]
    BY <1>2, <1>3, <2>1
  <2>3. level \in LevelRecords
    BY <2>2, LevelFacts
  <2>4. y \in LevelRecords
    BY <1>4, <2>3, CutLevelFacts
  <2>5. x = [ls EXCEPT ![at] = y]
    BY <1>4, <2>1
  <2>6. QED BY <2>2, <2>4, <2>5, ExceptSeq
<1>9. /\ v \in [Sides -> Seq(LevelRecords)] /\ v[side] = x
      /\ \A other \in Sides : other # side => v[other] = l[other]
  BY <1>3, <1>4, <1>8
<1>10. u \in Structures
  BY <1>3, <1>5, <1>7, <1>9 DEF Structures
<1>11. IsReplaced(s.levels[side], at, CutLevel(level, n), u.levels[side])
  BY <1>2, <1>4, <1>6, <1>9 DEF IsReplaced
<1>12. QED BY <1>2, <1>4, <1>6, <1>9, <1>10, <1>11

\* The levels of u are those of s, with other totals.
SameLevels(s, u) ==
    \A side \in Sides :
      /\ Len(u.levels[side]) = Len(s.levels[side])
      /\ \A j \in 1 .. Len(s.levels[side]) :
           /\ u.levels[side][j].price = s.levels[side][j].price
           /\ u.levels[side][j].head = s.levels[side][j].head
           /\ u.levels[side][j].count = s.levels[side][j].count

\* Only the level at index at changes, and of it the total.
OneTotalCut(s, u, side, at, n) ==
    /\ \A other \in Sides : other # side => u.levels[other] = s.levels[other]
    /\ \A j \in 1 .. Len(s.levels[side]) : j # at => u.levels[side][j] = s.levels[side][j]
    /\ u.levels[side][at].total = s.levels[side][at].total - n

\* Lots off a node and off the total of its level leave the two in agreement.
LEMMA CutBase ==
    ASSUME NEW s, NEW L, Base(s, L), NEW id \in OrderIds, NEW side, NEW price, NEW i, NEW at, NEW c,
           NEW k, DropPlace(s, L, id, side, price, i, at, c, k),
           NEW n \in Nat, n <= s.pool[i].lots, NEW u, u = Cut(s, side, at, i, n)
    PROVE  /\ Base(u, L) /\ CutEffect(s, u, i, n)
           /\ SameLevels(s, u) /\ OneTotalCut(s, u, side, at, n)
<1>1. /\ side \in Sides /\ price \in Prices /\ i \in Nodes /\ L \in Lists /\ s \in Structures
      /\ i \in s.used /\ c = L[side][price] /\ s.levels[side][at].price = price
      /\ at \in 1 .. Len(s.levels[side]) /\ k \in 1 .. Len(c) /\ c[k] = i
  <2>1. PlaceKnown(s, L, id, side, price, i, at, c, k)
    BY DropPlaceKnown
  <2>2. QED BY <2>1 DEF PlaceKnown
<1>2. PICK p, q, level, ls, y, x :
        /\ p = s.pool /\ q = u.pool /\ level = s.levels[side][at] /\ ls = s.levels[side]
        /\ y = CutLevel(level, n) /\ x = u.levels[side]
  OBVIOUS
<1>3. /\ u \in Structures /\ q = CutPool(p, i, n) /\ u.used = s.used /\ u.free = s.free
      /\ u.lookup = s.lookup
      /\ IsReplaced(ls, at, y, x)
      /\ \A other \in Sides : other # side => u.levels[other] = s.levels[other]
  <2>1. /\ u \in Structures
        /\ u.pool = CutPool(s.pool, i, n) /\ u.used = s.used /\ u.free = s.free
        /\ u.lookup = s.lookup
        /\ IsReplaced(s.levels[side], at, CutLevel(level, n), u.levels[side])
        /\ \A other \in Sides : other # side => u.levels[other] = s.levels[other]
    BY <1>1, <1>2, CutShape
  <2>2. QED BY <1>2, <2>1
<1>4. p \in Pools
  BY <1>1, <1>2, StructureFacts
<1>5. /\ q \in Pools /\ SameNodes(p, q) /\ q[i].lots = p[i].lots - n
      /\ \A z \in Nodes : z # i => q[z].lots = p[z].lots
  BY <1>1, <1>2, <1>3, <1>4, CutPoolFacts
<1>6. ASSUME NEW other \in Sides, NEW b \in Prices
      PROVE  ListOwned(q, u.used, u.lookup, L[other][b], other, b) /\ Linked(q, L[other][b])
  <2>1. PICK e : e = L[other][b]
    OBVIOUS
  <2>2. /\ e \in Seq(Nodes) /\ ListOwned(p, s.used, s.lookup, e, other, b) /\ Linked(p, e)
        /\ \A j \in 1 .. Len(e) : e[j] \in Nodes /\ e[j] \in s.used
    <3>1. Held(p, s.used, s.lookup, other, b, e)
      BY <1>2, <2>1, BaseHeld
    <3>2. QED BY <3>1 DEF Held
  <2>3. SameLinks(p, q, e)
    BY <1>5, <2>2 DEF SameLinks, SameNodes
  <2>4. ListOwned(q, u.used, u.lookup, e, other, b) /\ Linked(q, e)
    <3>1. e \in Seq(Nodes) /\ ListOwned(p, s.used, s.lookup, e, other, b) /\ Linked(p, e)
      BY <2>2
    <3>2. SameLocators(p, s.lookup, u.lookup, e)
      BY <1>3 DEF SameLocators
    <3>3. \A j \in 1 .. Len(e) : e[j] \in u.used
      BY <1>3, <2>2
    <3>4. QED BY <2>3, <3>1, <3>2, <3>3, ListKept
  <2>5. QED BY <2>1, <2>4
<1>7. OrdersListed(q, u.lookup, L)
  <2> SUFFICES ASSUME NEW o \in OrderIds, u.lookup[o] # NoOrder
               PROVE  ListedAt(q, L, o, u.lookup[o])
    BY DEF OrdersListed
  <2>1. PICK loc : loc = s.lookup[o]
    OBVIOUS
  <2>2. u.lookup[o] = loc /\ loc # NoOrder
    BY <1>3, <2>1
  <2>3. /\ loc.node \in Nodes /\ s.pool[loc.node].id = o
        /\ \E j \in 1 .. Len(L[loc.side][loc.price]) : L[loc.side][loc.price][j] = loc.node
    BY <2>1, <2>2, OrderPlace
  <2>4. q[loc.node].id = o
    BY <1>2, <1>5, <2>3 DEF SameNodes
  <2>5. ListedAt(q, L, o, loc)
    BY <2>3, <2>4 DEF ListedAt
  <2>6. QED BY <2>2, <2>5
<1>8. UsedOwned(q, u.used, u.lookup)
  <2>1. UsedOwned(p, s.used, s.lookup) /\ s.used \subseteq Nodes
    BY <1>1, <1>2, StructureFacts DEF Base
  <2>2. \A z \in s.used : q[z].id = p[z].id
    BY <1>5, <2>1 DEF SameNodes
  <2>3. UsedOwned(q, s.used, s.lookup)
    BY <2>1, <2>2 DEF UsedOwned
  <2>4. QED BY <1>3, <2>3
<1>9. /\ c \in Seq(Nodes) /\ level \in LevelRecords /\ level.price = price /\ LevelIs(p, level, c)
      /\ level.total = Total(p, c) /\ ls \in Seq(LevelRecords) /\ at \in 1 .. Len(ls)
      /\ level = ls[at]
  <2>1. level.price = price /\ at \in 1 .. Len(ls) /\ level = ls[at]
    BY <1>1, <1>2
  <2>2. LevelHolds(p, level, price, c)
    BY <1>1, <1>2, <2>1, LevelHeld
  <2>3. /\ level \in LevelRecords /\ c \in Seq(Nodes)
        /\ LevelIs(p, level, c) /\ level.total = Total(p, c)
    BY <2>2 DEF LevelHolds
  <2>4. ls \in Seq(LevelRecords)
    BY <1>1, <1>2, BaseLevels
  <2>5. QED BY <1>2, <2>1, <2>3, <2>4
<1>10. /\ y \in LevelRecords /\ y.price = price /\ y.head = level.head /\ y.tail = level.tail
       /\ y.count = level.count /\ y.total = level.total - n
  BY <1>2, <1>9, CutLevelFacts
<1>11. LevelIs(q, y, c)
  <2>1. Total(q, c) = Total(p, c) - n
    <3>1. PICK S : S = Range(c)
      OBVIOUS
    <3>2. S \subseteq Nodes /\ i \in S
      BY <1>1, <1>9, <3>1, SeqRange
    <3>3. Sum(LotsOf(q), S) = Sum(LotsOf(p), S) - n
      BY <1>4, <1>5, <3>2, TotalCut
    <3>4. QED BY <3>1, <3>3 DEF Total
  <2>2. y.total = Total(q, c)
    BY <1>9, <1>10, <2>1
  <2>3. QED BY <1>9, <1>10, <2>2 DEF LevelIs
<1>12. SideSound(side, u.levels[side], q, L[side])
  <2>1. PICK lists, after : lists = L[side] /\ after = [lists EXCEPT ![price] = c]
    OBVIOUS
  <2>2. lists \in [Prices -> Seq(Nodes)] /\ SideSound(side, ls, p, lists)
    BY <1>1, <1>2, <2>1, BaseLevels
  <2>3. LotsKept(p, q, lists, price)
    <3> SUFFICES ASSUME NEW b \in Prices \ {price}, NEW z \in Range(lists[b])
                 PROVE  q[z].lots = p[z].lots
      BY DEF LotsKept
    <3>1. PICK e : e = L[side][b]
      OBVIOUS
    <3>2. e \in Seq(Nodes) /\ Range(e) \subseteq s.used /\ z \in Range(e)
      BY <1>1, <2>1, <3>1, BaseLists
    <3>3. PICK j \in 1 .. Len(e) : e[j] = z
      BY <3>2, SeqRange
    <3>4. price # b
      OBVIOUS
    <3>5. c[k] # e[j]
      <4>1. side \in Sides /\ price \in Prices /\ c = L[side][price]
        BY <1>1
      <4>2. k \in 1 .. Len(c)
        BY <1>1
      <4>3. QED BY <3>1, <3>4, <4>1, <4>2, ListsApart
    <3>6. z \in Nodes
      BY <3>2, SeqRange
    <3>7. QED BY <1>1, <1>5, <3>3, <3>5, <3>6
  <2>4. IsReplaced(lists, price, c, after)
    BY <2>1 DEF IsReplaced
  <2>5. SideSound(side, x, q, after)
    <3>1. side \in Sides /\ price \in Prices
      BY <1>1
    <3>2. ls \in Seq(LevelRecords) /\ at \in 1 .. Len(ls) /\ ls[at].price = price /\ c \in Seq(Nodes)
      BY <1>9
    <3>3. p \in Pools /\ q \in Pools
      BY <1>4, <1>5
    <3>4. y \in LevelRecords /\ y.price = price
      BY <1>10
    <3>5. IsReplaced(ls, at, y, x)
      BY <1>3
    <3>6. QED BY <1>11, <2>2, <2>3, <2>4, <3>1, <3>2, <3>3, <3>4, <3>5, SideUpdated
  <2>6. lists[price] = c
    BY <1>1, <2>1
  <2>7. after = lists
    BY <2>1, <2>2, <2>6
  <2>8. QED BY <1>2, <2>1, <2>5, <2>7
<1>13. ASSUME NEW other \in Sides, other # side
       PROVE  SideSound(other, u.levels[other], q, L[other])
  <2>1. PICK l2, lists : l2 = s.levels[other] /\ lists = L[other]
    OBVIOUS
  <2>2. /\ l2 \in Seq(LevelRecords) /\ lists \in [Prices -> Seq(Nodes)]
        /\ SideSound(other, l2, p, lists)
    BY <1>2, <2>1, BaseLevels
  <2>3. \A b \in Prices : \A z \in Range(lists[b]) : q[z].lots = p[z].lots
    <3> SUFFICES ASSUME NEW b \in Prices, NEW z \in Range(lists[b])
                 PROVE  q[z].lots = p[z].lots
      OBVIOUS
    <3>1. PICK e : e = L[other][b]
      OBVIOUS
    <3>2. e \in Seq(Nodes) /\ Range(e) \subseteq s.used /\ z \in Range(e)
      BY <2>1, <3>1, BaseLists
    <3>3. PICK j \in 1 .. Len(e) : e[j] = z
      BY <3>2, SeqRange
    <3>4. side # other
      BY <1>13
    <3>5. c[k] # e[j]
      <4>1. side \in Sides /\ price \in Prices /\ c = L[side][price]
        BY <1>1
      <4>2. k \in 1 .. Len(c)
        BY <1>1
      <4>3. QED BY <3>1, <3>4, <4>1, <4>2, ListsApart
    <3>6. z \in Nodes
      BY <3>2, SeqRange
    <3>7. QED BY <1>1, <1>5, <3>3, <3>5, <3>6
  <2>4. SideSound(other, l2, q, lists)
    BY <1>4, <1>5, <2>2, <2>3, SideKept
  <2>5. QED BY <1>3, <1>13, <2>1, <2>4
<1>14. Base(u, L)
  <2>1. \A other \in Sides : SideSound(other, u.levels[other], q, L[other])
    BY <1>12, <1>13
  <2>2. FreeSound(u.free, u.used)
    BY <1>3 DEF Base
  <2>3. QED BY <1>1, <1>2, <1>3, <1>6, <1>7, <1>8, <2>1, <2>2 DEF Base
<1>15. CutEffect(s, u, i, n)
  <2>1. s.used \subseteq Nodes
    BY <1>1, StructureFacts
  <2>2. SameOrders(s.pool, u.pool, s.used \ {i})
    BY <1>2, <1>5, <2>1 DEF SameOrders, SameNodes
  <2>3. u.pool[i].id = s.pool[i].id /\ u.pool[i].lots = s.pool[i].lots - n
    BY <1>1, <1>2, <1>5 DEF SameNodes
  <2>4. QED BY <1>1, <1>3, <2>2, <2>3 DEF CutEffect
<1>16. SameLevels(s, u) /\ OneTotalCut(s, u, side, at, n)
  <2>1. x = [ls EXCEPT ![at] = y]
    BY <1>3 DEF IsReplaced
  <2>2. Len([ls EXCEPT ![at] = y]) = Len(ls) /\ [ls EXCEPT ![at] = y][at] = y
    BY <1>9, <1>10
  <2>3. \A j \in 1 .. Len(ls) : j # at => [ls EXCEPT ![at] = y][j] = ls[j]
    BY <1>9
  <2>4. Len(x) = Len(ls) /\ x[at] = y /\ \A j \in 1 .. Len(ls) : j # at => x[j] = ls[j]
    BY <2>1, <2>2, <2>3
  <2>5. \A j \in 1 .. Len(ls) : /\ x[j].price = ls[j].price /\ x[j].head = ls[j].head
                                /\ x[j].count = ls[j].count
    BY <1>9, <1>10, <2>4
  <2>6. SameLevels(s, u)
    <3>1. ls = s.levels[side] /\ x = u.levels[side]
      BY <1>2
    <3>2. \A other \in Sides : other # side => u.levels[other] = s.levels[other]
      BY <1>3
    <3>3. ASSUME NEW other \in Sides
          PROVE  /\ Len(u.levels[other]) = Len(s.levels[other])
                 /\ \A j \in 1 .. Len(s.levels[other]) :
                      /\ u.levels[other][j].price = s.levels[other][j].price
                      /\ u.levels[other][j].head = s.levels[other][j].head
                      /\ u.levels[other][j].count = s.levels[other][j].count
      <4>1. CASE other = side
        BY <2>4, <2>5, <3>1, <4>1
      <4>2. CASE other # side
        BY <3>2, <4>2
      <4>3. QED BY <4>1, <4>2
    <3>4. QED BY <3>3 DEF SameLevels
  <2>7. OneTotalCut(s, u, side, at, n)
    BY <1>2, <1>3, <1>10, <2>4 DEF OneTotalCut
  <2>8. QED BY <2>6, <2>7
<1>17. QED BY <1>14, <1>15, <1>16

-----------------------------------------------------------------------------
(* The operations keep the structure sound                                 *)

\* The order id rests at index k of its list.
RestsAt(s, L, id, k) ==
    /\ k \in 1 .. Len(L[s.lookup[id].side][s.lookup[id].price])
    /\ L[s.lookup[id].side][s.lookup[id].price][k] = s.lookup[id].node

CancelEffect(s, L, u, M, id, k) ==
    /\ RestsAt(s, L, id, k)
    /\ RemoveEffect(s, L, u, M, id, s.lookup[id].node, s.lookup[id].side, s.lookup[id].price, k)

LEMMA PlaceRests ==
    ASSUME NEW s, NEW L, NEW id, NEW side, NEW price, NEW i, NEW at, NEW c, NEW k,
           DropPlace(s, L, id, side, price, i, at, c, k)
    PROVE  RestsAt(s, L, id, k)
<1>1. PICK loc : loc = s.lookup[id]
  OBVIOUS
<1>2. /\ side = loc.side /\ price = loc.price /\ i = loc.node /\ c = L[side][price]
      /\ k \in 1 .. Len(c) /\ c[k] = i
  BY <1>1 DEF DropPlace
<1>3. k \in 1 .. Len(L[loc.side][loc.price]) /\ L[loc.side][loc.price][k] = loc.node
  BY <1>2
<1>4. QED BY <1>1, <1>3 DEF RestsAt

\* A removal that empties its level makes room for one, and one that does not
\* leaves it: there is always room to put the order back, whatever the limit.
RoomAt(s, side, price) ==
    \/ Len(s.levels[side]) < MaxLevels
    \/ \E j \in 1 .. Len(s.levels[side]) : s.levels[side][j].price = price

\* cancel_order keeps the structure sound.
LEMMA CanceledSound ==
    ASSUME NEW s, NEW L, Sound(s, L), NEW id \in OrderIds, s.lookup[id] # NoOrder,
           NEW u, u = Canceled(s, id)
    PROVE  \E M, k : /\ Sound(u, M) /\ CancelEffect(s, L, u, M, id, k)
                     /\ RoomAt(u, s.lookup[id].side, s.lookup[id].price)
<1>1. PICK loc, side, price, i : /\ loc = s.lookup[id] /\ side = loc.side /\ price = loc.price
                                 /\ i = loc.node
  OBVIOUS
<1>2. Base(s, L) /\ NoEmptyLevel(s) /\ AllHaveLots(s) /\ WithinLevels(s)
  BY DEF Sound
<1>3. PICK at, c, k : /\ at = FindLevel(s, loc.side, loc.price).at
                      /\ DropPlace(s, L, id, loc.side, loc.price, loc.node, at, c, k)
  BY <1>1, <1>2, OrderFound
<1>4. DropPlace(s, L, id, side, price, i, at, c, k)
  BY <1>1, <1>3
<1>5. u = Removed(s, side, at, i)
  BY <1>1, <1>3 DEF Canceled
<1>6. OthersHaveLots(s, i)
  BY <1>2 DEF OthersHaveLots, AllHaveLots
<1>7. PICK M : /\ Sound(u, M) /\ RemoveEffect(s, L, u, M, id, i, side, price, k)
               /\ LevelsAfter(s, u, side, price, at, s.pool[i].lots)
  BY <1>2, <1>4, <1>5, <1>6, RemovedSound
<1>8. CancelEffect(s, L, u, M, id, k)
  <2>1. RestsAt(s, L, id, k)
    BY <1>4, PlaceRests
  <2>2. QED BY <1>1, <1>7, <2>1 DEF CancelEffect
<1>9. RoomAt(u, side, price)
  <2>1. at \in 1 .. Len(s.levels[side]) /\ side \in Sides
    BY <1>1, <1>2, <1>4, OrderPlace DEF DropPlace
  <2>2. Len(s.levels[side]) \in Nat /\ Len(s.levels[side]) <= MaxLevels
    BY <1>2, <2>1, BaseLevels DEF WithinLevels
  <2>3. CASE s.levels[side][at].count = 1
    BY <1>7, <2>2, <2>3, Constants DEF LevelsAfter, RoomAt
  <2>4. CASE s.levels[side][at].count # 1
    <3>1. at \in 1 .. Len(u.levels[side]) /\ u.levels[side][at].price = price
      BY <1>7, <2>1, <2>4 DEF LevelsAfter
    <3>2. QED BY <3>1 DEF RoomAt
  <2>5. QED BY <2>3, <2>4
<1>10. QED BY <1>1, <1>7, <1>8, <1>9

\* cancel_order_partial keeps the structure sound.
LEMMA ReducedSound ==
    ASSUME NEW s, NEW L, Sound(s, L), NEW id \in OrderIds, s.lookup[id] # NoOrder,
           NEW loc, loc = s.lookup[id], NEW n \in Lots, NEW u, u = Reduced(s, id, n)
    PROVE  IF n >= s.pool[loc.node].lots
           THEN u = Canceled(s, id)
           ELSE Sound(u, L) /\ CutEffect(s, u, loc.node, n)
<1>1. PICK side, price, i : side = loc.side /\ price = loc.price /\ i = loc.node
  OBVIOUS
<1>2. Base(s, L) /\ NoEmptyLevel(s) /\ AllHaveLots(s) /\ WithinLevels(s)
  BY DEF Sound
<1>3. PICK at, c, k : /\ at = FindLevel(s, loc.side, loc.price).at
                      /\ DropPlace(s, L, id, loc.side, loc.price, loc.node, at, c, k)
  BY <1>2, OrderFound
<1>4. DropPlace(s, L, id, side, price, i, at, c, k)
  BY <1>1, <1>3
<1>5. u = IF n >= s.pool[i].lots THEN Removed(s, side, at, i) ELSE Cut(s, side, at, i, n)
  BY <1>1, <1>3 DEF Reduced
<1>6. CASE n >= s.pool[i].lots
  <2>1. u = Removed(s, side, at, i)
    BY <1>5, <1>6
  <2>2. Canceled(s, id) = Removed(s, side, at, i)
    BY <1>1, <1>3 DEF Canceled
  <2>3. QED BY <1>1, <1>6, <2>1, <2>2
<1>7. CASE ~(n >= s.pool[i].lots)
  <2>1. i \in Nodes /\ i \in s.used /\ s.pool \in Pools
    BY <1>1, <1>2, OrderPlace, BaseFree
  <2>2. s.pool[i].lots \in Int /\ n \in Nat
    BY <2>1, PoolFacts, Constants DEF Lots
  <2>3. n <= s.pool[i].lots /\ s.pool[i].lots - n > 0
    BY <1>7, <2>2
  <2>4. u = Cut(s, side, at, i, n)
    BY <1>5, <1>7
  <2>5. Base(u, L) /\ CutEffect(s, u, i, n) /\ SameLevels(s, u)
    BY <1>2, <1>4, <2>2, <2>3, <2>4, CutBase
  <2>6. NoEmptyLevel(u) /\ WithinLevels(u)
    BY <1>2, <2>5 DEF SameLevels, NoEmptyLevel, WithinLevels
  <2>7. AllHaveLots(u)
    <3> SUFFICES ASSUME NEW x \in u.used PROVE u.pool[x].lots > 0
      BY DEF AllHaveLots
    <3>1. x \in s.used /\ u.pool[i].lots = s.pool[i].lots - n
      BY <2>5 DEF CutEffect
    <3>2. CASE x = i
      BY <2>3, <3>1, <3>2
    <3>3. CASE x # i
      <4>1. u.pool[x].lots = s.pool[x].lots
        BY <2>5, <3>1, <3>3 DEF CutEffect, SameOrders
      <4>2. QED BY <1>2, <3>1, <4>1 DEF AllHaveLots
    <3>4. QED BY <3>2, <3>3
  <2>8. QED BY <1>1, <1>7, <2>5, <2>6, <2>7 DEF Sound
<1>8. QED BY <1>6, <1>7

\* modify_order cancels and adds; when it cannot add it puts the order back as
\* it was, and that it always can, for its node and its level are free.
LEMMA PutBack ==
    ASSUME NEW s, NEW L, Sound(s, L), NEW id \in OrderIds, s.lookup[id] # NoOrder,
           NEW u, u = Canceled(s, id), NEW o, o = OrderOf(s, id)
    PROVE  o \in Orders /\ CanAdd(u, id, o)
<1>1. PICK loc, side, price, i, lots :
        /\ loc = s.lookup[id] /\ side = loc.side /\ price = loc.price
        /\ i = loc.node /\ lots = s.pool[i].lots
  OBVIOUS
<1>2. Base(s, L) /\ AllHaveLots(s)
  BY DEF Sound
<1>3. side \in Sides /\ price \in Prices /\ i \in Nodes /\ i \in s.used
  BY <1>1, <1>2, OrderPlace
<1>4. lots \in 1 .. MaxLots
  <2>1. s.pool \in Pools
    BY <1>2, BaseFree
  <2>2. lots \in 0 .. MaxLots
    BY <1>1, <1>3, <2>1, PoolFacts
  <2>3. lots > 0
    BY <1>1, <1>2, <1>3 DEF AllHaveLots
  <2>4. QED BY <2>2, <2>3, Constants
<1>5. o = [side |-> side, price |-> price, lots |-> lots]
  BY <1>1 DEF OrderOf
<1>6. o \in Orders
  BY <1>3, <1>4, <1>5 DEF Orders, Lots
<1>7. PICK M, k : /\ Sound(u, M) /\ CancelEffect(s, L, u, M, id, k)
                  /\ RoomAt(u, s.lookup[id].side, s.lookup[id].price)
  BY CanceledSound
<1>8. RoomAt(u, side, price)
  BY <1>1, <1>7
<1>9. Base(u, M)
  BY <1>7 DEF Sound
<1>10. u.lookup[id] = NoOrder /\ u.used = s.used \ {i}
  BY <1>1, <1>7 DEF CancelEffect, RemoveEffect
<1>11. u.free # <<>>
  <2>1. u.free \in Seq(Nodes) /\ Range(u.free) = Nodes \ u.used
    BY <1>9, BaseFree
  <2>2. i \in Range(u.free)
    BY <1>3, <1>10, <2>1
  <2>3. PICK j \in 1 .. Len(u.free) : u.free[j] = i
    BY <2>1, <2>2, SeqRange
  <2>4. QED BY <2>3
<1>12. FindLevel(u, side, price).found \/ Len(u.levels[side]) < MaxLevels
  <2>1. PICK ls, w : ls = u.levels[side] /\ w = FindLevel(u, side, price)
    OBVIOUS
  <2>2. ls \in Seq(LevelRecords) /\ Sorted(side, ls)
    BY <1>3, <1>9, <2>1, BaseLevels
  <2>3. w.found <=> \E j \in 1 .. Len(ls) : ls[j].price = price
    BY <1>3, <2>1, <2>2, FindLevelFacts
  <2>4. QED BY <1>8, <2>1, <2>3 DEF RoomAt
<1>13. o.side = side /\ o.price = price
  BY <1>5
<1>14. CanAdd(u, id, o)
  BY <1>10, <1>11, <1>12, <1>13 DEF CanAdd
<1>15. QED BY <1>6, <1>14

\* modify_order keeps the structure sound, whether the new order fits or not.
LEMMA ModifiedSound ==
    ASSUME NEW s, NEW L, Sound(s, L), NEW id \in OrderIds, s.lookup[id] # NoOrder,
           NEW o \in Orders, NEW u, u = Modified(s, id, o)
    PROVE  \E v, M, N, k, i, r :
              /\ Sound(v, M) /\ CancelEffect(s, L, v, M, id, k)
              /\ Sound(u, N) /\ AddEffect(v, M, u, N, id, r, i)
              /\ r \in Orders
              /\ CanAdd(v, id, o) => r = o
              /\ ~CanAdd(v, id, o) => r = OrderOf(s, id)
<1>1. PICK v, old : v = Canceled(s, id) /\ old = OrderOf(s, id)
  OBVIOUS
<1>2. old \in Orders /\ CanAdd(v, id, old)
  BY <1>1, PutBack
<1>3. PICK r : r = IF CanAdd(v, id, o) THEN o ELSE old
  OBVIOUS
<1>4. /\ r \in Orders /\ CanAdd(v, id, r)
      /\ CanAdd(v, id, o) => r = o
      /\ ~CanAdd(v, id, o) => r = OrderOf(s, id)
  BY <1>1, <1>2, <1>3
<1>5. u = Added(v, id, r)
  BY <1>1, <1>3 DEF Modified
<1>6. PICK M, k : Sound(v, M) /\ CancelEffect(s, L, v, M, id, k)
  BY <1>1, CanceledSound
<1>7. PICK N, i : Sound(u, N) /\ AddEffect(v, M, u, N, id, r, i)
  BY <1>4, <1>5, <1>6, AddedSound
<1>8. QED BY <1>4, <1>6, <1>7

-----------------------------------------------------------------------------
(* A trade: lots off the first node of a level, which goes when it has none *)

\* The level at index at is at the price, and its first node i that of order id.
FrontIs(s, side, at, price, i, id) ==
    /\ at \in 1 .. Len(s.levels[side])
    /\ price = s.levels[side][at].price /\ i = s.levels[side][at].head
    /\ id = s.pool[i].id

FrontHeld(s, L, side, price, i, id, c) ==
    /\ id \in OrderIds /\ i \in s.used /\ i \in Nodes /\ price \in Prices
    /\ c = L[side][price] /\ c \in Seq(Nodes) /\ Len(c) \in Nat /\ Len(c) > 0 /\ c[1] = i
    /\ s.lookup[id] = [side |-> side, price |-> price, node |-> i]

\* The order at the front of a level.
LEMMA FrontPlaced ==
    ASSUME NEW s, NEW L, Base(s, L), NoEmptyLevel(s), NEW side \in Sides,
           NEW at, NEW price, NEW i, NEW id, FrontIs(s, side, at, price, i, id)
    PROVE  \E c : /\ DropPlace(s, L, id, side, price, i, at, c, 1)
                  /\ FrontHeld(s, L, side, price, i, id, c)
                  /\ s.levels[side][at].count = Len(c)
<1>1. PICK ls, level, c : ls = s.levels[side] /\ level = ls[at] /\ c = L[side][price]
  OBVIOUS
<1>2. /\ at \in 1 .. Len(ls) /\ price = level.price /\ i = level.head
      /\ id = s.pool[i].id
  BY <1>1 DEF FrontIs
<1>3. /\ price \in Prices /\ c \in Seq(Nodes) /\ Len(c) \in Nat
      /\ level.count = Len(c) /\ level.head = FirstOf(c)
  <2>1. /\ at \in 1 .. Len(s.levels[side]) /\ level = s.levels[side][at]
        /\ level.price = price /\ c = L[side][price]
    BY <1>1, <1>2
  <2>2. LevelHolds(s.pool, level, price, c)
    BY <2>1, LevelHeld
  <2>3. QED BY <2>2 DEF LevelHolds
<1>4. Len(c) > 0
  BY <1>1, <1>2, <1>3 DEF NoEmptyLevel
<1>5. 1 \in 1 .. Len(c) /\ c[1] = i
  BY <1>2, <1>3, <1>4 DEF FirstOf
<1>6. \A k \in 1 .. Len(c) :
        /\ c[k] \in Nodes /\ c[k] \in s.used /\ s.pool[c[k]].id \in OrderIds
        /\ s.lookup[s.pool[c[k]].id] = [side |-> side, price |-> price, node |-> c[k]]
  <2>1. Held(s.pool, s.used, s.lookup, side, price, c)
    BY <1>1, <1>3, BaseHeld
  <2>2. QED BY <2>1 DEF Held
<1>7. /\ i \in Nodes /\ i \in s.used /\ id \in OrderIds
      /\ s.lookup[id] = [side |-> side, price |-> price, node |-> i]
  BY <1>2, <1>5, <1>6
<1>8. PICK loc : loc = [side |-> side, price |-> price, node |-> i]
  BY Zenon
<1>9. loc.side = side /\ loc.price = price /\ loc.node = i /\ loc # NoOrder
  <2>1. loc \in Locators
    BY <1>3, <1>7, <1>8 DEF Locators
  <2>2. QED BY <1>8, <2>1, Constants
<1>10. DropPlace(s, L, id, side, price, i, at, c, 1)
  BY <1>1, <1>2, <1>5, <1>7, <1>8, <1>9, Zenon DEF DropPlace
<1>11. FrontHeld(s, L, side, price, i, id, c)
  BY <1>1, <1>3, <1>4, <1>5, <1>7 DEF FrontHeld
<1>12. QED BY <1>1, <1>3, <1>10, <1>11

\* What MatchTrade does to the structure.
Traded(s, side, at, i, n) ==
    IF n = s.pool[i].lots THEN Removed(Cut(s, side, at, i, n), side, at, i)
    ELSE Cut(s, side, at, i, n)

\* A trade keeps the structure sound.
LEMMA TradedSound ==
    ASSUME NEW s, NEW L, Sound(s, L), NEW side \in Sides,
           NEW at, NEW price, NEW i, NEW id, FrontIs(s, side, at, price, i, id),
           NEW n \in Nat, n <= s.pool[i].lots, NEW v, v = Cut(s, side, at, i, n),
           NEW u, u = Traded(s, side, at, i, n)
    PROVE  /\ CutEffect(s, v, i, n) /\ SameLevels(s, v) /\ OneTotalCut(s, v, side, at, n)
           /\ n # s.pool[i].lots => u = v /\ Sound(u, L)
           /\ n = s.pool[i].lots =>
                \E M : /\ Sound(u, M) /\ RemoveEffect(s, L, u, M, id, i, side, price, 1)
                       /\ LevelsAfter(v, u, side, price, at, 0)
<1>1. Base(s, L) /\ NoEmptyLevel(s) /\ AllHaveLots(s) /\ WithinLevels(s)
  BY DEF Sound
<1>2. PICK c : /\ DropPlace(s, L, id, side, price, i, at, c, 1)
               /\ FrontHeld(s, L, side, price, i, id, c)
  BY <1>1, FrontPlaced
<1>3. /\ DropPlace(s, L, id, side, price, i, at, c, 1)
      /\ id \in OrderIds /\ i \in s.used /\ i \in Nodes
      /\ at \in 1 .. Len(s.levels[side]) /\ s.levels[side][at].price = price
  BY <1>2, Zenon DEF FrontHeld, FrontIs
<1>4. /\ Base(v, L) /\ CutEffect(s, v, i, n)
      /\ SameLevels(s, v) /\ OneTotalCut(s, v, side, at, n)
  BY <1>1, <1>3, CutBase
<1>5. NoEmptyLevel(v) /\ WithinLevels(v)
  BY <1>1, <1>4 DEF SameLevels, NoEmptyLevel, WithinLevels
<1>6. /\ v.used = s.used /\ v.lookup = s.lookup
      /\ v.pool[i].lots = s.pool[i].lots - n
      /\ SameOrders(s.pool, v.pool, s.used \ {i})
  BY <1>4 DEF CutEffect
<1>7. OthersHaveLots(v, i)
  BY <1>1, <1>6 DEF OthersHaveLots, SameOrders, AllHaveLots
<1>8. s.pool[i].lots \in Int
  BY <1>1, <1>3, BaseFree, PoolFacts
<1>9. CASE n # s.pool[i].lots
  <2>1. u = v
    BY <1>9 DEF Traded
  <2>2. v.pool[i].lots > 0
    BY <1>6, <1>8, <1>9
  <2>3. AllHaveLots(v)
    BY <1>7, <2>2 DEF AllHaveLots, OthersHaveLots
  <2>4. QED BY <1>4, <1>5, <1>9, <2>1, <2>3 DEF Sound
<1>10. CASE n = s.pool[i].lots
  <2>1. u = Removed(v, side, at, i)
    BY <1>10 DEF Traded
  <2>2. DropPlace(v, L, id, side, price, i, at, c, 1)
    <3>1. PICK loc : loc = s.lookup[id]
      OBVIOUS
    <3>2. /\ loc # NoOrder /\ side = loc.side /\ price = loc.price /\ i = loc.node
          /\ c = L[side][price] /\ 1 \in 1 .. Len(c) /\ c[1] = i
      BY <1>3, <3>1 DEF DropPlace
    <3>3. at \in 1 .. Len(v.levels[side]) /\ v.levels[side][at].price = price
      BY <1>3, <1>4 DEF SameLevels
    <3>4. v.lookup[id] = loc
      BY <1>6, <3>1
    <3>5. QED BY <3>2, <3>3, <3>4 DEF DropPlace
  <2>3. PICK M : /\ Sound(u, M) /\ RemoveEffect(v, L, u, M, id, i, side, price, 1)
                 /\ LevelsAfter(v, u, side, price, at, v.pool[i].lots)
    BY <1>3, <1>4, <1>5, <1>7, <2>1, <2>2, RemovedSound
  <2>4. RemoveEffect(s, L, u, M, id, i, side, price, 1)
    <3>1. /\ i \in v.used /\ u.used = v.used \ {i}
          /\ SameOrders(v.pool, u.pool, u.used)
          /\ u.lookup[id] = NoOrder /\ OthersSame(v.lookup, u.lookup, id)
          /\ M = WithList(L, side, price, RemoveAt(L[side][price], 1))
      BY <2>3 DEF RemoveEffect
    <3>2. SameOrders(s.pool, u.pool, u.used)
      BY <1>6, <3>1 DEF SameOrders
    <3>3. i \in s.used /\ u.used = s.used \ {i} /\ OthersSame(s.lookup, u.lookup, id)
      BY <1>6, <3>1
    <3>4. QED BY <3>1, <3>2, <3>3 DEF RemoveEffect
  <2>5. v.pool[i].lots = 0
    BY <1>6, <1>8, <1>10
  <2>6. LevelsAfter(v, u, side, price, at, 0)
    BY <2>3, <2>5
  <2>7. QED BY <1>4, <1>10, <2>3, <2>4, <2>6
<1>11. QED BY <1>9, <1>10

-----------------------------------------------------------------------------
(* The empty structure                                                     *)

LEMMA EmptyFreeSound ==
    ASSUME NEW f, f = [k \in 1 .. PoolSize |-> PoolSize - k]
    PROVE  f \in Seq(Nodes) /\ FreeSound(f, {})
<1>1. \A k \in 1 .. PoolSize : PoolSize - k \in Nodes
  BY Constants DEF Nodes
<1>2. f \in [1 .. PoolSize -> Nodes]
  BY <1>1
<1>3. f \in Seq(Nodes) /\ Len(f) = PoolSize /\ DOMAIN f = 1 .. PoolSize
  BY <1>2, Constants
<1>4. Range(f) = Nodes
  <2>1. ASSUME NEW i \in Nodes PROVE i \in Range(f)
    <3>1. PoolSize - i \in 1 .. PoolSize /\ PoolSize - (PoolSize - i) = i
      BY Constants DEF Nodes
    <3>2. f[PoolSize - i] = i
      BY <3>1
    <3>3. PoolSize - i \in 1 .. Len(f)
      BY <1>3, <3>1
    <3>4. QED BY <1>3, <3>2, <3>3, SeqRange
  <2>2. Range(f) \subseteq Nodes
    BY <1>3, SeqRange
  <2>3. QED BY <2>1, <2>2
<1>5. IsInjective(f)
  <2>1. ASSUME NEW j \in 1 .. PoolSize, NEW k \in 1 .. PoolSize, f[j] = f[k] PROVE j = k
    BY <2>1, Constants
  <2>2. QED BY <1>3, <2>1 DEF IsInjective
<1>6. QED BY <1>3, <1>4, <1>5 DEF FreeSound

\* The book starts with all nodes free and no level.
LEMMA EmptySound == \E L : Sound(EmptyStructure, L)
<1>1. PICK p, f, l, m, L :
        /\ p = [i \in Nodes |-> BlankNode] /\ f = [k \in 1 .. PoolSize |-> PoolSize - k]
        /\ l = [side \in Sides |-> <<>>] /\ m = [id \in OrderIds |-> NoOrder]
        /\ L = [side \in Sides |-> [price \in Prices |-> <<>>]]
  OBVIOUS
<1>2. PICK s : s = [pool |-> p, used |-> {}, free |-> f, levels |-> l, lookup |-> m]
  OBVIOUS
<1>3. s = EmptyStructure
  BY <1>1, <1>2 DEF EmptyStructure
<1>4. s.pool = p /\ s.used = {} /\ s.free = f /\ s.levels = l /\ s.lookup = m
  BY <1>2
<1>5. f \in Seq(Nodes) /\ FreeSound(f, {})
  BY <1>1, EmptyFreeSound
<1>6. p \in Pools
  <2>1. BlankNode \in NodeRecords
    BY Constants DEF BlankNode, NodeRecords, LinkValues
  <2>2. QED BY <1>1, <2>1 DEF Pools
<1>7. l \in [Sides -> Seq(LevelRecords)] /\ \A side \in Sides : l[side] = <<>>
  BY <1>1
<1>8. m \in [OrderIds -> Locators \cup {NoOrder}] /\ \A id \in OrderIds : m[id] = NoOrder
  BY <1>1
<1>9. L \in Lists /\ \A side \in Sides, price \in Prices : L[side][price] = <<>>
  BY <1>1 DEF Lists
<1>10. s \in Structures
  BY <1>2, <1>5, <1>6, <1>7, <1>8 DEF Structures
<1>11. \A side \in Sides, price \in Prices :
         /\ ListOwned(p, {}, m, L[side][price], side, price)
         /\ Linked(p, L[side][price])
  BY <1>9 DEF ListOwned, Linked
<1>12. OrdersListed(p, m, L) /\ UsedOwned(p, {}, m)
  BY <1>8 DEF OrdersListed, UsedOwned
<1>13. \A side \in Sides : SideSound(side, l[side], p, L[side])
  BY <1>7, <1>9 DEF SideSound, Sorted
<1>14. Base(s, L)
  BY <1>4, <1>5, <1>9, <1>10, <1>11, <1>12, <1>13 DEF Base
<1>15. NoEmptyLevel(s) /\ AllHaveLots(s) /\ WithinLevels(s)
  BY <1>4, <1>7, Constants DEF NoEmptyLevel, AllHaveLots, WithinLevels
<1>16. QED BY <1>3, <1>14, <1>15 DEF Sound

-----------------------------------------------------------------------------
(* The cursor of a match                                                   *)

CursorsOf(promised) ==
    [id : OrderIds, side : Sides, type : OrderTypes, price : Prices,
     remaining : 0 .. MaxLots, rest : BOOLEAN, trades : Seq(Trades),
     level : Nat, node : LinkValues, quantity : Lots, promised : {promised}]

\* While something is left to fill, the loop is at the best level and at its
\* first node: everything it has passed is gone.
OnFront(s, c) ==
    /\ c.level = 1
    /\ c.node # NIL => /\ Len(s.levels[Opposite(c.side)]) > 0
                       /\ c.node = s.levels[Opposite(c.side)][1].head

CursorSound(s, c) == c \in CursorsOf(c.promised) /\ (c.remaining > 0 => OnFront(s, c))

\* The inductive invariant.
Inv ==
    /\ \E L : Sound(ob, L)
    /\ cursor # NoTaker => CursorSound(ob, cursor)

LEMMA InitInv == Init => Inv
BY EmptySound DEF Init, Inv

LEMMA OppositeFacts ==
    ASSUME NEW side \in Sides
    PROVE  Opposite(side) \in Sides /\ Opposite(Opposite(side)) = side /\ Opposite(side) # side
BY DEF Opposite, Sides

\* The level and the node that an iteration of the inner loop looks at.
LEMMA CursorAtFront ==
    ASSUME NEW L, Sound(ob, L), CursorSound(ob, cursor), AtLevel,
           NEW side, side = Opposite(cursor.side),
           NEW i, i = IF cursor.node = NIL THEN ob.levels[side][cursor.level].head ELSE cursor.node
    PROVE  /\ cursor.level = 1 /\ side \in Sides /\ i = ob.levels[side][1].head
           /\ 1 \in 1 .. Len(ob.levels[side]) /\ cursor.remaining > 0
           /\ Crosses(cursor, ob.levels[side][1].price)
<1>1. cursor.side \in Sides /\ cursor.remaining > 0 /\ OnFront(ob, cursor)
  BY DEF CursorSound, CursorsOf, AtLevel
<1>2. side \in Sides
  BY <1>1, OppositeFacts
<1>3. cursor.level = 1 /\ i = ob.levels[side][1].head
  BY <1>1 DEF OnFront
<1>4. Len(ob.levels[side]) \in Nat
  BY <1>2, BaseLevels DEF Sound
<1>5. QED BY <1>1, <1>2, <1>3, <1>4 DEF AtLevel

\* Where the cursor goes after a trade of n lots with order id, at node i.
Continued(c, s, side, price, i, id, n) ==
    LET gone == n = s.pool[i].lots /\ s.levels[side][1].count = 1
    IN  [c EXCEPT
           !.remaining = @ - n,
           !.trades = Append(@, [maker |-> id, lots |-> n, price |-> price]),
           !.node = IF gone THEN NIL ELSE s.pool[i].next,
           !.level = IF ~gone /\ s.pool[i].next = NIL THEN @ + 1 ELSE @]

\* The trade that an iteration of the inner loop makes.
TradeIs(side, price, i, id, n) ==
    /\ side = Opposite(cursor.side) /\ side \in Sides
    /\ FrontIs(ob, side, 1, price, i, id)
    /\ Crosses(cursor, price)
    /\ cursor.remaining \in 1 .. MaxLots
    /\ n = (IF cursor.remaining <= ob.pool[i].lots THEN cursor.remaining ELSE ob.pool[i].lots)
    /\ ob' = Traded(ob, side, 1, i, n)
    /\ cursor' = Continued(cursor, ob, side, price, i, id, n)

\* A trade is with the front of the level that the match is at.
LEMMA TradeHappens ==
    ASSUME NEW L, Sound(ob, L), CursorSound(ob, cursor), MatchTrade
    PROVE  \E side, price, i, id, n : TradeIs(side, price, i, id, n)
<1>1. PICK side, at : side = Opposite(cursor.side) /\ at = cursor.level
  OBVIOUS
<1>2. PICK i : i = IF cursor.node = NIL THEN ob.levels[side][at].head ELSE cursor.node
  OBVIOUS
<1>3. PICK price, id, lots : /\ price = ob.levels[side][at].price /\ id = ob.pool[i].id
                             /\ lots = ob.pool[i].lots
  OBVIOUS
<1>4. PICK n : n = IF cursor.remaining <= lots THEN cursor.remaining ELSE lots
  OBVIOUS
<1>5. /\ at = 1 /\ side \in Sides /\ i = ob.levels[side][1].head
      /\ 1 \in 1 .. Len(ob.levels[side]) /\ cursor.remaining > 0
      /\ Crosses(cursor, ob.levels[side][1].price)
  <2>1. AtLevel
    BY Zenon DEF MatchTrade
  <2>2. QED BY <1>1, <1>2, <2>1, CursorAtFront
<1>6. cursor.remaining \in 1 .. MaxLots
  <2>1. cursor.remaining \in 0 .. MaxLots
    BY DEF CursorSound, CursorsOf
  <2>2. QED BY <1>5, <2>1, Constants
<1>7. ob' = Traded(ob, side, at, i, n)
  BY <1>1, <1>2, <1>3, <1>4, Zenon DEF MatchTrade, Traded
<1>8. cursor' = Continued(cursor, ob, side, price, i, id, n)
  <2>1. cursor' = LET level == ob.levels[side][at]
                      maker == ob.pool[i]
                      filled == n = maker.lots
                      gone == filled /\ level.count = 1
                  IN  [cursor EXCEPT
                         !.remaining = @ - n,
                         !.trades = Append(@, [maker |-> maker.id, lots |-> n,
                                               price |-> level.price]),
                         !.node = IF gone THEN NIL ELSE maker.next,
                         !.level = IF ~gone /\ maker.next = NIL THEN @ + 1 ELSE @]
    BY <1>1, <1>2, <1>3, <1>4, Zenon DEF MatchTrade
  <2>2. QED BY <1>3, <1>5, <2>1, Zenon DEF Continued
<1>9. FrontIs(ob, side, 1, price, i, id) /\ Crosses(cursor, price)
  BY <1>3, <1>5 DEF FrontIs
<1>10. n = (IF cursor.remaining <= ob.pool[i].lots THEN cursor.remaining ELSE ob.pool[i].lots)
  BY <1>3, <1>4
<1>11. TradeIs(side, price, i, id, n)
  BY <1>1, <1>5, <1>6, <1>7, <1>8, <1>9, <1>10, Zenon DEF TradeIs
<1>12. QED BY <1>11

ContinuedIs(c, d, s, side, price, i, id, n) ==
    /\ d \in CursorsOf(c.promised)
    /\ d.id = c.id /\ d.side = c.side /\ d.type = c.type /\ d.price = c.price
    /\ d.rest = c.rest /\ d.quantity = c.quantity /\ d.promised = c.promised
    /\ d.remaining = c.remaining - n
    /\ d.trades = Append(c.trades, [maker |-> id, lots |-> n, price |-> price])
    /\ d.node = (IF n = s.pool[i].lots /\ s.levels[side][1].count = 1 THEN NIL
                 ELSE s.pool[i].next)
    /\ d.level = (IF /\ ~(n = s.pool[i].lots /\ s.levels[side][1].count = 1)
                     /\ s.pool[i].next = NIL
                  THEN c.level + 1 ELSE c.level)

\* After a trade the match is at the node that now is the front, or between
\* two levels.
LEMMA ContinuedFacts ==
    ASSUME NEW c, c \in CursorsOf(c.promised), NEW s, NEW side, NEW price \in Prices, NEW i,
           NEW id \in OrderIds, NEW n \in Lots, n <= c.remaining, s.pool[i].next \in LinkValues,
           NEW d, d = Continued(c, s, side, price, i, id, n)
    PROVE  ContinuedIs(c, d, s, side, price, i, id, n)
<1>1. PICK f1, f2, f3, f4, f5, f6, f7, f8, f9, f10, f11 :
        /\ c = [id |-> f1, side |-> f2, type |-> f3, price |-> f4, remaining |-> f5, rest |-> f6,
                trades |-> f7, level |-> f8, node |-> f9, quantity |-> f10, promised |-> f11]
        /\ f1 \in OrderIds /\ f2 \in Sides /\ f3 \in OrderTypes /\ f4 \in Prices
        /\ f5 \in 0 .. MaxLots /\ f6 \in BOOLEAN /\ f7 \in Seq(Trades) /\ f8 \in Nat
        /\ f9 \in LinkValues /\ f10 \in Lots
  BY DEF CursorsOf
<1>2. /\ c.id = f1 /\ c.side = f2 /\ c.type = f3 /\ c.price = f4 /\ c.remaining = f5 /\ c.rest = f6
      /\ c.trades = f7 /\ c.level = f8 /\ c.node = f9 /\ c.quantity = f10 /\ c.promised = f11
  BY <1>1
<1>3. PICK rem, trade, trades, node, level :
        /\ rem = f5 - n /\ trade = [maker |-> id, lots |-> n, price |-> price]
        /\ trades = Append(f7, trade)
        /\ node = (IF n = s.pool[i].lots /\ s.levels[side][1].count = 1 THEN NIL
                   ELSE s.pool[i].next)
        /\ level = (IF /\ ~(n = s.pool[i].lots /\ s.levels[side][1].count = 1)
                       /\ s.pool[i].next = NIL
                    THEN f8 + 1 ELSE f8)
  OBVIOUS
<1>4. d = [c EXCEPT !.remaining = rem, !.trades = trades, !.node = node, !.level = level]
  BY <1>2, <1>3 DEF Continued
<1>5. d = [id |-> f1, side |-> f2, type |-> f3, price |-> f4, remaining |-> rem, rest |-> f6,
           trades |-> trades, level |-> level, node |-> node, quantity |-> f10, promised |-> f11]
  BY <1>1, <1>4, Zenon
<1>6. rem \in 0 .. MaxLots
  BY <1>1, <1>2, <1>3, Constants DEF Lots
<1>7. trades \in Seq(Trades)
  <2>1. trade \in Trades
    BY <1>3 DEF Trades
  <2>2. QED BY <1>1, <1>3, <2>1
<1>8. node \in LinkValues /\ level \in Nat
  BY <1>1, <1>3 DEF LinkValues
<1>9. d \in CursorsOf(c.promised)
  BY <1>1, <1>2, <1>5, <1>6, <1>7, <1>8 DEF CursorsOf
<1>10. /\ d.id = f1 /\ d.side = f2 /\ d.type = f3 /\ d.price = f4 /\ d.remaining = rem /\ d.rest = f6
       /\ d.trades = trades /\ d.level = level /\ d.node = node /\ d.quantity = f10
       /\ d.promised = f11
  BY <1>5
<1>11. QED BY <1>2, <1>3, <1>9, <1>10 DEF ContinuedIs

\* A trade reduces the order at the front of the best level, or removes it.
TradeEffect(s, L, u, M, side, price, i, id, n) ==
    /\ n # s.pool[i].lots => M = L /\ CutEffect(s, u, i, n)
    /\ n = s.pool[i].lots => RemoveEffect(s, L, u, M, id, i, side, price, 1)

LEMMA TradeFacts ==
    ASSUME NEW L, Sound(ob, L), NEW side, NEW price, NEW i, NEW id, NEW n,
           TradeIs(side, price, i, id, n)
    PROVE  /\ side \in Sides /\ FrontIs(ob, side, 1, price, i, id)
           /\ i \in Nodes /\ i \in ob.used /\ id \in OrderIds /\ price \in Prices
           /\ ob.pool[i].lots \in Int /\ ob.pool[i].lots > 0 /\ ob.pool[i].lots <= MaxLots
           /\ n \in Lots /\ n \in Nat /\ n <= ob.pool[i].lots /\ n <= cursor.remaining
           /\ n = ob.pool[i].lots \/ n = cursor.remaining
           /\ cursor.remaining \in 1 .. MaxLots
           /\ ob.pool[i].next \in LinkValues
<1>1. Base(ob, L) /\ NoEmptyLevel(ob) /\ AllHaveLots(ob)
  BY DEF Sound
<1>2. side \in Sides /\ FrontIs(ob, side, 1, price, i, id) /\ cursor.remaining \in 1 .. MaxLots
  BY DEF TradeIs
<1>3. PICK c : FrontHeld(ob, L, side, price, i, id, c)
  BY <1>1, <1>2, FrontPlaced
<1>4. i \in Nodes /\ i \in ob.used /\ id \in OrderIds /\ price \in Prices
  BY <1>3 DEF FrontHeld
<1>5. PICK lots : lots = ob.pool[i].lots
  OBVIOUS
<1>6. ob.pool \in Pools
  BY <1>1, BaseFree
<1>7. lots \in 0 .. MaxLots /\ lots \in Int /\ ob.pool[i].next \in LinkValues
  BY <1>4, <1>5, <1>6, PoolFacts
<1>8. lots > 0 /\ lots <= MaxLots
  BY <1>1, <1>4, <1>5, <1>7, Constants DEF AllHaveLots
<1>9. n = IF cursor.remaining <= lots THEN cursor.remaining ELSE lots
  BY <1>5 DEF TradeIs
<1>10. PICK rem : rem = cursor.remaining
  OBVIOUS
<1>11. n = (IF rem <= lots THEN rem ELSE lots) /\ rem \in 1 .. MaxLots
  BY <1>2, <1>9, <1>10
<1>12. n \in 1 .. MaxLots /\ n <= lots /\ n <= rem /\ (n = lots \/ n = rem)
  BY <1>7, <1>8, <1>11, Constants
<1>13. n \in Lots /\ n \in Nat
  BY <1>12, Constants DEF Lots
<1>14. QED BY <1>2, <1>4, <1>5, <1>7, <1>8, <1>10, <1>12, <1>13

\* A trade keeps the structure sound, and the match at a level and its front.
LEMMA TradeSound ==
    ASSUME NEW L, Sound(ob, L), CursorSound(ob, cursor),
           NEW side, NEW price, NEW i, NEW id, NEW n, TradeIs(side, price, i, id, n)
    PROVE  \E M : /\ Sound(ob', M) /\ TradeEffect(ob, L, ob', M, side, price, i, id, n)
                  /\ CursorSound(ob', cursor')
<1>1. PICK v, u, lots, count, next : /\ v = Cut(ob, side, 1, i, n) /\ u = ob'
                                     /\ lots = ob.pool[i].lots
                                     /\ count = ob.levels[side][1].count
                                     /\ next = ob.pool[i].next
  OBVIOUS
<1>2. /\ side \in Sides /\ FrontIs(ob, side, 1, price, i, id)
      /\ id \in OrderIds /\ price \in Prices
      /\ lots \in Int /\ n \in Lots /\ n \in Nat /\ n <= lots /\ n <= cursor.remaining
      /\ n = lots \/ n = cursor.remaining
      /\ cursor.remaining \in 1 .. MaxLots /\ next \in LinkValues
  BY <1>1, TradeFacts
<1>3. u = Traded(ob, side, 1, i, n) /\ side = Opposite(cursor.side)
  BY <1>1 DEF TradeIs
<1>4. /\ CutEffect(ob, v, i, n) /\ SameLevels(ob, v) /\ OneTotalCut(ob, v, side, 1, n)
      /\ n # lots => u = v /\ Sound(u, L)
      /\ n = lots =>
           \E M : /\ Sound(u, M) /\ RemoveEffect(ob, L, u, M, id, i, side, price, 1)
                  /\ LevelsAfter(v, u, side, price, 1, 0)
  <2>1. n <= ob.pool[i].lots
    BY <1>1, <1>2
  <2>2. /\ CutEffect(ob, v, i, n) /\ SameLevels(ob, v) /\ OneTotalCut(ob, v, side, 1, n)
        /\ n # ob.pool[i].lots => u = v /\ Sound(u, L)
        /\ n = ob.pool[i].lots =>
             \E M : /\ Sound(u, M) /\ RemoveEffect(ob, L, u, M, id, i, side, price, 1)
                    /\ LevelsAfter(v, u, side, price, 1, 0)
    BY <1>1, <1>2, <1>3, <2>1, TradedSound
  <2>3. QED BY <1>1, <2>2
<1>5. PICK c : /\ FrontHeld(ob, L, side, price, i, id, c) /\ count = Len(c)
  BY <1>1, <1>2, FrontPlaced DEF Sound
<1>6. PICK d : d = cursor'
  OBVIOUS
<1>7. /\ d \in CursorsOf(cursor.promised) /\ d.promised = cursor.promised
      /\ d.side = cursor.side /\ d.remaining = cursor.remaining - n
      /\ d.node = (IF n = lots /\ count = 1 THEN NIL ELSE next)
      /\ d.level = (IF ~(n = lots /\ count = 1) /\ next = NIL
                    THEN cursor.level + 1 ELSE cursor.level)
  <2>1. d = Continued(cursor, ob, side, price, i, id, n)
    BY <1>6 DEF TradeIs
  <2>2. cursor \in CursorsOf(cursor.promised) /\ ob.pool[i].next \in LinkValues
    BY <1>1, <1>2 DEF CursorSound
  <2>3. n <= cursor.remaining /\ price \in Prices /\ id \in OrderIds /\ n \in Lots
    BY <1>2
  <2>4. ContinuedIs(cursor, d, ob, side, price, i, id, n)
    BY <2>1, <2>2, <2>3, ContinuedFacts
  <2>5. QED BY <1>1, <2>4 DEF ContinuedIs
<1>8. d \in CursorsOf(d.promised)
  BY <1>7
<1>9. CASE n # lots
  <2>1. ~(d.remaining > 0)
    BY <1>2, <1>7, <1>9
  <2>2. CursorSound(u, d)
    BY <1>8, <2>1 DEF CursorSound
  <2>3. TradeEffect(ob, L, u, L, side, price, i, id, n)
    BY <1>1, <1>4, <1>9 DEF TradeEffect
  <2>4. Sound(u, L)
    BY <1>4, <1>9
  <2>5. QED BY <1>1, <1>6, <2>2, <2>3, <2>4
<1>10. CASE n = lots
  <2>1. PICK M : /\ Sound(u, M) /\ RemoveEffect(ob, L, u, M, id, i, side, price, 1)
                 /\ LevelsAfter(v, u, side, price, 1, 0)
    BY <1>4, <1>10
  <2>2. TradeEffect(ob, L, u, M, side, price, i, id, n)
    BY <1>1, <1>10, <2>1 DEF TradeEffect
  <2>3. cursor.level = 1
    BY <1>2, Constants DEF CursorSound, OnFront
  <2>4. CASE count = 1
    <3>1. d.level = 1 /\ d.node = NIL
      BY <1>7, <1>10, <2>3, <2>4
    <3>2. CursorSound(u, d)
      BY <1>8, <3>1 DEF CursorSound, OnFront
    <3>3. QED BY <1>1, <1>6, <2>1, <2>2, <3>2
  <2>5. CASE count # 1
    <3>1. /\ c \in Seq(Nodes) /\ Len(c) \in Nat /\ Len(c) > 1 /\ c[1] = i /\ c = L[side][price]
          /\ price \in Prices
      <4>1. Len(c) \in Nat /\ Len(c) > 0
        BY <1>5 DEF FrontHeld
      <4>2. PICK m \in Nat : m = Len(c)
        BY <4>1
      <4>3. m > 0 /\ m # 1
        BY <1>5, <2>5, <4>1, <4>2
      <4>4. m > 1
        BY <4>3
      <4>5. QED BY <1>5, <4>2, <4>4 DEF FrontHeld
    <3>2. Linked(ob.pool, c) /\ Distinct(c)
      <4>1. Base(ob, L)
        BY DEF Sound
      <4>2. Held(ob.pool, ob.used, ob.lookup, side, price, c)
        BY <1>2, <3>1, <4>1, BaseHeld
      <4>3. QED BY <4>2 DEF Held
    <3>3. next = c[2] /\ next # NIL
      <4>1. Len(c) \in Nat /\ Len(c) > 1
        BY <3>1
      <4>2. 1 \in 1 .. Len(c) /\ 1 # Len(c) /\ 2 \in 1 .. Len(c)
        BY <4>1
      <4>3. ob.pool[c[1]].next = c[2]
        BY <3>2, <4>2 DEF Linked
      <4>4. c[2] \in Nodes
        BY <3>1, <4>2
      <4>5. QED BY <1>1, <3>1, <4>3, <4>4, NodesFinite
    <3>4. d.level = 1 /\ d.node = next
      BY <1>7, <2>3, <2>5, <3>3
    <3>5. /\ 1 \in 1 .. Len(u.levels[side]) /\ u.levels[side][1].price = price
          /\ Len(u.levels[side]) > 0
      <4>1. v.levels[side][1].count # 1 /\ Len(v.levels[side]) = Len(ob.levels[side])
        BY <1>1, <1>2, <1>4, <2>5, Zenon DEF SameLevels, FrontIs
      <4>2. Len(u.levels[side]) = Len(ob.levels[side]) /\ u.levels[side][1].price = price
        BY <2>1, <4>1 DEF LevelsAfter
      <4>3. 1 \in 1 .. Len(ob.levels[side])
        BY <1>2, Zenon DEF FrontIs
      <4>4. QED BY <1>2, <4>2, <4>3, BaseLevels DEF Sound
    <3>6. u.levels[side][1].head = next
      <4>1. PICK ls, level, e : ls = u.levels[side] /\ level = ls[1] /\ e = M[side][price]
        OBVIOUS
      <4>2. level.head = FirstOf(e)
        <5>1. e = M[side][level.price] /\ 1 \in 1 .. Len(ls)
          BY <3>5, <4>1
        <5>2. QED BY <1>2, <2>1, <4>1, <5>1, LevelAt DEF Sound
      <4>3. PICK r : r = RemoveAt(c, 1)
        OBVIOUS
      <4>4. Len(r) = Len(c) - 1 /\ r[1] = c[2] /\ r \in Seq(Nodes)
        <5>1. /\ RemoveAt(c, 1) \in Seq(Nodes) /\ Len(RemoveAt(c, 1)) = Len(c) - 1
              /\ \A j \in 1 .. Len(c) - 1 : RemoveAt(c, 1)[j] = IF j < 1 THEN c[j] ELSE c[j + 1]
          BY <3>1, <3>2, RemoveFacts
        <5>2. QED BY <3>1, <4>3, <5>1
      <4>5. e = r
        <5>1. M = WithList(L, side, price, r)
          BY <2>1, <3>1, <4>3 DEF RemoveEffect
        <5>2. L \in Lists
          BY DEF Sound, Base
        <5>3. ListReplaced(L, M, side, price, r)
          BY <1>2, <4>4, <5>1, <5>2, WithListFacts
        <5>4. QED BY <4>1, <5>3 DEF ListReplaced
      <4>6. Len(e) # 0
        BY <3>1, <4>4, <4>5
      <4>7. QED BY <3>3, <4>1, <4>2, <4>4, <4>5, <4>6 DEF FirstOf
    <3>7. OnFront(u, d)
      BY <1>3, <1>7, <3>4, <3>5, <3>6 DEF OnFront
    <3>8. CursorSound(u, d)
      BY <1>8, <3>7 DEF CursorSound
    <3>9. QED BY <1>1, <1>6, <2>1, <2>2, <3>8
  <2>6. QED BY <2>4, <2>5
<1>11. QED BY <1>9, <1>10

\* The cursor with which a match begins.
LEMMA BeginFacts ==
    ASSUME NEW id \in OrderIds, NEW side \in Sides, NEW type \in OrderTypes, NEW price \in Prices,
           NEW lots \in Lots, NEW rest \in BOOLEAN, MatchBegin(id, side, type, price, lots, rest)
    PROVE  LET t == [id |-> id, side |-> side, type |-> type, price |-> price,
                     remaining |-> lots, rest |-> rest, trades |-> <<>>]
           IN  cursor' = [id |-> id, side |-> side, type |-> type, price |-> price,
                          remaining |-> lots, rest |-> rest, trades |-> <<>>,
                          level |-> 1, node |-> NIL, quantity |-> lots,
                          promised |-> ExecutableLots(ob, t, lots)]
BY DEF MatchBegin

LEMMA BeginShape ==
    ASSUME NEW id \in OrderIds, NEW side \in Sides, NEW type \in OrderTypes, NEW price \in Prices,
           NEW lots \in Lots, NEW rest \in BOOLEAN, NEW x, NEW c,
           c = [id |-> id, side |-> side, type |-> type, price |-> price,
                remaining |-> lots, rest |-> rest, trades |-> <<>>,
                level |-> 1, node |-> NIL, quantity |-> lots, promised |-> x]
    PROVE  /\ c \in CursorsOf(x) /\ c.promised = x
           /\ c.level = 1 /\ c.node = NIL
           /\ c.remaining = lots /\ c.quantity = lots
<1>1. lots \in 0 .. MaxLots /\ NIL \in LinkValues /\ <<>> \in Seq(Trades)
  BY Constants DEF Lots, LinkValues
<1>2. c \in CursorsOf(x)
  BY <1>1 DEF CursorsOf
<1>3. QED BY <1>2

\* A match begins at the best level of the other side.
LEMMA BeginSound ==
    ASSUME NEW id \in OrderIds, NEW side \in Sides, NEW type \in OrderTypes, NEW price \in Prices,
           NEW lots \in Lots, NEW rest \in BOOLEAN, MatchBegin(id, side, type, price, lots, rest)
    PROVE  ob' = ob /\ CursorSound(ob', cursor')
<1>1. PICK t, x : /\ t = [id |-> id, side |-> side, type |-> type, price |-> price,
                          remaining |-> lots, rest |-> rest, trades |-> <<>>]
                  /\ x = ExecutableLots(ob, t, lots)
  OBVIOUS
<1>2. PICK c : c = [id |-> id, side |-> side, type |-> type, price |-> price,
                    remaining |-> lots, rest |-> rest, trades |-> <<>>,
                    level |-> 1, node |-> NIL, quantity |-> lots, promised |-> x]
  OBVIOUS
<1>3. cursor' = c
  BY <1>1, <1>2, BeginFacts
<1>4. c \in CursorsOf(x) /\ c.promised = x /\ c.level = 1 /\ c.node = NIL
  BY <1>2, BeginShape
<1>5. CursorSound(ob', c)
  BY <1>4 DEF CursorSound, OnFront
<1>6. QED BY <1>3, <1>5 DEF MatchBegin

LEMMA ResidualFacts ==
    ASSUME NEW s, CursorSound(s, cursor), cursor.remaining > 0
    PROVE  cursor.id \in OrderIds /\ Residual(cursor) \in Orders
<1>1. PICK c : c = cursor
  OBVIOUS
<1>2. /\ c.id \in OrderIds /\ c.side \in Sides /\ c.price \in Prices /\ c.remaining \in 0 .. MaxLots
      /\ c.remaining > 0
  BY <1>1 DEF CursorSound, CursorsOf
<1>3. c.remaining \in Lots
  BY <1>2, Constants DEF Lots
<1>4. [side |-> c.side, price |-> c.price, lots |-> c.remaining] \in Orders
  BY <1>2, <1>3 DEF Orders
<1>5. QED BY <1>1, <1>2, <1>4 DEF Residual

\* The end of a match adds the residual, or leaves the structure as it is.
LEMMA EndSound ==
    ASSUME NEW L, Sound(ob, L), CursorSound(ob, cursor), MatchEnd
    PROVE  /\ cursor' = NoTaker
           /\ \E M : Sound(ob', M)
<1>1. cursor' = NoTaker
  BY DEF MatchEnd
<1>2. CASE /\ cursor.rest /\ cursor.remaining > 0 /\ cursor.type = "LIMIT"
           /\ CanAdd(ob, cursor.id, Residual(cursor))
  <2>1. PICK o, id : o = Residual(cursor) /\ id = cursor.id
    OBVIOUS
  <2>2. o \in Orders /\ id \in OrderIds /\ CanAdd(ob, id, o)
    BY <1>2, <2>1, ResidualFacts
  <2>3. ob' = Added(ob, id, o)
    BY <1>2, <2>1 DEF MatchEnd
  <2>4. \E M, i : Sound(ob', M) /\ AddEffect(ob, L, ob', M, id, o, i)
    BY <2>2, <2>3, AddedSound
  <2>5. QED BY <1>1, <2>4
<1>3. CASE ~ /\ cursor.rest /\ cursor.remaining > 0 /\ cursor.type = "LIMIT"
             /\ CanAdd(ob, cursor.id, Residual(cursor))
  <2>1. ob' = ob
    BY <1>3 DEF MatchEnd
  <2>2. QED BY <1>1, <2>1
<1>4. QED BY <1>2, <1>3

\* Every step keeps the invariant.
LEMMA NextInv == Inv /\ [Next]_vars => Inv'
<1> SUFFICES ASSUME Inv, [Next]_vars PROVE Inv'
  OBVIOUS
<1>1. PICK L : Sound(ob, L)
  BY DEF Inv
<1>2. cursor # NoTaker => CursorSound(ob, cursor)
  BY DEF Inv
<1>3. ASSUME NEW id \in OrderIds, NEW o \in Orders, AddOrder(id, o) PROVE Inv'
  <2>1. \E M, i : Sound(ob', M) /\ AddEffect(ob, L, ob', M, id, o, i)
    BY <1>1, <1>3, AddedSound DEF AddOrder
  <2>2. QED BY <1>3, <2>1 DEF AddOrder, Inv
<1>4. ASSUME NEW id \in OrderIds, NEW o \in Orders, ModifyOrder(id, o) PROVE Inv'
  <2>1. \E M : Sound(ob', M)
    BY <1>1, <1>4, ModifiedSound DEF ModifyOrder
  <2>2. QED BY <1>4, <2>1 DEF ModifyOrder, Inv
<1>5. ASSUME NEW id \in OrderIds, CancelOrder(id) PROVE Inv'
  <2>1. \E M : Sound(ob', M)
    BY <1>1, <1>5, CanceledSound DEF CancelOrder
  <2>2. QED BY <1>5, <2>1 DEF CancelOrder, Inv
<1>6. ASSUME NEW id \in OrderIds, NEW n \in Lots, CancelOrderPartial(id, n) PROVE Inv'
  <2>1. \E M : Sound(ob', M)
    <3>1. ob.lookup[id] # NoOrder /\ ob' = Reduced(ob, id, n)
      BY <1>6 DEF CancelOrderPartial
    <3>2. PICK loc, u : loc = ob.lookup[id] /\ u = ob'
      OBVIOUS
    <3>3. IF n >= ob.pool[loc.node].lots THEN u = Canceled(ob, id)
          ELSE Sound(u, L) /\ CutEffect(ob, u, loc.node, n)
      BY <1>1, <3>1, <3>2, ReducedSound
    <3>4. CASE n >= ob.pool[loc.node].lots
      BY <1>1, <3>1, <3>2, <3>3, <3>4, CanceledSound
    <3>5. CASE ~(n >= ob.pool[loc.node].lots)
      BY <3>2, <3>3, <3>5
    <3>6. QED BY <3>4, <3>5
  <2>2. QED BY <1>6, <2>1 DEF CancelOrderPartial, Inv
<1>7. ASSUME NEW id \in OrderIds, NEW side \in Sides, NEW type \in OrderTypes, NEW price \in Prices,
             NEW lots \in Lots, NEW rest \in BOOLEAN,
             MatchBegin(id, side, type, price, lots, rest)
      PROVE  Inv'
  <2>1. ob' = ob /\ CursorSound(ob', cursor')
    BY <1>7, BeginSound
  <2>2. QED BY <1>1, <2>1 DEF Inv
<1>8. ASSUME MatchTrade PROVE Inv'
  <2>1. CursorSound(ob, cursor)
    BY <1>2, <1>8, Zenon DEF MatchTrade
  <2>2. PICK side, price, i, id, n : TradeIs(side, price, i, id, n)
    BY <1>1, <1>8, <2>1, TradeHappens
  <2>3. PICK M : Sound(ob', M) /\ CursorSound(ob', cursor')
    BY <1>1, <2>1, <2>2, TradeSound
  <2>4. QED BY <2>3 DEF Inv
<1>9. ASSUME MatchEnd PROVE Inv'
  <2>1. CursorSound(ob, cursor)
    BY <1>2, <1>9 DEF MatchEnd
  <2>2. cursor' = NoTaker /\ \E M : Sound(ob', M)
    BY <1>1, <1>9, <2>1, EndSound
  <2>3. QED BY <2>2 DEF Inv
<1>10. ASSUME UNCHANGED vars PROVE Inv'
  BY <1>10 DEF Inv, vars
<1>11. QED BY <1>3, <1>4, <1>5, <1>6, <1>7, <1>8, <1>9, <1>10 DEF Next

-----------------------------------------------------------------------------
(* What the walks of the invariants find: the chain of a level is its list *)

\* g follows the links of a level from its head.
Follows(s, level, g) ==
    g = [k \in 1 .. level.count |->
           IF k = 1 THEN level.head ELSE s.pool[g[k - 1]].next]

Walk(s, level) == CHOOSE g : Follows(s, level, g)

\* Chain of the invariants is a walk.
LEMMA ChainFollows ==
    ASSUME NEW s, NEW level
    PROVE  Chain(s, level) = [k \in 1 .. level.count |-> Walk(s, level)[k]]
BY DEF Chain, Walk, Follows

\* There is one walk from the head of a level.
LEMMA FollowsOnce ==
    ASSUME NEW s, NEW level, level.count \in Nat, NEW g, NEW h,
           Follows(s, level, g), Follows(s, level, h)
    PROVE  g = h
<1>1. PICK n : n = level.count
  OBVIOUS
<1>2. /\ \A k \in 1 .. n : g[k] = IF k = 1 THEN level.head ELSE s.pool[g[k - 1]].next
      /\ \A k \in 1 .. n : h[k] = IF k = 1 THEN level.head ELSE s.pool[h[k - 1]].next
      /\ g = [k \in 1 .. n |-> g[k]] /\ h = [k \in 1 .. n |-> h[k]]
  BY <1>1, Zenon DEF Follows
<1>3. PICK C : C = {k \in 1 .. n : g[k] # h[k]}
  OBVIOUS
<1>4. CASE C = {}
  <2>1. \A k \in 1 .. n : g[k] = h[k]
    BY <1>3, <1>4
  <2>2. [k \in 1 .. n |-> g[k]] = [k \in 1 .. n |-> h[k]]
    BY <2>1
  <2>3. QED BY <1>2, <2>2, Zenon
<1>5. CASE C # {}
  <2>1. C \subseteq Nat
    BY <1>3
  <2>2. PICK m \in C : \A k \in C : m <= k
    BY <1>5, <2>1, Least
  <2>3. m \in 1 .. n /\ g[m] # h[m] /\ m \in Nat
    BY <1>3, <2>1
  <2>4. m # 1
    BY <1>2, <2>3
  <2>5. m - 1 \in 1 .. n /\ ~(m <= m - 1)
    BY <1>1, <2>3, <2>4
  <2>6. g[m - 1] = h[m - 1]
    BY <1>3, <2>2, <2>5
  <2>7. g[m] = h[m]
    BY <1>2, <2>3, <2>4, <2>6
  <2>8. QED BY <2>3, <2>7
<1>6. QED BY <1>4, <1>5

\* The walk from the head of a level runs through its list.
LEMMA FollowsList ==
    ASSUME NEW s, NEW level, NEW c \in Seq(Nodes), Linked(s.pool, c), level.count = Len(c),
           level.head = FirstOf(c)
    PROVE  Chain(s, level) = c
<1>1. PICK n \in Nat : n = Len(c)
  BY SeqRange
<1>2. DOMAIN c = 1 .. n /\ c = [k \in 1 .. n |-> c[k]]
  <2>1. DOMAIN c = 1 .. n
    BY <1>1, SeqRange
  <2>2. c = [k \in DOMAIN c |-> c[k]]
    OBVIOUS
  <2>3. QED BY <2>1, <2>2
<1>3. ASSUME NEW k \in 1 .. n
      PROVE  c[k] = IF k = 1 THEN level.head ELSE s.pool[c[k - 1]].next
  <2>1. CASE k = 1
    BY <1>1, <2>1 DEF FirstOf
  <2>2. CASE k # 1
    <3>1. k - 1 \in 1 .. Len(c) /\ k - 1 # Len(c) /\ (k - 1) + 1 = k
      BY <1>1, <2>2
    <3>2. s.pool[c[k - 1]].next = c[(k - 1) + 1]
      BY <3>1 DEF Linked
    <3>3. QED BY <2>2, <3>1, <3>2
  <2>3. QED BY <2>1, <2>2
<1>4. level.count = n
  BY <1>1
<1>5. Follows(s, level, c)
  BY <1>2, <1>3, <1>4, Zenon DEF Follows
<1>6. PICK g : g = Walk(s, level)
  OBVIOUS
<1>7. Follows(s, level, g)
  BY <1>5, <1>6, Zenon DEF Walk
<1>8. g = c
  <2>1. level.count \in Nat
    BY <1>4
  <2>2. QED BY <2>1, <1>5, <1>7, FollowsOnce, Zenon
<1>9. Chain(s, level) = [k \in 1 .. level.count |-> g[k]]
  BY <1>6, ChainFollows, Zenon
<1>10. QED BY <1>2, <1>4, <1>8, <1>9, Zenon

\* The nodes that the links of a level lead to are those of its list.
LEMMA ChainIs ==
    ASSUME NEW s, NEW L, Base(s, L), NEW side \in Sides, NEW ls, ls = s.levels[side],
           NEW at \in 1 .. Len(ls), NEW level, level = ls[at],
           NEW c, c = L[side][level.price]
    PROVE  Chain(s, level) = c
<1>1. level.price \in Prices
  BY LevelAt
<1>2. c \in Seq(Nodes)
  BY LevelAt
<1>3. level.count = Len(c) /\ level.head = FirstOf(c)
  BY LevelAt
<1>4. Linked(s.pool, c)
  BY <1>1, BaseLists
<1>5. QED BY <1>2, <1>3, <1>4, FollowsList

\* x is the list of a level.
ListOfLevel(s, L, side, at, x) ==
    /\ side \in Sides /\ at \in 1 .. Len(s.levels[side])
    /\ s.levels[side][at].price \in Prices
    /\ x = L[side][s.levels[side][at].price]

LEMMA AllLevelsAre ==
    ASSUME NEW s, NEW L, Base(s, L), NEW level
    PROVE  level \in AllLevels(s) <=>
             \E side \in Sides : \E at \in 1 .. Len(s.levels[side]) : level = s.levels[side][at]
<1>1. ASSUME NEW side \in Sides
      PROVE  level \in Range(s.levels[side]) <=>
               \E at \in 1 .. Len(s.levels[side]) : level = s.levels[side][at]
  <2>1. PICK ls : ls = s.levels[side]
    OBVIOUS
  <2>2. ls \in Seq(LevelRecords)
    BY <2>1, BaseLevels
  <2>3. Range(ls) = {ls[k] : k \in 1 .. Len(ls)}
    BY <2>2, RangeEquality
  <2>4. level \in Range(ls) <=> \E at \in 1 .. Len(ls) : level = ls[at]
    BY <2>3
  <2>5. QED BY <2>1, <2>4
<1>2. level \in AllLevels(s) <=> \E side \in Sides : level \in Range(s.levels[side])
  BY DEF AllLevels
<1>3. QED BY <1>1, <1>2

\* The chains of the invariants are the lists of the levels.
LEMMA ChainsAre ==
    ASSUME NEW s, NEW L, Base(s, L), NEW x
    PROVE  x \in ChainsOf(s) <=> \E side, at : ListOfLevel(s, L, side, at, x)
<1>1. x \in ChainsOf(s) <=>
        \E side \in Sides : \E at \in 1 .. Len(s.levels[side]) : x = Chain(s, s.levels[side][at])
  <2>1. x \in ChainsOf(s) <=> \E level \in AllLevels(s) : x = Chain(s, level)
    BY DEF ChainsOf
  <2>2. QED BY <2>1, AllLevelsAre
<1>2. ASSUME NEW side \in Sides, NEW at \in 1 .. Len(s.levels[side])
      PROVE  /\ s.levels[side][at].price \in Prices
             /\ Chain(s, s.levels[side][at]) = L[side][s.levels[side][at].price]
  <2>1. PICK ls, level : ls = s.levels[side] /\ level = ls[at]
    OBVIOUS
  <2>2. PICK c : c = L[side][level.price]
    OBVIOUS
  <2>3. level.price \in Prices
    BY <2>1, <2>2, LevelAt
  <2>4. Chain(s, level) = c
    BY <2>1, <2>2, ChainIs
  <2>5. QED BY <2>1, <2>2, <2>3, <2>4
<1>3. QED BY <1>1, <1>2 DEF ListOfLevel

-----------------------------------------------------------------------------
(* The running total of a level is the sum of its list                     *)

\* g has the sum of the lots of c over each set of its indices, the last taken first.
Folds(pool, c, S, g) ==
    g = [s \in SUBSET S |-> IF s = {} THEN 0 ELSE g[s \ {Max(s)}] + pool[c[Max(s)]].lots]

LEMMA FoldLeftFolds ==
    ASSUME NEW pool, NEW c
    PROVE  FoldLeft(LAMBDA acc, i : acc + pool[i].lots, 0, c) =
             (CHOOSE g : Folds(pool, c, DOMAIN c, g))[DOMAIN c]
BY DEF FoldLeft, MapThenFoldSet, Folds

LEMMA MaxIs ==
    ASSUME NEW n \in Nat, NEW t, t \subseteq 1 .. n, t # {}
    PROVE  Max(t) \in t
<1>1. \E x \in t : \A y \in t : x >= y
  <2>1. PICK S : S = {n - k : k \in t}
    OBVIOUS
  <2>2. S \subseteq Nat /\ S # {}
    <3>1. \A k \in t : n - k \in Nat
      OBVIOUS
    <3>2. QED BY <2>1, <3>1
  <2>3. PICK m \in S : \A k \in S : m <= k
    BY <2>2, Least
  <2>4. PICK x \in t : m = n - x
    BY <2>1
  <2>5. ASSUME NEW y \in t PROVE x >= y
    <3>1. n - y \in S
      BY <2>1
    <3>2. m <= n - y
      BY <2>3, <3>1
    <3>3. QED BY <2>4, <3>2
  <2>6. QED BY <2>5
<1>2. QED BY <1>1 DEF Max

LEMMA FoldsOnce ==
    ASSUME NEW pool, NEW c, NEW n \in Nat, NEW g, NEW h,
           Folds(pool, c, 1 .. n, g), Folds(pool, c, 1 .. n, h)
    PROVE  g = h
<1>1. PICK S : S = 1 .. n
  OBVIOUS
<1>2. /\ \A s \in SUBSET S : g[s] = IF s = {} THEN 0 ELSE g[s \ {Max(s)}] + pool[c[Max(s)]].lots
      /\ \A s \in SUBSET S : h[s] = IF s = {} THEN 0 ELSE h[s \ {Max(s)}] + pool[c[Max(s)]].lots
      /\ g = [s \in SUBSET S |-> g[s]] /\ h = [s \in SUBSET S |-> h[s]]
  BY <1>1, Zenon DEF Folds
<1>3. PICK C : C = {s \in SUBSET S : g[s] # h[s]}
  OBVIOUS
<1>4. CASE C = {}
  BY <1>2, <1>3, <1>4, Zenon
<1>5. CASE C # {}
  <2>1. C \subseteq SUBSET S
    BY <1>3
  <2>2. IsFiniteSet(S)
    BY <1>1, FS_Interval
  <2>3. PICK t \in C : \A u \in C : u \subseteq t => u = t
    BY <1>5, <2>1, <2>2, Smallest
  <2>4. t \in SUBSET S /\ g[t] # h[t]
    BY <1>3
  <2>5. t # {}
    BY <1>2, <2>4
  <2>6. PICK m : m = Max(t)
    OBVIOUS
  <2>7. m \in t
    BY <1>1, <2>4, <2>5, <2>6, MaxIs
  <2>8. t \ {m} \notin C /\ t \ {m} \in SUBSET S
    BY <2>3, <2>4, <2>7
  <2>9. g[t \ {m}] = h[t \ {m}]
    BY <1>3, <2>8
  <2>10. QED BY <1>2, <2>4, <2>5, <2>6, <2>9
<1>6. QED BY <1>4, <1>5

\* The lots that the invariants add up along a chain are a total.
LEMMA FoldIsTotal ==
    ASSUME NEW pool \in Pools, NEW c \in Seq(Nodes), Distinct(c)
    PROVE  FoldLeft(LAMBDA acc, i : acc + pool[i].lots, 0, c) = Total(pool, c)
<1>1. PICK n \in Nat : n = Len(c)
  BY SeqRange
<1>2. DOMAIN c = 1 .. n /\ \A k \in 1 .. n : c[k] \in Nodes
  BY <1>1, SeqRange
<1> DEFINE at(s) == {c[k] : k \in s}
           h == [s \in SUBSET (1 .. n) |-> Sum(LotsOf(pool), at(s))]
<1>3. ASSUME NEW s \in SUBSET (1 .. n)
      PROVE  h[s] = IF s = {} THEN 0 ELSE h[s \ {Max(s)}] + pool[c[Max(s)]].lots
  <2>1. CASE s = {}
    <3>1. at(s) = {}
      BY <2>1
    <3>2. h[s] = Sum(LotsOf(pool), {})
      BY <3>1
    <3> HIDE DEF h, at
    <3>3. QED BY <2>1, <3>2, TotalEmpty
  <2>2. CASE s # {}
    <3>1. PICK m : m = Max(s)
      OBVIOUS
    <3>2. m \in s
      BY <2>2, <3>1, MaxIs
    <3>3. c[m] \in at(s) /\ at(s) \subseteq Nodes
      BY <1>2, <3>2
    <3>4. at(s \ {m}) = at(s) \ {c[m]}
      BY <1>1, <3>2 DEF Distinct
    <3>5. h[s] = Sum(LotsOf(pool), at(s)) /\ h[s \ {m}] = Sum(LotsOf(pool), at(s \ {m}))
      OBVIOUS
    <3> HIDE DEF h, at
    <3>6. Sum(LotsOf(pool), at(s) \ {c[m]}) = Sum(LotsOf(pool), at(s)) - pool[c[m]].lots
      BY <3>3, TotalWithout
    <3>7. Sum(LotsOf(pool), at(s)) \in Int /\ pool[c[m]].lots \in Int
      BY <3>3, TotalType, PoolFacts
    <3>8. PICK a, b, d : a = Sum(LotsOf(pool), at(s)) /\ b = pool[c[m]].lots /\ d = h[s \ {m}]
      OBVIOUS
    <3>9. a \in Int /\ b \in Int /\ d = a - b
      BY <3>4, <3>5, <3>6, <3>7, <3>8
    <3>10. h[s] = d + b
      BY <3>5, <3>8, <3>9
    <3>11. QED BY <2>2, <3>1, <3>8, <3>10
  <2>3. QED BY <2>1, <2>2
<1>4. h = [s \in SUBSET (1 .. n) |-> h[s]]
  OBVIOUS
<1>5. at(1 .. n) = Range(c)
  BY <1>1, RangeEquality
<1>6. h[1 .. n] = Sum(LotsOf(pool), at(1 .. n))
  OBVIOUS
<1> HIDE DEF h, at
<1>7. Folds(pool, c, 1 .. n, h)
  BY <1>3, <1>4, Zenon DEF Folds
<1>8. PICK g : g = CHOOSE x : Folds(pool, c, DOMAIN c, x)
  OBVIOUS
<1>9. Folds(pool, c, 1 .. n, g)
  BY <1>2, <1>7, <1>8
<1>10. g = h
  BY <1>7, <1>9, FoldsOnce
<1>11. FoldLeft(LAMBDA acc, i : acc + pool[i].lots, 0, c) = g[DOMAIN c]
  BY <1>8, FoldLeftFolds
<1>12. QED BY <1>2, <1>5, <1>6, <1>10, <1>11 DEF Total

-----------------------------------------------------------------------------
(* The structure is sound                                                  *)

LEMMA ListOfLevelFacts ==
    ASSUME NEW s, NEW L, Sound(s, L), NEW side, NEW at, NEW c, ListOfLevel(s, L, side, at, c),
           NEW level, level = s.levels[side][at]
    PROVE  /\ side \in Sides /\ level.price \in Prices /\ at \in 1 .. Len(s.levels[side])
           /\ c = L[side][level.price]
           /\ c \in Seq(Nodes) /\ Len(c) \in Nat /\ Len(c) > 0 /\ DOMAIN c = 1 .. Len(c)
           /\ Distinct(c) /\ Linked(s.pool, c) /\ Range(c) \subseteq s.used
           /\ LevelIs(s.pool, level, c) /\ level.count > 0
           /\ Chain(s, level) = c
<1>1. /\ side \in Sides /\ level.price \in Prices /\ at \in 1 .. Len(s.levels[side])
      /\ c = L[side][level.price]
  BY DEF ListOfLevel
<1>2. Base(s, L)
  BY DEF Sound
<1>3. PICK ls : ls = s.levels[side]
  OBVIOUS
<1>4. at \in 1 .. Len(ls) /\ level = ls[at]
  BY <1>1, <1>3
<1>5. LevelIs(s.pool, level, c)
  BY <1>1, <1>2, <1>3, <1>4, LevelAt
<1>6. c \in Seq(Nodes) /\ Len(c) \in Nat
  BY <1>1, <1>2, <1>3, <1>4, LevelAt
<1>7. Chain(s, level) = c
  BY <1>1, <1>2, <1>3, <1>4, ChainIs
<1>8. Distinct(c) /\ Linked(s.pool, c) /\ Range(c) \subseteq s.used
  BY <1>1, <1>2, BaseLists, Zenon
<1>9. level.count > 0
  BY <1>1 DEF Sound, NoEmptyLevel
<1>10. Len(c) > 0
  BY <1>5, <1>9 DEF LevelIs
<1>11. DOMAIN c = 1 .. Len(c)
  BY <1>6, SeqRange
<1>12. QED BY <1>1, <1>5, <1>6, <1>7, <1>8, <1>9, <1>10, <1>11, Zenon

\* A node in use is in the list of a level.
LEMMA UsedIsListed ==
    ASSUME NEW s, NEW L, Base(s, L), NEW i \in s.used
    PROVE  \E side, at, c : ListOfLevel(s, L, side, at, c) /\ i \in Range(c)
<1>1. PICK id : id = s.pool[i].id
  OBVIOUS
<1>2. id \in OrderIds /\ s.lookup[id] # NoOrder /\ s.lookup[id].node = i
  BY <1>1 DEF Base, UsedOwned
<1>3. PICK loc : loc = s.lookup[id]
  OBVIOUS
<1>4. PICK at, c, k : DropPlace(s, L, id, loc.side, loc.price, loc.node, at, c, k)
  BY <1>2, <1>3, OrderFound
<1>5. loc.side \in Sides /\ loc.price \in Prices
  BY <1>2, <1>3, OrderPlace
<1>6. /\ at \in 1 .. Len(s.levels[loc.side]) /\ s.levels[loc.side][at].price = loc.price
      /\ c = L[loc.side][loc.price] /\ k \in 1 .. Len(c) /\ c[k] = i
  BY <1>2, <1>3, <1>4 DEF DropPlace
<1>7. ListOfLevel(s, L, loc.side, at, c)
  BY <1>5, <1>6 DEF ListOfLevel
<1>8. c \in Seq(Nodes)
  BY <1>5, <1>6, BaseLists
<1>9. i \in Range(c)
  BY <1>6, <1>8, SeqRange
<1>10. QED BY <1>7, <1>9

\* No node is lost, and none is in two places.
LEMMA SoundPool == ASSUME NEW L, Sound(ob, L) PROVE PoolPartition
<1>1. Base(ob, L)
  BY DEF Sound
<1>2. ASSUME NEW c \in ChainsOf(ob) PROVE Range(c) \subseteq ob.used /\ IsInjective(c)
  <2>1. PICK side, at : ListOfLevel(ob, L, side, at, c)
    BY <1>1, <1>2, ChainsAre
  <2>2. c \in Seq(Nodes) /\ Distinct(c) /\ Range(c) \subseteq ob.used
    BY <2>1, ListOfLevelFacts
  <2>3. QED BY <2>2, InjectiveIsDistinct
<1>3. ASSUME NEW c \in ChainsOf(ob), NEW d \in ChainsOf(ob), c # d
      PROVE  Range(c) \cap Range(d) = {}
  <2>1. PICK side, at : ListOfLevel(ob, L, side, at, c)
    BY <1>1, ChainsAre
  <2>2. PICK other, to : ListOfLevel(ob, L, other, to, d)
    BY <1>1, ChainsAre
  <2>3. PICK p, q : p = ob.levels[side][at].price /\ q = ob.levels[other][to].price
    OBVIOUS
  <2>4. /\ side \in Sides /\ p \in Prices /\ c = L[side][p]
        /\ other \in Sides /\ q \in Prices /\ d = L[other][q]
    BY <2>1, <2>2, <2>3 DEF ListOfLevel
  <2>5. side # other \/ p # q
    BY <1>3, <2>4
  <2>6. c \in Seq(Nodes) /\ d \in Seq(Nodes)
    BY <1>1, <2>4, BaseLists
  <2>7. \A j \in 1 .. Len(c), k \in 1 .. Len(d) : c[j] # d[k]
    BY <1>1, <2>4, <2>5, ListsApart
  <2>8. /\ \A i : i \in Range(c) <=> \E j \in 1 .. Len(c) : c[j] = i
        /\ \A i : i \in Range(d) <=> \E k \in 1 .. Len(d) : d[k] = i
    BY <2>6, SeqRange
  <2>9. QED BY <2>7, <2>8
<1>4. ob.used = UNION {Range(c) : c \in ChainsOf(ob)}
  <2>1. ASSUME NEW i \in ob.used PROVE \E c \in ChainsOf(ob) : i \in Range(c)
    <3>1. PICK side, at, c : ListOfLevel(ob, L, side, at, c) /\ i \in Range(c)
      BY <1>1, UsedIsListed
    <3>2. c \in ChainsOf(ob)
      BY <1>1, <3>1, ChainsAre
    <3>3. QED BY <3>1, <3>2
  <2>2. QED BY <1>2, <2>1
<1>5. Range(ob.free) = Nodes \ ob.used /\ IsInjective(ob.free)
  BY <1>1 DEF Base, FreeSound
<1>6. QED BY <1>2, <1>3, <1>4, <1>5 DEF PoolPartition

\* The records of a level agree with its chain.
LEMMA SoundLevels == ASSUME NEW L, Sound(ob, L) PROVE LevelsConsistent
<1>1. Base(ob, L) /\ ob.pool \in Pools
  BY BaseFree DEF Sound
<1>2. SUFFICES ASSUME NEW level \in AllLevels(ob), NEW c, c = Chain(ob, level)
               PROVE  /\ level.count > 0
                      /\ level.head = Head(c) /\ level.tail = Last(c)
                      /\ \A k \in DOMAIN c :
                           /\ ob.pool[c[k]].prev = IF k = 1 THEN NIL ELSE c[k - 1]
                           /\ ob.pool[c[k]].next = IF k = Len(c) THEN NIL ELSE c[k + 1]
                      /\ level.total = FoldLeft(LAMBDA acc, i : acc + ob.pool[i].lots, 0, c)
  BY DEF LevelsConsistent
<1>3. PICK side \in Sides : \E at \in 1 .. Len(ob.levels[side]) : level = ob.levels[side][at]
  BY <1>1, AllLevelsAre
<1>4. PICK at \in 1 .. Len(ob.levels[side]) : level = ob.levels[side][at]
  BY <1>3
<1>5. PICK d : d = L[side][level.price]
  OBVIOUS
<1>6. ListOfLevel(ob, L, side, at, d)
  <2>1. PICK ls : ls = ob.levels[side]
    OBVIOUS
  <2>2. level.price \in Prices
    BY <1>1, <1>4, <1>5, <2>1, LevelAt
  <2>3. QED BY <1>4, <1>5, <2>2 DEF ListOfLevel
<1>7. d = c
  BY <1>2, <1>4, <1>6, ListOfLevelFacts
<1>8. /\ c \in Seq(Nodes) /\ Len(c) \in Nat /\ Len(c) > 0 /\ DOMAIN c = 1 .. Len(c)
      /\ Distinct(c) /\ Linked(ob.pool, c) /\ LevelIs(ob.pool, level, c) /\ level.count > 0
  BY <1>4, <1>6, <1>7, ListOfLevelFacts
<1>9. level.head = Head(c) /\ level.tail = Last(c)
  <2>1. level.head = c[1] /\ level.tail = c[Len(c)]
    BY <1>8 DEF LevelIs, FirstOf, LastOf
  <2>2. Head(c) = c[1] /\ Last(c) = c[Len(c)]
    BY <1>8 DEF Last
  <2>3. QED BY <2>1, <2>2
<1>10. level.total = FoldLeft(LAMBDA acc, i : acc + ob.pool[i].lots, 0, c)
  <2>1. FoldLeft(LAMBDA acc, i : acc + ob.pool[i].lots, 0, c) = Total(ob.pool, c)
    BY <1>1, <1>8, FoldIsTotal
  <2>2. level.total = Total(ob.pool, c)
    BY <1>8 DEF LevelIs
  <2>3. QED BY <2>1, <2>2
<1>11. QED BY <1>8, <1>9, <1>10 DEF Linked

\* Every locator finds its level, and its node in the chain of the level.
LEMMA SoundLookup == ASSUME NEW L, Sound(ob, L) PROVE LookupConsistent
<1>1. Base(ob, L)
  BY DEF Sound
<1>2. ASSUME NEW id \in OrderIds, ob.lookup[id] # NoOrder, NEW loc, loc = ob.lookup[id],
             NEW where, where = FindLevel(ob, loc.side, loc.price)
      PROVE  /\ where.found
             /\ loc.node \in Range(Chain(ob, ob.levels[loc.side][where.at]))
             /\ ob.pool[loc.node].id = id
  <2>1. PICK at, c, k : /\ at = FindLevel(ob, loc.side, loc.price).at
                        /\ DropPlace(ob, L, id, loc.side, loc.price, loc.node, at, c, k)
    BY <1>1, <1>2, OrderFound
  <2>2. /\ loc.side \in Sides /\ loc.price \in Prices /\ ob.pool[loc.node].id = id
    BY <1>1, <1>2, OrderPlace
  <2>3. PICK side, price, ls : side = loc.side /\ price = loc.price /\ ls = ob.levels[side]
    OBVIOUS
  <2>4. /\ at \in 1 .. Len(ls) /\ ls[at].price = price /\ at = where.at
        /\ c = L[side][price] /\ k \in 1 .. Len(c) /\ c[k] = loc.node
    BY <1>2, <2>1, <2>3, Zenon DEF DropPlace
  <2>5. ls \in Seq(LevelRecords) /\ Sorted(side, ls)
    BY <1>1, <2>2, <2>3, BaseLevels
  <2>6. where.found
    <3>1. PICK w : w = FindLevel(ob, side, price)
      OBVIOUS
    <3>2. w.found <=> \E j \in 1 .. Len(ls) : ls[j].price = price
      BY <2>2, <2>3, <2>5, <3>1, FindLevelFacts
    <3>3. w.found
      BY <2>4, <3>2
    <3>4. w = where
      BY <1>2, <2>3, <3>1
    <3>5. QED BY <3>3, <3>4
  <2>7. ListOfLevel(ob, L, side, at, c)
    BY <2>2, <2>3, <2>4 DEF ListOfLevel
  <2>8. c \in Seq(Nodes) /\ Chain(ob, ob.levels[side][at]) = c
    BY <2>7, ListOfLevelFacts
  <2>9. loc.node \in Range(c)
    BY <2>4, <2>8, SeqRange
  <2>10. QED BY <2>2, <2>3, <2>4, <2>6, <2>8, <2>9
<1>3. \A i \in ob.used : ob.pool[i].lots > 0 /\ ob.lookup[ob.pool[i].id].node = i
  BY <1>1 DEF Sound, Base, AllHaveLots, UsedOwned
<1>4. QED BY <1>2, <1>3 DEF LookupConsistent

\* The levels of a side are sorted.
LEMMA SoundOrder == ASSUME NEW L, Sound(ob, L) PROVE LevelsSorted
<1>1. ASSUME NEW side \in Sides PROVE \A j, k \in DOMAIN ob.levels[side] :
        j < k => ~BetterOrEqual(side, ob.levels[side][k].price, ob.levels[side][j].price)
  <2>1. PICK ls : ls = ob.levels[side]
    OBVIOUS
  <2>2. Sorted(side, ls) /\ ls \in Seq(LevelRecords)
    BY <2>1, BaseLevels DEF Sound
  <2>3. DOMAIN ls = 1 .. Len(ls)
    BY <2>2, LevelFacts
  <2>4. QED BY <2>1, <2>2, <2>3 DEF Sorted
<1>2. QED BY <1>1 DEF LevelsSorted

\* After every call of the order book, and after every trade of a match, there
\* is one list of nodes for each side and price that the links, the level
\* records, the sorted level arrays, the free list and the lookup table agree
\* with; and a match that runs keeps the level and the front node it is at.
THEOREM InvHolds == Spec => []Inv
<1>1. Init => Inv
  BY InitInv
<1>2. Inv /\ [Next]_vars => Inv'
  BY NextInv
<1>3. QED BY <1>1, <1>2, PTL DEF Spec

\* The structure of the book never breaks: no node is lost or used twice, the
\* links of a level run from its head to its tail and back, its running total
\* is the sum of its lots, the levels of a side are sorted and not empty, and
\* every locator leads to the node of its order, whatever adds, cancels,
\* modifications and trades came before.
THEOREM BookStructure == Spec => []StructureSound
<1>1. Inv => StructureSound
  BY SoundPool, SoundLevels, SoundOrder, SoundLookup DEF Inv, StructureSound
<1>2. QED BY <1>1, InvHolds, PTL

-----------------------------------------------------------------------------
(* What executable_lots adds up                                            *)

LEMMA TotalNat ==
    ASSUME NEW p \in Pools, NEW S, S \subseteq Nodes
    PROVE  Sum(LotsOf(p), S) \in Nat
<1>1. PICK C : C = {s \in SUBSET S : Sum(LotsOf(p), s) \notin Nat}
  OBVIOUS
<1>2. CASE C = {}
  BY <1>1, <1>2
<1>3. CASE C # {}
  <2>1. C \subseteq SUBSET S
    BY <1>1
  <2>2. IsFiniteSet(S)
    BY LotsFacts
  <2>3. PICK t \in C : \A u \in C : u \subseteq t => u = t
    BY <1>3, <2>1, <2>2, Smallest
  <2>4. t \in SUBSET S /\ Sum(LotsOf(p), t) \notin Nat
    BY <1>1
  <2>5. t # {}
    BY <2>4, TotalEmpty
  <2>6. PICK i \in t : TRUE
    BY <2>5
  <2>7. t \ {i} \notin C /\ t \ {i} \in SUBSET S
    BY <2>3, <2>4
  <2>8. Sum(LotsOf(p), t \ {i}) \in Nat
    BY <1>1, <2>7
  <2>9. t \subseteq Nodes /\ i \in Nodes
    BY <2>4
  <2>10. /\ Sum(LotsOf(p), t \ {i}) = Sum(LotsOf(p), t) - p[i].lots
         /\ Sum(LotsOf(p), t) \in Int /\ p[i].lots \in 0 .. MaxLots
    BY <2>9, TotalWithout, TotalType, PoolFacts
  <2>11. PICK a, b, d : /\ a = Sum(LotsOf(p), t) /\ b = Sum(LotsOf(p), t \ {i})
                        /\ d = p[i].lots
    OBVIOUS
  <2>12. a \in Int /\ b \in Nat /\ d \in Nat /\ b = a - d
    BY <2>8, <2>10, <2>11, Constants
  <2>13. a \in Nat
    BY <2>12
  <2>14. QED BY <2>4, <2>11, <2>13
<1>4. QED BY <1>2, <1>3

\* The total of two lists without a common node.
LEMMA TotalUnion ==
    ASSUME NEW p \in Pools, NEW S, NEW T, S \subseteq Nodes, T \subseteq Nodes, S \cap T = {}
    PROVE  Sum(LotsOf(p), S \cup T) = Sum(LotsOf(p), S) + Sum(LotsOf(p), T)
<1>1. PICK f : f = LotsOf(p)
  OBVIOUS
<1>2. PICK C : C = {t \in SUBSET T : Sum(f, S \cup t) # Sum(f, S) + Sum(f, t)}
  OBVIOUS
<1>3. CASE C = {}
  BY <1>1, <1>2, <1>3
<1>4. CASE C # {}
  <2>1. C \subseteq SUBSET T
    BY <1>2
  <2>2. IsFiniteSet(T)
    BY LotsFacts
  <2>3. PICK t \in C : \A u \in C : u \subseteq t => u = t
    BY <1>4, <2>1, <2>2, Smallest
  <2>4. t \in SUBSET T /\ Sum(f, S \cup t) # Sum(f, S) + Sum(f, t)
    BY <1>2
  <2>5. Sum(f, S) \in Int /\ Sum(f, {}) = 0
    BY <1>1, TotalType, TotalEmpty
  <2>6. t # {}
    <3>1. ASSUME t = {} PROVE FALSE
      <4>1. S \cup t = S
        BY <3>1
      <4>2. Sum(f, S \cup t) = Sum(f, S) /\ Sum(f, t) = 0
        BY <2>5, <3>1, <4>1
      <4>3. QED BY <2>4, <2>5, <4>2
    <3>2. QED BY <3>1
  <2>7. PICK i \in t : TRUE
    BY <2>6
  <2>8. PICK u : u = t \ {i}
    OBVIOUS
  <2>9. /\ u \notin C /\ u \in SUBSET T /\ u \subseteq Nodes /\ t \subseteq Nodes
        /\ i \in Nodes /\ i \notin u /\ i \notin S \cup u /\ S \cup u \subseteq Nodes
        /\ u \cup {i} = t /\ (S \cup u) \cup {i} = S \cup t
    BY <2>3, <2>4, <2>8
  <2>10. Sum(f, S \cup u) = Sum(f, S) + Sum(f, u)
    BY <1>2, <2>9
  <2>11. Sum(f, t) = Sum(f, u) + p[i].lots
    BY <1>1, <2>9, TotalWith
  <2>12. Sum(f, S \cup t) = Sum(f, S \cup u) + p[i].lots
    <3>1. PICK V : V = S \cup u
      OBVIOUS
    <3>2. V \subseteq Nodes /\ i \notin V /\ V \cup {i} = S \cup t
      BY <2>9, <3>1
    <3>3. Sum(f, V \cup {i}) = Sum(f, V) + p[i].lots
      BY <1>1, <2>9, <3>2, TotalWith
    <3>4. QED BY <3>1, <3>2, <3>3
  <2>13. PICK a, b, d : a = Sum(f, S) /\ b = Sum(f, u) /\ d = p[i].lots
    OBVIOUS
  <2>14. a \in Int /\ b \in Int /\ d \in Int
    BY <1>1, <2>9, <2>13, TotalType, PoolFacts
  <2>15. (a + b) + d = a + (b + d)
    BY <2>14
  <2>16. QED BY <2>4, <2>10, <2>11, <2>12, <2>13, <2>15
<1>5. QED BY <1>3, <1>4

Lesser(x, y) == IF x <= y THEN x ELSE y

\* g adds up the totals of the levels that t crosses, up to the quantity.
Adds(ls, t, quantity, g) ==
    g = [k \in 0 .. Len(ls) |->
           IF k = 0 THEN 0
           ELSE IF \A j \in 1 .. k : Crosses(t, ls[j].price)
                THEN Lesser(quantity, g[k - 1] + ls[k].total)
                ELSE g[k - 1]]

AddedUp(ls, t, quantity) == CHOOSE g : Adds(ls, t, quantity, g)

\* The loop of executable_lots is a fold.
LEMMA ExecutableAdds ==
    ASSUME NEW s, NEW t, NEW quantity
    PROVE  ExecutableLots(s, t, quantity) =
             AddedUp(s.levels[Opposite(t.side)], t, quantity)[Len(s.levels[Opposite(t.side)])]
BY DEF ExecutableLots, AddedUp, Adds, Lesser

\* The same, element by element.
AddsTo(ls, t, quantity, n, g) ==
    /\ \A k \in 0 .. n : g[k] = IF k = 0 THEN 0
                                ELSE IF \A j \in 1 .. k : Crosses(t, ls[j].price)
                                     THEN Lesser(quantity, g[k - 1] + ls[k].total)
                                     ELSE g[k - 1]
    /\ g = [k \in 0 .. n |-> g[k]]

LEMMA AddsIs ==
    ASSUME NEW ls, NEW n, n = Len(ls), NEW t, NEW quantity, NEW g, Adds(ls, t, quantity, g)
    PROVE  AddsTo(ls, t, quantity, n, g)
BY Zenon DEF Adds, AddsTo

LEMMA AddsOnce ==
    ASSUME NEW ls, Len(ls) \in Nat, NEW t, NEW quantity, NEW g, NEW h,
           Adds(ls, t, quantity, g), Adds(ls, t, quantity, h)
    PROVE  g = h
<1>1. PICK n \in Nat : n = Len(ls)
  OBVIOUS
<1>2. AddsTo(ls, t, quantity, n, g) /\ AddsTo(ls, t, quantity, n, h)
  BY <1>1, AddsIs
<1> DEFINE on(k) == \A j \in 1 .. k : Crosses(t, ls[j].price)
<1>3. /\ \A k \in 0 .. n : g[k] = IF k = 0 THEN 0
                                 ELSE IF on(k) THEN Lesser(quantity, g[k - 1] + ls[k].total)
                                      ELSE g[k - 1]
      /\ \A k \in 0 .. n : h[k] = IF k = 0 THEN 0
                                 ELSE IF on(k) THEN Lesser(quantity, h[k - 1] + ls[k].total)
                                      ELSE h[k - 1]
      /\ g = [k \in 0 .. n |-> g[k]] /\ h = [k \in 0 .. n |-> h[k]]
  BY <1>2, Zenon DEF AddsTo
<1> HIDE DEF on
<1>4. PICK C : C = {k \in 0 .. n : g[k] # h[k]}
  OBVIOUS
<1>5. CASE C = {}
  <2>1. \A k \in 0 .. n : g[k] = h[k]
    BY <1>4, <1>5
  <2>2. [k \in 0 .. n |-> g[k]] = [k \in 0 .. n |-> h[k]]
    BY <2>1
  <2>3. QED BY <1>3, <2>2, Zenon
<1>6. CASE C # {}
  <2>1. C \subseteq Nat
    BY <1>4
  <2>2. PICK m \in C : \A k \in C : m <= k
    BY <1>6, <2>1, Least
  <2>3. m \in 0 .. n /\ g[m] # h[m] /\ m \in Nat
    BY <1>4, <2>1
  <2>4. m # 0
    BY <1>3, <2>3
  <2>5. m - 1 \in 0 .. n /\ ~(m <= m - 1)
    BY <2>3, <2>4
  <2>6. g[m - 1] = h[m - 1]
    BY <1>4, <2>2, <2>5
  <2>7. g[m] = h[m]
    BY <1>3, <2>3, <2>4, <2>6, Zenon
  <2>8. QED BY <2>3, <2>7
<1>7. QED BY <1>5, <1>6

\* What the best of two levels does not cross, the other does not either.
LEMMA CrossesSooner ==
    ASSUME NEW t, t.side \in Sides, t.price \in Int, NEW p \in Int, NEW q \in Int,
           ~BetterOrEqual(Opposite(t.side), q, p), Crosses(t, q)
    PROVE  Crosses(t, p)
BY DEF Crosses, BetterOrEqual, Opposite, Sides

\* The nodes of the orders that t may trade with, and their lots.
Within(s, t) ==
    {i \in s.used : /\ s.lookup[s.pool[i].id].side = Opposite(t.side)
                    /\ Crosses(t, s.lookup[s.pool[i].id].price)}

Offered(s, t) == Sum(LotsOf(s.pool), Within(s, t))

\* Those of them that are at one of the first k levels.
Part(used, ls, lists, t, k) ==
    {i \in used : \E j \in 1 .. k : /\ Crosses(t, ls[j].price)
                                    /\ i \in Range(lists[ls[j].price])}

\* A and B are those of the first k - 1 and of the first k levels, c the list of level k.
PartsAt(s, L, side, ls, lists, t, k, c, A, B) ==
    /\ ls = s.levels[side] /\ lists = L[side] /\ k \in 1 .. Len(ls)
    /\ c = lists[ls[k].price]
    /\ A = Part(s.used, ls, lists, t, k - 1) /\ B = Part(s.used, ls, lists, t, k)

\* What the loop of executable_lots has added up after one more level.
LEMMA PartStep ==
    ASSUME NEW s, NEW L, Base(s, L), NEW side \in Sides, NEW ls, NEW lists, NEW t, NEW k, NEW c,
           NEW A, NEW B, PartsAt(s, L, side, ls, lists, t, k, c, A, B)
    PROVE  /\ A \subseteq Nodes /\ Range(c) \subseteq Nodes
           /\ ~Crosses(t, ls[k].price) => B = A
           /\ Crosses(t, ls[k].price) => B = A \cup Range(c) /\ A \cap Range(c) = {}
<1>1. ls = s.levels[side] /\ lists = L[side]
  BY DEF PartsAt
<1>2. k \in 1 .. Len(ls) /\ c = lists[ls[k].price]
  BY DEF PartsAt
<1>3. A = Part(s.used, ls, lists, t, k - 1) /\ B = Part(s.used, ls, lists, t, k)
  BY DEF PartsAt
<1>4. ls \in Seq(LevelRecords) /\ Len(ls) \in Nat /\ Sorted(side, ls) /\ s.used \subseteq Nodes
  BY <1>1, BaseLevels, BaseFree
<1>5. \A j \in 1 .. Len(ls) : ls[j].price \in Prices /\ ls[j].price \in Int
  BY <1>4, LevelFacts
<1>6. \A j \in 1 .. Len(ls) : Range(lists[ls[j].price]) \subseteq s.used
  BY <1>5, <1>1, BaseLists
<1>7. A \subseteq Nodes /\ Range(c) \subseteq s.used /\ Range(c) \subseteq Nodes
  BY <1>4, <1>6, <1>2, <1>3 DEF Part
<1>8. \A j : j \in 1 .. k <=> j \in 1 .. k - 1 \/ j = k
  BY <1>4, <1>2
<1>9. ASSUME ~Crosses(t, ls[k].price) PROVE B = A
  BY <1>8, <1>9, <1>2, <1>3 DEF Part
<1>10. ASSUME Crosses(t, ls[k].price) PROVE B = A \cup Range(c)
  <2>1. \A i : i \in B <=> i \in s.used /\ \E j \in 1 .. k :
                 Crosses(t, ls[j].price) /\ i \in Range(lists[ls[j].price])
    BY <1>3 DEF Part
  <2>2. \A i : i \in A <=> i \in s.used /\ \E j \in 1 .. k - 1 :
                 Crosses(t, ls[j].price) /\ i \in Range(lists[ls[j].price])
    BY <1>3 DEF Part
  <2>3. \A i : i \in B <=> i \in A \/ i \in Range(c)
    BY <1>7, <1>8, <1>10, <1>2, <2>1, <2>2
  <2>4. QED BY <2>3
<1>11. A \cap Range(c) = {}
  <2>1. ASSUME NEW i \in A, i \in Range(c) PROVE FALSE
    <3>1. PICK j \in 1 .. k - 1 : i \in Range(lists[ls[j].price])
      BY <1>3 DEF Part
    <3>2. j \in 1 .. Len(ls) /\ j < k
      BY <1>4, <1>2, <3>1
    <3>3. ls[j].price # ls[k].price
      <4>1. ~BetterOrEqual(side, ls[k].price, ls[j].price)
        BY <1>4, <1>2, <3>2 DEF Sorted
      <4>2. QED BY <1>5, <1>2, <3>2, <4>1 DEF BetterOrEqual
    <3>4. PICK d : d = lists[ls[j].price]
      OBVIOUS
    <3>5. ls[j].price \in Prices /\ ls[k].price \in Prices
      BY <1>5, <1>2, <3>2
    <3>6. c \in Seq(Nodes) /\ d \in Seq(Nodes)
      BY <1>1, <1>2, <3>4, <3>5, BaseLists
    <3>7. PICK m \in 1 .. Len(c) : c[m] = i
      BY <2>1, <3>6, SeqRange
    <3>8. PICK n \in 1 .. Len(d) : d[n] = i
      BY <3>1, <3>4, <3>6, SeqRange
    <3>9. PICK p, q : p = ls[k].price /\ q = ls[j].price
      OBVIOUS
    <3>10. c[m] # d[n]
      <4>1. p \in Prices /\ q \in Prices /\ p # q /\ c = L[side][p] /\ d = L[side][q]
        BY <1>1, <1>2, <3>3, <3>4, <3>5, <3>9
      <4>2. QED BY <4>1, ListsApart
    <3>11. QED BY <3>7, <3>8, <3>10
  <2>2. QED BY <2>1
<1>12. QED BY <1>7, <1>9, <1>10, <1>11

\* All levels together have all of them.
LEMMA PartIsWithin ==
    ASSUME NEW s, NEW L, Base(s, L), NEW t, t.side \in Sides,
           NEW side, side = Opposite(t.side), NEW ls, ls = s.levels[side],
           NEW lists, lists = L[side]
    PROVE  Part(s.used, ls, lists, t, Len(ls)) = Within(s, t)
<1>1. side \in Sides
  BY OppositeFacts
<1>2. ASSUME NEW i \in Part(s.used, ls, lists, t, Len(ls)) PROVE i \in Within(s, t)
  <2>1. PICK j \in 1 .. Len(ls) : i \in s.used /\ Crosses(t, ls[j].price)
                                  /\ i \in Range(lists[ls[j].price])
    BY <1>2 DEF Part
  <2>2. PICK price, c : price = ls[j].price /\ c = lists[price]
    OBVIOUS
  <2>3. price \in Prices
    <3>1. ls \in Seq(LevelRecords)
      BY <1>1, BaseLevels
    <3>2. QED BY <2>2, <3>1, LevelFacts
  <2>4. c \in Seq(Nodes)
    BY <1>1, <2>2, <2>3, BaseLists
  <2>5. PICK k \in 1 .. Len(c) : c[k] = i
    BY <2>1, <2>2, <2>4, SeqRange, Zenon
  <2>6. s.lookup[s.pool[c[k]].id] = [side |-> side, price |-> price, node |-> c[k]]
    <3>1. c = L[side][price]
      BY <2>2
    <3>2. ListOwned(s.pool, s.used, s.lookup, c, side, price)
      BY <1>1, <2>3, <3>1, BaseLists
    <3>3. QED BY <3>2 DEF ListOwned
  <2>7. PICK loc : loc = s.lookup[s.pool[i].id]
    OBVIOUS
  <2>8. loc.side = side /\ loc.price = price
    BY <2>5, <2>6, <2>7
  <2>9. QED BY <2>1, <2>2, <2>7, <2>8 DEF Within
<1>3. ASSUME NEW i \in Within(s, t) PROVE i \in Part(s.used, ls, lists, t, Len(ls))
  <2>1. PICK id, loc : id = s.pool[i].id /\ loc = s.lookup[id]
    OBVIOUS
  <2>2. i \in s.used /\ loc.side = side /\ Crosses(t, loc.price)
    BY <1>3, <2>1 DEF Within
  <2>3. id \in OrderIds /\ loc # NoOrder /\ loc.node = i
    BY <2>1, <2>2 DEF Base, UsedOwned
  <2>4. PICK at, c, k : DropPlace(s, L, id, loc.side, loc.price, loc.node, at, c, k)
    BY <2>1, <2>3, OrderFound
  <2>5. loc.price \in Prices
    BY <2>1, <2>3, OrderPlace
  <2>6. /\ at \in 1 .. Len(ls) /\ ls[at].price = loc.price
        /\ c = lists[loc.price] /\ k \in 1 .. Len(c) /\ c[k] = i
    BY <2>2, <2>3, <2>4 DEF DropPlace
  <2>7. c \in Seq(Nodes)
    BY <1>1, <2>5, <2>6, BaseLists
  <2>8. i \in Range(c)
    BY <2>6, <2>7, SeqRange
  <2>9. QED BY <2>2, <2>6, <2>8 DEF Part
<1>4. QED BY <1>2, <1>3

LEMMA LesserAgain ==
    ASSUME NEW q \in Int, NEW a \in Int, NEW b \in Nat
    PROVE  Lesser(q, Lesser(q, a) + b) = Lesser(q, a + b)
BY DEF Lesser

\* The answer of executable_lots: what the orders that cross have together, or
\* the quantity if that is less.
LEMMA ExecutableIs ==
    ASSUME NEW s, NEW L, Base(s, L), NEW t, t.side \in Sides, t.price \in Int,
           NEW quantity \in Nat
    PROVE  ExecutableLots(s, t, quantity) = Lesser(quantity, Offered(s, t))
<1>1. PICK side, ls, lists : side = Opposite(t.side) /\ ls = s.levels[side] /\ lists = L[side]
  OBVIOUS
<1>2. side \in Sides
  BY <1>1, OppositeFacts
<1>3. PICK n \in Nat : n = Len(ls)
  BY <1>1, <1>2, BaseLevels
<1>4. ls \in Seq(LevelRecords) /\ Sorted(side, ls) /\ s.pool \in Pools
  BY <1>1, <1>2, BaseLevels, BaseFree
<1> DEFINE part(k) == Part(s.used, ls, lists, t, k)
           sum(k) == Sum(LotsOf(s.pool), part(k))
           on(k) == \A j \in 1 .. k : Crosses(t, ls[j].price)
           h == [k \in 0 .. n |-> Lesser(quantity, sum(k))]
<1>5. ASSUME NEW k \in 1 .. n
      PROVE  h[k] = IF on(k) THEN Lesser(quantity, h[k - 1] + ls[k].total) ELSE h[k - 1]
  <2>1. PICK c : c = lists[ls[k].price]
    OBVIOUS
  <2>2. PICK A, B : A = part(k - 1) /\ B = part(k)
    OBVIOUS
  <2>3. /\ A \subseteq Nodes /\ Range(c) \subseteq Nodes
        /\ ~Crosses(t, ls[k].price) => B = A
        /\ Crosses(t, ls[k].price) => B = A \cup Range(c) /\ A \cap Range(c) = {}
    <3>1. k \in 1 .. Len(ls)
      BY <1>3
    <3>2. A = Part(s.used, ls, lists, t, k - 1) /\ B = Part(s.used, ls, lists, t, k)
      BY <2>2
    <3> HIDE DEF h, sum, part, on
    <3>3. PartsAt(s, L, side, ls, lists, t, k, c, A, B)
      BY <1>1, <2>1, <3>1, <3>2 DEF PartsAt
    <3>4. QED BY <1>2, <3>3, PartStep
  <2>4. /\ h[k] = Lesser(quantity, Sum(LotsOf(s.pool), B))
        /\ h[k - 1] = Lesser(quantity, Sum(LotsOf(s.pool), A))
    <3>1. k \in 0 .. n /\ k - 1 \in 0 .. n
      BY <1>3
    <3>2. h[k] = Lesser(quantity, sum(k)) /\ h[k - 1] = Lesser(quantity, sum(k - 1))
      BY <3>1
    <3>3. sum(k) = Sum(LotsOf(s.pool), B) /\ sum(k - 1) = Sum(LotsOf(s.pool), A)
      <4> HIDE DEF part, h
      <4>1. QED BY <2>2
    <3> HIDE DEF h, sum
    <3>4. QED BY <3>2, <3>3
  <2> HIDE DEF h, part, sum
  <2>5. ls[k].total = Sum(LotsOf(s.pool), Range(c))
    <3>1. PICK level : level = ls[k]
      OBVIOUS
    <3>2. k \in 1 .. Len(ls) /\ c = L[side][level.price]
      BY <1>1, <1>3, <2>1, <3>1
    <3>3. level.total = Total(s.pool, c)
      BY <1>1, <1>2, <3>1, <3>2, LevelAt
    <3>4. QED BY <3>1, <3>3 DEF Total
  <2>6. on(k) <=> Crosses(t, ls[k].price)
    <3>1. ASSUME Crosses(t, ls[k].price), NEW j \in 1 .. k PROVE Crosses(t, ls[j].price)
      <4>1. CASE j = k
        BY <3>1, <4>1
      <4>2. CASE j # k
        <5>1. j \in 1 .. Len(ls) /\ k \in 1 .. Len(ls) /\ j < k
          BY <1>3, <4>2
        <5>2. ~BetterOrEqual(side, ls[k].price, ls[j].price)
          BY <1>4, <5>1 DEF Sorted
        <5>3. ls[k].price \in Int /\ ls[j].price \in Int
          BY <1>4, <5>1, LevelFacts
        <5>4. QED BY <1>1, <3>1, <5>2, <5>3, CrossesSooner
      <4>3. QED BY <4>1, <4>2
    <3>2. QED BY <3>1
  <2> HIDE DEF on
  <2>7. CASE ~Crosses(t, ls[k].price)
    <3>1. h[k] = h[k - 1]
      BY <2>3, <2>4, <2>7
    <3>2. QED BY <2>6, <2>7, <3>1
  <2>8. CASE Crosses(t, ls[k].price)
    <3>1. PICK a, b : a = Sum(LotsOf(s.pool), A) /\ b = Sum(LotsOf(s.pool), Range(c))
      OBVIOUS
    <3>2. Sum(LotsOf(s.pool), B) = a + b
      BY <1>4, <2>3, <2>8, <3>1, TotalUnion
    <3>3. a \in Nat /\ b \in Nat
      BY <1>4, <2>3, <3>1, TotalNat
    <3>4. Lesser(quantity, Lesser(quantity, a) + b) = Lesser(quantity, a + b)
      BY <3>3, LesserAgain
    <3>5. h[k] = Lesser(quantity, h[k - 1] + ls[k].total)
      BY <2>4, <2>5, <3>1, <3>2, <3>4
    <3>6. QED BY <2>6, <2>8, <3>5
  <2>9. QED BY <2>7, <2>8
<1>6. h[0] = 0
  <2>1. part(0) = {}
    BY DEF Part
  <2>2. 0 \in 0 .. n /\ h[0] = Lesser(quantity, sum(0))
    OBVIOUS
  <2>3. sum(0) = Sum(LotsOf(s.pool), {})
    BY <2>1
  <2> HIDE DEF h, sum, part
  <2>4. sum(0) = 0
    BY <2>3, TotalEmpty
  <2>5. QED BY <2>2, <2>4 DEF Lesser
<1>7. h = [k \in 0 .. n |-> h[k]] /\ h[n] = Lesser(quantity, sum(n))
  OBVIOUS
<1>8. \A k \in 0 .. n : h[k] = IF k = 0 THEN 0
                              ELSE IF on(k) THEN Lesser(quantity, h[k - 1] + ls[k].total)
                                   ELSE h[k - 1]
  <2>1. \A k \in 0 .. n : k = 0 \/ k \in 1 .. n
    OBVIOUS
  <2> HIDE DEF h, on
  <2>2. QED BY <1>5, <1>6, <2>1
<1> HIDE DEF h
<1>9. Adds(ls, t, quantity, h)
  BY <1>3, <1>7, <1>8, Zenon DEF Adds
<1>10. AddedUp(ls, t, quantity) = h
  <2>1. Adds(ls, t, quantity, AddedUp(ls, t, quantity))
    BY <1>9, Zenon DEF AddedUp
  <2>2. Len(ls) \in Nat
    BY <1>3
  <2>3. QED BY <1>9, <2>1, <2>2, AddsOnce, Zenon
<1>11. ExecutableLots(s, t, quantity) = h[n]
  <2>1. ExecutableLots(s, t, quantity) = AddedUp(ls, t, quantity)[Len(ls)]
    BY <1>1, ExecutableAdds
  <2>2. QED BY <1>3, <1>10, <2>1
<1>12. part(n) = Within(s, t)
  BY <1>1, <1>3, PartIsWithin
<1>13. sum(n) = Offered(s, t)
  <2>1. sum(n) = Sum(LotsOf(s.pool), part(n))
    OBVIOUS
  <2> HIDE DEF part, sum
  <2>2. QED BY <1>12, <2>1 DEF Offered
<1>14. QED BY <1>7, <1>11, <1>13

-----------------------------------------------------------------------------
(* What a match promises: the fills and what is left to fill add up        *)

\* While a match runs: what is filled, with what can still be filled, is what
\* executable_lots answered.
PromiseKept(s, c) ==
    c.promised = (c.quantity - c.remaining) + Lesser(c.remaining, Offered(s, c))

\* The inductive invariant of the match.
MatchInv == Inv /\ (cursor # NoTaker => PromiseKept(ob, cursor))

\* Only the side, the type and the price of a taker tell what it may trade with.
SameLimits(t, u) == u.side = t.side /\ u.type = t.type /\ u.price = t.price

LEMMA WithinSame ==
    ASSUME NEW s, NEW t, NEW u, SameLimits(t, u)
    PROVE  Within(s, u) = Within(s, t)
BY DEF Within, Crosses, SameLimits

LEMMA OfferedFacts ==
    ASSUME NEW s, NEW L, Base(s, L), NEW t
    PROVE  /\ Within(s, t) \subseteq Nodes /\ s.pool \in Pools
           /\ Offered(s, t) \in Nat
<1>1. Within(s, t) \subseteq Nodes /\ s.pool \in Pools
  BY BaseFree DEF Within
<1>2. QED BY <1>1, TotalNat DEF Offered

\* i is the node of order id, which t may trade with.
Meets(s, t, i, id) ==
    /\ i \in s.used /\ id = s.pool[i].id /\ id \in OrderIds
    /\ s.lookup[id].node = i /\ s.lookup[id].side = Opposite(t.side)
    /\ Crosses(t, s.lookup[id].price)

\* An order that t may trade with is removed, or loses lots.
LEMMA OfferedRemoved ==
    ASSUME NEW s, NEW L, Base(s, L), NEW u, NEW M, Base(u, M), NEW t, NEW i, NEW id,
           Meets(s, t, i, id), NEW side, NEW price, NEW k,
           RemoveEffect(s, L, u, M, id, i, side, price, k)
    PROVE  Offered(u, t) = Offered(s, t) - s.pool[i].lots
<1>1. i \in s.used /\ id = s.pool[i].id /\ s.lookup[id].node = i /\ i \in Within(s, t)
  BY DEF Meets, Within
<1>2. /\ u.used = s.used \ {i} /\ SameOrders(s.pool, u.pool, u.used)
      /\ OthersSame(s.lookup, u.lookup, id)
  BY DEF RemoveEffect
<1>3. DOMAIN s.lookup = OrderIds
  BY BaseFree
<1>4. ASSUME NEW x \in u.used
      PROVE  u.pool[x].id = s.pool[x].id /\ u.lookup[u.pool[x].id] = s.lookup[s.pool[x].id]
  <2>1. u.pool[x].id = s.pool[x].id
    BY <1>2 DEF SameOrders
  <2>2. x \in s.used /\ x # i
    BY <1>2
  <2>3. s.pool[x].id \in OrderIds /\ s.lookup[s.pool[x].id].node = x
    BY <2>2 DEF Base, UsedOwned
  <2>4. s.pool[x].id # id
    BY <1>1, <2>2, <2>3
  <2>5. u.lookup[s.pool[x].id] = s.lookup[s.pool[x].id]
    BY <1>2, <1>3, <2>3, <2>4 DEF OthersSame
  <2>6. QED BY <2>1, <2>5
<1>5. Within(u, t) = Within(s, t) \ {i}
  BY <1>2, <1>4 DEF Within
<1>6. PICK W : W = Within(s, t)
  OBVIOUS
<1>7. W \subseteq Nodes /\ i \in W /\ s.pool \in Pools /\ u.pool \in Pools
  BY <1>1, <1>6, OfferedFacts
<1>8. Sum(LotsOf(u.pool), W \ {i}) = Sum(LotsOf(s.pool), W \ {i})
  <2>1. \A x \in W \ {i} : u.pool[x].lots = s.pool[x].lots
    BY <1>2, <1>6 DEF Within, SameOrders
  <2>2. W \ {i} \subseteq Nodes
    BY <1>7
  <2>3. QED BY <1>7, <2>1, <2>2, TotalSame
<1>9. Sum(LotsOf(s.pool), W \ {i}) = Sum(LotsOf(s.pool), W) - s.pool[i].lots
  BY <1>7, TotalWithout
<1>10. QED BY <1>5, <1>6, <1>8, <1>9 DEF Offered

\* Where an order that the taker may trade with loses lots, the offer loses them.
LEMMA OfferedCut ==
    ASSUME NEW s, NEW L, Base(s, L), NEW u, NEW M, Base(u, M), NEW t, NEW i, NEW id,
           Meets(s, t, i, id), NEW n \in Int, CutEffect(s, u, i, n)
    PROVE  Offered(u, t) = Offered(s, t) - n
<1>1. i \in s.used /\ i \in Within(s, t)
  BY DEF Meets, Within
<1>2. /\ u.used = s.used /\ u.lookup = s.lookup /\ u.pool[i].id = s.pool[i].id
      /\ u.pool[i].lots = s.pool[i].lots - n
      /\ SameOrders(s.pool, u.pool, s.used \ {i})
  BY DEF CutEffect
<1>3. \A x \in s.used : u.pool[x].id = s.pool[x].id
  BY <1>2 DEF SameOrders
<1>4. PICK W : W = Within(s, t)
  OBVIOUS
<1>5. Within(u, t) = W
  BY <1>2, <1>3, <1>4 DEF Within
<1>6. W \subseteq Nodes /\ i \in W /\ s.pool \in Pools /\ u.pool \in Pools
  BY <1>1, <1>4, OfferedFacts
<1>7. \A x \in W \ {i} : u.pool[x].lots = s.pool[x].lots
  BY <1>2, <1>4 DEF Within, SameOrders
<1>8. Sum(LotsOf(u.pool), W) = Sum(LotsOf(s.pool), W) - n
  BY <1>2, <1>6, <1>7, TotalCut
<1>9. QED BY <1>4, <1>5, <1>8 DEF Offered

\* A match begins with what executable_lots answers.
LEMMA BeginPromise ==
    ASSUME NEW L, Sound(ob, L),
           NEW id \in OrderIds, NEW side \in Sides, NEW type \in OrderTypes, NEW price \in Prices,
           NEW lots \in Lots, NEW rest \in BOOLEAN, MatchBegin(id, side, type, price, lots, rest)
    PROVE  PromiseKept(ob', cursor')
<1>1. PICK t, x : /\ t = [id |-> id, side |-> side, type |-> type, price |-> price,
                          remaining |-> lots, rest |-> rest, trades |-> <<>>]
                  /\ x = ExecutableLots(ob, t, lots)
  OBVIOUS
<1>2. PICK c : c = [id |-> id, side |-> side, type |-> type, price |-> price,
                    remaining |-> lots, rest |-> rest, trades |-> <<>>,
                    level |-> 1, node |-> NIL, quantity |-> lots, promised |-> x]
  OBVIOUS
<1>3. cursor' = c /\ ob' = ob
  BY <1>1, <1>2, BeginFacts DEF MatchBegin
<1>4. t.side = side /\ t.type = type /\ t.price = price
  BY <1>1
<1>5. c.promised = x /\ c.remaining = lots /\ c.quantity = lots /\ SameLimits(t, c)
  BY <1>2, <1>4 DEF SameLimits
<1>6. Base(ob, L) /\ price \in Int /\ lots \in Nat
  BY Constants DEF Sound, Lots
<1>7. x = Lesser(lots, Offered(ob, t))
  <2>1. t.side \in Sides /\ t.price \in Int
    BY <1>4, <1>6
  <2>2. ExecutableLots(ob, t, lots) = Lesser(lots, Offered(ob, t))
    BY <1>6, <2>1, ExecutableIs
  <2>3. QED BY <1>1, <2>2
<1>8. Offered(ob, c) = Offered(ob, t)
  BY <1>5, WithinSame DEF Offered
<1>9. PICK y : y = Lesser(lots, Offered(ob, c))
  OBVIOUS
<1>10. y \in Int
  <2>1. Offered(ob, c) \in Nat
    BY <1>6, OfferedFacts
  <2>2. QED BY <1>6, <1>9, <2>1 DEF Lesser
<1>11. x = (lots - lots) + y
  BY <1>6, <1>7, <1>8, <1>9, <1>10
<1>12. PromiseKept(ob, c)
  BY <1>5, <1>9, <1>11 DEF PromiseKept
<1>13. QED BY <1>3, <1>12 DEF PromiseKept

LEMMA LesserLess ==
    ASSUME NEW q \in Int, NEW a \in Int, NEW n \in Int
    PROVE  Lesser(q - n, a - n) = Lesser(q, a) - n
BY DEF Lesser

\* A trade takes as much off what is left to fill as off what is offered.
LEMMA TradePromise ==
    ASSUME NEW L, Sound(ob, L), CursorSound(ob, cursor), PromiseKept(ob, cursor),
           NEW side, NEW price, NEW i, NEW id, NEW n, TradeIs(side, price, i, id, n)
    PROVE  PromiseKept(ob', cursor')
<1>1. PICK c, d, u : c = cursor /\ d = cursor' /\ u = ob'
  OBVIOUS
<1>2. PICK M : Sound(u, M) /\ TradeEffect(ob, L, u, M, side, price, i, id, n)
  BY <1>1, TradeSound
<1>3. Base(ob, L) /\ Base(u, M) /\ NoEmptyLevel(ob)
  BY <1>2 DEF Sound
<1>4. /\ i \in ob.used /\ id \in OrderIds /\ price \in Prices /\ n \in Lots /\ n \in Nat
      /\ n <= cursor.remaining /\ cursor.remaining \in 1 .. MaxLots
      /\ FrontIs(ob, side, 1, price, i, id) /\ ob.pool[i].next \in LinkValues /\ side \in Sides
  BY TradeFacts
<1>5. side = Opposite(c.side) /\ Crosses(c, price) /\ d = Continued(c, ob, side, price, i, id, n)
  BY <1>1 DEF TradeIs
<1>6. ContinuedIs(c, d, ob, side, price, i, id, n)
  <2>1. c \in CursorsOf(c.promised)
    BY <1>1 DEF CursorSound
  <2>2. QED BY <1>1, <1>4, <1>5, <2>1, ContinuedFacts
<1>7. /\ SameLimits(c, d) /\ d.quantity = c.quantity /\ d.promised = c.promised
      /\ d.remaining = c.remaining - n
  BY <1>6 DEF ContinuedIs, SameLimits
<1>8. Meets(ob, c, i, id)
  <2>1. PICK l : FrontHeld(ob, L, side, price, i, id, l)
    BY <1>3, <1>4, FrontPlaced
  <2>2. ob.lookup[id] = [side |-> side, price |-> price, node |-> i]
    BY <2>1 DEF FrontHeld
  <2>3. PICK loc : loc = ob.lookup[id]
    OBVIOUS
  <2>4. loc.side = side /\ loc.price = price /\ loc.node = i
    BY <2>2, <2>3
  <2>5. id = ob.pool[i].id
    BY <1>4, Zenon DEF FrontIs
  <2>6. QED BY <1>4, <1>5, <2>3, <2>4, <2>5 DEF Meets
<1>9. Offered(u, c) = Offered(ob, c) - n
  <2>1. CASE n = ob.pool[i].lots
    <3>1. RemoveEffect(ob, L, u, M, id, i, side, price, 1)
      BY <1>2, <2>1 DEF TradeEffect
    <3>2. QED BY <1>3, <1>8, <2>1, <3>1, OfferedRemoved
  <2>2. CASE n # ob.pool[i].lots
    <3>1. CutEffect(ob, u, i, n)
      BY <1>2, <2>2 DEF TradeEffect
    <3>2. n \in Int
      BY <1>4
    <3>3. QED BY <1>3, <1>8, <3>1, <3>2, OfferedCut
  <2>3. QED BY <2>1, <2>2
<1>10. Offered(u, d) = Offered(u, c)
  BY <1>7, WithinSame DEF Offered
<1>11. PICK q, r, a, p : q = c.quantity /\ r = c.remaining /\ a = Offered(ob, c) /\ p = c.promised
  OBVIOUS
<1>12. q \in Int /\ r \in Int /\ a \in Int /\ n \in Int
  <2>1. q \in Int /\ r \in Int
    BY <1>1, <1>4, <1>11, Constants DEF CursorSound, CursorsOf, Lots
  <2>2. a \in Nat
    BY <1>3, <1>11, OfferedFacts
  <2>3. QED BY <1>4, <2>1, <2>2
<1>13. p = (q - r) + Lesser(r, a)
  BY <1>1, <1>11 DEF PromiseKept
<1>14. Lesser(r - n, a - n) = Lesser(r, a) - n
  BY <1>12, LesserLess
<1>15. p = (q - (r - n)) + Lesser(r - n, a - n)
  <2>1. PICK y : y = Lesser(r, a)
    OBVIOUS
  <2>2. y \in Int
    BY <1>12, <2>1 DEF Lesser
  <2>3. (q - r) + y = (q - (r - n)) + (y - n)
    BY <1>12, <2>2
  <2>4. QED BY <1>13, <1>14, <2>1, <2>3
<1>16. PromiseKept(u, d)
  BY <1>7, <1>9, <1>10, <1>11, <1>15 DEF PromiseKept
<1>17. QED BY <1>1, <1>16 DEF PromiseKept

\* Where the loop ends, there is nothing left to fill or nothing to trade with.
LEMMA NothingWithin ==
    ASSUME NEW L, Sound(ob, L), CursorSound(ob, cursor), ~AtLevel, cursor.remaining > 0
    PROVE  Within(ob, cursor) = {}
<1>1. PICK t, side, ls, lists : /\ t = cursor /\ side = Opposite(t.side) /\ ls = ob.levels[side]
                                /\ lists = L[side]
  OBVIOUS
<1>2. t.side \in Sides /\ t.price \in Prices /\ t.remaining > 0 /\ t.level = 1
  BY <1>1 DEF CursorSound, CursorsOf, OnFront
<1>3. side \in Sides /\ Base(ob, L) /\ t.price \in Int
  BY <1>1, <1>2, OppositeFacts, Constants DEF Sound
<1>4. ls \in Seq(LevelRecords) /\ Sorted(side, ls) /\ Len(ls) \in Nat
  BY <1>1, <1>3, BaseLevels
<1>5. Len(ls) >= 1 => ~Crosses(t, ls[1].price)
  <2>1. ~(/\ t.remaining > 0 /\ t.level <= Len(ls) /\ Crosses(t, ls[t.level].price))
    BY <1>1 DEF AtLevel
  <2>2. QED BY <1>2, <1>4, <2>1
<1>6. ASSUME NEW j \in 1 .. Len(ls), Crosses(t, ls[j].price) PROVE FALSE
  <2>1. 1 \in 1 .. Len(ls) /\ Len(ls) >= 1
    BY <1>4
  <2>2. j # 1 /\ 1 < j
    BY <1>4, <1>5, <1>6, <2>1
  <2>3. ~BetterOrEqual(side, ls[j].price, ls[1].price)
    BY <1>4, <2>1, <2>2 DEF Sorted
  <2>4. ls[j].price \in Int /\ ls[1].price \in Int
    BY <1>4, <2>1, LevelFacts
  <2>5. Crosses(t, ls[1].price)
    BY <1>1, <1>2, <1>3, <1>6, <2>3, <2>4, CrossesSooner
  <2>6. QED BY <1>5, <2>1, <2>5
<1>7. Part(ob.used, ls, lists, t, Len(ls)) = {}
  BY <1>6 DEF Part
<1>8. Within(ob, t) = {}
  <2>1. Part(ob.used, ls, lists, t, Len(ls)) = Within(ob, t)
    BY <1>1, <1>2, <1>3, PartIsWithin
  <2>2. QED BY <1>7, <2>1
<1>9. QED BY <1>1, <1>8

\* Between two levels, or with none left, nothing is left to trade with.
LEMMA NothingOffered ==
    ASSUME NEW L, Sound(ob, L), CursorSound(ob, cursor), ~AtLevel, cursor.remaining > 0
    PROVE  Offered(ob, cursor) = 0
BY NothingWithin, TotalEmpty DEF Offered

LEMMA InitMatch == Init => MatchInv
BY InitInv DEF Init, MatchInv

\* Every step keeps the promise of the match.
LEMMA NextMatch == MatchInv /\ [Next]_vars => MatchInv'
<1> SUFFICES ASSUME MatchInv, [Next]_vars PROVE MatchInv'
  OBVIOUS
<1>1. Inv /\ Inv' /\ (cursor # NoTaker => PromiseKept(ob, cursor))
  BY NextInv DEF MatchInv
<1>2. PICK L : Sound(ob, L)
  BY <1>1 DEF Inv
<1>3. cursor # NoTaker => CursorSound(ob, cursor)
  BY <1>1 DEF Inv
<1>4. ASSUME cursor = NoTaker, UNCHANGED cursor PROVE MatchInv'
  BY <1>1, <1>4 DEF MatchInv
<1>5. ASSUME NEW id \in OrderIds, NEW o \in Orders, AddOrder(id, o) \/ ModifyOrder(id, o)
      PROVE  MatchInv'
  BY <1>4, <1>5 DEF AddOrder, ModifyOrder
<1>6. ASSUME NEW id \in OrderIds, CancelOrder(id) PROVE MatchInv'
  BY <1>4, <1>6 DEF CancelOrder
<1>7. ASSUME NEW id \in OrderIds, NEW n \in Lots, CancelOrderPartial(id, n) PROVE MatchInv'
  BY <1>4, <1>7 DEF CancelOrderPartial
<1>8. ASSUME NEW id \in OrderIds, NEW side \in Sides, NEW type \in OrderTypes, NEW price \in Prices,
             NEW lots \in Lots, NEW rest \in BOOLEAN,
             MatchBegin(id, side, type, price, lots, rest)
      PROVE  MatchInv'
  <2>1. PromiseKept(ob', cursor')
    BY <1>2, <1>8, BeginPromise
  <2>2. QED BY <1>1, <2>1 DEF MatchInv
<1>9. ASSUME MatchTrade PROVE MatchInv'
  <2>1. cursor # NoTaker /\ CursorSound(ob, cursor) /\ PromiseKept(ob, cursor)
    BY <1>1, <1>3, <1>9, Zenon DEF MatchTrade
  <2>2. PICK side, price, i, id, n : TradeIs(side, price, i, id, n)
    BY <1>2, <1>9, <2>1, TradeHappens
  <2>3. PromiseKept(ob', cursor')
    BY <1>2, <2>1, <2>2, TradePromise
  <2>4. QED BY <1>1, <2>3 DEF MatchInv
<1>10. ASSUME MatchEnd PROVE MatchInv'
  BY <1>1, <1>10 DEF MatchEnd, MatchInv
<1>11. ASSUME UNCHANGED vars PROVE MatchInv'
  BY <1>1, <1>11 DEF MatchInv, vars
<1>12. QED BY <1>5, <1>6, <1>7, <1>8, <1>9, <1>10, <1>11 DEF Next

\* Where the loop ends, what was promised is what was filled.
LEMMA MatchExact == MatchInv => ExecutableIsExact
<1> SUFFICES ASSUME MatchInv, cursor # NoTaker, ~AtLevel
             PROVE  cursor.quantity - cursor.remaining = cursor.promised
  BY DEF ExecutableIsExact
<1>1. PICK L : Sound(ob, L)
  BY DEF MatchInv, Inv
<1>2. CursorSound(ob, cursor) /\ PromiseKept(ob, cursor)
  BY DEF MatchInv, Inv
<1>3. PICK q, r, a : q = cursor.quantity /\ r = cursor.remaining /\ a = Offered(ob, cursor)
  OBVIOUS
<1>4. q \in Int /\ r \in Nat
  BY <1>2, <1>3, Constants DEF CursorSound, CursorsOf, Lots
<1>5. a \in Nat
  BY <1>1, <1>3, OfferedFacts DEF Sound
<1>6. r > 0 => a = 0
  BY <1>1, <1>2, <1>3, NothingOffered
<1>7. Lesser(r, a) = 0
  BY <1>4, <1>5, <1>6 DEF Lesser
<1>8. cursor.promised = (q - r) + Lesser(r, a)
  BY <1>2, <1>3 DEF PromiseKept
<1>9. QED BY <1>3, <1>4, <1>7, <1>8

\* What executable_lots answers before a match is what the match then fills, to
\* the lot: the fill-or-kill check of match_order, made on the running totals,
\* is right about the trades that the linked nodes give.
THEOREM MatchIsExact == Spec => []ExecutableIsExact
<1>1. Init => MatchInv
  BY InitMatch
<1>2. MatchInv /\ [Next]_vars => MatchInv'
  BY NextMatch
<1>3. MatchInv => ExecutableIsExact
  BY MatchExact
<1>4. QED BY <1>1, <1>2, <1>3, PTL DEF Spec

-----------------------------------------------------------------------------
(* The price-time book that the structure stands for                       *)

OrdersIn(s) ==
    [id \in OrderIds |-> IF s.lookup[id] = NoOrder THEN NoOrder ELSE OrderOf(s, id)]

PairsOf(s, c) ==
    {<<s.pool[c[x[1]]].id, s.pool[c[x[2]]].id>> :
       x \in {y \in (DOMAIN c) \X (DOMAIN c) : y[1] < y[2]}}

AbstractOf(s) == [orders |-> OrdersIn(s), ahead |-> UNION {PairsOf(s, c) : c \in ChainsOf(s)}]

LEMMA AbstractIs == AbstractBook = AbstractOf(ob) /\ AbstractBook' = AbstractOf(ob')
BY DEF AbstractBook, AheadIn, AbstractOf, OrdersIn, PairsOf, ChainsOf, AllLevels, Chain, OrderOf

\* The order x is ahead of y, in the list of the level that both rest in.
InFront(lookup, L, x, y) ==
    /\ lookup[x] # NoOrder /\ lookup[y] # NoOrder
    /\ lookup[y].side = lookup[x].side /\ lookup[y].price = lookup[x].price
    /\ \E j, k \in 1 .. Len(L[lookup[x].side][lookup[x].price]) :
         /\ j < k
         /\ L[lookup[x].side][lookup[x].price][j] = lookup[x].node
         /\ L[lookup[x].side][lookup[x].price][k] = lookup[y].node

\* The node a comes before the node b in the list c.
Precedes(c, a, b) == \E j, k \in 1 .. Len(c) : j < k /\ c[j] = a /\ c[k] = b

LEMMA InFrontIs ==
    ASSUME NEW lookup, NEW L, NEW x, NEW y
    PROVE  InFront(lookup, L, x, y) <=>
             /\ lookup[x] # NoOrder /\ lookup[y] # NoOrder
             /\ lookup[y].side = lookup[x].side /\ lookup[y].price = lookup[x].price
             /\ Precedes(L[lookup[x].side][lookup[x].price], lookup[x].node, lookup[y].node)
BY DEF InFront, Precedes

Ahead(lookup, L) == {p \in OrderIds \X OrderIds : InFront(lookup, L, p[1], p[2])}

BookOf(s, L) == [orders |-> OrdersIn(s), ahead |-> Ahead(s.lookup, L)]

LEMMA PairsAre ==
    ASSUME NEW s, NEW c, NEW p
    PROVE  p \in PairsOf(s, c) <=>
             \E j, k \in DOMAIN c : j < k /\ p = <<s.pool[c[j]].id, s.pool[c[k]].id>>
<1>1. ASSUME NEW j \in DOMAIN c, NEW k \in DOMAIN c, j < k,
             p = <<s.pool[c[j]].id, s.pool[c[k]].id>>
      PROVE  p \in PairsOf(s, c)
  <2>1. <<j, k>> \in {y \in (DOMAIN c) \X (DOMAIN c) : y[1] < y[2]}
    BY <1>1
  <2>2. PICK x : x = <<j, k>>
    OBVIOUS
  <2>3. x[1] = j /\ x[2] = k
    BY <2>2
  <2>4. QED BY <1>1, <2>1, <2>2, <2>3 DEF PairsOf
<1>2. ASSUME p \in PairsOf(s, c)
      PROVE  \E j, k \in DOMAIN c : j < k /\ p = <<s.pool[c[j]].id, s.pool[c[k]].id>>
  <2>1. PICK x \in {y \in (DOMAIN c) \X (DOMAIN c) : y[1] < y[2]} :
               p = <<s.pool[c[x[1]]].id, s.pool[c[x[2]]].id>>
    BY <1>2 DEF PairsOf
  <2>2. x[1] \in DOMAIN c /\ x[2] \in DOMAIN c /\ x[1] < x[2]
    OBVIOUS
  <2>3. QED BY <2>1, <2>2
<1>3. QED BY <1>1, <1>2

\* The pairs of orders along the chains are those along the lists.
LEMMA AheadFound ==
    ASSUME NEW s, NEW L, Sound(s, L), NEW p
    PROVE  p \in Ahead(s.lookup, L) <=> \E c \in ChainsOf(s) : p \in PairsOf(s, c)
<1>1. Base(s, L)
  BY DEF Sound
<1>2. ASSUME NEW c \in ChainsOf(s), p \in PairsOf(s, c) PROVE p \in Ahead(s.lookup, L)
  <2>1. PICK side, at : ListOfLevel(s, L, side, at, c)
    BY <1>1, ChainsAre
  <2>2. PICK price : price = s.levels[side][at].price
    OBVIOUS
  <2>3. side \in Sides /\ price \in Prices /\ c = L[side][price]
    BY <2>1, <2>2 DEF ListOfLevel
  <2>4. DOMAIN c = 1 .. Len(c)
    BY <2>1, ListOfLevelFacts
  <2>5. PICK j, k \in 1 .. Len(c) : j < k /\ p = <<s.pool[c[j]].id, s.pool[c[k]].id>>
    BY <1>2, <2>4, PairsAre
  <2>6. PICK x, y, lx, ly : /\ x = s.pool[c[j]].id /\ y = s.pool[c[k]].id
                            /\ lx = s.lookup[x] /\ ly = s.lookup[y]
    OBVIOUS
  <2>7. ListOwned(s.pool, s.used, s.lookup, c, side, price)
    BY <1>1, <2>3, BaseLists
  <2>8. /\ x \in OrderIds /\ lx = [side |-> side, price |-> price, node |-> c[j]]
        /\ c[j] \in s.used /\ s.pool[c[j]].id = x
    BY <2>6, <2>7 DEF ListOwned
  <2>9. /\ y \in OrderIds /\ ly = [side |-> side, price |-> price, node |-> c[k]]
        /\ c[k] \in s.used /\ s.pool[c[k]].id = y
    BY <2>6, <2>7 DEF ListOwned
  <2>10. lx # NoOrder /\ ly # NoOrder
    <3>1. UsedOwned(s.pool, s.used, s.lookup)
      BY <1>1 DEF Base
    <3>2. c[j] \in s.used /\ c[k] \in s.used
      BY <2>8, <2>9
    <3>3. QED BY <2>6, <3>1, <3>2, Zenon DEF UsedOwned
  <2>11. /\ lx.side = side /\ lx.price = price /\ lx.node = c[j]
         /\ ly.side = side /\ ly.price = price /\ ly.node = c[k]
    BY <2>8, <2>9, SMTT(60)
  <2>12. InFront(s.lookup, L, x, y)
    <3>1. Precedes(c, lx.node, ly.node)
      BY <2>5, <2>11, Zenon DEF Precedes
    <3>2. c = L[lx.side][lx.price]
      BY <2>3, <2>11
    <3>3. QED BY <2>6, <2>10, <2>11, <3>1, <3>2, InFrontIs
  <2>13. p = <<x, y>>
    BY <2>5, <2>6
  <2>14. QED BY <2>8, <2>9, <2>12, <2>13 DEF Ahead
<1>3. ASSUME p \in Ahead(s.lookup, L) PROVE \E c \in ChainsOf(s) : p \in PairsOf(s, c)
  <2>1. PICK x \in OrderIds, y \in OrderIds : p = <<x, y>> /\ InFront(s.lookup, L, x, y)
    BY <1>3 DEF Ahead
  <2>2. PICK lx, ly : lx = s.lookup[x] /\ ly = s.lookup[y]
    OBVIOUS
  <2>3. PICK c : c = L[lx.side][lx.price]
    OBVIOUS
  <2>4. lx # NoOrder /\ ly # NoOrder /\ ly.side = lx.side /\ ly.price = lx.price
    BY <2>1, <2>2 DEF InFront
  <2>5. PICK j, k \in 1 .. Len(c) : j < k /\ c[j] = lx.node /\ c[k] = ly.node
    BY <2>1, <2>2, <2>3, Zenon DEF InFront
  <2>6. s.pool[lx.node].id = x /\ s.pool[ly.node].id = y
    BY <1>1, <2>2, <2>4, OrderPlace
  <2>7. lx.side \in Sides /\ lx.price \in Prices
    BY <1>1, <2>2, <2>4, OrderPlace
  <2>8. c \in Seq(Nodes) /\ DOMAIN c = 1 .. Len(c)
    BY <1>1, <2>3, <2>7, BaseLists, SeqRange
  <2>9. p \in PairsOf(s, c)
    BY <2>1, <2>5, <2>6, <2>8, PairsAre
  <2>10. c \in ChainsOf(s)
    <3>1. PICK at, d, m : DropPlace(s, L, x, lx.side, lx.price, lx.node, at, d, m)
      BY <1>1, <2>2, <2>4, OrderFound
    <3>2. ListOfLevel(s, L, lx.side, at, c)
      BY <2>3, <2>7, <3>1 DEF ListOfLevel, DropPlace
    <3>3. QED BY <1>1, <3>2, ChainsAre
  <2>11. QED BY <2>9, <2>10
<1>4. QED BY <1>2, <1>3

LEMMA AbstractBookOf ==
    ASSUME NEW s, NEW L, Sound(s, L)
    PROVE  AbstractOf(s) = BookOf(s, L)
<1>1. UNION {PairsOf(s, c) : c \in ChainsOf(s)} = Ahead(s.lookup, L)
  BY AheadFound
<1>2. QED BY <1>1 DEF AbstractOf, BookOf

-----------------------------------------------------------------------------
(* Its orders, and who comes before whom in a list                         *)

LEMMA OrdersFacts ==
    ASSUME NEW s, NEW L, Sound(s, L)
    PROVE  /\ DOMAIN OrdersIn(s) = OrderIds
           /\ \A id \in OrderIds :
                /\ OrdersIn(s)[id] = NoOrder <=> s.lookup[id] = NoOrder
                /\ s.lookup[id] # NoOrder =>
                     /\ OrdersIn(s)[id] = OrderOf(s, id)
                     /\ OrderOf(s, id) = [side |-> s.lookup[id].side, price |-> s.lookup[id].price,
                                          lots |-> s.pool[s.lookup[id].node].lots]
                     /\ OrderOf(s, id).side = s.lookup[id].side
                     /\ OrderOf(s, id).price = s.lookup[id].price
                     /\ OrderOf(s, id).lots = s.pool[s.lookup[id].node].lots
<1>1. DOMAIN OrdersIn(s) = OrderIds
  BY DEF OrdersIn
<1>2. ASSUME NEW id \in OrderIds, s.lookup[id] # NoOrder
      PROVE  OrderOf(s, id) # NoOrder
  <2> USE DEF Sound
  <2>1. PICK loc, lots, o : /\ loc = s.lookup[id] /\ lots = s.pool[loc.node].lots
                            /\ o = [side |-> loc.side, price |-> loc.price, lots |-> lots]
    OBVIOUS
  <2>2. o = OrderOf(s, id)
    BY <2>1 DEF OrderOf
  <2>3. loc.side \in Sides /\ loc.price \in Prices /\ loc.node \in Nodes /\ loc.node \in s.used
    BY <1>2, <2>1, OrderPlace
  <2>4. lots \in Lots
    <3>1. lots \in 0 .. MaxLots
      BY <2>1, <2>3, BaseFree, PoolFacts
    <3>2. lots > 0
      BY <2>1, <2>3 DEF AllHaveLots
    <3>3. QED BY <3>1, <3>2, Constants DEF Lots
  <2>5. o \in Orders
    BY <2>1, <2>3, <2>4 DEF Orders
  <2>6. QED BY <2>2, <2>5, Constants
<1>3. QED BY <1>1, <1>2 DEF OrdersIn, OrderOf

\* An order that is live rests in its list.
LEMMA OrderRests ==
    ASSUME NEW s, NEW L, Base(s, L), NEW x \in OrderIds, NEW lx, lx = s.lookup[x], lx # NoOrder,
           NEW c, c = L[lx.side][lx.price]
    PROVE  /\ lx.side \in Sides /\ lx.price \in Prices /\ lx.node \in s.used
           /\ c \in Seq(Nodes) /\ Len(c) \in Nat /\ Distinct(c)
           /\ \E j \in 1 .. Len(c) : c[j] = lx.node
<1>1. /\ lx.side \in Sides /\ lx.price \in Prices /\ lx.node \in s.used
      /\ \E j \in 1 .. Len(c) : c[j] = lx.node
  BY OrderPlace
<1>2. c \in Seq(Nodes) /\ Len(c) \in Nat /\ Distinct(c)
  BY <1>1, BaseLists, Zenon
<1>3. QED BY <1>1, <1>2, Zenon

\* Who precedes whom once i is at the end of the list.
LEMMA PrecedesAppended ==
    ASSUME NEW c \in Seq(Nodes), NEW i \in Nodes, NEW d, d = Append(c, i), Distinct(d),
           NEW a \in Nodes, NEW b \in Nodes
    PROVE  /\ a # i /\ b # i => (Precedes(d, a, b) <=> Precedes(c, a, b))
           /\ ~Precedes(d, i, b)
           /\ (\E j \in 1 .. Len(c) : c[j] = a) => Precedes(d, a, i)
<1>1. PICK n \in Nat : n = Len(c)
  BY SeqRange
<1>2. Len(d) = n + 1 /\ (\A k \in 1 .. n : d[k] = c[k]) /\ d[n + 1] = i
  BY <1>1, AppendFacts
<1>3. \A k : k \in 1 .. n + 1 <=> k \in 1 .. n \/ k = n + 1
  OBVIOUS
<1>4. ASSUME a # i, b # i PROVE Precedes(d, a, b) <=> Precedes(c, a, b)
  <2>1. ASSUME Precedes(d, a, b) PROVE Precedes(c, a, b)
    <3>1. PICK j \in 1 .. n + 1, k \in 1 .. n + 1 : j < k /\ d[j] = a /\ d[k] = b
      BY <1>2, <2>1 DEF Precedes
    <3>2. j \in 1 .. n /\ k \in 1 .. n
      BY <1>2, <1>3, <1>4, <3>1
    <3>3. QED BY <1>1, <1>2, <3>1, <3>2 DEF Precedes
  <2>2. ASSUME Precedes(c, a, b) PROVE Precedes(d, a, b)
    <3>1. PICK j \in 1 .. n, k \in 1 .. n : j < k /\ c[j] = a /\ c[k] = b
      BY <1>1, <2>2 DEF Precedes
    <3>2. j \in 1 .. Len(d) /\ k \in 1 .. Len(d) /\ d[j] = a /\ d[k] = b
      BY <1>2, <3>1
    <3>3. QED BY <3>1, <3>2 DEF Precedes
  <2>3. QED BY <2>1, <2>2
<1>5. ASSUME Precedes(d, i, b) PROVE FALSE
  <2>1. PICK j \in 1 .. n + 1, k \in 1 .. n + 1 : j < k /\ d[j] = i
    BY <1>2, <1>5 DEF Precedes
  <2>2. j = n + 1
    BY <1>2, <2>1 DEF Distinct
  <2>3. QED BY <2>1, <2>2
<1>6. ASSUME NEW j \in 1 .. Len(c), c[j] = a PROVE Precedes(d, a, i)
  <2>1. j \in 1 .. Len(d) /\ n + 1 \in 1 .. Len(d) /\ j < n + 1 /\ d[j] = a
    BY <1>1, <1>2, <1>6
  <2>2. QED BY <1>2, <2>1 DEF Precedes
<1>7. QED BY <1>4, <1>5, <1>6

\* Who precedes whom once index m is removed.
LEMMA PrecedesRemoved ==
    ASSUME NEW c \in Seq(Nodes), Distinct(c), NEW m \in 1 .. Len(c), NEW d, d = RemoveAt(c, m),
           NEW a \in Nodes, NEW b \in Nodes, a # c[m], b # c[m]
    PROVE  Precedes(d, a, b) <=> Precedes(c, a, b)
<1>1. PICK n \in Nat : n = Len(c)
  BY SeqRange
<1>2. /\ Len(d) = n - 1 /\ m \in 1 .. n
      /\ \A j \in 1 .. n - 1 : d[j] = IF j < m THEN c[j] ELSE c[j + 1]
  BY <1>1, RemoveFacts
<1>3. ASSUME Precedes(d, a, b) PROVE Precedes(c, a, b)
  <2>1. PICK j \in 1 .. n - 1, k \in 1 .. n - 1 : j < k /\ d[j] = a /\ d[k] = b
    BY <1>2, <1>3 DEF Precedes
  <2>2. PICK j1, k1 : j1 = (IF j < m THEN j ELSE j + 1) /\ k1 = (IF k < m THEN k ELSE k + 1)
    OBVIOUS
  <2>3. j1 \in 1 .. n /\ k1 \in 1 .. n /\ j1 < k1
    BY <1>2, <2>1, <2>2
  <2>4. c[j1] = a /\ c[k1] = b
    BY <1>2, <2>1, <2>2
  <2>5. QED BY <1>1, <2>3, <2>4 DEF Precedes
<1>4. ASSUME Precedes(c, a, b) PROVE Precedes(d, a, b)
  <2>1. PICK j \in 1 .. n, k \in 1 .. n : j < k /\ c[j] = a /\ c[k] = b
    BY <1>1, <1>4 DEF Precedes
  <2>2. j # m /\ k # m
    BY <2>1
  <2>3. PICK j1, k1 : j1 = (IF j < m THEN j ELSE j - 1) /\ k1 = (IF k < m THEN k ELSE k - 1)
    OBVIOUS
  <2>4. j1 \in 1 .. n - 1 /\ k1 \in 1 .. n - 1 /\ j1 < k1
    BY <1>2, <2>1, <2>2, <2>3
  <2>5. d[j1] = a
    <3>1. CASE j < m
      BY <1>2, <2>1, <2>3, <2>4, <3>1
    <3>2. CASE ~(j < m)
      <4>1. j1 = j - 1 /\ ~(j1 < m) /\ j1 + 1 = j
        BY <1>2, <2>1, <2>2, <2>3, <3>2
      <4>2. QED BY <1>2, <2>1, <2>4, <4>1
    <3>3. QED BY <3>1, <3>2
  <2>6. d[k1] = b
    <3>1. CASE k < m
      BY <1>2, <2>1, <2>3, <2>4, <3>1
    <3>2. CASE ~(k < m)
      <4>1. k1 = k - 1 /\ ~(k1 < m) /\ k1 + 1 = k
        BY <1>2, <2>1, <2>2, <2>3, <3>2
      <4>2. QED BY <1>2, <2>1, <2>4, <4>1
    <3>3. QED BY <3>1, <3>2
  <2>7. QED BY <1>2, <2>4, <2>5, <2>6 DEF Precedes
<1>5. QED BY <1>3, <1>4

-----------------------------------------------------------------------------
(* What the operations do to who is in front of whom                       *)

\* A list with one node more keeps the order of the others.
LEMMA PrecedesKept ==
    ASSUME NEW c \in Seq(Nodes), NEW i \in Nodes, NEW d, IsAppended(c, i, d), Distinct(d),
           NEW a \in Nodes, NEW b \in Nodes, a # i, b # i
    PROVE  Precedes(d, a, b) <=> Precedes(c, a, b)
BY PrecedesAppended DEF IsAppended

\* An added order is behind every order of its level, and the others are as they were.
LEMMA InFrontAdded ==
    ASSUME NEW s, NEW L, Sound(s, L), NEW u, NEW M, Sound(u, M), NEW id \in OrderIds,
           NEW o \in Orders, NEW i, AddEffect(s, L, u, M, id, o, i), s.lookup[id] = NoOrder,
           NEW x \in OrderIds, NEW y \in OrderIds
    PROVE  InFront(u.lookup, M, x, y) <=>
             \/ InFront(s.lookup, L, x, y)
             \/ /\ y = id /\ s.lookup[x] # NoOrder
                /\ s.lookup[x].side = o.side /\ s.lookup[x].price = o.price
<1>1. Base(s, L) /\ Base(u, M)
  BY DEF Sound
<1>2. PICK side, price : side = o.side /\ price = o.price
  OBVIOUS
<1>3. side \in Sides /\ price \in Prices
  BY <1>2, OrderFacts
<1>4. PICK c, d : c = L[side][price] /\ d = Append(c, i)
  OBVIOUS
<1>5. /\ i \in Nodes /\ i \notin s.used /\ u.lookup[id] = [side |-> side, price |-> price, node |-> i]
      /\ OthersSame(s.lookup, u.lookup, id) /\ M = WithList(L, side, price, d)
  BY <1>2, <1>4 DEF AddEffect
<1>6. c \in Seq(Nodes)
  BY <1>1, <1>3, <1>4, BaseLists
<1>7. d \in Seq(Nodes)
  BY <1>4, <1>5, <1>6, AppendFacts
<1>8. ListReplaced(L, M, side, price, d)
  <2>1. L \in Lists
    BY <1>1 DEF Base
  <2>2. QED BY <1>3, <1>5, <1>7, <2>1, WithListFacts
<1>9. /\ M[side][price] = d
      /\ \A other \in Sides, at \in Prices :
           other # side \/ at # price => M[other][at] = L[other][at]
  BY <1>8 DEF ListReplaced
<1>10. Distinct(d)
  BY <1>1, <1>3, <1>9, BaseLists
<1>11. DOMAIN s.lookup = OrderIds
  BY <1>1, BaseFree
<1>12. \A z \in OrderIds : z # id => u.lookup[z] = s.lookup[z]
  BY <1>5, <1>11 DEF OthersSame
<1>13. PICK l : l = u.lookup[id]
  OBVIOUS
<1>14. l.side = side /\ l.price = price /\ l.node = i
  BY <1>5, <1>13
<1>15. l # NoOrder
  <2>1. l \in Locators
    BY <1>3, <1>5, <1>13 DEF Locators
  <2>2. QED BY <2>1, Constants
<1>16. CASE x = id
  <2>1. ~InFront(s.lookup, L, x, y)
    BY <1>16 DEF InFront
  <2>2. ~InFront(u.lookup, M, x, y)
    <3>1. ASSUME InFront(u.lookup, M, x, y) PROVE FALSE
      <4>1. PICK ly : ly = u.lookup[y]
        OBVIOUS
      <4>2. ly # NoOrder /\ Precedes(d, i, ly.node)
        BY <1>9, <1>13, <1>14, <1>16, <3>1, <4>1, InFrontIs
      <4>3. ly.node \in Nodes
        BY <1>1, <4>1, <4>2, OrderPlace
      <4>4. QED BY <1>4, <1>5, <1>6, <1>10, <4>2, <4>3, PrecedesAppended
    <3>2. QED BY <3>1
  <2>3. QED BY <1>16, <2>1, <2>2
<1>17. CASE x # id /\ y = id
  <2>1. ~InFront(s.lookup, L, x, y)
    BY <1>17 DEF InFront
  <2>2. PICK lx : lx = s.lookup[x] /\ lx = u.lookup[x]
    BY <1>12, <1>17
  <2>3. ASSUME InFront(u.lookup, M, x, y)
        PROVE  lx # NoOrder /\ lx.side = side /\ lx.price = price
    BY <1>13, <1>14, <1>17, <2>2, <2>3 DEF InFront
  <2>4. ASSUME lx # NoOrder, lx.side = side, lx.price = price
        PROVE  InFront(u.lookup, M, x, y)
    <3>1. \E j \in 1 .. Len(c) : c[j] = lx.node
      <4>1. c = L[lx.side][lx.price]
        BY <1>4, <2>4
      <4>2. lx = s.lookup[x] /\ lx # NoOrder
        BY <2>2, <2>4
      <4>3. QED BY <1>1, <4>1, <4>2, OrderRests
    <3>2. lx.node \in Nodes
      BY <1>1, <2>2, <2>4, OrderPlace
    <3>3. Precedes(d, lx.node, i)
      <4>1. d = Append(c, i) /\ i \in Nodes
        BY <1>4, <1>5
      <4>2. PICK a : a = lx.node
        OBVIOUS
      <4>3. a \in Nodes /\ \E j \in 1 .. Len(c) : c[j] = a
        BY <3>1, <3>2, <4>2
      <4>4. Precedes(d, a, i)
        BY <1>6, <1>10, <4>1, <4>3, PrecedesAppended
      <4>5. QED BY <4>2, <4>4
    <3>4. QED BY <1>9, <1>13, <1>14, <1>15, <1>17, <2>2, <2>4, <3>3, InFrontIs
  <2>5. QED BY <1>2, <1>17, <2>1, <2>2, <2>3, <2>4
<1>18. CASE x # id /\ y # id
  <2>1. PICK lx, ly : lx = s.lookup[x] /\ ly = s.lookup[y]
    OBVIOUS
  <2>2. u.lookup[x] = lx /\ u.lookup[y] = ly
    BY <1>12, <1>18, <2>1
  <2>3. PICK e, f : e = L[lx.side][lx.price] /\ f = M[lx.side][lx.price]
    OBVIOUS
  <2>4. InFront(s.lookup, L, x, y) <=>
          /\ lx # NoOrder /\ ly # NoOrder /\ ly.side = lx.side /\ ly.price = lx.price
          /\ Precedes(e, lx.node, ly.node)
    BY <2>1, <2>3, InFrontIs
  <2>5. InFront(u.lookup, M, x, y) <=>
          /\ lx # NoOrder /\ ly # NoOrder /\ ly.side = lx.side /\ ly.price = lx.price
          /\ Precedes(f, lx.node, ly.node)
    BY <2>2, <2>3, InFrontIs
  <2>6. ASSUME lx # NoOrder, ly # NoOrder
        PROVE  Precedes(f, lx.node, ly.node) <=> Precedes(e, lx.node, ly.node)
    <3>1. /\ lx.side \in Sides /\ lx.price \in Prices /\ lx.node \in Nodes /\ lx.node \in s.used
          /\ ly.node \in Nodes /\ ly.node \in s.used
      BY <1>1, <2>1, <2>6, OrderPlace
    <3>2. CASE lx.side = side /\ lx.price = price
      <4>1. e = c /\ f = d
        BY <1>4, <1>9, <2>3, <3>2
      <4>2. lx.node # i /\ ly.node # i
        BY <1>5, <3>1
      <4>3. Precedes(d, lx.node, ly.node) <=> Precedes(c, lx.node, ly.node)
        <5>1. IsAppended(c, i, d)
          BY <1>4 DEF IsAppended
        <5>2. QED BY <1>5, <1>6, <1>10, <3>1, <4>2, <5>1, PrecedesKept
      <4>4. QED BY <4>1, <4>3
    <3>3. CASE ~(lx.side = side /\ lx.price = price)
      <4>1. e = f
        BY <1>9, <2>3, <3>1, <3>3
      <4>2. QED BY <4>1
    <3>4. QED BY <3>2, <3>3
  <2>7. QED BY <1>18, <2>4, <2>5, <2>6
<1>19. QED BY <1>16, <1>17, <1>18

\* A removed order leaves the others as they were.
LEMMA InFrontRemoved ==
    ASSUME NEW s, NEW L, Sound(s, L), NEW u, NEW M, Sound(u, M), NEW id \in OrderIds,
           s.lookup[id] # NoOrder, NEW k, CancelEffect(s, L, u, M, id, k),
           NEW x \in OrderIds, NEW y \in OrderIds
    PROVE  InFront(u.lookup, M, x, y) <=> InFront(s.lookup, L, x, y) /\ x # id /\ y # id
<1>1. Base(s, L) /\ Base(u, M)
  BY DEF Sound
<1>2. PICK l : l = s.lookup[id]
  OBVIOUS
<1>3. PICK side, price, i : side = l.side /\ price = l.price /\ i = l.node
  OBVIOUS
<1>4. PICK c, d : c = L[side][price] /\ d = RemoveAt(c, k)
  OBVIOUS
<1>5. k \in 1 .. Len(c) /\ c[k] = i
  BY <1>2, <1>3, <1>4 DEF CancelEffect, RestsAt
<1>6. /\ u.lookup[id] = NoOrder /\ OthersSame(s.lookup, u.lookup, id)
      /\ M = WithList(L, side, price, d)
  BY <1>2, <1>3, <1>4, Zenon DEF CancelEffect, RemoveEffect
<1>7. side \in Sides /\ price \in Prices
  BY <1>1, <1>2, <1>3, OrderPlace
<1>8. c \in Seq(Nodes) /\ Distinct(c)
  BY <1>1, <1>4, <1>7, BaseLists
<1>9. d \in Seq(Nodes)
  BY <1>4, <1>5, <1>8, RemoveFacts
<1>10. ListReplaced(L, M, side, price, d)
  <2>1. L \in Lists
    BY <1>1 DEF Base
  <2>2. QED BY <1>6, <1>7, <1>9, <2>1, WithListFacts
<1>11. /\ M[side][price] = d
       /\ \A other \in Sides, at \in Prices :
            other # side \/ at # price => M[other][at] = L[other][at]
  BY <1>10 DEF ListReplaced
<1>12. DOMAIN s.lookup = OrderIds
  BY <1>1, BaseFree
<1>13. \A z \in OrderIds : z # id => u.lookup[z] = s.lookup[z]
  BY <1>6, <1>12 DEF OthersSame
<1>14. CASE x = id \/ y = id
  <2>1. ~InFront(u.lookup, M, x, y)
    BY <1>6, <1>14 DEF InFront
  <2>2. QED BY <1>14, <2>1
<1>15. CASE x # id /\ y # id
  <2>1. PICK lx, ly : lx = s.lookup[x] /\ ly = s.lookup[y]
    OBVIOUS
  <2>2. u.lookup[x] = lx /\ u.lookup[y] = ly
    BY <1>13, <1>15, <2>1
  <2>3. PICK e, f : e = L[lx.side][lx.price] /\ f = M[lx.side][lx.price]
    OBVIOUS
  <2>4. InFront(s.lookup, L, x, y) <=>
          /\ lx # NoOrder /\ ly # NoOrder /\ ly.side = lx.side /\ ly.price = lx.price
          /\ Precedes(e, lx.node, ly.node)
    BY <2>1, <2>3, InFrontIs
  <2>5. InFront(u.lookup, M, x, y) <=>
          /\ lx # NoOrder /\ ly # NoOrder /\ ly.side = lx.side /\ ly.price = lx.price
          /\ Precedes(f, lx.node, ly.node)
    BY <2>2, <2>3, InFrontIs
  <2>6. ASSUME lx # NoOrder, ly # NoOrder
        PROVE  Precedes(f, lx.node, ly.node) <=> Precedes(e, lx.node, ly.node)
    <3>1. /\ lx.side \in Sides /\ lx.price \in Prices /\ lx.node \in Nodes /\ s.pool[lx.node].id = x
          /\ ly.node \in Nodes /\ s.pool[ly.node].id = y
      BY <1>1, <2>1, <2>6, OrderPlace
    <3>2. CASE lx.side = side /\ lx.price = price
      <4>1. e = c /\ f = d
        BY <1>4, <1>11, <2>3, <3>2
      <4>2. s.pool[i].id = id
        BY <1>1, <1>2, <1>3, OrderPlace
      <4>3. lx.node # c[k] /\ ly.node # c[k]
        BY <1>5, <1>15, <3>1, <4>2
      <4>4. Precedes(d, lx.node, ly.node) <=> Precedes(c, lx.node, ly.node)
        BY <1>4, <1>5, <1>8, <3>1, <4>3, PrecedesRemoved
      <4>5. QED BY <4>1, <4>4
    <3>3. CASE ~(lx.side = side /\ lx.price = price)
      <4>1. e = f
        BY <1>11, <2>3, <3>1, <3>3
      <4>2. QED BY <4>1
    <3>4. QED BY <3>2, <3>3
  <2>7. QED BY <1>15, <2>4, <2>5, <2>6
<1>16. QED BY <1>14, <1>15

-----------------------------------------------------------------------------
(* What the operations do to the price-time book                           *)

LEMMA BookFields ==
    ASSUME NEW s, NEW L
    PROVE  BookOf(s, L).orders = OrdersIn(s) /\ BookOf(s, L).ahead = Ahead(s.lookup, L)
BY DEF BookOf

\* What the abstract book knows of its orders, in terms of the lookup table.
LEMMA BookSets ==
    ASSUME NEW s, NEW L, Sound(s, L), NEW b, b = BookOf(s, L)
    PROVE  /\ Book!Live(b) = {x \in OrderIds : s.lookup[x] # NoOrder}
           /\ \A side : Book!SideOf(b, side) =
                {x \in OrderIds : s.lookup[x] # NoOrder /\ s.lookup[x].side = side}
           /\ \A side, price : Book!Level(b, side, price) =
                {x \in OrderIds : /\ s.lookup[x] # NoOrder
                                  /\ s.lookup[x].side = side /\ s.lookup[x].price = price}
<1>1. b.orders = OrdersIn(s)
  BY BookFields
<1>2. \A x \in OrderIds : /\ b.orders[x] = NoOrder <=> s.lookup[x] = NoOrder
                          /\ s.lookup[x] # NoOrder => /\ b.orders[x].side = s.lookup[x].side
                                                      /\ b.orders[x].price = s.lookup[x].price
  BY <1>1, OrdersFacts
<1>3. Book!Live(b) = {x \in OrderIds : s.lookup[x] # NoOrder}
  BY <1>2 DEF Book!Live
<1>4. \A side : Book!SideOf(b, side) =
        {x \in OrderIds : s.lookup[x] # NoOrder /\ s.lookup[x].side = side}
  BY <1>2, <1>3 DEF Book!SideOf
<1>5. \A side, price : Book!Level(b, side, price) =
        {x \in OrderIds : /\ s.lookup[x] # NoOrder
                          /\ s.lookup[x].side = side /\ s.lookup[x].price = price}
  BY <1>2, <1>4 DEF Book!Level
<1>6. QED BY <1>3, <1>4, <1>5

\* add_order adds the order, behind those at its price.
LEMMA BookAdded ==
    ASSUME NEW s, NEW L, Sound(s, L), NEW u, NEW M, Sound(u, M), NEW id \in OrderIds,
           NEW o \in Orders, NEW i, AddEffect(s, L, u, M, id, o, i), s.lookup[id] = NoOrder
    PROVE  BookOf(u, M) = Book!Added(BookOf(s, L), id, o)
<1>1. PICK b : b = BookOf(s, L)
  OBVIOUS
<1>2. b.orders = OrdersIn(s) /\ b.ahead = Ahead(s.lookup, L)
  BY <1>1, BookFields
<1>3. Base(s, L) /\ Base(u, M)
  BY DEF Sound
<1>4. OrdersIn(u) = [OrdersIn(s) EXCEPT ![id] = o]
  <2>1. PICK l : l = u.lookup[id]
    OBVIOUS
  <2>2. l = [side |-> o.side, price |-> o.price, node |-> i]
    BY <2>1 DEF AddEffect
  <2>3. l.side = o.side /\ l.price = o.price /\ l.node = i
    BY <2>2
  <2>4. l # NoOrder
    <3>1. l \in Locators
      BY <2>2, OrderFacts DEF Locators, AddEffect
    <3>2. QED BY <3>1, Constants
  <2>5. OrdersIn(u)[id] = o
    <3>1. u.pool[i].lots = o.lots
      BY DEF AddEffect
    <3>2. OrdersIn(u)[id] = [side |-> o.side, price |-> o.price, lots |-> o.lots]
      BY <2>1, <2>3, <2>4, <3>1, OrdersFacts
    <3>3. o = [side |-> o.side, price |-> o.price, lots |-> o.lots]
      BY DEF Orders
    <3>4. QED BY <3>2, <3>3
  <2>6. ASSUME NEW x \in OrderIds, x # id PROVE OrdersIn(u)[x] = OrdersIn(s)[x]
    <3>1. PICK lx : lx = s.lookup[x]
      OBVIOUS
    <3>2. u.lookup[x] = lx
      <4>1. DOMAIN s.lookup = OrderIds
        BY <1>3, BaseFree
      <4>2. QED BY <2>6, <3>1, <4>1 DEF AddEffect, OthersSame
    <3>3. CASE lx = NoOrder
      <4>1. s.lookup[x] = NoOrder /\ u.lookup[x] = NoOrder
        BY <3>1, <3>2, <3>3
      <4>2. OrdersIn(s)[x] = NoOrder
        BY <4>1, OrdersFacts
      <4>3. OrdersIn(u)[x] = NoOrder
        BY <4>1, OrdersFacts
      <4>4. QED BY <4>2, <4>3
    <3>4. CASE lx # NoOrder
      <4>1. lx.node \in s.used
        BY <1>3, <3>1, <3>4, OrderPlace
      <4>2. u.pool[lx.node].lots = s.pool[lx.node].lots
        BY <4>1 DEF AddEffect, SameOrders
      <4>3. /\ OrdersIn(u)[x] = [side |-> lx.side, price |-> lx.price,
                                 lots |-> u.pool[lx.node].lots]
            /\ OrdersIn(s)[x] = [side |-> lx.side, price |-> lx.price,
                                 lots |-> s.pool[lx.node].lots]
        BY <3>1, <3>2, <3>4, OrdersFacts
      <4>4. QED BY <4>2, <4>3
    <3>5. QED BY <3>3, <3>4
  <2>7. PICK f, g : f = OrdersIn(s) /\ g = OrdersIn(u)
    OBVIOUS
  <2>8. f = [x \in OrderIds |-> f[x]] /\ g = [x \in OrderIds |-> g[x]]
    BY <2>7 DEF OrdersIn
  <2>9. g[id] = o /\ \A x \in OrderIds : x # id => g[x] = f[x]
    BY <2>5, <2>6, <2>7
  <2>10. g = [f EXCEPT ![id] = o]
    BY <2>8, <2>9
  <2>11. QED BY <2>7, <2>10
<1>5. PICK S : S = Book!Level(b, o.side, o.price)
  OBVIOUS
<1>6. \A x : x \in S <=> /\ x \in OrderIds /\ s.lookup[x] # NoOrder
                         /\ s.lookup[x].side = o.side /\ s.lookup[x].price = o.price
  BY <1>1, <1>5, BookSets
<1>7. Ahead(u.lookup, M) = Ahead(s.lookup, L) \cup (S \X {id})
  <2>1. ASSUME NEW p PROVE p \in Ahead(u.lookup, M) <=> p \in Ahead(s.lookup, L) \cup (S \X {id})
    <3>1. CASE p \in OrderIds \X OrderIds
      <4>1. PICK x \in OrderIds, y \in OrderIds : p = <<x, y>>
        BY <3>1
      <4>2. /\ p \in Ahead(u.lookup, M) <=> InFront(u.lookup, M, x, y)
            /\ p \in Ahead(s.lookup, L) <=> InFront(s.lookup, L, x, y)
        BY <4>1 DEF Ahead
      <4>3. p \in S \X {id} <=> x \in S /\ y = id
        BY <4>1
      <4>4. InFront(u.lookup, M, x, y) <=> InFront(s.lookup, L, x, y) \/ (y = id /\ x \in S)
        BY <1>6, InFrontAdded
      <4>5. QED BY <4>2, <4>3, <4>4
    <3>2. CASE p \notin OrderIds \X OrderIds
      <4>1. p \notin Ahead(u.lookup, M) /\ p \notin Ahead(s.lookup, L)
        BY <3>2 DEF Ahead
      <4>2. S \X {id} \subseteq OrderIds \X OrderIds
        BY <1>6
      <4>3. QED BY <3>2, <4>1, <4>2
    <3>3. QED BY <3>1, <3>2
  <2>2. QED BY <2>1
<1>8. Book!Added(b, id, o) = [orders |-> [b.orders EXCEPT ![id] = o], ahead |-> b.ahead \cup (S \X {id})]
  BY <1>5 DEF Book!Added
<1>9. BookOf(u, M) = [orders |-> OrdersIn(u), ahead |-> Ahead(u.lookup, M)]
  BY DEF BookOf
<1>10. QED BY <1>1, <1>2, <1>4, <1>7, <1>8, <1>9

\* cancel_order takes the order away, and with it its place.
LEMMA BookCanceled ==
    ASSUME NEW s, NEW L, Sound(s, L), NEW u, NEW M, Sound(u, M), NEW id \in OrderIds,
           s.lookup[id] # NoOrder, NEW k, CancelEffect(s, L, u, M, id, k)
    PROVE  BookOf(u, M) = Book!Canceled(BookOf(s, L), id)
<1>1. PICK b : b = BookOf(s, L)
  OBVIOUS
<1>2. b.orders = OrdersIn(s) /\ b.ahead = Ahead(s.lookup, L)
  BY <1>1, BookFields
<1>3. Base(s, L) /\ Base(u, M)
  BY DEF Sound
<1>4. PICK i : i = s.lookup[id].node
  OBVIOUS
<1>5. /\ u.lookup[id] = NoOrder /\ OthersSame(s.lookup, u.lookup, id)
      /\ u.used = s.used \ {i} /\ SameOrders(s.pool, u.pool, u.used)
  BY <1>4 DEF CancelEffect, RemoveEffect
<1>6. OrdersIn(u) = [OrdersIn(s) EXCEPT ![id] = NoOrder]
  <2>1. OrdersIn(u)[id] = NoOrder
    BY <1>5, OrdersFacts
  <2>2. ASSUME NEW x \in OrderIds, x # id PROVE OrdersIn(u)[x] = OrdersIn(s)[x]
    <3>1. PICK lx : lx = s.lookup[x]
      OBVIOUS
    <3>2. u.lookup[x] = lx
      <4>1. DOMAIN s.lookup = OrderIds
        BY <1>3, BaseFree
      <4>2. QED BY <1>5, <2>2, <3>1, <4>1 DEF OthersSame
    <3>3. CASE lx = NoOrder
      <4>1. s.lookup[x] = NoOrder /\ u.lookup[x] = NoOrder
        BY <3>1, <3>2, <3>3
      <4>2. OrdersIn(s)[x] = NoOrder
        BY <4>1, OrdersFacts
      <4>3. OrdersIn(u)[x] = NoOrder
        BY <4>1, OrdersFacts
      <4>4. QED BY <4>2, <4>3
    <3>4. CASE lx # NoOrder
      <4>1. lx.node \in u.used
        BY <1>3, <3>2, <3>4, OrderPlace
      <4>2. u.pool[lx.node].lots = s.pool[lx.node].lots
        BY <1>5, <4>1 DEF SameOrders
      <4>3. /\ OrdersIn(u)[x] = [side |-> lx.side, price |-> lx.price,
                                 lots |-> u.pool[lx.node].lots]
            /\ OrdersIn(s)[x] = [side |-> lx.side, price |-> lx.price,
                                 lots |-> s.pool[lx.node].lots]
        BY <3>1, <3>2, <3>4, OrdersFacts
      <4>4. QED BY <4>2, <4>3
    <3>5. QED BY <3>3, <3>4
  <2>3. PICK f, g : f = OrdersIn(s) /\ g = OrdersIn(u)
    OBVIOUS
  <2>4. f = [x \in OrderIds |-> f[x]] /\ g = [x \in OrderIds |-> g[x]]
    BY <2>3 DEF OrdersIn
  <2>5. g[id] = NoOrder /\ \A x \in OrderIds : x # id => g[x] = f[x]
    BY <2>1, <2>2, <2>3
  <2>6. g = [f EXCEPT ![id] = NoOrder]
    BY <2>4, <2>5
  <2>7. QED BY <2>3, <2>6
<1>7. Ahead(u.lookup, M) = {p \in Ahead(s.lookup, L) : p[1] # id /\ p[2] # id}
  <2>1. ASSUME NEW p \in OrderIds \X OrderIds
        PROVE  p \in Ahead(u.lookup, M) <=> p \in Ahead(s.lookup, L) /\ p[1] # id /\ p[2] # id
    <3>1. InFront(u.lookup, M, p[1], p[2]) <=>
            InFront(s.lookup, L, p[1], p[2]) /\ p[1] # id /\ p[2] # id
      BY InFrontRemoved
    <3>2. QED BY <3>1 DEF Ahead
  <2>2. Ahead(u.lookup, M) \subseteq OrderIds \X OrderIds
        /\ Ahead(s.lookup, L) \subseteq OrderIds \X OrderIds
    BY DEF Ahead
  <2>3. QED BY <2>1, <2>2
<1>8. Book!Canceled(b, id) = [orders |-> [b.orders EXCEPT ![id] = NoOrder],
                              ahead |-> {p \in b.ahead : p[1] # id /\ p[2] # id}]
  BY DEF Book!Canceled
<1>9. BookOf(u, M) = [orders |-> OrdersIn(u), ahead |-> Ahead(u.lookup, M)]
  BY DEF BookOf
<1>10. QED BY <1>1, <1>2, <1>6, <1>7, <1>8, <1>9

\* The order id of the map f.
OrderHeld(f, id, side, price, lots) == f[id] = [side |-> side, price |-> price, lots |-> lots]

\* The order of a locator.
LEMMA OrderHolds ==
    ASSUME NEW s, NEW L, Sound(s, L), NEW id \in OrderIds, NEW l, l = s.lookup[id], l # NoOrder,
           NEW f, f = OrdersIn(s), NEW lots, lots = s.pool[l.node].lots
    PROVE  OrderHeld(f, id, l.side, l.price, lots)
<1>1. s.lookup[id] # NoOrder
  OBVIOUS
<1>2. OrdersIn(s)[id] = OrderOf(s, id)
  BY <1>1, OrdersFacts
<1>3. OrderOf(s, id) = [side |-> l.side, price |-> l.price, lots |-> lots]
  BY <1>1, Zenon DEF OrderOf
<1>4. QED BY <1>2, <1>3, Zenon DEF OrderHeld

\* The book b is the book a but for n lots of the order id.
IsCut(a, b, id, n) == b = [orders |-> [a.orders EXCEPT ![id].lots = @ - n], ahead |-> a.ahead]

\* A partial cancellation keeps every place.
LEMMA BookCut ==
    ASSUME NEW s, NEW L, Sound(s, L), NEW u, Sound(u, L), NEW id \in OrderIds,
           s.lookup[id] # NoOrder, NEW i, i = s.lookup[id].node, NEW n, CutEffect(s, u, i, n)
    PROVE  IsCut(BookOf(s, L), BookOf(u, L), id, n)
<1>1. Base(s, L) /\ Base(u, L)
  BY DEF Sound
<1>2. /\ u.lookup = s.lookup /\ u.pool[i].lots = s.pool[i].lots - n
      /\ SameOrders(s.pool, u.pool, s.used \ {i})
  BY DEF CutEffect
<1>3. PICK f, g : f = OrdersIn(s) /\ g = OrdersIn(u)
  OBVIOUS
<1>4. f = [x \in OrderIds |-> f[x]] /\ g = [x \in OrderIds |-> g[x]]
  BY <1>3 DEF OrdersIn
<1>5. PICK l, lots : l = s.lookup[id] /\ lots = s.pool[i].lots
  OBVIOUS
<1>6. /\ f[id] = [side |-> l.side, price |-> l.price, lots |-> lots]
      /\ g[id] = [side |-> l.side, price |-> l.price, lots |-> lots - n]
  <2>1. OrderHeld(f, id, l.side, l.price, lots)
    <3>1. lots = s.pool[l.node].lots /\ l # NoOrder
      BY <1>5
    <3>2. QED BY <1>3, <1>5, <3>1, OrderHolds
  <2>2. OrderHeld(g, id, l.side, l.price, lots - n)
    <3>1. /\ l = u.lookup[id] /\ l # NoOrder
          /\ lots - n = u.pool[l.node].lots
      BY <1>2, <1>5
    <3>2. QED BY <1>3, <3>1, OrderHolds
  <2>3. QED BY <2>1, <2>2, Zenon DEF OrderHeld
<1>7. g[id] = [f[id] EXCEPT !.lots = @ - n]
  <2>1. PICK a : a = f[id]
    OBVIOUS
  <2>2. a = [side |-> l.side, price |-> l.price, lots |-> lots]
    BY <1>6, <2>1
  <2>3. [a EXCEPT !.lots = @ - n] = [side |-> l.side, price |-> l.price, lots |-> lots - n]
    BY <2>2
  <2>4. QED BY <1>6, <2>1, <2>3
<1>8. ASSUME NEW x \in OrderIds, x # id PROVE g[x] = f[x]
  <2>1. PICK lx : lx = s.lookup[x]
    OBVIOUS
  <2>2. CASE lx = NoOrder
    <3>1. s.lookup[x] = NoOrder /\ u.lookup[x] = NoOrder
      BY <1>2, <2>1, <2>2
    <3>2. OrdersIn(s)[x] = NoOrder
      BY <3>1, OrdersFacts
    <3>3. OrdersIn(u)[x] = NoOrder
      BY <3>1, OrdersFacts
    <3>4. QED BY <1>3, <3>2, <3>3
  <2>3. CASE lx # NoOrder
    <3>1. lx.node \in s.used /\ s.pool[lx.node].id = x
      BY <1>1, <2>1, <2>3, OrderPlace
    <3>2. s.pool[i].id = id
      BY <1>1, <1>5, OrderPlace
    <3>3. u.pool[lx.node].lots = s.pool[lx.node].lots
      BY <1>2, <1>8, <3>1, <3>2 DEF SameOrders
    <3>4. /\ g[x] = [side |-> lx.side, price |-> lx.price, lots |-> u.pool[lx.node].lots]
          /\ f[x] = [side |-> lx.side, price |-> lx.price, lots |-> s.pool[lx.node].lots]
      <4>1. OrderHeld(f, x, lx.side, lx.price, s.pool[lx.node].lots)
        BY <1>3, <2>1, <2>3, OrderHolds
      <4>2. lx = u.lookup[x]
        BY <1>2, <2>1
      <4>3. OrderHeld(g, x, lx.side, lx.price, u.pool[lx.node].lots)
        BY <1>3, <2>3, <4>2, OrderHolds
      <4>4. QED BY <4>1, <4>3, Zenon DEF OrderHeld
    <3>5. QED BY <3>3, <3>4
  <2>4. QED BY <2>2, <2>3
<1>9. g = [f EXCEPT ![id].lots = @ - n]
  <2>1. PICK a : a = [f[id] EXCEPT !.lots = @ - n]
    OBVIOUS
  <2>2. g = [f EXCEPT ![id] = a]
    BY <1>4, <1>7, <1>8, <2>1
  <2>3. [f EXCEPT ![id].lots = @ - n] = [f EXCEPT ![id] = a]
    BY <1>4, <2>1
  <2>4. QED BY <2>2, <2>3
<1>10. QED BY <1>2, <1>3, <1>9 DEF BookOf, IsCut

-----------------------------------------------------------------------------
(* Capacity: nodes for orders, levels for the prices they rest at          *)

\* The identifiers of the orders that rest.
Resting(lookup) == {x \in OrderIds : lookup[x] # NoOrder}

\* As many nodes are in use as orders rest.
LEMMA NodesForOrders ==
    ASSUME NEW s, NEW L, Base(s, L)
    PROVE  /\ IsFiniteSet(s.used) /\ IsFiniteSet(Resting(s.lookup))
           /\ Cardinality(Resting(s.lookup)) = Cardinality(s.used)
<1>1. PICK R : R = Resting(s.lookup)
  OBVIOUS
<1>2. PICK f : f = [x \in R |-> s.lookup[x].node]
  OBVIOUS
<1>3. ASSUME NEW x \in R
      PROVE  x \in OrderIds /\ f[x] \in s.used /\ s.pool[f[x]].id = x
  BY <1>1, <1>2, OrderPlace DEF Resting
<1>4. ASSUME NEW i \in s.used PROVE s.pool[i].id \in R /\ f[s.pool[i].id] = i
  BY <1>1, <1>2 DEF Base, UsedOwned, Resting
<1>5. f \in [R -> s.used]
  BY <1>2, <1>3
<1>6. IsInjective(f)
  BY <1>3, <1>5 DEF IsInjective
<1>7. f \in Bijection(R, s.used)
  BY <1>4, <1>5, <1>6 DEF Bijection, Injection, Surjection
<1>8. ExistsBijection(R, s.used)
  BY <1>7 DEF ExistsBijection
<1>9. IsFiniteSet(R)
  <2>1. R \in SUBSET OrderIds
    BY <1>1 DEF Resting
  <2>2. QED BY <2>1, Constants, FS_Subset
<1>10. QED BY <1>1, <1>8, <1>9, FS_Bijection

\* A node is free just when fewer orders rest than the pool has nodes.
LEMMA NodeFree ==
    ASSUME NEW s, NEW L, Base(s, L)
    PROVE  s.free # <<>> <=> Cardinality(Resting(s.lookup)) < PoolSize
<1>1. /\ s.free \in Seq(Nodes) /\ Range(s.free) = Nodes \ s.used /\ s.used \subseteq Nodes
  BY BaseFree
<1>2. s.free # <<>> <=> Nodes \ s.used # {}
  <2>1. ASSUME s.free # <<>> PROVE Nodes \ s.used # {}
    <3>1. 1 \in 1 .. Len(s.free)
      BY <1>1, <2>1
    <3>2. s.free[1] \in Range(s.free)
      BY <1>1, <3>1, SeqRange
    <3>3. QED BY <1>1, <3>2
  <2>2. ASSUME NEW i \in Nodes \ s.used PROVE s.free # <<>>
    <3>1. PICK j \in 1 .. Len(s.free) : s.free[j] = i
      BY <1>1, SeqRange
    <3>2. QED BY <3>1
  <2>3. QED BY <2>1, <2>2
<1>3. IsFiniteSet(Nodes) /\ Cardinality(Nodes) = PoolSize
  <2>1. PoolSize \in Nat /\ PoolSize > 0
    BY Constants
  <2>2. PICK n \in Int : n = PoolSize - 1
    BY <2>1
  <2>3. IsFiniteSet(0 .. n) /\ Cardinality(0 .. n) = IF 0 > n THEN 0 ELSE n - 0 + 1
    BY FS_Interval
  <2>4. QED BY <2>1, <2>2, <2>3 DEF Nodes
<1>4. /\ IsFiniteSet(s.used)
      /\ Cardinality(s.used) <= Cardinality(Nodes)
      /\ Cardinality(Nodes) = Cardinality(s.used) => Nodes = s.used
  <2>1. s.used \in SUBSET Nodes
    BY <1>1
  <2>2. QED BY <1>3, <2>1, FS_Subset
<1>5. Cardinality(s.used) \in Nat
  BY <1>4, FS_CardinalityType
<1>6. Nodes \ s.used # {} <=> Cardinality(s.used) < PoolSize
  <2>1. Nodes \ s.used = {} <=> Nodes = s.used
    BY <1>1
  <2>2. Nodes = s.used <=> Cardinality(s.used) = PoolSize
    BY <1>3, <1>4
  <2>3. Cardinality(s.used) <= PoolSize /\ PoolSize \in Nat
    BY <1>3, <1>4, Constants
  <2>4. Cardinality(s.used) # PoolSize <=> Cardinality(s.used) < PoolSize
    BY <1>5, <2>3
  <2>5. QED BY <2>1, <2>2, <2>4
<1>7. QED BY <1>2, <1>6, NodesForOrders

\* The prices at which orders of the side rest.
PricesIn(lookup, side) == {lookup[x].price : x \in {y \in OrderIds : lookup[y] # NoOrder /\ lookup[y].side = side}}

\* There is a level at a price just when an order of the side rests there.
LEMMA LevelForOrders ==
    ASSUME NEW s, NEW L, Sound(s, L), NEW side \in Sides, NEW price \in Prices
    PROVE  (\E j \in 1 .. Len(s.levels[side]) : s.levels[side][j].price = price)
           <=> (\E x \in OrderIds : /\ s.lookup[x] # NoOrder /\ s.lookup[x].side = side
                                    /\ s.lookup[x].price = price)
<1>1. Base(s, L) /\ NoEmptyLevel(s)
  BY DEF Sound
<1>2. PICK ls, c : ls = s.levels[side] /\ c = L[side][price]
  OBVIOUS
<1>3. /\ c \in Seq(Nodes) /\ Len(c) \in Nat
      /\ ListOwned(s.pool, s.used, s.lookup, c, side, price)
  BY <1>1, <1>2, BaseLists
<1>4. ASSUME NEW j \in 1 .. Len(ls), ls[j].price = price
      PROVE  \E x \in OrderIds : /\ s.lookup[x] # NoOrder /\ s.lookup[x].side = side
                                 /\ s.lookup[x].price = price
  <2>1. PICK level : level = ls[j]
    OBVIOUS
  <2>2. level.count = Len(c)
    <3>1. level = s.levels[side][j] /\ j \in 1 .. Len(s.levels[side])
      BY <1>2, <2>1
    <3>2. level.price = price
      BY <1>4, <2>1
    <3>3. LevelHolds(s.pool, level, price, c)
      BY <1>1, <1>2, <3>1, <3>2, LevelHeld
    <3>4. QED BY <3>3 DEF LevelHolds
  <2>3. level.count > 0
    BY <1>1, <1>2, <2>1 DEF NoEmptyLevel
  <2>4. 1 \in 1 .. Len(c)
    BY <1>3, <2>2, <2>3
  <2>5. PICK x, lx : x = s.pool[c[1]].id /\ lx = s.lookup[x]
    OBVIOUS
  <2>6. x \in OrderIds /\ lx = [side |-> side, price |-> price, node |-> c[1]] /\ c[1] \in s.used
    BY <1>3, <2>4, <2>5 DEF ListOwned
  <2>7. lx.side = side /\ lx.price = price
    BY <2>6
  <2>8. lx # NoOrder
    BY <1>1, <2>5, <2>6 DEF Base, UsedOwned
  <2>9. QED BY <2>5, <2>6, <2>7, <2>8
<1>5. ASSUME NEW x \in OrderIds, s.lookup[x] # NoOrder, s.lookup[x].side = side,
             s.lookup[x].price = price
      PROVE  \E j \in 1 .. Len(ls) : ls[j].price = price
  <2>1. PICK loc : loc = s.lookup[x]
    OBVIOUS
  <2>2. PICK at, d, k : DropPlace(s, L, x, loc.side, loc.price, loc.node, at, d, k)
    BY <1>1, <1>5, <2>1, OrderFound
  <2>3. loc.side = side /\ loc.price = price
    BY <1>5, <2>1
  <2>4. at \in 1 .. Len(s.levels[side]) /\ s.levels[side][at].price = price
    BY <2>2, <2>3 DEF DropPlace
  <2>5. QED BY <1>2, <2>4
<1>6. QED BY <1>2, <1>4, <1>5

\* A side has as many levels as prices at which its orders rest.
LEMMA LevelsForOrders ==
    ASSUME NEW s, NEW L, Sound(s, L), NEW side \in Sides
    PROVE  /\ Len(s.levels[side]) \in Nat
           /\ Cardinality(PricesIn(s.lookup, side)) = Len(s.levels[side])
<1>1. Base(s, L)
  BY DEF Sound
<1>2. PICK ls, P : ls = s.levels[side] /\ P = PricesIn(s.lookup, side)
  OBVIOUS
<1>3. ls \in Seq(LevelRecords) /\ Sorted(side, ls)
  BY <1>1, <1>2, BaseLevels
<1>4. PICK n \in Nat : n = Len(ls)
  BY <1>3, LevelFacts
<1>5. \A j \in 1 .. n : ls[j].price \in Prices
  BY <1>3, <1>4, LevelFacts
<1>6. P \subseteq Prices
  BY <1>1, <1>2, OrderPlace DEF PricesIn
<1>7. ASSUME NEW price \in Prices PROVE price \in P <=> \E j \in 1 .. n : ls[j].price = price
  <2>1. price \in P <=> \E x \in OrderIds : /\ s.lookup[x] # NoOrder /\ s.lookup[x].side = side
                                            /\ s.lookup[x].price = price
    BY <1>2 DEF PricesIn
  <2>2. QED BY <1>2, <1>4, <2>1, LevelForOrders
<1>8. PICK f : f = [j \in 1 .. n |-> ls[j].price]
  OBVIOUS
<1>9. f \in [1 .. n -> P]
  BY <1>5, <1>7, <1>8
<1>10. IsInjective(f)
  <2>1. ASSUME NEW j \in 1 .. n, NEW k \in 1 .. n, f[j] = f[k] PROVE j = k
    <3>1. ls[j].price = ls[k].price
      BY <1>8, <2>1
    <3>2. QED BY <1>3, <1>4, <3>1, PricesDiffer
  <2>2. QED BY <1>9, <2>1 DEF IsInjective
<1>11. \A price \in P : \E j \in 1 .. n : f[j] = price
  BY <1>6, <1>7, <1>8
<1>12. ExistsBijection(1 .. n, P)
  BY <1>9, <1>10, <1>11 DEF ExistsBijection, Bijection, Injection, Surjection
<1>13. IsFiniteSet(1 .. n) /\ Cardinality(1 .. n) = n
  BY FS_Interval
<1>14. Cardinality(P) = n
  BY <1>12, <1>13, FS_Bijection
<1>15. QED BY <1>2, <1>4, <1>14

LEMMA SameCardinality == ASSUME NEW S PROVE Book!Cardinality(S) = Cardinality(S)
BY DEF Book!Cardinality, Cardinality

\* The structure has room for an order just when the book has.
LEMMA CanAddIs ==
    ASSUME NEW s, NEW L, Sound(s, L), NEW b, b = BookOf(s, L), NEW id \in OrderIds, NEW o \in Orders
    PROVE  CanAdd(s, id, o) <=> Book!CanAdd(b, id, o)
<1>1. Base(s, L)
  BY DEF Sound
<1>2. PICK side, price : side = o.side /\ price = o.price
  OBVIOUS
<1>3. side \in Sides /\ price \in Prices
  BY <1>2, OrderFacts
<1>4. Book!Live(b) = Resting(s.lookup)
  BY BookSets DEF Resting
<1>5. s.lookup[id] = NoOrder <=> id \notin Book!Live(b)
  BY <1>4 DEF Resting
<1>6. s.free # <<>> <=> Cardinality(Book!Live(b)) < PoolSize
  BY <1>1, <1>4, NodeFree
<1>7. FindLevel(s, side, price).found <=> Book!Level(b, side, price) # {}
  <2>1. PICK ls, w : ls = s.levels[side] /\ w = FindLevel(s, side, price)
    OBVIOUS
  <2>2. ls \in Seq(LevelRecords) /\ Sorted(side, ls)
    BY <1>1, <1>3, <2>1, BaseLevels
  <2>3. w.found <=> \E j \in 1 .. Len(ls) : ls[j].price = price
    BY <1>3, <2>1, <2>2, FindLevelFacts
  <2>4. Book!Level(b, side, price) =
          {x \in OrderIds : /\ s.lookup[x] # NoOrder
                            /\ s.lookup[x].side = side /\ s.lookup[x].price = price}
    BY BookSets
  <2>5. (\E j \in 1 .. Len(ls) : ls[j].price = price) <=> Book!Level(b, side, price) # {}
    BY <1>3, <2>1, <2>4, LevelForOrders
  <2>6. QED BY <2>1, <2>3, <2>5
<1>8. Len(s.levels[side]) < MaxLevels <=> Cardinality(Book!LevelPrices(b, side)) < MaxLevels
  <2>1. PICK S : S = {x \in OrderIds : s.lookup[x] # NoOrder /\ s.lookup[x].side = side}
    OBVIOUS
  <2>2. Book!SideOf(b, side) = S
    BY <2>1, BookSets
  <2>3. \A x \in S : b.orders[x].price = s.lookup[x].price
    BY <2>1, BookFields, OrdersFacts
  <2>4. Book!LevelPrices(b, side) = {s.lookup[x].price : x \in S}
    BY <2>2, <2>3 DEF Book!LevelPrices
  <2>5. Book!LevelPrices(b, side) = PricesIn(s.lookup, side)
    BY <2>1, <2>4 DEF PricesIn
  <2>6. QED BY <1>3, <2>5, LevelsForOrders
<1>9. CanAdd(s, id, o) <=> /\ s.lookup[id] = NoOrder /\ s.free # <<>>
                           /\ FindLevel(s, side, price).found \/ Len(s.levels[side]) < MaxLevels
  BY <1>2 DEF CanAdd
<1>10. Book!CanAdd(b, id, o) <=>
         /\ id \notin Book!Live(b)
         /\ Cardinality(Book!Live(b)) < PoolSize
         /\ \/ Book!Level(b, side, price) # {}
            \/ Cardinality(Book!LevelPrices(b, side)) < MaxLevels
  BY <1>2, SameCardinality DEF Book!CanAdd
<1>11. QED BY <1>5, <1>6, <1>7, <1>8, <1>9, <1>10

-----------------------------------------------------------------------------
(* The operations are those of the price-time book                         *)

\* modify_order does what the price-time book promises of it.
LEMMA BookModified ==
    ASSUME NEW s, NEW L, Sound(s, L), NEW id \in OrderIds, s.lookup[id] # NoOrder,
           NEW o \in Orders, NEW u, u = Modified(s, id, o)
    PROVE  \E N : Sound(u, N) /\ BookOf(u, N) = Book!Modified(BookOf(s, L), id, o)
<1>1. PICK v, M, N, k, i, r :
        /\ Sound(v, M) /\ CancelEffect(s, L, v, M, id, k)
        /\ Sound(u, N) /\ AddEffect(v, M, u, N, id, r, i)
        /\ r \in Orders
        /\ CanAdd(v, id, o) => r = o
        /\ ~CanAdd(v, id, o) => r = OrderOf(s, id)
  BY ModifiedSound
<1>2. PICK a, b, c : a = BookOf(s, L) /\ b = BookOf(v, M) /\ c = BookOf(u, N)
  OBVIOUS
<1>3. b = Book!Canceled(a, id)
  <2>1. Sound(v, M) /\ CancelEffect(s, L, v, M, id, k)
    BY <1>1
  <2>2. BookOf(v, M) = Book!Canceled(BookOf(s, L), id)
    BY <2>1, BookCanceled
  <2>3. QED BY <1>2, <2>2
<1>4. v.lookup[id] = NoOrder
  BY <1>1 DEF CancelEffect, RemoveEffect
<1>5. c = Book!Added(b, id, r)
  BY <1>1, <1>2, <1>4, BookAdded
<1>6. a.orders[id] = OrderOf(s, id)
  BY <1>2, BookFields, OrdersFacts
<1>7. CanAdd(v, id, o) <=> Book!CanModify(a, id, o)
  <2>1. CanAdd(v, id, o) <=> Book!CanAdd(b, id, o)
    BY <1>1, <1>2, CanAddIs
  <2>2. QED BY <1>3, <2>1 DEF Book!CanModify
<1>8. r = IF Book!CanModify(a, id, o) THEN o ELSE a.orders[id]
  BY <1>1, <1>6, <1>7
<1>9. c = Book!Modified(a, id, o)
  BY <1>3, <1>5, <1>8 DEF Book!Modified
<1>10. QED BY <1>1, <1>2, <1>9

\* cancel_order_partial does what the price-time book promises of it.
LEMMA BookReduced ==
    ASSUME NEW s, NEW L, Sound(s, L), NEW id \in OrderIds, s.lookup[id] # NoOrder,
           NEW n \in Lots, NEW u, u = Reduced(s, id, n)
    PROVE  \E N : Sound(u, N) /\ BookOf(u, N) = Book!Reduced(BookOf(s, L), id, n)
<1>1. PICK loc, i, a : loc = s.lookup[id] /\ i = loc.node /\ a = BookOf(s, L)
  OBVIOUS
<1>2. a.orders[id].lots = s.pool[i].lots
  BY <1>1, BookFields, OrdersFacts
<1>3. CASE n >= s.pool[i].lots
  <2>1. u = Canceled(s, id)
    BY <1>1, <1>3, ReducedSound
  <2>2. PICK M, k : Sound(u, M) /\ CancelEffect(s, L, u, M, id, k)
    BY <2>1, CanceledSound
  <2>3. BookOf(u, M) = Book!Canceled(a, id)
    BY <1>1, <2>2, BookCanceled
  <2>4. Book!Reduced(a, id, n) = Book!Canceled(a, id)
    BY <1>2, <1>3 DEF Book!Reduced
  <2>5. QED BY <1>1, <2>2, <2>3, <2>4
<1>4. CASE ~(n >= s.pool[i].lots)
  <2>1. Sound(u, L) /\ CutEffect(s, u, i, n)
    BY <1>1, <1>4, ReducedSound
  <2>2. BookOf(u, L) = [orders |-> [a.orders EXCEPT ![id].lots = @ - n], ahead |-> a.ahead]
    <3>1. IsCut(BookOf(s, L), BookOf(u, L), id, n)
      BY <1>1, <2>1, BookCut
    <3>2. QED BY <1>1, <3>1, Zenon DEF IsCut
  <2>3. Book!Reduced(a, id, n) = [orders |-> [a.orders EXCEPT ![id].lots = @ - n], ahead |-> a.ahead]
    BY <1>2, <1>4 DEF Book!Reduced
  <2>4. QED BY <1>1, <2>1, <2>2, <2>3
<1>5. QED BY <1>3, <1>4

\* The book of a step, whatever lists show that the structure is sound.
LEMMA StepBook ==
    ASSUME NEW L, Sound(ob, L), NEW M, Sound(ob', M)
    PROVE  AbstractBook = BookOf(ob, L) /\ AbstractBook' = BookOf(ob', M)
<1>1. AbstractOf(ob) = BookOf(ob, L)
  BY AbstractBookOf
<1>2. PICK u : u = ob'
  OBVIOUS
<1>3. AbstractOf(u) = BookOf(u, M)
  BY <1>2, AbstractBookOf
<1>4. QED BY <1>1, <1>2, <1>3, AbstractIs

\* There is no taker outside a match.
LEMMA TakerIs == (cursor = NoTaker => AbstractTaker = NoTaker)
                 /\ (cursor' = NoTaker => AbstractTaker' = NoTaker)
BY DEF AbstractTaker

\* Every public operation but the match is the one of the price-time book.
LEMMA AddCorresponds ==
    ASSUME Inv, NEW id \in OrderIds, NEW o \in Orders, AddOrder(id, o)
    PROVE  Book!AddOrder(id, o)
<1>1. PICK L : Sound(ob, L)
  BY DEF Inv
<1>2. cursor = NoTaker /\ cursor' = NoTaker /\ CanAdd(ob, id, o) /\ ob' = Added(ob, id, o)
  BY DEF AddOrder
<1>3. PICK u : u = ob'
  OBVIOUS
<1>4. PICK M, i : Sound(u, M) /\ AddEffect(ob, L, u, M, id, o, i)
  BY <1>1, <1>2, <1>3, AddedSound
<1>5. ob.lookup[id] = NoOrder
  BY <1>2 DEF CanAdd
<1>6. AbstractBook = BookOf(ob, L) /\ AbstractBook' = BookOf(u, M)
  BY <1>1, <1>3, <1>4, StepBook
<1>7. BookOf(u, M) = Book!Added(BookOf(ob, L), id, o)
  BY <1>1, <1>4, <1>5, BookAdded
<1>8. Book!CanAdd(BookOf(ob, L), id, o)
  BY <1>1, <1>2, CanAddIs
<1>9. QED BY <1>2, <1>6, <1>7, <1>8, TakerIs DEF Book!AddOrder

LEMMA LiveIs ==
    ASSUME NEW L, Sound(ob, L), NEW id \in OrderIds
    PROVE  id \in Book!Live(BookOf(ob, L)) <=> ob.lookup[id] # NoOrder
BY BookSets

\* cancel_order is that of the price-time book.
LEMMA CancelCorresponds ==
    ASSUME Inv, NEW id \in OrderIds, CancelOrder(id)
    PROVE  Book!CancelOrder(id)
<1>1. PICK L : Sound(ob, L)
  BY DEF Inv
<1>2. cursor = NoTaker /\ cursor' = NoTaker /\ ob.lookup[id] # NoOrder /\ ob' = Canceled(ob, id)
  BY DEF CancelOrder
<1>3. PICK u : u = ob'
  OBVIOUS
<1>4. PICK M, k : Sound(u, M) /\ CancelEffect(ob, L, u, M, id, k)
  BY <1>1, <1>2, <1>3, CanceledSound
<1>5. AbstractBook = BookOf(ob, L) /\ AbstractBook' = BookOf(u, M)
  BY <1>1, <1>3, <1>4, StepBook
<1>6. BookOf(u, M) = Book!Canceled(BookOf(ob, L), id)
  BY <1>1, <1>2, <1>4, BookCanceled
<1>7. id \in Book!Live(BookOf(ob, L))
  BY <1>1, <1>2, LiveIs
<1>8. QED BY <1>2, <1>5, <1>6, <1>7, TakerIs DEF Book!CancelOrder

\* cancel_order_partial is that of the price-time book.
LEMMA PartialCorresponds ==
    ASSUME Inv, NEW id \in OrderIds, NEW n \in Lots, CancelOrderPartial(id, n)
    PROVE  Book!CancelOrderPartial(id, n)
<1>1. PICK L : Sound(ob, L)
  BY DEF Inv
<1>2. cursor = NoTaker /\ cursor' = NoTaker /\ ob.lookup[id] # NoOrder /\ ob' = Reduced(ob, id, n)
  BY DEF CancelOrderPartial
<1>3. PICK u : u = ob'
  OBVIOUS
<1>4. PICK M : Sound(u, M) /\ BookOf(u, M) = Book!Reduced(BookOf(ob, L), id, n)
  BY <1>1, <1>2, <1>3, BookReduced
<1>5. AbstractBook = BookOf(ob, L) /\ AbstractBook' = BookOf(u, M)
  BY <1>1, <1>3, <1>4, StepBook
<1>6. id \in Book!Live(BookOf(ob, L))
  BY <1>1, <1>2, LiveIs
<1>7. QED BY <1>2, <1>4, <1>5, <1>6, TakerIs DEF Book!CancelOrderPartial

\* modify_order is that of the price-time book.
LEMMA ModifyCorresponds ==
    ASSUME Inv, NEW id \in OrderIds, NEW o \in Orders, ModifyOrder(id, o)
    PROVE  Book!ModifyOrder(id, o)
<1>1. PICK L : Sound(ob, L)
  BY DEF Inv
<1>2. cursor = NoTaker /\ cursor' = NoTaker /\ ob.lookup[id] # NoOrder /\ ob' = Modified(ob, id, o)
  BY DEF ModifyOrder
<1>3. PICK u : u = ob'
  OBVIOUS
<1>4. PICK M : Sound(u, M) /\ BookOf(u, M) = Book!Modified(BookOf(ob, L), id, o)
  BY <1>1, <1>2, <1>3, BookModified
<1>5. AbstractBook = BookOf(ob, L) /\ AbstractBook' = BookOf(u, M)
  BY <1>1, <1>3, <1>4, StepBook
<1>6. id \in Book!Live(BookOf(ob, L))
  BY <1>1, <1>2, LiveIs
<1>7. QED BY <1>2, <1>4, <1>5, <1>6, TakerIs DEF Book!ModifyOrder

\* add_order, cancel_order, cancel_order_partial and modify_order do to the
\* linked structure what the price-time book promises of each, to the order
\* itself and to its place among the others: a partial cancellation keeps the
\* place, a modification goes to the end of its level, and one that cannot be
\* added puts the old order back, behind the others.
THEOREM OperationsAre == Spec => OperationsCorrespond
<1>1. Init => Inv
  BY InitInv
<1>2. Inv /\ [Next]_vars => Inv'
  BY NextInv
<1>3. ASSUME Inv
      PROVE  \A id \in OrderIds :
               /\ \A o \in Orders :
                    /\ AddOrder(id, o) => Book!AddOrder(id, o)
                    /\ ModifyOrder(id, o) => Book!ModifyOrder(id, o)
               /\ CancelOrder(id) => Book!CancelOrder(id)
               /\ \A n \in Lots : CancelOrderPartial(id, n) => Book!CancelOrderPartial(id, n)
  BY <1>3, AddCorresponds, ModifyCorresponds, CancelCorresponds, PartialCorresponds
<1>4. QED BY <1>1, <1>2, <1>3, PTL DEF Spec, OperationsCorrespond

-----------------------------------------------------------------------------
(* The taker of the price-time book                                        *)

\* The taker of the price-time book, in the locals of match_order.
TakerOf(c) ==
    [field \in {"id", "side", "type", "price", "remaining", "rest", "trades"} |-> c[field]]

LEMMA TakerFields ==
    ASSUME NEW c
    PROVE  /\ TakerOf(c).id = c.id /\ TakerOf(c).side = c.side /\ TakerOf(c).type = c.type
           /\ TakerOf(c).price = c.price /\ TakerOf(c).remaining = c.remaining
           /\ TakerOf(c).rest = c.rest /\ TakerOf(c).trades = c.trades
BY DEF TakerOf

LEMMA TakerRecord ==
    ASSUME NEW c
    PROVE  TakerOf(c) = [id |-> c.id, side |-> c.side, type |-> c.type, price |-> c.price,
                         remaining |-> c.remaining, rest |-> c.rest, trades |-> c.trades]
BY DEF TakerOf

\* While a match runs there are a cursor and a taker.
LEMMA TakerThere ==
    ASSUME NEW s, NEW L, Sound(s, L), NEW c, CursorSound(s, c), PromiseKept(s, c)
    PROVE  c # NoTaker /\ TakerOf(c) # NoTaker
<1>1. c \in CursorsOf(c.promised)
  BY DEF CursorSound
<1>2. c.promised \in Int
  <2>1. PICK q, r, a : q = c.quantity /\ r = c.remaining /\ a = Offered(s, c)
    OBVIOUS
  <2>2. q \in Int /\ r \in Int
    BY <1>1, <2>1, Constants DEF CursorsOf, Lots
  <2>3. a \in Nat
    BY <2>1, OfferedFacts DEF Sound
  <2>4. c.promised = (q - r) + Lesser(r, a)
    BY <2>1 DEF PromiseKept
  <2>5. Lesser(r, a) \in Int
    BY <2>2, <2>3 DEF Lesser
  <2>6. QED BY <2>2, <2>4, <2>5
<1>3. c \in Cursors
  BY <1>1, <1>2 DEF CursorsOf, Cursors, LinkValues
<1>4. TakerOf(c) \in Takers
  BY <1>1, TakerRecord DEF CursorsOf, Takers
<1>5. QED BY <1>3, <1>4, Constants

\* The taker of the abstract book, before and after a step.
LEMMA AbstractTakerIs ==
    /\ cursor # NoTaker => AbstractTaker = TakerOf(cursor)
    /\ cursor' # NoTaker => AbstractTaker' = TakerOf(cursor')
BY DEF AbstractTaker, TakerOf

\* The empty structure is the empty book.
LEMMA InitCorresponds == Init => Book!Init
<1> SUFFICES ASSUME Init PROVE Book!Init
  OBVIOUS
<1>1. PICK s : s = EmptyStructure
  OBVIOUS
<1>2. ob = s /\ cursor = NoTaker
  BY <1>1 DEF Init
<1>3. PICK L : Sound(s, L)
  BY <1>1, EmptySound
<1>4. s.lookup = [id \in OrderIds |-> NoOrder]
  BY <1>1 DEF EmptyStructure
<1>5. OrdersIn(s) = [id \in OrderIds |-> NoOrder]
  BY <1>4 DEF OrdersIn
<1>6. Ahead(s.lookup, L) = {}
  BY <1>4 DEF Ahead, InFront
<1>7. BookOf(s, L) = [orders |-> [id \in OrderIds |-> NoOrder], ahead |-> {}]
  BY <1>5, <1>6 DEF BookOf
<1>8. AbstractBook = BookOf(s, L)
  BY <1>2, <1>3, AbstractIs, AbstractBookOf
<1>9. QED BY <1>2, <1>7, <1>8, TakerIs DEF Book!Init, Book!EmptyBook

\* The check of the limits and of fill-or-kill, before a match.
LEMMA BeginCorresponds ==
    ASSUME MatchInv,
           NEW id \in OrderIds, NEW side \in Sides, NEW type \in OrderTypes, NEW price \in Prices,
           NEW lots \in Lots, NEW rest \in BOOLEAN, MatchBegin(id, side, type, price, lots, rest)
    PROVE  Book!MatchBegin(id, side, type, price, lots, rest)
<1>1. PICK L : Sound(ob, L)
  BY DEF MatchInv, Inv
<1>2. cursor = NoTaker /\ ob' = ob
  BY DEF MatchBegin
<1>3. PICK c : c = cursor'
  OBVIOUS
<1>4. c # NoTaker
  <2>1. CursorSound(ob, c) /\ PromiseKept(ob, c)
    <3>1. CursorSound(ob', cursor')
      BY BeginSound
    <3>2. PromiseKept(ob', cursor')
      BY <1>1, BeginPromise
    <3>3. QED BY <1>2, <1>3, <3>1, <3>2
  <2>2. QED BY <1>1, <2>1, TakerThere
<1>5. /\ c.id = id /\ c.side = side /\ c.type = type /\ c.price = price /\ c.remaining = lots
      /\ c.rest = rest /\ c.trades = <<>>
  <2>1. PICK t, x : /\ t = [id |-> id, side |-> side, type |-> type, price |-> price,
                            remaining |-> lots, rest |-> rest, trades |-> <<>>]
                    /\ x = ExecutableLots(ob, t, lots)
    OBVIOUS
  <2>2. PICK d : d = [id |-> id, side |-> side, type |-> type, price |-> price,
                      remaining |-> lots, rest |-> rest, trades |-> <<>>,
                      level |-> 1, node |-> NIL, quantity |-> lots, promised |-> x]
    OBVIOUS
  <2>3. c = d
    BY <1>3, <2>1, <2>2, BeginFacts
  <2>4. QED BY <2>2, <2>3
<1>6. TakerOf(c) = [id |-> id, side |-> side, type |-> type, price |-> price,
                    remaining |-> lots, rest |-> rest, trades |-> <<>>]
  BY <1>5, TakerRecord
<1>7. AbstractTaker' = TakerOf(c) /\ AbstractTaker = NoTaker
  BY <1>2, <1>3, <1>4, AbstractTakerIs, TakerIs
<1>8. AbstractBook' = AbstractBook
  BY <1>2, AbstractIs
<1>9. QED BY <1>6, <1>7, <1>8 DEF Book!MatchBegin

LEMMA SameHelpers ==
    ASSUME NEW t, NEW price, NEW side
    PROVE  Book!Opposite(side) = Opposite(side) /\ (Book!Crosses(t, price) <=> Crosses(t, price))
BY DEF Book!Opposite, Opposite, Book!Crosses, Crosses

\* Who may trade with a taker.
LEMMA CandidatesAre ==
    ASSUME NEW s, NEW L, Sound(s, L), NEW c, NEW x
    PROVE  x \in Book!Candidates(BookOf(s, L), TakerOf(c)) <=>
             /\ x \in OrderIds /\ s.lookup[x] # NoOrder
             /\ s.lookup[x].side = Opposite(c.side) /\ Crosses(c, s.lookup[x].price)
<1>1. PICK b, t : b = BookOf(s, L) /\ t = TakerOf(c)
  OBVIOUS
<1>2. x \in Book!Candidates(b, t) <=>
        x \in Book!SideOf(b, Book!Opposite(t.side)) /\ Book!Crosses(t, b.orders[x].price)
  BY DEF Book!Candidates
<1>3. Book!Opposite(t.side) = Opposite(c.side)
  BY <1>1, SameHelpers, TakerFields
<1>4. x \in Book!SideOf(b, Opposite(c.side)) <=>
        x \in OrderIds /\ s.lookup[x] # NoOrder /\ s.lookup[x].side = Opposite(c.side)
  BY <1>1, BookSets
<1>5. ASSUME x \in OrderIds, s.lookup[x] # NoOrder PROVE b.orders[x].price = s.lookup[x].price
  BY <1>1, <1>5, BookFields, OrdersFacts
<1>6. ASSUME NEW price PROVE Book!Crosses(t, price) <=> Crosses(c, price)
  <2>1. Book!Crosses(t, price) <=> Crosses(t, price)
    BY SameHelpers
  <2>2. t.side = c.side /\ t.type = c.type /\ t.price = c.price
    BY <1>1, TakerFields
  <2>3. QED BY <2>1, <2>2 DEF Crosses
<1>7. QED BY <1>1, <1>2, <1>3, <1>4, <1>5, <1>6

-----------------------------------------------------------------------------
(* A trade is a trade of the price-time book                               *)

\* The front of the best level is the order that trades before all others.
LEMMA FrontIsBest ==
    ASSUME NEW s, NEW L, Sound(s, L), NEW c, NEW side \in Sides, side = Opposite(c.side),
           NEW price, NEW i, NEW id, FrontIs(s, side, 1, price, i, id), Crosses(c, price)
    PROVE  Book!IsBest(BookOf(s, L), TakerOf(c), id)
<1>1. PICK b, ls : b = BookOf(s, L) /\ ls = s.levels[side]
  OBVIOUS
<1>2. Base(s, L) /\ NoEmptyLevel(s)
  BY DEF Sound
<1>3. PICK l : FrontHeld(s, L, side, price, i, id, l)
  BY <1>2, FrontPlaced
<1>4. /\ id \in OrderIds /\ price \in Prices /\ i \in s.used
      /\ l = L[side][price] /\ l \in Seq(Nodes) /\ Len(l) \in Nat /\ Len(l) > 0 /\ l[1] = i
  BY <1>3 DEF FrontHeld
<1>5. PICK loc : loc = s.lookup[id]
  OBVIOUS
<1>6. loc.side = side /\ loc.price = price /\ loc.node = i /\ loc # NoOrder
  <2>1. loc = [side |-> side, price |-> price, node |-> i]
    BY <1>3, <1>5 DEF FrontHeld
  <2>2. s.pool[i].id = id
    BY DEF FrontIs
  <2>3. loc # NoOrder
    BY <1>2, <1>4, <1>5, <2>2 DEF Base, UsedOwned
  <2>4. QED BY <2>1, <2>3
<1>7. id \in Book!Candidates(b, TakerOf(c))
  BY <1>1, <1>4, <1>5, <1>6, CandidatesAre
<1>8. ASSUME NEW x, x \in Book!Candidates(b, TakerOf(c)), x # id
      PROVE  Book!Before(b, id, x)
  <2>1. PICK lx : lx = s.lookup[x]
    OBVIOUS
  <2>2. x \in OrderIds /\ lx # NoOrder /\ lx.side = side
    BY <1>1, <1>8, <2>1, CandidatesAre
  <2>3. PICK at, d, k : DropPlace(s, L, x, lx.side, lx.price, lx.node, at, d, k)
    BY <1>2, <2>1, <2>2, OrderFound
  <2>4. at \in 1 .. Len(ls) /\ ls[at].price = lx.price
    BY <1>1, <2>2, <2>3 DEF DropPlace
  <2>5. d = L[side][lx.price] /\ k \in 1 .. Len(d) /\ d[k] = lx.node
    BY <2>2, <2>3 DEF DropPlace
  <2>6. /\ b.orders[id].side = side /\ b.orders[id].price = price
        /\ b.orders[x].price = lx.price
    BY <1>1, <1>4, <1>5, <1>6, <2>1, <2>2, BookFields, OrdersFacts
  <2>7. /\ ls \in Seq(LevelRecords) /\ Sorted(side, ls)
        /\ ls[1].price = price /\ 1 \in 1 .. Len(ls)
    BY <1>1, <1>2, BaseLevels DEF FrontIs
  <2>8. lx.price \in Int /\ price \in Int
    BY <2>4, <2>7, LevelFacts
  <2>9. CASE lx.price = price
    <3>1. l[k] = lx.node /\ k \in 1 .. Len(l)
      BY <1>4, <2>5, <2>9
    <3>2. lx.node # i
      <4>1. s.pool[lx.node].id = x
        BY <1>2, <2>1, <2>2, OrderPlace
      <4>2. s.pool[i].id = id
        BY DEF FrontIs
      <4>3. QED BY <1>8, <4>1, <4>2
    <3>3. 1 \in 1 .. Len(l) /\ 1 < k
      BY <1>4, <3>1, <3>2
    <3>4. Precedes(l, i, lx.node)
      BY <1>4, <3>1, <3>3 DEF Precedes
    <3>5. InFront(s.lookup, L, id, x)
      BY <1>4, <1>5, <1>6, <2>1, <2>2, <2>9, <3>4, InFrontIs
    <3>6. <<id, x>> \in Ahead(s.lookup, L)
      BY <1>4, <2>2, <3>5 DEF Ahead
    <3>7. <<id, x>> \in b.ahead
      BY <1>1, <3>6, BookFields
    <3>8. QED BY <3>7 DEF Book!Before
  <2>10. CASE lx.price # price
    <3>1. at # 1
      BY <2>4, <2>7, <2>10
    <3>2. 1 < at
      BY <2>4, <3>1
    <3>3. ~BetterOrEqual(side, lx.price, price)
      BY <2>4, <2>7, <3>2 DEF Sorted
    <3>4. \/ side = "BUY" /\ price > lx.price
          \/ side = "SELL" /\ price < lx.price
      BY <2>8, <3>3 DEF BetterOrEqual, Sides
    <3>5. QED BY <2>6, <3>4 DEF Book!Before
  <2>11. QED BY <2>9, <2>10
<1>9. QED BY <1>1, <1>7, <1>8 DEF Book!IsBest

\* What a trade does to the book is to take its lots off the order it is with.
LEMMA BookTraded ==
    ASSUME NEW s, NEW L, Sound(s, L), NEW u, NEW M, Sound(u, M),
           NEW side, NEW price, NEW i, NEW id \in OrderIds, NEW n \in Int,
           s.lookup[id].side = side, s.lookup[id].price = price, s.lookup[id].node = i,
           s.lookup[id] # NoOrder,
           RestsAt(s, L, id, 1), n <= s.pool[i].lots, s.pool[i].lots \in Int,
           TradeEffect(s, L, u, M, side, price, i, id, n)
    PROVE  BookOf(u, M) = Book!Reduced(BookOf(s, L), id, n)
<1>1. PICK a : a = BookOf(s, L)
  OBVIOUS
<1>2. a.orders[id].lots = s.pool[i].lots
  BY <1>1, BookFields, OrdersFacts
<1>3. CASE n = s.pool[i].lots
  <2>1. RemoveEffect(s, L, u, M, id, i, side, price, 1)
    BY <1>3 DEF TradeEffect
  <2>2. CancelEffect(s, L, u, M, id, 1)
    BY <2>1 DEF CancelEffect
  <2>3. BookOf(u, M) = Book!Canceled(a, id)
    BY <1>1, <2>2, BookCanceled
  <2>4. n >= a.orders[id].lots
    BY <1>2, <1>3
  <2>5. Book!Reduced(a, id, n) = Book!Canceled(a, id)
    BY <2>4 DEF Book!Reduced
  <2>6. QED BY <1>1, <2>3, <2>5
<1>4. CASE n # s.pool[i].lots
  <2>1. M = L
    BY <1>4 DEF TradeEffect
  <2>2. Sound(u, L) /\ CutEffect(s, u, i, n)
    BY <1>4, <2>1 DEF TradeEffect
  <2>3. BookOf(u, L) = [orders |-> [a.orders EXCEPT ![id].lots = @ - n], ahead |-> a.ahead]
    <3>1. i = s.lookup[id].node
      OBVIOUS
    <3>2. IsCut(BookOf(s, L), BookOf(u, L), id, n)
      BY <2>2, <3>1, BookCut
    <3>3. QED BY <1>1, <3>2, Zenon DEF IsCut
  <2>4. ~(n >= a.orders[id].lots)
    BY <1>2, <1>4
  <2>5. Book!Reduced(a, id, n) = [orders |-> [a.orders EXCEPT ![id].lots = @ - n], ahead |-> a.ahead]
    BY <2>4 DEF Book!Reduced
  <2>6. QED BY <1>1, <2>1, <2>3, <2>5
<1>5. QED BY <1>3, <1>4

\* Of the taker only what remains and the trades change.
IsFilled(t, u, remaining, trades) == u = [t EXCEPT !.remaining = remaining, !.trades = trades]

LEMMA TakerFilled ==
    ASSUME NEW c, NEW d,
           d.id = c.id, d.side = c.side, d.type = c.type, d.price = c.price, d.rest = c.rest
    PROVE  IsFilled(TakerOf(c), TakerOf(d), d.remaining, d.trades)
BY DEF TakerOf, IsFilled

\* A trade of match_order is with the order that trades before all others.
LEMMA TradeCorresponds ==
    ASSUME MatchInv, MatchTrade
    PROVE  Book!MatchTrade
<1>1. PICK L : Sound(ob, L)
  BY DEF MatchInv, Inv
<1>2. cursor # NoTaker /\ CursorSound(ob, cursor) /\ PromiseKept(ob, cursor)
  BY Zenon DEF MatchTrade, MatchInv, Inv
<1>3. PICK side, price, i, id, n : TradeIs(side, price, i, id, n)
  BY <1>1, <1>2, TradeHappens
<1>4. PICK c, d, u : c = cursor /\ d = cursor' /\ u = ob'
  OBVIOUS
<1>5. PICK M : /\ Sound(u, M) /\ TradeEffect(ob, L, u, M, side, price, i, id, n)
               /\ CursorSound(u, d)
  BY <1>1, <1>2, <1>3, <1>4, TradeSound
<1>6. PromiseKept(u, d)
  BY <1>1, <1>2, <1>3, <1>4, TradePromise
<1>7. d # NoTaker /\ TakerOf(c) # NoTaker
  BY <1>1, <1>2, <1>4, <1>5, <1>6, TakerThere
<1>8. /\ side \in Sides /\ FrontIs(ob, side, 1, price, i, id)
      /\ i \in Nodes /\ i \in ob.used /\ id \in OrderIds /\ price \in Prices
      /\ ob.pool[i].lots \in Int
      /\ n \in Lots /\ n \in Nat /\ n <= ob.pool[i].lots /\ n <= c.remaining
      /\ n = ob.pool[i].lots \/ n = c.remaining
      /\ c.remaining \in 1 .. MaxLots
      /\ ob.pool[i].next \in LinkValues
  BY <1>1, <1>3, <1>4, TradeFacts
<1>9. /\ side = Opposite(c.side) /\ Crosses(c, price)
      /\ d = Continued(c, ob, side, price, i, id, n)
  BY <1>3, <1>4 DEF TradeIs
<1>10. PICK b, t : b = BookOf(ob, L) /\ t = TakerOf(c)
  OBVIOUS
<1>11. AbstractBook = b /\ AbstractBook' = BookOf(u, M) /\ AbstractTaker = t
       /\ AbstractTaker' = TakerOf(d)
  <2>1. AbstractBook = BookOf(ob, L) /\ AbstractBook' = BookOf(ob', M)
    BY <1>1, <1>4, <1>5, StepBook
  <2>2. AbstractTaker = TakerOf(c)
    BY <1>2, <1>4, AbstractTakerIs
  <2>3. AbstractTaker' = TakerOf(d)
    BY <1>4, <1>7, AbstractTakerIs
  <2>4. QED BY <1>4, <1>10, <2>1, <2>2, <2>3
<1>12. Book!IsBest(b, t, id)
  BY <1>1, <1>8, <1>9, <1>10, FrontIsBest
<1>13. PICK l : /\ DropPlace(ob, L, id, side, price, i, 1, l, 1)
                /\ FrontHeld(ob, L, side, price, i, id, l)
  BY <1>1, <1>8, FrontPlaced DEF Sound
<1>14. /\ ob.lookup[id].side = side /\ ob.lookup[id].price = price /\ ob.lookup[id].node = i
       /\ ob.lookup[id] # NoOrder /\ RestsAt(ob, L, id, 1)
  BY <1>13, PlaceRests DEF DropPlace
<1>15. BookOf(u, M) = Book!Reduced(b, id, n)
  <2>1. n \in Int
    BY <1>8
  <2>2. QED BY <1>1, <1>5, <1>8, <1>10, <1>14, <2>1, BookTraded
<1>16. b.orders[id].price = price /\ b.orders[id].lots = ob.pool[i].lots
  BY <1>1, <1>8, <1>10, <1>14, BookFields, OrdersFacts
<1>17. t.remaining = c.remaining /\ t.trades = c.trades
  BY <1>10, TakerFields
<1>18. n = Book!Smaller(t.remaining, b.orders[id].lots)
  <2>1. c.remaining \in Int
    BY <1>8
  <2>2. n = IF c.remaining <= ob.pool[i].lots THEN c.remaining ELSE ob.pool[i].lots
    BY <1>8, <2>1
  <2>3. QED BY <1>16, <1>17, <2>2 DEF Book!Smaller
<1>19. TakerOf(d) = [t EXCEPT !.remaining = @ - n,
                              !.trades = Append(@, [maker |-> id, lots |-> n, price |-> price])]
  <2>1. ContinuedIs(c, d, ob, side, price, i, id, n)
    <3>1. c \in CursorsOf(c.promised)
      BY <1>2, <1>4 DEF CursorSound
    <3>2. QED BY <1>8, <1>9, <3>1, ContinuedFacts
  <2>2. /\ d.id = c.id /\ d.side = c.side /\ d.type = c.type /\ d.price = c.price
        /\ d.rest = c.rest
    BY <2>1 DEF ContinuedIs
  <2>3. IsFilled(TakerOf(c), TakerOf(d), d.remaining, d.trades)
    BY <2>2, TakerFilled
  <2>4. PICK rem, tr : rem = d.remaining /\ tr = d.trades
    OBVIOUS
  <2>5. /\ rem = c.remaining - n
        /\ tr = Append(c.trades, [maker |-> id, lots |-> n, price |-> price])
    BY <2>1, <2>4 DEF ContinuedIs
  <2>6. [t EXCEPT !.remaining = @ - n,
                  !.trades = Append(@, [maker |-> id, lots |-> n, price |-> price])]
        = [t EXCEPT !.remaining = rem, !.trades = tr]
    <3>1. t.remaining - n = rem
      BY <1>17, <2>5
    <3>2. Append(t.trades, [maker |-> id, lots |-> n, price |-> price]) = tr
      BY <1>17, <2>5
    <3>3. QED BY <3>1, <3>2, Zenon
  <2>7. TakerOf(d) = [t EXCEPT !.remaining = rem, !.trades = tr]
    BY <1>10, <2>3, <2>4 DEF IsFilled
  <2>8. QED BY <2>6, <2>7, Zenon
<1>20. t # NoTaker /\ t.remaining > 0
  BY <1>7, <1>8, <1>10, <1>17
<1>21. QED BY <1>8, <1>11, <1>12, <1>15, <1>16, <1>18, <1>19, <1>20 DEF Book!MatchTrade

-----------------------------------------------------------------------------
(* The end of a match, and the refinement                                  *)

\* Where the loop ends with something left, nobody may trade with the taker.
LEMMA NoCandidates ==
    ASSUME NEW L, Sound(ob, L), CursorSound(ob, cursor), ~AtLevel, cursor.remaining > 0
    PROVE  Book!Candidates(BookOf(ob, L), TakerOf(cursor)) = {}
<1> SUFFICES ASSUME NEW x, x \in Book!Candidates(BookOf(ob, L), TakerOf(cursor))
             PROVE  FALSE
  OBVIOUS
<1>1. PICK lx : lx = ob.lookup[x]
  OBVIOUS
<1>2. /\ x \in OrderIds /\ lx # NoOrder
      /\ lx.side = Opposite(cursor.side) /\ Crosses(cursor, lx.price)
  BY <1>1, CandidatesAre
<1>3. lx.node \in ob.used /\ ob.pool[lx.node].id = x
  BY <1>1, <1>2, OrderPlace DEF Sound
<1>4. lx.node \in Within(ob, cursor)
  BY <1>1, <1>2, <1>3 DEF Within
<1>5. QED BY <1>4, NothingWithin

\* Where match_order ends, what remains rests, or is dropped.
LEMMA EndCorresponds ==
    ASSUME MatchInv, MatchEnd
    PROVE  Book!MatchEnd
<1>1. PICK L : Sound(ob, L)
  BY DEF MatchInv, Inv
<1>2. /\ cursor # NoTaker /\ CursorSound(ob, cursor) /\ PromiseKept(ob, cursor)
      /\ ~AtLevel /\ cursor' = NoTaker
  BY DEF MatchEnd, MatchInv, Inv
<1>3. PICK c, u, b, t : c = cursor /\ u = ob' /\ b = BookOf(ob, L) /\ t = TakerOf(c)
  OBVIOUS
<1>4. t # NoTaker
  BY <1>1, <1>2, <1>3, TakerThere
<1>5. AbstractTaker = t /\ AbstractTaker' = NoTaker
  BY <1>2, <1>3, AbstractTakerIs, TakerIs
<1>6. AbstractBook = b
  BY <1>1, <1>3, AbstractIs, AbstractBookOf
<1>7. /\ t.id = c.id /\ t.side = c.side /\ t.type = c.type /\ t.price = c.price
      /\ t.remaining = c.remaining /\ t.rest = c.rest
  BY <1>3, TakerFields
<1>8. c.remaining \in Nat
  BY <1>2, <1>3, Constants DEF CursorSound, CursorsOf
<1>9. t.remaining = 0 \/ Book!Candidates(b, t) = {}
  BY <1>1, <1>2, <1>3, <1>7, <1>8, NoCandidates
<1>10. PICK o : o = Residual(c)
  OBVIOUS
<1>11. Book!Residual(t) = o
  BY <1>7, <1>10 DEF Book!Residual, Residual
<1>12. CASE c.rest /\ c.remaining > 0 /\ c.type = "LIMIT" /\ CanAdd(ob, c.id, o)
  <2>1. u = Added(ob, c.id, o)
    BY <1>3, <1>10, <1>12 DEF MatchEnd
  <2>2. c.id \in OrderIds /\ o \in Orders
    BY <1>2, <1>3, <1>10, <1>12, ResidualFacts
  <2>3. PICK M, i : Sound(u, M) /\ AddEffect(ob, L, u, M, c.id, o, i)
    BY <1>1, <1>12, <2>1, <2>2, AddedSound
  <2>4. BookOf(u, M) = Book!Added(b, c.id, o)
    <3>1. ob.lookup[c.id] = NoOrder
      BY <1>12 DEF CanAdd
    <3>2. QED BY <1>1, <1>3, <2>2, <2>3, <3>1, BookAdded
  <2>5. AbstractBook' = BookOf(u, M)
    BY <1>1, <1>3, <2>3, StepBook
  <2>6. Book!CanAdd(b, c.id, o)
    BY <1>1, <1>3, <1>12, <2>2, CanAddIs
  <2>7. Book!Rests(b, t)
    BY <1>7, <1>11, <1>12, <2>6 DEF Book!Rests
  <2>8. AbstractBook' = IF Book!Rests(b, t) THEN Book!Added(b, t.id, Book!Residual(t)) ELSE b
    BY <1>7, <1>11, <2>4, <2>5, <2>7
  <2>9. QED BY <1>4, <1>5, <1>6, <1>9, <2>8 DEF Book!MatchEnd
<1>13. CASE ~(c.rest /\ c.remaining > 0 /\ c.type = "LIMIT" /\ CanAdd(ob, c.id, o))
  <2>1. ob' = ob
    BY <1>3, <1>10, <1>13 DEF MatchEnd
  <2>2. AbstractBook' = b
    BY <1>6, <2>1, AbstractIs
  <2>3. ~Book!Rests(b, t)
    <3>1. ASSUME c.remaining > 0 PROVE CanAdd(ob, c.id, o) <=> Book!CanAdd(b, c.id, o)
      <4>1. c.id \in OrderIds /\ o \in Orders
        BY <1>2, <1>3, <1>10, <3>1, ResidualFacts
      <4>2. QED BY <1>1, <1>3, <4>1, CanAddIs
    <3>2. QED BY <1>7, <1>11, <1>13, <3>1 DEF Book!Rests
  <2>4. AbstractBook' = IF Book!Rests(b, t) THEN Book!Added(b, t.id, Book!Residual(t)) ELSE b
    BY <2>2, <2>3
  <2>5. QED BY <1>4, <1>5, <1>6, <1>9, <2>4 DEF Book!MatchEnd
<1>14. QED BY <1>12, <1>13

\* Every step of the structure is a step of the price-time book, or none.
LEMMA StepCorresponds == MatchInv /\ [Next]_vars => [Book!Next]_(Book!vars)
<1> SUFFICES ASSUME MatchInv, [Next]_vars PROVE [Book!Next]_(Book!vars)
  OBVIOUS
<1>1. Inv
  BY DEF MatchInv
<1>2. ASSUME NEW id \in OrderIds, NEW o \in Orders, AddOrder(id, o) \/ ModifyOrder(id, o)
      PROVE  Book!Next
  BY <1>1, <1>2, AddCorresponds, ModifyCorresponds DEF Book!Next, Orders, Book!Orders, Sides,
     Book!Sides, Lots, Book!Lots
<1>3. ASSUME NEW id \in OrderIds, CancelOrder(id) PROVE Book!Next
  BY <1>1, <1>3, CancelCorresponds DEF Book!Next
<1>4. ASSUME NEW id \in OrderIds, NEW n \in Lots, CancelOrderPartial(id, n) PROVE Book!Next
  BY <1>1, <1>4, PartialCorresponds DEF Book!Next, Lots, Book!Lots
<1>5. ASSUME NEW id \in OrderIds, NEW side \in Sides, NEW type \in OrderTypes, NEW price \in Prices,
             NEW lots \in Lots, NEW rest \in BOOLEAN, rest => type = "LIMIT",
             MatchBegin(id, side, type, price, lots, rest)
      PROVE  Book!Next
  <2>1. Book!MatchBegin(id, side, type, price, lots, rest)
    BY <1>5, BeginCorresponds
  <2>2. side \in Book!Sides /\ lots \in Book!Lots
    BY DEF Sides, Book!Sides, Lots, Book!Lots
  <2>3. QED BY <1>5, <2>1, <2>2 DEF Book!Next
<1>6. ASSUME MatchTrade PROVE Book!Next
  BY <1>6, TradeCorresponds DEF Book!Next
<1>7. ASSUME MatchEnd PROVE Book!Next
  BY <1>7, EndCorresponds DEF Book!Next
<1>8. ASSUME UNCHANGED vars PROVE UNCHANGED Book!vars
  <2>1. ob' = ob /\ cursor' = cursor
    BY <1>8 DEF vars
  <2>2. AbstractBook' = AbstractBook
    BY <2>1, AbstractIs
  <2>3. AbstractTaker' = AbstractTaker
    BY <2>1 DEF AbstractTaker
  <2>4. QED BY <2>2, <2>3 DEF Book!vars
<1>9. QED BY <1>2, <1>3, <1>4, <1>5, <1>6, <1>7, <1>8 DEF Next

\* The order book implements the price-time book: each operation, and each
\* trade of match_order, is a step of it, so that no trade passes over an order
\* with a better price, or with the same price and an earlier place.
THEOREM BookImplements == Spec => ImplementsPriceTimeBook
<1>1. Init => MatchInv
  BY InitMatch
<1>2. MatchInv /\ [Next]_vars => MatchInv'
  BY NextMatch
<1>3. Init => Book!Init
  BY InitCorresponds
<1>4. MatchInv /\ [Next]_vars => [Book!Next]_(Book!vars)
  BY StepCorresponds
<1>5. QED BY <1>1, <1>2, <1>3, <1>4, PTL DEF Spec, ImplementsPriceTimeBook, Book!Spec
=============================================================================
