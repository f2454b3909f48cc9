-------------------------- MODULE RiskManagerProofs --------------------------
(***************************************************************************)
(* The risk manager, for every set of orders, symbols, prices and limits.  *)
(***************************************************************************)
EXTENDS RiskManager, SumProofs

-----------------------------------------------------------------------------
(* Fractions                                                               *)

LEMMA Cancelled ==
    ASSUME NEW g \in Nat \ {0}, NEW x \in Int, NEW y \in Int, g * x = g * y
    PROVE  x = y
OBVIOUS

LEMMA Divided ==
    ASSUME NEW n \in Int, NEW g \in Nat \ {0}, n % g = 0
    PROVE  n \div g \in Int /\ n = g * (n \div g)
OBVIOUS

LEMMA ProductPositive ==
    ASSUME NEW m \in Nat \ {0}, NEW n \in Nat \ {0}
    PROVE  m * n \in Nat \ {0}
OBVIOUS

\* A set of numbers up to n that has 1 has a largest number.
LEMMA Largest ==
    ASSUME NEW n \in Nat \ {0}, NEW C, C \subseteq 1 .. n, 1 \in C
    PROVE  \E d \in C : \A e \in d + 1 .. n : e \notin C
<1> DEFINE above(d) == d + 1 .. n
           A == {above(d) : d \in C}
<1>1. PICK t \in A : \A u \in A : u \subseteq t => u = t
  <2>1. \A d \in C : above(d) \in SUBSET (1 .. n)
    OBVIOUS
  <2>2. IsFiniteSet(1 .. n)
    BY FS_Interval
  <2> HIDE DEF above
  <2>3. A \subseteq SUBSET (1 .. n) /\ A # {}
    BY <2>1
  <2> HIDE DEF A
  <2>4. PICK S : S = 1 .. n
    OBVIOUS
  <2>5. A \subseteq SUBSET S /\ A # {} /\ IsFiniteSet(S)
    BY <2>2, <2>3, <2>4
  <2>6. QED BY <2>5, Smallest
<1>2. PICK d \in C : t = above(d)
  BY <1>1
<1>3. ASSUME NEW e \in d + 1 .. n, e \in C PROVE FALSE
  <2>1. above(e) \subseteq t /\ e \in t /\ e \notin above(e)
    BY <1>2, <1>3
  <2>2. QED BY <1>1, <1>3, <2>1
<1>4. QED BY <1>3

\* q is the fraction n/d.
Is(q, n, d) == q[1] * d = n * q[2]

LEMMA LowestIs ==
    ASSUME NEW q \in Fractions
    PROVE  /\ Lowest(q) \in Fractions
           /\ \A n \in Int, d \in Nat \ {0} : Is(q, n, d) => Is(Lowest(q), n, d)
           /\ \A n \in Int : Is(q, n, 1) => Lowest(q) = Frac(n)
<1>1. PICK x \in Int, y \in Nat \ {0} : q = <<x, y>>
  BY DEF Fractions
<1>2. CASE y = 1
  <2>1. Lowest(q) = q
    BY <1>1, <1>2 DEF Lowest
  <2>2. ASSUME NEW n \in Int, Is(q, n, 1) PROVE q = Frac(n)
    <3>1. x = n
      BY <1>1, <1>2, <2>2 DEF Is
    <3>2. QED BY <1>1, <1>2, <3>1 DEF Frac
  <2>3. QED BY <2>1, <2>2
<1>3. CASE y # 1
  <2> DEFINE C == {d \in 1 .. y : CommonDivisor(q, d)}
             g == CHOOSE d \in 1 .. y :
                    CommonDivisor(q, d) /\ \A e \in d + 1 .. y : ~CommonDivisor(q, e)
  <2>1. Lowest(q) = <<x \div g, y \div g>>
    BY <1>1, <1>3 DEF Lowest
  <2>2. \E d \in 1 .. y : CommonDivisor(q, d) /\ \A e \in d + 1 .. y : ~CommonDivisor(q, e)
    <3>1. C \subseteq 1 .. y /\ 1 \in C
      BY <1>1 DEF CommonDivisor
    <3>2. PICK d \in C : \A e \in d + 1 .. y : e \notin C
      <4> HIDE DEF C
      <4>1. QED BY <3>1, Largest
    <3>3. QED BY <3>2
  <2>3. /\ g \in 1 .. y /\ CommonDivisor(q, g)
        /\ \A e \in g + 1 .. y : ~CommonDivisor(q, e)
    BY <2>2
  <2> HIDE DEF g
  <2>4. g \in Nat \ {0} /\ x % g = 0 /\ y % g = 0
    BY <1>1, <2>3 DEF CommonDivisor
  <2>5. PICK a, b : a = x \div g /\ b = y \div g
    OBVIOUS
  <2>6. a \in Int /\ b \in Int /\ x = g * a /\ y = g * b
    BY <2>4, <2>5, Divided
  <2>7. b \in Nat \ {0}
    BY <2>4, <2>6
  <2>8. Lowest(q) = <<a, b>> /\ Lowest(q) \in Fractions
    BY <2>1, <2>5, <2>6, <2>7 DEF Fractions
  <2>9. ASSUME NEW n \in Int, NEW d \in Nat \ {0}, Is(q, n, d) PROVE Is(Lowest(q), n, d)
    <3>1. g * a * d = n * (g * b)
      BY <1>1, <2>6, <2>9 DEF Is
    <3>2. g * (a * d) = g * (n * b)
      BY <2>4, <2>6, <3>1
    <3>3. a * d = n * b
      BY <2>4, <2>6, <3>2, Cancelled
    <3>4. QED BY <2>8, <3>3 DEF Is
  <2>10. ASSUME NEW n \in Int, Is(q, n, 1) PROVE Lowest(q) = Frac(n)
    <3>1. x = n * y
      BY <1>1, <2>10 DEF Is
    <3>2. x % y = 0 /\ y % y = 0
      BY <3>1
    <3>3. CommonDivisor(q, y)
      BY <1>1, <3>2 DEF CommonDivisor
    <3>4. g = y
      BY <2>3, <3>3
    <3>5. b = 1
      BY <2>5, <3>4
    <3>6. a = n
      BY <2>6, <3>1, <3>4, <3>5
    <3>7. QED BY <2>8, <3>5, <3>6 DEF Frac
  <2>11. QED BY <2>8, <2>9, <2>10
<1>4. QED BY <1>2, <1>3

LEMMA LowestWhole ==
    ASSUME NEW q \in Fractions, NEW n \in Int, NEW d \in Nat \ {0}, Is(q, n * d, d)
    PROVE  Lowest(q) = Frac(n)
<1>1. PICK x \in Int, y \in Nat \ {0} : q = <<x, y>>
  BY DEF Fractions
<1>2. x * d = n * d * y
  BY <1>1 DEF Is
<1>3. d * x = d * (n * y)
  BY <1>2
<1>4. x = n * y
  BY <1>3, Cancelled
<1>5. Is(q, n, 1)
  BY <1>1, <1>4 DEF Is
<1>6. QED BY <1>5, LowestIs

LEMMA FracIs ==
    ASSUME NEW n \in Int
    PROVE  Frac(n) \in Fractions /\ (\A d \in Nat \ {0} : Is(Frac(n), n * d, d))
BY DEF Frac, Fractions, Is

LEMMA Scaled ==
    ASSUME NEW q \in Fractions, NEW n \in Int, NEW d \in Nat \ {0}, Is(q, n, d),
           NEW k \in Nat \ {0}
    PROVE  Is(q, n * k, d * k) /\ d * k \in Nat \ {0} /\ n * k \in Int
<1>1. PICK x \in Int, y \in Nat \ {0} : q = <<x, y>>
  BY DEF Fractions
<1>2. x * d = n * y
  BY <1>1 DEF Is
<1>3. x * (d * k) = (x * d) * k /\ (n * k) * y = (n * y) * k
  OBVIOUS
<1>4. x * (d * k) = (n * k) * y
  BY <1>2, <1>3
<1>5. QED BY <1>1, <1>4 DEF Is

LEMMA IsOnly ==
    ASSUME NEW q \in Fractions, NEW a \in Int, NEW b \in Int, NEW d \in Nat \ {0},
           Is(q, a, d), Is(q, b, d)
    PROVE  a = b
<1>1. PICK x \in Int, y \in Nat \ {0} : q = <<x, y>>
  BY DEF Fractions
<1>2. a * y = b * y
  BY <1>1 DEF Is
<1>3. y * a = y * b
  BY <1>2
<1>4. QED BY <1>3, Cancelled

LEMMA PlusIs ==
    ASSUME NEW q \in Fractions, NEW r \in Fractions
    PROVE  /\ Plus(q, r) \in Fractions
           /\ \A a, b \in Int, d \in Nat \ {0} :
                Is(q, a, d) /\ Is(r, b, d) =>
                  /\ Is(Plus(q, r), a + b, d)
                  /\ \A n \in Int : a + b = n * d => Plus(q, r) = Frac(n)
<1>1. PICK x \in Int, y \in Nat \ {0} : q = <<x, y>>
  BY DEF Fractions
<1>2. PICK u \in Int, v \in Nat \ {0} : r = <<u, v>>
  BY DEF Fractions
<1>3. PICK m, p : m = x * v + u * y /\ p = y * v
  OBVIOUS
<1>4. <<m, p>> \in Fractions /\ m \in Int /\ p \in Nat \ {0} /\ Plus(q, r) = Lowest(<<m, p>>)
  BY <1>1, <1>2, <1>3, ProductPositive DEF Fractions, Plus
<1>5. ASSUME NEW a \in Int, NEW b \in Int, NEW d \in Nat \ {0}, Is(q, a, d), Is(r, b, d)
      PROVE  Is(<<m, p>>, a + b, d)
  <2>1. x * d = a * y /\ u * d = b * v
    BY <1>1, <1>2, <1>5 DEF Is
  <2>2. m * d = (x * d) * v + (u * d) * y
    BY <1>3
  <2>3. m * d = (a * y) * v + (b * v) * y
    BY <2>1, <2>2
  <2>4. (a + b) * p = (a * y) * v + (b * v) * y
    BY <1>3
  <2>5. QED BY <2>3, <2>4 DEF Is
<1>6. ASSUME NEW a \in Int, NEW b \in Int, NEW d \in Nat \ {0}, Is(q, a, d), Is(r, b, d)
      PROVE  /\ Is(Plus(q, r), a + b, d)
             /\ \A n \in Int : a + b = n * d => Plus(q, r) = Frac(n)
  <2>1. Is(<<m, p>>, a + b, d) /\ a + b \in Int
    BY <1>5, <1>6
  <2>2. Is(Plus(q, r), a + b, d)
    BY <1>4, <2>1, LowestIs
  <2>3. ASSUME NEW n \in Int, a + b = n * d PROVE Plus(q, r) = Frac(n)
    <3>1. Is(<<m, p>>, n * d, d)
      BY <2>1, <2>3
    <3>2. QED BY <1>4, <3>1, LowestWhole
  <2>4. QED BY <2>2, <2>3
<1>7. Plus(q, r) \in Fractions
  BY <1>4, LowestIs
<1>8. QED BY <1>6, <1>7

LEMMA TimesIs ==
    ASSUME NEW n \in Int, NEW q \in Fractions
    PROVE  /\ Times(n, q) \in Fractions
           /\ \A a \in Int, d \in Nat \ {0} : Is(q, a, d) => Is(Times(n, q), n * a, d)
<1>1. PICK x \in Int, y \in Nat \ {0} : q = <<x, y>>
  BY DEF Fractions
<1>2. <<n * x, y>> \in Fractions /\ Times(n, q) = Lowest(<<n * x, y>>)
  BY <1>1 DEF Fractions, Times
<1>3. ASSUME NEW a \in Int, NEW d \in Nat \ {0}, Is(q, a, d)
      PROVE  Is(<<n * x, y>>, n * a, d)
  <2>1. x * d = a * y
    BY <1>1, <1>3 DEF Is
  <2>2. n * x * d = n * (x * d) /\ n * a * y = n * (a * y)
    OBVIOUS
  <2>3. QED BY <2>1, <2>2 DEF Is
<1>4. QED
  <2>1. \A a \in Int : n * a \in Int
    OBVIOUS
  <2>2. QED BY <1>2, <1>3, <2>1, LowestIs

LEMMA MinusIs ==
    ASSUME NEW q \in Fractions, NEW r \in Fractions
    PROVE  /\ Minus(q, r) \in Fractions
           /\ \A a, b \in Int, d \in Nat \ {0} :
                Is(q, a, d) /\ Is(r, b, d) => Is(Minus(q, r), a - b, d)
<1>1. Times(-1, r) \in Fractions /\ Minus(q, r) = Plus(q, Times(-1, r))
  BY TimesIs DEF Minus
<1>2. ASSUME NEW a \in Int, NEW b \in Int, NEW d \in Nat \ {0}, Is(q, a, d), Is(r, b, d)
      PROVE  Is(Minus(q, r), a - b, d)
  <2>1. Is(Times(-1, r), (-1) * b, d) /\ (-1) * b \in Int
    BY <1>2, TimesIs
  <2>2. Is(Minus(q, r), a + (-1) * b, d)
    BY <1>1, <1>2, <2>1, PlusIs
  <2>3. a + (-1) * b = a - b
    OBVIOUS
  <2>4. QED BY <2>2, <2>3
<1>3. QED BY <1>1, <1>2, PlusIs

LEMMA OverIs ==
    ASSUME NEW q \in Fractions, NEW n \in Nat \ {0}
    PROVE  /\ Over(q, n) \in Fractions
           /\ \A a \in Int, d \in Nat \ {0} : Is(q, a, d) => Is(Over(q, n), a, d * n)
<1>1. PICK x \in Int, y \in Nat \ {0} : q = <<x, y>>
  BY DEF Fractions
<1>2. y * n \in Nat \ {0} /\ <<x, y * n>> \in Fractions /\ Over(q, n) = Lowest(<<x, y * n>>)
  BY <1>1, ProductPositive DEF Fractions, Over
<1>3. ASSUME NEW a \in Int, NEW d \in Nat \ {0}, Is(q, a, d)
      PROVE  Is(<<x, y * n>>, a, d * n) /\ d * n \in Nat \ {0}
  <2>1. x * d = a * y
    BY <1>1, <1>3 DEF Is
  <2>2. x * (d * n) = (x * d) * n /\ a * (y * n) = (a * y) * n
    OBVIOUS
  <2>3. QED BY <2>1, <2>2, ProductPositive DEF Is
<1>4. QED BY <1>2, <1>3, LowestIs

LEMMA IsItself ==
    ASSUME NEW q \in Fractions
    PROVE  \E n \in Int, d \in Nat \ {0} : Is(q, n, d)
<1>1. PICK x \in Int, y \in Nat \ {0} : q = <<x, y>>
  BY DEF Fractions
<1>2. Is(q, x, y)
  BY <1>1 DEF Is
<1>3. QED BY <1>2

-----------------------------------------------------------------------------
(* What is held                                                            *)

Values(held) == [s \in Symbols |-> held[s].net * held[s].mark]

Held(held) == MapThenSumSet(LAMBDA s : held[s].net * held[s].mark, Symbols)

LEMMA HeldIsSum ==
    ASSUME NEW held
    PROVE  Held(held) = Sum(Values(held), Symbols)
<1> DEFINE E(g) == g = [s \in SUBSET Symbols |->
                          IF s = {} THEN 0
                          ELSE held[Pick(s)].net * held[Pick(s)].mark + g[s \ {Pick(s)}]]
<1>1. ASSUME NEW g PROVE E(g) <=> Sums(Values(held), Symbols, g)
  <2>1. \A s \in SUBSET Symbols : s # {} =>
          Values(held)[Pick(s)] = held[Pick(s)].net * held[Pick(s)].mark
    BY Picked DEF Values
  <2>2. [s \in SUBSET Symbols |-> IF s = {} THEN 0
                                  ELSE held[Pick(s)].net * held[Pick(s)].mark + g[s \ {Pick(s)}]]
          = [s \in SUBSET Symbols |-> IF s = {} THEN 0
                                      ELSE Values(held)[Pick(s)] + g[s \ {Pick(s)}]]
    BY <2>1
  <2>3. QED BY <2>2 DEF Sums
<1>2. Held(held) = (CHOOSE g : E(g))[Symbols]
  BY DEF Held, MapThenSumSet, MapThenFoldSet, Pick
<1>3. \E g : E(g)
  BY <1>1, SumsExist, RiskAssumption
<1> HIDE DEF E
<1>4. E(CHOOSE g : E(g))
  BY <1>3
<1>5. /\ Sums(Values(held), Symbols, CHOOSE g : E(g))
      /\ Sums(Values(held), Symbols, Subtotals(Values(held), Symbols))
  BY <1>1, <1>4 DEF Subtotals
<1>6. (CHOOSE g : E(g)) = Subtotals(Values(held), Symbols)
  BY <1>5, SumsUnique, RiskAssumption
<1>7. QED BY <1>2, <1>6 DEF Sum

LEMMA HeldNow == MapThenSumSet(MarkedValue, Symbols) = Held(positions)
BY DEF Held, MapThenSumSet, MapThenFoldSet, MarkedValue

\* The holdings, when those of one symbol change.
LEMMA HeldChange ==
    ASSUME NEW held, NEW s \in Symbols, NEW p, p.net * p.mark \in Int,
           \A x \in Symbols : held[x].net * held[x].mark \in Int,
           NEW after, after[s] = p, \A x \in Symbols \ {s} : after[x] = held[x]
    PROVE  /\ Held(held) \in Int
           /\ Held(after) = Held(held) - held[s].net * held[s].mark + p.net * p.mark
<1>1. PICK f, g, R : f = Values(held) /\ g = Values(after) /\ R = Symbols \ {s}
  OBVIOUS
<1>2. /\ \A x \in Symbols : f[x] \in Int /\ g[x] \in Int
      /\ \A x \in R : f[x] = g[x]
      /\ f[s] = held[s].net * held[s].mark /\ g[s] = p.net * p.mark
  BY <1>1 DEF Values
<1>3. IsFiniteSet(Symbols) /\ IsFiniteSet(R)
  BY <1>1, RiskAssumption, FS_RemoveElement
<1>4. Sum(f, Symbols) = f[s] + Sum(f, R) /\ Sum(g, Symbols) = g[s] + Sum(g, R)
  BY <1>1, <1>2, <1>3, SumWithout
<1>5. Sum(f, R) = Sum(g, R)
  BY <1>2, <1>3, SumSame
<1>6. Sum(f, R) \in Int
  <2>1. \A x \in R : f[x] \in Int
    BY <1>1, <1>2
  <2>2. QED BY <1>3, <2>1, SumType
<1>7. PICK a, b, t : a = f[s] /\ b = g[s] /\ t = Sum(f, R)
  OBVIOUS
<1>8. a \in Int /\ b \in Int /\ t \in Int /\ Sum(f, Symbols) = a + t /\ Sum(g, Symbols) = b + t
  BY <1>2, <1>4, <1>5, <1>6, <1>7
<1>9. Held(held) = a + t /\ Held(after) = b + t
  BY <1>1, <1>8, HeldIsSum
<1>10. QED
  <2>1. b + t = (a + t) - a + b /\ a + t \in Int
    BY <1>8
  <2>2. QED BY <1>2, <1>7, <1>9, <2>1

-----------------------------------------------------------------------------
(* One position                                                            *)

Positions == [net : Int, avg : Fractions, mark : Prices \cup {0}, unrealized : Fractions]

\* What is called unrealized is the difference between the mark and the average.
MarkedRight(p) ==
    /\ p.mark = 0 => p.net = 0
    /\ \A a \in Int, d \in Nat \ {0} :
         Is(p.avg, a, d) => Is(p.unrealized, p.net * (p.mark * d - a), d)

LEMMA PriceFacts ==
    /\ \A price \in Prices : price \in Nat \ {0}
    /\ MaxLots \in Nat \ {0} /\ Lots \subseteq Nat \ {0}
BY LedgerAssumption DEF Lots

LEMMA Marked ==
    ASSUME NEW p \in Positions, NEW price \in Prices
    PROVE  /\ MarkedAt(p, price) \in Positions
           /\ MarkedAt(p, price).net = p.net /\ MarkedAt(p, price).avg = p.avg
           /\ MarkedAt(p, price).mark = price
           /\ MarkedRight(MarkedAt(p, price))
<1>0. PICK net, avg : net = p.net /\ avg = p.avg
  OBVIOUS
<1> DEFINE p2 == [p EXCEPT !.mark = price]
           u == Unrealized(p2)
           q == [p2 EXCEPT !.unrealized = u]
<1>1. price \in Nat \ {0} /\ price > 0
  BY PriceFacts
<1>2. /\ p2 \in Positions /\ p2.net = net /\ p2.avg = avg /\ p2.mark = price
      /\ net \in Int /\ avg \in Fractions
  BY <1>0 DEF Positions
<1>3. u = IF net # 0 THEN Times(net, Minus(Frac(price), avg)) ELSE Frac(0)
  BY <1>1, <1>2 DEF Unrealized
<1>4. Minus(Frac(price), avg) \in Fractions /\ Frac(price) \in Fractions
  BY <1>1, <1>2, FracIs, MinusIs
<1>5. u \in Fractions
  BY <1>2, <1>3, <1>4, TimesIs, FracIs
<1>6. ASSUME NEW a \in Int, NEW d \in Nat \ {0}, Is(avg, a, d)
      PROVE  Is(u, net * (price * d - a), d)
  <2>1. PICK b : b = price * d - a
    OBVIOUS
  <2>2. b \in Int /\ price * d \in Int
    BY <1>1, <2>1
  <2>3. CASE net = 0
    <3>1. net * b = 0 /\ 0 * d = 0
      BY <2>2, <2>3
    <3>2. Is(Frac(0), 0 * d, d)
      BY FracIs
    <3>3. QED BY <1>3, <2>1, <2>3, <3>1, <3>2
  <2>4. CASE net # 0
    <3>1. Is(Frac(price), price * d, d)
      BY <1>1, FracIs
    <3>2. Is(Minus(Frac(price), avg), b, d)
      BY <1>2, <1>4, <1>6, <2>1, <2>2, <3>1, MinusIs
    <3>3. Is(Times(net, Minus(Frac(price), avg)), net * b, d)
      BY <1>2, <1>4, <2>2, <3>2, TimesIs
    <3>4. QED BY <1>3, <2>1, <2>4, <3>3
  <2>5. QED BY <2>3, <2>4
<1> HIDE DEF u, p2
<1>7. /\ q \in Positions /\ q.net = net /\ q.avg = avg /\ q.mark = price /\ q.unrealized = u
  BY <1>2, <1>5 DEF Positions
<1> HIDE DEF q
<1>8. MarkedRight(q)
  BY <1>1, <1>6, <1>7 DEF MarkedRight
<1>9. q = MarkedAt(p, price)
  BY DEF q, u, p2, MarkedAt
<1>10. QED BY <1>0, <1>7, <1>8, <1>9

\* What a fill leaves unrealized and what it realizes are together what the old
\* position is worth above its average at the fill price.
Realizes(p, q, rb, price) ==
    \A a \in Int, d \in Nat \ {0} : Is(p.avg, a, d) =>
      \E k \in Nat \ {0}, x, z \in Int :
        /\ Is(rb, x, d * k) /\ Is(q.unrealized, z, d * k)
        /\ x + z = p.net * (price * (d * k) - a * k)

LEMMA SideFacts ==
    ASSUME NEW side \in Sides, NEW lots \in Nat \ {0}
    PROVE  /\ Signed(side, lots) \in {lots, -lots} /\ Signed(side, lots) \in Int
           /\ Signed(side, lots) # 0
BY DEF Sides, Signed

\* Opening or extending a position: the algebra.
LEMMA Extended ==
    ASSUME NEW A \in Nat, NEW lots \in Nat \ {0}, NEW price \in Nat, NEW a \in Int,
           NEW d \in Nat \ {0}, NEW s \in {1, -1}, NEW n \in Nat \ {0}, n = A + lots
    PROVE  (s * n) * (price * (d * n) - (A * a + price * lots * d))
             = (s * A) * (price * (d * n) - a * n)
<1>1. price * (d * n) = price * d * A + price * d * lots
  OBVIOUS
<1>2. price * (d * n) - (A * a + price * lots * d) = A * (price * d - a)
  BY <1>1
<1>3. price * (d * n) - a * n = n * (price * d - a)
  OBVIOUS
<1>4. PICK e : e = price * d - a
  OBVIOUS
<1>5. e \in Int
  BY <1>4
<1>6. (s * n) * (A * e) = (s * A) * (n * e)
  BY <1>5
<1>7. QED BY <1>2, <1>3, <1>4, <1>6

LEMMA Filled ==
    ASSUME NEW p \in Positions, NEW side \in Sides, NEW price \in Prices, NEW lots \in Lots
    PROVE  LET q == PositionAfter(p, side, price, lots)
               rb == RealizedBy(p, side, price, lots)
           IN  /\ q \in Positions /\ MarkedRight(q)
               /\ q.net = p.net + Signed(side, lots) /\ q.mark = price
               /\ rb \in Fractions
               /\ Realizes(p, q, rb, price)
<1> DEFINE delta == Signed(side, lots)
           net == p.net + delta
           extends == p.net = 0 \/ SameSign(p.net, delta)
           folded == Over(Plus(Times(Abs(p.net), p.avg), Frac(price * lots)), Abs(net))
           avg == IF extends THEN folded
                  ELSE IF net = 0 THEN Frac(0)
                  ELSE IF SameSign(net, p.net) THEN p.avg
                  ELSE Frac(price)
           q == PositionAfter(p, side, price, lots)
           rb == RealizedBy(p, side, price, lots)
<1>1. /\ price \in Nat \ {0} /\ lots \in Nat \ {0}
      /\ p.net \in Int /\ p.avg \in Fractions
  BY PriceFacts DEF Positions
<1>2. delta \in {lots, -lots} /\ delta \in Int /\ delta # 0
  BY <1>1, SideFacts
<1>3. net \in Int
  BY <1>1, <1>2
<1>4. q = MarkedAt([p EXCEPT !.net = net, !.avg = avg], price)
  BY DEF PositionAfter
<1>5. rb = IF extends THEN Frac(0)
           ELSE LET closed == IF Abs(p.net) <= lots THEN Abs(p.net) ELSE lots
                IN  Times(IF p.net > 0 THEN closed ELSE -closed, Minus(Frac(price), p.avg))
  BY DEF RealizedBy
<1> HIDE DEF delta, q, rb
<1>6. price * lots \in Int /\ Frac(price * lots) \in Fractions /\ Frac(price) \in Fractions
      /\ Frac(0) \in Fractions
  BY <1>1, FracIs
<1>7. ASSUME extends
      PROVE  \E s \in {1, -1} : /\ p.net = s * Abs(p.net) /\ net = s * Abs(net)
                                /\ Abs(p.net) \in Nat /\ Abs(net) \in Nat \ {0}
                                /\ Abs(net) = Abs(p.net) + lots
  <2>1. CASE delta = lots
    <3>1. Abs(p.net) = p.net /\ Abs(net) = net
      BY <1>1, <1>2, <1>7, <2>1 DEF Abs, SameSign
    <3>2. p.net \in Nat /\ net \in Nat \ {0} /\ p.net = 1 * p.net /\ net = 1 * net /\ net = p.net + lots
      BY <1>1, <1>2, <1>7, <2>1 DEF SameSign
    <3>3. QED BY <3>1, <3>2
  <2>2. CASE delta = -lots
    <3>1. Abs(p.net) = -p.net /\ Abs(net) = -net
      BY <1>1, <1>2, <1>7, <2>2 DEF Abs, SameSign
    <3>2. -p.net \in Nat /\ -net \in Nat \ {0} /\ p.net = (-1) * (-p.net) /\ net = (-1) * (-net)
          /\ -net = -p.net + lots
      BY <1>1, <1>2, <1>7, <2>2 DEF SameSign
    <3>3. QED BY <3>1, <3>2
  <2>3. QED BY <1>2, <2>1, <2>2
<1>8. ASSUME extends
      PROVE  /\ folded \in Fractions
             /\ \A a \in Int, d \in Nat \ {0} : Is(p.avg, a, d) =>
                  Is(folded, Abs(p.net) * a + price * lots * d, d * Abs(net))
  <2>1. PICK A, n : A = Abs(p.net) /\ n = Abs(net)
    OBVIOUS
  <2>2. A \in Nat /\ n \in Nat \ {0}
    BY <1>7, <1>8, <2>1
  <2>3. Times(A, p.avg) \in Fractions
    BY <1>1, <2>2, TimesIs
  <2>4. Plus(Times(A, p.avg), Frac(price * lots)) \in Fractions
    BY <1>6, <2>3, PlusIs
  <2>5. folded \in Fractions
    BY <2>1, <2>2, <2>4, OverIs
  <2>6. ASSUME NEW a \in Int, NEW d \in Nat \ {0}, Is(p.avg, a, d)
        PROVE  Is(folded, A * a + price * lots * d, d * n)
    <3>1. PICK b, c : b = A * a /\ c = price * lots * d
      OBVIOUS
    <3>2. b \in Int /\ c \in Int
      BY <1>1, <2>2, <3>1
    <3>3. Is(Times(A, p.avg), b, d)
      BY <1>1, <2>2, <2>6, <3>1, TimesIs
    <3>4. Is(Frac(price * lots), c, d)
      BY <1>6, <3>1, FracIs
    <3>5. Is(Plus(Times(A, p.avg), Frac(price * lots)), b + c, d) /\ b + c \in Int
      BY <1>6, <2>3, <3>2, <3>3, <3>4, PlusIs
    <3>6. Is(folded, b + c, d * n)
      BY <2>1, <2>2, <2>4, <3>5, OverIs
    <3>7. QED BY <3>1, <3>6
  <2>7. QED BY <2>1, <2>5, <2>6
<1>9. avg \in Fractions
  BY <1>1, <1>6, <1>8
<1>10. /\ q \in Positions /\ q.net = net /\ q.avg = avg /\ q.mark = price /\ MarkedRight(q)
  <2>1. PICK r : r = [p EXCEPT !.net = net, !.avg = avg]
    OBVIOUS
  <2>2. r \in Positions /\ r.net = net /\ r.avg = avg
    <3> HIDE DEF net, avg
    <3>1. QED BY <1>3, <1>9, <2>1 DEF Positions
  <2>3. q = MarkedAt(r, price)
    BY <1>4, <2>1
  <2>4. QED BY <2>2, <2>3, Marked
<1>11. Minus(Frac(price), p.avg) \in Fractions
  BY <1>1, <1>6, MinusIs
<1>12. CASE extends
  <2>1. rb = Frac(0) /\ rb \in Fractions
    BY <1>5, <1>6, <1>12
  <2>2. q.avg = folded
    BY <1>10, <1>12
  <2>3. ASSUME NEW a \in Int, NEW d \in Nat \ {0}, Is(p.avg, a, d)
        PROVE  \E k \in Nat \ {0}, x, z \in Int :
                 /\ Is(rb, x, d * k) /\ Is(q.unrealized, z, d * k)
                 /\ x + z = p.net * (price * (d * k) - a * k)
    <3>1. PICK s \in {1, -1} : /\ p.net = s * Abs(p.net) /\ net = s * Abs(net)
                               /\ Abs(p.net) \in Nat /\ Abs(net) \in Nat \ {0}
                               /\ Abs(net) = Abs(p.net) + lots
      BY <1>7, <1>12
    <3>2. PICK A, n, m, D : /\ A = Abs(p.net) /\ n = Abs(net)
                            /\ m = A * a + price * lots * d /\ D = d * n
      OBVIOUS
    <3>3. /\ A \in Nat /\ n \in Nat \ {0} /\ p.net = s * A /\ net = s * n /\ n = A + lots
      BY <3>1, <3>2
    <3>4. m \in Int /\ D \in Nat \ {0}
      BY <1>1, <3>2, <3>3, ProductPositive
    <3>5. Is(q.avg, m, D)
      BY <1>8, <1>12, <2>2, <2>3, <3>2
    <3>6. PICK z : z = net * (price * D - m)
      OBVIOUS
    <3>7. Is(q.unrealized, z, D)
      BY <1>10, <3>4, <3>5, <3>6 DEF MarkedRight
    <3>8. z = p.net * (price * D - a * n)
      <4>1. (s * n) * (price * (d * n) - (A * a + price * lots * d))
              = (s * A) * (price * (d * n) - a * n)
        BY <1>1, <3>3, Extended
      <4>2. z = (s * n) * (price * (d * n) - (A * a + price * lots * d))
        BY <3>2, <3>3, <3>6
      <4>3. QED BY <3>2, <3>3, <4>1, <4>2
    <3>9. z \in Int /\ 0 + z = z
      BY <1>1, <1>3, <3>4, <3>6
    <3>10. 0 * D = 0
      BY <3>4
    <3>11. Is(rb, 0, D)
      BY <2>1, <3>4, <3>10, FracIs
    <3>12. PICK x \in Int : Is(rb, x, D) /\ x + z = z
      BY <3>9, <3>11
    <3>13. /\ Is(rb, x, d * n) /\ Is(q.unrealized, z, d * n)
           /\ x + z = p.net * (price * (d * n) - a * n)
      BY <3>2, <3>7, <3>8, <3>12
    <3>14. QED BY <3>3, <3>9, <3>13
  <2>4. Realizes(p, q, rb, price)
    BY <2>3 DEF Realizes
  <2>5. QED BY <1>10, <2>1, <2>4 DEF delta, q, rb
<1>13. CASE ~extends
  <2>1. PICK n : n = IF net = 0 \/ SameSign(net, p.net) THEN p.net - net ELSE p.net
    OBVIOUS
  <2>2. n \in Int
    BY <1>1, <1>3, <2>1
  <2>3. rb = Times(n, Minus(Frac(price), p.avg))
    <3>1. PICK c : c = IF p.net > 0 THEN (IF Abs(p.net) <= lots THEN Abs(p.net) ELSE lots)
                       ELSE -(IF Abs(p.net) <= lots THEN Abs(p.net) ELSE lots)
      OBVIOUS
    <3>2. rb = Times(c, Minus(Frac(price), p.avg))
      BY <1>5, <1>13, <3>1
    <3>3. c = n
      <4>1. CASE delta = lots
        BY <1>1, <1>13, <2>1, <3>1, <4>1 DEF Abs, SameSign
      <4>2. CASE delta = -lots
        BY <1>1, <1>13, <2>1, <3>1, <4>2 DEF Abs, SameSign
      <4>3. QED BY <1>2, <4>1, <4>2
    <3>4. QED BY <3>2, <3>3
  <2>4. rb \in Fractions
    BY <1>11, <2>2, <2>3, TimesIs
  <2>5. ASSUME NEW a \in Int, NEW d \in Nat \ {0}, Is(p.avg, a, d)
        PROVE  \E x, z \in Int :
                 /\ Is(rb, x, d) /\ Is(q.unrealized, z, d)
                 /\ x + z = p.net * (price * d - a)
    <3>1. PICK e : e = price * d - a
      OBVIOUS
    <3>2. e \in Int
      BY <1>1, <3>1
    <3>3. Is(Frac(price), price * d, d) /\ price * d \in Int
      BY <1>1, FracIs
    <3>4. Is(Minus(Frac(price), p.avg), e, d)
      BY <1>1, <1>6, <2>5, <3>1, <3>3, MinusIs
    <3>5. Is(rb, n * e, d) /\ n * e \in Int
      BY <1>11, <2>2, <2>3, <3>2, <3>4, TimesIs
    <3>6. CASE net = 0
      <4>1. q.avg = Frac(0) /\ Is(Frac(0), 0 * d, d) /\ 0 * d \in Int
        BY <1>10, <1>13, <3>6, FracIs
      <4>2. Is(q.unrealized, 0, d)
        <5>1. Is(q.unrealized, net * (price * d - 0 * d), d)
          BY <1>10, <4>1 DEF MarkedRight
        <5>2. net * (price * d - 0 * d) = 0
          BY <1>1, <3>6
        <5>3. QED BY <5>1, <5>2
      <4>3. n = p.net
        BY <1>1, <2>1, <3>6
      <4>4. n * e + 0 = p.net * e
        BY <1>1, <3>2, <4>3
      <4>5. QED BY <3>1, <3>5, <4>2, <4>4
    <3>7. CASE net # 0 /\ SameSign(net, p.net)
      <4>1. q.avg = p.avg
        BY <1>10, <1>13, <3>7
      <4>2. Is(q.unrealized, net * e, d)
        BY <1>10, <2>5, <3>1, <4>1 DEF MarkedRight
      <4>3. n = p.net - net
        BY <2>1, <3>7
      <4>4. n * e + net * e = p.net * e /\ net * e \in Int
        BY <1>1, <1>3, <3>2, <4>3
      <4>5. QED BY <3>1, <3>5, <4>2, <4>4
    <3>8. CASE net # 0 /\ ~SameSign(net, p.net)
      <4>1. q.avg = Frac(price)
        BY <1>10, <1>13, <3>8
      <4>2. Is(q.unrealized, 0, d)
        <5>1. Is(q.unrealized, net * (price * d - price * d), d)
          BY <1>10, <3>3, <4>1 DEF MarkedRight
        <5>2. net * (price * d - price * d) = 0
          BY <1>1, <1>3, <3>3
        <5>3. QED BY <5>1, <5>2
      <4>3. n = p.net
        BY <2>1, <3>8
      <4>4. n * e + 0 = p.net * e
        BY <1>1, <3>2, <4>3
      <4>5. QED BY <3>1, <3>5, <4>2, <4>4
    <3>9. QED BY <3>6, <3>7, <3>8
  <2>6. Realizes(p, q, rb, price)
    <3> SUFFICES ASSUME NEW a \in Int, NEW d \in Nat \ {0}, Is(p.avg, a, d)
                 PROVE  \E k \in Nat \ {0}, x, z \in Int :
                          /\ Is(rb, x, d * k) /\ Is(q.unrealized, z, d * k)
                          /\ x + z = p.net * (price * (d * k) - a * k)
      BY DEF Realizes
    <3>1. PICK x, z \in Int : /\ Is(rb, x, d) /\ Is(q.unrealized, z, d)
                              /\ x + z = p.net * (price * d - a)
      BY <2>5
    <3>2. d * 1 = d /\ a * 1 = a /\ 1 \in Nat \ {0}
      OBVIOUS
    <3>3. /\ Is(rb, x, d * 1) /\ Is(q.unrealized, z, d * 1)
          /\ x + z = p.net * (price * (d * 1) - a * 1)
      BY <3>1, <3>2
    <3>4. QED BY <3>2, <3>3
  <2>7. QED BY <1>10, <2>4, <2>6 DEF delta, q, rb
<1>14. QED BY <1>12, <1>13

-----------------------------------------------------------------------------
(* The profit and loss                                                     *)

LEMMA CommonDenominator ==
    ASSUME NEW q1 \in Fractions, NEW q2 \in Fractions, NEW q3 \in Fractions
    PROVE  \E d \in Nat \ {0}, n1, n2, n3 \in Int : Is(q1, n1, d) /\ Is(q2, n2, d) /\ Is(q3, n3, d)
<1>1. PICK a1 \in Int, d1 \in Nat \ {0} : Is(q1, a1, d1)
  BY IsItself
<1>2. PICK a2 \in Int, d2 \in Nat \ {0} : Is(q2, a2, d2)
  BY IsItself
<1>3. PICK a3 \in Int, d3 \in Nat \ {0} : Is(q3, a3, d3)
  BY IsItself
<1>4. d2 * d3 \in Nat \ {0} /\ d1 * d3 \in Nat \ {0} /\ d1 * d2 \in Nat \ {0}
  BY ProductPositive
<1>5. PICK e1, e2, e3 : e1 = d2 * d3 /\ e2 = d1 * d3 /\ e3 = d1 * d2
  OBVIOUS
<1>6. /\ Is(q1, a1 * e1, d1 * e1) /\ d1 * e1 \in Nat \ {0} /\ a1 * e1 \in Int
      /\ Is(q2, a2 * e2, d2 * e2) /\ a2 * e2 \in Int
      /\ Is(q3, a3 * e3, d3 * e3) /\ a3 * e3 \in Int
  BY <1>1, <1>2, <1>3, <1>4, <1>5, Scaled
<1>7. d2 * e2 = d1 * e1 /\ d3 * e3 = d1 * e1
  BY <1>5
<1>8. QED BY <1>6, <1>7

\* A position moves to a new mark, by a fill that realizes `gained`, or by a mark
\* that realizes nothing: the totals move by what it is worth at the new mark.
LEMMA Accounted ==
    ASSUME NEW R \in Fractions, NEW U \in Fractions, NEW n \in Int, Plus(R, U) = Frac(n),
           NEW p \in Positions, MarkedRight(p), NEW q \in Positions,
           NEW gained \in Fractions, NEW price \in Nat, Realizes(p, q, gained, price),
           NEW R2 \in Fractions,
           \A r, x \in Int, d \in Nat \ {0} :
             Is(R, r, d) /\ Is(gained, x, d) => Is(R2, r + x, d)
    PROVE  /\ Plus(U, Minus(q.unrealized, p.unrealized)) \in Fractions
           /\ Plus(R2, Plus(U, Minus(q.unrealized, p.unrealized)))
                = Frac(n + p.net * price - p.net * p.mark)
<1>1. /\ p.net \in Int /\ p.mark \in Nat /\ p.avg \in Fractions /\ p.unrealized \in Fractions
      /\ q.unrealized \in Fractions
  BY PriceFacts DEF Positions
<1>2. PICK d0 \in Nat \ {0}, r0, u0, a0 \in Int :
        Is(R, r0, d0) /\ Is(U, u0, d0) /\ Is(p.avg, a0, d0)
  BY <1>1, CommonDenominator
<1>3. PICK k \in Nat \ {0}, x, z \in Int :
        /\ Is(gained, x, d0 * k) /\ Is(q.unrealized, z, d0 * k)
        /\ x + z = p.net * (price * (d0 * k) - a0 * k)
  BY <1>2 DEF Realizes
<1>4. PICK d, r, u, a : d = d0 * k /\ r = r0 * k /\ u = u0 * k /\ a = a0 * k
  OBVIOUS
<1>5. /\ d \in Nat \ {0} /\ r \in Int /\ u \in Int /\ a \in Int
      /\ Is(R, r, d) /\ Is(U, u, d) /\ Is(p.avg, a, d)
  BY <1>1, <1>2, <1>4, Scaled
<1>6. /\ Is(gained, x, d) /\ Is(q.unrealized, z, d)
      /\ x + z = p.net * (price * d - a)
  BY <1>3, <1>4
<1>7. PICK w : w = p.net * (p.mark * d - a)
  OBVIOUS
<1>8. w \in Int /\ Is(p.unrealized, w, d)
  BY <1>1, <1>5, <1>7 DEF MarkedRight
<1>9. /\ Minus(q.unrealized, p.unrealized) \in Fractions
      /\ Is(Minus(q.unrealized, p.unrealized), z - w, d) /\ z - w \in Int
  BY <1>1, <1>5, <1>6, <1>8, MinusIs
<1>10. PICK V : V = Plus(U, Minus(q.unrealized, p.unrealized))
  OBVIOUS
<1>11. /\ V \in Fractions /\ Is(V, u + (z - w), d) /\ u + (z - w) \in Int
  BY <1>5, <1>9, <1>10, PlusIs
<1>12. Is(R2, r + x, d) /\ r + x \in Int
  BY <1>5, <1>6
<1>13. r + u = n * d
  <2>1. Is(Frac(n), r + u, d)
    BY <1>5, PlusIs
  <2>2. Is(Frac(n), n * d, d) /\ Frac(n) \in Fractions
    BY <1>5, FracIs
  <2>3. r + u \in Int /\ n * d \in Int
    BY <1>5
  <2>4. QED BY <1>5, <2>1, <2>2, <2>3, IsOnly
<1>14. PICK m : m = n + p.net * price - p.net * p.mark
  OBVIOUS
<1>15. m \in Int
  BY <1>1, <1>14
<1>16. (r + x) + (u + (z - w)) = m * d
  <2>1. (r + x) + (u + (z - w)) = n * d + (x + z) - w
    BY <1>5, <1>8, <1>13
  <2>2. (x + z) - w = p.net * ((price * d - a) - (p.mark * d - a))
    BY <1>1, <1>5, <1>6, <1>7
  <2>3. p.net * ((price * d - a) - (p.mark * d - a)) = (p.net * price - p.net * p.mark) * d
    BY <1>1, <1>5
  <2>4. m * d = n * d + (p.net * price - p.net * p.mark) * d
    BY <1>1, <1>5, <1>14
  <2>5. PICK A, B, C, E : /\ A = x + z /\ B = n * d /\ C = (p.net * price - p.net * p.mark) * d
                       /\ E = (r + x) + (u + (z - w))
    OBVIOUS
  <2>6. A \in Int /\ B \in Int /\ C \in Int
    BY <1>1, <1>5, <2>5
  <2>7. E = B + A - w /\ A - w = C /\ m * d = B + C
    BY <2>1, <2>2, <2>3, <2>4, <2>5
  <2>8. E = B + C
    BY <1>8, <2>6, <2>7
  <2>9. QED BY <2>5, <2>7, <2>8
<1>17. Plus(R2, V) = Frac(m)
  BY <1>5, <1>11, <1>12, <1>15, <1>16, PlusIs
<1>18. QED BY <1>10, <1>11, <1>14, <1>17

-----------------------------------------------------------------------------
(* The ledger                                                              *)

Ledgers == [reserved : [OrderIds -> Reservations \cup {NoReservation}],
            committed : -MaxUnits - 1 .. MaxUnits,
            net : [DOMAIN SymbolLimit -> Int],
            killed : BOOLEAN]

UnitsOf(r) == Signed(r.side, Notional(r.price, r.remaining))

LEMMA Remainder ==
    ASSUME NEW c \in Nat \ {0}, NEW x \in Int
    PROVE  x % c \in 0 .. c - 1
OBVIOUS

LEMMA WrappedInRange ==
    ASSUME NEW x \in Int
    PROVE  Wrapped(x) \in -MaxUnits - 1 .. MaxUnits
<1>1. PICK c, y : c = 2 * (MaxUnits + 1) /\ y = x + MaxUnits + 1
  OBVIOUS
<1>2. c \in Nat \ {0} /\ y \in Int
  BY <1>1, LedgerAssumption
<1>3. PICK r : r = y % c
  OBVIOUS
<1>4. r \in 0 .. c - 1 /\ Wrapped(x) = r - MaxUnits - 1
  BY <1>1, <1>2, <1>3, Remainder DEF Wrapped
<1>5. QED BY <1>1, <1>4, LedgerAssumption

\* What is in the range of the counters is stored as it is.
LEMMA WrappedSame ==
    ASSUME NEW x \in -MaxUnits - 1 .. MaxUnits
    PROVE  Wrapped(x) = x
<1>1. PICK c, y : c = 2 * (MaxUnits + 1) /\ y = x + MaxUnits + 1
  OBVIOUS
<1>2. c \in Nat \ {0} /\ y \in 0 .. c - 1 /\ y - MaxUnits - 1 = x
  BY <1>1, LedgerAssumption
<1>3. y % c = y
  BY <1>2
<1>4. QED BY <1>1, <1>2, <1>3 DEF Wrapped

LEMMA Division ==
    ASSUME NEW c \in Nat \ {0}, NEW y \in Int
    PROVE  \E k \in Int : y = k * c + (y % c)
<1>1. y \div c \in Int /\ y = (y \div c) * c + (y % c)
  OBVIOUS
<1>2. QED BY <1>1

LEMMA RemainderIs ==
    ASSUME NEW c \in Nat \ {0}, NEW k \in Int, NEW r \in 0 .. c - 1, NEW y \in Int, y = k * c + r
    PROVE  y % c = r
OBVIOUS

LEMMA Multiples ==
    ASSUME NEW c \in Nat \ {0}, NEW k \in Int, NEW j \in Int
    PROVE  k * c \in Int /\ j * c \in Int /\ (k + j) * c = k * c + j * c
OBVIOUS

\* A counter that wraps holds, after any additions, their sum as if it had
\* wrapped only once.
LEMMA WrappedTwice ==
    ASSUME NEW x \in Int, NEW w \in Int
    PROVE  Wrapped(Wrapped(x) + w) = Wrapped(x + w)
<1>1. PICK h, c, y : h = MaxUnits + 1 /\ c = 2 * h /\ y = x + h
  OBVIOUS
<1>2. h \in Nat /\ c \in Nat \ {0} /\ y \in Int
  BY <1>1, LedgerAssumption
<1>3. PICK r : r = y % c
  OBVIOUS
<1>4. r \in 0 .. c - 1
  BY <1>2, <1>3, Remainder
<1>5. PICK k \in Int : y = k * c + r
  BY <1>2, <1>3, Division
<1>6. PICK z : z = r + w
  OBVIOUS
<1>7. PICK t : t = z % c
  OBVIOUS
<1>8. z \in Int /\ t \in 0 .. c - 1
  BY <1>2, <1>4, <1>6, <1>7, Remainder
<1>9. PICK j \in Int : z = j * c + t
  BY <1>2, <1>7, <1>8, Division
<1>10. k + j \in Int /\ y + w = (k + j) * c + t
  <2>1. k * c \in Int /\ j * c \in Int /\ (k + j) * c = k * c + j * c
    BY <1>2, Multiples
  <2>2. PICK m, n, all : m = k * c /\ n = j * c /\ all = (k + j) * c
    OBVIOUS
  <2>3. m \in Int /\ n \in Int /\ all = m + n
    BY <2>1, <2>2
  <2>4. y = m + r /\ z = n + t
    BY <1>5, <1>9, <2>2
  <2>5. y + w = all + t
    BY <1>4, <1>6, <1>8, <2>3, <2>4
  <2>6. QED BY <2>2, <2>5
<1>11. (y + w) % c = t
  <2>1. PICK d, q : d = k + j /\ q = y + w
    OBVIOUS
  <2>2. d \in Int /\ q \in Int /\ q = d * c + t
    BY <1>2, <1>10, <2>1
  <2>3. q % c = t
    BY <1>2, <1>8, <2>2, RemainderIs
  <2>4. QED BY <2>1, <2>3
<1>12. Wrapped(x) = r - h
  BY <1>1, <1>2, <1>3, <1>4, LedgerAssumption DEF Wrapped
<1>13. Wrapped(Wrapped(x) + w) = t - h
  <2>1. PICK v : v = Wrapped(x) + w
    OBVIOUS
  <2>2. v \in Int /\ v + MaxUnits + 1 = z
    BY <1>1, <1>2, <1>4, <1>6, <1>12, <2>1, LedgerAssumption
  <2>3. Wrapped(v) = (z % c) - MaxUnits - 1
    BY <1>1, <2>2 DEF Wrapped
  <2>4. QED BY <1>1, <1>7, <1>8, <2>1, <2>3, LedgerAssumption
<1>14. Wrapped(x + w) = t - h
  <2>1. (x + w) + MaxUnits + 1 = y + w
    BY <1>1, LedgerAssumption
  <2>2. Wrapped(x + w) = ((y + w) % c) - MaxUnits - 1
    BY <1>1, <2>1 DEF Wrapped
  <2>3. QED BY <1>1, <1>8, <1>11, <2>2, LedgerAssumption
<1>15. QED BY <1>13, <1>14

LEMMA NotionalType ==
    ASSUME NEW price \in Prices, NEW n \in Nat, NEW side \in Sides
    PROVE  /\ price * n \in Nat /\ Notional(price, n) \in Nat
           /\ Signed(side, Notional(price, n)) \in Int
<1>1. price * n \in Nat
  BY PriceFacts
<1>2. Notional(price, n) \in Nat
  BY <1>1, LedgerAssumption DEF Notional
<1>3. QED BY <1>1, <1>2 DEF Signed

\* One reservation is released, or a part of it.
LessOf(l, id, after) ==
    \E m \in Nat, left \in Reservations \cup {NoReservation} :
      /\ after.reserved = [l.reserved EXCEPT ![id] = left]
      /\ after.committed = Wrapped(l.committed - Signed(l.reserved[id].side,
                                                       Notional(l.reserved[id].price, m)))
      /\ left = NoReservation => m = l.reserved[id].remaining
      /\ left # NoReservation =>
           /\ left.side = l.reserved[id].side /\ left.price = l.reserved[id].price
           /\ left.remaining = l.reserved[id].remaining - m

LEMMA ReleasedLedger ==
    ASSUME NEW l \in Ledgers, NEW id \in OrderIds, NEW n \in Lots
    PROVE  /\ Released(l, id, n) \in Ledgers
           /\ Released(l, id, n).net = l.net
           /\ id \notin Reserving(l) => Released(l, id, n) = l
           /\ id \in Reserving(l) => LessOf(l, id, Released(l, id, n))
<1> DEFINE after == Released(l, id, n)
<1>1. CASE id \notin Reserving(l)
  BY <1>1 DEF Released, Ledgers
<1>2. CASE id \in Reserving(l)
  <2>1. PICK r : r = l.reserved[id]
    OBVIOUS
  <2>2. r \in Reservations /\ r # NoReservation
    BY <1>2, <2>1 DEF Reserving, Ledgers
  <2>3. PICK side, price, remaining :
          side = r.side /\ price = r.price /\ remaining = r.remaining
    OBVIOUS
  <2>4. side \in Sides /\ price \in Prices /\ remaining \in Lots /\ remaining \in Nat /\ n \in Nat
    BY <2>2, <2>3, PriceFacts DEF Reservations
  <2>5. PICK m : m = IF n <= remaining THEN n ELSE remaining
    OBVIOUS
  <2>6. PICK left : left = IF m = remaining THEN NoReservation ELSE [r EXCEPT !.remaining = remaining - m]
    OBVIOUS
  <2>7. PICK total : total = Wrapped(l.committed - Signed(side, Notional(price, m)))
    OBVIOUS
  <2>8. after = [l EXCEPT !.reserved[id] = left, !.committed = total]
    BY <1>2, <2>1, <2>3, <2>5, <2>6, <2>7 DEF Released
  <2>9. m \in Nat /\ (m # remaining => remaining - m \in Lots)
    BY <2>4, <2>5, LedgerAssumption DEF Lots
  <2>10. left \in Reservations \cup {NoReservation}
    BY <2>2, <2>4, <2>6, <2>9 DEF Reservations
  <2>11. total \in -MaxUnits - 1 .. MaxUnits
    <3>1. l.committed - Signed(side, Notional(price, m)) \in Int
      <4>1. Signed(side, Notional(price, m)) \in Int
        BY <2>4, <2>9, NotionalType
      <4>2. l.committed \in Int
        BY LedgerAssumption DEF Ledgers
      <4>3. QED BY <4>1, <4>2
    <3>2. QED BY <2>7, <3>1, WrappedInRange
  <2>12. /\ after \in Ledgers /\ after.net = l.net
         /\ after.reserved = [l.reserved EXCEPT ![id] = left] /\ after.committed = total
    <3> HIDE DEF after
    <3>1. QED BY <2>8, <2>10, <2>11 DEF Ledgers
  <2>13. left = NoReservation => m = remaining
    BY <2>2, <2>4, <2>6, <2>9, LedgerAssumption DEF Reservations
  <2>14. left # NoReservation =>
           left.side = side /\ left.price = price /\ left.remaining = remaining - m
    <3>1. ASSUME left # NoReservation
          PROVE  left.side = side /\ left.price = price /\ left.remaining = remaining - m
      <4>1. PICK y : y = remaining - m
        OBVIOUS
      <4>2. left = [r EXCEPT !.remaining = y]
        BY <2>6, <3>1, <4>1
      <4>3. QED BY <2>2, <2>3, <4>1, <4>2 DEF Reservations
    <3>2. QED BY <3>1
  <2> HIDE DEF after
  <2>15. /\ after.reserved = [l.reserved EXCEPT ![id] = left]
         /\ after.committed = Wrapped(l.committed - Signed(l.reserved[id].side,
                                                    Notional(l.reserved[id].price, m)))
         /\ left = NoReservation => m = l.reserved[id].remaining
         /\ left # NoReservation =>
              /\ left.side = l.reserved[id].side /\ left.price = l.reserved[id].price
              /\ left.remaining = l.reserved[id].remaining - m
    BY <2>1, <2>3, <2>7, <2>12, <2>13, <2>14
  <2>16. LessOf(l, id, after)
    BY <2>9, <2>10, <2>15 DEF LessOf
  <2>17. QED BY <1>2, <2>12, <2>16 DEF after
<1>3. QED BY <1>1, <1>2

LEMMA BookedLedger ==
    ASSUME NEW l \in Ledgers, NEW o \in RiskOrders
    PROVE  /\ Booked(l, o) \in Ledgers
           /\ Booked(l, o).reserved = Released(l, o.id, o.lots).reserved
           /\ Booked(l, o).committed = Released(l, o.id, o.lots).committed
<1>1. PICK m, s, k : m = Released(l, o.id, o.lots) /\ s = o.symbol /\ k = Signed(o.side, o.lots)
  OBVIOUS
<1>2. o.id \in OrderIds /\ o.lots \in Lots /\ o.side \in Sides /\ o.lots \in Nat \ {0}
  BY PriceFacts DEF RiskOrders
<1>3. m \in Ledgers /\ k \in Int
  BY <1>1, <1>2, ReleasedLedger, SideFacts
<1>4. Booked(l, o) = IF s \in DOMAIN SymbolLimit THEN [m EXCEPT !.net[s] = m.net[s] + k] ELSE m
  BY <1>1 DEF Booked
<1>5. /\ Booked(l, o) \in Ledgers
      /\ Booked(l, o).reserved = m.reserved /\ Booked(l, o).committed = m.committed
  BY <1>3, <1>4 DEF Ledgers
<1>6. QED BY <1>1, <1>5

LEMMA ReservedLedger ==
    ASSUME NEW l \in Ledgers, NEW o \in RiskOrders, Admits(l, o)
    PROVE  \E r \in Reservations :
             /\ r.side = o.side /\ r.price = o.price /\ r.remaining = o.lots
             /\ Reserved(l, o) \in Ledgers
             /\ Reserved(l, o).reserved = [l.reserved EXCEPT ![o.id] = r]
             /\ Reserved(l, o).committed = l.committed + UnitsOf(r)
<1>1. PICK r, k : /\ r = [side |-> o.side, price |-> o.price, remaining |-> o.lots]
                  /\ k = l.committed + Signed(o.side, Notional(o.price, o.lots))
  OBVIOUS
<1>2. r \in Reservations /\ r.side = o.side /\ r.price = o.price /\ r.remaining = o.lots
  BY <1>1 DEF Reservations, RiskOrders
<1>3. k \in -MaxUnits - 1 .. MaxUnits /\ k = l.committed + UnitsOf(r)
  BY <1>1, <1>2 DEF Admits, UnitsOf
<1>4. PICK id : id = o.id
  OBVIOUS
<1>5. Reserved(l, o) = [l EXCEPT !.reserved[id] = r, !.committed = k] /\ id \in OrderIds
  BY <1>1, <1>4 DEF Reserved, RiskOrders
<1>6. /\ Reserved(l, o) \in Ledgers
      /\ Reserved(l, o).reserved = [l.reserved EXCEPT ![id] = r]
      /\ Reserved(l, o).committed = k
  <2>1. r \in Reservations \cup {NoReservation} /\ k \in -MaxUnits - 1 .. MaxUnits
    BY <1>2, <1>3
  <2>2. PICK after : after = Reserved(l, o)
    OBVIOUS
  <2>3. after = [l EXCEPT !.reserved[id] = r, !.committed = k] /\ id \in OrderIds
    BY <1>5, <2>2
  <2>4. after \in Ledgers /\ after.reserved = [l.reserved EXCEPT ![id] = r] /\ after.committed = k
    BY <2>1, <2>3 DEF Ledgers
  <2>5. QED BY <2>2, <2>4
<1>7. QED BY <1>2, <1>3, <1>4, <1>6

LEMMA SwitchedLedger ==
    ASSUME NEW l \in Ledgers, NEW m
    PROVE  /\ Checked(l, m) \in Ledgers /\ Killed(l) \in Ledgers /\ Reset(l) \in Ledgers
           /\ Checked(l, m).reserved = l.reserved /\ Checked(l, m).committed = l.committed
           /\ Killed(l).reserved = l.reserved /\ Killed(l).committed = l.committed
           /\ Reset(l).reserved = l.reserved /\ Reset(l).committed = l.committed
BY DEF Checked, Killed, Reset, Ledgers

-----------------------------------------------------------------------------
(* The profit and loss of every behaviour                                  *)

\* The average and the mark of each position explain what is called unrealized.
RiskInv ==
    /\ TypeOK
    /\ \A s \in Symbols : MarkedRight(positions[s])
    /\ Plus(pnl.realized, pnl.unrealized) = Frac(cash + Held(positions))

LEMMA TypeFacts ==
    ASSUME TypeOK
    PROVE  /\ ledger \in Ledgers
           /\ filled \in -MaxUnits - 1 .. MaxUnits /\ filled \in Int
           /\ positions \in [Symbols -> Positions]
           /\ pnl \in [realized : Fractions, unrealized : Fractions, baseline : Fractions,
                       day : 0 .. MaxDay]
           /\ cash \in Int /\ fills \in 0 .. MaxFills
BY LedgerAssumption DEF TypeOK, Ledgers, Positions

\* A flat position without a mark is marked right.
LEMMA FlatIsRight == Flat \in Positions /\ MarkedRight(Flat)
<1>1. Frac(0) \in Fractions
  BY FracIs
<1>2. /\ Flat \in Positions /\ Flat.net = 0 /\ Flat.mark = 0
      /\ Flat.avg = Frac(0) /\ Flat.unrealized = Frac(0)
  BY <1>1 DEF Flat, Positions
<1>3. ASSUME NEW a \in Int, NEW d \in Nat \ {0}
      PROVE  Is(Frac(0), 0 * (0 * d - a), d)
  <2>1. 0 * (0 * d - a) = 0 * d
    OBVIOUS
  <2>2. QED BY <2>1, FracIs
<1>4. QED BY <1>2, <1>3 DEF MarkedRight

LEMMA NothingHeld ==
    ASSUME NEW held, \A s \in Symbols : held[s].net * held[s].mark = 0
    PROVE  Held(held) = 0
<1>1. PICK f : f = Values(held)
  OBVIOUS
<1>2. \A s \in Symbols : f[s] \in -0 .. 0
  BY <1>1 DEF Values
<1>3. IsFiniteSet(Symbols)
  BY RiskAssumption
<1>4. Sum(f, Symbols) \in -(0 * Cardinality(Symbols)) .. 0 * Cardinality(Symbols)
  BY <1>2, <1>3, SumBound
<1>5. Sum(f, Symbols) = 0
  <2>1. Cardinality(Symbols) \in Nat
    BY <1>3, FS_CardinalityType
  <2>2. 0 * Cardinality(Symbols) = 0
    BY <2>1
  <2>3. QED BY <1>4, <2>2
<1>6. QED BY <1>1, <1>5, HeldIsSum

LEMMA InitRiskInv == Init => RiskInv
<1> SUFFICES ASSUME Init PROVE RiskInv
  OBVIOUS
<1>1. Frac(0) \in Fractions
  BY FracIs
<1>2. /\ ledger \in Ledgers /\ filled = 0 /\ positions = [s \in Symbols |-> Flat]
      /\ pnl = [realized |-> Frac(0), unrealized |-> Frac(0), baseline |-> Frac(0), day |-> 0]
      /\ cash = 0 /\ fills = 0
  BY LedgerAssumption DEF Init, EmptyLedger, Ledgers
<1>3. TypeOK
  <2>1. 0 \in -MaxUnits - 1 .. MaxUnits /\ 0 \in 0 .. MaxDay /\ 0 \in 0 .. MaxFills
    BY LedgerAssumption, RiskAssumption
  <2>2. QED BY <1>1, <1>2, <2>1, FlatIsRight DEF TypeOK, Ledgers, Positions
<1>4. \A s \in Symbols : MarkedRight(positions[s])
  BY <1>2, FlatIsRight
<1>5. Held(positions) = 0
  <2>1. \A s \in Symbols : positions[s].net * positions[s].mark = 0
    BY <1>2 DEF Flat
  <2>2. QED BY <2>1, NothingHeld
<1>6. Plus(Frac(0), Frac(0)) = Frac(0)
  <2>1. Is(Frac(0), 0 * 1, 1) /\ 0 * 1 = 0 /\ 0 + 0 = 0 * 1
    BY FracIs
  <2>2. QED BY <1>1, <2>1, PlusIs
<1>7. QED BY <1>2, <1>3, <1>4, <1>5, <1>6 DEF RiskInv

\* One position moves, and the totals with it.
LEMMA PositionMoves ==
    ASSUME RiskInv, NEW s \in Symbols, NEW q \in Positions, MarkedRight(q),
           NEW gained \in Fractions, NEW price \in Prices, q.mark = price,
           Realizes(positions[s], q, gained, price),
           NEW R2 \in Fractions,
           \A r, x \in Int, d \in Nat \ {0} :
             Is(pnl.realized, r, d) /\ Is(gained, x, d) => Is(R2, r + x, d)
    PROVE  LET U == Plus(pnl.unrealized, Minus(q.unrealized, positions[s].unrealized))
           IN  /\ U \in Fractions
               /\ [positions EXCEPT ![s] = q] \in [Symbols -> Positions]
               /\ \A x \in Symbols : MarkedRight([positions EXCEPT ![s] = q][x])
               /\ Plus(R2, U) =
                    Frac((cash - (q.net - positions[s].net) * price)
                           + Held([positions EXCEPT ![s] = q]))
<1>1. PICK after, p, R, U :
        /\ after = [positions EXCEPT ![s] = q] /\ p = positions[s]
        /\ R = pnl.realized /\ U = pnl.unrealized
  OBVIOUS
<1>2. TypeOK /\ positions \in [Symbols -> Positions] /\ cash \in Int
  BY TypeFacts DEF RiskInv
<1>3. p \in Positions /\ R \in Fractions /\ U \in Fractions /\ MarkedRight(p)
  BY <1>1, <1>2, TypeFacts DEF RiskInv
<1>4. /\ after \in [Symbols -> Positions] /\ after[s] = q
      /\ \A x \in Symbols \ {s} : after[x] = positions[x]
  BY <1>1, <1>2
<1>5. \A x \in Symbols : MarkedRight(after[x])
  BY <1>4 DEF RiskInv
<1>6. /\ price \in Nat /\ q.net \in Int /\ p.net \in Int /\ p.mark \in Nat
      /\ \A x \in Symbols : positions[x].net \in Int /\ positions[x].mark \in Nat
  BY <1>2, <1>3, PriceFacts DEF Positions
<1>7. PICK H : H = Held(positions)
  OBVIOUS
<1>8. H \in Int /\ Held(after) = H - p.net * p.mark + q.net * price
  <2>1. q.net * q.mark \in Int /\ \A x \in Symbols : positions[x].net * positions[x].mark \in Int
    BY <1>6
  <2>2. /\ Held(positions) \in Int
        /\ Held(after) = Held(positions) - positions[s].net * positions[s].mark + q.net * q.mark
    BY <1>4, <2>1, HeldChange
  <2>3. q.mark = price
    OBVIOUS
  <2>4. QED BY <1>1, <1>7, <2>2, <2>3
<1>9. PICK n : n = cash + H
  OBVIOUS
<1>10. n \in Int /\ Plus(R, U) = Frac(n)
  BY <1>1, <1>2, <1>7, <1>8, <1>9 DEF RiskInv
<1>11. \A r, x \in Int, d \in Nat \ {0} : Is(R, r, d) /\ Is(gained, x, d) => Is(R2, r + x, d)
  BY <1>1
<1>12. Realizes(p, q, gained, price)
  BY <1>1
<1>13. PICK V : V = Plus(U, Minus(q.unrealized, p.unrealized))
  OBVIOUS
<1>14. V \in Fractions /\ Plus(R2, V) = Frac(n + p.net * price - p.net * p.mark)
  BY <1>3, <1>6, <1>10, <1>11, <1>12, <1>13, Accounted
<1>15. n + p.net * price - p.net * p.mark = (cash - (q.net - p.net) * price) + Held(after)
  <2>1. PICK a, b, c, e, h : /\ a = p.net * price /\ b = p.net * p.mark /\ c = q.net * price
                             /\ e = (q.net - p.net) * price /\ h = Held(after)
    OBVIOUS
  <2>2. a \in Int /\ b \in Int /\ c \in Int /\ e = c - a
    BY <1>6, <2>1
  <2>3. h = H - b + c
    BY <1>8, <2>1
  <2>4. n + a - b = (cash - e) + h
    BY <1>2, <1>8, <1>9, <2>2, <2>3
  <2>5. QED BY <2>1, <2>4
<1>16. QED BY <1>1, <1>4, <1>5, <1>13, <1>14, <1>15

LEMMA OnFillInv ==
    ASSUME RiskInv, NEW o \in RiskOrders, OnFill(o)
    PROVE  RiskInv'
<1>1. PICK s, p, q, gained, price, R2, U :
        /\ s = o.symbol /\ p = positions[s] /\ price = o.price
        /\ q = PositionAfter(p, o.side, price, o.lots)
        /\ gained = RealizedBy(p, o.side, price, o.lots)
        /\ R2 = Plus(pnl.realized, gained)
        /\ U = Plus(pnl.unrealized, Minus(q.unrealized, p.unrealized))
  OBVIOUS
<1>2. /\ s \in Symbols /\ price \in Prices /\ o.side \in Sides /\ o.lots \in Lots
      /\ o.lots \in Nat \ {0} /\ price \in Nat \ {0}
  BY <1>1, PriceFacts DEF RiskOrders
<1>3. /\ positions' = [positions EXCEPT ![s] = q]
      /\ pnl' = [pnl EXCEPT !.realized = R2, !.unrealized = U]
      /\ ledger' = Checked(Booked(ledger, o), pnl')
      /\ filled' = Wrapped(filled + Signed(o.side, Notional(price, o.lots)))
      /\ cash' = cash - Signed(o.side, price * o.lots)
      /\ fills' = fills + 1 /\ fills < MaxFills
  BY <1>1 DEF OnFill
<1>4. TypeOK /\ p \in Positions /\ pnl.realized \in Fractions
  BY <1>1, <1>2, TypeFacts DEF RiskInv
<1>5. /\ q \in Positions /\ MarkedRight(q) /\ q.net = p.net + Signed(o.side, o.lots)
      /\ q.mark = price /\ gained \in Fractions /\ Realizes(p, q, gained, price)
  BY <1>1, <1>2, <1>4, Filled
<1>6. /\ R2 \in Fractions
      /\ \A r, x \in Int, d \in Nat \ {0} :
           Is(pnl.realized, r, d) /\ Is(gained, x, d) => Is(R2, r + x, d)
  BY <1>1, <1>4, <1>5, PlusIs
<1>7. /\ U \in Fractions /\ positions' \in [Symbols -> Positions]
      /\ \A x \in Symbols : MarkedRight(positions'[x])
      /\ Plus(R2, U) = Frac((cash - (q.net - p.net) * price) + Held(positions'))
  <2>1. Realizes(positions[s], q, gained, price)
    BY <1>1, <1>5
  <2>2. LET V == Plus(pnl.unrealized, Minus(q.unrealized, positions[s].unrealized))
        IN  /\ V \in Fractions
            /\ [positions EXCEPT ![s] = q] \in [Symbols -> Positions]
            /\ \A x \in Symbols : MarkedRight([positions EXCEPT ![s] = q][x])
            /\ Plus(R2, V) = Frac((cash - (q.net - positions[s].net) * price)
                                   + Held([positions EXCEPT ![s] = q]))
    BY <1>2, <1>5, <1>6, <2>1, PositionMoves
  <2>3. QED BY <1>1, <1>3, <2>2
<1>8. cash' = cash - (q.net - p.net) * price /\ cash' \in Int
  <2>1. Signed(o.side, price * o.lots) = Signed(o.side, o.lots) * price
        /\ Signed(o.side, o.lots) \in Int /\ Signed(o.side, o.lots) * price \in Int
    BY <1>2 DEF Signed, Sides
  <2>2. p.net \in Int /\ cash \in Int
    BY <1>4, TypeFacts DEF Positions
  <2>3. PICK delta : delta = Signed(o.side, o.lots)
    OBVIOUS
  <2>4. q.net - p.net = delta /\ cash' = cash - delta * price /\ delta * price \in Int
    BY <1>3, <1>5, <2>1, <2>2, <2>3
  <2>5. QED BY <2>2, <2>4
<1>9. /\ pnl' \in [realized : Fractions, unrealized : Fractions, baseline : Fractions,
                   day : 0 .. MaxDay]
      /\ pnl'.realized = R2 /\ pnl'.unrealized = U
  <2>1. pnl \in [realized : Fractions, unrealized : Fractions, baseline : Fractions,
                 day : 0 .. MaxDay]
    BY <1>4, TypeFacts
  <2>2. QED BY <1>3, <1>6, <1>7, <2>1
<1>10. ledger' \in Ledgers
  BY <1>3, <1>4, TypeFacts, BookedLedger, SwitchedLedger
<1>11. filled' \in -MaxUnits - 1 .. MaxUnits
  <2>1. filled + Signed(o.side, Notional(price, o.lots)) \in Int
    <3>1. Signed(o.side, Notional(price, o.lots)) \in Int
      BY <1>2, NotionalType
    <3>2. filled \in Int
      BY <1>4, TypeFacts
    <3>3. QED BY <3>1, <3>2
  <2>2. QED BY <1>3, <2>1, WrappedInRange
<1>12. fills' \in 0 .. MaxFills
  BY <1>3, <1>4, TypeFacts, RiskAssumption
<1>13. TypeOK'
  BY <1>7, <1>8, <1>9, <1>10, <1>11, <1>12 DEF TypeOK, Ledgers, Positions
<1>14. Plus(pnl'.realized, pnl'.unrealized) = Frac(cash' + Held(positions'))
  BY <1>7, <1>8, <1>9
<1>15. QED BY <1>7, <1>13, <1>14 DEF RiskInv

LEMMA MarkToMarketInv ==
    ASSUME RiskInv, NEW s \in Symbols, NEW price \in Prices, MarkToMarket(s, price)
    PROVE  RiskInv'
<1>1. PICK p, q, U :
        /\ p = positions[s] /\ q = MarkedAt(p, price)
        /\ U = Plus(pnl.unrealized, Minus(q.unrealized, p.unrealized))
  OBVIOUS
<1>2. TypeOK /\ p \in Positions /\ pnl.realized \in Fractions /\ positions \in [Symbols -> Positions]
  BY <1>1, TypeFacts DEF RiskInv
<1>3. /\ positions' = [positions EXCEPT ![s] = q] /\ positions'[s] = q
      /\ pnl' = [pnl EXCEPT !.unrealized = U]
      /\ ledger' = Checked(ledger, pnl')
      /\ filled' = filled /\ cash' = cash /\ fills' = fills
  BY <1>1, <1>2 DEF MarkToMarket
<1>4. /\ q \in Positions /\ MarkedRight(q) /\ q.net = p.net /\ q.avg = p.avg /\ q.mark = price
  BY <1>1, <1>2, Marked
<1>5. price \in Nat /\ p.net \in Int /\ Frac(0) \in Fractions
  BY <1>2, PriceFacts, FracIs DEF Positions
<1>6. Realizes(p, q, Frac(0), price)
  <2> SUFFICES ASSUME NEW a \in Int, NEW d \in Nat \ {0}, Is(p.avg, a, d)
               PROVE  \E k \in Nat \ {0}, x, z \in Int :
                        /\ Is(Frac(0), x, d * k) /\ Is(q.unrealized, z, d * k)
                        /\ x + z = p.net * (price * (d * k) - a * k)
    BY DEF Realizes
  <2>1. PICK x, z : x = 0 * d /\ z = p.net * (price * d - a)
    OBVIOUS
  <2>2. x = 0 /\ x \in Int /\ z \in Int /\ x + z = z
    BY <1>5, <2>1
  <2>3. Is(Frac(0), x, d)
    BY <2>1, FracIs
  <2>4. Is(q.unrealized, z, d)
    BY <1>4, <2>1 DEF MarkedRight
  <2>5. d * 1 = d /\ a * 1 = a /\ 1 \in Nat \ {0}
    OBVIOUS
  <2>6. /\ Is(Frac(0), x, d * 1) /\ Is(q.unrealized, z, d * 1)
        /\ x + z = p.net * (price * (d * 1) - a * 1)
    BY <2>1, <2>2, <2>3, <2>4, <2>5
  <2>7. QED BY <2>2, <2>5, <2>6
<1>7. \A r, x \in Int, d \in Nat \ {0} :
        Is(pnl.realized, r, d) /\ Is(Frac(0), x, d) => Is(pnl.realized, r + x, d)
  <2> SUFFICES ASSUME NEW r \in Int, NEW x \in Int, NEW d \in Nat \ {0},
                      Is(pnl.realized, r, d), Is(Frac(0), x, d)
               PROVE  Is(pnl.realized, r + x, d)
    OBVIOUS
  <2>1. x * 1 = 0 * d
    BY DEF Is, Frac
  <2>2. x = 0
    BY <2>1
  <2>3. r + x = r
    BY <2>2
  <2>4. QED BY <2>3
<1>8. /\ U \in Fractions /\ positions' \in [Symbols -> Positions]
      /\ \A x \in Symbols : MarkedRight(positions'[x])
      /\ Plus(pnl.realized, U) = Frac((cash - (q.net - p.net) * price) + Held(positions'))
  <2>1. PICK gained, R : gained = Frac(0) /\ R = pnl.realized
    OBVIOUS
  <2>2. /\ gained \in Fractions /\ R \in Fractions /\ Realizes(positions[s], q, gained, price)
        /\ \A r, x \in Int, d \in Nat \ {0} :
             Is(pnl.realized, r, d) /\ Is(gained, x, d) => Is(R, r + x, d)
    BY <1>1, <1>2, <1>5, <1>6, <1>7, <2>1
  <2>3. LET V == Plus(pnl.unrealized, Minus(q.unrealized, positions[s].unrealized))
        IN  /\ V \in Fractions
            /\ [positions EXCEPT ![s] = q] \in [Symbols -> Positions]
            /\ \A x \in Symbols : MarkedRight([positions EXCEPT ![s] = q][x])
            /\ Plus(R, V) = Frac((cash - (q.net - positions[s].net) * price)
                                   + Held([positions EXCEPT ![s] = q]))
    BY <1>4, <2>2, PositionMoves
  <2>4. QED BY <1>1, <1>3, <2>1, <2>3
<1>9. cash - (q.net - p.net) * price = cash'
  <2>1. cash \in Int
    BY <1>2, TypeFacts
  <2>2. (q.net - p.net) * price = 0
    BY <1>4, <1>5
  <2>3. QED BY <1>3, <2>1, <2>2
<1>10. /\ pnl' \in [realized : Fractions, unrealized : Fractions, baseline : Fractions,
                    day : 0 .. MaxDay]
       /\ pnl'.realized = pnl.realized /\ pnl'.unrealized = U
  <2>1. pnl \in [realized : Fractions, unrealized : Fractions, baseline : Fractions,
                 day : 0 .. MaxDay]
    BY <1>2, TypeFacts
  <2>2. QED BY <1>3, <1>8, <2>1
<1>11. ledger' \in Ledgers
  BY <1>2, <1>3, TypeFacts, SwitchedLedger
<1>12. TypeOK'
  BY <1>2, <1>3, <1>8, <1>10, <1>11 DEF TypeOK, Ledgers, Positions
<1>13. Plus(pnl'.realized, pnl'.unrealized) = Frac(cash' + Held(positions'))
  BY <1>8, <1>9, <1>10
<1>14. QED BY <1>8, <1>12, <1>13 DEF RiskInv

LEMMA MaybeRollDayInv ==
    ASSUME RiskInv, NEW day \in 1 .. MaxDay, MaybeRollDay(day)
    PROVE  RiskInv'
<1>1. PICK b : b = IF pnl.day = 0 THEN pnl.baseline ELSE Plus(pnl.realized, pnl.unrealized)
  OBVIOUS
<1>2. TypeOK
  BY DEF RiskInv
<1>3. pnl \in [realized : Fractions, unrealized : Fractions, baseline : Fractions, day : 0 .. MaxDay]
  BY <1>2, TypeFacts
<1>4. b \in Fractions
  BY <1>1, <1>3, PlusIs
<1>5. pnl' = [pnl EXCEPT !.day = day, !.baseline = b]
      /\ UNCHANGED <<ledger, filled, positions, cash, fills>>
  BY <1>1 DEF MaybeRollDay
<1>6. /\ pnl' \in [realized : Fractions, unrealized : Fractions, baseline : Fractions,
                   day : 0 .. MaxDay]
      /\ pnl'.realized = pnl.realized /\ pnl'.unrealized = pnl.unrealized
  <2>1. day \in 0 .. MaxDay
    BY RiskAssumption
  <2>2. QED BY <1>3, <1>4, <1>5, <2>1
<1>7. TypeOK'
  BY <1>2, <1>5, <1>6 DEF TypeOK
<1>8. Held(positions') = Held(positions)
  BY <1>5
<1>9. QED BY <1>5, <1>6, <1>7, <1>8 DEF RiskInv

\* Only the ledger.
LEMMA LedgerMoves ==
    ASSUME RiskInv, ledger' \in Ledgers, UNCHANGED <<filled, positions, pnl, cash, fills>>
    PROVE  RiskInv'
<1>1. TypeOK'
  BY DEF RiskInv, TypeOK, Ledgers
<1>2. Held(positions') = Held(positions)
  OBVIOUS
<1>3. QED BY <1>1, <1>2 DEF RiskInv

LEMMA NextRiskInv == RiskInv /\ [Next]_vars => RiskInv'
<1> SUFFICES ASSUME RiskInv, [Next]_vars PROVE RiskInv'
  OBVIOUS
<1>1. ledger \in Ledgers
  BY TypeFacts DEF RiskInv
<1>2. CASE \E o \in RiskOrders : CheckOrder(o) \/ OnFill(o)
  <2>1. PICK o \in RiskOrders : CheckOrder(o) \/ OnFill(o)
    BY <1>2
  <2>2. CASE CheckOrder(o)
    <3>1. ledger' \in Ledgers /\ UNCHANGED <<filled, positions, pnl, cash, fills>>
      BY <1>1, <2>2, ReservedLedger DEF CheckOrder
    <3>2. QED BY <3>1, LedgerMoves
  <2>3. CASE OnFill(o)
    BY <2>3, OnFillInv
  <2>4. QED BY <2>1, <2>2, <2>3
<1>3. CASE \E id \in OrderIds, lots \in Lots : OnCancel(id, lots)
  <2>1. ledger' \in Ledgers /\ UNCHANGED <<filled, positions, pnl, cash, fills>>
    BY <1>1, <1>3, ReleasedLedger DEF OnCancel
  <2>2. QED BY <2>1, LedgerMoves
<1>4. CASE \E s \in Symbols, price \in Prices : MarkToMarket(s, price)
  BY <1>4, MarkToMarketInv
<1>5. CASE \E day \in 1 .. MaxDay : MaybeRollDay(day)
  BY <1>5, MaybeRollDayInv
<1>6. CASE TriggerKillSwitch \/ ResetKillSwitch
  <2>1. ledger' \in Ledgers /\ UNCHANGED <<filled, positions, pnl, cash, fills>>
    BY <1>1, <1>6, SwitchedLedger DEF TriggerKillSwitch, ResetKillSwitch
  <2>2. QED BY <2>1, LedgerMoves
<1>7. CASE UNCHANGED vars
  <2>1. ledger' \in Ledgers /\ UNCHANGED <<filled, positions, pnl, cash, fills>>
    BY <1>1, <1>7 DEF vars
  <2>2. QED BY <2>1, LedgerMoves
<1>8. QED BY <1>2, <1>3, <1>4, <1>5, <1>6, <1>7 DEF Next

\* What the fills and marks leave is exact: the averages, the marks and the
\* totals of risk_manager.cpp agree with one another in every state.
THEOREM RiskInvariant == Spec => []RiskInv
BY InitRiskInv, NextRiskInv, PTL DEF Spec

\* The counters stay in the range of their type, the profit and loss are
\* fractions, and a reservation is one that validate_order would accept.
THEOREM RiskTypeOK == Spec => []TypeOK
<1>1. RiskInv => TypeOK
  BY DEF RiskInv
<1>2. QED BY <1>1, RiskInvariant, PTL

\* Average-cost accounting (apply_fill and refresh_unrealized) loses no money:
\* realized plus unrealized is the cash that moved and the value of what is held,
\* through every extension, reduction, close and flip of any number of symbols.
THEOREM PnlIsCash == Spec => []PnlIsCashPlusHoldings
<1>1. RiskInv => PnlIsCashPlusHoldings
  BY HeldNow DEF RiskInv, PnlIsCashPlusHoldings
<1>2. QED BY <1>1, RiskInvariant, PTL

\* The loss of the day is the one that check_daily_loss computes.
LEMMA LossIsBreach ==
    ASSUME RiskInv', DayLost'
    PROVE  Breached(pnl')
<1>1. MapThenSumSet(MarkedValue, Symbols)' = Held(positions')
  BY DEF Held, MapThenSumSet, MapThenFoldSet, MarkedValue
<1>2. Plus(pnl'.realized, pnl'.unrealized) = Frac(cash' + Held(positions'))
  BY DEF RiskInv
<1>3. /\ MaxDailyLoss > 0
      /\ AtMost(Minus(Frac(cash' + Held(positions')), pnl'.baseline), -MaxDailyLoss)
  BY <1>1 DEF DayLost
<1>4. QED BY <1>2, <1>3 DEF Breached, DailyPnl

LEMMA CheckedKills ==
    ASSUME NEW l \in Ledgers, NEW m, Breached(m)
    PROVE  Checked(l, m).killed = TRUE
BY DEF Checked, Killed, Ledgers

\* A fill or a mark that leaves the loss of the day at its limit leaves the kill
\* switch on, whatever was reset before: on_fill and mark_to_market end with the
\* check, after the totals they check.
THEOREM BreachStops == Spec => BreachStopsTrading
<1>1. RiskInv /\ RiskInv' /\ [Next]_vars =>
        [positions' # positions /\ DayLost' => ledger'.killed]_vars
  <2> SUFFICES ASSUME RiskInv, RiskInv', [Next]_vars, positions' # positions, DayLost'
               PROVE  ledger'.killed
    OBVIOUS
  <2>1. ledger \in Ledgers
    BY TypeFacts DEF RiskInv
  <2>2. Breached(pnl')
    BY LossIsBreach
  <2>3. \E l \in Ledgers : ledger' = Checked(l, pnl')
    <3>1. CASE \E o \in RiskOrders : OnFill(o)
      BY <2>1, <3>1, BookedLedger DEF OnFill
    <3>2. CASE \E s \in Symbols, price \in Prices : MarkToMarket(s, price)
      BY <2>1, <3>2 DEF MarkToMarket
    <3>3. QED
      BY <3>1, <3>2 DEF Next, vars, CheckOrder, OnCancel, MaybeRollDay, TriggerKillSwitch,
                        ResetKillSwitch
  <2>4. QED BY <2>2, <2>3, CheckedKills
<1>2. QED BY <1>1, RiskInvariant, PTL DEF Spec, BreachStopsTrading

-----------------------------------------------------------------------------
(* The committed exposure                                                  *)

\* The largest order that is allowed does not saturate.  The node's own limits
\* (5 million, where the largest value is 9.2 million) meet it; with a
\* larger max_order_value an order may be reserved at the saturated value and
\* released, in parts, at more.
OrderFits == MaxOrderValue <= MaxUnits

Units(l) == [id \in Reserving(l) |-> UnitsOf(l.reserved[id])]

UnitsAt(l, id) == IF id \in Reserving(l) THEN UnitsOf(l.reserved[id]) ELSE 0

\* Each reservation is of an order within max_order_value, and the committed
\* exposure is their sum, which may have passed the range of the counter.
Covered(l) ==
    /\ \A id \in Reserving(l) : l.reserved[id].price * l.reserved[id].remaining <= MaxOrderValue
    /\ l.committed = Wrapped(Sum(Units(l), Reserving(l)))

LEMMA ReservingFacts ==
    ASSUME NEW l \in Ledgers
    PROVE  /\ Reserving(l) \subseteq OrderIds /\ IsFiniteSet(Reserving(l))
           /\ \A id \in Reserving(l) :
                /\ l.reserved[id] \in Reservations
                /\ UnitsOf(l.reserved[id]) \in Int
<1>1. Reserving(l) \subseteq OrderIds
  BY DEF Reserving
<1>2. IsFiniteSet(Reserving(l))
  BY <1>1, RiskAssumption, FS_Subset
<1>3. ASSUME NEW id \in Reserving(l)
      PROVE  l.reserved[id] \in Reservations /\ UnitsOf(l.reserved[id]) \in Int
  <2>1. PICK r : r = l.reserved[id]
    OBVIOUS
  <2>2. r \in Reservations
    BY <2>1 DEF Ledgers, Reserving
  <2>3. r.side \in Sides /\ r.price \in Prices /\ r.remaining \in Nat
    BY <2>2, PriceFacts DEF Reservations
  <2>4. UnitsOf(r) \in Int
    BY <2>3, NotionalType DEF UnitsOf
  <2>5. QED BY <2>1, <2>2, <2>4
<1>4. QED BY <1>1, <1>2, <1>3

\* The sum, when the reservation of one order changes.
LEMMA UnitsChange ==
    ASSUME NEW l \in Ledgers, NEW after \in Ledgers, NEW id \in OrderIds,
           \A x \in OrderIds \ {id} : after.reserved[x] = l.reserved[x]
    PROVE  /\ Sum(Units(l), Reserving(l)) \in Int
           /\ UnitsAt(l, id) \in Int /\ UnitsAt(after, id) \in Int
           /\ Sum(Units(after), Reserving(after)) =
                Sum(Units(l), Reserving(l)) - UnitsAt(l, id) + UnitsAt(after, id)
<1>1. PICK S, T, R, f, g : /\ S = Reserving(l) /\ T = Reserving(after) /\ R = S \ {id}
                           /\ f = Units(l) /\ g = Units(after)
  OBVIOUS
<1>2. /\ IsFiniteSet(S) /\ IsFiniteSet(T) /\ IsFiniteSet(R) /\ S \subseteq OrderIds
      /\ T \subseteq OrderIds
  BY <1>1, ReservingFacts, FS_RemoveElement
<1>3. R = T \ {id}
  BY <1>1 DEF Reserving
<1>4. /\ \A x \in S : f[x] = UnitsOf(l.reserved[x]) /\ f[x] \in Int
      /\ \A x \in T : g[x] = UnitsOf(after.reserved[x]) /\ g[x] \in Int
  BY <1>1, ReservingFacts DEF Units
<1>5. \A x \in R : f[x] = g[x] /\ f[x] \in Int
  BY <1>1, <1>2, <1>3, <1>4
<1>6. Sum(f, R) = Sum(g, R) /\ Sum(f, R) \in Int
  BY <1>2, <1>5, SumSame, SumType
<1>7. UnitsAt(l, id) \in Int /\ Sum(f, S) = Sum(f, R) + UnitsAt(l, id)
  <2>1. CASE id \in S
    <3>1. Sum(f, S) = f[id] + Sum(f, S \ {id})
      BY <1>2, <1>4, <2>1, SumWithout
    <3>2. f[id] = UnitsAt(l, id) /\ f[id] \in Int
      BY <1>1, <1>4, <2>1 DEF UnitsAt
    <3>3. QED BY <1>1, <1>6, <3>1, <3>2
  <2>2. CASE id \notin S
    <3>1. S = R /\ UnitsAt(l, id) = 0
      BY <1>1, <2>2 DEF UnitsAt
    <3>2. QED BY <1>6, <3>1
  <2>3. QED BY <2>1, <2>2
<1>8. UnitsAt(after, id) \in Int /\ Sum(g, T) = Sum(f, R) + UnitsAt(after, id)
  <2>1. CASE id \in T
    <3>1. Sum(g, T) = g[id] + Sum(g, T \ {id})
      BY <1>2, <1>4, <2>1, SumWithout
    <3>2. g[id] = UnitsAt(after, id) /\ g[id] \in Int
      BY <1>1, <1>4, <2>1 DEF UnitsAt
    <3>3. QED BY <1>3, <1>6, <3>1, <3>2
  <2>2. CASE id \notin T
    <3>1. T = R /\ UnitsAt(after, id) = 0
      BY <1>1, <1>3, <2>2 DEF UnitsAt
    <3>2. QED BY <1>6, <3>1
  <2>3. QED BY <2>1, <2>2
<1>9. PICK a, b, c : a = Sum(f, R) /\ b = UnitsAt(l, id) /\ c = UnitsAt(after, id)
  OBVIOUS
<1>10. a \in Int /\ b \in Int /\ c \in Int /\ Sum(f, S) = a + b /\ Sum(g, T) = a + c
  BY <1>6, <1>7, <1>8, <1>9
<1>11. Sum(f, S) \in Int /\ Sum(g, T) = Sum(f, S) - b + c
  BY <1>10
<1>12. QED BY <1>1, <1>9, <1>10, <1>11

\* A part of a reservation and the rest of it: the algebra.
LEMMA SplitUnits ==
    ASSUME NEW side \in Sides, NEW price \in Nat, NEW m \in Nat, NEW rest \in Nat,
           price * (m + rest) <= MaxUnits
    PROVE  Signed(side, Notional(price, m + rest)) =
             Signed(side, Notional(price, m)) + Signed(side, Notional(price, rest))
<1>1. PICK x, y, z : x = price * m /\ y = price * rest /\ z = price * (m + rest)
  OBVIOUS
<1>2. x \in Nat /\ y \in Nat /\ z = x + y
  BY <1>1
<1>3. Notional(price, m) = x /\ Notional(price, rest) = y /\ Notional(price, m + rest) = z
  BY <1>1, <1>2, LedgerAssumption DEF Notional
<1>4. QED BY <1>2, <1>3 DEF Signed, Sides

LEMMA ReleasedCovered ==
    ASSUME OrderFits, NEW l \in Ledgers, Covered(l), NEW id \in OrderIds, NEW n \in Lots
    PROVE  Covered(Released(l, id, n))
<1>1. PICK after : after = Released(l, id, n)
  OBVIOUS
<1>2. after \in Ledgers
  BY <1>1, ReleasedLedger
<1>3. CASE id \notin Reserving(l)
  BY <1>3, ReleasedLedger
<1>4. CASE id \in Reserving(l)
  <2>1. PICK r, side, price, remaining :
          /\ r = l.reserved[id] /\ side = r.side /\ price = r.price /\ remaining = r.remaining
    OBVIOUS
  <2>2. r \in Reservations /\ side \in Sides /\ price \in Prices /\ remaining \in Lots
    BY <1>4, <2>1, ReservingFacts DEF Reservations
  <2>3. price \in Nat \ {0} /\ remaining \in Nat \ {0}
    BY <2>2, PriceFacts
  <2>4. price * remaining <= MaxOrderValue
    BY <1>4, <2>1 DEF Covered
  <2>5. PICK m \in Nat, left \in Reservations \cup {NoReservation} :
          /\ after.reserved = [l.reserved EXCEPT ![id] = left]
          /\ after.committed = Wrapped(l.committed - Signed(l.reserved[id].side,
                                                           Notional(l.reserved[id].price, m)))
          /\ left = NoReservation => m = l.reserved[id].remaining
          /\ left # NoReservation =>
               /\ left.side = l.reserved[id].side /\ left.price = l.reserved[id].price
               /\ left.remaining = l.reserved[id].remaining - m
    <3>1. LessOf(l, id, after)
      BY <1>1, <1>4, ReleasedLedger
    <3>2. QED BY <3>1 DEF LessOf
  <2>6. /\ after.reserved = [l.reserved EXCEPT ![id] = left]
        /\ after.committed = Wrapped(l.committed - Signed(side, Notional(price, m)))
        /\ left = NoReservation => m = remaining
        /\ left # NoReservation =>
              /\ left.side = side /\ left.price = price /\ left.remaining = remaining - m
    BY <1>1, <2>1, <2>5
  <2>7. after.reserved[id] = left /\ \A x \in OrderIds \ {id} : after.reserved[x] = l.reserved[x]
    BY <2>6 DEF Ledgers
  <2>8. UnitsAt(l, id) = Signed(side, Notional(price, remaining))
    BY <1>4, <2>1 DEF UnitsAt, UnitsOf
  <2>9. /\ UnitsAt(after, id) = UnitsAt(l, id) - Signed(side, Notional(price, m))
        /\ id \in Reserving(after) =>
             after.reserved[id].price * after.reserved[id].remaining <= MaxOrderValue
    <3>1. CASE left = NoReservation
      <4>1. id \notin Reserving(after) /\ m = remaining
        BY <2>6, <2>7, <3>1 DEF Reserving
      <4>2. Signed(side, Notional(price, remaining)) \in Int
        BY <2>2, <2>3, NotionalType
      <4>3. QED BY <2>8, <4>1, <4>2 DEF UnitsAt
    <3>2. CASE left # NoReservation
      <4>1. /\ id \in Reserving(after) /\ left \in Reservations
            /\ left.side = side /\ left.price = price /\ left.remaining = remaining - m
        BY <2>6, <2>7, <3>2 DEF Reserving
      <4>2. PICK rest : rest = remaining - m
        OBVIOUS
      <4>3. rest \in Nat /\ remaining = m + rest
        <5>1. left.remaining \in Nat
          BY <4>1, PriceFacts DEF Reservations
        <5>2. QED BY <2>3, <4>1, <4>2, <5>1
      <4>4. UnitsAt(after, id) = Signed(side, Notional(price, rest))
        BY <2>7, <4>1, <4>2 DEF UnitsAt, UnitsOf
      <4>5. price * (m + rest) <= MaxUnits
        <5>1. price * remaining \in Nat /\ MaxOrderValue <= MaxUnits
          BY <2>3 DEF OrderFits
        <5>2. PICK v : v = price * remaining
          OBVIOUS
        <5>3. v \in Nat /\ v <= MaxOrderValue /\ v = price * (m + rest)
          BY <2>4, <4>3, <5>1, <5>2
        <5>4. v <= MaxUnits
          BY <5>1, <5>3, LedgerAssumption
        <5>5. QED BY <5>3, <5>4
      <4>6. UnitsAt(l, id) = Signed(side, Notional(price, m)) + Signed(side, Notional(price, rest))
        <5>1. Signed(side, Notional(price, m + rest)) =
                Signed(side, Notional(price, m)) + Signed(side, Notional(price, rest))
          BY <2>2, <2>3, <4>3, <4>5, SplitUnits
        <5>2. QED BY <2>8, <4>3, <5>1
      <4>7. Signed(side, Notional(price, m)) \in Int /\ Signed(side, Notional(price, rest)) \in Int
        BY <2>2, <4>3, NotionalType
      <4>8. UnitsAt(after, id) = UnitsAt(l, id) - Signed(side, Notional(price, m))
        <5>1. PICK a, b : a = Signed(side, Notional(price, m)) /\ b = Signed(side, Notional(price, rest))
          OBVIOUS
        <5>2. a \in Int /\ b \in Int /\ UnitsAt(l, id) = a + b /\ UnitsAt(after, id) = b
          BY <4>4, <4>6, <4>7, <5>1
        <5>3. UnitsAt(after, id) = UnitsAt(l, id) - a
          BY <5>2
        <5>4. QED BY <5>1, <5>3
      <4>9. price * rest <= MaxOrderValue
        <5>1. PICK u, v, w : u = price * remaining /\ v = price * m /\ w = price * rest
          OBVIOUS
        <5>2. u = v + w /\ v \in Nat /\ w \in Nat /\ u <= MaxOrderValue
          BY <2>3, <2>4, <4>3, <5>1
        <5>3. w <= MaxOrderValue
          BY <5>2, LedgerAssumption
        <5>4. QED BY <5>1, <5>3
      <4>10. QED BY <2>7, <4>1, <4>2, <4>8, <4>9
    <3>3. QED BY <3>1, <3>2
  <2>10. \A x \in Reserving(after) :
          after.reserved[x].price * after.reserved[x].remaining <= MaxOrderValue
    <3> SUFFICES ASSUME NEW x \in Reserving(after)
                 PROVE  after.reserved[x].price * after.reserved[x].remaining <= MaxOrderValue
      OBVIOUS
    <3>1. CASE x = id
      BY <2>9, <3>1
    <3>2. CASE x # id
      BY <2>7, <3>2 DEF Covered, Reserving
    <3>3. QED BY <3>1, <3>2
  <2>11. PICK s, t, u, v, w :
           /\ s = Sum(Units(l), Reserving(l)) /\ t = Sum(Units(after), Reserving(after))
           /\ u = UnitsAt(l, id) /\ v = UnitsAt(after, id)
           /\ w = Signed(side, Notional(price, m))
    OBVIOUS
  <2>12. s \in Int /\ u \in Int /\ v \in Int /\ t = s - u + v
    BY <1>2, <2>7, <2>11, UnitsChange
  <2>13. w \in Int /\ v = u - w
    BY <2>2, <2>9, <2>11, NotionalType
  <2>14. t = s - w
    BY <2>12, <2>13
  <2>15. l.committed = Wrapped(s)
    BY <2>11 DEF Covered
  <2>16. after.committed = Wrapped(t)
    <3>1. PICK d, c : d = -w /\ c = Wrapped(s)
      OBVIOUS
    <3>2. d \in Int /\ c \in Int /\ s + d = t /\ c - w = c + d
      <4>1. c \in -MaxUnits - 1 .. MaxUnits
        BY <2>12, <3>1, WrappedInRange
      <4>2. QED BY <2>12, <2>13, <2>14, <3>1, <4>1, LedgerAssumption
    <3>3. Wrapped(Wrapped(s) + d) = Wrapped(s + d)
      BY <2>12, <3>2, WrappedTwice
    <3>4. after.committed = Wrapped(c - w)
      BY <2>6, <2>11, <2>15, <3>1
    <3>5. QED BY <3>1, <3>2, <3>3, <3>4
  <2>17. QED BY <1>1, <2>10, <2>11, <2>16 DEF Covered
<1>5. QED BY <1>3, <1>4

LEMMA ReservedCovered ==
    ASSUME NEW l \in Ledgers, Covered(l), NEW o \in RiskOrders, Admits(l, o)
    PROVE  Covered(Reserved(l, o))
<1>1. PICK after, id : after = Reserved(l, o) /\ id = o.id
  OBVIOUS
<1>2. PICK r \in Reservations :
        /\ r.side = o.side /\ r.price = o.price /\ r.remaining = o.lots
        /\ after \in Ledgers
        /\ after.reserved = [l.reserved EXCEPT ![id] = r]
        /\ after.committed = l.committed + UnitsOf(r)
  BY <1>1, ReservedLedger
<1>3. id \in OrderIds /\ id \notin Reserving(l) /\ o.price * o.lots <= MaxOrderValue
  BY <1>1 DEF Admits, RiskOrders
<1>4. /\ after.reserved[id] = r /\ id \in Reserving(after)
      /\ \A x \in OrderIds \ {id} : after.reserved[x] = l.reserved[x]
  <2>1. l.reserved \in [OrderIds -> Reservations \cup {NoReservation}]
    BY DEF Ledgers
  <2>2. /\ after.reserved[id] = r
        /\ \A x \in OrderIds \ {id} : after.reserved[x] = l.reserved[x]
    BY <1>2, <1>3, <2>1
  <2>3. r # NoReservation
    BY LedgerAssumption
  <2>4. QED BY <1>3, <2>2, <2>3 DEF Reserving
<1>5. UnitsAt(l, id) = 0 /\ UnitsAt(after, id) = UnitsOf(r)
  BY <1>3, <1>4 DEF UnitsAt
<1>6. PICK s, t, v : /\ s = Sum(Units(l), Reserving(l)) /\ t = Sum(Units(after), Reserving(after))
                     /\ v = UnitsOf(r)
  OBVIOUS
<1>7. s \in Int /\ v \in Int /\ t = s - 0 + v
  <2>1. /\ Sum(Units(l), Reserving(l)) \in Int
        /\ UnitsAt(l, id) \in Int /\ UnitsAt(after, id) \in Int
        /\ Sum(Units(after), Reserving(after)) =
             Sum(Units(l), Reserving(l)) - UnitsAt(l, id) + UnitsAt(after, id)
    BY <1>2, <1>3, <1>4, UnitsChange
  <2>2. QED BY <1>5, <1>6, <2>1
<1>8. after.committed = Wrapped(t)
  <2>1. PICK c, d : c = Wrapped(s) /\ d = c + v
    OBVIOUS
  <2>2. after.committed = d
    BY <1>2, <1>6, <2>1 DEF Covered
  <2>3. d \in -MaxUnits - 1 .. MaxUnits
    BY <1>2, <2>2 DEF Ledgers
  <2>4. Wrapped(d) = d
    BY <2>3, WrappedSame
  <2>5. Wrapped(Wrapped(s) + v) = Wrapped(s + v)
    BY <1>7, WrappedTwice
  <2>6. t = s + v
    BY <1>7
  <2>7. QED BY <2>1, <2>2, <2>4, <2>5, <2>6
<1>9. \A x \in Reserving(after) :
        after.reserved[x].price * after.reserved[x].remaining <= MaxOrderValue
  <2> SUFFICES ASSUME NEW x \in Reserving(after)
               PROVE  after.reserved[x].price * after.reserved[x].remaining <= MaxOrderValue
    OBVIOUS
  <2>1. CASE x = id
    BY <1>2, <1>3, <1>4, <2>1
  <2>2. CASE x # id
    BY <1>4, <2>2 DEF Covered, Reserving
  <2>3. QED BY <2>1, <2>2
<1>10. QED BY <1>1, <1>6, <1>8, <1>9 DEF Covered

LEMMA SameCovered ==
    ASSUME NEW l \in Ledgers, NEW after \in Ledgers, Covered(l),
           after.reserved = l.reserved, after.committed = l.committed
    PROVE  Covered(after)
<1>1. Reserving(after) = Reserving(l) /\ Units(after) = Units(l)
  BY DEF Reserving, Units
<1>2. QED BY <1>1 DEF Covered

LEMMA InitCovered == Init => Covered(ledger)
<1> SUFFICES ASSUME Init PROVE Covered(ledger)
  OBVIOUS
<1>1. ledger.committed = 0 /\ Reserving(ledger) = {}
  BY DEF Init, EmptyLedger, Reserving
<1>2. Sum(Units(ledger), {}) = 0
  BY SumStep, FS_EmptySet
<1>3. Wrapped(0) = 0
  BY WrappedSame, LedgerAssumption
<1>4. QED BY <1>1, <1>2, <1>3 DEF Covered

LEMMA NextCovered ==
    ASSUME OrderFits, TypeOK, TypeOK', Covered(ledger), [Next]_vars
    PROVE  Covered(ledger')
<1>1. ledger \in Ledgers /\ ledger' \in Ledgers
  BY TypeFacts DEF TypeOK, Ledgers
<1>2. CASE \E o \in RiskOrders : CheckOrder(o)
  BY <1>1, <1>2, ReservedCovered DEF CheckOrder
<1>3. CASE \E o \in RiskOrders : OnFill(o)
  <2>1. PICK o \in RiskOrders : OnFill(o)
    BY <1>3
  <2>2. PICK l, m : l = Released(ledger, o.id, o.lots) /\ m = Booked(ledger, o)
    OBVIOUS
  <2>3. o.id \in OrderIds /\ o.lots \in Lots
    BY DEF RiskOrders
  <2>4. l \in Ledgers /\ Covered(l)
    BY <1>1, <2>2, <2>3, ReleasedLedger, ReleasedCovered
  <2>5. m \in Ledgers /\ m.reserved = l.reserved /\ m.committed = l.committed
    BY <1>1, <2>2, BookedLedger
  <2>6. Covered(m)
    BY <2>4, <2>5, SameCovered
  <2>7. ledger' = Checked(m, pnl')
    BY <2>1, <2>2 DEF OnFill
  <2>8. QED BY <1>1, <2>5, <2>6, <2>7, SwitchedLedger, SameCovered
<1>4. CASE \E id \in OrderIds, lots \in Lots : OnCancel(id, lots)
  BY <1>1, <1>4, ReleasedCovered DEF OnCancel
<1>5. CASE \E s \in Symbols, price \in Prices : MarkToMarket(s, price)
  <2>1. ledger' = Checked(ledger, pnl')
    BY <1>5 DEF MarkToMarket
  <2>2. QED BY <1>1, <2>1, SwitchedLedger, SameCovered
<1>6. CASE TriggerKillSwitch \/ ResetKillSwitch
  BY <1>1, <1>6, SwitchedLedger, SameCovered DEF TriggerKillSwitch, ResetKillSwitch
<1>7. CASE UNCHANGED ledger
  BY <1>7
<1>8. QED
  BY <1>2, <1>3, <1>4, <1>5, <1>6, <1>7 DEF Next, vars, MaybeRollDay

\* The sum as the run checks it.
LEMMA CoveredIsSum == TypeOK /\ Covered(ledger) => CommittedIsSum
<1> SUFFICES ASSUME TypeOK, Covered(ledger) PROVE CommittedIsSum
  OBVIOUS
<1>1. PICK S, f : S = Reserving(ledger) /\ f = Units(ledger)
  OBVIOUS
<1>2. ledger \in Ledgers
  BY TypeFacts
<1>3. IsFiniteSet(S)
  BY <1>1, <1>2, ReservingFacts
<1>4. \A id \in S : f[id] = ReservedUnits(id)
  BY <1>1 DEF Units, UnitsOf, ReservedUnits
<1> DEFINE E(g) == g = [s \in SUBSET S |->
                          IF s = {} THEN 0 ELSE ReservedUnits(Pick(s)) + g[s \ {Pick(s)}]]
<1>5. ASSUME NEW g PROVE E(g) <=> Sums(f, S, g)
  <2>1. \A s \in SUBSET S : s # {} => f[Pick(s)] = ReservedUnits(Pick(s))
    BY <1>4, Picked
  <2>2. [s \in SUBSET S |-> IF s = {} THEN 0 ELSE ReservedUnits(Pick(s)) + g[s \ {Pick(s)}]]
          = [s \in SUBSET S |-> IF s = {} THEN 0 ELSE f[Pick(s)] + g[s \ {Pick(s)}]]
    BY <2>1
  <2>3. QED BY <2>2 DEF Sums
<1>6. MapThenSumSet(ReservedUnits, S) = (CHOOSE g : E(g))[S]
  BY DEF MapThenSumSet, MapThenFoldSet, Pick
<1>7. \E g : E(g)
  BY <1>3, <1>5, SumsExist
<1> HIDE DEF E
<1>8. E(CHOOSE g : E(g))
  BY <1>7
<1>9. /\ Sums(f, S, CHOOSE g : E(g)) /\ Sums(f, S, Subtotals(f, S))
  BY <1>5, <1>8 DEF Subtotals
<1>10. (CHOOSE g : E(g)) = Subtotals(f, S)
  BY <1>3, <1>9, SumsUnique
<1>11. MapThenSumSet(ReservedUnits, S) = Sum(f, S)
  BY <1>6, <1>10 DEF Sum
<1>12. QED BY <1>1, <1>11 DEF Covered, CommittedIsSum, StillReserved

\* The committed exposure is the sum of what the open orders still reserve, after
\* any number of checks, fills at any price and quantity, partial and repeated
\* cancellations, and breaches (ADR 0005), whenever that sum fits its counter and
\* modulo 2^64 when it does not, as long as no allowed order saturates.
THEOREM RiskLedgerSound ==
    ASSUME OrderFits
    PROVE  Spec => []LedgerSound
<1>1. Init => Covered(ledger)
  BY InitCovered
<1>2. TypeOK /\ TypeOK' /\ Covered(ledger) /\ [Next]_vars => Covered(ledger)'
  BY NextCovered
<1>3. TypeOK /\ Covered(ledger) => LedgerSound
  BY CoveredIsSum DEF LedgerSound
<1>4. QED BY <1>1, <1>2, <1>3, RiskTypeOK, PTL DEF Spec
=============================================================================
