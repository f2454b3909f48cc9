-------------------------- MODULE SmartOrderRouter --------------------------
(***************************************************************************)
(* The routing of one order over the books of several venues               *)
(* (smart_order_router.cpp): a pure function of the order, the levels that *)
(* the order could take at each venue, and what each venue costs.          *)
(* Venues are numbers in the order of their names, prices are ticks, and a *)
(* cost is in hundredths of the price (fee and latency together).          *)
(***************************************************************************)
EXTENDS Integers, FiniteSets, SequencesExt

CONSTANTS Venues,
          Cost,      \* venue -> cost of taking there (VenueCostProfile)
          Latency    \* venue -> expected_latency_ms

ASSUME RouterAssumption ==
  Venues \subseteq Nat /\ Cost \in [Venues -> 0 .. 99] /\ Latency \in [Venues -> Nat]

TotalOf(s, f(_)) == FoldLeft(LAMBDA acc, x : acc + f(x), 0, s)

AtLeastZero(n) == IF n < 0 THEN 0 ELSE n
Smaller(a, b) == IF a < b THEN a ELSE b

\* snapshot_from_top_of_book: at most one level.
Snapshot(quote) == IF quote.price > 0 /\ quote.size > 0 THEN <<quote>> ELSE <<>>

\* level_is_eligible.
IsEligible(order, level) ==
  /\ level.price > 0 /\ level.size > 0
  /\ order.type = "limit" =>
       IF order.side = "buy" THEN level.price <= order.price ELSE level.price >= order.price

\* effective_cost_score: lower is better for either side.
Score(order, row) ==
  IF order.side = "buy" THEN row.price * (100 + Cost[row.venue]) ELSE - row.price * (100 - Cost[row.venue])

\* Deviation: the levels are ordered by their price alone.
BeforeByPrice(order, a, b) ==
  LET dearer == IF order.side = "buy" THEN a.price - b.price ELSE b.price - a.price
  IN  \/ dearer < 0
      \/ dearer = 0 /\ (a.venue < b.venue \/ (a.venue = b.venue /\ a.index < b.index))

\* The order of the ranked levels.
Before(order, a, b) ==
  LET costlier == Score(order, a) - Score(order, b)
      dearer == IF order.side = "buy" THEN a.price - b.price ELSE b.price - a.price
      slower == Latency[a.venue] - Latency[b.venue]
  IN  \/ costlier < 0
      \/ costlier = 0 /\ dearer < 0
      \/ costlier = 0 /\ dearer = 0 /\ slower < 0
      \/ costlier = 0 /\ dearer = 0 /\ slower = 0
           /\ (a.venue < b.venue \/ (a.venue = b.venue /\ a.index < b.index))

\* Levels as they are ranked, each with its place in its book (from 0).
Ranked(order, books) ==
  LET levels(v) == {i \in DOMAIN books[v] : IsEligible(order, books[v][i])}
      rows == UNION {{[venue |-> v, index |-> i - 1, price |-> books[v][i].price, size |-> books[v][i].size] :
                        i \in levels(v)} : v \in Venues}
      place == [r \in rows |-> Cardinality({q \in rows : Before(order, q, r)}) + 1]
  IN  [i \in 1 .. Cardinality(rows) |-> CHOOSE r \in rows : place[r] = i]

Rejected(order) == [accepted |-> FALSE, requested |-> order.lots, routed |-> 0, unrouted |-> order.lots, legs |-> <<>>]

\* The ranked levels are taken one after the other.
Allocated(order, ranked) ==
  LET before(i) == TotalOf(SubSeq(ranked, 1, i - 1), LAMBDA r : r.size)
      take(i) == Smaller(ranked[i].size, AtLeastZero(order.lots - before(i)))
      legs == [i \in DOMAIN ranked |-> [venue |-> ranked[i].venue, lots |-> take(i),
                                        price |-> ranked[i].price, index |-> ranked[i].index]]
      routed == Smaller(order.lots, TotalOf(ranked, LAMBDA r : r.size))
  IN  [accepted |-> TRUE, requested |-> order.lots, routed |-> routed,
       unrouted |-> order.lots - routed, legs |-> SelectSeq(legs, LAMBDA l : l.lots > 0)]

\* route_l2: fill-or-kill is routed whole or not at all.
Route(order, books) ==
  LET ranked == Ranked(order, books)
  IN  IF \/ order.lots <= 0 \/ ranked = <<>>
         \/ order.tif = "FOK" /\ TotalOf(ranked, LAMBDA r : r.size) < order.lots
      THEN Rejected(order) ELSE Allocated(order, ranked)

\* Deviation: what was executed already is asked for again.
RerouteWhole(order, executed, books, excluded) ==
  Route(order, [v \in Venues |-> IF v \in excluded THEN <<>> ELSE books[v]])

\* reroute_after_partial_fill: the rest of the order, without some venues.
Reroute(order, executed, books, excluded) ==
  LET done == IF executed < 0 THEN 0 ELSE IF executed > order.lots THEN order.lots ELSE executed
  IN  IF order.lots > 0 /\ done = order.lots
      THEN [accepted |-> TRUE, requested |-> 0, routed |-> 0, unrouted |-> 0, legs |-> <<>>]
      ELSE Route([order EXCEPT !.lots = @ - done],
                 [v \in Venues |-> IF v \in excluded THEN <<>> ELSE books[v]])
=============================================================================
