--------------------------- MODULE MarketSimulator ---------------------------
(***************************************************************************)
(* The execution of a routed order in paper mode (market_simulator.cpp)    *)
(* and its quality by venue (execution_quality.cpp).  An order is routed,   *)
(* every leg is executed against the state of its venue, the books are      *)
(* reduced by the fills, and what is left is routed again, a pass at a      *)
(* time.  The random draws are choices.                                     *)
(***************************************************************************)
EXTENDS SmartOrderRouter

CONSTANTS Cases   \* [order, books, states, passes]: what may be asked for

VARIABLES asked,    \* the case
          books,    \* venue -> levels that are left
          pc, pass, route, leg,   \* where the execution is
          passFills, consumed,    \* fills of this pass, and how many are consumed
          fills, executed,        \* SimulationResult so far
          quality,                \* venue -> lots asked for and executed (by_venue_)
          misread   \* history: a fill's level_index meant another level by then

simulatorVars == <<asked, books, pc, pass, route, leg, passFills, consumed, fills, executed, quality, misread>>

order == asked.order
Remaining == AtLeastZero(order.lots - executed)
Signed(n) == IF order.side = "buy" THEN n ELSE - n

\* The state of a venue, by default one that shows just what the leg asks for.
StateOf(l) ==
  IF l.venue \in DOMAIN asked.states THEN asked.states[l.venue]
  ELSE [displayed |-> l.lots, queue |-> 0, sure |-> TRUE, slippage |-> 1]

\* A leg gets at most what the venue shows behind the queue.
Capped(l) == LET s == StateOf(l) IN Smaller(l.lots, AtLeastZero(s.displayed - s.queue))

\* The draw of simulate: nothing, or nine tenths to all of it, rounded.
Executions(l) ==
  LET capped == Capped(l) IN
  (IF capped = 0 \/ ~ StateOf(l).sure THEN {0} ELSE {})
    \cup {e \in 1 .. capped : 10 * e + 5 > 9 * capped}

\* find_quote_price_ticks: the level of the index, or the best one.
QuotePrice(l) ==
  LET levels == books[l.venue] IN
  IF l.index < Len(levels) THEN levels[l.index + 1].price
  ELSE IF levels # <<>> THEN levels[1].price ELSE l.price

\* The price slips by slippage percent of itself at the full take, rounded.
Slipped(price, lots, s) ==
  LET part == price * s.slippage * lots
      whole == 100 * s.displayed
  IN  IF order.side = "buy" THEN price + (2 * part + whole) \div (2 * whole)
                            ELSE price - (2 * part + whole - 1) \div (2 * whole)

Fill(l, lots) ==
  [venue |-> l.venue, asked |-> l.lots, lots |-> lots, index |-> l.index, quoted |-> l.price,
   base |-> QuotePrice(l), price |-> IF lots = 0 THEN QuotePrice(l) ELSE Slipped(QuotePrice(l), lots, StateOf(l))]

\* consume_book_liquidity: from the level of the index on, or from the best;
\* the levels that are emptied disappear.
Consumed(levels, f) ==
  LET at == IF f.index < Len(levels) THEN f.index + 1 ELSE 1
      taken(i) == Smaller(levels[i].size,
                          AtLeastZero(f.lots - TotalOf(SubSeq(levels, at, i - 1), LAMBDA x : x.size)))
  IN  SelectSeq([i \in DOMAIN levels |-> IF i < at THEN levels[i]
                                         ELSE [levels[i] EXCEPT !.size = @ - taken(i)]],
                LAMBDA level : level.size > 0)

IsMisread(levels, f) ==
  f.lots > 0 /\ levels # <<>> /\ levels[IF f.index < Len(levels) THEN f.index + 1 ELSE 1].price # f.quoted
-----------------------------------------------------------------------------
\* The next pass of simulate_with_rerouting asks the router.
RoutePass ==
  /\ pc = "route"
  /\ \E next \in {IF pass = 0 THEN Route(order, books) ELSE Reroute(order, executed, books, {})} :
       IF pass < asked.passes /\ Remaining > 0 /\ next.accepted /\ next.routed > 0
       THEN route' = next /\ pc' = "leg" /\ leg' = 1
       ELSE UNCHANGED <<route, leg>> /\ pc' = "record"
  /\ passFills' = <<>> /\ consumed' = 0
  /\ UNCHANGED <<asked, books, pass, fills, executed, quality, misread>>

\* Deviation: the books are reduced as soon as a leg is filled.
SimulateLegConsuming ==
  /\ pc = "leg"
  /\ LET l == route.legs[leg] IN
     \E lots \in Executions(l) :
       /\ passFills' = Append(passFills, Fill(l, lots))
       /\ books' = [books EXCEPT ![l.venue] = Consumed(@, Fill(l, lots))]
  /\ IF leg < Len(route.legs) THEN leg' = leg + 1 /\ UNCHANGED pc ELSE pc' = "end" /\ UNCHANGED leg
  /\ UNCHANGED <<asked, pass, route, consumed, fills, executed, quality, misread>>

\* simulate, for one leg.
SimulateLeg ==
  /\ pc = "leg"
  /\ LET l == route.legs[leg] IN
     \E lots \in Executions(l) : passFills' = Append(passFills, Fill(l, lots))
  /\ IF leg < Len(route.legs) THEN leg' = leg + 1 /\ UNCHANGED pc ELSE pc' = "consume" /\ UNCHANGED leg
  /\ UNCHANGED <<asked, books, pass, route, consumed, fills, executed, quality, misread>>

\* The fills of the pass reduce the books, in their order.
Consume ==
  /\ pc = "consume" /\ consumed < Len(passFills)
  /\ LET f == passFills[consumed + 1] IN
     /\ books' = IF f.lots = 0 THEN books ELSE [books EXCEPT ![f.venue] = Consumed(@, f)]
     /\ misread' = (misread \/ IsMisread(books[f.venue], f))
  /\ consumed' = consumed + 1
  /\ pc' = IF consumed' = Len(passFills) THEN "end" ELSE "consume"
  /\ UNCHANGED <<asked, pass, route, leg, passFills, fills, executed, quality>>

\* The pass is added up; an order to be executed at once has only one.
EndPass ==
  LET sum == TotalOf(passFills, LAMBDA f : f.lots) IN
  /\ pc = "end"
  /\ fills' = fills \o passFills /\ executed' = executed + sum /\ pass' = pass + 1
  /\ pc' = IF sum = 0 \/ order.tif \in {"IOC", "FOK"} THEN "record" ELSE "route"
  /\ UNCHANGED <<asked, books, route, leg, passFills, consumed, quality, misread>>

\* record_result with the first route and all the fills.
RecordResult ==
  /\ pc = "record" /\ pc' = "done"
  /\ \E first \in {Route(order, asked.books)} :
     quality' = [v \in Venues |->
       [asked |-> TotalOf(SelectSeq(first.legs, LAMBDA l : l.venue = v), LAMBDA l : l.lots),
        lots |-> TotalOf(SelectSeq(fills, LAMBDA f : f.venue = v), LAMBDA f : f.lots)]]
  /\ UNCHANGED <<asked, books, pass, route, leg, passFills, consumed, fills, executed, misread>>

SimulatorInit ==
  /\ asked \in Cases /\ books = asked.books
  /\ pc = "route" /\ pass = 0 /\ route = Rejected(asked.order) /\ leg = 0
  /\ passFills = <<>> /\ consumed = 0 /\ fills = <<>> /\ executed = 0
  /\ quality = [v \in Venues |-> [asked |-> 0, lots |-> 0]]
  /\ misread = FALSE

SimulatorNext == RoutePass \/ SimulateLeg \/ Consume \/ EndPass \/ RecordResult

SimulatorSpec == SimulatorInit /\ [][SimulatorNext]_simulatorVars
-----------------------------------------------------------------------------
AllFills == fills \o (IF pc \in {"leg", "consume", "end"} THEN passFills ELSE <<>>)

TypeOK ==
  /\ pc \in {"route", "leg", "consume", "end", "record", "done"}
  /\ pass \in 0 .. asked.passes /\ executed \in Nat /\ consumed \in 0 .. Len(passFills)
  /\ \A v \in Venues : \A i \in DOMAIN books[v] : books[v][i].price > 0 /\ books[v][i].size > 0

(* No pass executes what an earlier one has: over all passes no more than the *)
(* order is executed, the result is the sum of its fills, and what remains of *)
(* the order is the difference (simulate_with_rerouting, reroute_after_partial_fill). *)
NoneTwice ==
  /\ TotalOf(AllFills, LAMBDA f : f.lots) <= order.lots
  /\ executed = TotalOf(fills, LAMBDA f : f.lots) /\ Remaining = order.lots - executed

(* Over all passes no level gives more than it showed at first, as long as    *)
(* every fill's level_index still means the level it was routed to when the   *)
(* books are reduced (consume_book_liquidity).                                *)
TakenAsShown ==
  ~ misread =>
    \A v \in Venues : \A i \in DOMAIN asked.books[v] :
      TotalOf(SelectSeq(AllFills, LAMBDA f : f.venue = v /\ f.base = asked.books[v][i].price), LAMBDA f : f.lots)
        <= asked.books[v][i].size

(* A leg is executed at the level it was routed to: the price it starts from  *)
(* is the one the router quoted, within the limit of the order, although the  *)
(* simulator looks the level up by its index again (simulate,                 *)
(* find_quote_price_ticks).                                                   *)
PricedAsQuoted ==
  \A i \in DOMAIN AllFills :
    LET f == AllFills[i] IN
    /\ f.base = f.quoted /\ Signed(f.price) >= Signed(f.base)
    /\ order.type = "limit" => Signed(f.base) <= Signed(order.price)

(* No other way to take the routed lots costs less: no lot that is left at an *)
(* eligible level is cheaper than a lot that is taken, fees and latency        *)
(* included; and none is left while some are unrouted (route_l2,               *)
(* effective_cost_score).                                                      *)
RouteIsCheapest ==
  pc = "leg" /\ leg = 1 =>
    LET rows == UNION {{[venue |-> v, price |-> books[v][i].price, size |-> books[v][i].size] :
                          i \in DOMAIN books[v]} : v \in Venues}
        open == {r \in rows : IsEligible(order, r)}
        taken(r) == TotalOf(SelectSeq(route.legs, LAMBDA l : l.venue = r.venue /\ l.price = r.price),
                            LAMBDA l : l.lots)
        left == {r \in open : taken(r) < r.size}
    IN  /\ route.unrouted > 0 => left = {}
        /\ \A r \in open, s \in left : taken(r) > 0 => Score(order, r) <= Score(order, s)

(* A fill-or-kill order is routed whole and once, or not at all: neither the  *)
(* first route nor a later pass asks the venues for a part of it (route_l2,   *)
(* simulate_with_rerouting).                                                  *)
FokRoutedWhole == order.tif = "FOK" /\ pc = "leg" => route.routed = order.lots

(* Of a single pass no venue's fill ratio is above one: the lots executed     *)
(* there are at most those asked for there (simulate, record_result).         *)
RatioAtMostOne ==
  pc = "done" /\ pass <= 1 => \A v \in Venues : quality[v].lots <= quality[v].asked

(* What is executed is executed once and was there: of the order and of every *)
(* level no more than it had.                                                 *)
ExecutedOnce == TypeOK /\ NoneTwice /\ TakenAsShown /\ RatioAtMostOne

(* The route is the cheapest and a fill-or-kill order is not split.           *)
RouteIsSound == RouteIsCheapest /\ FokRoutedWhole
=============================================================================
