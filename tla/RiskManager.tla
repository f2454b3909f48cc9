----------------------------- MODULE RiskManager -----------------------------
(***************************************************************************)
(* risk::RiskManager: the reservation ledger, the average-cost position of *)
(* each symbol with its profit and loss, the daily baseline, and the kill  *)
(* switch that a breach of the daily loss limit throws.                    *)
(*                                                                         *)
(* Each method is one step.  The class has a mutex for the reservations,   *)
(* one for the positions and atomics for the rest; no method reads under   *)
(* one what it then uses under another, so that each takes effect at once  *)
(* (check_order at its load of the kill switch and its reservation, which  *)
(* the order manager's own mutex keeps from interleaving with fills).      *)
(*                                                                         *)
(* Average prices are exact fractions here, doubles in the code: money is  *)
(* a pair <<numerator, denominator>>.                                      *)
(***************************************************************************)
EXTENDS RiskLedger, Sequences, FiniteSets, FiniteSetsExt

CONSTANTS
    MaxDailyLoss,  \* max_daily_loss; 0 disables the automatic kill switch
    MaxFills,      \* bound: how many fills a behaviour has
    MaxDay         \* bound: the days are 1 .. MaxDay

ASSUME RiskAssumption ==
    /\ IsFiniteSet(OrderIds) /\ IsFiniteSet(Symbols)
    /\ MaxDailyLoss \in Nat
    /\ MaxFills \in Nat /\ MaxDay \in Nat

VARIABLES
    ledger,     \* reservations, committed exposure, net positions, kill switch
    filled,     \* filled_exposure_units_
    positions,  \* of each symbol: net lots, average price, mark, unrealized PnL
    pnl,        \* realized and unrealized totals, the day's baseline, the day
    cash,       \* history: what the fills paid and received, independently
    fills       \* history: the number of fills, for the bound

vars == <<ledger, filled, positions, pnl, cash, fills>>

-----------------------------------------------------------------------------
(* Exact fractions                                                         *)

Frac(n) == <<n, 1>>

CommonDivisor(q, d) == q[1] % d = 0 /\ q[2] % d = 0

\* In lowest terms, so that equal amounts are equal values.
Lowest(q) ==
    IF q[2] = 1 THEN q
    ELSE LET g == CHOOSE d \in 1 .. q[2] :
                    CommonDivisor(q, d) /\ \A e \in d + 1 .. q[2] : ~CommonDivisor(q, e)
         IN  <<q[1] \div g, q[2] \div g>>

Plus(q, r) == Lowest(<<q[1] * r[2] + r[1] * q[2], q[2] * r[2]>>)
Times(n, q) == Lowest(<<n * q[1], q[2]>>)
Minus(q, r) == Plus(q, Times(-1, r))
Over(q, n) == Lowest(<<q[1], q[2] * n>>)
AtMost(q, n) == q[1] <= n * q[2]

-----------------------------------------------------------------------------
(* Positions                                                               *)

Flat == [net |-> 0, avg |-> Frac(0), mark |-> 0, unrealized |-> Frac(0)]

SameSign(x, y) == (x > 0) = (y > 0)

\* refresh_unrealized: the position at a mark price.
Unrealized(p) ==
    IF p.net # 0 /\ p.mark > 0 THEN Times(p.net, Minus(Frac(p.mark), p.avg)) ELSE Frac(0)

MarkedAt(p, price) ==
    LET q == [p EXCEPT !.mark = price] IN [q EXCEPT !.unrealized = Unrealized(q)]

\* Deviation: a position that flips keeps its average.
PositionKeepingAverage(p, side, price, lots) ==
    LET delta == Signed(side, lots)
        net == p.net + delta
        avg == IF p.net = 0 \/ SameSign(p.net, delta)
               THEN Over(Plus(Times(Abs(p.net), p.avg), Frac(price * lots)), Abs(net))
               ELSE IF net = 0 THEN Frac(0) ELSE p.avg
    IN  MarkedAt([p EXCEPT !.net = net, !.avg = avg], price)

\* Opening or extending folds the price into the average; reducing and closing
\* leave it; flipping through zero reopens at the fill price.
PositionAfter(p, side, price, lots) ==
    LET delta == Signed(side, lots)
        net == p.net + delta
        avg == IF p.net = 0 \/ SameSign(p.net, delta)
               THEN Over(Plus(Times(Abs(p.net), p.avg), Frac(price * lots)), Abs(net))
               ELSE IF net = 0 THEN Frac(0)
               ELSE IF SameSign(net, p.net) THEN p.avg
               ELSE Frac(price)
    IN  MarkedAt([p EXCEPT !.net = net, !.avg = avg], price)

\* What the fill realizes, on the lots of the position it closes.
RealizedBy(p, side, price, lots) ==
    IF p.net = 0 \/ SameSign(p.net, Signed(side, lots)) THEN Frac(0)
    ELSE LET closed == IF Abs(p.net) <= lots THEN Abs(p.net) ELSE lots
         IN  Times(IF p.net > 0 THEN closed ELSE -closed, Minus(Frac(price), p.avg))

DailyPnl(m) == Minus(Plus(m.realized, m.unrealized), m.baseline)

\* Deviation: only what is realized counts.
BreachedRealized(m) ==
    MaxDailyLoss > 0 /\ AtMost(Minus(m.realized, m.baseline), -MaxDailyLoss)

\* check_daily_loss, after a fill or a mark.
Breached(m) == MaxDailyLoss > 0 /\ AtMost(DailyPnl(m), -MaxDailyLoss)

Checked(l, m) == IF Breached(m) THEN Killed(l) ELSE l

-----------------------------------------------------------------------------
(* The methods                                                             *)

Init ==
    /\ ledger = EmptyLedger
    /\ filled = 0
    /\ positions = [s \in Symbols |-> Flat]
    /\ pnl = [realized |-> Frac(0), unrealized |-> Frac(0), baseline |-> Frac(0), day |-> 0]
    /\ cash = 0
    /\ fills = 0

\* A refused order changes nothing and is not a step.
CheckOrder(o) ==
    /\ Admits(ledger, o)
    /\ ledger' = Reserved(ledger, o)
    /\ UNCHANGED <<filled, positions, pnl, cash, fills>>

OnFill(o) ==
    /\ fills < MaxFills
    /\ LET p == positions[o.symbol]
           q == PositionAfter(p, o.side, o.price, o.lots)
       IN  /\ positions' = [positions EXCEPT ![o.symbol] = q]
           /\ pnl' = [pnl EXCEPT
                !.realized = Plus(@, RealizedBy(p, o.side, o.price, o.lots)),
                !.unrealized = Plus(@, Minus(q.unrealized, p.unrealized))]
           /\ ledger' = Checked(Booked(ledger, o), pnl')
    /\ filled' = Wrapped(filled + Signed(o.side, Notional(o.price, o.lots)))
    /\ cash' = cash - Signed(o.side, o.price * o.lots)
    /\ fills' = fills + 1

OnCancel(id, lots) ==
    /\ id \in Reserving(ledger)
    /\ ledger' = Released(ledger, id, lots)
    /\ UNCHANGED <<filled, positions, pnl, cash, fills>>

\* A symbol that never filled has no position to mark (mark 0 until then).
MarkToMarket(s, price) ==
    /\ positions[s].mark # 0
    /\ positions' = [positions EXCEPT ![s] = MarkedAt(@, price)]
    /\ pnl' = [pnl EXCEPT
                 !.unrealized = Plus(@, Minus(positions'[s].unrealized,
                                              positions[s].unrealized))]
    /\ ledger' = Checked(ledger, pnl')
    /\ UNCHANGED <<filled, cash, fills>>

\* The first call only notes the day.  Any other day, later or earlier, moves
\* the baseline; the kill switch stays as it is.
MaybeRollDay(day) ==
    /\ day # pnl.day
    /\ pnl' = [pnl EXCEPT
                 !.day = day,
                 !.baseline = IF pnl.day = 0 THEN @ ELSE Plus(pnl.realized, pnl.unrealized)]
    /\ UNCHANGED <<ledger, filled, positions, cash, fills>>

TriggerKillSwitch ==
    /\ ~ledger.killed
    /\ ledger' = Killed(ledger)
    /\ UNCHANGED <<filled, positions, pnl, cash, fills>>

ResetKillSwitch ==
    /\ ledger.killed
    /\ ledger' = Reset(ledger)
    /\ UNCHANGED <<filled, positions, pnl, cash, fills>>

Next ==
    \/ \E o \in RiskOrders : CheckOrder(o) \/ OnFill(o)
    \/ \E id \in OrderIds, lots \in Lots : OnCancel(id, lots)
    \/ \E s \in Symbols, price \in Prices : MarkToMarket(s, price)
    \/ \E day \in 1 .. MaxDay : MaybeRollDay(day)
    \/ TriggerKillSwitch
    \/ ResetKillSwitch

Spec == Init /\ [][Next]_vars

-----------------------------------------------------------------------------
(* Properties                                                              *)

Fractions == Int \X (Nat \ {0})

TypeOK ==
    /\ ledger \in [reserved : [OrderIds -> Reservations \cup {NoReservation}],
                   committed : -MaxUnits - 1 .. MaxUnits,
                   net : [DOMAIN SymbolLimit -> Int],
                   killed : BOOLEAN]
    /\ filled \in -MaxUnits - 1 .. MaxUnits
    /\ positions \in [Symbols -> [net : Int, avg : Fractions, mark : Prices \cup {0},
                                  unrealized : Fractions]]
    /\ pnl \in [realized : Fractions, unrealized : Fractions, baseline : Fractions,
                day : 0 .. MaxDay]
    /\ cash \in Int
    /\ fills \in 0 .. MaxFills

ReservedUnits(id) ==
    LET r == ledger.reserved[id] IN Signed(r.side, Notional(r.price, r.remaining))

StillReserved == MapThenSumSet(ReservedUnits, Reserving(ledger))

\* The committed exposure is the sum of what is still reserved, whatever was
\* filled at better prices, cancelled in parts or released twice (ADR 0005): as
\* a 64-bit counter holds it, that is, the sum itself whenever it fits, also
\* after a time when it did not.
CommittedIsSum == ledger.committed = Wrapped(StillReserved)

\* The ledger adds up after every check, fill, release and kill.
LedgerSound == TypeOK /\ CommittedIsSum

ReservedOn(side) == {id \in Reserving(ledger) : ledger.reserved[id].side = side}

\* ADR 0005:15, "committed exposure becomes deterministic and bounded by
\* reservation state": no more than the buys reserve, no less than the sells.
\* Releasing one side can take the other past the range of the counter.
CommittedIsBounded ==
    ledger.committed \in MapThenSumSet(ReservedUnits, ReservedOn("SELL"))
                         .. MapThenSumSet(ReservedUnits, ReservedOn("BUY"))

MarkedValue(s) == positions[s].net * positions[s].mark

\* Average-cost accounting loses no money: what it calls realized and
\* unrealized is the cash the fills moved plus the value of what is held, through
\* every extension, reduction, close and flip.
PnlIsCashPlusHoldings ==
    Plus(pnl.realized, pnl.unrealized) = Frac(cash + MapThenSumSet(MarkedValue, Symbols))

\* The loss of the day, from the cash and the holdings instead of the averages.
DayLost ==
    MaxDailyLoss > 0 /\
    AtMost(Minus(Frac(cash + MapThenSumSet(MarkedValue, Symbols)), pnl.baseline), -MaxDailyLoss)

\* A fill or a mark that leaves the day's loss at its limit leaves the kill
\* switch on, also when an operator reset it during an earlier breach.
BreachStopsTrading ==
    [][positions' # positions /\ DayLost' => ledger'.killed]_vars
=============================================================================
