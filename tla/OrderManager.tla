---------------------------- MODULE OrderManager ----------------------------
(***************************************************************************)
(* trading::OrderManager, with the order book and the risk ledger it       *)
(* drives: the lifecycle of an order from the risk check to its last fill  *)
(* or cancellation.                                                        *)
(*                                                                         *)
(* Every public method runs under one mutex.  A method that other threads  *)
(* can get in the way of, through the kill switch, which has no lock, is a *)
(* chain of steps, with the locals of the call in `call`; the others are   *)
(* one step.  The order in which a call touches book, ledger, active       *)
(* orders and history is the code's.                                       *)
(*                                                                         *)
(* Not all liquidity comes through the order manager: the backtest and the *)
(* demos put the market's orders straight into the book (ExternalIds).     *)
(*                                                                         *)
(* The history queue is kept without its stale entries, those whose        *)
(* timestamp is not the one of the stored state: the code pops them with   *)
(* no effect.  This takes the nanosecond clock to advance between two      *)
(* updates of one order.                                                   *)
(***************************************************************************)
EXTENDS Integers, Sequences, FiniteSets, SequencesExt, FiniteSetsExt

CONSTANTS
    OrderIds, ExternalIds, Prices, MaxLots, OrderTypes, PoolSize, MaxLevels,
    NoOrder, NoTaker,
    Symbol, MaxUnits, MaxOrderValue, MaxExposure, SymbolLimit, NoReservation,
    Tifs,        \* times in force in use, among GTC, IOC and FOK
    HistoryCap,  \* history_cap_, at least 1
    NoState,     \* an identifier that is not active, or not in the history
    Idle,        \* the mutex is free
    NoEvent,     \* the last step appended nothing to the journal
    MaxCalls     \* bound: how many calls a behaviour has

VARIABLES
    book, taker,  \* the order book and the match in progress
    ledger,       \* the risk manager's reservations and kill switch
    active,       \* active_orders_
    history,      \* [states |-> order_history_, queue |-> history_order_queue_]
    call,         \* the method that holds the mutex, or Idle
    event,        \* what the step appended to the journal, or NoEvent
    calls,        \* history: the number of calls, for the bound
    approved,     \* history: what risk admitted last, the lots gone since, and
                  \* whether a refused modification left the order bare
    outside       \* history: net lots bought from external liquidity

vars == <<book, taker, ledger, active, history, call, event, calls, approved, outside>>

Book == INSTANCE PriceTimeBook

Risk == INSTANCE RiskLedger WITH Symbols <- {Symbol}

OwnIds == OrderIds \ ExternalIds
Requests == [id : OwnIds, side : Book!Sides, type : OrderTypes, tif : Tifs,
             price : Prices, lots : Book!Lots]

OrderStates == [side : Book!Sides, price : Prices, initial : Book!Lots,
                remaining : 0 .. MaxLots, filled : 0 .. MaxLots,
                status : {"RESTING", "PARTIALLY_FILLED", "FILLED", "CANCELED", "REJECTED"}]
Approvals == [side : Book!Sides, price : Prices, lots : Book!Lots, gone : 0 .. MaxLots,
              bare : BOOLEAN]
CallStates ==
    [op : {"match", "settle"}, order : Requests, remaining : 0 .. MaxLots,
     trades : Seq(Book!Trades)]
    \cup [op : {"restore"}, id : OwnIds]

\* The absent values are no orders, approvals or calls.
ASSUME OrderManagerAssumption ==
    /\ Book!BookAssumption /\ Risk!LedgerAssumption
    /\ ExternalIds \subseteq OrderIds
    /\ Tifs \subseteq {"GTC", "IOC", "FOK"}
    /\ HistoryCap \in Nat \ {0}
    /\ NoState \notin OrderStates \cup Approvals
    /\ Idle \notin CallStates
    /\ MaxCalls \in Nat

\* The risk manager sees an order, or part of it, at a price.
RiskOrder(id, side, price, lots) ==
    [id |-> id, symbol |-> Symbol, side |-> side, price |-> price, lots |-> lots]

Known(id) == active[id] # NoState \/ history.states[id] # NoState

-----------------------------------------------------------------------------
(* The history                                                             *)

\* Those of the n oldest updates whose orders are not active.
Oldest(h, act, n) == {h.queue[k] : k \in {j \in 1 .. n : act[h.queue[j]] = NoState}}

\* enforce_history_cap: from the oldest update, forget orders until the history
\* fits; an active order loses its place in the queue but is not forgotten.
Trimmed(h, act) ==
    LET stored == {id \in OrderIds : h.states[id] # NoState}
        popped == {k \in DOMAIN h.queue :
                     Cardinality(stored \ Oldest(h, act, k - 1)) > HistoryCap}
        n == Cardinality(popped)
    IN  [states |-> [id \in OrderIds |->
                       IF id \in Oldest(h, act, n) THEN NoState ELSE h.states[id]],
         queue  |-> SubSeq(h.queue, n + 1, Len(h.queue))]

\* upsert_state, when the active orders are `act`.
Upserted(h, act, id, state) ==
    Trimmed([states |-> [h.states EXCEPT ![id] = state],
             queue  |-> Append(RemoveFirst(h.queue, id), id)], act)

State(side, price, initial, remaining, filled, status) ==
    [side |-> side, price |-> price, initial |-> initial, remaining |-> remaining,
     filled |-> filled, status |-> status]

Event(type, id, related, side, price, lots, remaining, resting) ==
    [type |-> type, id |-> id, related |-> related, side |-> side, price |-> price,
     lots |-> lots, remaining |-> remaining, resting |-> resting]

StateEvent(type, id, s) ==
    Event(type, id, id, s.side, s.price, s.initial, s.remaining, s.remaining > 0)

-----------------------------------------------------------------------------
(* submit_order                                                            *)

Rests(o) == o.type = "LIMIT" /\ o.tif = "GTC"

TakerOf(o) ==
    [id |-> o.id, side |-> o.side, type |-> o.type, price |-> o.price,
     remaining |-> o.lots, rest |-> Rests(o), trades |-> <<>>]

\* Deviation: a FOK is let through when some of it can trade.
LiquidInPart(o) == Book!Candidates(book, TakerOf(o)) # {}

\* executable_lots of the book reaches the order's quantity.
Liquid(o) ==
    MapThenSumSet(LAMBDA id : book.orders[id].lots, Book!Candidates(book, TakerOf(o)))
      >= o.lots

CallsLeft == call = Idle /\ calls < MaxCalls /\ calls' = calls + 1

SubmitDuplicate(o) ==
    /\ CallsLeft
    /\ Known(o.id)
    /\ event' = Event("REJECTED", o.id, o.id, o.side, o.price, o.lots, o.lots, FALSE)
    /\ UNCHANGED <<book, taker, ledger, active, history, call, approved, outside>>

\* Not the liquidity for a FOK, or refused by the risk manager.
SubmitRejected(o) ==
    /\ CallsLeft
    /\ ~Known(o.id)
    /\ \/ o.tif = "FOK" /\ ~Liquid(o)
       \/ ~Risk!Admits(ledger, RiskOrder(o.id, o.side, o.price, o.lots))
    /\ history' = Upserted(history, active, o.id,
                           State(o.side, o.price, o.lots, o.lots, 0, "REJECTED"))
    /\ event' = Event("REJECTED", o.id, o.id, o.side, o.price, o.lots, o.lots, FALSE)
    /\ UNCHANGED <<book, taker, ledger, active, call, approved, outside>>

\* The reservation is made and the match begins.
SubmitAccepted(o) ==
    /\ CallsLeft
    /\ ~Known(o.id)
    /\ o.tif = "FOK" => Liquid(o)
    /\ Risk!Admits(ledger, RiskOrder(o.id, o.side, o.price, o.lots))
    /\ ledger' = Risk!Reserved(ledger, RiskOrder(o.id, o.side, o.price, o.lots))
    /\ Book!MatchBegin(o.id, o.side, o.type, o.price, o.lots, Rests(o))
    /\ call' = [op |-> "match", order |-> o, remaining |-> o.lots, trades |-> <<>>]
    /\ event' = NoEvent
    /\ approved' = [approved EXCEPT ![o.id] =
                      [side |-> o.side, price |-> o.price, lots |-> o.lots, gone |-> 0,
                       bare |-> FALSE]]
    /\ UNCHANGED <<active, history, outside>>

MatchTrade ==
    /\ call # Idle /\ call.op = "match"
    /\ Book!MatchTrade
    /\ event' = NoEvent
    /\ UNCHANGED <<ledger, active, history, call, calls, approved, outside>>

\* Deviation: the match goes on until the order is filled.
MatchEndWhenFilled ==
    /\ call # Idle /\ call.op = "match"
    /\ Book!MatchEnd
    /\ taker.remaining = 0
    /\ call' = [call EXCEPT !.op = "settle", !.trades = taker.trades]
    /\ event' = NoEvent
    /\ UNCHANGED <<ledger, active, history, calls, approved, outside>>

MatchEnd ==
    /\ call # Idle /\ call.op = "match"
    /\ Book!MatchEnd
    /\ call' = [call EXCEPT !.op = "settle", !.trades = taker.trades]
    /\ event' = NoEvent
    /\ UNCHANGED <<ledger, active, history, calls, approved, outside>>

\* apply_trade_to_maker: the state of an active maker after n more lots.
FilledBy(s, n) ==
    LET remaining == IF n <= s.remaining THEN s.remaining - n ELSE 0
    IN  [s EXCEPT !.filled = s.filled + n, !.remaining = remaining,
                  !.status = IF remaining = 0 THEN "FILLED" ELSE "PARTIALLY_FILLED"]

\* One trade: the taker's fill, the journal, then the maker's fill, its state
\* and its history, into which it goes while it still is active.
SettleTrade ==
    /\ call # Idle /\ call.op = "settle" /\ call.trades # <<>>
    /\ LET o == call.order
           t == Head(call.trades)
           m == t.maker
           taken == Risk!Booked(ledger, RiskOrder(o.id, o.side, t.price, t.lots))
           after == FilledBy(active[m], t.lots)
           spent == [approved EXCEPT ![o.id].gone = @ + t.lots]
       IN  /\ call' = [call EXCEPT
                         !.remaining = IF t.lots <= @ THEN @ - t.lots ELSE 0,
                         !.trades = Tail(@)]
           /\ event' = Event("TRADE", o.id, m, o.side, t.price, t.lots, 0, FALSE)
           /\ IF active[m] = NoState
              THEN /\ ledger' = taken
                   /\ outside' = outside + Risk!Signed(o.side, t.lots)
                   /\ approved' = spent
                   /\ UNCHANGED <<active, history>>
              ELSE /\ ledger' = Risk!Booked(taken, RiskOrder(m, active[m].side, t.price, t.lots))
                   /\ history' = Upserted(history, active, m, after)
                   /\ active' = [active EXCEPT
                                   ![m] = IF after.remaining = 0 THEN NoState ELSE after]
                   /\ approved' = [spent EXCEPT ![m].gone = @ + t.lots]
                   /\ UNCHANGED outside
    /\ UNCHANGED <<book, taker, calls>>

\* The end of submit_order: the residual rests, or its reservation is released.
SubmitFinish ==
    /\ call # Idle /\ call.op = "settle" /\ call.trades = <<>>
    /\ LET o == call.order
           filled == o.lots - call.remaining
           resting == Rests(o) /\ call.remaining > 0 /\ o.id \in Book!Live(book)
           status == IF call.remaining = 0 THEN "FILLED"
                     ELSE IF filled > 0 THEN "PARTIALLY_FILLED"
                     ELSE IF resting THEN "RESTING" ELSE "CANCELED"
           s == State(o.side, o.price, o.lots, IF resting THEN call.remaining ELSE 0,
                      filled, status)
       IN  /\ active' = [active EXCEPT ![o.id] = IF resting THEN s ELSE @]
           /\ ledger' = IF resting THEN ledger
                        ELSE Risk!Released(ledger, o.id, call.remaining)
           /\ history' = Upserted(history, active', o.id, s)
           /\ event' = Event("ACCEPTED", o.id, o.id, o.side, o.price, o.lots, s.remaining, resting)
    /\ call' = Idle
    /\ UNCHANGED <<book, taker, calls, approved, outside>>

-----------------------------------------------------------------------------
(* cancel_order and cancel_order_partial                                   *)

CanceledState(s) == [s EXCEPT !.status = "CANCELED", !.remaining = 0]

Cancel(id) ==
    /\ CallsLeft
    /\ active[id] # NoState /\ id \in Book!Live(book)
    /\ book' = Book!Canceled(book, id)
    /\ ledger' = Risk!Released(ledger, id, active[id].remaining)
    /\ active' = [active EXCEPT ![id] = NoState]
    /\ history' = Upserted(history, active', id, CanceledState(active[id]))
    /\ event' = StateEvent("CANCELED", id, CanceledState(active[id]))
    /\ UNCHANGED <<taker, call, approved, outside>>

\* A cut of the whole order cancels it.
CancelPartial(id, n) ==
    /\ CallsLeft
    /\ active[id] # NoState /\ id \in Book!Live(book)
    /\ book' = Book!Reduced(book, id, n)
    /\ LET s == active[id]
           left == IF book'.orders[id] = NoOrder THEN 0 ELSE book'.orders[id].lots
           cut == [s EXCEPT !.remaining = left, !.filled = s.initial - left,
                            !.status = IF s.initial > left THEN "PARTIALLY_FILLED"
                                                           ELSE "RESTING"]
           after == IF left = 0 THEN CanceledState(s) ELSE cut
       IN  /\ ledger' = Risk!Released(ledger, id, s.remaining - left)
           /\ active' = [active EXCEPT ![id] = IF left = 0 THEN NoState ELSE cut]
           /\ history' = Upserted(history, active', id, after)
           /\ event' = StateEvent(IF left = 0 THEN "CANCELED" ELSE "REPLACED", id, after)
           /\ approved' = [approved EXCEPT ![id].gone = @ + (s.remaining - left)]
    /\ UNCHANGED <<taker, call, outside>>

-----------------------------------------------------------------------------
(* modify_order                                                            *)

Replacement(id, price, lots) == [side |-> active[id].side, price |-> price, lots |-> lots]

\* The book has no room for the replacement: the order is back in the book, at
\* the end of its level, and nothing else changes.
ModifyUnfit(id, price, lots) ==
    /\ CallsLeft
    /\ active[id] # NoState /\ id \in Book!Live(book)
    /\ ~Book!CanModify(book, id, Replacement(id, price, lots))
    /\ book' = Book!Modified(book, id, Replacement(id, price, lots))
    /\ event' = NoEvent
    /\ UNCHANGED <<taker, ledger, active, history, call, approved, outside>>

\* Release the old reservation and ask for the new one.
ModifyAccepted(id, price, lots) ==
    /\ CallsLeft
    /\ active[id] # NoState /\ id \in Book!Live(book)
    /\ Book!CanModify(book, id, Replacement(id, price, lots))
    /\ book' = Book!Modified(book, id, Replacement(id, price, lots))
    /\ LET o == RiskOrder(id, active[id].side, price, lots)
           released == Risk!Released(ledger, id, active[id].remaining)
           s == State(o.side, price, lots, lots, 0, "RESTING")
       IN  /\ Risk!Admits(released, o)
           /\ ledger' = Risk!Reserved(released, o)
           /\ active' = [active EXCEPT ![id] = s]
           /\ history' = Upserted(history, active', id, s)
           /\ event' = StateEvent("REPLACED", id, s)
           /\ approved' = [approved EXCEPT ![id] =
                             [side |-> o.side, price |-> price, lots |-> lots, gone |-> 0,
                              bare |-> FALSE]]
    /\ UNCHANGED <<taker, call, outside>>

\* Refused: the old reservation is gone and the order is to be put back.
ModifyRefused(id, price, lots) ==
    /\ CallsLeft
    /\ active[id] # NoState /\ id \in Book!Live(book)
    /\ Book!CanModify(book, id, Replacement(id, price, lots))
    /\ book' = Book!Modified(book, id, Replacement(id, price, lots))
    /\ ledger' = Risk!Released(ledger, id, active[id].remaining)
    /\ ~Risk!Admits(ledger', RiskOrder(id, active[id].side, price, lots))
    /\ call' = [op |-> "restore", id |-> id]
    /\ event' = NoEvent
    /\ UNCHANGED <<taker, active, history, approved, outside>>

\* Deviation: the ledger gets the old order back, the book does not.
ModifyRestoreLedgerOnly ==
    /\ call # Idle /\ call.op = "restore"
    /\ LET id == call.id
           s == active[id]
           o == RiskOrder(id, s.side, s.price, s.remaining)
       IN  /\ ledger' = IF Risk!Admits(ledger, o) THEN Risk!Reserved(ledger, o) ELSE ledger
           /\ approved' = [approved EXCEPT ![id].bare = ~Risk!Admits(ledger, o)]
    /\ call' = Idle
    /\ event' = NoEvent
    /\ UNCHANGED <<book, taker, active, history, calls, outside>>

\* The book takes the old order back; the answer of the second risk check, by
\* when the kill switch may have changed, is ignored.
ModifyRestore ==
    /\ call # Idle /\ call.op = "restore"
    /\ LET id == call.id
           s == active[id]
           o == RiskOrder(id, s.side, s.price, s.remaining)
       IN  /\ book' = Book!Modified(book, id, Replacement(id, s.price, s.remaining))
           /\ ledger' = IF Risk!Admits(ledger, o) THEN Risk!Reserved(ledger, o) ELSE ledger
           /\ approved' = [approved EXCEPT ![id].bare = ~Risk!Admits(ledger, o)]
    /\ call' = Idle
    /\ event' = NoEvent
    /\ UNCHANGED <<taker, active, history, calls, outside>>

-----------------------------------------------------------------------------
(* Other threads, and the market                                           *)

TriggerKillSwitch ==
    /\ ~ledger.killed
    /\ ledger' = Risk!Killed(ledger)
    /\ event' = NoEvent
    /\ UNCHANGED <<book, taker, active, history, call, calls, approved, outside>>

ResetKillSwitch ==
    /\ ledger.killed
    /\ ledger' = Risk!Reset(ledger)
    /\ event' = NoEvent
    /\ UNCHANGED <<book, taker, active, history, call, calls, approved, outside>>

\* The market's orders, between calls (the backtest and the demos have a single
\* thread): add_order and cancel_order of the book.
QuotePlaced(id, o) ==
    /\ CallsLeft
    /\ Book!CanAdd(book, id, o)
    /\ book' = Book!Added(book, id, o)
    /\ event' = NoEvent
    /\ UNCHANGED <<taker, ledger, active, history, call, approved, outside>>

QuotePulled(id) ==
    /\ call = Idle
    /\ id \in Book!Live(book)
    /\ book' = Book!Canceled(book, id)
    /\ event' = NoEvent
    /\ UNCHANGED <<taker, ledger, active, history, call, calls, approved, outside>>

-----------------------------------------------------------------------------

Init ==
    /\ Book!Init
    /\ ledger = Risk!EmptyLedger
    /\ active = [id \in OrderIds |-> NoState]
    /\ history = [states |-> [id \in OrderIds |-> NoState], queue |-> <<>>]
    /\ call = Idle
    /\ event = NoEvent
    /\ calls = 0
    /\ approved = [id \in OrderIds |-> NoState]
    /\ outside = 0

\* The rest of a call that holds the mutex.
CallStep == MatchTrade \/ MatchEnd \/ SettleTrade \/ SubmitFinish \/ ModifyRestore

Next ==
    \/ \E o \in Requests : SubmitDuplicate(o) \/ SubmitRejected(o) \/ SubmitAccepted(o)
    \/ CallStep
    \/ \E id \in OwnIds : Cancel(id)
    \/ \E id \in OwnIds, n \in Book!Lots : CancelPartial(id, n)
    \/ \E id \in OwnIds, price \in Prices, lots \in Book!Lots :
         \/ ModifyUnfit(id, price, lots)
         \/ ModifyAccepted(id, price, lots)
         \/ ModifyRefused(id, price, lots)
    \/ TriggerKillSwitch
    \/ ResetKillSwitch
    \/ \E id \in ExternalIds, o \in Book!Orders : QuotePlaced(id, o)
    \/ \E id \in ExternalIds : QuotePulled(id)

\* A thread that holds the mutex runs on: nothing in a call waits.
Fairness == WF_vars(CallStep)

Spec == Init /\ [][Next]_vars /\ Fairness

-----------------------------------------------------------------------------
(* Properties                                                              *)

TypeOK ==
    /\ Book!TypeOK
    /\ ledger.reserved \in [OrderIds -> Risk!Reservations \cup {NoReservation}]
    /\ ledger.committed \in -MaxUnits - 1 .. MaxUnits
    /\ active \in [OrderIds -> OrderStates \cup {NoState}]
    /\ history.states \in [OrderIds -> OrderStates \cup {NoState}]
    /\ Range(history.queue) \subseteq {id \in OrderIds : history.states[id] # NoState}
    /\ IsInjective(history.queue)
    /\ calls \in 0 .. MaxCalls

ActiveIds == {id \in OrderIds : active[id] # NoState}

\* Between calls the order manager and the book agree on what rests: the same
\* orders, with the same side, price and quantity.
ActiveIsBook ==
    call = Idle =>
      /\ ActiveIds = Book!Live(book) \ ExternalIds
      /\ \A id \in ActiveIds :
           book.orders[id] = Replacement(id, active[id].price, active[id].remaining)

\* Between calls the reservations are those of the active orders, for what each
\* can still trade, whatever was filled at which prices, cut, replaced, refused
\* or dropped.  The one exception is an order that a refused modification put
\* back: the second risk check may refuse it too, and it rests unreserved.
ReservationsMatch ==
    call = Idle =>
      /\ Risk!Reserving(ledger) \subseteq ActiveIds
      /\ \A id \in ActiveIds :
           ledger.reserved[id] =
             IF approved[id].bare THEN NoReservation
             ELSE [side |-> active[id].side, price |-> active[id].price,
                   remaining |-> active[id].remaining]

\* Nothing reaches the market that the risk manager did not admit: a resting
\* order is at the price it was last admitted at, with the quantity it was
\* admitted with less what it has traded or had cut since, which is what its
\* state calls filled.  A refused modification changes neither.
RestsAsApproved ==
    call = Idle => \A id \in ActiveIds :
      /\ approved[id] # NoState
      /\ book.orders[id] = [side |-> approved[id].side, price |-> approved[id].price,
                             lots |-> approved[id].lots - approved[id].gone]
      /\ active[id].filled = approved[id].gone

\* A trade between two orders of the manager is booked on both sides, so that
\* the position is what was traded with others.
PositionIsOutside ==
    call = Idle /\ Symbol \in DOMAIN SymbolLimit => ledger.net[Symbol] = outside

\* The ledger agrees with the orders between calls: it has reserved what they can
\* still trade, and holds the position that they have traded.
LedgerAgrees == ReservationsMatch /\ PositionIsOutside

\* A FOK order that was admitted trades in full: what executable_lots promised
\* before the risk check is what the match finds after it.
FokAllOrNone ==
    call # Idle /\ call.op = "settle" =>
      (call.order.tif = "FOK" /\ call.trades = <<>> => call.remaining = 0)

\* get_order_state and the duplicate check agree for active orders, which the
\* cap never evicts: the history mirrors them between calls.
HistoryMirrorsActive ==
    call = Idle => \A id \in ActiveIds : history.states[id] = active[id]

\* The four places that hold an order's quantity agree between calls: the active
\* order, the book, what was admitted, and the history.
OrdersAgree == TypeOK /\ ActiveIsBook /\ RestsAsApproved /\ HistoryMirrorsActive

\* Whatever sequence of calls the manager makes, the kill switch between them and the
\* market's orders next to its own, the book it drives stays in its capacities and has
\* one order to take next in each level (add_order, modify_order and the residual of a
\* match).
BookIsSound == Book!WithinCapacity /\ Book!PriorityTotal

\* A call that holds the mutex can always go on to its next step, whatever the
\* kill switch does meanwhile.  Each step takes a lot from the order, a trade
\* from the list or ends the call, so that with the fairness above every call
\* returns.
CallGoesOn == call # Idle => ENABLED CallStep
=============================================================================
