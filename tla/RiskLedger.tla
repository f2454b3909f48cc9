----------------------------- MODULE RiskLedger -----------------------------
(***************************************************************************)
(* The part of risk::RiskManager that admits and releases orders: the      *)
(* reservation of each accepted order, the committed exposure they add up  *)
(* to, the net position of each symbol with a limit, and the kill switch.  *)
(* The ledger is a record, and what check_order, on_fill and on_cancel do  *)
(* to it are operators from one ledger to the next.  The modules that have *)
(* a ledger as a variable are RiskManager and OrderManager.                *)
(*                                                                         *)
(* An addition that would pass the largest fixed-point value is refused by *)
(* check_order, and a release wraps.  check_order compares the order's     *)
(* value, computed in floating point and not saturated, with               *)
(* max_order_value.                                                        *)
(***************************************************************************)
EXTENDS FixedPoint

CONSTANTS
    OrderIds,       \* order identifiers
    Symbols,        \* traded symbols
    Prices,         \* price ticks, those validate_order accepts
    MaxLots,        \* kMaxQuantityLots
    MaxOrderValue,  \* max_order_value
    MaxExposure,    \* max_position_exposure
    SymbolLimit,    \* max net (or gross) position of the symbols that have one
    NoReservation

Sides == {"BUY", "SELL"}
Lots == 1 .. MaxLots
RiskOrders == [id : OrderIds, symbol : Symbols, side : Sides, price : Prices, lots : Lots]
Reservations == [side : Sides, price : Prices, remaining : Lots]

ASSUME LedgerAssumption ==
    /\ Prices \subseteq Nat \ {0}
    /\ MaxLots \in Nat \ {0}
    /\ MaxUnits \in Nat \ {0}
    /\ MaxOrderValue \in Nat
    /\ MaxExposure \in Nat
    /\ DOMAIN SymbolLimit \subseteq Symbols
    /\ \A s \in DOMAIN SymbolLimit : SymbolLimit[s] \in Nat \ {0}
    /\ NoReservation \notin Reservations

-----------------------------------------------------------------------------
(* The ledger                                                              *)

EmptyLedger ==
    [reserved  |-> [id \in OrderIds |-> NoReservation],
     committed |-> 0,
     net       |-> [s \in DOMAIN SymbolLimit |-> 0],
     killed    |-> FALSE]

Reserving(l) == {id \in OrderIds : l.reserved[id] # NoReservation}

\* The checks of check_order, in its order.  The symbol limit looks at what is
\* filled and at this order, not at what is reserved for others; the committed
\* exposure is a signed sum, in which orders of the two sides cancel out.  A
\* limit above the largest quantity saturates, and refuses every order.
Admits(l, o) ==
    /\ ~l.killed
    /\ o.price * o.lots <= MaxOrderValue
    /\ o.symbol \in DOMAIN SymbolLimit =>
         /\ SymbolLimit[o.symbol] <= MaxLots
         /\ Abs(l.net[o.symbol] + Signed(o.side, o.lots)) <= SymbolLimit[o.symbol]
    /\ o.id \notin Reserving(l)
    /\ LET proposed == l.committed + Signed(o.side, Notional(o.price, o.lots))
       IN  proposed \in -MaxUnits - 1 .. MaxUnits /\ Abs(proposed) <= MaxExposure

Reserved(l, o) ==
    [l EXCEPT
      !.reserved[o.id] = [side |-> o.side, price |-> o.price, remaining |-> o.lots],
      !.committed = l.committed + Signed(o.side, Notional(o.price, o.lots))]

\* Deviation: a partial cancellation forgets the rest of the reservation.
ReleasedAll(l, id, lots) ==
    IF id \notin Reserving(l) THEN l
    ELSE [l EXCEPT
           !.reserved[id] = NoReservation,
           !.committed = Wrapped(l.committed - Signed(l.reserved[id].side,
                                    Notional(l.reserved[id].price, l.reserved[id].remaining)))]

\* on_cancel, and the first half of on_fill: release up to `lots` lots of what
\* the order still reserves, at the price it was reserved at.
Released(l, id, lots) ==
    IF id \notin Reserving(l) THEN l
    ELSE LET r == l.reserved[id]
             n == IF lots <= r.remaining THEN lots ELSE r.remaining
         IN  [l EXCEPT
               !.reserved[id] = IF n = r.remaining THEN NoReservation
                                ELSE [r EXCEPT !.remaining = r.remaining - n],
               !.committed = Wrapped(l.committed - Signed(r.side, Notional(r.price, n)))]

\* Deviation: a fill releases its lots at the price it was executed at, the
\* drift that ADR 0005 is about.
BookedAtFillPrice(l, o) ==
    LET released == Released(l, o.id, o.lots)
    IN  IF o.id \in Reserving(l)
        THEN [released EXCEPT
               !.committed = Wrapped(l.committed - Signed(o.side, Notional(o.price, o.lots)))]
        ELSE released

\* on_fill: release what was reserved, then book the net position.
Booked(l, o) ==
    LET released == Released(l, o.id, o.lots)
    IN  IF o.symbol \in DOMAIN SymbolLimit
        THEN [released EXCEPT
               !.net[o.symbol] = released.net[o.symbol] + Signed(o.side, o.lots)]
        ELSE released

Killed(l) == [l EXCEPT !.killed = TRUE]
Reset(l) == [l EXCEPT !.killed = FALSE]
=============================================================================
