--------------------------- MODULE JournalReplay ---------------------------
(***************************************************************************)
(* persist::EventReplayer: the state of the orders as replay_file rebuilds *)
(* it from the lines of a journal.  It is a fold of Applied over the       *)
(* lines; module OrderReplay feeds it with the events of the order         *)
(* manager.                                                                *)
(*                                                                         *)
(* The counters of each kind of line are left out, and so are gateway      *)
(* rejections, which are only counted.  Filled exposure and net position   *)
(* are left out because they are zero: a trade is added for the taker and  *)
(* taken off for the maker.                                                *)
(***************************************************************************)
EXTENDS FixedPoint, FiniteSets, FiniteSetsExt

CONSTANTS
    OrderIds,  \* the order identifiers of the lines
    NoState    \* an identifier that is not active, or not in the history

\* active_orders, order_history, and the fills seen of each order.
EmptyReplay ==
    [active  |-> [id \in OrderIds |-> NoState],
     history |-> [id \in OrderIds |-> NoState],
     seen    |-> [id \in OrderIds |-> 0]]

ReplayState(side, price, initial, remaining, filled, status) ==
    [side |-> side, price |-> price, initial |-> initial, remaining |-> remaining,
     filled |-> filled, status |-> status]

Least(x, y) == IF x <= y THEN x ELSE y
Most(x, y) == IF x >= y THEN x ELSE y

WorkingStatus(filled) == IF filled > 0 THEN "PARTIALLY_FILLED" ELSE "RESTING"

\* The state goes into the history, and into the active orders or out of them.
Put(r, id, s, working) ==
    [r EXCEPT !.active[id] = IF working THEN s ELSE NoState, !.history[id] = s]

\* apply_fill, which remembers fills also of orders that are not active: those
\* of a taker come before its acceptance.
FillApplied(r, id, n) ==
    LET counted == [r EXCEPT !.seen[id] = @ + n]
        s == r.active[id]
        left == s.remaining - Least(n, s.remaining)
    IN  IF s = NoState THEN counted
        ELSE Put(counted, id,
                 [s EXCEPT !.filled = @ + Least(n, s.remaining), !.remaining = left,
                           !.status = IF left = 0 THEN "FILLED" ELSE "PARTIALLY_FILLED"],
                 left > 0)

Accepted(r, e) ==
    LET filled == Least(e.lots, r.seen[e.id])
        working == e.resting /\ e.remaining > 0
    IN  Put(r, e.id,
            ReplayState(e.side, e.price, e.lots, IF working THEN e.remaining ELSE 0, filled,
                        IF working THEN WorkingStatus(filled)
                        ELSE IF filled = e.lots THEN "FILLED"
                        ELSE IF filled > 0 THEN "PARTIALLY_FILLED" ELSE "CANCELED"),
            working)

\* Also the rejection of a duplicate, whose identifier another order has.
Rejected(r, e) ==
    Put(r, e.id, ReplayState(e.side, e.price, e.lots, e.remaining, 0, "REJECTED"), FALSE)

\* Deviation: the fill is applied to the taker only.
TradedOnce(r, e) == FillApplied(r, e.id, e.lots)

Traded(r, e) == FillApplied(FillApplied(r, e.id, e.lots), e.related, e.lots)

CanceledLine(r, e) ==
    Put(r, e.id,
        IF r.history[e.id] # NoState
        THEN [r.history[e.id] EXCEPT !.remaining = 0, !.status = "CANCELED"]
        ELSE ReplayState(e.side, e.price, 0, 0, 0, "CANCELED"), FALSE)

\* A cut, or a modification.  The fills seen before a modification count again
\* for what replaces the order.
Replaced(r, e) ==
    LET filled == Least(e.lots, Most(r.seen[e.id], e.lots - e.remaining))
    IN  Put(r, e.id,
            ReplayState(e.side, e.price, e.lots, e.remaining, filled,
                        IF e.remaining = 0 /\ filled = 0 THEN "CANCELED"
                        ELSE WorkingStatus(filled)),
            e.remaining > 0)

\* One line.
Applied(r, e) ==
    CASE e.type = "ACCEPTED" -> Accepted(r, e)
      [] e.type = "REJECTED" -> Rejected(r, e)
      [] e.type = "TRADE"    -> Traded(r, e)
      [] e.type = "CANCELED" -> CanceledLine(r, e)
      [] e.type = "REPLACED" -> Replaced(r, e)

\* committed_exposure_units, a sum in a 64-bit counter.
CommittedExposure(r) ==
    Wrapped(MapThenSumSet(LAMBDA id : LET s == r.active[id]
                                      IN  Signed(s.side, Notional(s.price, s.remaining)),
                          {id \in OrderIds : r.active[id] # NoState}))
=============================================================================
