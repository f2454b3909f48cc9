---------------------------- MODULE OrderReplay ----------------------------
(***************************************************************************)
(* The order manager and the journal that audits it: every event becomes a *)
(* line, and `replay` is what replay_file makes of the lines, once they    *)
(* are flushed.  That the file has them all and in order is the business   *)
(* of module EventJournal: the mutex of the order manager makes it one     *)
(* producer, and here the ring never is full.                              *)
(***************************************************************************)
EXTENDS OrderManager

VARIABLES
    replay  \* the state rebuilt from the lines written so far

replayVars == <<vars, replay>>

\* What replay makes of an order; fills of former orders with its identifier count.
ReplayStates ==
    [side : Book!Sides, price : Prices, initial : Book!Lots, remaining : 0 .. MaxLots,
     filled : Nat,
     status : {"RESTING", "PARTIALLY_FILLED", "FILLED", "CANCELED", "REJECTED"}]

Events ==
    [type : {"ACCEPTED", "REJECTED", "TRADE", "CANCELED", "REPLACED"},
     id : OrderIds, related : OrderIds, side : Book!Sides, price : Prices,
     lots : Book!Lots, remaining : 0 .. MaxLots, resting : BOOLEAN]

\* The absent values are no such states and events.
ASSUME ReplayAssumption == NoState \notin ReplayStates /\ NoEvent \notin Events

Replay == INSTANCE JournalReplay

\* emit_event_unlocked: the line of what the step appends.
Journaled ==
    replay' = IF event' = NoEvent THEN replay ELSE Replay!Applied(replay, event')

ReplayInit ==
    /\ Init
    /\ replay = Replay!EmptyReplay

ReplayNext == Next /\ Journaled

ReplaySpec ==
    /\ ReplayInit /\ [][ReplayNext]_replayVars
    /\ WF_replayVars(CallStep /\ Journaled)

-----------------------------------------------------------------------------
(* Properties                                                              *)

\* The manager still has the order, replay saw the rejection of a duplicate of
\* it and took it for the rejection of the order.
Struck(id) ==
    /\ active[id] # NoState
    /\ replay.history[id] # NoState /\ replay.history[id].status = "REJECTED"

\* Between calls replay finds the orders that are active in the order manager,
\* with the same side, price and quantities, except those struck by the
\* rejection of a duplicate; and it finds no others.  Trades come before the
\* acceptance of their taker, cuts and modifications have the same kind of line.
ReplayFindsActive ==
    call = Idle => \A id \in OwnIds :
      LET r == replay.active[id] s == active[id]
      IN  IF s = NoState \/ Struck(id) THEN r = NoState
          ELSE /\ r # NoState
               /\ <<r.side, r.price, r.initial, r.remaining>> =
                    <<s.side, s.price, s.initial, s.remaining>>

\* The committed exposure that replay reports is what the risk manager has
\* committed, unless an order is struck, or rests unreserved after a refused
\* modification.
ReplayFindsExposure ==
    call = Idle /\ (\A id \in ActiveIds : ~Struck(id) /\ ~approved[id].bare) =>
      Replay!CommittedExposure(replay) = ledger.committed

\* What replay calls filled is never less than what the order manager does, and
\* the same unless fills from before a modification, or of an earlier order
\* with the identifier, are counted again (which can make it more than the
\* order's quantity).
ReplayFindsFills ==
    call = Idle => \A id \in ActiveIds : Struck(id) \/
      /\ replay.history[id].filled >= active[id].filled
      /\ replay.seen[id] <= active[id].filled =>
           replay.history[id].filled = active[id].filled

\* An order that is done ends for replay as it ended for the order manager,
\* with the two exceptions above.
ReplayFindsOutcome ==
    call = Idle => \A id \in OwnIds :
      LET r == replay.history[id] s == history.states[id]
      IN  s # NoState /\ active[id] = NoState =>
            \/ r.status = "REJECTED"
            \/ replay.seen[id] > s.filled
            \/ r.status = s.status

\* replay_file rebuilds from the journal's lines what the order manager holds:
\* the orders, their fills and ends, and the exposure, but for what the parts
\* of this property name as exceptions.
ReplayAgrees ==
    ReplayFindsActive /\ ReplayFindsExposure /\ ReplayFindsFills /\ ReplayFindsOutcome
=============================================================================
