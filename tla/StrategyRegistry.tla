-------------------------- MODULE StrategyRegistry --------------------------
(***************************************************************************)
(* The lifecycle governance of strategies (strategy_registry.cpp).  Every  *)
(* fill of an accepted signal waits for its horizon; the first tick of its *)
(* symbol after that scores it, and the scores move the strategy between   *)
(* its states.  One mutex covers each operation, so each is one action.    *)
(*                                                                         *)
(* The statistics are exact integers instead of doubles: scores are counted *)
(* in 1 / BpsScale of the entry price, the Page-Hinkley sums are PhScale    *)
(* times the code's, and a quotient with a square root is compared squared. *)
(***************************************************************************)
EXTENDS EvGate, FiniteSets, Windows

CONSTANTS Strategies, Symbols,
          Prices,          \* prices that ticks and fills can have
          MaxTime,         \* last timestamp (bound)
          BpsScale,        \* multiple of every price
          PhScale,         \* multiple of 1 .. the number of scores
          CusumDelta, CusumLambda,
          SharpeWindow, SharpeFloor,   \* floor ratio times baseline, as <<n, d>>
          DecayWindow, DecayMinSamples, DecayT,
          MaxDrawdown,                 \* 0 disables
          RecoveryClean, MaxQuarantines, Lookback

ASSUME RegistryAssumption ==
  /\ Prices \subseteq Nat \ {0} /\ BpsScale \in Nat
  /\ \A p \in Prices : BpsScale % p = 0
  /\ {SharpeWindow, DecayWindow, DecayMinSamples, DecayT, RecoveryClean,
      MaxQuarantines, PhScale} \subseteq Nat \ {0}
  /\ {CusumDelta, CusumLambda, MaxDrawdown, Lookback, MaxTime} \subseteq Nat
  /\ SharpeFloor[1] > 0 /\ SharpeFloor[2] > 0

VARIABLES block,    \* strategy -> its StrategyBlock
          pending,  \* evaluations in the order of their resolve time
          \* History, read by properties only.
          forced,   \* strategies whose state or baseline was set by hand
                    \* since their last score
          entries,  \* strategy -> when and how it entered quarantine
          tally     \* strategy -> <<fills recorded, fills scored at their symbol's price>>

registryVars == <<block, pending, forced, entries, tally>>

NoHinkley == [count |-> 0, sum |-> 0, m |-> 0, maxM |-> 0]
NewBlock == [state |-> "active", baseline |-> FALSE, ph |-> NoHinkley,
             realized |-> <<>>, diff |-> <<>>, pnl |-> 0, peak |-> 0,
             clean |-> 0, quarantines |-> <<>>]

\* Page-Hinkley for a downward shift: m falls when scores stay below their
\* running mean by more than delta, maxM remembers its peak.
Hinkley(ph, x) ==
  LET n == ph.count + 1
      s == ph.sum + x
      m == ph.m + PhScale * x - (PhScale \div n) * s + PhScale * CusumDelta
  IN  [count |-> n, sum |-> s, m |-> m, maxM |-> IF m > ph.maxM THEN m ELSE ph.maxM]

CusumAlarm(b) == b.ph.maxM - b.ph.m > PhScale * CusumLambda

\* Mean over standard deviation of the full window is under the floor; with
\* no deviation the sign of the mean decides.
SharpeAlarm(b) ==
  LET w == b.realized IN
  /\ b.baseline /\ Len(w) >= SharpeWindow
  /\ \/ Len(w) < 2
     \/ SumOf(w) < 0
     \/ /\ Spread(w) > 0
        /\ SumOf(w) * SumOf(w) * SharpeFloor[2] * SharpeFloor[2]
             < SharpeFloor[1] * SharpeFloor[1] * Spread(w)

\* The t statistic of realised minus predicted is under - DecayT.
DecayAlarm(b) ==
  LET w == b.diff IN
  /\ Len(w) >= DecayMinSamples /\ Len(w) >= 2
  /\ SumOf(w) < 0
  /\ SumOf(w) * SumOf(w) * (Len(w) - 1) > DecayT * DecayT * Spread(w)

DrawdownAlarm(b) == MaxDrawdown > 0 /\ b.peak - b.pnl > MaxDrawdown

\* Timestamps that left the lookback go from the front; one in the future of
\* now (or, for a manual quarantine, recorded as 0) is handled as it stands.
Recent(q, now) ==
  LET kept == {k \in DOMAIN q : now <= q[k] \/ now - q[k] <= Lookback}
  IN  IF kept = {} THEN <<>> ELSE SubSeq(q, Min(kept), Len(q))

Moved(b, to) == [b EXCEPT !.state = to, !.ph = NoHinkley, !.clean = 0]

\* Deviation: timestamps never leave the lookback.
TransitionForever(b, to, ts) ==
  IF b.state = to THEN b
  ELSE IF to # "quarantined" THEN Moved(b, to)
  ELSE LET q == Append(b.quarantines, ts)
           held == [Moved(b, to) EXCEPT !.quarantines = q]
       IN  IF Len(q) >= MaxQuarantines THEN Moved(held, "disabled") ELSE held

Transition(b, to, ts) ==
  IF b.state = to THEN b
  ELSE IF to # "quarantined" THEN Moved(b, to)
  ELSE LET q == Recent(Append(b.quarantines, ts), ts)
           held == [Moved(b, to) EXCEPT !.quarantines = q]
       IN  IF Len(q) >= MaxQuarantines THEN Moved(held, "disabled") ELSE held

Governed(b, ts) ==
  CASE b.state = "active" ->
         IF DrawdownAlarm(b) THEN Transition(b, "quarantined", ts)
         ELSE IF CusumAlarm(b) \/ SharpeAlarm(b) THEN Transition(b, "under_observation", ts)
         ELSE b
    [] b.state = "under_observation" ->
         IF DrawdownAlarm(b) \/ DecayAlarm(b) THEN Transition(b, "quarantined", ts)
         ELSE IF CusumAlarm(b) \/ SharpeAlarm(b) THEN [b EXCEPT !.clean = 0]
         ELSE IF b.clean + 1 >= RecoveryClean THEN Transition(b, "active", ts)
         ELSE [b EXCEPT !.clean = @ + 1]
    [] OTHER -> b

Realized(p, price) ==
  (IF p.side = "buy" THEN 1 ELSE -1) * (((price - p.entry) * BpsScale) \div p.entry)

\* The score of one evaluation, and the governance that follows it.
Resolved(b, p, price, ts) ==
  LET x == Realized(p, price)
      pnl == b.pnl + p.notional * x
  IN  Governed([b EXCEPT !.ph = Hinkley(@, x),
                         !.realized = PushedBounded(@, x, SharpeWindow),
                         !.diff = PushedBounded(@, x - p.predicted, DecayWindow),
                         !.pnl = pnl,
                         !.peak = IF pnl > @ THEN pnl ELSE @], ts)

\* Inserted behind every evaluation that is due no later.
Opened(q, p) == InsertAt(q, 1 + Cardinality({i \in DOMAIN q : q[i].due <= p.due}), p)

\* record_signal_open, for one fill of a signal.
RecordSignalOpen(p) ==
  /\ pending' = Opened(pending, p)
  /\ tally' = [tally EXCEPT ![p.strategy][1] = @ + 1]

\* Deviation: another symbol's evaluation that is due goes too.
IsResolvedAny(symbol, ts, i) == pending[i].due <= ts

\* Deviation: what is due at the very time of the tick waits for a later one.
IsResolvedLate(symbol, ts, i) == pending[i].due < ts /\ pending[i].symbol = symbol

IsResolved(symbol, ts, i) == pending[i].due <= ts /\ pending[i].symbol = symbol

\* The walk over the queue comes to place i: the evaluation is scored and taken out
\* if its place is in due, or stays; w has the blocks, what stays, and the scores
\* that were made at a price of the evaluation's symbol (history).
Visited(w, i, due, symbol, price, ts) ==
  LET p == pending[i] IN
  IF i \in due
  THEN [block |-> [w.block EXCEPT ![p.strategy] = Resolved(@, p, price, ts)], kept |-> w.kept,
        scores |-> [w.scores EXCEPT ![p.strategy] = @ + IF p.symbol = symbol THEN 1 ELSE 0]]
  ELSE [block |-> w.block, scores |-> w.scores,
        kept |-> Append(w.kept, [p EXCEPT !.missed = @ \/ (p.symbol = symbol /\ p.due <= ts)])]

Walked(due, symbol, price, ts) ==
  LET w[n \in 0 .. Len(pending)] ==
        IF n = 0 THEN [block |-> block, kept |-> <<>>, scores |-> [s \in Strategies |-> 0]]
        ELSE Visited(w[n - 1], n, due, symbol, price, ts)
  IN  w[Len(pending)]

\* Score the evaluations at the places in due, in the order of the queue.
Resolve(symbol, due, price, ts) ==
  \E w \in {Walked(due, symbol, price, ts)} :
    /\ block' = w.block
    /\ pending' = w.kept
    /\ forced' = forced \ {pending[i].strategy : i \in due}
    /\ entries' = [s \in Strategies |->
         IF block[s].state \notin Blocking /\ w.block[s].state \in Blocking
         THEN Append(entries[s], [at |-> ts, manual |-> FALSE]) ELSE entries[s]]
    /\ tally' = [s \in Strategies |-> <<tally[s][1], tally[s][2] + w.scores[s]>>]

\* on_market_tick: scores what is due for this symbol.
OnMarketTick(symbol, price, ts) ==
  Resolve(symbol, {i \in 1 .. Len(pending) : IsResolved(symbol, ts, i)}, price, ts)

\* flush_pending: scores everything of this symbol, at the end of a backtest.
FlushPending(symbol, price, ts) ==
  Resolve(symbol, {i \in 1 .. Len(pending) : pending[i].symbol = symbol}, price, ts)

\* force_state, by an operator: recorded at time 0.
ForceState(s, to) ==
  /\ block' = [block EXCEPT ![s] = Transition(@, to, 0)]
  /\ forced' = forced \cup {s}
  /\ entries' = [entries EXCEPT ![s] =
       IF to = "quarantined" /\ block[s].state # to
       THEN Append(@, [at |-> 0, manual |-> TRUE]) ELSE @]
  /\ UNCHANGED <<pending, tally>>

\* register_strategy with a baseline.
RegisterStrategy(s) ==
  /\ block' = [block EXCEPT ![s].baseline = TRUE]
  /\ forced' = forced \cup {s}
  /\ UNCHANGED <<pending, entries, tally>>

RegistryInit ==
  /\ block = [s \in Strategies |-> NewBlock]
  /\ pending = <<>>
  /\ forced = {}
  /\ entries = [s \in Strategies |-> <<>>]
  /\ tally = [s \in Strategies |-> <<0, 0>>]

-----------------------------------------------------------------------------
\* The number of evaluations of strategy s that wait.
Waiting(s) == Cardinality({i \in DOMAIN pending : pending[i].strategy = s})

(* Every fill recorded for a strategy waits or has been scored once, at a     *)
(* price of its own symbol, though a tick takes evaluations out of the middle *)
(* of the queue while it walks over those of other symbols (on_market_tick,   *)
(* flush_pending).                                                            *)
ScoredOnce == \A s \in Strategies : tally[s][1] = tally[s][2] + Waiting(s)

(* No tick of its symbol leaves an evaluation waiting that was due at it:    *)
(* missed, a history, is set on one that a tick passed by (on_market_tick).  *)
NoneMissed == \A i \in 1 .. Len(pending) : ~ pending[i].missed

(* An active strategy is a healthy one: unless an operator acted since its   *)
(* last score, neither its drawdown nor the Sharpe ratio of its window nor   *)
(* the Page-Hinkley detector gives an alarm.  Recovery must be earned by the *)
(* window healing (apply_governance_locked, transition_locked).              *)
ActiveIsHealthy ==
  \A s \in Strategies :
    block[s].state = "active" /\ s \notin forced =>
      ~ DrawdownAlarm(block[s]) /\ ~ SharpeAlarm(block[s]) /\ ~ CusumAlarm(block[s])

\* An operator acted on strategy s, or its scores kept it blocked.
ReleasedByHand(s) ==
  block[s].state \in Blocking /\ block'[s].state \notin Blocking => s \in forced'

\* The quarantines that a strategy's scores disable it for are as many as the
\* configuration asks for, each within the lookback or ordered by an operator.
DisabledIsDeserved(s) ==
  block[s].state # "disabled" /\ block'[s].state = "disabled" /\ s \notin forced' =>
    LET e == entries'[s]
        last == e[Len(e)].at
    IN  Cardinality({k \in 1 .. Len(e) : e[k].manual \/ last - e[k].at <= Lookback})
          >= MaxQuarantines

(* A strategy's life is what its scores deserve: they never release a blocked *)
(* strategy, only force_state does, and they disable one for a row of         *)
(* quarantines only, although timestamps may repeat and an override is        *)
(* recorded as of time zero (transition_locked, force_state).                 *)
LifecycleIsDeserved ==
  [][\A s \in Strategies : ReleasedByHand(s) /\ DisabledIsDeserved(s)]_registryVars
=============================================================================
