---------------------------- MODULE SignalEngine ----------------------------
(***************************************************************************)
(* SignalEngine::process (signal_engine.cpp) run by several threads at     *)
(* once, beside market ticks and an operator's overrides.  A candidate     *)
(* reads the state of its strategy, passes the gate, submits an order, and *)
(* records each fill for later scoring: the registry's mutex is taken anew *)
(* for each of these steps.  What the order manager answers is any result  *)
(* its interface allows.                                                   *)
(***************************************************************************)
EXTENDS StrategyRegistry

CONSTANTS Threads,
          Candidates,     \* SignalCandidate: strategy, symbol, side, inputs, regime
          Answers,        \* submissions: accepted and the fills, [price, notional]
          FirstTime,      \* of the feed
          MaxCandidates, MaxOverrides, MaxTicks   \* bounds

Sides == {"buy", "sell"}
Fills == [price : Prices, notional : Int]

ASSUME EngineAssumption ==
  /\ IsFiniteSet(Threads) /\ {FirstTime, MaxCandidates, MaxOverrides, MaxTicks} \subseteq Nat
  /\ \A c \in Candidates : /\ c.strategy \in Strategies /\ c.symbol \in Symbols
                            /\ c.side \in Sides /\ c.inputs \in EvInputs
  /\ \A a \in Answers : a.accepted \in BOOLEAN /\ a.fills \in Seq(Fills)

VARIABLES thread,    \* thread -> where its call of process is
          now,       \* the clock of the feed
          stats,     \* SignalEngineStats
          budget,    \* candidates, overrides and ticks so far (bound)
          passed     \* history: strategy -> threads past the gate at its blocking

engineVars == <<thread, now, stats, budget, passed>>
signalVars == <<registryVars, engineVars>>

InNoCall == [pc |-> "idle"]
PastGate(s) == {t \in Threads : thread[t].pc = "submit" /\ thread[t].cand.strategy = s}
\* The threads past the gate are noted whenever a strategy becomes blocked.
NotePassed ==
  passed' = [s \in Strategies |->
    IF block'[s].state \notin Blocking THEN {}
    ELSE IF block[s].state \notin Blocking THEN PastGate(s) ELSE passed[s]]

\* process: the candidate gets its signal id and its timestamp.
Process(t, c) ==
  /\ thread[t] = InNoCall /\ budget.candidates < MaxCandidates
  /\ thread' = [thread EXCEPT ![t] = [pc |-> "gate", cand |-> c, at |-> now]]
  /\ budget' = [budget EXCEPT !.candidates = @ + 1]
  /\ UNCHANGED <<registryVars, now, stats, passed>>

Begin(t) == \E c \in Candidates : Process(t, c)

\* strategy_state and EVGate::evaluate.
Gate(t) ==
  /\ thread[t].pc = "gate"
  /\ LET c == thread[t].cand
         reason == Verdict(c.inputs, c.regime, block[c.strategy].state)
     IN  thread' = [thread EXCEPT ![t] =
           [pc |-> IF reason = "none" THEN "submit" ELSE "count", cand |-> c, at |-> @.at,
            reason |-> reason, accepted |-> FALSE, fills |-> <<>>]]
  /\ UNCHANGED <<registryVars, now, stats, budget, passed>>

\* OrderManager::submit_order.
Submit(t) ==
  /\ thread[t].pc = "submit"
  /\ \E a \in Answers :
       thread' = [thread EXCEPT ![t] = [@ EXCEPT !.accepted = a.accepted, !.fills = a.fills,
                                                 !.pc = IF a.fills # <<>> THEN "record" ELSE "count"]]
  /\ UNCHANGED <<registryVars, now, stats, budget, passed>>

\* One fill is recorded, due when the horizon of the candidate has passed.
Record(t) ==
  LET c == thread[t].cand
      f == Head(thread[t].fills)
      left == Tail(thread[t].fills)
  IN  /\ thread[t].pc = "record"
      /\ RecordSignalOpen([strategy |-> c.strategy, symbol |-> c.symbol, side |-> c.side,
                           entry |-> f.price, notional |-> f.notional,
                           predicted |-> NetEv(c.inputs) \div Unit,
                           due |-> thread[t].at + c.inputs.costs.hours, missed |-> FALSE])
      /\ thread' = [thread EXCEPT ![t] =
           [@ EXCEPT !.fills = left, !.pc = IF left = <<>> THEN "count" ELSE "record"]]
      /\ UNCHANGED <<block, forced, entries, now, stats, budget, passed>>

\* The statistics, under the mutex of the engine.
Count(t) ==
  /\ thread[t].pc = "count"
  /\ LET one(c) == IF c THEN 1 ELSE 0
         through == thread[t].reason = "none"
     IN  stats' = [candidates |-> stats.candidates + 1,
                   gateAccepted |-> stats.gateAccepted + one(through),
                   submitted |-> stats.submitted + one(through),
                   accepted |-> stats.accepted + one(thread[t].accepted),
                   rejects |-> stats.rejects + one(~ through)]
  /\ thread' = [thread EXCEPT ![t] = InNoCall]
  /\ UNCHANGED <<registryVars, now, budget, passed>>

Tick ==
  /\ budget.ticks < MaxTicks
  /\ now' \in {now, now + 1} \cap (0 .. MaxTime)
  /\ \E s \in Symbols, p \in Prices : OnMarketTick(s, p, now')
  /\ budget' = [budget EXCEPT !.ticks = @ + 1]
  /\ NotePassed /\ UNCHANGED <<thread, stats>>

\* The end of a backtest, whose single thread is not in process then.
Flush ==
  /\ \A t \in Threads : thread[t] = InNoCall
  /\ budget.candidates = MaxCandidates
  /\ \E s \in Symbols, p \in Prices : FlushPending(s, p, now)
  /\ pending # <<>>
  /\ NotePassed /\ UNCHANGED <<thread, now, stats, budget>>

\* set_strategy_state.
Override ==
  /\ budget.overrides < MaxOverrides
  /\ budget' = [budget EXCEPT !.overrides = @ + 1]
  /\ \E s \in Strategies, to \in States : ForceState(s, to)
  /\ NotePassed /\ UNCHANGED <<thread, now, stats>>

\* register_strategy, before or after the strategy's first signals.
Register ==
  /\ \E s \in Strategies : ~ block[s].baseline /\ RegisterStrategy(s)
  /\ UNCHANGED engineVars

EngineInit ==
  /\ RegistryInit
  /\ thread = [t \in Threads |-> InNoCall]
  /\ now = FirstTime
  /\ stats = [candidates |-> 0, gateAccepted |-> 0, submitted |-> 0, accepted |-> 0, rejects |-> 0]
  /\ budget = [candidates |-> 0, overrides |-> 0, ticks |-> 0]
  /\ passed = [s \in Strategies |-> {}]

EngineNext ==
  \/ \E t \in Threads : Begin(t) \/ Gate(t) \/ Submit(t) \/ Record(t) \/ Count(t)
  \/ Tick \/ Flush \/ Override \/ Register

EngineSpec == EngineInit /\ [][EngineNext]_signalVars
-----------------------------------------------------------------------------
(* The values of the registry and of the engine are of the types that the    *)
(* code gives them, the windows within their configured lengths.             *)
EngineTypeOK ==
  /\ \A s \in Strategies :
       /\ block[s].state \in States /\ block[s].baseline \in BOOLEAN
       /\ Len(block[s].realized) <= SharpeWindow /\ Len(block[s].diff) <= DecayWindow
       /\ block[s].clean \in 0 .. RecoveryClean - 1
       /\ block[s].pnl <= block[s].peak
  /\ \A i \in 1 .. Len(pending) - 1 : pending[i].due <= pending[i + 1].due
  /\ \A t \in Threads : thread[t].pc \in {"idle", "gate", "submit", "record", "count"}
  /\ stats \in [{"candidates", "gateAccepted", "submitted", "accepted", "rejects"} -> 0 .. MaxCandidates]

(* Once a strategy is blocked no further candidate of it passes the gate: the *)
(* orders it can still send are those of the threads that had read its state  *)
(* before (process reads the state once and submits without a lock).          *)
BlockedSendsNoMore ==
  \A s \in Strategies : block[s].state \in Blocking => PastGate(s) \subseteq passed[s]

(* A candidate that is better in every input, likelier to win and cheaper, is *)
(* accepted wherever a worse one was (EVGate::evaluate).                      *)
BetterIsAccepted ==
  \A t \in Threads : thread[t].pc = "submit" =>
    \A p \in thread[t].cand.inputs.pWin .. Unit, fee \in 0 .. thread[t].cand.inputs.costs.fee :
      Verdict([thread[t].cand.inputs EXCEPT !.pWin = p, !.costs.fee = fee],
              thread[t].cand.regime, "active") = "none"

(* Every candidate that is not in process is counted once, as accepted or as  *)
(* rejected by the gate, and every order accepted among those submitted.      *)
SignalsAccounted ==
  /\ stats.candidates + Cardinality({t \in Threads : thread[t] # InNoCall}) = budget.candidates
  /\ stats.candidates = stats.gateAccepted + stats.rejects
  /\ stats.accepted <= stats.submitted /\ stats.submitted = stats.gateAccepted

(* Every candidate is counted once and every fill of its order is scored once, *)
(* at the first tick of its symbol at which it is due.                         *)
EachCountedOnce == EngineTypeOK /\ SignalsAccounted /\ ScoredOnce /\ NoneMissed

(* Only healthy strategies trade: an active one has no alarm, a blocked one    *)
(* sends nothing new, and the gate prefers better candidates.                  *)
OnlyHealthyTrade == ActiveIsHealthy /\ BlockedSendsNoMore /\ BetterIsAccepted
=============================================================================
