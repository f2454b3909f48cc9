--------------------------- MODULE MCSignalEngine ---------------------------
(***************************************************************************)
(* SignalEngine for TLC: one strategy on two symbols, two threads.         *)
(***************************************************************************)
EXTENDS SignalEngine

CONSTANTS t1, t2, sma, btc, eth

MCThreads == {t1, t2}
MCStrategies == {sma}
MCSymbols == {btc, eth}
MCThreshold == [trend |-> 1, range |-> 2]
MCSharpeFloor == <<1, 2>>

Costs(fee, hours) ==
  [fee |-> fee, makerFee |-> 0, halfSpread |-> 0, slippage |-> 0, impact |-> 0,
   funding |-> 0, hours |-> hours]
Good(hours) == [pWin |-> 1, avgWin |-> 10, avgLoss |-> -2, confidence |-> 1,
                notional |-> 1, costs |-> Costs(1, hours)]

\* A long with a horizon, a short without, and a short whose average loss has
\* the wrong sign.
MCCandidates ==
  {[strategy |-> sma, symbol |-> btc, side |-> "buy", regime |-> "trend", inputs |-> Good(1)],
   [strategy |-> sma, symbol |-> eth, side |-> "sell", regime |-> "trend", inputs |-> Good(0)],
   [strategy |-> sma, symbol |-> eth, side |-> "sell", regime |-> "trend",
    inputs |-> [Good(0) EXCEPT !.avgLoss = 8, !.avgWin = 0]]}

MCAnswers ==
  {[accepted |-> FALSE, fills |-> <<>>],
   [accepted |-> TRUE, fills |-> <<[price |-> 2, notional |-> 1]>>],
   [accepted |-> TRUE, fills |-> <<[price |-> 2, notional |-> 1], [price |-> 1, notional |-> 2]>>]}

Symmetric == Permutations(MCThreads)
=============================================================================
