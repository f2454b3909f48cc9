----------------------------- MODULE MCBacktest -----------------------------
(***************************************************************************)
(* Backtest for TLC: bars of two time units, a classifier that is ready    *)
(* after five bars, a strategy that confirms a cross for one tick.         *)
(***************************************************************************)
EXTENDS Backtest

Kind(price, quantity, gap) == [price |-> price, quantity |-> quantity, gap |-> gap]
MCTickKinds == {Kind(1, 0, 1), Kind(2, 1, 2), Kind(1, 2, 2), Kind(4, 5, 3)}
MCLog == [p \in {1, 2, 4} |-> CASE p = 1 -> 0 [] p = 2 -> 1 [] p = 4 -> 2]

MCThreshold == [unknown |-> 1, trend |-> 1, range |-> 2, stress |-> 4, vol_expansion |-> 2]
MCSharpeFloor == <<1, 2>>
MCThreads == {Loop}
MCStrategies == {Strategy}
MCSymbols == {Symbol}

\* A horizon as long as two bars, which can end at the tick of a later trade.
Estimate(hours) ==
  [pWin |-> 1, avgWin |-> 6, avgLoss |-> -2, confidence |-> 1, notional |-> 1,
   costs |-> [fee |-> 0, makerFee |-> 0, halfSpread |-> 0, slippage |-> 0, impact |-> 0,
              funding |-> 0, hours |-> hours]]
MCEstimates == {Estimate(4)}
MCAnswers ==
  {[accepted |-> FALSE, fills |-> <<>>],
   [accepted |-> TRUE, fills |-> <<[price |-> 2, notional |-> 1], [price |-> 1, notional |-> 1]>>]}
MCCandidates == {}

MCStressZ == <<2, 1>>
MCExpansionZ == <<1, 1>>
MCRangeCeiling == <<2, 5>>
MCStressFloor == <<4, 5>>
=============================================================================
