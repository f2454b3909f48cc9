-------------------------- MODULE RegimeClassifier --------------------------
(***************************************************************************)
(* The label of the market's regime after each closed bar                  *)
(* (regime_classifier.cpp, regime_features.hpp).  Statistics are exact     *)
(* integers where the code compares them: a standard deviation squared, a  *)
(* percentile by its ranks, Wilder's sums DmiScale times the code's, the   *)
(* ADX in percent, rounded down.  The confidence of a label is left out,   *)
(* since no decision reads it.                                             *)
(***************************************************************************)
EXTENDS Windows

CONSTANTS Log,             \* price -> its logarithm, in a common unit
          Warmup, VolWindow, PercentileWindow, MinSamples, DmiPeriod,
          DmiScale,        \* multiple of the powers of DmiPeriod that bars can need
          AdxTrend,        \* percent
          StressZ, ExpansionZ, RangeCeiling, StressFloor   \* rationals <<n, d>>

ASSUME ClassifierAssumption ==
  /\ {VolWindow, PercentileWindow, DmiPeriod, DmiScale} \subseteq Nat \ {0}
  /\ {Warmup, MinSamples, AdxTrend} \subseteq Nat /\ MinSamples <= PercentileWindow
  /\ \A r \in {StressZ, ExpansionZ, RangeCeiling, StressFloor} : r[1] > 0 /\ r[2] > 0

-----------------------------------------------------------------------------
\* Wilder's directional movement: sums of upward and downward movements and of
\* true ranges over count bars, and the average of the directional indices.
NewDmi == [prev |-> <<>>, count |-> 0, plus |-> 0, minus |-> 0, range |-> 0,
           indices |-> 0, total |-> 0, adx |-> 0]

AtrReady(d) == d.count >= DmiPeriod
AdxReady(d) == d.indices >= DmiPeriod

Larger(a, b) == IF a > b THEN a ELSE b
Distance(a, b) == IF a > b THEN a - b ELSE b - a
TrueRange(p, bar) ==
  Larger(bar.high - bar.low, Larger(Distance(bar.high, p.close), Distance(bar.low, p.close)))

\* Full sums lose their share of one bar for each bar they gain.
Smoothed(d, sum, x) == sum + DmiScale * x - (IF AtrReady(d) THEN sum \div DmiPeriod ELSE 0)

Summed(d, bar) ==
  LET up == bar.high - d.prev.high
      down == d.prev.low - bar.low
  IN  [d EXCEPT !.plus = Smoothed(d, @, IF up > down /\ up > 0 THEN up ELSE 0),
                !.minus = Smoothed(d, @, IF down > up /\ down > 0 THEN down ELSE 0),
                !.range = Smoothed(d, @, TrueRange(d.prev, bar)),
                !.count = IF AtrReady(d) THEN @ ELSE @ + 1]

Indexed(d) ==
  LET both == d.plus + d.minus
      dx == IF both > 0 THEN (100 * Distance(d.plus, d.minus)) \div both ELSE 0
      total == d.total + dx
  IN  IF AdxReady(d) THEN [d EXCEPT !.adx = (@ * (DmiPeriod - 1) + dx) \div DmiPeriod]
      ELSE [d EXCEPT !.indices = @ + 1, !.total = total,
                     !.adx = IF d.indices + 1 >= DmiPeriod THEN total \div DmiPeriod ELSE 0]

DmiAfter(d, bar) ==
  LET summed == IF d.prev = <<>> THEN d ELSE Summed(d, bar)
      after == IF AtrReady(summed) THEN Indexed(summed) ELSE summed
  IN  [after EXCEPT !.prev = [high |-> bar.high, low |-> bar.low, close |-> bar.close]]

-----------------------------------------------------------------------------
\* v is at least z standard deviations above the mean of a full window.
Exceeds(w, v, z) ==
  LET above == Len(w) * v - SumOf(w) IN
  /\ Len(w) >= VolWindow /\ Spread(w) > 0 /\ above > 0
  /\ above * above * z[2] * z[2] >= z[1] * z[1] * Spread(w)

\* Twice the rank of x in the window, ties in the middle.
MidRank(w, x) ==
  2 * Len(SelectSeq(w, LAMBDA v : v < x)) + Len(SelectSeq(w, LAMBDA v : v = x))

NewClassifier == [seen |-> 0, last |-> 0, volumes |-> <<>>, returns |-> <<>>, vols |-> <<>>,
                  atrs |-> <<>>, dmi |-> NewDmi, label |-> "unknown"]

FeaturesReady(c) ==
  /\ c.seen >= Warmup /\ AdxReady(c.dmi)
  /\ Len(c.returns) >= VolWindow /\ Len(c.volumes) >= VolWindow
  /\ Len(c.atrs) >= MinSamples /\ Len(c.vols) >= MinSamples

\* The first rule that holds gives the label; volumes is the window before the bar.
Label(c, volumes, v) ==
  LET volatile == MidRank(c.vols, Spread(c.returns)) * StressFloor[2] >= StressFloor[1] * 2 * Len(c.vols)
      quiet == MidRank(c.atrs, c.dmi.range) * RangeCeiling[2] <= RangeCeiling[1] * 2 * Len(c.atrs)
  IN  IF ~ FeaturesReady(c) THEN "unknown"
      ELSE IF Exceeds(volumes, v, StressZ) /\ volatile THEN "stress"
      ELSE IF Exceeds(volumes, v, ExpansionZ) THEN "vol_expansion"
      ELSE IF c.dmi.adx >= AdxTrend THEN "trend"
      ELSE IF quiet THEN "range" ELSE "unknown"

\* The classifier after the volume and the prices of a bar, its label aside.
Measured(c, bar) ==
  LET returns == IF c.last = 0 THEN c.returns
                 ELSE PushedBounded(c.returns, Log[bar.close] - Log[c.last], VolWindow)
      dmi == DmiAfter(c.dmi, bar)
  IN  [c EXCEPT !.seen = @ + 1, !.last = bar.close, !.returns = returns, !.dmi = dmi,
                !.volumes = PushedBounded(@, bar.volume, VolWindow),
                !.vols = IF c.last # 0 /\ Len(returns) >= VolWindow
                         THEN PushedBounded(@, Spread(returns), PercentileWindow) ELSE @,
                !.atrs = IF AtrReady(dmi) THEN PushedBounded(@, dmi.range, PercentileWindow) ELSE @]

\* The bar's volume is measured against the window of the bars before it.
OnBar(c, bar) ==
  LET m == Measured(c, bar) IN [m EXCEPT !.label = Label(m, c.volumes, bar.volume)]
=============================================================================
