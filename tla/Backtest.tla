------------------------------ MODULE Backtest ------------------------------
(***************************************************************************)
(* BacktestEngine::run_strategy (backtest_engine.cpp): one thread takes    *)
(* the ticks of a history in order; each scores the evaluations that are   *)
(* due, closes a bar or not, and may make the strategy propose a trade,    *)
(* which goes through SignalEngine.process under the regime of the last    *)
(* closed bar.  The history is chosen tick by tick.  The order manager and *)
(* the seeded counterparty are the Answers of SignalEngine; the mark to    *)
(* market is in module RiskManager, the seeding in module OrderManager.    *)
(***************************************************************************)
EXTENDS SignalEngine, BarAggregator, RegimeClassifier, SmaCrossover

CONSTANTS Loop, Strategy, Symbol,   \* the thread, its strategy and its symbol
          TickKinds,                \* ticks: price, quantity, and the time since the last one
          Estimates,                \* inputs for the gate that the strategy attaches
          MaxResolved,              \* max_resolved_history
          MaxHistory                \* bound: ticks of a history

ASSUME BacktestAssumption == {MaxResolved, MaxHistory} \subseteq Nat

VARIABLES feed,        \* the ticks so far
          bar,         \* the open bar
          classifier,  \* RegimeClassifier
          sma,         \* SmaCrossoverStrategy
          resolved,    \* the strategy's scores that are kept: their number and when they were due
          loop,        \* where the loop is
          report,      \* bars of each regime, and evaluations at the end
          closed,      \* history: the closed bars
          fired        \* history: the places of the ticks at which the strategy proposed a trade

backtestVars == <<feed, bar, classifier, sma, resolved, loop, report, closed, fired>>

LastTick == feed[Len(feed)]

\* The components are made and the strategy is registered, with or without a
\* baseline.
StartRun ==
  /\ loop = "start"
  /\ RegisterStrategy(Strategy) \/ UNCHANGED registryVars
  /\ loop' = "tick"
  /\ UNCHANGED <<engineVars, feed, bar, classifier, sma, resolved, report, closed, fired>>

\* Deviation: a full history keeps what it has.
EvictedLast(history) ==
  IF Len(history) > MaxResolved THEN SubSeq(history, 1, MaxResolved) ELSE history

\* Each score is put behind the others, and the first one of too many goes.
Evicted(history) ==
  IF Len(history) > MaxResolved
  THEN SubSeq(history, Len(history) - MaxResolved + 1, Len(history)) ELSE history

\* The evaluations of a list are scored, and their scores kept.
Scored(list) ==
  LET before == tally[Strategy][2]
  IN  Evicted(resolved \o [i \in DOMAIN list |-> [number |-> before + i, due |-> list[i].due]])

\* A tick scores what is due before anything is decided on it.
NextTick ==
  /\ loop = "tick" /\ thread[Loop] = InNoCall /\ Len(feed) < MaxHistory
  /\ \E k \in TickKinds :
       /\ feed' = Append(feed, [ts |-> now + k.gap, price |-> k.price, quantity |-> k.quantity])
       /\ now' = now + k.gap
       /\ OnMarketTick(Symbol, k.price, now')
  /\ resolved' = Scored(SelectSeq(pending, LAMBDA p : p.due <= now'))
  /\ loop' = "bar"
  /\ UNCHANGED <<thread, stats, budget, passed, bar, classifier, sma, report, closed, fired>>

\* A closed bar is classified and counted.
CloseBar ==
  /\ loop = "bar"
  /\ bar' = BarAfter(bar, LastTick)
  /\ IF Closes(bar, LastTick)
     THEN /\ classifier' = OnBar(classifier, bar)
          /\ report' = [report EXCEPT !.bars[classifier'.label] = @ + 1]
          /\ closed' = Append(closed, bar)
     ELSE UNCHANGED <<classifier, report, closed>>
  /\ loop' = "strategy"
  /\ UNCHANGED <<signalVars, feed, sma, resolved, fired>>

\* The strategy sees the tick; a candidate gets the regime of the last closed bar.
AskStrategy ==
  /\ loop = "strategy"
  /\ sma' = SmaAfter(sma, LastTick.price)
  /\ loop' = "tick"
  /\ IF Fires(sma, LastTick.price)
     THEN /\ fired' = fired \cup {Len(feed)}
          /\ \E i \in Estimates :
               Process(Loop, [strategy |-> Strategy, symbol |-> Symbol, inputs |-> i,
                              side |-> IF sma'.last = 1 THEN "buy" ELSE "sell",
                              regime |-> classifier.label])
     ELSE UNCHANGED <<signalVars, fired>>
  /\ UNCHANGED <<feed, bar, classifier, resolved, report, closed>>

\* The rest of process, in the same thread.
ProcessStep ==
  /\ Gate(Loop) \/ Submit(Loop) \/ Record(Loop) \/ Count(Loop)
  /\ UNCHANGED backtestVars

\* After the last tick everything that waits is scored, and the report takes what
\* is kept of the scores (resolved_history).
Finish ==
  /\ loop = "tick" /\ thread[Loop] = InNoCall /\ feed # <<>>
  /\ FlushPending(Symbol, LastTick.price, LastTick.ts)
  /\ resolved' = Scored(pending)
  /\ report' = [report EXCEPT !.resolved = Len(resolved')]
  /\ loop' = "done"
  /\ UNCHANGED <<engineVars, feed, bar, classifier, sma, closed, fired>>

BacktestInit ==
  /\ EngineInit
  /\ feed = <<>> /\ closed = <<>> /\ fired = {} /\ resolved = <<>>
  /\ bar = NoBar /\ classifier = NewClassifier /\ sma = NewSma
  /\ loop = "start"
  /\ report = [bars |-> [l \in DOMAIN Threshold |-> 0], resolved |-> 0]

BacktestNext == StartRun \/ NextTick \/ CloseBar \/ AskStrategy \/ ProcessStep \/ Finish

BacktestSpec == BacktestInit /\ [][BacktestNext]_<<signalVars, backtestVars>>
-----------------------------------------------------------------------------
(* The parts of the loop have the types that the code gives them.            *)
BacktestTypeOK ==
  /\ EngineTypeOK
  /\ loop \in {"start", "tick", "bar", "strategy", "done"} /\ fired \subseteq DOMAIN feed
  /\ Len(resolved) <= MaxResolved
  /\ bar.low <= bar.open /\ bar.open <= bar.high /\ bar.low <= bar.close /\ bar.close <= bar.high
  /\ Len(classifier.volumes) <= VolWindow /\ Len(classifier.returns) <= VolWindow
  /\ Len(classifier.vols) <= PercentileWindow /\ Len(classifier.atrs) <= PercentileWindow
  /\ classifier.dmi.adx \in 0 .. 100 /\ classifier.dmi.range >= 0
  /\ sma.countdown \in -1 .. ConfirmationTicks /\ sma.waiting \in {-1, 0, 1}

\* The bar of the ticks at the places in S, by definition.
BarOf(S) ==
  LET ticks == SelectSeq(feed, LAMBDA t : t.ts \in {feed[i].ts : i \in S})
      prices == {feed[i].price : i \in S}
  IN  [start |-> StartOf(ticks[1].ts), open |-> ticks[1].price, close |-> ticks[Len(ticks)].price,
       high |-> CHOOSE p \in prices : \A q \in prices : q <= p,
       low |-> CHOOSE p \in prices : \A q \in prices : p <= q,
       volume |-> SumOf([i \in 1 .. Len(ticks) |-> ticks[i].quantity]), count |-> Len(ticks)]

(* The closed bars and the open one are those of the windows in which there  *)
(* were ticks, each with exactly the ticks of its window and in order, as    *)
(* they would be computed from the history (BarAggregator::on_tick).         *)
BarsAreTheirTicks ==
  loop = "strategy" =>
    LET bars == IF bar.count = 0 THEN closed ELSE Append(closed, bar)
        window(b) == {i \in 1 .. Len(feed) : feed[i].ts # 0 /\ StartOf(feed[i].ts) = b.start}
    IN  /\ \A k \in 1 .. Len(bars) : window(bars[k]) # {} /\ bars[k] = BarOf(window(bars[k]))
        /\ \A j, k \in 1 .. Len(bars) : j < k => bars[j].start < bars[k].start
        /\ \A i \in 1 .. Len(feed) : feed[i].ts # 0 => \E k \in 1 .. Len(bars) : i \in window(bars[k])

\* The last entries of a list of measures, at most as many as the window holds.
LastOf(w, n) == SubSeq(w, 1 + Larger(0, Len(w) - n), Len(w))

(* Each window behind a label holds the latest measures of the closed bars,   *)
(* none left out: their volumes, the returns between them, the spread of each *)
(* full window of returns, and a true range for each full sum (on_bar).       *)
WindowsAreTheirBars ==
  LET n == Len(closed)
      returns == [k \in 1 .. n - 1 |-> Log[closed[k + 1].close] - Log[closed[k].close]]
      spreads == [k \in 1 .. n - VolWindow |-> Spread(SubSeq(returns, k, k + VolWindow - 1))]
  IN  /\ classifier.volumes = LastOf([k \in 1 .. n |-> closed[k].volume], VolWindow)
      /\ classifier.returns = LastOf(returns, VolWindow)
      /\ classifier.vols = LastOf(spreads, PercentileWindow)
      /\ Len(classifier.atrs) = Len(LastOf([k \in 1 .. n - DmiPeriod |-> k], PercentileWindow))

(* There is a label as soon as every measure has its samples, and not before: *)
(* n bars have n - 1 movements between them, and the k-th full sum of          *)
(* movements gives the k-th true range and the k-th spread.  Wilder's index,   *)
(* which is averaged over a period of its own, is there no later than after   *)
(* the 1 + 2 * period bars of its comment (features_ready, WilderDmi::on_bar). *)
ReadyInTime ==
  LET n == Len(closed)
      movements == n - 1
      Sums(size) == movements - size + 1
  IN  /\ n >= 1 + 2 * DmiPeriod => AdxReady(classifier.dmi)
      /\ FeaturesReady(classifier) <=>
           /\ AdxReady(classifier.dmi)
           /\ n >= Warmup /\ n >= VolWindow
           /\ Sums(DmiPeriod) >= MinSamples /\ Sums(VolWindow) >= MinSamples

(* A bar is labelled as a spike exactly if its volume lies far enough above  *)
(* the volumes of the bars before it, itself left out (on_bar).              *)
SpikesAreSeen ==
  FeaturesReady(classifier) =>
    LET n == Len(closed)
        before == [i \in 1 .. VolWindow |-> closed[n - VolWindow - 1 + i].volume]
    IN  classifier.label \in {"stress", "vol_expansion"} <=> Exceeds(before, closed[n].volume, ExpansionZ)

(* The bars and the market's label are those of the history so far.          *)
MarketIsMeasured ==
  BacktestTypeOK /\ BarsAreTheirTicks /\ WindowsAreTheirBars /\ ReadyInTime /\ SpikesAreSeen

\* The places of the history that had a direction once the windows were full,
\* with it, none left out.
Directions ==
  LET at(i, n) == [k \in 1 .. n |-> feed[i - n + k].price]
      first == Larger(SlowWindow, ReturnWindow + 1)
      of(i) == IF i < first THEN 0 ELSE Direction(at(i, FastWindow), at(i, SlowWindow))
  IN  SelectSeq([i \in DOMAIN feed |-> [at |-> i, to |-> of(i)]], LAMBDA d : d.to # 0)

\* From place i to place k of a list of directions there was no cross.
Uncrossed(d, i, k) == i >= 1 /\ \A j \in i .. k : d[j].to = d[k].to

(* Every trade that is proposed follows a cross that was confirmed by as many *)
(* further ticks as asked for, and none is the second one for its cross; a    *)
(* cross that lasts longer than its confirmation is never passed over         *)
(* (SmaCrossoverStrategy::on_tick).                                           *)
FiresWhenConfirmed ==
  loop = "tick" =>
    LET d == Directions
        trades == {k \in DOMAIN d : d[k].at \in fired}
    IN  /\ fired = {d[k].at : k \in trades}
        /\ \A k \in trades : Uncrossed(d, k - ConfirmationTicks, k)
        /\ \A j, k \in trades : j < k => ~ Uncrossed(d, j, k)
        /\ \A k \in DOMAIN d :
             Uncrossed(d, k - ConfirmationTicks - 1, k) => \E j \in trades : j <= k /\ Uncrossed(d, j, k)

(* What the comment on SmaCrossoverStrategy says: a cross is confirmed that   *)
(* many ticks after it, so that the tick before those was still on the other  *)
(* side.  The trade comes one tick later than that.                           *)
FiresAsDocumented ==
  LET d == Directions IN
  loop = "tick" /\ Len(feed) \in fired => ~ Uncrossed(d, Len(d) - ConfirmationTicks - 1, Len(d))

(* Whatever is decided at a tick, the evaluations that were due at it have   *)
(* been scored, and the state of the strategy knows of them (run_strategy).  *)
DecidedAfterScoring ==
  thread[Loop].pc = "gate" => \A i \in 1 .. Len(pending) : pending[i].due > now

(* At the end nothing waits, also not what is due after the last tick, and    *)
(* the report counts every fill, up to the number of scores that are kept:    *)
(* those are the latest ones, in the order in which they were due             *)
(* (run_strategy, flush_pending, resolve_locked).                             *)
SampleIsComplete ==
  LET n == Len(resolved)
      all == tally[Strategy][2]
  IN  /\ n = MaxResolved \/ n = all
      /\ \A k \in 1 .. n : resolved[k].number = all - n + k
      /\ \A k \in 1 .. n - 1 : resolved[k].due <= resolved[k + 1].due
      /\ loop = "done" => pending = <<>> /\ report.resolved = n /\ all = tally[Strategy][1]

(* No evaluation is late: none for the decisions of a tick, none at the end.  *)
SampleIsSound == DecidedAfterScoring /\ SampleIsComplete
=============================================================================
