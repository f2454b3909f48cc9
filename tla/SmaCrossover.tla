---------------------------- MODULE SmaCrossover ----------------------------
(***************************************************************************)
(* The reference strategy (sma_crossover_strategy.hpp): when the fast      *)
(* average crosses the slow one it waits for a number of further ticks in  *)
(* the new direction, then proposes a trade.  The estimates it attaches    *)
(* are left to the caller; of its volatility only the readiness is kept.   *)
(***************************************************************************)
EXTENDS Windows

CONSTANTS FastWindow, SlowWindow, ReturnWindow, ConfirmationTicks

ASSUME SmaAssumption ==
  /\ {FastWindow, SlowWindow} \subseteq Nat \ {0} /\ FastWindow <= SlowWindow
  /\ {ReturnWindow, ConfirmationTicks} \subseteq Nat

NewSma == [fast |-> <<>>, slow |-> <<>>, returns |-> -1, last |-> 0, waiting |-> 0, countdown |-> -1]

WithPrice(s, price) ==
  [s EXCEPT !.fast = PushedBounded(@, price, FastWindow),
            !.slow = PushedBounded(@, price, SlowWindow),
            !.returns = IF @ < ReturnWindow THEN @ + 1 ELSE @]

SmaReady(s) ==
  Len(s.fast) = FastWindow /\ Len(s.slow) = SlowWindow /\ s.returns >= ReturnWindow

\* 1 while the fast average is above the slow one, -1 while it is below.
Direction(fast, slow) ==
  LET f == SumOf(fast) * Len(slow)
      w == SumOf(slow) * Len(fast)
  IN  IF f > w THEN 1 ELSE IF f < w THEN -1 ELSE 0

\* Deviation: a cross back while one is being confirmed goes unnoticed.
SmaAfterDeaf(s, price) ==
  LET a == WithPrice(s, price)
      d == Direction(a.fast, a.slow)
  IN  IF ~ SmaReady(a) \/ d = 0 THEN a
      ELSE IF d # a.last /\ a.countdown < 0
           THEN [a EXCEPT !.last = d, !.waiting = d, !.countdown = ConfirmationTicks]
      ELSE IF a.waiting # d \/ a.countdown < 0 THEN a
      ELSE [a EXCEPT !.waiting = IF a.countdown > 0 THEN @ ELSE 0, !.countdown = @ - 1]

\* The strategy after a tick.
SmaAfter(s, price) ==
  LET a == WithPrice(s, price)
      d == Direction(a.fast, a.slow)
  IN  IF ~ SmaReady(a) \/ d = 0 THEN a
      ELSE IF d # a.last THEN [a EXCEPT !.last = d, !.waiting = d, !.countdown = ConfirmationTicks]
      ELSE IF a.waiting # d \/ a.countdown < 0 THEN a
      ELSE [a EXCEPT !.waiting = IF a.countdown > 0 THEN @ ELSE 0, !.countdown = @ - 1]

\* It proposes a trade at the tick that finds nothing left to wait for.
Fires(s, price) ==
  LET a == WithPrice(s, price)
      d == Direction(a.fast, a.slow)
  IN  SmaReady(a) /\ d # 0 /\ d = a.last /\ a.waiting = d /\ a.countdown = 0
=============================================================================
