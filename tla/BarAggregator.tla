--------------------------- MODULE BarAggregator ---------------------------
(***************************************************************************)
(* Ticks become bars of a fixed duration (bar_aggregator.hpp).  The tick   *)
(* that crosses a boundary closes the open bar and opens the next one.     *)
(***************************************************************************)
EXTENDS Integers

CONSTANT Duration

ASSUME DurationAssumption == Duration \in Nat \ {0}

NoBar == [start |-> 0, open |-> 0, high |-> 0, low |-> 0, close |-> 0, volume |-> 0, count |-> 0]

StartOf(ts) == ts - (ts % Duration)

BarOpened(tick) ==
  [start |-> StartOf(tick.ts), open |-> tick.price, high |-> tick.price,
   low |-> tick.price, close |-> tick.price, volume |-> tick.quantity, count |-> 1]

\* Deviation: a price is a new high or a new low, a new close only otherwise.
BarExtendedElse(bar, tick) ==
  [bar EXCEPT !.high = IF tick.price > @ THEN tick.price ELSE @,
              !.low = IF tick.price < @ THEN tick.price ELSE @,
              !.close = IF tick.price \in bar.low .. bar.high THEN tick.price ELSE @,
              !.volume = @ + tick.quantity, !.count = @ + 1]

BarExtended(bar, tick) ==
  [bar EXCEPT !.high = IF tick.price > @ THEN tick.price ELSE @,
              !.low = IF tick.price < @ THEN tick.price ELSE @,
              !.close = tick.price, !.volume = @ + tick.quantity, !.count = @ + 1]

\* Valid ticks have a timestamp; prices are positive here.
Closes(bar, tick) == tick.ts # 0 /\ bar.count > 0 /\ StartOf(tick.ts) > bar.start

\* A tick of a window that is closed changes nothing.
BarAfter(bar, tick) ==
  IF tick.ts = 0 \/ (bar.count > 0 /\ StartOf(tick.ts) < bar.start) THEN bar
  ELSE IF bar.count = 0 \/ Closes(bar, tick) THEN BarOpened(tick)
  ELSE BarExtended(bar, tick)
=============================================================================
