# A TLA+ model of Axiotick

Axiotick (`src/backend`) is a trading engine in C++: an order manager over a
limit order book and a risk manager, an event journal, a message bus, strategies
with a feedback loop of their own, and gateways to simulated venues and to HTTP
and WebSocket clients.  This directory is its verification project: TLA+ modules
translated from the source, configurations that model-check them with TLC, and
theorems proved with TLAPS.  `PROJECT.json` is its index: for each definition the
lines it models, for each run its properties, for each hazard of the code the
properties that watch it.

## 1. The system

### Components, their state and operations

| component (directory under `src/backend`) | state | operations that change it | modelled by |
|---|---|---|---|
| order book (`modules/engine`) | pool of nodes with a free list, sorted level arrays per side, doubly linked lists per level, lookup table | add, cancel, cut, modify, match | `OrderBook`, `PriceTimeBook` |
| risk manager (`modules/risk`) | reservations, committed and filled exposure, net positions, average costs, daily baseline, kill switch | check_order, on_fill, on_cancel, mark_to_market, maybe_roll_day, kill switch | `RiskLedger`, `RiskManager` |
| order manager (`modules/trading`) | active orders, bounded history | submit, cancel, partial cancel, modify | `OrderManager` |
| event journal (`modules/persist`) | sequence and time counters, ring buffer, file, flush in progress | append, the writer thread, flush, open, close | `JournalQueue`, `JournalRing`, `EventJournal` |
| journal replay (`modules/persist`, `apps/replay`) | the state rebuilt from a journal | one per kind of event | `JournalReplay`, `OrderReplay` |
| message bus (`modules/bus`) | topics with one SPSC ring and one consumer each | publish with three overflow policies, subscribe, consume, shutdown | `MessageBus` |
| strategy registry (`modules/strategy`) | pending evaluations, rolling scores, lifecycle of each strategy | record_signal_open, on_market_tick, flush_pending, force_state | `StrategyRegistry` |
| signal engine, EV gate (`modules/signal`, `modules/ev`) | identifiers and counters | process, on_market_tick, set_strategy_state | `SignalEngine`, `EvGate` |
| data writer (`modules/persist`) | bounded queue, connection, CSV file, counters | enqueue, enqueue_batch, worker_loop, start, stop | `DataWriter` |
| market gateway (`modules/api`) | tokens, rate windows, counters | authorize_request, submit_order, on_market_message, tokens, reset_metrics | `MarketGateway`, partly |
| HTTP and WebSocket server (`modules/api`) | connections, client threads, windows per address | accept, client_loop, broadcast, close, start, stop | `HttpWsServer`, partly |
| smart order router, simulator (`modules/gateway`) | snapshots of books, quality by venue | route, reroute, simulate, consume | `SmartOrderRouter`, `MarketSimulator`, partly |
| bars and regimes (`include/regime`, `modules/regime`) | open bar, rolling windows, Wilder's sums, label | on_tick, on_bar | `BarAggregator`, `RegimeClassifier`, `Windows` |
| backtest and its strategy (`modules/backtest`, `include/analysis`) | the loop of a run, windows and confirmation of the strategy | run_strategy, on_tick | `Backtest`, `SmaCrossover`, partly |

### How they interact

* The executables (`apps/node/main.cpp`) construct book, risk manager, journal,
  order manager and server, and pass them by reference.  Everything below is
  calls and shared state; the only messages are those of the bus.
* `OrderManager` holds one mutex for the length of each call and drives the book
  and the risk manager under it.  The book has no lock.  The risk manager has
  its own mutex, held per method, and a kill switch that is an atomic outside
  of it: any thread can throw it in the middle of an order manager's call.
* The backtest and the demos put the market's orders into the same book
  directly, past the order manager and the risk checks.
* Order manager and market gateway append to the journal: the first under its
  mutex, the second (`append_external`) without, from the connection threads of
  the server.  The journal has therefore several producers, and one writer
  thread.  A later process opens the same file; replay reads it.
* The signal engine asks the registry for a strategy's state, the gate for a
  verdict, the order manager for an execution, and tells the registry of each
  fill.  Market ticks score those fills and may quarantine the strategy.  The
  registry's mutex is taken for each of these steps anew.
* The server starts a thread for each connection; these call the gateway.  The
  bus's consumer thread calls gateway and server with each tick, and the server
  broadcasts it to the WebSocket clients.
* The backtest drives bars, regimes, a strategy and the signal engine in one
  thread.  The simulator calls the router for each pass.

### What is hard in it, and what makes each part correct

* Book: the loop of `match_order` keeps a node and a level index while it
  removes them; `modify_order` has to undo a replacement that does not fit; the
  pool and the level arrays fill up.  Correct means price-time priority, whatever
  the layout of the structure.
* Risk: the committed exposure is a running sum over reservations that are
  released in pieces, at other prices than they were made, sometimes twice.
  Correct means that it is that sum, that profit and loss loses no money, and
  that a breached limit stops trading.
* Order manager: an order's quantity lives in four places (book, active order,
  history, reservation), which fills, cuts, refused modifications and evictions
  have to keep in step while the kill switch can be thrown between any two
  steps.  A fifth copy is what replay makes of the journal.
* Journal: a lock-free ring, numbers and stamps taken in separate steps, a
  full ring, a flush that uses the writer's stream, a process that dies and one
  that goes on with its file.  Correct means that every number is accounted for,
  that the file is in order, and that flush covers what was accepted and returns.
* Bus: a ring without locks whose oldest message is discarded from the wrong end,
  counters that are updated apart from the positions, a shutdown that joins
  under a lock.  Correct means delivery in order of everything that was accepted.
* Strategies: evaluations of several symbols wait in one queue, a tick takes some
  out of its middle, the scores change the state that another thread has just
  read.  Correct means that every fill is scored once and on time and that the
  state is what the scores and the operator made it.
* Writer and server: `running_` is cleared without the mutex that the others wait
  with, calls fail half way, and the operating system hands out a closed socket's
  handle again.  Correct means that nothing is lost silently and stop returns
  with nothing left.
* Execution and backtest: sequential, and wrong by an index or an order of steps:
  books shrink while fills that refer to them by index are processed, and ticks
  score, close bars and decide at once.

The list of hazards, each at its line, is in `PROJECT.json`.

## 2. The modules

```
BookTerms            orders, takers, trades and limits of a book
  ^ extended by      PriceTimeBook and OrderBook
PriceTimeBook        what a price-time priority book promises
  ^ implemented by   OrderBook        pool, links, level arrays, bisection
  ^ used by          OrderManager
FixedPoint           notionals and the width of their 64-bit counters, as operators
  ^ extended by      JournalReplay and
RiskLedger           reservations, positions, kill switch, as operators
  ^ extended by      RiskManager      + average cost, PnL, daily limit
  ^ used by          OrderManager     lifecycle of an order; history; events
  ^ extended by      OrderReplay      + what JournalReplay makes of the events
JournalQueue         what the ring promises: a bounded queue, filled in two steps
  ^ implemented by   JournalRing      cells, sequence numbers, compare-and-swap
  ^ used by          EventJournal     append, writer thread, flush, crash, reopen
MessageBus           a topic: ring, policies, consumer thread, shutdown
DataWriter           queue, worker, database and CSV files
MarketGateway        tokens, rates, counters
  ^ extended by      HttpWsServer     threads of connections, broadcast, stop
SmartOrderRouter     the route of an order, as operators
  ^ extended by      MarketSimulator  passes, fills, consumption
EvGate, Windows      verdict of the gate; rolling windows, as operators
  ^ extended by      StrategyRegistry pending evaluations, lifecycle
  ^ extended by      SignalEngine     process, for several threads
  ^ with BarAggregator, RegimeClassifier and SmaCrossover (operators)
    extended by      Backtest         the loop of run_strategy
SumProofs            lemmas on sums
PriceTimeBookProofs, OrderBookProofs, OrderManagerProofs, RiskManagerProofs:
theorems about the module of that name (OrderManagerProofs: also OrderReplay)
PersistProofs        theorems about JournalRing and DataWriter
ServiceProofs        theorems about EventJournal and HttpWsServer
BusSignalProofs      theorems about MessageBus and SignalEngine
```

Each `MC*` module gives a module its sets of values, each `.cfg` is a run.  `MCParts`
puts three modules that share nothing, `JournalRing`, `MarketSimulator` and `Backtest`,
into one run: a behaviour is of one of them, and the others stay as they begin.
Definitions preceded by a comment that begins with "Deviation" are not the code:
each is a plausible mistake in the definition that follows it, and a property is
only kept if such a mistake breaks it (`PROJECT.json`, "mutants").  The
properties of a run are conjunctions of named parts, each with its comment.

### PriceTimeBook

The book as its clients can tell it from another: `orders` maps an identifier to
side, price and lots, and `ahead` is time priority, the pairs of orders of which
the first came to its level before the second.  The loop of `match_order` is
split into `MatchBegin`, `MatchTrade` for each iteration, and `MatchEnd`, which
rests the residual.  `taker` holds the locals of the loop.  Node pool and level
arrays appear as the two capacities that `CanAdd` checks.  An order book has no
lock, so nothing happens between these steps in `OrderBook`; in `OrderManager` the
kill switch can.

### OrderBook

The structure itself, as one record: nodes with `prev` and `next`, the stack of
free slots, sorted level arrays, lookup table.  Each private helper of the class is
an operator, bisection included.  `AbstractBook` maps the structure to
`PriceTimeBook`, and `ImplementsPriceTimeBook` checks that every step is a step
of it: cutting, cancelling and re-adding in the structure have the promised
effect on priority, and each trade is with the order that price, then time, puts
first.  `OperationsCorrespond` adds that each operation maps to the one of its name:
a cut that costs the order its place would be a modification.

### RiskLedger, RiskManager

`RiskLedger` is the arithmetic of check_order, on_fill and on_cancel, as operators
from ledger to ledger.  Notionals are exact products with the width of the
fixed-point type as a constant (`FixedPoint`): `Notional` saturates like `to_notional_units`,
and releases wrap like the 64-bit counters (`Wrapped`).  `RiskManager` makes each public
method an atomic action, which the mutex justifies, and adds the average-cost
accounting with exact fractions where the code has doubles: rounding is not
modelled.  `cash` is a history variable.

### OrderManager

`submit_order` is a chain of steps (admission, each iteration of the match, the
settlement of each trade, the final booking), because the kill switch is thrown
by others meanwhile; a modification has a step before its second risk check
for the same reason; the other methods are atomic under the mutex.  `call`
holds the locals.  `approved` and `outside` are history variables: what the risk
manager last admitted for each order, and what was traded with orders that are
not the manager's.  `QuotePlaced` and `QuotePulled` are the orders that the
backtest puts into the book directly.  The event that each step appends to the
journal is in `event`.  The order of a call's effects on book, ledger, active
orders and history is the code's.  `set_history_cap` is called before trading and
is a constant.

The history queue is kept without its stale entries.  The code recognises these
by the timestamp of the last update, so this assumes that the nanosecond clock
advances between two updates of one order.

### JournalReplay, OrderReplay

`JournalReplay` has an operator for each case of `replay_file`'s switch;
`OrderReplay` is `OrderManager` with each event applied at once, which is what
the whole file amounts to if nothing is dropped: the manager's mutex makes it
one producer, and the composition with a full ring is in `EventJournal`
(`DropsAreNoticed`).  `ReplayAgrees` says where the rebuilt state is that of the
manager, and names the two places where the code makes it differ.

### JournalQueue, JournalRing

`JournalRing` has one step for each atomic load, store and compare-and-swap, and
for each access to a cell's value; a weak compare-and-swap may fail for no
reason.  Interleaving these steps is faithful to the memory model as long as
values are never accessed by two threads at once, which is the invariant
`NoRace`; the acquire loads and release stores of the cells' sequence numbers give
the order that makes them visible.  Positions are bounded by `MaxPosition`, far
below the 64 bits of the code.

### EventJournal

The journal over the abstract queue.  An append is three or four steps (number,
stamp, claim, fill, or drop); the writer takes, writes and announces in separate
steps; `flush` begins by reading the next number and ends when the announced
number reaches it.  The file is a sequence of texts and line breaks: `flushed`
of it are on the disk for certain, and `Crash(kept)` leaves any prefix that is
not shorter, with the next text whole, gone, or torn.

A torn text is what a reader finds of it, field by field (`Torn`): the fields are
written in the order number, stamp, type, and a number may be cut in its digits
(`Cut`, with `Radix` digits), of which `parse_u64_field` reads those that are left.
Nobody ends a torn line, and the next process writes its first event into it: a line is
all texts up to a line break (`Lines`, `TextsOf`), and of each field the first
text that has it is read (`Reads`).  So a process may number on from a number that was cut, or
from the one before it, `replay_file` may fail (`ReplayReads`), and the first event of
a process may be lost in the torn line, which `TearCostsOne` limits to that event.  The
promises of the journal are about `Intact` lines; `SequenceIsMonotonic` is what the
documentation says of all lines, and the run `torn_journal` refutes it.

`overlapped` records that two appends were in progress at once; what the journal promises to
a single producer is stated for behaviours without that.

A data race between flush and the writer (`raced`) may leave an intact line, a
line without its break, or nothing.  Flushes are modelled when no thread
appends, as the programs and the destructor call it; a flush while others append
promises less still.  Sequence numbers given by the caller are left out (no
caller in the program gives any), as are the wake-up of the writer, which waits
for a millisecond at most, and the histogram of latencies.

### MessageBus

One topic.  Each access to a slot, its flag and a position is a step, except that
a load and the compare-and-swap after it are one.  `policy` is chosen at the
start; `BlockTimed` is Block with a timeout.  `disturbed` records that the
discipline of the ring was left: two calls of publish at once, or a slot that the
consumer and a discarding publisher have both claimed, a lap apart.  What is
checked holds until then; the actions are modelled for after it as well.

### EvGate, StrategyRegistry, SignalEngine

`Verdict` is `EvGate::evaluate`, with probabilities in parts of `Unit`.  The
registry's operations are atomic under its mutex.  `pending` is the multimap
ordered by due time; `Walked` is the walk over it of a tick or a flush, `Resolved` is
`resolve_locked` with the alarms and the transitions it leads to.  Statistics are exact integers where the code has
doubles, square roots are compared squared.  The clock begins at `FirstTime`, since an
operator's quarantine is entered as of time zero.  `tally`, `entries`, `forced` and the
mark `missed` are history.  `SignalEngine` makes `process` a chain of steps of its
thread (state read and gate, submission, a record for each fill, counting);
what the order manager answers is chosen from `Answers`.

### Windows, BarAggregator, RegimeClassifier, SmaCrossover, Backtest

Operators from state to state, one for each class, with the quotients of the code
cleared of denominators; `Log` is given for the prices of the run, since only
returns of log prices enter a variance.  `Backtest` is the loop of `run_strategy`:
`NextTick` scores and extends the bar, `CloseBar` classifies it, `AskStrategy`
asks the strategy, and the candidate runs through `SignalEngine`'s steps in the
thread `Loop`.  The history of ticks is chosen as it goes (`feed`); the
properties recompute bars, readiness, spikes and crosses from `feed`.  `resolved` is the
registry's history of scores, of which the oldest go when there are more than
`MaxResolved`; the report counts what it has at the end.

### DataWriter

The mutex is a variable (`lock`), because `stop` clears `running_` without it and
the worker's loop tests the queue without it.  A tick is a producer and its
number.  A call goes on tick by tick, with the mutex; what a call does between two
ticks changes nothing, but the worker's unlocked test of the queue may fall there.
The database fails when connecting, during the copy or at its result
(`MaxFaults` times in a behaviour); a copy that fails at its result may have been
stored as well as written to the file.  `archive` holds the rotated files.

### MarketGateway, HttpWsServer

A gateway call is a chain of steps of its thread: counters are atomics, tokens
and windows are under one mutex.  `smeared` records that `reset_metrics` ran
while a call was in progress.  The server adds the threads: a message is a
whole request or frame, `socket` is the operating system's table of handles,
which gives the lowest free handle out again, and `shared` records that a handle
was given out again while a thread or a broadcast still meant its former
connection.  Requests are of the kinds that the handler distinguishes.

### SmartOrderRouter, MarketSimulator

The route is a pure operator: eligible levels of all venues are ranked by
effective cost and walked.  The simulator is a step for each leg, for each fill's
consumption and for each pass.  Random draws (fill, slippage) are choices.
`misread` records that a level was erased which a later fill of the pass refers
to by its index.

## 3. The runs

| run | module | what it shows |
|---|---|---|
| `order_book` | `OrderBook` | pool, links, sorted arrays and lookup are consistent; `executable_lots` promises what the match delivers; the structure implements the price-time book |
| `risk_manager` | `RiskManager` | committed exposure is the sum of the reservations, also after it wrapped; realized and unrealized profit is cash plus holdings; a breach stops trading |
| `wrapped_exposure` | `RiskManager` | violated: the committed exposure is bounded by what is reserved |
| `order_replay` | `OrderReplay` | manager, book, ledger and history agree between calls; FOK trades in full; replay rebuilds the manager's state; the book keeps to its limits and to a total time priority with one order more to take than it has room for; every call can go on |
| `journal` | `EventJournal` | every number accounted for, close drains; without overlapping appends the lines are in order but for those that crashes tear, a flush covers what was accepted, and returns |
| `torn_journal` | `EventJournal` | violated: the sequence that replay reads is monotonic |
| `message_bus` | `MessageBus` | messages whole, in order, none lost; answers and queue depth are true; delivery, and every publication ends, over shutdown |
| `strategy` | `SignalEngine` | each fill scored once, on time and at its symbol's price; active means healthy, blocked means no new order; only an operator releases, only a row of quarantines disables |
| `data_writer` | `DataWriter` | no tick vanishes, files in order with headers; stop drains; every call returns |
| `server` | `HttpWsServer` | one response for a connection; counters add up, rates hold over windows that end and begin again; stop returns and leaves nothing |
| `parts` | `JournalRing` | no race on a value, no refusal while there is room, refinement of the queue |
| | `MarketSimulator` | nothing executed twice or beyond what was shown, fills from the quoted price, cheapest route, FOK not split |
| | `Backtest` | bars, readiness and labels are those of the history; one trade for each confirmed cross; scores before decisions, none left out of what is kept |
| `confirmation` | `Backtest` | violated: a cross is confirmed by `ConfirmationTicks` ticks |

A run that is "violated" checks a sentence of the documentation, which the code does not
keep: see the findings in `PROJECT.json` and "Visible behaviour" below.  What the other runs
check holds, and each of them covers the whole state space of its instance.

### Bounds, and why they are enough

* Book: three orders of one or two lots, so that
  a list has a head, a middle and a tail, an order can be cut without
  disappearing, and the free list takes every order.  One price more than
  `MaxLevels` (the code's 4096) and one order more than `PoolSize` (131072) are needed, so
  that a full pool is met in `order_replay` and a full level array in both; in `order_book`
  the pool has a node for each order.  Order identifiers are interchangeable: no
  definition compares them, so symmetry is sound.
* Risk: three orders of one symbol, prices 2 and 3, two lots.  `MaxUnits`, the
  largest notional that the counters hold, is 7: it is more than an order may be worth
  (`MaxOrderValue` 5) and less than the sum of two, so that the check refuses an addition
  that overflows, and releases wrap: with a buy, a sell and a second buy reserved, the
  release of the sell does.  `MaxFills` of 3 opens, extends or flips, and closes a position; `MaxDay` of 2 has a day before and
  after a roll.
* Order manager with replay: two orders of its own and one of the market,
  `MaxCalls` 4 (place, modify or trade, cut, trade again), one price level per side
  so that modifications do not fit and residuals are dropped, exposure limits that
  two orders reach, `HistoryCap` 1 so that evictions and reused identifiers happen.
* Ring: two cells, three producers that are interchangeable, `MaxPosition` 5, so that every cell is used
  more than twice and a slow producer is overtaken by a whole lap (the code: 65536
  cells).  The class requires at least two cells.
* Journal: two producers, `MaxEvents` 4 against a ring of two, so that it
  overflows, and `MaxOpens` 2 processes over one file.  `Radix` 2 gives the larger numbers
  and stamps digits to be cut in.  `torn_journal` needs one producer only.
* Bus: a ring of two and six messages, three laps; one publisher, since what is
  checked is void with two, and one subscriber, who may come late.
* Strategies: two threads, one strategy trading two symbols, two candidates, three
  ticks, two overrides; windows of two scores.  `MaxQuarantines` 2 within a
  `Lookback` of 0, so that two quarantines at one time count and one of an earlier time
  is expired.  Time begins at 2, further than the lookback from zero, as in every feed,
  so that the quarantines of an operator are outside it.
* Writer: two producers with three ticks each, singly and in batches of three,
  larger than the queue and the worker's batch of two; two faults, files of two
  ticks, two starts, so that overflow, fallback, rotation and restart occur.
* Server: two clients over two handles, so that a handle is given out again, in
  four scenarios of requests and frames.  Gateway, in a fifth without clients: calls of
  the program's own threads and messages of the bus, `MaxInputs` 4 of both together, with
  tokens added, revoked and rotated and a reset, two requests per window of two time units,
  and time for a window to end and the next to fill up.
* Execution: two venues of up to three levels, with and without a venue state of
  their own, orders of every type, side and time in force, three passes.
* Backtest: four kinds of ticks, up to `MaxHistory` 8, bars of two time units, a
  classifier that is ready after five bars, one more than Wilder's index and two more
  than the other measures ask for, and a history of three scores: bars are missed, spikes, trends and
  crosses that are confirmed or not occur, and quarantines, and scores are evicted.

`CHECK_DEADLOCK FALSE` is set where the system comes to an end: the journal, the
bus and the writer when their bounded numbers are used up and they are closed,
the server when it is stopped and all clients are done, the strategies' run when
its ticks and candidates are used up, and `parts`, where the ring's positions are used up,
an execution is done and a backtest is at the end of its history.

### Fairness

`OrderReplay`: weak fairness of the steps of the call in progress; the thread
that holds the mutex waits for nothing, and `CallGoesOn` checks that it can go on
(an invariant, since symmetry forbids liveness properties there).
`EventJournal`: weak fairness of an append in progress, of the writer, which
polls at least every millisecond, and of the end of a flush, whose condition
variable is notified after every event.  `MessageBus`: of the steps of a
publication in progress and of the consumer, which spins and yields.
`DataWriter`: of a producer's call in progress, of the worker, whose wait has a
timeout, and of the steps of a stop that has begun.  `HttpWsServer`: of the client
threads, whose `recv` ends when the socket is closed, and of the steps of a stop
that has begun.  Nothing obliges anyone to call, to throw a switch, to send, to
subscribe, to close or to crash.  The other modules state safety only.

### Visible behaviour

The model does what the code does, also where that may surprise.  No property of a passing run
denies the following; where one has an exception for it, the exception is named.  The violated runs show three
sentences of the documentation that are not so.

* Order manager.  `modify_order` puts a refused order back and ignores the answer
  of the risk check that should reserve for it again (`order_manager.cpp:388`):
  with the kill switch thrown in between it rests without a reservation
  (`approved.bare` in `ReservationsMatch`).  A maker that is filled enters the
  history while it is active, and the trimming pops its queue entry: the history
  can stay above its cap (`order_manager.cpp:497`).  A modification can leave a
  crossed book.  A partial cancellation counts the cut lots as filled.
* Risk.  The committed exposure is signed, so that a cancellation can raise its
  absolute value over the limit, and even take it out of the range of the counter, which
  nothing checks on a release (`risk_manager.cpp:382`): it is then far from what is
  reserved, until later releases bring it back (`CommittedIsBounded`, run
  `wrapped_exposure`; ADR 0005 says it is bounded by the reservations).  A symbol's limit looks at filled positions and
  not at reservations; an order whose notional exceeds 2^63 units reserves the
  saturated value while its releases do not saturate.
* Book.  The residual of a GTC order is dropped when it does not fit.
* Journal.  A line that a crash cut in the digits of its number is read as a smaller
  number, and the next process writes its first event into a torn line, which is then read with
  fields of both, or makes replay fail (run `torn_journal`; the README promises a
  monotonic sequence).  With two producers the lines are in order of neither numbers nor
  stamps, and flush can return while a smaller number is in the ring, or wait for
  a larger one that was dropped (`event_journal.cpp:273`).  In a reopened file
  to which nothing is appended, and after a dropped last event, flush and the
  destructor wait for a number that nobody writes: hence the condition of
  `FlushReturns`.
* Replay.  The rejection of a duplicate erases the live order
  (`event_journal.cpp:648`, `Struck`); remembered fills outlive a modification and
  an identifier's reuse (`event_journal.cpp:729`, `seen`).
* Bus.  Two publishers, and DropOldest when it laps the consumer, break the ring's
  discipline (`disturbed`).  `queue_depth` can be -1 for a moment.  shutdown joins
  under the exclusive lock: a callback that subscribes or publishes to a new topic
  then waits for ever (such callbacks are not modelled).  Block without a timeout
  and without a subscriber never returns.
* Strategies.  force_state records its quarantine at time 0, so that the next
  automatic one removes it from the window, as in the run `strategy` (the comment at
  `strategy_registry.cpp:341` says that it counts).  The peak of the profit is
  never reset.  Evaluations of a symbol that has no more ticks stay.
* Regimes and crosses.  Wilder's index is ready after 2 * period bars, where
  `regime_features.hpp:96` says one more: `ReadyInTime` asks that it is ready by then.
  The strategy fires one tick later than the count of confirmation ticks says (run
  `confirmation`; `sma_crossover_strategy.hpp:61`): `FiresWhenConfirmed` asks that a cross
  lasted for that count before it is traded, that it is traded once, and that none that
  lasts longer is passed over.
* Writer.  Ticks that a producer puts while stop begins may stay on the queue
  (`late`); refused ticks and those of a file that does not open are not counted;
  a failed copy may be in the database and in the file.
* Server.  A connection's end closes its handle twice (`http_ws_server.cpp:392`),
  and a broadcast uses copied handles (`:702`): a new connection with the same
  number can be closed or get a tick (`shared` in `OneResponse`).  Frames that
  arrive with the upgrade are dropped.  Fixed windows admit more
  than their number, though less than twice, in a span of their length (`RateHolds`).
* Execution.  Erased levels make a later fill of the pass reduce another level
  (`misread`), slippage may pass the limit, the simulator may execute a FOK order in
  part, and over several passes a fill ratio may exceed one.

## 4. The proofs

TLC shows a property on the small instances of section 3, TLAPS for every value of
the constants.  Each module of proofs extends the module, or the two modules, that it is about
(`PersistProofs`, `ServiceProofs` and `BusSignalProofs` two, which is why `DataWriter`
names its specification `WriterSpec`, `HttpWsServer` names its own `ServerSpec` and
`SignalEngine` `EngineSpec`):

| module | theorem | states, for every value of the constants |
|---|---|---|
| `PriceTimeBookProofs` | `BookTypeCorrect`, `BookPriorityTotal`, `BookWithinCapacity` | `TypeOK`, `PriorityTotal`, `WithinCapacity` of the book by itself (the run `order_replay` has the last two, as `BookIsSound`, under the manager) |
| `OrderBookProofs` | `InvHolds`, `BookStructure` | the inductive invariant `Inv`, `StructureSound` |
| | `MatchIsExact` | `ExecutableIsExact` |
| | `OperationsAre`, `BookImplements` | the refinement `OperationsCorrespond`, `ImplementsPriceTimeBook` |
| `OrderManagerProofs` | `ManagerInvariant` | the inductive invariant `ManagerInv` |
| | `ManagerOrdersAgree`, `ManagerLedgerAgrees` | `OrdersAgree`, `LedgerAgrees` |
| | `ManagerFokAllOrNone` | `FokAllOrNone` |
| | `ReplayInvariant` | the inductive invariant `ReplayInv` of the manager with its journal |
| | `ReplayedAgrees` | `ReplayAgrees`, assuming `OrderFits` |
| `RiskManagerProofs` | `RiskInvariant`, `RiskTypeOK` | the inductive invariant `RiskInv`, `TypeOK` |
| | `PnlIsCash`, `BreachStops` | `PnlIsCashPlusHoldings`, `BreachStopsTrading` |
| | `RiskLedgerSound` | `LedgerSound`, assuming `OrderFits` |
| `PersistProofs` | `RingInvariant`, `RingNoRace` | the inductive invariant `RingInv`, `NoRace` of the ring |
| | `RingRefusesWhenFull`, `RingImplementsQueue` | `RefusedIsFull`, the refinement `ImplementsQueue` |
| | `WriterInvariant` | the inductive invariant `WriterIInv` of the data writer |
| | `EveryTickAccounted`, `StopLeavesNothing` | `TicksAccounted`, `StopDrains` |
| `ServiceProofs` | `LossInvariant`, `JournalLosesNone` | where the numbers are, `NoneIsLost` |
| | `JournalInvariant`, `JournalIsReplayable`, `JournalFlushCovers` | the inductive invariant `JournalInv`, `FileIsReplayable`, `FlushCovers` |
| | `ServerInvariant` | the inductive invariant of gateway and server, `GatewayIInv` and `ServerIInv` |
| | `RequestsAreAccounted`, `ConnectionsClean` | `RequestsAccounted`, `ConnectionsAreClean` |
| `BusSignalProofs` | `BusInvariant`, `BusRingIsSound` | the inductive invariant `BusInv`, `RingIsSound` |
| | `SignalInvariant` | the inductive invariant `SignalIInv` of registry and engine |
| | `CountedOnce`, `HealthyTrade` | `EachCountedOnce`, `OnlyHealthyTrade` |
| | `LifecycleDeserved` | the action property `LifecycleIsDeserved` |
| `SumProofs` | (lemmas) | sums over finite sets, that the library's fold computes them, and that a set of naturals has a least member |

The assumptions are those of the modules themselves (`BookAssumption` of `BookTerms`, `StructureAssumption`,
`LedgerAssumption`, `OrderManagerAssumption`, `ReplayAssumption`, `RiskAssumption`,
`RingAssumption`, `WriterAssumption`, `JournalAssumption`, `BusAssumption`,
`GatewayAssumption`, `ServerAssumption`, `GateAssumption`, `RegistryAssumption`,
`EngineAssumption`), which TLC evaluates in the runs: prices and
lots are positive, capacities and bounds are natural numbers, orders and
symbols are finitely many, model values are distinct from what they stand next to.
`BusAssumption` does not ask for a power of two, which the code needs for
its mask only.  Two theorems have a hypothesis more, `OrderFits`: see below.

### The price-time book

`PriorityTotal` is not inductive without types.  The argument is about operators:
each of `Added`, `Canceled` and `Reduced` takes a well-formed book to a well-formed
book (`AddedTimePriority`, `CanceledFits`, ...), where an addition needs its
capacity check.  `Modified` is a cancellation and an addition; `BookSteps` says
that every step of `Next` changes the book by one of these or not at all.  What the
lemmas on capacity need about cardinalities is cited from `FiniteSetTheorems`.
`OrderManagerProofs` takes these lemmas through an instance, `BookProofs`.

### The structure of the order book

The invariant that the runs check walks the structure: it follows `next` from the head
of a level, `prev` from its tail, and adds up lots.  A walk says little about the
structure after a node has been unlinked, so the inductive invariant `Inv` does not
walk.  It says that there are lists `L[side][price]` of nodes, empty where there is no
level, that everything else agrees with (`Base`): `prev` and `next` of each node
are its neighbours in its list, head, tail, count and total of a level are those of
its list, the levels of a side are sorted and are those whose list is not empty,
every locator leads to a node of the list it names, and the free list holds, once
each, the nodes that are in no list.  `Sound` adds what is broken in the middle of
an operation only: no level is empty, no resting order without lots.

An operation is a sequence of four steps, each with a lemma on the structure and its
lists: an order goes to the end of a level (`PushedBase`), leaves it (`DroppedBase`, in
the four cases of `unlink_node`), loses lots (`CutBase`), a level is made or erased.
That `find_level_index` finds the level, or the place where it belongs, is shown by a
smallest counterexample on the width of the range (`BisectsIsPlace`).  The last part
is to get from the lists back to the walks: a function that follows the links is
unique (`FollowsOnce`), and the list is one (`FollowsList`).

`ExecutableIsExact` compares the running totals before a match with what its trades
sum to after it.  `PromiseKept` is what holds between: what is filled, with the lesser of
what remains and what the orders that still cross sum to (`Offered`), is what
`executable_lots` answered.

For the refinement the abstract book is written with the lists (`BookOf`), where the
effect of an operation on time priority is what it does to one list (`InFrontAdded`,
`InFrontRemoved`).  `CanAdd` of the structure asks for a free node and a level, `CanAdd` of
the price-time book counts orders and prices: the two agree (`NodesForOrders`, `LevelForOrders`)
since nodes and orders, and levels and prices, stand for each other one to one.
`FrontIsBest` is the heart of the trade: the head of the first level comes
before every order that the taker may trade with.

### The order manager

`OrdersAgree` and `LedgerAgrees` speak of the moments between calls.  In the
middle of `submit_order` book, ledger, active orders and history disagree, and the
inductive invariant says by how much: which trades of the match are not settled
yet (`Pending`), that each has a maker of its own whose rest in the book is what
its active order has left without that trade (`PendingOK`), that the quantities which
the order has left before, between and after these trades lead from what the call
holds to what the book has of it (`RunsDown`), and what is reserved for whom (`Due`:
for an active order what it can still trade, for the order that is submitted what
its call holds, nothing for an order that a modification has released and will
check again).  The kill switch can be thrown between any two of these steps, so no part
mentions it.  There is one lemma for each action, `...Inv`; the settlement of a
trade, which changes two orders, is shown by its effect on an order that is the
one submitted, the maker, or neither.

`FokAllOrNone` needs a sum.  From its admission on, the lots of the candidates on the
other side sum to at least what the order lacks (`FokCovered`): each trade takes the
same from both.  Without a candidate that sum is zero, so the match ends with
nothing left, and the quantities of `RunsDown` then end at zero (`FokRuns`): the
settlement of the trades leaves the order filled.

### Replay

`ReplayAgrees` speaks of the moments between calls too, but replay reads a line as it
is written, and the lines of one call disagree with the manager until its last: a
trade is in the journal before the acceptance of its taker, and before the state of
its maker.  `ReplayInv` relates the two after every step.  An active order of the manager
is active for replay with the same side, price and quantities and at least the same
fills, unless a rejection of its identifier struck it (`Rebuilt`); an order that is
done ended for replay as it did for the manager, unless a rejection or fills of an
earlier order with the identifier got in the way (`Ended`); and the lots that the order
being submitted has traded have been seen, so that its acceptance finds them
(`TakerSeen`).  Each kind of line has its lemma, which says what replay makes of it
next to what the manager makes of the call.

The exposure needs the ledger's sum.  Module `RiskManagerProofs` is taken through an
instance, `RiskProofs`, and every step of the order manager releases, books or reserves
as a step of the risk manager does (`NextCovered`).  Between calls what is
reserved is what is active, so that the two sums have equal terms
(`ReplayHasReserved`).  `OrderFits` comes from there.

### Sums

`SumProofs` does without the library's induction theorems, which take an operator as
a parameter: a claim about all subsets of a finite set is proved by a smallest
counterexample, whose existence is `FS_StrictSubsetOrderingWellFounded`.  So it is
shown that the recursive function that sums exists, is unique and does not depend on
the order of the elements (`SumWithout`), what its type and bounds are, and
that the fold of the community modules computes it (`FoldIsSum`, `HeldIsSum`,
`CoveredIsSum`, `LiquidIsSum`, `ReplayFindsSum`).

### The risk manager

`RiskInv` says of each position that its average and its mark explain what is
called unrealized (`MarkedRight`), and of the totals that realized plus unrealized
is the cash plus what is held.  That a fill keeps this is an identity of fractions
in each of its cases (a position opened, extended, reduced or flipped: `Filled`),
proved by clearing the denominators (`CommonDenominator`, `Accounted`); `Lowest` is
proved to keep the value of a fraction.

`RiskLedgerSound` shows that the committed exposure is the sum of the reservations as
the counter holds it: `Wrapped` of the sum, whether or not the sum ever left the range.  The
argument is that wrapping after each addition is wrapping once (`WrappedTwice`, from
division with a remainder: `RemainderIs`, `Multiples`).  Its hypothesis `OrderFits` is that
an order of `max_order_value` does not saturate by itself; then what is released in pieces
adds up to what was reserved.  It is a condition on the configuration, which
the node's meets (5 million against 9.2 million at the code's scale) and the runs
`risk_manager` and `order_replay` do.  Without it an order above the range is
reserved as the largest value and released in pieces that add up to more: the risk check
does not reject it, and the theorem says nothing of it.

### The ring, the journal, the writer and the bus

`RingInv` gives, for each position of the lap that is in use, the sequence number of
its cell: ready for the consumer exactly if the position is claimed and its
producer is done.  A producer that is about to claim the position at which the ring
is has seen its cell free, and one that holds a cell is the only one.  That no two
positions of a lap share a cell is arithmetic (`OneLap`).  For the refinement each
step is shown to be a step of `JournalQueue`, or a stutter.

`JournalInv` has two halves.  `LossInv` holds whatever the threads do: the numbers
that the process has given out since it opened the file are in six places (at a
producer, in the ring, at the writer, in the file, dropped, spoiled), each in one
only.  What a reader finds in a file that was torn is the subject of `LinesStand`: the texts of
this process are events, each with a line of its own but perhaps the first.  `Lasting` are the texts that stand for
good: those that are intact for a reader and those of this process.  `Continued` says of a file
to which one more event is written, perhaps in part, that what lasts in it lasted before or is
that event.  The process numbers on from the largest number that it reads in the file it
opened (`Found`).  `OrderInv` holds while `~overlapped`: numbers and stamps increase along one
chain, from the file over the writer and the ring to the append in progress, the
writer announces in that order, and a waiting flush waits for the next number.

`WriterIInv` follows a tick from its call to the files.  `NothingVanishes` is inductive
as a partition: every step moves a set of ticks from one place to another (`Moved`) or
brings new ones (`Added`).  `FiledInOrder` is not inductive; `Pipeline` is its
strengthening: what a producer sent later is further from the files (with the
producer, on the queue, in the batch, in a file), so that a batch that falls back only
ever extends what is filed (`FilesGrow`, over a rotation that works and one that
fails).  For `StopDrains`, `Stopping` says how far `stop` and the worker are, and
`Draining` that after a stop that no producer overlapped no call works on the queue:
the worker's unlocked test then reads what is there, and it leaves an empty queue only.

`BusInv` again has a part that holds always (each call has a message of its own, and
counters and positions are counted off against the messages, hence their bounds)
and a part `Calm` while `~disturbed`: which positions are full, that each has a slot of
its own, and that what was made ready is in the ring, at the consumer, consumed or
discarded.

### The gateway and the server

`RateHolds` is about spans that begin anywhere, the code about windows that begin at a
request.  `WithinRate` relates them: what a token was admitted since its window began
is counted in the window, what it was admitted less than a window's length before that
is at most `MaxRequests`, and nothing was admitted after the window's end.  So a new
window finds at most as much again in any span that reaches into it
(`TotalAdmitting`, `FreshRate`, `ConsumedRate`; sums from `SumProofs`).  `CountersAddUp` needs only that
the calls in flight are finitely many: each call's step moves one request from them
to a counter, in whatever order the threads take them.

`ServerIInv` has a part that holds whatever is given out again: types, that a socket is
open only for a client whose thread means it (`Owned`), and that nothing goes on after
`stop` (`Ended`).  The rest, `ServedInOrder`, holds while `~shared`: no two threads mean one
handle (`OwnHandles`), a broadcast still to be sent goes to connections that switched
(`CastToUpgraded`), and `ServedBy` says what a client can have got by the step its thread is at:
nothing before its request is answered, one response before the connection is closed, and
frames only on a connection that was answered with the switch.  That an
entry with the WebSocket flag implies the 101 is what the order of the two steps in
`handle_http_request` (send, then flag) is for; the mutant `SwitchEarly` swaps them.  A
step of a thread is shown once to leave the other threads' connections as they are
(`ThreadStep`), so each action has to say only what its own client got.

### The signal engine and its registry

A tick scores evaluations in the middle of the queue while it walks over those of other
symbols.  `Walked` is that walk as a recursive function, and `WalkOK` what holds after
each place of it, shown by induction over the places (`WalkBegins`, `WalkGoesOn`,
`WalkEnds`): the queue that stays is in order and none of it was due, the blocks are what
the scores so far made of them, and for each strategy the scores, made at prices of
their symbol, and what stays add up to the evaluations walked over (`Share`).  The induction is the smallest counterexample,
a set of places with a least member (`Least`).  `Opens` says the same of the
one that `record_signal_open` puts behind all that are due no later.

Of one score `ResolvedIs` says what it can do to a block: the windows stay within their
lengths, a strategy that is active after it has no alarm (an alarm moves it, and a recovery
asks that none is left), and one that becomes blocked enters quarantine once
(`Governs`, which is transitive, so it holds from tick to tick).  That a strategy is
disabled for a full row of quarantines needs history: what the code keeps of the timestamps is
the end of `entries` (`KeepsTheLast`), and those that scores ordered follow each other in
time (`InTime`), though an operator's are as of zero; so all that `Recent` leaves are
within the lookback or an operator's (`FullRowIsDeserved`).

Of a thread `CallSound` says what the steps of `process` rely on: who submits was let
through, by a verdict that would be the same for an active strategy (`BetterIsWorthMore`
for the candidates that are better), and only who was let through has an order
accepted.  `SignalsAccounted` moves one thread into or out of the calls at a time
(`OneCallMoves`).  `SignalIInv` was checked by TLC, as an invariant of the run `strategy`,
before it was proved.

### Only model-checked

* Liveness (`FlushReturns`, `Delivery` and their like) and `CallGoesOn`, which rests on
  ENABLED: out of the prover's reach.
* The safety properties of `MarketSimulator` and `Backtest`.  What these say is what a
  definition computes over a list: the route of an order over the venues, the measures
  of a series of bars, the samples of a run.  For every input that is induction over data.

## 5. Not modelled

Not modelled, and why: the message protocol, the tick codec and the FIX adapter
are stateless conversions that the unit tests cover; value at risk, the
backtest's metrics, Monte Carlo and walk-forward are floating-point formulas
without state between calls; latency histograms and telemetry are write-only;
the data feed is text parsing and a paced loop over a file; sockets, clocks, CPU
pinning, the Python bridge, audit log and alerts are thin layers over the
operating system; the executables are wiring.  Of modelled components are left
out: in the gateway the latest ticks and its own journal entries, in the server
parsing, partial sends and a second start, in the simulator averages and
percentiles, in the regimes the confidence and the funding rate.
