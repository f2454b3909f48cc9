----------------------------- MODULE DataWriter -----------------------------
(***************************************************************************)
(* The persistence of market ticks (data_writer.cpp): producers put ticks  *)
(* on a bounded queue, a worker thread takes them in batches and copies    *)
(* each to the database or, when that fails, appends it to a CSV file that *)
(* is rotated by size.  The mutex is a variable, because stop clears the   *)
(* running flag without it and the worker reads the queue without it.  The *)
(* worker's wait on cv_ has a timeout, so it may wake at any time and the  *)
(* notifications of cv_ only make it sooner: they are left out.            *)
(***************************************************************************)
EXTENDS Integers, FiniteSets, FiniteSetsExt, Sequences, SequencesExt

CONSTANTS Callers, Unlocked,
          QueueCapacity, MaxBatch,
          CsvMax,           \* csv_max_bytes, in lines
          BackoffMin, BackoffMax,
          CallSizes,        \* ticks of one call: 1 is enqueue, more enqueue_batch
          MaxTicks, MaxStarts, MaxFaults   \* bounds: ticks of all producers, calls
                            \* of start, failures of the database and the files

ASSUME WriterAssumption ==
  /\ {QueueCapacity, MaxBatch, CsvMax, BackoffMin} \subseteq Nat \ {0}
  /\ BackoffMax \in Nat /\ BackoffMax >= BackoffMin
  /\ Unlocked \notin Callers /\ CallSizes \subseteq Nat \ {0}

VARIABLES overflowPolicy,   \* "DropNewest", "DropOldest" or "Block"
          database,   \* built with ARGENTUM_USE_LIBPQ
          queue, running, lock,
          producer,   \* producer -> where its call is and the ticks it still has
          sent,       \* producer -> ticks handed in so far (bound)
          worker,     \* where the worker thread is, and its batch
          control,    \* where the thread that starts and stops the writer is
          starts,     \* calls of start (bound)
          conn, backoff, faults,
          db,         \* ticks that the database has committed
          csv, archive,   \* lines of the CSV file, and the files rotated away
          dropped,    \* ticks counted by dropped_
          discarded, lost,  \* history: ticks refused when stopped, ticks of a
                            \* batch whose CSV file did not open
          late        \* history: a producer held the mutex when stop began

config == <<overflowPolicy, database>>
writerVars == <<config, queue, running, lock, producer, sent, worker, control, starts,
                conn, backoff, faults, db, csv, archive, dropped, discarded, lost, late>>
storage == <<conn, backoff, faults, db, csv, archive, lost>>

\* The ticks handed in so far.
Sent == MapThenSumSet(LAMBDA p : sent[p], Callers)
Out == [pc |-> "out", left |-> <<>>]
Header == <<"header", 0>>

\* enqueue and enqueue_batch take the mutex; a writer that is not running
\* refuses the ticks.
Enter(p, n) ==
  LET ticks == [k \in 1 .. n |-> <<p, sent[p] + k>>] IN
  /\ producer[p] = Out /\ lock = Unlocked /\ Sent + n <= MaxTicks
  /\ sent' = [sent EXCEPT ![p] = @ + n]
  /\ IF running
     THEN /\ lock' = p
          /\ producer' = [producer EXCEPT ![p] = [pc |-> "in", left |-> ticks]]
          /\ UNCHANGED discarded
     ELSE /\ discarded' = discarded \cup ToSet(ticks)
          /\ UNCHANGED <<lock, producer>>
  /\ UNCHANGED <<config, queue, running, worker, control, starts, storage, dropped, late>>

\* A call that returns releases the mutex; the ticks of "refused" are not stored.
Return(p, refused) ==
  /\ producer' = [producer EXCEPT ![p] = Out]
  /\ lock' = Unlocked
  /\ discarded' = discarded \cup ToSet(refused)

\* The call goes on to its next tick.
Advance(p) ==
  LET rest == Tail(producer[p].left) IN
  IF rest = <<>> THEN Return(p, <<>>)
  ELSE producer' = [producer EXCEPT ![p].left = rest] /\ UNCHANGED <<lock, discarded>>

\* The next tick goes on the queue; when that is full, the policy decides which
\* tick is dropped or whether the call waits, unless the writer was stopped.
Enqueue(p) ==
  /\ producer[p].pc = "in"
  /\ LET tick == Head(producer[p].left) IN
     \/ /\ Len(queue) < QueueCapacity
        /\ queue' = Append(queue, tick)
        /\ UNCHANGED dropped
        /\ Advance(p)
     \/ /\ Len(queue) >= QueueCapacity /\ overflowPolicy = "DropNewest"
        /\ dropped' = dropped \cup {tick}
        /\ UNCHANGED queue
        /\ Advance(p)
     \/ /\ Len(queue) >= QueueCapacity /\ overflowPolicy = "DropOldest"
        /\ queue' = Append(Tail(queue), tick)
        /\ dropped' = dropped \cup {Head(queue)}
        /\ Advance(p)
     \/ /\ Len(queue) >= QueueCapacity /\ overflowPolicy = "Block"
        /\ UNCHANGED <<queue, dropped>>
        /\ IF running
           THEN producer' = [producer EXCEPT ![p].pc = "full"] /\ UNCHANGED <<lock, discarded>>
           ELSE Return(p, producer[p].left)
  /\ UNCHANGED <<config, running, sent, worker, control, starts, storage, late>>

\* cv_space_.wait releases the mutex and sleeps.
Sleep(p) ==
  /\ producer[p].pc = "full"
  /\ producer' = [producer EXCEPT ![p].pc = "asleep"]
  /\ lock' = Unlocked
  /\ UNCHANGED <<config, queue, running, sent, worker, control, starts, storage, dropped, discarded, late>>

\* Notified, it takes the mutex again and looks for the reason.
Wake(p) ==
  /\ producer[p].pc = "woken" /\ lock = Unlocked
  /\ \/ /\ ~ running
        /\ producer' = [producer EXCEPT ![p] = Out]
        /\ discarded' = discarded \cup ToSet(producer[p].left)
        /\ UNCHANGED lock
     \/ /\ running
        /\ producer' = [producer EXCEPT ![p].pc = IF Len(queue) < QueueCapacity THEN "in" ELSE "full"]
        /\ lock' = p
        /\ UNCHANGED discarded
  /\ UNCHANGED <<config, queue, running, sent, worker, control, starts, storage, dropped, late>>

NotifySpace ==
  [p \in Callers |-> IF producer[p].pc = "asleep" THEN [producer[p] EXCEPT !.pc = "woken"]
                     ELSE producer[p]]

-----------------------------------------------------------------------------
\* Deviation: the worker leaves as soon as it is told to stop.
WorkerTestRunning ==
  /\ worker.pc = "test"
  /\ worker' = [worker EXCEPT !.pc = IF running THEN "wait" ELSE "done"]
  /\ UNCHANGED <<config, queue, running, lock, producer, sent, control, starts, storage, dropped, discarded, late>>

\* The condition of the worker's loop.  It reads the queue without the mutex:
\* while a producer changes it, either answer is possible.
WorkerTest ==
  /\ worker.pc = "test"
  /\ \E empty \in {queue = <<>>} \cup (IF \E p \in Callers : producer[p].pc = "in" THEN BOOLEAN ELSE {}) :
       worker' = [worker EXCEPT !.pc = IF running \/ ~ empty THEN "wait" ELSE "done"]
  /\ UNCHANGED <<config, queue, running, lock, producer, sent, control, starts, storage, dropped, discarded, late>>

\* Deviation: the producers that wait for space are not notified.
WorkerTakeSilently ==
  /\ worker.pc = "wait" /\ lock = Unlocked
  /\ LET n == IF Len(queue) < MaxBatch THEN Len(queue) ELSE MaxBatch IN
     /\ worker' = [pc |-> IF n = 0 THEN "test" ELSE "flush", batch |-> SubSeq(queue, 1, n)]
     /\ queue' = SubSeq(queue, n + 1, Len(queue))
  /\ UNCHANGED <<config, producer, running, lock, sent, control, starts, storage, dropped, discarded, late>>

\* cv_.wait_for returns, and the worker takes a batch if there is one.
WorkerTake ==
  /\ worker.pc = "wait" /\ lock = Unlocked
  /\ LET n == IF Len(queue) < MaxBatch THEN Len(queue) ELSE MaxBatch IN
     /\ worker' = [pc |-> IF n = 0 THEN "test" ELSE "flush", batch |-> SubSeq(queue, 1, n)]
     /\ queue' = SubSeq(queue, n + 1, Len(queue))
     /\ producer' = IF n = 0 THEN producer ELSE NotifySpace
  /\ UNCHANGED <<config, running, lock, sent, control, starts, storage, dropped, discarded, late>>

Fault == faults < MaxFaults /\ faults' = faults + 1

\* flush_batch connects if there is no connection; one that fails is waited
\* after, each time twice as long up to a limit.
Connect ==
  /\ worker.pc = "flush" /\ database /\ conn = "down"
  /\ \/ /\ conn' = "up" /\ backoff' = BackoffMin /\ UNCHANGED <<worker, faults>>
     \/ /\ Fault
        /\ backoff' = IF backoff * 2 < BackoffMax THEN backoff * 2 ELSE BackoffMax
        /\ worker' = [worker EXCEPT !.pc = "csv"] /\ UNCHANGED conn
  /\ UNCHANGED <<config, queue, running, lock, producer, sent, control, starts, db, csv, archive, lost, dropped, discarded, late>>

\* Deviation: a copy whose result says it failed is taken for done.
CopyUnchecked ==
  /\ worker.pc = "flush" /\ database /\ conn = "up"
  /\ \E committed \in BOOLEAN :
       /\ db' = IF committed THEN db \cup ToSet(worker.batch) ELSE db
       /\ IF committed THEN UNCHANGED faults ELSE Fault
       /\ worker' = [pc |-> "test", batch |-> <<>>]
  /\ conn' \in {"up", "down"}
  /\ UNCHANGED <<config, queue, running, lock, producer, sent, control, starts, backoff, csv, archive, lost, dropped, discarded, late>>

\* The COPY is committed or not, and the connection may be found lost after.
\* The writer falls back on the CSV file when it was not told of a success.
Copy ==
  /\ worker.pc = "flush" /\ database /\ conn = "up"
  /\ \E committed, told \in BOOLEAN :
       /\ told => committed
       /\ db' = IF committed THEN db \cup ToSet(worker.batch) ELSE db
       /\ IF told THEN UNCHANGED faults ELSE Fault
       /\ worker' = IF told THEN [pc |-> "test", batch |-> <<>>] ELSE [worker EXCEPT !.pc = "csv"]
  /\ conn' \in {"up", "down"}
  /\ UNCHANGED <<config, queue, running, lock, producer, sent, control, starts, backoff, csv, archive, lost, dropped, discarded, late>>

\* What a batch adds to the file: a header where the file is new.
Lines(old, rotates, batch) == (IF old = <<>> \/ rotates THEN <<Header>> ELSE <<>>) \o batch

\* flush_csv: a file of csv_max_bytes is renamed first; the rename may fail,
\* and so may the opening of the file.
FlushCsv ==
  /\ worker.pc = "csv" \/ (worker.pc = "flush" /\ ~ database)
  /\ LET rotates == Len(csv) >= CsvMax IN
     \E renamed, opened \in BOOLEAN :
       LET old == IF rotates /\ renamed THEN <<>> ELSE csv IN
       /\ renamed => rotates
       /\ IF opened /\ renamed = rotates THEN UNCHANGED faults ELSE Fault
       /\ archive' = IF renamed THEN Append(archive, csv) ELSE archive
       /\ csv' = IF opened THEN old \o Lines(old, rotates, worker.batch) ELSE old
       /\ lost' = IF opened THEN lost ELSE lost \cup ToSet(worker.batch)
  /\ worker' = [pc |-> "test", batch |-> <<>>]
  /\ UNCHANGED <<config, queue, running, lock, producer, sent, control, starts, conn, backoff, db, dropped, discarded, late>>

-----------------------------------------------------------------------------
Start ==
  /\ control = "out" /\ ~ running /\ starts < MaxStarts
  /\ running' = TRUE /\ starts' = starts + 1 /\ late' = FALSE
  /\ worker' = [pc |-> "test", batch |-> <<>>]
  /\ UNCHANGED <<config, queue, lock, producer, sent, control, storage, dropped, discarded>>

\* stop clears the flag, notifies and joins the worker.
StopBegin ==
  /\ control = "out" /\ running
  /\ running' = FALSE /\ control' = "notify"
  /\ late' = (lock # Unlocked)
  /\ UNCHANGED <<config, queue, lock, producer, sent, worker, starts, storage, dropped, discarded>>

StopNotify ==
  /\ control = "notify"
  /\ producer' = NotifySpace /\ control' = "join"
  /\ UNCHANGED <<config, queue, running, lock, sent, worker, starts, storage, dropped, discarded, late>>

StopJoin ==
  /\ control = "join" /\ worker.pc = "done"
  /\ control' = "out" /\ conn' = "down"
  /\ worker' = [pc |-> "none", batch |-> <<>>]
  /\ UNCHANGED <<config, queue, running, lock, producer, sent, starts, backoff, faults, db, csv, archive, lost, dropped, discarded, late>>

WriterInit ==
  /\ overflowPolicy \in {"DropNewest", "DropOldest", "Block"} /\ database \in BOOLEAN
  /\ queue = <<>> /\ running = FALSE /\ lock = Unlocked
  /\ producer = [p \in Callers |-> Out]
  /\ sent = [p \in Callers |-> 0]
  /\ worker = [pc |-> "none", batch |-> <<>>]
  /\ control = "out" /\ starts = 0
  /\ conn = "down" /\ backoff = BackoffMin /\ faults = 0
  /\ db = {} /\ csv = <<>> /\ archive = <<>>
  /\ dropped = {} /\ discarded = {} /\ lost = {} /\ late = FALSE

ProducerStep(p) == Enqueue(p) \/ Sleep(p) \/ Wake(p)
WorkerStep == WorkerTest \/ WorkerTake \/ Connect \/ Copy \/ FlushCsv
WriterNext ==
  \/ \E p \in Callers : ProducerStep(p) \/ \E n \in CallSizes : Enter(p, n)
  \/ WorkerStep \/ Start \/ StopBegin \/ StopNotify \/ StopJoin

\* The threads run; nobody has to call enqueue, start or stop.
Fairness ==
  /\ \A p \in Callers : WF_writerVars(ProducerStep(p))
  /\ WF_writerVars(WorkerStep)
  /\ WF_writerVars(StopNotify \/ StopJoin)

WriterSpec == WriterInit /\ [][WriterNext]_writerVars /\ Fairness
-----------------------------------------------------------------------------
Ticks == Callers \X (Nat \ {0})
HandedIn == UNION {{<<p, k>> : k \in 1 .. sent[p]} : p \in Callers}
Files == Append(archive, csv)
Filed == (UNION {ToSet(Files[i]) : i \in DOMAIN Files}) \ {Header}

\* Where a tick can be.  A batch that falls back may be in the database as well.
Places == [with    |-> UNION {ToSet(producer[p].left) : p \in Callers},
           queue   |-> ToSet(queue),
           batch   |-> ToSet(worker.batch) \ db,
           stored  |-> db \cup Filed,
           dropped |-> dropped, discarded |-> discarded, lost |-> lost \ db]

\* Of two ticks of one producer, t was sent first.
Precedes(t, u) == t[1] = u[1] /\ Header \notin {t, u} => t[2] < u[2]

(* The queue, the mutex, the threads and the store have the values the code  *)
(* gives them; the queue keeps its capacity and the backoff its limits.      *)
TypeOK ==
  /\ ToSet(queue) \subseteq Ticks /\ Len(queue) <= QueueCapacity
  /\ lock \in Callers \cup {Unlocked}
  /\ \A p \in Callers : /\ producer[p].pc \in {"out", "in", "full", "asleep", "woken"}
                        /\ producer[p].pc \in {"in", "full"} => lock = p
  /\ worker.pc \in {"none", "test", "wait", "flush", "csv", "done"}
  /\ Len(worker.batch) <= MaxBatch
  /\ control \in {"out", "notify", "join"}
  /\ conn \in {"up", "down"} /\ backoff \in BackoffMin .. BackoffMax
  /\ db \cup Filed \cup dropped \cup discarded \cup lost \subseteq Ticks

(* No tick vanishes: each one that was handed in is with its producer, on the *)
(* queue, in the worker's batch, stored, counted as dropped, refused because  *)
(* the writer was stopped, or in a batch whose file would not open; and it is *)
(* in one of these only (enqueue, worker_loop, flush_batch).                  *)
NothingVanishes ==
  /\ UNION {Places[x] : x \in DOMAIN Places} = HandedIn
  /\ \A x, y \in DOMAIN Places : x # y => Places[x] \cap Places[y] = {}

(* The files hold the ticks of a producer in the order it sent them and none  *)
(* twice, over rotations, drops, failed copies and restarts (flush_csv).      *)
FiledInOrder ==
  \A f, g \in DOMAIN Files : \A i \in DOMAIN Files[f], j \in DOMAIN Files[g] :
    f < g \/ (f = g /\ i < j) => Precedes(Files[f][i], Files[g][j])

(* Every file that was begun starts with the header, also the one after a    *)
(* rotation (flush_csv).                                                     *)
FilesHaveHeaders ==
  \A f \in DOMAIN Files : Files[f] # <<>> => Head(Files[f]) = Header

(* Whatever fails or overflows, every tick is accounted for, and what the     *)
(* files hold is in order and readable.                                       *)
TicksAccounted == TypeOK /\ NothingVanishes /\ FiledInOrder /\ FilesHaveHeaders

(* When stop has returned the queue is empty, but for what a producer put on *)
(* it that had the mutex when stop began: stop takes no mutex, and the worker *)
(* may leave before that producer is done (stop, worker_loop).               *)
StopDrains == control = "out" /\ ~ running => queue = <<>> \/ late

(* Every call returns: a producer that waits for space gets it or learns of  *)
(* the stop, also when the stop comes between its test and its sleep; and    *)
(* stop itself ends (enqueue, stop).                                         *)
CallsReturn ==
  /\ \A p \in Callers : (producer[p] # Out) ~> (producer[p] = Out)
  /\ (control # "out") ~> (control = "out")
=============================================================================
