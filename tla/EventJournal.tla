---------------------------- MODULE EventJournal ----------------------------
(***************************************************************************)
(* persist::AsyncEventJournal: any thread appends order events, one writer *)
(* thread puts them into the file.  An append numbers the event, stamps    *)
(* it, and pushes it into the ring (module JournalRing, here as the queue  *)
(* it implements); these are separate steps, between which other producers *)
(* do theirs.  A full ring drops the event, whose number is spent.         *)
(*                                                                         *)
(* The file is a sequence of texts of events and of line breaks.  It is    *)
(* written through the buffer of a stream: a text reaches the disk with a  *)
(* flush of the stream, or earlier when the buffer is full.  A process     *)
(* that dies leaves what is on the disk, and the next one appends to it.   *)
(* The last text may be torn, anywhere: in the digits of its number or of  *)
(* its stamp too, of which a reader takes those that are left for the      *)
(* number.  Nobody ends the torn line, so that the next process writes its *)
(* first event into it.                                                    *)
(*                                                                         *)
(* flush is called, by the destructor and by the programs, when no thread  *)
(* appends.  It uses the stream without a lock: if the writer is writing,  *)
(* that is a data race, after which the event's text may lack its line     *)
(* break or be lost.                                                       *)
(*                                                                         *)
(* The wake-up of the writer is left out: it waits no longer than a        *)
(* millisecond.  So are event numbers given by the caller, which prepare_- *)
(* event accepts: the program has no such caller.                          *)
(***************************************************************************)
EXTENDS Integers, Sequences, FiniteSets, SequencesExt, FiniteSetsExt

CONSTANTS
    Producers, Capacity, Nobody,
    Break,      \* a line break
    Times,      \* timestamps of the events: clock readings, in any order
    Radix,      \* of the digits in a text: ten in the code
    MaxEvents,  \* bound: the largest event number
    MaxOpens    \* bound: how many processes open the file one after another

ASSUME JournalAssumption ==
    /\ Capacity \in Nat \ {0, 1}
    /\ Nobody \notin Producers
    /\ Times \subseteq Nat \ {0}
    /\ Radix \in Nat \ {0, 1}
    /\ MaxEvents \in Nat
    /\ Break \notin [seq : 1 .. MaxEvents, ts : Nat]
    /\ Break \notin [seq : -1 .. MaxEvents, ts : Nat \cup {-1}, type : {-1, 0, 1}]

VARIABLES
    next_seq, last_ts, written_seq,  \* the counters
    producers,  \* the locals of each thread's append
    queue,      \* the ring buffer
    writer,     \* the writer thread: [pc, event]
    file,       \* events and line breaks, in the order they were written
    flushed,    \* how many of them are on the disk for certain
    flush,      \* the flush in progress: [pc, target, closing]
    opens,      \* history: the number of processes, for the bound
    base,       \* history: the length of the file when it was opened
    accepted,   \* history: numbers of this process that append answered true for
    dropped,    \* history: numbers of this process that found the ring full
    spoiled,    \* history: numbers of this process that a data race lost
    overlapped  \* history: an append began while another was under way

vars == <<next_seq, last_ts, written_seq, producers, queue, writer, file, flushed,
          flush, opens, base, accepted, dropped, spoiled, overlapped>>

counters == <<next_seq, last_ts>>
disk == <<file, flushed>>
history == <<opens, base, accepted, dropped, spoiled, overlapped>>

Events == [seq : 1 .. MaxEvents, ts : Nat]

\* Only the queue's operators are used, not its specification.
Queue == INSTANCE JournalQueue WITH Values <- Events, taken <- writer

Appending(p) == producers[p].pc # "idle"

-----------------------------------------------------------------------------
(* append                                                                  *)

TakeNumber(p) ==
    /\ writer.pc # "gone" /\ flush.pc = "idle"
    /\ ~Appending(p)
    /\ next_seq <= MaxEvents
    /\ producers' = [producers EXCEPT ![p] =
                       [pc |-> "numbered", event |-> [seq |-> next_seq, ts |-> 0]]]
    /\ next_seq' = next_seq + 1
    /\ overlapped' = (overlapped \/ \E q \in Producers : Appending(q))
    /\ UNCHANGED <<last_ts, written_seq, queue, writer, disk, flush,
                   opens, base, accepted, dropped, spoiled>>

\* Deviation: a stamp may be repeated.
StampedAgain(time) == IF last_ts # 0 /\ time < last_ts THEN last_ts + 1 ELSE time

\* The stamps of a process increase, whatever the clocks read.
Stamped(time) == IF last_ts # 0 /\ time <= last_ts THEN last_ts + 1 ELSE time

Stamp(p, time) ==
    /\ producers[p].pc = "numbered"
    /\ last_ts' = Stamped(time)
    /\ producers' = [producers EXCEPT ![p].pc = "stamped", ![p].event.ts = last_ts']
    /\ UNCHANGED <<next_seq, written_seq, queue, writer, disk, flush, history>>

Claim(p) ==
    /\ producers[p].pc = "stamped"
    /\ Queue!Room(queue)
    /\ queue' = Queue!Claimed(queue, p, producers[p].event)
    /\ producers' = [producers EXCEPT ![p].pc = "claimed"]
    /\ UNCHANGED <<counters, written_seq, writer, disk, flush, history>>

Drop(p) ==
    /\ producers[p].pc = "stamped"
    /\ ~Queue!Room(queue)
    /\ dropped' = dropped \cup {producers[p].event.seq}
    /\ producers' = [producers EXCEPT ![p].pc = "idle"]
    /\ UNCHANGED <<counters, written_seq, queue, writer, disk, flush,
                   opens, base, accepted, spoiled, overlapped>>

Fill(p) ==
    /\ producers[p].pc = "claimed"
    /\ queue' = Queue!Filled(queue, p)
    /\ accepted' = accepted \cup {producers[p].event.seq}
    /\ producers' = [producers EXCEPT ![p].pc = "idle"]
    /\ UNCHANGED <<counters, written_seq, writer, disk, flush,
                   opens, base, dropped, spoiled, overlapped>>

-----------------------------------------------------------------------------
(* The writer thread                                                       *)

Running == flush.pc # "closing"

Take ==
    /\ writer.pc = "idle" /\ Queue!CanTake(queue)
    /\ writer' = [pc |-> "writing", event |-> Head(queue).value]
    /\ queue' = Tail(queue)
    /\ UNCHANGED <<counters, written_seq, producers, disk, flush, history>>

Write ==
    /\ writer.pc = "writing"
    /\ file' = file \o <<writer.event, Break>>
    /\ writer' = [writer EXCEPT !.pc = "written"]
    /\ UNCHANGED <<counters, written_seq, producers, queue, flushed, flush, history>>

WriteRaced ==
    /\ writer.pc = "raced"
    /\ \/ file' = file \o <<writer.event, Break>> /\ UNCHANGED spoiled
       \/ file' = Append(file, writer.event) /\ UNCHANGED spoiled
       \/ UNCHANGED file /\ spoiled' = spoiled \cup {writer.event.seq}
    /\ writer' = [writer EXCEPT !.pc = "written"]
    /\ UNCHANGED <<counters, written_seq, producers, queue, flushed, flush,
                   opens, base, accepted, dropped, overlapped>>

Announce ==
    /\ writer.pc = "written"
    /\ written_seq' = writer.event.seq
    /\ writer' = [writer EXCEPT !.pc = "idle"]
    /\ UNCHANGED <<counters, producers, queue, disk, flush, history>>

\* The destructor joins the writer and closes the file.
Exit ==
    /\ ~Running
    /\ writer.pc = "idle" /\ queue = <<>>
    /\ flushed' = Len(file)
    /\ writer' = [writer EXCEPT !.pc = "gone"]
    /\ UNCHANGED <<counters, written_seq, producers, queue, file, flush, history>>

-----------------------------------------------------------------------------
(* flush, the destructor, and the file's next process                      *)

FlushBegin(closing) ==
    /\ writer.pc # "gone" /\ flush.pc = "idle"
    /\ \A p \in Producers : ~Appending(p)
    /\ flush' = [pc |-> "waiting", target |-> next_seq, closing |-> closing]
    /\ UNCHANGED <<counters, written_seq, producers, queue, writer, disk, history>>

\* Deviation: the target is taken for the last number, not for the next one.
FlushEndShort ==
    /\ flush.pc = "waiting"
    /\ flush.target <= 1 \/ written_seq >= flush.target - 2
    /\ flushed' = Len(file)
    /\ flush' = [flush EXCEPT !.pc = IF flush.closing THEN "closing" ELSE "idle"]
    /\ writer' = [writer EXCEPT !.pc = IF @ = "writing" THEN "raced" ELSE @]
    /\ UNCHANGED <<counters, written_seq, producers, queue, file, history>>

\* Deviation: the wait is for the number that the next event will get.
FlushEndBeyond ==
    /\ flush.pc = "waiting"
    /\ flush.target <= 1 \/ written_seq >= flush.target
    /\ flushed' = Len(file)
    /\ flush' = [flush EXCEPT !.pc = IF flush.closing THEN "closing" ELSE "idle"]
    /\ writer' = [writer EXCEPT !.pc = IF @ = "writing" THEN "raced" ELSE @]
    /\ UNCHANGED <<counters, written_seq, producers, queue, file, history>>

\* The writer has announced the number before the target.  The destructor goes
\* on to stop the writer.
FlushEnd ==
    /\ flush.pc = "waiting"
    /\ flush.target <= 1 \/ written_seq >= flush.target - 1
    /\ flushed' = Len(file)
    /\ flush' = [flush EXCEPT !.pc = IF flush.closing THEN "closing" ELSE "idle"]
    /\ writer' = [writer EXCEPT !.pc = IF @ = "writing" THEN "raced" ELSE @]
    /\ UNCHANGED <<counters, written_seq, producers, queue, file, history>>

Idle == [pc |-> "idle", event |-> [seq |-> 0, ts |-> 0]]
NoFlush == [pc |-> "idle", target |-> 0, closing |-> FALSE]

\* What a reader finds in a torn text: of each field that it is not there, that it
\* cannot be read, or what is read.
Absent == -1
Unreadable == 0
Readable == 1  \* of a type

Fragments == [seq : Absent .. MaxEvents, ts : Nat \cup {Absent},
              type : {Absent, Unreadable, Readable}]

\* The first digits of a number; zero stands for no digit.
Cut(n) == {m \in 0 .. n : \E k \in 0 .. n : m = n \div Radix ^ k}

\* What may be left of the text of an event: its fields are written in this order.
\* If the type is there, the rest of the text or only its line break is missing.
Torn(event) ==
    [seq : {Absent} \cup Cut(event.seq), ts : {Absent}, type : {Absent}]
    \cup [seq : {event.seq}, ts : Cut(event.ts), type : {Absent}]
    \cup [seq : {event.seq}, ts : {event.ts}, type : {Unreadable, Readable}]

\* A line begins with the first text after a line break, and ends before the next.
Lines(f) == {k \in DOMAIN f : f[k] # Break /\ (k = 1 \/ f[k - 1] = Break)}
TextsOf(f, k) == {j \in k .. Len(f) : \A i \in k .. j : f[i] # Break}

\* parse_u64_field: the field of the first text in the line that has it, zero if no
\* text has it or it has no digits.
Reads(f, k, field) ==
    LET having == {j \in TextsOf(f, k) : f[j][field] # Absent}
    IN  IF having = {} THEN Unreadable ELSE f[Min(having)][field]

\* The events that a reader finds as they were written: the first of their lines.
Intact(f) == {k \in Lines(f) : f[k] \in Events}

\* replay_file reads every line, or fails: the number, the stamp and the type.
ReplayReads(f) ==
    \A k \in Lines(f) :
      LET type(j) == IF f[j] \in Events THEN Readable ELSE f[j].type
          typed   == {j \in TextsOf(f, k) : type(j) # Absent}
      IN  /\ Reads(f, k, "seq") # Unreadable /\ Reads(f, k, "ts") # Unreadable
          /\ typed # {} /\ type(Min(typed)) = Readable

\* What replay_file counts as sequence_gaps, by their first missing number.
GapPositions(f) ==
    LET seq(k)  == Reads(f, k, "seq")
        next(j) == {k \in Lines(f) : k > j /\ Lines(f) \cap j + 1 .. k - 1 = {}}
    IN  {seq(j) + 1 : j \in {i \in Lines(f) : \E k \in next(i) : seq(k) # seq(i) + 1}}

\* Deviation: the file is taken to be in order.
LastLineSeq(f) == IF Lines(f) = {} THEN 0 ELSE Reads(f, Max(Lines(f)), "seq")

\* load_tail_stats: the largest number and stamp.
LastSeq(f) == Max({0} \cup {Reads(f, k, "seq") : k \in Lines(f)})

LastStamp(f) == Max({0} \cup {Reads(f, k, "ts") : k \in Lines(f)})

\* A process opens the file as it finds it.
Opened(f) ==
    /\ opens < MaxOpens
    /\ file' = f
    /\ flushed' = Len(f)
    /\ next_seq' = LastSeq(f) + 1
    /\ last_ts' = LastStamp(f)
    /\ written_seq' = 0
    /\ producers' = [p \in Producers |-> Idle]
    /\ queue' = <<>>
    /\ writer' = Idle
    /\ flush' = NoFlush
    /\ opens' = opens + 1
    /\ base' = Len(f)
    /\ accepted' = {}
    /\ dropped' = {}
    /\ spoiled' = {}
    /\ UNCHANGED overlapped

Reopen == writer.pc = "gone" /\ Opened(file)

\* The first texts of a file, and perhaps a part of the next.
Remains(text, kept) ==
    LET whole == SubSeq(text, 1, kept)
    IN  {whole} \cup IF kept < Len(text) /\ text[kept + 1] \in Events
                     THEN {Append(whole, torn) : torn \in Torn(text[kept + 1])} ELSE {}

\* The process dies: of what is written or being written, and is not on the
\* disk for certain, some is.
Crash(kept) ==
    /\ writer.pc # "gone"
    /\ LET text == IF writer.pc \in {"writing", "raced"}
                   THEN file \o <<writer.event, Break>> ELSE file
       IN  /\ kept \in flushed .. Len(text)
           /\ \E f \in Remains(text, kept) : Opened(f)

-----------------------------------------------------------------------------

Init ==
    /\ next_seq = 1 /\ last_ts = 0 /\ written_seq = 0
    /\ producers = [p \in Producers |-> Idle]
    /\ queue = <<>>
    /\ writer = Idle
    /\ file = <<>> /\ flushed = 0
    /\ flush = NoFlush
    /\ opens = 1 /\ base = 0 /\ accepted = {} /\ dropped = {} /\ spoiled = {}
    /\ overlapped = FALSE

ProducerStep(p) ==
    \/ \E time \in Times : Stamp(p, time)
    \/ Claim(p) \/ Drop(p) \/ Fill(p)

WriterStep == Take \/ Write \/ WriteRaced \/ Announce \/ Exit

Next ==
    \/ \E p \in Producers : TakeNumber(p) \/ ProducerStep(p)
    \/ WriterStep
    \/ \E closing \in BOOLEAN : FlushBegin(closing)
    \/ FlushEnd
    \/ Reopen
    \/ \E kept \in 0 .. 2 * MaxEvents * MaxOpens : Crash(kept)

\* Threads that can go on do: an append and the writer wait for nobody, and the
\* condition variable is notified after every event.
Fairness ==
    /\ \A p \in Producers : WF_vars(ProducerStep(p))
    /\ WF_vars(WriterStep)
    /\ WF_vars(FlushEnd)

Spec == Init /\ [][Next]_vars /\ Fairness

-----------------------------------------------------------------------------
(* Properties                                                              *)

TypeOK ==
    /\ next_seq \in 1 .. MaxEvents + 1 /\ last_ts \in Nat
    /\ written_seq \in 0 .. MaxEvents
    /\ \A p \in Producers :
         producers[p].pc \in {"idle", "numbered", "stamped", "claimed"}
    /\ queue \in Seq(Queue!Places) /\ Len(queue) <= Capacity
    /\ writer.pc \in {"idle", "writing", "raced", "written", "gone"}
    /\ \A k \in DOMAIN file : file[k] \in Events \cup Fragments \cup {Break}
    /\ flushed \in 0 .. Len(file)
    /\ flush.pc \in {"idle", "waiting", "closing"}

\* The events of this process that are in the file, readable or not.
Written == {file[k].seq : k \in {j \in base + 1 .. Len(file) : file[j] # Break}}

InAppend == {producers[p].event.seq : p \in {q \in Producers :
                                      producers[q].pc \in {"numbered", "stamped"}}}
InQueue == {queue[k].value.seq : k \in DOMAIN queue}
AtWriter == IF writer.pc \in {"writing", "raced"} THEN {writer.event.seq} ELSE {}

\* Every number that this process has handed out is in exactly one place: with
\* a producer, in the ring, with the writer, in the file, dropped, or spoiled by
\* a data race; nothing is lost silently, duplicated or numbered twice.
Accounted ==
    LET places == <<InAppend, InQueue, AtWriter, Written, dropped, spoiled>>
    IN  /\ UNION Range(places) = LastSeq(SubSeq(file, 1, base)) + 1 .. next_seq - 1
        /\ \A j, k \in DOMAIN places : j # k => places[j] \cap places[k] = {}
        /\ Len(queue) = Cardinality(InQueue)

\* No two events that a reader finds in the file have the same number, over torn
\* lines and restarts, although the numbers of lost events are handed out again.
LinesUnique ==
    \A j, k \in Intact(file) : file[j].seq = file[k].seq => j = k

\* Closing the journal writes and flushes every event that was accepted.
CloseDrains ==
    writer.pc = "gone" => accepted \subseteq Written \cup spoiled /\ flushed = Len(file)

\* No event is lost but those that a drop, a crash or a data race accounts for,
\* and none is there twice, over append, close and reopening.
NoneIsLost == TypeOK /\ Accounted /\ LinesUnique /\ CloseDrains

\* While appends do not overlap, numbers and stamps increase from event to event,
\* over crashes and restarts, whatever the torn lines between them say.
FileIncreases ==
    ~overlapped => \A j, k \in Intact(file) :
      j < k => file[j].seq < file[k].seq /\ file[j].ts < file[k].ts

\* While appends do not overlap, an event that the full ring dropped between two
\* lines of the file is noticed by replay as a gap, torn lines or not.
DropsAreNoticed ==
    ~overlapped => \A s \in dropped :
      LET seqs == {Reads(file, k, "seq") : k \in Lines(file)}
      IN  /\ s \notin seqs
          /\ (\E x, y \in seqs : x < s /\ s < y)
               => \E g \in GapPositions(file) : g <= s /\ g .. s \cap seqs = {}

\* While appends do not overlap, a torn end of the file costs the process that opens
\* it no event but its first: the others stand in lines of their own.
TearCostsOne ==
    ~overlapped => \A k \in base + 1 .. Len(file) :
      \/ file[k] = Break \/ k \in Intact(file)
      \/ k = base + 1 /\ base > 0 /\ file[base] # Break

\* While appends do not overlap, when flush returns, every event that was accepted
\* before is in the file and its text is flushed.
FlushCovers ==
    [][FlushEnd /\ ~overlapped => accepted \subseteq Written' /\ flushed' = Len(file')]_vars

\* While appends do not overlap, flush returns if the newest number of this process
\* was accepted or no number was ever given. It may wait for ever if the newest one
\* was dropped by a full ring, or was found in the file by this process.
FlushReturns ==
    (/\ flush.pc = "waiting" /\ ~overlapped
     /\ flush.target = 1 \/ flush.target - 1 \in accepted) ~> flush.pc # "waiting"

\* While appends do not overlap, flush and the writer do not use the stream at
\* once, so that every line is the text of one event.
StreamExclusive == overlapped \/ writer.pc # "raced"

\* While appends do not overlap, what is written can be read as it was written, but
\* for the lines that crashes tear: in order, and with every gap noticed.
FileIsReplayable == FileIncreases /\ DropsAreNoticed /\ TearCostsOne /\ StreamExclusive

\* README.md:104 and :309 say of the journal that its sequence is monotonic. In the lines that
\* replay_file reads after a crash it is not, even if appends do not overlap: of a
\* torn number the first digits are read.
SequenceIsMonotonic ==
    ReplayReads(file) /\ ~overlapped => \A j, k \in Lines(file) :
      j < k => Reads(file, j, "seq") < Reads(file, k, "seq")
=============================================================================
