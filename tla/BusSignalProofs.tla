-------------------------- MODULE BusSignalProofs --------------------------
(***************************************************************************)
(* One topic of the bus, for every capacity, policy and number of threads  *)
(* that publish; and the signal engine with the lifecycle of its           *)
(* strategies, for every number of threads in process, every candidate and *)
(* every sequence of ticks.  The two share no state.                       *)
(***************************************************************************)
EXTENDS MessageBus, SignalEngine, SumProofs, SequenceTheorems

Indices == 0 .. Capacity - 1

PublisherSteps == {"idle", "check", "copy", "ready", "advance", "count", "full", "discard"}
ConsumerSteps == {"none", "poll", "copy", "release", "count", "deliver", "gone"}
Metrics == [depth : Int, drops : Nat, hits : Nat]
Slots == [ready : BOOLEAN, message : Nat]
ConsumerLocals == [pc : ConsumerSteps, message : Nat, pos : Nat]
PublisherLocals == [pc : PublisherSteps, message : Nat, pos : Nat, retried : BOOLEAN]

Types ==
    /\ policy \in Policies /\ running \in BOOLEAN /\ subscribers \in 0 .. MaxSubscribers
    /\ slots \in [Indices -> Slots]
    /\ write_pos \in Nat /\ read_pos \in Nat
    /\ metrics \in Metrics
    /\ publisher \in [Publishers -> PublisherLocals]
    /\ consumer \in ConsumerLocals
    /\ sent \in 0 .. MaxMessages
    /\ consumed \in Seq(Nat) /\ disturbed \in BOOLEAN
    /\ \A k \in Indices : slots[k].message <= sent

-----------------------------------------------------------------------------
(* What holds whatever the threads do                                      *)

\* Each call has a message of its own, and no message has two answers.  A call
\* discards once, before it is retried, and neither if the newest is dropped.
MessagesOK ==
    /\ accepted \subseteq 1 .. sent /\ refused \subseteq 1 .. sent /\ accepted \cap refused = {}
    /\ \A p \in Publishers : Publishing(p) =>
         /\ publisher[p].message \in 1 .. sent
         /\ publisher[p].message \notin accepted \cup refused
         /\ \A q \in Publishers \ {p} : Publishing(q) => publisher[q].message # publisher[p].message
         /\ publisher[p].pc = "discard" => ~publisher[p].retried
         /\ policy = "DropNewest" => ~publisher[p].retried /\ publisher[p].pc # "discard"

\* The messages of the calls that are at one of the steps.
At(steps) == {publisher[p].message : p \in {q \in Publishers : publisher[q].pc \in steps}}

Tried == {publisher[p].message : p \in {q \in Publishers : Publishing(q) /\ publisher[q].retried}}

\* Those that moved the write position, that made their slot ready, that found the
\* ring full, and that discarded.
Placed == accepted \cup At({"count"})
Made == accepted \cup At({"advance", "count"})
Hit == accepted \cup refused \cup Tried \cup At({"discard"})
Dropped == accepted \cup refused \cup Tried

Busy == consumer.pc \in {"copy", "release", "count", "deliver"}
ReadySlots == {k \in Indices : slots[k].ready}

\* The consumer's turn is over with its slot, or somebody else's was.
Taken ==
    IF \/ consumer.pc \in {"count", "deliver"}
       \/ consumer.pc \in {"copy", "release"} /\ ~slots[SlotOf(consumer.pos)].ready
    THEN 1 ELSE 0

PositionsCounted ==
    /\ write_pos <= Cardinality(Placed)
    /\ \A p \in Publishers : publisher[p].pc \in {"copy", "ready", "advance"} =>
         publisher[p].pos <= Cardinality(Placed)
HitsCounted == metrics.hits <= Cardinality(Hit)
DropsCounted == metrics.drops <= Cardinality(Dropped)
ReadsCounted == read_pos <= Len(consumed) + (IF Busy THEN 1 ELSE 0) + Cardinality(Hit)
SlotsCounted == Cardinality(ReadySlots) + Len(consumed) + Taken <= Cardinality(Made)

CountsOK == PositionsCounted /\ HitsCounted /\ DropsCounted /\ ReadsCounted /\ SlotsCounted

CountInv == Types /\ MessagesOK /\ CountsOK

-----------------------------------------------------------------------------
(* What holds while each end of the ring has one user                      *)

Advancing == \E p \in Publishers : publisher[p].pc = "advance"

Top == write_pos + (IF Advancing THEN 1 ELSE 0)

Reads(x) == consumer.pc \in {"copy", "release"} /\ x = consumer.pos
Discards(x) == \E p \in Publishers : publisher[p].pc = "discard" /\ x = publisher[p].pos
Writing == \E p \in Publishers : publisher[p].pc \in {"copy", "ready"}

\* The positions with a message in their slot.
Full(x) == x \in read_pos .. Top - 1 \/ Reads(x) \/ Discards(x)

Msg(x) == slots[SlotOf(x)].message

Consuming == IF consumer.pc = "copy" THEN {Msg(consumer.pos)} ELSE AtConsumer

Kept == InRing \cup AtConsumer \cup Range(consumed) \cup discarded

OneEach ==
    /\ \A p, q \in Publishers : Publishing(p) /\ Publishing(q) => p = q
    /\ \A p \in Publishers : Publishing(p) => publisher[p].message = sent
    /\ ~running => \A p \in Publishers : ~Publishing(p)
    /\ consumer.pc = "gone" => ~running /\ write_pos <= read_pos

WindowOK ==
    /\ read_pos <= Top
    /\ \A p \in Publishers : publisher[p].pc \in {"copy", "ready", "advance"} =>
         publisher[p].pos = write_pos
    /\ \A x \in Nat : Reads(x) \/ Discards(x) => x < read_pos
    /\ \A x \in Nat : Reads(x) => ~Discards(x)
    /\ \A x \in Nat : Full(x) => Top <= x + Capacity
    /\ Writing => \A x \in Nat : Full(x) => write_pos < x + Capacity

SlotsOK ==
    /\ \A x \in Nat : Full(x) => slots[SlotOf(x)].ready
    /\ \A k \in Indices : slots[k].ready => \E x \in Nat : Full(x) /\ SlotOf(x) = k

OrderOK ==
    /\ \A x, y \in read_pos .. Top - 1 : x < y => Msg(x) < Msg(y)
    /\ \A x \in read_pos .. Top - 1 : \A m \in Consuming \cup Range(consumed) \cup discarded :
         m < Msg(x)
    /\ \A j, k \in DOMAIN consumed : j < k => consumed[j] < consumed[k]
    /\ \A m \in Consuming : \A k \in DOMAIN consumed : consumed[k] < m
    /\ (Consuming \cup Range(consumed)) \cap discarded = {}
    /\ consumer.pc = "release" => consumer.message = Msg(consumer.pos)
    /\ \A p \in Publishers :
         /\ publisher[p].pc = "discard" => Msg(publisher[p].pos) \in discarded
         /\ publisher[p].pc = "ready" => Msg(publisher[p].pos) = publisher[p].message

Calm ==
    /\ OneEach /\ WindowOK /\ SlotsOK /\ OrderOK
    /\ Kept = Made
    /\ DepthAccounts

BusInv == CountInv /\ (~disturbed => Calm)

-----------------------------------------------------------------------------
(* Slots and sets of messages                                              *)

LEMMA SlotType ==
    ASSUME NEW x \in Nat
    PROVE  SlotOf(x) \in Indices
BY BusAssumption DEF SlotOf, Indices

\* Two positions that share a slot are at least a lap apart.
LEMMA SameSlot ==
    ASSUME NEW x \in Nat, NEW y \in Nat, SlotOf(x) = SlotOf(y), x < y
    PROVE  x + Capacity <= y
<1>1. PICK c \in Nat \ {0} : c = Capacity
  BY BusAssumption
<1>2. PICK j, k, m : j = x \div c /\ k = y \div c /\ m = x % c
  OBVIOUS
<1>3. j \in Int /\ k \in Int /\ m \in Int /\ x = c * j + m /\ y = c * k + m
  BY <1>1, <1>2 DEF SlotOf
<1>4. CASE j < k
  <2>1. c * k = c * j + c + c * (k - j - 1) /\ c * (k - j - 1) \in Nat
    BY <1>1, <1>3, <1>4
  <2>2. PICK u, v : u = c * j /\ v = c * (k - j - 1)
    OBVIOUS
  <2>3. u \in Int /\ v \in Nat /\ y = u + c + v + m /\ x = u + m
    BY <1>1, <1>3, <2>1, <2>2
  <2>4. QED BY <1>1, <1>3, <2>3
<1>5. CASE k <= j
  <2>1. c * j = c * k + c * (j - k) /\ c * (j - k) \in Nat
    BY <1>1, <1>3, <1>5
  <2>2. PICK u, v : u = c * k /\ v = c * (j - k)
    OBVIOUS
  <2>3. u \in Int /\ v \in Nat /\ x = u + v + m /\ y = u + m
    BY <1>1, <1>3, <2>1, <2>2
  <2>4. QED BY <1>3, <2>3
<1>6. QED BY <1>3, <1>4, <1>5

LEMMA Grown ==
    ASSUME NEW n \in Nat, NEW T, T \subseteq 1 .. n, NEW S, S \subseteq T
    PROVE  /\ Cardinality(S) \in Nat /\ Cardinality(T) \in Nat
           /\ Cardinality(S) <= Cardinality(T) /\ Cardinality(T) <= n
           /\ \A m \in T \ S : Cardinality(S) + 1 <= Cardinality(T)
<1>1. IsFiniteSet(1 .. n) /\ Cardinality(1 .. n) = n
  BY FS_Interval
<1>2. IsFiniteSet(T) /\ IsFiniteSet(S) /\ Cardinality(T) <= n /\ Cardinality(S) <= Cardinality(T)
  BY <1>1, FS_Subset
<1>3. Cardinality(S) \in Nat /\ Cardinality(T) \in Nat
  BY <1>2, FS_CardinalityType
<1>4. ASSUME NEW m \in T \ S PROVE Cardinality(S) + 1 <= Cardinality(T)
  <2>1. S \subseteq T \ {m}
    BY <1>4
  <2>2. IsFiniteSet(T \ {m}) /\ Cardinality(T \ {m}) = Cardinality(T) - 1
    BY <1>2, <1>4, FS_RemoveElement
  <2>3. Cardinality(S) <= Cardinality(T \ {m})
    BY <2>1, <2>2, FS_Subset
  <2>4. QED BY <1>3, <2>2, <2>3
<1>5. QED BY <1>2, <1>3, <1>4

\* What the sets of messages are.
LEMMA InSets ==
    /\ \A m : m \in Placed <=>
         m \in accepted \/ \E p \in Publishers : publisher[p].pc = "count" /\ publisher[p].message = m
    /\ \A m : m \in Made <=>
         m \in accepted \/ \E p \in Publishers : publisher[p].pc \in {"advance", "count"}
                                                 /\ publisher[p].message = m
    /\ \A m : m \in Dropped <=>
         m \in accepted \cup refused \/ \E p \in Publishers :
           publisher[p].pc # "idle" /\ publisher[p].retried /\ publisher[p].message = m
    /\ \A m : m \in Hit <=>
         m \in Dropped \/ \E p \in Publishers : publisher[p].pc = "discard" /\ publisher[p].message = m
<1>1. \A m, steps : m \in At(steps) <=>
        \E p \in Publishers : publisher[p].pc \in steps /\ publisher[p].message = m
  BY DEF At
<1>2. \A m : m \in Tried <=>
        \E p \in Publishers :
          publisher[p].pc # "idle" /\ publisher[p].retried /\ publisher[p].message = m
  BY DEF Tried, Publishing
<1>3. \A m : m \in At({"count"}) <=>
        \E p \in Publishers : publisher[p].pc = "count" /\ publisher[p].message = m
  BY <1>1
<1>4. \A m : m \in At({"discard"}) <=>
        \E p \in Publishers : publisher[p].pc = "discard" /\ publisher[p].message = m
  BY <1>1
<1>5. \A m : m \in At({"advance", "count"}) <=>
        \E p \in Publishers : publisher[p].pc \in {"advance", "count"} /\ publisher[p].message = m
  BY <1>1
<1>6. Hit = Dropped \cup At({"discard"})
  BY DEF Hit, Dropped
<1>7. \A m : m \in Placed <=>
        m \in accepted \/ \E p \in Publishers : publisher[p].pc = "count" /\ publisher[p].message = m
  BY <1>3 DEF Placed
<1>8. \A m : m \in Made <=>
        m \in accepted \/ \E p \in Publishers : publisher[p].pc \in {"advance", "count"}
                                                /\ publisher[p].message = m
  BY <1>5 DEF Made
<1>9. \A m : m \in Dropped <=>
        m \in accepted \cup refused \/ \E p \in Publishers :
          publisher[p].pc # "idle" /\ publisher[p].retried /\ publisher[p].message = m
  BY <1>2 DEF Dropped
<1>10. \A m : m \in Hit <=>
        m \in Dropped \/ \E p \in Publishers : publisher[p].pc = "discard" /\ publisher[p].message = m
  BY <1>4, <1>6
<1>11. QED BY <1>7, <1>8, <1>9, <1>10

LEMMA SetsInRange ==
    ASSUME MessagesOK
    PROVE  /\ Placed \subseteq 1 .. sent /\ Made \subseteq 1 .. sent
           /\ Dropped \subseteq 1 .. sent /\ Hit \subseteq 1 .. sent
<1>1. PICK M : M = 1 .. sent
  OBVIOUS
<1>2. accepted \subseteq M /\ refused \subseteq M
  BY <1>1 DEF MessagesOK
<1>3. \A p \in Publishers : publisher[p].pc # "idle" => publisher[p].message \in M
  BY <1>1 DEF MessagesOK, Publishing
<1>4. Placed \subseteq M
  BY <1>2, <1>3, InSets
<1>5. Made \subseteq M
  BY <1>2, <1>3, InSets
<1>6. Dropped \subseteq M
  BY <1>2, <1>3, InSets
<1>7. Hit \subseteq M
  BY <1>2, <1>3, <1>6, InSets
<1>8. QED BY <1>1, <1>4, <1>5, <1>6, <1>7

\* One call goes on; what its message counts for it goes on to count for.
Progress(p) ==
    /\ \A q \in Publishers \ {p} : publisher'[q] = publisher[q]
    /\ accepted \subseteq accepted' /\ refused \subseteq refused'
    /\ publisher[p].pc = "count" => publisher[p].message \in accepted'
    /\ publisher[p].pc = "advance" =>
         publisher'[p].pc = "count" /\ publisher'[p].message = publisher[p].message
    /\ publisher[p].pc # "idle" /\ (publisher[p].retried \/ publisher[p].pc = "discard") =>
         \/ publisher[p].message \in accepted' \cup refused'
         \/ /\ publisher'[p].pc # "idle" /\ publisher'[p].retried
            /\ publisher'[p].message = publisher[p].message

LEMMA InSetsAfter ==
    /\ \A m : m \in Placed' <=>
         m \in accepted' \/ \E q \in Publishers : publisher'[q].pc = "count" /\ publisher'[q].message = m
    /\ \A m : m \in Made' <=>
         m \in accepted' \/ \E q \in Publishers : publisher'[q].pc \in {"advance", "count"}
                                                 /\ publisher'[q].message = m
    /\ \A m : m \in Dropped' <=>
         m \in accepted' \cup refused' \/ \E q \in Publishers :
           publisher'[q].pc # "idle" /\ publisher'[q].retried /\ publisher'[q].message = m
    /\ \A m : m \in Hit' <=>
         m \in Dropped' \/ \E q \in Publishers : publisher'[q].pc = "discard" /\ publisher'[q].message = m
BY DEF Placed, Made, Dropped, Hit, At, Tried, Publishing

LEMMA SetsGrow ==
    ASSUME NEW p \in Publishers, Progress(p)
    PROVE  Placed \subseteq Placed' /\ Made \subseteq Made' /\ Dropped \subseteq Dropped' /\ Hit \subseteq Hit'
<1>1. Placed \subseteq Placed'
  BY InSetsAfter, InSets DEF Progress
<1>2. Made \subseteq Made'
  BY InSetsAfter, InSets DEF Progress
<1>3. Dropped \subseteq Dropped'
  BY InSetsAfter, InSets DEF Progress
<1>4. Hit \subseteq Hit'
  BY <1>2, InSetsAfter, InSets DEF Progress
<1>5. QED BY <1>1, <1>2, <1>3, <1>4

LEMMA CardsGrow ==
    ASSUME MessagesOK', Types', NEW p \in Publishers, Progress(p)
    PROVE  /\ Cardinality(Placed) \in Nat /\ Cardinality(Placed') \in Nat
           /\ Cardinality(Made) \in Nat /\ Cardinality(Made') \in Nat
           /\ Cardinality(Hit) \in Nat /\ Cardinality(Hit') \in Nat
           /\ Cardinality(Dropped) \in Nat /\ Cardinality(Dropped') \in Nat
           /\ Cardinality(Placed) <= Cardinality(Placed')
           /\ Cardinality(Made) <= Cardinality(Made')
           /\ Cardinality(Hit) <= Cardinality(Hit')
           /\ Cardinality(Dropped) <= Cardinality(Dropped')
           /\ \A m \in Placed' \ Placed : Cardinality(Placed) + 1 <= Cardinality(Placed')
           /\ \A m \in Made' \ Made : Cardinality(Made) + 1 <= Cardinality(Made')
           /\ \A m \in Hit' \ Hit : Cardinality(Hit) + 1 <= Cardinality(Hit')
           /\ \A m \in Dropped' \ Dropped : Cardinality(Dropped) + 1 <= Cardinality(Dropped')
<1>1. /\ Placed \subseteq Placed' /\ Made \subseteq Made' /\ Dropped \subseteq Dropped'
      /\ Hit \subseteq Hit'
  BY SetsGrow
<1>2. PICK n : n = sent'
  OBVIOUS
<1>3. n \in Nat
  BY <1>2, BusAssumption DEF Types
<1>4. Placed' \subseteq 1 .. n /\ Made' \subseteq 1 .. n /\ Dropped' \subseteq 1 .. n /\ Hit' \subseteq 1 .. n
  <2>1. PICK M : M = 1 .. n
    OBVIOUS
  <2>2. accepted' \subseteq M /\ refused' \subseteq M
    BY <1>2, <2>1 DEF MessagesOK
  <2>3. \A q \in Publishers : publisher'[q].pc # "idle" => publisher'[q].message \in M
    BY <1>2, <2>1 DEF MessagesOK, Publishing
  <2>4. Placed' \subseteq M
    BY <2>2, <2>3, InSetsAfter
  <2>5. Made' \subseteq M
    BY <2>2, <2>3, InSetsAfter
  <2>6. Dropped' \subseteq M
    BY <2>2, <2>3, InSetsAfter
  <2>7. Hit' \subseteq M
    BY <2>3, <2>6, InSetsAfter
  <2>8. QED BY <2>1, <2>4, <2>5, <2>6, <2>7
<1>5. /\ Cardinality(Placed) \in Nat /\ Cardinality(Placed') \in Nat
      /\ Cardinality(Placed) <= Cardinality(Placed')
      /\ \A m \in Placed' \ Placed : Cardinality(Placed) + 1 <= Cardinality(Placed')
  BY <1>1, <1>3, <1>4, Grown
<1>6. /\ Cardinality(Made) \in Nat /\ Cardinality(Made') \in Nat
      /\ Cardinality(Made) <= Cardinality(Made')
      /\ \A m \in Made' \ Made : Cardinality(Made) + 1 <= Cardinality(Made')
  BY <1>1, <1>3, <1>4, Grown
<1>7. /\ Cardinality(Hit) \in Nat /\ Cardinality(Hit') \in Nat
      /\ Cardinality(Hit) <= Cardinality(Hit')
      /\ \A m \in Hit' \ Hit : Cardinality(Hit) + 1 <= Cardinality(Hit')
  BY <1>1, <1>3, <1>4, Grown
<1>8. /\ Cardinality(Dropped) \in Nat /\ Cardinality(Dropped') \in Nat
      /\ Cardinality(Dropped) <= Cardinality(Dropped')
      /\ \A m \in Dropped' \ Dropped : Cardinality(Dropped) + 1 <= Cardinality(Dropped')
  BY <1>1, <1>3, <1>4, Grown
<1>9. QED BY <1>5, <1>6, <1>7, <1>8

-----------------------------------------------------------------------------
(* The invariant that holds whatever the threads do                        *)

\* A step gives the thread that takes it these locals, and leaves the others alone.
Moves(p, pc, message, pos, retried) ==
    /\ publisher' \in [Publishers -> PublisherLocals]
    /\ \A q \in Publishers \ {p} : publisher'[q] = publisher[q]
    /\ publisher'[p].pc = pc /\ publisher'[p].message = message
    /\ publisher'[p].pos = pos /\ publisher'[p].retried = retried

LEMMA MovesOn ==
    ASSUME publisher \in [Publishers -> PublisherLocals],
           NEW p \in Publishers, NEW c \in PublisherSteps, 
           publisher' = [publisher EXCEPT ![p].pc = c]
    PROVE  Moves(p, c, publisher[p].message, publisher[p].pos, publisher[p].retried)
<1>1. publisher' \in [Publishers -> PublisherLocals]
  BY DEF PublisherLocals
<1>2. \A q \in Publishers \ {p} : publisher'[q] = publisher[q]
  OBVIOUS
<1>3. publisher'[p].pc = c /\ publisher'[p].message = publisher[p].message
  BY DEF PublisherLocals
<1>4. publisher'[p].pos = publisher[p].pos /\ publisher'[p].retried = publisher[p].retried
  BY DEF PublisherLocals
<1>5. QED BY <1>1, <1>2, <1>3, <1>4 DEF Moves

LEMMA MovesTo ==
    ASSUME publisher \in [Publishers -> PublisherLocals],
           NEW p \in Publishers, NEW c \in PublisherSteps, NEW x \in Nat,
           publisher' = [publisher EXCEPT ![p].pc = c, ![p].pos = x]
    PROVE  Moves(p, c, publisher[p].message, x, publisher[p].retried)
<1>1. publisher' \in [Publishers -> PublisherLocals]
  BY DEF PublisherLocals
<1>2. \A q \in Publishers \ {p} : publisher'[q] = publisher[q]
  OBVIOUS
<1>3. publisher'[p].pc = c /\ publisher'[p].message = publisher[p].message
  BY DEF PublisherLocals
<1>4. publisher'[p].pos = x /\ publisher'[p].retried = publisher[p].retried
  BY DEF PublisherLocals
<1>5. QED BY <1>1, <1>2, <1>3, <1>4 DEF Moves

LEMMA MovesAgain ==
    ASSUME publisher \in [Publishers -> PublisherLocals],
           NEW p \in Publishers, NEW c \in PublisherSteps, 
           publisher' = [publisher EXCEPT ![p].pc = c, ![p].retried = TRUE]
    PROVE  Moves(p, c, publisher[p].message, publisher[p].pos, TRUE)
<1>1. publisher' \in [Publishers -> PublisherLocals]
  BY DEF PublisherLocals
<1>2. \A q \in Publishers \ {p} : publisher'[q] = publisher[q]
  OBVIOUS
<1>3. publisher'[p].pc = c /\ publisher'[p].message = publisher[p].message
  BY DEF PublisherLocals
<1>4. publisher'[p].pos = publisher[p].pos /\ publisher'[p].retried = TRUE
  BY DEF PublisherLocals
<1>5. QED BY <1>1, <1>2, <1>3, <1>4 DEF Moves

LEMMA MovesAll ==
    ASSUME publisher \in [Publishers -> PublisherLocals],
           NEW p \in Publishers, NEW c \in PublisherSteps, NEW m \in Nat, NEW x \in Nat, NEW b \in BOOLEAN,
           publisher' = [publisher EXCEPT 
             ![p] = [pc |-> c, message |-> m, pos |-> x, retried |-> b]]
    PROVE  Moves(p, c, m, x, b)
<1>1. publisher' \in [Publishers -> PublisherLocals]
  BY DEF PublisherLocals
<1>2. \A q \in Publishers \ {p} : publisher'[q] = publisher[q]
  OBVIOUS
<1>3. publisher'[p].pc = c /\ publisher'[p].message = m
  BY DEF PublisherLocals
<1>4. publisher'[p].pos = x /\ publisher'[p].retried = b
  BY DEF PublisherLocals
<1>5. QED BY <1>1, <1>2, <1>3, <1>4 DEF Moves

LEMMA ThreadMoves ==
    ASSUME Types, NEW p \in Publishers
    PROVE  /\ PublishBegin(p) =>
                Moves(p, "check",
                      sent + 1, 0, FALSE)
           /\ PublishCheck(p) =>
                Moves(p, IF slots[SlotOf(write_pos)].ready THEN "full" ELSE "copy",
                      publisher[p].message, write_pos, publisher[p].retried)
           /\ PublishCopy(p) =>
                Moves(p, "ready",
                      publisher[p].message, publisher[p].pos, publisher[p].retried)
           /\ PublishReady(p) =>
                Moves(p, "advance",
                      publisher[p].message, publisher[p].pos, publisher[p].retried)
           /\ PublishAdvance(p) =>
                Moves(p, "count",
                      publisher[p].message, publisher[p].pos, publisher[p].retried)
           /\ PublishCount(p) =>
                Moves(p, "idle",
                      0, 0, FALSE)
           /\ PublishRefused(p) =>
                Moves(p, "idle",
                      0, 0, FALSE)
           /\ PublishRetry(p) =>
                Moves(p, "check",
                      publisher[p].message, publisher[p].pos, TRUE)
           /\ DiscardClaim(p) =>
                Moves(p, "discard",
                      publisher[p].message, read_pos, publisher[p].retried)
           /\ Discard(p) =>
                Moves(p, "check",
                      publisher[p].message, publisher[p].pos, TRUE)
<1>1. /\ publisher \in [Publishers -> PublisherLocals]
      /\ sent \in Nat /\ write_pos \in Nat /\ read_pos \in Nat
      /\ \A c \in {"idle", "check", "copy", "ready", "advance", "count", "full", "discard"} :
           c \in PublisherSteps
  BY BusAssumption DEF Types, PublisherSteps
<1>2. ASSUME PublishBegin(p)
      PROVE  Moves(p, "check",
                   sent + 1, 0, FALSE)
  <2>1. PICK m \in Nat : m = sent + 1
    BY <1>1
  <2>2. [Idle EXCEPT !.pc = "check", !.message = m] =
          [pc |-> "check", message |-> m, pos |-> 0, retried |-> FALSE]
    <3>1. Idle \in PublisherLocals
      BY DEF Idle, PublisherLocals, PublisherSteps
    <3>2. PICK l : l = [Idle EXCEPT !.pc = "check", !.message = m]
      OBVIOUS
    <3>3. l \in PublisherLocals
      BY <3>1, <3>2 DEF PublisherLocals, PublisherSteps
    <3>4. l.pc = "check" /\ l.message = m
      BY <3>1, <3>2 DEF PublisherLocals
    <3>5. l.pos = 0 /\ l.retried = FALSE
      BY <3>2 DEF Idle
    <3>6. l = [pc |-> l.pc, message |-> l.message, pos |-> l.pos, retried |-> l.retried]
      BY <3>3 DEF PublisherLocals
    <3>7. QED BY <3>2, <3>4, <3>5, <3>6
  <2>3. publisher' = [publisher EXCEPT
          ![p] = [pc |-> "check", message |-> m, pos |-> 0, retried |-> FALSE]]
    BY <1>2, <2>1, <2>2 DEF PublishBegin
  <2>4. Moves(p, "check", m, 0, FALSE)
    BY <1>1, <2>3, MovesAll
  <2>5. QED BY <2>1, <2>4
<1>3. ASSUME PublishCheck(p)
      PROVE  Moves(p, IF slots[SlotOf(write_pos)].ready THEN "full" ELSE "copy",
                   publisher[p].message, write_pos, publisher[p].retried)
  <2>1. PICK c \in PublisherSteps : c = IF slots[SlotOf(write_pos)].ready THEN "full" ELSE "copy"
    BY DEF PublisherSteps
  <2>2. publisher' = [publisher EXCEPT ![p].pc = c, ![p].pos = write_pos]
    BY <1>3, <2>1 DEF PublishCheck
  <2>3. Moves(p, c, publisher[p].message, write_pos, publisher[p].retried)
    BY <1>1, <2>2, MovesTo
  <2>4. QED BY <2>1, <2>3
<1>4. ASSUME PublishCopy(p)
      PROVE  Moves(p, "ready",
                   publisher[p].message, publisher[p].pos, publisher[p].retried)
  <2>1. publisher' = [publisher EXCEPT ![p].pc = "ready"]
    BY <1>4 DEF PublishCopy
  <2>2. Moves(p, "ready", publisher[p].message, publisher[p].pos, publisher[p].retried)
    BY <1>1, <2>1, MovesOn
  <2>3. QED BY <2>2
<1>5. ASSUME PublishReady(p)
      PROVE  Moves(p, "advance",
                   publisher[p].message, publisher[p].pos, publisher[p].retried)
  <2>1. publisher' = [publisher EXCEPT ![p].pc = "advance"]
    BY <1>5 DEF PublishReady
  <2>2. Moves(p, "advance", publisher[p].message, publisher[p].pos, publisher[p].retried)
    BY <1>1, <2>1, MovesOn
  <2>3. QED BY <2>2
<1>6. ASSUME PublishAdvance(p)
      PROVE  Moves(p, "count",
                   publisher[p].message, publisher[p].pos, publisher[p].retried)
  <2>1. publisher' = [publisher EXCEPT ![p].pc = "count"]
    BY <1>6 DEF PublishAdvance
  <2>2. Moves(p, "count", publisher[p].message, publisher[p].pos, publisher[p].retried)
    BY <1>1, <2>1, MovesOn
  <2>3. QED BY <2>2
<1>7. ASSUME PublishCount(p)
      PROVE  Moves(p, "idle",
                   0, 0, FALSE)
  <2>1. publisher' = [publisher EXCEPT ![p] = [pc |-> "idle", message |-> 0, pos |-> 0, retried |-> FALSE]]
    BY <1>7 DEF PublishCount, Idle
  <2>2. Moves(p, "idle", 0, 0, FALSE)
    BY <1>1, <2>1, MovesAll
  <2>3. QED BY <2>2
<1>8. ASSUME PublishRefused(p)
      PROVE  Moves(p, "idle",
                   0, 0, FALSE)
  <2>1. publisher' = [publisher EXCEPT ![p] = [pc |-> "idle", message |-> 0, pos |-> 0, retried |-> FALSE]]
    BY <1>8 DEF PublishRefused, Idle
  <2>2. Moves(p, "idle", 0, 0, FALSE)
    BY <1>1, <2>1, MovesAll
  <2>3. QED BY <2>2
<1>9. ASSUME PublishRetry(p)
      PROVE  Moves(p, "check",
                   publisher[p].message, publisher[p].pos, TRUE)
  <2>1. publisher' = [publisher EXCEPT ![p].pc = "check", ![p].retried = TRUE]
    BY <1>9 DEF PublishRetry
  <2>2. Moves(p, "check", publisher[p].message, publisher[p].pos, TRUE)
    BY <1>1, <2>1, MovesAgain
  <2>3. QED BY <2>2
<1>10. ASSUME DiscardClaim(p)
      PROVE  Moves(p, "discard",
                   publisher[p].message, read_pos, publisher[p].retried)
  <2>1. publisher' = [publisher EXCEPT ![p].pc = "discard", ![p].pos = read_pos]
    BY <1>10 DEF DiscardClaim
  <2>2. Moves(p, "discard", publisher[p].message, read_pos, publisher[p].retried)
    BY <1>1, <2>1, MovesTo
  <2>3. QED BY <2>2
<1>11. ASSUME Discard(p)
      PROVE  Moves(p, "check",
                   publisher[p].message, publisher[p].pos, TRUE)
  <2>1. publisher' = [publisher EXCEPT ![p].pc = "check", ![p].retried = TRUE]
    BY <1>11 DEF Discard
  <2>2. Moves(p, "check", publisher[p].message, publisher[p].pos, TRUE)
    BY <1>1, <2>1, MovesAgain
  <2>3. QED BY <2>2
<1>12. QED BY <1>2, <1>3, <1>4, <1>5, <1>6, <1>7, <1>8, <1>9, <1>10, <1>11

MetricsBecome(depth, drops, hits) ==
    metrics' \in Metrics /\ metrics'.depth = depth /\ metrics'.drops = drops /\ metrics'.hits = hits

LEMMA MetricsSet ==
    ASSUME metrics \in Metrics, NEW d \in Int, NEW x \in Nat, NEW h \in Nat
    PROVE  /\ metrics' = [metrics EXCEPT !.depth = d] =>
                MetricsBecome(d, metrics.drops, metrics.hits)
           /\ metrics' = [metrics EXCEPT !.hits = h] =>
                MetricsBecome(metrics.depth, metrics.drops, h)
           /\ metrics' = [metrics EXCEPT !.hits = h, !.drops = x] =>
                MetricsBecome(metrics.depth, x, h)
           /\ metrics' = [metrics EXCEPT !.drops = x, !.depth = d] =>
                MetricsBecome(d, x, metrics.hits)
BY DEF Metrics, MetricsBecome

LEMMA MetricsMove ==
    ASSUME Types, NEW p \in Publishers
    PROVE  /\ PublishCount(p) => MetricsBecome(metrics.depth + 1, metrics.drops, metrics.hits)
           /\ PublishRefused(p) =>
                MetricsBecome(metrics.depth,
                              IF policy = "DropNewest" THEN metrics.drops + 1 ELSE metrics.drops,
                              IF publisher[p].retried THEN metrics.hits ELSE metrics.hits + 1)
           /\ PublishRetry(p) =>
                MetricsBecome(metrics.depth, metrics.drops,
                              IF publisher[p].retried THEN metrics.hits ELSE metrics.hits + 1)
           /\ DiscardClaim(p) => MetricsBecome(metrics.depth, metrics.drops, metrics.hits + 1)
           /\ Discard(p) => MetricsBecome(metrics.depth - 1, metrics.drops + 1, metrics.hits)
<1>1. metrics \in Metrics /\ metrics.depth \in Int /\ metrics.drops \in Nat /\ metrics.hits \in Nat
  BY DEF Types, Metrics
<1>2. PICK up \in Int, down \in Int : up = metrics.depth + 1 /\ down = metrics.depth - 1
  BY <1>1
<1>3. PICK drop \in Nat, hit \in Nat : drop = metrics.drops + 1 /\ hit = metrics.hits + 1
  BY <1>1
<1>4. PICK d \in Nat : d = IF policy = "DropNewest" THEN metrics.drops + 1 ELSE metrics.drops
  BY <1>1
<1>5. PICK h \in Nat : h = IF publisher[p].retried THEN metrics.hits ELSE metrics.hits + 1
  BY <1>1
<1>6. PublishCount(p) => metrics' = [metrics EXCEPT !.depth = up]
  BY <1>2 DEF PublishCount
<1>7. PublishRefused(p) => metrics' = [metrics EXCEPT !.hits = h, !.drops = d]
  BY <1>4, <1>5 DEF PublishRefused
<1>8. PublishRetry(p) => metrics' = [metrics EXCEPT !.hits = h]
  BY <1>5 DEF PublishRetry
<1>9. DiscardClaim(p) => metrics' = [metrics EXCEPT !.hits = hit]
  BY <1>3 DEF DiscardClaim
<1>10. Discard(p) => metrics' = [metrics EXCEPT !.drops = drop, !.depth = down]
  BY <1>2, <1>3 DEF Discard
<1>12. PublishCount(p) => MetricsBecome(up, metrics.drops, metrics.hits)
  BY <1>1, <1>6, MetricsSet
<1>13. PublishRefused(p) => MetricsBecome(metrics.depth, d, h)
  BY <1>1, <1>7, MetricsSet
<1>14. PublishRetry(p) => MetricsBecome(metrics.depth, metrics.drops, h)
  BY <1>1, <1>8, MetricsSet
<1>15. DiscardClaim(p) => MetricsBecome(metrics.depth, metrics.drops, hit)
  BY <1>1, <1>9, MetricsSet
<1>16. Discard(p) => MetricsBecome(down, drop, metrics.hits)
  BY <1>1, <1>10, MetricsSet
<1>17. QED
  BY <1>2, <1>3, <1>4, <1>5, <1>12, <1>13, <1>14, <1>15, <1>16

ConsumerBecomes(pc, message, pos) ==
    /\ consumer' \in ConsumerLocals
    /\ consumer'.pc = pc /\ consumer'.message = message /\ consumer'.pos = pos

LEMMA ConsumerMoves ==
    ASSUME Types
    PROVE  /\ ConsumeClaim => ConsumerBecomes("copy", consumer.message, read_pos)
           /\ ConsumeCopy =>
                ConsumerBecomes("release", slots[SlotOf(consumer.pos)].message, consumer.pos)
           /\ ConsumeRelease => ConsumerBecomes("count", consumer.message, consumer.pos)
           /\ ConsumeCount =>
                /\ ConsumerBecomes("deliver", consumer.message, consumer.pos)
                /\ MetricsBecome(metrics.depth - 1, metrics.drops, metrics.hits)
           /\ Deliver => ConsumerBecomes("poll", consumer.message, consumer.pos)
           /\ ConsumerExit => ConsumerBecomes("gone", consumer.message, consumer.pos)
           /\ Subscribe => ConsumerBecomes(IF consumer.pc = "none" THEN "poll" ELSE consumer.pc,
                                           consumer.message, consumer.pos)
<1> DEFINE Set(c) == ConsumerBecomes(c, consumer.message, consumer.pos)
<1>1. consumer \in ConsumerLocals /\ read_pos \in Nat /\ consumer.pos \in Nat
  BY DEF Types, ConsumerLocals
<1>2. ASSUME NEW c \in ConsumerSteps, consumer' = [consumer EXCEPT !.pc = c] PROVE Set(c)
  BY <1>1, <1>2 DEF ConsumerBecomes, ConsumerLocals
<1>3. ConsumeRelease \/ ConsumeCount \/ Deliver \/ ConsumerExit =>
        /\ ConsumeRelease => consumer' = [consumer EXCEPT !.pc = "count"]
        /\ ConsumeCount => consumer' = [consumer EXCEPT !.pc = "deliver"]
        /\ Deliver => consumer' = [consumer EXCEPT !.pc = "poll"]
        /\ ConsumerExit => consumer' = [consumer EXCEPT !.pc = "gone"]
  BY DEF ConsumeRelease, ConsumeCount, Deliver, ConsumerExit
<1>4. /\ ConsumeRelease => Set("count")
      /\ ConsumeCount => Set("deliver")
      /\ Deliver => Set("poll")
      /\ ConsumerExit => Set("gone")
  BY <1>2, <1>3 DEF ConsumerSteps
<1>5. ASSUME ConsumeClaim PROVE ConsumerBecomes("copy", consumer.message, read_pos)
  <2>1. PICK x \in Nat : x = read_pos
    BY <1>1
  <2>2. consumer' = [consumer EXCEPT !.pc = "copy", !.pos = x]
    BY <1>5, <2>1 DEF ConsumeClaim
  <2>3. ConsumerBecomes("copy", consumer.message, x)
    BY <1>1, <2>2 DEF ConsumerBecomes, ConsumerLocals, ConsumerSteps
  <2>4. QED BY <2>1, <2>3
<1>6. ASSUME ConsumeCopy
      PROVE  ConsumerBecomes("release", slots[SlotOf(consumer.pos)].message, consumer.pos)
  <2>1. PICK m \in Nat : m = slots[SlotOf(consumer.pos)].message
    BY <1>1, SlotType DEF Types, Slots
  <2>2. consumer' = [consumer EXCEPT !.pc = "release", !.message = m]
    BY <1>6, <2>1 DEF ConsumeCopy
  <2>3. ConsumerBecomes("release", m, consumer.pos)
    BY <1>1, <2>2 DEF ConsumerBecomes, ConsumerLocals, ConsumerSteps
  <2>4. QED BY <2>1, <2>3
<1>7. ASSUME ConsumeCount PROVE MetricsBecome(metrics.depth - 1, metrics.drops, metrics.hits)
  <2>1. metrics \in Metrics /\ metrics.depth \in Int
    BY DEF Types, Metrics
  <2>2. PICK d \in Int : d = metrics.depth - 1
    BY <2>1
  <2>3. metrics' = [metrics EXCEPT !.depth = d]
    BY <1>7, <2>2 DEF ConsumeCount
  <2>4. MetricsBecome(d, metrics.drops, metrics.hits)
    BY <2>1, <2>3 DEF MetricsBecome, Metrics
  <2>5. QED BY <2>2, <2>4
<1>8. ASSUME Subscribe
      PROVE  Set(IF consumer.pc = "none" THEN "poll" ELSE consumer.pc)
  <2>1. CASE consumer.pc = "none"
    <3>1. consumer' = [consumer EXCEPT !.pc = "poll"]
      BY <1>8, <2>1 DEF Subscribe
    <3>2. QED BY <1>2, <2>1, <3>1 DEF ConsumerSteps
  <2>2. CASE consumer.pc # "none"
    <3>1. consumer' = consumer
      BY <1>8, <2>2 DEF Subscribe
    <3>2. QED BY <1>1, <2>2, <3>1 DEF ConsumerBecomes
  <2>3. QED BY <2>1, <2>2
<1>9. QED BY <1>4, <1>5, <1>6, <1>7, <1>8

LEMMA TypesKept ==
    ASSUME Types, MessagesOK, [Next]_vars
    PROVE  Types'
<1> USE BusAssumption
<1>0. /\ Idle \in PublisherLocals /\ sent \in Nat
      /\ \A p \in Publishers : publisher[p].message \in Nat /\ publisher[p].pos \in Nat
      /\ consumer.pos \in Nat /\ consumer.message \in Nat
      /\ \A k \in Indices : slots[k].message \in Nat /\ slots[k].message <= sent
      /\ SlotOf(read_pos) \in Indices /\ SlotOf(consumer.pos) \in Indices
      /\ \A p \in Publishers : SlotOf(publisher[p].pos) \in Indices
  <2>1. Idle \in PublisherLocals /\ sent \in Nat /\ read_pos \in Nat
    BY DEF Types, Idle, PublisherLocals, PublisherSteps
  <2>2. \A p \in Publishers : publisher[p].message \in Nat /\ publisher[p].pos \in Nat
    BY DEF Types, PublisherLocals
  <2>3. consumer.pos \in Nat /\ consumer.message \in Nat
    BY DEF Types, ConsumerLocals
  <2>4. \A k \in Indices : slots[k].message \in Nat /\ slots[k].message <= sent
    BY DEF Types, Slots
  <2>5. QED BY <2>1, <2>2, <2>3, <2>4, SlotType
<1>1. ASSUME NEW p \in Publishers, PublishBegin(p) PROVE Types'
  <2>1. publisher' \in [Publishers -> PublisherLocals]
    BY <1>1, ThreadMoves DEF Moves
  <2>2. disturbed' \in BOOLEAN /\ sent' \in 0 .. MaxMessages /\ sent < sent'
    BY <1>1 DEF PublishBegin, Types
  <2>3. \A k \in Indices : slots[k].message <= sent'
    BY <1>0, <2>2
  <2>4. QED BY <1>1, <2>1, <2>2, <2>3 DEF PublishBegin, Types, ring, answers
<1>2. ASSUME NEW p \in Publishers, PublishCheck(p) PROVE Types'
  <2>1. publisher' \in [Publishers -> PublisherLocals]
    BY <1>2, ThreadMoves DEF Moves
  <2>2. QED BY <1>2, <2>1 DEF PublishCheck, Types, ring, answers
<1>3. ASSUME NEW p \in Publishers, PublishCopy(p) PROVE Types'
  <2>1. publisher[p].message <= sent
    BY <1>0, <1>3 DEF MessagesOK, Publishing, PublishCopy
  <2>2. slots' \in [Indices -> Slots] /\ \A k \in Indices : slots'[k].message <= sent
    BY <1>0, <1>3, <2>1 DEF PublishCopy, Types, Slots
  <2>3. publisher' \in [Publishers -> PublisherLocals]
    BY <1>3, ThreadMoves DEF Moves
  <2>4. QED BY <1>3, <2>2, <2>3 DEF PublishCopy, Types, answers
<1>4. ASSUME NEW p \in Publishers, PublishReady(p) PROVE Types'
  <2>1. slots' \in [Indices -> Slots] /\ \A k \in Indices : slots'[k].message <= sent
    BY <1>0, <1>4 DEF PublishReady, Types, Slots
  <2>2. publisher' \in [Publishers -> PublisherLocals]
    BY <1>4, ThreadMoves DEF Moves
  <2>3. QED BY <1>4, <2>1, <2>2 DEF PublishReady, Types, answers
<1>5. ASSUME NEW p \in Publishers, PublishAdvance(p) PROVE Types'
  <2>1. publisher' \in [Publishers -> PublisherLocals]
    BY <1>5, ThreadMoves DEF Moves
  <2>2. write_pos' \in Nat
    BY <1>0, <1>5 DEF PublishAdvance
  <2>3. QED BY <1>5, <2>1, <2>2 DEF PublishAdvance, Types, ring, answers
<1>6. ASSUME NEW p \in Publishers, PublishCount(p) PROVE Types'
  <2>1. publisher' \in [Publishers -> PublisherLocals]
    BY <1>6, ThreadMoves DEF Moves
  <2>2. metrics' \in Metrics
    BY <1>6, MetricsMove DEF MetricsBecome
  <2>3. QED BY <1>6, <2>1, <2>2 DEF PublishCount, Types, ring, answers
<1>7. ASSUME NEW p \in Publishers, PublishRefused(p) PROVE Types'
  <2>1. publisher' \in [Publishers -> PublisherLocals]
    BY <1>7, ThreadMoves DEF Moves
  <2>2. metrics' \in Metrics
    BY <1>7, MetricsMove DEF MetricsBecome
  <2>3. QED BY <1>7, <2>1, <2>2 DEF PublishRefused, Types, ring, answers
<1>8. ASSUME NEW p \in Publishers, PublishRetry(p) PROVE Types'
  <2>1. publisher' \in [Publishers -> PublisherLocals]
    BY <1>8, ThreadMoves DEF Moves
  <2>2. metrics' \in Metrics
    BY <1>8, MetricsMove DEF MetricsBecome
  <2>3. QED BY <1>8, <2>1, <2>2 DEF PublishRetry, Types, ring, answers
<1>9. ASSUME NEW p \in Publishers, DiscardClaim(p) PROVE Types'
  <2>1. publisher' \in [Publishers -> PublisherLocals]
    BY <1>9, ThreadMoves DEF Moves
  <2>2. metrics' \in Metrics
    BY <1>9, MetricsMove DEF MetricsBecome
  <2>3. disturbed' \in BOOLEAN /\ read_pos' \in Nat
    BY <1>9 DEF DiscardClaim, Types
  <2>4. QED BY <1>9, <2>1, <2>2, <2>3 DEF DiscardClaim, Types, ring, answers
<1>10. ASSUME NEW p \in Publishers, Discard(p) PROVE Types'
  <2>1. slots' \in [Indices -> Slots] /\ \A k \in Indices : slots'[k].message <= sent
    BY <1>0, <1>10 DEF Discard, Types, Slots
  <2>2. publisher' \in [Publishers -> PublisherLocals]
    BY <1>10, ThreadMoves DEF Moves
  <2>3. metrics' \in Metrics
    BY <1>10, MetricsMove DEF MetricsBecome
  <2>4. QED BY <1>10, <2>1, <2>2, <2>3 DEF Discard, Types, answers
<1>11. CASE Subscribe
  <2>1. consumer' \in ConsumerLocals
    BY <1>11, ConsumerMoves DEF ConsumerBecomes
  <2>2. subscribers' \in 0 .. MaxSubscribers
    BY <1>11 DEF Subscribe, Types
  <2>3. QED BY <1>11, <2>1, <2>2 DEF Subscribe, Types, ring, answers
<1>12. CASE ConsumeClaim
  <2>1. consumer' \in ConsumerLocals
    BY <1>12, ConsumerMoves DEF ConsumerBecomes
  <2>2. disturbed' \in BOOLEAN /\ read_pos' \in Nat
    BY <1>12 DEF ConsumeClaim, Types
  <2>3. QED BY <1>12, <2>1, <2>2 DEF ConsumeClaim, Types, ring, answers
<1>13. CASE ConsumeCopy
  <2>1. consumer' \in ConsumerLocals
    BY <1>13, ConsumerMoves DEF ConsumerBecomes
  <2>2. QED BY <1>13, <2>1 DEF ConsumeCopy, Types, ring, answers
<1>14. CASE ConsumeRelease
  <2>1. slots' \in [Indices -> Slots] /\ \A k \in Indices : slots'[k].message <= sent
    BY <1>0, <1>14 DEF ConsumeRelease, Types, Slots
  <2>2. consumer' \in ConsumerLocals
    BY <1>14, ConsumerMoves DEF ConsumerBecomes
  <2>3. QED BY <1>14, <2>1, <2>2 DEF ConsumeRelease, Types, answers
<1>15. CASE ConsumeCount
  <2>1. consumer' \in ConsumerLocals
    BY <1>15, ConsumerMoves DEF ConsumerBecomes
  <2>2. metrics' \in Metrics
    BY <1>15, ConsumerMoves DEF MetricsBecome
  <2>3. QED BY <1>15, <2>1, <2>2 DEF ConsumeCount, Types, ring, answers
<1>16. CASE Deliver
  <2>1. consumer' \in ConsumerLocals
    BY <1>16, ConsumerMoves DEF ConsumerBecomes
  <2>2. consumed' \in Seq(Nat)
    BY <1>0, <1>16 DEF Deliver, Types
  <2>3. QED BY <1>16, <2>1, <2>2 DEF Deliver, Types, ring, answers
<1>17. CASE ConsumerExit
  <2>1. consumer' \in ConsumerLocals
    BY <1>17, ConsumerMoves DEF ConsumerBecomes
  <2>2. QED BY <1>17, <2>1 DEF ConsumerExit, Types, ring, answers
<1>18. CASE Shutdown
  BY <1>18 DEF Shutdown, Types, ring, answers
<1>19. CASE UNCHANGED vars
  BY <1>19 DEF vars, Types, ring, answers
<1>20. QED
  BY <1>1, <1>2, <1>3, <1>4, <1>5, <1>6, <1>7, <1>8, <1>9, <1>10, <1>11, <1>12, <1>13, <1>14,
     <1>15, <1>16, <1>17, <1>18, <1>19 DEF Next, PublishStep, ConsumerStep

\* A call goes on.
GoesOn(p, c, x, b) ==
    /\ publisher[p].pc # "idle" /\ c # "idle"
    /\ Moves(p, c, publisher[p].message, x, b)
    /\ c = "discard" => ~b
    /\ policy = "DropNewest" => ~b /\ c # "discard"
    /\ UNCHANGED <<policy, sent, accepted, refused>>

LEMMA CallGoesOn ==
    ASSUME Types, MessagesOK, NEW p \in Publishers, NEW c, NEW x, NEW b, GoesOn(p, c, x, b)
    PROVE  MessagesOK'
<1> USE DEF GoesOn
<1>1. \A q \in Publishers : publisher'[q].message = publisher[q].message
  BY DEF Moves
<1>2. \A q \in Publishers : publisher'[q].pc # "idle" <=> publisher[q].pc # "idle"
  BY DEF Moves
<1>3. \A q \in Publishers : publisher'[q].pc = "discard" => ~publisher'[q].retried
  BY DEF Moves, MessagesOK, Publishing
<1>4. ASSUME policy = "DropNewest", NEW q \in Publishers, publisher'[q].pc # "idle"
      PROVE  ~publisher'[q].retried /\ publisher'[q].pc # "discard"
  BY <1>4 DEF Moves, MessagesOK, Publishing
<1>5. PICK M : M = 1 .. sent
  OBVIOUS
<1>6. \A q \in Publishers : publisher[q].pc # "idle" => publisher[q].message \in M
  BY <1>5 DEF MessagesOK, Publishing
<1>7. \A q \in Publishers : publisher[q].pc # "idle" => publisher[q].message \notin accepted \cup refused
  BY DEF MessagesOK, Publishing
<1>8. \A q, r \in Publishers : q # r /\ publisher[q].pc # "idle" /\ publisher[r].pc # "idle" =>
        publisher[q].message # publisher[r].message
  BY DEF MessagesOK, Publishing
<1>9. accepted \subseteq M /\ refused \subseteq M /\ accepted \cap refused = {}
  BY <1>5 DEF MessagesOK
<1>10. QED
  BY <1>1, <1>2, <1>3, <1>4, <1>5, <1>6, <1>7, <1>8, <1>9 DEF MessagesOK, Publishing

\* A call ends, and its message has its answer.
LEMMA CallEnds ==
    ASSUME Types, MessagesOK, NEW p \in Publishers, publisher[p].pc # "idle",
           NEW m, NEW x, NEW b, Moves(p, "idle", m, x, b), UNCHANGED <<policy, sent>>,
           \/ accepted' = accepted \cup {publisher[p].message} /\ refused' = refused
           \/ refused' = refused \cup {publisher[p].message} /\ accepted' = accepted
    PROVE  MessagesOK'
<1>1. \A q \in Publishers : publisher'[q].pc # "idle" => q # p /\ publisher'[q] = publisher[q]
  BY DEF Moves
<1>2. PICK M : M = 1 .. sent
  OBVIOUS
<1>3. PICK n : n = publisher[p].message
  OBVIOUS
<1>4. /\ accepted \subseteq M /\ refused \subseteq M /\ accepted \cap refused = {}
      /\ n \in M /\ n \notin accepted \cup refused
  BY <1>2, <1>3 DEF MessagesOK, Publishing
<1>5. accepted' \subseteq M /\ refused' \subseteq M /\ accepted' \cap refused' = {}
  BY <1>3, <1>4
<1>6. ASSUME NEW q \in Publishers, publisher'[q].pc # "idle"
      PROVE  /\ publisher'[q].message \in M
             /\ publisher'[q].message \notin accepted' \cup refused'
             /\ \A r \in Publishers \ {q} :
                  publisher'[r].pc # "idle" => publisher'[r].message # publisher'[q].message
             /\ publisher'[q].pc = "discard" => ~publisher'[q].retried
             /\ policy = "DropNewest" => ~publisher'[q].retried /\ publisher'[q].pc # "discard"
  <2>1. q # p /\ publisher[q].pc # "idle" /\ publisher'[q] = publisher[q]
    BY <1>1, <1>6
  <2>2. /\ publisher[q].message \in M /\ publisher[q].message \notin accepted \cup refused
        /\ publisher[q].message # n
    BY <1>2, <1>3, <2>1 DEF MessagesOK, Publishing
  <2>3. publisher'[q].message \in M /\ publisher'[q].message \notin accepted' \cup refused'
    BY <1>3, <2>1, <2>2
  <2>4. \A r \in Publishers \ {q} :
          publisher'[r].pc # "idle" => publisher'[r].message # publisher'[q].message
    BY <1>1, <2>1 DEF MessagesOK, Publishing
  <2>5. /\ publisher'[q].pc = "discard" => ~publisher'[q].retried
        /\ policy = "DropNewest" => ~publisher'[q].retried /\ publisher'[q].pc # "discard"
    BY <2>1 DEF MessagesOK, Publishing
  <2>6. QED BY <2>3, <2>4, <2>5
<1>7. QED BY <1>2, <1>5, <1>6 DEF MessagesOK, Publishing

\* A call begins with a message that nobody has.
LEMMA CallBegins ==
    ASSUME Types, MessagesOK, NEW p \in Publishers, PublishBegin(p)
    PROVE  MessagesOK'
<1>1. /\ Moves(p, "check", sent + 1, 0, FALSE) /\ sent \in Nat
      /\ sent' = sent + 1 /\ policy' = policy /\ accepted' = accepted /\ refused' = refused
  <2>1. Moves(p, "check", sent + 1, 0, FALSE)
    BY ThreadMoves
  <2>2. sent \in Nat
    BY BusAssumption DEF Types
  <2>3. QED BY <2>1, <2>2 DEF PublishBegin, answers
<1>2. PICK n \in Nat : n = sent + 1
  BY <1>1
<1>3. PICK L, M : L = 1 .. sent /\ M = 1 .. n
  OBVIOUS
<1>4. L \subseteq M /\ n \in M /\ n \notin L
  BY <1>1, <1>2, <1>3
<1>5. accepted \subseteq L /\ refused \subseteq L /\ accepted \cap refused = {}
  BY <1>3 DEF MessagesOK
<1>6. \A q \in Publishers : publisher[q].pc # "idle" => publisher[q].message \in L
  BY <1>3 DEF MessagesOK, Publishing
<1>7. /\ publisher'[p].pc = "check" /\ publisher'[p].message = n /\ publisher'[p].retried = FALSE
      /\ \A q \in Publishers \ {p} : publisher'[q] = publisher[q]
  BY <1>1, <1>2 DEF Moves
<1>8. ASSUME NEW q \in Publishers, publisher'[q].pc # "idle"
      PROVE  /\ publisher'[q].message \in M
             /\ publisher'[q].message \notin accepted \cup refused
             /\ \A r \in Publishers \ {q} :
                  publisher'[r].pc # "idle" => publisher'[r].message # publisher'[q].message
             /\ publisher'[q].pc = "discard" => ~publisher'[q].retried
             /\ policy = "DropNewest" => ~publisher'[q].retried /\ publisher'[q].pc # "discard"
  <2>1. CASE q = p
    BY <1>4, <1>5, <1>6, <1>7, <2>1
  <2>2. CASE q # p
    <3>1. publisher'[q] = publisher[q] /\ publisher[q].pc # "idle"
      BY <1>7, <1>8, <2>2
    <3>2. publisher[q].message \in M /\ publisher[q].message \notin accepted \cup refused
      BY <1>4, <1>6, <3>1 DEF MessagesOK, Publishing
    <3>3. \A r \in Publishers \ {q} :
            publisher'[r].pc # "idle" => publisher'[r].message # publisher[q].message
      BY <1>4, <1>6, <1>7, <3>1 DEF MessagesOK, Publishing
    <3>4. /\ publisher[q].pc = "discard" => ~publisher[q].retried
          /\ policy = "DropNewest" => ~publisher[q].retried /\ publisher[q].pc # "discard"
      BY <3>1 DEF MessagesOK, Publishing
    <3>5. QED BY <3>1, <3>2, <3>3, <3>4
  <2>3. QED BY <2>1, <2>2
<1>9. accepted \subseteq M /\ refused \subseteq M
  BY <1>4, <1>5
<1>10. QED BY <1>1, <1>2, <1>3, <1>5, <1>8, <1>9 DEF MessagesOK, Publishing

LEMMA MessagesKept ==
    ASSUME Types, MessagesOK, [Next]_vars
    PROVE  MessagesOK'
<1>1. ASSUME NEW p \in Publishers, PublishBegin(p) PROVE MessagesOK'
  BY <1>1, CallBegins
<1>2. ASSUME NEW p \in Publishers, PublishCheck(p) PROVE MessagesOK'
  <2>1. PICK c : c = IF slots[SlotOf(write_pos)].ready THEN "full" ELSE "copy"
    OBVIOUS
  <2>2. Moves(p, c, publisher[p].message, write_pos, publisher[p].retried)
    BY <1>2, <2>1, ThreadMoves
  <2>3. UNCHANGED <<policy, sent, accepted, refused>> /\ publisher[p].pc # "idle"
    BY <1>2 DEF PublishCheck, answers
  <2>4. policy = "DropNewest" => ~publisher[p].retried
    BY <2>3 DEF MessagesOK, Publishing
  <2>5. GoesOn(p, c, write_pos, publisher[p].retried)
    BY <2>1, <2>2, <2>3, <2>4 DEF GoesOn
  <2>6. QED BY <2>5, CallGoesOn
<1>3. ASSUME NEW p \in Publishers, PublishCopy(p) PROVE MessagesOK'
  <2>1. Moves(p, "ready", publisher[p].message, publisher[p].pos, publisher[p].retried)
    BY <1>3, ThreadMoves
  <2>2. UNCHANGED <<policy, sent, accepted, refused>> /\ publisher[p].pc # "idle"
    BY <1>3 DEF PublishCopy, answers
  <2>3. policy = "DropNewest" => ~publisher[p].retried
    BY <2>2 DEF MessagesOK, Publishing
  <2>4. GoesOn(p, "ready", publisher[p].pos, publisher[p].retried)
    BY <2>1, <2>2, <2>3 DEF GoesOn
  <2>5. QED BY <2>4, CallGoesOn
<1>4. ASSUME NEW p \in Publishers, PublishReady(p) PROVE MessagesOK'
  <2>1. Moves(p, "advance", publisher[p].message, publisher[p].pos, publisher[p].retried)
    BY <1>4, ThreadMoves
  <2>2. UNCHANGED <<policy, sent, accepted, refused>> /\ publisher[p].pc # "idle"
    BY <1>4 DEF PublishReady, answers
  <2>3. policy = "DropNewest" => ~publisher[p].retried
    BY <2>2 DEF MessagesOK, Publishing
  <2>4. GoesOn(p, "advance", publisher[p].pos, publisher[p].retried)
    BY <2>1, <2>2, <2>3 DEF GoesOn
  <2>5. QED BY <2>4, CallGoesOn
<1>5. ASSUME NEW p \in Publishers, PublishAdvance(p) PROVE MessagesOK'
  <2>1. Moves(p, "count", publisher[p].message, publisher[p].pos, publisher[p].retried)
    BY <1>5, ThreadMoves
  <2>2. UNCHANGED <<policy, sent, accepted, refused>> /\ publisher[p].pc # "idle"
    BY <1>5 DEF PublishAdvance, answers
  <2>3. policy = "DropNewest" => ~publisher[p].retried
    BY <2>2 DEF MessagesOK, Publishing
  <2>4. GoesOn(p, "count", publisher[p].pos, publisher[p].retried)
    BY <2>1, <2>2, <2>3 DEF GoesOn
  <2>5. QED BY <2>4, CallGoesOn
<1>6. ASSUME NEW p \in Publishers, PublishCount(p) PROVE MessagesOK'
  <2>1. Moves(p, "idle", 0, 0, FALSE)
    BY <1>6, ThreadMoves
  <2>2. /\ UNCHANGED <<policy, sent, refused>> /\ publisher[p].pc # "idle"
        /\ accepted' = accepted \cup {publisher[p].message}
    BY <1>6 DEF PublishCount
  <2>3. QED BY <2>1, <2>2, CallEnds
<1>7. ASSUME NEW p \in Publishers, PublishRefused(p) PROVE MessagesOK'
  <2>1. Moves(p, "idle", 0, 0, FALSE)
    BY <1>7, ThreadMoves
  <2>2. /\ UNCHANGED <<policy, sent, accepted>> /\ publisher[p].pc # "idle"
        /\ refused' = refused \cup {publisher[p].message}
    BY <1>7 DEF PublishRefused
  <2>3. QED BY <2>1, <2>2, CallEnds
<1>8. ASSUME NEW p \in Publishers, PublishRetry(p) PROVE MessagesOK'
  <2>1. Moves(p, "check", publisher[p].message, publisher[p].pos, TRUE)
    BY <1>8, ThreadMoves
  <2>2. /\ UNCHANGED <<policy, sent, accepted, refused>> /\ publisher[p].pc # "idle"
        /\ policy # "DropNewest"
    BY <1>8 DEF PublishRetry, answers
  <2>3. GoesOn(p, "check", publisher[p].pos, TRUE)
    BY <2>1, <2>2 DEF GoesOn
  <2>4. QED BY <2>3, CallGoesOn
<1>9. ASSUME NEW p \in Publishers, DiscardClaim(p) PROVE MessagesOK'
  <2>1. Moves(p, "discard", publisher[p].message, read_pos, publisher[p].retried)
    BY <1>9, ThreadMoves
  <2>2. /\ UNCHANGED <<policy, sent, accepted, refused>> /\ publisher[p].pc # "idle"
        /\ policy # "DropNewest" /\ ~publisher[p].retried
    BY <1>9 DEF DiscardClaim
  <2>3. GoesOn(p, "discard", read_pos, publisher[p].retried)
    BY <2>1, <2>2 DEF GoesOn
  <2>4. QED BY <2>3, CallGoesOn
<1>10. ASSUME NEW p \in Publishers, Discard(p) PROVE MessagesOK'
  <2>1. Moves(p, "check", publisher[p].message, publisher[p].pos, TRUE)
    BY <1>10, ThreadMoves
  <2>2. /\ UNCHANGED <<policy, sent, accepted, refused>> /\ publisher[p].pc = "discard"
    BY <1>10 DEF Discard, answers
  <2>3. policy # "DropNewest"
    BY <2>2 DEF MessagesOK, Publishing
  <2>4. GoesOn(p, "check", publisher[p].pos, TRUE)
    BY <2>1, <2>2, <2>3 DEF GoesOn
  <2>5. QED BY <2>4, CallGoesOn
<1>11. CASE Subscribe \/ ConsumerStep \/ Shutdown \/ UNCHANGED vars
  <2>1. UNCHANGED <<policy, sent, accepted, refused, publisher>>
    BY <1>11 DEF Subscribe, ConsumerStep, ConsumeClaim, ConsumeCopy, ConsumeRelease, ConsumeCount,
                 Deliver, ConsumerExit, Shutdown, vars, ring, answers
  <2>2. QED BY <2>1 DEF MessagesOK, Publishing
<1>12. QED
  BY <1>1, <1>2, <1>3, <1>4, <1>5, <1>6, <1>7, <1>8, <1>9, <1>10, <1>11 DEF Next, PublishStep

\* A thread is no further back with its message than it was.
LEMMA ThreadsProgress ==
    ASSUME Types, NEW p \in Publishers, PublishBegin(p) \/ PublishStep(p)
    PROVE  Progress(p)
<1>1. CASE PublishBegin(p)
  BY <1>1, ThreadMoves DEF Moves, PublishBegin, Publishing, answers, Progress
<1>2. CASE PublishCheck(p)
  <2>1. PICK c : c = IF slots[SlotOf(write_pos)].ready THEN "full" ELSE "copy"
    OBVIOUS
  <2>2. Moves(p, c, publisher[p].message, write_pos, publisher[p].retried) /\ c # "idle"
    BY <1>2, <2>1, ThreadMoves
  <2>3. publisher[p].pc = "check" /\ UNCHANGED <<accepted, refused>>
    BY <1>2 DEF PublishCheck, answers
  <2>4. QED BY <2>2, <2>3 DEF Moves, Progress
<1>3. CASE PublishCopy(p)
  BY <1>3, ThreadMoves DEF Moves, PublishCopy, answers, Progress
<1>4. CASE PublishReady(p)
  BY <1>4, ThreadMoves DEF Moves, PublishReady, answers, Progress
<1>5. CASE PublishAdvance(p)
  BY <1>5, ThreadMoves DEF Moves, PublishAdvance, answers, Progress
<1>6. CASE PublishCount(p)
  BY <1>6, ThreadMoves DEF Moves, PublishCount, Progress
<1>7. CASE PublishRefused(p)
  BY <1>7, ThreadMoves DEF Moves, PublishRefused, Progress
<1>8. CASE PublishRetry(p)
  BY <1>8, ThreadMoves DEF Moves, PublishRetry, answers, Progress
<1>9. CASE DiscardClaim(p)
  BY <1>9, ThreadMoves DEF Moves, DiscardClaim, Progress
<1>10. CASE Discard(p)
  BY <1>10, ThreadMoves DEF Moves, Discard, answers, Progress
<1>11. QED
  BY <1>1, <1>2, <1>3, <1>4, <1>5, <1>6, <1>7, <1>8, <1>9, <1>10 DEF PublishStep

\* What a message does not count for yet.
LEMMA NotYet ==
    ASSUME MessagesOK, NEW p \in Publishers, publisher[p].pc # "idle"
    PROVE  /\ publisher[p].pc # "count" => publisher[p].message \notin Placed
           /\ publisher[p].pc \notin {"advance", "count"} => publisher[p].message \notin Made
           /\ ~publisher[p].retried => publisher[p].message \notin Dropped
           /\ ~publisher[p].retried /\ publisher[p].pc # "discard" =>
                publisher[p].message \notin Hit
<1>1. publisher[p].message \notin accepted \cup refused
  BY DEF MessagesOK, Publishing
<1>2. \A q \in Publishers : q # p /\ publisher[q].pc # "idle" =>
        publisher[q].message # publisher[p].message
  BY DEF MessagesOK, Publishing
<1>3. publisher[p].pc # "count" => publisher[p].message \notin Placed
  BY <1>1, <1>2, InSets
<1>4. publisher[p].pc \notin {"advance", "count"} => publisher[p].message \notin Made
  BY <1>1, <1>2, InSets
<1>5. ~publisher[p].retried => publisher[p].message \notin Dropped
  BY <1>1, <1>2, InSets
<1>6. ~publisher[p].retried /\ publisher[p].pc # "discard" => publisher[p].message \notin Hit
  BY <1>2, <1>5, InSets
<1>7. QED BY <1>3, <1>4, <1>5, <1>6

\* The write position, and every position a thread writes to, have as many messages
\* before them as were placed.
LEMMA PositionsKept ==
    ASSUME CountInv, Types', MessagesOK', NEW p \in Publishers, PublishBegin(p) \/ PublishStep(p)
    PROVE  PositionsCounted'
<1>1. PICK a, b : a = Cardinality(Placed) /\ b = Cardinality(Placed')
  OBVIOUS
<1>2. Progress(p)
  BY ThreadsProgress DEF CountInv
<1>3. a \in Nat /\ b \in Nat /\ a <= b /\ \A m \in Placed' \ Placed : a + 1 <= b
  BY <1>1, <1>2, CardsGrow
<1>4. write_pos \in Nat /\ write_pos <= a
  BY <1>1 DEF CountInv, Types, CountsOK, PositionsCounted
<1>5. \A q \in Publishers : publisher[q].pos \in Nat /\ publisher'[q].pos \in Nat
  BY DEF CountInv, Types, PublisherLocals
<1>6. \A q \in Publishers : publisher[q].pc \in {"copy", "ready", "advance"} => publisher[q].pos <= a
  BY <1>1 DEF CountInv, CountsOK, PositionsCounted
<1>7. \A q \in Publishers \ {p} : publisher'[q] = publisher[q]
  BY <1>2 DEF Progress
<1>8. SUFFICES /\ write_pos' <= b
               /\ publisher'[p].pc \in {"copy", "ready", "advance"} => publisher'[p].pos <= b
  <2>1. ASSUME NEW q \in Publishers \ {p}, publisher'[q].pc \in {"copy", "ready", "advance"}
        PROVE  publisher'[q].pos <= b
    <3>1. publisher[q].pos <= a /\ publisher'[q].pos = publisher[q].pos
      BY <1>6, <1>7, <2>1
    <3>2. QED BY <1>3, <1>5, <3>1
  <2>2. QED BY <1>1, <2>1 DEF PositionsCounted
<1>9. CASE PublishCheck(p)
  <2>1. write_pos' = write_pos /\ publisher'[p].pos = write_pos
    BY <1>9, ThreadMoves DEF CountInv, Moves, PublishCheck, ring
  <2>2. QED BY <1>3, <1>4, <2>1
<1>10. CASE PublishCopy(p) \/ PublishReady(p)
  <2>1. /\ write_pos' = write_pos /\ publisher'[p].pos = publisher[p].pos
        /\ publisher[p].pc \in {"copy", "ready"}
    BY <1>10, ThreadMoves DEF CountInv, Moves, PublishCopy, PublishReady
  <2>2. QED BY <1>3, <1>4, <1>5, <1>6, <2>1
<1>11. CASE PublishAdvance(p)
  <2>1. /\ write_pos' = publisher[p].pos + 1 /\ publisher[p].pc = "advance"
        /\ publisher'[p].pc = "count" /\ publisher'[p].message = publisher[p].message
    BY <1>11, ThreadMoves DEF CountInv, Moves, PublishAdvance
  <2>2. publisher[p].message \in Placed' \ Placed
    BY <2>1, NotYet, InSetsAfter DEF CountInv
  <2>3. publisher[p].pos <= a /\ a + 1 <= b
    BY <1>3, <1>6, <2>1, <2>2
  <2>4. QED BY <1>3, <1>5, <2>1, <2>3
<1>12. CASE \/ PublishBegin(p) \/ PublishCount(p) \/ PublishRefused(p) \/ PublishRetry(p)
            \/ DiscardClaim(p) \/ Discard(p)
  <2>1. publisher'[p].pc \in {"check", "idle", "discard"}
    BY <1>12, ThreadMoves DEF CountInv, Moves
  <2>2. write_pos' = write_pos
    BY <1>12 DEF PublishBegin, PublishCount, PublishRefused, PublishRetry, DiscardClaim, Discard, ring
  <2>3. QED BY <1>3, <1>4, <2>1, <2>2
<1>13. QED BY <1>9, <1>10, <1>11, <1>12 DEF PublishStep

\* Each call finds the ring full once, as far as the counter is concerned.
LEMMA HitsKept ==
    ASSUME CountInv, Types', MessagesOK', NEW p \in Publishers, PublishBegin(p) \/ PublishStep(p)
    PROVE  HitsCounted'
<1>1. PICK a, b, h : a = Cardinality(Hit) /\ b = Cardinality(Hit') /\ h = metrics.hits
  OBVIOUS
<1>2. Progress(p)
  BY ThreadsProgress DEF CountInv
<1>3. a \in Nat /\ b \in Nat /\ a <= b /\ \A m \in Hit' \ Hit : a + 1 <= b
  BY <1>1, <1>2, CardsGrow
<1>4. h \in Nat /\ h <= a
  BY <1>1 DEF CountInv, Types, Metrics, CountsOK, HitsCounted
<1>5. CASE PublishRefused(p)
  <2>1. metrics'.hits = IF publisher[p].retried THEN h ELSE h + 1
    BY <1>1, <1>5, MetricsMove DEF CountInv, MetricsBecome
  <2>2. CASE publisher[p].retried
    BY <1>1, <1>3, <1>4, <2>1, <2>2 DEF HitsCounted
  <2>3. CASE ~publisher[p].retried
    <3>1. publisher[p].pc = "full" /\ refused' = refused \cup {publisher[p].message}
      BY <1>5 DEF PublishRefused
    <3>2. publisher[p].message \in Hit' \ Hit
      BY <2>3, <3>1, NotYet, InSetsAfter DEF CountInv
    <3>3. QED BY <1>1, <1>3, <1>4, <2>1, <2>3, <3>2 DEF HitsCounted
  <2>4. QED BY <2>2, <2>3
<1>6. CASE PublishRetry(p)
  <2>1. metrics'.hits = IF publisher[p].retried THEN h ELSE h + 1
    BY <1>1, <1>6, MetricsMove DEF CountInv, MetricsBecome
  <2>2. CASE publisher[p].retried
    BY <1>1, <1>3, <1>4, <2>1, <2>2 DEF HitsCounted
  <2>3. CASE ~publisher[p].retried
    <3>1. /\ publisher[p].pc = "full"
          /\ publisher'[p].pc = "check" /\ publisher'[p].retried
          /\ publisher'[p].message = publisher[p].message
      BY <1>6, ThreadMoves DEF CountInv, Moves, PublishRetry
    <3>2. publisher[p].message \in Hit' \ Hit
      BY <2>3, <3>1, NotYet, InSetsAfter DEF CountInv
    <3>3. QED BY <1>1, <1>3, <1>4, <2>1, <2>3, <3>2 DEF HitsCounted
  <2>4. QED BY <2>2, <2>3
<1>7. CASE DiscardClaim(p)
  <2>1. metrics'.hits = h + 1
    BY <1>1, <1>7, MetricsMove DEF CountInv, MetricsBecome
  <2>2. /\ publisher[p].pc = "full" /\ ~publisher[p].retried
        /\ publisher'[p].pc = "discard" /\ publisher'[p].message = publisher[p].message
    BY <1>7, ThreadMoves DEF CountInv, Moves, DiscardClaim
  <2>3. publisher[p].message \in Hit' \ Hit
    BY <2>2, NotYet, InSetsAfter DEF CountInv
  <2>4. QED BY <1>1, <1>3, <1>4, <2>1, <2>3 DEF HitsCounted
<1>8. CASE \/ PublishBegin(p) \/ PublishCheck(p) \/ PublishCopy(p) \/ PublishReady(p)
           \/ PublishAdvance(p) \/ PublishCount(p) \/ Discard(p)
  <2>1. metrics'.hits = h
    <3>1. CASE PublishCount(p) \/ Discard(p)
      BY <1>1, <3>1, MetricsMove DEF CountInv, MetricsBecome
    <3>2. CASE \/ PublishBegin(p) \/ PublishCheck(p) \/ PublishCopy(p) \/ PublishReady(p)
               \/ PublishAdvance(p)
      BY <1>1, <3>2 DEF PublishBegin, PublishCheck, PublishCopy, PublishReady, PublishAdvance
    <3>3. QED BY <1>8, <3>1, <3>2
  <2>2. QED BY <1>1, <1>3, <1>4, <2>1 DEF HitsCounted
<1>9. QED BY <1>5, <1>6, <1>7, <1>8 DEF PublishStep

\* A drop is counted of a call that is refused, or that discarded, never of both.
LEMMA DropsKept ==
    ASSUME CountInv, Types', MessagesOK', NEW p \in Publishers, PublishBegin(p) \/ PublishStep(p)
    PROVE  DropsCounted'
<1>1. PICK a, b, d : a = Cardinality(Dropped) /\ b = Cardinality(Dropped') /\ d = metrics.drops
  OBVIOUS
<1>2. Progress(p)
  BY ThreadsProgress DEF CountInv
<1>3. a \in Nat /\ b \in Nat /\ a <= b /\ \A m \in Dropped' \ Dropped : a + 1 <= b
  BY <1>1, <1>2, CardsGrow
<1>4. d \in Nat /\ d <= a
  BY <1>1 DEF CountInv, Types, Metrics, CountsOK, DropsCounted
<1>5. CASE PublishRefused(p)
  <2>1. metrics'.drops = IF policy = "DropNewest" THEN d + 1 ELSE d
    BY <1>1, <1>5, MetricsMove DEF CountInv, MetricsBecome
  <2>2. CASE policy # "DropNewest"
    BY <1>1, <1>3, <1>4, <2>1, <2>2 DEF DropsCounted
  <2>3. CASE policy = "DropNewest"
    <3>1. publisher[p].pc = "full" /\ refused' = refused \cup {publisher[p].message}
      BY <1>5 DEF PublishRefused
    <3>2. ~publisher[p].retried
      BY <2>3, <3>1 DEF CountInv, MessagesOK, Publishing
    <3>3. publisher[p].message \in Dropped' \ Dropped
      BY <3>1, <3>2, NotYet, InSetsAfter DEF CountInv
    <3>4. QED BY <1>1, <1>3, <1>4, <2>1, <2>3, <3>3 DEF DropsCounted
  <2>4. QED BY <2>2, <2>3
<1>6. CASE Discard(p)
  <2>1. metrics'.drops = d + 1
    BY <1>1, <1>6, MetricsMove DEF CountInv, MetricsBecome
  <2>2. /\ publisher[p].pc = "discard" /\ publisher'[p].pc = "check" /\ publisher'[p].retried
        /\ publisher'[p].message = publisher[p].message
    BY <1>6, ThreadMoves DEF CountInv, Moves, Discard
  <2>3. ~publisher[p].retried
    BY <2>2 DEF CountInv, MessagesOK, Publishing
  <2>4. publisher[p].message \in Dropped' \ Dropped
    BY <2>2, <2>3, NotYet, InSetsAfter DEF CountInv
  <2>5. QED BY <1>1, <1>3, <1>4, <2>1, <2>4 DEF DropsCounted
<1>7. CASE \/ PublishBegin(p) \/ PublishCheck(p) \/ PublishCopy(p) \/ PublishReady(p)
           \/ PublishAdvance(p) \/ PublishCount(p) \/ PublishRetry(p) \/ DiscardClaim(p)
  <2>1. metrics'.drops = d
    <3>1. CASE PublishCount(p) \/ PublishRetry(p) \/ DiscardClaim(p)
      BY <1>1, <3>1, MetricsMove DEF CountInv, MetricsBecome
    <3>2. CASE \/ PublishBegin(p) \/ PublishCheck(p) \/ PublishCopy(p) \/ PublishReady(p)
               \/ PublishAdvance(p)
      BY <1>1, <3>2 DEF PublishBegin, PublishCheck, PublishCopy, PublishReady, PublishAdvance
    <3>3. QED BY <1>7, <3>1, <3>2
  <2>2. QED BY <1>1, <1>3, <1>4, <2>1 DEF DropsCounted
<1>8. QED BY <1>5, <1>6, <1>7 DEF PublishStep

\* The read position moves once for each message consumed, and once for each call
\* that discards.
LEMMA ReadsKept ==
    ASSUME CountInv, Types', MessagesOK', NEW p \in Publishers, PublishBegin(p) \/ PublishStep(p)
    PROVE  ReadsCounted'
<1>1. PICK a, b, n : /\ a = Cardinality(Hit) /\ b = Cardinality(Hit')
                     /\ n = Len(consumed) + (IF Busy THEN 1 ELSE 0)
  OBVIOUS
<1>2. Progress(p)
  BY ThreadsProgress DEF CountInv
<1>3. a \in Nat /\ b \in Nat /\ a <= b /\ \A m \in Hit' \ Hit : a + 1 <= b
  BY <1>1, <1>2, CardsGrow
<1>4. n \in Nat /\ read_pos \in Nat /\ read_pos <= n + a
  <2>1. Len(consumed) \in Nat
    BY DEF CountInv, Types
  <2>2. QED BY <1>1, <2>1 DEF CountInv, Types, CountsOK, ReadsCounted
<1>5. UNCHANGED <<consumer, consumed>>
  BY DEF PublishBegin, PublishStep, PublishCheck, PublishCopy, PublishReady, PublishAdvance,
         PublishCount, PublishRefused, PublishRetry, DiscardClaim, Discard
<1>6. Len(consumed') + (IF Busy' THEN 1 ELSE 0) = n
  BY <1>1, <1>5 DEF Busy
<1>7. CASE DiscardClaim(p)
  <2>1. /\ publisher[p].pc = "full" /\ ~publisher[p].retried /\ read_pos' = read_pos + 1
        /\ publisher'[p].pc = "discard" /\ publisher'[p].message = publisher[p].message
    BY <1>7, ThreadMoves DEF CountInv, Moves, DiscardClaim
  <2>2. publisher[p].message \in Hit' \ Hit
    BY <2>1, NotYet, InSetsAfter DEF CountInv
  <2>3. read_pos' <= n + b
    BY <1>3, <1>4, <2>1, <2>2
  <2>4. QED BY <1>1, <1>6, <2>3 DEF ReadsCounted
<1>8. CASE ~DiscardClaim(p)
  <2>1. read_pos' = read_pos
    BY <1>8 DEF PublishBegin, PublishStep, PublishCheck, PublishCopy, PublishReady, PublishAdvance,
                PublishCount, PublishRefused, PublishRetry, Discard, ring
  <2>2. read_pos' <= n + b
    BY <1>3, <1>4, <2>1
  <2>3. QED BY <1>1, <1>6, <2>2 DEF ReadsCounted
<1>9. QED BY <1>7, <1>8

\* Slots, as they are made ready and are cleared.
LEMMA ReadyCount ==
    ASSUME Types, Types', NEW k \in Indices
    PROVE  /\ Cardinality(ReadySlots) \in Nat /\ Cardinality(ReadySlots') \in Nat
           /\ (\A j \in Indices : slots'[j].ready = slots[j].ready) =>
                Cardinality(ReadySlots') = Cardinality(ReadySlots)
           /\ slots' = [slots EXCEPT ![k].ready = TRUE] =>
                Cardinality(ReadySlots') <= Cardinality(ReadySlots) + 1
           /\ slots' = [slots EXCEPT ![k].ready = FALSE] =>
                Cardinality(ReadySlots') =
                  Cardinality(ReadySlots) - (IF slots[k].ready THEN 1 ELSE 0)
<1>1. IsFiniteSet(Indices)
  BY BusAssumption, FS_Interval DEF Indices
<1>2. ReadySlots \subseteq Indices /\ ReadySlots' \subseteq Indices
  BY DEF ReadySlots
<1>3. IsFiniteSet(ReadySlots) /\ IsFiniteSet(ReadySlots')
  BY <1>1, <1>2, FS_Subset
<1>4. Cardinality(ReadySlots) \in Nat /\ Cardinality(ReadySlots') \in Nat
  BY <1>3, FS_CardinalityType
<1>5. (\A j \in Indices : slots'[j].ready = slots[j].ready) => ReadySlots' = ReadySlots
  BY DEF ReadySlots
<1>6. ASSUME slots' = [slots EXCEPT ![k].ready = TRUE]
      PROVE  Cardinality(ReadySlots') <= Cardinality(ReadySlots) + 1
  <2>1. ReadySlots' = ReadySlots \cup {k}
    BY <1>6 DEF ReadySlots, Types, Slots
  <2>2. Cardinality(ReadySlots') = Cardinality(ReadySlots)
        \/ Cardinality(ReadySlots') = Cardinality(ReadySlots) + 1
    BY <1>3, <2>1, FS_AddElement
  <2>3. QED BY <1>4, <2>2
<1>7. ASSUME slots' = [slots EXCEPT ![k].ready = FALSE]
      PROVE  Cardinality(ReadySlots') =
               Cardinality(ReadySlots) - (IF slots[k].ready THEN 1 ELSE 0)
  <2>1. ReadySlots' = ReadySlots \ {k}
    BY <1>7 DEF ReadySlots, Types, Slots
  <2>2. slots[k].ready <=> k \in ReadySlots
    BY DEF ReadySlots
  <2>3. CASE slots[k].ready
    <3>1. Cardinality(ReadySlots \ {k}) = Cardinality(ReadySlots) - 1
      BY <1>3, <2>2, <2>3, FS_RemoveElement
    <3>2. QED BY <2>1, <2>3, <3>1
  <2>4. CASE ~slots[k].ready
    <3>1. ReadySlots' = ReadySlots
      BY <2>1, <2>2, <2>4
    <3>2. QED BY <1>4, <2>4, <3>1
  <2>5. QED BY <2>3, <2>4
<1>8. QED BY <1>4, <1>5, <1>6, <1>7

\* What the consumer did not get of the slots that were made ready still is.
LEMMA SlotsKept ==
    ASSUME CountInv, Types', MessagesOK', NEW p \in Publishers, PublishBegin(p) \/ PublishStep(p)
    PROVE  SlotsCounted'
<1>1. PICK a, b, n, r, s :
        /\ a = Cardinality(Made) /\ b = Cardinality(Made') /\ n = Len(consumed)
        /\ r = Cardinality(ReadySlots) /\ s = Cardinality(ReadySlots')
  OBVIOUS
<1>2. Progress(p)
  BY ThreadsProgress DEF CountInv
<1>3. a \in Nat /\ b \in Nat /\ a <= b /\ \A m \in Made' \ Made : a + 1 <= b
  BY <1>1, <1>2, CardsGrow
<1>4. PICK k \in Indices : k = SlotOf(publisher[p].pos)
  BY SlotType DEF CountInv, Types, PublisherLocals
<1>5. PICK j \in Indices : j = SlotOf(consumer.pos)
  BY SlotType DEF CountInv, Types, ConsumerLocals
<1>6. r \in Nat /\ s \in Nat /\ n \in Nat /\ r + n + Taken <= a /\ Taken \in {0, 1} /\ Taken' \in {0, 1}
  <2>1. r \in Nat /\ s \in Nat
    BY <1>1, <1>4, ReadyCount DEF CountInv
  <2>2. n \in Nat /\ Taken \in {0, 1} /\ Taken' \in {0, 1}
    BY <1>1 DEF CountInv, Types, Taken
  <2>3. QED BY <1>1, <2>1, <2>2 DEF CountInv, CountsOK, SlotsCounted
<1>7. PICK t, v : t = Taken /\ v = Taken'
  OBVIOUS
<1>8. t \in {0, 1} /\ v \in {0, 1} /\ r + n + t <= a
  BY <1>6, <1>7
<1>9. UNCHANGED <<consumer, consumed>>
  BY DEF PublishBegin, PublishStep, PublishCheck, PublishCopy, PublishReady, PublishAdvance,
         PublishCount, PublishRefused, PublishRetry, DiscardClaim, Discard
<1>10. SUFFICES s + n + Taken' <= b
  BY <1>1, <1>9 DEF SlotsCounted
<1>11. CASE PublishReady(p)
  <2>1. slots' = [slots EXCEPT ![k].ready = TRUE]
    BY <1>4, <1>11 DEF PublishReady
  <2>2. s <= r + 1
    BY <1>1, <2>1, ReadyCount DEF CountInv
  <2>3. slots[j].ready => slots'[j].ready
    BY <2>1 DEF CountInv, Types, Slots
  <2>4. Taken' <= Taken
    BY <1>5, <1>9, <2>3 DEF Taken
  <2>5. /\ publisher[p].pc = "ready" /\ publisher'[p].pc = "advance"
        /\ publisher'[p].message = publisher[p].message
    BY <1>11, ThreadMoves DEF CountInv, Moves, PublishReady
  <2>6. publisher[p].message \in Made' \ Made
    BY <2>5, NotYet, InSetsAfter DEF CountInv
  <2>7. v <= t /\ a + 1 <= b
    BY <1>3, <1>7, <2>4, <2>6
  <2>8. s + n + v <= b
    BY <1>3, <1>6, <1>8, <2>2, <2>7
  <2>9. QED BY <1>7, <2>8
<1>12. CASE Discard(p)
  <2>1. slots' = [slots EXCEPT ![k].ready = FALSE]
    BY <1>4, <1>12 DEF Discard
  <2>2. s = r - (IF slots[k].ready THEN 1 ELSE 0)
    BY <1>1, <2>1, ReadyCount DEF CountInv
  <2>3. CASE slots[k].ready
    <3>1. s + n + v <= b
      BY <1>3, <1>6, <1>8, <2>2, <2>3
    <3>2. QED BY <1>7, <3>1
  <2>4. CASE ~slots[k].ready
    <3>1. slots'[j].ready = slots[j].ready
      BY <2>1, <2>4 DEF CountInv, Types, Slots
    <3>2. Taken' = Taken
      BY <1>5, <1>9, <3>1 DEF Taken
    <3>3. QED BY <1>3, <1>6, <2>2, <2>4, <3>2
  <2>5. QED BY <2>3, <2>4
<1>13. CASE ~PublishReady(p) /\ ~Discard(p)
  <2>1. \A i \in Indices : slots'[i].ready = slots[i].ready
    <3>1. CASE PublishCopy(p)
      BY <1>4, <3>1 DEF PublishCopy, CountInv, Types, Slots
    <3>2. CASE ~PublishCopy(p)
      BY <1>13, <3>2 DEF PublishBegin, PublishStep, PublishCheck, PublishAdvance,
         PublishCount, PublishRefused, PublishRetry, DiscardClaim, ring
    <3>3. QED BY <3>1, <3>2
  <2>2. s = r
    BY <1>1, <1>4, <2>1, ReadyCount DEF CountInv
  <2>3. Taken' = Taken
    BY <1>5, <1>9, <2>1 DEF Taken
  <2>4. QED BY <1>3, <1>6, <2>2, <2>3
<1>14. QED BY <1>11, <1>12, <1>13

\* The consumer, subscribers and the destructor leave the messages of the calls alone.
LEMMA ConsumerCounts ==
    ASSUME CountInv, Types', Subscribe \/ ConsumerStep \/ Shutdown \/ UNCHANGED vars
    PROVE  CountsOK'
<1>1. UNCHANGED <<publisher, accepted, refused, write_pos>>
  BY DEF Subscribe, ConsumerStep, ConsumeClaim, ConsumeCopy, ConsumeRelease, ConsumeCount,
         Deliver, ConsumerExit, Shutdown, vars, ring, answers
<1>2. Placed' = Placed /\ Made' = Made /\ Hit' = Hit /\ Dropped' = Dropped
  BY <1>1 DEF Placed, Made, Hit, Dropped, At, Tried, Publishing
<1>3. PositionsCounted'
  BY <1>1, <1>2 DEF CountInv, CountsOK, PositionsCounted
<1>4. metrics'.hits = metrics.hits /\ metrics'.drops = metrics.drops
  <2>1. CASE ConsumeCount
    BY <2>1, ConsumerMoves DEF CountInv, MetricsBecome
  <2>2. CASE ~ConsumeCount
    BY <2>2 DEF Subscribe, ConsumerStep, ConsumeClaim, ConsumeCopy, ConsumeRelease,
         Deliver, ConsumerExit, Shutdown, vars
  <2>3. QED BY <2>1, <2>2
<1>5. HitsCounted' /\ DropsCounted'
  BY <1>2, <1>4 DEF CountInv, CountsOK, HitsCounted, DropsCounted
<1>6. PICK n, h, r, s, a : /\ n = Len(consumed) /\ h = Cardinality(Hit) /\ a = Cardinality(Made)
                           /\ r = Cardinality(ReadySlots) /\ s = Cardinality(ReadySlots')
  OBVIOUS
<1>7. PICK j \in Indices : j = SlotOf(consumer.pos)
  BY SlotType DEF CountInv, Types, ConsumerLocals
<1>8. /\ h \in Nat /\ a \in Nat /\ n \in Nat /\ r \in Nat /\ s \in Nat /\ read_pos \in Nat
      /\ read_pos <= n + (IF Busy THEN 1 ELSE 0) + h /\ r + n + Taken <= a
  <2>1. sent \in Nat /\ Hit \subseteq 1 .. sent /\ Made \subseteq 1 .. sent
    BY BusAssumption, SetsInRange DEF CountInv, Types
  <2>2. h \in Nat /\ a \in Nat
    BY <1>6, <2>1, Grown
  <2>3. n \in Nat /\ r \in Nat /\ s \in Nat /\ read_pos \in Nat
    BY <1>6, <1>7, ReadyCount DEF CountInv, Types
  <2>4. QED BY <1>6, <2>2, <2>3 DEF CountInv, CountsOK, ReadsCounted, SlotsCounted
<1>9. SUFFICES /\ read_pos' <= Len(consumed') + (IF Busy' THEN 1 ELSE 0) + h
               /\ s + Len(consumed') + Taken' <= a
  BY <1>2, <1>3, <1>5, <1>6 DEF CountsOK, ReadsCounted, SlotsCounted
<1>10. CASE ConsumeClaim
  <2>1. PICK k \in Indices : k = SlotOf(read_pos)
    BY <1>8, SlotType
  <2>2. /\ consumer.pc = "poll" /\ slots[k].ready /\ read_pos' = read_pos + 1
        /\ UNCHANGED <<slots, consumed>>
    BY <1>10, <2>1 DEF ConsumeClaim
  <2>3. consumer'.pc = "copy" /\ consumer'.pos = read_pos
    BY <1>10, ConsumerMoves DEF CountInv, ConsumerBecomes
  <2>4. ~Busy /\ Busy' /\ Taken = 0 /\ Taken' = 0
    BY <2>1, <2>2, <2>3 DEF Busy, Taken
  <2>5. s = r
    BY <1>6, <2>2 DEF ReadySlots
  <2>6. QED BY <1>6, <1>8, <2>2, <2>4, <2>5
<1>11. CASE ConsumeRelease
  <2>1. /\ slots' = [slots EXCEPT ![j].ready = FALSE] /\ consumer.pc = "release"
        /\ UNCHANGED <<read_pos, consumed>>
    BY <1>7, <1>11 DEF ConsumeRelease
  <2>2. consumer'.pc = "count"
    BY <1>11, ConsumerMoves DEF CountInv, ConsumerBecomes
  <2>3. s = r - (IF slots[j].ready THEN 1 ELSE 0)
    BY <1>6, <2>1, ReadyCount DEF CountInv
  <2>4. Busy /\ Busy' /\ Taken' = 1 /\ Taken = (IF slots[j].ready THEN 0 ELSE 1)
    BY <1>7, <2>1, <2>2 DEF Busy, Taken
  <2>5. QED BY <1>6, <1>8, <2>1, <2>3, <2>4
<1>12. CASE Deliver
  <2>1. /\ consumer.pc = "deliver" /\ consumed' = Append(consumed, consumer.message)
        /\ UNCHANGED <<read_pos, slots>>
    BY <1>12 DEF Deliver, ring
  <2>2. consumer'.pc = "poll"
    BY <1>12, ConsumerMoves DEF CountInv, ConsumerBecomes
  <2>3. Len(consumed') = n + 1
    BY <1>6, <2>1 DEF CountInv, Types
  <2>4. Busy /\ ~Busy' /\ Taken = 1 /\ Taken' = 0
    BY <2>1, <2>2 DEF Busy, Taken
  <2>5. s = r
    BY <1>6, <2>1 DEF ReadySlots
  <2>6. QED BY <1>6, <1>8, <2>1, <2>3, <2>4, <2>5
<1>13. CASE ConsumeCopy
  <2>1. UNCHANGED <<read_pos, slots, consumed>> /\ consumer.pc = "copy"
    BY <1>13 DEF ConsumeCopy, ring
  <2>2. consumer'.pc = "release" /\ consumer'.pos = consumer.pos
    BY <1>13, ConsumerMoves DEF CountInv, ConsumerBecomes
  <2>3. Busy /\ Busy' /\ Taken' = Taken
    BY <2>1, <2>2 DEF Busy, Taken
  <2>4. s = r
    BY <1>6, <2>1 DEF ReadySlots
  <2>5. QED BY <1>6, <1>8, <2>1, <2>3, <2>4
<1>14. CASE ConsumeCount
  <2>1. UNCHANGED <<read_pos, slots, consumed>> /\ consumer.pc = "count"
    BY <1>14 DEF ConsumeCount, ring
  <2>2. consumer'.pc = "deliver"
    BY <1>14, ConsumerMoves DEF CountInv, ConsumerBecomes
  <2>3. Busy /\ Busy' /\ Taken' = Taken
    BY <2>1, <2>2 DEF Busy, Taken
  <2>4. s = r
    BY <1>6, <2>1 DEF ReadySlots
  <2>5. QED BY <1>6, <1>8, <2>1, <2>3, <2>4
<1>15. CASE Subscribe \/ ConsumerExit \/ Shutdown \/ UNCHANGED vars
  <2>1. UNCHANGED <<read_pos, slots, consumed>>
    BY <1>15 DEF Subscribe, ConsumerExit, Shutdown, vars, ring
  <2>2. consumer' = consumer \/ (consumer.pc \in {"none", "poll"} /\ consumer'.pc \in {"poll", "gone"})
    <3>1. CASE Subscribe
      <4>1. consumer' = consumer \/ consumer.pc = "none"
        BY <3>1 DEF Subscribe
      <4>2. consumer'.pc = IF consumer.pc = "none" THEN "poll" ELSE consumer.pc
        BY <3>1, ConsumerMoves DEF CountInv, ConsumerBecomes
      <4>3. QED BY <4>1, <4>2
    <3>2. CASE ConsumerExit
      BY <3>2, ConsumerMoves DEF CountInv, ConsumerBecomes, ConsumerExit
    <3>3. CASE Shutdown \/ UNCHANGED vars
      BY <3>3 DEF Shutdown, vars
    <3>4. QED BY <1>15, <3>1, <3>2, <3>3
  <2>3. Busy' = Busy /\ Taken' = Taken
    BY <2>1, <2>2 DEF Busy, Taken
  <2>4. s = r
    BY <1>6, <2>1 DEF ReadySlots
  <2>5. QED BY <1>6, <1>8, <2>1, <2>3, <2>4
<1>16. QED BY <1>10, <1>11, <1>12, <1>13, <1>14, <1>15 DEF ConsumerStep

LEMMA CountInvKept ==
    ASSUME CountInv, [Next]_vars
    PROVE  CountInv'
<1>1. Types' /\ MessagesOK'
  BY TypesKept, MessagesKept DEF CountInv
<1>2. ASSUME NEW p \in Publishers, PublishBegin(p) \/ PublishStep(p) PROVE CountsOK'
  BY <1>1, <1>2, PositionsKept, HitsKept, DropsKept, ReadsKept, SlotsKept DEF CountsOK
<1>3. CASE Subscribe \/ ConsumerStep \/ Shutdown \/ UNCHANGED vars
  <2>1. CountsOK'
    BY <1>1, <1>3, ConsumerCounts
  <2>2. QED BY <1>1, <2>1 DEF CountInv
<1>4. QED BY <1>1, <1>2, <1>3 DEF CountInv, Next

-----------------------------------------------------------------------------
(* While each end of the ring has one user: one thread publishes           *)

Alone(p) == \A q \in Publishers \ {p} : publisher[q].pc = "idle"

One(b) == IF b THEN 1 ELSE 0
HowMany(c) == Cardinality({q \in Publishers : publisher[q].pc = c})

\* What concerns all threads concerns the one that publishes.
LEMMA AloneIs ==
    ASSUME NEW p \in Publishers, Alone(p)
    PROVE  /\ Advancing <=> publisher[p].pc = "advance"
           /\ Writing <=> publisher[p].pc \in {"copy", "ready"}
           /\ \A x : Discards(x) <=> publisher[p].pc = "discard" /\ x = publisher[p].pos
           /\ \A c : c # "idle" =>
                HowMany(c) = One(publisher[p].pc = c)
<1>1. /\ Advancing <=> publisher[p].pc = "advance"
      /\ Writing <=> publisher[p].pc \in {"copy", "ready"}
      /\ \A x : Discards(x) <=> publisher[p].pc = "discard" /\ x = publisher[p].pos
  BY DEF Alone, Advancing, Writing, Discards
<1>2. ASSUME NEW c, c # "idle"
      PROVE  HowMany(c) = One(publisher[p].pc = c)
  <2>1. CASE publisher[p].pc = c
    <3>1. {q \in Publishers : publisher[q].pc = c} = {p}
      BY <1>2, <2>1 DEF Alone
    <3>2. QED BY <2>1, <3>1, FS_Singleton DEF One, HowMany
  <2>2. CASE publisher[p].pc # c
    <3>1. {q \in Publishers : publisher[q].pc = c} = {}
      BY <1>2, <2>2 DEF Alone
    <3>2. QED BY <2>2, <3>1, FS_EmptySet DEF One, HowMany
  <2>3. QED BY <2>1, <2>2
<1>3. QED BY <1>1, <1>2

LEMMA AloneIsAfter ==
    ASSUME NEW p \in Publishers, Alone(p)'
    PROVE  /\ Advancing' <=> publisher'[p].pc = "advance"
           /\ Writing' <=> publisher'[p].pc \in {"copy", "ready"}
           /\ \A x : Discards(x)' <=> publisher'[p].pc = "discard" /\ x = publisher'[p].pos
           /\ \A c : c # "idle" =>
                HowMany(c)' = One(publisher'[p].pc = c)
<1>1. /\ Advancing' <=> publisher'[p].pc = "advance"
      /\ Writing' <=> publisher'[p].pc \in {"copy", "ready"}
      /\ \A x : Discards(x)' <=> publisher'[p].pc = "discard" /\ x = publisher'[p].pos
  BY DEF Alone, Advancing, Writing, Discards
<1>2. ASSUME NEW c, c # "idle"
      PROVE  HowMany(c)' = One(publisher'[p].pc = c)
  <2>1. CASE publisher'[p].pc = c
    <3>1. {q \in Publishers : publisher'[q].pc = c} = {p}
      BY <1>2, <2>1 DEF Alone
    <3>2. QED BY <2>1, <3>1, FS_Singleton DEF One, HowMany
  <2>2. CASE publisher'[p].pc # c
    <3>1. {q \in Publishers : publisher'[q].pc = c} = {}
      BY <1>2, <2>2 DEF Alone
    <3>2. QED BY <2>2, <3>1, FS_EmptySet DEF One, HowMany
  <2>3. QED BY <2>1, <2>2
<1>3. QED BY <1>1, <1>2

\* The thread that steps is the only one, before and after, and its message is the last.
LEMMA StepsAlone ==
    ASSUME BusInv, Types', NEW p \in Publishers, PublishBegin(p) \/ PublishStep(p), ~disturbed'
    PROVE  /\ ~disturbed /\ Calm
           /\ Alone(p) /\ Alone(p)'
           /\ publisher[p].pc # "idle" => publisher[p].message = sent
           /\ OneEach'
           /\ UNCHANGED <<consumer, consumed>>
<1>1. /\ disturbed => disturbed'
      /\ UNCHANGED <<consumer, consumed, running>>
      /\ ~PublishBegin(p) => sent' = sent /\ publisher[p].pc # "idle"
  <2>1. disturbed => disturbed'
    <3>1. CASE PublishBegin(p)
      BY <3>1, Zenon DEF PublishBegin
    <3>2. CASE DiscardClaim(p)
      BY <3>2, Zenon DEF DiscardClaim
    <3>3. CASE ~PublishBegin(p) /\ ~DiscardClaim(p)
      BY <3>3 DEF PublishStep, PublishCheck, PublishCopy, PublishReady, PublishAdvance,
                  PublishCount, PublishRefused, PublishRetry, Discard
    <3>4. QED BY <3>1, <3>2, <3>3
  <2>2. UNCHANGED <<consumer, consumed, running>>
    BY DEF PublishBegin, PublishStep, PublishCheck, PublishCopy, PublishReady, PublishAdvance,
           PublishCount, PublishRefused, PublishRetry, DiscardClaim, Discard
  <2>3. ~PublishBegin(p) => sent' = sent /\ publisher[p].pc # "idle"
    BY DEF PublishStep, PublishCheck, PublishCopy, PublishReady, PublishAdvance,
           PublishCount, PublishRefused, PublishRetry, DiscardClaim, Discard
  <2>4. QED BY <2>1, <2>2, <2>3
<1>2. ~disturbed /\ Calm
  BY <1>1 DEF BusInv
<1>3. publisher[p].pc # "idle" => Alone(p) /\ publisher[p].message = sent /\ running
  BY <1>2 DEF Calm, OneEach, Publishing, Alone
<1>4. PublishBegin(p) => running /\ \A q \in Publishers : publisher[q].pc = "idle"
  BY DEF PublishBegin, Publishing
<1>5. Alone(p) /\ running
  BY <1>1, <1>3, <1>4 DEF Alone
<1>6. Progress(p)
  BY ThreadsProgress DEF BusInv, CountInv
<1>7. Alone(p)'
  BY <1>5, <1>6 DEF Alone, Progress
<1>8. publisher'[p].pc # "idle" => publisher'[p].message = sent'
  <2>1. CASE PublishBegin(p)
    <3>1. publisher'[p].message = sent + 1
      BY <2>1, ThreadMoves DEF BusInv, CountInv, Moves
    <3>2. QED BY <2>1, <3>1 DEF PublishBegin
  <2>2. CASE PublishCount(p) \/ PublishRefused(p)
    BY <2>2, ThreadMoves DEF BusInv, CountInv, Moves
  <2>3. CASE \/ PublishCheck(p) \/ PublishCopy(p) \/ PublishReady(p) \/ PublishAdvance(p)
             \/ PublishRetry(p) \/ DiscardClaim(p) \/ Discard(p)
    <3>1. publisher'[p].message = publisher[p].message
      BY <2>3, ThreadMoves DEF BusInv, CountInv, Moves
    <3>2. sent' = sent /\ publisher[p].pc # "idle"
      BY <2>3 DEF PublishCheck, PublishCopy, PublishReady, PublishAdvance, PublishRetry,
                  DiscardClaim, Discard
    <3>3. QED BY <1>3, <3>1, <3>2
  <2>4. QED BY <2>1, <2>2, <2>3 DEF PublishStep
<1>9. consumer.pc # "gone"
  BY <1>2, <1>5 DEF Calm, OneEach
<1>10. OneEach'
  BY <1>1, <1>5, <1>7, <1>8, <1>9 DEF OneEach, Alone, Publishing
<1>11. QED BY <1>1, <1>2, <1>3, <1>5, <1>7, <1>10

-----------------------------------------------------------------------------
(* ... and the positions between the two ends are in order                 *)

\* A position is less than a lap behind the end, and so has a slot of its own.
LEMMA FullPositions ==
    ASSUME Types, Calm
    PROVE  /\ Top \in Nat /\ read_pos <= Top /\ write_pos <= Top /\ Top <= write_pos + 1
           /\ \A x \in Nat : Full(x) => x < Top /\ Top <= x + Capacity
           /\ \A x, y \in Nat : Full(x) /\ Full(y) /\ SlotOf(x) = SlotOf(y) => x = y
           /\ \A x \in Nat : Full(x) => SlotOf(x) \in Indices /\ slots[SlotOf(x)].ready
                                         /\ Msg(x) \in InRing /\ Msg(x) \in Nat
<1>1. write_pos \in Nat /\ read_pos \in Nat /\ Capacity \in Nat \ {0}
  BY BusAssumption DEF Types
<1>2. Top \in Nat /\ write_pos <= Top /\ Top <= write_pos + 1 /\ read_pos <= Top
  BY <1>1 DEF Top, Calm, WindowOK
<1>3. ASSUME NEW x \in Nat, Full(x) PROVE x < Top /\ Top <= x + Capacity
  <2>1. x \in read_pos .. Top - 1 \/ x < read_pos
    BY <1>3 DEF Full, Calm, WindowOK
  <2>2. Top <= x + Capacity
    BY <1>3 DEF Calm, WindowOK
  <2>3. QED BY <1>1, <1>2, <2>1, <2>2
<1>4. ASSUME NEW x \in Nat, NEW y \in Nat, Full(x), Full(y), SlotOf(x) = SlotOf(y) PROVE x = y
  <2>1. x < y => x + Capacity <= y
    BY <1>4, SameSlot
  <2>2. y < x => y + Capacity <= x
    BY <1>4, SameSlot
  <2>3. x < Top /\ Top <= x + Capacity /\ y < Top /\ Top <= y + Capacity
    BY <1>3, <1>4
  <2>4. QED BY <1>1, <1>2, <2>1, <2>2, <2>3
<1>5. ASSUME NEW x \in Nat, Full(x)
      PROVE  SlotOf(x) \in Indices /\ slots[SlotOf(x)].ready /\ Msg(x) \in InRing /\ Msg(x) \in Nat
  <2>1. SlotOf(x) \in Indices /\ slots[SlotOf(x)].ready
    BY <1>5, SlotType DEF Calm, SlotsOK
  <2>2. DOMAIN slots = Indices /\ slots[SlotOf(x)] \in Slots
    BY <2>1 DEF Types
  <2>3. QED BY <2>1, <2>2 DEF InRing, Msg, Slots
<1>6. QED BY <1>2, <1>3, <1>4, <1>5

\* A lap on, the slot is the same.
LEMMA NextLap ==
    ASSUME NEW x \in Nat
    PROVE  SlotOf(x + Capacity) = SlotOf(x)
<1>1. PICK c \in Nat \ {0} : c = Capacity
  BY BusAssumption
<1>2. PICK j, m, k, n : j = x \div c /\ m = x % c /\ k = (x + c) \div c /\ n = (x + c) % c
  OBVIOUS
<1>3. /\ j \in Int /\ m \in Int /\ x = c * j + m /\ 0 <= m /\ m < c
      /\ k \in Int /\ n \in Int /\ x + c = c * k + n /\ 0 <= n /\ n < c
  BY <1>1, <1>2
<1>4. c * (j + 1) + m = c * k + n
  BY <1>1, <1>3
<1>5. CASE k = j + 1
  BY <1>1, <1>2, <1>3, <1>4, <1>5 DEF SlotOf
<1>6. CASE k < j + 1
  <2>1. c * (j + 1) = c * k + c + c * (j - k) /\ c * (j - k) \in Nat
    BY <1>1, <1>3, <1>6
  <2>2. PICK u, v : u = c * k /\ v = c * (j - k)
    OBVIOUS
  <2>3. u \in Int /\ v \in Nat /\ u + c + v + m = u + n
    BY <1>1, <1>3, <1>4, <2>1, <2>2
  <2>4. QED BY <1>1, <1>3, <2>3
<1>7. CASE k > j + 1
  <2>1. c * k = c * (j + 1) + c + c * (k - j - 2) /\ c * (k - j - 2) \in Nat
    BY <1>1, <1>3, <1>7
  <2>2. PICK u, v : u = c * (j + 1) /\ v = c * (k - j - 2)
    OBVIOUS
  <2>3. u \in Int /\ v \in Nat /\ u + m = u + c + v + n
    BY <1>1, <1>3, <1>4, <2>1, <2>2
  <2>4. QED BY <1>1, <1>3, <2>3
<1>8. QED BY <1>3, <1>5, <1>6, <1>7

\* Where a thread writes, nobody reads.
LEMMA RoomToWrite ==
    ASSUME Types, Calm, Writing, ~Advancing
    PROVE  \A x \in Nat : Full(x) => SlotOf(x) # SlotOf(write_pos)
<1>1. TAKE x \in Nat
<1>2. HAVE Full(x)
<1>3. x < write_pos /\ write_pos < x + Capacity
  <2>1. x < Top /\ Top = write_pos
    BY <1>2, FullPositions DEF Top, Types
  <2>2. write_pos < x + Capacity
    BY <1>2 DEF Calm, WindowOK
  <2>3. QED BY <2>1, <2>2
<1>4. write_pos \in Nat /\ Capacity \in Nat
  BY BusAssumption DEF Types
<1>5. SlotOf(x) = SlotOf(write_pos) => x + Capacity <= write_pos
  BY <1>3, <1>4, SameSlot
<1>6. QED BY <1>3, <1>4, <1>5

\* A slot that is ready at the read position, and that nobody has claimed a lap
\* before, is that of the oldest message.
LEMMA OldestIsReady ==
    ASSUME Types, Calm, slots[SlotOf(read_pos)].ready, ~ReadsSlot(read_pos),
           \A p \in Publishers : ~DiscardsSlot(p, read_pos)
    PROVE  read_pos < Top /\ Full(read_pos)
<1>1. read_pos \in Nat /\ Top \in Nat
  BY FullPositions DEF Types
<1>2. PICK x \in Nat : Full(x) /\ SlotOf(x) = SlotOf(read_pos)
  <2>1. SlotOf(read_pos) \in Indices
    BY <1>1, SlotType
  <2>2. QED BY <2>1 DEF Calm, SlotsOK
<1>3. ~Reads(x)
  BY <1>2 DEF Reads, ReadsSlot
<1>4. ~Discards(x)
  BY <1>2 DEF Discards, DiscardsSlot
<1>5. x \in read_pos .. Top - 1
  BY <1>2, <1>3, <1>4 DEF Full
<1>6. read_pos < Top
  BY <1>1, <1>5
<1>7. QED BY <1>1, <1>6 DEF Full

\* All that is anywhere in the bus was made ready by a call that did not fail.
LEMMA AllIsKept ==
    ASSUME Types, Calm
    PROVE  /\ \A x \in Nat : Full(x) => Msg(x) \in Made
           /\ Consuming \cup Range(consumed) \cup discarded \subseteq Made
<1>1. InRing \subseteq Made /\ AtConsumer \subseteq Made
      /\ Range(consumed) \subseteq Made /\ discarded \subseteq Made
  BY DEF Calm, Kept
<1>2. \A x \in Nat : Full(x) => Msg(x) \in Made
  BY <1>1, FullPositions
<1>3. consumer.pc = "copy" => Msg(consumer.pos) \in Made
  BY <1>2 DEF Full, Reads, Types, ConsumerLocals
<1>4. Consuming \subseteq Made
  BY <1>1, <1>3 DEF Consuming
<1>5. QED BY <1>1, <1>2, <1>4

\* The counter, for the one thread that publishes.
Holding == consumer.pc \in {"copy", "release", "count"}

LEMMA DepthAlone ==
    ASSUME NEW p \in Publishers, Alone(p), Calm, ~disturbed
    PROVE  metrics.depth = write_pos - read_pos - One(publisher[p].pc = "count")
                           + One(publisher[p].pc = "discard") + One(Holding)
<1>1. /\ HowMany("count") = One(publisher[p].pc = "count")
      /\ HowMany("discard") = One(publisher[p].pc = "discard")
  BY AloneIs
<1>2. QED BY <1>1 DEF Calm, DepthAccounts, Holding, One, HowMany

LEMMA DepthAloneAfter ==
    ASSUME NEW p \in Publishers, Alone(p)',
           metrics'.depth = write_pos' - read_pos' - One(publisher'[p].pc = "count")
                            + One(publisher'[p].pc = "discard") + One(Holding')
    PROVE  DepthAccounts'
<1>1. /\ HowMany("count")' = One(publisher'[p].pc = "count")
      /\ HowMany("discard")' = One(publisher'[p].pc = "discard")
  BY AloneIsAfter
<1>2. QED BY <1>1 DEF DepthAccounts, Holding, One, HowMany

\* The messages that were made ready, for the one thread that publishes.
LEMMA MadeAlone ==
    ASSUME NEW p \in Publishers, Alone(p)
    PROVE  Made = accepted \cup
             (IF publisher[p].pc \in {"advance", "count"} THEN {publisher[p].message} ELSE {})
BY InSets DEF Alone

LEMMA MadeAloneAfter ==
    ASSUME NEW p \in Publishers, Alone(p)'
    PROVE  Made' = accepted' \cup
             (IF publisher'[p].pc \in {"advance", "count"} THEN {publisher'[p].message} ELSE {})
BY InSetsAfter DEF Alone

\* A thread that does not touch what is between the two ends.
Quiet(p) ==
    /\ Alone(p) /\ Alone(p)'
    /\ UNCHANGED <<slots, read_pos, consumer, consumed, discarded>>
    /\ Top' = Top
    /\ publisher[p].pc # "discard" /\ publisher'[p].pc \notin {"discard", "ready"}
    /\ publisher'[p].pc \in {"copy", "advance"} => publisher'[p].pos = write_pos'
    /\ Writing' => \A x \in Nat : Full(x) => write_pos' < x + Capacity

LEMMA QuietStep ==
    ASSUME Types, Calm, NEW p \in Publishers, Quiet(p)
    PROVE  WindowOK' /\ SlotsOK' /\ OrderOK' /\ Kept' = Kept
<1>1. /\ UNCHANGED <<slots, read_pos, consumer, consumed, discarded>> /\ Top' = Top
      /\ Alone(p) /\ Alone(p)'
  BY DEF Quiet
<1>2. \A x : ~Discards(x) /\ ~Discards(x)'
  BY AloneIs, AloneIsAfter DEF Quiet
<1>3. \A x : Reads(x)' <=> Reads(x)
  BY <1>1 DEF Reads
<1>4. \A x \in Nat : Full(x)' <=> Full(x)
  BY <1>1, <1>2, <1>3 DEF Full
<1>5. \A x : Msg(x)' = Msg(x)
  BY <1>1 DEF Msg
<1>6. Consuming' = Consuming /\ Kept' = Kept
  BY <1>1 DEF Consuming, AtConsumer, Msg, Kept, InRing
<1>7. SlotsOK'
  BY <1>1, <1>4 DEF Calm, SlotsOK
<1>8. OrderOK'
  <2>1. \A q \in Publishers : publisher'[q].pc \notin {"discard", "ready"}
    BY <1>1 DEF Quiet, Alone
  <2>2. QED BY <1>1, <1>5, <1>6, <2>1 DEF Calm, OrderOK
<1>9. WindowOK'
  <2>1. \A q \in Publishers : publisher'[q].pc \in {"copy", "ready", "advance"} =>
          publisher'[q].pos = write_pos'
    BY <1>1 DEF Quiet, Alone
  <2>2. Writing' => \A x \in Nat : Full(x)' => write_pos' < x + Capacity
    BY <1>4 DEF Quiet
  <2>3. QED BY <1>1, <1>2, <1>3, <1>4, <2>1, <2>2 DEF Calm, WindowOK
<1>10. QED BY <1>6, <1>7, <1>8, <1>9

\* The steps of a thread that leave the slots alone.
LEMMA BeginCalm ==
    ASSUME BusInv, Types', NEW p \in Publishers, PublishBegin(p), ~disturbed'
    PROVE  Calm'
<1>1. ~disturbed /\ Calm /\ Alone(p) /\ Alone(p)' /\ OneEach' /\ Types
  BY StepsAlone DEF PublishStep, BusInv, CountInv
<1>2. /\ publisher[p].pc = "idle" /\ publisher'[p].pc = "check"
      /\ UNCHANGED <<slots, write_pos, read_pos, consumer, consumed, discarded>>
      /\ accepted' = accepted
  BY ThreadMoves, <1>1 DEF Moves, PublishBegin, Publishing, ring, answers
<1>3. Quiet(p)
  <2>1. ~Advancing /\ ~Advancing' /\ ~Writing'
    BY <1>1, <1>2, AloneIs, AloneIsAfter
  <2>2. QED BY <1>1, <1>2, <2>1 DEF Quiet, Top
<1>4. WindowOK' /\ SlotsOK' /\ OrderOK' /\ Kept' = Kept
  BY <1>1, <1>3, QuietStep
<1>5. Made' = Made
  BY <1>1, <1>2, MadeAlone, MadeAloneAfter
<1>6. DepthAccounts'
  <2>1. metrics'.depth = metrics.depth
    BY <1>1, ThreadMoves DEF PublishBegin
  <2>2. metrics.depth \in Int /\ write_pos \in Nat /\ read_pos \in Nat
    BY <1>1 DEF Types, Metrics
  <2>3. One(Holding) \in {0, 1} /\ Holding' = Holding
    BY <1>2 DEF One, Holding
  <2>4. metrics.depth = write_pos - read_pos - 0 + 0 + One(Holding)
    BY <1>1, <1>2, DepthAlone DEF One
  <2>5. metrics'.depth = write_pos' - read_pos' - One(publisher'[p].pc = "count")
                         + One(publisher'[p].pc = "discard") + One(Holding')
    BY <1>2, <2>1, <2>2, <2>3, <2>4 DEF One
  <2>6. QED BY <1>1, <2>5, DepthAloneAfter
<1>7. QED BY <1>1, <1>4, <1>5, <1>6 DEF Calm

LEMMA RefusedCalm ==
    ASSUME BusInv, Types', NEW p \in Publishers, PublishRefused(p), ~disturbed'
    PROVE  Calm'
<1>1. ~disturbed /\ Calm /\ Alone(p) /\ Alone(p)' /\ OneEach' /\ Types
  BY StepsAlone DEF PublishStep, BusInv, CountInv
<1>2. /\ publisher[p].pc = "full" /\ publisher'[p].pc = "idle"
      /\ UNCHANGED <<slots, write_pos, read_pos, consumer, consumed, discarded>>
      /\ accepted' = accepted
  BY ThreadMoves, <1>1 DEF Moves, PublishRefused, Publishing, ring, answers
<1>3. Quiet(p)
  <2>1. ~Advancing /\ ~Advancing' /\ ~Writing'
    BY <1>1, <1>2, AloneIs, AloneIsAfter
  <2>2. QED BY <1>1, <1>2, <2>1 DEF Quiet, Top
<1>4. WindowOK' /\ SlotsOK' /\ OrderOK' /\ Kept' = Kept
  BY <1>1, <1>3, QuietStep
<1>5. Made' = Made
  BY <1>1, <1>2, MadeAlone, MadeAloneAfter
<1>6. DepthAccounts'
  <2>1. metrics'.depth = metrics.depth
    BY <1>1, MetricsMove DEF MetricsBecome
  <2>2. metrics.depth \in Int /\ write_pos \in Nat /\ read_pos \in Nat
    BY <1>1 DEF Types, Metrics
  <2>3. One(Holding) \in {0, 1} /\ Holding' = Holding
    BY <1>2 DEF One, Holding
  <2>4. metrics.depth = write_pos - read_pos - 0 + 0 + One(Holding)
    BY <1>1, <1>2, DepthAlone DEF One
  <2>5. metrics'.depth = write_pos' - read_pos' - One(publisher'[p].pc = "count")
                         + One(publisher'[p].pc = "discard") + One(Holding')
    BY <1>2, <2>1, <2>2, <2>3, <2>4 DEF One
  <2>6. QED BY <1>1, <2>5, DepthAloneAfter
<1>7. QED BY <1>1, <1>4, <1>5, <1>6 DEF Calm

LEMMA RetryCalm ==
    ASSUME BusInv, Types', NEW p \in Publishers, PublishRetry(p), ~disturbed'
    PROVE  Calm'
<1>1. ~disturbed /\ Calm /\ Alone(p) /\ Alone(p)' /\ OneEach' /\ Types
  BY StepsAlone DEF PublishStep, BusInv, CountInv
<1>2. /\ publisher[p].pc = "full" /\ publisher'[p].pc = "check"
      /\ UNCHANGED <<slots, write_pos, read_pos, consumer, consumed, discarded>>
      /\ accepted' = accepted
  BY ThreadMoves, <1>1 DEF Moves, PublishRetry, Publishing, ring, answers
<1>3. Quiet(p)
  <2>1. ~Advancing /\ ~Advancing' /\ ~Writing'
    BY <1>1, <1>2, AloneIs, AloneIsAfter
  <2>2. QED BY <1>1, <1>2, <2>1 DEF Quiet, Top
<1>4. WindowOK' /\ SlotsOK' /\ OrderOK' /\ Kept' = Kept
  BY <1>1, <1>3, QuietStep
<1>5. Made' = Made
  BY <1>1, <1>2, MadeAlone, MadeAloneAfter
<1>6. DepthAccounts'
  <2>1. metrics'.depth = metrics.depth
    BY <1>1, MetricsMove DEF MetricsBecome
  <2>2. metrics.depth \in Int /\ write_pos \in Nat /\ read_pos \in Nat
    BY <1>1 DEF Types, Metrics
  <2>3. One(Holding) \in {0, 1} /\ Holding' = Holding
    BY <1>2 DEF One, Holding
  <2>4. metrics.depth = write_pos - read_pos - 0 + 0 + One(Holding)
    BY <1>1, <1>2, DepthAlone DEF One
  <2>5. metrics'.depth = write_pos' - read_pos' - One(publisher'[p].pc = "count")
                         + One(publisher'[p].pc = "discard") + One(Holding')
    BY <1>2, <2>1, <2>2, <2>3, <2>4 DEF One
  <2>6. QED BY <1>1, <2>5, DepthAloneAfter
<1>7. QED BY <1>1, <1>4, <1>5, <1>6 DEF Calm

LEMMA CountCalm ==
    ASSUME BusInv, Types', NEW p \in Publishers, PublishCount(p), ~disturbed'
    PROVE  Calm'
<1>1. ~disturbed /\ Calm /\ Alone(p) /\ Alone(p)' /\ OneEach' /\ Types
  BY StepsAlone DEF PublishStep, BusInv, CountInv
<1>2. /\ publisher[p].pc = "count" /\ publisher'[p].pc = "idle"
      /\ UNCHANGED <<slots, write_pos, read_pos, consumer, consumed, discarded>>
      /\ accepted' = accepted \cup {publisher[p].message}
  BY ThreadMoves, <1>1 DEF Moves, PublishCount, Publishing, ring, answers
<1>3. Quiet(p)
  <2>1. ~Advancing /\ ~Advancing' /\ ~Writing'
    BY <1>1, <1>2, AloneIs, AloneIsAfter
  <2>2. QED BY <1>1, <1>2, <2>1 DEF Quiet, Top
<1>4. WindowOK' /\ SlotsOK' /\ OrderOK' /\ Kept' = Kept
  BY <1>1, <1>3, QuietStep
<1>5. Made' = Made
  BY <1>1, <1>2, MadeAlone, MadeAloneAfter
<1>6. DepthAccounts'
  <2>1. metrics'.depth = metrics.depth + 1
    BY <1>1, MetricsMove DEF MetricsBecome
  <2>2. metrics.depth \in Int /\ write_pos \in Nat /\ read_pos \in Nat
    BY <1>1 DEF Types, Metrics
  <2>3. One(Holding) \in {0, 1} /\ Holding' = Holding
    BY <1>2 DEF One, Holding
  <2>4. metrics.depth = write_pos - read_pos - 1 + 0 + One(Holding)
    BY <1>1, <1>2, DepthAlone DEF One
  <2>5. metrics'.depth = write_pos' - read_pos' - One(publisher'[p].pc = "count")
                         + One(publisher'[p].pc = "discard") + One(Holding')
    BY <1>2, <2>1, <2>2, <2>3, <2>4 DEF One
  <2>6. QED BY <1>1, <2>5, DepthAloneAfter
<1>7. QED BY <1>1, <1>4, <1>5, <1>6 DEF Calm

LEMMA AdvanceCalm ==
    ASSUME BusInv, Types', NEW p \in Publishers, PublishAdvance(p), ~disturbed'
    PROVE  Calm'
<1>1. ~disturbed /\ Calm /\ Alone(p) /\ Alone(p)' /\ OneEach' /\ Types
  BY StepsAlone DEF PublishStep, BusInv, CountInv
<1>2. /\ publisher[p].pc = "advance" /\ publisher'[p].pc = "count"
      /\ publisher'[p].message = publisher[p].message /\ publisher[p].pos = write_pos
      /\ write_pos' = write_pos + 1
      /\ UNCHANGED <<slots, read_pos, consumer, consumed, discarded, metrics, accepted>>
  <2>1. publisher[p].pc = "advance"
    BY DEF PublishAdvance
  <2>2. publisher[p].pos = write_pos
    BY <1>1, <2>1 DEF Calm, WindowOK
  <2>3. publisher'[p].pc = "count" /\ publisher'[p].message = publisher[p].message
    BY <1>1, ThreadMoves DEF Moves
  <2>4. QED BY <2>1, <2>2, <2>3 DEF PublishAdvance, answers
<1>3. Quiet(p)
  <2>1. Advancing /\ ~Advancing' /\ ~Writing'
    BY <1>1, <1>2, AloneIs, AloneIsAfter
  <2>2. Top' = Top
    BY <1>1, <1>2, <2>1 DEF Top, Types
  <2>3. QED BY <1>1, <1>2, <2>1, <2>2 DEF Quiet
<1>4. WindowOK' /\ SlotsOK' /\ OrderOK' /\ Kept' = Kept
  BY <1>1, <1>3, QuietStep
<1>5. Made' = Made
  BY <1>1, <1>2, MadeAlone, MadeAloneAfter
<1>6. DepthAccounts'
  <2>1. metrics.depth \in Int /\ write_pos \in Nat /\ read_pos \in Nat
    BY <1>1 DEF Types, Metrics
  <2>2. One(Holding) \in {0, 1} /\ Holding' = Holding
    BY <1>2 DEF One, Holding
  <2>3. metrics.depth = write_pos - read_pos - 0 + 0 + One(Holding)
    BY <1>1, <1>2, DepthAlone DEF One
  <2>4. metrics'.depth = write_pos' - read_pos' - One(publisher'[p].pc = "count")
                         + One(publisher'[p].pc = "discard") + One(Holding')
    BY <1>2, <2>1, <2>2, <2>3 DEF One
  <2>5. QED BY <1>1, <2>4, DepthAloneAfter
<1>7. QED BY <1>1, <1>4, <1>5, <1>6 DEF Calm

LEMMA CheckCalm ==
    ASSUME BusInv, Types', NEW p \in Publishers, PublishCheck(p), ~disturbed'
    PROVE  Calm'
<1>1. ~disturbed /\ Calm /\ Alone(p) /\ Alone(p)' /\ OneEach' /\ Types
  BY StepsAlone DEF PublishStep, BusInv, CountInv
<1>2. /\ publisher[p].pc = "check" /\ publisher'[p].pos = write_pos
      /\ publisher'[p].pc \in {"full", "copy"}
      /\ publisher'[p].pc = "copy" => ~slots[SlotOf(write_pos)].ready
      /\ UNCHANGED <<slots, write_pos, read_pos, consumer, consumed, discarded, metrics, accepted>>
  <2>1. PICK c : c = IF slots[SlotOf(write_pos)].ready THEN "full" ELSE "copy"
    OBVIOUS
  <2>2. Moves(p, c, publisher[p].message, write_pos, publisher[p].retried)
    BY <1>1, <2>1, ThreadMoves
  <2>3. /\ publisher'[p].pos = write_pos /\ publisher'[p].pc \in {"full", "copy"}
        /\ publisher'[p].pc = "copy" => ~slots[SlotOf(write_pos)].ready
    BY <2>1, <2>2 DEF Moves
  <2>4. QED BY <2>3 DEF PublishCheck, ring, answers
<1>3. Quiet(p)
  <2>1. ~Advancing /\ ~Advancing'
    BY <1>1, <1>2, AloneIs, AloneIsAfter
  <2>2. Top' = Top /\ Top = write_pos
    BY <1>1, <1>2, <2>1 DEF Top, Types
  <2>3. ASSUME Writing', NEW x \in Nat, Full(x) PROVE write_pos < x + Capacity
    <3>1. ~slots[SlotOf(write_pos)].ready
      BY <1>1, <1>2, <2>3, AloneIsAfter
    <3>2. write_pos <= x + Capacity /\ slots[SlotOf(x)].ready
      BY <1>1, <2>2, <2>3, FullPositions
    <3>3. write_pos # x + Capacity
      BY <3>1, <3>2, NextLap
    <3>4. QED BY <1>1, <3>2, <3>3, BusAssumption DEF Types
  <2>4. QED BY <1>1, <1>2, <2>2, <2>3 DEF Quiet
<1>4. WindowOK' /\ SlotsOK' /\ OrderOK' /\ Kept' = Kept
  BY <1>1, <1>3, QuietStep
<1>5. Made' = Made
  BY <1>1, <1>2, MadeAlone, MadeAloneAfter
<1>6. DepthAccounts'
  <2>1. metrics.depth \in Int /\ write_pos \in Nat /\ read_pos \in Nat
    BY <1>1 DEF Types, Metrics
  <2>2. One(Holding) \in {0, 1} /\ Holding' = Holding
    BY <1>2 DEF One, Holding
  <2>3. metrics.depth = write_pos - read_pos - 0 + 0 + One(Holding)
    BY <1>1, <1>2, DepthAlone DEF One
  <2>4. metrics'.depth = write_pos' - read_pos' - One(publisher'[p].pc = "count")
                         + One(publisher'[p].pc = "discard") + One(Holding')
    BY <1>2, <2>1, <2>2, <2>3 DEF One
  <2>5. QED BY <1>1, <2>4, DepthAloneAfter
<1>7. QED BY <1>1, <1>4, <1>5, <1>6 DEF Calm

\* The message is written where nobody reads.
LEMMA CopyCalm ==
    ASSUME BusInv, Types', NEW p \in Publishers, PublishCopy(p), ~disturbed'
    PROVE  Calm'
<1>1. /\ ~disturbed /\ Calm /\ Alone(p) /\ Alone(p)' /\ OneEach' /\ Types
  BY StepsAlone DEF PublishStep, BusInv, CountInv
<1>2. /\ publisher[p].pc = "copy" /\ publisher'[p].pc = "ready"
      /\ publisher'[p].message = publisher[p].message
      /\ publisher[p].pos = write_pos /\ publisher'[p].pos = write_pos
      /\ slots' = [slots EXCEPT ![SlotOf(write_pos)].message = publisher[p].message]
      /\ UNCHANGED <<write_pos, read_pos, consumer, consumed, discarded, metrics, accepted>>
  <2>1. publisher[p].pc = "copy"
    BY DEF PublishCopy
  <2>2. publisher[p].pos = write_pos
    BY <1>1, <2>1 DEF Calm, WindowOK
  <2>3. publisher'[p].pc = "ready" /\ publisher'[p].message = publisher[p].message
        /\ publisher'[p].pos = publisher[p].pos
    BY <1>1, ThreadMoves DEF Moves
  <2>4. QED BY <2>1, <2>2, <2>3 DEF PublishCopy, answers
<1>3. /\ ~Advancing /\ ~Advancing' /\ Writing /\ Writing' /\ Top' = Top
      /\ \A x : ~Discards(x) /\ ~Discards(x)'
  <2>1. ~Advancing /\ ~Advancing' /\ Writing /\ Writing'
    BY <1>1, <1>2, AloneIs, AloneIsAfter
  <2>2. Top' = Top
    BY <1>2, <2>1 DEF Top
  <2>3. \A x : ~Discards(x) /\ ~Discards(x)'
    BY <1>1, <1>2, AloneIs, AloneIsAfter
  <2>4. QED BY <2>1, <2>2, <2>3
<1>4. PICK k \in Indices : k = SlotOf(write_pos)
  BY <1>1, SlotType DEF Types
<1>5. /\ DOMAIN slots = Indices /\ DOMAIN slots' = Indices
      /\ \A j \in Indices : slots'[j].ready = slots[j].ready
      /\ \A j \in Indices \ {k} : slots'[j] = slots[j]
      /\ slots'[k].message = publisher[p].message
  BY <1>1, <1>2, <1>4 DEF Types, Slots
<1>6. \A x : Reads(x)' <=> Reads(x)
  BY <1>2 DEF Reads
<1>7. \A x \in Nat : Full(x)' <=> Full(x)
  BY <1>2, <1>3, <1>6 DEF Full
<1>8. \A x \in Nat : Full(x) => SlotOf(x) \in Indices \ {k}
  BY <1>1, <1>3, <1>4, RoomToWrite, SlotType
<1>9. \A x \in Nat : Full(x) => Msg(x)' = Msg(x)
  BY <1>5, <1>8 DEF Msg
<1>10. ~slots[k].ready
  BY <1>1, <1>4, <1>8 DEF Calm, SlotsOK
<1>11. InRing' = InRing
  BY <1>5, <1>10 DEF InRing
<1>12. SlotsOK'
  <2>1. \A x \in Nat : Full(x)' => slots'[SlotOf(x)].ready
    BY <1>1, <1>5, <1>7, <1>8 DEF Calm, SlotsOK
  <2>2. \A j \in Indices : slots'[j].ready => \E x \in Nat : Full(x)' /\ SlotOf(x) = j
    BY <1>1, <1>5, <1>7 DEF Calm, SlotsOK
  <2>3. QED BY <2>1, <2>2 DEF SlotsOK
<1>13. WindowOK'
  <2>1. \A q \in Publishers : publisher'[q].pc \in {"copy", "ready", "advance"} =>
          publisher'[q].pos = write_pos'
    BY <1>1, <1>2 DEF Alone
  <2>2. QED BY <1>1, <1>2, <1>3, <1>6, <1>7, <2>1 DEF Calm, WindowOK
<1>14. Consuming' = Consuming
  <2>1. consumer.pc = "copy" => Full(consumer.pos) /\ consumer.pos \in Nat
    BY <1>1 DEF Full, Reads, Types, ConsumerLocals
  <2>2. consumer.pc = "copy" => Msg(consumer.pos)' = Msg(consumer.pos)
    <3>1. PICK x : x = consumer.pos
      OBVIOUS
    <3>2. consumer.pc = "copy" => Msg(x)' = Msg(x)
      BY <1>9, <2>1, <3>1
    <3>3. QED BY <1>2, <3>1, <3>2 DEF Msg
  <2>3. QED BY <1>2, <2>2 DEF Consuming, AtConsumer
<1>15. OrderOK'
  <2>1. \A x \in read_pos .. Top - 1 : x \in Nat /\ Msg(x)' = Msg(x)
    BY <1>1, <1>9, FullPositions DEF Full, Types
  <2>2. /\ \A x, y \in read_pos .. Top - 1 : x < y => Msg(x)' < Msg(y)'
        /\ \A x \in read_pos .. Top - 1 : \A m \in Consuming \cup Range(consumed) \cup discarded :
             m < Msg(x)'
    BY <1>1, <2>1 DEF Calm, OrderOK
  <2>3. consumer.pc = "release" => consumer.message = Msg(consumer.pos)'
    <3>1. PICK x : x = consumer.pos
      OBVIOUS
    <3>2. consumer.pc = "release" => Msg(x)' = Msg(x)
      BY <1>1, <1>9, <3>1 DEF Full, Reads, Types, ConsumerLocals
    <3>3. QED BY <1>1, <1>2, <3>1, <3>2 DEF Calm, OrderOK, Msg
  <2>4. \A q \in Publishers : publisher'[q].pc # "discard"
    BY <1>1, <1>2 DEF Alone
  <2>5. \A q \in Publishers : publisher'[q].pc = "ready" =>
          slots'[SlotOf(publisher'[q].pos)].message = publisher'[q].message
    <3>1. \A q \in Publishers : publisher'[q].pc = "ready" => q = p
      BY <1>1 DEF Alone
    <3>2. slots'[SlotOf(publisher'[p].pos)].message = publisher'[p].message
      BY <1>2, <1>4, <1>5
    <3>3. QED BY <3>1, <3>2
  <2>6. QED BY <1>1, <1>2, <1>3, <1>14, <2>2, <2>3, <2>4, <2>5 DEF Calm, OrderOK, Msg
<1>16. Kept' = Kept /\ Made' = Made
  <2>1. Kept' = Kept
    BY <1>2, <1>11 DEF Kept, AtConsumer
  <2>2. Made' = Made
    BY <1>1, <1>2, MadeAlone, MadeAloneAfter
  <2>3. QED BY <2>1, <2>2
<1>17. DepthAccounts'
  <2>1. Holding' = Holding
    BY <1>2 DEF Holding
  <2>2. metrics'.depth = write_pos' - read_pos' - One(publisher'[p].pc = "count")
                         + One(publisher'[p].pc = "discard") + One(Holding')
    BY <1>1, <1>2, <2>1, DepthAlone DEF One
  <2>3. QED BY <1>1, <2>2, DepthAloneAfter
<1>18. QED BY <1>1, <1>12, <1>13, <1>15, <1>16, <1>17 DEF Calm

\* The slot becomes the newest: its message is beyond all that were made ready.
LEMMA ReadyCalm ==
    ASSUME BusInv, Types', NEW p \in Publishers, PublishReady(p), ~disturbed'
    PROVE  Calm'
<1>1. /\ ~disturbed /\ Calm /\ Alone(p) /\ Alone(p)' /\ OneEach' /\ Types
      /\ publisher[p].pc # "idle" => publisher[p].message = sent
  BY StepsAlone DEF PublishStep, BusInv, CountInv
<1>2. /\ publisher[p].pc = "ready" /\ publisher'[p].pc = "advance"
      /\ publisher'[p].message = publisher[p].message
      /\ publisher[p].pos = write_pos /\ publisher'[p].pos = write_pos
      /\ slots' = [slots EXCEPT ![SlotOf(write_pos)].ready = TRUE]
      /\ UNCHANGED <<write_pos, read_pos, consumer, consumed, discarded, metrics, accepted>>
  <2>1. publisher[p].pc = "ready"
    BY DEF PublishReady
  <2>2. publisher[p].pos = write_pos
    BY <1>1, <2>1 DEF Calm, WindowOK
  <2>3. publisher'[p].pc = "advance" /\ publisher'[p].message = publisher[p].message
        /\ publisher'[p].pos = publisher[p].pos
    BY <1>1, ThreadMoves DEF Moves
  <2>4. QED BY <2>1, <2>2, <2>3 DEF PublishReady, answers
<1>3. /\ Writing /\ ~Writing' /\ Top = write_pos /\ Top' = write_pos + 1
      /\ \A x : ~Discards(x) /\ ~Discards(x)'
  <2>1. ~Advancing /\ Advancing' /\ Writing /\ ~Writing'
    BY <1>1, <1>2, AloneIs, AloneIsAfter
  <2>2. Top = write_pos /\ Top' = write_pos + 1
    BY <1>1, <1>2, <2>1 DEF Top, Types
  <2>3. \A x : ~Discards(x) /\ ~Discards(x)'
    BY <1>1, <1>2, AloneIs, AloneIsAfter
  <2>4. QED BY <2>1, <2>2, <2>3
<1>4. PICK k \in Indices : k = SlotOf(write_pos)
  BY <1>1, SlotType DEF Types
<1>5. /\ DOMAIN slots = Indices /\ DOMAIN slots' = Indices
      /\ \A j \in Indices : slots'[j].message = slots[j].message
      /\ \A j \in Indices \ {k} : slots'[j] = slots[j]
      /\ slots'[k].ready
  BY <1>1, <1>2, <1>4 DEF Types, Slots
<1>6. \A x : Reads(x)' <=> Reads(x)
  BY <1>2 DEF Reads
<1>7. /\ write_pos \in Nat /\ read_pos \in Nat /\ read_pos <= write_pos /\ Capacity \in Nat \ {0}
  BY <1>1, <1>3, BusAssumption, FullPositions DEF Types
<1>8. \A x \in Nat : Full(x)' <=> Full(x) \/ x = write_pos
  <2>1. \A x \in Nat : x \in read_pos .. write_pos <=> x \in read_pos .. write_pos - 1 \/ x = write_pos
    BY <1>7
  <2>2. \A x \in Nat : x \in read_pos' .. Top' - 1 <=> x \in read_pos .. Top - 1 \/ x = write_pos
    BY <1>2, <1>3, <1>7, <2>1
  <2>3. QED BY <1>3, <1>6, <2>2 DEF Full
<1>9. \A x \in Nat : Msg(x)' = Msg(x)
  BY <1>5, SlotType DEF Msg
<1>10. Msg(write_pos) = publisher[p].message /\ publisher[p].message = sent
  BY <1>1, <1>2 DEF Calm, OrderOK
<1>11. \A m \in Made : m \in Nat /\ m < sent
  <2>1. publisher[p].message \notin Made
    BY <1>2, NotYet DEF BusInv, CountInv
  <2>2. PICK M : M = 1 .. sent
    OBVIOUS
  <2>3. Made \subseteq M
    BY <2>2, SetsInRange DEF BusInv, CountInv
  <2>4. \A m \in M : m \in Nat /\ m <= sent
    BY <2>2
  <2>5. sent \in Nat
    BY <1>1, BusAssumption DEF Types
  <2>6. QED BY <1>10, <2>1, <2>3, <2>4, <2>5
<1>12. SlotsOK'
  <2>1. \A x \in Nat : Full(x)' => slots'[SlotOf(x)].ready
    BY <1>1, <1>4, <1>5, <1>8, SlotType DEF Calm, SlotsOK
  <2>2. \A j \in Indices : slots'[j].ready => \E x \in Nat : Full(x)' /\ SlotOf(x) = j
    <3>1. TAKE j \in Indices
    <3>2. HAVE slots'[j].ready
    <3>3. CASE j = k
      BY <1>4, <1>7, <1>8, <3>3
    <3>4. CASE j # k
      BY <1>1, <1>5, <1>8, <3>2, <3>4 DEF Calm, SlotsOK
    <3>5. QED BY <3>3, <3>4
  <2>3. QED BY <2>1, <2>2 DEF SlotsOK
<1>13. WindowOK'
  <2>1. \A q \in Publishers : publisher'[q].pc \in {"copy", "ready", "advance"} =>
          publisher'[q].pos = write_pos'
    BY <1>1, <1>2 DEF Alone
  <2>2. \A x \in Nat : Full(x)' => Top' <= x + Capacity
    <3>1. \A x \in Nat : Full(x) => write_pos < x + Capacity
      BY <1>1, <1>3 DEF Calm, WindowOK
    <3>2. QED BY <1>3, <1>7, <1>8, <3>1
  <2>3. read_pos' <= Top'
    BY <1>2, <1>3, <1>7
  <2>4. QED BY <1>1, <1>2, <1>3, <1>6, <2>1, <2>2, <2>3 DEF Calm, WindowOK
<1>14. Consuming' = Consuming
  <2>1. consumer.pos \in Nat
    BY <1>1 DEF Types, ConsumerLocals
  <2>2. slots'[SlotOf(consumer.pos)].message = slots[SlotOf(consumer.pos)].message
    BY <1>5, <2>1, SlotType
  <2>3. QED BY <1>2, <2>2 DEF Consuming, AtConsumer, Msg
<1>15. OrderOK'
  <2>1. \A x \in read_pos .. write_pos : x \in Nat /\ Msg(x)' = Msg(x)
    BY <1>7, <1>9
  <2>2. \A x \in read_pos .. write_pos - 1 : Msg(x) \in Made
    BY <1>1, <1>3, <1>7, AllIsKept DEF Full
  <2>3. \A x \in read_pos .. write_pos - 1 : Msg(x) < Msg(write_pos)
    BY <1>10, <1>11, <2>2
  <2>4. ASSUME NEW x \in read_pos .. write_pos, NEW y \in read_pos .. write_pos, x < y
        PROVE  Msg(x) < Msg(y)
    <3>1. CASE y = write_pos
      BY <1>7, <2>3, <2>4, <3>1
    <3>2. CASE y # write_pos
      BY <1>1, <1>3, <1>7, <2>4, <3>2 DEF Calm, OrderOK
    <3>3. QED BY <3>1, <3>2
  <2>5. ASSUME NEW x \in read_pos .. write_pos, NEW m \in Consuming \cup Range(consumed) \cup discarded
        PROVE  m < Msg(x)
    <3>1. CASE x = write_pos
      BY <1>1, <1>10, <1>11, <3>1, AllIsKept
    <3>2. CASE x # write_pos
      BY <1>1, <1>3, <1>7, <2>5, <3>2 DEF Calm, OrderOK
    <3>3. QED BY <3>1, <3>2
  <2>6. read_pos' .. Top' - 1 = read_pos .. write_pos
    BY <1>2, <1>3, <1>7
  <2>7. /\ \A x, y \in read_pos' .. Top' - 1 : x < y => Msg(x)' < Msg(y)'
        /\ \A x \in read_pos' .. Top' - 1 :
             \A m \in Consuming' \cup Range(consumed') \cup discarded' : m < Msg(x)'
    BY <1>2, <1>14, <2>1, <2>4, <2>5, <2>6
  <2>8. consumer'.pc = "release" => consumer'.message = slots'[SlotOf(consumer'.pos)].message
    <3>1. consumer.pos \in Nat
      BY <1>1 DEF Types, ConsumerLocals
    <3>2. slots'[SlotOf(consumer.pos)].message = slots[SlotOf(consumer.pos)].message
      BY <1>5, <3>1, SlotType
    <3>3. QED BY <1>1, <1>2, <3>2 DEF Calm, OrderOK, Msg
  <2>9. \A q \in Publishers : publisher'[q].pc \notin {"discard", "ready"}
    BY <1>1, <1>2 DEF Alone
  <2>10. QED BY <1>1, <1>2, <1>14, <2>7, <2>8, <2>9 DEF Calm, OrderOK, Msg
<1>16. Kept' = Made'
  <2>1. InRing' = InRing \cup {publisher[p].message}
    <3>1. slots[k].message = publisher[p].message
      BY <1>4, <1>10 DEF Msg
    <3>2. QED BY <1>5, <3>1 DEF InRing
  <2>2. Kept' = Kept \cup {publisher[p].message}
    BY <1>2, <2>1 DEF Kept, AtConsumer
  <2>3. Made' = Made \cup {publisher[p].message}
    BY <1>1, <1>2, MadeAlone, MadeAloneAfter
  <2>4. QED BY <1>1, <2>2, <2>3 DEF Calm
<1>17. DepthAccounts'
  <2>1. Holding' = Holding
    BY <1>2 DEF Holding
  <2>2. metrics'.depth = write_pos' - read_pos' - One(publisher'[p].pc = "count")
                         + One(publisher'[p].pc = "discard") + One(Holding')
    BY <1>1, <1>2, <2>1, DepthAlone DEF One
  <2>3. QED BY <1>1, <2>2, DepthAloneAfter
<1>18. QED BY <1>1, <1>12, <1>13, <1>15, <1>16, <1>17 DEF Calm

\* The oldest slot is claimed, its message written off.
LEMMA DiscardClaimCalm ==
    ASSUME BusInv, Types', NEW p \in Publishers, DiscardClaim(p), ~disturbed'
    PROVE  Calm'
<1>1. /\ ~disturbed /\ Calm /\ Alone(p) /\ Alone(p)' /\ OneEach' /\ Types
  BY StepsAlone DEF PublishStep, BusInv, CountInv
<1>2. /\ publisher[p].pc = "full" /\ publisher'[p].pc = "discard" /\ publisher'[p].pos = read_pos
      /\ read_pos' = read_pos + 1 /\ discarded' = discarded \cup {Msg(read_pos)}
      /\ slots[SlotOf(read_pos)].ready /\ ~ReadsSlot(read_pos)
      /\ UNCHANGED <<slots, write_pos, consumer, consumed, accepted>>
  <2>1. publisher'[p].pc = "discard" /\ publisher'[p].pos = read_pos
    BY <1>1, ThreadMoves DEF Moves
  <2>2. ~ReadsSlot(read_pos)
    BY Zenon DEF DiscardClaim
  <2>3. QED BY <2>1, <2>2 DEF DiscardClaim, Msg
<1>3. /\ ~Writing' /\ Top' = Top
      /\ \A x : ~Discards(x) /\ (Discards(x)' <=> x = read_pos)
  <2>1. ~Advancing /\ ~Advancing' /\ ~Writing'
    BY <1>1, <1>2, AloneIs, AloneIsAfter
  <2>2. Top' = Top
    BY <1>2, <2>1 DEF Top
  <2>3. \A x : ~Discards(x) /\ (Discards(x)' <=> x = read_pos)
    BY <1>1, <1>2, AloneIs, AloneIsAfter
  <2>4. QED BY <2>1, <2>2, <2>3
<1>4. read_pos \in Nat /\ Top \in Nat /\ read_pos < Top
  <2>1. \A q \in Publishers : ~DiscardsSlot(q, read_pos)
    BY <1>1, <1>2 DEF Alone, DiscardsSlot
  <2>2. read_pos < Top
    BY <1>1, <1>2, <2>1, OldestIsReady
  <2>3. QED BY <1>1, <2>2, FullPositions DEF Types
<1>5. \A x : Reads(x)' <=> Reads(x)
  BY <1>2 DEF Reads
<1>6. \A x : x \in read_pos .. Top - 1 <=> x \in read_pos' .. Top' - 1 \/ x = read_pos
  BY <1>2, <1>3, <1>4
<1>7. \A x \in Nat : Full(x)' <=> Full(x)
  BY <1>3, <1>5, <1>6 DEF Full
<1>8. \A x : Msg(x)' = Msg(x)
  BY <1>2 DEF Msg
<1>9. Consuming' = Consuming
  BY <1>2 DEF Consuming, AtConsumer, Msg
<1>10. SlotsOK'
  BY <1>1, <1>2, <1>7 DEF Calm, SlotsOK
<1>11. WindowOK'
  <2>1. \A q \in Publishers : publisher'[q].pc \notin {"copy", "ready", "advance"}
    BY <1>1, <1>2 DEF Alone
  <2>2. read_pos' <= Top'
    BY <1>2, <1>3, <1>4
  <2>3. \A x \in Nat : Reads(x) => x < read_pos
    BY <1>1 DEF Calm, WindowOK
  <2>4. \A x \in Nat : Reads(x)' \/ Discards(x)' => x < read_pos'
    BY <1>2, <1>3, <1>4, <1>5, <2>3
  <2>5. \A x \in Nat : Reads(x)' => ~Discards(x)'
    BY <1>3, <1>4, <1>5, <2>3
  <2>6. \A x \in Nat : Full(x)' => Top' <= x + Capacity
    BY <1>1, <1>3, <1>7 DEF Calm, WindowOK
  <2>7. QED BY <1>3, <2>1, <2>2, <2>4, <2>5, <2>6 DEF WindowOK
<1>12. OrderOK'
  <2>1. \A x, y \in read_pos .. Top - 1 : x < y => Msg(x) < Msg(y)
    BY <1>1 DEF Calm, OrderOK
  <2>2. \A x \in read_pos .. Top - 1 : \A m \in Consuming \cup Range(consumed) \cup discarded :
          m < Msg(x)
    BY <1>1 DEF Calm, OrderOK
  <2>3. read_pos \in read_pos .. Top - 1
    BY <1>4
  <2>4. ASSUME NEW x \in read_pos' .. Top' - 1,
               NEW m \in Consuming \cup Range(consumed) \cup discarded'
        PROVE  m < Msg(x)
    <3>1. x \in read_pos .. Top - 1 /\ read_pos < x
      BY <1>2, <1>3, <1>4
    <3>2. Msg(read_pos) < Msg(x)
      BY <2>1, <2>3, <3>1
    <3>3. m \in Consuming \cup Range(consumed) \cup discarded \/ m = Msg(read_pos)
      BY <1>2
    <3>4. QED BY <2>2, <3>1, <3>2, <3>3
  <2>5. (Consuming \cup Range(consumed)) \cap discarded' = {}
    <3>1. \A m \in Consuming \cup Range(consumed) : m < Msg(read_pos)
      BY <2>2, <2>3
    <3>2. Msg(read_pos) \in Nat
      BY <1>1, <1>4, <2>3, FullPositions DEF Full
    <3>3. Msg(read_pos) \notin Consuming \cup Range(consumed)
      BY <3>1, <3>2
    <3>4. (Consuming \cup Range(consumed)) \cap discarded = {}
      BY <1>1 DEF Calm, OrderOK
    <3>5. QED BY <1>2, <3>3, <3>4
  <2>6. \A q \in Publishers :
          /\ publisher'[q].pc = "discard" => slots'[SlotOf(publisher'[q].pos)].message \in discarded'
          /\ publisher'[q].pc # "ready"
    <3>1. \A q \in Publishers : publisher'[q].pc # "idle" => q = p
      BY <1>1 DEF Alone
    <3>2. QED BY <1>2, <3>1 DEF Msg
  <2>7. /\ \A x, y \in read_pos' .. Top' - 1 : x < y => Msg(x)' < Msg(y)'
        /\ \A x \in read_pos' .. Top' - 1 :
             \A m \in Consuming' \cup Range(consumed') \cup discarded' : m < Msg(x)'
    BY <1>2, <1>6, <1>8, <1>9, <2>1, <2>4
  <2>8. /\ \A j, k \in DOMAIN consumed : j < k => consumed[j] < consumed[k]
        /\ \A m \in Consuming : \A k \in DOMAIN consumed : consumed[k] < m
        /\ consumer.pc = "release" => consumer.message = Msg(consumer.pos)
    BY <1>1 DEF Calm, OrderOK
  <2>9. QED BY <1>2, <1>9, <2>5, <2>6, <2>7, <2>8 DEF OrderOK, Msg
<1>13. Kept' = Made'
  <2>1. Msg(read_pos) \in InRing
    BY <1>1, <1>4, OldestIsReady, FullPositions DEF Full
  <2>2. InRing' = InRing
    BY <1>2 DEF InRing
  <2>3. Kept' = Kept
    BY <1>2, <2>1, <2>2 DEF Kept, AtConsumer
  <2>4. Made' = Made
    BY <1>1, <1>2, MadeAlone, MadeAloneAfter
  <2>5. QED BY <1>1, <2>3, <2>4 DEF Calm
<1>14. DepthAccounts'
  <2>1. metrics'.depth = metrics.depth
    BY <1>1, MetricsMove DEF MetricsBecome
  <2>2. Holding' = Holding /\ One(Holding) \in {0, 1}
    BY <1>2 DEF Holding, One
  <2>3. write_pos \in Nat
    BY <1>1 DEF Types
  <2>4. metrics.depth = write_pos - read_pos - 0 + 0 + One(Holding)
    BY <1>1, <1>2, DepthAlone DEF One
  <2>5. metrics'.depth = write_pos' - read_pos' - One(publisher'[p].pc = "count")
                         + One(publisher'[p].pc = "discard") + One(Holding')
    BY <1>2, <1>4, <2>1, <2>2, <2>3, <2>4 DEF One
  <2>6. QED BY <1>1, <2>5, DepthAloneAfter
<1>15. QED BY <1>1, <1>10, <1>11, <1>12, <1>13, <1>14 DEF Calm

\* A slot is given up at the end it was claimed from, and only that one.
Cleared(y) ==
    /\ Full(y) /\ y < read_pos
    /\ slots' = [slots EXCEPT ![SlotOf(y)].ready = FALSE]
    /\ \A x \in Nat : Full(x)' <=> Full(x) /\ x # y

LEMMA ClearedStep ==
    ASSUME Types, Calm, NEW y \in Nat, Cleared(y)
    PROVE  /\ SlotsOK'
           /\ \A x \in Nat : Msg(x)' = Msg(x)
           /\ InRing' \subseteq InRing /\ InRing \subseteq InRing' \cup {Msg(y)}
           /\ Msg(y) \in InRing
<1>1. PICK k \in Indices : k = SlotOf(y)
  BY SlotType
<1>2. /\ DOMAIN slots = Indices /\ DOMAIN slots' = Indices
      /\ \A j \in Indices : slots'[j].message = slots[j].message
      /\ \A j \in Indices \ {k} : slots'[j] = slots[j]
      /\ ~slots'[k].ready
  BY <1>1 DEF Cleared, Types, Slots
<1>3. \A x \in Nat : Msg(x)' = Msg(x)
  BY <1>2, SlotType DEF Msg
<1>4. \A x \in Nat : Full(x)' => SlotOf(x) \in Indices \ {k}
  BY <1>1, FullPositions DEF Cleared
<1>5. SlotsOK'
  <2>1. \A x \in Nat : Full(x)' => slots'[SlotOf(x)].ready
    BY <1>2, <1>4 DEF Cleared, Calm, SlotsOK
  <2>2. \A j \in Indices : slots'[j].ready => \E x \in Nat : Full(x)' /\ SlotOf(x) = j
    BY <1>1, <1>2 DEF Cleared, Calm, SlotsOK
  <2>3. QED BY <2>1, <2>2 DEF SlotsOK
<1>6. InRing' \subseteq InRing /\ InRing \subseteq InRing' \cup {Msg(y)}
  <2>1. \A m : m \in InRing <=> \E j \in Indices : slots[j].ready /\ slots[j].message = m
    BY <1>2 DEF InRing
  <2>2. \A m : m \in InRing' <=> \E j \in Indices : slots'[j].ready /\ slots'[j].message = m
    BY <1>2 DEF InRing
  <2>3. Msg(y) = slots[k].message
    BY <1>1 DEF Msg
  <2>4. QED BY <1>2, <2>1, <2>2, <2>3
<1>7. Msg(y) \in InRing
  BY FullPositions DEF Cleared
<1>8. QED BY <1>3, <1>5, <1>6, <1>7

LEMMA DiscardCalm ==
    ASSUME BusInv, Types', NEW p \in Publishers, Discard(p), ~disturbed'
    PROVE  Calm'
<1>1. /\ ~disturbed /\ Calm /\ Alone(p) /\ Alone(p)' /\ OneEach' /\ Types
  BY StepsAlone DEF PublishStep, BusInv, CountInv
<1>2. /\ publisher[p].pc = "discard" /\ publisher'[p].pc = "check"
      /\ slots' = [slots EXCEPT ![SlotOf(publisher[p].pos)].ready = FALSE]
      /\ UNCHANGED <<read_pos, write_pos, consumer, consumed, accepted, discarded>>
  BY <1>1, ThreadMoves DEF Moves, Discard, answers
<1>3. PICK y \in Nat : y = publisher[p].pos
  BY <1>1 DEF Types, PublisherLocals
<1>4. /\ ~Writing' /\ Top' = Top
      /\ \A x : ~Discards(x)' /\ (Discards(x) <=> x = y)
  <2>1. ~Advancing /\ ~Advancing' /\ ~Writing'
    BY <1>1, <1>2, AloneIs, AloneIsAfter
  <2>2. Top' = Top
    BY <1>2, <2>1 DEF Top
  <2>3. \A x : ~Discards(x)' /\ (Discards(x) <=> x = y)
    BY <1>1, <1>2, <1>3, AloneIs, AloneIsAfter
  <2>4. QED BY <2>1, <2>2, <2>3
<1>5. \A x : Reads(x)' <=> Reads(x)
  BY <1>2 DEF Reads
<1>6. Full(y) /\ y < read_pos /\ ~Reads(y)
  BY <1>1, <1>4 DEF Full, Calm, WindowOK
<1>7. \A x \in Nat : Full(x)' <=> Full(x) /\ x # y
  <2>1. read_pos \in Nat /\ read_pos' .. Top' - 1 = read_pos .. Top - 1
    BY <1>1, <1>2, <1>4 DEF Types
  <2>2. y \notin read_pos .. Top - 1
    BY <1>6, <2>1
  <2>3. QED BY <1>4, <1>5, <1>6, <2>1, <2>2 DEF Full
<1>8. Cleared(y)
  BY <1>2, <1>3, <1>6, <1>7 DEF Cleared
<1>9. /\ SlotsOK' /\ \A x \in Nat : Msg(x)' = Msg(x)
      /\ InRing' \subseteq InRing /\ InRing \subseteq InRing' \cup {Msg(y)}
  BY <1>1, <1>8, ClearedStep
<1>10. Consuming' = Consuming
  BY <1>1, <1>2, <1>9 DEF Consuming, AtConsumer, Types, ConsumerLocals, Msg
<1>11. WindowOK'
  <2>1. \A q \in Publishers : publisher'[q].pc \notin {"copy", "ready", "advance"}
    BY <1>1, <1>2 DEF Alone
  <2>2. QED BY <1>1, <1>2, <1>4, <1>5, <1>7, <2>1 DEF Calm, WindowOK
<1>12. OrderOK'
  <2>1. \A x \in read_pos .. Top - 1 : x \in Nat /\ Msg(x)' = Msg(x)
    BY <1>1, <1>9 DEF Types
  <2>2. consumer.pc = "release" => consumer.message = slots'[SlotOf(consumer.pos)].message
    BY <1>1, <1>9 DEF Calm, OrderOK, Types, ConsumerLocals, Msg
  <2>3. \A q \in Publishers : publisher'[q].pc \notin {"discard", "ready"}
    BY <1>1, <1>2 DEF Alone
  <2>4. QED BY <1>1, <1>2, <1>4, <1>10, <2>1, <2>2, <2>3 DEF Calm, OrderOK, Msg
<1>13. Kept' = Made'
  <2>1. Msg(y) \in discarded
    BY <1>1, <1>2, <1>3 DEF Calm, OrderOK
  <2>2. Kept' = Kept
    BY <1>2, <1>9, <2>1 DEF Kept, AtConsumer
  <2>3. Made' = Made
    BY <1>1, <1>2, MadeAlone, MadeAloneAfter
  <2>4. QED BY <1>1, <2>2, <2>3 DEF Calm
<1>14. DepthAccounts'
  <2>1. metrics'.depth = metrics.depth - 1
    BY <1>1, MetricsMove DEF MetricsBecome
  <2>2. Holding' = Holding /\ One(Holding) \in {0, 1}
    BY <1>2 DEF Holding, One
  <2>3. write_pos \in Nat /\ read_pos \in Nat
    BY <1>1 DEF Types
  <2>4. metrics.depth = write_pos - read_pos - 0 + 1 + One(Holding)
    BY <1>1, <1>2, DepthAlone DEF One
  <2>5. metrics'.depth = write_pos' - read_pos' - One(publisher'[p].pc = "count")
                         + One(publisher'[p].pc = "discard") + One(Holding')
    BY <1>2, <2>1, <2>2, <2>3, <2>4 DEF One
  <2>6. QED BY <1>1, <2>5, DepthAloneAfter
<1>15. QED BY <1>1, <1>9, <1>11, <1>12, <1>13, <1>14 DEF Calm

\* What the steps of the consumer, and of those who subscribe and close, leave alone.
LEMMA ConsumerLeaves ==
    ASSUME BusInv, Subscribe \/ ConsumerStep \/ Shutdown \/ UNCHANGED vars, ~disturbed'
    PROVE  /\ ~disturbed /\ Calm /\ Types
           /\ UNCHANGED <<publisher, write_pos, sent, accepted, discarded>>
           /\ (Advancing' <=> Advancing) /\ (Writing' <=> Writing)
           /\ \A x : Discards(x)' <=> Discards(x)
           /\ Top' = Top /\ Top \in Nat /\ write_pos \in Nat /\ read_pos \in Nat
           /\ Made' = Made
           /\ HowMany("count")' = HowMany("count") /\ HowMany("discard")' = HowMany("discard")
<1>1. UNCHANGED <<publisher, write_pos, sent, accepted, discarded>>
  BY DEF Subscribe, ConsumerStep, ConsumeClaim, ConsumeCopy, ConsumeRelease, ConsumeCount,
         Deliver, ConsumerExit, Shutdown, vars, ring, answers
<1>2. ~disturbed
  <2>1. CASE ConsumeClaim
    BY <2>1, Zenon DEF ConsumeClaim
  <2>2. CASE ~ConsumeClaim
    BY <2>2 DEF Subscribe, ConsumerStep, ConsumeCopy, ConsumeRelease, ConsumeCount,
                Deliver, ConsumerExit, Shutdown, vars
  <2>3. QED BY <2>1, <2>2
<1>3. Calm /\ Types
  BY <1>2 DEF BusInv, CountInv
<1>4. (Advancing' <=> Advancing) /\ (Writing' <=> Writing) /\ \A x : Discards(x)' <=> Discards(x)
  BY <1>1 DEF Advancing, Writing, Discards
<1>5. Top' = Top /\ Top \in Nat /\ write_pos \in Nat /\ read_pos \in Nat
  BY <1>1, <1>3, <1>4, FullPositions DEF Top, Types
<1>6. Made' = Made
  BY <1>1 DEF Made, At
<1>7. HowMany("count")' = HowMany("count") /\ HowMany("discard")' = HowMany("discard")
  BY <1>1 DEF HowMany
<1>8. QED BY <1>1, <1>2, <1>3, <1>4, <1>5, <1>6, <1>7

LEMMA DepthOf ==
    ASSUME Calm, ~disturbed
    PROVE  /\ metrics.depth = write_pos - read_pos - HowMany("count") + HowMany("discard")
                              + One(Holding)
           /\ HowMany("count") \in Nat /\ HowMany("discard") \in Nat /\ One(Holding) \in {0, 1}
<1>1. \A c : HowMany(c) \in Nat
  <2>1. TAKE c
  <2>2. IsFiniteSet({q \in Publishers : publisher[q].pc = c})
    BY BusAssumption, FS_Subset
  <2>3. QED BY <2>2, FS_CardinalityType DEF HowMany
<1>2. QED BY <1>1 DEF Calm, DepthAccounts, Holding, One, HowMany

LEMMA DepthOfAfter ==
    ASSUME metrics'.depth = write_pos' - read_pos' - HowMany("count")' + HowMany("discard")'
                            + One(Holding')
    PROVE  DepthAccounts'
BY DEF DepthAccounts, Holding, One, HowMany

\* The consumer claims the oldest slot.
LEMMA ConsumeClaimCalm ==
    ASSUME BusInv, Types', ConsumeClaim, ~disturbed'
    PROVE  Calm'
<1>1. /\ ~disturbed /\ Calm /\ Types
      /\ UNCHANGED <<publisher, write_pos, sent, accepted, discarded>>
      /\ (Advancing' <=> Advancing) /\ (Writing' <=> Writing)
      /\ \A x : Discards(x)' <=> Discards(x)
      /\ Top' = Top /\ Top \in Nat /\ write_pos \in Nat /\ read_pos \in Nat
      /\ Made' = Made
      /\ HowMany("count")' = HowMany("count") /\ HowMany("discard")' = HowMany("discard")
  BY ConsumerLeaves DEF ConsumerStep
<1>2. /\ consumer.pc = "poll" /\ consumer'.pc = "copy" /\ consumer'.pos = read_pos
      /\ read_pos' = read_pos + 1 /\ slots[SlotOf(read_pos)].ready
      /\ UNCHANGED <<slots, consumed, metrics, running>>
  BY <1>1, ConsumerMoves DEF ConsumeClaim, ConsumerBecomes
<1>3. \A q \in Publishers : ~DiscardsSlot(q, read_pos)
  BY Zenon DEF ConsumeClaim
<1>4. read_pos < Top
  <2>1. ~ReadsSlot(read_pos)
    BY <1>2 DEF ReadsSlot
  <2>2. QED BY <1>1, <1>2, <1>3, <2>1, OldestIsReady
<1>5. \A x : ~Reads(x) /\ (Reads(x)' <=> x = read_pos)
  BY <1>2 DEF Reads
<1>6. \A x : x \in read_pos .. Top - 1 <=> x \in read_pos' .. Top' - 1 \/ x = read_pos
  BY <1>1, <1>2, <1>4
<1>7. \A x \in Nat : Full(x)' <=> Full(x)
  BY <1>1, <1>5, <1>6 DEF Full
<1>8. Consuming = {} /\ Consuming' = {Msg(read_pos)} /\ AtConsumer = {} /\ AtConsumer' = {}
  BY <1>2 DEF Consuming, AtConsumer, Msg
<1>9. SlotsOK'
  BY <1>1, <1>2, <1>7 DEF Calm, SlotsOK
<1>10. OneEach'
  BY <1>1, <1>2 DEF Calm, OneEach, Publishing
<1>11. WindowOK'
  <2>1. \A x \in Nat : Discards(x) => x < read_pos
    BY <1>1 DEF Calm, WindowOK
  <2>2. \A x \in Nat : Reads(x)' \/ Discards(x)' => x < read_pos'
    BY <1>1, <1>2, <1>5, <2>1
  <2>3. \A x \in Nat : Reads(x)' => ~Discards(x)'
    BY <1>1, <1>5, <2>1
  <2>4. read_pos' <= Top'
    BY <1>1, <1>2, <1>4
  <2>5. /\ \A x \in Nat : Full(x)' => Top' <= x + Capacity
        /\ Writing' => \A x \in Nat : Full(x)' => write_pos' < x + Capacity
        /\ \A q \in Publishers : publisher'[q].pc \in {"copy", "ready", "advance"} =>
             publisher'[q].pos = write_pos'
    BY <1>1, <1>7 DEF Calm, WindowOK
  <2>6. QED BY <2>2, <2>3, <2>4, <2>5 DEF WindowOK
<1>12. OrderOK'
  <2>1. \A x, y \in read_pos .. Top - 1 : x < y => Msg(x) < Msg(y)
    BY <1>1 DEF Calm, OrderOK
  <2>2. \A x \in read_pos .. Top - 1 : \A m \in Range(consumed) \cup discarded : m < Msg(x)
    BY <1>1 DEF Calm, OrderOK
  <2>3. read_pos \in read_pos .. Top - 1 /\ Msg(read_pos) \in Nat
    BY <1>1, <1>4, FullPositions DEF Full
  <2>4. ASSUME NEW x \in read_pos' .. Top' - 1, NEW m \in Consuming' \cup Range(consumed) \cup discarded
        PROVE  m < Msg(x)
    <3>1. x \in read_pos .. Top - 1 /\ read_pos < x
      BY <1>1, <1>2, <1>4
    <3>2. Msg(read_pos) < Msg(x)
      BY <2>1, <2>3, <3>1
    <3>3. QED BY <1>8, <2>2, <3>1, <3>2
  <2>5. (Consuming' \cup Range(consumed)) \cap discarded = {}
    <3>1. Msg(read_pos) \notin discarded
      BY <2>2, <2>3
    <3>2. Range(consumed) \cap discarded = {}
      BY <1>1 DEF Calm, OrderOK
    <3>3. QED BY <1>8, <3>1, <3>2
  <2>6. \A m \in Consuming' : \A k \in DOMAIN consumed : consumed[k] < m
    BY <1>8, <2>2, <2>3 DEF Range
  <2>7. /\ \A x, y \in read_pos' .. Top' - 1 : x < y => Msg(x)' < Msg(y)'
        /\ \A x \in read_pos' .. Top' - 1 :
             \A m \in Consuming' \cup Range(consumed') \cup discarded' : m < Msg(x)'
    BY <1>1, <1>2, <1>6, <2>1, <2>4 DEF Msg
  <2>8. /\ \A j, k \in DOMAIN consumed : j < k => consumed[j] < consumed[k]
        /\ \A q \in Publishers :
             /\ publisher[q].pc = "discard" => Msg(publisher[q].pos) \in discarded
             /\ publisher[q].pc = "ready" => Msg(publisher[q].pos) = publisher[q].message
    BY <1>1 DEF Calm, OrderOK
  <2>9. QED BY <1>1, <1>2, <2>5, <2>6, <2>7, <2>8 DEF OrderOK, Msg
<1>13. Kept' = Made'
  <2>1. Kept' = Kept
    BY <1>1, <1>2, <1>8 DEF Kept, InRing
  <2>2. QED BY <1>1, <2>1 DEF Calm
<1>14. DepthAccounts'
  <2>1. /\ metrics.depth = write_pos - read_pos - HowMany("count") + HowMany("discard") + One(Holding)
        /\ HowMany("count") \in Nat /\ HowMany("discard") \in Nat
    BY <1>1, DepthOf
  <2>2. One(Holding) = 0 /\ One(Holding') = 1
    BY <1>2 DEF One, Holding
  <2>3. metrics'.depth = write_pos' - read_pos' - HowMany("count")' + HowMany("discard")'
                         + One(Holding')
    BY <1>1, <1>2, <2>1, <2>2
  <2>4. QED BY <2>3, DepthOfAfter
<1>15. QED BY <1>9, <1>10, <1>11, <1>12, <1>13, <1>14 DEF Calm

\* The consumer has the message of the slot it claimed.
LEMMA ConsumeCopyCalm ==
    ASSUME BusInv, Types', ConsumeCopy, ~disturbed'
    PROVE  Calm'
<1>1. /\ ~disturbed /\ Calm /\ Types
      /\ UNCHANGED <<publisher, write_pos, sent, accepted, discarded>>
      /\ (Advancing' <=> Advancing) /\ (Writing' <=> Writing)
      /\ \A x : Discards(x)' <=> Discards(x)
      /\ Top' = Top /\ Top \in Nat /\ write_pos \in Nat /\ read_pos \in Nat
      /\ Made' = Made
      /\ HowMany("count")' = HowMany("count") /\ HowMany("discard")' = HowMany("discard")
  BY ConsumerLeaves DEF ConsumerStep
<1>2. /\ consumer.pc = "copy" /\ consumer'.pc = "release" /\ consumer'.pos = consumer.pos
      /\ consumer'.message = Msg(consumer.pos)
      /\ UNCHANGED <<slots, read_pos, consumed, metrics, running>>
  BY <1>1, ConsumerMoves DEF ConsumeCopy, ConsumerBecomes, ring, Msg
<1>3. \A x : Reads(x)' <=> Reads(x)
  BY <1>2 DEF Reads
<1>4. \A x \in Nat : Full(x)' <=> Full(x)
  BY <1>1, <1>2, <1>3 DEF Full
<1>5. Consuming' = Consuming /\ AtConsumer = {} /\ AtConsumer' = {Msg(consumer.pos)}
  BY <1>2 DEF Consuming, AtConsumer, Msg
<1>6. SlotsOK'
  BY <1>1, <1>2, <1>4 DEF Calm, SlotsOK
<1>7. OneEach'
  BY <1>1, <1>2 DEF Calm, OneEach, Publishing
<1>8. WindowOK'
  BY <1>1, <1>2, <1>3, <1>4 DEF Calm, WindowOK
<1>9. OrderOK'
  BY <1>1, <1>2, <1>5 DEF Calm, OrderOK, Msg
<1>10. Kept' = Made'
  <2>1. Msg(consumer.pos) \in InRing
    BY <1>1, <1>2, FullPositions DEF Full, Reads, Types, ConsumerLocals
  <2>2. InRing' = InRing
    BY <1>2 DEF InRing
  <2>3. Kept' = Kept
    BY <1>1, <1>2, <1>5, <2>1, <2>2 DEF Kept
  <2>4. QED BY <1>1, <2>3 DEF Calm
<1>11. DepthAccounts'
  <2>1. metrics.depth = write_pos - read_pos - HowMany("count") + HowMany("discard") + One(Holding)
    BY <1>1, DepthOf
  <2>2. Holding /\ Holding'
    BY <1>2 DEF Holding
  <2>3. metrics'.depth = write_pos' - read_pos' - HowMany("count")' + HowMany("discard")'
                         + One(Holding')
    BY <1>1, <1>2, <2>1, <2>2 DEF One
  <2>4. QED BY <2>3, DepthOfAfter
<1>12. QED BY <1>6, <1>7, <1>8, <1>9, <1>10, <1>11 DEF Calm

\* It gives up the slot with its message in hand.
LEMMA ConsumeReleaseCalm ==
    ASSUME BusInv, Types', ConsumeRelease, ~disturbed'
    PROVE  Calm'
<1>1. /\ ~disturbed /\ Calm /\ Types
      /\ UNCHANGED <<publisher, write_pos, sent, accepted, discarded>>
      /\ (Advancing' <=> Advancing) /\ (Writing' <=> Writing)
      /\ \A x : Discards(x)' <=> Discards(x)
      /\ Top' = Top /\ Top \in Nat /\ write_pos \in Nat /\ read_pos \in Nat
      /\ Made' = Made
      /\ HowMany("count")' = HowMany("count") /\ HowMany("discard")' = HowMany("discard")
  BY ConsumerLeaves DEF ConsumerStep
<1>2. /\ consumer.pc = "release" /\ consumer'.pc = "count" /\ consumer'.message = consumer.message
      /\ slots' = [slots EXCEPT ![SlotOf(consumer.pos)].ready = FALSE]
      /\ UNCHANGED <<read_pos, consumed, metrics, running>>
  BY <1>1, ConsumerMoves DEF ConsumeRelease, ConsumerBecomes
<1>3. PICK y \in Nat : y = consumer.pos
  BY <1>1 DEF Types, ConsumerLocals
<1>4. \A x : ~Reads(x)' /\ (Reads(x) <=> x = y)
  BY <1>2, <1>3 DEF Reads
<1>5. Full(y) /\ y < read_pos /\ ~Discards(y)
  BY <1>1, <1>4 DEF Full, Calm, WindowOK
<1>6. \A x \in Nat : Full(x)' <=> Full(x) /\ x # y
  <2>1. read_pos' .. Top' - 1 = read_pos .. Top - 1 /\ y \notin read_pos .. Top - 1
    BY <1>1, <1>2, <1>5
  <2>2. QED BY <1>1, <1>4, <1>5, <2>1 DEF Full
<1>7. Cleared(y)
  BY <1>2, <1>3, <1>5, <1>6 DEF Cleared
<1>8. /\ SlotsOK' /\ \A x \in Nat : Msg(x)' = Msg(x)
      /\ InRing' \subseteq InRing /\ InRing \subseteq InRing' \cup {Msg(y)}
  BY <1>1, <1>7, ClearedStep
<1>9. consumer.message = Msg(y)
  BY <1>1, <1>2, <1>3 DEF Calm, OrderOK
<1>10. Consuming' = Consuming /\ AtConsumer = {Msg(y)} /\ AtConsumer' = {Msg(y)}
  BY <1>2, <1>9 DEF Consuming, AtConsumer
<1>11. OneEach'
  BY <1>1, <1>2 DEF Calm, OneEach, Publishing
<1>12. WindowOK'
  BY <1>1, <1>2, <1>4, <1>6 DEF Calm, WindowOK
<1>13. OrderOK'
  <2>1. \A x \in read_pos .. Top - 1 : x \in Nat /\ Msg(x)' = Msg(x)
    BY <1>1, <1>8
  <2>2. /\ \A x, z \in read_pos' .. Top' - 1 : x < z => Msg(x)' < Msg(z)'
        /\ \A x \in read_pos' .. Top' - 1 :
             \A m \in Consuming' \cup Range(consumed') \cup discarded' : m < Msg(x)'
    BY <1>1, <1>2, <1>10, <2>1 DEF Calm, OrderOK
  <2>3. \A q \in Publishers :
          /\ publisher[q].pc = "discard" => slots'[SlotOf(publisher[q].pos)].message \in discarded
          /\ publisher[q].pc = "ready" =>
               slots'[SlotOf(publisher[q].pos)].message = publisher[q].message
    <3>1. TAKE q \in Publishers
    <3>2. publisher[q].pos \in Nat
      BY <1>1 DEF Types, PublisherLocals
    <3>3. slots'[SlotOf(publisher[q].pos)].message = Msg(publisher[q].pos)
      BY <1>8, <3>2 DEF Msg
    <3>4. QED BY <1>1, <3>3 DEF Calm, OrderOK
  <2>4. QED BY <1>1, <1>2, <1>10, <2>2, <2>3 DEF Calm, OrderOK, Msg
<1>14. Kept' = Made'
  <2>1. Kept' = Kept
    BY <1>1, <1>2, <1>8, <1>10 DEF Kept
  <2>2. QED BY <1>1, <2>1 DEF Calm
<1>15. DepthAccounts'
  <2>1. metrics.depth = write_pos - read_pos - HowMany("count") + HowMany("discard") + One(Holding)
    BY <1>1, DepthOf
  <2>2. Holding /\ Holding'
    BY <1>2 DEF Holding
  <2>3. metrics'.depth = write_pos' - read_pos' - HowMany("count")' + HowMany("discard")'
                         + One(Holding')
    BY <1>1, <1>2, <2>1, <2>2 DEF One
  <2>4. QED BY <2>3, DepthOfAfter
<1>16. QED BY <1>8, <1>11, <1>12, <1>13, <1>14, <1>15 DEF Calm

LEMMA ConsumeCountCalm ==
    ASSUME BusInv, Types', ConsumeCount, ~disturbed'
    PROVE  Calm'
<1>1. /\ ~disturbed /\ Calm /\ Types
      /\ UNCHANGED <<publisher, write_pos, sent, accepted, discarded>>
      /\ (Advancing' <=> Advancing) /\ (Writing' <=> Writing)
      /\ \A x : Discards(x)' <=> Discards(x)
      /\ Top' = Top /\ Top \in Nat /\ write_pos \in Nat /\ read_pos \in Nat
      /\ Made' = Made
      /\ HowMany("count")' = HowMany("count") /\ HowMany("discard")' = HowMany("discard")
  BY ConsumerLeaves DEF ConsumerStep
<1>2. /\ consumer.pc = "count" /\ consumer'.pc = "deliver" /\ consumer'.message = consumer.message
      /\ metrics'.depth = metrics.depth - 1
      /\ UNCHANGED <<slots, read_pos, consumed, running>>
  BY <1>1, ConsumerMoves DEF ConsumeCount, ConsumerBecomes, MetricsBecome, ring
<1>3. \A x : ~Reads(x) /\ ~Reads(x)'
  BY <1>2 DEF Reads
<1>4. \A x \in Nat : Full(x)' <=> Full(x)
  BY <1>1, <1>2, <1>3 DEF Full
<1>5. Consuming' = Consuming /\ AtConsumer' = AtConsumer
  BY <1>2 DEF Consuming, AtConsumer
<1>6. SlotsOK'
  BY <1>1, <1>2, <1>4 DEF Calm, SlotsOK
<1>7. OneEach'
  BY <1>1, <1>2 DEF Calm, OneEach, Publishing
<1>8. WindowOK'
  BY <1>1, <1>2, <1>3, <1>4 DEF Calm, WindowOK
<1>9. OrderOK'
  BY <1>1, <1>2, <1>5 DEF Calm, OrderOK, Msg
<1>10. Kept' = Made'
  BY <1>1, <1>2, <1>5 DEF Kept, InRing, Calm
<1>11. DepthAccounts'
  <2>1. /\ metrics.depth = write_pos - read_pos - HowMany("count") + HowMany("discard") + One(Holding)
        /\ HowMany("count") \in Nat /\ HowMany("discard") \in Nat
    BY <1>1, DepthOf
  <2>2. One(Holding) = 1 /\ One(Holding') = 0
    BY <1>2 DEF Holding, One
  <2>3. metrics'.depth = write_pos' - read_pos' - HowMany("count")' + HowMany("discard")'
                         + One(Holding')
    BY <1>1, <1>2, <2>1, <2>2
  <2>4. QED BY <2>3, DepthOfAfter
<1>12. QED BY <1>6, <1>7, <1>8, <1>9, <1>10, <1>11 DEF Calm

\* The subscribers get the message, which is beyond all that they got before.
LEMMA DeliverCalm ==
    ASSUME BusInv, Types', Deliver, ~disturbed'
    PROVE  Calm'
<1>1. /\ ~disturbed /\ Calm /\ Types
      /\ UNCHANGED <<publisher, write_pos, sent, accepted, discarded>>
      /\ (Advancing' <=> Advancing) /\ (Writing' <=> Writing)
      /\ \A x : Discards(x)' <=> Discards(x)
      /\ Top' = Top /\ Top \in Nat /\ write_pos \in Nat /\ read_pos \in Nat
      /\ Made' = Made
      /\ HowMany("count")' = HowMany("count") /\ HowMany("discard")' = HowMany("discard")
  BY ConsumerLeaves DEF ConsumerStep
<1>2. /\ consumer.pc = "deliver" /\ consumer'.pc = "poll"
      /\ consumed' = Append(consumed, consumer.message)
      /\ UNCHANGED <<slots, read_pos, metrics, running>>
  BY <1>1, ConsumerMoves DEF Deliver, ConsumerBecomes, ring
<1>3. \A x : ~Reads(x) /\ ~Reads(x)'
  BY <1>2 DEF Reads
<1>4. \A x \in Nat : Full(x)' <=> Full(x)
  BY <1>1, <1>2, <1>3 DEF Full
<1>5. PICK m : m = consumer.message
  OBVIOUS
<1>6. /\ Consuming = {m} /\ AtConsumer = {m} /\ Consuming' = {} /\ AtConsumer' = {}
  BY <1>2, <1>5 DEF Consuming, AtConsumer
<1>7. PICK n \in Nat : n = Len(consumed)
  BY <1>1 DEF Types
<1>8. /\ DOMAIN consumed = 1 .. n /\ DOMAIN consumed' = 1 .. n + 1
      /\ \A j \in 1 .. n : consumed'[j] = consumed[j]
      /\ consumed'[n + 1] = m
  BY <1>1, <1>2, <1>5, <1>7 DEF Types, ConsumerLocals
<1>9. Range(consumed') = Range(consumed) \cup {m}
  <2>1. \A j : j \in 1 .. n + 1 <=> j \in 1 .. n \/ j = n + 1
    BY <1>7
  <2>2. QED BY <1>8, <2>1 DEF Range
<1>10. SlotsOK'
  BY <1>1, <1>2, <1>4 DEF Calm, SlotsOK
<1>11. OneEach'
  BY <1>1, <1>2 DEF Calm, OneEach, Publishing
<1>12. WindowOK'
  BY <1>1, <1>2, <1>3, <1>4 DEF Calm, WindowOK
<1>13. OrderOK'
  <2>1. ASSUME NEW j \in 1 .. n + 1, NEW k \in 1 .. n + 1, j < k
        PROVE  consumed'[j] < consumed'[k]
    <3>1. j \in 1 .. n
      BY <1>7, <2>1
    <3>2. CASE k = n + 1
      BY <1>1, <1>6, <1>8, <3>1, <3>2 DEF Calm, OrderOK
    <3>3. CASE k # n + 1
      <4>1. k \in 1 .. n
        BY <1>7, <3>3
      <4>2. QED BY <1>1, <1>8, <2>1, <3>1, <4>1 DEF Calm, OrderOK
    <3>4. QED BY <3>2, <3>3
  <2>2. \A j, k \in DOMAIN consumed' : j < k => consumed'[j] < consumed'[k]
    BY <1>8, <2>1
  <2>3. Consuming' \cup Range(consumed') \cup discarded = Consuming \cup Range(consumed) \cup discarded
    BY <1>6, <1>9
  <2>4. (Consuming' \cup Range(consumed')) \cap discarded = {}
    <3>1. Consuming' \cup Range(consumed') = Consuming \cup Range(consumed)
      BY <1>6, <1>9
    <3>2. QED BY <1>1, <3>1 DEF Calm, OrderOK
  <2>5. /\ \A x, y \in read_pos' .. Top' - 1 : x < y => Msg(x)' < Msg(y)'
        /\ \A x \in read_pos' .. Top' - 1 :
             \A l \in Consuming' \cup Range(consumed') \cup discarded' : l < Msg(x)'
    BY <1>1, <1>2, <2>3 DEF Calm, OrderOK, Msg
  <2>6. \A q \in Publishers :
          /\ publisher[q].pc = "discard" => Msg(publisher[q].pos) \in discarded
          /\ publisher[q].pc = "ready" => Msg(publisher[q].pos) = publisher[q].message
    BY <1>1 DEF Calm, OrderOK
  <2>7. QED BY <1>1, <1>2, <1>6, <2>2, <2>4, <2>5, <2>6 DEF OrderOK, Msg
<1>14. Kept' = Made'
  <2>1. Kept' = Kept
    BY <1>1, <1>2, <1>6, <1>9 DEF Kept, InRing
  <2>2. QED BY <1>1, <2>1 DEF Calm
<1>15. DepthAccounts'
  <2>1. metrics.depth = write_pos - read_pos - HowMany("count") + HowMany("discard") + One(Holding)
    BY <1>1, DepthOf
  <2>2. ~Holding /\ ~Holding'
    BY <1>2 DEF Holding
  <2>3. metrics'.depth = write_pos' - read_pos' - HowMany("count")' + HowMany("discard")'
                         + One(Holding')
    BY <1>1, <1>2, <2>1, <2>2 DEF One
  <2>4. QED BY <2>3, DepthOfAfter
<1>16. QED BY <1>10, <1>11, <1>12, <1>13, <1>14, <1>15 DEF Calm

\* The consumer starts, or ends; the bus is closed when nobody publishes any more.
LEMMA OthersCalm ==
    ASSUME BusInv, Types', Subscribe \/ ConsumerExit \/ Shutdown \/ UNCHANGED vars, ~disturbed'
    PROVE  Calm'
<1>1. /\ ~disturbed /\ Calm /\ Types
      /\ UNCHANGED <<publisher, write_pos, sent, accepted, discarded>>
      /\ (Advancing' <=> Advancing) /\ (Writing' <=> Writing)
      /\ \A x : Discards(x)' <=> Discards(x)
      /\ Top' = Top /\ Top \in Nat /\ write_pos \in Nat /\ read_pos \in Nat
      /\ Made' = Made
      /\ HowMany("count")' = HowMany("count") /\ HowMany("discard")' = HowMany("discard")
  BY ConsumerLeaves DEF ConsumerStep
<1>2. UNCHANGED <<slots, read_pos, metrics, consumed>>
  BY DEF Subscribe, ConsumerExit, Shutdown, vars, ring
<1>3. consumer' = consumer \/ (consumer.pc \in {"none", "poll"} /\ consumer'.pc \in {"poll", "gone"})
  <2>1. CASE Subscribe
    <3>1. consumer' = consumer \/ consumer.pc = "none"
      BY <2>1 DEF Subscribe
    <3>2. consumer'.pc = IF consumer.pc = "none" THEN "poll" ELSE consumer.pc
      BY <1>1, <2>1, ConsumerMoves DEF ConsumerBecomes
    <3>3. QED BY <3>1, <3>2
  <2>2. CASE ConsumerExit
    BY <1>1, <2>2, ConsumerMoves DEF ConsumerBecomes, ConsumerExit
  <2>3. CASE Shutdown \/ UNCHANGED vars
    BY <2>3 DEF Shutdown, vars
  <2>4. QED BY <2>1, <2>2, <2>3
<1>4. \A x : Reads(x)' <=> Reads(x)
  BY <1>3 DEF Reads
<1>5. \A x \in Nat : Full(x)' <=> Full(x)
  BY <1>1, <1>2, <1>4 DEF Full
<1>6. Consuming' = Consuming /\ AtConsumer' = AtConsumer /\ (Holding' <=> Holding)
  BY <1>2, <1>3 DEF Consuming, AtConsumer, Holding, Msg
<1>7. SlotsOK'
  BY <1>1, <1>2, <1>5 DEF Calm, SlotsOK
<1>8. OneEach'
  <2>1. /\ running' => running
        /\ ~running' => ~running \/ \A q \in Publishers : ~Publishing(q)
    BY DEF Subscribe, ConsumerExit, Shutdown, vars
  <2>2. ~running' => \A q \in Publishers : ~Publishing(q)
    BY <1>1, <2>1 DEF Calm, OneEach
  <2>3. consumer'.pc = "gone" => ~running' /\ write_pos <= read_pos
    <3>1. CASE ConsumerExit
      BY <3>1 DEF ConsumerExit
    <3>2. CASE Subscribe
      <4>1. consumer'.pc = "gone" => consumer.pc = "gone"
        BY <1>1, <3>2, ConsumerMoves DEF ConsumerBecomes
      <4>2. QED BY <1>1, <3>2, <4>1 DEF Calm, OneEach, Subscribe
    <3>3. CASE Shutdown \/ UNCHANGED vars
      <4>1. consumer' = consumer
        BY <3>3 DEF Shutdown, vars
      <4>2. QED BY <1>1, <2>1, <4>1 DEF Calm, OneEach
    <3>4. QED BY <3>1, <3>2, <3>3
  <2>4. QED BY <1>1, <1>2, <2>2, <2>3 DEF Calm, OneEach, Publishing
<1>9. WindowOK'
  BY <1>1, <1>2, <1>4, <1>5 DEF Calm, WindowOK
<1>10. OrderOK'
  <2>1. consumer'.pc = "release" => consumer' = consumer
    BY <1>3
  <2>2. QED BY <1>1, <1>2, <1>6, <2>1 DEF Calm, OrderOK, Msg
<1>11. Kept' = Made'
  BY <1>1, <1>2, <1>6 DEF Kept, InRing, Calm
<1>12. DepthAccounts'
  <2>1. metrics.depth = write_pos - read_pos - HowMany("count") + HowMany("discard") + One(Holding)
    BY <1>1, DepthOf
  <2>2. One(Holding') = One(Holding)
    BY <1>6 DEF One
  <2>3. metrics'.depth = write_pos' - read_pos' - HowMany("count")' + HowMany("discard")'
                         + One(Holding')
    BY <1>1, <1>2, <2>1, <2>2
  <2>4. QED BY <2>3, DepthOfAfter
<1>13. QED BY <1>7, <1>8, <1>9, <1>10, <1>11, <1>12 DEF Calm

-----------------------------------------------------------------------------
(* The theorems                                                            *)

LEMMA BusInvKept ==
    ASSUME BusInv, [Next]_vars
    PROVE  BusInv'
<1>1. CountInv' /\ Types'
  BY CountInvKept DEF BusInv, CountInv
<1>2. SUFFICES ASSUME ~disturbed' PROVE Calm'
  BY <1>1 DEF BusInv
<1>3. ASSUME NEW p \in Publishers, PublishBegin(p) \/ PublishStep(p) PROVE Calm'
  BY <1>1, <1>2, <1>3, BeginCalm, CheckCalm, CopyCalm, ReadyCalm, AdvanceCalm, CountCalm,
     RefusedCalm, RetryCalm, DiscardClaimCalm, DiscardCalm DEF PublishStep
<1>4. CASE Subscribe \/ ConsumerStep \/ Shutdown \/ UNCHANGED vars
  BY <1>1, <1>2, <1>4, ConsumeClaimCalm, ConsumeCopyCalm, ConsumeReleaseCalm, ConsumeCountCalm,
     DeliverCalm, OthersCalm DEF ConsumerStep
<1>5. QED BY <1>3, <1>4 DEF Next

LEMMA BusInvInit ==
    ASSUME Init
    PROVE  BusInv
<1>1. /\ \A p \in Publishers : publisher[p] = Idle
      /\ Idle \in PublisherLocals /\ Idle.pc = "idle"
  BY DEF Init, Idle, PublisherLocals, PublisherSteps
<1>2. Types
  <2>1. slots \in [Indices -> Slots] /\ \A k \in Indices : slots[k].message <= sent
    BY DEF Init, Indices, Slots
  <2>2. metrics \in Metrics /\ consumer \in ConsumerLocals /\ consumed \in Seq(Nat)
    BY DEF Init, Metrics, ConsumerLocals, ConsumerSteps
  <2>3. publisher \in [Publishers -> PublisherLocals]
    BY <1>1 DEF Init
  <2>4. /\ policy \in Policies /\ running \in BOOLEAN /\ disturbed \in BOOLEAN
        /\ subscribers \in 0 .. MaxSubscribers /\ sent \in 0 .. MaxMessages
        /\ write_pos \in Nat /\ read_pos \in Nat
    <3>1. policy \in Policies /\ running /\ ~disturbed
      BY DEF Init
    <3>2. subscribers = 0 /\ sent = 0 /\ write_pos = 0 /\ read_pos = 0
      BY DEF Init
    <3>3. running \in BOOLEAN /\ disturbed \in BOOLEAN
      BY DEF Init
    <3>4. QED BY <3>1, <3>2, <3>3, BusAssumption
  <2>5. QED BY <2>1, <2>2, <2>3, <2>4 DEF Types
<1>3. MessagesOK
  BY <1>1 DEF Init, MessagesOK, Publishing
<1>4. /\ \A k \in Indices : ~slots[k].ready
      /\ consumer.pc = "none" /\ write_pos = 0 /\ read_pos = 0 /\ sent = 0
      /\ accepted = {} /\ refused = {} /\ discarded = {} /\ consumed = <<>>
      /\ metrics.depth = 0 /\ metrics.drops = 0 /\ metrics.hits = 0 /\ running
      /\ DOMAIN slots = Indices
  BY DEF Init, Indices
<1>5. /\ Made = {} /\ Placed = {} /\ Hit = {} /\ Dropped = {} /\ ReadySlots = {}
      /\ HowMany("count") = 0 /\ HowMany("discard") = 0 /\ Cardinality({}) = 0
  <2>1. Made = {} /\ Placed = {} /\ Dropped = {}
    BY <1>1, <1>4, InSets
  <2>2. Hit = {}
    BY <1>1, <2>1, InSets
  <2>3. /\ {q \in Publishers : publisher[q].pc = "count"} = {}
        /\ {q \in Publishers : publisher[q].pc = "discard"} = {}
    BY <1>1
  <2>4. HowMany("count") = 0 /\ HowMany("discard") = 0 /\ Cardinality({}) = 0
    BY <2>3, FS_EmptySet DEF HowMany
  <2>5. ReadySlots = {}
    BY <1>4 DEF ReadySlots
  <2>6. QED BY <2>1, <2>2, <2>4, <2>5
<1>6. ~Busy /\ Taken = 0 /\ Len(consumed) = 0
  BY <1>4 DEF Busy, Taken
<1>7. CountsOK
  BY <1>1, <1>4, <1>5, <1>6 DEF CountsOK, PositionsCounted, HitsCounted, DropsCounted,
                                ReadsCounted, SlotsCounted
<1>8. ~Advancing /\ ~Writing /\ Top = 0 /\ \A x : ~Reads(x) /\ ~Discards(x)
  BY <1>1, <1>4 DEF Advancing, Writing, Top, Reads, Discards
<1>9. \A x \in Nat : ~Full(x)
  BY <1>4, <1>8 DEF Full
<1>10. OneEach
  BY <1>1, <1>4 DEF OneEach, Publishing
<1>11. WindowOK
  BY <1>1, <1>4, <1>8, <1>9 DEF WindowOK
<1>12. SlotsOK
  BY <1>4, <1>9 DEF SlotsOK
<1>13. Range(consumed) = {} /\ AtConsumer = {} /\ Consuming = {} /\ InRing = {}
  <2>1. DOMAIN consumed = {}
    BY <1>4
  <2>2. Range(consumed) = {}
    BY <2>1 DEF Range
  <2>3. AtConsumer = {} /\ Consuming = {}
    BY <1>4 DEF AtConsumer, Consuming
  <2>4. InRing = {}
    BY <1>4 DEF InRing
  <2>5. QED BY <2>2, <2>3, <2>4
<1>14. OrderOK
  <2>1. read_pos .. Top - 1 = {}
    BY <1>4, <1>8
  <2>2. DOMAIN consumed = {}
    BY <1>4
  <2>3. QED BY <1>1, <1>4, <1>13, <2>1, <2>2 DEF OrderOK
<1>15. Kept = Made
  BY <1>4, <1>5, <1>13 DEF Kept
<1>16. DepthAccounts
  BY <1>4, <1>5 DEF DepthAccounts, HowMany
<1>17. QED
  BY <1>2, <1>3, <1>7, <1>10, <1>11, <1>12, <1>14, <1>15, <1>16 DEF BusInv, CountInv, Calm

\* Whatever threads publish and whenever the consumer runs, each call has one answer and
\* is counted at most once as a hit and as a drop; and as long as one thread publishes at
\* a time and nobody claims a slot a lap after another that is not done with it, the ring
\* holds the messages between its positions, each in a slot of its own, in order
\* (publish, consumer_loop, SpscRingBuffer).
THEOREM BusInvariant == Spec => []BusInv
<1>1. Init => BusInv
  BY BusInvInit
<1>2. BusInv /\ [Next]_vars => BusInv'
  BY BusInvKept
<1>3. QED BY <1>1, <1>2, PTL DEF Spec

LEMMA DepthIsBounded ==
    ASSUME Types, Calm, ~disturbed
    PROVE  metrics.depth \in -1 .. Capacity + 1
<1>1. PICK c, d, h : c = HowMany("count") /\ d = HowMany("discard") /\ h = One(Holding)
  OBVIOUS
<1>2. /\ metrics.depth = write_pos - read_pos - c + d + h
      /\ c \in Nat /\ d \in Nat /\ h \in {0, 1}
  BY <1>1, DepthOf
<1>3. /\ write_pos \in Nat /\ read_pos \in Nat /\ Capacity \in Nat \ {0} /\ Top \in Nat
      /\ read_pos <= Top /\ write_pos <= Top
  BY FullPositions, BusAssumption DEF Types
<1>4. write_pos - read_pos <= Capacity
  <2>1. CASE read_pos < write_pos
    <3>1. Full(read_pos)
      BY <1>3, <2>1 DEF Full
    <3>2. Top <= read_pos + Capacity
      BY <1>3, <3>1, FullPositions
    <3>3. QED BY <1>3, <3>2
  <2>2. CASE ~(read_pos < write_pos)
    BY <1>3, <2>2
  <2>3. QED BY <2>1, <2>2
<1>5. CASE \E p \in Publishers : publisher[p].pc # "idle"
  <2>1. PICK p \in Publishers : publisher[p].pc # "idle"
    BY <1>5
  <2>2. Alone(p)
    BY <2>1 DEF Calm, OneEach, Publishing, Alone
  <2>3. /\ c = One(publisher[p].pc = "count") /\ d = One(publisher[p].pc = "discard")
        /\ Advancing <=> publisher[p].pc = "advance"
        /\ \A x : Discards(x) <=> publisher[p].pc = "discard" /\ x = publisher[p].pos
    BY <1>1, <2>2, AloneIs
  <2>4. publisher[p].pc # "advance" => read_pos <= write_pos
    BY <1>3, <2>3 DEF Top
  <2>5. read_pos <= write_pos + 1
    BY <1>3, FullPositions
  <2>6. publisher[p].pc = "discard" => write_pos - read_pos + 1 <= Capacity
    <3>1. HAVE publisher[p].pc = "discard"
    <3>2. PICK y \in Nat : y = publisher[p].pos
      BY DEF Types, PublisherLocals
    <3>3. Discards(y) /\ Full(y)
      BY <2>3, <3>1, <3>2 DEF Full
    <3>4. y < read_pos /\ Top <= y + Capacity
      BY <3>3, FullPositions DEF Calm, WindowOK
    <3>5. QED BY <1>3, <3>4
  <2>7. CASE publisher[p].pc = "discard"
    <3>1. c = 0 /\ d = 1
      BY <2>3, <2>7 DEF One
    <3>2. QED BY <1>2, <1>3, <2>4, <2>6, <2>7, <3>1
  <2>8. CASE publisher[p].pc = "count"
    <3>1. c = 1 /\ d = 0
      BY <2>3, <2>8 DEF One
    <3>2. QED BY <1>2, <1>3, <1>4, <2>4, <2>8, <3>1
  <2>9. CASE publisher[p].pc \notin {"discard", "count"}
    <3>1. c = 0 /\ d = 0
      BY <2>3, <2>9 DEF One
    <3>2. QED BY <1>2, <1>3, <1>4, <2>5, <3>1
  <2>10. QED BY <2>7, <2>8, <2>9
<1>6. CASE \A p \in Publishers : publisher[p].pc = "idle"
  <2>1. /\ {q \in Publishers : publisher[q].pc = "count"} = {}
        /\ {q \in Publishers : publisher[q].pc = "discard"} = {}
    BY <1>6
  <2>2. c = 0 /\ d = 0
    BY <1>1, <2>1, FS_EmptySet DEF HowMany
  <2>3. read_pos <= write_pos
    BY <1>3, <1>6 DEF Top, Advancing
  <2>4. QED BY <1>2, <1>3, <1>4, <2>2, <2>3
<1>7. QED BY <1>5, <1>6

LEMMA BusTypes ==
    ASSUME BusInv
    PROVE  TypeOK
<1>1. Types /\ MessagesOK /\ CountsOK
  BY DEF BusInv, CountInv
<1>2. sent \in Nat /\ sent <= MaxMessages /\ MaxMessages \in Nat
  BY <1>1, BusAssumption DEF Types
<1>3. /\ Placed \subseteq 1 .. sent /\ Made \subseteq 1 .. sent
      /\ Dropped \subseteq 1 .. sent /\ Hit \subseteq 1 .. sent
  BY <1>1, SetsInRange
<1>4. PICK a, b, h, d :
        /\ a = Cardinality(Placed) /\ b = Cardinality(Made)
        /\ h = Cardinality(Hit) /\ d = Cardinality(Dropped)
  OBVIOUS
<1>5. /\ a \in Nat /\ a <= sent /\ b \in Nat /\ b <= sent
      /\ h \in Nat /\ h <= sent /\ d \in Nat /\ d <= sent
  BY <1>2, <1>3, <1>4, Grown
<1>6. write_pos \in 0 .. MaxMessages
  BY <1>1, <1>2, <1>4, <1>5 DEF Types, CountsOK, PositionsCounted
<1>7. metrics.hits <= sent /\ metrics.drops <= sent
  BY <1>1, <1>2, <1>4, <1>5 DEF Types, Metrics, CountsOK, HitsCounted, DropsCounted
<1>8. PICK n, r : n = Len(consumed) /\ r = Cardinality(ReadySlots)
  OBVIOUS
<1>9. n + (IF Busy THEN 1 ELSE 0) <= b
  <2>1. PICK k \in Indices : k = SlotOf(consumer.pos)
    BY <1>1, SlotType DEF Types, ConsumerLocals
  <2>2. IsFiniteSet(ReadySlots)
    <3>1. IsFiniteSet(Indices)
      BY BusAssumption, FS_Interval DEF Indices
    <3>2. QED BY <3>1, FS_Subset DEF ReadySlots
  <2>3. r \in Nat /\ n \in Nat
    BY <1>1, <1>8, <2>2, FS_CardinalityType DEF Types
  <2>4. r + n + Taken <= b
    BY <1>1, <1>4, <1>8 DEF CountsOK, SlotsCounted
  <2>5. CASE Busy /\ Taken = 0
    <3>1. k \in ReadySlots
      BY <2>1, <2>5 DEF Busy, Taken, ReadySlots
    <3>2. r # 0
      BY <1>8, <2>2, <3>1, FS_EmptySet
    <3>3. QED BY <1>5, <2>3, <2>4, <2>5, <3>2
  <2>6. CASE ~Busy \/ Taken = 1
    <3>1. Taken \in {0, 1}
      BY DEF Taken
    <3>2. QED BY <1>5, <2>3, <2>4, <2>6, <3>1
  <2>7. QED BY <2>5, <2>6 DEF Taken
<1>10. read_pos \in 0 .. 2 * MaxMessages
  <2>1. PICK e : e = n + (IF Busy THEN 1 ELSE 0)
    OBVIOUS
  <2>2. e \in Nat /\ e <= b
    BY <1>1, <1>8, <1>9, <2>1 DEF Types
  <2>3. read_pos \in Nat /\ read_pos <= e + h
    BY <1>1, <1>4, <1>8, <2>1 DEF Types, CountsOK, ReadsCounted
  <2>4. QED BY <1>2, <1>5, <2>2, <2>3
<1>11. \A k \in DOMAIN slots : slots[k].ready \in BOOLEAN /\ slots[k].message \in 0 .. MaxMessages
  <2>1. TAKE k \in DOMAIN slots
  <2>2. slots[k].ready \in BOOLEAN /\ slots[k].message \in Nat /\ slots[k].message <= sent
    BY <1>1 DEF Types, Slots
  <2>3. QED BY <1>2, <2>2
<1>12. disturbed \/ metrics.depth \in -1 .. Capacity + 1
  BY <1>1, DepthIsBounded DEF BusInv
<1>13. /\ \A p \in Publishers : publisher[p].pc \in PublisherSteps
       /\ consumer.pc \in ConsumerSteps
  BY <1>1 DEF Types, PublisherLocals, ConsumerLocals
<1>14. accepted \cup refused \subseteq 1 .. sent /\ accepted \cap refused = {}
  BY <1>1 DEF MessagesOK
<1>15. QED
  BY <1>1, <1>6, <1>7, <1>10, <1>11, <1>12, <1>13, <1>14
     DEF TypeOK, Types, PublisherSteps, ConsumerSteps

LEMMA BusIsCalm ==
    ASSUME BusInv
    PROVE  NoTornCopy /\ AnswersAreTrue /\ InOrder /\ DepthAccounts /\ ClosedIsDrained
<1>1. CASE disturbed
  BY <1>1 DEF NoTornCopy, AnswersAreTrue, InOrder, DepthAccounts, ClosedIsDrained
<1>2. CASE ~disturbed
  <2>1. Types /\ MessagesOK /\ Calm
    BY <1>2 DEF BusInv, CountInv
  <2>2. NoTornCopy
    <3>1. SUFFICES ASSUME consumer.pc = "copy", NEW p \in Publishers,
                          publisher[p].pc \in {"copy", "ready", "discard"}
                   PROVE  SlotOf(publisher[p].pos) # SlotOf(consumer.pos)
      BY DEF NoTornCopy
    <3>2. PICK x \in Nat, y \in Nat : x = publisher[p].pos /\ y = consumer.pos
      BY <2>1 DEF Types, PublisherLocals, ConsumerLocals
    <3>3. Reads(y) /\ Full(y)
      BY <3>1, <3>2 DEF Reads, Full
    <3>4. Alone(p)
      BY <2>1, <3>1 DEF Calm, OneEach, Publishing, Alone
    <3>5. CASE publisher[p].pc \in {"copy", "ready"}
      <4>1. Writing /\ ~Advancing
        BY <3>4, <3>5, AloneIs
      <4>2. x = write_pos
        BY <2>1, <3>2, <3>5 DEF Calm, WindowOK
      <4>3. QED BY <2>1, <3>2, <3>3, <4>1, <4>2, RoomToWrite
    <3>6. CASE publisher[p].pc = "discard"
      <4>1. Discards(x) /\ Full(x)
        BY <3>2, <3>6 DEF Discards, Full
      <4>2. x # y
        BY <2>1, <3>3, <4>1 DEF Calm, WindowOK
      <4>3. QED BY <2>1, <3>2, <3>3, <4>1, <4>2, FullPositions
    <3>7. QED BY <3>1, <3>5, <3>6
  <2>3. AnswersAreTrue
    <3>1. accepted \subseteq Made /\ refused \cap Made = {}
      <4>1. \A m \in refused : m \notin accepted
        BY <2>1 DEF MessagesOK
      <4>2. \A m \in refused : \A p \in Publishers :
              publisher[p].pc # "idle" => publisher[p].message # m
        BY <2>1 DEF MessagesOK, Publishing
      <4>3. QED BY <4>1, <4>2, InSets
    <3>2. QED BY <2>1, <3>1 DEF Calm, Kept, AnswersAreTrue
  <2>4. InOrder
    BY <2>1 DEF InOrder, Calm, OrderOK
  <2>5. ClosedIsDrained
    <3>1. SUFFICES ASSUME consumer.pc = "gone" PROVE accepted \subseteq Range(consumed) \cup discarded
      BY DEF ClosedIsDrained
    <3>2. write_pos <= read_pos /\ \A p \in Publishers : publisher[p].pc = "idle"
      BY <2>1, <3>1 DEF Calm, OneEach, Publishing
    <3>3. Top = write_pos /\ \A x : ~Reads(x) /\ ~Discards(x)
      BY <2>1, <3>1, <3>2 DEF Top, Advancing, Reads, Discards, Types
    <3>4. \A x \in Nat : ~Full(x)
      BY <2>1, <3>2, <3>3 DEF Full, Types
    <3>5. InRing = {}
      BY <2>1, <3>4 DEF InRing, Calm, SlotsOK, Types
    <3>6. AtConsumer = {}
      BY <3>1 DEF AtConsumer
    <3>7. accepted \subseteq Made
      BY InSets
    <3>8. QED BY <2>1, <3>5, <3>6, <3>7 DEF Calm, Kept
  <2>6. QED BY <2>1, <2>2, <2>3, <2>4, <2>5 DEF Calm
<1>3. QED BY <1>1, <1>2

\* While the discipline of the ring is kept, what publish answers is true, messages arrive
\* whole and in order, the depth is accounted for, and a closed bus is drained; and the
\* counters and positions stay in their bounds whether it is kept or not.
THEOREM BusRingIsSound == Spec => []RingIsSound
<1>1. BusInv => RingIsSound
  BY BusTypes, BusIsCalm DEF RingIsSound
<1>2. QED BY <1>1, BusInvariant, PTL

-----------------------------------------------------------------------------
(* What holds of the signal engine: the types of its values, and SignalIInv *)

Hinkleys == [count : Nat, sum : Int, m : Int, maxM : Int]
Blocks == [state : States, baseline : BOOLEAN, ph : Hinkleys, realized : Seq(Int),
           diff : Seq(Int), pnl : Int, peak : Int, clean : Nat, quarantines : Seq(Nat)]
Evaluations == [strategy : Strategies, symbol : Symbols, side : Sides, entry : Prices,
                notional : Int, predicted : Int, due : Int, missed : BOOLEAN]
Marks == [at : Nat, manual : BOOLEAN]
Calls == [pc : {"idle"}]
         \cup [pc : {"gate"}, cand : Candidates, at : Nat]
         \cup [pc : {"submit", "record", "count"}, cand : Candidates, at : Nat,
               reason : Reasons \cup {"none"}, accepted : BOOLEAN, fills : Seq(Fills)]
Statistics == [candidates : Nat, gateAccepted : Nat, submitted : Nat, accepted : Nat, rejects : Nat]
Budgets == [candidates : Nat, overrides : Nat, ticks : Nat]

\* The windows are within their lengths, the profit under its peak, and the row of
\* clean scores not long enough to recover.
BlockSound(b) ==
    /\ b \in Blocks
    /\ Len(b.realized) <= SharpeWindow /\ Len(b.diff) <= DecayWindow
    /\ b.clean <= RecoveryClean - 1 /\ b.pnl <= b.peak

DueInOrder(q) == \A i \in 1 .. Len(q) : \A j \in 1 .. Len(q) : i <= j => q[i].due <= q[j].due

\* A call that is past the gate was let through it, one that records has a fill to
\* record, and only a call that was let through has an order accepted.
CallSound(c) ==
    /\ c.pc \in {"submit", "record"} => c.reason = "none"
    /\ c.pc = "submit" => Verdict(c.cand.inputs, c.cand.regime, "active") = "none"
    /\ c.pc = "record" => c.fills # <<>>
    /\ c.pc \in {"submit", "record", "count"} => c.reason = "none" \/ ~ c.accepted

\* What the code keeps of a strategy's quarantines is the end of their history.
KeepsTheLast(q, e) ==
    \E d \in Nat : /\ Len(e) = d + Len(q)
                   /\ \A k \in 1 .. Len(q) : q[k] = e[d + k].at

\* Those its scores ordered follow each other in time; an operator's are as of zero.
InTime(e) ==
    \A j \in 1 .. Len(e) :
      /\ e[j].at <= now
      /\ e[j].manual => e[j].at = 0
      /\ ~ e[j].manual => \A k \in 1 .. j : e[k].at <= e[j].at

RegistrySound ==
    /\ block \in [Strategies -> Blocks] /\ \A s \in Strategies : BlockSound(block[s])
    /\ pending \in Seq(Evaluations) /\ DueInOrder(pending)
    /\ forced \subseteq Strategies
    /\ entries \in [Strategies -> Seq(Marks)]
    /\ tally \in [Strategies -> Nat \X Nat]
    /\ ScoredOnce /\ NoneMissed /\ ActiveIsHealthy
    /\ \A s \in Strategies : KeepsTheLast(block[s].quarantines, entries[s]) /\ InTime(entries[s])

EngineSound ==
    /\ thread \in [Threads -> Calls] /\ \A t \in Threads : CallSound(thread[t])
    /\ now \in Nat /\ stats \in Statistics /\ budget \in Budgets
    /\ budget.candidates <= MaxCandidates
    /\ passed \in [Strategies -> SUBSET Threads]
    /\ SignalsAccounted /\ BlockedSendsNoMore

SignalIInv == RegistrySound /\ EngineSound

-----------------------------------------------------------------------------
(* The governance of one strategy                                          *)

Healthy(b) == ~ DrawdownAlarm(b) /\ ~ SharpeAlarm(b) /\ ~ CusumAlarm(b)

\* What scores can do to a block: a blocked one stays as it is; one that becomes
\* blocked enters quarantine once, and is disabled for a row of them only.
Governs(b, c, ts) ==
    /\ b.state \in Blocking => c.state = b.state /\ c.quarantines = b.quarantines
    /\ b.state \notin Blocking /\ c.state \notin Blocking => c.quarantines = b.quarantines
    /\ b.state \notin Blocking /\ c.state \in Blocking =>
         /\ c.quarantines = Recent(Append(b.quarantines, ts), ts)
         /\ c.state = "disabled" => Len(c.quarantines) >= MaxQuarantines

LEMMA GovernsItself ==
    ASSUME NEW b, NEW ts PROVE Governs(b, b, ts)
BY DEF Governs

LEMMA GovernsOn ==
    ASSUME NEW b, NEW c, NEW d, NEW ts, Governs(b, c, ts), Governs(c, d, ts)
    PROVE  Governs(b, d, ts)
BY Zenon DEF Governs

LEMMA SignalConstants ==
    /\ Prices \subseteq Nat \ {0} /\ BpsScale \in Nat
    /\ SharpeWindow \in Nat \ {0} /\ DecayWindow \in Nat \ {0} /\ RecoveryClean \in Nat \ {0}
    /\ MaxQuarantines \in Nat \ {0} /\ PhScale \in Nat \ {0}
    /\ CusumDelta \in Nat /\ CusumLambda \in Nat /\ MaxDrawdown \in Nat /\ Lookback \in Nat
    /\ Unit \in Nat \ {0} /\ MaxCandidates \in Nat /\ FirstTime \in Nat /\ IsFiniteSet(Threads)
BY RegistryAssumption, GateAssumption, EngineAssumption

LEMMA BlockFields ==
    ASSUME NEW b \in Blocks
    PROVE  /\ b.state \in States /\ b.baseline \in BOOLEAN /\ b.ph \in Hinkleys
           /\ b.realized \in Seq(Int) /\ b.diff \in Seq(Int) /\ b.pnl \in Int /\ b.peak \in Int
           /\ b.clean \in Nat /\ b.quarantines \in Seq(Nat)
BY DEF Blocks

\* The first that is kept; all that follow it are kept with it.
LEMMA LeastIs ==
    ASSUME NEW n \in Nat, NEW S, S \subseteq 1 .. n, S # {}
    PROVE  Min(S) \in S /\ \A x \in S : Min(S) <= x
<1>1. S \subseteq Nat
  OBVIOUS
<1>2. \E x \in S : \A y \in S : x <= y
  BY <1>1, Least
<1>3. QED BY <1>2 DEF Min

LEMMA RecentIs ==
    ASSUME NEW q \in Seq(Nat), NEW ts \in Nat
    PROVE  /\ Recent(q, ts) \in Seq(Nat)
           /\ \E d \in 0 .. Len(q) :
                /\ Len(Recent(q, ts)) = Len(q) - d
                /\ \A k \in 1 .. Len(q) - d : Recent(q, ts)[k] = q[d + k]
                /\ d < Len(q) => ts <= q[d + 1] \/ ts - q[d + 1] <= Lookback
<1>1. Len(q) \in Nat /\ DOMAIN q = 1 .. Len(q) /\ \A k \in 1 .. Len(q) : q[k] \in Nat
  BY LenProperties, ElementOfSeq
<1>2. PICK kept : kept = {k \in DOMAIN q : ts <= q[k] \/ ts - q[k] <= Lookback}
  OBVIOUS
<1>3. Recent(q, ts) = IF kept = {} THEN <<>> ELSE SubSeq(q, Min(kept), Len(q))
  BY <1>2 DEF Recent
<1>4. CASE kept = {}
  <2>1. Recent(q, ts) = <<>>
    BY <1>3, <1>4
  <2>2. Recent(q, ts) \in Seq(Nat) /\ Len(Recent(q, ts)) = 0
    BY <2>1, EmptySeq
  <2>3. PICK r, d : r = Recent(q, ts) /\ d = Len(q)
    OBVIOUS
  <2>4. /\ r \in Seq(Nat) /\ d \in 0 .. Len(q) /\ Len(r) = Len(q) - d
        /\ \A k \in 1 .. Len(q) - d : r[k] = q[d + k]
        /\ d < Len(q) => ts <= q[d + 1] \/ ts - q[d + 1] <= Lookback
    BY <1>1, <2>2, <2>3
  <2>5. QED BY <2>3, <2>4, Zenon
<1>5. CASE kept # {}
  <2>1. PICK m : m = Min(kept)
    OBVIOUS
  <2>2. kept \subseteq 1 .. Len(q)
    BY <1>1, <1>2
  <2>3. m \in kept
    BY <1>1, <1>5, <2>1, <2>2, LeastIs
  <2>4. m \in 1 .. Len(q) /\ (ts <= q[m] \/ ts - q[m] <= Lookback)
    BY <1>1, <1>2, <2>3
  <2>5. Recent(q, ts) = SubSeq(q, m, Len(q))
    BY <1>3, <1>5, <2>1
  <2>6. /\ SubSeq(q, m, Len(q)) \in Seq(Nat)
        /\ Len(SubSeq(q, m, Len(q))) = IF m <= Len(q) THEN Len(q) - m + 1 ELSE 0
        /\ \A i \in 1 .. Len(q) - m + 1 : SubSeq(q, m, Len(q))[i] = q[m + i - 1]
    <3>1. \A i \in m .. Len(q) : q[i] \in Nat
      BY <1>1, <2>4
    <3>2. m \in Int /\ Len(q) \in Int
      BY <1>1, <2>4
    <3>3. QED BY <3>1, <3>2, SubSeqProperties
  <2>7. PICK d : d = m - 1
    OBVIOUS
  <2>8. d \in 0 .. Len(q) /\ Len(Recent(q, ts)) = Len(q) - d
    BY <1>1, <2>4, <2>5, <2>6, <2>7
  <2>9. \A k \in 1 .. Len(q) - d : Recent(q, ts)[k] = q[d + k]
    <3>1. TAKE k \in 1 .. Len(q) - d
    <3>2. k \in 1 .. Len(q) - m + 1 /\ m + k - 1 = d + k
      BY <1>1, <2>4, <2>7
    <3>3. Recent(q, ts)[k] = q[m + k - 1]
      BY <2>5, <2>6, <3>2
    <3>4. QED BY <3>2, <3>3
  <2>10. d + 1 = m
    BY <2>4, <2>7
  <2>11. QED BY <2>4, <2>5, <2>6, <2>8, <2>9, <2>10
<1>6. QED BY <1>4, <1>5

LEMMA MovedIs ==
    ASSUME NEW b, BlockSound(b), NEW to \in States
    PROVE  /\ BlockSound(Moved(b, to)) /\ Moved(b, to).state = to
           /\ Moved(b, to).quarantines = b.quarantines
           /\ ~ DrawdownAlarm(b) /\ ~ SharpeAlarm(b) => Healthy(Moved(b, to))
<1>1. b \in Blocks /\ RecoveryClean \in Nat \ {0}
  BY SignalConstants DEF BlockSound
<1>2. NoHinkley \in Hinkleys
  BY DEF NoHinkley, Hinkleys
<1>3. PICK c : c = Moved(b, to)
  OBVIOUS
<1>4. /\ c \in Blocks /\ c.state = to /\ c.ph = NoHinkley /\ c.clean = 0
      /\ c.baseline = b.baseline /\ c.realized = b.realized /\ c.diff = b.diff
      /\ c.pnl = b.pnl /\ c.peak = b.peak /\ c.quarantines = b.quarantines
  BY <1>1, <1>2, <1>3 DEF Moved, Blocks
<1>5. BlockSound(c)
  BY <1>1, <1>4 DEF BlockSound
<1>6. ~ CusumAlarm(c)
  <2>1. c.ph.maxM = 0 /\ c.ph.m = 0
    BY <1>4 DEF NoHinkley
  <2>2. PhScale * CusumLambda \in Nat
    BY SignalConstants
  <2>3. QED BY <2>1, <2>2 DEF CusumAlarm
<1>7. DrawdownAlarm(c) <=> DrawdownAlarm(b)
  BY <1>4 DEF DrawdownAlarm
<1>8. SharpeAlarm(c) <=> SharpeAlarm(b)
  BY <1>4 DEF SharpeAlarm
<1>9. QED BY <1>3, <1>4, <1>5, <1>6, <1>7, <1>8, Zenon DEF Healthy

\* A transition to quarantine ends there, or in disabled for a full row.
LEMMA Quarantines ==
    ASSUME NEW b, BlockSound(b), NEW ts \in Nat, b.state # "quarantined"
    PROVE  /\ BlockSound(Transition(b, "quarantined", ts))
           /\ Transition(b, "quarantined", ts).state \in Blocking
           /\ Transition(b, "quarantined", ts).quarantines = Recent(Append(b.quarantines, ts), ts)
           /\ b.state \notin Blocking => Governs(b, Transition(b, "quarantined", ts), ts)
<1>1. b \in Blocks /\ b.quarantines \in Seq(Nat) /\ b.state # "quarantined"
  BY BlockFields DEF BlockSound
<1>2. PICK q : q = Recent(Append(b.quarantines, ts), ts)
  OBVIOUS
<1>3. q \in Seq(Nat)
  <2>1. Append(b.quarantines, ts) \in Seq(Nat)
    BY <1>1, AppendProperties
  <2>2. QED BY <1>2, <2>1, RecentIs
<1>4. PICK held : held = [Moved(b, "quarantined") EXCEPT !.quarantines = q]
  OBVIOUS
<1>5. PICK c : c = Transition(b, "quarantined", ts)
  OBVIOUS
<1>6. c = IF Len(q) >= MaxQuarantines THEN Moved(held, "disabled") ELSE held
  BY <1>1, <1>2, <1>4, <1>5 DEF Transition
<1>7. BlockSound(held) /\ held.state = "quarantined" /\ held.quarantines = q
  <2>1. PICK m : m = Moved(b, "quarantined")
    OBVIOUS
  <2>2. BlockSound(m) /\ m.state = "quarantined"
    BY <2>1, MovedIs DEF States
  <2>3. m \in Blocks
    BY <2>2 DEF BlockSound
  <2>4. /\ held \in Blocks /\ held.state = m.state /\ held.quarantines = q /\ held.clean = m.clean
        /\ held.realized = m.realized /\ held.diff = m.diff /\ held.pnl = m.pnl /\ held.peak = m.peak
    BY <1>3, <1>4, <2>1, <2>3 DEF Blocks
  <2>5. QED BY <2>2, <2>4 DEF BlockSound
<1>8. "disabled" \in States /\ "disabled" \in Blocking /\ "quarantined" \in Blocking
  BY DEF States, Blocking
<1>9. CASE Len(q) >= MaxQuarantines
  <2>1. BlockSound(c) /\ c.state = "disabled" /\ c.quarantines = q
    BY <1>6, <1>7, <1>8, <1>9, MovedIs
  <2>2. QED BY <1>2, <1>5, <1>8, <1>9, <2>1 DEF Governs
<1>10. CASE ~ (Len(q) >= MaxQuarantines)
  <2>1. c = held
    BY <1>6, <1>10
  <2>2. QED BY <1>2, <1>5, <1>7, <1>8, <2>1 DEF Governs
<1>11. QED BY <1>9, <1>10

LEMMA GovernedIs ==
    ASSUME NEW b, BlockSound(b), NEW ts \in Nat
    PROVE  /\ BlockSound(Governed(b, ts)) /\ Governs(b, Governed(b, ts), ts)
           /\ Governed(b, ts).state = "active" => Healthy(Governed(b, ts))
<1>1. b \in Blocks /\ b.state \in States /\ b.clean \in Nat
  BY BlockFields DEF BlockSound
<1>2. PICK c : c = Governed(b, ts)
  OBVIOUS
<1>3. "active" \notin Blocking /\ "under_observation" \notin Blocking
  BY DEF Blocking
<1>4. "active" \in States /\ "under_observation" \in States
  BY DEF States
<1>5. CASE b.state = "active"
  <2>1. c = IF DrawdownAlarm(b) THEN Transition(b, "quarantined", ts)
            ELSE IF CusumAlarm(b) \/ SharpeAlarm(b) THEN Transition(b, "under_observation", ts)
            ELSE b
    BY <1>2, <1>5 DEF Governed
  <2>2. CASE DrawdownAlarm(b)
    <3>1. b.state # "quarantined" /\ b.state \notin Blocking
      BY <1>3, <1>5
    <3>2. c = Transition(b, "quarantined", ts)
      BY <2>1, <2>2
    <3>3. QED BY <1>2, <1>3, <3>1, <3>2, Quarantines
  <2>3. CASE ~ DrawdownAlarm(b) /\ (CusumAlarm(b) \/ SharpeAlarm(b))
    <3>1. c = Moved(b, "under_observation")
      BY <1>5, <2>1, <2>3 DEF Transition
    <3>2. BlockSound(c) /\ c.state = "under_observation" /\ c.quarantines = b.quarantines
      BY <1>4, <3>1, MovedIs
    <3>3. QED BY <1>2, <1>3, <1>5, <3>2 DEF Governs
  <2>4. CASE ~ DrawdownAlarm(b) /\ ~ (CusumAlarm(b) \/ SharpeAlarm(b))
    BY <1>2, <2>1, <2>4, GovernsItself DEF Healthy
  <2>5. QED BY <2>2, <2>3, <2>4
<1>6. CASE b.state = "under_observation"
  <2>1. c = IF DrawdownAlarm(b) \/ DecayAlarm(b) THEN Transition(b, "quarantined", ts)
            ELSE IF CusumAlarm(b) \/ SharpeAlarm(b) THEN [b EXCEPT !.clean = 0]
            ELSE IF b.clean + 1 >= RecoveryClean THEN Transition(b, "active", ts)
            ELSE [b EXCEPT !.clean = @ + 1]
    BY <1>2, <1>6 DEF Governed
  <2>2. CASE DrawdownAlarm(b) \/ DecayAlarm(b)
    <3>1. b.state # "quarantined" /\ b.state \notin Blocking
      BY <1>3, <1>6
    <3>2. c = Transition(b, "quarantined", ts)
      BY <2>1, <2>2
    <3>3. QED BY <1>2, <1>3, <3>1, <3>2, Quarantines
  <2>3. ASSUME NEW n \in 0 .. RecoveryClean - 1, c = [b EXCEPT !.clean = n]
        PROVE  BlockSound(c) /\ Governs(b, c, ts) /\ c.state = "under_observation"
    <3>1. n \in Nat /\ n <= RecoveryClean - 1
      BY SignalConstants
    <3>2. /\ c \in Blocks /\ c.state = b.state /\ c.quarantines = b.quarantines /\ c.clean = n
          /\ c.realized = b.realized /\ c.diff = b.diff /\ c.pnl = b.pnl /\ c.peak = b.peak
      BY <1>1, <2>3, <3>1 DEF Blocks
    <3>3. QED BY <1>3, <1>6, <3>1, <3>2 DEF BlockSound, Governs
  <2>4. CASE ~ (DrawdownAlarm(b) \/ DecayAlarm(b)) /\ (CusumAlarm(b) \/ SharpeAlarm(b))
    <3>1. c = [b EXCEPT !.clean = 0]
      BY <2>1, <2>4
    <3>2. 0 \in 0 .. RecoveryClean - 1
      BY SignalConstants
    <3>3. QED BY <1>2, <2>3, <3>1, <3>2
  <2>5. CASE /\ ~ (DrawdownAlarm(b) \/ DecayAlarm(b)) /\ ~ (CusumAlarm(b) \/ SharpeAlarm(b))
             /\ b.clean + 1 >= RecoveryClean
    <3>1. c = Moved(b, "active")
      BY <1>6, <2>1, <2>5 DEF Transition
    <3>2. BlockSound(c) /\ c.state = "active" /\ c.quarantines = b.quarantines /\ Healthy(c)
      BY <1>4, <2>5, <3>1, MovedIs
    <3>3. QED BY <1>2, <1>3, <1>6, <3>2 DEF Governs
  <2>6. CASE /\ ~ (DrawdownAlarm(b) \/ DecayAlarm(b)) /\ ~ (CusumAlarm(b) \/ SharpeAlarm(b))
             /\ ~ (b.clean + 1 >= RecoveryClean)
    <3>1. PICK n : n = b.clean + 1
      OBVIOUS
    <3>2. c = [b EXCEPT !.clean = n]
      BY <2>1, <2>6, <3>1
    <3>3. n \in 0 .. RecoveryClean - 1
      BY <1>1, <2>6, <3>1, SignalConstants
    <3>4. QED BY <1>2, <2>3, <3>2, <3>3
  <2>7. QED BY <2>2, <2>4, <2>5, <2>6
<1>7. CASE b.state \notin {"active", "under_observation"}
  <2>1. c = b
    BY <1>2, <1>7 DEF Governed
  <2>2. QED BY <1>2, <1>7, <2>1, GovernsItself
<1>8. QED BY <1>5, <1>6, <1>7

LEMMA Pushes ==
    ASSUME NEW w \in Seq(Int), NEW x \in Int, NEW n \in Nat \ {0}, Len(w) <= n
    PROVE  PushedBounded(w, x, n) \in Seq(Int) /\ Len(PushedBounded(w, x, n)) <= n
<1>1. Len(w) \in Nat
  BY LenProperties
<1>2. CASE Len(w) < n
  <2>1. PushedBounded(w, x, n) = Append(w, x)
    BY <1>2 DEF PushedBounded
  <2>2. Append(w, x) \in Seq(Int) /\ Len(Append(w, x)) = Len(w) + 1
    BY AppendProperties
  <2>3. QED BY <1>1, <1>2, <2>1, <2>2
<1>3. CASE Len(w) = n
  <2>1. PushedBounded(w, x, n) = Append(Tail(w), x)
    BY <1>1, <1>3 DEF PushedBounded
  <2>2. w # <<>>
    BY <1>3, EmptySeq
  <2>3. Tail(w) \in Seq(Int) /\ Len(Tail(w)) = Len(w) - 1
    BY <2>2, HeadTailProperties
  <2>4. Append(Tail(w), x) \in Seq(Int) /\ Len(Append(Tail(w), x)) = Len(Tail(w)) + 1
    BY <2>3, AppendProperties
  <2>5. QED BY <1>1, <1>3, <2>1, <2>3, <2>4
<1>4. QED BY <1>1, <1>2, <1>3

LEMMA HinkleyIs ==
    ASSUME NEW ph \in Hinkleys, NEW x \in Int
    PROVE  Hinkley(ph, x) \in Hinkleys
<1>1. ph.count \in Nat /\ ph.sum \in Int /\ ph.m \in Int /\ ph.maxM \in Int
  BY DEF Hinkleys
<1>2. PICK n, sum : n = ph.count + 1 /\ sum = ph.sum + x
  OBVIOUS
<1>3. n \in Nat \ {0} /\ sum \in Int
  BY <1>1, <1>2
<1>4. PICK z : z = PhScale \div n
  OBVIOUS
<1>5. z \in Int
  BY <1>3, <1>4, SignalConstants
<1>6. PICK m : m = ph.m + PhScale * x - z * sum + PhScale * CusumDelta
  OBVIOUS
<1>7. m \in Int
  <2>1. PhScale * x \in Int /\ z * sum \in Int /\ PhScale * CusumDelta \in Int
    BY <1>3, <1>5, SignalConstants
  <2>2. QED BY <1>1, <1>6, <2>1
<1>8. Hinkley(ph, x) = [count |-> n, sum |-> sum, m |-> m, maxM |-> IF m > ph.maxM THEN m ELSE ph.maxM]
  BY <1>2, <1>4, <1>6 DEF Hinkley
<1>9. QED BY <1>1, <1>3, <1>7, <1>8 DEF Hinkleys

LEMMA ResolvedIs ==
    ASSUME NEW b, BlockSound(b), NEW p \in Evaluations, NEW price \in Prices, NEW ts \in Nat
    PROVE  /\ BlockSound(Resolved(b, p, price, ts)) /\ Governs(b, Resolved(b, p, price, ts), ts)
           /\ Resolved(b, p, price, ts).state = "active" => Healthy(Resolved(b, p, price, ts))
<1>1. b \in Blocks /\ Len(b.realized) <= SharpeWindow /\ Len(b.diff) <= DecayWindow /\ b.pnl <= b.peak
  BY DEF BlockSound
<1>2. /\ b.ph \in Hinkleys /\ b.realized \in Seq(Int) /\ b.diff \in Seq(Int)
      /\ b.pnl \in Int /\ b.peak \in Int
  BY <1>1, BlockFields
<1>3. p.entry \in Prices /\ p.notional \in Int /\ p.predicted \in Int
  BY DEF Evaluations
<1>4. PICK x : x = Realized(p, price)
  OBVIOUS
<1>5. x \in Int
  <2>1. PICK e, d : e = p.entry /\ d = price - e
    OBVIOUS
  <2>2. PICK z : z = d * BpsScale
    OBVIOUS
  <2>3. e \in Nat \ {0} /\ d \in Int
    <3>1. e \in Prices /\ price \in Prices
      BY <1>3, <2>1
    <3>2. \A x1 \in Prices : x1 \in Nat \ {0}
      BY SignalConstants
    <3>3. e \in Nat \ {0} /\ price \in Nat
      BY <3>1, <3>2
    <3>4. QED BY <2>1, <3>3
  <2>4. z \in Int
    BY <2>2, <2>3, SignalConstants
  <2>5. PICK y : y = z \div e
    OBVIOUS
  <2>6. y \in Int
    BY <2>3, <2>4, <2>5
  <2>7. x = (IF p.side = "buy" THEN 1 ELSE -1) * y
    BY <1>4, <2>1, <2>2, <2>5 DEF Realized
  <2>8. QED BY <2>6, <2>7
<1>6. PICK pnl : pnl = b.pnl + p.notional * x
  OBVIOUS
<1>7. pnl \in Int
  <2>1. p.notional * x \in Int
    BY <1>3, <1>5
  <2>2. QED BY <1>2, <1>6, <2>1
<1>8. PICK ph, realized, diff, peak :
        /\ ph = Hinkley(b.ph, x) /\ realized = PushedBounded(b.realized, x, SharpeWindow)
        /\ diff = PushedBounded(b.diff, x - p.predicted, DecayWindow)
        /\ peak = IF pnl > b.peak THEN pnl ELSE b.peak
  OBVIOUS
<1>9. ph \in Hinkleys
  BY <1>2, <1>5, <1>8, HinkleyIs
<1>10. realized \in Seq(Int) /\ Len(realized) <= SharpeWindow
  BY <1>1, <1>2, <1>5, <1>8, Pushes, SignalConstants
<1>11. diff \in Seq(Int) /\ Len(diff) <= DecayWindow
  <2>1. x - p.predicted \in Int
    BY <1>3, <1>5
  <2>2. QED BY <1>1, <1>2, <1>8, <2>1, Pushes, SignalConstants
<1>12. peak \in Int /\ pnl <= peak
  BY <1>2, <1>7, <1>8
<1>13. PICK c : c = [b EXCEPT !.ph = ph, !.realized = realized, !.diff = diff, !.pnl = pnl, !.peak = peak]
  OBVIOUS
<1>14. Resolved(b, p, price, ts) = Governed(c, ts)
  BY <1>4, <1>6, <1>8, <1>13 DEF Resolved
<1>15. /\ c \in Blocks /\ c.state = b.state /\ c.quarantines = b.quarantines /\ c.clean = b.clean
       /\ c.realized = realized /\ c.diff = diff /\ c.pnl = pnl /\ c.peak = peak
  BY <1>1, <1>7, <1>9, <1>10, <1>11, <1>12, <1>13 DEF Blocks
<1>16. BlockSound(c)
  BY <1>10, <1>11, <1>12, <1>15 DEF BlockSound
<1>17. Governs(b, c, ts) /\ Governs(c, Governed(c, ts), ts)
  BY <1>15, <1>16, GovernedIs DEF Governs
<1>18. QED BY <1>14, <1>16, <1>17, GovernsOn, GovernedIs

-----------------------------------------------------------------------------
(* The walk over the queue                                                 *)

Beginning == [block |-> block, kept |-> <<>>, scores |-> [s \in Strategies |-> 0]]

\* w has the state of the walk after each place.
Walks(w, due, symbol, price, ts) ==
    w = [n \in 0 .. Len(pending) |->
           IF n = 0 THEN Beginning ELSE Visited(w[n - 1], n, due, symbol, price, ts)]

\* The same for the first n places.
WalksTo(w, n, due, symbol, price, ts) ==
    /\ w = [k \in 0 .. n |-> w[k]]
    /\ w[0] = Beginning
    /\ \A k \in 1 .. n : w[k] = Visited(w[k - 1], k, due, symbol, price, ts)

LEMMA WalksFar ==
    ASSUME NEW due, NEW symbol, NEW price, NEW ts, NEW n \in Nat
    PROVE  \E w : WalksTo(w, n, due, symbol, price, ts)
<1>1. PICK C : C = {m \in Nat : ~ \E w : WalksTo(w, m, due, symbol, price, ts)}
  OBVIOUS
<1>2. CASE C = {}
  BY <1>1, <1>2
<1>3. CASE C # {}
  <2>1. PICK m \in C : \A k \in C : m <= k
    BY <1>1, <1>3, Least
  <2>2. m \in Nat /\ ~ \E w : WalksTo(w, m, due, symbol, price, ts)
    BY <1>1, <2>1
  <2>3. CASE m = 0
    <3>1. PICK w : w = [k \in 0 .. 0 |-> Beginning]
      OBVIOUS
    <3>2. w = [k \in 0 .. 0 |-> w[k]] /\ w[0] = Beginning
      BY <3>1
    <3>3. WalksTo(w, 0, due, symbol, price, ts)
      <4>1. 1 .. 0 = {}
        OBVIOUS
      <4>2. QED BY <3>2, <4>1, Zenon DEF WalksTo
    <3>4. QED BY <2>2, <2>3, <3>3
  <2>4. CASE m # 0
    <3>1. m - 1 \in Nat /\ m - 1 \notin C
      BY <2>1, <2>2, <2>4
    <3>2. PICK u : WalksTo(u, m - 1, due, symbol, price, ts)
      BY <1>1, <3>1
    <3>3. PICK last : last = Visited(u[m - 1], m, due, symbol, price, ts)
      OBVIOUS
    <3>4. PICK w : w = [k \in 0 .. m |-> IF k = m THEN last ELSE u[k]]
      OBVIOUS
    <3>5. w = [k \in 0 .. m |-> w[k]]
      BY <3>4
    <3>6. w[0] = Beginning
      BY <2>2, <2>4, <3>2, <3>4 DEF WalksTo
    <3>7. \A k \in 1 .. m : w[k] = Visited(w[k - 1], k, due, symbol, price, ts)
      <4>1. TAKE k \in 1 .. m
      <4>2. k \in 0 .. m /\ k - 1 \in 0 .. m /\ k - 1 # m
        BY <2>2
      <4>3. w[k - 1] = u[k - 1]
        BY <3>4, <4>2
      <4>4. CASE k = m
        <5>1. w[k] = last
          BY <3>4, <4>2, <4>4
        <5>2. QED BY <3>3, <4>3, <4>4, <5>1
      <4>5. CASE k # m
        <5>1. k \in 1 .. m - 1
          BY <2>2, <4>5
        <5>2. u[k] = Visited(u[k - 1], k, due, symbol, price, ts)
          BY <3>2, <5>1 DEF WalksTo
        <5>3. w[k] = u[k]
          BY <3>4, <4>2, <4>5
        <5>4. QED BY <4>3, <5>2, <5>3
      <4>6. QED BY <4>4, <4>5
    <3>8. QED BY <2>2, <3>5, <3>6, <3>7, Zenon DEF WalksTo
  <2>5. QED BY <2>3, <2>4
<1>4. QED BY <1>2, <1>3

\* What Walked returns is the end of a walk.
LEMMA WalkedIs ==
    ASSUME NEW due, NEW symbol, NEW price, NEW ts, Len(pending) \in Nat
    PROVE  \E w : /\ WalksTo(w, Len(pending), due, symbol, price, ts)
                  /\ Walked(due, symbol, price, ts) = w[Len(pending)]
<1>1. PICK n : n = Len(pending)
  OBVIOUS
<1>2. PICK u : WalksTo(u, n, due, symbol, price, ts)
  BY <1>1, WalksFar
<1>3. Walks(u, due, symbol, price, ts)
  <2>1. PICK v : v = [k \in 0 .. n |-> IF k = 0 THEN Beginning ELSE Visited(u[k - 1], k, due, symbol, price, ts)]
    OBVIOUS
  <2>2. \A k \in 0 .. n : u[k] = v[k]
    <3>1. TAKE k \in 0 .. n
    <3>2. k = 0 \/ k \in 1 .. n
      BY <1>1
    <3>3. v[k] = IF k = 0 THEN Beginning ELSE Visited(u[k - 1], k, due, symbol, price, ts)
      BY <2>1
    <3>4. QED BY <1>2, <3>2, <3>3 DEF WalksTo
  <2>3. u = [k \in 0 .. n |-> u[k]] /\ v = [k \in 0 .. n |-> v[k]]
    BY <1>2, <2>1 DEF WalksTo
  <2>4. u = v
    BY <2>2, <2>3
  <2>5. QED BY <1>1, <2>1, <2>4, Zenon DEF Walks
<1>4. PICK w : w = CHOOSE z : Walks(z, due, symbol, price, ts)
  OBVIOUS
<1>5. Walks(w, due, symbol, price, ts)
  BY <1>3, <1>4
<1>6. Walked(due, symbol, price, ts) = w[n]
  BY <1>1, <1>4 DEF Walked, Walks, Beginning
<1>7. WalksTo(w, n, due, symbol, price, ts)
  <2>1. w = [k \in 0 .. n |-> IF k = 0 THEN Beginning ELSE Visited(w[k - 1], k, due, symbol, price, ts)]
    BY <1>1, <1>5, Zenon DEF Walks
  <2>2. PICK v : v = [k \in 0 .. n |-> IF k = 0 THEN Beginning ELSE Visited(w[k - 1], k, due, symbol, price, ts)]
    OBVIOUS
  <2>3. w = v
    BY <2>1, <2>2
  <2>4. v = [k \in 0 .. n |-> v[k]] /\ v[0] = Beginning
    BY <1>1, <2>2
  <2>5. \A k \in 1 .. n : v[k] = Visited(w[k - 1], k, due, symbol, price, ts)
    BY <1>1, <2>2
  <2>6. QED BY <2>3, <2>4, <2>5, Zenon DEF WalksTo
<1>8. QED BY <1>1, <1>6, <1>7

-----------------------------------------------------------------------------
(* How many of a queue's first evaluations are a strategy's                *)

Share(q, n, s) == {i \in 1 .. n : q[i].strategy = s}

LEMMA ShareFinite ==
    ASSUME NEW q, NEW n \in Nat, NEW s
    PROVE  IsFiniteSet(Share(q, n, s)) /\ Cardinality(Share(q, n, s)) \in Nat
<1>1. IsFiniteSet(1 .. n)
  BY FS_Interval
<1>2. Share(q, n, s) \in SUBSET (1 .. n)
  BY DEF Share
<1>3. QED BY <1>1, <1>2, FS_Subset, FS_CardinalityType

LEMMA NoShare ==
    ASSUME NEW q, NEW s PROVE Cardinality(Share(q, 0, s)) = 0
<1>1. Share(q, 0, s) = {}
  BY DEF Share
<1>2. QED BY <1>1, FS_EmptySet

LEMMA ShareGrows ==
    ASSUME NEW q, NEW n \in Nat, NEW s
    PROVE  Cardinality(Share(q, n + 1, s)) =
             Cardinality(Share(q, n, s)) + (IF q[n + 1].strategy = s THEN 1 ELSE 0)
<1>1. PICK S : S = Share(q, n, s)
  OBVIOUS
<1>2. IsFiniteSet(S) /\ Cardinality(S) \in Nat
  BY <1>1, ShareFinite
<1>3. n + 1 \notin S
  BY <1>1 DEF Share
<1>4. CASE q[n + 1].strategy = s
  <2>1. Share(q, n + 1, s) = S \cup {n + 1}
    BY <1>1, <1>4 DEF Share
  <2>2. QED BY <1>1, <1>2, <1>3, <1>4, <2>1, FS_AddElement
<1>5. CASE q[n + 1].strategy # s
  <2>1. Share(q, n + 1, s) = S
    BY <1>1, <1>5 DEF Share
  <2>2. QED BY <1>1, <1>2, <1>5, <2>1
<1>6. QED BY <1>4, <1>5

LEMMA SameShare ==
    ASSUME NEW q, NEW r, NEW n \in Nat, NEW s, \A i \in 1 .. n : r[i].strategy = q[i].strategy
    PROVE  Share(r, n, s) = Share(q, n, s)
BY DEF Share

LEMMA ShareOfAppend ==
    ASSUME NEW q \in Seq(Evaluations), NEW p \in Evaluations, NEW s
    PROVE  Cardinality(Share(Append(q, p), Len(Append(q, p)), s)) =
             Cardinality(Share(q, Len(q), s)) + (IF p.strategy = s THEN 1 ELSE 0)
<1>1. PICK r, n : r = Append(q, p) /\ n = Len(q)
  OBVIOUS
<1>2. n \in Nat /\ Len(r) = n + 1 /\ r[n + 1] = p /\ \A i \in 1 .. n : r[i] = q[i]
  BY <1>1, LenProperties, AppendProperties
<1>3. Share(r, n, s) = Share(q, n, s)
  BY <1>2, SameShare
<1>4. Cardinality(Share(r, n + 1, s)) =
        Cardinality(Share(r, n, s)) + (IF r[n + 1].strategy = s THEN 1 ELSE 0)
  BY <1>2, ShareGrows
<1>5. QED BY <1>1, <1>2, <1>3, <1>4

-----------------------------------------------------------------------------
(* What holds after each place of the walk                                 *)

ScoredIn(due, n) == {pending[i].strategy : i \in {k \in due : k <= n}}

WalkedBlocks(w, n, due, ts) ==
    \A s \in Strategies :
      /\ BlockSound(w.block[s]) /\ Governs(block[s], w.block[s], ts)
      /\ s \notin ScoredIn(due, n) => w.block[s] = block[s]
      /\ s \in ScoredIn(due, n) /\ w.block[s].state = "active" => Healthy(w.block[s])

WalkedQueue(w, n) ==
    /\ w.kept \in Seq(Evaluations) /\ DueInOrder(w.kept)
    /\ \A k \in 1 .. Len(w.kept) :
         /\ ~ w.kept[k].missed
         /\ \A i \in 1 .. Len(pending) : n <= i => w.kept[k].due <= pending[i].due

WalkedScores(w, n) ==
    /\ w.scores \in [Strategies -> Nat]
    /\ \A s \in Strategies :
         Cardinality(Share(pending, n, s)) = w.scores[s] + Cardinality(Share(w.kept, Len(w.kept), s))

WalkOK(w, n, due, ts) ==
    /\ w = [block |-> w.block, kept |-> w.kept, scores |-> w.scores]
    /\ w.block \in [Strategies -> Blocks]
    /\ WalkedBlocks(w, n, due, ts) /\ WalkedQueue(w, n) /\ WalkedScores(w, n)

\* A queue in order, and due with the places of what has to be scored.
Walkable(due, symbol, price, ts) ==
    /\ block \in [Strategies -> Blocks] /\ \A s \in Strategies : BlockSound(block[s])
    /\ pending \in Seq(Evaluations) /\ DueInOrder(pending) /\ NoneMissed
    /\ price \in Prices /\ ts \in Nat /\ due \subseteq 1 .. Len(pending)
    /\ \A i \in due : pending[i].symbol = symbol
    /\ \A i \in 1 .. Len(pending) :
         i \notin due => ~ (pending[i].symbol = symbol /\ pending[i].due <= ts)

LEMMA WalkBegins ==
    ASSUME NEW due, NEW symbol, NEW price, NEW ts, Walkable(due, symbol, price, ts)
    PROVE  WalkOK(Beginning, 0, due, ts)
<1>1. PICK w : w = Beginning
  OBVIOUS
<1>2. PICK zeros : zeros = [s \in Strategies |-> 0]
  OBVIOUS
<1>3. w = [block |-> block, kept |-> <<>>, scores |-> zeros]
  BY <1>1, <1>2 DEF Beginning
<1>4. w.block = block /\ w.kept = <<>> /\ w.scores = zeros
  BY <1>3
<1>5. <<>> \in Seq(Evaluations) /\ Len(<<>>) = 0
  BY EmptySeq
<1>6. WalkedBlocks(w, 0, due, ts)
  <2>1. ScoredIn(due, 0) = {}
    <3>1. due \subseteq 1 .. Len(pending) /\ Len(pending) \in Nat
      BY LenProperties DEF Walkable
    <3>2. \A k \in due : ~ (k <= 0)
      BY <3>1
    <3>3. \A s : s \notin ScoredIn(due, 0)
      BY <3>2, Zenon DEF ScoredIn
    <3>4. QED BY <3>3
  <2>2. QED BY <1>4, <2>1, GovernsItself DEF WalkedBlocks, Walkable
<1>7. WalkedQueue(w, 0)
  <2>1. 1 .. Len(w.kept) = {}
    BY <1>4, <1>5
  <2>2. w.kept \in Seq(Evaluations)
    BY <1>4, <1>5
  <2>3. QED BY <2>1, <2>2, Zenon DEF WalkedQueue, DueInOrder
<1>8. WalkedScores(w, 0)
  <2>1. zeros \in [Strategies -> Nat] /\ \A s \in Strategies : zeros[s] = 0
    BY <1>2
  <2>2. ASSUME NEW s \in Strategies
        PROVE  Cardinality(Share(pending, 0, s)) = w.scores[s] + Cardinality(Share(w.kept, Len(w.kept), s))
    <3>1. Cardinality(Share(pending, 0, s)) = 0 /\ Cardinality(Share(w.kept, 0, s)) = 0
      BY NoShare
    <3>2. w.scores[s] = 0 /\ Len(w.kept) = 0
      BY <1>4, <1>5, <2>1
    <3>3. QED BY <3>1, <3>2
  <2>3. QED BY <1>4, <2>1, <2>2 DEF WalkedScores
<1>9. w = [block |-> w.block, kept |-> w.kept, scores |-> w.scores]
  BY <1>3, <1>4
<1>10. w.block \in [Strategies -> Blocks]
  BY <1>4 DEF Walkable
<1>11. QED BY <1>1, <1>6, <1>7, <1>8, <1>9, <1>10, Zenon DEF WalkOK

LEMMA WalkGoesOn ==
    ASSUME NEW due, NEW symbol, NEW price, NEW ts, Walkable(due, symbol, price, ts),
           NEW n \in Nat, n + 1 \in 1 .. Len(pending), NEW w, WalkOK(w, n, due, ts)
    PROVE  WalkOK(Visited(w, n + 1, due, symbol, price, ts), n + 1, due, ts)
<1>1. PICK v, p, m : v = Visited(w, n + 1, due, symbol, price, ts) /\ p = pending[n + 1] /\ m = n + 1
  OBVIOUS
<1>2. /\ pending \in Seq(Evaluations) /\ Len(pending) \in Nat /\ p \in Evaluations
      /\ \A i \in 1 .. Len(pending) : pending[i] \in Evaluations
  BY <1>1, LenProperties, ElementOfSeq DEF Walkable
<1>3. /\ p.strategy \in Strategies /\ p.due \in Int /\ p.missed \in BOOLEAN
      /\ \A i \in 1 .. Len(pending) : pending[i].due \in Int /\ pending[i].strategy \in Strategies
  BY <1>2 DEF Evaluations
<1>4. price \in Prices /\ ts \in Nat /\ due \subseteq 1 .. Len(pending) /\ m \in 1 .. Len(pending) /\ m \in Nat
  BY <1>1 DEF Walkable
<1>5. ~ p.missed
  BY <1>1 DEF Walkable, NoneMissed
<1>6. w.block \in [Strategies -> Blocks] /\ WalkedBlocks(w, n, due, ts) /\ WalkedQueue(w, n) /\ WalkedScores(w, n)
  BY Zenon DEF WalkOK
<1>7. PICK q : q = w.kept
  OBVIOUS
<1>8. /\ q \in Seq(Evaluations) /\ DueInOrder(q) /\ Len(q) \in Nat
      /\ \A k \in 1 .. Len(q) :
           /\ ~ q[k].missed
           /\ \A i \in 1 .. Len(pending) : n <= i => q[k].due <= pending[i].due
  BY <1>6, <1>7, LenProperties DEF WalkedQueue
<1>9. \A k \in 1 .. Len(q) : ~ q[k].missed /\ \A i \in 1 .. Len(pending) : m <= i => q[k].due <= pending[i].due
  <2>1. \A i \in 1 .. Len(pending) : m <= i => n <= i
    BY <1>1, <1>2
  <2>2. QED BY <1>8, <2>1, Zenon
<1>10. \A s \in Strategies : Cardinality(Share(pending, m, s)) =
         Cardinality(Share(pending, n, s)) + (IF p.strategy = s THEN 1 ELSE 0)
  BY <1>1, ShareGrows
<1>11. CASE m \in due
  <2>1. ScoredIn(due, m) = ScoredIn(due, n) \cup {p.strategy}
    <3>1. {k \in due : k <= m} = {k \in due : k <= n} \cup {m}
      <4>1. \A k \in due : k \in Int
        BY <1>2, <1>4
      <4>2. \A k \in due : k <= m <=> k <= n \/ k = m
        BY <1>1, <4>1
      <4>3. QED BY <1>11, <4>2
    <3>2. QED BY <1>1, <3>1 DEF ScoredIn
  <2>2. PICK b, blocks, scores :
          /\ b = Resolved(w.block[p.strategy], p, price, ts)
          /\ blocks = [w.block EXCEPT ![p.strategy] = b]
          /\ scores = [w.scores EXCEPT ![p.strategy] = @ + 1]
    OBVIOUS
  <2>3. v = [block |-> blocks, kept |-> w.kept, scores |-> scores]
    <3>1. p.symbol = symbol
      BY <1>1, <1>11 DEF Walkable
    <3>2. QED BY <1>1, <1>11, <2>2, <3>1 DEF Visited
  <2>4. v.block = blocks /\ v.kept = q /\ v.scores = scores
    BY <1>7, <2>3
  <2>5. BlockSound(w.block[p.strategy]) /\ Governs(block[p.strategy], w.block[p.strategy], ts)
    BY <1>3, <1>6 DEF WalkedBlocks
  <2>6. /\ BlockSound(b) /\ Governs(w.block[p.strategy], b, ts)
        /\ b.state = "active" => Healthy(b)
    BY <1>2, <1>4, <2>2, <2>5, ResolvedIs
  <2>7. Governs(block[p.strategy], b, ts)
    BY <2>5, <2>6, GovernsOn
  <2>8. b \in Blocks
    BY <2>6 DEF BlockSound
  <2>9. /\ blocks \in [Strategies -> Blocks] /\ blocks[p.strategy] = b
        /\ \A s \in Strategies : s # p.strategy => blocks[s] = w.block[s]
    BY <1>3, <1>6, <2>2, <2>8
  <2>10. WalkedBlocks(v, m, due, ts)
    <3>1. ASSUME NEW s \in Strategies
          PROVE  /\ BlockSound(blocks[s]) /\ Governs(block[s], blocks[s], ts)
                 /\ s \notin ScoredIn(due, m) => blocks[s] = block[s]
                 /\ s \in ScoredIn(due, m) /\ blocks[s].state = "active" => Healthy(blocks[s])
      <4>1. CASE s = p.strategy
        BY <2>1, <2>6, <2>7, <2>9, <4>1
      <4>2. CASE s # p.strategy
        <5>1. s \in ScoredIn(due, m) <=> s \in ScoredIn(due, n)
          BY <2>1, <4>2
        <5>2. blocks[s] = w.block[s]
          BY <2>9, <4>2
        <5>3. QED BY <1>6, <5>1, <5>2, Zenon DEF WalkedBlocks
      <4>3. QED BY <4>1, <4>2
    <3>2. QED BY <2>4, <3>1, Zenon DEF WalkedBlocks
  <2>11. WalkedQueue(v, m)
    BY <1>8, <1>9, <2>4, Zenon DEF WalkedQueue
  <2>12. WalkedScores(v, m)
    <3>1. w.scores \in [Strategies -> Nat]
      BY <1>6 DEF WalkedScores
    <3>2. scores \in [Strategies -> Nat]
      BY <1>3, <2>2, <3>1
    <3>3. \A s \in Strategies : scores[s] = w.scores[s] + (IF p.strategy = s THEN 1 ELSE 0)
      BY <1>3, <2>2, <3>1
    <3>4. ASSUME NEW s \in Strategies
          PROVE  Cardinality(Share(pending, m, s)) = scores[s] + Cardinality(Share(q, Len(q), s))
      <4>1. Cardinality(Share(pending, n, s)) = w.scores[s] + Cardinality(Share(q, Len(q), s))
        BY <1>6, <1>7 DEF WalkedScores
      <4>2. w.scores[s] \in Nat /\ Cardinality(Share(q, Len(q), s)) \in Nat
        BY <1>8, <3>1, ShareFinite
      <4>3. PICK x, y : x = Cardinality(Share(pending, n, s)) /\ y = Cardinality(Share(q, Len(q), s))
        OBVIOUS
      <4>4. x = w.scores[s] + y /\ y \in Nat /\ w.scores[s] \in Nat
        BY <4>1, <4>2, <4>3
      <4>5. Cardinality(Share(pending, m, s)) = x + (IF p.strategy = s THEN 1 ELSE 0)
        BY <1>10, <4>3
      <4>6. scores[s] = w.scores[s] + (IF p.strategy = s THEN 1 ELSE 0)
        BY <3>3
      <4>7. x + (IF p.strategy = s THEN 1 ELSE 0) = scores[s] + y
        BY <4>4, <4>6
      <4>8. QED BY <4>3, <4>5, <4>7
    <3>5. QED BY <2>4, <3>2, <3>4, Zenon DEF WalkedScores
  <2>13. v = [block |-> v.block, kept |-> v.kept, scores |-> v.scores]
    BY <1>7, <2>3, <2>4
  <2>14. QED BY <1>1, <2>4, <2>9, <2>10, <2>11, <2>12, <2>13, Zenon DEF WalkOK
<1>12. CASE m \notin due
  <2>1. ScoredIn(due, m) = ScoredIn(due, n)
    <3>1. {k \in due : k <= m} = {k \in due : k <= n}
      <4>1. \A k \in due : k \in Int /\ k # m
        BY <1>2, <1>4, <1>12
      <4>2. \A k \in due : k <= m <=> k <= n
        BY <1>1, <4>1
      <4>3. QED BY <4>2
    <3>2. QED BY <3>1 DEF ScoredIn
  <2>2. PICK e : e = [p EXCEPT !.missed = @ \/ (p.symbol = symbol /\ p.due <= ts)]
    OBVIOUS
  <2>3. PICK r : r = Append(q, e)
    OBVIOUS
  <2>4. v = [block |-> w.block, kept |-> r, scores |-> w.scores]
    BY <1>1, <1>7, <1>12, <2>2, <2>3 DEF Visited
  <2>5. v.block = w.block /\ v.kept = r /\ v.scores = w.scores
    BY <2>4
  <2>6. ~ (p.symbol = symbol /\ p.due <= ts)
    BY <1>1, <1>4, <1>12 DEF Walkable
  <2>7. e \in Evaluations /\ ~ e.missed /\ e.due = p.due /\ e.strategy = p.strategy
    <3>1. PICK late : late = (p.missed \/ (p.symbol = symbol /\ p.due <= ts))
      OBVIOUS
    <3>2. late = FALSE
      BY <1>3, <1>5, <2>6, <3>1
    <3>3. e = [p EXCEPT !.missed = FALSE]
      BY <2>2, <3>1, <3>2
    <3>4. QED BY <1>2, <3>3 DEF Evaluations
  <2>8. /\ r \in Seq(Evaluations) /\ Len(r) = Len(q) + 1 /\ r[Len(q) + 1] = e
        /\ \A k \in 1 .. Len(q) : r[k] = q[k]
    BY <1>8, <2>3, <2>7, AppendProperties
  <2>9. \A k \in 1 .. Len(q) : q[k].due <= p.due
    <3>1. n <= n + 1 /\ n + 1 \in 1 .. Len(pending)
      OBVIOUS
    <3>2. QED BY <1>1, <1>8, <3>1
  <2>10. WalkedQueue(v, m)
    <3>1. \A k \in 1 .. Len(r) : k \in 1 .. Len(q) \/ k = Len(q) + 1
      BY <1>8, <2>8
    <3>2. DueInOrder(r)
      <4>1. ASSUME NEW i \in 1 .. Len(r), NEW j \in 1 .. Len(r), i <= j
            PROVE  r[i].due <= r[j].due
        <5>1. CASE j \in 1 .. Len(q)
          <6>1. i \in 1 .. Len(q)
            BY <1>8, <4>1, <5>1
          <6>2. q[i].due <= q[j].due
            BY <1>8, <4>1, <5>1, <6>1 DEF DueInOrder
          <6>3. QED BY <2>8, <5>1, <6>1, <6>2
        <5>2. CASE j = Len(q) + 1
          <6>1. r[j].due = p.due
            BY <2>7, <2>8, <5>2
          <6>2. CASE i \in 1 .. Len(q)
            BY <2>8, <2>9, <6>1, <6>2
          <6>3. CASE i = Len(q) + 1
            BY <1>3, <5>2, <6>1, <6>3
          <6>4. QED BY <3>1, <6>2, <6>3
        <5>3. QED BY <3>1, <5>1, <5>2
      <4>2. QED BY <4>1, Zenon DEF DueInOrder
    <3>3. ASSUME NEW k \in 1 .. Len(r)
          PROVE  ~ r[k].missed /\ \A i \in 1 .. Len(pending) : m <= i => r[k].due <= pending[i].due
      <4>1. CASE k \in 1 .. Len(q)
        <5>1. r[k] = q[k]
          BY <2>8, <4>1
        <5>2. QED BY <1>9, <4>1, <5>1, Zenon
      <4>2. CASE k = Len(q) + 1
        <5>1. r[k] = e
          BY <2>8, <4>2
        <5>2. \A i \in 1 .. Len(pending) : m <= i => p.due <= pending[i].due
          BY <1>1, <1>4 DEF Walkable, DueInOrder
        <5>3. QED BY <2>7, <5>1, <5>2
      <4>3. QED BY <3>1, <4>1, <4>2
    <3>4. QED BY <2>5, <2>8, <3>2, <3>3, Zenon DEF WalkedQueue
  <2>11. WalkedScores(v, m)
    <3>1. w.scores \in [Strategies -> Nat]
      BY <1>6 DEF WalkedScores
    <3>2. ASSUME NEW s \in Strategies
          PROVE  Cardinality(Share(pending, m, s)) = w.scores[s] + Cardinality(Share(r, Len(r), s))
      <4>1. Cardinality(Share(pending, n, s)) = w.scores[s] + Cardinality(Share(q, Len(q), s))
        BY <1>6, <1>7 DEF WalkedScores
      <4>2. w.scores[s] \in Nat /\ Cardinality(Share(q, Len(q), s)) \in Nat
        BY <1>8, <3>1, ShareFinite
      <4>3. Cardinality(Share(r, Len(r), s)) =
              Cardinality(Share(q, Len(q), s)) + (IF e.strategy = s THEN 1 ELSE 0)
        BY <1>8, <2>3, <2>7, ShareOfAppend
      <4>4. PICK a, b, c : /\ a = Cardinality(Share(pending, n, s)) /\ b = Cardinality(Share(q, Len(q), s))
                           /\ c = Cardinality(Share(r, Len(r), s))
        OBVIOUS
      <4>5. a = w.scores[s] + b /\ b \in Nat /\ w.scores[s] \in Nat
        BY <4>1, <4>2, <4>4
      <4>6. c = b + (IF p.strategy = s THEN 1 ELSE 0)
        <5>1. e.strategy = p.strategy
          BY <2>7
        <5>2. QED BY <4>3, <4>4, <5>1, Zenon
      <4>7. Cardinality(Share(pending, m, s)) = a + (IF p.strategy = s THEN 1 ELSE 0)
        BY <1>10, <4>4
      <4>8. a + (IF p.strategy = s THEN 1 ELSE 0) = w.scores[s] + c
        BY <4>5, <4>6, SMTT(30)
      <4>9. QED BY <4>4, <4>7, <4>8
    <3>3. QED BY <2>5, <3>1, <3>2, Zenon DEF WalkedScores
  <2>12. WalkedBlocks(v, m, due, ts)
    BY <1>6, <2>1, <2>5, Zenon DEF WalkedBlocks
  <2>13. v = [block |-> v.block, kept |-> v.kept, scores |-> v.scores]
    BY <2>4, <2>5
  <2>14. QED BY <1>1, <1>6, <2>5, <2>10, <2>11, <2>12, <2>13, Zenon DEF WalkOK
<1>13. QED BY <1>11, <1>12

LEMMA WalkEnds ==
    ASSUME NEW due, NEW symbol, NEW price, NEW ts, Walkable(due, symbol, price, ts)
    PROVE  WalkOK(Walked(due, symbol, price, ts), Len(pending), due, ts)
<1>1. PICK n : n = Len(pending)
  OBVIOUS
<1>2. n \in Nat
  BY <1>1, LenProperties DEF Walkable
<1>3. PICK w : WalksTo(w, n, due, symbol, price, ts) /\ Walked(due, symbol, price, ts) = w[n]
  BY <1>1, <1>2, WalkedIs
<1>4. PICK C : C = {k \in 0 .. n : ~ WalkOK(w[k], k, due, ts)}
  OBVIOUS
<1>5. CASE C = {}
  <2>1. n \in 0 .. n
    BY <1>2
  <2>2. QED BY <1>1, <1>3, <1>4, <1>5, <2>1
<1>6. CASE C # {}
  <2>1. C \subseteq Nat
    BY <1>2, <1>4
  <2>2. PICK m \in C : \A k \in C : m <= k
    BY <1>6, <2>1, Least
  <2>3. m \in 0 .. n /\ ~ WalkOK(w[m], m, due, ts)
    BY <1>4, <2>2
  <2>4. m # 0
    <3>1. WalkOK(Beginning, 0, due, ts)
      BY WalkBegins
    <3>2. QED BY <1>3, <2>3, <3>1 DEF WalksTo
  <2>5. PICK k : k = m - 1
    OBVIOUS
  <2>6. k \in Nat /\ k \in 0 .. n /\ m = k + 1 /\ k + 1 \in 1 .. n /\ k \notin C
    BY <1>2, <2>1, <2>2, <2>3, <2>4, <2>5
  <2>7. WalkOK(w[k], k, due, ts)
    BY <1>4, <2>6
  <2>8. w[k + 1] = Visited(w[k], k + 1, due, symbol, price, ts)
    BY <1>3, <2>5, <2>6 DEF WalksTo
  <2>9. WalkOK(w[k + 1], k + 1, due, ts)
    BY <1>1, <2>6, <2>7, <2>8, WalkGoesOn
  <2>10. QED BY <2>3, <2>6, <2>9
<1>7. QED BY <1>5, <1>6

-----------------------------------------------------------------------------
(* An evaluation is inserted                                               *)

\* Those that are due no later are the first ones of a queue in order.
LEMMA FirstAreDue ==
    ASSUME NEW q \in Seq(Evaluations), DueInOrder(q), NEW d \in Int
    PROVE  LET n == Cardinality({i \in DOMAIN q : q[i].due <= d})
           IN  n \in 0 .. Len(q) /\ \A i \in 1 .. Len(q) : q[i].due <= d <=> i <= n
<1>1. /\ Len(q) \in Nat /\ DOMAIN q = 1 .. Len(q)
      /\ \A i \in 1 .. Len(q) : q[i].due \in Int
  <2>1. Len(q) \in Nat /\ DOMAIN q = 1 .. Len(q) /\ \A i \in 1 .. Len(q) : q[i] \in Evaluations
    BY LenProperties, ElementOfSeq
  <2>2. \A e \in Evaluations : e.due \in Int
    BY DEF Evaluations
  <2>3. QED BY <2>1, <2>2
<1>2. PICK E : E = {i \in DOMAIN q : q[i].due <= d}
  OBVIOUS
<1>3. PICK C : C = {i \in 1 .. Len(q) : ~ (q[i].due <= d)}
  OBVIOUS
<1>4. \E c \in 0 .. Len(q) : \A i \in 1 .. Len(q) : q[i].due <= d <=> i <= c
  <2>1. CASE C = {}
    <3>1. PICK c : c = Len(q)
      OBVIOUS
    <3>2. c \in 0 .. Len(q)
      BY <1>1, <3>1
    <3>3. \A i \in 1 .. Len(q) : q[i].due <= d /\ i <= c
      BY <1>1, <1>3, <2>1, <3>1
    <3>4. QED BY <3>2, <3>3, Zenon
  <2>2. CASE C # {}
    <3>1. C \subseteq Nat
      BY <1>1, <1>3
    <3>2. PICK m \in C : \A i \in C : m <= i
      BY <2>2, <3>1, Least
    <3>3. m \in 1 .. Len(q) /\ ~ (q[m].due <= d)
      BY <1>3, <3>2
    <3>4. PICK c : c = m - 1
      OBVIOUS
    <3>5. c \in 0 .. Len(q)
      BY <1>1, <3>3, <3>4
    <3>6. ASSUME NEW i \in 1 .. Len(q) PROVE q[i].due <= d <=> i <= c
      <4>1. CASE i <= c
        <5>1. i \notin C
          BY <1>1, <3>2, <3>3, <3>4, <4>1
        <5>2. QED BY <1>3, <4>1, <5>1
      <4>2. CASE ~ (i <= c)
        <5>1. m <= i
          BY <1>1, <3>3, <3>4, <4>2
        <5>2. q[m].due <= q[i].due
          BY <3>3, <5>1 DEF DueInOrder
        <5>3. QED BY <1>1, <3>3, <4>2, <5>2
      <4>3. QED BY <4>1, <4>2
    <3>7. QED BY <3>5, <3>6, Zenon
  <2>3. QED BY <2>1, <2>2
<1>5. PICK c \in 0 .. Len(q) : \A i \in 1 .. Len(q) : q[i].due <= d <=> i <= c
  BY <1>4
<1>6. E = 1 .. c
  BY <1>1, <1>2, <1>5
<1>7. Cardinality(E) = c
  <2>1. c \in Nat
    BY <1>1
  <2>2. Cardinality(1 .. c) = IF 1 > c THEN 0 ELSE c - 1 + 1
    BY <2>1, FS_Interval
  <2>3. QED BY <1>6, <2>1, <2>2
<1>8. QED BY <1>2, <1>5, <1>7

LEMMA OpenedIs ==
    ASSUME NEW q \in Seq(Evaluations), DueInOrder(q), NEW p \in Evaluations
    PROVE  /\ Opened(q, p) \in Seq(Evaluations) /\ Len(Opened(q, p)) = Len(q) + 1
           /\ DueInOrder(Opened(q, p))
           /\ \E n \in 0 .. Len(q) : \A i \in 1 .. Len(q) + 1 :
                Opened(q, p)[i] = IF i <= n THEN q[i] ELSE IF i = n + 1 THEN p ELSE q[i - 1]
<1>1. /\ Len(q) \in Nat /\ DOMAIN q = 1 .. Len(q)
      /\ \A i \in 1 .. Len(q) : q[i] \in Evaluations /\ q[i].due \in Int
      /\ p.due \in Int
  <2>1. Len(q) \in Nat /\ DOMAIN q = 1 .. Len(q) /\ \A i \in 1 .. Len(q) : q[i] \in Evaluations
    BY LenProperties, ElementOfSeq
  <2>2. \A e \in Evaluations : e.due \in Int
    BY DEF Evaluations
  <2>3. QED BY <2>1, <2>2
<1>2. PICK l : l = Len(q) /\ l \in Nat
  BY <1>1
<1>3. \E m : /\ m = Cardinality({i \in DOMAIN q : q[i].due <= p.due})
             /\ m \in 0 .. l /\ \A i \in 1 .. l : q[i].due <= p.due <=> i <= m
  BY <1>1, <1>2, FirstAreDue
<1>4. PICK n : /\ n = Cardinality({i \in DOMAIN q : q[i].due <= p.due})
              /\ n \in 0 .. l /\ \A i \in 1 .. l : q[i].due <= p.due <=> i <= n
  BY <1>3
<1>5. n \in 0 .. l /\ n \in Nat /\ n <= l /\ \A i \in 1 .. l : q[i].due <= p.due <=> i <= n
  BY <1>2, <1>4
<1>6. PICK a, b, c : a = SubSeq(q, 1, n) /\ b = <<p>> /\ c = SubSeq(q, n + 1, l)
  OBVIOUS
<1>7. PICK r : r = Opened(q, p)
  OBVIOUS
<1>8. r = (a \o b) \o c
  <2>1. (1 + n) - 1 = n /\ 1 + n = n + 1
    BY <1>5
  <2>2. r = InsertAt(q, 1 + n, p)
    BY <1>4, <1>7 DEF Opened
  <2>3. r = SubSeq(q, 1, (1 + n) - 1) \o <<p>> \o SubSeq(q, 1 + n, Len(q))
    BY <2>2 DEF InsertAt
  <2>4. QED BY <1>2, <1>6, <2>1, <2>3, Zenon
<1>9. a \in Seq(Evaluations) /\ Len(a) = n /\ \A i \in 1 .. n : a[i] = q[i]
  <2>1. 1 \in Int /\ n \in Int /\ \A i \in 1 .. n : q[i] \in Evaluations
    BY <1>1, <1>2, <1>5
  <2>2. /\ a \in Seq(Evaluations) /\ Len(a) = IF 1 <= n THEN n - 1 + 1 ELSE 0
        /\ \A i \in 1 .. n - 1 + 1 : a[i] = q[1 + i - 1]
    BY <1>6, <2>1, SubSeqProperties
  <2>3. QED BY <1>1, <1>2, <1>5, <2>2
<1>10. b \in Seq(Evaluations) /\ Len(b) = 1 /\ b[1] = p
  BY <1>6
<1>11. c \in Seq(Evaluations) /\ Len(c) = l - n /\ \A i \in 1 .. l - n : c[i] = q[n + i]
  <2>1. n + 1 \in Int /\ l \in Int /\ \A i \in n + 1 .. l : q[i] \in Evaluations
    BY <1>1, <1>2, <1>5
  <2>2. /\ c \in Seq(Evaluations) /\ Len(c) = IF n + 1 <= l THEN l - (n + 1) + 1 ELSE 0
        /\ \A i \in 1 .. l - (n + 1) + 1 : c[i] = q[n + 1 + i - 1]
    BY <1>6, <2>1, SubSeqProperties
  <2>3. l - (n + 1) + 1 = l - n /\ \A i \in 1 .. l - n : n + 1 + i - 1 = n + i
    BY <1>2, <1>5
  <2>4. Len(c) = l - n
    BY <1>2, <1>5, <2>2
  <2>5. QED BY <2>2, <2>3, <2>4
<1>12. PICK d : d = a \o b
  OBVIOUS
<1>13. /\ d \in Seq(Evaluations) /\ Len(d) = n + 1
       /\ \A i \in 1 .. n + 1 : d[i] = IF i <= n THEN q[i] ELSE p
  <2>1. /\ d \in Seq(Evaluations) /\ Len(d) = Len(a) + Len(b)
        /\ \A i \in 1 .. Len(a) + Len(b) : d[i] = IF i <= Len(a) THEN a[i] ELSE b[i - Len(a)]
    BY <1>9, <1>10, <1>12, ConcatProperties
  <2>2. ASSUME NEW i \in 1 .. n + 1 PROVE d[i] = IF i <= n THEN q[i] ELSE p
    <3>1. d[i] = IF i <= n THEN a[i] ELSE b[i - n]
      BY <1>9, <1>10, <2>1
    <3>2. CASE i <= n
      <4>1. i \in 1 .. n
        BY <1>1, <1>2, <1>5, <3>2
      <4>2. QED BY <1>9, <3>1, <3>2, <4>1
    <3>3. CASE ~ (i <= n)
      <4>1. i - n = 1
        BY <1>1, <1>2, <1>5, <3>3
      <4>2. QED BY <1>10, <3>1, <3>3, <4>1
    <3>4. QED BY <3>2, <3>3
  <2>3. QED BY <1>9, <1>10, <2>1, <2>2
<1>14. r \in Seq(Evaluations) /\ Len(r) = l + 1
  <2>1. r \in Seq(Evaluations) /\ Len(r) = Len(d) + Len(c)
    BY <1>8, <1>11, <1>12, <1>13, ConcatProperties
  <2>2. QED BY <1>1, <1>2, <1>5, <1>11, <1>13, <2>1
<1>15. ASSUME NEW i \in 1 .. l + 1
       PROVE  r[i] = IF i <= n THEN q[i] ELSE IF i = n + 1 THEN p ELSE q[i - 1]
  <2>1. i \in 1 .. Len(d) + Len(c)
    BY <1>1, <1>2, <1>5, <1>11, <1>13
  <2>2. r[i] = IF i <= Len(d) THEN d[i] ELSE c[i - Len(d)]
    BY <1>8, <1>11, <1>12, <1>13, <2>1, ConcatProperties
  <2>3. CASE i <= n + 1
    <3>1. i \in 1 .. n + 1
      BY <1>1, <1>2, <1>5, <2>3
    <3>2. r[i] = d[i]
      BY <1>13, <2>2, <2>3
    <3>3. d[i] = IF i <= n THEN q[i] ELSE p
      BY <1>13, <3>1
    <3>4. ~ (i <= n) => i = n + 1
      BY <1>1, <1>2, <1>5, <2>3
    <3>5. QED BY <3>2, <3>3, <3>4
  <2>4. CASE ~ (i <= n + 1)
    <3>1. PICK k : k = i - (n + 1)
      OBVIOUS
    <3>2. l \in Nat /\ n \in 0 .. l
      BY <1>1, <1>2, <1>5
    <3>3. k \in 1 .. l - n /\ n + k = i - 1 /\ ~ (i <= n) /\ i # n + 1
      BY <2>4, <3>1, <3>2
    <3>4. r[i] = c[k]
      BY <1>13, <2>2, <2>4, <3>1
    <3>5. QED BY <1>11, <3>3, <3>4
  <2>5. QED BY <2>3, <2>4
<1>16. DueInOrder(r)
  <2>1. ASSUME NEW i \in 1 .. Len(r), NEW j \in 1 .. Len(r), i <= j
        PROVE  r[i].due <= r[j].due
    <3>1. i \in 1 .. l + 1 /\ j \in 1 .. l + 1 /\ n \in 0 .. l /\ l \in Nat
      BY <1>1, <1>2, <1>5, <1>14
    <3>2. \A x \in 1 .. l, y \in 1 .. l : x <= y => q[x].due <= q[y].due
      BY <1>2 DEF DueInOrder
    <3>3. CASE j <= n
      <4>1. i <= n /\ i \in 1 .. l /\ j \in 1 .. l
        BY <2>1, <3>1, <3>3
      <4>2. r[i] = q[i] /\ r[j] = q[j]
        BY <1>15, <3>1, <3>3, <4>1
      <4>3. QED BY <2>1, <3>2, <4>1, <4>2
    <3>4. CASE j = n + 1
      <4>1. r[j] = p
        BY <1>15, <3>1, <3>4
      <4>2. CASE i <= n
        <5>1. i \in 1 .. l /\ r[i] = q[i]
          BY <1>15, <3>1, <4>2
        <5>2. QED BY <1>5, <4>1, <4>2, <5>1
      <4>3. CASE ~ (i <= n)
        <5>1. i = j
          BY <2>1, <3>1, <3>4, <4>3
        <5>2. QED BY <1>1, <4>1, <5>1
      <4>4. QED BY <4>2, <4>3
    <3>5. CASE ~ (j <= n) /\ j # n + 1
      <4>1. j - 1 \in 1 .. l /\ r[j] = q[j - 1] /\ ~ (j - 1 <= n)
        BY <1>15, <3>1, <3>5
      <4>2. CASE i <= n
        <5>1. i \in 1 .. l /\ r[i] = q[i] /\ i <= j - 1
          BY <1>15, <3>1, <3>5, <4>2
        <5>2. QED BY <3>2, <4>1, <5>1
      <4>3. CASE i = n + 1
        <5>1. r[i] = p
          BY <1>15, <3>1, <4>3
        <5>2. ~ (q[j - 1].due <= p.due)
          BY <1>5, <4>1
        <5>3. QED BY <1>1, <1>2, <4>1, <5>1, <5>2
      <4>4. CASE ~ (i <= n) /\ i # n + 1
        <5>1. i - 1 \in 1 .. l /\ r[i] = q[i - 1] /\ i - 1 <= j - 1
          BY <1>15, <2>1, <3>1, <4>4
        <5>2. QED BY <3>2, <4>1, <5>1
      <4>5. QED BY <4>2, <4>3, <4>4
    <3>6. QED BY <3>3, <3>4, <3>5
  <2>2. QED BY <2>1, Zenon DEF DueInOrder
<1>17. QED BY <1>2, <1>5, <1>7, <1>14, <1>15, <1>16, Zenon

\* An insertion adds the evaluation to its strategy's share.
LEMMA ShareOfOpened ==
    ASSUME NEW q \in Seq(Evaluations), DueInOrder(q), NEW p \in Evaluations, NEW s
    PROVE  Cardinality(Share(Opened(q, p), Len(q) + 1, s)) =
             Cardinality(Share(q, Len(q), s)) + (IF p.strategy = s THEN 1 ELSE 0)
<1>1. PICK r, l : r = Opened(q, p) /\ l = Len(q)
  OBVIOUS
<1>2. l \in Nat
  BY <1>1, LenProperties
<1>3. \E n \in 0 .. Len(q) : \A i \in 1 .. Len(q) + 1 :
        Opened(q, p)[i] = IF i <= n THEN q[i] ELSE IF i = n + 1 THEN p ELSE q[i - 1]
  BY OpenedIs, Zenon
<1>4. PICK n \in 0 .. l : \A i \in 1 .. l + 1 :
        r[i] = IF i <= n THEN q[i] ELSE IF i = n + 1 THEN p ELSE q[i - 1]
  BY <1>3, <1>1, Zenon
<1>5. PICK S, T, m : S = Share(q, l, s) /\ T = Share(r, l + 1, s) \ {m} /\ m = n + 1
  OBVIOUS
<1>6. PICK f : f = [i \in S |-> IF i <= n THEN i ELSE i + 1]
  OBVIOUS
<1>7. n \in Nat /\ n <= l /\ S \subseteq 1 .. l /\ T \subseteq 1 .. l + 1 /\ m \in 1 .. l + 1 /\ m \notin T
      /\ m = n + 1
  BY <1>2, <1>5 DEF Share
<1>8. f \in [S -> T]
  <2>1. ASSUME NEW i \in S PROVE f[i] \in T
    <3>1. i \in 1 .. l /\ q[i].strategy = s
      BY <1>5 DEF Share
    <3>2. CASE i <= n
      <4>1. f[i] = i /\ i \in 1 .. l + 1 /\ i # m /\ r[i] = q[i]
        BY <1>2, <1>4, <1>5, <1>6, <1>7, <3>1, <3>2
      <4>2. QED BY <1>5, <3>1, <4>1 DEF Share
    <3>3. CASE ~ (i <= n)
      <4>1. f[i] = i + 1 /\ i + 1 \in 1 .. l + 1 /\ i + 1 # m /\ ~ (i + 1 <= n) /\ i + 1 - 1 = i
        BY <1>2, <1>5, <1>6, <1>7, <3>1, <3>3
      <4>2. r[i + 1] = q[i]
        <5>1. PICK k : k = i + 1
          OBVIOUS
        <5>2. k \in 1 .. l + 1 /\ k # n + 1 /\ ~ (k <= n) /\ k - 1 = i
          BY <1>7, <4>1, <5>1
        <5>3. r[k] = q[k - 1]
          BY <1>4, <5>2
        <5>4. QED BY <5>1, <5>2, <5>3
      <4>3. QED BY <1>5, <3>1, <4>1, <4>2 DEF Share
    <3>4. QED BY <3>2, <3>3
  <2>2. QED BY <1>6, <2>1
<1>9. \A i \in S : \A j \in S : f[i] = f[j] => i = j
  <2>1. \A i \in S : i \in Int /\ f[i] = IF i <= n THEN i ELSE i + 1
    BY <1>2, <1>6, <1>7
  <2>2. QED BY <1>7, <2>1
<1>10. \A t \in T : \E i \in S : f[i] = t
  <2>1. TAKE t \in T
  <2>2. t \in 1 .. l + 1 /\ r[t].strategy = s /\ t # m
    BY <1>5 DEF Share
  <2>3. CASE t <= n
    <3>1. t \in 1 .. l /\ r[t] = q[t]
      BY <1>2, <1>4, <1>7, <2>2, <2>3
    <3>2. t \in S
      BY <1>5, <2>2, <3>1 DEF Share
    <3>3. QED BY <1>6, <2>3, <3>2
  <2>4. CASE ~ (t <= n)
    <3>1. PICK i : i = t - 1
      OBVIOUS
    <3>2. i \in 1 .. l /\ ~ (i <= n) /\ i + 1 = t /\ r[t] = q[i]
      BY <1>2, <1>4, <1>5, <1>7, <2>2, <2>4, <3>1
    <3>3. i \in S
      BY <1>5, <2>2, <3>2 DEF Share
    <3>4. QED BY <1>6, <3>2, <3>3
  <2>5. QED BY <2>3, <2>4
<1>11. ExistsBijection(S, T)
  BY <1>8, <1>9, <1>10 DEF ExistsBijection, Bijection, Injection, Surjection, IsInjective
<1>12. IsFiniteSet(S) /\ Cardinality(S) \in Nat
  BY <1>2, <1>5, ShareFinite
<1>13. IsFiniteSet(T) /\ Cardinality(T) = Cardinality(S)
  BY <1>11, <1>12, FS_Bijection
<1>14. r[m].strategy = p.strategy
  BY <1>4, <1>5, <1>7
<1>15. CASE p.strategy = s
  <2>1. Share(r, l + 1, s) = T \cup {m}
    BY <1>5, <1>7, <1>14, <1>15 DEF Share
  <2>2. Cardinality(T \cup {m}) = Cardinality(T) + 1
    BY <1>7, <1>12, <1>13, FS_AddElement
  <2>3. Cardinality(Share(r, l + 1, s)) = Cardinality(Share(q, l, s)) + 1
    <3>1. S = Share(q, l, s)
      BY <1>5
    <3>2. QED BY <1>13, <2>1, <2>2, <3>1
  <2>4. QED BY <1>1, <1>15, <2>3
<1>16. CASE p.strategy # s
  <2>1. Share(r, l + 1, s) = T
    BY <1>5, <1>7, <1>14, <1>16 DEF Share
  <2>2. Cardinality(Share(r, l + 1, s)) = Cardinality(Share(q, l, s))
    <3>1. S = Share(q, l, s)
      BY <1>5
    <3>2. QED BY <1>13, <2>1, <3>1
  <2>3. Cardinality(Share(q, l, s)) \in Nat
    BY <1>5, <1>12
  <2>4. QED BY <1>1, <1>16, <2>2, <2>3
<1>17. QED BY <1>15, <1>16

-----------------------------------------------------------------------------
(* The operations of the registry                                          *)

\* A step of the registry that keeps what holds of it and is what the scores deserve.
RegistryStep ==
    /\ RegistrySound'
    /\ \A s \in Strategies : ReleasedByHand(s) /\ DisabledIsDeserved(s)

LEMMA QueueFacts ==
    ASSUME pending \in Seq(Evaluations)
    PROVE  /\ Len(pending) \in Nat /\ DOMAIN pending = 1 .. Len(pending)
           /\ \A i \in 1 .. Len(pending) :
                /\ pending[i] \in Evaluations /\ pending[i].strategy \in Strategies
                /\ pending[i].due \in Int /\ pending[i].missed \in BOOLEAN
<1>1. Len(pending) \in Nat /\ DOMAIN pending = 1 .. Len(pending)
  BY LenProperties
<1>2. \A i \in 1 .. Len(pending) : pending[i] \in Evaluations
  BY ElementOfSeq
<1>3. \A e \in Evaluations : e.strategy \in Strategies /\ e.due \in Int /\ e.missed \in BOOLEAN
  BY DEF Evaluations
<1>4. QED BY <1>1, <1>2, <1>3

LEMMA WaitingIs ==
    ASSUME pending \in Seq(Evaluations), NEW s
    PROVE  Waiting(s) = Cardinality(Share(pending, Len(pending), s))
BY QueueFacts DEF Waiting, Share

\* A fill is recorded.
LEMMA Opens ==
    ASSUME RegistrySound, NEW p \in Evaluations, ~ p.missed, RecordSignalOpen(p),
           UNCHANGED <<block, forced, entries>>, now' = now
    PROVE  RegistryStep
<1>1. /\ block \in [Strategies -> Blocks] /\ \A s \in Strategies : BlockSound(block[s])
      /\ pending \in Seq(Evaluations) /\ DueInOrder(pending)
      /\ forced \subseteq Strategies /\ entries \in [Strategies -> Seq(Marks)]
      /\ tally \in [Strategies -> Nat \X Nat]
      /\ ScoredOnce /\ NoneMissed /\ ActiveIsHealthy
      /\ \A s \in Strategies : KeepsTheLast(block[s].quarantines, entries[s]) /\ InTime(entries[s])
  BY Zenon DEF RegistrySound
<1>2. pending' = Opened(pending, p) /\ tally' = [tally EXCEPT ![p.strategy][1] = @ + 1]
  BY DEF RecordSignalOpen
<1>3. block' = block /\ forced' = forced /\ entries' = entries /\ now' = now
  OBVIOUS
<1>4. /\ pending' \in Seq(Evaluations) /\ Len(pending') = Len(pending) + 1 /\ DueInOrder(pending')
      /\ \E n \in 0 .. Len(pending) : \A i \in 1 .. Len(pending) + 1 :
           pending'[i] = IF i <= n THEN pending[i] ELSE IF i = n + 1 THEN p ELSE pending[i - 1]
  <2>1. PICK q, r : q = pending /\ r = Opened(q, p)
    OBVIOUS
  <2>2. q \in Seq(Evaluations) /\ DueInOrder(q)
    BY <1>1, <2>1
  <2>3. /\ r \in Seq(Evaluations) /\ Len(r) = Len(q) + 1 /\ DueInOrder(r)
        /\ \E n \in 0 .. Len(q) : \A i \in 1 .. Len(q) + 1 :
             r[i] = IF i <= n THEN q[i] ELSE IF i = n + 1 THEN p ELSE q[i - 1]
    BY <2>1, <2>2, OpenedIs, ZenonT(40)
  <2>4. pending' = r
    BY <1>2, <2>1
  <2>5. QED BY <2>1, <2>3, <2>4, Zenon
<1>5. p.strategy \in Strategies
  BY DEF Evaluations
<1>6. /\ tally' \in [Strategies -> Nat \X Nat]
      /\ \A s \in Strategies : /\ tally'[s][1] = tally[s][1] + (IF p.strategy = s THEN 1 ELSE 0)
                               /\ tally'[s][2] = tally[s][2]
  <2>1. PICK o : o = tally[p.strategy]
    OBVIOUS
  <2>2. o \in Nat \X Nat
    BY <1>1, <1>5, <2>1
  <2>3. PICK o2 : o2 = [o EXCEPT ![1] = @ + 1]
    OBVIOUS
  <2>4. o2 \in Nat \X Nat /\ o2[1] = o[1] + 1 /\ o2[2] = o[2]
    BY <2>2, <2>3
  <2>5. tally' = [tally EXCEPT ![p.strategy] = o2]
    BY <1>2, <2>1, <2>3
  <2>6. tally'[p.strategy] = o2 /\ \A s \in Strategies : s # p.strategy => tally'[s] = tally[s]
    BY <1>1, <1>5, <2>5
  <2>7. tally' \in [Strategies -> Nat \X Nat]
    BY <1>1, <2>4, <2>5
  <2>8. \A s \in Strategies : tally[s][1] \in Nat /\ tally[s][2] \in Nat
    BY <1>1
  <2>9. QED BY <2>1, <2>4, <2>6, <2>7, <2>8
<1>7. ScoredOnce'
  <2>1. ASSUME NEW s \in Strategies PROVE tally'[s][1] = tally'[s][2] + Waiting(s)'
    <3>1. tally[s][1] = tally[s][2] + Waiting(s) /\ tally[s][1] \in Nat /\ tally[s][2] \in Nat
      BY <1>1 DEF ScoredOnce
    <3>2. Waiting(s) = Cardinality(Share(pending, Len(pending), s))
      BY <1>1, WaitingIs
    <3>3. Waiting(s)' = Cardinality(Share(pending', Len(pending'), s))
      <4>1. DOMAIN pending' = 1 .. Len(pending')
        BY <1>4, LenProperties
      <4>2. QED BY <4>1 DEF Waiting, Share
    <3>4. Cardinality(Share(pending', Len(pending'), s)) =
            Cardinality(Share(pending, Len(pending), s)) + (IF p.strategy = s THEN 1 ELSE 0)
      BY <1>1, <1>2, <1>4, ShareOfOpened
    <3>5. Cardinality(Share(pending, Len(pending), s)) \in Nat
      BY <1>1, QueueFacts, ShareFinite
    <3>6. QED BY <1>6, <3>1, <3>2, <3>3, <3>4, <3>5
  <2>2. QED BY <2>1 DEF ScoredOnce
<1>8. NoneMissed'
  <2>1. PICK n \in 0 .. Len(pending) : \A i \in 1 .. Len(pending) + 1 :
          pending'[i] = IF i <= n THEN pending[i] ELSE IF i = n + 1 THEN p ELSE pending[i - 1]
    BY <1>4
  <2>2. ASSUME NEW i \in 1 .. Len(pending') PROVE ~ pending'[i].missed
    <3>1. Len(pending) \in Nat /\ i \in 1 .. Len(pending) + 1
      BY <1>1, <1>4, QueueFacts
    <3>2. CASE i <= n
      <4>1. i \in 1 .. Len(pending) /\ pending'[i] = pending[i]
        BY <2>1, <3>1, <3>2
      <4>2. QED BY <1>1, <4>1 DEF NoneMissed
    <3>3. CASE ~ (i <= n) /\ i = n + 1
      BY <2>1, <3>1, <3>3
    <3>4. CASE ~ (i <= n) /\ i # n + 1
      <4>1. i - 1 \in 1 .. Len(pending) /\ pending'[i] = pending[i - 1]
        BY <2>1, <3>1, <3>4
      <4>2. QED BY <1>1, <4>1 DEF NoneMissed
    <3>5. QED BY <3>2, <3>3, <3>4
  <2>3. QED BY <2>2 DEF NoneMissed
<1>9. ActiveIsHealthy'
  BY <1>1, <1>3 DEF ActiveIsHealthy, DrawdownAlarm, SharpeAlarm, CusumAlarm
<1>10. \A s \in Strategies : KeepsTheLast(block[s].quarantines, entries[s])' /\ InTime(entries[s])'
  <2>1. TAKE s \in Strategies
  <2>2. KeepsTheLast(block[s].quarantines, entries[s]) /\ InTime(entries[s])
    BY <1>1
  <2>3. PICK e : e = entries[s]
    OBVIOUS
  <2>4. InTime(e) /\ entries'[s] = e
    BY <1>3, <2>2, <2>3
  <2>5. InTime(entries[s])'
    BY <1>3, <2>4 DEF InTime
  <2>6. KeepsTheLast(block[s].quarantines, entries[s])'
    BY <1>3, <2>2
  <2>7. QED BY <2>5, <2>6
<1>11. \A s \in Strategies : BlockSound(block[s])'
  BY <1>1, <1>3 DEF BlockSound
<1>12. RegistrySound'
  BY <1>1, <1>3, <1>4, <1>6, <1>7, <1>8, <1>9, <1>10, <1>11 DEF RegistrySound, DueInOrder
<1>13. \A s \in Strategies : ReleasedByHand(s) /\ DisabledIsDeserved(s)
  BY <1>3 DEF ReleasedByHand, DisabledIsDeserved
<1>14. QED BY <1>12, <1>13 DEF RegistryStep

LEMMA MarkFacts ==
    ASSUME NEW e \in Seq(Marks)
    PROVE  Len(e) \in Nat /\ \A k \in 1 .. Len(e) : e[k].at \in Nat
<1>1. Len(e) \in Nat /\ \A k \in 1 .. Len(e) : e[k] \in Marks
  BY LenProperties, ElementOfSeq
<1>2. \A m \in Marks : m.at \in Nat
  BY DEF Marks
<1>3. QED BY <1>1, <1>2

\* One more quarantine at the end of both, and the front of what is kept is dropped.
LEMMA KeepsOneMore ==
    ASSUME NEW q \in Seq(Nat), NEW e \in Seq(Marks), KeepsTheLast(q, e), NEW mark \in Marks
    PROVE  KeepsTheLast(Append(q, mark.at), Append(e, mark))
<1>1. Len(q) \in Nat /\ Len(e) \in Nat /\ mark.at \in Nat
  BY LenProperties DEF Marks
<1>2. PICK d \in Nat : Len(e) = d + Len(q) /\ \A k \in 1 .. Len(q) : q[k] = e[d + k].at
  BY DEF KeepsTheLast
<1>3. PICK q2, e2 : q2 = Append(q, mark.at) /\ e2 = Append(e, mark)
  OBVIOUS
<1>4. /\ Len(q2) = Len(q) + 1 /\ q2[Len(q) + 1] = mark.at
      /\ \A k \in 1 .. Len(q) : q2[k] = q[k]
  BY <1>1, <1>3, AppendProperties
<1>5. /\ Len(e2) = Len(e) + 1 /\ e2[Len(e) + 1] = mark
      /\ \A k \in 1 .. Len(e) : e2[k] = e[k]
  BY <1>3, AppendProperties
<1>6. Len(e2) = d + Len(q2)
  BY <1>1, <1>2, <1>4, <1>5
<1>7. ASSUME NEW k \in 1 .. Len(q2) PROVE q2[k] = e2[d + k].at
  <2>1. CASE k \in 1 .. Len(q)
    <3>1. d + k \in 1 .. Len(e)
      BY <1>1, <1>2, <2>1
    <3>2. QED BY <1>2, <1>4, <1>5, <2>1, <3>1
  <2>2. CASE k = Len(q) + 1
    <3>1. d + k = Len(e) + 1
      BY <1>1, <1>2, <2>2
    <3>2. QED BY <1>4, <1>5, <2>2, <3>1
  <2>3. QED BY <1>1, <1>4, <2>1, <2>2
<1>8. KeepsTheLast(q2, e2)
  BY <1>6, <1>7, Zenon DEF KeepsTheLast
<1>9. QED BY <1>3, <1>8

LEMMA KeepsRecent ==
    ASSUME NEW q \in Seq(Nat), NEW e \in Seq(Marks), KeepsTheLast(q, e), NEW ts \in Nat
    PROVE  KeepsTheLast(Recent(q, ts), e)
<1>1. Len(q) \in Nat /\ Len(e) \in Nat
  BY LenProperties
<1>2. PICK d \in Nat : Len(e) = d + Len(q) /\ \A k \in 1 .. Len(q) : q[k] = e[d + k].at
  BY DEF KeepsTheLast
<1>3. PICK r : r = Recent(q, ts)
  OBVIOUS
<1>4. PICK n \in 0 .. Len(q) : Len(r) = Len(q) - n /\ \A k \in 1 .. Len(q) - n : r[k] = q[n + k]
  BY <1>3, RecentIs
<1>5. PICK m : m = d + n
  OBVIOUS
<1>6. m \in Nat /\ Len(e) = m + Len(r)
  BY <1>1, <1>2, <1>4, <1>5
<1>7. ASSUME NEW k \in 1 .. Len(r) PROVE r[k] = e[m + k].at
  <2>1. PICK l : l = Len(q)
    OBVIOUS
  <2>2. l \in Nat /\ n \in 0 .. l /\ Len(r) = l - n
    BY <1>1, <1>4, <2>1
  <2>3. k \in 1 .. l - n
    BY <2>2
  <2>4. n + k \in 1 .. l /\ d + (n + k) = m + k
    BY <1>5, <2>2, <2>3
  <2>5. r[k] = q[n + k]
    BY <1>4, <2>1, <2>3
  <2>6. q[n + k] = e[d + (n + k)].at
    BY <1>2, <2>1, <2>4
  <2>7. QED BY <2>4, <2>5, <2>6
<1>8. KeepsTheLast(r, e)
  BY <1>6, <1>7, Zenon DEF KeepsTheLast
<1>9. QED BY <1>3, <1>8

\* A full row of what is kept is a row of the history, each by hand or recent.
LEMMA FullRowIsDeserved ==
    ASSUME NEW q \in Seq(Nat), NEW e \in Seq(Marks), KeepsTheLast(q, e), NEW ts \in Nat,
           \A j \in 1 .. Len(e) : ~ e[j].manual => \A k \in 1 .. j : e[k].at <= e[j].at,
           Len(Recent(q, ts)) >= MaxQuarantines
    PROVE  Cardinality({k \in 1 .. Len(e) : e[k].manual \/ ts - e[k].at <= Lookback}) >= MaxQuarantines
<1>1. Len(q) \in Nat /\ Len(e) \in Nat /\ MaxQuarantines \in Nat \ {0}
  BY LenProperties, SignalConstants
<1>2. PICK d \in Nat : Len(e) = d + Len(q) /\ \A k \in 1 .. Len(q) : q[k] = e[d + k].at
  BY DEF KeepsTheLast
<1>3. PICK r : r = Recent(q, ts)
  OBVIOUS
<1>4. PICK n \in 0 .. Len(q) :
        /\ Len(r) = Len(q) - n
        /\ n < Len(q) => ts <= q[n + 1] \/ ts - q[n + 1] <= Lookback
  BY <1>3, RecentIs
<1>5. n \in Nat /\ n < Len(q) /\ n + 1 \in 1 .. Len(q)
  <2>1. PICK l : l = Len(q)
    OBVIOUS
  <2>2. l \in Nat /\ n \in 0 .. l /\ Len(r) = l - n
    BY <1>1, <1>4, <2>1
  <2>3. Len(r) >= MaxQuarantines /\ MaxQuarantines \in Nat \ {0}
    BY <1>1, <1>3
  <2>4. n < l /\ n + 1 \in 1 .. l
    BY <2>2, <2>3
  <2>5. QED BY <2>1, <2>2, <2>4
<1>6. PICK m : m = d + n + 1
  OBVIOUS
<1>7. m \in 1 .. Len(e) /\ Len(e) - m + 1 = Len(r)
  BY <1>1, <1>2, <1>4, <1>5, <1>6
<1>8. q[n + 1] = e[m].at
  <2>1. d + (n + 1) = m
    BY <1>5, <1>6
  <2>2. QED BY <1>2, <1>5, <2>1
<1>9. \A k \in 1 .. Len(e) : e[k].at \in Nat
  BY MarkFacts
<1>10. PICK a : a = e[m].at
  OBVIOUS
<1>11. a \in Nat /\ (ts <= a \/ ts - a <= Lookback)
  BY <1>4, <1>5, <1>7, <1>8, <1>9, <1>10
<1>12. PICK S : S = {k \in 1 .. Len(e) : e[k].manual \/ ts - e[k].at <= Lookback}
  OBVIOUS
<1>13. m .. Len(e) \subseteq S
  <2>1. ASSUME NEW k \in m .. Len(e), ~ e[k].manual PROVE ts - e[k].at <= Lookback
    <3>1. k \in 1 .. Len(e) /\ m \in 1 .. k
      BY <1>1, <1>7
    <3>2. a <= e[k].at
      BY <1>10, <2>1, <3>1
    <3>3. e[k].at \in Nat /\ Lookback \in Nat
      BY <1>9, <3>1, SignalConstants
    <3>4. PICK b : b = e[k].at
      OBVIOUS
    <3>5. b \in Nat /\ Lookback \in Nat /\ a <= b
      BY <3>2, <3>3, <3>4
    <3>6. ts - b <= Lookback
      BY <1>11, <3>5
    <3>7. QED BY <3>4, <3>6
  <2>2. m .. Len(e) \subseteq 1 .. Len(e)
    BY <1>1, <1>7
  <2>3. QED BY <1>12, <2>1, <2>2
<1>14. IsFiniteSet(S) /\ Cardinality(S) \in Nat
  <2>1. IsFiniteSet(1 .. Len(e)) /\ S \in SUBSET (1 .. Len(e))
    BY <1>1, <1>12, FS_Interval
  <2>2. QED BY <2>1, FS_Subset, FS_CardinalityType
<1>15. Cardinality(m .. Len(e)) = Len(r)
  <2>1. m \in Int /\ Len(e) \in Int /\ m <= Len(e)
    BY <1>1, <1>7
  <2>2. Cardinality(m .. Len(e)) = IF m > Len(e) THEN 0 ELSE Len(e) - m + 1
    BY <2>1, FS_Interval
  <2>3. QED BY <1>7, <2>1, <2>2
<1>16. Cardinality(m .. Len(e)) <= Cardinality(S)
  BY <1>13, <1>14, FS_Subset
<1>17. Len(r) >= MaxQuarantines /\ Len(r) \in Nat
  BY <1>1, <1>3, <1>4
<1>18. QED BY <1>1, <1>12, <1>14, <1>15, <1>16, <1>17

\* The history of quarantines at a later time, and with one more.
LEMMA InTimeLater ==
    ASSUME NEW e \in Seq(Marks), InTime(e), now \in Nat, now' \in Nat, now <= now'
    PROVE  InTime(e)'
<1>1. \A j \in 1 .. Len(e) : e[j].at \in Nat
  BY MarkFacts
<1>2. \A j \in 1 .. Len(e) : e[j].at <= now'
  BY <1>1 DEF InTime
<1>3. QED BY <1>2, Zenon DEF InTime

LEMMA InTimeWithMore ==
    ASSUME NEW e \in Seq(Marks), InTime(e)', now' \in Nat, NEW mark \in Marks,
           \/ mark.manual /\ mark.at = 0
           \/ ~ mark.manual /\ mark.at = now'
    PROVE  InTime(Append(e, mark))'
<1>1. PICK f, n : f = Append(e, mark) /\ n = Len(e)
  OBVIOUS
<1>2. /\ n \in Nat /\ Len(f) = n + 1 /\ f[n + 1] = mark /\ \A k \in 1 .. n : f[k] = e[k]
  BY <1>1, LenProperties, AppendProperties
<1>3. \A j \in 1 .. n : /\ e[j].at <= now'
                        /\ e[j].manual => e[j].at = 0
                        /\ ~ e[j].manual => \A k \in 1 .. j : e[k].at <= e[j].at
  BY <1>1 DEF InTime
<1>4. ASSUME NEW j \in 1 .. n + 1
      PROVE  /\ f[j].at <= now'
             /\ f[j].manual => f[j].at = 0
             /\ ~ f[j].manual => \A k \in 1 .. j : f[k].at <= f[j].at
  <2>1. CASE j \in 1 .. n
    <3>1. \A k \in 1 .. j : k \in 1 .. n
      BY <1>2, <2>1
    <3>2. QED BY <1>2, <1>3, <2>1, <3>1
  <2>2. CASE j = n + 1
    <3>1. f[j] = mark /\ mark.at <= now'
      BY <1>2, <2>2
    <3>2. ASSUME ~ mark.manual, NEW k \in 1 .. j PROVE f[k].at <= mark.at
      <4>1. mark.at = now'
        BY <3>2
      <4>2. CASE k \in 1 .. n
        BY <1>2, <1>3, <4>1, <4>2
      <4>3. CASE k = n + 1
        BY <2>2, <3>1, <4>1, <4>3
      <4>4. QED BY <1>2, <2>2, <4>2, <4>3
    <3>3. QED BY <3>1, <3>2
  <2>3. QED BY <1>2, <2>1, <2>2
<1>5. InTime(f)'
  BY <1>2, <1>4, Zenon DEF InTime
<1>6. QED BY <1>1, <1>5

\* What is scored is scored, and the scores move the strategies.
LEMMA Resolves ==
    ASSUME RegistrySound, NEW due, NEW symbol, NEW price \in Prices, NEW ts \in Nat,
           now \in Nat, now <= ts, now' = ts, due \subseteq 1 .. Len(pending),
           \A i \in due : pending[i].symbol = symbol,
           \A i \in 1 .. Len(pending) :
             i \notin due => ~ (pending[i].symbol = symbol /\ pending[i].due <= ts),
           Resolve(symbol, due, price, ts)
    PROVE  RegistryStep
<1>1. /\ block \in [Strategies -> Blocks] /\ \A s \in Strategies : BlockSound(block[s])
      /\ pending \in Seq(Evaluations) /\ DueInOrder(pending)
      /\ forced \subseteq Strategies /\ entries \in [Strategies -> Seq(Marks)]
      /\ tally \in [Strategies -> Nat \X Nat]
      /\ ScoredOnce /\ NoneMissed /\ ActiveIsHealthy
      /\ \A s \in Strategies : KeepsTheLast(block[s].quarantines, entries[s]) /\ InTime(entries[s])
  BY Zenon DEF RegistrySound
<1>2. PICK w : w = Walked(due, symbol, price, ts)
  OBVIOUS
<1>3. WalkOK(w, Len(pending), due, ts)
  <2>1. Walkable(due, symbol, price, ts)
    BY <1>1, Zenon DEF Walkable
  <2>2. QED BY <1>2, <2>1, WalkEnds
<1>4. PICK who : who = {pending[i].strategy : i \in due}
  OBVIOUS
<1>5. ScoredIn(due, Len(pending)) = who
  <2>1. Len(pending) \in Nat
    BY <1>1, QueueFacts
  <2>2. {k \in due : k <= Len(pending)} = due
    <3>1. \A k \in due : k \in 1 .. Len(pending)
      OBVIOUS
    <3>2. \A k \in due : k <= Len(pending)
      BY <2>1, <3>1
    <3>3. QED BY <3>2
  <2>3. QED BY <1>4, <2>2 DEF ScoredIn
<1>6. /\ block' = w.block /\ pending' = w.kept /\ forced' = forced \ who
      /\ entries' = [s \in Strategies |->
           IF block[s].state \notin Blocking /\ w.block[s].state \in Blocking
           THEN Append(entries[s], [at |-> ts, manual |-> FALSE]) ELSE entries[s]]
      /\ tally' = [s \in Strategies |-> <<tally[s][1], tally[s][2] + w.scores[s]>>]
  BY <1>2, <1>4 DEF Resolve
<1>7. /\ w.block \in [Strategies -> Blocks]
      /\ \A s \in Strategies :
           /\ BlockSound(w.block[s]) /\ Governs(block[s], w.block[s], ts)
           /\ s \notin who => w.block[s] = block[s]
           /\ s \in who /\ w.block[s].state = "active" => Healthy(w.block[s])
  BY <1>3, <1>5, Zenon DEF WalkOK, WalkedBlocks
<1>8. /\ w.kept \in Seq(Evaluations) /\ DueInOrder(w.kept)
      /\ \A k \in 1 .. Len(w.kept) : ~ w.kept[k].missed
  BY <1>3, Zenon DEF WalkOK, WalkedQueue
<1>9. /\ w.scores \in [Strategies -> Nat]
      /\ \A s \in Strategies : Cardinality(Share(pending, Len(pending), s)) =
           w.scores[s] + Cardinality(Share(w.kept, Len(w.kept), s))
  BY <1>3, Zenon DEF WalkOK, WalkedScores
<1>10. /\ tally' \in [Strategies -> Nat \X Nat]
       /\ \A s \in Strategies : tally'[s][1] = tally[s][1] /\ tally'[s][2] = tally[s][2] + w.scores[s]
  <2>1. \A s \in Strategies : tally[s][1] \in Nat /\ tally[s][2] \in Nat /\ w.scores[s] \in Nat
    BY <1>1, <1>9
  <2>2. QED BY <1>6, <2>1
<1>11. ScoredOnce'
  <2>1. ASSUME NEW s \in Strategies PROVE tally'[s][1] = tally'[s][2] + Waiting(s)'
    <3>1. tally[s][1] = tally[s][2] + Waiting(s) /\ tally[s][1] \in Nat /\ tally[s][2] \in Nat
      BY <1>1 DEF ScoredOnce
    <3>2. Waiting(s) = Cardinality(Share(pending, Len(pending), s))
      BY <1>1, WaitingIs
    <3>3. Waiting(s)' = Cardinality(Share(w.kept, Len(w.kept), s))
      <4>1. DOMAIN w.kept = 1 .. Len(w.kept)
        BY <1>8, LenProperties
      <4>2. QED BY <1>6, <4>1 DEF Waiting, Share
    <3>4. w.scores[s] \in Nat /\ Cardinality(Share(w.kept, Len(w.kept), s)) \in Nat
      <4>1. Len(w.kept) \in Nat
        BY <1>8, LenProperties
      <4>2. QED BY <1>9, <4>1, ShareFinite
    <3>5. PICK a, b : /\ a = Cardinality(Share(pending, Len(pending), s))
                      /\ b = Cardinality(Share(w.kept, Len(w.kept), s))
      OBVIOUS
    <3>6. a = w.scores[s] + b
      BY <1>9, <3>5
    <3>7. tally'[s][1] = tally[s][1] /\ tally'[s][2] = tally[s][2] + w.scores[s]
      BY <1>10
    <3>8. tally[s][1] = tally[s][2] + a /\ b \in Nat
      BY <3>1, <3>2, <3>4, <3>5
    <3>9. tally'[s][1] = tally'[s][2] + b
      <4>1. PICK x, y, z : x = tally[s][1] /\ y = tally[s][2] /\ z = w.scores[s]
        OBVIOUS
      <4>2. x \in Nat /\ y \in Nat /\ z \in Nat /\ b \in Nat
        BY <3>1, <3>4, <3>8, <4>1
      <4>3. x = y + a /\ a = z + b
        BY <3>6, <3>8, <4>1
      <4>4. x = (y + z) + b
        BY <4>2, <4>3
      <4>5. QED BY <3>7, <4>1, <4>4
    <3>10. QED BY <3>3, <3>5, <3>9
  <2>2. QED BY <2>1 DEF ScoredOnce
<1>12. NoneMissed'
  BY <1>6, <1>8 DEF NoneMissed
<1>13. ActiveIsHealthy'
  <2>1. ASSUME NEW s \in Strategies, w.block[s].state = "active", s \notin forced \ who
        PROVE  Healthy(w.block[s])
    <3>1. CASE s \in who
      BY <1>7, <2>1, <3>1
    <3>2. CASE s \notin who
      <4>1. w.block[s] = block[s] /\ s \notin forced
        BY <1>7, <2>1, <3>2
      <4>2. QED BY <1>1, <2>1, <4>1 DEF ActiveIsHealthy, Healthy
    <3>3. QED BY <3>1, <3>2
  <2>2. \A s \in Strategies : block'[s].state = "active" /\ s \notin forced' => Healthy(block'[s])
    BY <1>6, <2>1
  <2>3. QED BY <2>2, Zenon DEF ActiveIsHealthy, Healthy, DrawdownAlarm, SharpeAlarm, CusumAlarm
<1>14. PICK mark : mark = [at |-> ts, manual |-> FALSE]
  OBVIOUS
<1>15. mark \in Marks /\ mark.at = ts /\ mark.manual = FALSE
  BY <1>14 DEF Marks
<1>16. ASSUME NEW s \in Strategies
       PROVE  /\ entries'[s] \in Seq(Marks)
              /\ KeepsTheLast(block'[s].quarantines, entries'[s]) /\ InTime(entries[s])'
              /\ ReleasedByHand(s) /\ DisabledIsDeserved(s)
  <2>1. PICK b, c, e, f : b = block[s] /\ c = w.block[s] /\ e = entries[s] /\ f = entries'[s]
    OBVIOUS
  <2>2. /\ BlockSound(b) /\ Governs(b, c, ts) /\ block'[s] = c
        /\ e \in Seq(Marks) /\ KeepsTheLast(b.quarantines, e) /\ InTime(e)
    BY <1>1, <1>6, <1>7, <2>1
  <2>3. b.quarantines \in Seq(Nat)
    BY <2>2, BlockFields DEF BlockSound
  <2>4. InTime(e)'
    BY <2>2, InTimeLater
  <2>5. CASE b.state \notin Blocking /\ c.state \in Blocking
    <3>1. f = Append(e, mark)
      BY <1>6, <1>14, <2>1, <2>5
    <3>2. f \in Seq(Marks)
      BY <1>15, <2>2, <3>1, AppendProperties
    <3>3. PICK q : q = Append(b.quarantines, ts)
      OBVIOUS
    <3>4. q \in Seq(Nat) /\ KeepsTheLast(q, f)
      <4>1. KeepsTheLast(Append(b.quarantines, mark.at), Append(e, mark))
        BY <1>15, <2>2, <2>3, KeepsOneMore
      <4>2. q \in Seq(Nat)
        BY <2>3, <3>3, AppendProperties
      <4>3. QED BY <1>15, <3>1, <3>3, <4>1, <4>2
    <3>5. c.quarantines = Recent(q, ts) /\ (c.state = "disabled" => Len(c.quarantines) >= MaxQuarantines)
      BY <2>2, <2>5, <3>3 DEF Governs
    <3>6. KeepsTheLast(c.quarantines, f)
      BY <3>2, <3>4, <3>5, KeepsRecent
    <3>7. InTime(Append(e, mark))'
      BY <1>15, <2>2, <2>4, InTimeWithMore
    <3>8. InTime(entries[s])'
      <4>1. PICK g : g = Append(e, mark)
        OBVIOUS
      <4>2. InTime(g)' /\ entries'[s] = g
        BY <2>1, <3>1, <3>7, <4>1
      <4>3. QED BY <4>2 DEF InTime
    <3>9. ReleasedByHand(s)
      BY <2>1, <2>5 DEF ReleasedByHand
    <3>10. ASSUME c.state = "disabled"
           PROVE  LET last == f[Len(f)].at
                  IN  Cardinality({k \in 1 .. Len(f) : f[k].manual \/ last - f[k].at <= Lookback})
                        >= MaxQuarantines
      <4>1. f[Len(f)] = mark
        BY <1>15, <2>2, <3>1, AppendProperties
      <4>2. \A j \in 1 .. Len(f) : ~ f[j].manual => \A k \in 1 .. j : f[k].at <= f[j].at
        <5>1. InTime(f)'
          <6>1. PICK g : g = Append(e, mark)
            OBVIOUS
          <6>2. InTime(g)' /\ f = g
            BY <3>1, <3>7, <6>1
          <6>3. QED BY <6>2 DEF InTime
        <5>2. QED BY <5>1 DEF InTime
      <4>3. Len(Recent(q, ts)) >= MaxQuarantines
        BY <3>5, <3>10
      <4>4. Cardinality({k \in 1 .. Len(f) : f[k].manual \/ ts - f[k].at <= Lookback}) >= MaxQuarantines
        BY <3>2, <3>4, <4>2, <4>3, FullRowIsDeserved
      <4>5. f[Len(f)].at = ts
        BY <1>15, <4>1
      <4>6. QED BY <4>4, <4>5
    <3>11. DisabledIsDeserved(s)
      BY <2>1, <2>2, <3>10, Zenon DEF DisabledIsDeserved
    <3>12. QED BY <2>1, <2>2, <3>2, <3>6, <3>8, <3>9, <3>11
  <2>6. CASE ~ (b.state \notin Blocking /\ c.state \in Blocking)
    <3>1. f = e
      BY <1>6, <2>1, <2>6
    <3>2. c.quarantines = b.quarantines
      BY <2>2, <2>6 DEF Governs
    <3>3. b.state \in Blocking => c.state = b.state
      BY <2>2 DEF Governs
    <3>4. InTime(entries[s])'
      BY <2>1, <2>4, <3>1 DEF InTime
    <3>5. ReleasedByHand(s)
      BY <2>1, <2>2, <3>3 DEF ReleasedByHand
    <3>6. DisabledIsDeserved(s)
      <4>1. c.state = "disabled" => b.state = "disabled"
        BY <2>6, <3>3 DEF Blocking
      <4>2. QED BY <2>1, <2>2, <4>1 DEF DisabledIsDeserved
    <3>7. QED BY <2>1, <2>2, <3>1, <3>2, <3>4, <3>5, <3>6
  <2>7. QED BY <2>5, <2>6
<1>17. entries' \in [Strategies -> Seq(Marks)]
  BY <1>6, <1>16
<1>18. DueInOrder(pending)' /\ \A s \in Strategies : BlockSound(block[s])'
  BY <1>6, <1>7, <1>8 DEF DueInOrder, BlockSound
<1>19. forced' \subseteq Strategies
  BY <1>1, <1>6
<1>20. \A s \in Strategies : KeepsTheLast(block[s].quarantines, entries[s])' /\ InTime(entries[s])'
  BY <1>16
<1>21. block' \in [Strategies -> Blocks] /\ pending' \in Seq(Evaluations)
  BY <1>6, <1>7, <1>8
<1>22. RegistrySound'
  BY <1>10, <1>11, <1>12, <1>13, <1>17, <1>18, <1>19, <1>20, <1>21, Zenon DEF RegistrySound
<1>23. QED BY <1>16, <1>22 DEF RegistryStep

\* An operator sets the state of a strategy.
LEMMA Forces ==
    ASSUME RegistrySound, NEW s \in Strategies, NEW to \in States, ForceState(s, to),
           now \in Nat, now' = now
    PROVE  RegistryStep
<1>1. /\ block \in [Strategies -> Blocks] /\ \A r \in Strategies : BlockSound(block[r])
      /\ pending \in Seq(Evaluations) /\ DueInOrder(pending)
      /\ forced \subseteq Strategies /\ entries \in [Strategies -> Seq(Marks)]
      /\ tally \in [Strategies -> Nat \X Nat]
      /\ ScoredOnce /\ NoneMissed /\ ActiveIsHealthy
      /\ \A r \in Strategies : KeepsTheLast(block[r].quarantines, entries[r]) /\ InTime(entries[r])
  BY Zenon DEF RegistrySound
<1>2. PICK b, c, e : b = block[s] /\ c = Transition(b, to, 0) /\ e = entries[s]
  OBVIOUS
<1>3. PICK mark : mark = [at |-> 0, manual |-> TRUE]
  OBVIOUS
<1>4. mark \in Marks /\ mark.at = 0 /\ mark.manual = TRUE
  BY <1>3 DEF Marks
<1>5. /\ block' = [block EXCEPT ![s] = c] /\ forced' = forced \cup {s}
      /\ entries' = [entries EXCEPT ![s] =
           IF to = "quarantined" /\ b.state # to THEN Append(e, mark) ELSE e]
      /\ pending' = pending /\ tally' = tally
  BY <1>2, <1>3 DEF ForceState
<1>6. BlockSound(b) /\ b \in Blocks /\ b.quarantines \in Seq(Nat) /\ e \in Seq(Marks)
      /\ KeepsTheLast(b.quarantines, e) /\ InTime(e)'
  <2>1. BlockSound(b) /\ e \in Seq(Marks) /\ KeepsTheLast(b.quarantines, e) /\ InTime(e)
    BY <1>1, <1>2
  <2>2. b \in Blocks /\ b.quarantines \in Seq(Nat)
    BY <2>1, BlockFields DEF BlockSound
  <2>3. InTime(e)'
    BY <2>1, InTimeLater
  <2>4. QED BY <2>1, <2>2, <2>3
<1>7. PICK f : f = entries'[s]
  OBVIOUS
<1>8. BlockSound(c) /\ f \in Seq(Marks) /\ KeepsTheLast(c.quarantines, f) /\ InTime(f)'
  <2>1. CASE b.state = to
    <3>1. c = b
      BY <1>2, <2>1 DEF Transition
    <3>2. f = e
      BY <1>1, <1>5, <1>7, <2>1
    <3>3. QED BY <1>6, <3>1, <3>2 DEF InTime
  <2>2. CASE b.state # to /\ to # "quarantined"
    <3>1. c = Moved(b, to)
      BY <1>2, <2>2 DEF Transition
    <3>2. BlockSound(c) /\ c.quarantines = b.quarantines
      BY <1>6, <3>1, MovedIs
    <3>3. f = e
      BY <1>1, <1>5, <1>7, <2>2
    <3>4. QED BY <1>6, <3>2, <3>3 DEF InTime
  <2>3. CASE b.state # to /\ to = "quarantined"
    <3>1. PICK q : q = Append(b.quarantines, 0)
      OBVIOUS
    <3>2. BlockSound(c) /\ c.quarantines = Recent(q, 0)
      <4>1. c = Transition(b, "quarantined", 0) /\ b.state # "quarantined"
        BY <1>2, <2>3
      <4>2. QED BY <1>6, <3>1, <4>1, Quarantines
    <3>3. f = Append(e, mark)
      BY <1>1, <1>5, <1>7, <2>3
    <3>4. f \in Seq(Marks)
      BY <1>4, <1>6, <3>3, AppendProperties
    <3>5. q \in Seq(Nat) /\ KeepsTheLast(q, f)
      <4>1. KeepsTheLast(Append(b.quarantines, mark.at), Append(e, mark))
        BY <1>4, <1>6, KeepsOneMore
      <4>2. q \in Seq(Nat)
        BY <1>6, <3>1, AppendProperties
      <4>3. QED BY <1>4, <3>1, <3>3, <4>1, <4>2
    <3>6. KeepsTheLast(c.quarantines, f)
      BY <3>2, <3>4, <3>5, KeepsRecent
    <3>7. InTime(f)'
      <4>1. PICK g : g = Append(e, mark)
        OBVIOUS
      <4>2. InTime(Append(e, mark))'
        BY <1>4, <1>6, InTimeWithMore
      <4>3. InTime(g)' /\ f = g
        BY <3>3, <4>1, <4>2
      <4>4. QED BY <4>3 DEF InTime
    <3>8. QED BY <3>2, <3>4, <3>6, <3>7
  <2>4. QED BY <2>1, <2>2, <2>3
<1>9. c \in Blocks
  BY <1>8 DEF BlockSound
<1>10. /\ block' \in [Strategies -> Blocks] /\ block'[s] = c
       /\ \A r \in Strategies : r # s => block'[r] = block[r]
  BY <1>1, <1>5, <1>9
<1>11. entries' \in [Strategies -> Seq(Marks)] /\ \A r \in Strategies : r # s => entries'[r] = entries[r]
  BY <1>1, <1>5, <1>7, <1>8
<1>12. \A r \in Strategies : BlockSound(block[r])'
  <2>1. \A r \in Strategies : BlockSound(block'[r])
    BY <1>1, <1>8, <1>10
  <2>2. QED BY <2>1 DEF BlockSound
<1>13. \A r \in Strategies : KeepsTheLast(block[r].quarantines, entries[r])' /\ InTime(entries[r])'
  <2>1. TAKE r \in Strategies
  <2>2. CASE r = s
    <3>1. KeepsTheLast(block[r].quarantines, entries[r])'
      BY <1>7, <1>8, <1>10, <2>2
    <3>2. InTime(entries[r])'
      BY <1>7, <1>8, <2>2 DEF InTime
    <3>3. QED BY <3>1, <3>2
  <2>3. CASE r # s
    <3>1. KeepsTheLast(block[r].quarantines, entries[r]) /\ InTime(entries[r])
      BY <1>1
    <3>2. KeepsTheLast(block[r].quarantines, entries[r])'
      BY <1>10, <1>11, <2>3, <3>1
    <3>3. InTime(entries[r])'
      BY <1>11, <2>3, <3>1 DEF InTime
    <3>4. QED BY <3>2, <3>3
  <2>4. QED BY <2>2, <2>3
<1>14. ActiveIsHealthy'
  <2>1. \A r \in Strategies : block'[r].state = "active" /\ r \notin forced' => Healthy(block'[r])
    BY <1>1, <1>5, <1>10 DEF ActiveIsHealthy, Healthy
  <2>2. QED BY <2>1, Zenon DEF ActiveIsHealthy, Healthy, DrawdownAlarm, SharpeAlarm, CusumAlarm
<1>15. DueInOrder(pending)' /\ ScoredOnce' /\ NoneMissed'
  BY <1>1, <1>5 DEF DueInOrder, ScoredOnce, Waiting, NoneMissed
<1>16. forced' \subseteq Strategies /\ tally' \in [Strategies -> Nat \X Nat] /\ pending' \in Seq(Evaluations)
  BY <1>1, <1>5
<1>17. RegistrySound'
  BY <1>10, <1>11, <1>12, <1>13, <1>14, <1>15, <1>16, Zenon DEF RegistrySound
<1>18. \A r \in Strategies : ReleasedByHand(r) /\ DisabledIsDeserved(r)
  BY <1>5, <1>10 DEF ReleasedByHand, DisabledIsDeserved
<1>19. QED BY <1>17, <1>18 DEF RegistryStep

\* A strategy is registered with a baseline.
LEMMA Registers ==
    ASSUME RegistrySound, NEW s \in Strategies, RegisterStrategy(s), now' = now
    PROVE  RegistryStep
<1>1. /\ block \in [Strategies -> Blocks] /\ \A r \in Strategies : BlockSound(block[r])
      /\ pending \in Seq(Evaluations) /\ DueInOrder(pending)
      /\ forced \subseteq Strategies /\ entries \in [Strategies -> Seq(Marks)]
      /\ tally \in [Strategies -> Nat \X Nat]
      /\ ScoredOnce /\ NoneMissed /\ ActiveIsHealthy
      /\ \A r \in Strategies : KeepsTheLast(block[r].quarantines, entries[r]) /\ InTime(entries[r])
  BY Zenon DEF RegistrySound
<1>2. PICK b : b = block[s]
  OBVIOUS
<1>3. PICK c : c = [b EXCEPT !.baseline = TRUE]
  OBVIOUS
<1>4. /\ block' = [block EXCEPT ![s] = c] /\ forced' = forced \cup {s}
      /\ entries' = entries /\ pending' = pending /\ tally' = tally
  BY <1>2, <1>3 DEF RegisterStrategy
<1>5. BlockSound(b) /\ b \in Blocks
  BY <1>1, <1>2 DEF BlockSound
<1>6. /\ c \in Blocks /\ c.state = b.state /\ c.quarantines = b.quarantines /\ c.clean = b.clean
      /\ c.realized = b.realized /\ c.diff = b.diff /\ c.pnl = b.pnl /\ c.peak = b.peak
  BY <1>3, <1>5 DEF Blocks
<1>7. BlockSound(c)
  BY <1>5, <1>6 DEF BlockSound
<1>8. /\ block' \in [Strategies -> Blocks] /\ block'[s] = c
      /\ \A r \in Strategies : r # s => block'[r] = block[r]
  BY <1>1, <1>4, <1>6
<1>9. \A r \in Strategies : BlockSound(block[r])'
  <2>1. \A r \in Strategies : BlockSound(block'[r])
    BY <1>1, <1>7, <1>8
  <2>2. QED BY <2>1 DEF BlockSound
<1>10. \A r \in Strategies : block'[r].quarantines = block[r].quarantines /\ block'[r].state = block[r].state
  BY <1>2, <1>6, <1>8
<1>11. \A r \in Strategies : KeepsTheLast(block[r].quarantines, entries[r])' /\ InTime(entries[r])'
  <2>1. TAKE r \in Strategies
  <2>2. KeepsTheLast(block[r].quarantines, entries[r]) /\ InTime(entries[r])
    BY <1>1
  <2>3. KeepsTheLast(block[r].quarantines, entries[r])'
    BY <1>4, <1>10, <2>2
  <2>4. InTime(entries[r])'
    BY <1>4, <2>2 DEF InTime
  <2>5. QED BY <2>3, <2>4
<1>12. ActiveIsHealthy'
  <2>1. \A r \in Strategies : block'[r].state = "active" /\ r \notin forced' => Healthy(block'[r])
    BY <1>1, <1>4, <1>8 DEF ActiveIsHealthy, Healthy
  <2>2. QED BY <2>1, Zenon DEF ActiveIsHealthy, Healthy, DrawdownAlarm, SharpeAlarm, CusumAlarm
<1>13. DueInOrder(pending)' /\ ScoredOnce' /\ NoneMissed'
  BY <1>1, <1>4 DEF DueInOrder, ScoredOnce, Waiting, NoneMissed
<1>14. /\ forced' \subseteq Strategies /\ tally' \in [Strategies -> Nat \X Nat]
       /\ pending' \in Seq(Evaluations) /\ entries' \in [Strategies -> Seq(Marks)]
  BY <1>1, <1>4
<1>15. RegistrySound'
  BY <1>8, <1>9, <1>11, <1>12, <1>13, <1>14, Zenon DEF RegistrySound
<1>16. \A r \in Strategies : ReleasedByHand(r) /\ DisabledIsDeserved(r)
  BY <1>10 DEF ReleasedByHand, DisabledIsDeserved
<1>17. QED BY <1>15, <1>16 DEF RegistryStep

\* The registry is not called.
LEMMA RegistryRests ==
    ASSUME RegistrySound, UNCHANGED registryVars, now \in Nat, now' = now
    PROVE  RegistryStep
<1>1. /\ block \in [Strategies -> Blocks] /\ \A r \in Strategies : BlockSound(block[r])
      /\ pending \in Seq(Evaluations) /\ DueInOrder(pending)
      /\ forced \subseteq Strategies /\ entries \in [Strategies -> Seq(Marks)]
      /\ tally \in [Strategies -> Nat \X Nat]
      /\ ScoredOnce /\ NoneMissed /\ ActiveIsHealthy
      /\ \A r \in Strategies : KeepsTheLast(block[r].quarantines, entries[r]) /\ InTime(entries[r])
  BY Zenon DEF RegistrySound
<1>2. block' = block /\ pending' = pending /\ forced' = forced /\ entries' = entries /\ tally' = tally
  BY DEF registryVars
<1>3. ScoredOnce' /\ NoneMissed' /\ DueInOrder(pending)'
  BY <1>1, <1>2 DEF DueInOrder, ScoredOnce, Waiting, NoneMissed
<1>4. ActiveIsHealthy'
  BY <1>1, <1>2 DEF ActiveIsHealthy, DrawdownAlarm, SharpeAlarm, CusumAlarm
<1>5. \A r \in Strategies : BlockSound(block[r])'
  BY <1>1, <1>2 DEF BlockSound
<1>6. \A r \in Strategies : KeepsTheLast(block[r].quarantines, entries[r])'
  BY <1>1, <1>2
<1>7. \A r \in Strategies : InTime(entries[r])'
  BY <1>1, <1>2 DEF InTime
<1>8. RegistrySound'
  BY <1>1, <1>2, <1>3, <1>4, <1>5, <1>6, <1>7, Zenon DEF RegistrySound
<1>9. \A r \in Strategies : ReleasedByHand(r) /\ DisabledIsDeserved(r)
  BY <1>2 DEF ReleasedByHand, DisabledIsDeserved
<1>10. QED BY <1>8, <1>9 DEF RegistryStep

-----------------------------------------------------------------------------
(* The gate                                                                *)

LEMMA VerdictIs ==
    ASSUME NEW i, NEW regime, NEW state
    PROVE  /\ Verdict(i, regime, state) \in Reasons \cup {"none"}
           /\ Verdict(i, regime, state) = "none" <=>
                /\ InputsValid(i) /\ regime \in DOMAIN Threshold /\ state \notin Blocking
                /\ regime \in AllowedRegimes /\ ~ (i.confidence < MinConfidence)
                /\ ~ (NetEv(i) < Unit * Threshold[regime])
BY DEF Verdict, Reasons

LEMMA InputFields ==
    ASSUME NEW i \in EvInputs
    PROVE  /\ i.pWin \in Int /\ i.avgWin \in Int /\ i.avgLoss \in Int /\ i.confidence \in Int
           /\ i.notional \in Int /\ i.costs \in Costing
           /\ i.costs.fee \in Int /\ i.costs.halfSpread \in Int /\ i.costs.slippage \in Int
           /\ i.costs.impact \in Int /\ i.costs.funding \in Int /\ i.costs.hours \in Int
BY DEF EvInputs, Costing

LEMMA EvIs ==
    ASSUME NEW i \in EvInputs
    PROVE  GrossEv(i) \in Int /\ TotalCost(i.costs) \in Int /\ NetEv(i) \in Int
<1>1. PICK g : g = GrossEv(i)
  OBVIOUS
<1>2. g \in Int
  <2>1. PICK p, l, a, b : p = i.pWin /\ l = Unit - p /\ a = i.avgWin /\ b = i.avgLoss
    OBVIOUS
  <2>2. p \in Int /\ l \in Int /\ a \in Int /\ b \in Int
    BY <2>1, InputFields, SignalConstants
  <2>3. p * a \in Int /\ l * b \in Int
    BY <2>2
  <2>4. g = p * a + l * b
    BY <1>1, <2>1 DEF GrossEv
  <2>5. QED BY <2>3, <2>4
<1>3. PICK c : c = TotalCost(i.costs)
  OBVIOUS
<1>4. c \in Int
  <2>1. PICK f, h : f = i.costs.funding /\ h = i.costs.hours
    OBVIOUS
  <2>2. f \in Int /\ h \in Int
    BY <2>1, InputFields
  <2>3. f * h \in Int
    BY <2>2
  <2>4. c = 2 * i.costs.fee + 2 * i.costs.halfSpread + i.costs.slippage + i.costs.impact + f * h
    BY <1>3, <2>1 DEF TotalCost
  <2>5. QED BY <2>3, <2>4, InputFields
<1>5. PICK u : u = Unit * c
  OBVIOUS
<1>6. u \in Int
  BY <1>4, <1>5, SignalConstants
<1>7. NetEv(i) = g - u
  BY <1>1, <1>3, <1>5 DEF NetEv
<1>8. QED BY <1>1, <1>2, <1>3, <1>4, <1>6, <1>7

\* The inputs of a candidate that is likelier to win, and cheaper.
Bettered(i, p, fee) == [i EXCEPT !.pWin = p, !.costs.fee = fee]

\* More likely to win and cheaper is worth no less.
LEMMA BetterIsWorthMore ==
    ASSUME NEW i \in EvInputs, InputsValid(i), NEW p \in i.pWin .. Unit, NEW fee \in 0 .. i.costs.fee,
           NEW j, j = Bettered(i, p, fee)
    PROVE  InputsValid(j) /\ j.confidence = i.confidence /\ NetEv(i) <= NetEv(j)
<1>1. /\ i.pWin \in 0 .. Unit /\ i.confidence \in 0 .. Unit /\ i.avgWin >= 0 /\ i.avgLoss <= 0
      /\ i.notional > 0 /\ \A f \in DOMAIN i.costs : i.costs[f] >= 0
  BY DEF InputsValid
<1>2. p \in Int /\ fee \in Int /\ i.pWin <= p /\ fee <= i.costs.fee /\ 0 <= fee /\ p \in 0 .. Unit
  BY <1>1, InputFields, SignalConstants
<1>3. PICK c : c = [i.costs EXCEPT !.fee = fee]
  OBVIOUS
<1>4. j = [i EXCEPT !.pWin = p, !.costs = c]
  BY <1>3 DEF EvInputs, Bettered
<1>5. /\ j.pWin = p /\ j.avgWin = i.avgWin /\ j.avgLoss = i.avgLoss /\ j.confidence = i.confidence
      /\ j.notional = i.notional /\ j.costs = c /\ j \in EvInputs
  <2>1. c \in Costing
    BY <1>2, <1>3, InputFields DEF Costing
  <2>2. QED BY <1>2, <1>4, <2>1 DEF EvInputs
<1>6. /\ c.fee = fee /\ c.halfSpread = i.costs.halfSpread /\ c.slippage = i.costs.slippage
      /\ c.impact = i.costs.impact /\ c.funding = i.costs.funding /\ c.hours = i.costs.hours
  <2>1. i.costs \in Costing
    BY InputFields
  <2>2. QED BY <1>3, <2>1 DEF Costing
<1>7. InputsValid(j)
  <2>1. \A f \in DOMAIN c : c[f] >= 0
    <3>1. DOMAIN c = DOMAIN i.costs /\ \A f \in DOMAIN c : c[f] = fee \/ c[f] = i.costs[f]
      BY <1>3
    <3>2. QED BY <1>1, <1>2, <3>1
  <2>2. QED BY <1>1, <1>2, <1>5, <2>1 DEF InputsValid
<1>8. GrossEv(i) <= GrossEv(j)
  <2>1. PICK q, a, b, k : q = i.pWin /\ a = i.avgWin /\ b = i.avgLoss /\ k = Unit
    OBVIOUS
  <2>2. q \in Int /\ a \in Int /\ b \in Int /\ k \in Int /\ q <= p /\ a >= 0 /\ b <= 0
    BY <1>1, <1>2, <2>1, InputFields, SignalConstants
  <2>3. PICK x, y : x = GrossEv(i) /\ y = GrossEv(j)
    OBVIOUS
  <2>4. x = q * a + (k - q) * b /\ y = p * a + (k - p) * b
    BY <1>5, <2>1, <2>3 DEF GrossEv
  <2>5. PICK d, e : d = p - q /\ e = a - b
    OBVIOUS
  <2>6. d \in Nat /\ e \in Nat
    BY <1>2, <2>2, <2>5
  <2>7. d * e \in Nat
    BY <2>6
  <2>8. y = x + d * e
    BY <1>2, <2>2, <2>4, <2>5
  <2>9. x \in Int /\ y \in Int
    BY <1>5, <2>3, EvIs
  <2>10. x <= y
    <3>1. PICK m : m = d * e
      OBVIOUS
    <3>2. QED BY <2>7, <2>8, <2>9, <3>1
  <2>11. QED BY <2>3, <2>10
<1>9. TotalCost(j.costs) <= TotalCost(i.costs)
  <2>1. PICK f, h, m : f = i.costs.funding /\ h = i.costs.hours /\ m = f * h
    OBVIOUS
  <2>2. f \in Int /\ h \in Int
    BY <2>1, InputFields
  <2>3. m \in Int
    BY <2>1, <2>2
  <2>4. TotalCost(i.costs) = 2 * i.costs.fee + 2 * i.costs.halfSpread + i.costs.slippage + i.costs.impact + m
    BY <2>1 DEF TotalCost
  <2>5. TotalCost(j.costs) = 2 * fee + 2 * i.costs.halfSpread + i.costs.slippage + i.costs.impact + m
    BY <1>5, <1>6, <2>1 DEF TotalCost
  <2>6. QED BY <1>2, <2>3, <2>4, <2>5, InputFields
<1>10. NetEv(i) <= NetEv(j)
  <2>1. PICK g, h, c1, c2, d : /\ g = GrossEv(i) /\ h = GrossEv(j) /\ c1 = TotalCost(i.costs)
                               /\ c2 = TotalCost(j.costs) /\ d = c1 - c2
    OBVIOUS
  <2>2. g \in Int /\ h \in Int /\ c1 \in Int /\ c2 \in Int /\ g <= h /\ c2 <= c1
    BY <1>5, <1>8, <1>9, <2>1, EvIs
  <2>3. d \in Nat
    BY <2>1, <2>2
  <2>4. PICK u : u = Unit
    OBVIOUS
  <2>5. u \in Nat /\ u * d \in Nat
    BY <2>3, <2>4, SignalConstants
  <2>6. NetEv(i) = g - u * c1 /\ NetEv(j) = h - u * c2
    BY <2>1, <2>4 DEF NetEv
  <2>7. u * c1 - u * c2 = u * d
    BY <2>1, <2>2, <2>5
  <2>8. PICK m1, m2, m : m1 = u * c1 /\ m2 = u * c2 /\ m = u * d
    OBVIOUS
  <2>9. m1 \in Int /\ m2 \in Int /\ m \in Nat /\ m1 - m2 = m
    <3>1. m1 \in Int
      BY <2>2, <2>5, <2>8
    <3>2. m2 \in Int
      BY <2>2, <2>5, <2>8
    <3>3. QED BY <2>5, <2>7, <2>8, <3>1, <3>2
  <2>10. NetEv(i) = g - m1 /\ NetEv(j) = h - m2
    BY <2>6, <2>8
  <2>11. QED BY <2>2, <2>9, <2>10
<1>11. QED BY <1>5, <1>7, <1>10

-----------------------------------------------------------------------------
(* The calls of process                                                    *)

InCall == {t \in Threads : thread[t] # InNoCall}

\* A step of the engine that keeps what holds of it.
EngineStep == EngineSound' /\ RegistryStep

Answered == [pc : {"submit", "record", "count"}, cand : Candidates, at : Nat,
             reason : Reasons \cup {"none"}, accepted : BOOLEAN, fills : Seq(Fills)]

LEMMA CallFacts ==
    ASSUME NEW c \in Calls
    PROVE  /\ c.pc \in {"idle", "gate", "submit", "record", "count"}
           /\ c.pc = "idle" <=> c = InNoCall
           /\ c.pc # "idle" => c.cand \in Candidates /\ c.at \in Nat
           /\ c.pc \in {"submit", "record", "count"} => c \in Answered
<1>1. CASE c \in [pc : {"idle"}]
  BY <1>1 DEF InNoCall
<1>2. CASE c \in [pc : {"gate"}, cand : Candidates, at : Nat]
  BY <1>2 DEF InNoCall
<1>3. CASE c \in Answered
  BY <1>3 DEF InNoCall, Answered
<1>4. QED BY <1>1, <1>2, <1>3 DEF Calls, Answered

LEMMA AnsweredFacts ==
    ASSUME NEW c \in Answered
    PROVE  /\ c \in Calls /\ c.pc \in {"submit", "record", "count"}
           /\ c.cand \in Candidates /\ c.at \in Nat /\ c.reason \in Reasons \cup {"none"}
           /\ c.accepted \in BOOLEAN /\ c.fills \in Seq(Fills)
           /\ c # InNoCall
BY DEF Answered, Calls, InNoCall

LEMMA CandidateFacts ==
    ASSUME NEW c \in Candidates
    PROVE  c.strategy \in Strategies /\ c.symbol \in Symbols /\ c.side \in Sides /\ c.inputs \in EvInputs
BY EngineAssumption

LEMMA InCallIsFinite == IsFiniteSet(InCall) /\ Cardinality(InCall) \in Nat
<1>1. InCall \in SUBSET Threads
  BY DEF InCall
<1>2. IsFiniteSet(InCall)
  BY <1>1, SignalConstants, FS_Subset
<1>3. QED BY <1>2, FS_CardinalityType

\* One thread's call goes on to n, and nothing of the registry changes that a thread
\* past the gate depends on.
LEMMA OneCallMoves ==
    ASSUME EngineSound, NEW t \in Threads, NEW n \in Calls, CallSound(n),
           thread' = [thread EXCEPT ![t] = n], UNCHANGED <<block, passed>>,
           n.pc = "submit" => block[n.cand.strategy].state \notin Blocking
    PROVE  /\ thread' \in [Threads -> Calls] /\ \A u \in Threads : CallSound(thread'[u])
           /\ BlockedSendsNoMore'
           /\ InCall' = IF n = InNoCall THEN InCall \ {t} ELSE InCall \cup {t}
<1>1. thread \in [Threads -> Calls] /\ \A u \in Threads : CallSound(thread[u])
  BY DEF EngineSound
<1>2. thread'[t] = n /\ \A u \in Threads \ {t} : thread'[u] = thread[u]
  BY <1>1
<1>3. thread' \in [Threads -> Calls]
  BY <1>1
<1>4. \A u \in Threads : CallSound(thread'[u])
  BY <1>1, <1>2
<1>5. BlockedSendsNoMore'
  <2> SUFFICES ASSUME NEW s \in Strategies, block'[s].state \in Blocking, NEW u \in PastGate(s)'
               PROVE  u \in passed'[s]
    BY DEF BlockedSendsNoMore
  <2>1. u \in Threads /\ thread'[u].pc = "submit" /\ thread'[u].cand.strategy = s
    BY DEF PastGate
  <2>2. u # t
    BY <1>2, <2>1
  <2>3. u \in PastGate(s)
    BY <1>2, <2>1, <2>2 DEF PastGate
  <2>4. QED BY <2>3 DEF EngineSound, BlockedSendsNoMore
<1>6. InCall' = IF n = InNoCall THEN InCall \ {t} ELSE InCall \cup {t}
  <2>1. \A u : u \in InCall' <=> u \in Threads /\ thread'[u] # InNoCall
    BY DEF InCall
  <2>2. \A u : u \in InCall <=> u \in Threads /\ thread[u] # InNoCall
    BY DEF InCall
  <2>3. CASE n = InNoCall
    <3>1. \A u : u \in InCall' <=> u \in InCall \ {t}
      BY <1>2, <2>1, <2>2, <2>3
    <3>2. QED BY <2>3, <3>1
  <2>4. CASE n # InNoCall
    <3>1. \A u : u \in InCall' <=> u \in InCall \cup {t}
      BY <1>2, <2>1, <2>2, <2>4
    <3>2. QED BY <2>4, <3>1
  <2>5. QED BY <2>3, <2>4
<1>7. QED BY <1>3, <1>4, <1>5, <1>6

\* The call stays in process, and what is counted stays the same.
LEMMA OneCallGoesOn ==
    ASSUME EngineSound, NEW t \in Threads, NEW n \in Calls, CallSound(n),
           thread' = [thread EXCEPT ![t] = n], UNCHANGED <<block, now, stats, budget, passed>>,
           n.pc = "submit" => block[n.cand.strategy].state \notin Blocking,
           n # InNoCall, thread[t] # InNoCall
    PROVE  EngineSound'
<1>1. /\ thread' \in [Threads -> Calls] /\ \A u \in Threads : CallSound(thread'[u])
      /\ BlockedSendsNoMore' /\ InCall' = InCall \cup {t}
  BY OneCallMoves
<1>2. InCall' = InCall
  BY <1>1 DEF InCall
<1>3. SignalsAccounted'
  BY <1>2 DEF EngineSound, SignalsAccounted, InCall
<1>4. /\ now' \in Nat /\ stats' \in Statistics /\ budget' \in Budgets
      /\ budget'.candidates <= MaxCandidates
      /\ passed' \in [Strategies -> SUBSET Threads]
  BY DEF EngineSound
<1>5. QED BY <1>1, <1>3, <1>4 DEF EngineSound

LEMMA BeginsSoundly ==
    ASSUME SignalIInv, NEW t \in Threads, Begin(t)
    PROVE  EngineStep
<1>1. PICK c \in Candidates : Process(t, c)
  BY DEF Begin
<1>2. PICK n : n = [pc |-> "gate", cand |-> c, at |-> now]
  OBVIOUS
<1>3. /\ thread[t] = InNoCall /\ budget.candidates < MaxCandidates
      /\ thread' = [thread EXCEPT ![t] = n]
      /\ budget' = [budget EXCEPT !.candidates = @ + 1]
      /\ UNCHANGED <<registryVars, now, stats, passed>>
  BY <1>1, <1>2 DEF Process
<1>4. /\ thread \in [Threads -> Calls] /\ now \in Nat /\ stats \in Statistics /\ budget \in Budgets
      /\ passed \in [Strategies -> SUBSET Threads]
  BY DEF SignalIInv, EngineSound
<1>5. n \in Calls /\ CallSound(n) /\ n # InNoCall /\ n.pc = "gate"
  BY <1>2, <1>4 DEF Calls, CallSound, InNoCall
<1>6. block' = block
  BY <1>3 DEF registryVars
<1>7. /\ thread' \in [Threads -> Calls] /\ \A u \in Threads : CallSound(thread'[u])
      /\ BlockedSendsNoMore' /\ InCall' = InCall \cup {t}
  BY <1>3, <1>5, <1>6, OneCallMoves DEF SignalIInv
<1>8. budget' \in Budgets /\ budget'.candidates = budget.candidates + 1 /\ budget.candidates \in Nat
  BY <1>3, <1>4 DEF Budgets
<1>9. SignalsAccounted'
  <2>1. PICK k : k = Cardinality(InCall)
    OBVIOUS
  <2>2. PICK m : m = Cardinality(InCall')
    OBVIOUS
  <2>3. t \notin InCall
    BY <1>3 DEF InCall
  <2>4. m = k + 1 /\ k \in Nat
    BY <1>7, <2>1, <2>2, <2>3, InCallIsFinite, FS_AddElement
  <2>5. /\ stats.candidates + k = budget.candidates
        /\ stats.candidates = stats.gateAccepted + stats.rejects
        /\ stats.accepted <= stats.submitted /\ stats.submitted = stats.gateAccepted
    BY <2>1 DEF SignalIInv, EngineSound, SignalsAccounted, InCall
  <2>6. stats.candidates \in Nat
    BY <1>4 DEF Statistics
  <2>7. stats' = stats /\ stats.candidates + m = budget'.candidates
    BY <1>3, <1>8, <2>4, <2>5, <2>6
  <2>8. QED BY <2>2, <2>5, <2>7 DEF SignalsAccounted, InCall
<1>10. budget'.candidates <= MaxCandidates
  BY <1>3, <1>8, SignalConstants
<1>11. now' \in Nat /\ stats' \in Statistics /\ passed' \in [Strategies -> SUBSET Threads]
  BY <1>3, <1>4
<1>12. EngineSound'
  BY <1>7, <1>8, <1>9, <1>10, <1>11 DEF EngineSound
<1>13. RegistryStep
  BY <1>3, <1>4, RegistryRests DEF SignalIInv
<1>14. QED BY <1>12, <1>13 DEF EngineStep

LEMMA GatesSoundly ==
    ASSUME SignalIInv, NEW t \in Threads, Gate(t)
    PROVE  EngineStep
<1>1. PICK o, c : o = thread[t] /\ c = o.cand
  OBVIOUS
<1>2. PICK reason : reason = Verdict(c.inputs, c.regime, block[c.strategy].state)
  OBVIOUS
<1>3. PICK n : n = [pc |-> IF reason = "none" THEN "submit" ELSE "count", cand |-> c, at |-> o.at,
                    reason |-> reason, accepted |-> FALSE, fills |-> <<>>]
  OBVIOUS
<1>4. o.pc = "gate" /\ UNCHANGED <<registryVars, now, stats, budget, passed>>
  BY <1>1 DEF Gate
<1>5. /\ thread \in [Threads -> Calls] /\ now \in Nat /\ o \in Calls /\ EngineSound /\ RegistrySound
  BY <1>1 DEF SignalIInv, EngineSound
<1>6. thread' = [thread EXCEPT ![t] = n]
  BY <1>1, <1>2, <1>3, <1>5 DEF Gate
<1>7. c \in Candidates /\ o.at \in Nat /\ o # InNoCall
  BY <1>1, <1>4, <1>5, CallFacts
<1>8. /\ reason \in Reasons \cup {"none"}
      /\ reason = "none" => /\ Verdict(c.inputs, c.regime, "active") = "none"
                            /\ block[c.strategy].state \notin Blocking
  <2>1. "active" \notin Blocking
    BY DEF Blocking
  <2>2. QED BY <1>2, <2>1, VerdictIs, Zenon
<1>9. n \in Answered
  <2>1. <<>> \in Seq(Fills)
    BY EmptySeq
  <2>2. QED BY <1>3, <1>7, <1>8, <2>1 DEF Answered
<1>10. CallSound(n)
  BY <1>3, <1>8 DEF CallSound
<1>11. n \in Calls /\ n # InNoCall
  BY <1>9, AnsweredFacts
<1>12. n.pc = "submit" => block[n.cand.strategy].state \notin Blocking
  BY <1>3, <1>8
<1>13. UNCHANGED <<block, now, stats, budget, passed>>
  BY <1>4 DEF registryVars
<1>14. EngineSound'
  BY <1>1, <1>5, <1>6, <1>7, <1>10, <1>11, <1>12, <1>13, OneCallGoesOn
<1>15. RegistryStep
  BY <1>4, <1>5, RegistryRests
<1>16. QED BY <1>14, <1>15 DEF EngineStep

LEMMA SubmitsSoundly ==
    ASSUME SignalIInv, NEW t \in Threads, Submit(t)
    PROVE  EngineStep
<1>1. PICK o : o = thread[t]
  OBVIOUS
<1>2. /\ thread \in [Threads -> Calls] /\ now \in Nat /\ o \in Calls /\ EngineSound /\ RegistrySound
      /\ CallSound(o)
  BY <1>1 DEF SignalIInv, EngineSound
<1>3. o.pc = "submit" /\ UNCHANGED <<registryVars, now, stats, budget, passed>>
  BY <1>1 DEF Submit
<1>4. PICK a \in Answers :
        thread' = [thread EXCEPT ![t] = [@ EXCEPT !.accepted = a.accepted, !.fills = a.fills,
                                                  !.pc = IF a.fills # <<>> THEN "record" ELSE "count"]]
  BY DEF Submit
<1>5. PICK n : n = [o EXCEPT !.accepted = a.accepted, !.fills = a.fills,
                             !.pc = IF a.fills # <<>> THEN "record" ELSE "count"]
  OBVIOUS
<1>6. thread' = [thread EXCEPT ![t] = n]
  BY <1>1, <1>2, <1>4, <1>5
<1>7. o \in Answered /\ o.reason = "none"
  BY <1>2, <1>3, CallFacts DEF CallSound
<1>8. a.accepted \in BOOLEAN /\ a.fills \in Seq(Fills)
  BY EngineAssumption
<1>9. /\ n \in Answered /\ n.reason = "none" /\ n.pc \in {"record", "count"}
      /\ n.pc = "record" => n.fills # <<>>
  BY <1>5, <1>7, <1>8 DEF Answered
<1>10. CallSound(n) /\ n.pc # "submit"
  BY <1>9 DEF CallSound
<1>11. n \in Calls /\ n # InNoCall /\ o # InNoCall
  BY <1>7, <1>9, AnsweredFacts
<1>12. UNCHANGED <<block, now, stats, budget, passed>>
  BY <1>3 DEF registryVars
<1>13. EngineSound'
  BY <1>1, <1>2, <1>6, <1>10, <1>11, <1>12, OneCallGoesOn
<1>14. RegistryStep
  BY <1>2, <1>3, RegistryRests
<1>15. QED BY <1>13, <1>14 DEF EngineStep

LEMMA RecordsSoundly ==
    ASSUME SignalIInv, NEW t \in Threads, Record(t)
    PROVE  EngineStep
<1>1. PICK o, c, f, rest : o = thread[t] /\ c = o.cand /\ f = Head(o.fills) /\ rest = Tail(o.fills)
  OBVIOUS
<1>2. /\ thread \in [Threads -> Calls] /\ now \in Nat /\ o \in Calls /\ EngineSound /\ RegistrySound
      /\ CallSound(o)
  BY <1>1 DEF SignalIInv, EngineSound
<1>3. PICK p : p = [strategy |-> c.strategy, symbol |-> c.symbol, side |-> c.side,
                    entry |-> f.price, notional |-> f.notional,
                    predicted |-> NetEv(c.inputs) \div Unit,
                    due |-> o.at + c.inputs.costs.hours, missed |-> FALSE]
  OBVIOUS
<1>4. /\ o.pc = "record" /\ RecordSignalOpen(p)
      /\ UNCHANGED <<block, forced, entries, now, stats, budget, passed>>
  BY <1>1, <1>3 DEF Record
<1>5. o \in Answered /\ o.reason = "none" /\ o.fills # <<>>
  BY <1>2, <1>4, CallFacts DEF CallSound
<1>6. o.fills \in Seq(Fills) /\ c \in Candidates /\ o.at \in Nat /\ o # InNoCall
  BY <1>1, <1>5, AnsweredFacts
<1>7. f \in Fills /\ rest \in Seq(Fills)
  BY <1>1, <1>5, <1>6, HeadTailProperties
<1>8. PICK n : n = [o EXCEPT !.fills = rest, !.pc = IF rest = <<>> THEN "count" ELSE "record"]
  OBVIOUS
<1>9. thread' = [thread EXCEPT ![t] = n]
  BY <1>1, <1>2, <1>8 DEF Record
<1>10. p \in Evaluations /\ ~ p.missed
  <2>1. c.strategy \in Strategies /\ c.symbol \in Symbols /\ c.side \in Sides /\ c.inputs \in EvInputs
    BY <1>6, CandidateFacts
  <2>2. f.price \in Prices /\ f.notional \in Int
    BY <1>7 DEF Fills
  <2>3. PICK e, h, d : e = NetEv(c.inputs) /\ h = c.inputs.costs.hours /\ d = e \div Unit
    OBVIOUS
  <2>4. e \in Int /\ h \in Int
    BY <2>1, <2>3, EvIs, InputFields
  <2>5. d \in Int
    BY <2>3, <2>4, SignalConstants
  <2>6. o.at + h \in Int
    BY <1>6, <2>4
  <2>7. QED BY <1>3, <2>1, <2>2, <2>3, <2>5, <2>6 DEF Evaluations
<1>11. n \in Answered /\ n.reason = "none" /\ n.pc \in {"record", "count"} /\ (n.pc = "record" => n.fills # <<>>)
  BY <1>5, <1>7, <1>8 DEF Answered
<1>12. CallSound(n) /\ n.pc # "submit"
  BY <1>11 DEF CallSound
<1>13. n \in Calls /\ n # InNoCall
  BY <1>11, AnsweredFacts
<1>14. EngineSound'
  BY <1>1, <1>2, <1>4, <1>6, <1>9, <1>12, <1>13, OneCallGoesOn
<1>15. RegistryStep
  BY <1>2, <1>4, <1>10, Opens
<1>16. QED BY <1>14, <1>15 DEF EngineStep

LEMMA CountsSoundly ==
    ASSUME SignalIInv, NEW t \in Threads, Count(t)
    PROVE  EngineStep
<1>1. PICK o : o = thread[t]
  OBVIOUS
<1>2. /\ thread \in [Threads -> Calls] /\ now \in Nat /\ o \in Calls /\ EngineSound /\ RegistrySound
      /\ CallSound(o) /\ stats \in Statistics /\ budget \in Budgets
  BY <1>1 DEF SignalIInv, EngineSound
<1>3. /\ o.pc = "count" /\ thread' = [thread EXCEPT ![t] = InNoCall]
      /\ UNCHANGED <<registryVars, now, budget, passed>>
  BY <1>1 DEF Count
<1>4. PICK g, r, a : /\ g = IF o.reason = "none" THEN 1 ELSE 0
                     /\ r = IF ~ (o.reason = "none") THEN 1 ELSE 0
                     /\ a = IF o.accepted THEN 1 ELSE 0
  OBVIOUS
<1>5. stats' = [candidates |-> stats.candidates + 1, gateAccepted |-> stats.gateAccepted + g,
                submitted |-> stats.submitted + g, accepted |-> stats.accepted + a,
                rejects |-> stats.rejects + r]
  BY <1>1, <1>4 DEF Count
<1>6. o \in Answered /\ o # InNoCall /\ (o.reason = "none" \/ ~ o.accepted)
  <2>1. o \in Answered /\ (o.reason = "none" \/ ~ o.accepted)
    BY <1>2, <1>3, CallFacts DEF CallSound
  <2>2. QED BY <2>1, AnsweredFacts
<1>7. g \in 0 .. 1 /\ r \in 0 .. 1 /\ a \in 0 .. 1 /\ g + r = 1 /\ a <= g
  BY <1>4, <1>6
<1>8. InNoCall \in Calls /\ CallSound(InNoCall) /\ InNoCall.pc # "submit"
  BY DEF InNoCall, Calls, CallSound
<1>9. UNCHANGED <<block, passed>>
  BY <1>3 DEF registryVars
<1>10. /\ thread' \in [Threads -> Calls] /\ \A u \in Threads : CallSound(thread'[u])
       /\ BlockedSendsNoMore' /\ InCall' = InCall \ {t}
  BY <1>2, <1>3, <1>8, <1>9, OneCallMoves
<1>11. /\ stats.candidates \in Nat /\ stats.gateAccepted \in Nat /\ stats.submitted \in Nat
       /\ stats.accepted \in Nat /\ stats.rejects \in Nat
  BY <1>2 DEF Statistics
<1>12. /\ stats'.candidates = stats.candidates + 1 /\ stats'.gateAccepted = stats.gateAccepted + g
       /\ stats'.submitted = stats.submitted + g /\ stats'.accepted = stats.accepted + a
       /\ stats'.rejects = stats.rejects + r
  BY <1>5
<1>13. stats' \in Statistics
  <2>1. /\ stats.candidates + 1 \in Nat /\ stats.gateAccepted + g \in Nat /\ stats.submitted + g \in Nat
        /\ stats.accepted + a \in Nat /\ stats.rejects + r \in Nat
    BY <1>7, <1>11
  <2>2. QED BY <1>5, <2>1 DEF Statistics
<1>14. SignalsAccounted'
  <2>1. PICK k : k = Cardinality(InCall)
    OBVIOUS
  <2>2. PICK m : m = Cardinality(InCall')
    OBVIOUS
  <2>3. t \in InCall
    BY <1>1, <1>6 DEF InCall
  <2>4. m = k - 1 /\ k \in Nat
    BY <1>10, <2>1, <2>2, <2>3, InCallIsFinite, FS_RemoveElement
  <2>5. /\ stats.candidates + k = budget.candidates
        /\ stats.candidates = stats.gateAccepted + stats.rejects
        /\ stats.accepted <= stats.submitted /\ stats.submitted = stats.gateAccepted
    BY <1>2, <2>1 DEF EngineSound, SignalsAccounted, InCall
  <2>6. /\ stats'.candidates + m = budget.candidates
        /\ stats'.candidates = stats'.gateAccepted + stats'.rejects
        /\ stats'.accepted <= stats'.submitted /\ stats'.submitted = stats'.gateAccepted
    BY <1>7, <1>11, <1>12, <2>4, <2>5
  <2>7. budget' = budget
    BY <1>3
  <2>8. QED BY <2>2, <2>6, <2>7 DEF SignalsAccounted, InCall
<1>15. /\ now' \in Nat /\ budget' \in Budgets /\ budget'.candidates <= MaxCandidates
       /\ passed' \in [Strategies -> SUBSET Threads]
  BY <1>3, <1>2 DEF EngineSound
<1>16. EngineSound'
  BY <1>10, <1>13, <1>14, <1>15 DEF EngineSound
<1>17. RegistryStep
  BY <1>2, <1>3, RegistryRests
<1>18. QED BY <1>16, <1>17 DEF EngineStep

\* A step outside of the threads' calls: who is past the gate is noted.
LEMMA NotedSoundly ==
    ASSUME EngineSound, NotePassed, UNCHANGED <<thread, stats>>,
           now' \in Nat, budget' \in Budgets, budget'.candidates = budget.candidates
    PROVE  EngineSound'
<1>1. /\ thread \in [Threads -> Calls] /\ \A u \in Threads : CallSound(thread[u])
      /\ stats \in Statistics /\ budget.candidates <= MaxCandidates
      /\ passed \in [Strategies -> SUBSET Threads] /\ SignalsAccounted
  BY DEF EngineSound
<1>2. \A s \in Strategies :
        passed'[s] = IF block'[s].state \notin Blocking THEN {}
                     ELSE IF block[s].state \notin Blocking THEN PastGate(s) ELSE passed[s]
  BY DEF NotePassed
<1>3. \A s : PastGate(s) \subseteq Threads
  BY DEF PastGate
<1>4. passed' \in [Strategies -> SUBSET Threads]
  BY <1>1, <1>3 DEF NotePassed
<1>5. BlockedSendsNoMore'
  <2> SUFFICES ASSUME NEW s \in Strategies, block'[s].state \in Blocking
               PROVE  PastGate(s)' \subseteq passed'[s]
    BY DEF BlockedSendsNoMore
  <2>1. PastGate(s)' = PastGate(s)
    BY DEF PastGate
  <2>2. CASE block[s].state \in Blocking
    BY <1>2, <2>1, <2>2 DEF EngineSound, BlockedSendsNoMore
  <2>3. CASE block[s].state \notin Blocking
    BY <1>2, <2>1, <2>3
  <2>4. QED BY <2>2, <2>3
<1>6. SignalsAccounted'
  BY <1>1 DEF SignalsAccounted
<1>7. QED BY <1>1, <1>4, <1>5, <1>6 DEF EngineSound

\* What is due at a time are places of the queue.
LEMMA TicksSoundly ==
    ASSUME SignalIInv, Tick
    PROVE  EngineStep
<1>1. /\ now \in Nat /\ budget \in Budgets /\ EngineSound /\ RegistrySound
  BY DEF SignalIInv, EngineSound
<1>2. /\ now' \in {now, now + 1} \cap (0 .. MaxTime)
      /\ budget' = [budget EXCEPT !.ticks = @ + 1]
      /\ NotePassed /\ UNCHANGED <<thread, stats>>
  BY DEF Tick
<1>3. PICK s \in Symbols, p \in Prices : OnMarketTick(s, p, now')
  BY DEF Tick
<1>4. now' \in Nat /\ now <= now'
  BY <1>1, <1>2
<1>5. budget' \in Budgets /\ budget'.candidates = budget.candidates
  BY <1>1, <1>2 DEF Budgets
<1>6. PICK due : due = {i \in 1 .. Len(pending) : IsResolved(s, now', i)}
  OBVIOUS
<1>7. Resolve(s, due, p, now')
  BY <1>3, <1>6 DEF OnMarketTick
<1>8. /\ due \subseteq 1 .. Len(pending)
      /\ \A i \in due : pending[i].symbol = s
      /\ \A i \in 1 .. Len(pending) : i \notin due => ~ (pending[i].symbol = s /\ pending[i].due <= now')
  BY <1>6 DEF IsResolved
<1>9. RegistryStep
  BY <1>1, <1>4, <1>7, <1>8, Resolves
<1>10. EngineSound'
  BY <1>1, <1>2, <1>4, <1>5, NotedSoundly
<1>11. QED BY <1>9, <1>10 DEF EngineStep

LEMMA FlushesSoundly ==
    ASSUME SignalIInv, Flush
    PROVE  EngineStep
<1>1. /\ now \in Nat /\ budget \in Budgets /\ EngineSound /\ RegistrySound
  BY DEF SignalIInv, EngineSound
<1>2. NotePassed /\ UNCHANGED <<thread, now, stats, budget>>
  BY DEF Flush
<1>3. PICK s \in Symbols, p \in Prices : FlushPending(s, p, now)
  BY DEF Flush
<1>4. PICK due : due = {i \in 1 .. Len(pending) : pending[i].symbol = s}
  OBVIOUS
<1>5. Resolve(s, due, p, now)
  BY <1>3, <1>4 DEF FlushPending
<1>6. /\ due \subseteq 1 .. Len(pending)
      /\ \A i \in due : pending[i].symbol = s
      /\ \A i \in 1 .. Len(pending) : i \notin due => ~ (pending[i].symbol = s /\ pending[i].due <= now)
  BY <1>4
<1>7. now' = now /\ now <= now
  BY <1>1, <1>2
<1>8. RegistryStep
  BY <1>1, <1>5, <1>6, <1>7, Resolves
<1>9. EngineSound'
  BY <1>1, <1>2, NotedSoundly
<1>10. QED BY <1>8, <1>9 DEF EngineStep

LEMMA OverridesSoundly ==
    ASSUME SignalIInv, Override
    PROVE  EngineStep
<1>1. /\ now \in Nat /\ budget \in Budgets /\ EngineSound /\ RegistrySound
  BY DEF SignalIInv, EngineSound
<1>2. /\ budget' = [budget EXCEPT !.overrides = @ + 1]
      /\ NotePassed /\ UNCHANGED <<thread, now, stats>>
  BY DEF Override
<1>3. PICK s \in Strategies, to \in States : ForceState(s, to)
  BY DEF Override
<1>4. budget' \in Budgets /\ budget'.candidates = budget.candidates
  BY <1>1, <1>2 DEF Budgets
<1>5. RegistryStep
  BY <1>1, <1>2, <1>3, Forces
<1>6. EngineSound'
  BY <1>1, <1>2, <1>4, NotedSoundly
<1>7. QED BY <1>5, <1>6 DEF EngineStep

LEMMA RegistersSoundly ==
    ASSUME SignalIInv, Register
    PROVE  EngineStep
<1>1. /\ now \in Nat /\ EngineSound /\ RegistrySound
  BY DEF SignalIInv, EngineSound
<1>2. PICK s \in Strategies : ~ block[s].baseline /\ RegisterStrategy(s)
  BY DEF Register
<1>3. UNCHANGED <<thread, now, stats, budget, passed>>
  BY DEF Register, engineVars
<1>4. RegistryStep
  BY <1>1, <1>2, <1>3, Registers
<1>5. \A r \in Strategies : block'[r].state = block[r].state
  <2>1. block \in [Strategies -> Blocks] /\ block' = [block EXCEPT ![s].baseline = TRUE]
    BY <1>1, <1>2 DEF RegistrySound, RegisterStrategy
  <2>2. \A r \in Strategies : block'[r] = IF r = s THEN [block[s] EXCEPT !.baseline = TRUE] ELSE block[r]
    BY <2>1
  <2>3. block[s] \in Blocks
    BY <2>1
  <2>4. [block[s] EXCEPT !.baseline = TRUE].state = block[s].state
    BY <2>3 DEF Blocks
  <2>5. QED BY <2>2, <2>4
<1>6. BlockedSendsNoMore'
  <2>1. \A r \in Strategies : PastGate(r)' = PastGate(r)
    BY <1>3 DEF PastGate
  <2>2. BlockedSendsNoMore
    BY <1>1 DEF EngineSound
  <2>3. QED BY <1>3, <1>5, <2>1, <2>2 DEF BlockedSendsNoMore
<1>7. EngineSound'
  <2>1. SignalsAccounted'
    BY <1>1, <1>3 DEF EngineSound, SignalsAccounted
  <2>2. QED BY <1>1, <1>3, <1>6, <2>1 DEF EngineSound
<1>8. QED BY <1>4, <1>7 DEF EngineStep

-----------------------------------------------------------------------------
(* The engine                                                              *)

LEMMA EngineBegins ==
    ASSUME EngineInit
    PROVE  SignalIInv
<1>1. /\ block = [s \in Strategies |-> NewBlock] /\ pending = <<>> /\ forced = {}
      /\ entries = [s \in Strategies |-> <<>>] /\ tally = [s \in Strategies |-> <<0, 0>>]
  BY DEF EngineInit, RegistryInit
<1>2. BlockSound(NewBlock) /\ NewBlock.state = "active"
  <2>1. <<>> \in Seq(Int) /\ <<>> \in Seq(Nat) /\ Len(<<>>) = 0
    BY EmptySeq
  <2>2. NoHinkley \in Hinkleys
    BY DEF NoHinkley, Hinkleys
  <2>3. NewBlock \in Blocks
    BY <2>1, <2>2 DEF NewBlock, Blocks, States
  <2>4. /\ Len(NewBlock.realized) = 0 /\ Len(NewBlock.diff) = 0 /\ NewBlock.clean = 0
        /\ NewBlock.pnl = 0 /\ NewBlock.peak = 0 /\ NewBlock.state = "active"
    BY <2>1 DEF NewBlock
  <2>5. QED BY <2>3, <2>4, SignalConstants DEF BlockSound
<1>3. /\ block \in [Strategies -> Blocks] /\ \A s \in Strategies : BlockSound(block[s])
  BY <1>1, <1>2 DEF BlockSound
<1>4. pending \in Seq(Evaluations) /\ Len(pending) = 0 /\ DOMAIN pending = {}
  BY <1>1, EmptySeq
<1>5. DueInOrder(pending) /\ NoneMissed
  BY <1>4 DEF DueInOrder, NoneMissed
<1>6. entries \in [Strategies -> Seq(Marks)] /\ tally \in [Strategies -> Nat \X Nat]
  BY <1>1, EmptySeq
<1>7. ScoredOnce
  <2>1. \A s \in Strategies : {i \in DOMAIN pending : pending[i].strategy = s} = {}
    BY <1>4
  <2>2. \A s \in Strategies : Waiting(s) = 0
    BY <2>1, FS_EmptySet DEF Waiting
  <2>3. QED BY <1>1, <2>2 DEF ScoredOnce
<1>8. ActiveIsHealthy
  <2> SUFFICES Healthy(NewBlock)
    BY <1>1 DEF ActiveIsHealthy, Healthy
  <2>1. ~ DrawdownAlarm(NewBlock)
    BY SignalConstants DEF NewBlock, DrawdownAlarm
  <2>2. ~ SharpeAlarm(NewBlock)
    BY DEF NewBlock, SharpeAlarm
  <2>3. ~ CusumAlarm(NewBlock)
    <3>1. PhScale * CusumLambda \in Nat
      BY SignalConstants
    <3>2. NewBlock.ph.maxM = 0 /\ NewBlock.ph.m = 0
      BY DEF NewBlock, NoHinkley
    <3>3. QED BY <3>1, <3>2 DEF CusumAlarm
  <2>4. QED BY <2>1, <2>2, <2>3 DEF Healthy
<1>9. \A s \in Strategies : KeepsTheLast(block[s].quarantines, entries[s]) /\ InTime(entries[s])
  <2>1. \A s \in Strategies : block[s].quarantines = <<>> /\ entries[s] = <<>>
    BY <1>1 DEF NewBlock
  <2>2. Len(<<>>) = 0
    OBVIOUS
  <2>3. KeepsTheLast(<<>>, <<>>)
    BY <2>2 DEF KeepsTheLast
  <2>4. InTime(<<>>)
    BY <2>2 DEF InTime
  <2>5. QED BY <2>1, <2>3, <2>4
<1>10. RegistrySound
  BY <1>1, <1>3, <1>4, <1>5, <1>6, <1>7, <1>8, <1>9 DEF RegistrySound
<1>11. InNoCall \in Calls /\ CallSound(InNoCall)
  BY DEF InNoCall, Calls, CallSound
<1>12. /\ thread = [t \in Threads |-> InNoCall] /\ now = FirstTime
       /\ stats = [candidates |-> 0, gateAccepted |-> 0, submitted |-> 0, accepted |-> 0, rejects |-> 0]
       /\ budget = [candidates |-> 0, overrides |-> 0, ticks |-> 0]
       /\ passed = [s \in Strategies |-> {}]
  BY DEF EngineInit
<1>13. stats \in Statistics /\ budget \in Budgets
  BY <1>12 DEF Statistics, Budgets
<1>14. SignalsAccounted
  <2>1. {t \in Threads : thread[t] # InNoCall} = {}
    BY <1>12
  <2>2. Cardinality({t \in Threads : thread[t] # InNoCall}) = 0
    BY <2>1, FS_EmptySet
  <2>3. QED BY <1>12, <2>2 DEF SignalsAccounted
<1>15. BlockedSendsNoMore
  BY <1>1, <1>2 DEF BlockedSendsNoMore, Blocking
<1>16. EngineSound
  BY <1>11, <1>12, <1>13, <1>14, <1>15, SignalConstants DEF EngineSound
<1>17. QED BY <1>10, <1>16 DEF SignalIInv

LEMMA EngineSteps ==
    ASSUME SignalIInv, [EngineNext]_signalVars
    PROVE  EngineStep
<1>1. ASSUME NEW t \in Threads, Begin(t) PROVE EngineStep
  BY <1>1, BeginsSoundly
<1>2. ASSUME NEW t \in Threads, Gate(t) PROVE EngineStep
  BY <1>2, GatesSoundly
<1>3. ASSUME NEW t \in Threads, Submit(t) PROVE EngineStep
  BY <1>3, SubmitsSoundly
<1>4. ASSUME NEW t \in Threads, Record(t) PROVE EngineStep
  BY <1>4, RecordsSoundly
<1>5. ASSUME NEW t \in Threads, Count(t) PROVE EngineStep
  BY <1>5, CountsSoundly
<1>6. CASE Tick
  BY <1>6, TicksSoundly
<1>7. CASE Flush
  BY <1>7, FlushesSoundly
<1>8. CASE Override
  BY <1>8, OverridesSoundly
<1>9. CASE Register
  BY <1>9, RegistersSoundly
<1>10. CASE UNCHANGED signalVars
  <2>1. UNCHANGED registryVars /\ UNCHANGED <<thread, now, stats, budget, passed>>
    BY <1>10 DEF signalVars, engineVars
  <2>2. EngineSound /\ RegistrySound /\ now \in Nat
    BY DEF SignalIInv, EngineSound
  <2>3. RegistryStep
    BY <2>1, <2>2, RegistryRests
  <2>4. block' = block
    BY <2>1 DEF registryVars
  <2>5. SignalsAccounted' /\ BlockedSendsNoMore'
    BY <2>1, <2>2, <2>4 DEF EngineSound, SignalsAccounted, BlockedSendsNoMore, PastGate
  <2>6. EngineSound'
    BY <2>1, <2>2, <2>5 DEF EngineSound
  <2>7. QED BY <2>3, <2>6 DEF EngineStep
<1>11. QED
  BY <1>1, <1>2, <1>3, <1>4, <1>5, <1>6, <1>7, <1>8, <1>9, <1>10 DEF EngineNext

\* What holds throughout of the registry and of the threads in process: the inductive
\* invariant of the engine (signal_engine.cpp, strategy_registry.cpp).
THEOREM SignalInvariant == EngineSpec => []SignalIInv
<1>1. EngineInit => SignalIInv
  BY EngineBegins
<1>2. SignalIInv /\ [EngineNext]_signalVars => SignalIInv'
  BY EngineSteps DEF EngineStep, RegistryStep, SignalIInv
<1>3. QED BY <1>1, <1>2, PTL DEF EngineSpec

LEMMA EngineTyped ==
    ASSUME SignalIInv
    PROVE  EngineTypeOK
<1>1. /\ block \in [Strategies -> Blocks] /\ \A s \in Strategies : BlockSound(block[s])
      /\ pending \in Seq(Evaluations) /\ DueInOrder(pending)
      /\ thread \in [Threads -> Calls]
      /\ stats \in Statistics /\ budget \in Budgets /\ budget.candidates <= MaxCandidates
      /\ SignalsAccounted
  BY DEF SignalIInv, RegistrySound, EngineSound
<1>2. \A s \in Strategies :
        /\ block[s].state \in States /\ block[s].baseline \in BOOLEAN
        /\ Len(block[s].realized) <= SharpeWindow /\ Len(block[s].diff) <= DecayWindow
        /\ block[s].clean \in 0 .. RecoveryClean - 1
        /\ block[s].pnl <= block[s].peak
  BY <1>1, BlockFields, SignalConstants DEF BlockSound
<1>3. \A i \in 1 .. Len(pending) - 1 : pending[i].due <= pending[i + 1].due
  <2>1. Len(pending) \in Nat
    BY <1>1, LenProperties
  <2> SUFFICES ASSUME NEW i \in 1 .. Len(pending) - 1
               PROVE  pending[i].due <= pending[i + 1].due
    OBVIOUS
  <2>2. i \in 1 .. Len(pending) /\ i + 1 \in 1 .. Len(pending) /\ i <= i + 1
    BY <2>1
  <2>3. QED BY <1>1, <2>2 DEF DueInOrder
<1>4. \A t \in Threads : thread[t].pc \in {"idle", "gate", "submit", "record", "count"}
  BY <1>1, CallFacts
<1>5. stats \in [{"candidates", "gateAccepted", "submitted", "accepted", "rejects"} -> 0 .. MaxCandidates]
  <2>1. PICK k : k = Cardinality(InCall)
    OBVIOUS
  <2>2. k \in Nat
    BY <2>1, InCallIsFinite
  <2>3. /\ stats.candidates + k = budget.candidates
        /\ stats.candidates = stats.gateAccepted + stats.rejects
        /\ stats.accepted <= stats.submitted /\ stats.submitted = stats.gateAccepted
    BY <1>1, <2>1 DEF SignalsAccounted, InCall
  <2>4. /\ stats.candidates \in Nat /\ stats.gateAccepted \in Nat /\ stats.submitted \in Nat
        /\ stats.accepted \in Nat /\ stats.rejects \in Nat /\ budget.candidates \in Nat
    BY <1>1 DEF Statistics, Budgets
  <2>5. /\ stats.candidates \in 0 .. MaxCandidates /\ stats.gateAccepted \in 0 .. MaxCandidates
        /\ stats.submitted \in 0 .. MaxCandidates /\ stats.accepted \in 0 .. MaxCandidates
        /\ stats.rejects \in 0 .. MaxCandidates
    <3>1. budget.candidates <= MaxCandidates /\ MaxCandidates \in Nat
      BY <1>1, SignalConstants
    <3>2. stats.candidates <= MaxCandidates
      BY <2>2, <2>3, <2>4, <3>1
    <3>3. stats.gateAccepted <= stats.candidates /\ stats.rejects <= stats.candidates
      BY <2>3, <2>4
    <3>4. QED BY <2>3, <2>4, <3>1, <3>2, <3>3, SMTT(30)
  <2>6. QED BY <1>1, <2>5 DEF Statistics
<1>6. QED BY <1>2, <1>3, <1>4, <1>5 DEF EngineTypeOK

\* Whatever the candidates, the answers and the order of the threads' steps, every
\* candidate that was in process is counted once and every fill is scored once, at the
\* first tick at which it is due (process, record_signal_open, on_market_tick).
THEOREM CountedOnce == EngineSpec => []EachCountedOnce
<1>1. SignalIInv => EachCountedOnce
  BY EngineTyped DEF SignalIInv, RegistrySound, EngineSound, EachCountedOnce
<1>2. QED BY <1>1, SignalInvariant, PTL

LEMMA BetterPasses ==
    ASSUME SignalIInv
    PROVE  BetterIsAccepted
<1> SUFFICES ASSUME NEW t \in Threads, thread[t].pc = "submit",
                    NEW p \in thread[t].cand.inputs.pWin .. Unit,
                    NEW fee \in 0 .. thread[t].cand.inputs.costs.fee
             PROVE  Verdict([thread[t].cand.inputs EXCEPT !.pWin = p, !.costs.fee = fee],
                            thread[t].cand.regime, "active") = "none"
  BY DEF BetterIsAccepted
<1>1. PICK c, i : c = thread[t].cand /\ i = c.inputs
  OBVIOUS
<1>2. thread[t] \in Calls /\ CallSound(thread[t])
  BY DEF SignalIInv, EngineSound
<1>3. c \in Candidates /\ Verdict(i, c.regime, "active") = "none"
  BY <1>1, <1>2, CallFacts DEF CallSound
<1>4. i \in EvInputs
  BY <1>1, <1>3, CandidateFacts
<1>5. /\ InputsValid(i) /\ c.regime \in DOMAIN Threshold /\ "active" \notin Blocking
      /\ c.regime \in AllowedRegimes /\ ~ (i.confidence < MinConfidence)
      /\ ~ (NetEv(i) < Unit * Threshold[c.regime])
  BY <1>3, VerdictIs, Zenon
<1>6. PICK j : j = Bettered(i, p, fee)
  OBVIOUS
<1>7. InputsValid(j) /\ j.confidence = i.confidence /\ NetEv(i) <= NetEv(j)
  <2>1. p \in i.pWin .. Unit /\ fee \in 0 .. i.costs.fee
    BY <1>1
  <2>2. InputsValid(i)
    BY <1>5
  <2>3. QED BY <1>4, <1>6, <2>1, <2>2, BetterIsWorthMore
<1>8. j \in EvInputs
  <2>1. i.costs \in Costing /\ i.pWin \in Int /\ i.costs.fee \in Int
    BY <1>4, InputFields
  <2>2. p \in Int /\ fee \in Int
    BY <1>1, <2>1, SignalConstants
  <2>3. PICK costs : costs = [i.costs EXCEPT !.fee = fee]
    OBVIOUS
  <2>4. costs \in Costing
    BY <2>1, <2>2, <2>3 DEF Costing
  <2>5. j = [i EXCEPT !.pWin = p, !.costs = costs]
    BY <1>4, <1>6, <2>3 DEF EvInputs, Bettered
  <2>6. QED BY <1>4, <2>2, <2>4, <2>5 DEF EvInputs
<1>9. ~ (NetEv(j) < Unit * Threshold[c.regime])
  <2>1. NetEv(i) \in Int /\ NetEv(j) \in Int
    BY <1>4, <1>8, EvIs
  <2>2. PICK w : w = Unit * Threshold[c.regime]
    OBVIOUS
  <2>3. w \in Int
    BY <1>5, <2>2, SignalConstants, GateAssumption
  <2>4. QED BY <1>5, <1>7, <2>1, <2>2, <2>3
<1>10. Verdict(j, c.regime, "active") = "none"
  BY <1>5, <1>7, <1>9, VerdictIs, Zenon
<1>11. QED BY <1>1, <1>6, <1>10 DEF Bettered

\* An active strategy has no alarm unless an operator acted, a blocked one has no more
\* candidates past the gate than when it was blocked, and the gate prefers what is better
\* (apply_governance_locked, process, EVGate::evaluate).
THEOREM HealthyTrade == EngineSpec => []OnlyHealthyTrade
<1>1. SignalIInv => OnlyHealthyTrade
  BY BetterPasses DEF SignalIInv, RegistrySound, EngineSound, OnlyHealthyTrade
<1>2. QED BY <1>1, SignalInvariant, PTL

\* No step but an operator's releases a blocked strategy, and none that its scores order
\* disables it for fewer quarantines than are configured (transition_locked).
THEOREM LifecycleDeserved == EngineSpec => LifecycleIsDeserved
<1>1. SignalIInv /\ [EngineNext]_signalVars
        => [\A s \in Strategies : ReleasedByHand(s) /\ DisabledIsDeserved(s)]_registryVars
  BY EngineSteps DEF EngineStep, RegistryStep
<1>2. QED BY <1>1, SignalInvariant, PTL DEF EngineSpec, LifecycleIsDeserved
=============================================================================
