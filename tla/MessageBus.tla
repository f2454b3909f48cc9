----------------------------- MODULE MessageBus -----------------------------
(***************************************************************************)
(* bus::InprocMessageBus, one topic of it: a ring buffer for one producer  *)
(* and one consumer (bus::SpscRingBuffer), filled by publish in the        *)
(* caller's thread under one of three policies for a full ring, and        *)
(* emptied by a consumer thread that calls the subscribers.                *)
(*                                                                         *)
(* Each access to a slot, to its flag and to a position is a step of its   *)
(* own, except that a load and the compare-and-swap after it are one: a    *)
(* swap that fails is a new iteration.  Topics share nothing but the lock  *)
(* of the table they are in, and get_or_create_topic looks twice, so that  *)
(* a topic is made once.  Subscribers are called under the shared lock     *)
(* that subscribe takes exclusively.                                       *)
(*                                                                         *)
(* The ring is for one producer, and discards at the consumer's end under  *)
(* DropOldest.  `disturbed` records the ways in which this leaves the      *)
(* discipline of the ring: two publish calls at once, and a slot that      *)
(* consumer and discarding publisher have both claimed, a lap apart.       *)
(***************************************************************************)
EXTENDS Integers, Sequences, FiniteSets, SequencesExt

CONSTANTS
    Publishers,     \* the threads that publish
    Capacity,       \* logical_capacity_, a power of two
    Policies,       \* DropNewest, DropOldest, Block, BlockTimed (with a timeout)
    MaxMessages,    \* bound: how many messages are published
    MaxSubscribers  \* bound: how many subscriptions are made

ASSUME BusAssumption ==
    /\ IsFiniteSet(Publishers)
    /\ Capacity \in Nat \ {0}   \* nothing here needs it to be a power of two
    /\ Policies \subseteq {"DropNewest", "DropOldest", "Block", "BlockTimed"}
    /\ MaxMessages \in Nat /\ MaxSubscribers \in Nat

VARIABLES
    policy, running, subscribers,
    slots,             \* [ready, message] of each slot
    write_pos, read_pos,
    metrics,           \* queue_depth, drops, backpressure_hits
    publisher,         \* the locals of each thread's publish
    consumer,          \* the consumer thread
    sent,              \* history: how many calls of publish were made
    accepted, refused, discarded,  \* history: what became of their messages
    consumed,          \* history: the messages that the subscribers got
    disturbed          \* history: the ring had two users at one end

ring == <<slots, write_pos, read_pos>>
answers == <<accepted, refused, discarded>>
vars == <<policy, running, subscribers, ring, metrics, publisher, consumer, sent,
          answers, consumed, disturbed>>

SlotOf(pos) == pos % Capacity
Idle == [pc |-> "idle", message |-> 0, pos |-> 0, retried |-> FALSE]
Publishing(p) == publisher[p].pc # "idle"

\* The consumer, or a discarding publisher, is not yet done with the slot of a
\* position.
ReadsSlot(pos) ==
    consumer.pc \in {"copy", "release"} /\ SlotOf(consumer.pos) = SlotOf(pos)
DiscardsSlot(p, pos) ==
    publisher[p].pc = "discard" /\ SlotOf(publisher[p].pos) = SlotOf(pos)

-----------------------------------------------------------------------------
(* publish                                                                 *)

PublishBegin(p) ==
    /\ running
    /\ ~Publishing(p)
    /\ sent < MaxMessages
    /\ sent' = sent + 1
    /\ publisher' = [publisher EXCEPT ![p] = [Idle EXCEPT !.pc = "check", !.message = sent + 1]]
    /\ disturbed' = (disturbed \/ \E q \in Publishers : Publishing(q))
    /\ UNCHANGED <<policy, running, subscribers, ring, metrics, consumer, answers, consumed>>

\* Deviation: room is judged by the positions, which the consumer moves before
\* it has read the slot.
PublishCheckByPosition(p) ==
    /\ publisher[p].pc = "check"
    /\ publisher' = [publisher EXCEPT
                       ![p].pc = IF write_pos - read_pos >= Capacity THEN "full" ELSE "copy",
                       ![p].pos = write_pos]
    /\ UNCHANGED <<policy, running, subscribers, ring, metrics, consumer, sent, answers,
                   consumed, disturbed>>

\* try_publish: the slot at the write position is still in use, or it is taken.
PublishCheck(p) ==
    /\ publisher[p].pc = "check"
    /\ publisher' = [publisher EXCEPT
                       ![p].pc = IF slots[SlotOf(write_pos)].ready THEN "full" ELSE "copy",
                       ![p].pos = write_pos]
    /\ UNCHANGED <<policy, running, subscribers, ring, metrics, consumer, sent, answers,
                   consumed, disturbed>>

PublishCopy(p) ==
    /\ publisher[p].pc = "copy"
    /\ slots' = [slots EXCEPT ![SlotOf(publisher[p].pos)].message = publisher[p].message]
    /\ publisher' = [publisher EXCEPT ![p].pc = "ready"]
    /\ UNCHANGED <<policy, running, subscribers, write_pos, read_pos, metrics, consumer, sent,
                   answers, consumed, disturbed>>

PublishReady(p) ==
    /\ publisher[p].pc = "ready"
    /\ slots' = [slots EXCEPT ![SlotOf(publisher[p].pos)].ready = TRUE]
    /\ publisher' = [publisher EXCEPT ![p].pc = "advance"]
    /\ UNCHANGED <<policy, running, subscribers, write_pos, read_pos, metrics, consumer, sent,
                   answers, consumed, disturbed>>

PublishAdvance(p) ==
    /\ publisher[p].pc = "advance"
    /\ write_pos' = publisher[p].pos + 1
    /\ publisher' = [publisher EXCEPT ![p].pc = "count"]
    /\ UNCHANGED <<policy, running, subscribers, slots, read_pos, metrics, consumer, sent,
                   answers, consumed, disturbed>>

\* The message is in the ring, and perhaps out of it already.
PublishCount(p) ==
    /\ publisher[p].pc = "count"
    /\ metrics' = [metrics EXCEPT !.depth = @ + 1]
    /\ accepted' = accepted \cup {publisher[p].message}
    /\ publisher' = [publisher EXCEPT ![p] = Idle]
    /\ UNCHANGED <<policy, running, subscribers, ring, consumer, sent, refused, discarded,
                   consumed, disturbed>>

\* The answer is a timeout: the newest is dropped, a discard did not help, or
\* the time is over.
PublishRefused(p) ==
    /\ publisher[p].pc = "full"
    /\ \/ policy \in {"DropNewest", "BlockTimed"}
       \/ policy = "DropOldest" /\ (publisher[p].retried \/ ~slots[SlotOf(read_pos)].ready)
    /\ metrics' = [metrics EXCEPT
                     !.hits = IF publisher[p].retried THEN @ ELSE @ + 1,
                     !.drops = IF policy = "DropNewest" THEN @ + 1 ELSE @]
    /\ refused' = refused \cup {publisher[p].message}
    /\ publisher' = [publisher EXCEPT ![p] = Idle]
    /\ UNCHANGED <<policy, running, subscribers, ring, consumer, sent, accepted, discarded,
                   consumed, disturbed>>

\* Deviation: a thread that waits is not let in again.
PublishRetryOnce(p) ==
    /\ publisher[p].pc = "full"
    /\ policy \in {"Block", "BlockTimed"}
    /\ ~publisher[p].retried
    /\ metrics' = [metrics EXCEPT !.hits = IF publisher[p].retried THEN @ ELSE @ + 1]
    /\ publisher' = [publisher EXCEPT ![p].pc = "check", ![p].retried = TRUE]
    /\ UNCHANGED <<policy, running, subscribers, ring, consumer, sent, answers, consumed,
                   disturbed>>

\* Block: once more, after a while.
PublishRetry(p) ==
    /\ publisher[p].pc = "full"
    /\ policy \in {"Block", "BlockTimed"}
    /\ metrics' = [metrics EXCEPT !.hits = IF publisher[p].retried THEN @ ELSE @ + 1]
    /\ publisher' = [publisher EXCEPT ![p].pc = "check", ![p].retried = TRUE]
    /\ UNCHANGED <<policy, running, subscribers, ring, consumer, sent, answers, consumed,
                   disturbed>>

\* try_discard_oldest claims the slot at the read position.
DiscardClaim(p) ==
    /\ publisher[p].pc = "full"
    /\ policy = "DropOldest"
    /\ ~publisher[p].retried
    /\ slots[SlotOf(read_pos)].ready
    /\ read_pos' = read_pos + 1
    /\ disturbed' = (disturbed \/ ReadsSlot(read_pos))
    /\ discarded' = discarded \cup {slots[SlotOf(read_pos)].message}
    /\ metrics' = [metrics EXCEPT !.hits = @ + 1]
    /\ publisher' = [publisher EXCEPT ![p].pc = "discard", ![p].pos = read_pos]
    /\ UNCHANGED <<policy, running, subscribers, slots, write_pos, consumer, sent, accepted,
                   refused, consumed>>

Discard(p) ==
    /\ publisher[p].pc = "discard"
    /\ slots' = [slots EXCEPT ![SlotOf(publisher[p].pos)].ready = FALSE]
    /\ metrics' = [metrics EXCEPT !.drops = @ + 1, !.depth = @ - 1]
    /\ publisher' = [publisher EXCEPT ![p].pc = "check", ![p].retried = TRUE]
    /\ UNCHANGED <<policy, running, subscribers, write_pos, read_pos, consumer, sent, answers,
                   consumed, disturbed>>

-----------------------------------------------------------------------------
(* The consumer thread                                                     *)

\* The first subscription starts the thread.
Subscribe ==
    /\ running
    /\ subscribers < MaxSubscribers
    /\ consumer.pc # "deliver"
    /\ subscribers' = subscribers + 1
    /\ consumer' = IF consumer.pc = "none" THEN [consumer EXCEPT !.pc = "poll"] ELSE consumer
    /\ UNCHANGED <<policy, running, ring, metrics, publisher, sent, answers, consumed, disturbed>>

\* try_consume claims the slot at the read position.
ConsumeClaim ==
    /\ consumer.pc = "poll"
    /\ running \/ write_pos > read_pos
    /\ slots[SlotOf(read_pos)].ready
    /\ read_pos' = read_pos + 1
    /\ consumer' = [consumer EXCEPT !.pc = "copy", !.pos = read_pos]
    /\ disturbed' = (disturbed \/ \E p \in Publishers : DiscardsSlot(p, read_pos))
    /\ UNCHANGED <<policy, running, subscribers, slots, write_pos, metrics, publisher, sent,
                   answers, consumed>>

ConsumeCopy ==
    /\ consumer.pc = "copy"
    /\ consumer' = [consumer EXCEPT !.pc = "release",
                                    !.message = slots[SlotOf(consumer.pos)].message]
    /\ UNCHANGED <<policy, running, subscribers, ring, metrics, publisher, sent, answers,
                   consumed, disturbed>>

ConsumeRelease ==
    /\ consumer.pc = "release"
    /\ slots' = [slots EXCEPT ![SlotOf(consumer.pos)].ready = FALSE]
    /\ consumer' = [consumer EXCEPT !.pc = "count"]
    /\ UNCHANGED <<policy, running, subscribers, write_pos, read_pos, metrics, publisher, sent,
                   answers, consumed, disturbed>>

ConsumeCount ==
    /\ consumer.pc = "count"
    /\ metrics' = [metrics EXCEPT !.depth = @ - 1]
    /\ consumer' = [consumer EXCEPT !.pc = "deliver"]
    /\ UNCHANGED <<policy, running, subscribers, ring, publisher, sent, answers, consumed,
                   disturbed>>

Deliver ==
    /\ consumer.pc = "deliver"
    /\ consumed' = Append(consumed, consumer.message)
    /\ consumer' = [consumer EXCEPT !.pc = "poll"]
    /\ UNCHANGED <<policy, running, subscribers, ring, metrics, publisher, sent, answers,
                   disturbed>>

\* Deviation: the thread ends with `running`.
ConsumerExitAtOnce ==
    /\ consumer.pc = "poll"
    /\ ~running
    /\ consumer' = [consumer EXCEPT !.pc = "gone"]
    /\ UNCHANGED <<policy, running, subscribers, ring, metrics, publisher, sent, answers,
                   consumed, disturbed>>

\* size_approx is zero, and shutdown can join the thread.
ConsumerExit ==
    /\ consumer.pc = "poll"
    /\ ~running /\ write_pos <= read_pos
    /\ consumer' = [consumer EXCEPT !.pc = "gone"]
    /\ UNCHANGED <<policy, running, subscribers, ring, metrics, publisher, sent, answers,
                   consumed, disturbed>>

\* The destructor: nobody publishes or subscribes any more.
Shutdown ==
    /\ running
    /\ \A p \in Publishers : ~Publishing(p)
    /\ running' = FALSE
    /\ UNCHANGED <<policy, subscribers, ring, metrics, publisher, consumer, sent, answers,
                   consumed, disturbed>>

-----------------------------------------------------------------------------

Init ==
    /\ policy \in Policies
    /\ running = TRUE /\ subscribers = 0
    /\ slots = [k \in 0 .. Capacity - 1 |-> [ready |-> FALSE, message |-> 0]]
    /\ write_pos = 0 /\ read_pos = 0
    /\ metrics = [depth |-> 0, drops |-> 0, hits |-> 0]
    /\ publisher = [p \in Publishers |-> Idle]
    /\ consumer = [pc |-> "none", message |-> 0, pos |-> 0]
    /\ sent = 0 /\ accepted = {} /\ refused = {} /\ discarded = {}
    /\ consumed = <<>> /\ disturbed = FALSE

PublishStep(p) ==
    \/ PublishCheck(p) \/ PublishCopy(p) \/ PublishReady(p) \/ PublishAdvance(p)
    \/ PublishCount(p) \/ PublishRefused(p) \/ PublishRetry(p)
    \/ DiscardClaim(p) \/ Discard(p)

ConsumerStep ==
    ConsumeClaim \/ ConsumeCopy \/ ConsumeRelease \/ ConsumeCount \/ Deliver \/ ConsumerExit

Next ==
    \/ \E p \in Publishers : PublishBegin(p) \/ PublishStep(p)
    \/ Subscribe
    \/ ConsumerStep
    \/ Shutdown

\* Threads that can go on do: the loops of publish and of the consumer yield or
\* sleep for at most a millisecond.
Fairness ==
    /\ \A p \in Publishers : WF_vars(PublishStep(p))
    /\ WF_vars(ConsumerStep)

Spec == Init /\ [][Next]_vars /\ Fairness

-----------------------------------------------------------------------------
(* Properties                                                              *)

TypeOK ==
    /\ policy \in Policies /\ running \in BOOLEAN /\ subscribers \in 0 .. MaxSubscribers
    /\ \A k \in DOMAIN slots : slots[k].ready \in BOOLEAN /\ slots[k].message \in 0 .. MaxMessages
    /\ write_pos \in 0 .. MaxMessages
    /\ read_pos \in 0 .. 2 * MaxMessages
    /\ \A p \in Publishers : publisher[p].pc \in {"idle", "check", "copy", "ready", "advance",
                                                  "count", "full", "discard"}
    /\ consumer.pc \in {"none", "poll", "copy", "release", "count", "deliver", "gone"}
    /\ metrics.hits <= sent /\ metrics.drops <= sent
    /\ disturbed \/ metrics.depth \in -1 .. Capacity + 1
    /\ accepted \cup refused \subseteq 1 .. sent /\ accepted \cap refused = {}

\* While the ring is undisturbed, a slot is not overwritten while the consumer
\* copies it, although the consumer gives up its position before.
NoTornCopy ==
    ~disturbed /\ consumer.pc = "copy" =>
      \A p \in Publishers : publisher[p].pc \in {"copy", "ready", "discard"} =>
        SlotOf(publisher[p].pos) # SlotOf(consumer.pos)

AtConsumer == IF consumer.pc \in {"release", "count", "deliver"} THEN {consumer.message} ELSE {}
InRing == {slots[k].message : k \in {j \in DOMAIN slots : slots[j].ready}}

\* While the ring is undisturbed, what publish answered OK for is in the ring,
\* with the consumer, delivered, or a discarded oldest message; what it refused
\* is nowhere.
AnswersAreTrue ==
    ~disturbed =>
      /\ accepted \subseteq InRing \cup AtConsumer \cup Range(consumed) \cup discarded
      /\ refused \cap (InRing \cup AtConsumer \cup Range(consumed) \cup discarded) = {}

\* While the ring is undisturbed, messages are delivered in the order of their
\* publication, none twice, and none of which is called discarded.
InOrder ==
    ~disturbed =>
      /\ \A j, k \in DOMAIN consumed : j < k => consumed[j] < consumed[k]
      /\ Range(consumed) \cap discarded = {}

\* queue_depth is what is between the positions, but for those who moved a
\* position and have not counted yet.  It can be -1, a huge unsigned number, for
\* as long as a publisher is slower to count up than the consumer to count down.
DepthAccounts ==
    ~disturbed =>
      metrics.depth = write_pos - read_pos
        - Cardinality({p \in Publishers : publisher[p].pc = "count"})
        + Cardinality({p \in Publishers : publisher[p].pc = "discard"})
        + (IF consumer.pc \in {"copy", "release", "count"} THEN 1 ELSE 0)

\* When the destructor has joined the consumer, nothing that was accepted is left
\* in the ring undelivered.
ClosedIsDrained ==
    ~disturbed /\ consumer.pc = "gone" =>
      accepted \subseteq Range(consumed) \cup discarded

\* The ring keeps what publish promised, in order, whole, and counted, until the
\* bus is closed (publish, consumer_loop, shutdown).
RingIsSound ==
    TypeOK /\ NoTornCopy /\ AnswersAreTrue /\ InOrder /\ DepthAccounts /\ ClosedIsDrained

\* With a subscriber, what was accepted is delivered or discarded as the oldest,
\* also when the bus is destroyed meanwhile.
AcceptedIsDelivered ==
    \A m \in 1 .. MaxMessages :
      (m \in accepted /\ subscribers > 0)
        ~> (disturbed \/ m \in Range(consumed) \cup discarded)

\* With a subscriber every call of publish returns, under Block without a timeout
\* too.
PublishReturns ==
    \A p \in Publishers :
      (Publishing(p) /\ subscribers > 0) ~> (disturbed \/ ~Publishing(p))
=============================================================================
