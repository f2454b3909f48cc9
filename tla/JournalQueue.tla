---------------------------- MODULE JournalQueue ----------------------------
(***************************************************************************)
(* What persist::LockFreeRingBuffer promises to the event journal: a       *)
(* bounded queue with several producers and one consumer.  A producer      *)
(* claims the next place of the queue and fills it a moment later; the     *)
(* consumer takes the first place, but not before it is filled, even when  *)
(* places behind it are.  The cells, their sequence numbers and the        *)
(* positions that realise it are in module JournalRing.                    *)
(*                                                                         *)
(* The queue is a sequence of places, and its operations are operators on  *)
(* such sequences, for the event journal to use.                           *)
(***************************************************************************)
EXTENDS Naturals, Sequences

CONSTANTS
    Producers,
    Values,    \* what is queued
    Capacity,  \* N of LockFreeRingBuffer, a power of two
    Nobody     \* the owner of a place that is filled

VARIABLES
    queue,  \* the places, each with the producer that has yet to fill it
    taken   \* what the consumer took last

vars == <<queue, taken>>

Places == [owner : Producers \cup {Nobody}, value : Values]

Room(q) == Len(q) < Capacity

Claimed(q, p, v) == Append(q, [owner |-> p, value |-> v])

Filling(q, p) == \E k \in DOMAIN q : q[k].owner = p

Filled(q, p) ==
    [k \in DOMAIN q |-> IF q[k].owner = p THEN [q[k] EXCEPT !.owner = Nobody] ELSE q[k]]

CanTake(q) == q # <<>> /\ Head(q).owner = Nobody

-----------------------------------------------------------------------------

Init == queue = <<>> /\ taken = Nobody

Claim(p, v) ==
    /\ ~Filling(queue, p)
    /\ Room(queue)
    /\ queue' = Claimed(queue, p, v)
    /\ UNCHANGED taken

Fill(p) ==
    /\ Filling(queue, p)
    /\ queue' = Filled(queue, p)
    /\ UNCHANGED taken

Take ==
    /\ CanTake(queue)
    /\ queue' = Tail(queue)
    /\ taken' = Head(queue).value

Next ==
    \/ \E p \in Producers, v \in Values : Claim(p, v)
    \/ \E p \in Producers : Fill(p)
    \/ Take

Spec == Init /\ [][Next]_vars
=============================================================================
