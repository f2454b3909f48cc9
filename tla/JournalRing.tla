----------------------------- MODULE JournalRing -----------------------------
(***************************************************************************)
(* persist::LockFreeRingBuffer, step by step: an array of cells, each with *)
(* a sequence number that tells whose turn the cell is, and two positions  *)
(* that only grow.  A push reads write_pos_, then the sequence number of   *)
(* the cell it leads to, claims the cell with a compare-and-swap of        *)
(* write_pos_, writes the value and gives the cell to the consumer with a  *)
(* store of the sequence number; a pop is the same on the other side.      *)
(*                                                                         *)
(* Each load, store and compare-and-swap of an atomic, and each access to  *)
(* a cell's value, is one step of one thread.  The acquire loads and       *)
(* release stores of the sequence numbers order the accesses to the        *)
(* values; interleavings of the steps are all there is as long as no two   *)
(* threads access one value at once, which is an invariant here.           *)
(***************************************************************************)
EXTENDS Integers, Sequences, FiniteSets

CONSTANTS
    Producers, Values, Capacity,
    Nobody,       \* also what a cell or a thread holds that holds no value
    MaxPosition   \* bound: how many pushes a behaviour claims

ASSUME RingAssumption ==
    /\ Capacity \in Nat \ {0, 1}   \* the static_assert of the class
    /\ Nobody \notin Producers

VARIABLES
    cells,      \* cells_: sequence and value
    write_pos,
    read_pos,
    push,       \* the locals of each producer's try_push
    pop,        \* the locals of the consumer's try_pop
    taken       \* history: what try_pop returned last

vars == <<cells, write_pos, read_pos, push, pop, taken>>

Indices == 0 .. Capacity - 1

CellAt(pos) == cells[pos % Capacity]

Idle == [pc |-> "idle", pos |-> 0, value |-> Nobody]

-----------------------------------------------------------------------------
(* try_push                                                                *)

PushBegin(p, v) ==
    /\ push[p].pc = "idle"
    /\ write_pos < MaxPosition
    /\ push' = [push EXCEPT ![p] = [pc |-> "check", pos |-> write_pos, value |-> v]]
    /\ UNCHANGED <<cells, write_pos, read_pos, pop, taken>>

\* Deviation: a cell is free for anyone who comes, whatever lap it is.
PushCheckAnyLap(p) ==
    /\ push[p].pc = "check"
    /\ push' = [push EXCEPT ![p].pc = "swap"]
    /\ UNCHANGED <<cells, write_pos, read_pos, pop, taken>>

\* Deviation: a push that finds another producer was faster gives up.
PushCheckOnce(p) ==
    /\ push[p].pc = "check"
    /\ push' = [push EXCEPT ![p] =
                  IF CellAt(push[p].pos).sequence = push[p].pos THEN [@ EXCEPT !.pc = "swap"]
                  ELSE Idle]
    /\ UNCHANGED <<cells, write_pos, read_pos, pop, taken>>

\* The cell is free for this position, or still has the value of a lap ago and
\* the push is refused, or another producer was faster.
PushCheck(p) ==
    /\ push[p].pc = "check"
    /\ LET diff == CellAt(push[p].pos).sequence - push[p].pos
       IN  push' = [push EXCEPT ![p] =
                      IF diff = 0 THEN [@ EXCEPT !.pc = "swap"]
                      ELSE IF diff < 0 THEN Idle
                      ELSE [@ EXCEPT !.pos = write_pos]]
    /\ UNCHANGED <<cells, write_pos, read_pos, pop, taken>>

\* compare_exchange_weak may fail for no reason.
PushSwap(p) ==
    /\ push[p].pc = "swap"
    /\ \/ /\ write_pos = push[p].pos
          /\ write_pos' = write_pos + 1
          /\ push' = [push EXCEPT ![p].pc = "write"]
       \/ /\ push' = [push EXCEPT ![p].pc = "check", ![p].pos = write_pos]
          /\ UNCHANGED write_pos
    /\ UNCHANGED <<cells, read_pos, pop, taken>>

PushWrite(p) ==
    /\ push[p].pc = "write"
    /\ cells' = [cells EXCEPT ![push[p].pos % Capacity].value = push[p].value]
    /\ push' = [push EXCEPT ![p].pc = "publish"]
    /\ UNCHANGED <<write_pos, read_pos, pop, taken>>

PushPublish(p) ==
    /\ push[p].pc = "publish"
    /\ cells' = [cells EXCEPT ![push[p].pos % Capacity].sequence = push[p].pos + 1]
    /\ push' = [push EXCEPT ![p] = Idle]
    /\ UNCHANGED <<write_pos, read_pos, pop, taken>>

-----------------------------------------------------------------------------
(* try_pop                                                                 *)

PopBegin ==
    /\ pop.pc = "idle"
    /\ pop' = [pop EXCEPT !.pc = "check", !.pos = read_pos]
    /\ UNCHANGED <<cells, write_pos, read_pos, push, taken>>

\* With one consumer the cell never is ahead of read_pos_.
PopCheck ==
    /\ pop.pc = "check"
    /\ LET diff == CellAt(pop.pos).sequence - (pop.pos + 1)
       IN  pop' = IF diff = 0 THEN [pop EXCEPT !.pc = "swap"]
                  ELSE IF diff < 0 THEN Idle
                  ELSE [pop EXCEPT !.pos = read_pos]
    /\ UNCHANGED <<cells, write_pos, read_pos, push, taken>>

PopSwap ==
    /\ pop.pc = "swap"
    /\ \/ /\ read_pos = pop.pos
          /\ read_pos' = read_pos + 1
          /\ pop' = [pop EXCEPT !.pc = "read"]
       \/ /\ pop' = [pop EXCEPT !.pc = "check", !.pos = read_pos]
          /\ UNCHANGED read_pos
    /\ UNCHANGED <<cells, write_pos, push, taken>>

\* Deviation: the cell is looked up again after the position has moved.
PopReadNext ==
    /\ pop.pc = "read"
    /\ pop' = [pop EXCEPT !.pc = "release", !.value = CellAt(read_pos).value]
    /\ UNCHANGED <<cells, write_pos, read_pos, push, taken>>

\* The value is moved out; what is left in the cell is not read again.
PopRead ==
    /\ pop.pc = "read"
    /\ pop' = [pop EXCEPT !.pc = "release", !.value = CellAt(pop.pos).value]
    /\ UNCHANGED <<cells, write_pos, read_pos, push, taken>>

PopRelease ==
    /\ pop.pc = "release"
    /\ cells' = [cells EXCEPT ![pop.pos % Capacity].sequence = pop.pos + Capacity]
    /\ pop' = Idle
    /\ taken' = pop.value
    /\ UNCHANGED <<write_pos, read_pos, push>>

-----------------------------------------------------------------------------

Init ==
    /\ cells = [i \in Indices |-> [sequence |-> i, value |-> Nobody]]
    /\ write_pos = 0
    /\ read_pos = 0
    /\ push = [p \in Producers |-> Idle]
    /\ pop = Idle
    /\ taken = Nobody

Next ==
    \/ \E p \in Producers, v \in Values : PushBegin(p, v)
    \/ \E p \in Producers : PushCheck(p) \/ PushSwap(p) \/ PushWrite(p) \/ PushPublish(p)
    \/ PopBegin \/ PopCheck \/ PopSwap \/ PopRead \/ PopRelease

Spec == Init /\ [][Next]_vars

-----------------------------------------------------------------------------
(* Properties                                                              *)

Holders(index) ==
    {p \in Producers : push[p].pc \in {"write", "publish"} /\ push[p].pos % Capacity = index}

Reading(index) == pop.pc \in {"read", "release"} /\ pop.pos % Capacity = index

\* The value of a cell, which is not atomic, is accessed by one thread at a time:
\* at most one producer holds a cell, and none while the consumer reads it.
NoRace ==
    \A i \in Indices : /\ Cardinality(Holders(i)) <= 1
                       /\ Reading(i) => Holders(i) = {}

\* The positions whose cells are not given back yet.
First == IF pop.pc \in {"read", "release"} THEN read_pos - 1 ELSE read_pos

AbstractQueue ==
    [k \in 1 .. write_pos - First |->
       LET pos == First + k - 1
           holders == {p \in Holders(pos % Capacity) : push[p].pos = pos}
       IN  IF holders # {}
           THEN LET p == CHOOSE p \in holders : TRUE
                IN  [owner |-> p, value |-> push[p].value]
           ELSE [owner |-> Nobody, value |-> CellAt(pos).value]]

\* A push that is refused found the queue full: no event is dropped while a
\* cell is free, however many producers race for it.
RefusedIsFull ==
    [][\A p \in Producers :
         push[p].pc = "check" /\ push'[p].pc = "idle" => Len(AbstractQueue) = Capacity]_vars

Queue == INSTANCE JournalQueue WITH queue <- AbstractQueue

\* The ring implements the bounded queue: places are claimed in order, filled by
\* their owners, and taken first to last with the values that were pushed.
ImplementsQueue == Queue!Spec
=============================================================================
