---------------------------- MODULE PersistProofs ----------------------------
(***************************************************************************)
(* The queues between the trading threads and the disk, for every          *)
(* capacity and every number of producers: the lock-free ring of the event *)
(* journal, and the writer of the market ticks.                            *)
(***************************************************************************)
EXTENDS JournalRing, DataWriter, FiniteSetTheorems, SequenceTheorems, TLAPS

-----------------------------------------------------------------------------
(* Positions and cells                                                     *)

\* A multiple of the capacity that is not zero is at least one capacity away.
LEMMA Multiples ==
    ASSUME NEW c \in Nat, NEW j \in Int, NEW k \in Int, j < k
    PROVE  c * j + c <= c * k
OBVIOUS

\* A position is a number of laps and an index, in one way.
LEMMA LapAndIndex ==
    ASSUME NEW j \in Int, NEW k \in Int,
           NEW m \in 0 .. Capacity - 1, NEW n \in 0 .. Capacity - 1,
           Capacity * j + m = Capacity * k + n
    PROVE  j = k /\ m = n
<1>1. Capacity \in Nat /\ Capacity > 0
  BY RingAssumption
<1>2. CASE j < k
  BY <1>1, <1>2, Multiples
<1>3. CASE k < j
  BY <1>1, <1>3, Multiples
<1>4. QED BY <1>1, <1>2, <1>3

LEMMA IndexType ==
    ASSUME NEW pos \in Int
    PROVE  /\ pos % Capacity \in 0 .. Capacity - 1 /\ pos % Capacity \in Indices
           /\ pos \div Capacity \in Int
           /\ pos = Capacity * (pos \div Capacity) + (pos % Capacity)
BY RingAssumption DEF Indices

LEMMA IndexIs ==
    ASSUME NEW j \in Int, NEW m \in 0 .. Capacity - 1
    PROVE  (Capacity * j + m) % Capacity = m
<1> DEFINE pos == Capacity * j + m
<1>1. pos \in Int
  BY RingAssumption
<1> HIDE DEF pos
<1>2. m = pos % Capacity
  BY <1>1, IndexType, LapAndIndex DEF pos
<1>3. QED BY <1>2 DEF pos

\* Two positions closer than a lap do not share a cell.
LEMMA OneLap ==
    ASSUME NEW x \in Int, NEW y \in Int, x < y, y < x + Capacity
    PROVE  x % Capacity # y % Capacity
<1> DEFINE j == x \div Capacity
           k == y \div Capacity
<1>1. /\ Capacity \in Nat /\ Capacity > 0
      /\ j \in Int /\ k \in Int
      /\ x = Capacity * j + (x % Capacity)
      /\ y = Capacity * k + (y % Capacity)
      /\ x % Capacity \in 0 .. Capacity - 1
      /\ y % Capacity \in 0 .. Capacity - 1
  BY IndexType, RingAssumption
<1> HIDE DEF j, k
<1>2. CASE j < k
  BY <1>1, <1>2, Multiples
<1>3. CASE k < j
  BY <1>1, <1>3, Multiples
<1>4. CASE j = k
  BY <1>1, <1>4
<1>5. QED BY <1>1, <1>2, <1>3, <1>4

\* Positions that are laps apart share one.
LEMMA LapsApart ==
    ASSUME NEW pos \in Int, NEW j \in Int
    PROVE  (pos + Capacity * j) % Capacity = pos % Capacity
<1> DEFINE k == pos \div Capacity
           m == pos % Capacity
<1>1. /\ k \in Int /\ m \in 0 .. Capacity - 1 /\ pos = Capacity * k + m
  BY IndexType
<1> HIDE DEF k, m
<1>2. pos + Capacity * j = Capacity * (k + j) + m
  BY <1>1, RingAssumption
<1>3. QED BY <1>1, <1>2, IndexIs DEF m

LEMMA NextLap ==
    ASSUME NEW pos \in Int
    PROVE  (pos + Capacity) % Capacity = pos % Capacity
<1>1. Capacity * 1 = Capacity
  BY RingAssumption
<1>2. QED BY <1>1, LapsApart

LEMMA FirstLap ==
    ASSUME NEW pos \in 0 .. Capacity - 1
    PROVE  pos % Capacity = pos
<1>1. Capacity * 0 + pos = pos
  BY RingAssumption
<1>2. QED BY <1>1, IndexIs

\* Each lap has a position for every cell.
LEMMA EveryLap ==
    ASSUME NEW pos \in Int, NEW first \in Int
    PROVE  \E x \in first .. first + Capacity - 1 : x % Capacity = pos % Capacity
<1> DEFINE j == (pos - first) \div Capacity
           m == (pos - first) % Capacity
<1>1. pos - first \in Int
  OBVIOUS
<1>2. /\ j \in Int /\ m \in 0 .. Capacity - 1 /\ pos - first = Capacity * j + m
  BY <1>1, IndexType
<1> HIDE DEF j, m
<1>3. /\ first + m \in first .. first + Capacity - 1
      /\ pos = (first + m) + Capacity * j
  BY <1>2, RingAssumption
<1>4. QED BY <1>2, <1>3, LapsApart

-----------------------------------------------------------------------------
(* The inductive invariant of the ring                                     *)

PushSteps == {"idle", "check", "swap", "write", "publish"}
PopSteps == {"idle", "check", "swap", "read", "release"}
Slots == [sequence : Nat, value : Values \cup {Nobody}]

Locals(steps) == [pc : steps, pos : Nat, value : Values \cup {Nobody}]

RingTypeOK ==
    /\ cells \in [Indices -> Slots]
    /\ write_pos \in Nat /\ read_pos \in Nat
    /\ push \in [Producers -> Locals(PushSteps)]
    /\ pop \in Locals(PopSteps)

Holds(p) == push[p].pc \in {"write", "publish"}

Held(pos) == \E p \in Producers : Holds(p) /\ push[p].pos = pos

Reads == pop.pc \in {"read", "release"}

\* The cells in use are those of the positions from First up to write_pos.
WindowOK ==
    /\ First \in Nat /\ First <= read_pos /\ read_pos <= write_pos
    /\ write_pos <= First + Capacity

\* A cell of the lap that begins at First is ready for the consumer exactly if it
\* is claimed and its producer is done with it; if not, it is a producer's.
CellsOK ==
    \A pos \in First .. First + Capacity - 1 :
      CellAt(pos).sequence = IF pos < write_pos /\ ~Held(pos) THEN pos + 1 ELSE pos

\* A producer that is about to claim the position the ring is at has seen its
\* cell free; one that holds a cell is the only one to hold it.
PushesOK ==
    \A p \in Producers :
      /\ push[p].pc # "idle" => push[p].value \in Values
      /\ push[p].pc \in {"check", "swap"} => push[p].pos <= write_pos
      /\ push[p].pc = "swap" /\ push[p].pos = write_pos => write_pos < First + Capacity
      /\ Holds(p) => /\ push[p].pos \in First .. write_pos - 1
                     /\ \A q \in Producers \ {p} : Holds(q) => push[q].pos # push[p].pos
      /\ push[p].pc = "publish" => CellAt(push[p].pos).value = push[p].value

\* The consumer is at read_pos, or has claimed the position before it, whose
\* cell no producer holds.
PopOK ==
    /\ pop.pc \in {"check", "swap"} => pop.pos = read_pos
    /\ Reads => pop.pos = read_pos - 1
    /\ Reads \/ pop.pc = "swap" => CellAt(pop.pos).sequence = pop.pos + 1
    /\ pop.pc = "release" => CellAt(pop.pos).value = pop.value

RingInv == RingTypeOK /\ WindowOK /\ CellsOK /\ PushesOK /\ PopOK

LEMMA InitRingInv == Init => RingInv
<1> SUFFICES ASSUME Init PROVE RingInv
  OBVIOUS
<1>1. RingTypeOK
  BY RingAssumption DEF Init, RingTypeOK, Indices, Slots, Locals, PushSteps, PopSteps, Idle
<1>2. First = 0
  BY DEF Init, First, Idle
<1>3. WindowOK /\ PushesOK /\ PopOK
  BY <1>2, RingAssumption DEF Init, WindowOK, PushesOK, PopOK, Idle, Holds, Reads
<1>4. ASSUME NEW pos \in 0 .. Capacity - 1
      PROVE  CellAt(pos).sequence = pos
  BY FirstLap, RingAssumption DEF Init, CellAt, Indices
<1>5. CellsOK
  BY <1>2, <1>4, RingAssumption DEF Init, CellsOK
<1>6. QED BY <1>1, <1>3, <1>5 DEF RingInv

\* Two positions of the lap that begins at First lead to two cells.
LEMMA DistinctCells ==
    ASSUME RingInv,
           NEW x \in First .. First + Capacity - 1,
           NEW y \in First .. First + Capacity - 1,
           x % Capacity = y % Capacity
    PROVE  x = y
<1>1. /\ First \in Nat /\ x \in Int /\ y \in Int /\ Capacity \in Nat
      /\ x < y + Capacity /\ y < x + Capacity
  BY RingAssumption DEF RingInv, WindowOK
<1>2. CASE x < y
  BY <1>1, <1>2, OneLap
<1>3. CASE y < x
  BY <1>1, <1>3, OneLap
<1>4. QED BY <1>1, <1>2, <1>3

LEMMA PushBeginInv ==
    ASSUME RingInv, NEW p \in Producers, NEW v \in Values, PushBegin(p, v)
    PROVE  RingInv'
<1> USE DEF PushBegin, RingInv
<1>1. RingTypeOK'
  BY DEF RingTypeOK, Locals, PushSteps
<1>2. /\ push'[p] = [pc |-> "check", pos |-> write_pos, value |-> v]
      /\ \A q \in Producers \ {p} : push'[q] = push[q]
      /\ First' = First
  BY DEF RingTypeOK, First
<1>3. /\ \A q \in Producers : Holds(q)' <=> Holds(q)
      /\ \A pos : Held(pos)' <=> Held(pos)
  BY <1>2 DEF Holds, Held
<1>4. WindowOK' /\ CellsOK' /\ PopOK'
  BY <1>2, <1>3 DEF WindowOK, CellsOK, PopOK, CellAt, Reads
<1>5. PushesOK'
  BY <1>2, <1>3 DEF PushesOK, CellAt, RingTypeOK, Holds
<1>6. QED BY <1>1, <1>4, <1>5

LEMMA PushCheckInv ==
    ASSUME RingInv, NEW p \in Producers, PushCheck(p)
    PROVE  RingInv'
<1> USE DEF PushCheck, RingInv
<1> DEFINE diff == CellAt(push[p].pos).sequence - push[p].pos
<1>1. /\ push[p] \in Locals(PushSteps) /\ push[p].pos <= write_pos
      /\ CellAt(push[p].pos) \in Slots /\ diff \in Int
  BY IndexType DEF RingTypeOK, PushesOK, Locals, CellAt, Slots
<1>2. /\ push'[p] = IF diff = 0 THEN [push[p] EXCEPT !.pc = "swap"]
                    ELSE IF diff < 0 THEN Idle
                    ELSE [push[p] EXCEPT !.pos = write_pos]
      /\ \A q \in Producers \ {p} : push'[q] = push[q]
      /\ First' = First
  BY DEF RingTypeOK, First
<1>3. push'[p] \in Locals(PushSteps)
  BY <1>1, <1>2 DEF Locals, PushSteps, Idle, RingTypeOK
<1>4. RingTypeOK'
  BY <1>2, <1>3 DEF RingTypeOK
<1>5. /\ \A q \in Producers : Holds(q)' <=> Holds(q)
      /\ \A pos : Held(pos)' <=> Held(pos)
  BY <1>1, <1>2 DEF Holds, Held, Locals, Idle
<1>6. WindowOK' /\ CellsOK' /\ PopOK'
  BY <1>2, <1>5 DEF WindowOK, CellsOK, PopOK, CellAt, Reads
<1>7. ASSUME diff = 0, push[p].pos = write_pos
      PROVE  write_pos < First + Capacity
  <2> SUFFICES ASSUME write_pos = First + Capacity PROVE FALSE
    BY <1>1, RingAssumption DEF WindowOK, RingTypeOK
  <2>1. CellAt(write_pos) = CellAt(First)
    BY NextLap DEF CellAt, WindowOK
  <2>2. CellAt(First).sequence \in {First, First + 1}
    BY RingAssumption DEF CellsOK, WindowOK
  <2>3. QED BY <1>7, <2>1, <2>2, RingAssumption DEF WindowOK
<1>8. PushesOK'
  <2>1. /\ push'[p].pc # "idle" => push'[p].value = push[p].value
        /\ push'[p].pc \in {"check", "swap"} => push'[p].pos <= write_pos
        /\ push'[p].pc = "swap" /\ push'[p].pos = write_pos => diff = 0 /\ push[p].pos = write_pos
        /\ push'[p].pc # "publish"
    <3> HIDE DEF diff
    <3>1. CASE diff = 0
      BY <1>1, <1>2, <3>1 DEF Locals
    <3>2. CASE diff # 0 /\ diff < 0
      BY <1>1, <1>2, <3>2 DEF Locals, Idle
    <3>3. CASE diff # 0 /\ ~(diff < 0)
      BY <1>1, <1>2, <3>3, SMTT(60) DEF Locals, RingTypeOK
    <3>4. QED BY <3>1, <3>2, <3>3
  <2> HIDE DEF diff
  <2> SUFFICES ASSUME NEW q \in Producers
               PROVE  /\ push'[q].pc # "idle" => push'[q].value \in Values
                      /\ push'[q].pc \in {"check", "swap"} => push'[q].pos <= write_pos
                      /\ push'[q].pc = "swap" /\ push'[q].pos = write_pos
                           => write_pos < First + Capacity
                      /\ Holds(q) =>
                           /\ push'[q].pos \in First .. write_pos - 1
                           /\ \A o \in Producers \ {q} : Holds(o) => push'[o].pos # push'[q].pos
                      /\ push'[q].pc = "publish" => CellAt(push'[q].pos).value = push'[q].value
    BY <1>2, <1>5, ZenonT(60) DEF PushesOK, CellAt
  <2>2. CASE q = p
    BY <1>1, <1>7, <2>1, <2>2 DEF PushesOK, Holds
  <2>3. CASE q # p
    BY <1>1, <1>2, <2>3 DEF PushesOK, Holds
  <2>4. QED BY <2>2, <2>3
<1>9. QED BY <1>4, <1>6, <1>8

LEMMA PushSwapInv ==
    ASSUME RingInv, NEW p \in Producers, PushSwap(p)
    PROVE  RingInv'
<1> USE DEF PushSwap, RingInv
<1> DEFINE pos == push[p].pos
<1>1. /\ push[p] \in Locals(PushSteps) /\ pos \in Nat /\ pos <= write_pos
      /\ push[p].value \in Values /\ ~Holds(p)
  BY DEF RingTypeOK, PushesOK, Locals, Holds
<1>2. CASE write_pos = pos /\ write_pos' = write_pos + 1
           /\ push' = [push EXCEPT ![p].pc = "write"]
  <2>1. /\ push'[p] = [push[p] EXCEPT !.pc = "write"]
        /\ \A q \in Producers \ {p} : push'[q] = push[q]
        /\ First' = First
    BY <1>2 DEF RingTypeOK, First
  <2>2. write_pos < First + Capacity
    BY <1>2 DEF PushesOK
  <2>3. RingTypeOK'
    BY <1>1, <1>2, <2>1 DEF RingTypeOK, Locals, PushSteps
  <2>4. /\ \A q \in Producers : Holds(q)' <=> Holds(q) \/ q = p
        /\ \A x : Held(x)' <=> Held(x) \/ x = pos
    BY <1>1, <2>1 DEF Holds, Held, Locals
  <2>5. WindowOK'
    BY <1>2, <2>1, <2>2, RingAssumption DEF WindowOK, RingTypeOK
  <2>6. CellsOK'
    <3> SUFFICES ASSUME NEW x \in First .. First + Capacity - 1
                 PROVE  CellAt(x).sequence = IF x < write_pos + 1 /\ ~Held(x)'
                                             THEN x + 1 ELSE x
      BY <1>2, <2>1 DEF CellsOK, CellAt
    <3>1. CellAt(x).sequence = IF x < write_pos /\ ~Held(x) THEN x + 1 ELSE x
      BY DEF CellsOK
    <3>2. x \in Int /\ write_pos \in Int
      BY RingAssumption DEF WindowOK, RingTypeOK
    <3>3. QED BY <1>2, <2>4, <3>1, <3>2
  <2>7. PopOK'
    BY DEF PopOK, CellAt, Reads
  <2>8. PushesOK'
    BY <1>1, <1>2, <2>1, <2>2, <2>4, RingAssumption
       DEF PushesOK, CellAt, RingTypeOK, Holds, Locals, WindowOK
  <2>9. QED BY <2>3, <2>5, <2>6, <2>7, <2>8
<1>3. CASE push' = [push EXCEPT ![p].pc = "check", ![p].pos = write_pos]
           /\ UNCHANGED write_pos
  <2>1. /\ push'[p] = [push[p] EXCEPT !.pc = "check", !.pos = write_pos]
        /\ \A q \in Producers \ {p} : push'[q] = push[q]
        /\ First' = First
    BY <1>3 DEF RingTypeOK, First
  <2>2. RingTypeOK'
    BY <1>1, <1>3, <2>1 DEF RingTypeOK, Locals, PushSteps
  <2>3. /\ \A q \in Producers : Holds(q)' <=> Holds(q)
        /\ \A x : Held(x)' <=> Held(x)
    BY <1>1, <2>1 DEF Holds, Held, Locals
  <2>4. WindowOK' /\ CellsOK' /\ PopOK'
    BY <1>3, <2>1, <2>3 DEF WindowOK, CellsOK, PopOK, CellAt, Reads
  <2>5. PushesOK'
    BY <1>1, <1>3, <2>1, <2>3 DEF PushesOK, CellAt, RingTypeOK, Holds, Locals
  <2>6. QED BY <2>2, <2>4, <2>5
<1>4. QED BY <1>2, <1>3

\* What a producer that holds a cell knows of the others.
LEMMA HolderFacts ==
    ASSUME RingInv, NEW p \in Producers, Holds(p)
    PROVE  /\ push[p] \in Locals(PushSteps) /\ push[p].pos \in Nat
           /\ push[p].value \in Values
           /\ push[p].pos \in First .. First + Capacity - 1
           /\ push[p].pos < write_pos
           /\ push[p].pos % Capacity \in Indices
           /\ CellAt(push[p].pos).sequence = push[p].pos
           /\ \A q \in Producers \ {p} :
                Holds(q) => push[q].pos % Capacity # push[p].pos % Capacity
           /\ Reads => pop.pos % Capacity # push[p].pos % Capacity
<1> USE DEF RingInv
<1>1. /\ push[p] \in Locals(PushSteps) /\ push[p].pos \in Nat
      /\ push[p].value \in Values
  BY DEF RingTypeOK, PushesOK, Locals, Holds
<1>2. /\ push[p].pos \in First .. First + Capacity - 1
      /\ push[p].pos < write_pos
      /\ \A q \in Producers : Holds(q) => push[q].pos \in First .. First + Capacity - 1
  BY RingAssumption DEF PushesOK, WindowOK, RingTypeOK
<1>3. CellAt(push[p].pos).sequence = push[p].pos
  BY <1>2 DEF CellsOK, Held
<1>4. ASSUME NEW q \in Producers \ {p}, Holds(q)
      PROVE  push[q].pos % Capacity # push[p].pos % Capacity
  <2>1. push[q].pos # push[p].pos
    BY <1>4 DEF PushesOK
  <2>2. QED BY <1>2, <1>4, <2>1, DistinctCells
<1>5. ASSUME Reads, pop.pos % Capacity = push[p].pos % Capacity
      PROVE  FALSE
  <2>1. CellAt(pop.pos).sequence = pop.pos + 1 /\ pop.pos = First
    BY <1>5 DEF PopOK, First, Reads
  <2>2. pop.pos \in First .. First + Capacity - 1
    BY <2>1, RingAssumption DEF WindowOK
  <2>3. pop.pos = push[p].pos
    BY <1>2, <1>5, <2>2, DistinctCells
  <2>4. QED BY <1>1, <1>3, <2>1, <2>3
<1>6. QED BY <1>1, <1>2, <1>3, <1>4, <1>5, IndexType

LEMMA PushWriteInv ==
    ASSUME RingInv, NEW p \in Producers, PushWrite(p)
    PROVE  RingInv'
<1> USE DEF PushWrite, RingInv
<1> DEFINE i == push[p].pos % Capacity
<1>1. Holds(p) /\ push[p] \in Locals(PushSteps) /\ i \in Indices
  BY HolderFacts DEF Holds
<1>2. /\ push'[p] = [push[p] EXCEPT !.pc = "publish"]
      /\ \A q \in Producers \ {p} : push'[q] = push[q]
      /\ First' = First
      /\ \A k \in Indices : /\ cells'[k].sequence = cells[k].sequence
                            /\ cells'[k].value = IF k = i THEN push[p].value ELSE cells[k].value
  BY <1>1 DEF RingTypeOK, First, Slots
<1>3. RingTypeOK'
  BY <1>1, <1>2 DEF RingTypeOK, Locals, PushSteps, Slots
<1>4. /\ \A q \in Producers : Holds(q)' <=> Holds(q)
      /\ \A x : Held(x)' <=> Held(x)
  BY <1>1, <1>2 DEF Holds, Held, Locals
<1>5. \A x \in Int : CellAt(x).sequence' = CellAt(x).sequence
  BY <1>2, IndexType DEF CellAt
<1>6. WindowOK'
  BY <1>2 DEF WindowOK
<1>7. CellsOK'
  <2>1. \A x \in First .. First + Capacity - 1 : x \in Int
    BY RingAssumption DEF WindowOK
  <2>2. QED BY <1>2, <1>4, <1>5, <2>1 DEF CellsOK
<1>8. PopOK'
  <2>1. pop.pos \in Int
    BY DEF RingTypeOK, Locals
  <2>2. pop.pc = "release" => CellAt(pop.pos).value' = CellAt(pop.pos).value
    BY <1>1, <1>2, <2>1, HolderFacts, IndexType DEF CellAt, Reads
  <2>3. QED BY <1>5, <2>1, <2>2 DEF PopOK, Reads
<1>9. PushesOK'
  <2>1. CellAt(push[p].pos).value' = push[p].value
    BY <1>1, <1>2 DEF CellAt
  <2>2. ASSUME NEW q \in Producers \ {p}, push[q].pc = "publish"
        PROVE  CellAt(push[q].pos).value' = push[q].value
    <3>1. Holds(q) /\ push[q].pos % Capacity # i /\ push[q].pos % Capacity \in Indices
      BY <1>1, <2>2, HolderFacts DEF Holds
    <3>2. QED BY <1>2, <2>2, <3>1 DEF CellAt, PushesOK
  <2>3. \A q \in Producers :
          /\ push'[q].pos = push[q].pos /\ push'[q].value = push[q].value
          /\ push'[q].pc = IF q = p THEN "publish" ELSE push[q].pc
    BY <1>1, <1>2 DEF Locals
  <2>4. QED
    BY <1>1, <1>2, <1>4, <2>1, <2>2, <2>3 DEF PushesOK, Holds, CellAt
<1>10. QED BY <1>3, <1>6, <1>7, <1>8, <1>9

LEMMA PushPublishInv ==
    ASSUME RingInv, NEW p \in Producers, PushPublish(p)
    PROVE  RingInv'
<1> USE DEF PushPublish, RingInv
<1> DEFINE i == push[p].pos % Capacity
<1>1. Holds(p) /\ push[p] \in Locals(PushSteps) /\ i \in Indices /\ push[p].pos \in Nat
  BY HolderFacts DEF Holds
<1>2. /\ push'[p] = Idle
      /\ \A q \in Producers \ {p} : push'[q] = push[q]
      /\ First' = First
      /\ \A k \in Indices : /\ cells'[k].sequence = IF k = i THEN push[p].pos + 1
                                                   ELSE cells[k].sequence
                            /\ cells'[k].value = cells[k].value
  BY <1>1 DEF RingTypeOK, First, Slots
<1>3. RingTypeOK'
  BY <1>1, <1>2 DEF RingTypeOK, Locals, PushSteps, Slots, Idle
<1>4. /\ \A q \in Producers : Holds(q)' <=> Holds(q) /\ q # p
      /\ \A x : Held(x)' <=> Held(x) /\ x # push[p].pos
  BY <1>1, <1>2 DEF Holds, Held, Idle, PushesOK
<1>5. WindowOK'
  BY <1>2 DEF WindowOK
<1>6. CellsOK'
  <2> SUFFICES ASSUME NEW x \in First .. First + Capacity - 1
               PROVE  CellAt(x).sequence' = IF x < write_pos /\ ~Held(x)' THEN x + 1 ELSE x
    BY <1>2 DEF CellsOK
  <2>1. x \in Int /\ x % Capacity \in Indices
    BY IndexType, RingAssumption DEF WindowOK
  <2>2. CASE x = push[p].pos
    BY <1>1, <1>2, <1>4, <2>2, HolderFacts DEF CellAt
  <2>3. CASE x # push[p].pos
    <3>1. x % Capacity # i
      BY <1>1, <2>3, DistinctCells, HolderFacts
    <3>2. CellAt(x).sequence' = CellAt(x).sequence
      BY <1>2, <2>1, <3>1 DEF CellAt
    <3>3. QED BY <1>4, <2>3, <3>2 DEF CellsOK
  <2>4. QED BY <2>2, <2>3
<1>7. PopOK'
  <2>1. pop.pos \in Nat /\ pop.pos % Capacity \in Indices
    BY IndexType DEF RingTypeOK, Locals
  <2>2. ASSUME Reads \/ pop.pc = "swap"
        PROVE  pop.pos % Capacity # i
    <3>1. CASE Reads
      BY <1>1, <3>1, HolderFacts
    <3>2. CASE pop.pc = "swap"
      <4>1. pop.pos = First /\ CellAt(pop.pos).sequence = pop.pos + 1
        BY <3>2 DEF PopOK, First
      <4>2. pop.pos # push[p].pos
        BY <1>1, <2>1, <4>1, HolderFacts
      <4>3. QED
        BY <1>1, <4>1, <4>2, DistinctCells, HolderFacts, RingAssumption DEF WindowOK
    <3>3. QED BY <2>2, <3>1, <3>2
  <2>3. QED BY <1>2, <2>1, <2>2 DEF PopOK, Reads, CellAt
<1>8. PushesOK'
  <2>1. \A q \in Producers : push[q].pos % Capacity \in Indices
    BY IndexType DEF RingTypeOK, Locals
  <2>2. \A q \in Producers : CellAt(push[q].pos).value' = CellAt(push[q].pos).value \/ q = p
    BY <1>2, <2>1 DEF CellAt
  <2>3. QED
    BY <1>1, <1>2, <1>4, <2>2 DEF PushesOK, Locals, Holds, Idle, CellAt
<1>9. QED BY <1>3, <1>5, <1>6, <1>7, <1>8

LEMMA PopBeginInv ==
    ASSUME RingInv, PopBegin
    PROVE  RingInv'
<1> USE DEF PopBegin, RingInv
<1>1. pop' = [pc |-> "check", pos |-> read_pos, value |-> pop.value]
  BY DEF RingTypeOK, Locals
<1>2. RingTypeOK'
  BY <1>1 DEF RingTypeOK, Locals, PopSteps
<1>3. First' = First /\ ~Reads'
  BY <1>1 DEF First, Reads
<1>4. WindowOK' /\ CellsOK' /\ PushesOK'
  BY <1>3 DEF WindowOK, CellsOK, PushesOK, CellAt, Held, Holds
<1>5. PopOK'
  BY <1>1, <1>3 DEF PopOK, CellAt
<1>6. QED BY <1>2, <1>4, <1>5

LEMMA PopCheckInv ==
    ASSUME RingInv, PopCheck
    PROVE  RingInv'
<1> USE DEF PopCheck, RingInv
<1> DEFINE diff == CellAt(pop.pos).sequence - (pop.pos + 1)
<1>1. /\ pop \in Locals(PopSteps) /\ pop.pos = read_pos /\ read_pos \in Nat
      /\ CellAt(pop.pos).sequence \in Nat
  BY IndexType DEF RingTypeOK, PopOK, Locals, CellAt, Slots
<1>2. /\ pop' \in Locals(PopSteps) /\ ~Reads' /\ ~Reads
      /\ pop'.pc \in {"check", "swap"} => pop'.pos = read_pos
      /\ pop'.pc = "swap" => diff = 0
  <2> HIDE DEF diff
  <2>1. CASE diff = 0
    BY <1>1, <2>1 DEF Locals, PopSteps, Reads, diff
  <2>2. CASE diff # 0 /\ diff < 0
    BY <1>1, <2>2 DEF Locals, PopSteps, Reads, Idle, diff
  <2>3. CASE diff # 0 /\ ~(diff < 0)
    BY <1>1, <2>3 DEF Locals, PopSteps, Reads, diff
  <2>4. QED BY <2>1, <2>2, <2>3
<1>3. RingTypeOK' /\ First' = First
  BY <1>2 DEF RingTypeOK, First, Reads
<1>4. WindowOK' /\ CellsOK' /\ PushesOK'
  BY <1>3 DEF WindowOK, CellsOK, PushesOK, CellAt, Held, Holds
<1>5. PopOK'
  BY <1>1, <1>2 DEF PopOK, CellAt, Reads
<1>6. QED BY <1>3, <1>4, <1>5

LEMMA PopSwapInv ==
    ASSUME RingInv, PopSwap
    PROVE  RingInv'
<1> USE DEF PopSwap, RingInv
<1>1. /\ pop \in Locals(PopSteps) /\ pop.pos = read_pos /\ read_pos \in Nat
      /\ First = read_pos
      /\ CellAt(pop.pos).sequence = pop.pos + 1
  BY DEF RingTypeOK, PopOK, Locals, First
<1>2. CASE read_pos = pop.pos /\ read_pos' = read_pos + 1
           /\ pop' = [pop EXCEPT !.pc = "read"]
  <2>1. /\ pop'.pc = "read" /\ pop'.pos = pop.pos /\ pop' \in Locals(PopSteps)
        /\ First' = First
    BY <1>1, <1>2 DEF Locals, PopSteps, First
  <2>2. read_pos < write_pos
    BY <1>1, RingAssumption DEF CellsOK
  <2>3. RingTypeOK' /\ WindowOK'
    BY <1>1, <1>2, <2>1, <2>2 DEF RingTypeOK, WindowOK
  <2>4. CellsOK' /\ PushesOK'
    BY <1>2, <2>1 DEF CellsOK, PushesOK, CellAt, Held, Holds
  <2>5. PopOK'
    BY <1>1, <1>2, <2>1 DEF PopOK, CellAt, Reads
  <2>6. QED BY <2>3, <2>4, <2>5
<1>3. CASE pop' = [pop EXCEPT !.pc = "check", !.pos = read_pos] /\ UNCHANGED read_pos
  <2>1. pop'.pc = "check" /\ pop'.pos = read_pos /\ pop' \in Locals(PopSteps)
    BY <1>1, <1>3 DEF Locals, PopSteps
  <2>2. RingTypeOK' /\ First' = First
    BY <1>1, <1>3, <2>1 DEF RingTypeOK, First
  <2>3. WindowOK' /\ CellsOK' /\ PushesOK'
    BY <1>3, <2>2 DEF WindowOK, CellsOK, PushesOK, CellAt, Held, Holds
  <2>4. PopOK'
    BY <1>3, <2>1 DEF PopOK, CellAt, Reads
  <2>5. QED BY <2>2, <2>3, <2>4
<1>4. QED BY <1>2, <1>3

LEMMA PopReadInv ==
    ASSUME RingInv, PopRead
    PROVE  RingInv'
<1> USE DEF PopRead, RingInv
<1>1. /\ pop \in Locals(PopSteps) /\ pop.pos \in Nat
      /\ CellAt(pop.pos) \in Slots
  BY IndexType DEF RingTypeOK, Locals, CellAt
<1>2. /\ pop'.pc = "release" /\ pop'.pos = pop.pos /\ pop'.value = CellAt(pop.pos).value
      /\ pop' \in Locals(PopSteps)
  BY <1>1 DEF Locals, PopSteps, Slots
<1>3. RingTypeOK' /\ First' = First
  BY <1>2 DEF RingTypeOK, First
<1>4. WindowOK' /\ CellsOK' /\ PushesOK'
  BY <1>3 DEF WindowOK, CellsOK, PushesOK, CellAt, Held, Holds
<1>5. PopOK'
  BY <1>2 DEF PopOK, CellAt, Reads
<1>6. QED BY <1>3, <1>4, <1>5

LEMMA PopReleaseInv ==
    ASSUME RingInv, PopRelease
    PROVE  RingInv'
<1> USE DEF PopRelease, RingInv
<1> DEFINE i == pop.pos % Capacity
<1>1. /\ pop.pos \in Nat /\ i \in Indices /\ Reads
      /\ pop.pos = First /\ read_pos = First + 1
      /\ CellAt(First).sequence = First + 1
  BY IndexType DEF RingTypeOK, PopOK, Locals, First, Reads
<1>2. /\ First < write_pos /\ First' = First + 1
  BY <1>1, RingAssumption DEF CellsOK, WindowOK, First, Idle, RingTypeOK
<1>3. \A k \in Indices : /\ cells'[k].sequence = IF k = i THEN pop.pos + Capacity
                                                ELSE cells[k].sequence
                        /\ cells'[k].value = cells[k].value
  BY <1>1 DEF RingTypeOK, Slots
<1>4. RingTypeOK'
  BY <1>1, RingAssumption DEF RingTypeOK, Locals, PopSteps, Slots, Idle
<1>5. WindowOK'
  BY <1>1, <1>2, RingAssumption DEF WindowOK, RingTypeOK
<1>6. CellsOK'
  <2> SUFFICES ASSUME NEW x \in First + 1 .. First + Capacity
               PROVE  CellAt(x).sequence' = IF x < write_pos /\ ~Held(x) THEN x + 1 ELSE x
    BY <1>2, RingAssumption DEF CellsOK, Held, Holds, WindowOK
  <2>1. x \in Int /\ x % Capacity \in Indices /\ First \in Int
    BY IndexType, RingAssumption DEF WindowOK
  <2>2. CASE x = First + Capacity
    <3>1. x % Capacity = i /\ ~(x < write_pos)
      BY <1>1, <2>1, <2>2, NextLap, RingAssumption DEF WindowOK, RingTypeOK
    <3>2. QED BY <1>1, <1>3, <2>1, <2>2, <3>1 DEF CellAt
  <2>3. CASE x # First + Capacity
    <3>1. x \in First .. First + Capacity - 1 /\ First \in First .. First + Capacity - 1 /\ x # First
      BY <2>1, <2>3, RingAssumption
    <3>2. x % Capacity # i
      BY <1>1, <3>1, DistinctCells
    <3>3. QED BY <1>3, <2>1, <3>1, <3>2 DEF CellAt, CellsOK
  <2>4. QED BY <2>2, <2>3
<1>7. PopOK'
  BY DEF PopOK, Reads, Idle
<1>8. PushesOK'
  <2>1. \A q \in Producers : push[q].pos % Capacity \in Indices /\ push[q].pos \in Nat
    BY IndexType DEF RingTypeOK, Locals
  <2>2. \A q \in Producers : CellAt(push[q].pos).value' = CellAt(push[q].pos).value
    BY <1>3, <2>1 DEF CellAt
  <2>3. \A q \in Producers : Holds(q) => push[q].pos # First
    BY <1>1, HolderFacts
  <2>4. QED
    BY <1>1, <1>2, <2>1, <2>2, <2>3, RingAssumption DEF PushesOK, Holds, CellAt, RingTypeOK
<1>9. QED BY <1>4, <1>5, <1>6, <1>7, <1>8

THEOREM RingInvariant == Spec => []RingInv
<1>1. RingInv /\ [Next]_vars => RingInv'
  <2> SUFFICES ASSUME RingInv, [Next]_vars PROVE RingInv'
    OBVIOUS
  <2>1. CASE UNCHANGED vars
    BY <2>1 DEF vars, RingInv, RingTypeOK, WindowOK, CellsOK, PushesOK, PopOK, CellAt,
                Held, Holds, Reads, First
  <2>2. QED
    BY <2>1, PushBeginInv, PushCheckInv, PushSwapInv, PushWriteInv, PushPublishInv,
       PopBeginInv, PopCheckInv, PopSwapInv, PopReadInv, PopReleaseInv DEF Next
<1>2. QED
  BY <1>1, InitRingInv, PTL DEF Spec

-----------------------------------------------------------------------------
(* What it is for                                                          *)

\* No two threads access the value of a cell at once, however many producers push
\* and however the consumer runs behind (try_push, try_pop).
THEOREM RingNoRace == Spec => []NoRace
<1>1. RingInv => NoRace
  <2> SUFFICES ASSUME RingInv, NEW i \in Indices
               PROVE  /\ Cardinality(Holders(i)) <= 1
                      /\ Reading(i) => Holders(i) = {}
    BY DEF NoRace
  <2>1. ASSUME NEW p \in Holders(i)
        PROVE  Holders(i) = {p} /\ ~Reading(i)
    <3>1. p \in Producers /\ Holds(p) /\ push[p].pos % Capacity = i
      BY DEF Holders, Holds
    <3>2. QED
      BY <3>1, HolderFacts DEF Holders, Holds, Reading, Reads
  <2>2. CASE Holders(i) = {}
    BY <2>2, FS_EmptySet
  <2>3. CASE Holders(i) # {}
    <3>1. PICK p \in Holders(i) : TRUE
      BY <2>3
    <3>2. Holders(i) = {p} /\ ~Reading(i)
      BY <2>1, <3>1
    <3>3. Cardinality({p}) = 1
      BY FS_Singleton
    <3>4. QED BY <3>2, <3>3
  <2>4. QED BY <2>2, <2>3
<1>2. QED
  BY <1>1, RingInvariant, PTL

-----------------------------------------------------------------------------
(* The refinement                                                          *)

\* The place of the queue that a position is.
PlaceOf(pos) ==
    LET holders == {p \in Holders(pos % Capacity) : push[p].pos = pos}
    IN  IF holders # {}
        THEN LET p == CHOOSE p \in holders : TRUE
             IN  [owner |-> p, value |-> push[p].value]
        ELSE [owner |-> Nobody, value |-> CellAt(pos).value]

RingPlaces == [owner : Producers \cup {Nobody}, value : Values \cup {Nobody}]

\* A place belongs to the producer that holds the position, or is filled.
PlacesOK ==
    \A pos \in Nat :
      /\ PlaceOf(pos) \in RingPlaces
      /\ \A p \in Producers : Holds(p) /\ push[p].pos = pos =>
                               PlaceOf(pos) = [owner |-> p, value |-> push[p].value]
      /\ ~Held(pos) => PlaceOf(pos) = [owner |-> Nobody, value |-> CellAt(pos).value]

LEMMA PlaceFacts == RingInv => PlacesOK
<1> SUFFICES ASSUME RingInv, NEW pos \in Nat
             PROVE  /\ PlaceOf(pos) \in RingPlaces
                    /\ \A p \in Producers : Holds(p) /\ push[p].pos = pos =>
                               PlaceOf(pos) = [owner |-> p, value |-> push[p].value]
                    /\ ~Held(pos) => PlaceOf(pos) = [owner |-> Nobody, value |-> CellAt(pos).value]
  BY DEF PlacesOK
<1> DEFINE holders == {p \in Holders(pos % Capacity) : push[p].pos = pos}
<1>1. \A p : p \in holders <=> p \in Producers /\ Holds(p) /\ push[p].pos = pos
  BY DEF Holders, Holds
<1>2. ASSUME NEW p \in Producers, Holds(p), push[p].pos = pos
      PROVE  PlaceOf(pos) = [owner |-> p, value |-> push[p].value]
  <2>1. holders = {p}
    BY <1>1, <1>2 DEF RingInv, PushesOK
  <2> DEFINE chosen == CHOOSE q \in holders : TRUE
  <2>2. chosen = p
    BY <2>1
  <2>3. PlaceOf(pos) = IF holders # {} THEN [owner |-> chosen, value |-> push[chosen].value]
                       ELSE [owner |-> Nobody, value |-> CellAt(pos).value]
    BY DEF PlaceOf
  <2> HIDE DEF holders, chosen
  <2>4. QED BY <2>1, <2>2, <2>3
<1>3. ASSUME ~Held(pos)
      PROVE  PlaceOf(pos) = [owner |-> Nobody, value |-> CellAt(pos).value]
  BY <1>1, <1>3 DEF PlaceOf, Held
<1>4. PlaceOf(pos) \in RingPlaces
  <2>1. CASE Held(pos)
    BY <1>2, <2>1, HolderFacts DEF Held, RingPlaces
  <2>2. CASE ~Held(pos)
    <3>1. CellAt(pos).value \in Values \cup {Nobody}
      BY IndexType DEF RingInv, RingTypeOK, CellAt, Slots
    <3>2. QED BY <1>3, <2>2, <3>1 DEF RingPlaces
  <2>3. QED BY <2>1, <2>2
<1>5. QED BY <1>2, <1>3, <1>4

LEMMA NextPlaceFacts == (RingInv => PlacesOK)'
BY PlaceFacts, PTL

LEMMA FunctionIsSeq ==
    ASSUME NEW S, NEW n \in Nat, NEW f \in [1 .. n -> S]
    PROVE  f \in Seq(S) /\ Len(f) = n
<1>1. f \in Seq(S)
  BY SeqDef
<1>2. DOMAIN f = 1 .. Len(f) /\ Len(f) \in Nat
  BY <1>1, LenProperties
<1>3. QED BY <1>1, <1>2

QueueOK ==
    /\ AbstractQueue \in Seq(RingPlaces)
    /\ Len(AbstractQueue) = write_pos - First
    /\ \A k \in 1 .. write_pos - First : AbstractQueue[k] = PlaceOf(First + k - 1)

LEMMA QueueFacts == RingInv => QueueOK
<1> SUFFICES ASSUME RingInv PROVE QueueOK
  OBVIOUS
<1>1. First \in Nat /\ write_pos - First \in Nat
  BY DEF RingInv, WindowOK, RingTypeOK
<1>2. AbstractQueue = [k \in 1 .. write_pos - First |-> PlaceOf(First + k - 1)]
  BY DEF AbstractQueue, PlaceOf
<1>3. \A k \in 1 .. write_pos - First : PlaceOf(First + k - 1) \in RingPlaces
  <2>1. \A k \in 1 .. write_pos - First : First + k - 1 \in Nat
    BY <1>1
  <2>2. QED BY <2>1, PlaceFacts DEF PlacesOK
<1>4. AbstractQueue \in [1 .. write_pos - First -> RingPlaces]
  BY <1>2, <1>3
<1>5. QED BY <1>1, <1>2, <1>4, FunctionIsSeq DEF QueueOK

LEMMA NextQueueFacts == (RingInv => QueueOK)'
BY QueueFacts, PTL

\* A push is refused only when the queue is full: no event is dropped while a cell
\* is free, however many producers race for it (try_push).
THEOREM RingRefusesWhenFull == Spec => RefusedIsFull
<1>1. RingInv /\ [Next]_vars =>
        [\A p \in Producers :
          push[p].pc = "check" /\ push'[p].pc = "idle" => Len(AbstractQueue) = Capacity]_vars
  <2> SUFFICES ASSUME RingInv, Next, NEW p \in Producers,
                      push[p].pc = "check", push'[p].pc = "idle"
               PROVE  Len(AbstractQueue) = Capacity
    OBVIOUS
  <2> DEFINE pos == push[p].pos
             diff == CellAt(pos).sequence - pos
  <2>1. /\ pos \in Nat /\ pos <= write_pos /\ CellAt(pos).sequence \in Nat
        /\ push \in [Producers -> Locals(PushSteps)]
    BY IndexType DEF RingInv, RingTypeOK, PushesOK, CellAt, Slots, Locals
  <2>2. PushCheck(p)
    <3>1. ASSUME NEW q \in Producers, NEW v \in Values, PushBegin(q, v)
          PROVE  FALSE
      BY <2>1, <3>1 DEF PushBegin, Locals
    <3>2. ASSUME NEW q \in Producers, PushSwap(q) \/ PushWrite(q) \/ PushPublish(q)
          PROVE  FALSE
      BY <2>1, <3>2 DEF PushSwap, PushWrite, PushPublish, Locals
    <3>3. ASSUME NEW q \in Producers, PushCheck(q), q # p
          PROVE  FALSE
      BY <2>1, <3>3 DEF PushCheck
    <3>4. ASSUME PopBegin \/ PopCheck \/ PopSwap \/ PopRead \/ PopRelease
          PROVE  FALSE
      BY <3>4 DEF PopBegin, PopCheck, PopSwap, PopRead, PopRelease
    <3>5. QED BY <3>1, <3>2, <3>3, <3>4 DEF Next
  <2>3. diff < 0
    <3> SUFFICES ASSUME ~(diff < 0) PROVE FALSE
      OBVIOUS
    <3>1. push'[p] = IF diff = 0 THEN [push[p] EXCEPT !.pc = "swap"]
                     ELSE [push[p] EXCEPT !.pos = write_pos]
      BY <2>1, <2>2 DEF PushCheck
    <3> HIDE DEF diff
    <3>2. QED BY <2>1, <3>1 DEF Locals
  <2>4. First \in Nat /\ write_pos \in Nat /\ write_pos <= First + Capacity
    BY DEF RingInv, WindowOK, RingTypeOK
  <2>5. \A x \in First .. First + Capacity - 1 : CellAt(x).sequence >= x
    BY <2>4, RingAssumption DEF RingInv, CellsOK
  \* The cell of a position that the consumer is done with is in a later lap.
  <2>6. ~(pos < First)
    <3> SUFFICES ASSUME pos < First PROVE FALSE
      OBVIOUS
    <3>1. pos \in Int /\ First \in Int
      BY <2>1, <2>4
    <3>2. PICK x \in First .. First + Capacity - 1 : x % Capacity = pos % Capacity
      BY <3>1, EveryLap, Zenon
    <3>3. CellAt(x) = CellAt(pos)
      BY <3>2 DEF CellAt
    <3>4. CellAt(x).sequence >= x
      BY <2>5
    <3>5. QED BY <2>1, <2>3, <2>4, <3>3, <3>4, RingAssumption
  <2>7. write_pos = First + Capacity
    BY <2>1, <2>3, <2>4, <2>5, <2>6, RingAssumption
  <2>8. QED BY <2>4, <2>7, QueueFacts, RingAssumption DEF QueueOK
<1>2. QED
  BY <1>1, RingInvariant, PTL DEF Spec, RefusedIsFull

\* A position that the step leaves alone is the same place of the queue.
LEMMA SamePlace ==
    ASSUME RingInv, RingInv', NEW pos \in Nat,
           \A p \in Producers : Holds(p) /\ push[p].pos = pos =>
             Holds(p)' /\ push'[p].pos = pos /\ push'[p].value = push[p].value,
           Held(pos)' => Held(pos),
           ~Held(pos) => CellAt(pos).value' = CellAt(pos).value
    PROVE  PlaceOf(pos)' = PlaceOf(pos)
<1>1. PlacesOK /\ PlacesOK'
  BY PlaceFacts, NextPlaceFacts
<1>2. CASE Held(pos)
  <2>1. PICK p \in Producers : Holds(p) /\ push[p].pos = pos
    BY <1>2 DEF Held
  <2>2. Holds(p)' /\ push'[p].pos = pos /\ push'[p].value = push[p].value
    BY <2>1
  <2>3. PlaceOf(pos) = [owner |-> p, value |-> push[p].value]
    BY <1>1, <2>1 DEF PlacesOK
  <2>4. PlaceOf(pos)' = [owner |-> p, value |-> push'[p].value]
    BY <1>1, <2>2 DEF PlacesOK
  <2>5. QED BY <2>2, <2>3, <2>4
<1>3. CASE ~Held(pos)
  <2>1. ~Held(pos)'
    BY <1>3
  <2>2. QED BY <1>1, <1>3, <2>1 DEF PlacesOK
<1>4. QED BY <1>2, <1>3

LEMMA SameQueue ==
    ASSUME RingInv, First' = First, write_pos' = write_pos,
           \A pos \in First .. write_pos - 1 : PlaceOf(pos)' = PlaceOf(pos)
    PROVE  AbstractQueue' = AbstractQueue
<1>1. First \in Nat /\ write_pos \in Nat
  BY DEF RingInv, WindowOK, RingTypeOK
<1>2. /\ AbstractQueue = [k \in 1 .. write_pos - First |-> PlaceOf(First + k - 1)]
      /\ AbstractQueue' = [k \in 1 .. write_pos - First |-> PlaceOf(First + k - 1)']
  BY DEF AbstractQueue, PlaceOf
<1>3. \A k \in 1 .. write_pos - First : First + k - 1 \in First .. write_pos - 1
  BY <1>1
<1>4. QED BY <1>2, <1>3

LEMMA InitQueue == Init => Queue!Init
<1> SUFFICES ASSUME Init PROVE AbstractQueue = <<>> /\ taken = Nobody
  BY DEF Queue!Init
<1>1. Len(AbstractQueue) = 0 /\ AbstractQueue \in Seq(RingPlaces)
  BY InitRingInv, QueueFacts DEF QueueOK, Init, First, Idle
<1>2. QED BY <1>1, EmptySeq DEF Init

\* The claim of a position puts an open place at the end of the queue.
LEMMA SwapClaims ==
    ASSUME RingInv, RingInv', NEW p \in Producers, PushSwap(p), write_pos' # write_pos
    PROVE  Queue!Claim(p, push[p].value)
<1> DEFINE q == AbstractQueue
           n == write_pos - First
           place == [owner |-> p, value |-> push[p].value]
<1>1. /\ push[p] \in Locals(PushSteps) /\ ~Holds(p)
      /\ push[p].pos = write_pos /\ write_pos' = write_pos + 1
      /\ push' = [push EXCEPT ![p].pc = "write"]
      /\ First' = First /\ First \in Nat /\ write_pos \in Nat /\ n \in Nat
      /\ write_pos < First + Capacity
  BY DEF PushSwap, RingInv, RingTypeOK, PushesOK, WindowOK, Locals, Holds, First
<1>2. /\ \A o \in Producers : push'[o].pos = push[o].pos /\ push'[o].value = push[o].value
      /\ \A o \in Producers \ {p} : push'[o] = push[o]
      /\ Holds(p)'
      /\ \A pos \in Nat : CellAt(pos)' = CellAt(pos)
  BY <1>1 DEF RingInv, RingTypeOK, Locals, Holds, PushSwap, CellAt
<1>3. /\ q \in Seq(RingPlaces) /\ Len(q) = n
      /\ \A k \in 1 .. n : q[k] = PlaceOf(First + k - 1)
      /\ q' \in Seq(RingPlaces) /\ Len(q') = n + 1
      /\ \A k \in 1 .. n + 1 : q'[k] = PlaceOf(First + k - 1)'
  BY <1>1, QueueFacts, NextQueueFacts DEF QueueOK
<1>4. ASSUME NEW k \in 1 .. n
      PROVE  q'[k] = q[k] /\ q[k].owner # p
  <2>1. PICK pos \in Nat : pos = First + k - 1
    BY <1>1
  <2>2. pos < write_pos
    BY <1>1, <2>1
  <2>3. /\ \A o \in Producers : Holds(o)' <=> Holds(o) \/ o = p
        /\ Held(pos)' => Held(pos)
    BY <1>1, <1>2, <2>2 DEF Holds, Held
  <2>4. PlaceOf(pos)' = PlaceOf(pos)
    BY <1>2, <2>3, SamePlace
  <2>5. PlaceOf(pos).owner # p
    BY <1>1, PlaceFacts, RingAssumption DEF PlacesOK, Held
  <2>6. QED BY <1>1, <1>3, <2>1, <2>4, <2>5
<1>5. q'[n + 1] = place
  <2>1. PICK pos \in Nat : pos = write_pos
    BY <1>1
  <2>2. PlaceOf(pos)' = [owner |-> p, value |-> push'[p].value]
    BY <1>1, <1>2, <2>1, NextPlaceFacts DEF PlacesOK
  <2>3. q'[n + 1] = PlaceOf(pos)'
    BY <1>1, <1>3, <2>1
  <2>4. QED BY <1>2, <2>2, <2>3
<1>6. place \in RingPlaces
  BY <1>1 DEF RingPlaces, Locals
<1>7. q' = Append(q, place)
  <2> HIDE DEF q, place, n
  <2>1. /\ Append(q, place) \in Seq(RingPlaces) /\ Len(Append(q, place)) = n + 1
        /\ \A k \in 1 .. n + 1 : Append(q, place)[k] = IF k = n + 1 THEN place ELSE q[k]
    BY <1>1, <1>3, <1>6
  <2>2. \A k \in 1 .. n + 1 : q'[k] = Append(q, place)[k]
    BY <1>1, <1>4, <1>5, <2>1
  <2>3. QED BY <1>3, <2>1, <2>2, SeqEqual
<1>8. ~Queue!Filling(q, p)
  <2>1. DOMAIN q = 1 .. n
    BY <1>3, LenProperties
  <2>2. QED BY <1>4, <2>1 DEF Queue!Filling
<1>9. Queue!Room(q) /\ taken' = taken
  <2>1. Len(q) < Capacity
    <3> HIDE DEF q
    <3>1. QED BY <1>1, <1>3, RingAssumption
  <2>2. QED BY <2>1 DEF Queue!Room, PushSwap
<1>10. QED
  BY <1>7, <1>8, <1>9 DEF Queue!Claim, Queue!Claimed

\* Publishing the sequence number fills the producer's place.
LEMMA PublishFills ==
    ASSUME RingInv, RingInv', NEW p \in Producers, PushPublish(p)
    PROVE  Queue!Fill(p)
<1> DEFINE q == AbstractQueue
           n == write_pos - First
<1>1. PICK mine \in Nat : mine = push[p].pos
  BY DEF RingInv, RingTypeOK, Locals
<1>2. /\ Holds(p) /\ mine \in First .. write_pos - 1 /\ mine \in Nat
      /\ First' = First /\ First \in Nat /\ write_pos' = write_pos /\ write_pos \in Nat
      /\ n \in Nat /\ mine % Capacity \in Indices
      /\ CellAt(mine).value = push[p].value
  BY <1>1, IndexType DEF PushPublish, RingInv, RingTypeOK, PushesOK, WindowOK, Locals, Holds, First
<1>3. /\ push'[p] = Idle
      /\ \A o \in Producers \ {p} : push'[o] = push[o]
      /\ \A pos \in Nat : CellAt(pos).value' = CellAt(pos).value
  BY <1>1, <1>2, IndexType DEF PushPublish, RingInv, RingTypeOK, CellAt, Slots
<1>4. /\ q \in Seq(RingPlaces) /\ DOMAIN q = 1 .. n
      /\ \A k \in 1 .. n : q[k] = PlaceOf(First + k - 1)
      /\ q' \in Seq(RingPlaces) /\ DOMAIN q' = 1 .. n
      /\ \A k \in 1 .. n : q'[k] = PlaceOf(First + k - 1)'
  BY <1>2, QueueFacts, NextQueueFacts, LenProperties DEF QueueOK
<1>5. \A o \in Producers : Holds(o) /\ push[o].pos = mine => o = p
  BY <1>1, <1>2 DEF RingInv, PushesOK
<1>6. /\ PlaceOf(mine) = [owner |-> p, value |-> push[p].value]
      /\ PlaceOf(mine)' = [owner |-> Nobody, value |-> push[p].value]
  <2>1. ~Held(mine)'
    <3> SUFFICES ASSUME NEW o \in Producers, Holds(o)', push'[o].pos = mine PROVE FALSE
      BY DEF Held
    <3>1. o # p
      BY <1>3 DEF Holds, Idle
    <3>2. Holds(o) /\ push[o].pos = mine
      BY <1>3, <3>1 DEF Holds
    <3>3. QED BY <1>5, <3>1, <3>2
  <2>2. PlaceOf(mine) = [owner |-> p, value |-> push[p].value]
    <3>1. PlacesOK /\ Holds(p) /\ push[p].pos = mine
      BY <1>1, <1>2, PlaceFacts
    <3>2. QED BY <3>1 DEF PlacesOK
  <2>3. PlaceOf(mine)' = [owner |-> Nobody, value |-> CellAt(mine).value']
    BY <2>1, NextPlaceFacts DEF PlacesOK
  <2>4. QED BY <1>2, <1>3, <2>2, <2>3
<1>7. ASSUME NEW pos \in Nat, pos # mine
      PROVE  PlaceOf(pos)' = PlaceOf(pos) /\ PlaceOf(pos).owner # p
  <2>1. PlaceOf(pos).owner # p
    <3>1. CASE Held(pos)
      <4>1. PICK o \in Producers : Holds(o) /\ push[o].pos = pos
        BY <3>1 DEF Held
      <4>2. PlaceOf(pos) = [owner |-> o, value |-> push[o].value]
        BY <4>1, PlaceFacts DEF PlacesOK
      <4>3. QED BY <1>1, <1>7, <4>1, <4>2
    <3>2. CASE ~Held(pos)
      <4>1. PlaceOf(pos) = [owner |-> Nobody, value |-> CellAt(pos).value]
        BY <3>2, PlaceFacts DEF PlacesOK
      <4>2. QED BY <4>1, RingAssumption
    <3>3. QED BY <3>1, <3>2
  <2>2. Held(pos)' => Held(pos)
    <3> SUFFICES ASSUME NEW o \in Producers, Holds(o)', push'[o].pos = pos PROVE Held(pos)
      BY DEF Held
    <3>1. o # p
      BY <1>3 DEF Holds, Idle
    <3>2. QED BY <1>3, <3>1 DEF Held, Holds
  <2>3. \A o \in Producers : Holds(o) /\ push[o].pos = pos =>
          Holds(o)' /\ push'[o].pos = pos /\ push'[o].value = push[o].value
    <3> SUFFICES ASSUME NEW o \in Producers, Holds(o), push[o].pos = pos
                 PROVE  Holds(o)' /\ push'[o].pos = pos /\ push'[o].value = push[o].value
      OBVIOUS
    <3>1. o # p
      BY <1>1, <1>7
    <3>2. QED BY <1>3, <3>1 DEF Holds
  <2>4. CellAt(pos).value' = CellAt(pos).value
    BY <1>3
  <2>5. PlaceOf(pos)' = PlaceOf(pos)
    BY <2>2, <2>3, <2>4, SamePlace
  <2>6. QED BY <2>1, <2>5
<1>8. ASSUME NEW k \in 1 .. n
      PROVE  q'[k] = IF q[k].owner = p THEN [q[k] EXCEPT !.owner = Nobody] ELSE q[k]
  <2>1. PICK pos \in Nat : pos = First + k - 1
    BY <1>2
  <2>2. q[k] = PlaceOf(pos) /\ q'[k] = PlaceOf(pos)'
    BY <1>2, <1>4, <2>1
  <2>3. QED BY <1>6, <1>7, <2>2
<1>9. q' = Queue!Filled(q, p)
  <2>1. q' = [k \in 1 .. n |-> q'[k]]
    BY <1>4
  <2>2. QED BY <1>4, <1>8, <2>1 DEF Queue!Filled
<1>10. Queue!Filling(q, p)
  <2>1. PICK k \in 1 .. n : First + k - 1 = mine
    <3>1. First \in Nat /\ write_pos \in Nat /\ mine \in First .. write_pos - 1
      BY <1>2
    <3>2. mine - First + 1 \in 1 .. n /\ First + (mine - First + 1) - 1 = mine
      BY <3>1
    <3>3. QED BY <3>2
  <2>2. k \in DOMAIN q /\ q[k] = PlaceOf(mine)
    BY <1>4, <2>1
  <2>3. q[k].owner = p
    BY <1>6, <2>2
  <2>4. QED BY <2>2, <2>3 DEF Queue!Filling
<1>11. QED
  BY <1>9, <1>10 DEF Queue!Fill, PushPublish

\* Giving the first cell back takes the first place, which is filled.
LEMMA ReleaseTakes ==
    ASSUME RingInv, RingInv', PopRelease
    PROVE  Queue!Take
<1> DEFINE q == AbstractQueue
           n == write_pos - First
<1>1. /\ First \in Nat /\ write_pos \in Nat /\ n \in Nat \ {0}
      /\ First' = First + 1 /\ write_pos' = write_pos
      /\ push' = push /\ taken' = pop.value
      /\ pop.pos = First /\ CellAt(First).value = pop.value
      /\ First % Capacity \in Indices
      /\ cells' = [cells EXCEPT ![First % Capacity].sequence = First + Capacity]
  <2>1. /\ read_pos \in Nat /\ write_pos \in Nat /\ First \in Nat
        /\ pop.pc = "release" /\ pop.pos = read_pos - 1 /\ read_pos <= write_pos
        /\ CellAt(pop.pos).value = pop.value /\ pop'.pc = "idle"
        /\ UNCHANGED <<write_pos, read_pos, push>> /\ taken' = pop.value
        /\ cells' = [cells EXCEPT ![pop.pos % Capacity].sequence = pop.pos + Capacity]
    BY DEF PopRelease, RingInv, RingTypeOK, WindowOK, PopOK, Reads, Idle
  <2>2. First = read_pos - 1 /\ First' = read_pos
    BY <2>1 DEF First
  <2>3. pop.pos = First /\ write_pos - First \in Nat \ {0}
    BY <2>1, <2>2
  <2>4. First % Capacity \in Indices
    BY <2>1, IndexType
  <2>5. QED BY <2>1, <2>2, <2>3, <2>4
<1>2. \A pos \in Nat : CellAt(pos).value' = CellAt(pos).value
  BY <1>1, IndexType DEF RingInv, RingTypeOK, CellAt, Slots
<1>3. /\ q \in Seq(RingPlaces) /\ Len(q) = n
      /\ \A k \in 1 .. n : q[k] = PlaceOf(First + k - 1)
      /\ q' \in Seq(RingPlaces) /\ Len(q') = n - 1
      /\ \A k \in 1 .. n - 1 : q'[k] = PlaceOf(First + k - 1)'
  <2>1. QueueOK /\ QueueOK'
    BY QueueFacts, NextQueueFacts
  <2>2. write_pos' - First' = n - 1
    BY <1>1
  <2>3. \A k \in 1 .. n - 1 : q'[k] = PlaceOf(First + k - 1)'
    BY <2>1, <2>2 DEF QueueOK
  <2>4. QED BY <1>1, <2>1, <2>2, <2>3 DEF QueueOK
<1>4. PlaceOf(First) = [owner |-> Nobody, value |-> pop.value]
  <2>1. CellAt(First).sequence = First + 1
    BY <1>1 DEF RingInv, PopOK, Reads, PopRelease
  <2>2. ~Held(First)
    BY <1>1, <2>1, RingAssumption DEF RingInv, CellsOK
  <2>3. QED BY <1>1, <2>2, PlaceFacts DEF PlacesOK
<1>5. ASSUME NEW k \in 1 .. n - 1
      PROVE  q'[k] = q[k + 1]
  <2>1. PICK pos \in Nat : pos = First + 1 + k - 1
    BY <1>1
  <2>2. PlaceOf(pos)' = PlaceOf(pos)
    BY <1>1, <1>2, SamePlace DEF Holds, Held
  <2>3. q'[k] = PlaceOf(pos)'
    <3>1. First' + k - 1 = pos
      BY <1>1, <2>1
    <3>2. QED BY <1>3, <3>1
  <2>4. q[k + 1] = PlaceOf(pos)
    <3>1. k + 1 \in 1 .. n /\ First + (k + 1) - 1 = pos
      BY <1>1, <2>1
    <3>2. q[k + 1] = PlaceOf(First + (k + 1) - 1)
      BY <1>3, <3>1
    <3>3. QED BY <3>1, <3>2
  <2>5. QED BY <2>2, <2>3, <2>4
<1>6. q # <<>> /\ Head(q) = PlaceOf(First)
  <2>1. q # <<>> /\ Head(q) = q[1]
    BY <1>1, <1>3
  <2>2. 1 \in 1 .. n /\ First + 1 - 1 = First
    BY <1>1
  <2>3. q[1] = PlaceOf(First + 1 - 1)
    BY <1>3, <2>2
  <2>4. QED BY <2>1, <2>2, <2>3
<1>7. q' = Tail(q)
  <2> HIDE DEF q, n
  <2>1. /\ Tail(q) \in Seq(RingPlaces) /\ Len(Tail(q)) = n - 1
        /\ \A k \in 1 .. n - 1 : Tail(q)[k] = q[k + 1]
    BY <1>1, <1>3, <1>6, HeadTailProperties
  <2>2. QED BY <1>3, <1>5, <2>1, SeqEqual
<1>8. QED
  BY <1>1, <1>4, <1>6, <1>7 DEF Queue!Take, Queue!CanTake

\* The steps that are the thread's own business do not show in the queue.
LEMMA OwnSteps ==
    ASSUME RingInv, RingInv', NEW p \in Producers,
           \/ \E v \in Values : PushBegin(p, v)
           \/ PushCheck(p)
           \/ PushSwap(p) /\ write_pos' = write_pos
           \/ PushWrite(p)
    PROVE  UNCHANGED Queue!vars
<1>1. /\ First' = First /\ write_pos' = write_pos /\ taken' = taken
      /\ First \in Nat /\ write_pos \in Nat
      /\ push \in [Producers -> Locals(PushSteps)]
      /\ \A o \in Producers \ {p} : push'[o] = push[o]
  BY DEF PushBegin, PushCheck, PushSwap, PushWrite, First, RingInv, WindowOK, RingTypeOK
<1>2. /\ Holds(p)' <=> Holds(p)
      /\ Holds(p) => push'[p].pos = push[p].pos /\ push'[p].value = push[p].value
  <2>1. ASSUME NEW v \in Values, PushBegin(p, v)
        PROVE  ~Holds(p) /\ ~Holds(p)'
    BY <1>1, <2>1 DEF PushBegin, Holds
  <2>2. ASSUME PushCheck(p)
        PROVE  ~Holds(p) /\ ~Holds(p)'
    <3> DEFINE diff == CellAt(push[p].pos).sequence - push[p].pos
    <3>1. push'[p] = IF diff = 0 THEN [push[p] EXCEPT !.pc = "swap"]
                     ELSE IF diff < 0 THEN Idle
                     ELSE [push[p] EXCEPT !.pos = write_pos]
      BY <1>1, <2>2 DEF PushCheck
    <3> HIDE DEF diff
    <3>2. push[p].pc = "check"
      BY <2>2 DEF PushCheck
    <3>3. QED BY <1>1, <3>1, <3>2 DEF Holds, Idle, Locals
  <2>3. ASSUME PushSwap(p), write_pos' = write_pos
        PROVE  ~Holds(p) /\ ~Holds(p)'
    BY <1>1, <2>3 DEF PushSwap, Holds, Locals
  <2>4. ASSUME PushWrite(p)
        PROVE  Holds(p) /\ Holds(p)' /\ push'[p].pos = push[p].pos
                 /\ push'[p].value = push[p].value
    BY <1>1, <2>4 DEF PushWrite, Holds, Locals
  <2>5. QED BY <2>1, <2>2, <2>3, <2>4
<1>3. \A o \in Producers : /\ Holds(o)' <=> Holds(o)
                           /\ Holds(o) => push'[o].pos = push[o].pos
                                            /\ push'[o].value = push[o].value
  BY <1>1, <1>2 DEF Holds
<1>4. ASSUME NEW pos \in First .. write_pos - 1
      PROVE  PlaceOf(pos)' = PlaceOf(pos)
  <2>1. pos \in Nat
    BY <1>1
  <2>2. Held(pos)' <=> Held(pos)
    BY <1>3 DEF Held
  <2>3. ~Held(pos) => CellAt(pos).value' = CellAt(pos).value
    <3>1. CASE PushWrite(p)
      <4> SUFFICES ASSUME ~Held(pos) PROVE CellAt(pos).value' = CellAt(pos).value
        OBVIOUS
      <4>1. /\ push[p].pos \in First .. write_pos - 1 /\ pos # push[p].pos
            /\ write_pos <= First + Capacity
        BY <3>1 DEF PushWrite, RingInv, PushesOK, WindowOK, Held, Holds
      <4>2. pos % Capacity # push[p].pos % Capacity
        <5>1. /\ pos \in First .. First + Capacity - 1
              /\ push[p].pos \in First .. First + Capacity - 1
          BY <1>1, <4>1, RingAssumption
        <5>2. QED BY <4>1, <5>1, DistinctCells
      <4>3. CellAt(pos)' = CellAt(pos)
        <5>1. cells' = [cells EXCEPT ![push[p].pos % Capacity].value = push[p].value]
          BY <3>1 DEF PushWrite
        <5>2. pos % Capacity \in Indices /\ cells \in [Indices -> Slots]
          BY <2>1, IndexType DEF RingInv, RingTypeOK
        <5>3. QED BY <4>2, <5>1, <5>2 DEF CellAt
      <4>4. QED BY <4>3
    <3>2. CASE ~PushWrite(p)
      BY <3>2 DEF PushBegin, PushCheck, PushSwap, CellAt
    <3>3. QED BY <3>1, <3>2
  <2>4. QED BY <1>3, <2>1, <2>2, <2>3, SamePlace
<1>5. AbstractQueue' = AbstractQueue
  BY <1>1, <1>4, SameQueue
<1>6. QED BY <1>1, <1>5 DEF Queue!vars

\* Neither do the consumer's, until it gives the cell back.
LEMMA ConsumerSteps ==
    ASSUME RingInv, RingInv', PopBegin \/ PopCheck \/ PopSwap \/ PopRead
    PROVE  UNCHANGED Queue!vars
<1>1. /\ write_pos' = write_pos /\ taken' = taken /\ push' = push /\ cells' = cells
      /\ First \in Nat /\ write_pos \in Nat
      /\ pop \in Locals(PopSteps) /\ read_pos \in Nat
  BY DEF PopBegin, PopCheck, PopSwap, PopRead, RingInv, WindowOK, RingTypeOK
<1>2. First' = First
  <2>1. CASE PopCheck
    <3> DEFINE diff == CellAt(pop.pos).sequence - (pop.pos + 1)
    <3>1. pop' = IF diff = 0 THEN [pop EXCEPT !.pc = "swap"]
                 ELSE IF diff < 0 THEN Idle
                 ELSE [pop EXCEPT !.pos = read_pos]
      BY <2>1 DEF PopCheck
    <3> HIDE DEF diff
    <3>2. pop.pc = "check" /\ read_pos' = read_pos
      BY <2>1 DEF PopCheck
    <3>3. pop'.pc \notin {"read", "release"}
      BY <1>1, <3>1, <3>2 DEF Idle, Locals
    <3>4. QED BY <3>2, <3>3 DEF First
  <2>2. CASE PopBegin
    BY <1>1, <2>2 DEF PopBegin, First, Locals
  <2>3. CASE PopSwap
    <3>1. First = read_pos /\ read_pos' \in Int
      BY <1>1, <2>3 DEF PopSwap, First
    <3>2. \/ pop'.pc = "read" /\ read_pos' - 1 = read_pos
          \/ pop'.pc = "check" /\ read_pos' = read_pos
      <4>1. CASE read_pos' = read_pos + 1 /\ pop' = [pop EXCEPT !.pc = "read"]
        BY <1>1, <4>1 DEF Locals
      <4>2. CASE read_pos' = read_pos /\ pop' = [pop EXCEPT !.pc = "check", !.pos = read_pos]
        BY <1>1, <4>2 DEF Locals
      <4>3. QED BY <2>3, <4>1, <4>2 DEF PopSwap
    <3>3. First' = IF pop'.pc \in {"read", "release"} THEN read_pos' - 1 ELSE read_pos'
      BY DEF First
    <3>4. QED BY <3>1, <3>2, <3>3
  <2>4. CASE PopRead
    BY <1>1, <2>4 DEF PopRead, First, Locals
  <2>5. QED BY <2>1, <2>2, <2>3, <2>4
<1>3. \A pos \in First .. write_pos - 1 : PlaceOf(pos)' = PlaceOf(pos)
  BY <1>1 DEF PlaceOf, Holders, CellAt
<1>4. AbstractQueue' = AbstractQueue
  BY <1>1, <1>2, <1>3, SameQueue
<1>5. QED BY <1>1, <1>4 DEF Queue!vars

\* The ring implements the queue the event journal is built on: places are claimed
\* in order, filled by their owners, and taken first to last with the values that
\* were pushed (LockFreeRingBuffer).
THEOREM RingImplementsQueue == Spec => ImplementsQueue
<1>1. RingInv /\ RingInv' /\ [Next]_vars => [Queue!Next]_(Queue!vars)
  <2> SUFFICES ASSUME RingInv, RingInv', [Next]_vars
               PROVE  Queue!Next \/ UNCHANGED Queue!vars
    OBVIOUS
  <2>1. ASSUME NEW p \in Producers, PushSwap(p), write_pos' # write_pos
        PROVE  Queue!Next
    <3>1. push[p].value \in Values
      BY <2>1 DEF RingInv, PushesOK, PushSwap
    <3>2. QED BY <2>1, <3>1, SwapClaims DEF Queue!Next
  <2>2. ASSUME NEW p \in Producers, PushPublish(p)
        PROVE  Queue!Next
    BY <2>2, PublishFills DEF Queue!Next
  <2>3. ASSUME PopRelease
        PROVE  Queue!Next
    BY <2>3, ReleaseTakes DEF Queue!Next
  <2>4. ASSUME NEW p \in Producers,
               \/ \E v \in Values : PushBegin(p, v)
               \/ PushCheck(p) \/ PushWrite(p)
               \/ PushSwap(p) /\ write_pos' = write_pos
        PROVE  UNCHANGED Queue!vars
    BY <2>4, OwnSteps
  <2>5. ASSUME PopBegin \/ PopCheck \/ PopSwap \/ PopRead
        PROVE  UNCHANGED Queue!vars
    BY <2>5, ConsumerSteps
  <2>6. ASSUME UNCHANGED vars
        PROVE  UNCHANGED Queue!vars
    BY <2>6 DEF vars, Queue!vars, AbstractQueue, Holders, CellAt, First
  <2>7. QED
    BY <2>1, <2>2, <2>3, <2>4, <2>5, <2>6 DEF Next
<1>2. QED
  BY <1>1, InitQueue, RingInvariant, PTL DEF Spec, ImplementsQueue, Queue!Spec

-----------------------------------------------------------------------------
(* The writer: ticks and lines in order                                    *)

FileLines == Ticks \cup {Header}

InOrder(s) == \A i, j \in DOMAIN s : i < j => Precedes(s[i], s[j])
Before(S, T) == \A t \in S, u \in T : Precedes(t, u)

\* A tick does not precede itself, so what is in order is there once.
LEMMA BeforeApart ==
    ASSUME NEW S, NEW T, S \subseteq Ticks, Before(S, T)
    PROVE  S \cap T = {}
<1> SUFFICES ASSUME NEW t \in Ticks, Precedes(t, t) PROVE FALSE
  BY DEF Before
<1>1. t[2] \in Nat \ {0}
  BY DEF Ticks
<1>2. Header[2] = 0
  BY DEF Header
<1>3. t # Header
  BY <1>1, <1>2
<1>4. QED BY <1>1, <1>3 DEF Precedes

\* The header of a file is a line without a place in the order.
LEMMA HeaderAnywhere ==
    ASSUME NEW S, NEW T, Before(S \ {Header}, T)
    PROVE  /\ Before(S, T) /\ Before(S, T \cup {Header})
           /\ Before({Header}, T)
BY DEF Before, Precedes

LEMMA LineOfTick == Ticks \subseteq FileLines /\ Header \in FileLines /\ Header \notin Ticks
<1>1. Header[2] = 0
  BY DEF Header
<1>2. \A t \in Ticks : t[2] # 0
  BY DEF Ticks
<1>3. QED BY <1>1, <1>2 DEF FileLines

LEMMA EmptyIsInOrder == ToSet(<<>>) = {} /\ InOrder(<<>>)
BY DEF ToSet, InOrder

LEMMA AppendInOrder ==
    ASSUME NEW S, NEW s \in Seq(S), NEW x \in S
    PROVE  /\ Append(s, x) \in Seq(S) /\ Len(Append(s, x)) = Len(s) + 1
           /\ ToSet(Append(s, x)) = ToSet(s) \cup {x}
           /\ InOrder(s) /\ Before(ToSet(s), {x}) => InOrder(Append(s, x))
<1> DEFINE a == Append(s, x)
<1>1. /\ a \in Seq(S) /\ Len(a) = Len(s) + 1 /\ a[Len(s) + 1] = x
      /\ \A i \in 1 .. Len(s) : a[i] = s[i]
  BY AppendProperties
<1>2. /\ DOMAIN a = 1 .. Len(s) + 1 /\ DOMAIN s = 1 .. Len(s) /\ Len(s) \in Nat
  BY <1>1, LenProperties
<1> HIDE DEF a
<1>3. ToSet(a) = ToSet(s) \cup {x}
  <2>1. \A i \in DOMAIN a : a[i] \in ToSet(s) \cup {x}
    BY <1>1, <1>2 DEF ToSet
  <2>2. \A i \in DOMAIN s : i \in DOMAIN a /\ a[i] = s[i]
    BY <1>1, <1>2
  <2>3. Len(s) + 1 \in DOMAIN a
    BY <1>2
  <2>4. QED BY <2>1, <2>2, <2>3, <1>1 DEF ToSet
<1>4. ASSUME InOrder(s), Before(ToSet(s), {x}) PROVE InOrder(a)
  <2> SUFFICES ASSUME NEW i \in DOMAIN a, NEW j \in DOMAIN a, i < j
               PROVE  Precedes(a[i], a[j])
    BY DEF InOrder
  <2>1. i \in DOMAIN s /\ a[i] = s[i]
    BY <1>1, <1>2
  <2>2. CASE j \in DOMAIN s
    BY <2>1, <2>2, <1>1, <1>2, <1>4 DEF InOrder
  <2>3. CASE j = Len(s) + 1
    <3>1. a[i] \in ToSet(s) /\ a[j] = x
      BY <2>1, <2>3, <1>1 DEF ToSet
    <3>2. QED BY <3>1, <1>4 DEF Before
  <2>4. QED BY <2>2, <2>3, <1>2
<1>5. QED BY <1>1, <1>3, <1>4 DEF a

LEMMA ConcatInOrder ==
    ASSUME NEW S, NEW s \in Seq(S), NEW t \in Seq(S)
    PROVE  /\ s \o t \in Seq(S)
           /\ ToSet(s \o t) = ToSet(s) \cup ToSet(t)
           /\ InOrder(s) /\ InOrder(t) /\ Before(ToSet(s), ToSet(t)) => InOrder(s \o t)
<1> DEFINE c == s \o t
<1>1. PICK m \in Nat, n \in Nat : m = Len(s) /\ n = Len(t)
  BY LenProperties
<1>2. /\ c \in Seq(S) /\ Len(c) = m + n
      /\ \A i \in 1 .. m + n : c[i] = IF i <= m THEN s[i] ELSE t[i - m]
  BY <1>1, ConcatProperties
<1>3. DOMAIN c = 1 .. m + n /\ DOMAIN s = 1 .. m /\ DOMAIN t = 1 .. n
  BY <1>1, <1>2, LenProperties
<1> HIDE DEF c
<1>4. /\ \A i \in DOMAIN s : i \in DOMAIN c /\ c[i] = s[i]
      /\ \A i \in DOMAIN t : i + m \in DOMAIN c /\ c[i + m] = t[i]
  BY <1>2, <1>3
<1>5. \A i \in DOMAIN c : \/ i \in DOMAIN s /\ c[i] = s[i]
                          \/ i - m \in DOMAIN t /\ c[i] = t[i - m] /\ i > m
  BY <1>2, <1>3
<1>6. ToSet(c) = ToSet(s) \cup ToSet(t)
  BY <1>4, <1>5 DEF ToSet
<1>7. ASSUME InOrder(s), InOrder(t), Before(ToSet(s), ToSet(t)) PROVE InOrder(c)
  <2> SUFFICES ASSUME NEW i \in DOMAIN c, NEW j \in DOMAIN c, i < j
               PROVE  Precedes(c[i], c[j])
    BY DEF InOrder
  <2>1. CASE i \in DOMAIN s /\ c[i] = s[i] /\ j \in DOMAIN s /\ c[j] = s[j]
    BY <2>1, <1>7 DEF InOrder
  <2>2. CASE i \in DOMAIN s /\ c[i] = s[i] /\ j - m \in DOMAIN t /\ c[j] = t[j - m]
    <3>1. c[i] \in ToSet(s) /\ c[j] \in ToSet(t)
      BY <2>2 DEF ToSet
    <3>2. QED BY <3>1, <1>7 DEF Before
  <2>3. CASE i - m \in DOMAIN t /\ c[i] = t[i - m] /\ j - m \in DOMAIN t /\ c[j] = t[j - m]
    <3>1. i - m < j - m
      BY <1>3
    <3>2. QED BY <2>3, <3>1, <1>7 DEF InOrder
  <2>4. CASE i - m \in DOMAIN t /\ i > m /\ j \in DOMAIN s
    BY <2>4, <1>3
  <2>5. QED BY <2>1, <2>2, <2>3, <2>4, <1>5
<1>8. QED BY <1>2, <1>6, <1>7 DEF c

LEMMA TailInOrder ==
    ASSUME NEW S, NEW s \in Seq(S), s # <<>>
    PROVE  /\ Head(s) \in S /\ Tail(s) \in Seq(S) /\ Len(Tail(s)) = Len(s) - 1
           /\ ToSet(s) = {Head(s)} \cup ToSet(Tail(s))
           /\ InOrder(s) => InOrder(Tail(s)) /\ Before({Head(s)}, ToSet(Tail(s)))
<1> DEFINE t == Tail(s)
<1>1. PICK m \in Nat : m = Len(s)
  BY LenProperties
<1>2. m > 0
  BY <1>1, EmptySeq
<1>3. /\ Head(s) \in S /\ t \in Seq(S) /\ Len(t) = m - 1
      /\ \A i \in 1 .. m - 1 : t[i] = s[i + 1]
  BY <1>1, HeadTailProperties
<1>4. Head(s) = s[1]
  OBVIOUS
<1>5. DOMAIN s = 1 .. m /\ DOMAIN t = 1 .. m - 1
  BY <1>1, <1>3, LenProperties
<1> HIDE DEF t
<1>6. /\ \A i \in DOMAIN t : i + 1 \in DOMAIN s /\ 1 < i + 1 /\ t[i] = s[i + 1]
      /\ 1 \in DOMAIN s
  BY <1>2, <1>3, <1>5
<1>7. ToSet(s) = {s[1]} \cup ToSet(t)
  <2>1. \A i \in DOMAIN s : i = 1 \/ (i - 1 \in DOMAIN t /\ t[i - 1] = s[i])
    BY <1>3, <1>5
  <2>2. QED BY <2>1, <1>6 DEF ToSet
<1>8. ASSUME InOrder(s) PROVE InOrder(t) /\ Before({s[1]}, ToSet(t))
  <2>1. \A i, j \in DOMAIN t : i < j => Precedes(t[i], t[j])
    <3> SUFFICES ASSUME NEW i \in DOMAIN t, NEW j \in DOMAIN t, i < j
                 PROVE  Precedes(t[i], t[j])
      OBVIOUS
    <3>1. i + 1 < j + 1
      BY <1>5
    <3>2. QED BY <3>1, <1>6, <1>8 DEF InOrder
  <2>2. \A i \in DOMAIN t : Precedes(s[1], t[i])
    BY <1>6, <1>8 DEF InOrder
  <2>3. QED BY <2>1, <2>2 DEF InOrder, Before, ToSet
<1>9. QED BY <1>1, <1>3, <1>4, <1>7, <1>8 DEF t

LEMMA SplitInOrder ==
    ASSUME NEW S, NEW s \in Seq(S), NEW n \in 0 .. Len(s)
    PROVE  LET a == SubSeq(s, 1, n)
               b == SubSeq(s, n + 1, Len(s))
           IN  /\ a \in Seq(S) /\ Len(a) = n
               /\ b \in Seq(S) /\ Len(b) = Len(s) - n
               /\ ToSet(s) = ToSet(a) \cup ToSet(b)
               /\ InOrder(s) => InOrder(a) /\ InOrder(b) /\ Before(ToSet(a), ToSet(b))
<1> DEFINE a == SubSeq(s, 1, n)
           b == SubSeq(s, n + 1, Len(s))
<1>1. PICK m \in Nat : m = Len(s)
  BY LenProperties
<1>2. n \in Nat /\ n <= m
  BY <1>1
<1>3. \A i \in 1 .. m : s[i] \in S
  BY <1>1, ElementOfSeq
<1>4. /\ a \in Seq(S) /\ Len(a) = n
      /\ \A i \in 1 .. n : a[i] = s[i]
  <2>1. \A i \in 1 .. n : s[i] \in S
    BY <1>2, <1>3
  <2>2. /\ a \in Seq(S) /\ Len(a) = IF 1 <= n THEN n - 1 + 1 ELSE 0
        /\ \A i \in 1 .. n - 1 + 1 : a[i] = s[1 + i - 1]
    BY <2>1, <1>2, SubSeqProperties
  <2>3. QED BY <2>2, <1>2
<1>5. /\ b \in Seq(S) /\ Len(b) = m - n
      /\ \A i \in 1 .. m - n : b[i] = s[n + i]
  <2>1. \A i \in n + 1 .. m : s[i] \in S
    BY <1>2, <1>3
  <2>2. /\ b \in Seq(S) /\ Len(b) = IF n + 1 <= m THEN m - (n + 1) + 1 ELSE 0
        /\ \A i \in 1 .. m - (n + 1) + 1 : b[i] = s[n + 1 + i - 1]
    BY <2>1, <1>1, <1>2, SubSeqProperties
  <2>3. QED BY <2>2, <1>2
<1>6. DOMAIN s = 1 .. m /\ DOMAIN a = 1 .. n /\ DOMAIN b = 1 .. m - n
  BY <1>1, <1>4, <1>5, LenProperties
<1> HIDE DEF a, b
<1>7. /\ \A i \in DOMAIN a : i \in DOMAIN s /\ a[i] = s[i]
      /\ \A i \in DOMAIN b : n + i \in DOMAIN s /\ b[i] = s[n + i]
  <2>1. \A i \in DOMAIN a : i \in DOMAIN s /\ a[i] = s[i]
    BY <1>2, <1>4, <1>6
  <2>2. \A i \in DOMAIN b : n + i \in DOMAIN s /\ b[i] = s[n + i]
    BY <1>2, <1>5, <1>6
  <2>3. QED BY <2>1, <2>2
<1>8. \A i \in DOMAIN s : \/ i \in DOMAIN a
                          \/ i - n \in DOMAIN b /\ n + (i - n) = i
  BY <1>2, <1>6
<1>9. ToSet(s) = ToSet(a) \cup ToSet(b)
  BY <1>7, <1>8 DEF ToSet
<1>10. ASSUME InOrder(s) PROVE InOrder(a) /\ InOrder(b) /\ Before(ToSet(a), ToSet(b))
  <2>1. InOrder(a)
    BY <1>7, <1>10 DEF InOrder
  <2>2. InOrder(b)
    <3> SUFFICES ASSUME NEW i \in DOMAIN b, NEW j \in DOMAIN b, i < j
                 PROVE  Precedes(b[i], b[j])
      BY DEF InOrder
    <3>1. n + i < n + j
      BY <1>2, <1>6
    <3>2. QED BY <3>1, <1>7, <1>10 DEF InOrder
  <2>3. \A i \in DOMAIN a, j \in DOMAIN b : Precedes(a[i], b[j])
    <3> SUFFICES ASSUME NEW i \in DOMAIN a, NEW j \in DOMAIN b
                 PROVE  Precedes(a[i], b[j])
      OBVIOUS
    <3>1. i < n + j
      BY <1>2, <1>6
    <3>2. QED BY <3>1, <1>7, <1>10 DEF InOrder
  <2>4. QED BY <2>1, <2>2, <2>3 DEF Before, ToSet
<1>11. a \in Seq(S) /\ Len(a) = n /\ b \in Seq(S) /\ Len(b) = Len(s) - n
  BY <1>1, <1>4, <1>5
<1>12. QED BY <1>9, <1>10, <1>11, Zenon DEF a, b

-----------------------------------------------------------------------------
(* The inductive invariant of the writer                                   *)

Calls == [pc : {"out", "in", "full", "asleep", "woken"}, left : Seq(Ticks)]
Workers == [pc : {"none", "test", "wait", "flush", "csv", "done"}, batch : Seq(Ticks)]

\* The variables have the values of their types.
ThreadTypes ==
    /\ overflowPolicy \in {"DropNewest", "DropOldest", "Block"}
    /\ database \in BOOLEAN /\ running \in BOOLEAN
    /\ lock \in Callers \cup {Unlocked}
    /\ producer \in [Callers -> Calls]
    /\ sent \in [Callers -> Nat]
    /\ worker \in Workers /\ Len(worker.batch) <= MaxBatch
    /\ control \in {"out", "notify", "join"}
    /\ conn \in {"up", "down"} /\ backoff \in BackoffMin .. BackoffMax
QueueTypes ==
    /\ queue \in Seq(Ticks) /\ Len(queue) <= QueueCapacity
    /\ dropped \subseteq Ticks /\ discarded \subseteq Ticks
StoreTypes ==
    /\ csv \in Seq(FileLines) /\ archive \in Seq(Seq(FileLines))
    /\ db \subseteq Ticks /\ lost \subseteq Ticks

\* A call that is not over has ticks left, and one that works on the queue has
\* the mutex.
MutexHeld ==
    \A p \in Callers : /\ producer[p].pc = "out" <=> producer[p].left = <<>>
                       /\ producer[p].pc \in {"in", "full"} => lock = p

\* The ticks that the producers still have.
With == UNION {ToSet(producer[p].left) : p \in Callers}

OwnTicks(p) ==
    /\ InOrder(producer[p].left)
    /\ \A t \in ToSet(producer[p].left) : t[1] = p

\* What a producer sent later is further from the files: with the producer, on
\* the queue, in the batch, in a file.
Pipeline ==
    /\ \A p \in Callers : OwnTicks(p)
    /\ InOrder(queue) /\ InOrder(worker.batch)
    /\ Before(ToSet(queue), With)
    /\ Before(ToSet(worker.batch), ToSet(queue) \cup With)
    /\ Before(Filed, ToSet(worker.batch) \cup ToSet(queue) \cup With)

BatchInUse == worker.pc \notin {"flush", "csv"} => worker.batch = <<>>

\* How far stop is, and where the worker is then.
Stopping ==
    /\ control # "out" => ~ running
    /\ running => worker.pc \notin {"none", "done"}
    /\ ~ running /\ control = "out" => worker.pc = "none"

\* A stop that no producer overlapped leaves the queue to the worker, which
\* does not leave before it is empty.
Draining ==
    ~ running /\ ~ late =>
      /\ \A p \in Callers : producer[p].pc \notin {"in", "full"}
      /\ worker.pc \in {"none", "done"} => queue = <<>>

WriterTypes == ThreadTypes /\ QueueTypes /\ StoreTypes
WriterIInv ==
    /\ WriterTypes /\ MutexHeld /\ NothingVanishes /\ Pipeline /\ BatchInUse
    /\ Stopping /\ Draining
    /\ FiledInOrder /\ FilesHaveHeaders

-----------------------------------------------------------------------------
(* Ticks that move from one place to another                               *)

PlaceNames == {"with", "queue", "batch", "stored", "dropped", "discarded", "lost"}

\* Each tick of H is in one of the places of P, and in one only.
Partition(P, H) ==
    /\ UNION {P[x] : x \in PlaceNames} = H
    /\ \A x, y \in PlaceNames : x # y => P[x] \cap P[y] = {}

LEMMA PlacesAre ==
    /\ DOMAIN Places = PlaceNames
    /\ Places["with"] = With /\ Places["queue"] = ToSet(queue)
    /\ Places["batch"] = ToSet(worker.batch) \ db /\ Places["stored"] = db \cup Filed
    /\ Places["dropped"] = dropped /\ Places["discarded"] = discarded
    /\ Places["lost"] = lost \ db
BY DEF Places, PlaceNames, With

LEMMA PlacesAreNext ==
    /\ DOMAIN Places' = PlaceNames
    /\ Places'["with"] = With' /\ Places'["queue"] = ToSet(queue')
    /\ Places'["batch"] = ToSet(worker'.batch) \ db' /\ Places'["stored"] = db' \cup Filed'
    /\ Places'["dropped"] = dropped' /\ Places'["discarded"] = discarded'
    /\ Places'["lost"] = lost' \ db'
BY DEF Places, PlaceNames, With

LEMMA NothingVanishesIs ==
    /\ NothingVanishes <=> Partition(Places, HandedIn)
    /\ NothingVanishes' <=> Partition(Places', HandedIn')
<1>1. NothingVanishes <=> Partition(Places, HandedIn)
  BY PlacesAre DEF NothingVanishes, Partition
<1>2. NothingVanishes' <=> Partition(Places', HandedIn')
  BY PlacesAreNext DEF NothingVanishes, Partition
<1>3. QED BY <1>1, <1>2

\* A partition is told by where each tick is.
LEMMA PartitionIs ==
    ASSUME NEW P, NEW H
    PROVE  Partition(P, H) <=>
             /\ \A x \in PlaceNames : \A t \in P[x] : t \in H
             /\ \A t \in H : \E x \in PlaceNames : t \in P[x]
             /\ \A x, y \in PlaceNames : \A t \in P[x] : t \in P[y] => x = y
BY DEF Partition

\* The ticks of A, and no others, move from x to y.
Move(P, Q, A, x, y) ==
    /\ x \in PlaceNames /\ y \in PlaceNames /\ x # y
    /\ A \subseteq P[x] /\ Q[x] = P[x] \ A /\ Q[y] = P[y] \cup A
    /\ \A z \in PlaceNames : z # x /\ z # y => Q[z] = P[z]

LEMMA Moved ==
    ASSUME NEW P, NEW Q, NEW H, NEW A, NEW x, NEW y,
           Partition(P, H), Move(P, Q, A, x, y)
    PROVE  Partition(Q, H)
<1> USE DEF Move
<1>1. /\ \A z \in PlaceNames : \A t \in P[z] : t \in H
      /\ \A t \in H : \E z \in PlaceNames : t \in P[z]
      /\ \A z, w \in PlaceNames : \A t \in P[z] : t \in P[w] => z = w
  BY PartitionIs
<1>2. \A t : \A z \in PlaceNames :
        /\ z # x /\ z # y => (t \in Q[z] <=> t \in P[z])
        /\ t \in Q[x] <=> (t \in P[x] /\ t \notin A)
        /\ t \in Q[y] <=> (t \in P[y] \/ t \in A)
  OBVIOUS
<1>3. \A z \in PlaceNames : \A t \in Q[z] : t \in H
  BY <1>1, <1>2
<1>4. \A t \in H : \E z \in PlaceNames : t \in Q[z]
  <2> SUFFICES ASSUME NEW t \in H PROVE \E z \in PlaceNames : t \in Q[z]
    OBVIOUS
  <2>1. PICK z \in PlaceNames : t \in P[z]
    BY <1>1
  <2>2. t \in Q[z] \/ t \in Q[y]
    BY <2>1, <1>2
  <2>3. QED BY <2>2
<1>5. \A z, w \in PlaceNames : \A t \in Q[z] : t \in Q[w] => z = w
  <2> SUFFICES ASSUME NEW z \in PlaceNames, NEW w \in PlaceNames, NEW t,
                      t \in Q[z], t \in Q[w]
               PROVE  z = w
    OBVIOUS
  <2>1. CASE t \in A
    <3>1. \A v \in PlaceNames : t \in Q[v] => v = y
      BY <2>1, <1>1, <1>2
    <3>2. QED BY <3>1
  <2>2. CASE t \notin A
    <3>1. t \in P[z] /\ t \in P[w]
      BY <2>2, <1>2
    <3>2. QED BY <3>1, <1>1
  <2>3. QED BY <2>1, <2>2
<1>6. QED BY <1>3, <1>4, <1>5, PartitionIs

LEMMA Added ==
    ASSUME NEW P, NEW Q, NEW H, NEW A, NEW y \in PlaceNames,
           Partition(P, H), A \cap H = {},
           Q[y] = P[y] \cup A,
           \A z \in PlaceNames : z # y => Q[z] = P[z]
    PROVE  Partition(Q, H \cup A)
<1>1. /\ \A z \in PlaceNames : \A t \in P[z] : t \in H
      /\ \A t \in H : \E z \in PlaceNames : t \in P[z]
      /\ \A z, w \in PlaceNames : \A t \in P[z] : t \in P[w] => z = w
  BY PartitionIs
<1>2. \A t : \A z \in PlaceNames : t \in Q[z] <=> t \in P[z] \/ (z = y /\ t \in A)
  OBVIOUS
<1>3. \A z \in PlaceNames : \A t \in Q[z] : t \in H \cup A
  BY <1>1, <1>2
<1>4. \A t \in H \cup A : \E z \in PlaceNames : t \in Q[z]
  BY <1>1, <1>2
<1>5. \A z, w \in PlaceNames : \A t \in Q[z] : t \in Q[w] => z = w
  BY <1>1, <1>2
<1>6. QED BY <1>3, <1>4, <1>5, PartitionIs

LEMMA Unmoved ==
    ASSUME NEW P, NEW Q, NEW H, Partition(P, H),
           \A z \in PlaceNames : Q[z] = P[z]
    PROVE  Partition(Q, H)
BY DEF Partition

-----------------------------------------------------------------------------
(* What a step leaves as it is                                             *)

LEMMA FilesKept ==
    ASSUME csv' = csv, archive' = archive
    PROVE  /\ Files' = Files /\ Filed' = Filed
           /\ FiledInOrder => FiledInOrder'
           /\ FilesHaveHeaders => FilesHaveHeaders'
<1>1. Files' = Files
  BY DEF Files
<1>2. QED BY <1>1 DEF Filed, FiledInOrder, FilesHaveHeaders

LEMMA LeftKept ==
    ASSUME \A q \in Callers : producer'[q].left = producer[q].left
    PROVE  /\ With' = With
           /\ \A q \in Callers : OwnTicks(q) => OwnTicks(q)'
<1>1. With' = With
  BY DEF With
<1>2. ASSUME NEW q \in Callers, OwnTicks(q) PROVE OwnTicks(q)'
  BY <1>2 DEF OwnTicks
<1>3. QED BY <1>1, <1>2

LEMMA PlacesKept ==
    ASSUME NothingVanishes, With' = With, worker'.batch = worker.batch,
           UNCHANGED <<queue, csv, archive, db, dropped, discarded, lost, sent>>
    PROVE  NothingVanishes'
<1>1. HandedIn' = HandedIn
  BY DEF HandedIn
<1>2. Filed' = Filed
  BY FilesKept
<1>3. \A z \in PlaceNames : Places'[z] = Places[z]
  BY <1>2, PlacesAre, PlacesAreNext DEF PlaceNames
<1>4. Partition(Places, HandedIn)
  BY NothingVanishesIs
<1>5. Partition(Places', HandedIn)
  BY <1>3, <1>4, Unmoved
<1>6. QED BY <1>1, <1>5, NothingVanishesIs

LEMMA PipelineKept ==
    ASSUME Pipeline, worker'.batch = worker.batch, csv' = csv, archive' = archive,
           \A q \in Callers : OwnTicks(q)',
           InOrder(queue'), Before(ToSet(queue'), With'),
           ToSet(queue') \cup With' \subseteq ToSet(queue) \cup With
    PROVE  Pipeline'
<1>1. Filed' = Filed
  BY FilesKept
<1>2. /\ Before(ToSet(worker.batch), ToSet(queue) \cup With)
      /\ Before(Filed, ToSet(worker.batch) \cup ToSet(queue) \cup With)
      /\ InOrder(worker.batch)
  BY DEF Pipeline
<1>3. Before(ToSet(worker.batch), ToSet(queue') \cup With')
  BY <1>2 DEF Before
<1>4. Before(Filed, ToSet(worker.batch) \cup ToSet(queue') \cup With')
  BY <1>2 DEF Before
<1>5. QED BY <1>1, <1>2, <1>3, <1>4 DEF Pipeline

\* A step of which the ticks notice nothing.
LEMMA Kept ==
    ASSUME WriterIInv, \A q \in Callers : producer'[q].left = producer[q].left,
           worker'.batch = worker.batch,
           UNCHANGED <<queue, csv, archive, db, dropped, discarded, lost, sent>>
    PROVE  /\ QueueTypes' /\ StoreTypes'
           /\ NothingVanishes' /\ Pipeline' /\ FiledInOrder' /\ FilesHaveHeaders'
<1>1. With' = With /\ \A q \in Callers : OwnTicks(q)'
  BY LeftKept DEF WriterIInv, Pipeline
<1>2. NothingVanishes'
  BY <1>1, PlacesKept DEF WriterIInv
<1>3. Pipeline'
  BY <1>1, PipelineKept DEF WriterIInv, Pipeline
<1>4. FiledInOrder' /\ FilesHaveHeaders'
  BY FilesKept DEF WriterIInv
<1>5. QueueTypes' /\ StoreTypes'
  BY DEF WriterIInv, WriterTypes, QueueTypes, StoreTypes
<1>6. QED BY <1>2, <1>3, <1>4, <1>5

-----------------------------------------------------------------------------
(* The calls of the producers                                              *)

LEMMA CallIs ==
    ASSUME ThreadTypes, NEW p \in Callers
    PROVE  /\ producer[p] \in Calls /\ producer[p].left \in Seq(Ticks)
           /\ producer[p].pc \in {"out", "in", "full", "asleep", "woken"}
           /\ sent[p] \in Nat
BY DEF ThreadTypes, Calls

LEMMA OutIs == Out \in Calls /\ Out.pc = "out" /\ Out.left = <<>>
BY DEF Out, Calls

\* One producer's call goes on.
LEMMA CallChanges ==
    ASSUME ThreadTypes, NEW p \in Callers, NEW c \in Calls,
           producer' = [producer EXCEPT ![p] = c]
    PROVE  /\ producer' \in [Callers -> Calls]
           /\ producer'[p] = c
           /\ \A q \in Callers : q # p => producer'[q] = producer[q]
BY DEF ThreadTypes

LEMMA StageChanges ==
    ASSUME ThreadTypes, NEW p \in Callers,
           NEW stage \in {"out", "in", "full", "asleep", "woken"},
           producer' = [producer EXCEPT ![p].pc = stage]
    PROVE  /\ producer' \in [Callers -> Calls]
           /\ producer'[p].pc = stage
           /\ \A q \in Callers : q # p => producer'[q] = producer[q]
           /\ \A q \in Callers : producer'[q].left = producer[q].left
<1>1. /\ producer \in [Callers -> Calls] /\ producer[p] \in Calls
  BY CallIs DEF ThreadTypes
<1>2. /\ [producer[p] EXCEPT !.pc = stage] \in Calls
      /\ [producer[p] EXCEPT !.pc = stage].pc = stage
      /\ [producer[p] EXCEPT !.pc = stage].left = producer[p].left
  BY <1>1 DEF Calls
<1>3. producer' = [producer EXCEPT ![p] = [producer[p] EXCEPT !.pc = stage]]
  OBVIOUS
<1>4. /\ producer' \in [Callers -> Calls]
      /\ producer'[p] = [producer[p] EXCEPT !.pc = stage]
      /\ \A q \in Callers : q # p => producer'[q] = producer[q]
  BY <1>2, <1>3, CallChanges
<1>5. QED BY <1>2, <1>4

LEMMA Notified ==
    ASSUME ThreadTypes, producer' = NotifySpace
    PROVE  /\ producer' \in [Callers -> Calls]
           /\ \A q \in Callers : /\ producer'[q].left = producer[q].left
                                 /\ \/ producer'[q].pc = producer[q].pc
                                    \/ producer'[q].pc = "woken" /\ producer[q].pc = "asleep"
<1>1. producer \in [Callers -> Calls]
  BY DEF ThreadTypes
<1>2. ASSUME NEW q \in Callers
      PROVE  /\ producer'[q] \in Calls
             /\ producer'[q].left = producer[q].left
             /\ \/ producer'[q].pc = producer[q].pc
                \/ producer'[q].pc = "woken" /\ producer[q].pc = "asleep"
  BY <1>1 DEF NotifySpace, Calls
<1>3. producer' \in [Callers -> Calls]
  <2>1. DOMAIN producer' = Callers /\ producer' = [q \in Callers |-> producer'[q]]
    BY DEF NotifySpace
  <2>2. QED BY <2>1, <1>2
<1>4. QED BY <1>2, <1>3

\* The ticks of the other producers.
Others(p) == UNION {ToSet(producer[q].left) : q \in Callers \ {p}}

LEMMA WithIs ==
    ASSUME NEW p \in Callers
    PROVE  /\ With = Others(p) \cup ToSet(producer[p].left)
           /\ (\A q \in Callers : q # p => producer'[q].left = producer[q].left) =>
                With' = Others(p) \cup ToSet(producer'[p].left)
<1>1. With = Others(p) \cup ToSet(producer[p].left)
  BY DEF With, Others
<1>2. ASSUME \A q \in Callers : q # p => producer'[q].left = producer[q].left
      PROVE  With' = Others(p) \cup ToSet(producer'[p].left)
  <2>1. {ToSet(producer'[q].left) : q \in Callers}
          = {ToSet(producer[q].left) : q \in Callers \ {p}} \cup {ToSet(producer'[p].left)}
    BY <1>2
  <2>2. QED BY <2>1 DEF With, Others
<1>3. QED BY <1>1, <1>2

LEMMA OthersApart ==
    ASSUME NEW p \in Callers, \A q \in Callers : OwnTicks(q)
    PROVE  /\ \A t \in Others(p) : t[1] # p
           /\ \A t \in ToSet(producer[p].left) : t[1] = p
           /\ Others(p) \cap ToSet(producer[p].left) = {}
           /\ Before(ToSet(producer[p].left), Others(p))
<1>1. \A t \in Others(p) : t[1] # p
  BY DEF Others, OwnTicks
<1>2. \A t \in ToSet(producer[p].left) : t[1] = p
  BY DEF OwnTicks
<1>3. QED BY <1>1, <1>2 DEF Before, Precedes

LEMMA AllHandedIn ==
    ASSUME NothingVanishes
    PROVE  /\ With \subseteq HandedIn /\ ToSet(queue) \subseteq HandedIn
           /\ ToSet(worker.batch) \subseteq HandedIn
           /\ Filed \subseteq HandedIn /\ db \subseteq HandedIn
<1>1. \A x \in PlaceNames : Places[x] \subseteq HandedIn
  BY NothingVanishesIs DEF Partition
<1>2. /\ Places["with"] \subseteq HandedIn /\ Places["queue"] \subseteq HandedIn
      /\ Places["batch"] \subseteq HandedIn /\ Places["stored"] \subseteq HandedIn
  BY <1>1 DEF PlaceNames
<1>3. QED BY <1>2, PlacesAre

-----------------------------------------------------------------------------
(* Enter                                                                   *)

\* The ticks that a call of n hands in are new, and later than all before.
LEMMA Fresh ==
    ASSUME sent \in [Callers -> Nat], NEW p \in Callers, NEW n \in Nat \ {0},
           sent' = [sent EXCEPT ![p] = @ + n]
    PROVE  LET ticks == [k \in 1 .. n |-> <<p, sent[p] + k>>]
           IN  /\ ticks \in Seq(Ticks) /\ ticks # <<>>
               /\ InOrder(ticks) /\ \A t \in ToSet(ticks) : t[1] = p
               /\ HandedIn' = HandedIn \cup ToSet(ticks)
               /\ HandedIn \cap ToSet(ticks) = {}
               /\ Before(HandedIn, ToSet(ticks))
               /\ sent' \in [Callers -> Nat]
<1> DEFINE ticks == [k \in 1 .. n |-> <<p, sent[p] + k>>]
<1>1. PICK s \in Nat : s = sent[p]
  OBVIOUS
<1>2. /\ sent' \in [Callers -> Nat] /\ sent'[p] = s + n
      /\ \A q \in Callers : q # p => sent'[q] = sent[q]
  BY <1>1
<1>3. DOMAIN ticks = 1 .. n /\ \A k \in 1 .. n : ticks[k] = <<p, s + k>>
  BY <1>1
<1>4. \A k \in 1 .. n : <<p, s + k>> \in Ticks
  BY DEF Ticks
<1>5. ticks \in Seq(Ticks) /\ Len(ticks) = n
  BY <1>1, <1>4
<1>6. ticks # <<>>
  BY <1>5
<1> HIDE DEF ticks
<1>7. \A t \in ToSet(ticks) : t[1] = p /\ t[2] > s
  BY <1>3 DEF ToSet
<1>8. InOrder(ticks)
  BY <1>3 DEF InOrder, Precedes
<1>9. \A t \in HandedIn : t[1] = p => t[2] <= s
  <2> SUFFICES ASSUME NEW q \in Callers, NEW k \in 1 .. sent[q], q = p PROVE k <= s
    BY DEF HandedIn
  <2>1. QED BY <1>1
<1>10. Before(HandedIn, ToSet(ticks))
  <2>1. \A t \in HandedIn : t[2] \in Nat
    BY DEF HandedIn
  <2>2. \A t \in ToSet(ticks) : t[2] \in Nat
    BY <1>3 DEF ToSet
  <2>3. QED BY <1>7, <1>9, <2>1, <2>2 DEF Before, Precedes
<1>11. HandedIn \cap ToSet(ticks) = {}
  <2>1. \A t \in HandedIn : t[2] \in Nat
    BY DEF HandedIn
  <2>2. QED BY <1>7, <1>9, <2>1
<1>12. HandedIn' = HandedIn \cup ToSet(ticks)
  <2>1. \A q \in Callers : q # p => 1 .. sent'[q] = 1 .. sent[q]
    BY <1>2
  <2>2. \A k : k \in 1 .. sent'[p] <=> k \in 1 .. s \/ (k - s \in 1 .. n /\ k \in Int)
    BY <1>2
  <2>3. \A t : t \in HandedIn' <=> \E q \in Callers : \E k \in 1 .. sent'[q] : t = <<q, k>>
    BY DEF HandedIn
  <2>4. \A t : t \in HandedIn <=> \E q \in Callers : \E k \in 1 .. sent[q] : t = <<q, k>>
    BY DEF HandedIn
  <2>5. \A t : t \in ToSet(ticks) <=> \E k \in 1 .. n : t = <<p, s + k>>
    BY <1>3 DEF ToSet
  <2>6. ASSUME NEW t \in HandedIn PROVE t \in HandedIn'
    <3>0. PICK q \in Callers : \E k \in 1 .. sent[q] : t = <<q, k>>
      BY <2>4
    <3>1. PICK k \in 1 .. sent[q] : t = <<q, k>>
      BY <3>0
    <3>2. k \in 1 .. sent'[q]
      BY <1>1, <1>2
    <3>3. QED BY <2>3, <3>1, <3>2
  <2>7. ASSUME NEW t \in ToSet(ticks) PROVE t \in HandedIn'
    <3>1. PICK k \in 1 .. n : t = <<p, s + k>>
      BY <2>5
    <3>2. s + k \in 1 .. sent'[p]
      BY <1>2
    <3>3. QED BY <2>3, <3>1, <3>2
  <2>8. ASSUME NEW t \in HandedIn' PROVE t \in HandedIn \cup ToSet(ticks)
    <3>0. PICK q \in Callers : \E k \in 1 .. sent'[q] : t = <<q, k>>
      BY <2>3
    <3>1. PICK k \in 1 .. sent'[q] : t = <<q, k>>
      BY <3>0
    <3>2. CASE k \in 1 .. sent[q]
      BY <2>4, <3>1, <3>2
    <3>3. CASE k \notin 1 .. sent[q]
      <4>1. q = p
        BY <1>2, <3>3
      <4>2. k - s \in 1 .. n /\ k = s + (k - s)
        BY <1>1, <1>2, <3>3, <4>1
      <4>3. QED BY <2>5, <3>1, <4>1, <4>2
    <3>4. QED BY <3>2, <3>3
  <2>9. QED BY <2>6, <2>7, <2>8
<1>13. QED BY <1>2, <1>5, <1>6, <1>7, <1>8, <1>10, <1>11, <1>12 DEF ticks

LEMMA EnterStep ==
    ASSUME WriterIInv, NEW p \in Callers, NEW n \in CallSizes, Enter(p, n)
    PROVE  WriterIInv'
<1> DEFINE ticks == [k \in 1 .. n |-> <<p, sent[p] + k>>]
<1>1. /\ producer[p] = Out /\ lock = Unlocked
      /\ sent' = [sent EXCEPT ![p] = @ + n]
      /\ UNCHANGED <<overflowPolicy, database, queue, running, worker, control, conn,
                     backoff, db, csv, archive, lost, dropped, late>>
  BY DEF Enter, config, storage
<1>2. IF running
      THEN /\ lock' = p
           /\ producer' = [producer EXCEPT ![p] = [pc |-> "in", left |-> ticks]]
           /\ discarded' = discarded
      ELSE /\ discarded' = discarded \cup ToSet(ticks)
           /\ UNCHANGED <<lock, producer>>
  BY DEF Enter
<1>3. /\ ThreadTypes /\ QueueTypes /\ StoreTypes /\ MutexHeld /\ Pipeline /\ NothingVanishes
  BY DEF WriterIInv, WriterTypes
<1>4. /\ ticks \in Seq(Ticks) /\ ticks # <<>>
      /\ InOrder(ticks) /\ \A t \in ToSet(ticks) : t[1] = p
      /\ HandedIn' = HandedIn \cup ToSet(ticks)
      /\ ToSet(ticks) \cap HandedIn = {}
      /\ Before(HandedIn, ToSet(ticks))
      /\ sent' \in [Callers -> Nat]
  <2>1. n \in Nat \ {0}
    BY WriterAssumption
  <2>2. sent \in [Callers -> Nat]
    BY <1>3 DEF ThreadTypes
  <2>3. QED BY <2>1, <2>2, <1>1, Fresh
<1> HIDE DEF ticks
<1>5. Filed' = Filed /\ FiledInOrder' /\ FilesHaveHeaders' /\ StoreTypes' /\ Stopping' /\ BatchInUse'
  <2>1. Filed' = Filed /\ FiledInOrder' /\ FilesHaveHeaders'
    BY <1>1, FilesKept DEF WriterIInv
  <2>2. StoreTypes'
    BY <1>1, <1>3 DEF StoreTypes
  <2>3. Stopping' /\ BatchInUse'
    BY <1>1 DEF WriterIInv, Stopping, BatchInUse
  <2>4. QED BY <2>1, <2>2, <2>3
<1>6. Partition(Places, HandedIn)
  BY <1>3, NothingVanishesIs
<1>7. CASE running
  <2>1. /\ lock' = p /\ discarded' = discarded
        /\ producer' = [producer EXCEPT ![p] = [pc |-> "in", left |-> ticks]]
    BY <1>2, <1>7
  <2>2. [pc |-> "in", left |-> ticks] \in Calls
    BY <1>4 DEF Calls
  <2>3. /\ producer' \in [Callers -> Calls]
        /\ producer'[p] = [pc |-> "in", left |-> ticks]
        /\ \A q \in Callers : q # p => producer'[q] = producer[q]
    BY <1>3, <2>1, <2>2, CallChanges
  <2>4. producer'[p].pc = "in" /\ producer'[p].left = ticks
    BY <2>3
  <2>5. With' = With \cup ToSet(ticks)
    <3>1. With = Others(p) \cup ToSet(producer[p].left)
      BY WithIs
    <3>2. With' = Others(p) \cup ToSet(producer'[p].left)
      BY <2>3, WithIs
    <3>3. ToSet(producer[p].left) = {}
      BY <1>1, OutIs, EmptyIsInOrder
    <3>4. QED BY <2>4, <3>1, <3>2, <3>3
  <2>6. ThreadTypes' /\ QueueTypes'
    BY <1>1, <1>3, <1>4, <2>1, <2>3 DEF ThreadTypes, QueueTypes
  <2>7. MutexHeld'
    <3>1. \A q \in Callers : producer[q].pc \notin {"in", "full"}
      BY <1>1, <1>3, WriterAssumption DEF MutexHeld
    <3>2. QED BY <1>3, <1>4, <2>1, <2>3, <2>4, <3>1 DEF MutexHeld
  <2>8. NothingVanishes'
    <3>1. /\ Places'["with"] = Places["with"] \cup ToSet(ticks)
          /\ \A z \in PlaceNames : z # "with" => Places'[z] = Places[z]
      BY <1>1, <1>5, <2>1, <2>5, PlacesAre, PlacesAreNext DEF PlaceNames
    <3>2. "with" \in PlaceNames
      BY DEF PlaceNames
    <3>3. Partition(Places', HandedIn \cup ToSet(ticks))
      BY <1>4, <1>6, <3>1, <3>2, Added
    <3>4. QED BY <1>4, <3>3, NothingVanishesIs
  <2>9. Pipeline'
    <3>1. \A q \in Callers : OwnTicks(q)'
      <4>1. OwnTicks(p)'
        BY <1>4, <2>4 DEF OwnTicks
      <4>2. ASSUME NEW q \in Callers, q # p PROVE OwnTicks(q)'
        BY <1>3, <2>3, <4>2 DEF OwnTicks, Pipeline
      <4>3. QED BY <4>1, <4>2
    <3>2. /\ With \subseteq HandedIn /\ ToSet(queue) \subseteq HandedIn
          /\ ToSet(worker.batch) \subseteq HandedIn /\ Filed \subseteq HandedIn
      BY <1>3, AllHandedIn
    <3>3. /\ Before(ToSet(queue), ToSet(ticks)) /\ Before(ToSet(worker.batch), ToSet(ticks))
          /\ Before(Filed, ToSet(ticks))
      BY <1>4, <3>2 DEF Before
    <3>4. Before(ToSet(queue), With')
      BY <1>3, <2>5, <3>3 DEF Before, Pipeline
    <3>5. Before(ToSet(worker.batch), ToSet(queue) \cup With')
      BY <1>3, <2>5, <3>3 DEF Before, Pipeline
    <3>6. Before(Filed, ToSet(worker.batch) \cup ToSet(queue) \cup With')
      BY <1>3, <2>5, <3>3 DEF Before, Pipeline
    <3>7. InOrder(queue) /\ InOrder(worker.batch)
      BY <1>3 DEF Pipeline
    <3>8. QED BY <1>1, <1>5, <3>1, <3>4, <3>5, <3>6, <3>7 DEF Pipeline
  <2>10. Draining'
    BY <1>1, <1>7 DEF Draining
  <2>11. QED BY <1>5, <2>6, <2>7, <2>8, <2>9, <2>10 DEF WriterIInv, WriterTypes
<1>8. CASE ~ running
  <2>1. discarded' = discarded \cup ToSet(ticks) /\ producer' = producer /\ lock' = lock
    BY <1>2, <1>8
  <2>2. With' = With /\ \A q \in Callers : OwnTicks(q)'
    BY <1>3, <2>1, LeftKept DEF Pipeline
  <2>3. ThreadTypes'
    BY <1>1, <1>3, <1>4, <2>1 DEF ThreadTypes
  <2>4. QueueTypes'
    <3>1. ToSet(ticks) \subseteq Ticks
      BY <1>4 DEF ToSet
    <3>2. QED BY <1>1, <1>3, <2>1, <3>1 DEF QueueTypes
  <2>5. MutexHeld'
    BY <1>3, <2>1 DEF MutexHeld
  <2>6. NothingVanishes'
    <3>1. /\ Places'["discarded"] = Places["discarded"] \cup ToSet(ticks)
          /\ \A z \in PlaceNames : z # "discarded" => Places'[z] = Places[z]
      BY <1>1, <1>5, <2>1, <2>2, PlacesAre, PlacesAreNext DEF PlaceNames
    <3>2. "discarded" \in PlaceNames
      BY DEF PlaceNames
    <3>3. Partition(Places', HandedIn \cup ToSet(ticks))
      BY <1>4, <1>6, <3>1, <3>2, Added
    <3>4. QED BY <1>4, <3>3, NothingVanishesIs
  <2>7. Pipeline'
    BY <1>1, <1>3, <2>2, PipelineKept DEF Pipeline
  <2>8. Draining'
    BY <1>1, <2>1 DEF WriterIInv, Draining
  <2>9. QED BY <1>5, <2>3, <2>4, <2>5, <2>6, <2>7, <2>8 DEF WriterIInv, WriterTypes
<1>9. QED BY <1>7, <1>8

-----------------------------------------------------------------------------
(* Enqueue, Sleep and Wake                                                 *)

\* A call that works on the queue holds the mutex alone.
LEMMA OneInside ==
    ASSUME MutexHeld, NEW p \in Callers, producer[p].pc \in {"in", "full"} \/ lock = Unlocked
    PROVE  \A q \in Callers : q # p => producer[q].pc \notin {"in", "full"}
BY WriterAssumption DEF MutexHeld

\* A call that returns without its remaining ticks.
LEMMA ReturnIs ==
    ASSUME ThreadTypes, MutexHeld, \A q \in Callers : OwnTicks(q), NEW p \in Callers,
           producer[p].pc \in {"in", "full"} \/ lock = Unlocked,
           producer' = [producer EXCEPT ![p] = Out], lock' \in {lock, Unlocked},
           lock = Unlocked \/ lock' = Unlocked
    PROVE  /\ producer' \in [Callers -> Calls] /\ MutexHeld'
           /\ \A q \in Callers : OwnTicks(q)'
           /\ With' = With \ ToSet(producer[p].left)
           /\ ToSet(producer[p].left) \subseteq With
           /\ \A q \in Callers : producer'[q].pc \notin {"in", "full"}
<1>1. /\ producer' \in [Callers -> Calls] /\ producer'[p] = Out
      /\ \A q \in Callers : q # p => producer'[q] = producer[q]
  BY OutIs, CallChanges
<1>2. \A q \in Callers : q # p => producer[q].pc \notin {"in", "full"}
  BY OneInside
<1>3. producer'[p].pc = "out" /\ producer'[p].left = <<>>
  BY <1>1, OutIs
<1>4. \A q \in Callers : producer'[q].pc \notin {"in", "full"}
  BY <1>1, <1>2, <1>3
<1>5. MutexHeld'
  BY <1>1, <1>3, <1>4 DEF MutexHeld
<1>6. \A q \in Callers : OwnTicks(q)'
  <2>1. OwnTicks(p)'
    BY <1>3, EmptyIsInOrder DEF OwnTicks
  <2>2. ASSUME NEW q \in Callers, q # p PROVE OwnTicks(q)'
    BY <1>1, <2>2 DEF OwnTicks
  <2>3. QED BY <2>1, <2>2
<1>7. /\ With = Others(p) \cup ToSet(producer[p].left)
      /\ With' = Others(p) \cup ToSet(producer'[p].left)
  BY <1>1, WithIs
<1>8. ToSet(producer'[p].left) = {}
  BY <1>3, EmptyIsInOrder
<1>9. Others(p) \cap ToSet(producer[p].left) = {}
  BY OthersApart
<1>10. QED BY <1>1, <1>4, <1>5, <1>6, <1>7, <1>8, <1>9

\* A call that goes on to its next tick.
LEMMA AdvanceIs ==
    ASSUME ThreadTypes, MutexHeld, \A q \in Callers : OwnTicks(q), NEW p \in Callers,
           producer[p].pc = "in", Advance(p)
    PROVE  LET tick == Head(producer[p].left)
           IN  /\ producer' \in [Callers -> Calls] /\ MutexHeld'
               /\ lock' \in Callers \cup {Unlocked} /\ discarded' = discarded
               /\ \A q \in Callers : OwnTicks(q)'
               /\ tick \in Ticks /\ tick \in With /\ With' = With \ {tick}
               /\ Before({tick}, With')
<1> DEFINE left == producer[p].left
           tick == Head(left)
           rest == Tail(left)
<1>1. left \in Seq(Ticks) /\ left # <<>>
  BY CallIs DEF MutexHeld
<1>2. OwnTicks(p)
  OBVIOUS
<1>3. /\ tick \in Ticks /\ rest \in Seq(Ticks) /\ ToSet(left) = {tick} \cup ToSet(rest)
      /\ InOrder(left) => InOrder(rest) /\ Before({tick}, ToSet(rest))
  BY <1>1, TailInOrder
<1>4. IF rest = <<>> THEN Return(p, <<>>)
      ELSE producer' = [producer EXCEPT ![p].left = rest] /\ lock' = lock /\ discarded' = discarded
  BY DEF Advance
<1>5. /\ producer' \in [Callers -> Calls] /\ producer'[p].left = rest
      /\ \A q \in Callers : q # p => producer'[q] = producer[q]
      /\ IF rest = <<>> THEN producer'[p].pc = "out" /\ lock' = Unlocked
                        ELSE producer'[p].pc = "in" /\ lock' = lock
      /\ discarded' = discarded
  <2>1. CASE rest = <<>>
    <3>1. producer' = [producer EXCEPT ![p] = Out] /\ lock' = Unlocked /\ discarded' = discarded \cup ToSet(<<>>)
      BY <1>4, <2>1 DEF Return
    <3>2. discarded' = discarded
      BY <3>1, EmptyIsInOrder
    <3>3. /\ producer' \in [Callers -> Calls] /\ producer'[p] = Out
          /\ \A q \in Callers : q # p => producer'[q] = producer[q]
      BY <3>1, OutIs, CallChanges
    <3>4. QED BY <2>1, <3>1, <3>2, <3>3, OutIs
  <2>2. CASE rest # <<>>
    <3>1. producer' = [producer EXCEPT ![p].left = rest] /\ lock' = lock /\ discarded' = discarded
      BY <1>4, <2>2
    <3>2. [producer[p] EXCEPT !.left = rest] \in Calls /\ [producer[p] EXCEPT !.left = rest].pc = "in"
          /\ [producer[p] EXCEPT !.left = rest].left = rest
      BY <1>3, CallIs DEF Calls
    <3>3. producer' = [producer EXCEPT ![p] = [producer[p] EXCEPT !.left = rest]]
      BY <3>1
    <3>4. /\ producer' \in [Callers -> Calls]
          /\ producer'[p] = [producer[p] EXCEPT !.left = rest]
          /\ \A q \in Callers : q # p => producer'[q] = producer[q]
      BY <3>2, <3>3, CallChanges
    <3>5. QED BY <2>2, <3>1, <3>2, <3>4
  <2>3. QED BY <2>1, <2>2
<1> HIDE DEF rest
<1>6. \A q \in Callers : q # p => producer[q].pc \notin {"in", "full"}
  BY OneInside
<1>7. lock = p
  BY DEF MutexHeld
<1>8. MutexHeld' /\ lock' \in Callers \cup {Unlocked}
  <2>1. lock' \in Callers \cup {Unlocked}
    BY <1>5, <1>7
  <2>2. \A q \in Callers : q # p =>
           /\ producer'[q].pc = "out" <=> producer'[q].left = <<>>
           /\ producer'[q].pc \notin {"in", "full"}
    BY <1>5, <1>6 DEF MutexHeld
  <2>3. /\ producer'[p].pc = "out" <=> producer'[p].left = <<>>
        /\ producer'[p].pc \in {"in", "full"} => lock' = p
    BY <1>5, <1>7
  <2>4. QED BY <2>1, <2>2, <2>3 DEF MutexHeld
<1>9. \A q \in Callers : OwnTicks(q)'
  <2>1. OwnTicks(p)'
    BY <1>2, <1>3, <1>5 DEF OwnTicks
  <2>2. ASSUME NEW q \in Callers, q # p PROVE OwnTicks(q)'
    BY <1>5, <2>2 DEF OwnTicks
  <2>3. QED BY <2>1, <2>2
<1>10. /\ With = Others(p) \cup ToSet(left)
       /\ With' = Others(p) \cup ToSet(rest)
  BY <1>5, WithIs
<1>11. Others(p) \cap ToSet(left) = {} /\ Before(ToSet(left), Others(p))
  BY OthersApart
<1>12. Before({tick}, ToSet(rest))
  BY <1>2, <1>3 DEF OwnTicks
<1>13. Before({tick}, With')
  BY <1>3, <1>10, <1>11, <1>12 DEF Before
<1>14. tick \notin ToSet(rest)
  <2>1. {tick} \cap ToSet(rest) = {}
    BY <1>3, <1>12, BeforeApart
  <2>2. QED BY <2>1
<1>15. tick \in With /\ With' = With \ {tick}
  BY <1>3, <1>10, <1>11, <1>14
<1>16. QED BY <1>3, <1>5, <1>8, <1>9, <1>13, <1>15

\* What a step of a producer's call has to show.
LEMMA CallStep ==
    ASSUME WriterIInv,
           UNCHANGED <<overflowPolicy, database, running, sent, worker, control, conn, backoff,
                       db, csv, archive, lost, late>>,
           producer' \in [Callers -> Calls], lock' \in Callers \cup {Unlocked}, MutexHeld',
           QueueTypes', \A q \in Callers : OwnTicks(q)',
           NothingVanishes',
           InOrder(queue'), Before(ToSet(queue'), With'),
           ToSet(queue') \cup With' \subseteq ToSet(queue) \cup With,
           \/ running \/ late
           \/ /\ \A q \in Callers : producer'[q].pc \notin {"in", "full"}
              /\ queue' = queue
    PROVE  WriterIInv'
<1>1. ThreadTypes'
  BY DEF WriterIInv, WriterTypes, ThreadTypes
<1>2. StoreTypes'
  BY DEF WriterIInv, WriterTypes, StoreTypes
<1>3. Pipeline'
  BY PipelineKept DEF WriterIInv
<1>4. FiledInOrder' /\ FilesHaveHeaders'
  BY FilesKept DEF WriterIInv
<1>5. BatchInUse' /\ Stopping'
  BY DEF WriterIInv, BatchInUse, Stopping
<1>6. Draining'
  BY DEF WriterIInv, Draining
<1>7. QED BY <1>1, <1>2, <1>3, <1>4, <1>5, <1>6 DEF WriterIInv, WriterTypes

\* A call that finds the writer stopped gives up the ticks it has left.
LEMMA GiveUpStep ==
    ASSUME WriterIInv, NEW p \in Callers,
           producer[p].pc \in {"in", "full"} \/ lock = Unlocked,
           producer' = [producer EXCEPT ![p] = Out],
           discarded' = discarded \cup ToSet(producer[p].left),
           lock' = Unlocked,
           UNCHANGED <<overflowPolicy, database, queue, running, sent, worker, control, conn,
                       backoff, db, csv, archive, lost, dropped, late>>
    PROVE  WriterIInv'
<1>1. /\ ThreadTypes /\ QueueTypes /\ MutexHeld /\ Pipeline /\ NothingVanishes
      /\ \A q \in Callers : OwnTicks(q)
  BY DEF WriterIInv, WriterTypes, Pipeline
<1>2. /\ producer' \in [Callers -> Calls] /\ MutexHeld'
      /\ \A q \in Callers : OwnTicks(q)'
      /\ With' = With \ ToSet(producer[p].left)
      /\ ToSet(producer[p].left) \subseteq With
      /\ \A q \in Callers : producer'[q].pc \notin {"in", "full"}
  BY <1>1, ReturnIs
<1>3. Filed' = Filed /\ HandedIn' = HandedIn
  BY FilesKept DEF HandedIn
<1>4. NothingVanishes'
  <2>1. Partition(Places, HandedIn)
    BY <1>1, NothingVanishesIs
  <2>2. /\ Places'["with"] = Places["with"] \ ToSet(producer[p].left)
        /\ Places'["discarded"] = Places["discarded"] \cup ToSet(producer[p].left)
        /\ \A z \in PlaceNames : z # "with" /\ z # "discarded" => Places'[z] = Places[z]
    BY <1>2, <1>3, PlacesAre, PlacesAreNext DEF PlaceNames
  <2>3. /\ ToSet(producer[p].left) \subseteq Places["with"]
        /\ "with" \in PlaceNames /\ "discarded" \in PlaceNames
    BY <1>2, PlacesAre DEF PlaceNames
  <2>4. Move(Places, Places', ToSet(producer[p].left), "with", "discarded")
    BY <2>2, <2>3 DEF Move
  <2>5. Partition(Places', HandedIn)
    BY <2>1, <2>4, Moved
  <2>6. QED BY <1>3, <2>5, NothingVanishesIs
<1>5. QueueTypes'
  <2>1. ToSet(producer[p].left) \subseteq Ticks
    BY <1>1, CallIs DEF ToSet
  <2>2. QED BY <1>1, <2>1 DEF QueueTypes
<1>6. /\ InOrder(queue') /\ Before(ToSet(queue'), With')
      /\ ToSet(queue') \cup With' \subseteq ToSet(queue) \cup With
  BY <1>1, <1>2 DEF Pipeline, Before
<1>7. QED BY <1>2, <1>4, <1>5, <1>6, CallStep

LEMMA EnqueueStep ==
    ASSUME WriterIInv, NEW p \in Callers, Enqueue(p)
    PROVE  WriterIInv'
<1> DEFINE tick == Head(producer[p].left)
<1>1. /\ producer[p].pc = "in"
      /\ UNCHANGED <<overflowPolicy, database, running, sent, worker, control, conn,
                     backoff, db, csv, archive, lost, late>>
  BY DEF Enqueue, config, storage
<1>2. \/ /\ Len(queue) < QueueCapacity
         /\ queue' = Append(queue, tick) /\ dropped' = dropped
         /\ Advance(p)
      \/ /\ Len(queue) >= QueueCapacity
         /\ dropped' = dropped \cup {tick} /\ queue' = queue
         /\ Advance(p)
      \/ /\ Len(queue) >= QueueCapacity
         /\ queue' = Append(Tail(queue), tick) /\ dropped' = dropped \cup {Head(queue)}
         /\ Advance(p)
      \/ /\ queue' = queue /\ dropped' = dropped
         /\ IF running
            THEN producer' = [producer EXCEPT ![p].pc = "full"] /\ UNCHANGED <<lock, discarded>>
            ELSE Return(p, producer[p].left)
  BY DEF Enqueue
<1>3. /\ ThreadTypes /\ QueueTypes /\ MutexHeld /\ Pipeline /\ NothingVanishes
      /\ \A q \in Callers : OwnTicks(q)
  BY DEF WriterIInv, WriterTypes, Pipeline
<1>4. Partition(Places, HandedIn)
  BY <1>3, NothingVanishesIs
<1>5. Filed' = Filed /\ HandedIn' = HandedIn
  BY <1>1, FilesKept DEF HandedIn
<1>6. running \/ late
  BY <1>1 DEF WriterIInv, Draining
<1>7. /\ queue \in Seq(Ticks) /\ Len(queue) <= QueueCapacity /\ Len(queue) \in Nat
      /\ dropped \subseteq Ticks /\ discarded \subseteq Ticks
      /\ QueueCapacity \in Nat \ {0}
  BY <1>3, WriterAssumption, LenProperties DEF QueueTypes
<1>8. /\ InOrder(queue) /\ Before(ToSet(queue), With)
  BY <1>3 DEF Pipeline
<1>9. lock = p
  BY <1>1, <1>3 DEF MutexHeld
<1>10. CASE /\ Advance(p)
             /\ \/ Len(queue) < QueueCapacity /\ queue' = Append(queue, tick) /\ dropped' = dropped
                \/ dropped' = dropped \cup {tick} /\ queue' = queue
                \/ /\ Len(queue) >= QueueCapacity
                   /\ queue' = Append(Tail(queue), tick) /\ dropped' = dropped \cup {Head(queue)}
  <2>1. /\ producer' \in [Callers -> Calls] /\ MutexHeld'
        /\ lock' \in Callers \cup {Unlocked} /\ discarded' = discarded
        /\ \A q \in Callers : OwnTicks(q)'
        /\ tick \in Ticks /\ tick \in With /\ With' = With \ {tick}
        /\ Before({tick}, With')
    BY <1>1, <1>3, <1>10, AdvanceIs
  <2> HIDE DEF tick
  <2>2. CASE Len(queue) < QueueCapacity /\ queue' = Append(queue, tick) /\ dropped' = dropped
    <3>1. /\ queue' \in Seq(Ticks) /\ Len(queue') = Len(queue) + 1
          /\ ToSet(queue') = ToSet(queue) \cup {tick}
          /\ Before(ToSet(queue), {tick}) => InOrder(queue')
      BY <1>7, <1>8, <2>1, <2>2, AppendInOrder
    <3>2. Before(ToSet(queue), {tick})
      BY <1>8, <2>1 DEF Before
    <3>3. Before(ToSet(queue'), With')
      BY <1>8, <2>1, <3>1 DEF Before
    <3>4. ToSet(queue') \cup With' \subseteq ToSet(queue) \cup With
      BY <2>1, <3>1
    <3>5. NothingVanishes'
      <4>1. /\ Places'["with"] = Places["with"] \ {tick}
            /\ Places'["queue"] = Places["queue"] \cup {tick}
            /\ \A z \in PlaceNames : z # "with" /\ z # "queue" => Places'[z] = Places[z]
        BY <1>1, <1>5, <2>1, <2>2, <3>1, PlacesAre, PlacesAreNext DEF PlaceNames
      <4>2. {tick} \subseteq Places["with"] /\ "with" \in PlaceNames /\ "queue" \in PlaceNames
        BY <2>1, PlacesAre DEF PlaceNames
      <4>3. Move(Places, Places', {tick}, "with", "queue")
        BY <4>1, <4>2 DEF Move
      <4>4. Partition(Places', HandedIn)
        BY <1>4, <4>3, Moved
      <4>5. QED BY <1>5, <4>4, NothingVanishesIs
    <3>6. QueueTypes'
      BY <1>7, <2>1, <2>2, <3>1 DEF QueueTypes
    <3>7. QED BY <1>1, <1>6, <2>1, <3>1, <3>2, <3>3, <3>4, <3>5, <3>6, CallStep
  <2>3. CASE dropped' = dropped \cup {tick} /\ queue' = queue
    <3>1. Before(ToSet(queue'), With')
      BY <1>8, <2>1, <2>3 DEF Before
    <3>2. ToSet(queue') \cup With' \subseteq ToSet(queue) \cup With
      BY <2>1, <2>3
    <3>3. NothingVanishes'
      <4>1. /\ Places'["with"] = Places["with"] \ {tick}
            /\ Places'["dropped"] = Places["dropped"] \cup {tick}
            /\ \A z \in PlaceNames : z # "with" /\ z # "dropped" => Places'[z] = Places[z]
        BY <1>1, <1>5, <2>1, <2>3, PlacesAre, PlacesAreNext DEF PlaceNames
      <4>2. {tick} \subseteq Places["with"] /\ "with" \in PlaceNames /\ "dropped" \in PlaceNames
        BY <2>1, PlacesAre DEF PlaceNames
      <4>3. Move(Places, Places', {tick}, "with", "dropped")
        BY <4>1, <4>2 DEF Move
      <4>4. Partition(Places', HandedIn)
        BY <1>4, <4>3, Moved
      <4>5. QED BY <1>5, <4>4, NothingVanishesIs
    <3>4. QueueTypes'
      BY <1>7, <2>1, <2>3 DEF QueueTypes
    <3>5. InOrder(queue')
      BY <1>8, <2>3
    <3>6. QED BY <1>1, <1>6, <2>1, <3>1, <3>2, <3>3, <3>4, <3>5, CallStep
  <2>4. CASE /\ Len(queue) >= QueueCapacity
             /\ queue' = Append(Tail(queue), tick) /\ dropped' = dropped \cup {Head(queue)}
    <3> DEFINE oldest == Head(queue)
               rest == Tail(queue)
    <3>1. queue # <<>>
      BY <1>7, <2>4, EmptySeq
    <3>2. /\ oldest \in Ticks /\ rest \in Seq(Ticks) /\ Len(rest) = Len(queue) - 1
          /\ ToSet(queue) = {oldest} \cup ToSet(rest)
          /\ InOrder(rest) /\ Before({oldest}, ToSet(rest))
      BY <1>7, <1>8, <3>1, TailInOrder
    <3> HIDE DEF oldest, rest
    <3>3. /\ queue' = Append(rest, tick) /\ dropped' = dropped \cup {oldest}
      BY <2>4 DEF oldest, rest
    <3>4. Before(ToSet(rest), With) /\ Before(ToSet(rest), {tick})
      BY <1>8, <2>1, <3>2 DEF Before
    <3>5. /\ queue' \in Seq(Ticks) /\ Len(queue') = Len(rest) + 1
          /\ ToSet(queue') = ToSet(rest) \cup {tick}
          /\ InOrder(queue')
      BY <2>1, <3>2, <3>3, <3>4, AppendInOrder
    <3>6. Before(ToSet(queue'), With')
      BY <2>1, <3>4, <3>5 DEF Before
    <3>7. ToSet(queue') \cup With' \subseteq ToSet(queue) \cup With
      BY <2>1, <3>2, <3>5
    <3>8. oldest \notin ToSet(rest) /\ oldest # tick
      <4>1. {oldest} \cap ToSet(rest) = {}
        BY <3>2, BeforeApart
      <4>2. {oldest} \cap With = {}
        <5>1. Before({oldest}, With)
          BY <1>8, <3>2 DEF Before
        <5>2. QED BY <3>2, <5>1, BeforeApart
      <4>3. QED BY <2>1, <4>1, <4>2
    <3>9. NothingVanishes'
      <4> DEFINE mid == [z \in PlaceNames |->
                           IF z = "queue" THEN ToSet(rest)
                           ELSE IF z = "dropped" THEN dropped \cup {oldest}
                           ELSE Places[z]]
      <4>1. /\ "with" \in PlaceNames /\ "queue" \in PlaceNames /\ "dropped" \in PlaceNames
        BY DEF PlaceNames
      <4>2. /\ mid["queue"] = ToSet(rest) /\ mid["dropped"] = dropped \cup {oldest}
            /\ mid["with"] = With
            /\ \A z \in PlaceNames : z # "queue" /\ z # "dropped" => mid[z] = Places[z]
        BY <4>1, PlacesAre
      <4> HIDE DEF mid
      <4>3. Partition(mid, HandedIn)
        <5>1. /\ mid["queue"] = Places["queue"] \ {oldest}
              /\ mid["dropped"] = Places["dropped"] \cup {oldest}
              /\ {oldest} \subseteq Places["queue"]
          BY <3>2, <3>8, <4>2, PlacesAre
        <5>2. Move(Places, mid, {oldest}, "queue", "dropped")
          BY <4>1, <4>2, <5>1 DEF Move
        <5>3. QED BY <1>4, <5>2, Moved
      <4>4. /\ Places'["with"] = mid["with"] \ {tick}
            /\ Places'["queue"] = mid["queue"] \cup {tick}
            /\ {tick} \subseteq mid["with"]
        BY <2>1, <3>5, <4>2, PlacesAreNext
      <4>5. \A z \in PlaceNames : z # "with" /\ z # "queue" => Places'[z] = mid[z]
        BY <1>1, <1>5, <2>1, <3>3, <4>2, PlacesAre, PlacesAreNext DEF PlaceNames
      <4>6. Move(mid, Places', {tick}, "with", "queue")
        BY <4>1, <4>4, <4>5 DEF Move
      <4>7. Partition(Places', HandedIn)
        BY <4>3, <4>6, Moved
      <4>8. QED BY <1>5, <4>7, NothingVanishesIs
    <3>10. QueueTypes'
      BY <1>7, <2>1, <3>2, <3>3, <3>5 DEF QueueTypes
    <3>11. QED BY <1>1, <1>6, <2>1, <3>5, <3>6, <3>7, <3>9, <3>10, CallStep
  <2>5. QED BY <1>10, <2>2, <2>3, <2>4
<1>11. CASE /\ queue' = queue /\ dropped' = dropped
            /\ IF running
               THEN producer' = [producer EXCEPT ![p].pc = "full"] /\ UNCHANGED <<lock, discarded>>
               ELSE Return(p, producer[p].left)
  <2>1. CASE running
    <3>1. producer' = [producer EXCEPT ![p].pc = "full"] /\ UNCHANGED <<lock, discarded>>
      BY <1>11, <2>1
    <3>2. /\ producer' \in [Callers -> Calls]
          /\ producer'[p].pc = "full"
          /\ \A q \in Callers : q # p => producer'[q] = producer[q]
          /\ \A q \in Callers : producer'[q].left = producer[q].left
      BY <1>3, <3>1, StageChanges
    <3>3. MutexHeld'
      BY <1>1, <1>3, <1>9, <3>1, <3>2 DEF MutexHeld
    <3>4. /\ QueueTypes' /\ NothingVanishes' /\ Pipeline'
      BY <1>1, <1>11, <3>1, <3>2, Kept
    <3>5. With' = With
      BY <3>2, LeftKept
    <3>6. InOrder(queue') /\ Before(ToSet(queue'), With') /\ \A q \in Callers : OwnTicks(q)'
      BY <3>4 DEF Pipeline
    <3>7. ToSet(queue') \cup With' \subseteq ToSet(queue) \cup With
      BY <1>11, <3>5
    <3>8. lock' \in Callers \cup {Unlocked}
      BY <1>9, <3>1
    <3>9. QED BY <1>1, <2>1, <3>2, <3>3, <3>4, <3>6, <3>7, <3>8, CallStep
  <2>2. CASE ~ running
    <3>1. /\ producer' = [producer EXCEPT ![p] = Out] /\ lock' = Unlocked
          /\ discarded' = discarded \cup ToSet(producer[p].left)
          /\ queue' = queue /\ dropped' = dropped
      BY <1>11, <2>2 DEF Return
    <3>2. QED BY <1>1, <1>3, <3>1, GiveUpStep
  <2>3. QED BY <2>1, <2>2
<1>12. QED BY <1>2, <1>10, <1>11

\* A call of which only the stage changes.
LEMMA StageStep ==
    ASSUME WriterIInv, NEW p \in Callers, producer[p].pc # "out",
           NEW stage \in {"in", "full", "asleep", "woken"},
           producer' = [producer EXCEPT ![p].pc = stage],
           \A q \in Callers : q # p => producer[q].pc \notin {"in", "full"},
           IF stage \in {"in", "full"} THEN lock' = p /\ running ELSE lock' = Unlocked,
           UNCHANGED <<overflowPolicy, database, queue, running, sent, worker, control, conn,
                       backoff, db, csv, archive, lost, dropped, discarded, late>>
    PROVE  WriterIInv'
<1>1. /\ ThreadTypes /\ QueueTypes /\ MutexHeld
  BY DEF WriterIInv, WriterTypes
<1>2. /\ producer' \in [Callers -> Calls]
      /\ producer'[p].pc = stage
      /\ \A q \in Callers : q # p => producer'[q] = producer[q]
      /\ \A q \in Callers : producer'[q].left = producer[q].left
  BY <1>1, StageChanges
<1>3. /\ QueueTypes' /\ NothingVanishes' /\ Pipeline'
  BY <1>2, Kept
<1>4. With' = With
  BY <1>2, LeftKept
<1>5. InOrder(queue') /\ Before(ToSet(queue'), With') /\ \A q \in Callers : OwnTicks(q)'
  BY <1>3 DEF Pipeline
<1>6. MutexHeld' /\ lock' \in Callers \cup {Unlocked}
  BY <1>1, <1>2 DEF MutexHeld
<1>7. \/ running
      \/ \A q \in Callers : producer'[q].pc \notin {"in", "full"}
  BY <1>2
<1>8. ToSet(queue') \cup With' \subseteq ToSet(queue) \cup With
  BY <1>4
<1>9. QED BY <1>2, <1>3, <1>5, <1>6, <1>7, <1>8, CallStep

LEMMA SleepStep ==
    ASSUME WriterIInv, NEW p \in Callers, Sleep(p)
    PROVE  WriterIInv'
<1>1. MutexHeld
  BY DEF WriterIInv
<1>2. \A q \in Callers : q # p => producer[q].pc \notin {"in", "full"}
  BY <1>1, OneInside DEF Sleep
<1>3. QED BY <1>2, StageStep DEF Sleep, config, storage

LEMMA WakeStep ==
    ASSUME WriterIInv, NEW p \in Callers, Wake(p)
    PROVE  WriterIInv'
<1>1. /\ producer[p].pc = "woken" /\ lock = Unlocked
      /\ UNCHANGED <<overflowPolicy, database, queue, running, sent, worker, control, conn,
                     backoff, db, csv, archive, lost, dropped, late>>
  BY DEF Wake, config, storage
<1>2. CASE /\ producer' = [producer EXCEPT ![p] = Out]
           /\ discarded' = discarded \cup ToSet(producer[p].left)
           /\ lock' = lock
  BY <1>1, <1>2, GiveUpStep
<1>3. ASSUME NEW stage \in {"in", "full"}, running,
             producer' = [producer EXCEPT ![p].pc = stage],
             lock' = p, discarded' = discarded
      PROVE  WriterIInv'
  <2>1. \A q \in Callers : q # p => producer[q].pc \notin {"in", "full"}
    BY <1>1, OneInside DEF WriterIInv
  <2>2. QED BY <1>1, <1>3, <2>1, StageStep
<1>4. QED BY <1>2, <1>3 DEF Wake

-----------------------------------------------------------------------------
(* The worker                                                              *)

LEMMA WorkerTestStep ==
    ASSUME WriterIInv, WorkerTest
    PROVE  WriterIInv'
<1>1. /\ worker.pc = "test"
      /\ UNCHANGED <<overflowPolicy, database, queue, running, lock, producer, sent, control, conn,
                     backoff, db, csv, archive, lost, dropped, discarded, late>>
  BY DEF WorkerTest, config, storage
<1>2. PICK empty \in {queue = <<>>} \cup (IF \E p \in Callers : producer[p].pc = "in" THEN BOOLEAN ELSE {}) :
        worker' = [worker EXCEPT !.pc = IF running \/ ~ empty THEN "wait" ELSE "done"]
  BY DEF WorkerTest
<1>3. /\ ThreadTypes /\ worker \in Workers /\ worker.batch = <<>>
  BY <1>1 DEF WriterIInv, WriterTypes, ThreadTypes, BatchInUse
<1>4. /\ worker' \in Workers /\ worker'.batch = worker.batch
      /\ worker'.pc = IF running \/ ~ empty THEN "wait" ELSE "done"
  BY <1>2, <1>3 DEF Workers
<1>5. ThreadTypes'
  BY <1>1, <1>3, <1>4 DEF ThreadTypes
<1>6. /\ QueueTypes' /\ StoreTypes'
      /\ NothingVanishes' /\ Pipeline' /\ FiledInOrder' /\ FilesHaveHeaders'
  BY <1>1, <1>4, Kept
<1>7. MutexHeld'
  BY <1>1 DEF WriterIInv, MutexHeld
<1>8. BatchInUse'
  BY <1>3, <1>4 DEF BatchInUse
<1>9. Stopping'
  BY <1>1, <1>4 DEF WriterIInv, Stopping
<1>10. Draining'
  <2> SUFFICES ASSUME ~ running, ~ late
               PROVE  /\ \A p \in Callers : producer[p].pc \notin {"in", "full"}
                      /\ worker'.pc \in {"none", "done"} => queue = <<>>
    BY <1>1 DEF Draining
  <2>1. \A p \in Callers : producer[p].pc \notin {"in", "full"}
    BY DEF WriterIInv, Draining
  <2>2. empty = (queue = <<>>)
    BY <1>2, <2>1
  <2>3. QED BY <1>4, <2>1, <2>2
<1>11. QED BY <1>5, <1>6, <1>7, <1>8, <1>9, <1>10 DEF WriterIInv, WriterTypes

LEMMA WorkerTakeStep ==
    ASSUME WriterIInv, WorkerTake
    PROVE  WriterIInv'
<1> DEFINE n == IF Len(queue) < MaxBatch THEN Len(queue) ELSE MaxBatch
           front == SubSeq(queue, 1, n)
           rest == SubSeq(queue, n + 1, Len(queue))
<1>1. /\ worker.pc = "wait"
      /\ UNCHANGED <<overflowPolicy, database, running, lock, sent, control, conn,
                     backoff, db, csv, archive, lost, dropped, discarded, late>>
      /\ worker' = [pc |-> IF n = 0 THEN "test" ELSE "flush", batch |-> front]
      /\ queue' = rest
      /\ producer' = IF n = 0 THEN producer ELSE NotifySpace
  BY DEF WorkerTake, config, storage
<1>2. /\ ThreadTypes /\ QueueTypes /\ StoreTypes /\ MutexHeld /\ Pipeline /\ NothingVanishes
      /\ queue \in Seq(Ticks) /\ Len(queue) \in Nat /\ Len(queue) <= QueueCapacity
      /\ worker.batch = <<>>
  BY <1>1, LenProperties DEF WriterIInv, WriterTypes, QueueTypes, BatchInUse
<1>3. MaxBatch \in Nat /\ n \in 0 .. Len(queue) /\ n <= MaxBatch
  BY <1>2, WriterAssumption
<1> HIDE DEF n
<1>4. /\ front \in Seq(Ticks) /\ Len(front) = n
      /\ rest \in Seq(Ticks) /\ Len(rest) = Len(queue) - n
      /\ ToSet(queue) = ToSet(front) \cup ToSet(rest)
      /\ InOrder(queue) => InOrder(front) /\ InOrder(rest) /\ Before(ToSet(front), ToSet(rest))
  BY <1>2, <1>3, SplitInOrder
<1> HIDE DEF front, rest
<1>5. InOrder(queue) /\ Before(ToSet(queue), With)
  BY <1>2 DEF Pipeline
<1>6. /\ producer' \in [Callers -> Calls]
      /\ \A q \in Callers : /\ producer'[q].left = producer[q].left
                            /\ \/ producer'[q].pc = producer[q].pc
                               \/ producer'[q].pc = "woken" /\ producer[q].pc = "asleep"
  BY <1>1, <1>2, Notified DEF ThreadTypes
<1>7. /\ worker'.pc = IF n = 0 THEN "test" ELSE "flush"
      /\ worker'.batch = front /\ worker' \in Workers
  BY <1>1, <1>4 DEF Workers
<1>8. /\ With' = With /\ \A q \in Callers : OwnTicks(q)'
  BY <1>2, <1>6, LeftKept DEF Pipeline
<1>9. /\ Filed' = Filed /\ FiledInOrder' /\ FilesHaveHeaders' /\ HandedIn' = HandedIn
  BY <1>1, FilesKept DEF WriterIInv, HandedIn
<1>10. ThreadTypes'
  BY <1>1, <1>2, <1>3, <1>4, <1>6, <1>7 DEF ThreadTypes
<1>11. QueueTypes' /\ StoreTypes'
  <2>1. Len(rest) <= QueueCapacity
    BY <1>2, <1>3, <1>4, WriterAssumption
  <2>2. queue' \in Seq(Ticks) /\ Len(queue') <= QueueCapacity
    BY <1>1, <1>4, <2>1
  <2>3. QED BY <1>1, <1>2, <2>2 DEF QueueTypes, StoreTypes
<1>12. MutexHeld'
  BY <1>1, <1>2, <1>6 DEF MutexHeld
<1>13. NothingVanishes'
  <2>1. Partition(Places, HandedIn)
    BY <1>2, NothingVanishesIs
  <2>2. ToSet(queue) \cap (db \cup Filed) = {} /\ ToSet(worker.batch) = {}
    <3>1. Places["queue"] \cap Places["stored"] = {}
      BY <2>1 DEF Partition, PlaceNames
    <3>2. QED BY <1>2, <3>1, PlacesAre, EmptyIsInOrder
  <2>3. ToSet(front) \cap ToSet(rest) = {}
    <3>1. ToSet(front) \subseteq Ticks
      BY <1>4 DEF ToSet
    <3>2. QED BY <1>4, <1>5, <3>1, BeforeApart
  <2>4. /\ Places'["queue"] = Places["queue"] \ ToSet(front)
        /\ Places'["batch"] = Places["batch"] \cup ToSet(front)
        /\ ToSet(front) \subseteq Places["queue"]
    BY <1>1, <1>4, <1>7, <2>2, <2>3, PlacesAre, PlacesAreNext
  <2>5. \A z \in PlaceNames : z # "queue" /\ z # "batch" => Places'[z] = Places[z]
    BY <1>1, <1>8, <1>9, PlacesAre, PlacesAreNext DEF PlaceNames
  <2>6. Move(Places, Places', ToSet(front), "queue", "batch")
    BY <2>4, <2>5 DEF Move, PlaceNames
  <2>7. Partition(Places', HandedIn)
    BY <2>1, <2>6, Moved
  <2>8. QED BY <1>9, <2>7, NothingVanishesIs
<1>14. Pipeline'
  <2>1. Before(ToSet(rest), With')
    BY <1>4, <1>5, <1>8 DEF Before
  <2>2. Before(ToSet(front), ToSet(rest) \cup With')
    BY <1>4, <1>5, <1>8 DEF Before
  <2>3. Before(Filed, ToSet(queue) \cup With)
    BY <1>2 DEF Before, Pipeline
  <2>4. Before(Filed, ToSet(front) \cup ToSet(rest) \cup With')
    BY <1>4, <1>8, <2>3
  <2>5. QED BY <1>1, <1>4, <1>5, <1>7, <1>8, <1>9, <2>1, <2>2, <2>4 DEF Pipeline
<1>15. BatchInUse'
  <2>1. ASSUME n = 0 PROVE front = <<>>
    BY <1>4, <2>1, EmptySeq
  <2>2. QED BY <1>7, <2>1 DEF BatchInUse
<1>16. Stopping'
  BY <1>1, <1>7 DEF WriterIInv, Stopping
<1>17. Draining'
  BY <1>1, <1>6, <1>7 DEF WriterIInv, Draining
<1>18. QED BY <1>9, <1>10, <1>11, <1>12, <1>13, <1>14, <1>15, <1>16, <1>17 DEF WriterIInv, WriterTypes

LEMMA ConnectStep ==
    ASSUME WriterIInv, Connect
    PROVE  WriterIInv'
<1>1. /\ worker.pc = "flush"
      /\ UNCHANGED <<overflowPolicy, database, queue, running, lock, producer, sent, control,
                     db, csv, archive, lost, dropped, discarded, late>>
      /\ conn' \in {"up", conn}
      /\ worker' \in {worker, [worker EXCEPT !.pc = "csv"]}
      /\ backoff' \in {BackoffMin, backoff * 2, BackoffMax}
      /\ backoff' = backoff * 2 => backoff * 2 < BackoffMax \/ backoff' \in {BackoffMin, BackoffMax}
  BY DEF Connect, config
<1>2. /\ ThreadTypes /\ worker \in Workers
  BY DEF WriterIInv, WriterTypes, ThreadTypes
<1>3. /\ worker' \in Workers /\ worker'.batch = worker.batch
      /\ worker'.pc \in {"flush", "csv"}
  BY <1>1, <1>2 DEF Workers
<1>4. backoff' \in BackoffMin .. BackoffMax
  <2>1. /\ backoff \in Int /\ backoff >= BackoffMin
        /\ BackoffMin \in Nat /\ BackoffMax \in Nat /\ BackoffMax >= BackoffMin
    BY <1>2, WriterAssumption DEF ThreadTypes
  <2>2. QED BY <1>1, <2>1
<1>5. ThreadTypes'
  BY <1>1, <1>2, <1>3, <1>4 DEF ThreadTypes
<1>6. /\ QueueTypes' /\ StoreTypes'
      /\ NothingVanishes' /\ Pipeline' /\ FiledInOrder' /\ FilesHaveHeaders'
  BY <1>1, <1>3, Kept
<1>7. MutexHeld'
  BY <1>1 DEF WriterIInv, MutexHeld
<1>8. BatchInUse' /\ Stopping' /\ Draining'
  BY <1>1, <1>3 DEF WriterIInv, BatchInUse, Stopping, Draining
<1>9. QED BY <1>5, <1>6, <1>7, <1>8 DEF WriterIInv, WriterTypes

\* The batch is done with.
LEMMA BatchDone ==
    /\ [pc |-> "test", batch |-> <<>>] \in Workers
    /\ [pc |-> "none", batch |-> <<>>] \in Workers
    /\ \A w : w.batch = <<>> => Len(w.batch) = 0 /\ ToSet(w.batch) = {} /\ InOrder(w.batch)
<1>1. <<>> \in Seq(Ticks)
  OBVIOUS
<1>2. QED BY <1>1, EmptyIsInOrder DEF Workers

LEMMA CopyStep ==
    ASSUME WriterIInv, Copy
    PROVE  WriterIInv'
<1>1. /\ worker.pc = "flush" /\ conn' \in {"up", "down"}
      /\ UNCHANGED <<overflowPolicy, database, queue, running, lock, producer, sent, control, backoff,
                     csv, archive, lost, dropped, discarded, late>>
  BY DEF Copy, config
<1>2. PICK committed \in BOOLEAN, told \in BOOLEAN :
        /\ told => committed
        /\ db' = IF committed THEN db \cup ToSet(worker.batch) ELSE db
        /\ worker' = IF told THEN [pc |-> "test", batch |-> <<>>] ELSE [worker EXCEPT !.pc = "csv"]
  BY DEF Copy
<1>3. /\ ThreadTypes /\ QueueTypes /\ StoreTypes /\ Pipeline /\ NothingVanishes
      /\ worker \in Workers /\ worker.batch \in Seq(Ticks) /\ Len(worker.batch) <= MaxBatch
  BY DEF WriterIInv, WriterTypes, ThreadTypes, Workers
<1>4. /\ worker' \in Workers /\ Len(worker'.batch) <= MaxBatch
      /\ IF told THEN worker'.pc = "test" /\ worker'.batch = <<>>
                 ELSE worker'.pc = "csv" /\ worker'.batch = worker.batch
  <2>1. CASE told
    <3>1. worker' = [pc |-> "test", batch |-> <<>>]
      BY <1>2, <2>1
    <3>2. worker'.batch = <<>> /\ worker'.pc = "test" /\ worker' \in Workers
      BY <3>1, BatchDone
    <3>3. Len(worker'.batch) <= MaxBatch
      BY <3>2, WriterAssumption
    <3>4. QED BY <2>1, <3>2, <3>3
  <2>2. CASE ~ told
    <3>1. worker' = [worker EXCEPT !.pc = "csv"]
      BY <1>2, <2>2
    <3>2. QED BY <1>3, <2>2, <3>1 DEF Workers
  <2>3. QED BY <2>1, <2>2
<1>5. /\ With' = With /\ \A q \in Callers : OwnTicks(q)'
      /\ Filed' = Filed /\ FiledInOrder' /\ FilesHaveHeaders' /\ HandedIn' = HandedIn
  BY <1>1, <1>3, LeftKept, FilesKept DEF WriterIInv, Pipeline, HandedIn
<1>6. ThreadTypes' /\ QueueTypes'
  BY <1>1, <1>3, <1>4 DEF ThreadTypes, QueueTypes
<1>7. ToSet(worker.batch) \subseteq Ticks
  BY <1>3 DEF ToSet
<1>8. StoreTypes'
  <2>1. db' \subseteq Ticks
    BY <1>2, <1>3, <1>7 DEF StoreTypes
  <2>2. QED BY <1>1, <1>3, <2>1 DEF StoreTypes
<1>9. ToSet(worker'.batch) \subseteq ToSet(worker.batch) /\ InOrder(worker'.batch)
  BY <1>3, <1>4, EmptyIsInOrder DEF Pipeline
<1>10. NothingVanishes'
  <2>1. Partition(Places, HandedIn)
    BY <1>3, NothingVanishesIs
  <2>2. CASE committed
    <3>1. db' = db \cup ToSet(worker.batch)
      BY <1>2, <2>2
    <3>2. ToSet(worker'.batch) \ db' = {}
      BY <1>9, <3>1
    <3>3. (lost \ db) \cap (ToSet(worker.batch) \ db) = {}
      <4>1. Places["lost"] \cap Places["batch"] = {}
        BY <2>1 DEF Partition, PlaceNames
      <4>2. QED BY <4>1, PlacesAre
    <3>4. lost \ db' = lost \ db
      BY <3>1, <3>3
    <3>5. /\ Places'["batch"] = Places["batch"] \ (ToSet(worker.batch) \ db)
          /\ Places'["stored"] = Places["stored"] \cup (ToSet(worker.batch) \ db)
          /\ ToSet(worker.batch) \ db \subseteq Places["batch"]
      BY <1>5, <3>1, <3>2, PlacesAre, PlacesAreNext
    <3>6. \A z \in PlaceNames : z # "batch" /\ z # "stored" => Places'[z] = Places[z]
      BY <1>1, <1>5, <3>4, PlacesAre, PlacesAreNext DEF PlaceNames
    <3>7. Move(Places, Places', ToSet(worker.batch) \ db, "batch", "stored")
      BY <3>5, <3>6 DEF Move, PlaceNames
    <3>8. Partition(Places', HandedIn)
      BY <2>1, <3>7, Moved
    <3>9. QED BY <1>5, <3>8, NothingVanishesIs
  <2>3. CASE ~ committed
    <3>1. db' = db /\ worker'.batch = worker.batch
      BY <1>2, <1>4, <2>3
    <3>2. QED BY <1>1, <1>3, <1>5, <3>1, PlacesKept
  <2>4. QED BY <2>2, <2>3
<1>11. Pipeline'
  <2>1. /\ Before(ToSet(worker.batch), ToSet(queue) \cup With)
        /\ Before(Filed, ToSet(worker.batch) \cup ToSet(queue) \cup With)
        /\ InOrder(queue) /\ Before(ToSet(queue), With)
    BY <1>3 DEF Pipeline
  <2>2. /\ Before(ToSet(worker'.batch), ToSet(queue) \cup With)
        /\ Before(Filed, ToSet(worker'.batch) \cup ToSet(queue) \cup With)
    BY <1>9, <2>1 DEF Before
  <2>3. QED BY <1>1, <1>5, <1>9, <2>1, <2>2 DEF Pipeline
<1>12. MutexHeld'
  BY <1>1 DEF WriterIInv, MutexHeld
<1>13. BatchInUse' /\ Stopping' /\ Draining'
  BY <1>1, <1>4 DEF WriterIInv, BatchInUse, Stopping, Draining
<1>14. QED BY <1>5, <1>6, <1>8, <1>10, <1>11, <1>12, <1>13 DEF WriterIInv, WriterTypes

-----------------------------------------------------------------------------
(* The files                                                               *)

Content(files) == UNION {ToSet(files[f]) : f \in DOMAIN files}

Chained(files) ==
    /\ \A f \in DOMAIN files : InOrder(files[f])
    /\ \A f, g \in DOMAIN files : f < g => Before(ToSet(files[f]), ToSet(files[g]))

HasHeader(file) == file # <<>> => Head(file) = Header
Headed(files) == \A f \in DOMAIN files : HasHeader(files[f])

LEMMA AppendFile ==
    ASSUME NEW files \in Seq(Seq(FileLines)), NEW file \in Seq(FileLines)
    PROVE  /\ Append(files, file) \in Seq(Seq(FileLines))
           /\ Content(Append(files, file)) = Content(files) \cup ToSet(file)
           /\ Chained(Append(files, file)) <=>
                Chained(files) /\ InOrder(file) /\ Before(Content(files), ToSet(file))
           /\ Headed(Append(files, file)) <=> Headed(files) /\ HasHeader(file)
<1> DEFINE all == Append(files, file)
<1>1. PICK n \in Nat : n = Len(files)
  BY LenProperties
<1>2. /\ all \in Seq(Seq(FileLines)) /\ Len(all) = n + 1
      /\ \A f \in 1 .. n : all[f] = files[f]
      /\ all[n + 1] = file
  BY <1>1, AppendProperties
<1>3. DOMAIN all = 1 .. n + 1 /\ DOMAIN files = 1 .. n
  BY <1>1, <1>2, LenProperties
<1> HIDE DEF all
<1>4. /\ \A f \in DOMAIN files : f \in DOMAIN all /\ f < n + 1 /\ all[f] = files[f]
      /\ n + 1 \in DOMAIN all /\ all[n + 1] = file
      /\ \A f \in DOMAIN all : f \in DOMAIN files \/ f = n + 1
  BY <1>2, <1>3
<1>5. Content(all) = Content(files) \cup ToSet(file)
  <2>1. \A x : x \in Content(all) <=> \E f \in DOMAIN all : x \in ToSet(all[f])
    BY DEF Content
  <2>2. \A x : x \in Content(files) <=> \E f \in DOMAIN files : x \in ToSet(files[f])
    BY DEF Content
  <2>3. \A x : x \in Content(all) <=> x \in Content(files) \/ x \in ToSet(file)
    BY <2>1, <2>2, <1>4, Zenon
  <2>4. QED BY <2>3
<1>6. Chained(all) <=> Chained(files) /\ InOrder(file) /\ Before(Content(files), ToSet(file))
  <2>1. ASSUME Chained(all)
        PROVE  Chained(files) /\ InOrder(file) /\ Before(Content(files), ToSet(file))
    <3>1. Chained(files)
      <4>1. \A f \in DOMAIN files : InOrder(files[f])
        BY <1>4, <2>1 DEF Chained
      <4>2. \A f, g \in DOMAIN files : f < g => Before(ToSet(files[f]), ToSet(files[g]))
        BY <1>4, <2>1 DEF Chained
      <4>3. QED BY <4>1, <4>2 DEF Chained
    <3>2. InOrder(file)
      BY <1>4, <2>1 DEF Chained
    <3>3. \A f \in DOMAIN files : Before(ToSet(files[f]), ToSet(file))
      BY <1>4, <2>1 DEF Chained
    <3>4. Before(Content(files), ToSet(file))
      BY <3>3 DEF Before, Content
    <3>5. QED BY <3>1, <3>2, <3>4
  <2>2. ASSUME Chained(files), InOrder(file), Before(Content(files), ToSet(file))
        PROVE  Chained(all)
    <3>1. \A f \in DOMAIN all : InOrder(all[f])
      BY <1>4, <2>2 DEF Chained
    <3>2. ASSUME NEW f \in DOMAIN all, NEW g \in DOMAIN all, f < g
          PROVE  Before(ToSet(all[f]), ToSet(all[g]))
      <4>1. f \in DOMAIN files /\ all[f] = files[f]
        BY <1>2, <1>3, <3>2
      <4>2. CASE g \in DOMAIN files
        BY <1>4, <2>2, <3>2, <4>1, <4>2 DEF Chained
      <4>3. CASE g = n + 1
        <5>1. ToSet(all[f]) \subseteq Content(files)
          BY <4>1 DEF Content
        <5>2. QED BY <1>4, <2>2, <4>3, <5>1 DEF Before
      <4>4. QED BY <1>4, <4>2, <4>3
    <3>3. QED BY <3>1, <3>2 DEF Chained
  <2>3. QED BY <2>1, <2>2
<1>7. Headed(all) <=> Headed(files) /\ HasHeader(file)
  BY <1>4, Zenon DEF Headed
<1>8. QED BY <1>2, <1>5, <1>6, <1>7 DEF all

\* Each line precedes the later ones, in its file and in the next ones.
LinesInOrder(files) ==
    \A f, g \in DOMAIN files : \A i \in DOMAIN files[f], j \in DOMAIN files[g] :
      f < g \/ (f = g /\ i < j) => Precedes(files[f][i], files[g][j])

LEMMA LinesAreChained ==
    ASSUME NEW files, DOMAIN files \subseteq Nat
    PROVE  LinesInOrder(files) <=> Chained(files)
<1>1. ASSUME LinesInOrder(files) PROVE Chained(files)
  <2>1. ASSUME NEW f \in DOMAIN files, NEW g \in DOMAIN files, f < g
        PROVE  Before(ToSet(files[f]), ToSet(files[g]))
    BY <1>1, <2>1 DEF LinesInOrder, Before, ToSet
  <2>2. \A f \in DOMAIN files : InOrder(files[f])
    BY <1>1 DEF LinesInOrder, InOrder
  <2>3. QED BY <2>1, <2>2 DEF Chained
<1>2. ASSUME Chained(files) PROVE LinesInOrder(files)
  <2> SUFFICES ASSUME NEW f \in DOMAIN files, NEW g \in DOMAIN files,
                      NEW i \in DOMAIN files[f], NEW j \in DOMAIN files[g],
                      f < g \/ (f = g /\ i < j)
               PROVE  Precedes(files[f][i], files[g][j])
    BY DEF LinesInOrder
  <2>1. CASE f < g
    BY <1>2, <2>1 DEF Chained, Before, ToSet
  <2>2. CASE f = g /\ i < j
    BY <1>2, <2>2 DEF Chained, InOrder
  <2>3. QED BY <2>1, <2>2
<1>3. QED BY <1>1, <1>2

LEMMA FilesAre ==
    ASSUME Files \in Seq(Seq(FileLines))
    PROVE  /\ FiledInOrder <=> Chained(Files)
           /\ FilesHaveHeaders <=> Headed(Files)
           /\ Filed = Content(Files) \ {Header}
<1>1. DOMAIN Files \subseteq Nat
  BY LenProperties
<1>2. FiledInOrder <=> LinesInOrder(Files)
  BY DEF FiledInOrder, LinesInOrder
<1>3. FilesHaveHeaders <=> Headed(Files)
  BY DEF FilesHaveHeaders, Headed, HasHeader
<1>4. Filed = Content(Files) \ {Header}
  BY DEF Filed, Content
<1>5. QED BY <1>1, <1>2, <1>3, <1>4, LinesAreChained

LEMMA FilesAreNext ==
    ASSUME Files' \in Seq(Seq(FileLines))
    PROVE  /\ FiledInOrder' <=> Chained(Files')
           /\ FilesHaveHeaders' <=> Headed(Files')
           /\ Filed' = Content(Files') \ {Header}
<1>1. DOMAIN Files' \subseteq Nat
  BY LenProperties
<1>2. FiledInOrder' <=> LinesInOrder(Files')
  BY DEF FiledInOrder, LinesInOrder
<1>3. FilesHaveHeaders' <=> Headed(Files')
  BY DEF FilesHaveHeaders, Headed, HasHeader
<1>4. Filed' = Content(Files') \ {Header}
  BY DEF Filed, Content
<1>5. QED BY <1>1, <1>2, <1>3, <1>4, LinesAreChained

\* New lines at the end of the file, or in a new file after a rotation.
LEMMA FilesGrow ==
    ASSUME StoreTypes, FiledInOrder, FilesHaveHeaders,
           NEW new \in Seq(FileLines), InOrder(new), Before(Filed, ToSet(new)),
           \/ /\ archive' = archive /\ csv' = csv \o new
              /\ csv = <<>> => HasHeader(new)
           \/ /\ archive' = Append(archive, csv) /\ csv' = new
              /\ HasHeader(new)
    PROVE  /\ csv' \in Seq(FileLines) /\ archive' \in Seq(Seq(FileLines))
           /\ FiledInOrder' /\ FilesHaveHeaders'
           /\ Filed' = Filed \cup (ToSet(new) \ {Header})
<1>1. csv \in Seq(FileLines) /\ archive \in Seq(Seq(FileLines))
  BY DEF StoreTypes
<1>2. /\ Files \in Seq(Seq(FileLines))
      /\ Content(Files) = Content(archive) \cup ToSet(csv)
      /\ Chained(archive) /\ InOrder(csv) /\ Before(Content(archive), ToSet(csv))
      /\ Chained(Files)
      /\ Headed(archive) /\ HasHeader(csv) /\ Headed(Files)
  <2>1. Files \in Seq(Seq(FileLines))
    BY <1>1, AppendFile DEF Files
  <2>2. Chained(Files) /\ Headed(Files)
    BY <2>1, FilesAre
  <2>3. QED BY <1>1, <2>1, <2>2, AppendFile DEF Files
<1>3. Before(Content(Files), ToSet(new))
  BY <1>2, FilesAre, HeaderAnywhere
<1>4. Content(Files') = Content(Files) \cup ToSet(new) /\ Chained(Files') /\ Headed(Files')
      /\ csv' \in Seq(FileLines) /\ archive' \in Seq(Seq(FileLines))
  <2>1. CASE archive' = archive /\ csv' = csv \o new /\ (csv = <<>> => HasHeader(new))
    <3>1. Before(ToSet(csv), ToSet(new)) /\ Before(Content(archive), ToSet(new))
      BY <1>2, <1>3 DEF Before
    <3>2. /\ csv' \in Seq(FileLines) /\ ToSet(csv') = ToSet(csv) \cup ToSet(new)
          /\ InOrder(csv')
      BY <1>1, <1>2, <2>1, <3>1, ConcatInOrder
    <3>3. Before(Content(archive), ToSet(csv'))
      BY <1>2, <3>1, <3>2 DEF Before
    <3>4. HasHeader(csv')
      <4>1. CASE csv = <<>>
        <5>1. csv' = new
          BY <2>1, <4>1
        <5>2. QED BY <2>1, <4>1, <5>1
      <4>2. CASE csv # <<>>
        <5>1. Head(csv') = Head(csv)
          <6>1. Len(csv) \in Nat /\ Len(csv) > 0 /\ Len(new) \in Nat
            BY <1>1, <4>2, EmptySeq, LenProperties
          <6>2. (csv \o new)[1] = csv[1]
            BY <1>1, <6>1, ConcatProperties
          <6>3. Head(csv') = csv'[1] /\ Head(csv) = csv[1]
            OBVIOUS
          <6>4. QED BY <2>1, <6>2, <6>3
        <5>2. QED BY <1>2, <4>2, <5>1 DEF HasHeader
      <4>3. QED BY <4>1, <4>2
    <3>5. Files' = Append(archive, csv')
      BY <2>1 DEF Files
    <3>6. Content(Files') = Content(archive) \cup ToSet(csv') /\ Chained(Files') /\ Headed(Files')
      BY <1>1, <1>2, <3>2, <3>3, <3>4, <3>5, AppendFile
    <3>7. Content(Files') = Content(Files) \cup ToSet(new)
      BY <1>2, <3>2, <3>6
    <3>8. QED BY <1>1, <2>1, <3>2, <3>6, <3>7
  <2>2. CASE archive' = Append(archive, csv) /\ csv' = new /\ HasHeader(new)
    <3>1. Files' = Append(Files, new) /\ archive' = Files
      BY <2>2 DEF Files
    <3>2. /\ Content(Append(Files, new)) = Content(Files) \cup ToSet(new)
          /\ Chained(Append(Files, new)) /\ Headed(Append(Files, new))
      BY <1>2, <1>3, <2>2, AppendFile
    <3>3. QED BY <1>2, <2>2, <3>1, <3>2
  <2>3. QED BY <2>1, <2>2
<1>5. /\ FiledInOrder' <=> Chained(Files')
      /\ FilesHaveHeaders' <=> Headed(Files')
      /\ Filed' = Content(Files') \ {Header}
  <2>1. Files' \in Seq(Seq(FileLines))
    BY <1>4, AppendFile DEF Files
  <2>2. QED BY <2>1, FilesAreNext
<1>6. Filed' = Filed \cup (ToSet(new) \ {Header})
  BY <1>2, <1>4, <1>5, FilesAre
<1>7. QED BY <1>4, <1>5, <1>6

\* What flush_csv writes: the batch, under a header where the file is new.
LEMMA LinesIs ==
    ASSUME NEW old, NEW rotates, NEW batch \in Seq(Ticks), InOrder(batch)
    PROVE  LET new == Lines(old, rotates, batch)
           IN  /\ new \in Seq(FileLines) /\ InOrder(new)
               /\ ToSet(new) \ {Header} = ToSet(batch)
               /\ ToSet(new) \subseteq ToSet(batch) \cup {Header}
               /\ old = <<>> \/ rotates => HasHeader(new)
<1> DEFINE header == IF old = <<>> \/ rotates THEN <<Header>> ELSE <<>>
<1>1. batch \in Seq(FileLines)
  BY LineOfTick, SeqMonotonic
<1>2. /\ header \in Seq(FileLines) /\ InOrder(header) /\ ToSet(header) \subseteq {Header}
      /\ old = <<>> \/ rotates => header = <<Header>>
  <2>1. /\ <<Header>> \in Seq(FileLines) /\ <<>> \in Seq(FileLines)
    BY LineOfTick
  <2>2. InOrder(<<Header>>) /\ ToSet(<<Header>>) = {Header}
    BY DEF InOrder, ToSet
  <2>3. QED BY <2>1, <2>2, EmptyIsInOrder
<1>3. Lines(old, rotates, batch) = header \o batch
  BY DEF Lines
<1> HIDE DEF header
<1>4. Before(ToSet(header), ToSet(batch))
  BY <1>2, HeaderAnywhere DEF Before, Precedes
<1>5. /\ header \o batch \in Seq(FileLines) /\ InOrder(header \o batch)
      /\ ToSet(header \o batch) = ToSet(header) \cup ToSet(batch)
  BY <1>1, <1>2, <1>4, ConcatInOrder
<1>6. Header \notin ToSet(batch)
  BY LineOfTick DEF ToSet
<1>7. ASSUME old = <<>> \/ rotates PROVE HasHeader(header \o batch)
  <2>1. header = <<Header>>
    BY <1>2, <1>7
  <2>2. (header \o batch)[1] = header[1]
    <3>1. Len(header) = 1 /\ Len(batch) \in Nat
      BY <2>1, LenProperties
    <3>2. QED BY <1>1, <1>2, <3>1, ConcatProperties
  <2>3. Head(header \o batch) = (header \o batch)[1] /\ header[1] = Header
    BY <2>1
  <2>4. QED BY <2>2, <2>3 DEF HasHeader
<1>8. QED BY <1>2, <1>3, <1>5, <1>6, <1>7

LEMMA FlushCsvStep ==
    ASSUME WriterIInv, FlushCsv
    PROVE  WriterIInv'
<1> DEFINE batch == worker.batch
<1>1. /\ worker.pc \in {"flush", "csv"}
      /\ UNCHANGED <<overflowPolicy, database, queue, running, lock, producer, sent, control, conn,
                     backoff, db, dropped, discarded, late>>
      /\ worker' = [pc |-> "test", batch |-> <<>>]
  BY DEF FlushCsv, config
<1>2. PICK renamed \in BOOLEAN, opened \in BOOLEAN :
        LET rotates == Len(csv) >= CsvMax
            old == IF rotates /\ renamed THEN <<>> ELSE csv
        IN  /\ renamed => rotates
            /\ archive' = IF renamed THEN Append(archive, csv) ELSE archive
            /\ csv' = IF opened THEN old \o Lines(old, rotates, batch) ELSE old
            /\ lost' = IF opened THEN lost ELSE lost \cup ToSet(batch)
  BY DEF FlushCsv
<1>3. /\ ThreadTypes /\ QueueTypes /\ StoreTypes /\ Pipeline /\ NothingVanishes
      /\ FiledInOrder /\ FilesHaveHeaders
      /\ batch \in Seq(Ticks)
      /\ csv \in Seq(FileLines)
  BY DEF WriterIInv, WriterTypes, ThreadTypes, StoreTypes, Workers
<1>4. /\ worker' \in Workers /\ worker'.pc = "test" /\ worker'.batch = <<>>
      /\ ToSet(worker'.batch) = {} /\ InOrder(worker'.batch) /\ Len(worker'.batch) <= MaxBatch
  BY <1>1, BatchDone, WriterAssumption, EmptyIsInOrder
<1>5. /\ With' = With /\ \A q \in Callers : OwnTicks(q)'
      /\ HandedIn' = HandedIn
  BY <1>1, <1>3, LeftKept DEF Pipeline, HandedIn
<1>6. /\ InOrder(batch) /\ InOrder(queue) /\ Before(ToSet(queue), With)
      /\ Before(ToSet(batch), ToSet(queue) \cup With)
      /\ Before(Filed, ToSet(batch) \cup ToSet(queue) \cup With)
  BY <1>3 DEF Pipeline
<1>7. ToSet(batch) \subseteq Ticks
  BY <1>3 DEF ToSet
<1>8. /\ csv' \in Seq(FileLines) /\ archive' \in Seq(Seq(FileLines))
      /\ FiledInOrder' /\ FilesHaveHeaders'
      /\ Filed' = IF opened THEN Filed \cup ToSet(batch) ELSE Filed
  <2> DEFINE rotates == Len(csv) >= CsvMax
             old == IF rotates /\ renamed THEN <<>> ELSE csv
             new == Lines(old, rotates, batch)
  <2>1. /\ new \in Seq(FileLines) /\ InOrder(new)
        /\ ToSet(new) \ {Header} = ToSet(batch)
        /\ ToSet(new) \subseteq ToSet(batch) \cup {Header}
        /\ old = <<>> \/ rotates => HasHeader(new)
    BY <1>3, <1>6, LinesIs
  <2>2. Before(Filed, ToSet(new))
    BY <1>6, <2>1 DEF Before, Precedes
  <2>3. CASE opened /\ renamed
    <3>1. /\ archive' = Append(archive, csv) /\ rotates /\ old = <<>>
          /\ csv' = <<>> \o new
      BY <1>2, <2>3
    <3>2. csv' = new
      BY <2>1, <3>1, ConcatEmptySeq
    <3>3. QED BY <1>3, <2>1, <2>2, <2>3, <3>1, <3>2, FilesGrow
  <2>4. CASE opened /\ ~ renamed
    <3>1. archive' = archive /\ old = csv /\ csv' = csv \o new
      BY <1>2, <2>4
    <3>2. csv = <<>> => HasHeader(new)
      BY <2>1, <3>1
    <3> HIDE DEF new
    <3>3. QED BY <1>3, <2>1, <2>2, <2>4, <3>1, <3>2, FilesGrow
  <2>5. CASE ~ opened /\ renamed
    <3>1. archive' = Append(archive, csv) /\ csv' = <<>>
      BY <1>2, <2>5
    <3>2. <<>> \in Seq(FileLines) /\ InOrder(<<>>) /\ ToSet(<<>>) = {} /\ HasHeader(<<>>)
      BY EmptyIsInOrder DEF HasHeader
    <3>3. Before(Filed, ToSet(<<>>))
      BY <3>2 DEF Before
    <3>4. QED BY <1>3, <2>5, <3>1, <3>2, <3>3, FilesGrow
  <2>6. CASE ~ opened /\ ~ renamed
    <3>1. archive' = archive /\ csv' = csv
      BY <1>2, <2>6
    <3>2. QED BY <1>3, <2>6, <3>1, FilesKept DEF StoreTypes
  <2>7. QED BY <2>3, <2>4, <2>5, <2>6
<1>9. lost' = IF opened THEN lost ELSE lost \cup ToSet(batch)
  BY <1>2
<1>10. ThreadTypes' /\ QueueTypes'
  BY <1>1, <1>3, <1>4 DEF ThreadTypes, QueueTypes
<1>11. StoreTypes'
  BY <1>1, <1>3, <1>7, <1>8, <1>9 DEF StoreTypes
<1>12. NothingVanishes'
  <2> DEFINE moved == ToSet(batch) \ db
             place == IF opened THEN "stored" ELSE "lost"
  <2>1. Partition(Places, HandedIn)
    BY <1>3, NothingVanishesIs
  <2>2. /\ Places'["batch"] = Places["batch"] \ moved /\ moved \subseteq Places["batch"]
    BY <1>4, PlacesAre, PlacesAreNext
  <2>3. Places'[place] = Places[place] \cup moved
    <3>1. CASE opened
      <4>1. Places'["stored"] = Places["stored"] \cup moved
        BY <1>1, <1>8, <3>1, PlacesAre, PlacesAreNext
      <4>2. QED BY <3>1, <4>1
    <3>2. CASE ~ opened
      <4>1. Places'["lost"] = Places["lost"] \cup moved
        BY <1>1, <1>9, <3>2, PlacesAre, PlacesAreNext
      <4>2. QED BY <3>2, <4>1
    <3>3. QED BY <3>1, <3>2
  <2>4. \A z \in PlaceNames : z # "batch" /\ z # place => Places'[z] = Places[z]
    BY <1>1, <1>5, <1>8, <1>9, PlacesAre, PlacesAreNext DEF PlaceNames
  <2>5. place \in PlaceNames /\ "batch" \in PlaceNames /\ place # "batch"
    BY DEF PlaceNames
  <2> HIDE DEF moved, place
  <2>6. Move(Places, Places', moved, "batch", place)
    BY <2>2, <2>3, <2>4, <2>5 DEF Move
  <2>7. Partition(Places', HandedIn)
    BY <2>1, <2>6, Moved
  <2>8. QED BY <1>5, <2>7, NothingVanishesIs
<1>13. Pipeline'
  <2>1. Before(Filed', ToSet(queue) \cup With)
    BY <1>6, <1>8 DEF Before
  <2>2. Before({}, ToSet(queue) \cup With)
    BY DEF Before
  <2>3. Before(Filed', {} \cup ToSet(queue) \cup With)
    BY <2>1
  <2>4. QED BY <1>1, <1>4, <1>5, <1>6, <2>2, <2>3 DEF Pipeline
<1>14. MutexHeld'
  BY <1>1 DEF WriterIInv, MutexHeld
<1>15. BatchInUse' /\ Stopping' /\ Draining'
  BY <1>1, <1>4 DEF WriterIInv, BatchInUse, Stopping, Draining
<1>16. QED BY <1>8, <1>10, <1>11, <1>12, <1>13, <1>14, <1>15 DEF WriterIInv, WriterTypes

-----------------------------------------------------------------------------
(* Start and stop                                                          *)

LEMMA StartStep ==
    ASSUME WriterIInv, Start
    PROVE  WriterIInv'
<1>1. /\ control = "out" /\ ~ running /\ running'
      /\ worker' = [pc |-> "test", batch |-> <<>>]
      /\ UNCHANGED <<overflowPolicy, database, queue, lock, producer, sent, control, conn,
                     backoff, db, csv, archive, lost, dropped, discarded>>
      /\ running' \in BOOLEAN
  BY DEF Start, config, storage
<1>2. ThreadTypes /\ worker.batch = <<>>
  BY <1>1 DEF WriterIInv, WriterTypes, Stopping, BatchInUse
<1>3. /\ worker' \in Workers /\ worker'.pc = "test" /\ worker'.batch = worker.batch
  BY <1>1, <1>2, BatchDone
<1>4. ThreadTypes'
  BY <1>1, <1>2, <1>3 DEF ThreadTypes
<1>5. /\ QueueTypes' /\ StoreTypes'
      /\ NothingVanishes' /\ Pipeline' /\ FiledInOrder' /\ FilesHaveHeaders'
  BY <1>1, <1>3, Kept
<1>6. MutexHeld'
  BY <1>1 DEF WriterIInv, MutexHeld
<1>7. BatchInUse' /\ Stopping' /\ Draining'
  BY <1>1, <1>2, <1>3 DEF BatchInUse, Stopping, Draining
<1>8. QED BY <1>4, <1>5, <1>6, <1>7 DEF WriterIInv, WriterTypes

LEMMA StopBeginStep ==
    ASSUME WriterIInv, StopBegin
    PROVE  WriterIInv'
<1>1. /\ control = "out" /\ running /\ running' = FALSE /\ control' = "notify"
      /\ late' = (lock # Unlocked)
      /\ UNCHANGED <<overflowPolicy, database, queue, lock, producer, sent, worker, conn,
                     backoff, db, csv, archive, lost, dropped, discarded>>
  BY DEF StopBegin, config, storage
<1>2. ThreadTypes /\ MutexHeld
  BY DEF WriterIInv, WriterTypes
<1>3. ThreadTypes'
  BY <1>1, <1>2 DEF ThreadTypes
<1>4. /\ QueueTypes' /\ StoreTypes'
      /\ NothingVanishes' /\ Pipeline' /\ FiledInOrder' /\ FilesHaveHeaders'
  BY <1>1, Kept
<1>5. MutexHeld'
  BY <1>1 DEF WriterIInv, MutexHeld
<1>6. BatchInUse' /\ Stopping'
  BY <1>1 DEF WriterIInv, BatchInUse, Stopping
<1>7. Draining'
  <2>1. worker.pc \notin {"none", "done"}
    BY <1>1 DEF WriterIInv, Stopping
  <2>2. ASSUME lock = Unlocked PROVE \A q \in Callers : producer[q].pc \notin {"in", "full"}
    BY <1>2, <2>2, WriterAssumption DEF MutexHeld
  <2>3. QED BY <1>1, <2>1, <2>2 DEF Draining
<1>8. QED BY <1>3, <1>4, <1>5, <1>6, <1>7 DEF WriterIInv, WriterTypes

LEMMA StopNotifyStep ==
    ASSUME WriterIInv, StopNotify
    PROVE  WriterIInv'
<1>1. /\ control = "notify" /\ control' = "join" /\ producer' = NotifySpace
      /\ UNCHANGED <<overflowPolicy, database, queue, running, lock, sent, worker, conn,
                     backoff, db, csv, archive, lost, dropped, discarded, late>>
  BY DEF StopNotify, config, storage
<1>2. ThreadTypes /\ MutexHeld
  BY DEF WriterIInv, WriterTypes
<1>3. /\ producer' \in [Callers -> Calls]
      /\ \A q \in Callers : /\ producer'[q].left = producer[q].left
                            /\ \/ producer'[q].pc = producer[q].pc
                               \/ producer'[q].pc = "woken" /\ producer[q].pc = "asleep"
  BY <1>1, <1>2, Notified
<1>4. ThreadTypes'
  BY <1>1, <1>2, <1>3 DEF ThreadTypes
<1>5. /\ QueueTypes' /\ StoreTypes'
      /\ NothingVanishes' /\ Pipeline' /\ FiledInOrder' /\ FilesHaveHeaders'
  BY <1>1, <1>3, Kept
<1>6. MutexHeld'
  BY <1>1, <1>2, <1>3 DEF MutexHeld
<1>7. BatchInUse' /\ Stopping'
  BY <1>1 DEF WriterIInv, BatchInUse, Stopping
<1>8. Draining'
  BY <1>1, <1>3 DEF WriterIInv, Draining
<1>9. QED BY <1>4, <1>5, <1>6, <1>7, <1>8 DEF WriterIInv, WriterTypes

LEMMA StopJoinStep ==
    ASSUME WriterIInv, StopJoin
    PROVE  WriterIInv'
<1>1. /\ control = "join" /\ worker.pc = "done" /\ control' = "out" /\ conn' = "down"
      /\ worker' = [pc |-> "none", batch |-> <<>>]
      /\ UNCHANGED <<overflowPolicy, database, queue, running, lock, producer, sent,
                     backoff, db, csv, archive, lost, dropped, discarded, late>>
  BY DEF StopJoin, config
<1>2. ThreadTypes /\ worker.batch = <<>> /\ ~ running
  BY <1>1 DEF WriterIInv, WriterTypes, Stopping, BatchInUse
<1>3. /\ worker' \in Workers /\ worker'.pc = "none" /\ worker'.batch = worker.batch
  BY <1>1, <1>2, BatchDone
<1>4. ThreadTypes'
  BY <1>1, <1>2, <1>3 DEF ThreadTypes
<1>5. /\ QueueTypes' /\ StoreTypes'
      /\ NothingVanishes' /\ Pipeline' /\ FiledInOrder' /\ FilesHaveHeaders'
  BY <1>1, <1>3, Kept
<1>6. MutexHeld'
  BY <1>1 DEF WriterIInv, MutexHeld
<1>7. BatchInUse' /\ Stopping'
  BY <1>1, <1>2, <1>3 DEF BatchInUse, Stopping
<1>8. Draining'
  BY <1>1, <1>3 DEF WriterIInv, Draining
<1>9. QED BY <1>4, <1>5, <1>6, <1>7, <1>8 DEF WriterIInv, WriterTypes

-----------------------------------------------------------------------------
(* The theorems                                                            *)

LEMMA InitHolds == WriterInit => WriterIInv
<1> SUFFICES ASSUME WriterInit PROVE WriterIInv
  OBVIOUS
<1>1. /\ queue = <<>> /\ running = FALSE /\ lock = Unlocked
      /\ producer = [p \in Callers |-> Out] /\ sent = [p \in Callers |-> 0]
      /\ worker = [pc |-> "none", batch |-> <<>>]
      /\ control = "out" /\ conn = "down" /\ backoff = BackoffMin
      /\ db = {} /\ csv = <<>> /\ archive = <<>>
      /\ dropped = {} /\ discarded = {} /\ lost = {} /\ late = FALSE
      /\ overflowPolicy \in {"DropNewest", "DropOldest", "Block"} /\ database \in BOOLEAN
  BY DEF WriterInit
<1>2. /\ worker \in Workers /\ worker.pc = "none" /\ worker.batch = <<>>
  BY <1>1, BatchDone
<1>3. \A p \in Callers : producer[p] = Out /\ producer[p].pc = "out" /\ producer[p].left = <<>>
  BY <1>1, OutIs
<1>4. ThreadTypes
  <2>1. producer \in [Callers -> Calls]
    BY <1>1, OutIs
  <2>2. Len(worker.batch) <= MaxBatch
    BY <1>2, WriterAssumption
  <2>3. backoff \in BackoffMin .. BackoffMax
    BY <1>1, WriterAssumption
  <2>4. sent \in [Callers -> Nat]
    BY <1>1
  <2>5. QED BY <1>1, <1>2, <2>1, <2>2, <2>3, <2>4 DEF ThreadTypes
<1>5. QueueTypes /\ StoreTypes
  BY <1>1, WriterAssumption DEF QueueTypes, StoreTypes
<1>6. MutexHeld
  BY <1>3 DEF MutexHeld
<1>7. With = {} /\ HandedIn = {} /\ Filed = {} /\ ToSet(queue) = {} /\ ToSet(worker.batch) = {}
  <2>1. With = {}
    BY <1>3, EmptyIsInOrder DEF With
  <2>2. HandedIn = {}
    BY <1>1 DEF HandedIn
  <2>3. Files = <<csv>> /\ csv = <<>>
    BY <1>1 DEF Files
  <2>4. \A f \in DOMAIN Files : Files[f] = <<>>
    BY <2>3
  <2>5. Filed = {}
    BY <2>4, EmptyIsInOrder DEF Filed
  <2>6. QED BY <1>1, <1>2, <2>1, <2>2, <2>5, EmptyIsInOrder
<1>8. FiledInOrder /\ FilesHaveHeaders
  <2>1. Files = <<csv>> /\ csv = <<>>
    BY <1>1 DEF Files
  <2>2. \A f \in DOMAIN Files : Files[f] = <<>>
    BY <2>1
  <2>3. QED BY <2>2 DEF FiledInOrder, FilesHaveHeaders
<1>9. NothingVanishes
  <2>1. \A x \in PlaceNames : Places[x] = {}
    BY <1>1, <1>7, PlacesAre DEF PlaceNames
  <2>2. Partition(Places, HandedIn)
    BY <1>7, <2>1 DEF Partition
  <2>3. QED BY <2>2, NothingVanishesIs
<1>10. Pipeline
  <2>1. \A p \in Callers : OwnTicks(p)
    BY <1>3, EmptyIsInOrder DEF OwnTicks
  <2>2. InOrder(queue) /\ InOrder(worker.batch)
    BY <1>1, <1>2, EmptyIsInOrder
  <2>3. QED BY <1>7, <2>1, <2>2 DEF Pipeline, Before
<1>11. BatchInUse /\ Stopping /\ Draining
  BY <1>1, <1>2, <1>3 DEF BatchInUse, Stopping, Draining
<1>12. QED BY <1>4, <1>5, <1>6, <1>8, <1>9, <1>10, <1>11 DEF WriterIInv, WriterTypes

LEMMA StutterStep == WriterIInv /\ UNCHANGED writerVars => WriterIInv'
<1> SUFFICES ASSUME WriterIInv, UNCHANGED writerVars PROVE WriterIInv'
  OBVIOUS
<1>1. UNCHANGED <<overflowPolicy, database, queue, running, lock, producer, sent, worker, control,
                  conn, backoff, db, csv, archive, lost, dropped, discarded, late>>
  BY DEF writerVars, config
<1>2. /\ QueueTypes' /\ StoreTypes'
      /\ NothingVanishes' /\ Pipeline' /\ FiledInOrder' /\ FilesHaveHeaders'
  BY <1>1, Kept
<1>3. ThreadTypes'
  BY <1>1 DEF WriterIInv, WriterTypes, ThreadTypes
<1>4. MutexHeld' /\ BatchInUse' /\ Stopping' /\ Draining'
  BY <1>1 DEF WriterIInv, MutexHeld, BatchInUse, Stopping, Draining
<1>5. QED BY <1>2, <1>3, <1>4 DEF WriterIInv, WriterTypes

\* The invariant holds in every reachable state of the writer.
THEOREM WriterInvariant == WriterSpec => []WriterIInv
<1>1. WriterInit => WriterIInv
  BY InitHolds
<1>2. WriterIInv /\ [WriterNext]_writerVars => WriterIInv'
  <2> SUFFICES ASSUME WriterIInv, WriterNext PROVE WriterIInv'
    BY StutterStep
  <2>1. ASSUME NEW p \in Callers, ProducerStep(p) PROVE WriterIInv'
    BY <2>1, EnqueueStep, SleepStep, WakeStep DEF ProducerStep
  <2>2. ASSUME NEW p \in Callers, NEW n \in CallSizes, Enter(p, n) PROVE WriterIInv'
    BY <2>2, EnterStep
  <2>3. ASSUME WorkerStep PROVE WriterIInv'
    BY <2>3, WorkerTestStep, WorkerTakeStep, ConnectStep, CopyStep, FlushCsvStep DEF WorkerStep
  <2>4. ASSUME Start \/ StopBegin \/ StopNotify \/ StopJoin PROVE WriterIInv'
    BY <2>4, StartStep, StopBeginStep, StopNotifyStep, StopJoinStep
  <2>5. QED BY <2>1, <2>2, <2>3, <2>4 DEF WriterNext
<1>3. QED BY <1>1, <1>2, PTL DEF WriterSpec

\* Whatever fails or overflows, every tick is accounted for.
THEOREM EveryTickAccounted == WriterSpec => []TicksAccounted
<1>1. WriterIInv => TicksAccounted
  <2> SUFFICES ASSUME WriterIInv PROVE TypeOK
    BY DEF WriterIInv, TicksAccounted
  <2>1. ThreadTypes /\ QueueTypes /\ StoreTypes /\ MutexHeld /\ NothingVanishes
    BY DEF WriterIInv, WriterTypes
  <2>2. ToSet(queue) \subseteq Ticks
    BY <2>1 DEF QueueTypes, ToSet
  <2>3. \A p \in Callers : /\ producer[p].pc \in {"out", "in", "full", "asleep", "woken"}
                           /\ producer[p].pc \in {"in", "full"} => lock = p
    BY <2>1, CallIs DEF MutexHeld
  <2>4. worker.pc \in {"none", "test", "wait", "flush", "csv", "done"}
    BY <2>1 DEF ThreadTypes, Workers
  <2>5. HandedIn \subseteq Ticks
    BY <2>1 DEF HandedIn, Ticks, ThreadTypes
  <2>6. db \cup Filed \cup dropped \cup discarded \cup lost \subseteq Ticks
    BY <2>1, <2>5, AllHandedIn DEF QueueTypes, StoreTypes
  <2>7. QED BY <2>1, <2>2, <2>3, <2>4, <2>6 DEF TypeOK, ThreadTypes, QueueTypes
<1>2. QED BY <1>1, WriterInvariant, PTL

\* A stop that no call overlaps leaves nothing on the queue.
THEOREM StopLeavesNothing == WriterSpec => []StopDrains
<1>1. WriterIInv => StopDrains
  BY DEF WriterIInv, Stopping, Draining, StopDrains
<1>2. QED BY <1>1, WriterInvariant, PTL
=============================================================================
