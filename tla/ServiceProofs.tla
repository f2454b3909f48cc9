--------------------------- MODULE ServiceProofs ---------------------------
(***************************************************************************)
(* The threads of the running service, for every value of the constants:   *)
(* the event journal, and the HTTP server with the gateway under it.       *)
(***************************************************************************)
EXTENDS EventJournal, HttpWsServer, SumProofs, SequenceTheorems

-----------------------------------------------------------------------------
(* The inductive invariant                                                 *)

\* An event before it is numbered and stamped.
Blanks == [seq : 0 .. MaxEvents, ts : Nat]

Types ==
    /\ next_seq \in 1 .. MaxEvents + 1 /\ last_ts \in Nat
    /\ written_seq \in 0 .. MaxEvents
    /\ producers \in [Producers -> [pc : {"idle", "numbered", "stamped", "claimed"},
                                    event : Blanks]]
    /\ queue \in Seq(Queue!Places) /\ Len(queue) <= Capacity
    /\ writer \in [pc : {"idle", "writing", "raced", "written", "gone"}, event : Blanks]
    /\ file \in Seq(Events \cup Fragments \cup {Break})
    /\ flushed \in 0 .. Len(file) /\ base \in 0 .. Len(file)
    /\ flush \in [pc : {"idle", "waiting", "closing"}, target : 0 .. MaxEvents + 1,
                  closing : BOOLEAN]
    /\ overlapped \in BOOLEAN

\* Who has an event has a numbered one.
Numbered(p) == producers[p].pc \in {"numbered", "stamped"}
Busy == writer.pc \in {"writing", "raced"}

EventsOK ==
    /\ \A p \in Producers : Numbered(p) => producers[p].event \in Events
    /\ Busy \/ writer.pc = "written" => writer.event \in Events

\* The numbers that the process found in the file.
Found == LastSeq(SubSeq(file, 1, base))

\* No number is in two places of the same kind.
OneEach ==
    /\ \A p, q \in Producers :
         Numbered(p) /\ Numbered(q) /\ producers[p].event.seq = producers[q].event.seq
           => p = q
    /\ \A j, k \in DOMAIN queue : queue[j].value.seq = queue[k].value.seq => j = k

\* The numbers handed out are in six places, one each.
Cover(a, q, w, f, d, s, n) == a \cup q \cup w \cup f \cup d \cup s = n
Apart(a, q, w, f, d, s) ==
    /\ a \cap q = {} /\ a \cap w = {} /\ a \cap f = {} /\ a \cap d = {} /\ a \cap s = {}
    /\ q \cap w = {} /\ q \cap f = {} /\ q \cap d = {} /\ q \cap s = {}
    /\ w \cap f = {} /\ w \cap d = {} /\ w \cap s = {}
    /\ f \cap d = {} /\ f \cap s = {} /\ d \cap s = {}

NumbersOK ==
    /\ Cover(InAppend, InQueue, AtWriter, Written, dropped, spoiled, Found + 1 .. next_seq - 1)
    /\ Apart(InAppend, InQueue, AtWriter, Written, dropped, spoiled)

\* What is accepted, or claimed and soon accepted, is on its way to the file.
OnItsWay ==
    /\ \A p \in Producers : producers[p].pc = "claimed" =>
         \E k \in DOMAIN queue : queue[k].owner = p /\ queue[k].value.seq = producers[p].event.seq
    /\ accepted \subseteq InQueue \cup AtWriter \cup Written \cup spoiled

\* Nobody appends during a flush, and nothing is left when the writer has gone.
FlushOK ==
    /\ flush.pc # "idle" => \A p \in Producers : ~Appending(p)
    /\ flush.pc = "waiting" => flush.target = next_seq
    /\ writer.pc = "gone" => flush.pc = "closing" /\ queue = <<>> /\ flushed = Len(file)

\* The events of a file that stand in it for good: those that a reader finds, and
\* those of the process that opened it when it had so many texts and breaks.
Lasting(f, b) == {k \in DOMAIN f : f[k] \in Events /\ (k > b \/ k = 1 \/ f[k - 1] = Break)}

Distinct(f, b) == \A j, k \in Lasting(f, b) : f[j].seq = f[k].seq => j = k
LinesApart == Distinct(file, base)

LossInv == Types /\ EventsOK /\ OneEach /\ NumbersOK /\ OnItsWay /\ FlushOK /\ LinesApart

\* Everything in the file, at the writer and in the ring is before a number and
\* a stamp.
Below(seq, ts) ==
    /\ \A k \in Lasting(file, base) : file[k].seq < seq /\ file[k].ts < ts
    /\ Busy \/ writer.pc = "written" => writer.event.seq < seq /\ writer.event.ts < ts
    /\ \A k \in DOMAIN queue : queue[k].value.seq < seq /\ queue[k].value.ts < ts

Before(e, f) == e.seq < f.seq /\ e.ts < f.ts

Ordered(f, b) == \A j, k \in Lasting(f, b) : j < k => Before(f[j], f[k])

\* One append after another: the events are in order, from the file over the writer
\* and the ring to the producer.
OneAppends == \A p, q \in Producers : Appending(p) /\ Appending(q) => p = q
WriterOrdered == Busy => \A j \in Lasting(file, base) : Before(file[j], writer.event)
QueueOrdered ==
    /\ \A j \in Lasting(file, base), k \in DOMAIN queue : Before(file[j], queue[k].value)
    /\ Busy \/ writer.pc = "written" =>
         \A k \in DOMAIN queue : Before(writer.event, queue[k].value)
    /\ \A j, k \in DOMAIN queue : j < k => Before(queue[j].value, queue[k].value)
ProducersOrdered ==
    /\ \A p \in Producers : Numbered(p) =>
         /\ producers[p].event.seq < next_seq
         /\ Below(producers[p].event.seq, last_ts + 1)
    /\ \A p \in Producers : producers[p].pc = "stamped" =>
         /\ producers[p].event.ts <= last_ts
         /\ Below(producers[p].event.seq, producers[p].event.ts)

\* The writer announces the numbers in their order, and has the stream to itself.
AnnouncedInOrder ==
    /\ writer.pc # "raced" /\ spoiled = {}
    /\ Busy \/ writer.pc = "written" => written_seq < writer.event.seq
    /\ \A k \in DOMAIN queue : written_seq < queue[k].value.seq
    /\ \A p \in Producers : Numbered(p) => written_seq < producers[p].event.seq
    /\ written_seq < next_seq

InOrder ==
    /\ OneAppends /\ Ordered(file, base) /\ WriterOrdered /\ QueueOrdered
    /\ Below(next_seq, last_ts + 1) /\ ProducersOrdered /\ AnnouncedInOrder

OrderInv == ~overlapped => InOrder

\* The process writes events and line breaks after what it found, and ends every
\* line that it begins.
Breaks == /\ Len(file) = base \/ file[Len(file)] = Break
          /\ \A k \in base + 1 .. Len(file) :
               file[k] = Break \/ k = base + 1 \/ file[k - 1] = Break
LinesStand ==
    /\ base <= flushed
    /\ \A k \in base + 1 .. Len(file) : file[k] \in Events \cup {Break}
    /\ ~overlapped => Breaks

JournalInv == LossInv /\ Found < next_seq /\ LinesStand /\ OrderInv

-----------------------------------------------------------------------------
(* Largest elements                                                        *)

LEMMA LargestExists ==
    ASSUME NEW S, IsFiniteSet(S), S \subseteq Nat, S # {}
    PROVE  \E x \in S : \A y \in S : x >= y
<1> DEFINE Good(t) == \E x \in t : \A y \in t : x >= y
           C == {t \in SUBSET S : t # {} /\ ~Good(t)}
           R == StrictSubsetOrdering(S)
<1>1. SUFFICES ASSUME C # {} PROVE FALSE
  OBVIOUS
<1>2. IsWellFoundedOn(R, SUBSET S)
  BY FS_StrictSubsetOrderingWellFounded, FS_FiniteSubsetsOfFinite
<1>3. PICK t \in C : \A u \in C : <<u, t>> \notin R
  <2>1. C \subseteq SUBSET S
    OBVIOUS
  <2> HIDE DEF R, C
  <2>2. QED BY <1>1, <1>2, <2>1, WFMin
<1>4. t \in SUBSET S /\ t # {} /\ ~Good(t)
  BY <1>3
<1>5. PICK x \in t : TRUE
  BY <1>4
<1> DEFINE u == t \ {x}
<1>6. x \in Nat /\ u \subseteq Nat
  BY <1>4
<1>7. CASE u = {}
  <2>1. \A y \in t : y = x
    BY <1>7
  <2>2. QED BY <1>4, <1>6, <2>1
<1>8. CASE u # {}
  <2>1. u \in SUBSET S /\ u \subseteq t /\ u # t
    BY <1>4
  <2>2. <<u, t>> \in R
    BY <1>4, <2>1 DEF StrictSubsetOrdering
  <2>3. u \notin C
    BY <1>3, <2>2
  <2>4. PICK m \in u : \A y \in u : m >= y
    BY <1>8, <2>1, <2>3
  <2>5. m \in Nat /\ m \in t
    BY <1>6
  <2>6. CASE m >= x
    <3>1. \A y \in t : y \in u \/ y = x
      OBVIOUS
    <3>2. \A y \in t : m >= y
      BY <2>4, <2>6, <3>1
    <3>3. QED BY <1>4, <2>5, <3>2
  <2>7. CASE x >= m
    <3>1. \A y \in t : y \in u \/ y = x
      OBVIOUS
    <3>2. \A y \in t : x >= y
      BY <1>6, <2>4, <2>5, <2>7, <3>1
    <3>3. QED BY <1>4, <3>2
  <2>8. QED BY <1>6, <2>5, <2>6, <2>7
<1>9. QED BY <1>7, <1>8

LEMMA LargestIs ==
    ASSUME NEW S, IsFiniteSet(S), S \subseteq Nat, S # {}
    PROVE  Max(S) \in S /\ \A y \in S : Max(S) >= y
BY LargestExists, Zenon DEF Max

-----------------------------------------------------------------------------
(* Files and what a reader finds in them                                   *)

Files == Seq(Events \cup Fragments \cup {Break})

\* An event is neither a line break nor what is left of a text.
LEMMA TextKinds ==
    /\ Break \notin Events /\ Break \notin Fragments
    /\ \A e \in Events : e \notin Fragments
<1>1. Break \notin Events /\ Break \notin Fragments
  BY JournalAssumption DEF Events, Fragments, Absent, Unreadable, Readable
<1>2. ASSUME NEW e \in Events, e \in Fragments PROVE FALSE
  <2>1. DOMAIN e = {"seq", "ts"}
    BY <1>2 DEF Events
  <2>2. DOMAIN e = {"seq", "ts", "type"}
    BY <1>2 DEF Fragments
  <2>3. QED BY <2>1, <2>2
<1>3. QED BY <1>1, <1>2

LEMMA Lastings ==
    ASSUME NEW f \in Files, NEW b
    PROVE  /\ IsFiniteSet(Lasting(f, b)) /\ Lasting(f, b) \subseteq 1 .. Len(f)
           /\ \A k \in Lasting(f, b) : /\ f[k] \in Events /\ f[k].seq \in 1 .. MaxEvents
                                        /\ f[k].ts \in Nat
<1>1. Lasting(f, b) \subseteq 1 .. Len(f)
  BY DEF Files, Lasting
<1>2. IsFiniteSet(1 .. Len(f))
  BY FS_Interval DEF Files
<1>3. IsFiniteSet(Lasting(f, b))
  BY <1>1, <1>2, FS_Subset
<1>4. \A k \in Lasting(f, b) : f[k] \in Events
  BY DEF Lasting
<1>5. QED BY <1>1, <1>3, <1>4 DEF Events

\* Of what was in the file when it was opened, what a reader finds lasts.
LEMMA IntactLasts ==
    ASSUME NEW f \in Files
    PROVE  /\ Lasting(f, Len(f)) = Intact(f)
           /\ \A b : Intact(f) \subseteq Lasting(f, b)
           /\ Intact(f) \subseteq Lines(f) /\ Lines(f) \subseteq 1 .. Len(f)
<1>1. DOMAIN f = 1 .. Len(f) /\ Len(f) \in Nat
  BY DEF Files
<1>2. ASSUME NEW k \in 1 .. Len(f)
      PROVE  k \in Lasting(f, Len(f)) <=> k \in Intact(f)
  <2>1. ~(k > Len(f))
    BY <1>1
  <2>2. f[k] \in Events => f[k] # Break
    BY TextKinds
  <2>3. QED BY <1>1, <2>1, <2>2 DEF Lasting, Intact, Lines
<1>3. Lasting(f, Len(f)) \subseteq 1 .. Len(f) /\ Intact(f) \subseteq 1 .. Len(f)
  BY <1>1 DEF Lasting, Intact, Lines
<1>4. \A b : Intact(f) \subseteq Lasting(f, b)
  BY DEF Lasting, Intact, Lines
<1>5. Lines(f) \subseteq 1 .. Len(f) /\ Intact(f) \subseteq Lines(f)
  BY <1>1 DEF Intact, Lines
<1>6. QED BY <1>2, <1>3, <1>4, <1>5

\* A reader finds a field in the first text of the line that has it, or not at all.
LEMMA ReadIs ==
    ASSUME NEW f \in Files, NEW k \in Lines(f), NEW field \in {"seq", "ts"}
    PROVE  LET having == {j \in TextsOf(f, k) : f[j][field] # Absent}
           IN  /\ TextsOf(f, k) \subseteq k .. Len(f)
               /\ having = {} => Reads(f, k, field) = 0
               /\ having # {} => /\ Min(having) \in having
                                 /\ \A j \in having : Min(having) <= j
                                 /\ Reads(f, k, field) = f[Min(having)][field]
<1> DEFINE having == {j \in TextsOf(f, k) : f[j][field] # Absent}
<1>1. k \in Nat /\ Len(f) \in Nat /\ TextsOf(f, k) \subseteq k .. Len(f)
  BY IntactLasts DEF Files, TextsOf
<1>2. having \subseteq Nat
  BY <1>1
<1>3. Reads(f, k, field) = IF having = {} THEN 0 ELSE f[Min(having)][field]
  BY DEF Reads, Unreadable
<1> HIDE DEF having
<1>4. ASSUME having # {} PROVE Min(having) \in having /\ \A j \in having : Min(having) <= j
  BY <1>2, <1>4, Least DEF Min
<1>5. QED BY <1>1, <1>3, <1>4 DEF having

LEMMA ReadsNumbers ==
    ASSUME NEW f \in Files, NEW k \in Lines(f)
    PROVE  Reads(f, k, "seq") \in 0 .. MaxEvents /\ Reads(f, k, "ts") \in Nat
<1>1. \A j \in DOMAIN f : f[j] \in Events \cup Fragments \cup {Break}
  BY DEF Files
<1>2. k \in 1 .. Len(f) /\ Len(f) \in Nat /\ DOMAIN f = 1 .. Len(f) /\ MaxEvents \in Nat
  BY IntactLasts, JournalAssumption DEF Files
<1>3. ASSUME NEW j \in TextsOf(f, k)
      PROVE  /\ f[j].seq # Absent => f[j].seq \in 0 .. MaxEvents
             /\ f[j].ts # Absent => f[j].ts \in Nat
  <2>1. j \in k .. Len(f) /\ j \in k .. j /\ \A i \in k .. j : f[i] # Break
    BY <1>2 DEF TextsOf
  <2>2. j \in DOMAIN f /\ f[j] # Break
    BY <1>2, <2>1
  <2>3. CASE f[j] \in Events
    BY <1>2, <2>3 DEF Events
  <2>4. CASE f[j] \in Fragments
    BY <1>2, <2>4 DEF Fragments, Absent
  <2>5. QED BY <1>1, <2>2, <2>3, <2>4
<1>4. Reads(f, k, "seq") \in 0 .. MaxEvents
  <2> DEFINE having == {j \in TextsOf(f, k) : f[j]["seq"] # Absent}
  <2>1. /\ having = {} => Reads(f, k, "seq") = 0
        /\ having # {} => /\ Min(having) \in having
                          /\ Reads(f, k, "seq") = f[Min(having)]["seq"]
    BY ReadIs
  <2>2. \A j \in having : f[j]["seq"] \in 0 .. MaxEvents
    BY <1>3
  <2> HIDE DEF having
  <2>3. QED BY <1>2, <2>1, <2>2
<1>5. Reads(f, k, "ts") \in Nat
  <2> DEFINE having == {j \in TextsOf(f, k) : f[j]["ts"] # Absent}
  <2>1. /\ having = {} => Reads(f, k, "ts") = 0
        /\ having # {} => /\ Min(having) \in having
                          /\ Reads(f, k, "ts") = f[Min(having)]["ts"]
    BY ReadIs
  <2>2. \A j \in having : f[j]["ts"] \in Nat
    BY <1>3
  <2> HIDE DEF having
  <2>3. QED BY <2>1, <2>2
<1>6. QED BY <1>4, <1>5

\* An event that is the first of its line is read as it was written.
LEMMA IntactReads ==
    ASSUME NEW f \in Files, NEW k \in Intact(f)
    PROVE  Reads(f, k, "seq") = f[k].seq /\ Reads(f, k, "ts") = f[k].ts
<1>1. k \in Lines(f) /\ k \in 1 .. Len(f) /\ f[k] \in Events /\ f[k] # Break
  BY IntactLasts DEF Intact, Lines
<1>2. \A i \in k .. k : i = k
  BY <1>1
<1>3. k \in TextsOf(f, k)
  BY <1>1, <1>2 DEF TextsOf
<1>4. ASSUME NEW field \in {"seq", "ts"} PROVE Reads(f, k, field) = f[k][field]
  <2> DEFINE having == {j \in TextsOf(f, k) : f[j][field] # Absent}
  <2>1. f[k][field] # Absent
    BY <1>1 DEF Events, Absent
  <2>2. k \in having
    BY <1>3, <2>1
  <2>3. Min(having) <= k /\ Min(having) \in having /\ TextsOf(f, k) \subseteq k .. Len(f)
        /\ Reads(f, k, field) = f[Min(having)][field]
    BY <1>1, <2>2, ReadIs
  <2>4. Min(having) \in k .. Len(f)
    BY <2>3
  <2> HIDE DEF having
  <2>5. Min(having) = k
    BY <1>1, <2>3, <2>4
  <2>6. QED BY <2>3, <2>5
<1>5. QED BY <1>4

LEMMA LastIs ==
    ASSUME NEW f \in Files
    PROVE  /\ LastSeq(f) \in 0 .. MaxEvents /\ LastStamp(f) \in Nat
           /\ \A k \in Lines(f) : /\ Reads(f, k, "seq") <= LastSeq(f)
                                  /\ Reads(f, k, "ts") <= LastStamp(f)
           /\ \A k \in Intact(f) : f[k].seq <= LastSeq(f) /\ f[k].ts <= LastStamp(f)
<1> DEFINE R == Lines(f)
           Q == {Reads(f, k, "seq") : k \in R}
           T == {Reads(f, k, "ts") : k \in R}
<1>1. /\ IsFiniteSet(R)
      /\ \A k \in R : Reads(f, k, "seq") \in 0 .. MaxEvents /\ Reads(f, k, "ts") \in Nat
  <2>1. R \subseteq 1 .. Len(f) /\ IsFiniteSet(1 .. Len(f))
    <3>1. Len(f) \in Nat
      BY DEF Files
    <3>2. QED BY <3>1, IntactLasts, FS_Interval
  <2>2. \A k \in R : Reads(f, k, "seq") \in 0 .. MaxEvents /\ Reads(f, k, "ts") \in Nat
    BY ReadsNumbers
  <2> HIDE DEF R
  <2>3. QED BY <2>1, <2>2, FS_Subset
<1>2. IsFiniteSet(Q)
  <2> DEFINE g == [k \in R |-> Reads(f, k, "seq")]
  <2>1. g \in Surjection(R, Q)
    BY DEF Surjection
  <2> HIDE DEF g, Q, R
  <2>2. QED BY <1>1, <2>1, FS_Surjection
<1>3. IsFiniteSet(T)
  <2> DEFINE g == [k \in R |-> Reads(f, k, "ts")]
  <2>1. g \in Surjection(R, T)
    BY DEF Surjection
  <2> HIDE DEF g, T, R
  <2>2. QED BY <1>1, <2>1, FS_Surjection
<1>4. Q \subseteq 0 .. MaxEvents /\ T \subseteq Nat
  BY <1>1
<1>5. \A k \in R : Reads(f, k, "seq") \in Q /\ Reads(f, k, "ts") \in T
  OBVIOUS
<1>6. LastSeq(f) = Max({0} \cup Q) /\ LastStamp(f) = Max({0} \cup T)
  BY DEF LastSeq, LastStamp
<1> HIDE DEF Q, T, R
<1> DEFINE QQ == {0} \cup Q
           TT == {0} \cup T
<1>7. IsFiniteSet({0}) /\ IsFiniteSet(QQ) /\ IsFiniteSet(TT)
  <2>1. IsFiniteSet({0})
    BY FS_Singleton
  <2>2. QED BY <1>2, <1>3, <2>1, FS_Union
<1>8. QQ \subseteq 0 .. MaxEvents /\ QQ \subseteq Nat /\ TT \subseteq Nat /\ QQ # {} /\ TT # {}
  BY <1>4, JournalAssumption
<1> HIDE DEF QQ, TT
<1>9. /\ Max(QQ) \in QQ /\ \A y \in QQ : Max(QQ) >= y
      /\ Max(TT) \in TT /\ \A y \in TT : Max(TT) >= y
  BY <1>7, <1>8, LargestIs
<1>10. LastSeq(f) \in QQ /\ LastStamp(f) \in TT
  BY <1>6, <1>9 DEF QQ, TT
<1>11. ASSUME NEW k \in Lines(f)
       PROVE  Reads(f, k, "seq") <= LastSeq(f) /\ Reads(f, k, "ts") <= LastStamp(f)
  <2>1. PICK x, y : x = Reads(f, k, "seq") /\ y = Reads(f, k, "ts")
    OBVIOUS
  <2>2. x \in QQ /\ y \in TT
    BY <1>5, <2>1 DEF QQ, TT, R
  <2>3. LastSeq(f) >= x /\ LastStamp(f) >= y
    BY <1>6, <1>9, <2>2 DEF QQ, TT
  <2>4. x <= LastSeq(f) /\ y <= LastStamp(f)
    BY <1>8, <1>10, <2>2, <2>3
  <2>5. QED BY <2>1, <2>4
<1>12. \A k \in Intact(f) : f[k].seq <= LastSeq(f) /\ f[k].ts <= LastStamp(f)
  <2>1. \A k \in Intact(f) : k \in Lines(f)
    BY DEF Intact
  <2>2. QED BY <1>11, <2>1, IntactReads
<1>13. QED BY <1>8, <1>10, <1>11, <1>12

\* What is left of a file that is cut off, perhaps nothing.
LEMMA CutOff ==
    ASSUME NEW f \in Files, NEW n \in 0 .. Len(f), NEW b
    PROVE  /\ SubSeq(f, 1, n) \in Files /\ Len(SubSeq(f, 1, n)) = n
           /\ \A k \in 1 .. n : SubSeq(f, 1, n)[k] = f[k]
           /\ Lasting(SubSeq(f, 1, n), b) = Lasting(f, b) \cap 1 .. n
<1> DEFINE g == SubSeq(f, 1, n)
<1>1. g \in Files /\ Len(g) = n /\ \A k \in 1 .. n : g[k] = f[k]
  BY DEF Files
<1>2. DOMAIN g = 1 .. n /\ DOMAIN f = 1 .. Len(f) /\ Len(f) \in Nat
  BY <1>1 DEF Files
<1> HIDE DEF g
<1>3. ASSUME NEW k \in 1 .. n PROVE k \in Lasting(g, b) <=> k \in Lasting(f, b)
  <2>1. g[k] = f[k] /\ (k # 1 => g[k - 1] = f[k - 1])
    BY <1>1
  <2>2. QED BY <1>2, <2>1 DEF Lasting
<1>4. Lasting(g, b) = Lasting(f, b) \cap 1 .. n
  BY <1>2, <1>3 DEF Lasting
<1>5. QED BY <1>1, <1>4 DEF g

\* The text of an event and a line break are added to a file, or a part of them: the
\* event is the last that stands in it.
Continued(g, f, e, n, b) ==
    /\ g \in Files /\ Len(g) = n /\ Len(f) \in Nat
    /\ \A k \in 1 .. n : k <= Len(f) => g[k] = f[k]
    /\ n > Len(f) => g[Len(f) + 1] = e
    /\ n > Len(f) + 1 => g[Len(f) + 2] = Break
    /\ Lasting(f, b) \subseteq 1 .. Len(f)
    /\ \A i \in Lasting(g, b) : \/ i \in Lasting(f, b) /\ g[i] = f[i]
                                \/ i = Len(f) + 1 /\ g[i] = e

LEMMA Texts ==
    ASSUME NEW f \in Files, NEW e \in Events, NEW n \in 0 .. Len(f) + 2, NEW b
    PROVE  Continued(SubSeq(f \o <<e, Break>>, 1, n), f, e, n, b)
<1> DEFINE text == f \o <<e, Break>>
           g == SubSeq(text, 1, n)
<1>1. <<e, Break>> \in Files /\ Len(<<e, Break>>) = 2
  BY DEF Files
<1>2. /\ text \in Files /\ Len(text) = Len(f) + 2 /\ Len(f) \in Nat
      /\ \A k \in 1 .. Len(f) : text[k] = f[k]
      /\ text[Len(f) + 1] = e /\ text[Len(f) + 2] = Break
  BY <1>1 DEF Files
<1> HIDE DEF text
<1>3. /\ g \in Files /\ Len(g) = n /\ \A k \in 1 .. n : g[k] = text[k]
      /\ Lasting(g, b) = Lasting(text, b) \cap 1 .. n
  BY <1>2, CutOff
<1>4. DOMAIN text = 1 .. Len(f) + 2 /\ DOMAIN f = 1 .. Len(f)
  BY <1>2 DEF Files
<1>5. ASSUME NEW k \in Lasting(text, b) PROVE k \in Lasting(f, b) \cup {Len(f) + 1}
  <2>1. k \in 1 .. Len(f) + 2 /\ text[k] \in Events /\ (k > b \/ k = 1 \/ text[k - 1] = Break)
    BY <1>4 DEF Lasting
  <2>2. k # Len(f) + 2
    BY <1>2, <2>1, TextKinds
  <2>3. CASE k \in 1 .. Len(f)
    <3>1. text[k] = f[k] /\ (k # 1 => text[k - 1] = f[k - 1])
      BY <1>2, <2>3
    <3>2. QED BY <1>4, <2>1, <2>3, <3>1 DEF Lasting
  <2>4. QED BY <1>2, <2>1, <2>2, <2>3
<1>6. Lasting(g, b) \subseteq 1 .. n /\ Lasting(f, b) \subseteq 1 .. Len(f)
  BY <1>3, Lastings
<1>7. Lasting(g, b) \subseteq Lasting(f, b) \cup {Len(f) + 1}
  BY <1>3, <1>5
<1> HIDE DEF g
<1>8. /\ \A k \in 1 .. n : k <= Len(f) => g[k] = f[k]
      /\ n > Len(f) => g[Len(f) + 1] = e
      /\ n > Len(f) + 1 => g[Len(f) + 2] = Break
  BY <1>2, <1>3
<1>9. ASSUME NEW i \in Lasting(g, b)
      PROVE  \/ i \in Lasting(f, b) /\ g[i] = f[i]
             \/ i = Len(f) + 1 /\ g[i] = e
  <2>1. CASE i \in Lasting(f, b)
    BY <1>2, <1>6, <1>8, <2>1
  <2>2. CASE i = Len(f) + 1
    BY <1>2, <1>6, <1>8, <2>2
  <2>3. QED BY <1>7, <2>1, <2>2
<1>10. Continued(g, f, e, n, b)
  BY <1>2, <1>3, <1>6, <1>8, <1>9 DEF Continued
<1>11. QED BY <1>10 DEF g, text

-----------------------------------------------------------------------------
(* What a step changes                                                     *)

ProducerStates == [pc : {"idle", "numbered", "stamped", "claimed"}, event : Blanks]

\* The append of one producer goes on.
Turns(p, pc, seq, ts) ==
    /\ producers' \in [Producers -> ProducerStates]
    /\ producers'[p].pc = pc /\ producers'[p].event.seq = seq /\ producers'[p].event.ts = ts
    /\ \A q \in Producers \ {p} : producers'[q] = producers[q]

LEMMA TurnsTo ==
    ASSUME Types, NEW p \in Producers, NEW c \in {"idle", "numbered", "stamped", "claimed"},
           producers' = [producers EXCEPT ![p].pc = c]
    PROVE  Turns(p, c, producers[p].event.seq, producers[p].event.ts)
<1>1. producers[p] \in ProducerStates /\ producers \in [Producers -> ProducerStates]
  BY DEF Types, ProducerStates
<1>2. producers'[p] = [producers[p] EXCEPT !.pc = c]
  BY <1>1
<1>3. producers'[p].pc = c /\ producers'[p].event = producers[p].event
  BY <1>1, <1>2 DEF ProducerStates
<1>4. producers'[p] \in ProducerStates
  BY <1>1, <1>2 DEF ProducerStates
<1>5. QED BY <1>1, <1>3, <1>4 DEF Turns

LEMMA TurnsNumbered ==
    ASSUME Types, NEW p \in Producers, next_seq <= MaxEvents,
           producers' = [producers EXCEPT ![p] =
                           [pc |-> "numbered", event |-> [seq |-> next_seq, ts |-> 0]]]
    PROVE  Turns(p, "numbered", next_seq, 0)
<1>1. next_seq \in 0 .. MaxEvents /\ producers \in [Producers -> ProducerStates]
  BY JournalAssumption DEF Types, ProducerStates
<1> DEFINE new == [pc |-> "numbered", event |-> [seq |-> next_seq, ts |-> 0]]
<1>2. new \in ProducerStates /\ new.pc = "numbered" /\ new.event.seq = next_seq /\ new.event.ts = 0
  BY <1>1 DEF ProducerStates, Blanks
<1> HIDE DEF new
<1>3. producers' = [producers EXCEPT ![p] = new]
  BY DEF new
<1>4. producers'[p] = new /\ producers' \in [Producers -> ProducerStates]
      /\ \A q \in Producers \ {p} : producers'[q] = producers[q]
  BY <1>1, <1>2, <1>3
<1>5. QED BY <1>2, <1>4 DEF Turns

LEMMA TurnsStamped ==
    ASSUME Types, NEW p \in Producers, NEW t \in Nat,
           producers' = [producers EXCEPT ![p].pc = "stamped", ![p].event.ts = t]
    PROVE  Turns(p, "stamped", producers[p].event.seq, t)
<1>1. producers[p] \in ProducerStates /\ producers \in [Producers -> ProducerStates]
  BY DEF Types, ProducerStates
<1>2. producers[p].event \in Blanks
  BY <1>1 DEF ProducerStates
<1> DEFINE e == [producers[p].event EXCEPT !.ts = t]
<1>3. e \in Blanks /\ e.seq = producers[p].event.seq /\ e.ts = t
  BY <1>2 DEF Blanks
<1>4. producers'[p] = [[producers[p] EXCEPT !.pc = "stamped"] EXCEPT !.event.ts = t]
  BY <1>1
<1> HIDE DEF e
<1>5. producers'[p] = [pc |-> "stamped", event |-> e]
  BY <1>1, <1>4 DEF ProducerStates, e
<1>6. producers'[p] \in ProducerStates
  <2>1. [pc |-> "stamped", event |-> e] \in ProducerStates
    BY <1>3 DEF ProducerStates
  <2>2. QED BY <1>5, <2>1, Zenon
<1>7. \A q \in Producers \ {p} : producers'[q] = producers[q]
  BY <1>1
<1>8. producers' \in [Producers -> ProducerStates]
  BY <1>1, <1>6, <1>7
<1>9. QED BY <1>3, <1>5, <1>7, <1>8 DEF Turns

WriterStates == [pc : {"idle", "writing", "raced", "written", "gone"}, event : Blanks]

WriterTurns(pc) ==
    writer' \in WriterStates /\ writer'.pc = pc /\ writer'.event = writer.event

LEMMA WriterTurnsTo ==
    ASSUME Types, NEW c \in {"idle", "writing", "raced", "written", "gone"},
           writer' = [writer EXCEPT !.pc = c]
    PROVE  WriterTurns(c)
BY DEF Types, WriterTurns, WriterStates

\* The file is appended to, or not.
Grows ==
    /\ base' = base /\ file' \in Files /\ Len(file) <= Len(file')
    /\ \A k \in 1 .. Len(file) : file'[k] = file[k]

LEMMA SameStart ==
    ASSUME NEW f \in Files, NEW g \in Files, NEW n \in Nat, n <= Len(f), n <= Len(g),
           \A k \in 1 .. n : g[k] = f[k]
    PROVE  SubSeq(g, 1, n) = SubSeq(f, 1, n)
<1>1. SubSeq(g, 1, n) = [k \in 1 .. n |-> g[k]]
  BY DEF Files
<1>2. SubSeq(f, 1, n) = [k \in 1 .. n |-> f[k]]
  BY DEF Files
<1>3. QED BY <1>1, <1>2

LEMMA FoundStays ==
    ASSUME Types, Grows
    PROVE  Found' = Found
<1>1. /\ file \in Files /\ file' \in Files /\ base \in Nat
      /\ base <= Len(file) /\ base <= Len(file')
      /\ \A k \in 1 .. base : file'[k] = file[k]
  BY DEF Types, Grows, Files
<1>2. SubSeq(file', 1, base) = SubSeq(file, 1, base)
  BY <1>1, SameStart
<1>3. QED BY <1>2 DEF Found, Grows

LEMMA FoundIs ==
    ASSUME Types
    PROVE  /\ Found \in 0 .. MaxEvents
           /\ \A k \in Lasting(file, base) : k <= base => file[k].seq <= Found
<1> DEFINE g == SubSeq(file, 1, base)
<1>1. file \in Files /\ base \in 0 .. Len(file)
  BY DEF Types, Files
<1>2. /\ g \in Files /\ Len(g) = base /\ \A k \in 1 .. base : g[k] = file[k]
      /\ Lasting(g, base) = Lasting(file, base) \cap 1 .. base
  BY <1>1, CutOff
<1> HIDE DEF g
<1>3. Found = LastSeq(g) /\ Found \in 0 .. MaxEvents /\ \A k \in Intact(g) : g[k].seq <= Found
  BY <1>2, LastIs DEF Found, g
<1>4. Lasting(g, base) = Intact(g)
  BY <1>2, IntactLasts
<1>5. ASSUME NEW k \in Lasting(file, base), k <= base PROVE file[k].seq <= Found
  <2>1. k \in 1 .. base
    BY <1>1, <1>5, Lastings
  <2>2. k \in Intact(g) /\ g[k] = file[k]
    BY <1>2, <1>4, <2>1
  <2>3. QED BY <1>3, <2>2
<1>6. QED BY <1>3, <1>5

LEMMA FileSame ==
    ASSUME Types, UNCHANGED <<file, base>>
    PROVE  /\ Found' = Found /\ Written' = Written /\ Lasting(file', base') = Lasting(file, base)
           /\ LinesApart => LinesApart'
BY DEF Found, Written, LinesApart, Distinct

LEMMA LineWritten ==
    ASSUME Types, writer.event \in Events, base' = base,
           NEW n \in Len(file) + 1 .. Len(file) + 2,
           file' = SubSeq(file \o <<writer.event, Break>>, 1, n)
    PROVE  /\ Grows /\ Written' = Written \cup {writer.event.seq}
<1>1. file \in Files /\ base \in 0 .. Len(file) /\ Len(file) \in Nat
  BY DEF Types, Files
<1>2. n \in 0 .. Len(file) + 2 /\ n > Len(file)
  BY <1>1
<1>3. /\ file' \in Files /\ Len(file') = n
      /\ \A k \in 1 .. n : k <= Len(file) => file'[k] = file[k]
      /\ file'[Len(file) + 1] = writer.event
      /\ n > Len(file) + 1 => file'[Len(file) + 2] = Break
  <2>1. Continued(file', file, writer.event, n, base)
    BY <1>1, <1>2, Texts
  <2>2. QED BY <1>2, <2>1 DEF Continued
<1>4. Grows
  BY <1>1, <1>2, <1>3 DEF Grows
<1>5. writer.event # Break
  BY JournalAssumption DEF Events
<1> DEFINE K == {j \in base + 1 .. Len(file) : file[j] # Break}
           L == {j \in base' + 1 .. Len(file') : file'[j] # Break}
<1>6. L = K \cup {Len(file) + 1}
  <2>1. ASSUME NEW j \in L PROVE j \in K \cup {Len(file) + 1}
    BY <1>1, <1>2, <1>3
  <2>2. ASSUME NEW j \in K PROVE j \in L
    BY <1>1, <1>2, <1>3
  <2>3. Len(file) + 1 \in L
    BY <1>1, <1>2, <1>3, <1>5
  <2>4. QED BY <2>1, <2>2, <2>3
<1>7. \A j \in K : file'[j] = file[j]
  BY <1>1, <1>2, <1>3
<1>8. Written = {file[j].seq : j \in K} /\ Written' = {file'[j].seq : j \in L}
  BY DEF Written
<1> HIDE DEF K, L
<1>9. QED BY <1>3, <1>4, <1>6, <1>7, <1>8

-----------------------------------------------------------------------------
(* Numbers go from place to place                                          *)

LEMMA NumberGiven ==
    ASSUME NEW a, NEW q, NEW w, NEW f, NEW d, NEW s, NEW lo \in Nat, NEW n \in Nat, lo <= n,
           Cover(a, q, w, f, d, s, lo .. n - 1), Apart(a, q, w, f, d, s)
    PROVE  /\ Cover(a \cup {n}, q, w, f, d, s, lo .. (n + 1) - 1)
           /\ Apart(a \cup {n}, q, w, f, d, s)
<1>1. n \notin lo .. n - 1 /\ lo .. (n + 1) - 1 = (lo .. n - 1) \cup {n}
  OBVIOUS
<1>2. n \notin q /\ n \notin w /\ n \notin f /\ n \notin d /\ n \notin s
  BY <1>1 DEF Cover
<1>3. QED BY <1>1, <1>2 DEF Cover, Apart

LEMMA NumberQueued ==
    ASSUME NEW a, NEW q, NEW w, NEW f, NEW d, NEW s, NEW n, NEW x \in a,
           Cover(a, q, w, f, d, s, n), Apart(a, q, w, f, d, s)
    PROVE  /\ Cover(a \ {x}, q \cup {x}, w, f, d, s, n)
           /\ Apart(a \ {x}, q \cup {x}, w, f, d, s)
<1>1. x \notin q /\ x \notin w /\ x \notin f /\ x \notin d /\ x \notin s
  BY DEF Apart
<1>2. QED BY <1>1 DEF Cover, Apart

LEMMA NumberDropped ==
    ASSUME NEW a, NEW q, NEW w, NEW f, NEW d, NEW s, NEW n, NEW x \in a,
           Cover(a, q, w, f, d, s, n), Apart(a, q, w, f, d, s)
    PROVE  /\ Cover(a \ {x}, q, w, f, d \cup {x}, s, n)
           /\ Apart(a \ {x}, q, w, f, d \cup {x}, s)
<1>1. x \notin q /\ x \notin w /\ x \notin f /\ x \notin d /\ x \notin s
  BY DEF Apart
<1>2. QED BY <1>1 DEF Cover, Apart

LEMMA NumberTaken ==
    ASSUME NEW a, NEW q, NEW w, NEW f, NEW d, NEW s, NEW n, NEW x \in q, w = {},
           Cover(a, q, w, f, d, s, n), Apart(a, q, w, f, d, s)
    PROVE  /\ Cover(a, q \ {x}, {x}, f, d, s, n)
           /\ Apart(a, q \ {x}, {x}, f, d, s)
<1>1. x \notin a /\ x \notin f /\ x \notin d /\ x \notin s
  BY DEF Apart
<1>2. QED BY <1>1 DEF Cover, Apart

LEMMA NumberWritten ==
    ASSUME NEW a, NEW q, NEW w, NEW f, NEW d, NEW s, NEW n, NEW x, w = {x},
           Cover(a, q, w, f, d, s, n), Apart(a, q, w, f, d, s)
    PROVE  /\ Cover(a, q, {}, f \cup {x}, d, s, n) /\ Apart(a, q, {}, f \cup {x}, d, s)
           /\ Cover(a, q, {}, f, d, s \cup {x}, n) /\ Apart(a, q, {}, f, d, s \cup {x})
<1>1. x \notin a /\ x \notin q /\ x \notin f /\ x \notin d /\ x \notin s
  BY DEF Apart
<1>2. QED BY <1>1 DEF Cover, Apart

LEMMA AppendersAre ==
    \A n : n \in InAppend <=> \E q \in Producers : Numbered(q) /\ n = producers[q].event.seq
BY DEF InAppend, Numbered

LEMMA AppendersAreThen ==
    \A n : n \in InAppend' <=> \E q \in Producers : Numbered(q)' /\ n = producers'[q].event.seq
BY DEF InAppend, Numbered

LEMMA AppenderComes ==
    ASSUME NEW p \in Producers, NEW n, NEW t, ~Numbered(p), Turns(p, "numbered", n, t)
    PROVE  InAppend' = InAppend \cup {n}
<1>1. Numbered(p)' /\ producers'[p].event.seq = n
  BY DEF Turns, Numbered
<1>2. \A q \in Producers \ {p} : producers'[q] = producers[q] /\ (Numbered(q)' <=> Numbered(q))
  BY DEF Turns, Numbered
<1>3. ASSUME NEW m PROVE m \in InAppend' <=> m \in InAppend \/ m = n
  BY <1>1, <1>2, AppendersAre, AppendersAreThen
<1>4. QED BY <1>3

LEMMA AppenderStays ==
    ASSUME NEW p \in Producers, NEW c, NEW t, Turns(p, c, producers[p].event.seq, t),
           Numbered(p) <=> c \in {"numbered", "stamped"}
    PROVE  InAppend' = InAppend
<1>1. (Numbered(p)' <=> Numbered(p)) /\ producers'[p].event.seq = producers[p].event.seq
  BY DEF Turns, Numbered
<1>2. \A q \in Producers \ {p} : producers'[q] = producers[q] /\ (Numbered(q)' <=> Numbered(q))
  BY DEF Turns, Numbered
<1>3. ASSUME NEW m PROVE m \in InAppend' <=> m \in InAppend
  BY <1>1, <1>2, AppendersAre, AppendersAreThen
<1>4. QED BY <1>3

LEMMA AppenderGoes ==
    ASSUME OneEach, NEW p \in Producers, NEW c \in {"claimed", "idle"}, NEW n, NEW t,
           Numbered(p), Turns(p, c, n, t)
    PROVE  InAppend' = InAppend \ {producers[p].event.seq} /\ producers[p].event.seq \in InAppend
<1>1. ~Numbered(p)'
  BY DEF Turns, Numbered
<1>2. \A q \in Producers \ {p} : producers'[q] = producers[q] /\ (Numbered(q)' <=> Numbered(q))
  BY DEF Turns, Numbered
<1>3. \A q \in Producers : Numbered(q) /\ producers[q].event.seq = producers[p].event.seq => q = p
  BY DEF OneEach
<1>4. ASSUME NEW m PROVE m \in InAppend' <=> m \in InAppend /\ m # producers[p].event.seq
  BY <1>1, <1>2, <1>3, AppendersAre, AppendersAreThen
<1>5. QED BY <1>4, AppendersAre

\* A turn leaves the numbers of the producers distinct, and stamped events events.
LEMMA AppendersDistinct ==
    ASSUME OneEach, EventsOK, NEW p \in Producers, NEW c, NEW t,
           Turns(p, c, producers[p].event.seq, t), c \in {"numbered", "stamped"} => Numbered(p)
    PROVE  /\ \A q, r \in Producers :
                Numbered(q)' /\ Numbered(r)' /\ producers'[q].event.seq = producers'[r].event.seq
                  => q = r
           /\ \A q \in Producers : Numbered(q)' => producers'[q].event \in Events
<1>1. producers'[p].event.seq = producers[p].event.seq /\ (Numbered(p)' => Numbered(p))
  BY DEF Turns, Numbered
<1>2. \A q \in Producers \ {p} : producers'[q] = producers[q] /\ (Numbered(q)' <=> Numbered(q))
  BY DEF Turns, Numbered
<1>3. \A q \in Producers : (Numbered(q)' => Numbered(q))
                           /\ producers'[q].event.seq = producers[q].event.seq
  BY <1>1, <1>2
<1>4. ASSUME Numbered(p)' PROVE producers'[p].event \in Events
  <2>1. producers'[p].event \in Blanks
    BY DEF Turns, ProducerStates
  <2>2. producers'[p].event.seq \in 1 .. MaxEvents
    BY <1>1, <1>4 DEF EventsOK, Events
  <2>3. QED BY <2>1, <2>2 DEF Blanks, Events
<1>5. QED BY <1>2, <1>3, <1>4 DEF OneEach, EventsOK

-----------------------------------------------------------------------------
(* The ring                                                                *)

QueueOK == queue \in Seq(Queue!Places)

LEMMA PlacesAre == Queue!Places = [owner : Producers \cup {Nobody}, value : Events]
BY DEF Queue!Places

LEMMA QueueElements ==
    ASSUME QueueOK
    PROVE  /\ Len(queue) \in Nat /\ DOMAIN queue = 1 .. Len(queue)
           /\ \A k \in DOMAIN queue : /\ queue[k] \in Queue!Places
                                      /\ queue[k].value \in Events
                                      /\ queue[k].owner \in Producers \cup {Nobody}
                                      /\ queue[k].value.seq \in InQueue
                                      /\ queue[k].value.seq \in 1 .. MaxEvents
                                      /\ queue[k].value.ts \in Nat
<1>1. Len(queue) \in Nat /\ DOMAIN queue = 1 .. Len(queue)
  BY DEF QueueOK
<1>2. ASSUME NEW k \in DOMAIN queue
      PROVE  queue[k] \in Queue!Places /\ queue[k].value.seq \in InQueue
  BY <1>1, <1>2 DEF QueueOK, InQueue
<1>3. ASSUME NEW k \in DOMAIN queue
      PROVE  /\ queue[k].value \in Events
             /\ queue[k].owner \in Producers \cup {Nobody}
  <2>1. queue[k] \in Queue!Places
    BY <1>2
  <2>2. QED BY <2>1, PlacesAre
<1>4. QED BY <1>1, <1>2, <1>3 DEF Events

LEMMA QueueClaimed ==
    ASSUME QueueOK, NEW p \in Producers, NEW e \in Events, queue' = Queue!Claimed(queue, p, e)
    PROVE  /\ QueueOK' /\ Len(queue') = Len(queue) + 1
           /\ DOMAIN queue' = 1 .. Len(queue) + 1
           /\ \A k \in DOMAIN queue : queue'[k] = queue[k]
           /\ queue'[Len(queue) + 1].owner = p /\ queue'[Len(queue) + 1].value = e
           /\ InQueue' = InQueue \cup {e.seq}
<1> DEFINE x == [owner |-> p, value |-> e]
<1>1. x \in Queue!Places /\ x.owner = p /\ x.value = e
  BY PlacesAre
<1>2. queue' = Append(queue, x)
  BY DEF Queue!Claimed
<1> HIDE DEF x
<1>3. /\ queue' \in Seq(Queue!Places) /\ Len(queue') = Len(queue) + 1 /\ Len(queue) \in Nat
      /\ DOMAIN queue = 1 .. Len(queue) /\ DOMAIN queue' = 1 .. Len(queue) + 1
      /\ \A k \in 1 .. Len(queue) : queue'[k] = queue[k]
      /\ queue'[Len(queue) + 1] = x
  BY <1>1, <1>2 DEF QueueOK
<1>4. ASSUME NEW n PROVE n \in InQueue' <=> n \in InQueue \cup {e.seq}
  <2>1. \A k \in 1 .. Len(queue) + 1 : k \in 1 .. Len(queue) \/ k = Len(queue) + 1
    BY <1>3
  <2>2. \A k \in 1 .. Len(queue) : k \in 1 .. Len(queue) + 1
    BY <1>3
  <2>3. Len(queue) + 1 \in 1 .. Len(queue) + 1
    BY <1>3
  <2> DEFINE l == Len(queue) + 1
             D == 1 .. Len(queue)
  <2>4. /\ DOMAIN queue' = D \cup {l} /\ DOMAIN queue = D /\ queue'[l].value = e
        /\ \A k \in D : queue'[k] = queue[k]
    BY <1>1, <1>3, <2>1, <2>2, <2>3
  <2> HIDE DEF l, D
  <2>5. QED BY <2>4, Zenon DEF InQueue
<1>5. QED BY <1>1, <1>3, <1>4 DEF QueueOK

LEMMA QueueFilled ==
    ASSUME QueueOK, NEW p \in Producers, queue' = Queue!Filled(queue, p)
    PROVE  /\ QueueOK' /\ Len(queue') = Len(queue) /\ DOMAIN queue' = DOMAIN queue
           /\ \A k \in DOMAIN queue : /\ queue'[k].value = queue[k].value
                                      /\ queue[k].owner # p => queue'[k].owner = queue[k].owner
           /\ InQueue' = InQueue
<1>1. queue' = [k \in DOMAIN queue |->
                  IF queue[k].owner = p THEN [queue[k] EXCEPT !.owner = Nobody] ELSE queue[k]]
  BY DEF Queue!Filled
<1>2. DOMAIN queue = 1 .. Len(queue) /\ Len(queue) \in Nat
  BY QueueElements
<1>3. ASSUME NEW k \in DOMAIN queue
      PROVE  /\ queue'[k] \in Queue!Places /\ queue'[k].value = queue[k].value
             /\ queue[k].owner # p => queue'[k].owner = queue[k].owner
  <2>1. queue[k] \in [owner : Producers \cup {Nobody}, value : Events]
    BY QueueElements, PlacesAre
  <2>2. [queue[k] EXCEPT !.owner = Nobody] \in [owner : Producers \cup {Nobody}, value : Events]
        /\ [queue[k] EXCEPT !.owner = Nobody].value = queue[k].value
    BY <2>1
  <2>3. queue'[k] = IF queue[k].owner = p THEN [queue[k] EXCEPT !.owner = Nobody] ELSE queue[k]
    BY <1>1
  <2>4. QED BY <2>1, <2>2, <2>3, PlacesAre
<1>4. DOMAIN queue' = DOMAIN queue
  BY <1>1
<1>5. queue' \in Seq(Queue!Places)
  <2>1. queue' \in [1 .. Len(queue) -> Queue!Places]
    <3>1. \A k \in 1 .. Len(queue) : queue'[k] \in Queue!Places
      BY <1>2, <1>3
    <3>2. queue' = [k \in 1 .. Len(queue) |-> queue'[k]]
      BY <1>1, <1>2
    <3>3. QED BY <3>1, <3>2
  <2>2. QED BY <1>2, <2>1
<1>6. Len(queue') = Len(queue)
  BY <1>2, <1>4, <1>5
<1>7. InQueue' = InQueue
  BY <1>3, <1>4, Zenon DEF InQueue
<1>8. QED BY <1>3, <1>4, <1>5, <1>6, <1>7 DEF QueueOK

LEMMA QueueTaken ==
    ASSUME QueueOK, queue # <<>>, queue' = Tail(queue)
    PROVE  /\ QueueOK' /\ Len(queue') = Len(queue) - 1 /\ Len(queue) >= 1
           /\ DOMAIN queue' = 1 .. Len(queue) - 1
           /\ \A k \in DOMAIN queue' : queue'[k] = queue[k + 1]
           /\ Head(queue) = queue[1]
<1>1. Len(queue) \in Nat /\ Len(queue) >= 1 /\ Head(queue) = queue[1]
  BY DEF QueueOK
<1>2. /\ queue' \in Seq(Queue!Places) /\ Len(queue') = Len(queue) - 1
      /\ \A k \in 1 .. Len(queue) - 1 : queue'[k] = queue[k + 1]
  BY DEF QueueOK
<1>3. QED BY <1>1, <1>2 DEF QueueOK

LEMMA NumbersTaken ==
    ASSUME QueueOK, OneEach, queue # <<>>, queue' = Tail(queue)
    PROVE  InQueue' = InQueue \ {Head(queue).value.seq} /\ Head(queue).value.seq \in InQueue
<1>1. /\ Len(queue) \in Nat /\ Len(queue) >= 1 /\ Head(queue) = queue[1]
      /\ DOMAIN queue' = 1 .. Len(queue) - 1 /\ DOMAIN queue = 1 .. Len(queue)
      /\ \A k \in DOMAIN queue' : queue'[k] = queue[k + 1]
  BY QueueTaken, QueueElements
<1>2. \A j, k \in DOMAIN queue : queue[j].value.seq = queue[k].value.seq => j = k
  BY DEF OneEach
<1>3. ASSUME NEW n \in InQueue' PROVE n \in InQueue /\ n # queue[1].value.seq
  <2>1. PICK k \in DOMAIN queue' : n = queue'[k].value.seq
    BY DEF InQueue
  <2>2. k + 1 \in DOMAIN queue /\ k + 1 # 1 /\ 1 \in DOMAIN queue /\ n = queue[k + 1].value.seq
    BY <1>1, <2>1
  <2>3. n # queue[1].value.seq
    BY <1>2, <2>2
  <2>4. QED BY <2>2, <2>3 DEF InQueue
<1>4. ASSUME NEW n \in InQueue, n # queue[1].value.seq PROVE n \in InQueue'
  <2>1. PICK k \in DOMAIN queue : n = queue[k].value.seq
    BY DEF InQueue
  <2>2. k # 1
    BY <1>4, <2>1
  <2>3. k - 1 \in DOMAIN queue' /\ k - 1 + 1 = k
    BY <1>1, <2>1, <2>2
  <2>4. queue'[k - 1] = queue[k - 1 + 1]
    BY <1>1, <2>3
  <2>5. n = queue'[k - 1].value.seq
    BY <2>1, <2>3, <2>4
  <2>6. QED BY <2>3, <2>5 DEF InQueue
<1>5. 1 \in DOMAIN queue
  BY <1>1
<1>6. queue[1].value.seq \in InQueue
  BY <1>5 DEF InQueue
<1>7. QED BY <1>1, <1>3, <1>4, <1>6

\* As long as the numbers in the ring are distinct there are as many as places.
LEMMA QueueCounted ==
    ASSUME QueueOK, OneEach
    PROVE  Len(queue) = Cardinality(InQueue)
<1> DEFINE D == 1 .. Len(queue)
           g == [k \in D |-> queue[k].value.seq]
<1>1. Len(queue) \in Nat /\ DOMAIN queue = D
  BY QueueElements
<1>2. InQueue = {queue[k].value.seq : k \in D}
  BY <1>1 DEF InQueue
<1>3. \A j, k \in D : queue[j].value.seq = queue[k].value.seq => j = k
  BY <1>1 DEF OneEach
<1> HIDE DEF D
<1>4. g \in [D -> InQueue] /\ \A k \in D : g[k] = queue[k].value.seq
  BY <1>2
<1>5. g \in Injection(D, InQueue)
  BY <1>3, <1>4 DEF Injection, IsInjective
<1>6. g \in Surjection(D, InQueue)
  BY <1>2, <1>4 DEF Surjection
<1> HIDE DEF g
<1>7. ExistsBijection(D, InQueue)
  BY <1>5, <1>6 DEF ExistsBijection, Bijection
<1>8. ExistsBijection(1 .. Len(queue), InQueue)
  BY <1>7 DEF D
<1>9. PICK n \in Nat : n = Len(queue)
  BY <1>1
<1>10. ExistsBijection(1 .. n, InQueue)
  BY <1>8, <1>9
<1>11. Cardinality(InQueue) = n
  BY <1>10, FS_CountingElements
<1>12. QED BY <1>9, <1>11

-----------------------------------------------------------------------------
(* Nothing is lost: one step after another                                 *)

LEMMA LossTypes ==
    ASSUME Types
    PROVE  /\ next_seq \in 1 .. MaxEvents + 1 /\ last_ts \in Nat /\ MaxEvents \in Nat
           /\ written_seq \in 0 .. MaxEvents
           /\ producers \in [Producers -> ProducerStates] /\ writer \in WriterStates
           /\ QueueOK /\ Len(queue) \in Nat /\ Len(queue) <= Capacity
           /\ file \in Files /\ Len(file) \in Nat
           /\ flushed \in 0 .. Len(file) /\ base \in 0 .. Len(file)
           /\ Found \in 0 .. MaxEvents
<1>1. queue \in Seq(Queue!Places) /\ file \in Seq(Events \cup Fragments \cup {Break})
  BY DEF Types
<1>2. Len(queue) \in Nat /\ Len(file) \in Nat
  BY <1>1
<1>3. QED BY <1>1, <1>2, FoundIs, JournalAssumption
          DEF Types, ProducerStates, WriterStates, QueueOK, Files

\* The numbers found and those handed out meet.
LEMMA NumbersMeet ==
    ASSUME LossInv
    PROVE  /\ Found + 1 \in Nat /\ next_seq \in Nat
           /\ \A n \in InAppend \cup InQueue \cup AtWriter \cup Written \cup dropped \cup spoiled :
                n \in Found + 1 .. next_seq - 1
BY LossTypes DEF LossInv, NumbersOK, Cover

LEMMA LossTakeNumber ==
    ASSUME LossInv, Found + 1 <= next_seq, NEW p \in Producers, TakeNumber(p)
    PROVE  LossInv'
<1>1. Types /\ next_seq <= MaxEvents /\ ~Appending(p) /\ flush.pc = "idle" /\ writer.pc # "gone"
  BY DEF LossInv, TakeNumber
<1>2. Turns(p, "numbered", next_seq, 0)
  BY <1>1, TurnsNumbered DEF TakeNumber
<1>3. /\ next_seq' = next_seq + 1
      /\ UNCHANGED <<last_ts, written_seq, queue, writer, file, flushed, flush, base,
                     accepted, dropped, spoiled>>
      /\ overlapped' \in BOOLEAN
  BY Zenon DEF TakeNumber, disk
<1>4. InQueue' = InQueue /\ AtWriter' = AtWriter /\ Written' = Written /\ Found' = Found
      /\ (Busy' <=> Busy)
  BY <1>3 DEF InQueue, AtWriter, Written, Found, Busy
<1>5. ~Numbered(p) /\ producers[p].pc = "idle"
  BY <1>1 DEF Appending, Numbered
<1>6. InAppend' = InAppend \cup {next_seq}
  BY <1>2, <1>5, AppenderComes
<1>7. next_seq \in 1 .. MaxEvents /\ next_seq \in Nat /\ Found + 1 \in Nat
  BY <1>1, LossTypes
<1>8. \A q \in Producers \ {p} : producers'[q] = producers[q]
                                 /\ (Numbered(q)' <=> Numbered(q))
  BY <1>2 DEF Turns, Numbered
<1>9. producers'[p].pc = "numbered" /\ producers'[p].event.seq = next_seq /\ Numbered(p)'
  BY <1>2 DEF Turns, Numbered
<1>10. Types'
  <2>1. producers' \in [Producers -> ProducerStates]
    BY <1>2 DEF Turns
  <2>2. next_seq' \in 1 .. MaxEvents + 1
    BY <1>3, <1>7, JournalAssumption
  <2>3. QED BY <1>1, <1>3, <2>1, <2>2 DEF Types, ProducerStates
<1>11. EventsOK'
  <2>1. producers'[p].event \in Blanks
    BY <1>2 DEF Turns, ProducerStates
  <2>2. producers'[p].event \in Events
    BY <1>7, <1>9, <2>1 DEF Blanks, Events
  <2>3. QED BY <1>3, <1>4, <1>8, <2>2 DEF EventsOK, LossInv
<1>12. OneEach'
  <2>1. \A q \in Producers : Numbered(q) => producers[q].event.seq \in InAppend
    BY AppendersAre
  <2>2. \A q \in Producers : Numbered(q) => producers[q].event.seq # next_seq
    BY <1>7, <2>1, NumbersMeet
  <2>3. QED BY <1>3, <1>8, <1>9, <2>2 DEF OneEach, LossInv
<1>13. NumbersOK'
  <2>1. /\ Cover(InAppend, InQueue, AtWriter, Written, dropped, spoiled, Found + 1 .. next_seq - 1)
        /\ Apart(InAppend, InQueue, AtWriter, Written, dropped, spoiled)
    BY DEF LossInv, NumbersOK
  <2>2. /\ Cover(InAppend \cup {next_seq}, InQueue, AtWriter, Written, dropped, spoiled,
                 Found + 1 .. (next_seq + 1) - 1)
        /\ Apart(InAppend \cup {next_seq}, InQueue, AtWriter, Written, dropped, spoiled)
    BY <1>7, <2>1, NumberGiven
  <2>3. QED BY <1>3, <1>4, <1>6, <2>2 DEF NumbersOK
<1>14. OnItsWay'
  BY <1>3, <1>4, <1>8, <1>9 DEF OnItsWay, LossInv
<1>15. FlushOK'
  BY <1>1, <1>3 DEF FlushOK, LossInv
<1>16. LinesApart'
  BY <1>1, <1>3, FileSame DEF LossInv
<1>17. QED BY <1>10, <1>11, <1>12, <1>13, <1>14, <1>15, <1>16 DEF LossInv

LEMMA LossStamp ==
    ASSUME LossInv, NEW p \in Producers, NEW time \in Times, Stamp(p, time)
    PROVE  LossInv'
<1>1. Types /\ producers[p].pc = "numbered" /\ last_ts \in Nat /\ time \in Nat
  BY LossTypes, JournalAssumption DEF LossInv, Stamp
<1>2. Stamped(time) \in Nat
  BY <1>1 DEF Stamped
<1>3. /\ last_ts' = Stamped(time)
      /\ producers' = [producers EXCEPT ![p].pc = "stamped", ![p].event.ts = last_ts']
      /\ UNCHANGED <<next_seq, written_seq, queue, writer, file, flushed, flush, base,
                     accepted, dropped, spoiled, overlapped>>
  BY Zenon DEF Stamp, disk, history
<1>4. PICK t \in Nat : t = last_ts'
  BY <1>2, <1>3
<1>5. Turns(p, "stamped", producers[p].event.seq, t)
  BY <1>1, <1>3, <1>4, TurnsStamped
<1>6. InQueue' = InQueue /\ AtWriter' = AtWriter /\ Written' = Written /\ Found' = Found
      /\ (Busy' <=> Busy)
  BY <1>3 DEF InQueue, AtWriter, Written, Found, Busy
<1>7. Numbered(p)
  BY <1>1 DEF Numbered
<1>8. InAppend' = InAppend
  BY <1>5, <1>7, AppenderStays
<1>9. /\ \A q \in Producers \ {p} : producers'[q] = producers[q]
      /\ producers'[p].pc = "stamped"
  BY <1>5 DEF Turns
<1>10. Types'
  <2>1. producers' \in [Producers -> ProducerStates]
    BY <1>5 DEF Turns
  <2>2. QED BY <1>1, <1>3, <1>4, <2>1 DEF Types, ProducerStates
<1>11. /\ \A q, r \in Producers :
            Numbered(q)' /\ Numbered(r)' /\ producers'[q].event.seq = producers'[r].event.seq
              => q = r
       /\ \A q \in Producers : Numbered(q)' => producers'[q].event \in Events
  BY <1>5, <1>7, AppendersDistinct DEF LossInv
<1>12. EventsOK' /\ OneEach'
  BY <1>3, <1>6, <1>11 DEF EventsOK, OneEach, LossInv
<1>13. NumbersOK'
  BY <1>3, <1>6, <1>8 DEF NumbersOK, LossInv
<1>14. OnItsWay'
  <2>1. \A q \in Producers : producers'[q].pc = "claimed" => producers'[q] = producers[q]
    BY <1>9
  <2>2. OnItsWay /\ queue' = queue /\ accepted' = accepted /\ spoiled' = spoiled
    BY <1>3 DEF LossInv
  <2>3. QED BY <1>6, <2>1, <2>2 DEF OnItsWay
<1>15. FlushOK'
  BY <1>1, <1>3, <1>9 DEF FlushOK, LossInv, Appending
<1>16. LinesApart'
  BY <1>1, <1>3, FileSame DEF LossInv
<1>17. QED BY <1>10, <1>12, <1>13, <1>14, <1>15, <1>16 DEF LossInv

LEMMA LossClaim ==
    ASSUME LossInv, NEW p \in Producers, Claim(p)
    PROVE  LossInv'
<1>1. /\ Types /\ producers[p].pc = "stamped" /\ Numbered(p)
      /\ producers[p].event \in Events /\ QueueOK
  BY LossTypes DEF LossInv, Claim, Numbered, EventsOK
<1>2. PICK e \in Events : e = producers[p].event
  BY <1>1
<1>3. /\ queue' = Queue!Claimed(queue, p, e)
      /\ producers' = [producers EXCEPT ![p].pc = "claimed"]
      /\ UNCHANGED <<next_seq, last_ts, written_seq, writer, file, flushed, flush, base,
                     accepted, dropped, spoiled, overlapped>>
  BY <1>2, Zenon DEF Claim, disk, history, counters
<1>4. Turns(p, "claimed", producers[p].event.seq, producers[p].event.ts)
  BY <1>1, <1>3, TurnsTo
<1>5. /\ QueueOK' /\ Len(queue') = Len(queue) + 1 /\ DOMAIN queue' = 1 .. Len(queue) + 1
      /\ \A k \in DOMAIN queue : queue'[k] = queue[k]
      /\ queue'[Len(queue) + 1].owner = p /\ queue'[Len(queue) + 1].value = e
      /\ InQueue' = InQueue \cup {e.seq}
  BY <1>1, <1>3, QueueClaimed
<1>6. AtWriter' = AtWriter /\ Written' = Written /\ Found' = Found /\ (Busy' <=> Busy)
  BY <1>3 DEF AtWriter, Written, Found, Busy
<1>7. InAppend' = InAppend \ {e.seq} /\ e.seq \in InAppend
  BY <1>1, <1>2, <1>4, AppenderGoes DEF LossInv
<1>8. /\ \A q \in Producers \ {p} : producers'[q] = producers[q]
      /\ producers'[p].pc = "claimed" /\ producers'[p].event.seq = e.seq
  BY <1>2, <1>4 DEF Turns
<1>9. Len(queue) \in Nat /\ DOMAIN queue = 1 .. Len(queue)
  BY <1>1, QueueElements
<1>10. Types'
  <2>1. producers' \in [Producers -> ProducerStates]
    BY <1>4 DEF Turns
  <2>2. Len(queue) < Capacity
    BY DEF Claim, Queue!Room
  <2>3. Len(queue') <= Capacity
    BY <1>5, <1>9, <2>2, JournalAssumption
  <2>4. queue' \in Seq(Queue!Places)
    BY <1>5 DEF QueueOK
  <2>5. QED BY <1>1, <1>3, <2>1, <2>3, <2>4 DEF Types, ProducerStates
<1>11. /\ \A q, r \in Producers :
            Numbered(q)' /\ Numbered(r)' /\ producers'[q].event.seq = producers'[r].event.seq
              => q = r
       /\ \A q \in Producers : Numbered(q)' => producers'[q].event \in Events
  BY <1>4, AppendersDistinct DEF LossInv
<1>12. EventsOK'
  BY <1>3, <1>6, <1>11 DEF EventsOK, LossInv
<1>13. OneEach'
  <2>1. e.seq \notin InQueue
    BY <1>7 DEF LossInv, NumbersOK, Apart
  <2>2. \A k \in DOMAIN queue : queue[k].value.seq # e.seq
    BY <1>1, <2>1, QueueElements
  <2>3. ASSUME NEW j \in DOMAIN queue', NEW k \in DOMAIN queue',
               queue'[j].value.seq = queue'[k].value.seq
        PROVE  j = k
    <3>1. /\ j \in DOMAIN queue \/ j = Len(queue) + 1
          /\ k \in DOMAIN queue \/ k = Len(queue) + 1
      BY <1>5, <1>9
    <3>2. QED BY <1>5, <2>2, <2>3, <3>1 DEF LossInv, OneEach
  <2>4. QED BY <1>11, <2>3 DEF OneEach
<1>14. NumbersOK'
  <2>1. /\ Cover(InAppend, InQueue, AtWriter, Written, dropped, spoiled, Found + 1 .. next_seq - 1)
        /\ Apart(InAppend, InQueue, AtWriter, Written, dropped, spoiled)
    BY DEF LossInv, NumbersOK
  <2>2. PICK N : N = Found + 1 .. next_seq - 1
    OBVIOUS
  <2>3. PICK x \in InAppend : x = e.seq
    BY <1>7
  <2>4. /\ Cover(InAppend \ {x}, InQueue \cup {x}, AtWriter, Written, dropped, spoiled, N)
        /\ Apart(InAppend \ {x}, InQueue \cup {x}, AtWriter, Written, dropped, spoiled)
    BY <2>1, <2>2, NumberQueued
  <2>5. QED BY <1>3, <1>5, <1>6, <1>7, <2>2, <2>3, <2>4 DEF NumbersOK
<1>15. OnItsWay'
  <2>1. Len(queue) + 1 \in DOMAIN queue' /\ DOMAIN queue \subseteq DOMAIN queue'
    BY <1>5, <1>9
  <2>2. ASSUME NEW q \in Producers, producers'[q].pc = "claimed"
        PROVE  \E k \in DOMAIN queue' :
                 queue'[k].owner = q /\ queue'[k].value.seq = producers'[q].event.seq
    <3>1. CASE q = p
      BY <1>5, <1>8, <2>1, <3>1
    <3>2. CASE q # p
      BY <1>5, <1>8, <2>1, <2>2, <3>2 DEF LossInv, OnItsWay
    <3>3. QED BY <3>1, <3>2
  <2>3. QED BY <1>3, <1>5, <1>6, <2>2 DEF OnItsWay, LossInv
<1>16. FlushOK'
  <2>1. Appending(p)
    BY <1>1 DEF Appending
  <2>2. flush.pc = "idle" /\ writer.pc # "gone"
    BY <2>1 DEF FlushOK, LossInv
  <2>3. QED BY <1>3, <2>2 DEF FlushOK
<1>17. LinesApart'
  BY <1>1, <1>3, FileSame DEF LossInv
<1>18. QED BY <1>10, <1>12, <1>13, <1>14, <1>15, <1>16, <1>17 DEF LossInv

LEMMA LossDrop ==
    ASSUME LossInv, NEW p \in Producers, Drop(p)
    PROVE  LossInv'
<1>1. Types /\ producers[p].pc = "stamped" /\ Numbered(p)
  BY DEF LossInv, Drop, Numbered
<1>2. /\ producers' = [producers EXCEPT ![p].pc = "idle"]
      /\ dropped' = dropped \cup {producers[p].event.seq}
      /\ UNCHANGED <<next_seq, last_ts, written_seq, queue, writer, file, flushed, flush, base,
                     accepted, spoiled, overlapped>>
  BY Zenon DEF Drop, disk, counters
<1>3. Turns(p, "idle", producers[p].event.seq, producers[p].event.ts)
  BY <1>1, <1>2, TurnsTo
<1>4. InQueue' = InQueue /\ AtWriter' = AtWriter /\ Written' = Written /\ Found' = Found
      /\ (Busy' <=> Busy)
  BY <1>2 DEF InQueue, AtWriter, Written, Found, Busy
<1>5. InAppend' = InAppend \ {producers[p].event.seq} /\ producers[p].event.seq \in InAppend
  BY <1>1, <1>3, AppenderGoes DEF LossInv
<1>6. /\ \A q \in Producers \ {p} : producers'[q] = producers[q]
      /\ producers'[p].pc = "idle"
  BY <1>3 DEF Turns
<1>7. Types'
  <2>1. producers' \in [Producers -> ProducerStates]
    BY <1>3 DEF Turns
  <2>2. QED BY <1>1, <1>2, <2>1 DEF Types, ProducerStates
<1>8. /\ \A q, r \in Producers :
           Numbered(q)' /\ Numbered(r)' /\ producers'[q].event.seq = producers'[r].event.seq
             => q = r
      /\ \A q \in Producers : Numbered(q)' => producers'[q].event \in Events
  BY <1>3, AppendersDistinct DEF LossInv
<1>9. EventsOK' /\ OneEach'
  BY <1>2, <1>4, <1>8 DEF EventsOK, OneEach, LossInv
<1>10. NumbersOK'
  <2>1. /\ Cover(InAppend, InQueue, AtWriter, Written, dropped, spoiled, Found + 1 .. next_seq - 1)
        /\ Apart(InAppend, InQueue, AtWriter, Written, dropped, spoiled)
    BY DEF LossInv, NumbersOK
  <2>2. PICK N : N = Found + 1 .. next_seq - 1
    OBVIOUS
  <2>3. PICK x \in InAppend : x = producers[p].event.seq
    BY <1>5
  <2>4. /\ Cover(InAppend \ {x}, InQueue, AtWriter, Written, dropped \cup {x}, spoiled, N)
        /\ Apart(InAppend \ {x}, InQueue, AtWriter, Written, dropped \cup {x}, spoiled)
    BY <2>1, <2>2, NumberDropped
  <2>5. QED BY <1>2, <1>4, <1>5, <2>2, <2>3, <2>4 DEF NumbersOK
<1>11. OnItsWay'
  <2>1. \A q \in Producers : producers'[q].pc = "claimed" => producers'[q] = producers[q]
    BY <1>6
  <2>2. OnItsWay /\ queue' = queue /\ accepted' = accepted /\ spoiled' = spoiled
    BY <1>2 DEF LossInv
  <2>3. QED BY <1>4, <2>1, <2>2 DEF OnItsWay
<1>12. FlushOK'
  BY <1>1, <1>2, <1>6 DEF FlushOK, LossInv, Appending
<1>13. LinesApart'
  BY <1>1, <1>2, FileSame DEF LossInv
<1>14. QED BY <1>7, <1>9, <1>10, <1>11, <1>12, <1>13 DEF LossInv

LEMMA LossFill ==
    ASSUME LossInv, NEW p \in Producers, Fill(p)
    PROVE  LossInv'
<1>1. Types /\ producers[p].pc = "claimed" /\ ~Numbered(p) /\ QueueOK
  BY LossTypes DEF LossInv, Fill, Numbered
<1>2. /\ queue' = Queue!Filled(queue, p)
      /\ producers' = [producers EXCEPT ![p].pc = "idle"]
      /\ accepted' = accepted \cup {producers[p].event.seq}
      /\ UNCHANGED <<next_seq, last_ts, written_seq, writer, file, flushed, flush, base,
                     dropped, spoiled, overlapped>>
  BY Zenon DEF Fill, disk, counters
<1>3. Turns(p, "idle", producers[p].event.seq, producers[p].event.ts)
  BY <1>1, <1>2, TurnsTo
<1>4. /\ QueueOK' /\ Len(queue') = Len(queue) /\ DOMAIN queue' = DOMAIN queue
      /\ \A k \in DOMAIN queue : /\ queue'[k].value = queue[k].value
                                 /\ queue[k].owner # p => queue'[k].owner = queue[k].owner
      /\ InQueue' = InQueue
  BY <1>1, <1>2, QueueFilled
<1>5. AtWriter' = AtWriter /\ Written' = Written /\ Found' = Found /\ (Busy' <=> Busy)
  BY <1>2 DEF AtWriter, Written, Found, Busy
<1>6. InAppend' = InAppend
  BY <1>1, <1>3, AppenderStays
<1>7. /\ \A q \in Producers \ {p} : producers'[q] = producers[q]
      /\ producers'[p].pc = "idle"
  BY <1>3 DEF Turns
<1>8. Types'
  <2>1. producers' \in [Producers -> ProducerStates]
    BY <1>3 DEF Turns
  <2>2. queue' \in Seq(Queue!Places)
    BY <1>4 DEF QueueOK
  <2>3. QED BY <1>1, <1>2, <1>4, <2>1, <2>2 DEF Types, ProducerStates
<1>9. /\ \A q, r \in Producers :
           Numbered(q)' /\ Numbered(r)' /\ producers'[q].event.seq = producers'[r].event.seq
             => q = r
      /\ \A q \in Producers : Numbered(q)' => producers'[q].event \in Events
  BY <1>3, AppendersDistinct DEF LossInv
<1>10. EventsOK' /\ OneEach'
  BY <1>2, <1>4, <1>5, <1>9 DEF EventsOK, OneEach, LossInv
<1>11. NumbersOK'
  BY <1>2, <1>4, <1>5, <1>6 DEF NumbersOK, LossInv
<1>12. OnItsWay'
  <2>1. OnItsWay
    BY DEF LossInv
  <2>2. ASSUME NEW q \in Producers, producers'[q].pc = "claimed"
        PROVE  \E k \in DOMAIN queue' :
                 queue'[k].owner = q /\ queue'[k].value.seq = producers'[q].event.seq
    <3>1. q # p /\ producers'[q] = producers[q]
      BY <1>7, <2>2
    <3>2. PICK k \in DOMAIN queue :
            queue[k].owner = q /\ queue[k].value.seq = producers[q].event.seq
      BY <2>1, <2>2, <3>1 DEF OnItsWay
    <3>3. QED BY <1>4, <3>1, <3>2
  <2>3. producers[p].event.seq \in InQueue
    BY <1>1, <2>1 DEF OnItsWay, InQueue
  <2>4. accepted' \subseteq InQueue' \cup AtWriter' \cup Written' \cup spoiled'
    BY <1>2, <1>4, <1>5, <2>1, <2>3 DEF OnItsWay
  <2>5. QED BY <2>2, <2>4 DEF OnItsWay
<1>13. FlushOK'
  <2>1. Appending(p)
    BY <1>1 DEF Appending
  <2>2. flush.pc = "idle" /\ writer.pc # "gone"
    BY <2>1 DEF FlushOK, LossInv
  <2>3. QED BY <1>2, <2>2 DEF FlushOK
<1>14. LinesApart'
  BY <1>1, <1>2, FileSame DEF LossInv
<1>15. QED BY <1>8, <1>10, <1>11, <1>12, <1>13, <1>14 DEF LossInv

\* The writer's event is taken from the ring.
LEMMA TakeIs ==
    ASSUME LossInv, Take
    PROVE  /\ queue # <<>> /\ queue' = Tail(queue) /\ Head(queue) = queue[1] /\ 1 \in DOMAIN queue
           /\ queue[1].owner = Nobody
           /\ writer.pc = "idle" /\ writer'.pc = "writing" /\ writer'.event = queue[1].value
           /\ writer' \in WriterStates /\ writer'.event \in Events
           /\ UNCHANGED <<next_seq, last_ts, written_seq, producers, file, flushed, flush, base,
                          accepted, dropped, spoiled, overlapped>>
<1>1. QueueOK
  BY LossTypes DEF LossInv
<1>2. /\ queue # <<>> /\ Head(queue).owner = Nobody
      /\ queue' = Tail(queue) /\ writer.pc = "idle"
      /\ writer' = [pc |-> "writing", event |-> Head(queue).value]
      /\ UNCHANGED <<next_seq, last_ts, written_seq, producers, file, flushed, flush, base,
                     accepted, dropped, spoiled, overlapped>>
  BY Zenon DEF Take, disk, counters, history, Queue!CanTake
<1>3. Head(queue) = queue[1] /\ 1 \in DOMAIN queue
  BY <1>1, <1>2, QueueTaken, QueueElements
<1>4. queue[1].value \in Events
  BY <1>1, <1>3, QueueElements
<1>5. queue[1].value \in Blanks
  BY <1>4, JournalAssumption DEF Events, Blanks
<1>6. PICK v : v = queue[1].value
  OBVIOUS
<1>7. writer' = [pc |-> "writing", event |-> v]
  BY <1>2, <1>3, <1>6
<1>8. writer' \in WriterStates /\ writer'.pc = "writing" /\ writer'.event = v
  BY <1>5, <1>6, <1>7 DEF WriterStates
<1>9. QED BY <1>2, <1>3, <1>4, <1>6, <1>8

LEMMA LossTake ==
    ASSUME LossInv, Take
    PROVE  LossInv'
<1>1. /\ queue # <<>> /\ queue' = Tail(queue) /\ Head(queue) = queue[1] /\ 1 \in DOMAIN queue
      /\ queue[1].owner = Nobody
      /\ writer.pc = "idle" /\ writer'.pc = "writing" /\ writer'.event = queue[1].value
      /\ writer' \in WriterStates /\ writer'.event \in Events
      /\ UNCHANGED <<next_seq, last_ts, written_seq, producers, file, flushed, flush, base,
                     accepted, dropped, spoiled, overlapped>>
  BY TakeIs
<1>2. Types /\ QueueOK /\ OneEach
  BY LossTypes DEF LossInv
<1>3. /\ QueueOK' /\ Len(queue') = Len(queue) - 1 /\ Len(queue) >= 1
      /\ DOMAIN queue' = 1 .. Len(queue) - 1
      /\ \A k \in DOMAIN queue' : queue'[k] = queue[k + 1]
  BY <1>1, <1>2, QueueTaken
<1>4. InQueue' = InQueue \ {queue[1].value.seq} /\ queue[1].value.seq \in InQueue
  BY <1>1, <1>2, NumbersTaken
<1>5. AtWriter = {} /\ AtWriter' = {queue[1].value.seq}
  BY <1>1 DEF AtWriter
<1>6. InAppend' = InAppend /\ Written' = Written /\ Found' = Found
  BY <1>1 DEF InAppend, Written, Found
<1>7. Len(queue) \in Nat /\ DOMAIN queue = 1 .. Len(queue)
  BY <1>2, QueueElements
<1>8. Types'
  <2>1. Len(queue') <= Capacity
    BY <1>2, <1>3, <1>7, JournalAssumption DEF Types
  <2>2. queue' \in Seq(Queue!Places)
    BY <1>3 DEF QueueOK
  <2>3. QED BY <1>1, <1>2, <2>1, <2>2 DEF Types, WriterStates
<1>9. EventsOK'
  BY <1>1 DEF EventsOK, LossInv, Numbered, Busy
<1>10. OneEach'
  <2>1. ASSUME NEW j \in DOMAIN queue', NEW k \in DOMAIN queue',
               queue'[j].value.seq = queue'[k].value.seq
        PROVE  j = k
    <3>1. j + 1 \in DOMAIN queue /\ k + 1 \in DOMAIN queue /\ j \in Int /\ k \in Int
      BY <1>3, <1>7
    <3>2. j + 1 = k + 1
      BY <1>2, <1>3, <2>1, <3>1 DEF OneEach
    <3>3. QED BY <3>1, <3>2
  <2>2. QED BY <1>1, <1>2, <2>1 DEF OneEach, Numbered
<1>11. NumbersOK'
  <2>1. /\ Cover(InAppend, InQueue, AtWriter, Written, dropped, spoiled, Found + 1 .. next_seq - 1)
        /\ Apart(InAppend, InQueue, AtWriter, Written, dropped, spoiled)
    BY DEF LossInv, NumbersOK
  <2>2. PICK N : N = Found + 1 .. next_seq - 1
    OBVIOUS
  <2>3. PICK x \in InQueue : x = queue[1].value.seq
    BY <1>4
  <2>4. /\ Cover(InAppend, InQueue \ {x}, {x}, Written, dropped, spoiled, N)
        /\ Apart(InAppend, InQueue \ {x}, {x}, Written, dropped, spoiled)
    BY <1>5, <2>1, <2>2, NumberTaken
  <2>5. QED BY <1>1, <1>4, <1>5, <1>6, <2>2, <2>3, <2>4 DEF NumbersOK
<1>12. OnItsWay'
  <2>1. OnItsWay
    BY DEF LossInv
  <2>2. ASSUME NEW q \in Producers, producers'[q].pc = "claimed"
        PROVE  \E k \in DOMAIN queue' :
                 queue'[k].owner = q /\ queue'[k].value.seq = producers'[q].event.seq
    <3>1. PICK k \in DOMAIN queue :
            queue[k].owner = q /\ queue[k].value.seq = producers[q].event.seq
      BY <1>1, <2>1, <2>2 DEF OnItsWay
    <3>2. k # 1
      BY <1>1, <3>1, JournalAssumption
    <3>3. k - 1 \in DOMAIN queue' /\ k - 1 + 1 = k
      BY <1>3, <1>7, <3>1, <3>2
    <3>4. queue'[k - 1] = queue[k]
      BY <1>3, <3>3
    <3>5. QED BY <1>1, <3>1, <3>3, <3>4
  <2>3. accepted' \subseteq InQueue' \cup AtWriter' \cup Written' \cup spoiled'
    BY <1>1, <1>4, <1>5, <1>6, <2>1 DEF OnItsWay
  <2>4. QED BY <2>2, <2>3 DEF OnItsWay
<1>13. FlushOK'
  BY <1>1 DEF FlushOK, LossInv, Appending
<1>14. LinesApart'
  BY <1>1, <1>2, FileSame DEF LossInv
<1>15. QED BY <1>8, <1>9, <1>10, <1>11, <1>12, <1>13, <1>14 DEF LossInv

\* The texts that a write may leave are parts of the whole one.
LEMMA PartsOfText ==
    ASSUME NEW f \in Files, NEW e \in Events
    PROVE  /\ f \o <<e, Break>> = SubSeq(f \o <<e, Break>>, 1, Len(f) + 2)
           /\ Append(f, e) = SubSeq(f \o <<e, Break>>, 1, Len(f) + 1)
<1> DEFINE text == f \o <<e, Break>>
<1>1. <<e, Break>> \in Files /\ Len(<<e, Break>>) = 2
  BY DEF Files
<1>2. /\ text \in Files /\ Len(text) = Len(f) + 2 /\ Len(f) \in Nat
      /\ \A k \in 1 .. Len(f) : text[k] = f[k]
      /\ text[Len(f) + 1] = e
  BY <1>1 DEF Files
<1>3. Append(f, e) \in Files /\ Len(Append(f, e)) = Len(f) + 1
      /\ (\A k \in 1 .. Len(f) : Append(f, e)[k] = f[k]) /\ Append(f, e)[Len(f) + 1] = e
  BY DEF Files
<1> DEFINE short == Append(f, e)
<1> HIDE DEF text, short
<1>4. text = SubSeq(text, 1, Len(text))
  BY <1>2 DEF Files
<1>5. \A k \in 1 .. Len(f) + 1 : text[k] = short[k]
  BY <1>2, <1>3 DEF short
<1>6. SubSeq(text, 1, Len(short)) = SubSeq(short, 1, Len(short))
  BY <1>2, <1>3, <1>5, SameStart DEF short
<1>7. short = SubSeq(short, 1, Len(short))
  BY <1>3 DEF Files, short
<1>8. QED BY <1>2, <1>3, <1>4, <1>6, <1>7 DEF text, short

\* The number at the writer is in no line yet.
LEMMA LineIsNew ==
    ASSUME LossInv, Busy
    PROVE  /\ writer.event \in Events
           /\ \A j \in Lasting(file, base) : file[j].seq # writer.event.seq
<1>1. Types /\ writer.event \in Events /\ AtWriter = {writer.event.seq}
  BY DEF LossInv, EventsOK, AtWriter, Busy
<1>2. writer.event.seq \notin Written /\ writer.event.seq \in Found + 1 .. next_seq - 1
  BY <1>1, NumbersMeet DEF LossInv, NumbersOK, Apart
<1>3. file \in Files /\ base \in 0 .. Len(file) /\ Found \in 0 .. MaxEvents /\ MaxEvents \in Nat
  BY <1>1, LossTypes
<1>4. ASSUME NEW j \in Lasting(file, base), file[j].seq = writer.event.seq PROVE FALSE
  <2>1. j \in 1 .. Len(file) /\ file[j] # Break
    BY <1>3, Lastings, TextKinds
  <2>2. CASE j <= base
    <3>1. file[j].seq <= Found
      BY <1>1, <2>2, FoundIs
    <3>2. QED BY <1>2, <1>3, <1>4, <3>1
  <2>3. CASE ~(j <= base)
    <3>1. j \in base + 1 .. Len(file)
      BY <1>3, <2>1, <2>3
    <3>2. file[j].seq \in Written
      BY <2>1, <3>1 DEF Written
    <3>3. QED BY <1>2, <1>4, <3>2
  <2>4. QED BY <2>2, <2>3
<1>5. QED BY <1>1, <1>4

LEMMA DistinctTexts ==
    ASSUME NEW f \in Files, NEW e \in Events, NEW n \in 0 .. Len(f) + 2, NEW b, Distinct(f, b),
           \A j \in Lasting(f, b) : f[j].seq # e.seq
    PROVE  Distinct(SubSeq(f \o <<e, Break>>, 1, n), b)
<1> DEFINE g == SubSeq(f \o <<e, Break>>, 1, n)
<1>1. Continued(g, f, e, n, b)
  BY Texts
<1> HIDE DEF g
<1>2. \A i \in Lasting(g, b) : \/ i \in Lasting(f, b) /\ g[i] = f[i]
                               \/ i = Len(f) + 1 /\ g[i] = e
  BY <1>1 DEF Continued
<1>3. Distinct(g, b)
  BY <1>2 DEF Distinct
<1>4. QED BY <1>3 DEF g

\* The event is written, with its line break or, in a data race, without it.
LEMMA LossLine ==
    ASSUME LossInv, Busy, NEW n \in Len(file) + 1 .. Len(file) + 2,
           file' = SubSeq(file \o <<writer.event, Break>>, 1, n),
           WriterTurns("written"),
           UNCHANGED <<next_seq, last_ts, written_seq, producers, queue, flushed, flush, base,
                       accepted, dropped, spoiled, overlapped>>
    PROVE  LossInv'
<1>1. Types /\ writer.event \in Events /\ (\A j \in Lasting(file, base) : file[j].seq # writer.event.seq)
  BY LineIsNew DEF LossInv
<1>2. Grows /\ Written' = Written \cup {writer.event.seq}
  BY <1>1, LineWritten
<1>3. Found' = Found
  BY <1>1, <1>2, FoundStays
<1>4. AtWriter = {writer.event.seq} /\ AtWriter' = {}
  BY DEF AtWriter, Busy, WriterTurns
<1>5. InAppend' = InAppend /\ InQueue' = InQueue
  BY DEF InAppend, InQueue
<1>6. file \in Files /\ Len(file) \in Nat /\ flushed \in 0 .. Len(file) /\ base \in 0 .. Len(file)
  BY <1>1, LossTypes
<1>7. Types'
  <2>1. file' \in Files /\ Len(file') \in Nat /\ Len(file) <= Len(file')
    BY <1>2 DEF Grows, Files
  <2>2. flushed' \in 0 .. Len(file') /\ base' \in 0 .. Len(file')
    BY <1>6, <2>1
  <2>3. QED BY <1>1, <2>1, <2>2 DEF Types, WriterTurns, WriterStates, Files
<1>8. EventsOK'
  BY <1>1 DEF EventsOK, LossInv, Numbered, Busy, WriterTurns
<1>9. OneEach'
  BY DEF OneEach, LossInv, Numbered
<1>10. NumbersOK'
  <2>1. /\ Cover(InAppend, InQueue, AtWriter, Written, dropped, spoiled, Found + 1 .. next_seq - 1)
        /\ Apart(InAppend, InQueue, AtWriter, Written, dropped, spoiled)
    BY DEF LossInv, NumbersOK
  <2>2. PICK N : N = Found + 1 .. next_seq - 1
    OBVIOUS
  <2>3. PICK x : x = writer.event.seq
    OBVIOUS
  <2>4. /\ Cover(InAppend, InQueue, {}, Written \cup {x}, dropped, spoiled, N)
        /\ Apart(InAppend, InQueue, {}, Written \cup {x}, dropped, spoiled)
    BY <1>4, <2>1, <2>2, <2>3, NumberWritten
  <2>5. QED BY <1>2, <1>3, <1>4, <1>5, <2>2, <2>3, <2>4 DEF NumbersOK
<1>11. OnItsWay'
  BY <1>2, <1>4, <1>5 DEF OnItsWay, LossInv
<1>12. FlushOK'
  BY DEF FlushOK, LossInv, Appending, WriterTurns
<1>13. LinesApart'
  <2>1. n \in 0 .. Len(file) + 2
    BY <1>6
  <2>2. Distinct(SubSeq(file \o <<writer.event, Break>>, 1, n), base)
    BY <1>1, <1>6, <2>1, DistinctTexts DEF LossInv, LinesApart
  <2>3. QED BY <2>2 DEF LinesApart
<1>14. QED BY <1>7, <1>8, <1>9, <1>10, <1>11, <1>12, <1>13 DEF LossInv

LEMMA LossWrite ==
    ASSUME LossInv, Write
    PROVE  LossInv'
<1>1. Types /\ Busy /\ writer.event \in Events /\ file \in Files /\ Len(file) \in Nat
  BY LossTypes DEF LossInv, Write, Busy, EventsOK
<1>2. /\ writer' = [writer EXCEPT !.pc = "written"] /\ file' = file \o <<writer.event, Break>>
      /\ UNCHANGED <<next_seq, last_ts, written_seq, producers, queue, flushed, flush, base,
                     accepted, dropped, spoiled, overlapped>>
  BY Zenon DEF Write, counters, history
<1>3. WriterTurns("written")
  BY <1>1, <1>2, WriterTurnsTo
<1>4. PICK n \in Len(file) + 1 .. Len(file) + 2 : n = Len(file) + 2
  BY <1>1
<1>5. file' = SubSeq(file \o <<writer.event, Break>>, 1, n)
  BY <1>1, <1>2, <1>4, PartsOfText
<1>6. QED BY <1>1, <1>2, <1>3, <1>5, LossLine

LEMMA LossWriteRaced ==
    ASSUME LossInv, WriteRaced
    PROVE  LossInv'
<1>1. Types /\ Busy /\ writer.event \in Events /\ file \in Files /\ Len(file) \in Nat
  BY LossTypes DEF LossInv, WriteRaced, Busy, EventsOK
<1>2. /\ writer' = [writer EXCEPT !.pc = "written"]
      /\ UNCHANGED <<next_seq, last_ts, written_seq, producers, queue, flushed, flush, base,
                     accepted, dropped, overlapped>>
  BY Zenon DEF WriteRaced, counters
<1>3. WriterTurns("written")
  BY <1>1, <1>2, WriterTurnsTo
<1>4. CASE file' = file \o <<writer.event, Break>> /\ UNCHANGED spoiled
  <2>1. PICK n \in Len(file) + 1 .. Len(file) + 2 : n = Len(file) + 2
    BY <1>1
  <2>2. file' = SubSeq(file \o <<writer.event, Break>>, 1, n)
    BY <1>1, <1>4, <2>1, PartsOfText
  <2>3. QED BY <1>1, <1>2, <1>3, <1>4, <2>2, LossLine
<1>5. CASE file' = Append(file, writer.event) /\ UNCHANGED spoiled
  <2>1. PICK n \in Len(file) + 1 .. Len(file) + 2 : n = Len(file) + 1
    BY <1>1
  <2>2. file' = SubSeq(file \o <<writer.event, Break>>, 1, n)
    BY <1>1, <1>5, <2>1, PartsOfText
  <2>3. QED BY <1>1, <1>2, <1>3, <1>5, <2>2, LossLine
<1>6. CASE UNCHANGED file /\ spoiled' = spoiled \cup {writer.event.seq}
  <2>1. AtWriter = {writer.event.seq} /\ AtWriter' = {} /\ ~Busy'
    BY <1>1, <1>3 DEF AtWriter, Busy, WriterTurns
  <2>2. InAppend' = InAppend /\ InQueue' = InQueue /\ Written' = Written /\ Found' = Found
    BY <1>2, <1>6 DEF InAppend, InQueue, Written, Found
  <2>3. Types'
    BY <1>1, <1>2, <1>3, <1>6 DEF Types, WriterTurns, WriterStates
  <2>4. EventsOK'
    BY <1>1, <1>2, <1>3 DEF EventsOK, LossInv, Numbered, WriterTurns
  <2>5. OneEach'
    BY <1>2 DEF OneEach, LossInv, Numbered
  <2>6. NumbersOK'
    <3>1. /\ Cover(InAppend, InQueue, AtWriter, Written, dropped, spoiled, Found + 1 .. next_seq - 1)
          /\ Apart(InAppend, InQueue, AtWriter, Written, dropped, spoiled)
      BY DEF LossInv, NumbersOK
    <3>2. PICK N : N = Found + 1 .. next_seq - 1
      OBVIOUS
    <3>3. PICK x : x = writer.event.seq
      OBVIOUS
    <3>4. /\ Cover(InAppend, InQueue, {}, Written, dropped, spoiled \cup {x}, N)
          /\ Apart(InAppend, InQueue, {}, Written, dropped, spoiled \cup {x})
      BY <2>1, <3>1, <3>2, <3>3, NumberWritten
    <3>5. QED BY <1>2, <1>6, <2>1, <2>2, <3>2, <3>3, <3>4 DEF NumbersOK
  <2>7. OnItsWay'
    BY <1>2, <1>6, <2>1, <2>2 DEF OnItsWay, LossInv
  <2>8. FlushOK'
    BY <1>2, <1>3 DEF FlushOK, LossInv, Appending, WriterTurns
  <2>9. LinesApart'
    BY <1>1, <1>2, <1>6, FileSame DEF LossInv
  <2>10. QED BY <2>3, <2>4, <2>5, <2>6, <2>7, <2>8, <2>9 DEF LossInv
<1>7. QED BY <1>4, <1>5, <1>6 DEF WriteRaced

\* A step that moves no number.
LEMMA NumbersStay ==
    ASSUME LossInv, AtWriter' = AtWriter,
           UNCHANGED <<next_seq, producers, queue, file, base, accepted, dropped, spoiled>>
    PROVE  OneEach' /\ NumbersOK' /\ OnItsWay' /\ LinesApart'
<1>1. InAppend' = InAppend /\ InQueue' = InQueue /\ Written' = Written /\ Found' = Found
  BY DEF InAppend, InQueue, Written, Found
<1>2. OneEach'
  BY DEF LossInv, OneEach, Numbered
<1>3. NumbersOK'
  BY <1>1 DEF LossInv, NumbersOK
<1>4. OnItsWay'
  BY <1>1 DEF LossInv, OnItsWay
<1>5. LinesApart'
  BY FileSame DEF LossInv
<1>6. QED BY <1>2, <1>3, <1>4, <1>5

LEMMA LossAnnounce ==
    ASSUME LossInv, Announce
    PROVE  LossInv'
<1>1. Types /\ writer.pc = "written" /\ writer.event \in Events
  BY DEF LossInv, Announce, EventsOK
<1>2. /\ writer' = [writer EXCEPT !.pc = "idle"] /\ written_seq' = writer.event.seq
      /\ UNCHANGED <<next_seq, last_ts, producers, queue, file, flushed, flush, base,
                     accepted, dropped, spoiled, overlapped>>
  BY Zenon DEF Announce, counters, disk, history
<1>3. WriterTurns("idle")
  BY <1>1, <1>2, WriterTurnsTo
<1>4. AtWriter' = AtWriter /\ ~Busy' /\ writer'.pc = "idle"
  BY <1>1, <1>3 DEF AtWriter, Busy, WriterTurns
<1>5. OneEach' /\ NumbersOK' /\ OnItsWay' /\ LinesApart'
  BY <1>2, <1>4, NumbersStay
<1>6. writer.event.seq \in 0 .. MaxEvents
  BY <1>1, JournalAssumption DEF Events
<1>7. Types'
  BY <1>1, <1>2, <1>3, <1>6 DEF Types, WriterTurns, WriterStates
<1>8. EventsOK'
  BY <1>2, <1>4 DEF EventsOK, LossInv, Numbered
<1>9. FlushOK'
  BY <1>1, <1>2, <1>4 DEF FlushOK, LossInv, Appending
<1>10. QED BY <1>5, <1>7, <1>8, <1>9 DEF LossInv

LEMMA LossExit ==
    ASSUME LossInv, Exit
    PROVE  LossInv'
<1>1. Types /\ writer.pc = "idle" /\ queue = <<>> /\ flush.pc = "closing"
  BY DEF LossInv, Exit, Running, Types
<1>2. /\ writer' = [writer EXCEPT !.pc = "gone"] /\ flushed' = Len(file)
      /\ UNCHANGED <<next_seq, last_ts, written_seq, producers, queue, file, flush, base,
                     accepted, dropped, spoiled, overlapped>>
  BY Zenon DEF Exit, counters, history
<1>3. WriterTurns("gone")
  BY <1>1, <1>2, WriterTurnsTo
<1>4. AtWriter' = AtWriter /\ ~Busy' /\ writer'.pc = "gone"
  BY <1>1, <1>3 DEF AtWriter, Busy, WriterTurns
<1>5. OneEach' /\ NumbersOK' /\ OnItsWay' /\ LinesApart'
  BY <1>2, <1>4, NumbersStay
<1>6. Len(file) \in 0 .. Len(file)
  BY <1>1, LossTypes
<1>7. Types'
  BY <1>1, <1>2, <1>3, <1>6 DEF Types, WriterTurns, WriterStates
<1>8. EventsOK'
  BY <1>2, <1>4 DEF EventsOK, LossInv, Numbered
<1>9. FlushOK'
  BY <1>1, <1>2, <1>4 DEF FlushOK, LossInv, Appending
<1>10. QED BY <1>5, <1>7, <1>8, <1>9 DEF LossInv

LEMMA LossFlushBegin ==
    ASSUME LossInv, NEW final \in BOOLEAN, FlushBegin(final)
    PROVE  LossInv'
<1>1. Types /\ writer.pc # "gone" /\ \A p \in Producers : ~Appending(p)
  BY DEF LossInv, FlushBegin
<1>2. /\ flush' = [pc |-> "waiting", target |-> next_seq, closing |-> final]
      /\ UNCHANGED <<next_seq, last_ts, written_seq, producers, queue, writer, file, flushed, base,
                     accepted, dropped, spoiled, overlapped>>
  BY Zenon DEF FlushBegin, counters, disk, history
<1>3. AtWriter' = AtWriter /\ (Busy' <=> Busy)
  BY <1>2 DEF AtWriter, Busy
<1>4. OneEach' /\ NumbersOK' /\ OnItsWay' /\ LinesApart'
  BY <1>2, <1>3, NumbersStay
<1>5. next_seq \in 0 .. MaxEvents + 1
  BY <1>1, LossTypes
<1>6. flush' \in [pc : {"idle", "waiting", "closing"}, target : 0 .. MaxEvents + 1,
                  closing : BOOLEAN]
  BY <1>2, <1>5
<1>7. Types'
  BY <1>1, <1>2, <1>6 DEF Types
<1>8. EventsOK'
  BY <1>2, <1>3 DEF EventsOK, LossInv, Numbered
<1>9. FlushOK'
  BY <1>1, <1>2 DEF FlushOK, Appending
<1>10. QED BY <1>4, <1>7, <1>8, <1>9 DEF LossInv

\* What the end of a flush does to itself and the writer.
LEMMA FlushEndIs ==
    ASSUME Types, FlushEnd
    PROVE  /\ flush.pc = "waiting" /\ (flush.target <= 1 \/ written_seq >= flush.target - 1)
           /\ flushed' = Len(file)
           /\ flush' \in [pc : {"idle", "waiting", "closing"}, target : 0 .. MaxEvents + 1,
                          closing : BOOLEAN]
           /\ flush'.pc \in {"idle", "closing"}
           /\ writer' \in WriterStates /\ writer'.event = writer.event
           /\ writer'.pc = IF writer.pc = "writing" THEN "raced" ELSE writer.pc
           /\ UNCHANGED <<next_seq, last_ts, written_seq, producers, queue, file, base,
                          accepted, dropped, spoiled, overlapped>>
<1>1. /\ flush.pc = "waiting" /\ (flush.target <= 1 \/ written_seq >= flush.target - 1)
      /\ flushed' = Len(file)
      /\ flush' = [flush EXCEPT !.pc = IF flush.closing THEN "closing" ELSE "idle"]
      /\ writer' = [writer EXCEPT !.pc = IF @ = "writing" THEN "raced" ELSE @]
      /\ UNCHANGED <<next_seq, last_ts, written_seq, producers, queue, file, base,
                     accepted, dropped, spoiled, overlapped>>
  BY Zenon DEF FlushEnd, counters, history
<1>2. PICK c \in {"idle", "closing"} : c = IF flush.closing THEN "closing" ELSE "idle"
  OBVIOUS
<1>3. flush' = [flush EXCEPT !.pc = c]
  BY <1>1, <1>2
<1>4. flush' \in [pc : {"idle", "waiting", "closing"}, target : 0 .. MaxEvents + 1,
                  closing : BOOLEAN] /\ flush'.pc = c
  BY <1>3 DEF Types
<1>5. writer.pc \in {"idle", "writing", "raced", "written", "gone"} /\ writer \in WriterStates
  BY DEF Types, WriterStates
<1>6. PICK w \in {"idle", "writing", "raced", "written", "gone"} :
        w = IF writer.pc = "writing" THEN "raced" ELSE writer.pc
  BY <1>5
<1>7. writer' = [writer EXCEPT !.pc = w]
  BY <1>1, <1>6
<1>8. WriterTurns(w)
  BY <1>7, WriterTurnsTo
<1>9. QED BY <1>1, <1>2, <1>4, <1>6, <1>8 DEF WriterTurns

LEMMA LossFlushEnd ==
    ASSUME LossInv, FlushEnd
    PROVE  LossInv'
<1>1. Types
  BY DEF LossInv
<1>2. /\ flush.pc = "waiting" /\ flushed' = Len(file)
      /\ flush' \in [pc : {"idle", "waiting", "closing"}, target : 0 .. MaxEvents + 1,
                     closing : BOOLEAN]
      /\ flush'.pc \in {"idle", "closing"}
      /\ writer' \in WriterStates /\ writer'.event = writer.event
      /\ writer'.pc = IF writer.pc = "writing" THEN "raced" ELSE writer.pc
      /\ UNCHANGED <<next_seq, last_ts, written_seq, producers, queue, file, base,
                     accepted, dropped, spoiled, overlapped>>
  BY <1>1, FlushEndIs
<1>3. /\ AtWriter' = AtWriter /\ (Busy' <=> Busy)
      /\ writer'.pc = "written" <=> writer.pc = "written"
      /\ writer'.pc = "gone" <=> writer.pc = "gone"
  BY <1>2 DEF AtWriter, Busy
<1>4. OneEach' /\ NumbersOK' /\ OnItsWay' /\ LinesApart'
  BY <1>2, <1>3, NumbersStay
<1>5. Len(file) \in 0 .. Len(file)
  BY <1>1, LossTypes
<1>6. Types'
  BY <1>1, <1>2, <1>5 DEF Types, WriterStates
<1>7. EventsOK'
  BY <1>2, <1>3 DEF EventsOK, LossInv, Numbered
<1>8. FlushOK'
  BY <1>2, <1>3 DEF FlushOK, LossInv, Appending
<1>9. QED BY <1>4, <1>6, <1>7, <1>8 DEF LossInv

\* A process that opens a file whose lines have different numbers.
LEMMA OpenedIs ==
    ASSUME overlapped \in BOOLEAN, NEW f \in Files, Opened(f)
    PROVE  /\ Types' /\ Found' = LastSeq(f) /\ Written' = {} /\ InAppend' = {} /\ InQueue' = {}
           /\ AtWriter' = {} /\ file' = f /\ base' = Len(f) /\ flushed' = Len(f)
           /\ next_seq' = LastSeq(f) + 1 /\ last_ts' = LastStamp(f)
           /\ written_seq' = 0 /\ queue' = <<>> /\ writer'.pc = "idle" /\ flush'.pc = "idle"
           /\ accepted' = {} /\ dropped' = {} /\ spoiled' = {}
           /\ \A p \in Producers : producers'[p].pc = "idle"
           /\ overlapped' = overlapped
<1>1. /\ file' = f /\ flushed' = Len(f) /\ base' = Len(f) /\ next_seq' = LastSeq(f) + 1
      /\ last_ts' = LastStamp(f) /\ written_seq' = 0 /\ queue' = <<>>
      /\ producers' = [p \in Producers |-> Idle] /\ writer' = Idle /\ flush' = NoFlush
      /\ accepted' = {} /\ dropped' = {} /\ spoiled' = {} /\ overlapped' = overlapped
  BY Zenon DEF Opened
<1>2. LastSeq(f) \in 0 .. MaxEvents /\ LastStamp(f) \in Nat /\ MaxEvents \in Nat /\ Len(f) \in Nat
  BY LastIs, JournalAssumption DEF Files
<1>3. Idle \in ProducerStates /\ Idle \in WriterStates /\ Idle.pc = "idle"
  BY <1>2 DEF Idle, ProducerStates, WriterStates, Blanks
<1>4. NoFlush \in [pc : {"idle", "waiting", "closing"}, target : 0 .. MaxEvents + 1,
                   closing : BOOLEAN] /\ NoFlush.pc = "idle"
  BY <1>2 DEF NoFlush
<1>5. \A p \in Producers : producers'[p].pc = "idle"
  BY <1>1, <1>3
<1>6. SubSeq(f, 1, Len(f)) = f
  BY DEF Files
<1>7. Found' = LastSeq(f)
  BY <1>1, <1>6 DEF Found
<1>8. Len(f) + 1 .. Len(f) = {}
  BY <1>2
<1>9. Written' = {}
  BY <1>1, <1>8 DEF Written
<1>10. InAppend' = {}
  BY <1>5 DEF InAppend
<1>11. InQueue' = {}
  BY <1>1 DEF InQueue
<1>12. AtWriter' = {}
  BY <1>1, <1>3 DEF AtWriter
<1>13. Types'
  <2>1. next_seq' \in 1 .. MaxEvents + 1 /\ last_ts' \in Nat /\ written_seq' \in 0 .. MaxEvents
    BY <1>1, <1>2
  <2>2. producers' \in [Producers -> ProducerStates] /\ writer' \in WriterStates
    BY <1>1, <1>3
  <2>3. queue' \in Seq(Queue!Places) /\ Len(queue') = 0 /\ 0 <= Capacity
    BY <1>1, JournalAssumption
  <2>4. file' \in Files /\ flushed' \in 0 .. Len(file') /\ base' \in 0 .. Len(file')
    BY <1>1, <1>2
  <2>5. QED BY <1>1, <1>4, <2>1, <2>2, <2>3, <2>4 DEF Types, ProducerStates, WriterStates, Files
<1>14. QED BY <1>1, <1>3, <1>4, <1>5, <1>7, <1>9, <1>10, <1>11, <1>12, <1>13

LEMMA LossOpened ==
    ASSUME overlapped \in BOOLEAN, NEW f \in Files, Distinct(f, Len(f)), Opened(f)
    PROVE  LossInv'
<1>1. /\ Types' /\ Found' = LastSeq(f) /\ Written' = {} /\ InAppend' = {} /\ InQueue' = {}
      /\ AtWriter' = {} /\ file' = f /\ base' = Len(f) /\ next_seq' = LastSeq(f) + 1
      /\ queue' = <<>> /\ writer'.pc = "idle" /\ flush'.pc = "idle"
      /\ accepted' = {} /\ dropped' = {} /\ spoiled' = {}
      /\ \A p \in Producers : producers'[p].pc = "idle"
  BY OpenedIs
<1>2. \A p \in Producers : ~Numbered(p)' /\ ~Appending(p)'
  BY <1>1 DEF Numbered, Appending
<1>3. EventsOK'
  BY <1>1, <1>2 DEF EventsOK, Busy
<1>4. OneEach'
  <2>1. DOMAIN queue' = {}
    BY <1>1
  <2>2. QED BY <1>2, <2>1 DEF OneEach
<1>5. NumbersOK'
  <2>1. LastSeq(f) \in Nat
    BY LastIs
  <2>2. LastSeq(f) + 1 .. (LastSeq(f) + 1) - 1 = {}
    BY <2>1
  <2>3. QED BY <1>1, <2>2 DEF NumbersOK, Cover, Apart
<1>6. OnItsWay'
  BY <1>1 DEF OnItsWay
<1>7. FlushOK'
  BY <1>1 DEF FlushOK
<1>8. LinesApart'
  BY <1>1 DEF LinesApart
<1>9. QED BY <1>1, <1>3, <1>4, <1>5, <1>6, <1>7, <1>8 DEF LossInv

LEMMA DistinctParts ==
    ASSUME NEW f \in Files, NEW n \in 0 .. Len(f), NEW b, Distinct(f, b)
    PROVE  Distinct(SubSeq(f, 1, n), b)
<1> DEFINE g == SubSeq(f, 1, n)
<1>1. (\A k \in 1 .. n : g[k] = f[k]) /\ Lasting(g, b) = Lasting(f, b) \cap 1 .. n
  BY CutOff
<1> HIDE DEF g
<1>2. Distinct(g, b)
  BY <1>1 DEF Distinct
<1>3. QED BY <1>2 DEF g

LEMMA TornIs ==
    ASSUME NEW e \in Events
    PROVE  Torn(e) \subseteq Fragments
<1>1. e.seq \in 1 .. MaxEvents /\ e.ts \in Nat /\ MaxEvents \in Nat
  BY JournalAssumption DEF Events
<1>2. Cut(e.seq) \subseteq 0 .. MaxEvents /\ Cut(e.ts) \subseteq Nat
  <2>1. Cut(e.seq) \subseteq 0 .. e.seq /\ Cut(e.ts) \subseteq 0 .. e.ts
    BY DEF Cut
  <2>2. QED BY <1>1, <2>1
<1>3. e.seq \in Absent .. MaxEvents /\ {Absent} \cup Cut(e.seq) \subseteq Absent .. MaxEvents
  BY <1>1, <1>2 DEF Absent
<1> DEFINE A == {Absent} \cup Cut(e.seq)
           B == Cut(e.ts)
<1> HIDE DEF A, B
<1>4. /\ [seq : A, ts : {Absent}, type : {Absent}] \subseteq Fragments
      /\ [seq : {e.seq}, ts : B, type : {Absent}] \subseteq Fragments
      /\ [seq : {e.seq}, ts : {e.ts}, type : {Unreadable, Readable}] \subseteq Fragments
  BY <1>1, <1>2, <1>3 DEF Fragments, A, B
<1>5. QED BY <1>4 DEF Torn, A, B

\* A torn text is nothing that a reader finds as it was written, and changes nothing
\* before it.
LEMMA TornLasts ==
    ASSUME NEW g \in Files, NEW t \in Fragments
    PROVE  /\ Append(g, t) \in Files
           /\ \A k \in Intact(Append(g, t)) :
                Append(g, t)[k] = g[k] /\ \A b : k \in Lasting(g, b)
<1> DEFINE f == Append(g, t)
<1>1. /\ f \in Files /\ Len(f) = Len(g) + 1 /\ Len(g) \in Nat
      /\ (\A k \in 1 .. Len(g) : f[k] = g[k]) /\ f[Len(g) + 1] = t
      /\ DOMAIN g = 1 .. Len(g)
  BY DEF Files
<1> HIDE DEF f
<1>2. ASSUME NEW k \in Intact(f) PROVE f[k] = g[k] /\ \A b : k \in Lasting(g, b)
  <2>1. k \in 1 .. Len(g) + 1 /\ f[k] \in Events /\ (k = 1 \/ f[k - 1] = Break)
    BY <1>1, IntactLasts DEF Intact, Lines
  <2>2. k # Len(g) + 1
    BY <1>1, <2>1, TextKinds
  <2>3. k \in 1 .. Len(g) /\ (k # 1 => k - 1 \in 1 .. Len(g))
    BY <1>1, <2>1, <2>2
  <2>4. f[k] = g[k] /\ (k # 1 => f[k - 1] = g[k - 1])
    BY <1>1, <2>3
  <2>5. QED BY <1>1, <2>1, <2>3, <2>4 DEF Lasting
<1>3. QED BY <1>1, <1>2 DEF f

\* What a crash leaves of the file: a part of it, and of the text being written, and
\* perhaps a torn text after it.
LEMMA CrashLeaves ==
    ASSUME LossInv, NEW kept, Crash(kept)
    PROVE  \E f \in Files, g \in Files, n \in Nat :
             /\ Opened(f)
             /\ \A k \in Intact(f) : f[k] = g[k] /\ k \in Lasting(g, base)
             /\ \/ n \in 0 .. Len(file) /\ g = SubSeq(file, 1, n)
                \/ Busy /\ n \in 0 .. Len(file) + 2 /\ g = SubSeq(file \o <<writer.event, Break>>, 1, n)
<1>1. Types /\ file \in Files /\ Len(file) \in Nat /\ flushed \in 0 .. Len(file)
  BY LossTypes DEF LossInv
<1>2. ASSUME NEW text \in Files, kept \in 0 .. Len(text), NEW f \in Remains(text, kept)
      PROVE  /\ f \in Files /\ SubSeq(text, 1, kept) \in Files
             /\ \A k \in Intact(f) :
                  f[k] = SubSeq(text, 1, kept)[k] /\ k \in Lasting(SubSeq(text, 1, kept), base)
  <2> DEFINE g == SubSeq(text, 1, kept)
  <2>1. g \in Files
    BY <1>2, CutOff
  <2>2. f = g \/ (text[kept + 1] \in Events /\ \E t \in Torn(text[kept + 1]) : f = Append(g, t))
    BY <1>2, Zenon DEF Remains
  <2> HIDE DEF g
  <2>3. CASE f = g
    BY <2>1, <2>3, IntactLasts DEF g
  <2>4. CASE text[kept + 1] \in Events /\ \E t \in Torn(text[kept + 1]) : f = Append(g, t)
    <3>1. PICK t \in Fragments : f = Append(g, t)
      BY <2>4, TornIs
    <3>2. QED BY <2>1, <3>1, TornLasts DEF g
  <2>5. QED BY <2>2, <2>3, <2>4
<1>3. CASE Busy
  <2>1. writer.event \in Events
    BY <1>3, LineIsNew
  <2> DEFINE text == file \o <<writer.event, Break>>
  <2>2. kept \in flushed .. Len(text) /\ \E f \in Remains(text, kept) : Opened(f)
    BY <1>3, Zenon DEF Crash, Busy
  <2>3. text \in Files /\ Len(text) = Len(file) + 2
    <3>1. <<writer.event, Break>> \in Files /\ Len(<<writer.event, Break>>) = 2
      BY <2>1 DEF Files
    <3>2. QED BY <1>1, <3>1 DEF Files
  <2>4. kept \in 0 .. Len(file) + 2 /\ kept \in Nat
    BY <1>1, <2>2, <2>3
  <2> HIDE DEF text
  <2>5. PICK f \in Remains(text, kept) : Opened(f)
    BY <2>2
  <2>6. /\ f \in Files /\ SubSeq(text, 1, kept) \in Files
        /\ \A k \in Intact(f) :
             f[k] = SubSeq(text, 1, kept)[k] /\ k \in Lasting(SubSeq(text, 1, kept), base)
    BY <1>2, <2>3, <2>4
  <2>7. QED BY <1>3, <2>4, <2>5, <2>6, Zenon DEF text
<1>4. CASE ~Busy
  <2>1. kept \in flushed .. Len(file) /\ \E f \in Remains(file, kept) : Opened(f)
    BY <1>4, Zenon DEF Crash, Busy
  <2>2. kept \in 0 .. Len(file) /\ kept \in Nat
    BY <1>1, <2>1
  <2>3. PICK f \in Remains(file, kept) : Opened(f)
    BY <2>1
  <2>4. /\ f \in Files /\ SubSeq(file, 1, kept) \in Files
        /\ \A k \in Intact(f) :
             f[k] = SubSeq(file, 1, kept)[k] /\ k \in Lasting(SubSeq(file, 1, kept), base)
    BY <1>1, <1>2, <2>2
  <2>5. QED BY <2>2, <2>3, <2>4, Zenon
<1>5. QED BY <1>3, <1>4

LEMMA LossCrash ==
    ASSUME LossInv, NEW kept, Crash(kept)
    PROVE  LossInv'
<1>1. PICK f \in Files, g \in Files, n \in Nat :
        /\ Opened(f)
        /\ \A k \in Intact(f) : f[k] = g[k] /\ k \in Lasting(g, base)
        /\ \/ n \in 0 .. Len(file) /\ g = SubSeq(file, 1, n)
           \/ Busy /\ n \in 0 .. Len(file) + 2 /\ g = SubSeq(file \o <<writer.event, Break>>, 1, n)
  BY CrashLeaves
<1>2. overlapped \in BOOLEAN /\ file \in Files /\ Distinct(file, base)
  BY LossTypes DEF LossInv, Types, LinesApart
<1>3. Distinct(g, base)
  <2>1. CASE n \in 0 .. Len(file) /\ g = SubSeq(file, 1, n)
    BY <1>2, <2>1, DistinctParts
  <2>2. CASE Busy /\ n \in 0 .. Len(file) + 2 /\ g = SubSeq(file \o <<writer.event, Break>>, 1, n)
    <3>1. writer.event \in Events /\ \A k \in Lasting(file, base) : file[k].seq # writer.event.seq
      BY <2>2, LineIsNew
    <3>2. QED BY <1>2, <2>2, <3>1, DistinctTexts
  <2>3. QED BY <1>1, <2>1, <2>2
<1>4. Distinct(f, Len(f))
  BY <1>1, <1>3, IntactLasts DEF Distinct
<1>5. QED BY <1>1, <1>2, <1>4, LossOpened

LEMMA LossReopen ==
    ASSUME LossInv, Reopen
    PROVE  LossInv'
<1>1. file \in Files /\ Distinct(file, base) /\ overlapped \in BOOLEAN /\ Opened(file)
  BY LossTypes DEF LossInv, Reopen, Types, LinesApart
<1>2. Distinct(file, Len(file))
  BY <1>1, IntactLasts DEF Distinct
<1>3. QED BY <1>1, <1>2, LossOpened

LEMMA LossStutter ==
    ASSUME LossInv, UNCHANGED vars
    PROVE  LossInv'
<1>1. UNCHANGED <<next_seq, last_ts, written_seq, producers, queue, writer, file, flushed, flush,
                  base, accepted, dropped, spoiled, overlapped>>
  BY DEF vars
<1>2. AtWriter' = AtWriter
  BY <1>1 DEF AtWriter
<1>3. OneEach' /\ NumbersOK' /\ OnItsWay' /\ LinesApart'
  BY <1>1, <1>2, NumbersStay
<1>4. Types' /\ EventsOK' /\ FlushOK'
  BY <1>1 DEF LossInv, Types, EventsOK, FlushOK, Numbered, Busy, Appending
<1>5. QED BY <1>3, <1>4 DEF LossInv

LEMMA LossInit ==
    ASSUME Init
    PROVE  LossInv /\ Found < next_seq
<1>1. /\ next_seq = 1 /\ last_ts = 0 /\ written_seq = 0
      /\ producers = [p \in Producers |-> Idle] /\ queue = <<>> /\ writer = Idle
      /\ file = <<>> /\ flushed = 0 /\ flush = NoFlush
      /\ base = 0 /\ accepted = {} /\ dropped = {} /\ spoiled = {} /\ overlapped = FALSE
  BY Zenon DEF Init
<1>2. MaxEvents \in Nat /\ Capacity \in Nat
  BY JournalAssumption
<1>3. Idle \in ProducerStates /\ Idle \in WriterStates /\ Idle.pc = "idle"
  BY <1>2 DEF Idle, ProducerStates, WriterStates, Blanks
<1>4. NoFlush \in [pc : {"idle", "waiting", "closing"}, target : 0 .. MaxEvents + 1,
                   closing : BOOLEAN] /\ NoFlush.pc = "idle"
  BY <1>2 DEF NoFlush
<1>5. file \in Files /\ Len(file) = 0 /\ DOMAIN file = {} /\ DOMAIN queue = {}
      /\ queue \in Seq(Queue!Places) /\ Len(queue) = 0
  BY <1>1 DEF Files
<1>6. Types
  <2>1. producers \in [Producers -> ProducerStates] /\ writer \in WriterStates
    BY <1>1, <1>3
  <2>2. flush \in [pc : {"idle", "waiting", "closing"}, target : 0 .. MaxEvents + 1,
                   closing : BOOLEAN]
    BY <1>1, <1>4
  <2>3. /\ next_seq \in 1 .. MaxEvents + 1 /\ last_ts \in Nat /\ written_seq \in 0 .. MaxEvents
        /\ Len(queue) <= Capacity /\ flushed \in 0 .. Len(file) /\ base \in 0 .. Len(file)
    <3>1. next_seq = 1 /\ last_ts = 0 /\ written_seq = 0 /\ flushed = 0 /\ base = 0
      BY <1>1
    <3>2. Len(queue) = 0 /\ Len(file) = 0
      BY <1>5
    <3>3. QED BY <1>2, <3>1, <3>2
  <2>4. queue \in Seq(Queue!Places) /\ file \in Files
    BY <1>5
  <2>5. overlapped \in BOOLEAN
    BY <1>1
  <2>6. QED BY <2>1, <2>2, <2>3, <2>4, <2>5 DEF Types, ProducerStates, WriterStates, Files
<1>7. \A p \in Producers : producers[p].pc = "idle"
  BY <1>1, <1>3
<1>8. writer.pc = "idle" /\ flush.pc = "idle"
  BY <1>1, <1>3, <1>4
<1>9. Found = 0
  <2>1. SubSeq(file, 1, base) = <<>>
    BY <1>1
  <2>2. Lines(<<>>) = {}
    BY DEF Lines
  <2>3. {0} \cup {Reads(<<>>, k, "seq") : k \in Lines(<<>>)} = {0}
    BY <2>2
  <2>4. IsFiniteSet({0})
    BY FS_Singleton
  <2>5. Max({0}) \in {0}
    BY <2>4, LargestIs
  <2>6. Found = Max({0})
    BY <2>1, <2>3 DEF Found, LastSeq
  <2>7. QED BY <2>5, <2>6
<1>10. InAppend = {} /\ InQueue = {} /\ AtWriter = {} /\ Written = {}
  BY <1>1, <1>5, <1>7, <1>8 DEF InAppend, InQueue, AtWriter, Written
<1>11. EventsOK /\ OneEach
  BY <1>5, <1>7, <1>8 DEF EventsOK, OneEach, Numbered, Busy
<1>12. NumbersOK
  BY <1>1, <1>9, <1>10 DEF NumbersOK, Cover, Apart
<1>13. OnItsWay /\ FlushOK
  BY <1>1, <1>7, <1>8 DEF OnItsWay, FlushOK
<1>14. LinesApart
  BY <1>5 DEF LinesApart, Distinct, Lasting
<1>15. QED BY <1>1, <1>6, <1>9, <1>11, <1>12, <1>13, <1>14 DEF LossInv

\* Every step of the journal.
LEMMA Steps ==
    ASSUME [Next]_vars
    PROVE  \/ \E p \in Producers : \/ TakeNumber(p) \/ Claim(p) \/ Drop(p) \/ Fill(p)
                                   \/ \E time \in Times : Stamp(p, time)
           \/ Take \/ Write \/ WriteRaced \/ Announce \/ Exit
           \/ \E final \in BOOLEAN : FlushBegin(final)
           \/ FlushEnd \/ Reopen
           \/ \E kept \in 0 .. 2 * MaxEvents * MaxOpens : Crash(kept)
           \/ UNCHANGED vars
BY Zenon DEF Next, ProducerStep, WriterStep

LEMMA LossStep ==
    ASSUME LossInv, Found < next_seq, [Next]_vars
    PROVE  LossInv'
<1>1. Found + 1 <= next_seq
  BY LossTypes DEF LossInv
<1>2. CASE \E p \in Producers : \/ TakeNumber(p) \/ Claim(p) \/ Drop(p) \/ Fill(p)
                                \/ \E time \in Times : Stamp(p, time)
  BY <1>1, <1>2, LossTakeNumber, LossStamp, LossClaim, LossDrop, LossFill
<1>3. CASE Take \/ Write \/ WriteRaced \/ Announce \/ Exit
  BY <1>3, LossTake, LossWrite, LossWriteRaced, LossAnnounce, LossExit
<1>4. CASE (\E final \in BOOLEAN : FlushBegin(final)) \/ FlushEnd
  BY <1>4, LossFlushBegin, LossFlushEnd
<1>5. CASE Reopen \/ (\E kept \in 0 .. 2 * MaxEvents * MaxOpens : Crash(kept)) \/ UNCHANGED vars
  BY <1>5, LossReopen, LossCrash, LossStutter
<1>6. QED BY Steps, <1>2, <1>3, <1>4, <1>5

\* The numbers of the process follow those that it found.
LEMMA FoundBefore ==
    ASSUME LossInv, Found < next_seq, [Next]_vars
    PROVE  Found' < next_seq'
<1>1. Types /\ Types' /\ Found \in Nat /\ next_seq \in Nat
  BY LossStep, LossTypes DEF LossInv
<1>2. ASSUME Grows, next_seq' = next_seq \/ next_seq' = next_seq + 1 PROVE Found' < next_seq'
  BY <1>1, <1>2, FoundStays
<1>3. file \in Files /\ overlapped \in BOOLEAN /\ Len(file) \in Nat
  BY <1>1, LossTypes DEF Types
<1>4. ASSUME file' = file, base' = base PROVE Grows
  BY <1>3, <1>4 DEF Grows
<1>5. ASSUME NEW f \in Files, Opened(f) PROVE Found' < next_seq'
  <2>1. Found' = LastSeq(f) /\ next_seq' = LastSeq(f) + 1
    BY <1>3, <1>5, OpenedIs
  <2>2. QED BY <2>1, LastIs
<1>6. CASE \E p \in Producers : TakeNumber(p)
  <2>1. file' = file /\ base' = base /\ next_seq' = next_seq + 1
    BY <1>6, Zenon DEF TakeNumber, disk
  <2>2. QED BY <1>2, <1>4, <2>1
<1>7. CASE \E p \in Producers : \/ Claim(p) \/ Drop(p) \/ Fill(p)
                                \/ \E time \in Times : Stamp(p, time)
  <2>1. file' = file /\ base' = base /\ next_seq' = next_seq
    BY <1>7, Zenon DEF Claim, Drop, Fill, Stamp, disk, counters, history
  <2>2. QED BY <1>2, <1>4, <2>1
<1>8. CASE Take \/ Announce \/ Exit \/ FlushEnd \/ UNCHANGED vars
  <2>1. file' = file /\ base' = base /\ next_seq' = next_seq
    BY <1>8, Zenon DEF Take, Announce, Exit, FlushEnd, disk, counters, history, vars
  <2>2. QED BY <1>2, <1>4, <2>1
<1>9. CASE \E final \in BOOLEAN : FlushBegin(final)
  <2>1. file' = file /\ base' = base /\ next_seq' = next_seq
    BY <1>9, Zenon DEF FlushBegin, disk, counters, history
  <2>2. QED BY <1>2, <1>4, <2>1
<1>10. ASSUME writer.event \in Events, base' = base, next_seq' = next_seq,
              \/ file' = file \o <<writer.event, Break>>
              \/ file' = Append(file, writer.event)
              \/ file' = file
       PROVE  Found' < next_seq'
  <2>1. PICK n, m \in Len(file) + 1 .. Len(file) + 2 : m = Len(file) + 1 /\ n = Len(file) + 2
    BY <1>3
  <2>2. \/ file' = SubSeq(file \o <<writer.event, Break>>, 1, n)
        \/ file' = SubSeq(file \o <<writer.event, Break>>, 1, m)
        \/ file' = file
    BY <1>3, <1>10, <2>1, PartsOfText
  <2>3. Grows
    BY <1>1, <1>4, <1>10, <2>2, LineWritten
  <2>4. QED BY <1>2, <1>10, <2>3
<1>11. CASE Write \/ WriteRaced
  <2>1. writer.event \in Events
    BY <1>11 DEF LossInv, EventsOK, Busy, Write, WriteRaced
  <2>2. /\ base' = base /\ next_seq' = next_seq
        /\ \/ file' = file \o <<writer.event, Break>>
           \/ file' = Append(file, writer.event)
           \/ file' = file
    BY <1>11, Zenon DEF Write, WriteRaced, counters, history
  <2>3. QED BY <1>10, <2>1, <2>2
<1>12. CASE Reopen
  BY <1>3, <1>5, <1>12 DEF Reopen
<1>13. CASE \E kept \in 0 .. 2 * MaxEvents * MaxOpens : Crash(kept)
  <2>1. PICK f \in Files : Opened(f)
    BY <1>13, CrashLeaves
  <2>2. QED BY <1>5, <2>1
<1>14. QED BY Steps, <1>6, <1>7, <1>8, <1>9, <1>11, <1>12, <1>13

-----------------------------------------------------------------------------
(* Nothing is lost                                                         *)

LEMMA SixPlaces ==
    ASSUME NEW a, NEW q, NEW w, NEW f, NEW d, NEW s, NEW n,
           Cover(a, q, w, f, d, s, n), Apart(a, q, w, f, d, s)
    PROVE  LET places == <<a, q, w, f, d, s>>
           IN  /\ UNION Range(places) = n
               /\ \A j, k \in DOMAIN places : j # k => places[j] \cap places[k] = {}
<1> DEFINE places == <<a, q, w, f, d, s>>
<1>1. /\ DOMAIN places = {1, 2, 3, 4, 5, 6}
      /\ places[1] = a /\ places[2] = q /\ places[3] = w
      /\ places[4] = f /\ places[5] = d /\ places[6] = s
  <2>1. DOMAIN places = 1 .. 6 /\ 1 .. 6 = {1, 2, 3, 4, 5, 6}
    OBVIOUS
  <2>2. QED BY <2>1
<1> HIDE DEF places
<1>2. Range(places) = {a, q, w, f, d, s}
  <2>1. Range(places) = {places[k] : k \in {1, 2, 3, 4, 5, 6}}
    BY <1>1 DEF Range
  <2>2. QED BY <1>1, <2>1
<1>3. UNION Range(places) = a \cup q \cup w \cup f \cup d \cup s
  BY <1>2
<1>4. \A j, k \in {1, 2, 3, 4, 5, 6} : j # k => places[j] \cap places[k] = {}
  BY <1>1 DEF Apart
<1>5. \A j, k \in DOMAIN places : j # k => places[j] \cap places[k] = {}
  <2>1. DOMAIN places = {1, 2, 3, 4, 5, 6}
    BY <1>1
  <2>2. QED BY <1>4, <2>1
<1>6. QED BY <1>3, <1>5 DEF Cover, places

LEMMA LossMeans ==
    ASSUME LossInv
    PROVE  NoneIsLost
<1>1. /\ Types /\ QueueOK /\ OneEach /\ LinesUnique
      /\ file \in Files /\ Len(file) \in Nat
  <2>1. Types /\ QueueOK /\ OneEach /\ LinesApart /\ file \in Files /\ Len(file) \in Nat
    BY LossTypes DEF LossInv
  <2>2. Intact(file) \subseteq Lasting(file, base)
    BY <2>1, IntactLasts
  <2>3. LinesUnique
    BY <2>1, <2>2 DEF LinesUnique, LinesApart, Distinct
  <2>4. QED BY <2>1, <2>3
<1>2. TypeOK
  <2>1. DOMAIN file = 1 .. Len(file) /\ \A k \in 1 .. Len(file) : file[k] \in Events \cup Fragments \cup {Break}
    BY <1>1 DEF Files
  <2>2. \A p \in Producers :
          producers[p].pc \in {"idle", "numbered", "stamped", "claimed"}
    BY <1>1 DEF Types
  <2>3. /\ writer.pc \in {"idle", "writing", "raced", "written", "gone"}
        /\ flush.pc \in {"idle", "waiting", "closing"}
    BY <1>1 DEF Types
  <2>4. QED BY <1>1, <2>1, <2>2, <2>3 DEF TypeOK, Types
<1>3. Accounted
  <2> DEFINE places == <<InAppend, InQueue, AtWriter, Written, dropped, spoiled>>
  <2>1. /\ UNION Range(places) = Found + 1 .. next_seq - 1
        /\ \A j, k \in DOMAIN places : j # k => places[j] \cap places[k] = {}
    <3>1. /\ Cover(InAppend, InQueue, AtWriter, Written, dropped, spoiled, Found + 1 .. next_seq - 1)
          /\ Apart(InAppend, InQueue, AtWriter, Written, dropped, spoiled)
      BY DEF LossInv, NumbersOK
    <3>2. QED BY <3>1, SixPlaces
  <2>2. Len(queue) = Cardinality(InQueue)
    BY <1>1, QueueCounted
  <2>3. QED BY <2>1, <2>2, Zenon DEF Accounted, Found
<1>4. CloseDrains
  <2>1. ASSUME writer.pc = "gone" PROVE accepted \subseteq Written \cup spoiled /\ flushed = Len(file)
    <3>1. queue = <<>> /\ flushed = Len(file)
      BY <2>1 DEF LossInv, FlushOK
    <3>2. InQueue = {} /\ AtWriter = {}
      BY <2>1, <3>1 DEF InQueue, AtWriter
    <3>3. QED BY <3>1, <3>2 DEF LossInv, OnItsWay
  <2>2. QED BY <2>1 DEF CloseDrains
<1>5. QED BY <1>1, <1>2, <1>3, <1>4 DEF NoneIsLost

\* Where every number is, and what the writer and a flush may find, holds in every
\* reachable state of append, the writer, flush, the destructor and reopening.
THEOREM LossInvariant == Spec => [](LossInv /\ Found < next_seq)
<1>1. Init => LossInv /\ Found < next_seq
  BY LossInit
<1>2. (LossInv /\ Found < next_seq) /\ [Next]_vars => (LossInv /\ Found < next_seq)'
  BY LossStep, FoundBefore
<1>3. QED BY <1>1, <1>2, PTL DEF Spec

\* No event is lost, duplicated or numbered twice by append, write_event, flush, the
\* destructor and load_tail_stats, but those that a drop, a crash or a data race
\* accounts for, however often the file is opened.
THEOREM JournalLosesNone == Spec => []NoneIsLost
<1>1. LossInv /\ Found < next_seq => NoneIsLost
  BY LossMeans
<1>2. QED BY <1>1, LossInvariant, PTL

-----------------------------------------------------------------------------
(* While appends do not overlap, everything is in order                    *)

LEMMA OrderTypes ==
    ASSUME LossInv
    PROVE  /\ next_seq \in Nat /\ last_ts \in Nat /\ written_seq \in Nat
           /\ writer.event.seq \in Nat /\ writer.event.ts \in Nat
           /\ \A k \in Lasting(file, base) : file[k].seq \in Nat /\ file[k].ts \in Nat
           /\ \A k \in DOMAIN queue : queue[k].value.seq \in Nat /\ queue[k].value.ts \in Nat
           /\ \A p \in Producers : producers[p].event.seq \in Nat /\ producers[p].event.ts \in Nat
<1>1. Types /\ QueueOK /\ file \in Files /\ writer \in WriterStates
      /\ producers \in [Producers -> ProducerStates] /\ MaxEvents \in Nat
  BY LossTypes DEF LossInv
<1>2. next_seq \in Nat /\ last_ts \in Nat /\ written_seq \in Nat
  BY <1>1, LossTypes
<1>3. writer.event.seq \in Nat /\ writer.event.ts \in Nat
  <2>1. writer.event \in Blanks
    BY <1>1 DEF WriterStates
  <2>2. QED BY <1>1, <2>1 DEF Blanks
<1>4. \A k \in Lasting(file, base) : file[k].seq \in Nat /\ file[k].ts \in Nat
  BY <1>1, Lastings
<1>5. \A k \in DOMAIN queue : queue[k].value.seq \in Nat /\ queue[k].value.ts \in Nat
  BY <1>1, QueueElements
<1>6. ASSUME NEW p \in Producers
      PROVE  producers[p].event.seq \in Nat /\ producers[p].event.ts \in Nat
  <2>1. producers[p] \in ProducerStates
    BY <1>1
  <2>2. producers[p].event \in Blanks
    BY <2>1 DEF ProducerStates
  <2>3. QED BY <1>1, <2>2 DEF Blanks
<1>7. QED BY <1>2, <1>3, <1>4, <1>5, <1>6

LEMMA BelowMore ==
    ASSUME LossInv, NEW s \in Nat, NEW t \in Nat, NEW s2 \in Nat, NEW t2 \in Nat,
           s <= s2, t <= t2, Below(s, t)
    PROVE  Below(s2, t2)
BY OrderTypes DEF Below

LEMMA BelowSame ==
    ASSUME UNCHANGED <<queue, writer, file, base>>
    PROVE  /\ \A s, t : Below(s, t)' <=> Below(s, t)
           /\ (Busy' <=> Busy) /\ Lasting(file', base') = Lasting(file, base)
           /\ WriterOrdered => WriterOrdered'
           /\ QueueOrdered => QueueOrdered'
           /\ Ordered(file, base) => Ordered(file', base')
<1>1. Busy' <=> Busy
  BY DEF Busy
<1>2. ASSUME NEW s, NEW t PROVE Below(s, t)' <=> Below(s, t)
  BY <1>1 DEF Below
<1>3. QED BY <1>1, <1>2, Zenon DEF WriterOrdered, QueueOrdered, Ordered

LEMMA OrderTakeNumber ==
    ASSUME LossInv, InOrder, NEW p \in Producers, TakeNumber(p), \A q \in Producers : ~Appending(q)
    PROVE  InOrder'
<1>1. Types /\ next_seq <= MaxEvents
  BY DEF LossInv, TakeNumber
<1>2. /\ next_seq' = next_seq + 1
      /\ UNCHANGED <<last_ts, written_seq, queue, writer, file, base, spoiled>>
  BY Zenon DEF TakeNumber, disk
<1>3. Turns(p, "numbered", next_seq, 0)
  BY <1>1, TurnsNumbered DEF TakeNumber
<1>4. /\ producers'[p].pc = "numbered" /\ producers'[p].event.seq = next_seq
      /\ \A q \in Producers \ {p} : producers'[q] = producers[q]
  BY <1>3 DEF Turns
<1>5. next_seq \in Nat /\ last_ts \in Nat /\ written_seq \in Nat
  BY OrderTypes
<1>6. \A q \in Producers \ {p} : ~Appending(q)' /\ ~Numbered(q)' /\ producers'[q].pc # "stamped"
  BY <1>4 DEF Appending, Numbered
<1>7. OneAppends'
  BY <1>6 DEF OneAppends
<1>8. Ordered(file', base') /\ WriterOrdered' /\ QueueOrdered'
  BY <1>2, BelowSame DEF InOrder
<1>9. Below(next_seq, last_ts + 1)'
  <2>1. PICK s \in Nat, t \in Nat : s = next_seq + 1 /\ t = last_ts + 1
    BY <1>5
  <2>2. Below(s, t)
    BY <1>5, <2>1, BelowMore DEF InOrder
  <2>3. Below(s, t)'
    BY <1>2, <2>2, BelowSame
  <2>4. s = next_seq' /\ t = last_ts' + 1
    BY <1>2, <2>1
  <2>5. QED BY <2>3, <2>4, Zenon DEF Below
<1>10. ProducersOrdered'
  <2>1. ASSUME NEW q \in Producers, Numbered(q)'
        PROVE  /\ producers'[q].event.seq < next_seq'
               /\ Below(producers[q].event.seq, last_ts + 1)'
    <3>1. q = p /\ producers'[q].event.seq = next_seq
      BY <1>4, <1>6, <2>1
    <3>2. PICK s, t : s = next_seq /\ t = last_ts + 1
      OBVIOUS
    <3>3. Below(s, t)
      BY <3>2, Zenon DEF InOrder
    <3>4. Below(s, t)'
      BY <1>2, <3>3, BelowSame
    <3>5. s = producers'[q].event.seq /\ t = last_ts' + 1
      BY <1>2, <3>1, <3>2
    <3>6. Below(producers[q].event.seq, last_ts + 1)'
      BY <3>4, <3>5, Zenon DEF Below
    <3>7. QED BY <1>2, <1>5, <3>1, <3>6
  <2>2. \A q \in Producers : producers'[q].pc # "stamped"
    BY <1>4, <1>6
  <2>3. QED BY <2>1, <2>2 DEF ProducersOrdered
<1>11. AnnouncedInOrder'
  <2>1. /\ writer.pc # "raced" /\ spoiled = {} /\ written_seq < next_seq
        /\ Busy \/ writer.pc = "written" => written_seq < writer.event.seq
        /\ \A k \in DOMAIN queue : written_seq < queue[k].value.seq
    BY DEF InOrder, AnnouncedInOrder
  <2>2. \A q \in Producers : Numbered(q)' => producers'[q].event.seq = next_seq
    BY <1>4, <1>6
  <2>3. Busy' <=> Busy
    BY <1>2, BelowSame
  <2>4. written_seq < next_seq + 1
    BY <1>5, <2>1
  <2>5. QED BY <1>2, <2>1, <2>2, <2>3, <2>4 DEF AnnouncedInOrder
<1>12. QED BY <1>7, <1>8, <1>9, <1>10, <1>11 DEF InOrder

\* What the last step of an append, or the writer, leaves of the order: no new event.
LEMMA OrderStays ==
    ASSUME InOrder, UNCHANGED <<next_seq, last_ts, written_seq, spoiled, queue, writer, file, base>>,
           \A q \in Producers : producers'[q] = producers[q] \/ producers'[q].pc = "idle"
    PROVE  InOrder'
<1>1. \A q \in Producers : Numbered(q)' \/ Appending(q)' => producers'[q] = producers[q]
  BY DEF Numbered, Appending
<1>2. /\ \A s, t : Below(s, t)' <=> Below(s, t)
      /\ Ordered(file', base') /\ WriterOrdered' /\ QueueOrdered' /\ (Busy' <=> Busy)
  BY BelowSame DEF InOrder
<1>3. OneAppends'
  BY <1>1 DEF OneAppends, InOrder, Appending
<1>4. Below(next_seq, last_ts + 1)'
  BY <1>2 DEF InOrder, Below
<1>5. ProducersOrdered'
  <2>1. ProducersOrdered
    BY DEF InOrder
  <2>2. ASSUME NEW q \in Producers, Numbered(q)'
        PROVE  /\ producers'[q].event.seq < next_seq'
               /\ Below(producers[q].event.seq, last_ts + 1)'
    <3>1. producers'[q] = producers[q] /\ Numbered(q)
      BY <1>1, <2>2 DEF Numbered
    <3>2. producers[q].event.seq < next_seq /\ Below(producers[q].event.seq, last_ts + 1)
      BY <2>1, <3>1 DEF ProducersOrdered
    <3>3. QED BY <1>2, <3>1, <3>2 DEF Below
  <2>3. ASSUME NEW q \in Producers, producers'[q].pc = "stamped"
        PROVE  /\ producers'[q].event.ts <= last_ts'
               /\ Below(producers[q].event.seq, producers[q].event.ts)'
    <3>1. producers'[q] = producers[q]
      BY <2>3
    <3>2. producers[q].event.ts <= last_ts /\ Below(producers[q].event.seq, producers[q].event.ts)
      BY <2>1, <2>3, <3>1 DEF ProducersOrdered
    <3>3. QED BY <1>2, <3>1, <3>2 DEF Below
  <2>4. QED BY <2>2, <2>3 DEF ProducersOrdered
<1>6. AnnouncedInOrder'
  <2>1. AnnouncedInOrder
    BY DEF InOrder
  <2>2. \A q \in Producers : Numbered(q)' => Numbered(q) /\ producers'[q] = producers[q]
    BY <1>1 DEF Numbered
  <2>3. QED BY <1>2, <2>1, <2>2 DEF AnnouncedInOrder
<1>7. QED BY <1>2, <1>3, <1>4, <1>5, <1>6 DEF InOrder

\* A stamp is after those of the process and those that it found.
LEMMA StampedLater ==
    ASSUME LossInv, NEW time \in Times
    PROVE  Stamped(time) \in Nat /\ last_ts + 1 <= Stamped(time)
<1>1. last_ts \in Nat /\ time \in Nat /\ time >= 1
  BY OrderTypes, JournalAssumption
<1>2. QED BY <1>1 DEF Stamped

\* While p appends nobody else does.
LEMMA Alone ==
    ASSUME InOrder, NEW p \in Producers, Appending(p)
    PROVE  \A q \in Producers \ {p} : ~Appending(q) /\ ~Numbered(q) /\ producers[q].pc = "idle"
BY DEF InOrder, OneAppends, Appending, Numbered

LEMMA OrderStamp ==
    ASSUME LossInv, InOrder, NEW p \in Producers, NEW time \in Times, Stamp(p, time)
    PROVE  InOrder'
<1>1. Types /\ producers[p].pc = "numbered" /\ Appending(p) /\ Numbered(p)
  BY DEF LossInv, Stamp, Appending, Numbered
<1>2. /\ last_ts' = Stamped(time)
      /\ producers' = [producers EXCEPT ![p].pc = "stamped", ![p].event.ts = last_ts']
      /\ UNCHANGED <<next_seq, written_seq, queue, writer, file, base, spoiled>>
  BY Zenon DEF Stamp, disk, history
<1>3. PICK t \in Nat : t = last_ts' /\ last_ts + 1 <= t
  BY <1>2, StampedLater
<1>4. Turns(p, "stamped", producers[p].event.seq, t)
  BY <1>1, <1>2, <1>3, TurnsStamped
<1>5. PICK s \in Nat : s = producers[p].event.seq
  BY OrderTypes
<1>6. /\ producers'[p].pc = "stamped" /\ producers'[p].event.seq = s /\ producers'[p].event.ts = t
      /\ \A q \in Producers \ {p} : producers'[q] = producers[q]
  BY <1>4, <1>5 DEF Turns
<1>7. \A q \in Producers \ {p} : producers'[q].pc = "idle" /\ ~Appending(q)' /\ ~Numbered(q)'
  BY <1>1, <1>6, Alone DEF Appending, Numbered
<1>8. next_seq \in Nat /\ last_ts \in Nat /\ last_ts + 1 \in Nat
  BY OrderTypes
<1>9. s < next_seq /\ Below(s, last_ts + 1)
  BY <1>1, <1>5 DEF InOrder, ProducersOrdered
<1>10. Below(s, t) /\ Below(s, t + 1) /\ Below(next_seq, t + 1)
  BY <1>3, <1>8, <1>9, BelowMore
<1>11. PICK n, u : n = next_seq /\ u = t + 1
  OBVIOUS
<1>12. Below(s, t)' /\ Below(s, u)' /\ Below(n, u)'
  BY <1>2, <1>10, <1>11, BelowSame
<1>13. OneAppends'
  BY <1>7 DEF OneAppends
<1>14. Ordered(file', base') /\ WriterOrdered' /\ QueueOrdered' /\ (Busy' <=> Busy)
  BY <1>2, BelowSame DEF InOrder
<1>15. n = next_seq' /\ u = last_ts' + 1
  BY <1>2, <1>3, <1>11
<1>16. Below(next_seq, last_ts + 1)'
  BY <1>12, <1>15, Zenon DEF Below
<1>17. ProducersOrdered'
  <2>1. ASSUME NEW q \in Producers, Numbered(q)' \/ producers'[q].pc = "stamped"
        PROVE  q = p
    BY <1>7, <2>1
  <2>2. Below(producers[p].event.seq, last_ts + 1)'
    BY <1>6, <1>12, <1>15, Zenon DEF Below
  <2>3. Below(producers[p].event.seq, producers[p].event.ts)'
    BY <1>6, <1>12, Zenon DEF Below
  <2>4. producers'[p].event.seq < next_seq' /\ producers'[p].event.ts <= last_ts'
    BY <1>2, <1>3, <1>6, <1>9
  <2>5. QED BY <2>1, <2>2, <2>3, <2>4 DEF ProducersOrdered
<1>18. AnnouncedInOrder'
  <2>1. AnnouncedInOrder /\ written_seq < s
    BY <1>1, <1>5 DEF InOrder, AnnouncedInOrder
  <2>2. \A q \in Producers : Numbered(q)' => producers'[q].event.seq = s
    BY <1>6, <1>7
  <2>3. QED BY <1>2, <1>14, <2>1, <2>2 DEF AnnouncedInOrder
<1>19. QED BY <1>13, <1>14, <1>16, <1>17, <1>18 DEF InOrder

LEMMA OrderClaim ==
    ASSUME LossInv, InOrder, NEW p \in Producers, Claim(p)
    PROVE  InOrder'
<1>1. /\ Types /\ producers[p].pc = "stamped" /\ Appending(p) /\ Numbered(p)
      /\ producers[p].event \in Events /\ QueueOK
  BY LossTypes DEF LossInv, Claim, Numbered, EventsOK, Appending
<1>2. PICK e \in Events : e = producers[p].event
  BY <1>1
<1>3. /\ queue' = Queue!Claimed(queue, p, e)
      /\ producers' = [producers EXCEPT ![p].pc = "claimed"]
      /\ UNCHANGED <<next_seq, last_ts, written_seq, writer, file, base, spoiled>>
  BY <1>2, Zenon DEF Claim, disk, history, counters
<1>4. Turns(p, "claimed", producers[p].event.seq, producers[p].event.ts)
  BY <1>1, <1>3, TurnsTo
<1>5. /\ DOMAIN queue' = 1 .. Len(queue) + 1
      /\ \A k \in DOMAIN queue : queue'[k] = queue[k]
      /\ queue'[Len(queue) + 1].value = e
  BY <1>1, <1>3, QueueClaimed
<1>6. Len(queue) \in Nat /\ DOMAIN queue = 1 .. Len(queue)
  BY <1>1, QueueElements
<1>7. PICK l : l = Len(queue) + 1
  OBVIOUS
<1>8. /\ \A k \in DOMAIN queue' : k \in DOMAIN queue \/ k = l
      /\ \A k \in DOMAIN queue : queue'[k] = queue[k] /\ k < l
      /\ queue'[l].value = e
      /\ DOMAIN queue \subseteq Int /\ l \in Int
  BY <1>5, <1>6, <1>7
<1>9. \A q \in Producers \ {p} : producers'[q] = producers[q]
  BY <1>4 DEF Turns
<1>10. producers'[p].pc = "claimed"
  BY <1>4 DEF Turns
<1>11. \A q \in Producers \ {p} : producers'[q].pc = "idle"
  BY <1>1, <1>9, Alone
<1>12. /\ \A q \in Producers : ~Numbered(q)' /\ producers'[q].pc # "stamped"
       /\ \A q \in Producers \ {p} : ~Appending(q)'
  BY <1>10, <1>11 DEF Numbered, Appending
<1>13. /\ e.seq < next_seq /\ e.ts <= last_ts /\ Below(e.seq, e.ts) /\ written_seq < e.seq
       /\ Below(next_seq, last_ts + 1)
  BY <1>1, <1>2 DEF InOrder, ProducersOrdered, AnnouncedInOrder
<1>14. e.seq \in Nat /\ e.ts \in Nat /\ last_ts \in Nat /\ next_seq \in Nat
  BY <1>2, OrderTypes
<1>15. Lasting(file', base') = Lasting(file, base) /\ file' = file /\ (Busy' <=> Busy) /\ writer' = writer
  BY <1>3 DEF Busy
<1>16. OneAppends'
  BY <1>12 DEF OneAppends
<1>17. Ordered(file', base') /\ WriterOrdered'
  BY <1>15, Zenon DEF InOrder, Ordered, WriterOrdered
<1>18. QueueOrdered'
  <2>1. QueueOrdered
    BY DEF InOrder
  <2>2. /\ \A j \in Lasting(file, base) : Before(file[j], e)
        /\ Busy \/ writer.pc = "written" => Before(writer.event, e)
        /\ \A k \in DOMAIN queue : Before(queue[k].value, e)
    BY <1>13 DEF Below, Before
  <2>3. \A j \in Lasting(file', base'), k \in DOMAIN queue' : Before(file'[j], queue'[k].value)
    BY <1>8, <1>15, <2>1, <2>2 DEF QueueOrdered
  <2>4. (Busy \/ writer.pc = "written")' =>
          \A k \in DOMAIN queue' : Before(writer'.event, queue'[k].value)
    BY <1>8, <1>15, <2>1, <2>2 DEF QueueOrdered
  <2>5. ASSUME NEW j \in DOMAIN queue', NEW k \in DOMAIN queue', j < k
        PROVE  Before(queue'[j].value, queue'[k].value)
    <3>1. j \in DOMAIN queue
      BY <1>8, <2>5
    <3>2. CASE k \in DOMAIN queue
      BY <1>8, <2>1, <2>5, <3>1, <3>2 DEF QueueOrdered
    <3>3. CASE k = l
      BY <1>8, <2>2, <3>1, <3>3
    <3>4. QED BY <1>8, <3>2, <3>3
  <2>6. QED BY <2>3, <2>4, <2>5 DEF QueueOrdered
<1>19. Below(next_seq, last_ts + 1)'
  <2>1. e.seq < next_seq /\ e.ts < last_ts + 1
    BY <1>13, <1>14
  <2>2. \A k \in DOMAIN queue' : queue'[k].value.seq < next_seq /\ queue'[k].value.ts < last_ts + 1
    BY <1>8, <1>13, <2>1 DEF Below
  <2>3. QED BY <1>3, <1>13, <1>15, <2>2 DEF Below
<1>20. ProducersOrdered'
  BY <1>12 DEF ProducersOrdered
<1>21. AnnouncedInOrder'
  <2>1. AnnouncedInOrder
    BY DEF InOrder
  <2>2. \A k \in DOMAIN queue' : written_seq < queue'[k].value.seq
    BY <1>8, <1>13, <2>1 DEF AnnouncedInOrder
  <2>3. QED BY <1>3, <1>12, <1>15, <2>1, <2>2 DEF AnnouncedInOrder
<1>22. QED BY <1>16, <1>17, <1>18, <1>19, <1>20, <1>21 DEF InOrder

LEMMA OrderDrop ==
    ASSUME LossInv, InOrder, NEW p \in Producers, Drop(p)
    PROVE  InOrder'
<1>1. Types /\ producers' = [producers EXCEPT ![p].pc = "idle"]
      /\ UNCHANGED <<next_seq, last_ts, written_seq, queue, writer, file, base, spoiled>>
  BY Zenon DEF Drop, disk, counters, LossInv
<1>2. Turns(p, "idle", producers[p].event.seq, producers[p].event.ts)
  BY <1>1, TurnsTo
<1>3. \A q \in Producers : producers'[q] = producers[q] \/ producers'[q].pc = "idle"
  BY <1>2 DEF Turns
<1>4. QED BY <1>1, <1>3, OrderStays

LEMMA OrderFill ==
    ASSUME LossInv, InOrder, NEW p \in Producers, Fill(p)
    PROVE  InOrder'
<1>1. /\ Types /\ QueueOK /\ producers[p].pc = "claimed" /\ Appending(p)
      /\ queue' = Queue!Filled(queue, p)
      /\ producers' = [producers EXCEPT ![p].pc = "idle"]
      /\ UNCHANGED <<next_seq, last_ts, written_seq, writer, file, base, spoiled>>
  <2>1. Types /\ QueueOK
    BY LossTypes DEF LossInv
  <2>2. QED BY <2>1, Zenon DEF Fill, disk, counters, Appending
<1>2. Turns(p, "idle", producers[p].event.seq, producers[p].event.ts)
  BY <1>1, TurnsTo
<1>3. \A q \in Producers : producers'[q].pc = "idle"
  BY <1>1, <1>2, Alone DEF Turns
<1>4. DOMAIN queue' = DOMAIN queue /\ \A k \in DOMAIN queue : queue'[k].value = queue[k].value
  BY <1>1, QueueFilled
<1>5. Lasting(file', base') = Lasting(file, base) /\ (Busy' <=> Busy)
  BY <1>1 DEF Busy
<1>6. OneAppends' /\ ProducersOrdered'
  BY <1>3 DEF OneAppends, ProducersOrdered, Appending, Numbered
<1>7. Ordered(file', base') /\ WriterOrdered'
  BY <1>1, <1>5, Zenon DEF InOrder, Ordered, WriterOrdered
<1>8. QueueOrdered'
  BY <1>1, <1>4, <1>5, Zenon DEF InOrder, QueueOrdered
<1>9. Below(next_seq, last_ts + 1)'
  BY <1>1, <1>4, <1>5, Zenon DEF InOrder, Below
<1>10. AnnouncedInOrder'
  <2>1. \A q \in Producers : ~Numbered(q)'
    BY <1>3 DEF Numbered
  <2>2. QED BY <1>1, <1>4, <1>5, <2>1, Zenon DEF InOrder, AnnouncedInOrder
<1>11. QED BY <1>6, <1>7, <1>8, <1>9, <1>10 DEF InOrder

LEMMA OrderTake ==
    ASSUME LossInv, InOrder, Take
    PROVE  InOrder'
<1>1. /\ queue # <<>> /\ queue' = Tail(queue) /\ 1 \in DOMAIN queue
      /\ writer.pc = "idle" /\ writer'.pc = "writing" /\ writer'.event = queue[1].value
      /\ UNCHANGED <<next_seq, last_ts, written_seq, producers, file, base, spoiled>>
  BY TakeIs
<1>2. QueueOK
  BY LossTypes DEF LossInv
<1>3. DOMAIN queue' = 1 .. Len(queue) - 1 /\ \A k \in DOMAIN queue' : queue'[k] = queue[k + 1]
  BY <1>1, <1>2, QueueTaken
<1>4. Len(queue) \in Nat /\ DOMAIN queue = 1 .. Len(queue)
  BY <1>2, QueueElements
<1>5. \A k \in DOMAIN queue' : k \in Int /\ k + 1 \in DOMAIN queue /\ 1 < k + 1
  BY <1>3, <1>4
<1>6. ~Busy /\ Busy' /\ Lasting(file', base') = Lasting(file, base)
  BY <1>1 DEF Busy
<1>7. ASSUME NEW s, NEW t, Below(s, t) PROVE Below(s, t)'
  BY <1>1, <1>3, <1>5, <1>7 DEF Below
<1>8. OneAppends' /\ Ordered(file', base')
  BY <1>1, Zenon DEF InOrder, OneAppends, Ordered, Appending
<1>9. WriterOrdered'
  BY <1>1 DEF InOrder, QueueOrdered, WriterOrdered
<1>10. QueueOrdered'
  <2>1. QueueOrdered
    BY DEF InOrder
  <2>2. \A j \in Lasting(file', base'), k \in DOMAIN queue' : Before(file'[j], queue'[k].value)
    BY <1>1, <1>3, <1>5, <2>1 DEF QueueOrdered
  <2>3. \A k \in DOMAIN queue' : Before(writer'.event, queue'[k].value)
    BY <1>1, <1>3, <1>5, <2>1 DEF QueueOrdered
  <2>4. ASSUME NEW j \in DOMAIN queue', NEW k \in DOMAIN queue', j < k
        PROVE  Before(queue'[j].value, queue'[k].value)
    <3>1. j + 1 \in DOMAIN queue /\ k + 1 \in DOMAIN queue /\ j + 1 < k + 1
      BY <1>5, <2>4
    <3>2. QED BY <1>3, <2>1, <3>1 DEF QueueOrdered
  <2>5. QED BY <2>2, <2>3, <2>4 DEF QueueOrdered
<1>11. Below(next_seq, last_ts + 1)'
  <2>1. PICK s, t : s = next_seq /\ t = last_ts + 1
    OBVIOUS
  <2>2. Below(s, t)'
    BY <1>7, <2>1, Zenon DEF InOrder
  <2>3. s = next_seq' /\ t = last_ts' + 1
    BY <1>1, <2>1
  <2>4. QED BY <2>2, <2>3, Zenon DEF Below
<1>12. ProducersOrdered'
  <2>1. ProducersOrdered
    BY DEF InOrder
  <2>2. ASSUME NEW q \in Producers, Numbered(q)'
        PROVE  /\ producers'[q].event.seq < next_seq'
               /\ Below(producers[q].event.seq, last_ts + 1)'
    <3>1. Numbered(q)
      BY <1>1, <2>2 DEF Numbered
    <3>2. PICK s, t : s = producers[q].event.seq /\ t = last_ts + 1
      OBVIOUS
    <3>3. s < next_seq /\ Below(s, t)'
      BY <1>7, <2>1, <3>1, <3>2, Zenon DEF ProducersOrdered
    <3>4. s = producers'[q].event.seq /\ t = last_ts' + 1
      BY <1>1, <3>2
    <3>5. Below(producers[q].event.seq, last_ts + 1)'
      BY <3>3, <3>4, Zenon DEF Below
    <3>6. QED BY <1>1, <3>3, <3>4, <3>5
  <2>3. ASSUME NEW q \in Producers, producers'[q].pc = "stamped"
        PROVE  /\ producers'[q].event.ts <= last_ts'
               /\ Below(producers[q].event.seq, producers[q].event.ts)'
    <3>1. producers[q].pc = "stamped"
      BY <1>1, <2>3
    <3>2. PICK s, t : s = producers[q].event.seq /\ t = producers[q].event.ts
      OBVIOUS
    <3>3. t <= last_ts /\ Below(s, t)'
      BY <1>7, <2>1, <3>1, <3>2, Zenon DEF ProducersOrdered
    <3>4. s = producers'[q].event.seq /\ t = producers'[q].event.ts
      BY <1>1, <3>2
    <3>5. Below(producers[q].event.seq, producers[q].event.ts)'
      BY <3>3, <3>4, Zenon DEF Below
    <3>6. QED BY <1>1, <3>3, <3>4, <3>5
  <2>4. QED BY <2>2, <2>3 DEF ProducersOrdered
<1>13. AnnouncedInOrder'
  <2>1. AnnouncedInOrder
    BY DEF InOrder
  <2>2. \A k \in DOMAIN queue' : written_seq < queue'[k].value.seq
    BY <1>3, <1>5, <2>1 DEF AnnouncedInOrder
  <2>3. written_seq < writer'.event.seq
    BY <1>1, <2>1 DEF AnnouncedInOrder
  <2>4. \A q \in Producers : Numbered(q)' => Numbered(q)
    BY <1>1 DEF Numbered
  <2>5. QED BY <1>1, <2>1, <2>2, <2>3, <2>4 DEF AnnouncedInOrder
<1>14. QED BY <1>8, <1>9, <1>10, <1>11, <1>12, <1>13 DEF InOrder

LEMMA OrderedTexts ==
    ASSUME NEW f \in Files, NEW e \in Events, NEW n \in 0 .. Len(f) + 2, NEW b, Ordered(f, b),
           \A j \in Lasting(f, b) : Before(f[j], e)
    PROVE  Ordered(SubSeq(f \o <<e, Break>>, 1, n), b)
<1> DEFINE g == SubSeq(f \o <<e, Break>>, 1, n)
<1>1. /\ Lasting(f, b) \subseteq 1 .. Len(f) /\ Len(f) \in Nat
      /\ \A i \in Lasting(g, b) : \/ i \in Lasting(f, b) /\ g[i] = f[i]
                                  \/ i = Len(f) + 1 /\ g[i] = e
  <2>1. Continued(g, f, e, n, b)
    BY Texts
  <2> HIDE DEF g
  <2>2. QED BY <2>1 DEF Continued
<1> HIDE DEF g
<1>2. ASSUME NEW j \in Lasting(g, b), NEW k \in Lasting(g, b), j < k PROVE Before(g[j], g[k])
  <2>1. j \in Lasting(f, b) /\ g[j] = f[j]
    <3>1. ASSUME j = Len(f) + 1 PROVE FALSE
      <4>1. k \in 1 .. Len(f) \/ k = Len(f) + 1
        BY <1>1
      <4>2. QED BY <1>1, <1>2, <3>1, <4>1
    <3>2. QED BY <1>1, <3>1
  <2>2. QED BY <1>1, <1>2, <2>1 DEF Ordered
<1>3. QED BY <1>2 DEF Ordered, g

LEMMA OrderWrite ==
    ASSUME LossInv, InOrder, Write
    PROVE  InOrder'
<1>1. /\ Types /\ Busy /\ writer.event \in Events /\ file \in Files /\ Len(file) \in Nat
      /\ Ordered(file, base) /\ \A j \in Lasting(file, base) : Before(file[j], writer.event)
  BY LossTypes DEF LossInv, Write, Busy, EventsOK, InOrder, WriterOrdered
<1>2. /\ writer' = [writer EXCEPT !.pc = "written"] /\ file' = file \o <<writer.event, Break>>
      /\ UNCHANGED <<next_seq, last_ts, written_seq, producers, queue, base, spoiled>>
  BY Zenon DEF Write, counters, history
<1>3. WriterTurns("written")
  BY <1>1, <1>2, WriterTurnsTo
<1>4. PICK n \in 0 .. Len(file) + 2 : n = Len(file) + 2
  BY <1>1
<1>5. PICK e \in Events : e = writer.event
  BY <1>1
<1>6. file' = SubSeq(file \o <<e, Break>>, 1, n)
  BY <1>1, <1>2, <1>4, <1>5, PartsOfText
<1>7. \A i \in Lasting(file', base') : \/ i \in Lasting(file, base) /\ file'[i] = file[i]
                                       \/ i = Len(file) + 1 /\ file'[i] = e
  <2>1. \A i \in Lasting(file', base) : \/ i \in Lasting(file, base) /\ file'[i] = file[i]
                                        \/ i = Len(file) + 1 /\ file'[i] = e
    <3>1. Continued(file', file, e, n, base)
      BY <1>1, <1>6, Texts
    <3>2. QED BY <3>1 DEF Continued
  <2>2. QED BY <1>2, <2>1
<1>8. writer'.pc = "written" /\ writer'.event = e /\ ~Busy'
  BY <1>3, <1>5 DEF WriterTurns, Busy
<1>9. ASSUME NEW s, NEW t, Below(s, t) PROVE Below(s, t)'
  <2>1. e.seq < s /\ e.ts < t
    BY <1>1, <1>5, <1>9 DEF Below
  <2>2. \A i \in Lasting(file', base') : file'[i].seq < s /\ file'[i].ts < t
    BY <1>7, <1>9, <2>1 DEF Below
  <2>3. QED BY <1>2, <1>8, <1>9, <2>1, <2>2 DEF Below
<1>10. OneAppends' /\ WriterOrdered'
  BY <1>2, <1>8, Zenon DEF InOrder, OneAppends, WriterOrdered, Appending
<1>11. Ordered(file', base')
  BY <1>1, <1>2, <1>5, <1>6, OrderedTexts
<1>12. QueueOrdered'
  <2>1. QueueOrdered /\ \A k \in DOMAIN queue : Before(e, queue[k].value)
    BY <1>1, <1>5 DEF InOrder, QueueOrdered
  <2>2. \A j \in Lasting(file', base'), k \in DOMAIN queue' : Before(file'[j], queue'[k].value)
    BY <1>2, <1>7, <2>1 DEF QueueOrdered
  <2>3. QED BY <1>2, <1>8, <2>1, <2>2 DEF QueueOrdered
<1>13. Below(next_seq, last_ts + 1)'
  <2>1. PICK s, t : s = next_seq /\ t = last_ts + 1
    OBVIOUS
  <2>2. Below(s, t)'
    BY <1>9, <2>1, Zenon DEF InOrder
  <2>3. s = next_seq' /\ t = last_ts' + 1
    BY <1>2, <2>1
  <2>4. QED BY <2>2, <2>3, Zenon DEF Below
<1>14. ProducersOrdered'
  <2>1. ProducersOrdered
    BY DEF InOrder
  <2>2. ASSUME NEW q \in Producers, Numbered(q)'
        PROVE  /\ producers'[q].event.seq < next_seq'
               /\ Below(producers[q].event.seq, last_ts + 1)'
    <3>1. Numbered(q)
      BY <1>2, <2>2 DEF Numbered
    <3>2. PICK s, t : s = producers[q].event.seq /\ t = last_ts + 1
      OBVIOUS
    <3>3. s < next_seq /\ Below(s, t)'
      BY <1>9, <2>1, <3>1, <3>2, Zenon DEF ProducersOrdered
    <3>4. s = producers'[q].event.seq /\ t = last_ts' + 1
      BY <1>2, <3>2
    <3>5. Below(producers[q].event.seq, last_ts + 1)'
      BY <3>3, <3>4, Zenon DEF Below
    <3>6. QED BY <1>2, <3>3, <3>4, <3>5
  <2>3. ASSUME NEW q \in Producers, producers'[q].pc = "stamped"
        PROVE  /\ producers'[q].event.ts <= last_ts'
               /\ Below(producers[q].event.seq, producers[q].event.ts)'
    <3>1. producers[q].pc = "stamped"
      BY <1>2, <2>3
    <3>2. PICK s, t : s = producers[q].event.seq /\ t = producers[q].event.ts
      OBVIOUS
    <3>3. t <= last_ts /\ Below(s, t)'
      BY <1>9, <2>1, <3>1, <3>2, Zenon DEF ProducersOrdered
    <3>4. s = producers'[q].event.seq /\ t = producers'[q].event.ts
      BY <1>2, <3>2
    <3>5. Below(producers[q].event.seq, producers[q].event.ts)'
      BY <3>3, <3>4, Zenon DEF Below
    <3>6. QED BY <1>2, <3>3, <3>4, <3>5
  <2>4. QED BY <2>2, <2>3 DEF ProducersOrdered
<1>15. AnnouncedInOrder'
  <2>1. AnnouncedInOrder /\ written_seq < e.seq
    BY <1>1, <1>5 DEF InOrder, AnnouncedInOrder
  <2>2. \A q \in Producers : Numbered(q)' => Numbered(q)
    BY <1>2 DEF Numbered
  <2>3. QED BY <1>2, <1>8, <2>1, <2>2 DEF AnnouncedInOrder
<1>16. QED BY <1>10, <1>11, <1>12, <1>13, <1>14, <1>15 DEF InOrder

LEMMA OrderAnnounce ==
    ASSUME LossInv, InOrder, Announce
    PROVE  InOrder'
<1>1. Types /\ writer.pc = "written"
  BY DEF LossInv, Announce
<1>2. /\ writer' = [writer EXCEPT !.pc = "idle"] /\ written_seq' = writer.event.seq
      /\ UNCHANGED <<next_seq, last_ts, producers, queue, file, base, spoiled>>
  BY Zenon DEF Announce, counters, disk, history
<1>3. writer'.pc = "idle" /\ ~Busy'
  BY <1>1, <1>2, WriterTurnsTo DEF WriterTurns, Busy
<1>4. ASSUME NEW s, NEW t, Below(s, t) PROVE Below(s, t)'
  BY <1>2, <1>3, <1>4 DEF Below
<1>5. OneAppends' /\ WriterOrdered' /\ Ordered(file', base')
  BY <1>2, <1>3, Zenon DEF InOrder, OneAppends, WriterOrdered, Appending, Ordered
<1>6. QueueOrdered'
  BY <1>2, <1>3 DEF InOrder, QueueOrdered
<1>7. Below(next_seq, last_ts + 1)'
  <2>1. Below(next_seq, last_ts + 1)
    BY DEF InOrder
  <2>2. QED BY <1>2, <1>3, <2>1 DEF Below
<1>8. ProducersOrdered'
  <2>1. ProducersOrdered
    BY DEF InOrder
  <2>2. ASSUME NEW q \in Producers, Numbered(q)'
        PROVE  /\ producers'[q].event.seq < next_seq'
               /\ Below(producers[q].event.seq, last_ts + 1)'
    <3>1. producers[q].event.seq < next_seq /\ Below(producers[q].event.seq, last_ts + 1)
      BY <1>2, <2>1, <2>2 DEF ProducersOrdered, Numbered
    <3>2. QED BY <1>2, <1>3, <3>1 DEF Below
  <2>3. ASSUME NEW q \in Producers, producers'[q].pc = "stamped"
        PROVE  /\ producers'[q].event.ts <= last_ts'
               /\ Below(producers[q].event.seq, producers[q].event.ts)'
    <3>1. producers[q].event.ts <= last_ts /\ Below(producers[q].event.seq, producers[q].event.ts)
      BY <1>2, <2>1, <2>3 DEF ProducersOrdered
    <3>2. QED BY <1>2, <1>3, <3>1 DEF Below
  <2>4. QED BY <2>2, <2>3 DEF ProducersOrdered
<1>9. AnnouncedInOrder'
  <2>1. AnnouncedInOrder /\ QueueOrdered /\ Below(next_seq, last_ts + 1) /\ ProducersOrdered
    BY DEF InOrder
  <2>2. \A k \in DOMAIN queue' : written_seq' < queue'[k].value.seq
    BY <1>1, <1>2, <2>1 DEF QueueOrdered, Before
  <2>3. written_seq' < next_seq'
    BY <1>1, <1>2, <2>1 DEF Below
  <2>4. \A q \in Producers : Numbered(q)' => written_seq' < producers'[q].event.seq
    BY <1>1, <1>2, <2>1 DEF ProducersOrdered, Below, Numbered
  <2>5. QED BY <1>2, <1>3, <2>1, <2>2, <2>3, <2>4 DEF AnnouncedInOrder
<1>10. QED BY <1>5, <1>6, <1>7, <1>8, <1>9 DEF InOrder

LEMMA OrderExit ==
    ASSUME LossInv, InOrder, Exit
    PROVE  InOrder'
<1>1. Types /\ writer.pc = "idle"
  BY DEF LossInv, Exit
<1>2. /\ writer' = [writer EXCEPT !.pc = "gone"]
      /\ UNCHANGED <<next_seq, last_ts, written_seq, producers, queue, file, base, spoiled>>
  BY Zenon DEF Exit, counters, history
<1>3. writer'.pc = "gone" /\ ~Busy' /\ ~Busy
  BY <1>1, <1>2, WriterTurnsTo DEF WriterTurns, Busy
<1>4. OneAppends' /\ WriterOrdered' /\ Ordered(file', base')
  BY <1>2, <1>3, Zenon DEF InOrder, OneAppends, WriterOrdered, Appending, Ordered
<1>5. QueueOrdered'
  BY <1>2, <1>3 DEF InOrder, QueueOrdered
<1>6. \A s, t : Below(s, t)' <=> Below(s, t)
  BY <1>1, <1>2, <1>3 DEF Below
<1>7. Below(next_seq, last_ts + 1)'
  BY <1>2, <1>6 DEF InOrder, Below
<1>8. ProducersOrdered'
  BY <1>1, <1>2, <1>3 DEF InOrder, ProducersOrdered, Below, Numbered
<1>9. AnnouncedInOrder'
  BY <1>1, <1>2, <1>3 DEF InOrder, AnnouncedInOrder, Numbered
<1>10. QED BY <1>4, <1>5, <1>7, <1>8, <1>9 DEF InOrder

LEMMA OrderFlushBegin ==
    ASSUME LossInv, InOrder, NEW final \in BOOLEAN, FlushBegin(final)
    PROVE  InOrder'
<1>1. UNCHANGED <<next_seq, last_ts, written_seq, producers, queue, writer, file, base, spoiled>>
  BY Zenon DEF FlushBegin, counters, disk, history
<1>2. QED BY <1>1, OrderStays

\* When a flush ends, everything that was handed in is announced.
LEMMA FlushWaited ==
    ASSUME LossInv, InOrder, FlushEnd
    PROVE  /\ next_seq <= 1 \/ next_seq - 1 <= written_seq
           /\ ~Busy /\ queue = <<>>
<1>1. Types /\ QueueOK
  BY LossTypes DEF LossInv
<1>2. flush.pc = "waiting" /\ (flush.target <= 1 \/ written_seq >= flush.target - 1)
  BY <1>1, FlushEndIs
<1>3. flush.target = next_seq
  BY <1>2 DEF LossInv, FlushOK
<1>4. next_seq \in Nat /\ written_seq \in Nat
  BY OrderTypes
<1>5. next_seq <= 1 \/ next_seq - 1 <= written_seq
  BY <1>2, <1>3, <1>4
<1>6. \A n \in Nat : ~(written_seq < n /\ n < next_seq)
  BY <1>4, <1>5
<1>7. ~Busy
  <2>1. writer.event.seq \in Nat
    BY OrderTypes
  <2>2. Busy => written_seq < writer.event.seq /\ writer.event.seq < next_seq
    BY DEF InOrder, AnnouncedInOrder, Below
  <2>3. QED BY <1>6, <2>1, <2>2
<1>8. queue = <<>>
  <2>1. \A k \in DOMAIN queue : queue[k].value.seq \in Nat
    BY OrderTypes
  <2>2. \A k \in DOMAIN queue : written_seq < queue[k].value.seq /\ queue[k].value.seq < next_seq
    BY DEF InOrder, AnnouncedInOrder, Below
  <2>3. DOMAIN queue = {}
    BY <1>6, <2>1, <2>2
  <2>4. QED BY <1>1, <2>3 DEF QueueOK
<1>9. QED BY <1>5, <1>7, <1>8

LEMMA OrderFlushEnd ==
    ASSUME LossInv, InOrder, FlushEnd
    PROVE  InOrder'
<1>1. Types
  BY DEF LossInv
<1>2. /\ writer' \in WriterStates /\ writer \in WriterStates /\ writer'.event = writer.event
      /\ writer'.pc = IF writer.pc = "writing" THEN "raced" ELSE writer.pc
      /\ UNCHANGED <<next_seq, last_ts, written_seq, producers, queue, file, base, spoiled>>
  BY <1>1, FlushEndIs, LossTypes
<1>3. writer.pc # "writing"
  BY FlushWaited DEF Busy
<1>4. writer' = writer
  <2>1. writer'.pc = writer.pc
    BY <1>2, <1>3
  <2>2. writer = [pc |-> writer.pc, event |-> writer.event]
        /\ writer' = [pc |-> writer'.pc, event |-> writer'.event]
    BY <1>2 DEF WriterStates
  <2>3. QED BY <1>2, <2>1, <2>2
<1>5. QED BY <1>2, <1>4, OrderStays

LEMMA OrderOpened ==
    ASSUME overlapped \in BOOLEAN, NEW f \in Files, Ordered(f, Len(f)), Opened(f)
    PROVE  InOrder'
<1>1. /\ file' = f /\ base' = Len(f) /\ next_seq' = LastSeq(f) + 1 /\ last_ts' = LastStamp(f)
      /\ written_seq' = 0 /\ queue' = <<>> /\ writer'.pc = "idle" /\ spoiled' = {}
      /\ \A p \in Producers : producers'[p].pc = "idle"
  BY OpenedIs
<1>2. /\ LastSeq(f) \in 0 .. MaxEvents /\ LastStamp(f) \in Nat
      /\ \A k \in Lasting(f, Len(f)) : f[k].seq <= LastSeq(f) /\ f[k].ts <= LastStamp(f)
      /\ \A k \in Lasting(f, Len(f)) : f[k].seq \in Nat /\ f[k].ts \in Nat
  <2>1. /\ LastSeq(f) \in 0 .. MaxEvents /\ LastStamp(f) \in Nat
        /\ \A k \in Intact(f) : f[k].seq <= LastSeq(f) /\ f[k].ts <= LastStamp(f)
    BY LastIs
  <2>2. \A k \in Lasting(f, Len(f)) : f[k].seq \in Nat /\ f[k].ts \in Nat
    BY Lastings, JournalAssumption
  <2>3. Lasting(f, Len(f)) = Intact(f)
    BY IntactLasts
  <2>4. QED BY <2>1, <2>2, <2>3
<1>3. DOMAIN queue' = {} /\ ~Busy'
  BY <1>1 DEF Busy
<1>4. \A p \in Producers : ~Appending(p)' /\ ~Numbered(p)' /\ producers'[p].pc # "stamped"
  BY <1>1 DEF Appending, Numbered
<1>5. OneAppends' /\ ProducersOrdered'
  BY <1>4 DEF OneAppends, ProducersOrdered
<1>6. Ordered(file', base') /\ WriterOrdered' /\ QueueOrdered'
  BY <1>1, <1>3 DEF WriterOrdered, QueueOrdered
<1>7. Below(next_seq, last_ts + 1)'
  <2>1. \A k \in Lasting(f, Len(f)) : f[k].seq < LastSeq(f) + 1 /\ f[k].ts < LastStamp(f) + 1
    BY <1>2
  <2>2. QED BY <1>1, <1>3, <2>1 DEF Below
<1>8. AnnouncedInOrder'
  <2>1. written_seq' < next_seq'
    BY <1>1, <1>2
  <2>2. QED BY <1>1, <1>3, <1>4, <2>1 DEF AnnouncedInOrder
<1>9. QED BY <1>5, <1>6, <1>7, <1>8 DEF InOrder

LEMMA OrderedParts ==
    ASSUME NEW f \in Files, NEW n \in 0 .. Len(f), NEW b, Ordered(f, b)
    PROVE  Ordered(SubSeq(f, 1, n), b)
<1> DEFINE g == SubSeq(f, 1, n)
<1>1. (\A k \in 1 .. n : g[k] = f[k]) /\ Lasting(g, b) = Lasting(f, b) \cap 1 .. n
  BY CutOff
<1> HIDE DEF g
<1>2. Ordered(g, b)
  BY <1>1 DEF Ordered
<1>3. QED BY <1>2 DEF g

LEMMA OrderCrash ==
    ASSUME LossInv, InOrder, NEW kept, Crash(kept)
    PROVE  InOrder'
<1>1. PICK f \in Files, g \in Files, n \in Nat :
        /\ Opened(f)
        /\ \A k \in Intact(f) : f[k] = g[k] /\ k \in Lasting(g, base)
        /\ \/ n \in 0 .. Len(file) /\ g = SubSeq(file, 1, n)
           \/ Busy /\ n \in 0 .. Len(file) + 2 /\ g = SubSeq(file \o <<writer.event, Break>>, 1, n)
  BY CrashLeaves
<1>2. overlapped \in BOOLEAN /\ file \in Files /\ Ordered(file, base)
  BY LossTypes DEF LossInv, Types, InOrder
<1>3. Ordered(g, base)
  <2>1. CASE n \in 0 .. Len(file) /\ g = SubSeq(file, 1, n)
    BY <1>2, <2>1, OrderedParts
  <2>2. CASE Busy /\ n \in 0 .. Len(file) + 2 /\ g = SubSeq(file \o <<writer.event, Break>>, 1, n)
    <3>1. writer.event \in Events /\ \A j \in Lasting(file, base) : Before(file[j], writer.event)
      BY <2>2 DEF LossInv, EventsOK, InOrder, WriterOrdered
    <3>2. QED BY <1>2, <2>2, <3>1, OrderedTexts
  <2>3. QED BY <1>1, <2>1, <2>2
<1>4. Ordered(f, Len(f))
  BY <1>1, <1>3, IntactLasts DEF Ordered
<1>5. QED BY <1>1, <1>2, <1>4, OrderOpened

LEMMA OrderReopen ==
    ASSUME LossInv, InOrder, Reopen
    PROVE  InOrder'
<1>1. file \in Files /\ Ordered(file, base) /\ overlapped \in BOOLEAN /\ Opened(file)
  BY LossTypes DEF LossInv, Reopen, Types, InOrder
<1>2. Ordered(file, Len(file))
  BY <1>1, IntactLasts DEF Ordered
<1>3. QED BY <1>1, <1>2, OrderOpened

LEMMA OrderStutter ==
    ASSUME InOrder, UNCHANGED vars
    PROVE  InOrder'
<1>1. UNCHANGED <<next_seq, last_ts, written_seq, producers, queue, writer, file, base, spoiled>>
  BY DEF vars
<1>2. QED BY <1>1, OrderStays

\* An overlap is not forgotten, and an append that begins alone makes none.
LEMMA OverlapKept ==
    ASSUME LossInv, [Next]_vars, ~overlapped'
    PROVE  /\ ~overlapped
           /\ \A p \in Producers : TakeNumber(p) => \A q \in Producers : ~Appending(q)
<1>1. overlapped \in BOOLEAN
  BY DEF LossInv, Types
<1>2. ASSUME NEW p \in Producers, TakeNumber(p)
      PROVE  ~overlapped /\ \A q \in Producers : ~Appending(q)
  <2>1. overlapped' = (overlapped \/ \E q \in Producers : Appending(q))
    BY <1>2, Zenon DEF TakeNumber
  <2>2. QED BY <2>1, Zenon
<1>3. ASSUME \E p \in Producers : Claim(p) \/ Drop(p) \/ Fill(p) \/ \E time \in Times : Stamp(p, time)
      PROVE  ~overlapped
  <2>1. overlapped' = overlapped
    BY <1>3, Zenon DEF Claim, Drop, Fill, Stamp, history
  <2>2. QED BY <2>1, Zenon
<1>4. ASSUME Take \/ Write \/ WriteRaced \/ Announce \/ Exit \/ FlushEnd \/ UNCHANGED vars
      PROVE  ~overlapped
  <2>1. overlapped' = overlapped
    BY <1>4, Zenon DEF Take, Write, WriteRaced, Announce, Exit, FlushEnd, history, vars
  <2>2. QED BY <2>1, Zenon
<1>5. ASSUME \E final \in BOOLEAN : FlushBegin(final)
      PROVE  ~overlapped
  <2>1. overlapped' = overlapped
    BY <1>5, Zenon DEF FlushBegin, history
  <2>2. QED BY <2>1, Zenon
<1>6. ASSUME Reopen \/ \E kept \in 0 .. 2 * MaxEvents * MaxOpens : Crash(kept)
      PROVE  ~overlapped
  <2>1. \E f : Opened(f)
    BY <1>6, Zenon DEF Reopen, Crash
  <2>2. overlapped' = overlapped
    BY <2>1, Zenon DEF Opened
  <2>3. QED BY <2>2, Zenon
<1>7. ~overlapped
  BY Steps, <1>2, <1>3, <1>4, <1>5, <1>6, Zenon
<1>8. QED BY <1>2, <1>7

LEMMA OrderStep ==
    ASSUME LossInv, OrderInv, [Next]_vars
    PROVE  OrderInv'
<1>1. SUFFICES ASSUME ~overlapped' PROVE InOrder'
  BY DEF OrderInv
<1>2. InOrder /\ \A p \in Producers : TakeNumber(p) => \A q \in Producers : ~Appending(q)
  BY <1>1, OverlapKept DEF OrderInv
<1>3. CASE \E p \in Producers : TakeNumber(p)
  BY <1>2, <1>3, OrderTakeNumber
<1>4. CASE \E p \in Producers : Claim(p) \/ Drop(p) \/ Fill(p) \/ \E time \in Times : Stamp(p, time)
  BY <1>2, <1>4, OrderClaim, OrderDrop, OrderFill, OrderStamp
<1>5. CASE Take \/ Write \/ Announce \/ Exit
  BY <1>2, <1>5, OrderTake, OrderWrite, OrderAnnounce, OrderExit
<1>6. CASE WriteRaced
  BY <1>2, <1>6 DEF WriteRaced, InOrder, AnnouncedInOrder
<1>7. CASE (\E final \in BOOLEAN : FlushBegin(final)) \/ FlushEnd
  BY <1>2, <1>7, OrderFlushBegin, OrderFlushEnd
<1>8. CASE Reopen \/ (\E kept \in 0 .. 2 * MaxEvents * MaxOpens : Crash(kept)) \/ UNCHANGED vars
  BY <1>2, <1>8, OrderReopen, OrderCrash, OrderStutter
<1>9. QED BY Steps, <1>3, <1>4, <1>5, <1>6, <1>7, <1>8

LEMMA OrderInit ==
    ASSUME Init
    PROVE  InOrder
<1>1. /\ next_seq = 1 /\ last_ts = 0 /\ written_seq = 0
      /\ producers = [p \in Producers |-> Idle] /\ queue = <<>> /\ writer = Idle
      /\ file = <<>> /\ spoiled = {}
  BY Zenon DEF Init
<1>2. Idle.pc = "idle"
  BY DEF Idle
<1>3. DOMAIN queue = {} /\ Lasting(file, base) = {} /\ ~Busy /\ writer.pc = "idle"
  BY <1>1, <1>2 DEF Lasting, Busy
<1>4. \A p \in Producers : ~Appending(p) /\ ~Numbered(p) /\ producers[p].pc # "stamped"
  BY <1>1, <1>2 DEF Appending, Numbered
<1>5. OneAppends /\ ProducersOrdered /\ WriterOrdered /\ QueueOrdered /\ Ordered(file, base)
  BY <1>3, <1>4 DEF OneAppends, ProducersOrdered, WriterOrdered, QueueOrdered, Ordered
<1>6. Below(next_seq, last_ts + 1)
  BY <1>3 DEF Below
<1>7. AnnouncedInOrder
  <2>1. written_seq < next_seq
    BY <1>1
  <2>2. QED BY <1>1, <1>3, <1>4, <2>1 DEF AnnouncedInOrder
<1>8. QED BY <1>5, <1>6, <1>7 DEF InOrder

-----------------------------------------------------------------------------
(* The process ends every line that it begins                              *)

LEMMA StandSame ==
    ASSUME LossInv, LinesStand, UNCHANGED <<file, base>>, flushed' \in {flushed, Len(file)},
           ~overlapped' => ~overlapped
    PROVE  LinesStand'
<1>1. base <= Len(file) /\ base <= flushed
  BY LossTypes DEF LossInv, Types, LinesStand
<1>2. base' <= flushed'
  BY <1>1
<1>3. Breaks' <=> Breaks
  BY DEF Breaks
<1>4. QED BY <1>2, <1>3 DEF LinesStand

LEMMA StandOpened ==
    ASSUME overlapped \in BOOLEAN, NEW f \in Files, Opened(f)
    PROVE  LinesStand'
<1>1. base' = Len(f) /\ flushed' = Len(f) /\ file' = f /\ Len(f) \in Nat
  BY OpenedIs DEF Files
<1>2. base' <= flushed' /\ base' + 1 .. Len(file') = {}
  BY <1>1
<1>3. Breaks'
  BY <1>1, <1>2 DEF Breaks
<1>4. QED BY <1>2, <1>3 DEF LinesStand

\* An event is written with a line break, or in a data race perhaps without.
LEMMA StandWrite ==
    ASSUME LossInv, LinesStand, OrderInv, Write \/ WriteRaced, ~overlapped' => ~overlapped
    PROVE  LinesStand'
<1>1. /\ file \in Files /\ Len(file) \in Nat /\ base \in 0 .. Len(file)
      /\ base <= flushed /\ \A k \in base + 1 .. Len(file) : file[k] \in Events \cup {Break}
      /\ writer.event \in Events
  BY LossTypes DEF LossInv, Types, LinesStand, EventsOK, Busy, Write, WriteRaced
<1>2. /\ base' = base /\ flushed' = flushed
      /\ \/ file' = file \o <<writer.event, Break>>
         \/ file' = Append(file, writer.event)
         \/ file' = file
  BY Zenon DEF Write, WriteRaced, history
<1>3. \A k \in base' + 1 .. Len(file') : file'[k] \in Events \cup {Break}
  <2>1. CASE file' = file
    BY <1>1, <1>2, <2>1
  <2>2. ASSUME NEW n \in Len(file) + 1 .. Len(file) + 2,
               file' = SubSeq(file \o <<writer.event, Break>>, 1, n)
        PROVE  \A k \in base' + 1 .. Len(file') : file'[k] \in Events \cup {Break}
    <3>1. /\ Len(file') = n /\ \A k \in 1 .. n : k <= Len(file) => file'[k] = file[k]
          /\ file'[Len(file) + 1] = writer.event
          /\ n > Len(file) + 1 => file'[Len(file) + 2] = Break
      <4>1. n \in 0 .. Len(file) + 2 /\ n > Len(file)
        BY <1>1
      <4>2. Continued(file', file, writer.event, n, base)
        BY <1>1, <2>2, <4>1, Texts
      <4>3. QED BY <4>1, <4>2 DEF Continued
    <3>2. ASSUME NEW k \in base + 1 .. n PROVE file'[k] \in Events \cup {Break}
      <4>1. CASE k <= Len(file)
        BY <1>1, <3>1, <4>1
      <4>2. CASE k = Len(file) + 1
        BY <1>1, <3>1, <4>2
      <4>3. CASE k = Len(file) + 2
        BY <1>1, <3>1, <4>3
      <4>4. QED BY <1>1, <4>1, <4>2, <4>3
    <3>3. QED BY <1>2, <3>1, <3>2
  <2>3. PICK n, m \in Len(file) + 1 .. Len(file) + 2 : m = Len(file) + 1 /\ n = Len(file) + 2
    BY <1>1
  <2>4. \/ file' = SubSeq(file \o <<writer.event, Break>>, 1, n)
        \/ file' = SubSeq(file \o <<writer.event, Break>>, 1, m)
        \/ file' = file
    BY <1>1, <1>2, <2>3, PartsOfText
  <2>5. QED BY <2>1, <2>2, <2>4
<1>4. ASSUME ~overlapped' PROVE Breaks'
  <2>1. Breaks /\ writer.pc # "raced"
    BY <1>4 DEF LinesStand, OrderInv, InOrder, AnnouncedInOrder
  <2>2. file' = file \o <<writer.event, Break>>
    BY <2>1, Zenon DEF Write, WriteRaced
  <2>3. PICK n \in 0 .. Len(file) + 2 : n = Len(file) + 2
    BY <1>1
  <2>4. file' = SubSeq(file \o <<writer.event, Break>>, 1, n)
    BY <1>1, <2>2, <2>3, PartsOfText
  <2>5. /\ Len(file') = Len(file) + 2 /\ \A k \in 1 .. Len(file) : file'[k] = file[k]
        /\ file'[Len(file) + 2] = Break
    <3>1. n > Len(file) /\ n > Len(file) + 1
      BY <1>1, <2>3
    <3>2. /\ Len(file') = n /\ \A k \in 1 .. n : k <= Len(file) => file'[k] = file[k]
          /\ file'[Len(file) + 2] = Break
      <4>1. Continued(file', file, writer.event, n, base)
        BY <1>1, <2>4, Texts
      <4>2. QED BY <3>1, <4>1 DEF Continued
    <3>3. QED BY <1>1, <2>3, <3>2
  <2>6. ASSUME NEW k \in base + 1 .. Len(file) + 2
        PROVE  file'[k] = Break \/ k = base + 1 \/ file'[k - 1] = Break
    <3>1. CASE k <= Len(file)
      <4>1. CASE k = base + 1
        BY <4>1
      <4>2. CASE k # base + 1
        <5>1. k \in 1 .. Len(file) /\ k - 1 \in 1 .. Len(file) /\ k \in base + 1 .. Len(file)
          BY <1>1, <3>1, <4>2
        <5>2. file'[k] = file[k] /\ file'[k - 1] = file[k - 1]
          BY <2>5, <5>1
        <5>3. QED BY <2>1, <4>2, <5>1, <5>2 DEF Breaks
      <4>3. QED BY <4>1, <4>2
    <3>2. CASE k = Len(file) + 1
      <4>1. CASE Len(file) = base
        BY <3>2, <4>1
      <4>2. CASE Len(file) # base
        <5>1. Len(file) \in 1 .. Len(file) /\ k - 1 = Len(file)
          BY <1>1, <3>2, <4>2
        <5>2. QED BY <2>1, <2>5, <4>2, <5>1 DEF Breaks
      <4>3. QED BY <4>1, <4>2
    <3>3. CASE k = Len(file) + 2
      BY <2>5, <3>3
    <3>4. QED BY <1>1, <3>1, <3>2, <3>3
  <2>7. QED BY <1>2, <2>5, <2>6 DEF Breaks
<1>5. QED BY <1>1, <1>2, <1>3, <1>4 DEF LinesStand

LEMMA StandStep ==
    ASSUME LossInv, LinesStand, OrderInv, [Next]_vars
    PROVE  LinesStand'
<1>1. /\ ~overlapped' => ~overlapped
      /\ Types /\ overlapped \in BOOLEAN /\ file \in Files
  BY OverlapKept, LossTypes DEF LossInv, Types
<1>2. CASE \E p \in Producers : \/ TakeNumber(p) \/ Claim(p) \/ Drop(p) \/ Fill(p)
                                \/ \E time \in Times : Stamp(p, time)
  <2>1. UNCHANGED <<file, base, flushed>>
    BY <1>2, Zenon DEF TakeNumber, Claim, Drop, Fill, Stamp, disk, history
  <2>2. QED BY <1>1, <2>1, StandSame
<1>3. CASE Take \/ Announce \/ Exit \/ FlushEnd \/ UNCHANGED vars
  <2>1. UNCHANGED <<file, base>> /\ (flushed' = flushed \/ flushed' = Len(file))
    BY <1>3, Zenon DEF Take, Announce, Exit, FlushEnd, disk, history, vars
  <2>2. QED BY <1>1, <2>1, StandSame
<1>4. CASE \E final \in BOOLEAN : FlushBegin(final)
  <2>1. UNCHANGED <<file, base, flushed>>
    BY <1>4, Zenon DEF FlushBegin, disk, history
  <2>2. QED BY <1>1, <2>1, StandSame
<1>5. CASE Write \/ WriteRaced
  BY <1>1, <1>5, StandWrite
<1>6. CASE Reopen
  BY <1>1, <1>6, StandOpened DEF Reopen
<1>7. CASE \E kept \in 0 .. 2 * MaxEvents * MaxOpens : Crash(kept)
  <2>1. PICK f \in Files : Opened(f)
    BY <1>7, CrashLeaves
  <2>2. QED BY <1>1, <2>1, StandOpened
<1>8. QED BY Steps, <1>2, <1>3, <1>4, <1>5, <1>6, <1>7

LEMMA StandInit ==
    ASSUME Init
    PROVE  LinesStand
<1>1. file = <<>> /\ flushed = 0 /\ base = 0 /\ Len(file) = 0
  <2>1. file = <<>> /\ flushed = 0 /\ base = 0
    BY Zenon DEF Init
  <2>2. QED BY <2>1
<1>2. base + 1 .. Len(file) = {}
  BY <1>1
<1>3. QED BY <1>1, <1>2 DEF LinesStand, Breaks

-----------------------------------------------------------------------------
(* The file can be replayed                                                *)

\* The texts of a line come before the next lines.
LEMMA LinesDisjoint ==
    ASSUME NEW f \in Files, NEW i \in Lines(f), NEW p \in Lines(f), i < p, NEW j \in TextsOf(f, i)
    PROVE  j < p
<1>1. i \in 1 .. Len(f) /\ p \in 1 .. Len(f) /\ j \in i .. Len(f) /\ Len(f) \in Nat
  BY IntactLasts DEF TextsOf, Files
<1>2. p # 1
  BY <1>1
<1>3. f[p - 1] = Break
  BY <1>2 DEF Lines
<1>4. \A x \in i .. j : f[x] # Break
  BY DEF TextsOf
<1>5. p - 1 \notin i .. j
  BY <1>3, <1>4
<1>6. QED BY <1>1, <1>5

\* A larger number than those that the process found was written by it.
LEMMA NewlyRead ==
    ASSUME LossInv, NEW k \in Lines(file), Found < Reads(file, k, "seq")
    PROVE  \E j \in TextsOf(file, k) : /\ j \in base + 1 .. Len(file) /\ file[j] # Break
                                       /\ file[j].seq = Reads(file, k, "seq")
<1> DEFINE having == {j \in TextsOf(file, k) : file[j]["seq"] # Absent}
           g == SubSeq(file, 1, base)
           early == {j \in TextsOf(g, k) : g[j]["seq"] # Absent}
<1>1. /\ file \in Files /\ Len(file) \in Nat /\ base \in 0 .. Len(file) /\ k \in 1 .. Len(file)
      /\ Found = LastSeq(g)
  BY LossTypes, IntactLasts DEF LossInv, Types, Found
<1>2. g \in Files /\ Len(g) = base /\ \A x \in 1 .. base : g[x] = file[x]
  BY <1>1, CutOff
<1>3. Found \in Nat
  BY <1>1, <1>2, LastIs, JournalAssumption
<1> HIDE DEF g
<1>4. /\ TextsOf(file, k) \subseteq k .. Len(file)
      /\ having = {} => Reads(file, k, "seq") = 0
      /\ having # {} => /\ Min(having) \in having /\ \A j \in having : Min(having) <= j
                        /\ Reads(file, k, "seq") = file[Min(having)]["seq"]
  BY <1>1, ReadIs
<1>5. having # {}
  <2> HIDE DEF having
  <2>1. QED BY <1>3, <1>4
<1>6. PICK j : j = Min(having)
  OBVIOUS
<1>7. /\ j \in TextsOf(file, k) /\ file[j]["seq"] # Absent /\ Reads(file, k, "seq") = file[j].seq
      /\ \A i \in TextsOf(file, k) : file[i]["seq"] # Absent => j <= i
  BY <1>4, <1>5, <1>6
<1>8. j \in k .. Len(file) /\ \A i \in k .. j : file[i] # Break
  BY <1>7 DEF TextsOf
<1> HIDE DEF having
<1>9. ASSUME j <= base PROVE FALSE
  <2>1. k \in 1 .. base /\ j \in 1 .. base /\ DOMAIN g = 1 .. base /\ DOMAIN file = 1 .. Len(file)
    <3>1. DOMAIN g = 1 .. base
      BY <1>2 DEF Files
    <3>2. DOMAIN file = 1 .. Len(file)
      BY <1>1 DEF Files
    <3>3. QED BY <1>1, <1>8, <1>9, <3>1, <3>2
  <2>2. k \in Lines(g)
    <3>1. k # 1 => k - 1 \in 1 .. base
      BY <1>1, <2>1
    <3>2. k \in DOMAIN file /\ file[k] # Break /\ (k = 1 \/ file[k - 1] = Break)
      BY DEF Lines
    <3>3. k = 1 \/ g[k - 1] = Break
      BY <1>2, <3>1, <3>2
    <3>4. QED BY <1>2, <2>1, <3>2, <3>3 DEF Lines
  <2>3. ASSUME NEW i \in k .. base
        PROVE  g[i] = file[i] /\ (i \in TextsOf(g, k) <=> i \in TextsOf(file, k))
    <3>1. i \in 1 .. base /\ i \in k .. Len(file) /\ k .. i \subseteq 1 .. base
      BY <1>1, <2>1
    <3>2. g[i] = file[i] /\ \A x \in k .. i : g[x] = file[x]
      BY <1>2, <3>1
    <3>3. QED BY <1>2, <3>1, <3>2 DEF TextsOf
  <2>4. j \in early
    BY <1>1, <1>7, <1>8, <1>9, <2>3
  <2>5. /\ TextsOf(g, k) \subseteq k .. base /\ Min(early) \in early
        /\ Min(early) <= j /\ Reads(g, k, "seq") = g[Min(early)]["seq"]
    BY <1>2, <2>2, <2>4, ReadIs
  <2>6. PICK i : i = Min(early)
    OBVIOUS
  <2>7. i \in k .. base /\ i \in TextsOf(g, k) /\ g[i]["seq"] # Absent
    BY <2>5, <2>6
  <2> HIDE DEF early
  <2>8. j <= i /\ i <= j
    BY <1>7, <2>3, <2>5, <2>6, <2>7
  <2>9. i = j
    BY <1>1, <1>8, <2>1, <2>7, <2>8
  <2>10. Reads(g, k, "seq") = Reads(file, k, "seq")
    BY <1>7, <2>3, <2>5, <2>6, <2>7, <2>9
  <2>11. Reads(g, k, "seq") <= Found /\ Reads(g, k, "seq") \in Nat
    BY <1>1, <1>2, <2>2, LastIs, ReadsNumbers, JournalAssumption
  <2>12. QED BY <1>3, <2>10, <2>11
<1>10. j \in base + 1 .. Len(file) /\ file[j] # Break
  BY <1>1, <1>8, <1>9
<1>11. QED BY <1>7, <1>10

\* A dropped number is read in no line.
LEMMA DroppedIsNotRead ==
    ASSUME LossInv, NEW s \in dropped
    PROVE  /\ s \in Nat /\ Found \in Nat /\ Found < s
           /\ \A k \in Lines(file) : Reads(file, k, "seq") # s
<1>1. Types /\ file \in Files /\ base \in 0 .. Len(file) /\ Found \in Nat
  BY LossTypes DEF LossInv
<1>2. s \notin Written /\ s \in Found + 1 .. next_seq - 1 /\ next_seq \in Nat
  BY NumbersMeet DEF LossInv, NumbersOK, Apart
<1>3. s \in Nat /\ Found < s
  BY <1>1, <1>2
<1>4. ASSUME NEW k \in Lines(file), Reads(file, k, "seq") = s PROVE FALSE
  <2>1. PICK j \in TextsOf(file, k) : /\ j \in base + 1 .. Len(file) /\ file[j] # Break
                                      /\ file[j].seq = s
    BY <1>3, <1>4, NewlyRead
  <2>2. QED BY <1>2, <2>1 DEF Written
<1>5. QED BY <1>1, <1>3, <1>4

\* Of the lines after one, one is the next.
LEMMA NextLine ==
    ASSUME NEW f \in Files, NEW i \in Lines(f), NEW y \in Lines(f), i < y
    PROVE  \E k \in Lines(f) : i < k /\ \A r \in Lines(f) : i < r => k <= r
<1> DEFINE H == {r \in Lines(f) : i < r}
<1>1. H \subseteq Nat /\ y \in H
  BY IntactLasts DEF Files
<1>2. PICK k \in H : \A r \in H : k <= r
  <2> HIDE DEF H
  <2>1. QED BY <1>1, Least
<1>3. QED BY <1>2

LEMMA GapIsThere ==
    ASSUME NEW f \in Files, NEW i \in Lines(f), NEW k \in Lines(f), i < k,
           \A r \in Lines(f) : i < r => k <= r,
           Reads(f, k, "seq") # Reads(f, i, "seq") + 1
    PROVE  Reads(f, i, "seq") + 1 \in GapPositions(f)
<1>1. Lines(f) \subseteq Nat
  BY IntactLasts DEF Files
<1>2. Lines(f) \cap i + 1 .. k - 1 = {}
  BY <1>1
<1>3. i < k /\ k > i
  BY <1>1
<1>4. QED BY <1>2, <1>3 DEF GapPositions

\* Of the lines that read the largest number below a dropped one, one is not the last:
\* replay counts the gap to the next line.
LEMMA GapIsNoticed ==
    ASSUME LossInv, LinesStand, InOrder, NEW s \in dropped,
           NEW a \in Lines(file), NEW b \in Lines(file),
           Reads(file, a, "seq") < s, s < Reads(file, b, "seq")
    PROVE  \E g \in GapPositions(file) :
             g <= s /\ g .. s \cap {Reads(file, k, "seq") : k \in Lines(file)} = {}
<1> DEFINE read == [k \in Lines(file) |-> Reads(file, k, "seq")]
           L == {k \in Lines(file) : read[k] < s}
           V == {read[k] : k \in L}
<1>1. /\ file \in Files /\ Lines(file) \subseteq 1 .. Len(file) /\ Len(file) \in Nat
      /\ base \in 0 .. Len(file)
  BY LossTypes, IntactLasts DEF LossInv, Types, Files
<1>2. /\ s \in Nat /\ Found \in Nat /\ Found < s
      /\ \A k \in Lines(file) : read[k] # s
  BY DroppedIsNotRead
<1>3. \A k \in Lines(file) : read[k] \in Nat
  BY <1>1, ReadsNumbers, JournalAssumption
<1>4. \A k \in Lines(file) : read[k] = Reads(file, k, "seq")
  OBVIOUS
<1> HIDE DEF read
<1>5. IsFiniteSet(V) /\ V \subseteq Nat /\ V # {}
  <2>1. L \subseteq 1 .. Len(file) /\ a \in L /\ IsFiniteSet(1 .. Len(file))
    <3>1. IsFiniteSet(1 .. Len(file))
      BY <1>1, FS_Interval
    <3>2. QED BY <1>1, <1>4, <3>1
  <2>2. IsFiniteSet(L)
    <3> HIDE DEF L
    <3>1. QED BY <2>1, FS_Subset
  <2> DEFINE h == [k \in L |-> read[k]]
  <2>3. h \in Surjection(L, V)
    BY DEF Surjection
  <2>4. V \subseteq Nat /\ V # {}
    BY <1>3, <2>1
  <2> HIDE DEF h, L, V
  <2>5. QED BY <2>2, <2>3, <2>4, FS_Surjection
<1>6. PICK m \in V : \A x \in V : m >= x
  <2> HIDE DEF V
  <2>1. QED BY <1>5, LargestExists
<1>7. PICK i \in Lines(file) : read[i] = m /\ m < s
  BY <1>6
<1>8. m \in Nat /\ m + 1 <= s
  BY <1>2, <1>3, <1>7
<1>9. \A k \in Lines(file) : ~(m < read[k] /\ read[k] <= s)
  <2>1. ASSUME NEW k \in Lines(file), m < read[k], read[k] <= s PROVE FALSE
    <3>1. read[k] < s
      BY <1>2, <1>3, <2>1
    <3>2. m >= read[k]
      BY <1>6, <3>1
    <3>3. QED BY <1>3, <1>8, <2>1, <3>2
  <2>2. QED BY <2>1
<1>10. b # i /\ read[b] \in Nat /\ s < read[b] /\ b \in Nat /\ i \in Nat /\ base \in Nat
  BY <1>1, <1>2, <1>3, <1>4, <1>7
<1>11. ASSUME \A r \in Lines(file) : r <= i PROVE FALSE
  <2>1. b < i
    BY <1>10, <1>11
  <2>2. Found < Reads(file, b, "seq")
    BY <1>2, <1>4, <1>10
  <2>3. PICK j \in TextsOf(file, b) : /\ j \in base + 1 .. Len(file) /\ file[j] # Break
                                      /\ file[j].seq = read[b]
    BY <1>4, <2>2, NewlyRead
  <2>4. j < i
    BY <1>1, <2>1, <2>3, LinesDisjoint
  <2>5. i \in base + 1 .. Len(file) /\ file[i] # Break /\ j \in Nat
    BY <1>1, <1>10, <2>3, <2>4 DEF Lines
  <2>6. file[i] \in Events /\ file[j] \in Events
    BY <2>3, <2>5 DEF LinesStand
  <2>7. j \in Lasting(file, base) /\ i \in Lasting(file, base)
    <3>1. j > base /\ i > base /\ DOMAIN file = 1 .. Len(file) /\ j \in 1 .. Len(file) /\ i \in 1 .. Len(file)
      BY <1>1, <1>10, <2>3, <2>5 DEF Files
    <3>2. QED BY <2>6, <3>1 DEF Lasting
  <2>8. file[j].seq < file[i].seq
    BY <2>4, <2>7 DEF InOrder, Ordered, Before
  <2>9. i \in Intact(file)
    BY <2>6 DEF Intact
  <2>10. file[i].seq = m
    BY <1>1, <1>4, <1>7, <2>9, IntactReads
  <2>11. QED BY <1>2, <1>7, <1>8, <1>10, <2>3, <2>8, <2>10
<1>12. PICK k \in Lines(file) : i < k /\ \A r \in Lines(file) : i < r => k <= r
  <2>1. PICK y \in Lines(file) : ~(y <= i)
    BY <1>11
  <2>2. y \in Nat
    BY <1>1
  <2>3. i < y
    BY <1>10, <2>1, <2>2
  <2>4. QED BY <1>1, <2>3, NextLine
<1>13. read[k] # m + 1
  BY <1>2, <1>3, <1>8, <1>9
<1>14. m + 1 \in GapPositions(file)
  <2>1. Reads(file, k, "seq") # Reads(file, i, "seq") + 1 /\ Reads(file, i, "seq") = m
    BY <1>4, <1>7, <1>13
  <2>2. QED BY <1>1, <1>12, <2>1, GapIsThere
<1>15. (m + 1) .. s \cap {Reads(file, r, "seq") : r \in Lines(file)} = {}
  <2>1. ASSUME NEW r \in Lines(file), Reads(file, r, "seq") \in (m + 1) .. s PROVE FALSE
    <3>1. read[r] \in (m + 1) .. s
      BY <1>4, <2>1
    <3>2. m < read[r] /\ read[r] <= s
      BY <1>2, <1>8, <3>1
    <3>3. QED BY <1>9, <3>2
  <2>2. QED BY <2>1
<1>16. QED BY <1>8, <1>14, <1>15

LEMMA OrderMeans ==
    ASSUME LossInv, LinesStand, OrderInv
    PROVE  FileIsReplayable
<1>1. file \in Files /\ base \in 0 .. Len(file) /\ Len(file) \in Nat
  BY LossTypes DEF LossInv, Types
<1>2. FileIncreases
  <2>1. Intact(file) \subseteq Lasting(file, base)
    BY <1>1, IntactLasts
  <2>2. QED BY <2>1 DEF FileIncreases, OrderInv, InOrder, Ordered, Before
<1>3. StreamExclusive
  BY DEF StreamExclusive, OrderInv, InOrder, AnnouncedInOrder
<1>4. DropsAreNoticed
  <2> DEFINE seqs == {Reads(file, k, "seq") : k \in Lines(file)}
  <2>1. ASSUME ~overlapped, NEW s \in dropped
        PROVE  /\ s \notin seqs
               /\ (\E x, y \in seqs : x < s /\ s < y)
                    => \E g \in GapPositions(file) : g <= s /\ g .. s \cap seqs = {}
    <3>1. s \notin seqs
      BY DroppedIsNotRead
    <3>2. InOrder
      BY <2>1 DEF OrderInv
    <3>3. ASSUME NEW x \in seqs, NEW y \in seqs, x < s, s < y
          PROVE  \E g \in GapPositions(file) : g <= s /\ g .. s \cap seqs = {}
      <4>1. PICK a, b \in Lines(file) : x = Reads(file, a, "seq") /\ y = Reads(file, b, "seq")
        OBVIOUS
      <4>2. Reads(file, a, "seq") < s /\ s < Reads(file, b, "seq")
        BY <3>3, <4>1
      <4> HIDE DEF seqs
      <4>3. QED BY <3>2, <4>2, GapIsNoticed DEF seqs
    <3>4. QED BY <3>1, <3>3
  <2>2. QED BY <2>1, Zenon DEF DropsAreNoticed
<1>5. TearCostsOne
  <2>1. ASSUME ~overlapped, NEW k \in base + 1 .. Len(file), file[k] # Break, k \notin Intact(file)
        PROVE  k = base + 1 /\ base > 0 /\ file[base] # Break
    <3>1. file[k] \in Events /\ k \in 1 .. Len(file) /\ DOMAIN file = 1 .. Len(file)
      BY <1>1, <2>1 DEF LinesStand, Files
    <3>2. k # 1 /\ file[k - 1] # Break
      BY <2>1, <3>1 DEF Intact, Lines
    <3>3. k = base + 1
      BY <2>1, <3>2 DEF LinesStand, Breaks
    <3>4. k - 1 = base /\ base > 0
      BY <1>1, <3>2, <3>3
    <3>5. QED BY <3>2, <3>3, <3>4
  <2>2. QED BY <2>1 DEF TearCostsOne
<1>6. QED BY <1>2, <1>3, <1>4, <1>5 DEF FileIsReplayable

LEMMA FlushMeans ==
    ASSUME LossInv, OrderInv
    PROVE  FlushEnd /\ ~overlapped => accepted \subseteq Written' /\ flushed' = Len(file')
<1>1. SUFFICES ASSUME FlushEnd, ~overlapped
               PROVE  accepted \subseteq Written' /\ flushed' = Len(file')
  OBVIOUS
<1>2. InOrder
  BY <1>1 DEF OrderInv
<1>3. ~Busy /\ queue = <<>>
  BY <1>1, <1>2, FlushWaited
<1>4. InQueue = {} /\ AtWriter = {} /\ spoiled = {}
  BY <1>2, <1>3 DEF InQueue, AtWriter, Busy, InOrder, AnnouncedInOrder
<1>5. accepted \subseteq Written
  BY <1>4 DEF LossInv, OnItsWay
<1>6. file' = file /\ base' = base /\ flushed' = Len(file)
  BY <1>1, FlushEndIs DEF LossInv
<1>7. Written' = Written
  BY <1>6 DEF Written
<1>8. QED BY <1>5, <1>6, <1>7

\* The inductive invariant of append, the writer, flush, the destructor and reopening.
THEOREM JournalInvariant == Spec => []JournalInv
<1>1. Init => JournalInv
  BY LossInit, OrderInit, StandInit DEF JournalInv, OrderInv
<1>2. JournalInv /\ [Next]_vars => JournalInv'
  BY LossStep, FoundBefore, OrderStep, StandStep DEF JournalInv
<1>3. QED BY <1>1, <1>2, PTL DEF Spec

\* While the calls of append do not overlap, what write_event wrote stands line by line,
\* in order and with every drop noticed by replay_file, but for the lines that a crash
\* tears, and flush has the stream to itself.
THEOREM JournalIsReplayable == Spec => []FileIsReplayable
<1>1. JournalInv => FileIsReplayable
  BY OrderMeans DEF JournalInv
<1>2. QED BY <1>1, JournalInvariant, PTL

\* While the calls of append do not overlap, flush returns when every event that was
\* accepted is in the file, and flushed.
THEOREM JournalFlushCovers == Spec => FlushCovers
<1>1. JournalInv => [FlushEnd /\ ~overlapped => accepted \subseteq Written' /\ flushed' = Len(file')]_vars
  BY FlushMeans DEF JournalInv
<1>2. QED BY <1>1, JournalInvariant, PTL DEF FlushCovers

-----------------------------------------------------------------------------
(* The inductive invariant of the gateway                                  *)

Answers == {"accepted", "rejected", "unauthorized", "limited"}
Calls ==
    {NoCall} \cup [pc : {"authorize", "submit"}, token : Tokens]
             \cup [pc : {"record"}, answer : {"accepted", "rejected"}]
             \cup [pc : {"done"}, answer : Answers]
CounterNames == {"ticks", "decoded", "errors", "requests", "accepted", "rejected",
                 "unauthorized", "limited"}
ClockTimes == 1 .. MaxTime

TableTypes ==
    /\ now \in ClockTimes
    /\ expiry \in [DOMAIN expiry -> Nat] /\ DOMAIN expiry \subseteq Tokens
    /\ windows \in [Tokens -> [start : 0 .. MaxTime, requests : 0 .. MaxRequests]]
    /\ admitted \in [Tokens -> [ClockTimes -> Nat]]
CounterTypes ==
    /\ metrics \in [CounterNames -> Nat]
    /\ call \in [Callers -> Calls] /\ IsFiniteSet(InFlight)
    /\ message \in Nat /\ subscribed \in Nat /\ started \in BOOLEAN /\ smeared \in BOOLEAN

\* What was admitted at the times of S.
Total(times, S) == SumFunctionOnSet(times, S)

Span(from) == (from .. from + Window - 1) \cap ClockTimes
Since(start) == {k \in ClockTimes : start <= k}
Leading(start) == {k \in ClockTimes : start - Window < k /\ k < start}

\* A total that stays below a bound, or is none.
Short(total, bound) == total = 0 \/ total < bound

\* The admissions of a token against its window: none after it, those since it
\* began are counted in it, and those shortly before it belong to the one before,
\* all but the one that opened that.
WithinRate(w, times) ==
    /\ w.start <= now
    /\ \A k \in ClockTimes : times[k] # 0 => w.start # 0 /\ k < w.start + Window
    /\ Total(times, Since(w.start)) <= w.requests
    /\ Short(Total(times, Leading(w.start)), MaxRequests)
    /\ \A from \in ClockTimes : Short(Total(times, Span(from)), 2 * MaxRequests)

\* A window begins with an admission, unless none is ever admitted.
Begun(w, times) == w.start # 0 /\ MaxRequests # 0 => times[w.start] # 0

RatesKept == \A token \in Tokens : /\ WithinRate(windows[token], admitted[token])
                                  /\ Begun(windows[token], admitted[token])

GatewayIInv == TableTypes /\ CounterTypes /\ CountersAddUp /\ RatesKept

-----------------------------------------------------------------------------
(* The inductive invariant of the server                                   *)

Stages == {"none", "recv", "http", "handle", "respond", "accept", "switch", "ws", "frame",
           "erase", "close", "check", "lastErase", "lastClose", "done"}
Responses == Status \cup {"101", "pong", "tick"}
Connections == [ws : BOOLEAN, buffer : Seq(Messages)]
Threads == [pc : Stages, fd : Nat, msg : Messages \cup Responses \cup {"none"}]

SocketTypes ==
    /\ socket \in [Handles -> Clients \cup {NoClient}]
    /\ inbox \in [Clients -> Seq(Messages)]
    /\ got \in [Clients -> Seq(Responses)]
    /\ cast \in Seq(Handles) /\ shared \in BOOLEAN
ThreadTypes ==
    /\ thread \in [Clients -> Threads]
    /\ \A c \in Clients : /\ c \in Live => thread[c].fd \in Handles
                          /\ At(c, {"respond"}) => thread[c].msg \in Status
    /\ conn \in [DOMAIN conn -> Connections]
    /\ DOMAIN conn \subseteq Handles /\ IsFiniteSet(DOMAIN conn)
LimitTypes ==
    /\ maxPerIp \in Nat
    /\ ipWindow \in [start : 0 .. MaxTime, requests : 0 .. maxPerIp]
    /\ closing \subseteq Handles

\* A socket is open for a client whose thread uses it.
Owned ==
    \A h \in Handles : socket[h] # NoClient => socket[h] \in Live /\ thread[socket[h]].fd = h

Ended == control = "stopped" => closing = {} /\ Live = {} /\ DOMAIN conn = {}

\* No two threads use one handle.
OwnHandles == \A c, d \in Live : thread[c].fd = thread[d].fd => c = d

\* The answers of a connection that is a WebSocket.
Upgraded(answers) ==
    /\ answers # <<>> /\ answers[1] = "101"
    /\ \A i \in 2 .. Len(answers) : answers[i] \in {"pong", "tick"}

\* What a client got by the step its thread is at: nothing before it is answered;
\* an answer ends the connection unless it is the switch to a WebSocket.
ServedBy(t, entries, answers) ==
    /\ t.pc \in {"none", "handle", "accept", "respond"} => answers = <<>>
    /\ t.pc \in {"switch", "ws", "frame"} => Upgraded(answers)
    /\ t.pc \in {"close", "lastClose", "check"} => t.fd \notin DOMAIN entries
    /\ t.pc \notin {"none", "done"} /\ t.fd \in DOMAIN entries =>
         IF entries[t.fd].ws
         THEN Upgraded(answers) /\ (t.pc = "http" => entries[t.fd].buffer = <<>>)
         ELSE t.pc \notin {"ws", "frame"} /\ (t.pc \in {"recv", "http"} => answers = <<>>)
    /\ IsPrefixOfAnswer(answers)

Served(c) == ServedBy(thread[c], conn, got[c])

\* A broadcast sends to WebSockets only.
CastToUpgraded ==
    \A i \in 1 .. Len(cast) : socket[cast[i]] # NoClient => Upgraded(got[socket[cast[i]]])

ServedInOrder == OwnHandles /\ (\A c \in Clients : Served(c)) /\ CastToUpgraded

ServerIInv ==
    /\ SocketTypes /\ ThreadTypes /\ LimitTypes /\ Owned /\ Ended
    /\ ~ shared => ServedInOrder
-----------------------------------------------------------------------------
(* The admissions of a token                                               *)

LEMMA SumNatural ==
    ASSUME NEW f, NEW S, IsFiniteSet(S), \A x \in S : f[x] \in Nat
    PROVE  Sum(f, S) \in Nat
<1> DEFINE C == {s \in SUBSET S : Sum(f, s) \notin Nat}
<1>1. CASE C = {}
  BY <1>1
<1>2. CASE C # {}
  <2>1. PICK t \in C : \A u \in C : u \subseteq t => u = t
    <3>1. C \subseteq SUBSET S
      OBVIOUS
    <3> HIDE DEF C
    <3>2. QED BY <1>2, <3>1, Smallest
  <2>2. t \in SUBSET S /\ Sum(f, t) \notin Nat /\ IsFiniteSet(t)
    BY <2>1, FS_Subset
  <2>3. t # {}
    <3>1. Sum(f, {}) = 0
      BY SumStep
    <3>2. QED BY <2>2, <3>1
  <2>4. Pick(t) \in t /\ t \ {Pick(t)} \in SUBSET S /\ t \ {Pick(t)} \notin C
    BY <2>1, <2>2, <2>3, Picked
  <2>5. Sum(f, t \ {Pick(t)}) \in Nat /\ f[Pick(t)] \in Nat
    BY <2>2, <2>4
  <2>6. Sum(f, t) = f[Pick(t)] + Sum(f, t \ {Pick(t)})
    BY <2>2, <2>3, SumStep
  <2>7. QED BY <2>2, <2>5, <2>6
<1>3. QED BY <1>1, <1>2

\* A sum is that of a part and that of the rest.
LEMMA SumSplit ==
    ASSUME NEW f, NEW S, IsFiniteSet(S), \A x \in S : f[x] \in Nat, NEW T \in SUBSET S
    PROVE  Sum(f, S) = Sum(f, T) + Sum(f, S \ T)
<1> DEFINE C == {s \in SUBSET S : Sum(f, S) # Sum(f, s) + Sum(f, S \ s)}
<1>1. CASE C = {}
  BY <1>1
<1>2. CASE C # {}
  <2>1. PICK t \in C : \A u \in C : u \subseteq t => u = t
    <3>1. C \subseteq SUBSET S
      OBVIOUS
    <3> HIDE DEF C
    <3>2. QED BY <1>2, <3>1, Smallest
  <2>2. t \in SUBSET S /\ Sum(f, S) # Sum(f, t) + Sum(f, S \ t) /\ IsFiniteSet(t)
    BY <2>1, FS_Subset
  <2>3. t # {}
    <3>1. Sum(f, {}) = 0 /\ S \ {} = S
      BY SumStep
    <3>2. Sum(f, S) \in Nat
      BY SumNatural
    <3>3. QED BY <2>2, <3>1, <3>2
  <2>4. PICK p, u, r : p = Pick(t) /\ u = t \ {p} /\ r = S \ u
    OBVIOUS
  <2>5. p \in t /\ u \in SUBSET S /\ u \notin C /\ p \in r /\ r \ {p} = S \ t
    BY <2>1, <2>2, <2>3, <2>4, Picked
  <2>6. Sum(f, S) = Sum(f, u) + Sum(f, r)
    BY <2>4, <2>5
  <2>7. Sum(f, t) = f[p] + Sum(f, u)
    BY <2>2, <2>3, <2>4, SumStep
  <2>8. Sum(f, r) = f[p] + Sum(f, S \ t)
    <3>1. IsFiniteSet(r) /\ (\A x \in r : f[x] \in Int) /\ p \in r
      BY <2>4, <2>5, FS_Subset
    <3>2. Sum(f, r) = f[p] + Sum(f, r \ {p})
      BY <3>1, SumWithout
    <3>3. QED BY <2>5, <3>2
  <2>9. f[p] \in Nat /\ Sum(f, u) \in Nat /\ Sum(f, S \ t) \in Nat
    <3>1. \A s \in SUBSET S : IsFiniteSet(s) /\ \A x \in s : f[x] \in Nat
      BY FS_Subset
    <3>2. \A s \in SUBSET S : Sum(f, s) \in Nat
      BY <3>1, SumNatural
    <3>3. QED BY <2>2, <2>5, <3>2
  <2>10. QED BY <2>2, <2>6, <2>7, <2>8, <2>9
<1>3. QED BY <1>1, <1>2

LEMMA TotalIs ==
    ASSUME NEW f, NEW S, IsFiniteSet(S)
    PROVE  Total(f, S) = Sum(f, S)
BY DEF Total, SumFunctionOnSet, FoldFunctionOnSet, MapThenFoldSet, Sum, Subtotals, Sums, Pick

LEMMA TimesFinite == \A S \in SUBSET ClockTimes : IsFiniteSet(S)
<1>1. IsFiniteSet(ClockTimes)
  <2>1. 1 \in Int /\ MaxTime \in Int
    BY GatewayAssumption
  <2>2. QED BY <2>1, FS_Interval DEF ClockTimes
<1>2. QED BY <1>1, FS_Subset

LEMMA TotalNatural ==
    ASSUME NEW times \in [ClockTimes -> Nat], NEW S \in SUBSET ClockTimes
    PROVE  Total(times, S) \in Nat
BY TimesFinite, TotalIs, SumNatural

\* More times have no fewer admissions.
LEMMA TotalGrows ==
    ASSUME NEW times \in [ClockTimes -> Nat], NEW S \in SUBSET ClockTimes, NEW T \in SUBSET S
    PROVE  Total(times, T) <= Total(times, S)
<1>1. IsFiniteSet(S) /\ IsFiniteSet(T) /\ IsFiniteSet(S \ T)
  BY TimesFinite
<1>2. Sum(times, S) = Sum(times, T) + Sum(times, S \ T)
  BY <1>1, SumSplit
<1>3. Sum(times, S) \in Nat /\ Sum(times, T) \in Nat /\ Sum(times, S \ T) \in Nat
  BY <1>1, SumNatural
<1>4. Sum(times, T) <= Sum(times, S)
  BY <1>2, <1>3
<1>5. QED BY <1>1, <1>4, TotalIs

LEMMA TotalWithout ==
    ASSUME NEW times \in [ClockTimes -> Nat], NEW S \in SUBSET ClockTimes, NEW k \in S
    PROVE  Total(times, S) = times[k] + Total(times, S \ {k})
<1>1. IsFiniteSet(S) /\ IsFiniteSet(S \ {k}) /\ \A x \in S : times[x] \in Int
  BY TimesFinite
<1>2. Sum(times, S) = times[k] + Sum(times, S \ {k})
  BY <1>1, SumWithout
<1>3. QED BY <1>1, <1>2, TotalIs

LEMMA TotalCovers ==
    ASSUME NEW times \in [ClockTimes -> Nat], NEW S \in SUBSET ClockTimes, NEW T \in SUBSET ClockTimes,
           NEW U \in SUBSET ClockTimes, S \subseteq T \cup U
    PROVE  Total(times, S) <= Total(times, T) + Total(times, U)
<1>1. \A V \in SUBSET ClockTimes : IsFiniteSet(V) /\ Total(times, V) \in Nat /\ Total(times, V) = Sum(times, V)
  BY TimesFinite, TotalNatural, TotalIs
<1>2. PICK V, R : V = S \cap T /\ R = S \ V
  OBVIOUS
<1>3. V \in SUBSET T /\ R \in SUBSET U /\ V \in SUBSET S /\ V \in SUBSET ClockTimes /\ R \in SUBSET ClockTimes
  BY <1>2
<1>4. Sum(times, S) = Sum(times, V) + Sum(times, S \ V)
  <2>1. IsFiniteSet(S) /\ \A x \in S : times[x] \in Nat
    BY <1>1
  <2>2. QED BY <1>3, <2>1, SumSplit
<1>5. Total(times, S) = Total(times, V) + Total(times, R)
  BY <1>1, <1>2, <1>3, <1>4
<1>6. Total(times, V) <= Total(times, T) /\ Total(times, R) <= Total(times, U)
  BY <1>3, TotalGrows
<1>7. /\ Total(times, V) \in Nat /\ Total(times, R) \in Nat /\ Total(times, S) \in Nat
      /\ Total(times, T) \in Nat /\ Total(times, U) \in Nat
  BY <1>1, <1>3
<1>8. QED BY <1>5, <1>6, <1>7

LEMMA TotalOfNone ==
    ASSUME NEW times \in [ClockTimes -> Nat], NEW S \in SUBSET ClockTimes, \A k \in S : times[k] = 0
    PROVE  Total(times, S) = 0
<1>1. IsFiniteSet(S) /\ \A k \in S : times[k] \in -0 .. 0
  BY TimesFinite
<1>2. Sum(times, S) \in -(0 * Cardinality(S)) .. 0 * Cardinality(S)
  <2>1. 0 \in Nat
    OBVIOUS
  <2>2. QED BY <1>1, <2>1, SumBound
<1>3. Cardinality(S) \in Nat
  BY <1>1, FS_CardinalityType
<1>4. QED BY <1>1, <1>2, <1>3, TotalIs

\* One more is admitted now.
Admitting(times) == [times EXCEPT ![now] = @ + 1]

LEMMA TotalAdmitting ==
    ASSUME NEW times \in [ClockTimes -> Nat], now \in ClockTimes, NEW S \in SUBSET ClockTimes
    PROVE  /\ Admitting(times) \in [ClockTimes -> Nat]
           /\ now \notin S => Total(Admitting(times), S) = Total(times, S)
           /\ now \in S => Total(Admitting(times), S) = Total(times, S) + 1
<1> DEFINE after == Admitting(times)
<1>1. /\ after \in [ClockTimes -> Nat]
      /\ \A k \in ClockTimes : k # now => after[k] = times[k]
      /\ after[now] = times[now] + 1
  BY DEF Admitting
<1> HIDE DEF after
<1>2. PICK r : r = S \ {now}
  OBVIOUS
<1>3. r \in SUBSET ClockTimes /\ IsFiniteSet(r) /\ IsFiniteSet(S) /\ \A k \in r : after[k] = times[k]
  BY <1>1, <1>2, TimesFinite
<1>4. Sum(after, r) = Sum(times, r)
  BY <1>3, SumSame
<1>5. now \notin S => Total(after, S) = Total(times, S)
  <2>1. now \notin S => r = S
    BY <1>2
  <2>2. QED BY <1>3, <1>4, <2>1, TotalIs
<1>6. ASSUME now \in S PROVE Total(after, S) = Total(times, S) + 1
  <2>1. \A k \in S : after[k] \in Int /\ times[k] \in Int
    BY <1>1
  <2>2. Sum(after, S) = after[now] + Sum(after, S \ {now})
    BY <1>3, <1>6, <2>1, SumWithout
  <2>3. Sum(times, S) = times[now] + Sum(times, S \ {now})
    BY <1>3, <1>6, <2>1, SumWithout
  <2>4. Sum(times, r) \in Nat /\ times[now] \in Nat
    <3>1. \A k \in r : times[k] \in Nat
      BY <1>3
    <3>2. QED BY <1>3, <3>1, SumNatural
  <2>5. Sum(after, S) = Sum(times, S) + 1
    BY <1>1, <1>2, <1>4, <2>2, <2>3, <2>4
  <2>6. QED BY <1>3, <2>5, TotalIs
<1>7. QED BY <1>1, <1>5, <1>6 DEF after
-----------------------------------------------------------------------------
(* The window of a token: consume_rate_limit                               *)

RateWindows == [start : 0 .. MaxTime, requests : 0 .. MaxRequests]

LEMMA PartsOfTime ==
    /\ \A start : Since(start) \in SUBSET ClockTimes /\ Leading(start) \in SUBSET ClockTimes
    /\ \A from : Span(from) \in SUBSET ClockTimes
BY DEF Since, Leading, Span

\* The window that a request falls in.
FreshWindow(w) ==
    IF w.start = 0 \/ now - w.start >= Window THEN [start |-> now, requests |-> 0] ELSE w

\* A new window has no admissions, and the one before it at most its own, the
\* one that opened it out of reach.
LEMMA FreshRate ==
    ASSUME NEW w \in RateWindows, NEW times \in [ClockTimes -> Nat], now \in ClockTimes,
           WithinRate(w, times), Begun(w, times)
    PROVE  LET fresh == FreshWindow(w)
           IN  /\ fresh \in RateWindows /\ fresh.start # 0
               /\ now - fresh.start < Window
               /\ WithinRate(fresh, times)
               /\ Begun(fresh, times) \/ (fresh.start = now /\ fresh.requests = 0)
<1>1. MaxRequests \in Nat /\ Window \in Nat \ {0} /\ MaxTime \in Nat \ {0} /\ now \in Nat \ {0}
  BY GatewayAssumption DEF ClockTimes
<1>2. w.start \in 0 .. MaxTime /\ w.requests \in 0 .. MaxRequests
  BY DEF RateWindows
<1>3. CASE w.start = 0 \/ now - w.start >= Window
  <2> DEFINE fresh == [start |-> now, requests |-> 0]
  <2>1. FreshWindow(w) = fresh /\ fresh.start = now /\ fresh.requests = 0
    BY <1>3 DEF FreshWindow
  <2>2. fresh \in RateWindows
    BY <1>1 DEF RateWindows, ClockTimes
  <2>3. \A k \in ClockTimes : k >= now => times[k] = 0
    BY <1>1, <1>2, <1>3 DEF WithinRate, ClockTimes
  <2>4. Total(times, Since(now)) = 0
    <3>1. \A k \in Since(now) : times[k] = 0
      BY <2>3, <1>1 DEF Since, ClockTimes
    <3>2. QED BY <3>1, PartsOfTime, TotalOfNone
  <2>5. Short(Total(times, Leading(now)), MaxRequests)
    <3>1. CASE w.start = 0
      <4>1. \A k \in Leading(now) : times[k] = 0
        BY <3>1 DEF WithinRate, Leading
      <4>2. QED BY <4>1, PartsOfTime, TotalOfNone DEF Short
    <3>2. CASE w.start # 0
      <4>1. w.start \in Since(w.start) /\ Leading(now) \in SUBSET (Since(w.start) \ {w.start})
        <5>1. w.start \in Since(w.start)
          BY <1>1, <1>2, <3>2 DEF Since, ClockTimes
        <5>2. \A k \in Leading(now) : k \in ClockTimes /\ now - Window < k
          BY DEF Leading
        <5>3. \A k \in ClockTimes : now - Window < k => w.start <= k /\ k # w.start
          BY <1>1, <1>2, <1>3, <3>2 DEF ClockTimes
        <5>4. QED BY <5>1, <5>2, <5>3 DEF Since
      <4>2. PICK rest : rest = Since(w.start) \ {w.start}
        OBVIOUS
      <4>3. rest \in SUBSET ClockTimes /\ w.start \in ClockTimes /\ Since(w.start) \in SUBSET ClockTimes
        BY <4>1, <4>2, PartsOfTime
      <4>4. Total(times, Since(w.start)) = times[w.start] + Total(times, rest)
        BY <4>1, <4>2, <4>3, TotalWithout
      <4>5. Total(times, Leading(now)) <= Total(times, rest)
        BY <4>1, <4>2, <4>3, TotalGrows
      <4>6. /\ Total(times, Leading(now)) \in Nat /\ Total(times, rest) \in Nat
            /\ Total(times, Since(w.start)) \in Nat /\ times[w.start] \in Nat
        BY <4>3, PartsOfTime, TotalNatural
      <4>7. Total(times, Since(w.start)) <= w.requests
        BY DEF WithinRate
      <4>8. MaxRequests # 0 => times[w.start] # 0
        BY <3>2 DEF Begun
      <4>9. QED BY <1>1, <1>2, <4>4, <4>5, <4>6, <4>7, <4>8 DEF Short
    <3>3. QED BY <3>1, <3>2
  <2>6. \A k \in ClockTimes : times[k] # 0 => k < now + Window
    BY <1>1, <2>3 DEF ClockTimes
  <2>7. \A from \in ClockTimes : Short(Total(times, Span(from)), 2 * MaxRequests)
    BY DEF WithinRate
  <2>8. WithinRate(fresh, times)
    BY <1>1, <2>1, <2>4, <2>5, <2>6, <2>7 DEF WithinRate
  <2> HIDE DEF fresh
  <2>9. QED BY <1>1, <2>1, <2>2, <2>8
<1>4. CASE ~ (w.start = 0 \/ now - w.start >= Window)
  BY <1>1, <1>2, <1>4 DEF FreshWindow
<1>5. QED BY <1>3, <1>4

\* One more within a window that is not full: a span of its length that has the
\* present reaches into this window and the one before it, no further.
LEMMA OneMore ==
    ASSUME NEW w \in RateWindows, NEW times \in [ClockTimes -> Nat], now \in ClockTimes,
           WithinRate(w, times), w.start # 0, now - w.start < Window,
           w.requests < MaxRequests, Begun(w, times) \/ w.start = now
    PROVE  /\ WithinRate([w EXCEPT !.requests = @ + 1], Admitting(times))
           /\ Begun([w EXCEPT !.requests = @ + 1], Admitting(times))
<1> DEFINE more == [w EXCEPT !.requests = @ + 1]
           after == Admitting(times)
<1>1. MaxRequests \in Nat /\ Window \in Nat \ {0} /\ MaxTime \in Nat \ {0} /\ now \in Nat \ {0}
  BY GatewayAssumption DEF ClockTimes
<1>2. /\ w.start \in 0 .. MaxTime /\ w.requests \in 0 .. MaxRequests
      /\ more.start = w.start /\ more.requests = w.requests + 1
  BY DEF RateWindows
<1>3. /\ \A S \in SUBSET ClockTimes : now \notin S => Total(after, S) = Total(times, S)
      /\ \A S \in SUBSET ClockTimes : now \in S => Total(after, S) = Total(times, S) + 1
      /\ \A S \in SUBSET ClockTimes : Total(times, S) \in Nat
  BY TotalAdmitting, TotalNatural
<1>4. \A k \in ClockTimes : after[k] # 0 => w.start # 0 /\ k < w.start + Window
  <2>1. \A k \in ClockTimes : k # now => after[k] = times[k]
    BY DEF Admitting
  <2>2. now < w.start + Window
    BY <1>1, <1>2
  <2>3. QED BY <2>1, <2>2 DEF WithinRate
<1> HIDE DEF more, after
<1>5. /\ w.start <= now
      /\ Total(times, Since(w.start)) <= w.requests
      /\ Short(Total(times, Leading(w.start)), MaxRequests)
      /\ \A from \in ClockTimes : Short(Total(times, Span(from)), 2 * MaxRequests)
  BY DEF WithinRate
<1>6. Total(after, Since(w.start)) <= w.requests + 1
  <2>1. now \in Since(w.start)
    BY <1>5 DEF Since
  <2>2. QED BY <1>2, <1>3, <1>5, <2>1, PartsOfTime
<1>7. Short(Total(after, Leading(w.start)), MaxRequests)
  <2>1. now \notin Leading(w.start)
    BY <1>1, <1>2, <1>5 DEF Leading
  <2>2. QED BY <1>3, <1>5, <2>1, PartsOfTime
<1>8. ASSUME NEW from \in ClockTimes PROVE Short(Total(after, Span(from)), 2 * MaxRequests)
  <2>1. CASE now \notin Span(from)
    BY <1>3, <1>5, <2>1, PartsOfTime
  <2>2. CASE now \in Span(from)
    <3>1. from \in Nat /\ from <= now /\ now <= from + Window - 1
      BY <1>1, <2>2 DEF Span, ClockTimes
    <3>2. Span(from) \subseteq Leading(w.start) \cup Since(w.start)
      BY <1>1, <1>2, <1>5, <3>1, SMTT(60) DEF Span, Leading, Since, ClockTimes
    <3>3. Total(times, Span(from)) <= Total(times, Leading(w.start)) + Total(times, Since(w.start))
      BY <3>2, PartsOfTime, TotalCovers
    <3>4. Total(after, Span(from)) = Total(times, Span(from)) + 1
      BY <1>3, <2>2, PartsOfTime
    <3>5. /\ Total(times, Span(from)) \in Nat /\ Total(times, Leading(w.start)) \in Nat
          /\ Total(times, Since(w.start)) \in Nat
      BY <1>3, PartsOfTime
    <3>6. QED BY <1>1, <1>2, <1>5, <3>3, <3>4, <3>5 DEF Short
  <2>3. QED BY <2>1, <2>2
<1>9. WithinRate(more, after)
  BY <1>2, <1>4, <1>5, <1>6, <1>7, <1>8 DEF WithinRate
<1>10. Begun(more, after)
  <2>1. /\ after[now] = times[now] + 1 /\ times[now] \in Nat
        /\ \A k \in ClockTimes : k # now => after[k] = times[k]
    BY DEF Admitting, after
  <2>2. w.start \in ClockTimes
    BY <1>1, <1>2 DEF ClockTimes
  <2>3. CASE w.start = now
    BY <1>2, <2>1, <2>3 DEF Begun
  <2>4. CASE w.start # now
    BY <1>2, <2>1, <2>2, <2>4 DEF Begun
  <2>5. QED BY <2>3, <2>4
<1>11. QED BY <1>9, <1>10 DEF more, after

\* A request consumes of the window it falls in.
LEMMA ConsumedRate ==
    ASSUME NEW w \in RateWindows, NEW times \in [ClockTimes -> Nat], now \in ClockTimes,
           WithinRate(w, times), Begun(w, times)
    PROVE  LET c == Consumed(w, MaxRequests)
           IN  /\ c.window \in RateWindows /\ c.ok \in BOOLEAN
               /\ c.ok => WithinRate(c.window, Admitting(times)) /\ Begun(c.window, Admitting(times))
               /\ ~ c.ok => WithinRate(c.window, times) /\ Begun(c.window, times)
<1>1. PICK f : f = FreshWindow(w)
  OBVIOUS
<1>2. /\ f \in RateWindows /\ f.start # 0 /\ now - f.start < Window /\ WithinRate(f, times)
      /\ Begun(f, times) \/ (f.start = now /\ f.requests = 0)
  BY <1>1, FreshRate
<1>3. PICK c : c = Consumed(w, MaxRequests)
  OBVIOUS
<1>4. c = IF f.requests >= MaxRequests THEN [window |-> f, ok |-> FALSE]
          ELSE [window |-> [f EXCEPT !.requests = @ + 1], ok |-> TRUE]
  BY <1>1, <1>3 DEF Consumed, FreshWindow
<1>5. MaxRequests \in Nat /\ f.requests \in 0 .. MaxRequests
  BY <1>2, GatewayAssumption DEF RateWindows
<1>6. CASE f.requests >= MaxRequests
  <2>1. c.window = f /\ c.ok = FALSE
    BY <1>4, <1>6
  <2>2. Begun(f, times)
    BY <1>2, <1>5, <1>6 DEF Begun
  <2>3. QED BY <1>2, <1>3, <2>1, <2>2
<1>7. CASE ~ (f.requests >= MaxRequests)
  <2>1. c.window = [f EXCEPT !.requests = @ + 1] /\ c.ok = TRUE
    BY <1>4, <1>7
  <2>2. c.window \in RateWindows
    BY <1>2, <1>5, <1>7, <2>1 DEF RateWindows
  <2>3. f.requests < MaxRequests
    BY <1>5, <1>7
  <2>4. WithinRate(c.window, Admitting(times)) /\ Begun(c.window, Admitting(times))
    BY <1>2, <2>1, <2>3, OneMore
  <2>5. QED BY <1>3, <2>1, <2>2, <2>4
<1>8. QED BY <1>6, <1>7
-----------------------------------------------------------------------------
(* The tables: authorize_request and the calls that change the tokens      *)

LEMMA WindowsAre == TableTypes => \A t \in Tokens : windows[t] \in RateWindows /\ admitted[t] \in [ClockTimes -> Nat]
BY DEF TableTypes, RateWindows

LEMMA AdmitKeeps ==
    ASSUME TableTypes, RatesKept, NEW token \in Tokens, Admit(token, Authorized(token)), now' = now
    PROVE  TableTypes' /\ RatesKept' /\ Authorized(token).verdict \in {"none", "unauthorized", "limited"}
<1>1. PICK a, c : a = Authorized(token) /\ c = Consumed(windows[token], MaxRequests)
  OBVIOUS
<1>2. windows' = a.windows /\ expiry' = a.expiry
  BY <1>1 DEF Admit
<1>3. admitted' = IF a.verdict = "none" THEN [admitted EXCEPT ![token] = Admitting(admitted[token])]
                  ELSE admitted
  BY <1>1 DEF Admit, Admitting
<1>4. windows \in [Tokens -> RateWindows] /\ admitted \in [Tokens -> [ClockTimes -> Nat]] /\ now \in ClockTimes
  BY DEF TableTypes, RateWindows
<1>5. WithinRate(windows[token], admitted[token]) /\ Begun(windows[token], admitted[token])
  BY DEF RatesKept
<1>6. /\ c.window \in RateWindows /\ c.ok \in BOOLEAN
      /\ c.ok => /\ WithinRate(c.window, Admitting(admitted[token]))
                 /\ Begun(c.window, Admitting(admitted[token]))
      /\ ~ c.ok => WithinRate(c.window, admitted[token]) /\ Begun(c.window, admitted[token])
  BY <1>1, <1>4, <1>5, ConsumedRate
<1>7. CASE DOMAIN expiry # {} /\ (token \notin DOMAIN expiry \/ Expired(token))
  <2>1. a = [verdict |-> "unauthorized", windows |-> windows,
             expiry |-> IF Expired(token) THEN Without(expiry, token) ELSE expiry]
    BY <1>1, <1>7 DEF Authorized
  <2>2. windows' = windows /\ admitted' = admitted
    BY <1>2, <1>3, <2>1
  <2>3. expiry' \in [DOMAIN expiry' -> Nat] /\ DOMAIN expiry' \subseteq Tokens
    <3>1. expiry' = (IF Expired(token) THEN Without(expiry, token) ELSE expiry)
      BY <1>2, <2>1
    <3>2. expiry \in [DOMAIN expiry -> Nat] /\ DOMAIN expiry \subseteq Tokens
      BY DEF TableTypes
    <3>3. QED BY <3>1, <3>2 DEF Without
  <2>4. TableTypes'
    BY <1>4, <2>2, <2>3 DEF TableTypes, RateWindows
  <2>5. RatesKept'
    BY <2>2 DEF RatesKept, Begun, WithinRate
  <2>6. QED BY <1>1, <2>1, <2>4, <2>5
<1>8. CASE ~ (DOMAIN expiry # {} /\ (token \notin DOMAIN expiry \/ Expired(token)))
  <2>1. a = [verdict |-> IF c.ok THEN "none" ELSE "limited", expiry |-> expiry,
             windows |-> [windows EXCEPT ![token] = c.window]]
    BY <1>1, <1>8 DEF Authorized
  <2>2. a.verdict = IF c.ok THEN "none" ELSE "limited"
    BY <2>1
  <2>3. windows' = [windows EXCEPT ![token] = c.window] /\ expiry' = expiry
    BY <1>2, <2>1
  <2>4. windows' \in [Tokens -> RateWindows]
    BY <1>4, <1>6, <2>3
  <2>5. admitted' \in [Tokens -> [ClockTimes -> Nat]]
    <3>1. Admitting(admitted[token]) \in [ClockTimes -> Nat]
      BY <1>4 DEF Admitting
    <3>2. QED BY <1>3, <1>4, <3>1
  <2>6. TableTypes'
    BY <1>4, <2>3, <2>4, <2>5 DEF TableTypes, RateWindows
  <2>7. ASSUME NEW t \in Tokens
        PROVE  WithinRate(windows'[t], admitted'[t]) /\ Begun(windows'[t], admitted'[t])
    <3>1. CASE t = token
      <4>1. windows'[t] = c.window
        BY <1>4, <2>3, <3>1
      <4>2. admitted'[t] = IF c.ok THEN Admitting(admitted[token]) ELSE admitted[token]
        BY <1>3, <1>4, <1>6, <2>2, <3>1
      <4>3. QED BY <1>6, <4>1, <4>2
    <3>2. CASE t # token
      <4>1. windows'[t] = windows[t] /\ admitted'[t] = admitted[t]
        BY <1>3, <1>4, <2>3, <3>2
      <4>2. QED BY <4>1 DEF RatesKept
    <3>3. QED BY <3>1, <3>2
  <2>8. RatesKept'
    BY <2>7 DEF RatesKept, Begun, WithinRate
  <2>9. QED BY <1>1, <1>6, <2>2, <2>6, <2>8
<1>9. QED BY <1>7, <1>8

LEMMA TablesKept ==
    ASSUME TableTypes, RatesKept, UNCHANGED <<tables, now>>
    PROVE  TableTypes' /\ RatesKept'
BY DEF TableTypes, RatesKept, Begun, WithinRate, tables

\* Time goes on.
LEMMA ClockKeeps ==
    ASSUME TableTypes, RatesKept, Clock
    PROVE  TableTypes' /\ RatesKept'
<1>1. UNCHANGED tables /\ now' = now + 1 /\ now < MaxTime
  BY DEF Clock
<1>2. now \in Nat \ {0} /\ MaxTime \in Nat
  BY GatewayAssumption DEF TableTypes, ClockTimes
<1>3. TableTypes'
  BY <1>1, <1>2 DEF TableTypes, tables, ClockTimes
<1>4. RatesKept'
  <2>1. \A t \in Tokens : windows[t].start \in Int
    BY GatewayAssumption DEF TableTypes
  <2>2. QED BY <1>1, <1>2, <2>1 DEF RatesKept, Begun, WithinRate, tables
<1>5. QED BY <1>3, <1>4

\* add_token, revoke_token and rotate_token.
LEMMA ChangeTokensKeeps ==
    ASSUME TableTypes, RatesKept, ChangeTokens
    PROVE  TableTypes' /\ RatesKept'
<1>1. UNCHANGED <<windows, admitted, now>>
  BY DEF ChangeTokens
<1>2. expiry \in [DOMAIN expiry -> Nat] /\ DOMAIN expiry \subseteq Tokens /\ now \in Nat
  BY DEF TableTypes, ClockTimes
<1>3. PICK token \in Tokens, days \in {0, 1} :
        LET until == IF days = 0 THEN 0 ELSE now + days
            with(f, x) == [y \in DOMAIN f \cup {x} |-> IF y = x THEN until ELSE f[y]]
        IN  \/ expiry' = with(expiry, token)
            \/ expiry' = Without(expiry, token)
            \/ \E old \in DOMAIN expiry : expiry' = with(Without(expiry, old), token)
  BY DEF ChangeTokens
<1> DEFINE until == IF days = 0 THEN 0 ELSE now + days
           with(f) == [y \in DOMAIN f \cup {token} |-> IF y = token THEN until ELSE f[y]]
           IsTable(f) == f \in [DOMAIN f -> Nat] /\ DOMAIN f \subseteq Tokens
<1>4. until \in Nat
  BY <1>2
<1>5. ASSUME NEW f, IsTable(f) PROVE IsTable(with(f))
  <2> HIDE DEF until
  <2>1. QED BY <1>4, <1>5
<1>6. ASSUME NEW f, IsTable(f), NEW x PROVE IsTable(Without(f, x))
  BY <1>6 DEF Without
<1>7. IsTable(expiry')
  <2>1. IsTable(expiry)
    BY <1>2
  <2>2. \/ expiry' = with(expiry)
        \/ expiry' = Without(expiry, token)
        \/ \E old \in DOMAIN expiry : expiry' = with(Without(expiry, old))
    BY <1>3
  <2> HIDE DEF with, IsTable
  <2>3. QED BY <1>5, <1>6, <2>1, <2>2
<1>8. TableTypes'
  BY <1>1, <1>7 DEF TableTypes
<1>9. RatesKept'
  BY <1>1 DEF RatesKept, Begun, WithinRate
<1>10. QED BY <1>8, <1>9
-----------------------------------------------------------------------------
(* The counters                                                            *)

LEMMA CallFacts ==
    ASSUME NEW v \in Calls
    PROVE  /\ v.pc \in {"none", "authorize", "submit", "record", "done"}
           /\ v.pc \in {"authorize", "submit"} => v \in [pc : {"authorize", "submit"}, token : Tokens]
           /\ v.pc = "record" => v \in [pc : {"record"}, answer : {"accepted", "rejected"}]
BY DEF Calls, NoCall

LEMMA InFlightChanges ==
    ASSUME CounterTypes, NEW t \in Callers, NEW v \in Calls, call' = [call EXCEPT ![t] = v]
    PROVE  /\ call' \in [Callers -> Calls] /\ IsFiniteSet(InFlight')
           /\ Cardinality(InFlight) \in Nat /\ Cardinality(InFlight') \in Nat
           /\ t \notin InFlight /\ v.pc \in {"authorize", "submit", "record"} =>
                Cardinality(InFlight') = Cardinality(InFlight) + 1
           /\ t \in InFlight /\ v.pc \in {"authorize", "submit", "record"} =>
                Cardinality(InFlight') = Cardinality(InFlight)
           /\ t \in InFlight /\ v.pc \notin {"authorize", "submit", "record"} =>
                Cardinality(InFlight') = Cardinality(InFlight) - 1
<1>1. call \in [Callers -> Calls] /\ IsFiniteSet(InFlight)
  BY DEF CounterTypes
<1>2. call' \in [Callers -> Calls] /\ call'[t] = v /\ \A u \in Callers : u # t => call'[u] = call[u]
  BY <1>1
<1>3. CASE v.pc \in {"authorize", "submit", "record"}
  <2>1. InFlight' = InFlight \cup {t}
    BY <1>2, <1>3 DEF InFlight
  <2>2. IsFiniteSet(InFlight') /\ Cardinality(InFlight) \in Nat /\ Cardinality(InFlight') \in Nat
    BY <1>1, <2>1, FS_AddElement, FS_CardinalityType
  <2>3. /\ t \notin InFlight => Cardinality(InFlight') = Cardinality(InFlight) + 1
        /\ t \in InFlight => Cardinality(InFlight') = Cardinality(InFlight)
    BY <1>1, <2>1, FS_AddElement
  <2>4. QED BY <1>2, <1>3, <2>2, <2>3
<1>4. CASE v.pc \notin {"authorize", "submit", "record"}
  <2>1. InFlight' = InFlight \ {t}
    BY <1>2, <1>4 DEF InFlight
  <2>2. IsFiniteSet(InFlight') /\ Cardinality(InFlight) \in Nat /\ Cardinality(InFlight') \in Nat
    BY <1>1, <2>1, FS_RemoveElement, FS_CardinalityType
  <2>3. t \in InFlight => Cardinality(InFlight') = Cardinality(InFlight) - 1
    BY <1>1, <2>1, FS_RemoveElement
  <2>4. QED BY <1>2, <1>4, <2>2, <2>3
<1>5. QED BY <1>3, <1>4

LEMMA Counted ==
    ASSUME metrics \in [CounterNames -> Nat], NEW names, Count(names)
    PROVE  /\ metrics' \in [CounterNames -> Nat]
           /\ \A k \in CounterNames : metrics'[k] = IF k \in names THEN metrics[k] + 1 ELSE metrics[k]
BY DEF Count

LEMMA RequestStep ==
    ASSUME GatewayIInv, NEW t \in Callers, NEW token \in Tokens, Request(t, token)
    PROVE  GatewayIInv'
<1>1. CounterTypes /\ CountersAddUp /\ metrics \in [CounterNames -> Nat]
  BY DEF GatewayIInv, CounterTypes
<1> DEFINE v == [pc |-> "authorize", token |-> token]
<1>2. /\ call' = [call EXCEPT ![t] = v] /\ Count({"requests"})
      /\ call[t] = NoCall
      /\ UNCHANGED <<tables, stream, bounds, smeared>>
  BY DEF Request
<1>3. v \in Calls /\ v.pc = "authorize"
  BY DEF Calls
<1>4. t \notin InFlight
  BY <1>2 DEF InFlight, NoCall
<1> HIDE DEF v
<1>5. /\ call' \in [Callers -> Calls] /\ IsFiniteSet(InFlight') /\ Cardinality(InFlight) \in Nat
      /\ Cardinality(InFlight') = Cardinality(InFlight) + 1
  BY <1>1, <1>2, <1>3, <1>4, InFlightChanges
<1>6. /\ metrics' \in [CounterNames -> Nat] /\ metrics'.requests = metrics.requests + 1
      /\ \A k \in CounterNames : k # "requests" => metrics'[k] = metrics[k]
  BY <1>1, <1>2, Counted DEF CounterNames
<1>7. CounterTypes'
  BY <1>1, <1>2, <1>5, <1>6 DEF CounterTypes, stream
<1>8. CountersAddUp'
  BY <1>1, <1>2, <1>5, <1>6 DEF CountersAddUp, stream, CounterNames
<1>9. TableTypes' /\ RatesKept'
  BY <1>2, TablesKept DEF GatewayIInv, bounds
<1>10. QED BY <1>7, <1>8, <1>9 DEF GatewayIInv

LEMMA AuthorizeStep ==
    ASSUME GatewayIInv, NEW t \in Callers, Authorize(t)
    PROVE  GatewayIInv'
<1>1. CounterTypes /\ CountersAddUp /\ metrics \in [CounterNames -> Nat] /\ call \in [Callers -> Calls]
  BY DEF GatewayIInv, CounterTypes
<1>2. PICK a : a = Authorized(call[t].token)
  OBVIOUS
<1>3. /\ call[t].pc = "authorize" /\ Admit(call[t].token, Authorized(call[t].token))
      /\ UNCHANGED <<stream, bounds, smeared>>
      /\ IF a.verdict = "none"
         THEN call' = [call EXCEPT ![t].pc = "submit"] /\ UNCHANGED metrics
         ELSE /\ call' = [call EXCEPT ![t] = [pc |-> "done", answer |-> a.verdict]]
              /\ Count({a.verdict, "rejected"})
  BY <1>2 DEF Authorize
<1>4. call[t].token \in Tokens /\ t \in InFlight /\ call[t] \in [pc : {"authorize", "submit"}, token : Tokens]
  BY <1>1, <1>3, CallFacts DEF InFlight
<1>5. TableTypes' /\ RatesKept' /\ a.verdict \in {"none", "unauthorized", "limited"}
  BY <1>2, <1>3, <1>4, AdmitKeeps DEF GatewayIInv, bounds
<1>6. CASE a.verdict = "none"
  <2> DEFINE v == [call[t] EXCEPT !.pc = "submit"]
  <2>1. call' = [call EXCEPT ![t] = v] /\ metrics' = metrics
    BY <1>3, <1>6
  <2>2. v \in Calls /\ v.pc = "submit"
    BY <1>4 DEF Calls
  <2> HIDE DEF v
  <2>3. /\ call' \in [Callers -> Calls] /\ IsFiniteSet(InFlight')
        /\ Cardinality(InFlight') = Cardinality(InFlight)
    BY <1>1, <1>4, <2>1, <2>2, InFlightChanges
  <2>4. CounterTypes'
    BY <1>1, <1>3, <2>1, <2>3 DEF CounterTypes, stream
  <2>5. CountersAddUp'
    BY <1>1, <1>3, <2>1, <2>3 DEF CountersAddUp, stream
  <2>6. QED BY <1>5, <2>4, <2>5 DEF GatewayIInv
<1>7. CASE a.verdict # "none"
  <2> DEFINE v == [pc |-> "done", answer |-> a.verdict]
  <2>1. /\ call' = [call EXCEPT ![t] = v]
        /\ Count({a.verdict, "rejected"})
    BY <1>3, <1>7
  <2>2. v \in Calls /\ v.pc = "done"
    BY <1>5, <1>7 DEF Calls, Answers
  <2> HIDE DEF v
  <2>3. /\ call' \in [Callers -> Calls] /\ IsFiniteSet(InFlight') /\ Cardinality(InFlight) \in Nat
        /\ Cardinality(InFlight') = Cardinality(InFlight) - 1
    BY <1>1, <1>4, <2>1, <2>2, InFlightChanges
  <2>4. /\ metrics' \in [CounterNames -> Nat] /\ metrics'.rejected = metrics.rejected + 1
        /\ \A k \in CounterNames : k \notin {"rejected", "unauthorized", "limited"} => metrics'[k] = metrics[k]
    BY <1>1, <1>5, <1>7, <2>1, Counted DEF CounterNames
  <2>5. CounterTypes'
    BY <1>1, <1>3, <2>3, <2>4 DEF CounterTypes, stream
  <2>6. CountersAddUp'
    BY <1>1, <1>3, <2>3, <2>4 DEF CountersAddUp, stream, CounterNames
  <2>7. QED BY <1>5, <2>5, <2>6 DEF GatewayIInv
<1>8. QED BY <1>6, <1>7

LEMMA SubmitStep ==
    ASSUME GatewayIInv, NEW t \in Callers, Submit(t)
    PROVE  GatewayIInv'
<1>1. CounterTypes /\ CountersAddUp /\ call \in [Callers -> Calls]
  BY DEF GatewayIInv, CounterTypes
<1>2. PICK answer \in {"accepted", "rejected"} : call' = [call EXCEPT ![t] = [pc |-> "record", answer |-> answer]]
  BY DEF Submit
<1>3. call[t].pc = "submit" /\ UNCHANGED <<tables, stream, bounds, metrics, smeared>>
  BY DEF Submit
<1> DEFINE v == [pc |-> "record", answer |-> answer]
<1>4. v \in Calls /\ v.pc = "record" /\ t \in InFlight
  BY <1>3 DEF Calls, InFlight
<1> HIDE DEF v
<1>5. /\ call' \in [Callers -> Calls] /\ IsFiniteSet(InFlight')
      /\ Cardinality(InFlight') = Cardinality(InFlight)
  BY <1>1, <1>2, <1>4, InFlightChanges DEF v
<1>6. CounterTypes'
  BY <1>1, <1>3, <1>5 DEF CounterTypes, stream
<1>7. CountersAddUp'
  BY <1>1, <1>3, <1>5 DEF CountersAddUp, stream
<1>8. TableTypes' /\ RatesKept'
  BY <1>3, TablesKept DEF GatewayIInv, bounds
<1>9. QED BY <1>6, <1>7, <1>8 DEF GatewayIInv

LEMMA RecordStep ==
    ASSUME GatewayIInv, NEW t \in Callers, Record(t)
    PROVE  GatewayIInv'
<1>1. CounterTypes /\ CountersAddUp /\ metrics \in [CounterNames -> Nat] /\ call \in [Callers -> Calls]
  BY DEF GatewayIInv, CounterTypes
<1> DEFINE v == [call[t] EXCEPT !.pc = "done"]
<1>2. /\ call[t].pc = "record" /\ call' = [call EXCEPT ![t] = v]
      /\ Count({call[t].answer})
      /\ UNCHANGED <<tables, stream, bounds, smeared>>
  BY DEF Record
<1>3. call[t] \in [pc : {"record"}, answer : {"accepted", "rejected"}] /\ t \in InFlight
  BY <1>1, <1>2, CallFacts DEF InFlight
<1>4. v \in Calls /\ v.pc = "done"
  BY <1>3 DEF Calls, Answers
<1> HIDE DEF v
<1>5. /\ call' \in [Callers -> Calls] /\ IsFiniteSet(InFlight') /\ Cardinality(InFlight) \in Nat
      /\ Cardinality(InFlight') = Cardinality(InFlight) - 1
  BY <1>1, <1>2, <1>3, <1>4, InFlightChanges
<1>6. /\ metrics' \in [CounterNames -> Nat]
      /\ metrics'.accepted + metrics'.rejected = metrics.accepted + metrics.rejected + 1
      /\ \A k \in CounterNames : k \notin {"accepted", "rejected"} => metrics'[k] = metrics[k]
  <2>1. call[t].answer \in {"accepted", "rejected"}
    BY <1>3
  <2>2. QED BY <1>1, <1>2, <2>1, Counted DEF CounterNames
<1>7. CounterTypes'
  BY <1>1, <1>2, <1>5, <1>6 DEF CounterTypes, stream
<1>8. CountersAddUp'
  <2>1. \A k \in CounterNames : metrics[k] \in Nat /\ metrics'[k] \in Nat
    BY <1>1, <1>6
  <2>2. QED BY <1>1, <1>2, <1>5, <1>6, <2>1 DEF CountersAddUp, stream, CounterNames
<1>9. TableTypes' /\ RatesKept'
  BY <1>2, TablesKept DEF GatewayIInv, bounds
<1>10. QED BY <1>7, <1>8, <1>9 DEF GatewayIInv
-----------------------------------------------------------------------------
(* The stream of ticks, the clock and the reset                            *)

LEMMA CallsKept ==
    ASSUME CounterTypes, call' = call
    PROVE  /\ call' \in [Callers -> Calls] /\ IsFiniteSet(InFlight') /\ InFlight' = InFlight
           /\ Cardinality(InFlight) \in Nat
BY FS_CardinalityType DEF CounterTypes, InFlight

LEMMA StreamStep ==
    ASSUME GatewayIInv, StartGateway \/ StopGateway \/ Publish
    PROVE  GatewayIInv'
<1>1. CounterTypes /\ CountersAddUp
  BY DEF GatewayIInv
<1>2. UNCHANGED <<tables, now, metrics, call, smeared>>
  BY DEF StartGateway, StopGateway, Publish, bounds
<1>3. /\ message \in Nat /\ subscribed \in Nat /\ started \in BOOLEAN
      /\ message' \in Nat /\ subscribed' \in Nat /\ started' \in BOOLEAN
      /\ message' % 2 = message % 2
  <2>1. message \in Nat /\ subscribed \in Nat /\ started \in BOOLEAN
    BY <1>1 DEF CounterTypes
  <2>2. CASE StartGateway
    BY <2>1, <2>2 DEF StartGateway
  <2>3. CASE StopGateway
    BY <2>1, <2>3 DEF StopGateway
  <2>4. CASE Publish
    BY <2>1, <2>4 DEF Publish
  <2>5. QED BY <2>2, <2>3, <2>4, <2>1
<1>4. CounterTypes'
  BY <1>1, <1>2, <1>3, CallsKept DEF CounterTypes
<1>5. CountersAddUp'
  BY <1>1, <1>2, <1>3, CallsKept DEF CountersAddUp
<1>6. TableTypes' /\ RatesKept'
  BY <1>2, TablesKept DEF GatewayIInv
<1>7. QED BY <1>4, <1>5, <1>6 DEF GatewayIInv

\* A message is counted as received and then as decoded or in error.
LEMMA MessageStep ==
    ASSUME GatewayIInv, OnMarketMessage \/ Decode
    PROVE  GatewayIInv'
<1>1. CounterTypes /\ CountersAddUp /\ metrics \in [CounterNames -> Nat] /\ message \in Nat
  BY DEF GatewayIInv, CounterTypes
<1>2. UNCHANGED <<tables, now, call, smeared, started, subscribed>>
  BY DEF OnMarketMessage, Decode, bounds
<1>3. /\ message' \in Nat /\ metrics' \in [CounterNames -> Nat]
      /\ \A k \in {"requests", "accepted", "rejected"} : metrics'[k] = metrics[k]
      /\ metrics.ticks = metrics.decoded + metrics.errors + (message % 2) =>
           metrics'.ticks = metrics'.decoded + metrics'.errors + (message' % 2)
  <2>1. CASE OnMarketMessage
    <3>1. message # 0 /\ message % 2 = 0
      BY <2>1 DEF OnMarketMessage
    <3>2. CASE started
      <4>1. Count({"ticks"}) /\ message' = message - 1
        BY <2>1, <3>2 DEF OnMarketMessage
      <4>2. message' \in Nat /\ message' % 2 = 1
        BY <1>1, <3>1, <4>1
      <4>3. metrics' \in [CounterNames -> Nat] /\ metrics'.ticks = metrics.ticks + 1
            /\ \A k \in CounterNames : k # "ticks" => metrics'[k] = metrics[k]
        BY <1>1, <4>1, Counted DEF CounterNames
      <4>4. /\ metrics'.decoded = metrics.decoded /\ metrics'.errors = metrics.errors
            /\ metrics.decoded \in Nat /\ metrics.errors \in Nat /\ metrics.ticks \in Nat
            /\ \A k \in {"requests", "accepted", "rejected"} : metrics'[k] = metrics[k]
        BY <1>1, <4>3 DEF CounterNames
      <4>5. PICK m, n : m = message % 2 /\ n = message' % 2
        OBVIOUS
      <4>6. m = 0 /\ n = 1
        BY <3>1, <4>2, <4>5
      <4>7. metrics.ticks = metrics.decoded + metrics.errors + m =>
              metrics'.ticks = metrics'.decoded + metrics'.errors + n
        BY <4>3, <4>4, <4>6
      <4>8. QED BY <4>2, <4>3, <4>4, <4>5, <4>7
    <3>3. CASE ~ started
      <4>1. metrics' = metrics /\ message' = message - 2
        BY <2>1, <3>3 DEF OnMarketMessage
      <4>2. message' \in Nat /\ message' % 2 = 0
        BY <1>1, <3>1, <4>1
      <4>3. QED BY <1>1, <3>1, <4>1, <4>2
    <3>4. QED BY <3>2, <3>3
  <2>2. CASE Decode
    <3>1. message % 2 = 1 /\ message' = message - 1 /\ (Count({"decoded"}) \/ Count({"errors"}))
      BY <2>2 DEF Decode
    <3>2. message' \in Nat /\ message' % 2 = 0
      BY <1>1, <3>1
    <3>3. /\ metrics' \in [CounterNames -> Nat]
          /\ metrics'.decoded + metrics'.errors = metrics.decoded + metrics.errors + 1
          /\ \A k \in CounterNames : k \notin {"decoded", "errors"} => metrics'[k] = metrics[k]
      BY <1>1, <3>1, Counted DEF CounterNames
    <3>4. \A k \in CounterNames : metrics[k] \in Nat /\ metrics'[k] \in Nat
      BY <1>1, <3>3
    <3>5. QED BY <3>1, <3>2, <3>3, <3>4 DEF CounterNames
  <2>3. QED BY <2>1, <2>2
<1>4. CounterTypes'
  BY <1>1, <1>2, <1>3, CallsKept DEF CounterTypes
<1>5. CountersAddUp'
  BY <1>1, <1>2, <1>3, CallsKept DEF CountersAddUp
<1>6. TableTypes' /\ RatesKept'
  BY <1>2, TablesKept DEF GatewayIInv
<1>7. QED BY <1>4, <1>5, <1>6 DEF GatewayIInv

\* The counters are kept.
LEMMA CountersKept ==
    ASSUME CounterTypes, CountersAddUp, UNCHANGED <<stream, metrics, call, smeared>>
    PROVE  CounterTypes' /\ CountersAddUp'
<1>1. UNCHANGED <<started, subscribed, message, metrics, call, smeared>>
  BY DEF stream
<1>2. CounterTypes'
  BY <1>1, CallsKept DEF CounterTypes
<1>3. CountersAddUp'
  BY <1>1, CallsKept DEF CountersAddUp
<1>4. QED BY <1>2, <1>3

LEMMA ResetStep ==
    ASSUME GatewayIInv, ResetMetrics
    PROVE  GatewayIInv'
<1>1. CounterTypes /\ CountersAddUp /\ metrics \in [CounterNames -> Nat] /\ message \in Nat
  BY DEF GatewayIInv, CounterTypes
<1>2. /\ metrics' = [c \in DOMAIN metrics |-> 0] /\ smeared' = (smeared \/ ~ Quiet)
      /\ UNCHANGED <<tables, stream, now, call>>
  BY DEF ResetMetrics
<1>3. metrics' \in [CounterNames -> Nat] /\ \A k \in CounterNames : metrics'[k] = 0
  BY <1>1, <1>2
<1>4. CounterTypes'
  BY <1>1, <1>2, <1>3, CallsKept DEF CounterTypes, stream
<1>5. CountersAddUp'
  <2>1. CASE ~ Quiet
    BY <1>2, <2>1 DEF CountersAddUp
  <2>2. CASE Quiet
    <3>1. message' = 0 /\ InFlight' = {}
      BY <1>1, <1>2, <2>2, CallsKept DEF Quiet, InFlight, stream
    <3>2. Cardinality(InFlight') = 0
      BY <3>1, FS_EmptySet
    <3>3. QED BY <1>3, <3>1, <3>2 DEF CountersAddUp, CounterNames
  <2>3. QED BY <2>1, <2>2
<1>6. TableTypes' /\ RatesKept'
  BY <1>2, TablesKept DEF GatewayIInv
<1>7. QED BY <1>4, <1>5, <1>6 DEF GatewayIInv

LEMMA GatewayCallStep ==
    ASSUME GatewayIInv, CallGateway
    PROVE  GatewayIInv'
<1>1. CASE \E t \in Callers : CallStep(t) \/ \E token \in Tokens : Request(t, token)
  BY <1>1, RequestStep, AuthorizeStep, SubmitStep, RecordStep DEF CallStep
<1>2. CASE StartGateway \/ StopGateway \/ Publish
  BY <1>2, StreamStep
<1>3. CASE OnMarketMessage \/ Decode
  BY <1>3, MessageStep
<1>4. CASE ResetMetrics
  BY <1>4, ResetStep
<1>5. CASE ChangeTokens \/ Clock
  <2>1. UNCHANGED <<stream, metrics, call, smeared>>
    BY <1>5 DEF ChangeTokens, Clock
  <2>2. CounterTypes' /\ CountersAddUp'
    BY <2>1, CountersKept DEF GatewayIInv
  <2>3. TableTypes' /\ RatesKept'
    BY <1>5, ChangeTokensKeeps, ClockKeeps DEF GatewayIInv
  <2>4. QED BY <2>2, <2>3 DEF GatewayIInv
<1>6. QED BY <1>1, <1>2, <1>3, <1>4, <1>5 DEF CallGateway

LEMMA GatewayInitHolds == GatewayInit => GatewayIInv
<1> SUFFICES ASSUME GatewayInit PROVE GatewayIInv
  OBVIOUS
<1>1. /\ MaxTime \in Nat \ {0} /\ Window \in Nat \ {0} /\ MaxRequests \in Nat /\ Ttl \in Nat
      /\ ApiToken \subseteq Tokens
  BY GatewayAssumption
<1>2. /\ now = 1 /\ expiry = [t \in ApiToken |-> IF Ttl = 0 THEN 0 ELSE now + Ttl]
      /\ windows = [t \in Tokens |-> [start |-> 0, requests |-> 0]]
      /\ admitted = [t \in Tokens |-> [n \in ClockTimes |-> 0]]
      /\ metrics = [c \in {Counters[i] : i \in DOMAIN Counters} |-> 0]
      /\ started = FALSE /\ subscribed = 0 /\ message = 0 /\ smeared = FALSE
      /\ call = [t \in Callers |-> NoCall]
  BY DEF GatewayInit, ClockTimes
<1>3. TableTypes
  <2>1. expiry \in [DOMAIN expiry -> Nat] /\ DOMAIN expiry \subseteq Tokens
    BY <1>1, <1>2
  <2>2. now \in ClockTimes
    BY <1>1, <1>2 DEF ClockTimes
  <2>3. windows \in [Tokens -> [start : 0 .. MaxTime, requests : 0 .. MaxRequests]]
    BY <1>1, <1>2
  <2>4. admitted \in [Tokens -> [ClockTimes -> Nat]]
    BY <1>2
  <2>5. QED BY <2>1, <2>2, <2>3, <2>4 DEF TableTypes
<1>4. RatesKept
  <2> SUFFICES ASSUME NEW token \in Tokens
               PROVE  WithinRate(windows[token], admitted[token]) /\ Begun(windows[token], admitted[token])
    BY DEF RatesKept
  <2>1. PICK w, times : w = windows[token] /\ times = admitted[token]
    OBVIOUS
  <2>2. w.start = 0 /\ w.requests = 0 /\ times \in [ClockTimes -> Nat] /\ \A k \in ClockTimes : times[k] = 0
    BY <1>2, <2>1
  <2>3. \A S \in SUBSET ClockTimes : Total(times, S) = 0
    BY <2>2, TotalOfNone
  <2>4. /\ Total(times, Since(w.start)) = 0 /\ Total(times, Leading(w.start)) = 0
        /\ \A from \in ClockTimes : Total(times, Span(from)) = 0
    BY <2>3, PartsOfTime
  <2>5. WithinRate(w, times)
    BY <1>1, <1>2, <2>2, <2>4 DEF WithinRate, Short
  <2>6. Begun(w, times)
    BY <2>2 DEF Begun
  <2>7. QED BY <2>1, <2>5, <2>6
<1>5. {Counters[i] : i \in DOMAIN Counters} = CounterNames
  <2>1. DOMAIN Counters = 1 .. 8
    BY DEF Counters
  <2>2. /\ Counters[1] = "ticks" /\ Counters[2] = "decoded" /\ Counters[3] = "errors"
        /\ Counters[4] = "requests" /\ Counters[5] = "accepted" /\ Counters[6] = "rejected"
        /\ Counters[7] = "unauthorized" /\ Counters[8] = "limited"
    BY DEF Counters
  <2>3. ASSUME NEW k \in CounterNames PROVE \E i \in 1 .. 8 : Counters[i] = k
    BY <2>2 DEF CounterNames
  <2>4. ASSUME NEW i \in 1 .. 8 PROVE Counters[i] \in CounterNames
    BY <2>2 DEF CounterNames
  <2>5. QED BY <2>1, <2>3, <2>4
<1>6. metrics \in [CounterNames -> Nat] /\ \A k \in CounterNames : metrics[k] = 0
  BY <1>2, <1>5
<1>7. InFlight = {} /\ IsFiniteSet(InFlight) /\ Cardinality(InFlight) = 0
  <2>1. InFlight = {}
    BY <1>2 DEF InFlight, NoCall
  <2>2. QED BY <2>1, FS_EmptySet
<1>8. CounterTypes
  <2>1. call \in [Callers -> Calls]
    BY <1>2 DEF Calls
  <2>2. QED BY <1>2, <1>6, <1>7, <2>1 DEF CounterTypes
<1>9. CountersAddUp
  BY <1>2, <1>6, <1>7 DEF CountersAddUp, CounterNames
<1>10. QED BY <1>3, <1>4, <1>8, <1>9 DEF GatewayIInv
-----------------------------------------------------------------------------
(* The gateway under the server's requests                                 *)

LEMMA HandledCounters ==
    ASSUME CounterTypes, CountersAddUp, UNCHANGED <<stream, call, smeared>>,
           metrics' \in [CounterNames -> Nat],
           metrics'.requests + metrics.accepted + metrics.rejected
             = metrics.requests + metrics'.accepted + metrics'.rejected,
           \A k \in {"ticks", "decoded", "errors"} : metrics'[k] = metrics[k]
    PROVE  CounterTypes' /\ CountersAddUp'
<1>1. UNCHANGED <<started, subscribed, message, call, smeared>> /\ metrics \in [CounterNames -> Nat]
  BY DEF stream, CounterTypes
<1>2. CounterTypes'
  BY <1>1, CallsKept DEF CounterTypes
<1>3. \A k \in CounterNames : metrics[k] \in Nat /\ metrics'[k] \in Nat
  BY <1>1
<1>4. ASSUME ~ smeared'
      PROVE  /\ metrics'.requests = metrics'.accepted + metrics'.rejected + Cardinality(InFlight')
             /\ metrics'.ticks = metrics'.decoded + metrics'.errors + (message' % 2)
  <2>1. /\ metrics.requests = metrics.accepted + metrics.rejected + Cardinality(InFlight)
        /\ metrics.ticks = metrics.decoded + metrics.errors + (message % 2)
    BY <1>1, <1>4 DEF CountersAddUp
  <2>2. InFlight' = InFlight /\ Cardinality(InFlight) \in Nat
    BY <1>1, CallsKept
  <2>3. PICK n : n = Cardinality(InFlight)
    OBVIOUS
  <2>4. metrics'.requests = metrics'.accepted + metrics'.rejected + n
    <3>1. /\ metrics.requests \in Nat /\ metrics.accepted \in Nat /\ metrics.rejected \in Nat
          /\ metrics'.requests \in Nat /\ metrics'.accepted \in Nat /\ metrics'.rejected \in Nat
      BY <1>3 DEF CounterNames
    <3>2. metrics.requests = metrics.accepted + metrics.rejected + n /\ n \in Nat
      BY <2>1, <2>2, <2>3
    <3>3. QED BY <3>1, <3>2
  <2>5. metrics'.ticks = metrics'.decoded + metrics'.errors + (message' % 2)
    BY <1>1, <2>1
  <2>6. QED BY <2>2, <2>3, <2>4, <2>5
<1>5. QED BY <1>2, <1>4 DEF CountersAddUp

LEMMA HandleKeepsGateway ==
    ASSUME GatewayIInv, NEW c \in Clients, Handle(c)
    PROVE  GatewayIInv'
<1>1. /\ CounterTypes /\ CountersAddUp /\ TableTypes /\ RatesKept /\ metrics \in [CounterNames -> Nat]
  BY DEF GatewayIInv, CounterTypes
<1>2. UNCHANGED <<stream, bounds, call, smeared>> /\ now' = now
  BY DEF Handle, bounds
<1>3. CASE UNCHANGED <<tables, metrics>>
  <2>1. CounterTypes' /\ CountersAddUp'
    BY <1>1, <1>2, <1>3, CountersKept
  <2>2. TableTypes' /\ RatesKept'
    BY <1>1, <1>2, <1>3, TablesKept
  <2>3. QED BY <2>1, <2>2 DEF GatewayIInv
<1>4. ASSUME NEW token \in Tokens, Admit(token, Authorized(token)), Count({Authorized(token).verdict})
      PROVE  GatewayIInv'
  <2>1. TableTypes' /\ RatesKept' /\ Authorized(token).verdict \in {"none", "unauthorized", "limited"}
    BY <1>1, <1>2, <1>4, AdmitKeeps
  <2>2. /\ metrics' \in [CounterNames -> Nat]
        /\ \A k \in CounterNames : k \notin {"unauthorized", "limited"} => metrics'[k] = metrics[k]
    BY <1>1, <1>4, <2>1, Counted DEF CounterNames
  <2>3. /\ metrics'.requests = metrics.requests /\ metrics'.accepted = metrics.accepted
        /\ metrics'.rejected = metrics.rejected
        /\ metrics.requests \in Nat /\ metrics.accepted \in Nat /\ metrics.rejected \in Nat
        /\ \A k \in {"ticks", "decoded", "errors"} : metrics'[k] = metrics[k]
    BY <1>1, <2>2 DEF CounterNames
  <2>4. CounterTypes' /\ CountersAddUp'
    <3>1. metrics'.requests + metrics.accepted + metrics.rejected
             = metrics.requests + metrics'.accepted + metrics'.rejected
      BY <2>3
    <3>2. QED BY <1>1, <1>2, <2>2, <2>3, <3>1, HandledCounters
  <2>5. QED BY <2>1, <2>4 DEF GatewayIInv
<1>5. ASSUME NEW token \in Tokens, Admit(token, Authorized(token)), NEW ok \in BOOLEAN,
             Count({"requests", IF ok THEN "accepted" ELSE "rejected", Authorized(token).verdict})
      PROVE  GatewayIInv'
  <2>1. TableTypes' /\ RatesKept' /\ Authorized(token).verdict \in {"none", "unauthorized", "limited"}
    BY <1>1, <1>2, <1>5, AdmitKeeps
  <2>2. PICK answer, verdict : /\ answer = (IF ok THEN "accepted" ELSE "rejected")
                               /\ verdict = Authorized(token).verdict
    OBVIOUS
  <2>3. /\ metrics' \in [CounterNames -> Nat]
        /\ \A k \in CounterNames : metrics'[k] =
             IF k \in {"requests", answer, verdict} THEN metrics[k] + 1 ELSE metrics[k]
    BY <1>1, <1>5, <2>2, Counted
  <2>4. answer \in {"accepted", "rejected"} /\ verdict \in {"none", "unauthorized", "limited"}
    BY <2>1, <2>2
  <2>5. /\ metrics'.requests = metrics.requests + 1
        /\ answer = "accepted" => metrics'.accepted = metrics.accepted + 1 /\ metrics'.rejected = metrics.rejected
        /\ answer = "rejected" => metrics'.accepted = metrics.accepted /\ metrics'.rejected = metrics.rejected + 1
        /\ metrics.requests \in Nat /\ metrics.accepted \in Nat /\ metrics.rejected \in Nat
        /\ \A k \in {"ticks", "decoded", "errors"} : metrics'[k] = metrics[k]
    BY <1>1, <2>3, <2>4 DEF CounterNames
  <2>6. CounterTypes' /\ CountersAddUp'
    <3>1. metrics'.requests + metrics.accepted + metrics.rejected
             = metrics.requests + metrics'.accepted + metrics'.rejected
      BY <2>4, <2>5
    <3>2. QED BY <1>1, <1>2, <2>3, <2>5, <3>1, HandledCounters
  <2>7. QED BY <2>1, <2>6 DEF GatewayIInv
<1>6. \/ UNCHANGED <<tables, metrics>>
      \/ \E token \in Tokens : Admit(token, Authorized(token)) /\ Count({Authorized(token).verdict})
      \/ \E token \in Tokens, ok \in BOOLEAN :
           /\ Admit(token, Authorized(token))
           /\ Count({"requests", IF ok THEN "accepted" ELSE "rejected", Authorized(token).verdict})
  <2>1. ASSUME NEW token \in Tokens, NEW taken \in BOOLEAN
        PROVE  (Authorized(token).verdict = "none" /\ taken) \in BOOLEAN
    OBVIOUS
  <2>2. QED BY <2>1 DEF Handle
<1>7. QED BY <1>3, <1>4, <1>5, <1>6
-----------------------------------------------------------------------------
(* The answers of a client                                                 *)

LEMMA UpgradedIsAnswer ==
    ASSUME NEW s \in Seq(Responses), Upgraded(s)
    PROVE  IsPrefixOfAnswer(s)
BY DEF Upgraded, IsPrefixOfAnswer

LEMMA NothingIsAnswer ==
    IsPrefixOfAnswer(<<>>) /\ ~ Upgraded(<<>>)
BY DEF Upgraded, IsPrefixOfAnswer

LEMMA FirstAnswer ==
    ASSUME NEW status \in Status \cup {"101"}
    PROVE  /\ IsPrefixOfAnswer(Append(<<>>, status))
           /\ status = "101" => Upgraded(Append(<<>>, status))
BY DEF Upgraded, IsPrefixOfAnswer

LEMMA FrameAnswer ==
    ASSUME NEW s \in Seq(Responses), Upgraded(s), NEW frame \in {"pong", "tick"}
    PROVE  Upgraded(Append(s, frame))
<1>1. /\ s # <<>> /\ s[1] = "101" /\ Len(s) \in Nat /\ Len(s) >= 1
      /\ \A i \in 2 .. Len(s) : s[i] \in {"pong", "tick"}
  BY DEF Upgraded
<1>2. /\ Len(Append(s, frame)) = Len(s) + 1 /\ Append(s, frame)[Len(s) + 1] = frame
      /\ \A i \in 1 .. Len(s) : Append(s, frame)[i] = s[i]
  OBVIOUS
<1>3. Append(s, frame) # <<>>
  BY <1>1, <1>2
<1>4. Append(s, frame)[1] = "101"
  BY <1>1, <1>2
<1>5. ASSUME NEW i \in 2 .. Len(Append(s, frame))
      PROVE  Append(s, frame)[i] \in {"pong", "tick"}
  <2>1. CASE i \in 2 .. Len(s)
    BY <1>1, <1>2, <2>1
  <2>2. CASE i = Len(s) + 1
    BY <1>2, <2>2
  <2>3. QED BY <1>1, <1>2, <2>1, <2>2
<1>6. QED BY <1>3, <1>4, <1>5 DEF Upgraded

LEMMA SentTypes ==
    ASSUME SocketTypes, NEW h \in Handles, NEW what \in Responses, got' = Sent(h, what)
    PROVE  /\ got' \in [Clients -> Seq(Responses)]
           /\ \A d \in Clients : d # socket[h] => got'[d] = got[d]
           /\ socket[h] # NoClient /\ socket[h] \notin gone =>
                got'[socket[h]] = Append(got[socket[h]], what)
           /\ socket[h] = NoClient \/ socket[h] \in gone => got' = got
<1>1. socket[h] \in Clients \cup {NoClient} /\ got \in [Clients -> Seq(Responses)]
  BY DEF SocketTypes
<1>2. CASE socket[h] = NoClient \/ socket[h] \in gone
  <2>1. got' = got
    BY <1>2 DEF Sent
  <2>2. QED BY <1>1, <1>2, <2>1
<1>3. CASE socket[h] # NoClient /\ socket[h] \notin gone
  <2>1. PICK d \in Clients : d = socket[h]
    BY <1>1, <1>3
  <2>2. PICK s \in Seq(Responses) : s = Append(got[d], what)
    <3>1. PICK r : r = got[d]
      OBVIOUS
    <3>2. r \in Seq(Responses)
      BY <1>1, <3>1
    <3>3. Append(r, what) \in Seq(Responses)
      BY <3>2
    <3>4. QED BY <3>1, <3>3
  <2>3. got' = [got EXCEPT ![d] = s]
    BY <1>3, <2>1, <2>2 DEF Sent
  <2>4. QED BY <1>1, <1>3, <2>1, <2>2, <2>3
<1>4. QED BY <1>2, <1>3

\* What a thread sends on its own connection is for its client.
LEMMA SentToOwn ==
    ASSUME SocketTypes, Owned, OwnHandles, NEW c \in Live, thread[c].fd \in Handles
    PROVE  socket[thread[c].fd] \in {c, NoClient}
<1>1. CASE socket[thread[c].fd] = NoClient
  BY <1>1
<1>2. CASE socket[thread[c].fd] # NoClient
  <2>1. PICK d : d = socket[thread[c].fd]
    OBVIOUS
  <2>2. d \in Live /\ thread[d].fd = thread[c].fd
    BY <1>2, <2>1 DEF Owned
  <2>3. QED BY <2>1, <2>2 DEF OwnHandles
<1>3. QED BY <1>1, <1>2
-----------------------------------------------------------------------------
(* The steps of a thread that keep its socket                              *)

LEMMA ThreadKeepsTypes ==
    ASSUME ThreadTypes, NEW c \in Live, NEW t \in Threads, thread' = [thread EXCEPT ![c] = t],
           t.fd = thread[c].fd, t.pc = "respond" => t.msg \in Status, t.pc \notin {"none", "done"}
    PROVE  /\ thread' \in [Clients -> Threads] /\ thread'[c] = t /\ Live' = Live
           /\ \A d \in Clients : thread'[d].fd = thread[d].fd /\ (d # c => thread'[d] = thread[d])
           /\ \A d \in Clients : /\ d \in Live' => thread'[d].fd \in Handles
                                 /\ thread'[d].pc = "respond" => thread'[d].msg \in Status
<1>1. thread \in [Clients -> Threads] /\ c \in Clients /\ thread[c].pc \notin {"none", "done"}
  BY DEF ThreadTypes, Live, At
<1>2. thread' \in [Clients -> Threads] /\ thread'[c] = t /\ \A d \in Clients : d # c => thread'[d] = thread[d]
  BY <1>1
<1>3. Live' = Live
  BY <1>1, <1>2 DEF Live, At
<1>4. \A d \in Clients : /\ d \in Live => thread[d].fd \in Handles
                         /\ thread[d].pc = "respond" => thread[d].msg \in Status
  BY DEF ThreadTypes, At
<1>5. QED BY <1>1, <1>2, <1>3, <1>4

\* A thread that uses another handle is served as before.
LEMMA OthersServed ==
    ASSUME NEW c, NEW d \in Clients, d # c, Served(d), OwnHandles, c \in Live,
           thread'[d] = thread[d], got'[d] = got[d],
           \A x \in DOMAIN conn : x # thread[c].fd => x \in DOMAIN conn' /\ conn'[x] = conn[x],
           \A x \in DOMAIN conn' : x # thread[c].fd => x \in DOMAIN conn
    PROVE  ServedBy(thread'[d], conn', got'[d])
<1>1. ServedBy(thread[d], conn, got[d])
  BY DEF Served
<1>2. CASE d \in Live
  <2>1. thread[d].fd # thread[c].fd
    BY <1>2 DEF OwnHandles
  <2>2. /\ thread[d].fd \in DOMAIN conn' <=> thread[d].fd \in DOMAIN conn
        /\ thread[d].fd \in DOMAIN conn => conn'[thread[d].fd] = conn[thread[d].fd]
    BY <2>1
  <2>3. QED BY <1>1, <2>2 DEF ServedBy
<1>3. CASE d \notin Live
  <2>1. thread[d].pc \in {"none", "done"}
    BY <1>3 DEF Live, At
  <2>2. QED BY <1>1, <2>1 DEF ServedBy
<1>4. QED BY <1>2, <1>3

LEMMA ThreadStep ==
    ASSUME ServerIInv, NEW c \in Live, NEW t \in Threads, thread' = [thread EXCEPT ![c] = t],
           t.fd = thread[c].fd, t.pc = "respond" => t.msg \in Status, t.pc \notin {"none", "done"},
           conn' \in [DOMAIN conn' -> Connections], DOMAIN conn' \subseteq DOMAIN conn,
           \A x \in DOMAIN conn : x # t.fd => x \in DOMAIN conn' /\ conn'[x] = conn[x],
           inbox' \in [Clients -> Seq(Messages)], got' \in [Clients -> Seq(Responses)],
           LimitTypes', UNCHANGED <<socket, control, cast, shared>>,
           ~ shared => /\ ServedBy(t, conn', got'[c])
                       /\ Upgraded(got[c]) => Upgraded(got'[c])
                       /\ \A d \in Clients : d # c => got'[d] = got[d]
    PROVE  ServerIInv'
<1>1. SocketTypes /\ ThreadTypes /\ Owned /\ Ended /\ (~ shared => ServedInOrder)
  BY DEF ServerIInv
<1>2. SocketTypes'
  BY <1>1 DEF SocketTypes
<1>3. /\ thread' \in [Clients -> Threads] /\ thread'[c] = t /\ Live' = Live
      /\ \A d \in Clients : thread'[d].fd = thread[d].fd /\ (d # c => thread'[d] = thread[d])
      /\ \A d \in Clients : /\ d \in Live' => thread'[d].fd \in Handles
                            /\ thread'[d].pc = "respond" => thread'[d].msg \in Status
  BY <1>1, ThreadKeepsTypes
<1>4. DOMAIN conn' \subseteq Handles /\ IsFiniteSet(DOMAIN conn')
  <2>1. IsFiniteSet(DOMAIN conn) /\ DOMAIN conn \subseteq Handles
    BY <1>1 DEF ThreadTypes
  <2>2. QED BY <2>1, FS_Subset
<1>5. ThreadTypes'
  BY <1>3, <1>4 DEF ThreadTypes, At
<1>6. Owned'
  <2>1. \A h \in Handles : socket[h] # NoClient => socket[h] \in Live /\ thread[socket[h]].fd = h
    BY <1>1 DEF Owned
  <2>2. Live \subseteq Clients
    BY DEF Live
  <2>3. QED BY <1>3, <2>1, <2>2 DEF Owned
<1>7. Ended'
  BY <1>1 DEF Ended
<1>8. ASSUME ~ shared
      PROVE  ServedInOrder'
  <2>1. OwnHandles /\ (\A d \in Clients : Served(d)) /\ CastToUpgraded
    BY <1>1, <1>8 DEF ServedInOrder
  <2>2. OwnHandles'
    <3>1. Live \subseteq Clients
      BY DEF Live
    <3>2. QED BY <1>3, <2>1, <3>1 DEF OwnHandles
  <2>3. ASSUME NEW d \in Clients
        PROVE  Served(d)'
    <3>1. CASE d = c
      BY <1>3, <1>8, <3>1 DEF Served
    <3>2. CASE d # c
      <4>1. thread'[d] = thread[d] /\ got'[d] = got[d]
        BY <1>3, <1>8, <3>2
      <4>2. ServedBy(thread'[d], conn', got'[d])
        BY <2>1, <3>2, <4>1, OthersServed
      <4>3. QED BY <4>2 DEF Served
    <3>3. QED BY <3>1, <3>2
  <2>4. CastToUpgraded'
    <3>1. \A i \in 1 .. Len(cast) : socket[cast[i]] # NoClient => Upgraded(got[socket[cast[i]]])
      BY <2>1 DEF CastToUpgraded
    <3>2. \A i \in 1 .. Len(cast) : cast[i] \in Handles
      BY <1>1 DEF SocketTypes
    <3>3. \A h \in Handles : socket[h] # NoClient => socket[h] \in Clients
      BY <1>1 DEF SocketTypes
    <3>4. \A d \in Clients : Upgraded(got[d]) => Upgraded(got'[d])
      <4>1. TAKE d \in Clients
      <4>2. CASE d = c
        BY <1>8, <4>2
      <4>3. CASE d # c
        BY <1>8, <4>3
      <4>4. QED BY <4>2, <4>3
    <3>5. ASSUME NEW i \in 1 .. Len(cast), socket[cast[i]] # NoClient
          PROVE  Upgraded(got'[socket[cast[i]]])
      <4>1. Upgraded(got[socket[cast[i]]]) /\ socket[cast[i]] \in Clients
        BY <3>1, <3>2, <3>3, <3>5
      <4>2. QED BY <3>4, <4>1
    <3>6. QED BY <3>5 DEF CastToUpgraded
  <2>5. QED BY <2>2, <2>3, <2>4 DEF ServedInOrder
<1>9. QED BY <1>2, <1>5, <1>6, <1>7, <1>8 DEF ServerIInv
-----------------------------------------------------------------------------
(* Receiving and handling                                                  *)

\* The parts of ServedBy that do not name the entry of the connection.
LEMMA Standing ==
    ASSUME ServerIInv, NEW c \in Live
    PROVE  /\ c \in Clients /\ thread[c] \in Threads /\ thread[c].fd \in Handles
           /\ thread[c].pc \in Stages \ {"none", "done"}
           /\ thread \in [Clients -> Threads] /\ got[c] \in Seq(Responses)
           /\ conn \in [DOMAIN conn -> Connections]
           /\ inbox \in [Clients -> Seq(Messages)] /\ got \in [Clients -> Seq(Responses)]
           /\ SocketTypes /\ LimitTypes
           /\ ~ shared => ServedBy(thread[c], conn, got[c]) /\ OwnHandles /\ Owned
<1>1. c \in Clients /\ thread[c].pc \notin {"none", "done"}
  BY DEF Live, At
<1>2. SocketTypes /\ ThreadTypes /\ LimitTypes /\ Owned /\ (~ shared => ServedInOrder)
  BY DEF ServerIInv
<1>3. thread \in [Clients -> Threads] /\ thread[c].fd \in Handles /\ conn \in [DOMAIN conn -> Connections]
  BY <1>1, <1>2 DEF ThreadTypes
<1>4. thread[c] \in Threads /\ thread[c].pc \in Stages
  BY <1>1, <1>3 DEF Threads
<1>5. inbox \in [Clients -> Seq(Messages)] /\ got \in [Clients -> Seq(Responses)]
  BY <1>2 DEF SocketTypes
<1>6. ~ shared => ServedBy(thread[c], conn, got[c]) /\ OwnHandles /\ Owned
  BY <1>1, <1>2 DEF ServedInOrder, Served
<1>7. QED BY <1>1, <1>2, <1>3, <1>4, <1>5, <1>6

\* A thread that goes on.
LEMMA GoesTo ==
    ASSUME ServerIInv, NEW c \in Live, NEW stage \in Stages, Go(c, stage)
    PROVE  \E t \in Threads : /\ thread' = [thread EXCEPT ![c] = t]
                              /\ t.pc = stage /\ t.fd = thread[c].fd /\ t.msg = thread[c].msg
<1>1. thread \in [Clients -> Threads] /\ c \in Clients /\ thread[c] \in Threads
  BY Standing
<1> DEFINE t == [thread[c] EXCEPT !.pc = stage]
<1>2. t \in Threads /\ t.pc = stage /\ t.fd = thread[c].fd /\ t.msg = thread[c].msg
  BY <1>1 DEF Threads
<1>3. thread' = [thread EXCEPT ![c] = t]
  BY DEF Go
<1>4. QED BY <1>2, <1>3

\* A step of a thread that only goes on.
LEMMA JustGoes ==
    ASSUME ServerIInv, NEW c \in Live, NEW stage \in Stages \ {"none", "done", "respond"}, Go(c, stage),
           UNCHANGED <<life, limits, net, conn, cast, shared>>,
           ~ shared => \A t : /\ ServedBy(thread[c], conn, got[c])
                              /\ t.pc = stage /\ t.fd = thread[c].fd
                              => ServedBy(t, conn, got[c])
    PROVE  ServerIInv'
<1>1. PICK t \in Threads : thread' = [thread EXCEPT ![c] = t] /\ t.pc = stage /\ t.fd = thread[c].fd
  BY GoesTo
<1>2. /\ conn \in [DOMAIN conn -> Connections] /\ LimitTypes
      /\ inbox \in [Clients -> Seq(Messages)] /\ got \in [Clients -> Seq(Responses)]
      /\ ~ shared => ServedBy(thread[c], conn, got[c])
  BY Standing
<1>3. LimitTypes'
  BY <1>2 DEF LimitTypes, limits, life
<1>4. ~ shared => ServedBy(t, conn, got[c])
  BY <1>1, <1>2
<1>5. UNCHANGED <<conn, inbox, got, socket, control, cast, shared>>
  BY DEF life, net
<1>6. ~ shared => ServedBy(t, conn', got'[c])
  BY <1>4, <1>5
<1>7. QED BY <1>1, <1>2, <1>3, <1>5, <1>6, ThreadStep

LEMMA WithBuffer ==
    ASSUME NEW e \in Connections, NEW messages \in Seq(Messages)
    PROVE  /\ [e EXCEPT !.buffer = messages] \in Connections
           /\ [e EXCEPT !.buffer = messages].ws = e.ws /\ e.ws \in BOOLEAN
BY DEF Connections

LEMMA Joined ==
    ASSUME NEW a \in Seq(Messages), NEW b \in Seq(Messages)
    PROVE  a \o b \in Seq(Messages)
OBVIOUS

LEMMA FirstMessage ==
    ASSUME NEW s \in Seq(Messages), s # <<>>
    PROVE  Head(s) \in Messages /\ Tail(s) \in Seq(Messages)
OBVIOUS

LEMMA RecvStep ==
    ASSUME ServerIInv, NEW c \in Clients, Recv(c)
    PROVE  ServerIInv'
<1> DEFINE h == thread[c].fd
           peer == socket[h]
<1>1. c \in Live /\ thread[c].pc = "recv"
  BY Zenon DEF Recv, Live, At
<1>2. /\ UNCHANGED <<life, limits, socket, got, gone, cast, shared>>
  BY Zenon DEF Recv
<1>3. /\ thread[c] \in Threads /\ h \in Handles /\ thread \in [Clients -> Threads]
      /\ conn \in [DOMAIN conn -> Connections] /\ LimitTypes /\ SocketTypes
      /\ inbox \in [Clients -> Seq(Messages)] /\ got \in [Clients -> Seq(Responses)]
      /\ ~ shared => ServedBy(thread[c], conn, got[c])
  BY <1>1, Standing
<1>4. LimitTypes'
  BY <1>2, <1>3 DEF LimitTypes, limits, life
<1>5. UNCHANGED <<socket, control, cast, shared, got>>
  BY <1>2 DEF life
<1>6. ASSUME NEW t, ServedBy(thread[c], conn, got[c]), t.fd = h, t.pc = "lastErase"
      PROVE  ServedBy(t, conn, got[c])
  BY <1>1, <1>6 DEF ServedBy
<1>7. CASE Go(c, "lastErase") /\ UNCHANGED conn /\ inbox' \in [Clients -> Seq(Messages)]
  <2>1. PICK t \in Threads : thread' = [thread EXCEPT ![c] = t] /\ t.pc = "lastErase" /\ t.fd = h
    BY <1>1, <1>7, GoesTo DEF Stages
  <2>2. ~ shared => ServedBy(t, conn', got'[c])
    BY <1>3, <1>5, <1>6, <1>7, <2>1
  <2>3. QED BY <1>1, <1>3, <1>4, <1>5, <1>7, <2>1, <2>2, ThreadStep
<1>8. CASE Go(c, "lastErase") /\ UNCHANGED <<inbox, conn>>
  BY <1>3, <1>7, <1>8
<1>9. ASSUME peer # NoClient, NEW n \in 1 .. Len(inbox[peer]),
             inbox' = [inbox EXCEPT ![peer] = SubSeq(@, n + 1, Len(@))],
             IF h \notin DOMAIN conn THEN Go(c, "lastErase") /\ UNCHANGED conn
             ELSE /\ conn' = [conn EXCEPT ![h].buffer = @ \o SubSeq(inbox[peer], 1, n)]
                  /\ Go(c, IF conn[h].ws THEN "ws" ELSE "http")
      PROVE  ServerIInv'
  <2>1. PICK sent \in Seq(Messages) : sent = inbox[peer]
    <3>1. peer \in Clients
      <4>1. socket \in [Handles -> Clients \cup {NoClient}]
        BY <1>3 DEF SocketTypes
      <4>2. QED BY <1>3, <1>9, <4>1
    <3>2. QED BY <1>3, <3>1
  <2>2. SubSeq(sent, n + 1, Len(sent)) \in Seq(Messages) /\ SubSeq(sent, 1, n) \in Seq(Messages)
    BY <1>9, <2>1
  <2>3. inbox' \in [Clients -> Seq(Messages)]
    <3>1. PICK rest \in Seq(Messages) : rest = SubSeq(sent, n + 1, Len(sent))
      BY <2>2
    <3>2. inbox' = [inbox EXCEPT ![peer] = rest]
      BY <1>9, <2>1, <3>1
    <3>3. QED BY <1>3, <3>2
  <2>4. CASE h \notin DOMAIN conn
    BY <1>7, <1>9, <2>3, <2>4
  <2>5. CASE h \in DOMAIN conn
    <3>1. conn[h] \in Connections
      BY <1>3, <2>5
    <3> DEFINE e == [conn[h] EXCEPT !.buffer = @ \o SubSeq(sent, 1, n)]
               stage == IF conn[h].ws THEN "ws" ELSE "http"
    <3>2. e \in Connections /\ e.ws = conn[h].ws
      <4>1. PICK old \in Seq(Messages) : old = conn[h].buffer
        BY <3>1 DEF Connections
      <4>2. PICK part \in Seq(Messages) : part = SubSeq(sent, 1, n)
        BY <2>2
      <4>3. PICK all \in Seq(Messages) : all = old \o part
        BY <4>1, <4>2, Joined
      <4>4. e = [conn[h] EXCEPT !.buffer = all]
        BY <4>1, <4>2, <4>3
      <4>5. QED BY <3>1, <4>4, WithBuffer
    <3>3. conn' = [conn EXCEPT ![h] = e] /\ Go(c, stage)
      BY <1>9, <2>1, <2>5
    <3> HIDE DEF e
    <3>4. /\ DOMAIN conn' = DOMAIN conn /\ conn' \in [DOMAIN conn' -> Connections] /\ conn'[h] = e
          /\ \A x \in DOMAIN conn : x # h => conn'[x] = conn[x]
      BY <1>3, <2>5, <3>2, <3>3
    <3>5. stage \in Stages
      BY DEF Stages
    <3> HIDE DEF stage
    <3>6. PICK t \in Threads : thread' = [thread EXCEPT ![c] = t] /\ t.pc = stage /\ t.fd = h
      BY <1>1, <3>3, <3>5, GoesTo
    <3>7. ASSUME ~ shared
          PROVE  ServedBy(t, conn', got'[c])
      <4>1. /\ conn[h].ws => Upgraded(got[c])
            /\ ~ conn[h].ws => got[c] = <<>>
            /\ IsPrefixOfAnswer(got[c]) /\ conn[h].ws \in BOOLEAN
        BY <1>1, <1>3, <2>5, <3>1, <3>7 DEF ServedBy, Connections
      <4>2. QED BY <1>5, <2>5, <3>2, <3>4, <3>6, <4>1 DEF ServedBy, stage
    <3>8. t.pc \in {"ws", "http"}
      BY <3>6 DEF stage
    <3>9. QED BY <1>1, <1>3, <1>4, <1>5, <2>3, <3>4, <3>6, <3>7, <3>8, ThreadStep
  <2>6. QED BY <2>4, <2>5
<1>10. QED BY <1>8, <1>9, Zenon DEF Recv

LEMMA TakeStep ==
    ASSUME ServerIInv, NEW c \in Clients, TakeMessage(c)
    PROVE  ServerIInv'
<1> DEFINE h == thread[c].fd
<1>1. c \in Live /\ thread[c].pc \in {"http", "ws"}
  BY DEF TakeMessage, Live, At
<1>2. UNCHANGED <<life, limits, net, cast, shared>>
  BY DEF TakeMessage
<1>3. /\ thread[c] \in Threads /\ h \in Handles /\ thread \in [Clients -> Threads]
      /\ conn \in [DOMAIN conn -> Connections] /\ LimitTypes
      /\ inbox \in [Clients -> Seq(Messages)] /\ got \in [Clients -> Seq(Responses)]
      /\ ~ shared => ServedBy(thread[c], conn, got[c])
  BY <1>1, Standing
<1>4. LimitTypes' /\ UNCHANGED <<inbox, got, socket, control, cast, shared>>
  BY <1>2, <1>3 DEF LimitTypes, limits, life, net
<1>5. CASE h \notin DOMAIN conn
  <2>1. Go(c, "check") /\ UNCHANGED conn
    BY <1>5 DEF TakeMessage
  <2>2. ASSUME NEW t, ServedBy(thread[c], conn, got[c]), t.pc = "check", t.fd = h
        PROVE  ServedBy(t, conn, got[c])
    BY <1>5, <2>2 DEF ServedBy
  <2>3. QED BY <1>1, <1>2, <2>1, <2>2, JustGoes DEF Stages
<1>6. CASE h \in DOMAIN conn /\ conn[h].buffer = <<>>
  <2>1. Go(c, "recv") /\ UNCHANGED conn
    BY <1>6 DEF TakeMessage
  <2>2. conn[h].ws \in BOOLEAN
    BY <1>3, <1>6 DEF Connections
  <2>3. ASSUME NEW t, ServedBy(thread[c], conn, got[c]), t.pc = "recv", t.fd = h
        PROVE  ServedBy(t, conn, got[c])
    BY <1>1, <1>6, <2>2, <2>3 DEF ServedBy
  <2>4. QED BY <1>1, <1>2, <2>1, <2>3, JustGoes DEF Stages
<1>7. CASE h \in DOMAIN conn /\ conn[h].buffer # <<>>
  <2>1. conn[h] \in Connections /\ conn[h].ws \in BOOLEAN
    BY <1>3, <1>7 DEF Connections
  <2>2. PICK old \in Seq(Messages) : old = conn[h].buffer
    BY <2>1 DEF Connections
  <2>3. old # <<>>
    BY <1>7, <2>2
  <2>4. PICK msg \in Messages : msg = Head(old)
    BY <2>2, <2>3, FirstMessage
  <2>5. PICK rest \in Seq(Messages) : rest = Tail(old)
    BY <2>2, <2>3, FirstMessage
  <2> DEFINE stage == IF At(c, {"http"}) THEN "handle" ELSE "frame"
             t == [thread[c] EXCEPT !.msg = msg, !.pc = stage]
             e == [conn[h] EXCEPT !.buffer = rest]
  <2>6. thread' = [thread EXCEPT ![c].msg = msg, ![c].pc = stage] /\ conn' = [conn EXCEPT ![h] = e]
    BY <1>7, <2>2, <2>4, <2>5 DEF TakeMessage
  <2>7. thread' = [thread EXCEPT ![c] = t]
    BY <1>1, <1>3, <2>6 DEF Live
  <2>8. t \in Threads /\ t.fd = h /\ t.pc = stage
    BY <1>3, <2>4 DEF Threads, Stages
  <2>9. e \in Connections /\ e.ws = conn[h].ws
    BY <2>1, <2>5, WithBuffer
  <2>10. t.pc \in {"handle", "frame"} /\ (t.pc = "handle" <=> thread[c].pc = "http")
    BY <1>1, <2>8 DEF At
  <2> HIDE DEF e, t
  <2>11. /\ DOMAIN conn' = DOMAIN conn /\ conn' \in [DOMAIN conn' -> Connections] /\ conn'[h] = e
         /\ \A x \in DOMAIN conn : x # h => conn'[x] = conn[x]
    BY <1>3, <1>7, <2>6, <2>9
  <2>12. ASSUME ~ shared
         PROVE  ServedBy(t, conn', got'[c])
    <3>1. /\ conn[h].ws => Upgraded(got[c]) /\ thread[c].pc = "ws"
          /\ ~ conn[h].ws => thread[c].pc = "http" /\ got[c] = <<>>
          /\ IsPrefixOfAnswer(got[c])
      BY <1>1, <1>3, <1>7, <2>1, <2>12 DEF ServedBy
    <3>2. QED BY <1>4, <1>7, <2>1, <2>8, <2>9, <2>10, <2>11, <3>1 DEF ServedBy
  <2>13. QED BY <1>1, <1>3, <1>4, <2>7, <2>8, <2>10, <2>11, <2>12, ThreadStep
<1>8. QED BY <1>5, <1>6, <1>7

\* What the limit of the address leaves of its window.
LEMMA IpWindowTypes ==
    ASSUME LimitTypes, now \in ClockTimes
    PROVE  /\ IpConsumed.window \in [start : 0 .. MaxTime, requests : 0 .. maxPerIp]
BY ServerAssumption, GatewayAssumption DEF LimitTypes, IpConsumed, Consumed, ClockTimes

\* A request is handled before anything was answered.
LEMMA HandleStep ==
    ASSUME ServerIInv, now \in ClockTimes, NEW c \in Clients, Handle(c)
    PROVE  ServerIInv'
<1> DEFINE h == thread[c].fd
<1>1. c \in Live /\ thread[c].pc = "handle"
  BY DEF Handle, Live, At
<1>2. /\ UNCHANGED <<life, maxPerIp, net, conn, cast, shared>>
      /\ ipWindow' \in {IpConsumed.window, ipWindow}
  BY DEF Handle
<1>3. /\ thread[c] \in Threads /\ h \in Handles /\ thread \in [Clients -> Threads]
      /\ conn \in [DOMAIN conn -> Connections] /\ LimitTypes
      /\ inbox \in [Clients -> Seq(Messages)] /\ got \in [Clients -> Seq(Responses)]
      /\ ~ shared => ServedBy(thread[c], conn, got[c])
  BY <1>1, Standing
<1>4. UNCHANGED <<inbox, got, socket, control, closing, cast, shared, conn>>
  BY <1>2 DEF life, net
<1>5. LimitTypes'
  <2>1. ipWindow' \in [start : 0 .. MaxTime, requests : 0 .. maxPerIp]
    BY <1>2, <1>3, IpWindowTypes DEF LimitTypes
  <2>2. QED BY <1>2, <1>3, <1>4, <2>1 DEF LimitTypes
<1>6. ASSUME NEW status \in Status \cup {"101"}, NEW stage \in {"respond", "accept"},
             stage = "respond" => status \in Status,
             thread' = [thread EXCEPT ![c].msg = status, ![c].pc = stage]
      PROVE  ServerIInv'
  <2> DEFINE t == [thread[c] EXCEPT !.msg = status, !.pc = stage]
  <2>1. thread' = [thread EXCEPT ![c] = t]
    BY <1>1, <1>3, <1>6 DEF Live
  <2>2. t \in Threads /\ t.fd = h /\ t.pc = stage /\ t.msg = status
    BY <1>3, <1>6 DEF Threads, Stages, Responses
  <2> HIDE DEF t
  <2>3. ASSUME ~ shared
        PROVE  ServedBy(t, conn', got'[c])
    BY <1>1, <1>3, <1>4, <1>6, <2>2, <2>3, NothingIsAnswer DEF ServedBy
  <2>4. QED BY <1>1, <1>3, <1>4, <1>5, <1>6, <2>1, <2>2, <2>3, ThreadStep
<1>7. ASSUME NEW token \in Tokens
      PROVE  Authorized(token).verdict \in {"none", "limited", "unauthorized"}
  BY DEF Authorized
<1> DEFINE Answered(status, stage) ==
             thread' = [thread EXCEPT ![c].msg = status, ![c].pc = stage]
<1>8. ASSUME NEW status \in Status, Answered(status, "respond")
      PROVE  ServerIInv'
  BY <1>6, <1>8
<1>9. ASSUME Answered("101", "accept")
      PROVE  ServerIInv'
  BY <1>6, <1>9
<1>10. \/ Answered("429", "respond") \/ Answered("422", "respond")
       \/ Answered("200", "respond")
       \/ Answered(Answer(thread[c].msg), "respond")
       \/ \E token \in Tokens :
            LET a == Authorized(token) IN
            Answered(Verdict(a), IF a.verdict = "none" THEN "accept" ELSE "respond")
       \/ \E token \in Tokens : Authorized(token).verdict # "none" /\ Answered(Verdict(Authorized(token)), "respond")
  <2> HIDE DEF Answered
  <2>1. \/ Answered("429", "respond")
        \/ Answered(Answer(thread[c].msg), "respond")
        \/ \E token \in Tokens :
             Answered(Verdict(Authorized(token)),
                      IF Authorized(token).verdict = "none" THEN "accept" ELSE "respond")
        \/ Answered("422", "respond")
        \/ \E token \in Tokens, taken \in BOOLEAN :
             Answered(IF Authorized(token).verdict = "none" /\ ~ taken THEN "422"
                      ELSE IF Authorized(token).verdict = "none" /\ taken THEN "200"
                      ELSE Verdict(Authorized(token)), "respond")
    BY DEF Handle, Answered
  <2>2. ASSUME NEW token \in Tokens, NEW taken \in BOOLEAN,
               Answered(IF Authorized(token).verdict = "none" /\ ~ taken THEN "422"
                        ELSE IF Authorized(token).verdict = "none" /\ taken THEN "200"
                        ELSE Verdict(Authorized(token)), "respond")
        PROVE  \/ Answered("422", "respond") \/ Answered("200", "respond")
               \/ Authorized(token).verdict # "none" /\ Answered(Verdict(Authorized(token)), "respond")
    <3>1. CASE Authorized(token).verdict = "none" /\ taken
      BY <2>2, <3>1
    <3>2. CASE Authorized(token).verdict = "none" /\ ~ taken
      BY <2>2, <3>2
    <3>3. CASE Authorized(token).verdict # "none"
      BY <2>2, <3>3
    <3>4. QED BY <3>1, <3>2, <3>3
  <2>3. QED BY <2>1, <2>2
<1>11. Answer(thread[c].msg) \in Status
  BY DEF Answer, Status
<1>12. ASSUME NEW token \in Tokens
       PROVE  /\ Authorized(token).verdict = "none" => Verdict(Authorized(token)) = "101"
              /\ Authorized(token).verdict # "none" => Verdict(Authorized(token)) \in Status
  BY <1>7 DEF Verdict, Status
<1>13. ASSUME NEW token \in Tokens,
              Answered(Verdict(Authorized(token)), IF Authorized(token).verdict = "none" THEN "accept" ELSE "respond")
       PROVE  ServerIInv'
  <2> HIDE DEF Answered
  <2>1. CASE Authorized(token).verdict = "none"
    BY <1>9, <1>12, <1>13, <2>1
  <2>2. CASE Authorized(token).verdict # "none"
    BY <1>8, <1>12, <1>13, <2>2
  <2>3. QED BY <2>1, <2>2
<1>14. QED
  <2> HIDE DEF Answered
  <2>1. {"429", "422", "200"} \subseteq Status
    BY DEF Status
  <2>2. QED BY <1>8, <1>10, <1>11, <1>12, <1>13, <2>1
-----------------------------------------------------------------------------
(* Answering                                                               *)

\* What a send on the own connection of a thread does to the answers.
LEMMA OwnAnswers ==
    ASSUME ServerIInv, NEW c \in Live, NEW what \in Responses, got' = Sent(thread[c].fd, what)
    PROVE  /\ got' \in [Clients -> Seq(Responses)]
           /\ ~ shared => \A d \in Clients : d # c => got'[d] = got[d]
           /\ ~ shared => \/ /\ socket[thread[c].fd] = c /\ c \notin gone
                             /\ got'[c] = Append(got[c], what)
                          \/ /\ socket[thread[c].fd] = NoClient \/ socket[thread[c].fd] \in gone
                             /\ got' = got
<1>1. /\ SocketTypes /\ thread[c].fd \in Handles /\ c \in Clients
      /\ ~ shared => OwnHandles /\ Owned
  BY Standing
<1>2. /\ got' \in [Clients -> Seq(Responses)]
      /\ \A d \in Clients : d # socket[thread[c].fd] => got'[d] = got[d]
      /\ socket[thread[c].fd] # NoClient /\ socket[thread[c].fd] \notin gone =>
           got'[socket[thread[c].fd]] = Append(got[socket[thread[c].fd]], what)
      /\ socket[thread[c].fd] = NoClient \/ socket[thread[c].fd] \in gone => got' = got
  BY <1>1, SentTypes
<1>3. ~ shared => socket[thread[c].fd] \in {c, NoClient}
  BY <1>1, SentToOwn
<1>4. ASSUME ~ shared
      PROVE  \A d \in Clients : d # c => got'[d] = got[d]
  <2>1. CASE socket[thread[c].fd] = c
    BY <1>2, <2>1
  <2>2. CASE socket[thread[c].fd] = NoClient
    BY <1>2, <2>2
  <2>3. QED BY <1>3, <1>4, <2>1, <2>2
<1>5. ASSUME ~ shared
      PROVE  \/ /\ socket[thread[c].fd] = c /\ c \notin gone
                /\ got'[c] = Append(got[c], what)
             \/ /\ socket[thread[c].fd] = NoClient \/ socket[thread[c].fd] \in gone
                /\ got' = got
  <2>1. CASE socket[thread[c].fd] = NoClient \/ socket[thread[c].fd] \in gone
    BY <1>2, <2>1
  <2>2. CASE socket[thread[c].fd] # NoClient /\ socket[thread[c].fd] \notin gone
    <3>1. socket[thread[c].fd] = c
      BY <1>3, <1>5, <2>2
    <3>2. QED BY <1>2, <2>2, <3>1
  <2>3. QED BY <2>1, <2>2
<1>6. QED BY <1>2, <1>4, <1>5

\* A step of a thread that changes at most the answers of its client.
LEMMA AnswerStep ==
    ASSUME ServerIInv, NEW c \in Live, NEW stage \in Stages \ {"none", "done", "respond"}, Go(c, stage),
           UNCHANGED <<life, limits, socket, inbox, gone, conn, cast, shared>>,
           got' \in [Clients -> Seq(Responses)],
           ~ shared => /\ \A t : t.pc = stage /\ t.fd = thread[c].fd => ServedBy(t, conn, got'[c])
                       /\ Upgraded(got[c]) => Upgraded(got'[c])
                       /\ \A d \in Clients : d # c => got'[d] = got[d]
    PROVE  ServerIInv'
<1>1. PICK t \in Threads : thread' = [thread EXCEPT ![c] = t] /\ t.pc = stage /\ t.fd = thread[c].fd
  BY GoesTo
<1>2. /\ conn \in [DOMAIN conn -> Connections] /\ LimitTypes /\ inbox \in [Clients -> Seq(Messages)]
  BY Standing
<1>3. LimitTypes'
  BY <1>2 DEF LimitTypes, limits, life
<1>4. UNCHANGED <<conn, inbox, socket, control, cast, shared>>
  BY DEF life
<1>5. ~ shared => ServedBy(t, conn', got'[c])
  BY <1>1, <1>4
<1>6. QED BY <1>1, <1>2, <1>3, <1>4, <1>5, ThreadStep

LEMMA SwitchStep ==
    ASSUME ServerIInv, NEW c \in Clients, Switch(c)
    PROVE  ServerIInv'
<1> DEFINE h == thread[c].fd
           stage == IF socket[h] = NoClient \/ socket[h] \in gone THEN "erase" ELSE "switch"
<1>1. c \in Live /\ thread[c].pc = "accept"
  BY DEF Switch, Live, At
<1>2. /\ UNCHANGED <<life, limits, socket, inbox, gone, conn, cast, shared>>
      /\ got' = Sent(h, "101") /\ Go(c, stage)
  BY DEF Switch
<1>3. "101" \in Responses /\ stage \in Stages \ {"none", "done", "respond"}
  BY DEF Responses, Stages
<1>4. /\ got' \in [Clients -> Seq(Responses)]
      /\ ~ shared => \A d \in Clients : d # c => got'[d] = got[d]
      /\ ~ shared => \/ socket[h] = c /\ c \notin gone /\ got'[c] = Append(got[c], "101")
                     \/ (socket[h] = NoClient \/ socket[h] \in gone) /\ got' = got
  BY <1>1, <1>2, <1>3, OwnAnswers
<1>5. ~ shared => ServedBy(thread[c], conn, got[c])
  BY <1>1, Standing
<1>6. ASSUME ~ shared
      PROVE  /\ got[c] = <<>>
             /\ h \in DOMAIN conn => ~ conn[h].ws
             /\ stage = "switch" => Upgraded(got'[c])
             /\ IsPrefixOfAnswer(got'[c])
  <2>1. got[c] = <<>> /\ (h \in DOMAIN conn => ~ conn[h].ws)
    BY <1>1, <1>5, <1>6, NothingIsAnswer DEF ServedBy
  <2>2. CASE socket[h] = c /\ c \notin gone /\ got'[c] = Append(got[c], "101")
    BY <2>1, <2>2, FirstAnswer
  <2>3. CASE (socket[h] = NoClient \/ socket[h] \in gone) /\ got' = got
    BY <2>1, <2>3, NothingIsAnswer
  <2>4. QED BY <1>4, <1>6, <2>1, <2>2, <2>3
<1>7. ASSUME ~ shared, NEW t, t.pc = stage, t.fd = h
      PROVE  ServedBy(t, conn, got'[c])
  BY <1>6, <1>7 DEF ServedBy
<1>8. ~ shared => ~ Upgraded(got[c])
  BY <1>6, NothingIsAnswer
<1> HIDE DEF stage
<1>9. QED BY <1>1, <1>2, <1>3, <1>4, <1>7, <1>8, AnswerStep

LEMMA RespondStep ==
    ASSUME ServerIInv, NEW c \in Clients, Respond(c)
    PROVE  ServerIInv'
<1> DEFINE h == thread[c].fd
<1>1. c \in Live /\ thread[c].pc = "respond"
  BY DEF Respond, Live, At
<1>2. /\ UNCHANGED <<life, limits, socket, inbox, gone, conn, cast, shared>>
      /\ got' = Sent(h, thread[c].msg) /\ Go(c, "erase")
  BY DEF Respond
<1>3. PICK status \in Status : status = thread[c].msg
  <2>1. \A d \in Clients : thread[d].pc = "respond" => thread[d].msg \in Status
    BY DEF ServerIInv, ThreadTypes, At
  <2>2. QED BY <1>1, <2>1
<1>4. status \in Responses /\ "erase" \in Stages \ {"none", "done", "respond"}
  BY <1>3 DEF Responses, Stages
<1>5. /\ got' \in [Clients -> Seq(Responses)]
      /\ ~ shared => \A d \in Clients : d # c => got'[d] = got[d]
      /\ ~ shared => \/ socket[h] = c /\ c \notin gone /\ got'[c] = Append(got[c], status)
                     \/ (socket[h] = NoClient \/ socket[h] \in gone) /\ got' = got
  BY <1>1, <1>2, <1>3, <1>4, OwnAnswers
<1>6. ~ shared => ServedBy(thread[c], conn, got[c])
  BY <1>1, Standing
<1>7. ASSUME ~ shared
      PROVE  /\ got[c] = <<>>
             /\ h \in DOMAIN conn => ~ conn[h].ws
             /\ IsPrefixOfAnswer(got'[c])
  <2>1. got[c] = <<>> /\ (h \in DOMAIN conn => ~ conn[h].ws)
    BY <1>1, <1>6, <1>7, NothingIsAnswer DEF ServedBy
  <2>2. CASE got'[c] = Append(got[c], status)
    BY <1>3, <2>1, <2>2, FirstAnswer
  <2>3. CASE got' = got
    BY <2>1, <2>3, NothingIsAnswer
  <2>4. QED BY <1>5, <1>7, <2>1, <2>2, <2>3
<1>8. ASSUME ~ shared, NEW t, t.pc = "erase", t.fd = h
      PROVE  ServedBy(t, conn, got'[c])
  BY <1>7, <1>8 DEF ServedBy
<1>9. ~ shared => ~ Upgraded(got[c])
  BY <1>7, NothingIsAnswer
<1>10. QED BY <1>1, <1>2, <1>4, <1>5, <1>8, <1>9, AnswerStep

LEMMA FrameStep ==
    ASSUME ServerIInv, NEW c \in Clients, Frame(c)
    PROVE  ServerIInv'
<1> DEFINE h == thread[c].fd
           stage == IF thread[c].msg = "close" THEN "erase" ELSE "ws"
<1>1. c \in Live /\ thread[c].pc = "frame"
  BY DEF Frame, Live, At
<1>2. /\ UNCHANGED <<life, limits, socket, inbox, gone, conn, cast, shared>>
      /\ got' = Sent(h, "pong") \/ got' = got
      /\ Go(c, stage)
  BY DEF Frame
<1>3. stage \in Stages \ {"none", "done", "respond"} /\ "pong" \in Responses
  BY DEF Stages, Responses
<1>4. /\ ~ shared => ServedBy(thread[c], conn, got[c])
      /\ got \in [Clients -> Seq(Responses)] /\ got[c] \in Seq(Responses)
  BY <1>1, Standing
<1>5. /\ got' \in [Clients -> Seq(Responses)]
      /\ ~ shared => \A d \in Clients : d # c => got'[d] = got[d]
      /\ ~ shared => got'[c] = Append(got[c], "pong") \/ got'[c] = got[c]
  <2>1. CASE got' = Sent(h, "pong")
    BY <1>1, <1>3, <2>1, OwnAnswers
  <2>2. CASE got' = got
    BY <1>4, <2>2
  <2>3. QED BY <1>2, <2>1, <2>2
<1>6. ASSUME ~ shared
      PROVE  /\ Upgraded(got'[c]) /\ IsPrefixOfAnswer(got'[c])
             /\ h \in DOMAIN conn => conn[h].ws
  <2>1. Upgraded(got[c]) /\ (h \in DOMAIN conn => conn[h].ws)
    BY <1>1, <1>4, <1>6 DEF ServedBy
  <2>2. Upgraded(got'[c])
    BY <1>4, <1>5, <1>6, <2>1, FrameAnswer
  <2>3. got'[c] \in Seq(Responses)
    BY <1>1, <1>5
  <2>4. QED BY <2>1, <2>2, <2>3, UpgradedIsAnswer
<1>7. ASSUME ~ shared, NEW t, t.pc = stage, t.fd = h
      PROVE  ServedBy(t, conn, got'[c])
  BY <1>6, <1>7 DEF ServedBy
<1> HIDE DEF stage
<1>8. QED BY <1>1, <1>2, <1>3, <1>5, <1>6, <1>7, AnswerStep
-----------------------------------------------------------------------------
(* Switching and clearing away                                             *)

LEMMA FreshConnection ==
    NewConnection \in Connections /\ ~ NewConnection.ws /\ NewConnection.buffer = <<>>
<1>1. PICK nothing \in Seq(Messages) : nothing = <<>>
  <2>1. <<>> \in Seq(Messages)
    BY EmptySeq
  <2>2. QED BY <2>1
<1>2. [ws |-> FALSE, buffer |-> nothing] \in Connections
  BY DEF Connections
<1>3. NewConnection = [ws |-> FALSE, buffer |-> nothing]
  BY <1>1 DEF NewConnection
<1>4. ~ [ws |-> FALSE, buffer |-> nothing].ws /\ [ws |-> FALSE, buffer |-> nothing].buffer = nothing
  OBVIOUS
<1>5. QED BY <1>1, <1>2, <1>3, <1>4

LEMMA SwitchedStep ==
    ASSUME ServerIInv, NEW c \in Clients, Switched(c)
    PROVE  ServerIInv'
<1> DEFINE h == thread[c].fd
           e == [NewConnection EXCEPT !.ws = TRUE]
<1>1. c \in Live /\ thread[c].pc = "switch"
  BY DEF Switched, Live, At
<1>2. /\ UNCHANGED <<life, limits, net, cast, shared>> /\ Go(c, "http")
      /\ conn' = IF h \in DOMAIN conn THEN [conn EXCEPT ![h] = e] ELSE conn
  BY DEF Switched
<1>3. /\ conn \in [DOMAIN conn -> Connections] /\ LimitTypes
      /\ inbox \in [Clients -> Seq(Messages)] /\ got \in [Clients -> Seq(Responses)]
      /\ ~ shared => ServedBy(thread[c], conn, got[c])
  BY <1>1, Standing
<1>4. LimitTypes' /\ UNCHANGED <<inbox, got, socket, control, cast, shared>>
  BY <1>2, <1>3 DEF LimitTypes, limits, life, net
<1>5. e \in Connections /\ e.ws = TRUE /\ e.buffer = <<>>
  <2>1. PICK entry \in Connections : entry = NewConnection /\ entry.buffer = <<>>
    BY FreshConnection
  <2>2. [entry EXCEPT !.ws = TRUE] \in Connections
    BY DEF Connections
  <2>3. [entry EXCEPT !.ws = TRUE].ws = TRUE /\ [entry EXCEPT !.ws = TRUE].buffer = entry.buffer
    BY DEF Connections
  <2>4. QED BY <2>1, <2>2, <2>3
<1> HIDE DEF e
<1>6. /\ DOMAIN conn' = DOMAIN conn /\ conn' \in [DOMAIN conn' -> Connections]
      /\ h \in DOMAIN conn => conn'[h] = e
      /\ \A x \in DOMAIN conn : x # h => conn'[x] = conn[x]
  BY <1>2, <1>3, <1>5
<1>7. PICK t \in Threads : thread' = [thread EXCEPT ![c] = t] /\ t.pc = "http" /\ t.fd = h
  BY <1>1, <1>2, GoesTo DEF Stages
<1>8. ASSUME ~ shared
      PROVE  ServedBy(t, conn', got'[c])
  <2>1. Upgraded(got[c]) /\ IsPrefixOfAnswer(got[c])
    BY <1>1, <1>3, <1>8 DEF ServedBy
  <2>2. QED BY <1>4, <1>5, <1>6, <1>7, <2>1 DEF ServedBy
<1>9. QED BY <1>1, <1>3, <1>4, <1>6, <1>7, <1>8, ThreadStep

LEMMA EraseStep ==
    ASSUME ServerIInv, NEW c \in Clients, Erase(c)
    PROVE  ServerIInv'
<1> DEFINE h == thread[c].fd
           stage == IF At(c, {"erase"}) THEN "close" ELSE "lastClose"
<1>1. c \in Live /\ thread[c].pc \in {"erase", "lastErase"}
  BY DEF Erase, Live, At
<1>2. /\ UNCHANGED <<life, limits, net, cast, shared>> /\ Go(c, stage)
      /\ conn' = Without(conn, h)
  BY DEF Erase
<1>3. /\ conn \in [DOMAIN conn -> Connections] /\ LimitTypes
      /\ inbox \in [Clients -> Seq(Messages)] /\ got \in [Clients -> Seq(Responses)]
      /\ ~ shared => ServedBy(thread[c], conn, got[c])
  BY <1>1, Standing
<1>4. LimitTypes' /\ UNCHANGED <<inbox, got, socket, control, cast, shared>>
  BY <1>2, <1>3 DEF LimitTypes, limits, life, net
<1>5. /\ DOMAIN conn' = DOMAIN conn \ {h} /\ conn' \in [DOMAIN conn' -> Connections]
      /\ \A x \in DOMAIN conn : x # h => conn'[x] = conn[x]
  BY <1>2, <1>3 DEF Without
<1>6. stage \in Stages \ {"none", "done", "respond"}
  BY DEF Stages
<1>7. PICK t \in Threads : thread' = [thread EXCEPT ![c] = t] /\ t.pc = stage /\ t.fd = h
  BY <1>1, <1>2, <1>6, GoesTo
<1>8. ASSUME ~ shared
      PROVE  ServedBy(t, conn', got'[c])
  <2>1. IsPrefixOfAnswer(got[c])
    BY <1>3, <1>8 DEF ServedBy
  <2>2. QED BY <1>4, <1>5, <1>7, <2>1 DEF ServedBy
<1> HIDE DEF stage
<1>9. QED BY <1>1, <1>3, <1>4, <1>5, <1>6, <1>7, <1>8, ThreadStep

LEMMA CheckStep ==
    ASSUME ServerIInv, NEW c \in Clients, Check(c)
    PROVE  ServerIInv'
<1> DEFINE h == thread[c].fd
           stage == IF h \in DOMAIN conn THEN "recv" ELSE "lastErase"
<1>1. c \in Live /\ thread[c].pc = "check"
  BY DEF Check, Live, At
<1>2. UNCHANGED <<life, limits, net, conn, cast, shared>> /\ Go(c, stage)
  BY DEF Check
<1>3. stage \in Stages \ {"none", "done", "respond"}
  BY DEF Stages
<1>4. ASSUME NEW t, ServedBy(thread[c], conn, got[c]), t.pc = stage, t.fd = h
      PROVE  ServedBy(t, conn, got[c])
  <2>1. h \notin DOMAIN conn /\ IsPrefixOfAnswer(got[c])
    BY <1>1, <1>4 DEF ServedBy
  <2>2. t.pc = "lastErase"
    BY <1>4, <2>1
  <2>3. QED BY <1>4, <2>1, <2>2 DEF ServedBy
<1> HIDE DEF stage
<1>5. QED BY <1>1, <1>2, <1>3, <1>4, JustGoes

LEMMA CloseStep ==
    ASSUME ServerIInv, NEW c \in Clients, Close(c)
    PROVE  ServerIInv'
<1> DEFINE h == thread[c].fd
           t == IF At(c, {"close"}) THEN [thread[c] EXCEPT !.pc = "http", !.msg = "none"]
                ELSE [NoThread EXCEPT !.pc = "done"]
<1>1. c \in Live /\ thread[c].pc \in {"close", "lastClose"}
  BY DEF Close, Live, At
<1>2. /\ UNCHANGED <<life, limits, inbox, got, gone, conn, cast, shared>>
      /\ socket' = [socket EXCEPT ![h] = NoClient] /\ thread' = [thread EXCEPT ![c] = t]
  BY DEF Close
<1>3. /\ thread[c] \in Threads /\ h \in Handles /\ thread \in [Clients -> Threads]
      /\ conn \in [DOMAIN conn -> Connections] /\ LimitTypes /\ SocketTypes
      /\ ~ shared => ServedBy(thread[c], conn, got[c])
  BY <1>1, Standing
<1>4. /\ t \in Threads /\ t.pc \in {"http", "done"} /\ (t.pc # "done" => t.fd = h)
  <2>1. CASE At(c, {"close"})
    <3>1. PICK old \in Threads : old = thread[c]
      BY <1>3
    <3>2. PICK new : new = [old EXCEPT !.pc = "http", !.msg = "none"]
      OBVIOUS
    <3>3. new \in Threads /\ new.pc = "http" /\ new.fd = old.fd
      BY <3>2 DEF Threads, Stages
    <3>4. t = new
      BY <2>1, <3>1, <3>2
    <3>5. QED BY <3>1, <3>3, <3>4
  <2>2. CASE ~ At(c, {"close"})
    <3>1. PICK old \in Threads : old = NoThread
      BY DEF NoThread, Threads, Stages
    <3>2. PICK new : new = [old EXCEPT !.pc = "done"]
      OBVIOUS
    <3>3. new \in Threads /\ new.pc = "done"
      BY <3>2 DEF Threads, Stages
    <3>4. t = new
      BY <2>2, <3>1, <3>2
    <3>5. QED BY <3>3, <3>4
  <2>3. QED BY <2>1, <2>2
<1> HIDE DEF t
<1>5. thread' \in [Clients -> Threads] /\ thread'[c] = t /\ \A d \in Clients : d # c => thread'[d] = thread[d]
  BY <1>2, <1>3, <1>4
<1>6. /\ Live' \subseteq Live /\ Live' \subseteq Clients /\ Live \ {c} \subseteq Live'
      /\ \A d \in Live' : thread'[d].fd = thread[d].fd
  <2>1. \A d \in Clients : d # c => (d \in Live' <=> d \in Live)
    BY <1>5 DEF Live, At
  <2>2. \A d \in Live' : thread'[d].fd = thread[d].fd
    <3>1. \A d \in Live' : d # c => thread'[d].fd = thread[d].fd
      BY <1>5 DEF Live
    <3>2. c \in Live' => t.pc # "done"
      BY <1>5 DEF Live, At
    <3>3. c \in Live' => thread'[c].fd = thread[c].fd
      BY <1>4, <1>5, <3>2
    <3>4. QED BY <3>1, <3>3
  <2>3. QED BY <1>1, <2>1, <2>2 DEF Live
<1>7. LimitTypes'
  BY <1>2, <1>3 DEF LimitTypes, limits, life
<1>8. SocketTypes'
  BY <1>2, <1>3 DEF SocketTypes
<1>9. socket \in [Handles -> Clients \cup {NoClient}] /\ socket' \in [Handles -> Clients \cup {NoClient}]
  BY <1>3, <1>8 DEF SocketTypes
<1>10. ThreadTypes'
  <2>1. /\ \A d \in Clients : /\ d \in Live => thread[d].fd \in Handles
                              /\ thread[d].pc = "respond" => thread[d].msg \in Status
        /\ DOMAIN conn \subseteq Handles /\ IsFiniteSet(DOMAIN conn)
    BY DEF ServerIInv, ThreadTypes, At
  <2>2. \A d \in Clients : thread'[d].pc = "respond" => thread'[d].msg \in Status
    BY <1>4, <1>5, <2>1
  <2>3. \A d \in Clients : d \in Live' => thread'[d].fd \in Handles
    BY <1>6, <2>1
  <2>4. QED BY <1>2, <1>3, <1>5, <2>1, <2>2, <2>3 DEF ThreadTypes, At
<1>11. Owned'
  <2>1. ASSUME NEW x \in Handles, socket'[x] # NoClient
        PROVE  socket'[x] \in Live' /\ thread'[socket'[x]].fd = x
    <3>1. x # h /\ socket'[x] = socket[x]
      BY <1>2, <1>9, <2>1
    <3>2. socket[x] \in Live /\ thread[socket[x]].fd = x
      BY <2>1, <3>1 DEF ServerIInv, Owned
    <3>3. socket[x] # c
      BY <3>1, <3>2
    <3>4. QED BY <1>6, <3>1, <3>2, <3>3
  <2>2. QED BY <2>1 DEF Owned
<1>12. Ended'
  BY <1>1, <1>2 DEF ServerIInv, Ended, life
<1>13. ASSUME ~ shared'
       PROVE  ServedInOrder'
  <2>1. ~ shared /\ got' = got /\ conn' = conn /\ cast' = cast
    BY <1>2, <1>13
  <2>2. OwnHandles /\ (\A d \in Clients : Served(d)) /\ CastToUpgraded
    BY <2>1 DEF ServerIInv, ServedInOrder
  <2>3. OwnHandles'
    BY <1>6, <2>2 DEF OwnHandles
  <2>4. ASSUME NEW d \in Clients
        PROVE  Served(d)'
    <3>1. CASE d # c
      BY <1>5, <2>1, <2>2, <3>1 DEF Served
    <3>2. CASE d = c
      <4>1. h \notin DOMAIN conn /\ IsPrefixOfAnswer(got[c])
        BY <1>1, <1>3, <2>1 DEF ServedBy
      <4>2. ServedBy(t, conn, got[c])
        BY <1>4, <4>1 DEF ServedBy
      <4>3. QED BY <1>5, <2>1, <3>2, <4>2 DEF Served
    <3>3. QED BY <3>1, <3>2
  <2>5. CastToUpgraded'
    <3>1. \A i \in 1 .. Len(cast) : cast[i] \in Handles
      BY <1>3 DEF SocketTypes
    <3>2. ASSUME NEW i \in 1 .. Len(cast), socket'[cast[i]] # NoClient
          PROVE  Upgraded(got[socket'[cast[i]]])
      <4>1. socket'[cast[i]] = socket[cast[i]]
        BY <1>2, <1>9, <3>1, <3>2
      <4>2. QED BY <2>2, <3>2, <4>1 DEF CastToUpgraded
    <3>3. QED BY <2>1, <3>2 DEF CastToUpgraded
  <2>6. QED BY <2>3, <2>4, <2>5 DEF ServedInOrder
<1>14. QED BY <1>7, <1>8, <1>10, <1>11, <1>12, <1>13 DEF ServerIInv
-----------------------------------------------------------------------------
(* Accepting a connection                                                  *)

LEMMA AcceptStep ==
    ASSUME ServerIInv, NEW c \in Clients, NEW h \in Handles, Accept(c, h)
    PROVE  ServerIInv'
<1> DEFINE t == [pc |-> "recv", fd |-> h, msg |-> "none"]
<1>1. /\ control \in {"out", "joining"} /\ control' \in {"out", "joined"}
      /\ thread[c] = NoThread /\ socket[h] = NoClient
      /\ socket' = [socket EXCEPT ![h] = c]
      /\ conn' = [x \in DOMAIN conn \cup {h} |-> IF x = h THEN NewConnection ELSE conn[x]]
      /\ thread' = [thread EXCEPT ![c] = t]
      /\ shared' = (shared \/ (\E d \in Live : thread[d].fd = h) \/ Contains(cast, h))
      /\ UNCHANGED <<running, closing, limits, inbox, got, gone, cast>>
  BY DEF Accept
<1>2. SocketTypes /\ ThreadTypes /\ LimitTypes /\ Owned /\ (~ shared => ServedInOrder)
  BY DEF ServerIInv
<1>3. /\ socket \in [Handles -> Clients \cup {NoClient}] /\ thread \in [Clients -> Threads]
      /\ conn \in [DOMAIN conn -> Connections] /\ c \notin Live
      /\ DOMAIN conn \subseteq Handles /\ IsFiniteSet(DOMAIN conn)
  BY <1>1, <1>2 DEF SocketTypes, ThreadTypes, Live, At, NoThread
<1>4. t \in Threads /\ t.pc = "recv" /\ t.fd = h
  BY ServerAssumption DEF Threads, Stages
<1> HIDE DEF t
<1>5. /\ thread' \in [Clients -> Threads] /\ thread'[c] = t
      /\ \A d \in Clients : d # c => thread'[d] = thread[d]
  BY <1>1, <1>3, <1>4
<1>6. Live' = Live \cup {c} /\ Live \subseteq Clients
  BY <1>4, <1>5 DEF Live, At
<1>7. /\ DOMAIN conn' = DOMAIN conn \cup {h} /\ conn' \in [DOMAIN conn' -> Connections]
      /\ conn'[h] = NewConnection /\ \A x \in DOMAIN conn : x # h => conn'[x] = conn[x]
  BY <1>1, <1>3, FreshConnection
<1>8. IsFiniteSet(DOMAIN conn') /\ DOMAIN conn' \subseteq Handles
  BY <1>3, <1>7, FS_AddElement
<1>9. /\ socket' \in [Handles -> Clients \cup {NoClient}] /\ socket'[h] = c
      /\ \A x \in Handles : x # h => socket'[x] = socket[x]
  BY <1>1, <1>3
<1>10. SocketTypes'
  <2>1. shared' \in BOOLEAN
    BY <1>1, <1>2 DEF SocketTypes
  <2>2. QED BY <1>1, <1>2, <1>9, <2>1 DEF SocketTypes
<1>11. ThreadTypes'
  <2>1. \A d \in Clients : /\ d \in Live => thread[d].fd \in Handles
                           /\ thread[d].pc = "respond" => thread[d].msg \in Status
    BY <1>2 DEF ThreadTypes, At
  <2>2. \A d \in Clients : d \in Live' => thread'[d].fd \in Handles
    BY <1>4, <1>5, <1>6, <2>1
  <2>3. \A d \in Clients : thread'[d].pc = "respond" => thread'[d].msg \in Status
    BY <1>4, <1>5, <2>1
  <2>4. QED BY <1>5, <1>7, <1>8, <2>2, <2>3 DEF ThreadTypes, At
<1>12. LimitTypes'
  BY <1>1, <1>2 DEF LimitTypes, limits
<1>13. Owned'
  <2>1. ASSUME NEW x \in Handles, socket'[x] # NoClient
        PROVE  socket'[x] \in Live' /\ thread'[socket'[x]].fd = x
    <3>1. CASE x = h
      BY <1>4, <1>5, <1>6, <1>9, <3>1
    <3>2. CASE x # h
      <4>1. socket'[x] = socket[x]
        BY <1>9, <3>2
      <4>2. socket[x] \in Live /\ thread[socket[x]].fd = x
        BY <1>2, <2>1, <4>1 DEF Owned
      <4>3. QED BY <1>3, <1>5, <1>6, <4>1, <4>2
    <3>3. QED BY <3>1, <3>2
  <2>2. QED BY <2>1 DEF Owned
<1>14. Ended'
  BY <1>1 DEF Ended
<1>15. ASSUME ~ shared'
       PROVE  ServedInOrder'
  <2>1. ~ shared /\ (\A d \in Live : thread[d].fd # h) /\ ~ Contains(cast, h)
    BY <1>1, <1>15
  <2>2. OwnHandles /\ (\A d \in Clients : Served(d)) /\ CastToUpgraded /\ cast' = cast /\ got' = got
    BY <1>1, <1>2, <2>1 DEF ServedInOrder
  <2>3. OwnHandles'
    <3>1. ASSUME NEW d \in Live', NEW e \in Live', thread'[d].fd = thread'[e].fd
          PROVE  d = e
      <4>1. CASE d = c /\ e # c
        BY <1>4, <1>5, <1>6, <2>1, <3>1, <4>1
      <4>2. CASE d # c /\ e = c
        BY <1>4, <1>5, <1>6, <2>1, <3>1, <4>2
      <4>3. CASE d # c /\ e # c
        BY <1>5, <1>6, <2>2, <3>1, <4>3 DEF OwnHandles
      <4>4. QED BY <4>1, <4>2, <4>3
    <3>2. QED BY <3>1 DEF OwnHandles
  <2>4. ASSUME NEW d \in Clients
        PROVE  ServedBy(thread'[d], conn', got[d])
    <3>1. ServedBy(thread[d], conn, got[d])
      BY <2>2 DEF Served
    <3>2. CASE d = c
      <4>1. got[c] = <<>>
        BY <1>1, <3>1, <3>2 DEF ServedBy, NoThread
      <4>2. QED BY <1>4, <1>5, <1>7, <3>2, <4>1, NothingIsAnswer, FreshConnection DEF ServedBy
    <3>3. CASE d # c /\ d \in Live
      <4>1. thread'[d] = thread[d] /\ thread[d].fd # h
        BY <1>5, <2>1, <3>3
      <4>2. /\ thread[d].fd \in DOMAIN conn' <=> thread[d].fd \in DOMAIN conn
            /\ thread[d].fd \in DOMAIN conn => conn'[thread[d].fd] = conn[thread[d].fd]
        BY <1>7, <4>1
      <4>3. QED BY <3>1, <4>1, <4>2 DEF ServedBy
    <3>4. CASE d # c /\ d \notin Live
      <4>1. thread'[d] = thread[d] /\ thread[d].pc \in {"none", "done"}
        BY <1>5, <3>4 DEF Live, At
      <4>2. QED BY <3>1, <4>1 DEF ServedBy
    <3>5. QED BY <3>2, <3>3, <3>4
  <2>5. ASSUME NEW i \in 1 .. Len(cast), socket'[cast[i]] # NoClient
        PROVE  Upgraded(got[socket'[cast[i]]])
    <3>1. cast[i] \in Handles
      BY <1>2 DEF SocketTypes
    <3>2. cast[i] # h
      BY <2>1 DEF Contains
    <3>3. socket'[cast[i]] = socket[cast[i]]
      BY <1>9, <3>1, <3>2
    <3>4. QED BY <2>2, <2>5, <3>3 DEF CastToUpgraded
  <2>6. (\A d \in Clients : Served(d))' /\ CastToUpgraded'
    BY <2>2, <2>4, <2>5 DEF Served, CastToUpgraded
  <2>7. QED BY <2>3, <2>6 DEF ServedInOrder
<1>16. QED BY <1>10, <1>11, <1>12, <1>13, <1>14, <1>15 DEF ServerIInv

-----------------------------------------------------------------------------
(* The broadcast                                                           *)

LEMMA ListOfHandles ==
    ASSUME NEW S, IsFiniteSet(S)
    PROVE  SetToSeq(S) \in Seq(S) /\ \A i \in 1 .. Len(SetToSeq(S)) : SetToSeq(S)[i] \in S
<1> DEFINE n == Cardinality(S)
<1>1. n \in Nat /\ ExistsBijection(1 .. n, S)
  BY FS_CardinalityType
<1>2. \E f \in [1 .. n -> S] : IsInjective(f)
  <2> HIDE DEF n
  <2>1. PICK f : f \in Bijection(1 .. n, S)
    BY <1>1 DEF ExistsBijection
  <2>2. f \in Injection(1 .. n, S)
    BY <2>1 DEF Bijection
  <2>3. f \in [1 .. n -> S] /\ \A a, b \in 1 .. n : f[a] = f[b] => a = b
    BY <2>2 DEF Injection, IsInjective
  <2>4. QED BY <2>3 DEF IsInjective
<1>3. SetToSeq(S) \in [1 .. n -> S]
  BY <1>2 DEF SetToSeq
<1>4. QED BY <1>1, <1>3

LEMMA BroadcastStep ==
    ASSUME ServerIInv, Broadcast
    PROVE  ServerIInv'
<1> DEFINE S == {h \in DOMAIN conn : conn[h].ws}
<1>1. /\ control \notin {"new", "absent"} /\ cast' = SetToSeq(S)
      /\ UNCHANGED <<life, limits, net, conn, thread, shared>>
  BY DEF Broadcast
<1>2. SocketTypes /\ ThreadTypes /\ LimitTypes /\ Owned /\ Ended /\ (~ shared => ServedInOrder)
  BY DEF ServerIInv
<1>3. UNCHANGED <<socket, inbox, got, gone, control, closing, maxPerIp, ipWindow, conn, thread, shared>>
  BY <1>1 DEF life, net, limits
<1>4. DOMAIN conn \subseteq Handles /\ IsFiniteSet(DOMAIN conn) /\ conn \in [DOMAIN conn -> Connections]
  BY <1>2 DEF ThreadTypes
<1>5. IsFiniteSet(S) /\ S \subseteq Handles
  BY <1>4, FS_Subset
<1>6. cast' \in Seq(S) /\ \A i \in 1 .. Len(cast') : cast'[i] \in S
  <2> HIDE DEF S
  <2>1. QED BY <1>1, <1>5, ListOfHandles
<1>7. cast' \in Seq(Handles)
  <2> HIDE DEF S
  <2>1. QED BY <1>5, <1>6
<1>8. SocketTypes' /\ ThreadTypes' /\ LimitTypes' /\ Owned' /\ Ended' /\ Live' = Live
  BY <1>2, <1>3, <1>7 DEF SocketTypes, ThreadTypes, LimitTypes, Owned, Ended, Live, At
<1>9. ASSUME ~ shared'
      PROVE  ServedInOrder'
  <2>1. OwnHandles /\ \A d \in Clients : Served(d)
    BY <1>2, <1>3, <1>9 DEF ServedInOrder
  <2>2. OwnHandles' /\ (\A d \in Clients : Served(d))'
    BY <1>3, <1>8, <2>1 DEF OwnHandles, Served
  <2>3. ASSUME NEW i \in 1 .. Len(cast'), socket[cast'[i]] # NoClient
        PROVE  Upgraded(got[socket[cast'[i]]])
    <3>1. PICK h \in Handles : h = cast'[i] /\ h \in DOMAIN conn /\ conn[h].ws
      BY <1>4, <1>6
    <3>2. PICK d \in Clients : d = socket[h] /\ d \in Live /\ thread[d].fd = h
      BY <1>2, <2>3, <3>1 DEF Owned, Live
    <3>3. ServedBy(thread[d], conn, got[d]) /\ thread[d].pc \notin {"none", "done"}
      BY <2>1, <3>2 DEF Served, Live, At
    <3>4. QED BY <3>1, <3>2, <3>3 DEF ServedBy
  <2>4. CastToUpgraded'
    BY <1>3, <2>3 DEF CastToUpgraded
  <2>5. QED BY <2>2, <2>4 DEF ServedInOrder
<1>10. QED BY <1>8, <1>9 DEF ServerIInv

LEMMA BroadcastSendStep ==
    ASSUME ServerIInv, BroadcastSend
    PROVE  ServerIInv'
<1>1. /\ cast # <<>> /\ got' = Sent(Head(cast), "tick") /\ cast' = Tail(cast)
      /\ UNCHANGED <<life, limits, socket, inbox, gone, conn, thread, shared>>
  BY DEF BroadcastSend
<1>2. SocketTypes /\ ThreadTypes /\ LimitTypes /\ Owned /\ Ended /\ (~ shared => ServedInOrder)
  BY DEF ServerIInv
<1>3. UNCHANGED <<control, closing, maxPerIp, ipWindow>>
  BY <1>1 DEF life, limits
<1>4. PICK h \in Handles : h = Head(cast) /\ h = cast[1] /\ 1 \in 1 .. Len(cast)
  BY <1>1, <1>2 DEF SocketTypes
<1>5. /\ cast' \in Seq(Handles) /\ Len(cast') = Len(cast) - 1 /\ Len(cast) \in Nat
      /\ \A i \in 1 .. Len(cast') : cast'[i] = cast[i + 1] /\ i + 1 \in 1 .. Len(cast)
  BY <1>1, <1>2 DEF SocketTypes
<1>6. "tick" \in Responses /\ socket[h] \in Clients \cup {NoClient} /\ got \in [Clients -> Seq(Responses)]
  BY <1>2 DEF Responses, SocketTypes
<1>7. /\ got' \in [Clients -> Seq(Responses)]
      /\ \A d \in Clients : d # socket[h] => got'[d] = got[d]
      /\ socket[h] # NoClient /\ socket[h] \notin gone => got'[socket[h]] = Append(got[socket[h]], "tick")
      /\ socket[h] = NoClient \/ socket[h] \in gone => got' = got
  BY <1>1, <1>2, <1>4, <1>6, SentTypes
<1>8. SocketTypes' /\ ThreadTypes' /\ LimitTypes' /\ Owned' /\ Ended' /\ Live' = Live
  BY <1>1, <1>2, <1>3, <1>5, <1>7 DEF SocketTypes, ThreadTypes, LimitTypes, Owned, Ended, Live, At
<1>9. ASSUME ~ shared'
      PROVE  ServedInOrder'
  <2>1. OwnHandles /\ (\A d \in Clients : Served(d)) /\ CastToUpgraded
    BY <1>1, <1>2, <1>9 DEF ServedInOrder
  <2>2. OwnHandles'
    BY <1>1, <1>8, <2>1 DEF OwnHandles
  <2>3. ASSUME NEW d \in Clients
        PROVE  got'[d] = got[d] \/ (Upgraded(got[d]) /\ Upgraded(got'[d]) /\ IsPrefixOfAnswer(got'[d]))
    <3>1. CASE d # socket[h] \/ socket[h] = NoClient \/ socket[h] \in gone
      BY <1>7, <3>1
    <3>2. CASE d = socket[h] /\ socket[h] # NoClient /\ socket[h] \notin gone
      <4>1. Upgraded(got[d])
        BY <1>4, <2>1, <3>2 DEF CastToUpgraded
      <4>2. got'[d] = Append(got[d], "tick") /\ got[d] \in Seq(Responses) /\ got'[d] \in Seq(Responses)
        BY <1>6, <1>7, <3>2
      <4>3. Upgraded(got'[d])
        BY <4>1, <4>2, FrameAnswer
      <4>4. QED BY <4>1, <4>2, <4>3, UpgradedIsAnswer
    <3>3. QED BY <3>1, <3>2
  <2>4. ASSUME NEW d \in Clients
        PROVE  ServedBy(thread[d], conn, got'[d])
    <3>1. ServedBy(thread[d], conn, got[d])
      BY <2>1 DEF Served
    <3>2. CASE got'[d] = got[d]
      BY <3>1, <3>2
    <3>3. CASE Upgraded(got[d]) /\ Upgraded(got'[d]) /\ IsPrefixOfAnswer(got'[d])
      <4>1. got[d] # <<>>
        BY <3>3, NothingIsAnswer
      <4>2. QED BY <3>1, <3>3, <4>1 DEF ServedBy
    <3>4. QED BY <2>3, <3>2, <3>3
  <2>5. ASSUME NEW i \in 1 .. Len(cast'), socket[cast'[i]] # NoClient
        PROVE  Upgraded(got'[socket[cast'[i]]])
    <3>1. PICK d \in Clients : d = socket[cast'[i]] /\ Upgraded(got[d])
      <4>1. cast'[i] = cast[i + 1] /\ i + 1 \in 1 .. Len(cast) /\ cast'[i] \in Handles
        BY <1>5
      <4>2. Upgraded(got[socket[cast[i + 1]]])
        BY <2>1, <2>5, <4>1 DEF CastToUpgraded
      <4>3. socket[cast'[i]] \in Clients
        BY <1>2, <2>5, <4>1 DEF SocketTypes
      <4>4. QED BY <4>1, <4>2, <4>3
    <3>2. QED BY <2>3, <3>1
  <2>6. (\A d \in Clients : Served(d))' /\ CastToUpgraded'
    BY <1>1, <2>4, <2>5 DEF Served, CastToUpgraded
  <2>7. QED BY <2>2, <2>6 DEF ServedInOrder
<1>10. QED BY <1>8, <1>9 DEF ServerIInv
-----------------------------------------------------------------------------
(* Starting and stopping                                                   *)

LEMMA LifeStep ==
    ASSUME ServerIInv, UNCHANGED <<socket, inbox, got, cast, shared, conn, thread, maxPerIp, ipWindow>>,
           closing' \subseteq Handles,
           control' = "stopped" => control = "stopped" /\ closing' = closing
    PROVE  ServerIInv'
<1>1. SocketTypes /\ ThreadTypes /\ LimitTypes /\ Owned /\ Ended /\ (~ shared => ServedInOrder)
  BY DEF ServerIInv
<1>2. Live' = Live
  BY DEF Live, At
<1>3. SocketTypes' /\ ThreadTypes' /\ LimitTypes' /\ Owned' /\ Ended'
  BY <1>1, <1>2 DEF SocketTypes, ThreadTypes, LimitTypes, Owned, Ended, At
<1>4. ServedInOrder => ServedInOrder'
  BY <1>2 DEF ServedInOrder, OwnHandles, Served, CastToUpgraded
<1>5. QED BY <1>1, <1>3, <1>4 DEF ServerIInv

LEMMA StopCloseStep ==
    ASSUME ServerIInv, StopClose
    PROVE  ServerIInv'
<1>1. PICK h \in closing : /\ closing' = closing \ {h} /\ conn' = Without(conn, h)
                           /\ socket' = [socket EXCEPT ![h] = NoClient]
  BY DEF StopClose
<1>2. UNCHANGED <<running, control, limits, inbox, got, gone, thread, cast, shared>>
  BY DEF StopClose
<1>3. SocketTypes /\ ThreadTypes /\ LimitTypes /\ Owned /\ Ended /\ (~ shared => ServedInOrder)
  BY DEF ServerIInv
<1>4. /\ socket \in [Handles -> Clients \cup {NoClient}] /\ h \in Handles
      /\ conn \in [DOMAIN conn -> Connections]
      /\ DOMAIN conn \subseteq Handles /\ IsFiniteSet(DOMAIN conn)
  BY <1>1, <1>3 DEF SocketTypes, ThreadTypes, LimitTypes
<1>5. /\ DOMAIN conn' = DOMAIN conn \ {h} /\ conn' \in [DOMAIN conn' -> Connections]
      /\ \A x \in DOMAIN conn' : conn'[x] = conn[x]
  BY <1>1, <1>4 DEF Without
<1>6. IsFiniteSet(DOMAIN conn') /\ DOMAIN conn' \subseteq Handles
  BY <1>4, <1>5, FS_Subset
<1>7. /\ socket' \in [Handles -> Clients \cup {NoClient}]
      /\ \A x \in Handles : socket'[x] # NoClient => socket'[x] = socket[x]
  BY <1>1, <1>4
<1>8. Live' = Live /\ LimitTypes'
  BY <1>1, <1>2, <1>3 DEF Live, At, LimitTypes, limits
<1>9. SocketTypes' /\ ThreadTypes' /\ Owned'
  BY <1>2, <1>3, <1>5, <1>6, <1>7, <1>8 DEF SocketTypes, ThreadTypes, Owned, At
<1>10. Ended'
  BY <1>1, <1>2, <1>3 DEF Ended
<1>11. ASSUME ServedInOrder
       PROVE  ServedInOrder'
  <2>1. OwnHandles' /\ CastToUpgraded'
    <3>1. \A i \in 1 .. Len(cast) : cast[i] \in Handles
      BY <1>3 DEF SocketTypes
    <3>2. OwnHandles /\ CastToUpgraded
      BY <1>11 DEF ServedInOrder
    <3>3. OwnHandles'
      BY <1>2, <1>8, <3>2 DEF OwnHandles
    <3>4. CastToUpgraded'
      BY <1>2, <1>7, <3>1, <3>2 DEF CastToUpgraded
    <3>5. QED BY <3>3, <3>4
  <2>2. ASSUME NEW d \in Clients
        PROVE  Served(d)'
    <3>1. ServedBy(thread[d], conn, got[d])
      BY <1>11 DEF ServedInOrder, Served
    <3>2. ServedBy(thread[d], conn', got[d])
      BY <1>5, <3>1 DEF ServedBy
    <3>3. QED BY <1>2, <3>2 DEF Served
  <2>3. QED BY <2>1, <2>2 DEF ServedInOrder
<1>12. QED BY <1>2, <1>3, <1>8, <1>9, <1>10, <1>11 DEF ServerIInv

LEMMA StopJoinStep ==
    ASSUME ServerIInv, StopJoin
    PROVE  ServerIInv'
<1>1. /\ control = "closing" /\ closing = {} /\ Live = {} /\ conn' = <<>> /\ ipWindow' = NoWindow
      /\ UNCHANGED <<running, closing, maxPerIp, net, thread, cast, shared>>
  BY DEF StopJoin
<1>2. SocketTypes /\ ThreadTypes /\ LimitTypes /\ Owned /\ Ended /\ (~ shared => ServedInOrder)
  BY DEF ServerIInv
<1>3. UNCHANGED <<socket, inbox, got>> /\ Live' = Live
  BY <1>1 DEF net, Live, At
<1>4. DOMAIN conn' = {} /\ conn' \in [DOMAIN conn' -> Connections] /\ IsFiniteSet(DOMAIN conn')
  BY <1>1, FS_EmptySet
<1>5. LimitTypes'
  <2>1. ipWindow' \in [start : 0 .. MaxTime, requests : 0 .. maxPerIp]
    BY <1>1, <1>2, GatewayAssumption DEF NoWindow, LimitTypes
  <2>2. QED BY <1>1, <1>2, <2>1 DEF LimitTypes
<1>6. SocketTypes' /\ ThreadTypes' /\ Owned' /\ Ended'
  BY <1>1, <1>2, <1>3, <1>4 DEF SocketTypes, ThreadTypes, Owned, Ended, At
<1>7. ASSUME ServedInOrder
      PROVE  ServedInOrder'
  <2>1. OwnHandles' /\ CastToUpgraded'
    BY <1>1, <1>3, <1>7 DEF ServedInOrder, OwnHandles, CastToUpgraded
  <2>2. ASSUME NEW d \in Clients
        PROVE  Served(d)'
    <3>1. ServedBy(thread[d], conn, got[d])
      BY <1>7 DEF ServedInOrder, Served
    <3>2. ServedBy(thread[d], conn', got[d])
      BY <1>4, <3>1 DEF ServedBy
    <3>3. QED BY <1>1, <1>3, <3>2 DEF Served
  <2>3. QED BY <2>1, <2>2 DEF ServedInOrder
<1>8. QED BY <1>1, <1>2, <1>5, <1>6, <1>7 DEF ServerIInv

LEMMA LifeSteps ==
    ASSUME ServerIInv, Start \/ StopBegin \/ StopCopy \/ (\E c \in Clients : HangUp(c)) \/ UNCHANGED serverVars
    PROVE  ServerIInv'
<1>1. closing \subseteq Handles /\ DOMAIN conn \subseteq Handles
  BY DEF ServerIInv, LimitTypes, ThreadTypes
<1>2. CASE Start \/ StopBegin
  <2>1. UNCHANGED <<closing, limits, net, conn, thread, cast, shared>> /\ control' # "stopped"
    BY <1>2 DEF Start, StopBegin
  <2>2. QED BY <1>1, <2>1, LifeStep DEF limits, net
<1>3. CASE StopCopy
  <2>1. /\ UNCHANGED <<limits, net, conn, thread, cast, shared>> /\ control' # "stopped"
        /\ closing' = DOMAIN conn
    BY <1>3 DEF StopCopy
  <2>2. QED BY <1>1, <2>1, LifeStep DEF limits, net
<1>4. CASE (\E c \in Clients : HangUp(c)) \/ UNCHANGED serverVars
  <2>1. UNCHANGED <<life, limits, socket, inbox, got, conn, thread, cast, shared>>
    BY <1>4 DEF HangUp, serverVars, net
  <2>2. QED BY <1>1, <2>1, LifeStep DEF limits, life
<1>5. QED BY <1>2, <1>3, <1>4

LEMMA ServerInitHolds ==
    ASSUME ServerInit
    PROVE  ServerIInv
<1>1. /\ control \in {"new", "absent"} /\ closing = {} /\ ipWindow = NoWindow
      /\ socket = [h \in Handles |-> NoClient] /\ conn = <<>>
      /\ thread = [c \in Clients |-> NoThread]
      /\ got = [c \in Clients |-> <<>>] /\ cast = <<>> /\ shared = FALSE
  BY DEF ServerInit
<1>2. maxPerIp \in Nat /\ inbox \in [Clients -> Seq(Messages)]
  <2>1. PICK x \in (IF control = "new" THEN Scenarios ELSE {[perIp |-> 0, sends |-> [c \in Clients |-> <<>>]]}) :
          maxPerIp = x.perIp /\ inbox = x.sends
    BY DEF ServerInit
  <2>2. CASE control = "new"
    <3>1. x \in [perIp : Nat, sends : [Clients -> Seq(Messages)]]
      BY <2>1, <2>2, ServerAssumption
    <3>2. QED BY <2>1, <3>1
  <2>3. CASE control # "new"
    <3>1. maxPerIp = 0 /\ inbox = [c \in Clients |-> <<>>]
      BY <2>1, <2>3
    <3>2. <<>> \in Seq(Messages)
      BY EmptySeq
    <3>3. QED BY <3>1, <3>2
  <2>4. QED BY <2>2, <2>3
<1>3. Live = {}
  BY <1>1 DEF Live, At, NoThread
<1>4. SocketTypes
  <2>1. <<>> \in Seq(Responses) /\ <<>> \in Seq(Handles)
    BY EmptySeq
  <2>2. QED BY <1>1, <1>2, <2>1 DEF SocketTypes
<1>5. DOMAIN conn = {} /\ IsFiniteSet(DOMAIN conn) /\ conn \in [DOMAIN conn -> Connections]
  BY <1>1, FS_EmptySet
<1>6. ThreadTypes
  <2>1. NoThread \in Threads /\ NoThread.pc = "none"
    BY DEF NoThread, Threads, Stages
  <2>2. thread \in [Clients -> Threads] /\ \A c \in Clients : thread[c].pc = "none"
    BY <1>1, <2>1
  <2>3. QED BY <1>3, <1>5, <2>2 DEF ThreadTypes, At
<1>7. LimitTypes
  <2>1. ipWindow \in [start : 0 .. MaxTime, requests : 0 .. maxPerIp]
    BY <1>1, <1>2, GatewayAssumption DEF NoWindow
  <2>2. QED BY <1>1, <1>2, <2>1 DEF LimitTypes
<1>8. Owned /\ Ended
  BY <1>1 DEF Owned, Ended
<1>9. ServedInOrder
  <2>1. OwnHandles /\ CastToUpgraded
    BY <1>1, <1>3 DEF OwnHandles, CastToUpgraded
  <2>2. ASSUME NEW c \in Clients
        PROVE  Served(c)
    <3>1. thread[c].pc = "none" /\ got[c] = <<>>
      BY <1>1 DEF NoThread
    <3>2. QED BY <3>1, NothingIsAnswer DEF Served, ServedBy
  <2>3. QED BY <2>1, <2>2 DEF ServedInOrder
<1>10. QED BY <1>4, <1>6, <1>7, <1>8, <1>9 DEF ServerIInv
-----------------------------------------------------------------------------
(* Every step                                                              *)

LEMMA OtherStepsKeepGateway ==
    ASSUME GatewayIInv, UNCHANGED <<tables, stream, now, metrics, call, smeared>>
    PROVE  GatewayIInv'
<1>1. CounterTypes' /\ CountersAddUp'
  BY CountersKept DEF GatewayIInv
<1>2. TableTypes' /\ RatesKept'
  BY TablesKept DEF GatewayIInv
<1>3. QED BY <1>1, <1>2 DEF GatewayIInv

LEMMA ClientSteps ==
    ASSUME GatewayIInv, ServerIInv, NEW c \in Clients, ClientStep(c)
    PROVE  GatewayIInv' /\ ServerIInv'
<1>1. now \in ClockTimes
  BY Zenon DEF GatewayIInv, TableTypes
<1>2. CASE Handle(c)
  BY <1>1, <1>2, HandleStep, HandleKeepsGateway, Zenon
<1>3. CASE Recv(c) \/ TakeMessage(c) \/ Switch(c) \/ Switched(c) \/ Respond(c) \/ Frame(c)
           \/ Erase(c) \/ Close(c) \/ Check(c)
  <2>1. UNCHANGED gatewayVars
    BY <1>3, Zenon DEF Recv, TakeMessage, Switch, Switched, Respond, Frame, Erase, Close, Check
  <2>2. GatewayIInv'
    BY <2>1, OtherStepsKeepGateway DEF gatewayVars, bounds
  <2>3. ServerIInv'
    BY <1>3, RecvStep, TakeStep, SwitchStep, SwitchedStep, RespondStep, FrameStep,
       EraseStep, CloseStep, CheckStep
  <2>4. QED BY <2>2, <2>3
<1>4. QED BY <1>2, <1>3 DEF ClientStep

LEMMA ServerSteps ==
    ASSUME GatewayIInv, ServerIInv, [ServerNext]_systemVars
    PROVE  GatewayIInv' /\ ServerIInv'
<1>1. CASE CallGateway
  <2>1. UNCHANGED serverVars
    BY <1>1 DEF CallGateway
  <2>2. QED BY <1>1, <2>1, GatewayCallStep, LifeSteps
<1>2. CASE Broadcast
  <2>1. UNCHANGED <<tables, stream, now, metrics, call, smeared>>
    <3>1. UNCHANGED <<tables, stream, now, calls, metrics, call, smeared>>
      BY <1>2 DEF Broadcast
    <3>2. QED BY <3>1
  <2>2. QED BY <1>2, <2>1, BroadcastStep, OtherStepsKeepGateway
<1>3. ASSUME UNCHANGED gatewayVars
      PROVE  GatewayIInv'
  BY <1>3, OtherStepsKeepGateway DEF gatewayVars, bounds
<1>4. CASE Start \/ StopBegin \/ StopCopy \/ StopClose \/ StopJoin \/ BroadcastSend
  <2>1. UNCHANGED gatewayVars
    BY <1>4 DEF Start, StopBegin, StopCopy, StopClose, StopJoin, BroadcastSend
  <2>2. QED BY <1>3, <1>4, <2>1, LifeSteps, StopCloseStep, StopJoinStep, BroadcastSendStep
<1>5. ASSUME NEW c \in Clients, ClientStep(c)
      PROVE  GatewayIInv' /\ ServerIInv'
  BY <1>5, ClientSteps
<1>6. ASSUME NEW c \in Clients, HangUp(c)
      PROVE  GatewayIInv' /\ ServerIInv'
  <2>1. UNCHANGED gatewayVars
    BY <1>6 DEF HangUp
  <2>2. QED BY <1>3, <1>6, <2>1, LifeSteps
<1>7. ASSUME NEW c \in Clients, NEW h \in Handles, Accept(c, h)
      PROVE  GatewayIInv' /\ ServerIInv'
  <2>1. UNCHANGED gatewayVars
    BY <1>7 DEF Accept
  <2>2. QED BY <1>3, <1>7, <2>1, AcceptStep
<1>8. CASE UNCHANGED systemVars
  <2>1. UNCHANGED gatewayVars /\ UNCHANGED serverVars
    BY <1>8 DEF systemVars
  <2>2. QED BY <1>3, <2>1, LifeSteps
<1>9. QED BY <1>1, <1>2, <1>4, <1>5, <1>6, <1>7, <1>8 DEF ServerNext, StopStep

LEMMA ServerAccounts ==
    ASSUME GatewayIInv, ServerIInv
    PROVE  RequestsAccounted
<1>1. TableTypes /\ CounterTypes /\ CountersAddUp /\ RatesKept /\ ThreadTypes /\ LimitTypes
  BY DEF GatewayIInv, ServerIInv
<1>2. ServerTypeOK
  <2>1. \A k \in DOMAIN metrics : metrics[k] \in Nat
    BY <1>1 DEF CounterTypes
  <2>2. ipWindow.requests <= maxPerIp
    BY <1>1 DEF LimitTypes
  <2>3. \A h \in DOMAIN conn : conn[h].ws \in BOOLEAN
    BY <1>1 DEF ThreadTypes, Connections
  <2>4. QED BY <1>1, <2>1, <2>2, <2>3 DEF ServerTypeOK, TableTypes, ThreadTypes, LimitTypes, ClockTimes
<1>3. RateHolds
  <2>1. ASSUME NEW token \in Tokens, NEW from \in 1 .. MaxTime
        PROVE  LET total == SumFunctionOnSet(admitted[token], (from .. from + Window - 1) \cap (1 .. MaxTime))
               IN  total = 0 \/ total < 2 * MaxRequests
    <3>1. WithinRate(windows[token], admitted[token])
      BY <1>1 DEF RatesKept
    <3>2. from \in ClockTimes
      BY DEF ClockTimes
    <3>3. Short(Total(admitted[token], Span(from)), 2 * MaxRequests)
      BY <3>1, <3>2 DEF WithinRate
    <3>4. QED BY <3>3 DEF Total, Span, ClockTimes, Short
  <2>2. QED BY <2>1 DEF RateHolds
<1>4. QED BY <1>1, <1>2, <1>3 DEF RequestsAccounted

LEMMA ServerIsClean ==
    ASSUME ServerIInv
    PROVE  ConnectionsAreClean
<1>1. OneResponse
  BY DEF ServerIInv, ServedInOrder, Served, ServedBy, OneResponse
<1>2. StopLeavesNothing
  <2>1. ASSUME control = "stopped", NEW h \in Handles
        PROVE  socket[h] = NoClient
    <3>1. Live = {}
      BY <2>1 DEF ServerIInv, Ended
    <3>2. QED BY <3>1 DEF ServerIInv, Owned
  <2>2. QED BY <2>1 DEF ServerIInv, Ended, StopLeavesNothing
<1>3. QED BY <1>1, <1>2 DEF ConnectionsAreClean

(* The inductive invariant of the server and the gateway under it: the tables  *)
(* and counters of authorize_request and record_order_result, and what each    *)
(* thread may have answered by the step it is at (client_loop, handle_http_    *)
(* request, stop).                                                             *)
THEOREM ServerInvariant == ServerSpec => [](GatewayIInv /\ ServerIInv)
<1>1. ServerInit => GatewayIInv /\ ServerIInv
  BY GatewayInitHolds, ServerInitHolds DEF ServerInit
<1>2. GatewayIInv /\ ServerIInv /\ [ServerNext]_systemVars => (GatewayIInv /\ ServerIInv)'
  BY ServerSteps
<1>3. QED BY <1>1, <1>2, PTL DEF ServerSpec

(* The rate of a token holds and the counters agree with the answers, for any  *)
(* number of connections, callers, tokens and resets (authorize_request,       *)
(* consume_rate_limit, record_order_result).                                   *)
THEOREM RequestsAreAccounted == ServerSpec => []RequestsAccounted
<1>1. GatewayIInv /\ ServerIInv => RequestsAccounted
  BY ServerAccounts
<1>2. QED BY <1>1, ServerInvariant, PTL

(* A connection gets one response, or the switch and then frames, as long as   *)
(* no handle that is still meant is given out again; and a stop that has       *)
(* returned leaves nothing (handle_http_buffer, close_socket, stop).           *)
THEOREM ConnectionsClean == ServerSpec => []ConnectionsAreClean
<1>1. GatewayIInv /\ ServerIInv => ConnectionsAreClean
  BY ServerIsClean
<1>2. QED BY <1>1, ServerInvariant, PTL
=============================================================================
