------------------------------ MODULE OrderBook ------------------------------
(***************************************************************************)
(* engine::OrderBook as it is built: a fixed pool of order nodes with a    *)
(* LIFO free list, doubly linked FIFO lists of nodes per price level, an   *)
(* array of levels per side sorted best price first and searched by        *)
(* bisection, and a table from order identifiers to nodes.                 *)
(*                                                                         *)
(* The whole structure is one record, and every private helper of the      *)
(* class an operator from such a record to the next.  Each public          *)
(* operation is one step, and each iteration of the loop of match_order is *)
(* one, with the loop's local variables in `cursor`.  The class has no     *)
(* lock: its client serialises the calls.                                  *)
(***************************************************************************)
EXTENDS BookTerms, SequencesExt

VARIABLES
    ob,      \* the data structure
    cursor   \* the locals of match_order while it runs, or NoTaker

vars == <<ob, cursor>>

Nodes == 0 .. PoolSize - 1
NIL == -1

\* An OrderLocator: where the node of an order is found.
Locators == [side : Sides, price : Prices, node : Nodes]

\* The order that is matched, with where the loop is.
Cursors == [id : OrderIds, side : Sides, type : OrderTypes, price : Prices,
            remaining : 0 .. MaxLots, rest : BOOLEAN, trades : Seq(Trades),
            level : Nat, node : Nodes \cup {NIL}, quantity : Lots, promised : Int]

\* The absent values are not what they stand for the absence of.
ASSUME StructureAssumption == NoOrder \notin Locators /\ NoTaker \notin Cursors

\* T{} of PoolAllocator: what a slot holds before it is used and once freed.
BlankNode == [id |-> NoOrder, lots |-> 0, prev |-> NIL, next |-> NIL]

\* The free list is a stack that hands out node 0 first.
EmptyStructure ==
    [pool   |-> [i \in Nodes |-> BlankNode],
     used   |-> {},
     free   |-> [k \in 1 .. PoolSize |-> PoolSize - k],
     levels |-> [side \in Sides |-> <<>>],
     lookup |-> [id \in OrderIds |-> NoOrder]]

Opposite(side) == IF side = "BUY" THEN "SELL" ELSE "BUY"

BetterOrEqual(side, p, q) == IF side = "BUY" THEN p >= q ELSE p <= q

\* Deviation: an order at the very price of the level does not trade.
CrossesStrictly(t, price) ==
    \/ t.type # "LIMIT"
    \/ t.side = "BUY" /\ price < t.price
    \/ t.side = "SELL" /\ price > t.price

Crosses(t, price) ==
    \/ t.type # "LIMIT"
    \/ t.side = "BUY" /\ price <= t.price
    \/ t.side = "SELL" /\ price >= t.price

-----------------------------------------------------------------------------
(* Levels                                                                  *)

\* Bisection: where the level is, or where it would have to be inserted.
FindLevel(s, side, price) ==
    LET ls == s.levels[side]
        search[range \in (0 .. Len(ls)) \X (0 .. Len(ls))] ==
          LET left == range[1]
              right == range[2]
              mid == left + ((right - left) \div 2)
          IN  IF left >= right THEN [found |-> FALSE, at |-> left + 1]
              ELSE IF ls[mid + 1].price = price THEN [found |-> TRUE, at |-> mid + 1]
              ELSE IF BetterOrEqual(side, ls[mid + 1].price, price)
                   THEN search[<<mid + 1, right>>]
                   ELSE search[<<left, mid>>]
    IN  search[<<0, Len(ls)>>]

\* find_or_create_level, when there is room for the level.
WithLevel(s, side, price) ==
    LET where == FindLevel(s, side, price) IN
    IF where.found THEN s
    ELSE [s EXCEPT !.levels[side] =
            InsertAt(@, where.at, [price |-> price, head |-> NIL, tail |-> NIL,
                                   total |-> 0, count |-> 0])]

ErasedIfEmpty(s, side, at) ==
    IF s.levels[side][at].count = 0
    THEN [s EXCEPT !.levels[side] = RemoveAt(@, at)]
    ELSE s

-----------------------------------------------------------------------------
(* Nodes                                                                   *)

Released(s, i) ==
    IF i \in s.used
    THEN [s EXCEPT !.pool[i] = BlankNode, !.used = @ \ {i}, !.free = Append(@, i)]
    ELSE s

\* unlink_node: bridge the neighbours, then fix the level's ends and totals.
Unlinked(s, side, at, i) ==
    LET node == s.pool[i]
        pool1 == IF node.prev # NIL THEN [s.pool EXCEPT ![node.prev].next = node.next]
                                    ELSE s.pool
        pool2 == IF node.next # NIL THEN [pool1 EXCEPT ![node.next].prev = node.prev]
                                    ELSE pool1
    IN  [s EXCEPT !.pool = pool2,
                  !.levels[side][at] =
                    [s.levels[side][at] EXCEPT
                       !.head = IF node.prev = NIL THEN node.next ELSE @,
                       !.tail = IF node.next = NIL THEN node.prev ELSE @,
                       !.total = @ - node.lots,
                       !.count = @ - 1]]

\* Unlink a node, free it, forget its order and drop its level if empty.
Removed(s, side, at, i) ==
    LET unlinked == Unlinked(s, side, at, i)
        released == Released(unlinked, i)
    IN  ErasedIfEmpty([released EXCEPT !.lookup[s.pool[i].id] = NoOrder], side, at)

-----------------------------------------------------------------------------
(* The operations on the structure                                         *)

CanAdd(s, id, o) ==
    /\ s.lookup[id] = NoOrder
    /\ s.free # <<>>
    /\ FindLevel(s, o.side, o.price).found \/ Len(s.levels[o.side]) < MaxLevels

\* add_order, of an order that CanAdd: pop a node, append it to its level.
Added(s, id, o) ==
    LET i == Last(s.free)
        t == WithLevel(s, o.side, o.price)
        at == FindLevel(t, o.side, o.price).at
        level == t.levels[o.side][at]
        stored == [t.pool EXCEPT ![i] = [id |-> id, lots |-> o.lots,
                                         prev |-> level.tail, next |-> NIL]]
    IN  [t EXCEPT
          !.free = Front(@),
          !.used = @ \cup {i},
          !.pool = IF level.tail # NIL
                   THEN [stored EXCEPT ![level.tail].next = i] ELSE stored,
          !.levels[o.side][at] =
             [level EXCEPT !.head = IF level.tail = NIL THEN i ELSE @, !.tail = i,
                           !.total = @ + o.lots, !.count = @ + 1],
          !.lookup[id] = [side |-> o.side, price |-> o.price, node |-> i]]

Canceled(s, id) ==
    LET loc == s.lookup[id]
    IN  Removed(s, loc.side, FindLevel(s, loc.side, loc.price).at, loc.node)

\* Deviation: the level's running total is not told.
CutUncounted(s, side, at, i, n) == [s EXCEPT !.pool[i].lots = @ - n]

\* n lots off a node that keeps some: its place in the list does not change.
Cut(s, side, at, i, n) ==
    [s EXCEPT !.pool[i].lots = @ - n, !.levels[side][at].total = @ - n]

\* Deviation: a cut order goes to the end of its level.
ReducedRequeued(s, id, n) ==
    LET o == [side |-> s.lookup[id].side, price |-> s.lookup[id].price,
              lots |-> s.pool[s.lookup[id].node].lots]
    IN  IF n >= o.lots THEN Canceled(s, id)
        ELSE Added(Canceled(s, id), id, [o EXCEPT !.lots = @ - n])

Reduced(s, id, n) ==
    LET loc == s.lookup[id]
        at == FindLevel(s, loc.side, loc.price).at
    IN  IF n >= s.pool[loc.node].lots
        THEN Removed(s, loc.side, at, loc.node)
        ELSE Cut(s, loc.side, at, loc.node, n)

\* get_order: the order at a locator.
OrderOf(s, id) == LET loc == s.lookup[id] IN
    [side |-> loc.side, price |-> loc.price, lots |-> s.pool[loc.node].lots]

Modified(s, id, o) ==
    LET c == Canceled(s, id)
    IN  IF CanAdd(c, id, o) THEN Added(c, id, o) ELSE Added(c, id, OrderOf(s, id))

\* Deviation: executable_lots that does not stop where the price no longer crosses.
ExecutableAtAnyPrice(s, t, quantity) ==
    LET total == FoldLeft(LAMBDA acc, level : acc + level.total, 0,
                          s.levels[Opposite(t.side)])
    IN  IF quantity <= total THEN quantity ELSE total

\* executable_lots adds up the levels' running totals, from the best level to
\* the first that does not cross, up to the order's quantity.
ExecutableLots(s, t, quantity) ==
    LET ls == s.levels[Opposite(t.side)]
        Smaller(x, y) == IF x <= y THEN x ELSE y
        sum[k \in 0 .. Len(ls)] ==
          IF k = 0 THEN 0
          ELSE IF \A j \in 1 .. k : Crosses(t, ls[j].price)
               THEN Smaller(quantity, sum[k - 1] + ls[k].total)
               ELSE sum[k - 1]
    IN  sum[Len(ls)]

-----------------------------------------------------------------------------
(* The steps                                                               *)

Init == ob = EmptyStructure /\ cursor = NoTaker

AddOrder(id, o) ==
    /\ cursor = NoTaker /\ UNCHANGED cursor
    /\ CanAdd(ob, id, o)
    /\ ob' = Added(ob, id, o)

CancelOrder(id) ==
    /\ cursor = NoTaker /\ UNCHANGED cursor
    /\ ob.lookup[id] # NoOrder
    /\ ob' = Canceled(ob, id)

CancelOrderPartial(id, n) ==
    /\ cursor = NoTaker /\ UNCHANGED cursor
    /\ ob.lookup[id] # NoOrder
    /\ ob' = Reduced(ob, id, n)

ModifyOrder(id, o) ==
    /\ cursor = NoTaker /\ UNCHANGED cursor
    /\ ob.lookup[id] # NoOrder
    /\ ob' = Modified(ob, id, o)

\* `promised` is a history variable: what executable_lots would have answered
\* an instant before the match, when the order manager asks it for a FOK.
MatchBegin(id, side, type, price, lots, rest) ==
    /\ cursor = NoTaker
    /\ LET t == [id |-> id, side |-> side, type |-> type, price |-> price,
                 remaining |-> lots, rest |-> rest, trades |-> <<>>]
       IN  cursor' = [id |-> id, side |-> side, type |-> type, price |-> price,
                      remaining |-> lots, rest |-> rest, trades |-> <<>>,
                      level |-> 1, node |-> NIL, quantity |-> lots,
                      promised |-> ExecutableLots(ob, t, lots)]
    /\ UNCHANGED ob

\* The outer loop goes on: there is a level under the cursor and it crosses.
AtLevel ==
    /\ cursor.remaining > 0
    /\ cursor.level <= Len(ob.levels[Opposite(cursor.side)])
    /\ Crosses(cursor, ob.levels[Opposite(cursor.side)][cursor.level].price)

\* One iteration of the inner loop.  next_node is read before the maker may
\* be unlinked; when the level goes, the index already is at the next one.
MatchTrade ==
    /\ cursor # NoTaker
    /\ AtLevel
    /\ LET side == Opposite(cursor.side)
           at == cursor.level
           level == ob.levels[side][at]
           i == IF cursor.node = NIL THEN level.head ELSE cursor.node
           maker == ob.pool[i]
           n == IF cursor.remaining <= maker.lots THEN cursor.remaining ELSE maker.lots
           cut == Cut(ob, side, at, i, n)
           filled == n = maker.lots
           gone == filled /\ level.count = 1
       IN  /\ ob' = IF filled THEN Removed(cut, side, at, i) ELSE cut
           /\ cursor' = [cursor EXCEPT
                !.remaining = @ - n,
                !.trades = Append(@, [maker |-> maker.id, lots |-> n,
                                      price |-> level.price]),
                !.node = IF gone THEN NIL ELSE maker.next,
                !.level = IF ~gone /\ maker.next = NIL THEN @ + 1 ELSE @]

Residual(t) == [side |-> t.side, price |-> t.price, lots |-> t.remaining]

MatchEnd ==
    /\ cursor # NoTaker
    /\ ~AtLevel
    /\ ob' = IF /\ cursor.rest /\ cursor.remaining > 0 /\ cursor.type = "LIMIT"
                /\ CanAdd(ob, cursor.id, Residual(cursor))
             THEN Added(ob, cursor.id, Residual(cursor))
             ELSE ob
    /\ cursor' = NoTaker

Next ==
    \/ \E id \in OrderIds, o \in Orders : AddOrder(id, o) \/ ModifyOrder(id, o)
    \/ \E id \in OrderIds : CancelOrder(id)
    \/ \E id \in OrderIds, n \in Lots : CancelOrderPartial(id, n)
    \/ \E id \in OrderIds, side \in Sides, type \in OrderTypes, price \in Prices,
          lots \in Lots, rest \in BOOLEAN :
            /\ rest => type = "LIMIT"
            /\ MatchBegin(id, side, type, price, lots, rest)
    \/ MatchTrade
    \/ MatchEnd

Spec == Init /\ [][Next]_vars

-----------------------------------------------------------------------------
(* Properties                                                              *)

\* The nodes of a level in list order, following `next` from the head.
Chain(s, level) ==
    LET node[k \in 1 .. level.count] ==
          IF k = 1 THEN level.head ELSE s.pool[node[k - 1]].next
    IN  [k \in 1 .. level.count |-> node[k]]

AllLevels(s) == UNION {Range(s.levels[side]) : side \in Sides}

ChainsOf(s) == {Chain(s, level) : level \in AllLevels(s)}

\* The nodes in use are exactly those of the levels' lists, each in one place;
\* the free stack holds exactly the others, once each.
PoolPartition ==
    /\ \A c \in ChainsOf(ob) : Range(c) \subseteq ob.used /\ IsInjective(c)
    /\ \A c, d \in ChainsOf(ob) : c # d => Range(c) \cap Range(d) = {}
    /\ ob.used = UNION {Range(c) : c \in ChainsOf(ob)}
    /\ Range(ob.free) = Nodes \ ob.used
    /\ IsInjective(ob.free)

\* In each level the links mirror each other and the ends are the level's; the
\* running total and count, which executable_lots, vwap and erase_level trust,
\* are those of the list.
LevelsConsistent ==
    \A level \in AllLevels(ob) :
      LET c == Chain(ob, level) IN
      /\ level.count > 0
      /\ level.head = Head(c) /\ level.tail = Last(c)
      /\ \A k \in DOMAIN c :
           /\ ob.pool[c[k]].prev = IF k = 1 THEN NIL ELSE c[k - 1]
           /\ ob.pool[c[k]].next = IF k = Len(c) THEN NIL ELSE c[k + 1]
      /\ level.total = FoldLeft(LAMBDA acc, i : acc + ob.pool[i].lots, 0, c)

\* Each side is strictly sorted, best price first, so that the bisection of
\* find_level_index is right and no two levels share a price.
LevelsSorted ==
    \A side \in Sides : \A j, k \in DOMAIN ob.levels[side] :
      j < k => ~BetterOrEqual(side, ob.levels[side][k].price,
                                    ob.levels[side][j].price)

\* A locator leads to the node of its order, in the list of the level at its
\* side and price, and every node in use belongs to the order that leads to it.
LookupConsistent ==
    /\ \A id \in OrderIds : ob.lookup[id] # NoOrder =>
         LET loc == ob.lookup[id]
             where == FindLevel(ob, loc.side, loc.price)
         IN  /\ where.found
             /\ loc.node \in Range(Chain(ob, ob.levels[loc.side][where.at]))
             /\ ob.pool[loc.node].id = id
    /\ \A i \in ob.used : ob.pool[i].lots > 0 /\ ob.lookup[ob.pool[i].id].node = i

\* The structure is sound after every operation and inside a match: lists, free
\* stack, level arrays, totals and lookup table agree.
StructureSound == PoolPartition /\ LevelsConsistent /\ LevelsSorted /\ LookupConsistent

\* What executable_lots answered before a match, from the levels' totals, is what
\* the match has filled when it finds nothing more to trade with, node by node.
\* The all-or-none of FOK orders rests on it.
ExecutableIsExact ==
    cursor # NoTaker /\ ~AtLevel =>
      cursor.quantity - cursor.remaining = cursor.promised

-----------------------------------------------------------------------------
(* Refinement                                                              *)

\* Which order of a list is ahead of which.
AheadIn(c) ==
    {<<ob.pool[c[x[1]]].id, ob.pool[c[x[2]]].id>> :
       x \in {y \in (DOMAIN c) \X (DOMAIN c) : y[1] < y[2]}}

AbstractBook ==
    [orders |-> [id \in OrderIds |->
                   IF ob.lookup[id] = NoOrder THEN NoOrder ELSE OrderOf(ob, id)],
     ahead  |-> UNION {AheadIn(c) : c \in ChainsOf(ob)}]

AbstractTaker ==
    IF cursor = NoTaker THEN NoTaker
    ELSE [field \in {"id", "side", "type", "price", "remaining", "rest", "trades"} |->
            cursor[field]]

Book == INSTANCE PriceTimeBook WITH book <- AbstractBook, taker <- AbstractTaker

\* The pool, the links and the level arrays implement the price-time priority
\* book: every operation has the promised effect, and every trade is with the
\* order that price, then time, puts first.
ImplementsPriceTimeBook == Book!Spec

\* And each operation is the one it is called: that a step is a step of the
\* price-time book would allow a cut that costs the order its place, which is
\* a modification, or a modification that loses the order, which is a
\* cancellation.
OperationsCorrespond ==
    [][\A id \in OrderIds :
         /\ \A o \in Orders :
              /\ AddOrder(id, o) => Book!AddOrder(id, o)
              /\ ModifyOrder(id, o) => Book!ModifyOrder(id, o)
         /\ CancelOrder(id) => Book!CancelOrder(id)
         /\ \A n \in Lots : CancelOrderPartial(id, n) => Book!CancelOrderPartial(id, n)]_vars
=============================================================================
