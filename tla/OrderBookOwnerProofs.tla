------------------------- MODULE OrderBookOwnerProofs -------------------------
(***************************************************************************)
(* Proofs about what owners of orders are told, for every set of prices    *)
(* and every set of orders that name no id, are open and of some quantity. *)
(***************************************************************************)
EXTENDS OrderBookOwner, OrderBookFeedProofs

\* An append seen from its elements.
LEMMA AppendCases ==
    ASSUME NEW S, NEW q \in Seq(S), NEW e \in S
    PROVE  /\ Append(q, e) \in Seq(S) /\ Len(Append(q, e)) = Len(q) + 1
           /\ DOMAIN Append(q, e) = DOMAIN q \cup {Len(q) + 1}
           /\ Len(q) + 1 \notin DOMAIN q /\ Len(q) \in Nat
           /\ \A i \in DOMAIN q : Append(q, e)[i] = q[i]
           /\ Append(q, e)[Len(q) + 1] = e
<1>1. /\ Append(q, e) \in Seq(S) /\ Len(Append(q, e)) = Len(q) + 1
      /\ \A i \in 1 .. Len(q) : Append(q, e)[i] = q[i]
      /\ Append(q, e)[Len(q) + 1] = e
  BY AppendProperties
<1>2. /\ DOMAIN q = 1 .. Len(q) /\ Len(q) \in Nat
      /\ DOMAIN Append(q, e) = 1 .. Len(q) + 1
  BY <1>1, LenProperties
<1> QED BY <1>1, <1>2

\* A tail seen from its elements.
LEMMA TailCases ==
    ASSUME NEW S, NEW q \in Seq(S), q # <<>>
    PROVE  /\ 1 \in DOMAIN q /\ Head(q) = q[1] /\ Head(q) \in S
           /\ Tail(q) \in Seq(S) /\ Len(Tail(q)) = Len(q) - 1 /\ Len(q) \in Nat \ {0}
           /\ \A i \in DOMAIN Tail(q) :
                 i \in Nat \ {0} /\ i + 1 \in DOMAIN q /\ Tail(q)[i] = q[i + 1]
           /\ \A i \in DOMAIN q : i = 1 \/ (i - 1 \in DOMAIN Tail(q) /\ Tail(q)[i - 1] = q[i])
<1>1. /\ Len(q) \in Nat \ {0} /\ DOMAIN q = 1 .. Len(q)
      /\ Tail(q) \in Seq(S) /\ Len(Tail(q)) = Len(q) - 1
      /\ DOMAIN Tail(q) = 1 .. Len(q) - 1
      /\ \A i \in 1 .. Len(Tail(q)) : Tail(q)[i] = q[i + 1]
  BY HeadTailProperties, LenProperties, EmptySeq
<1>2. Head(q) = q[1] /\ Head(q) \in S
  BY HeadTailProperties
<1> DEFINE r == Tail(q)
<1> HIDE DEF r
<1>3. /\ Len(q) \in Nat \ {0} /\ DOMAIN q = 1 .. Len(q) /\ r = Tail(q)
      /\ DOMAIN r = 1 .. Len(q) - 1 /\ Len(r) = Len(q) - 1
      /\ \A i \in 1 .. Len(r) : r[i] = q[i + 1]
  BY <1>1 DEF r
<1>4. \A i \in DOMAIN r : i \in Nat \ {0} /\ i + 1 \in DOMAIN q /\ r[i] = q[i + 1]
  BY <1>3
<1>5. ASSUME NEW i \in DOMAIN q, i # 1
      PROVE  i - 1 \in DOMAIN r /\ r[i - 1] = q[i]
  <2>1. i - 1 \in DOMAIN r /\ (i - 1) + 1 = i
    BY <1>3, <1>5
  <2> QED BY <2>1, <1>4
<1>6. 1 \in DOMAIN q
  BY <1>3
<1>7. \A i \in DOMAIN q : i = 1 \/ (i - 1 \in DOMAIN r /\ r[i - 1] = q[i])
  BY <1>5
<1> QED BY <1>1, <1>2, <1>4, <1>6, <1>7 DEF r

LEMMA OrderIdsAreInts == OrderIds \subseteq Int /\ FirstId \in Nat /\ MaxOrders \in Nat
<1>1. \A o \in Incoming : o.id \in Nat
  BY IncomingAssumption DEF Orders
<1> QED BY <1>1, IdsAssumption DEF OrderIds

\* Orders and trades, typed.
LEMMA OrderFields ==
    ASSUME NEW o \in Orders(OrderIds)
    PROVE  o.id \in OrderIds /\ o.id \in Int /\ o.qty \in Nat /\ o.rem \in Nat
           /\ View(o) \in Views /\ View(o) # None
           /\ View(o).qty = o.qty /\ View(o).rem = o.rem
<1>1. o.id \in OrderIds /\ o.qty \in Nat /\ o.rem \in Nat /\ View(o) \in Views
  BY DEF Orders, View, Views
<1> QED BY <1>1, OrderIdsAreInts, NoneAssumption DEF View

LEMMA ModifiedType ==
    ASSUME TypeOK, NEW i \in DOMAIN modified
    PROVE  modified[i] \in Orders(OrderIds)
BY ElementOfSeq DEF TypeOK

LEMMA TradesType ==
    ASSUME TypeOK, NEW i \in DOMAIN trades
    PROVE  /\ trades[i] \in Trades /\ trades[i].passive \in OrderIds
           /\ trades[i].aggressor \in OrderIds /\ trades[i].qty \in Nat
<1>1. trades[i] \in Trades
  BY ElementOfSeq DEF TypeOK
<1> QED BY <1>1 DEF Trades

LEMMA BookType ==
    ASSUME TypeOK, NEW s \in Sides, NEW p \in levels[s]
    PROVE  /\ p \in Prices /\ DOMAIN orders[s][p] = 1 .. Len(orders[s][p])
           /\ orders[s][p] \in Seq(Orders(OrderIds))
           /\ \A i \in DOMAIN orders[s][p] : orders[s][p][i] \in Orders(OrderIds)
<1>1. p \in Prices
  BY DEF TypeOK
<1> QED BY <1>1, OrdersType

\* Orders in the book are known to their owners, except that of the call.
LEMMA BookIsPast ==
    ASSUME TypeOK, OwnerInv, NEW s \in Sides, NEW p \in levels[s],
           NEW i \in DOMAIN orders[s][p]
    PROVE  Past(orders[s][p][i].id) \/ (pc = "done" /\ orders[s][p][i].id = cur.id)
<1>1. RestsWell(s, p, orders[s][p][i])
  BY DEF OwnerInv, OrdersRestWell
<1>2. orders[s][p][i].id \in OrderIds
  BY BookType, OrderFields
<1>3. idMap[orders[s][p][i].id] # None
  <2>1. p \in Prices
    BY BookType
  <2>2. [side |-> s, price |-> p] \in Entries
    BY <2>1 DEF Entries
  <2> QED BY <1>1, <2>2, NoneAssumption DEF RestsWell
<1> QED BY <1>2, <1>3 DEF OwnerInv, IdsAreNew

LEMMA CurIsNotPast ==
    ASSUME TypeOK, OwnerInv, pc # "idle"
    PROVE  cur \in Orders(OrderIds) /\ cur.id \in OrderIds /\ cur # None /\ ~Past(cur.id)
<1>1. cur \in Orders(OrderIds)
  BY DEF TypeOK
<1>2. cur.id \in OrderIds /\ cur.id \in Int
  BY <1>1, OrderFields
<1>3. ~Past(cur.id)
  BY <1>2, OrderIdsAreInts DEF OwnerInv, IdsAreNew, Past, TypeOK
<1> QED BY <1>1, <1>2, <1>3, NoneAssumption

-----------------------------------------------------------------------------
(* What a step leaves true by leaving alone what it speaks of.             *)

\* The step adds no order to the book and changes none that stays.
BookOnlyLoses ==
    \A s \in Sides : \A p \in levels'[s] : \A i \in DOMAIN orders'[s][p] :
        p \in levels[s] /\ \E j \in DOMAIN orders[s][p] : orders'[s][p][i] = orders[s][p][j]

LEMMA SameBookLosesNothing ==
    ASSUME UNCHANGED <<levels, orders>>
    PROVE  BookOnlyLoses
BY DEF BookOnlyLoses

LEMMA ToldFrame ==
    ASSUME OwnerInv, BookOnlyLoses, (pc' = "idle") <=> (pc = "idle"),
           UNCHANGED <<issued, modified, trades, reported, executed>>
    PROVE  OwnersAreTold'
<1>1. Touched' = Touched /\ Passive' = Passive /\ \A id : Past(id)' <=> Past(id)
  BY DEF Touched, Passive, Past
<1> SUFFICES ASSUME NEW s \in Sides, NEW p \in levels'[s], NEW i \in DOMAIN orders'[s][p],
                    Past(orders[s][p][i].id)'
             PROVE  IsTold(orders[s][p][i])'
  BY DEF OwnersAreTold
<1>2. p \in levels[s]
  BY DEF BookOnlyLoses
<1>3. PICK j \in DOMAIN orders[s][p] : orders'[s][p][i] = orders[s][p][j]
  BY DEF BookOnlyLoses
<1>4. IsTold(orders[s][p][j])
  BY <1>1, <1>2, <1>3 DEF OwnerInv, OwnersAreTold
<1> QED BY <1>1, <1>3, <1>4 DEF IsTold

LEMMA IdsFrame ==
    ASSUME OwnerInv, pc # "done", (pc' = "idle") <=> (pc = "idle"),
           UNCHANGED <<idMap, issued, submitted, cur, modified, trades, reported, executed>>
    PROVE  IdsAreNew'
<1>1. \A id : Past(id)' <=> Past(id)
  BY DEF Past
<1> QED BY <1>1 DEF OwnerInv, IdsAreNew

LEMMA RestsFrame ==
    ASSUME OwnerInv, UNCHANGED <<levels, orders, idMap, pc, cur, marked>>
    PROVE  OrdersRestWell'
<1>1. CurSide' = CurSide /\ (Working' <=> Working)
  BY DEF CurSide, Working
<1> SUFFICES ASSUME NEW s \in Sides, NEW p \in levels[s], NEW i \in DOMAIN orders[s][p]
             PROVE  RestsWell(s, p, orders[s][p][i])'
  BY DEF OrdersRestWell
<1>2. RestsWell(s, p, orders[s][p][i])
  BY DEF OwnerInv, OrdersRestWell
<1> QED BY <1>1, <1>2 DEF RestsWell

LEMMA TakerFrame ==
    ASSUME OwnerInv, pc # "idle", UNCHANGED <<executed, trades, cur>>
    PROVE  TakerIsTold'
BY DEF OwnerInv, TakerIsTold, AnnouncedUpTo

LEMMA BackedFrame ==
    ASSUME OwnerInv, UNCHANGED <<modified, trades, executed, reported, cur>>
    PROVE  TradesAreBacked'
<1>1. Touched' = Touched
  BY DEF Touched
<1> QED BY <1>1 DEF OwnerInv, TradesAreBacked, FillsReportedBeforeTrades

-----------------------------------------------------------------------------
(* One lemma per kind of step.                                             *)

LEMMA OwnerQuiet ==
    ASSUME OwnerInv,
           \/ PublishLevelUpdate
           \/ (\E id \in OrderIds : CancelUnknown(id)) \/ UNCHANGED vars
    PROVE  OwnerInv'
<1>1. /\ UNCHANGED <<levels, orders, idMap, issued, submitted, pc, cur, todo, at, pos, prev,
                     marked, purge, modified, trades, reported, executed>>
      /\ pc = "level" => total' = total
  BY DEF PublishLevelUpdate, CancelUnknown, vars, book, input, walk, outbox, feeds
<1>2. IdsAreNew' /\ CurIsOpen'
  BY <1>1 DEF OwnerInv, IdsAreNew, CurIsOpen, Past
<1>3. OrdersRestWell' /\ MarksArePurged'
  BY <1>1 DEF OwnerInv, OrdersRestWell, RestsWell, Working, CurSide, MarksArePurged
<1>4. WalkIsNoted'
  <2>1. Touched' = Touched /\ Passive' = Passive /\ CurSide' = CurSide /\ Working' = Working
    BY <1>1 DEF Touched, Passive, CurSide, Working
  <2> QED BY <1>1, <2>1 DEF OwnerInv, WalkIsNoted
<1>5. OwnersAreTold'
  BY <1>1 DEF OwnerInv, OwnersAreTold, IsTold, Past, Touched, Passive
<1>6. TakerIsTold' /\ TradesAreBacked'
  BY <1>1 DEF OwnerInv, TakerIsTold, AnnouncedUpTo, TradesAreBacked,
              FillsReportedBeforeTrades, Touched
<1> QED BY <1>2, <1>3, <1>4, <1>5, <1>6 DEF OwnerInv

LEMMA OwnerMatchLevel ==
    ASSUME IInv, OwnerInv, MatchLevel
    PROVE  OwnerInv'
<1>1. PICK p \in todo : at' = p /\ todo' = todo \ {p} /\ prev' = total[CurSide][p]
  BY DEF MatchLevel
<1>2. /\ pc = "match" /\ pc' = "level" /\ pos' = 1
      /\ UNCHANGED <<levels, orders, total, idMap, issued, submitted, cur, marked,
                     purge, modified, trades, reported, executed>>
  BY DEF MatchLevel, book, input, outbox, feeds
<1>3. /\ CurSide' = CurSide /\ Touched' = Touched /\ Passive' = Passive
      /\ Working /\ Working' /\ BookOnlyLoses
  BY <1>2, SameBookLosesNothing DEF CurSide, Touched, Passive, Working
<1>4. IdsAreNew' /\ OwnersAreTold' /\ TakerIsTold' /\ TradesAreBacked'
  BY <1>2, <1>3, IdsFrame, ToldFrame, TakerFrame, BackedFrame
<1>5. CurIsOpen' /\ OrdersRestWell'
  BY <1>2, <1>3 DEF OwnerInv, CurIsOpen, OrdersRestWell, RestsWell
<1>6. MarksArePurged'
  <2>1. CurSide \in Sides /\ total[CurSide][p] \in Nat
    BY <1>1, <1>2, CurSideType DEF IInv, TypeOK
  <2> QED BY <1>1, <1>2, <1>3, <2>1 DEF OwnerInv, MarksArePurged
<1>7. WalkIsNoted'
  BY <1>1, <1>2, <1>3 DEF OwnerInv, WalkIsNoted
<1> QED BY <1>4, <1>5, <1>6, <1>7 DEF OwnerInv

LEMMA OwnerLevelDone ==
    ASSUME IInv, OwnerInv, LevelDone
    PROVE  OwnerInv'
<1>1. /\ pc = "level" /\ pc' = "match"
      /\ purge' = IF total[CurSide][at] # prev THEN Append(purge, at) ELSE purge
      /\ UNCHANGED <<levels, orders, total, idMap, issued, submitted, cur, todo, prev,
                     marked, modified, trades, reported, executed>>
  BY DEF LevelDone, book, input, feeds
<1>3. /\ CurSide' = CurSide /\ Touched' = Touched /\ Passive' = Passive
      /\ Working /\ Working' /\ BookOnlyLoses
  BY <1>1, SameBookLosesNothing DEF CurSide, Touched, Passive, Working
<1>4. IdsAreNew' /\ OwnersAreTold' /\ TakerIsTold' /\ TradesAreBacked'
  BY <1>1, <1>3, IdsFrame, ToldFrame, TakerFrame, BackedFrame
<1>5. CurIsOpen' /\ OrdersRestWell'
  BY <1>1, <1>3 DEF OwnerInv, CurIsOpen, OrdersRestWell, RestsWell
<1>6. MarksArePurged'
  <2>1. purge \in Seq(Prices) /\ at \in Prices
    BY <1>1 DEF IInv, TypeOK
  <2>2. CASE total[CurSide][at] # prev
    <3>1. purge' = Append(purge, at)
      BY <1>1, <2>2
    <3>2. /\ \A k \in DOMAIN purge : k \in DOMAIN purge' /\ purge'[k] = purge[k]
          /\ \E k \in DOMAIN purge' : purge'[k] = at
      BY <2>1, <3>1, AppendCases
    <3> QED BY <3>2, <1>1 DEF OwnerInv, MarksArePurged
  <2>3. CASE total[CurSide][at] = prev
    BY <2>3, <1>1 DEF OwnerInv, MarksArePurged
  <2> QED BY <2>2, <2>3
<1>7. WalkIsNoted'
  BY <1>1, <1>3 DEF OwnerInv, WalkIsNoted
<1> QED BY <1>4, <1>5, <1>6, <1>7 DEF OwnerInv

LEMMA OwnerMatchDone ==
    ASSUME IInv, OwnerInv, MatchDone
    PROVE  OwnerInv'
<1>1. /\ pc = "match" /\ pc' = "publish"
      /\ levels' = [levels EXCEPT ![CurSide] = @ \ Exhausted]
      /\ UNCHANGED <<orders, total, idMap, issued, submitted, cur, prev,
                     marked, purge, modified, trades, reported, executed>>
  BY DEF MatchDone, input, outbox, feeds
<1>2. \A s \in Sides : levels'[s] \subseteq levels[s]
  BY <1>1 DEF IInv, TypeOK
<1>3. CurSide' = CurSide /\ Working /\ Working' /\ BookOnlyLoses
  BY <1>1, <1>2 DEF CurSide, Working, BookOnlyLoses
<1>4. IdsAreNew' /\ OwnersAreTold' /\ TakerIsTold' /\ TradesAreBacked'
  BY <1>1, <1>3, IdsFrame, ToldFrame, TakerFrame, BackedFrame
<1>5. CurIsOpen' /\ OrdersRestWell'
  BY <1>1, <1>2, <1>3 DEF OwnerInv, CurIsOpen, OrdersRestWell, RestsWell
<1>6. MarksArePurged' /\ WalkIsNoted'
  BY <1>1, <1>3 DEF OwnerInv, MarksArePurged, WalkIsNoted
<1> QED BY <1>4, <1>5, <1>6 DEF OwnerInv

LEMMA OwnerMatchReturns ==
    ASSUME IInv, OwnerInv, MatchReturns
    PROVE  OwnerInv'
<1>1. /\ pc = "publish" /\ pc' = AfterMatching(cur) /\ pc' \in {"rest", "done"}
      /\ modified = <<>> /\ purge = <<>> /\ trades = <<>>
      /\ marked' = [p \in Prices |-> <<>>]
      /\ UNCHANGED <<levels, orders, total, idMap, issued, submitted, cur,
                     purge, modified, trades, reported, executed>>
  BY DEF MatchReturns, AfterMatching, book, input, outbox, feeds
<1>2. CurSide' = CurSide /\ BookOnlyLoses /\ Working
  BY <1>1, SameBookLosesNothing DEF CurSide, Working
<1>3. IdsAreNew' /\ OwnersAreTold' /\ TakerIsTold' /\ TradesAreBacked'
  BY <1>1, <1>2, IdsFrame, ToldFrame, TakerFrame, BackedFrame
<1>4. CurIsOpen'
  <2>1. cur.qty \in Nat /\ cur.rem \in Nat
    BY <1>1, OrderFields DEF IInv, TypeOK
  <2> QED BY <1>1, <2>1 DEF OwnerInv, CurIsOpen, AfterMatching
<1>5. OrdersRestWell'
  <2> SUFFICES ASSUME NEW s \in Sides, NEW p \in levels[s], NEW i \in DOMAIN orders[s][p]
               PROVE  RestsWell(s, p, orders[s][p][i])'
    BY <1>1 DEF OrdersRestWell
  <2>1. RestsWell(s, p, orders[s][p][i])
    BY DEF OwnerInv, OrdersRestWell
  <2>2. p \in Prices
    BY BookType DEF IInv
  <2>3. marked[p] = <<>>
    BY <1>1, <2>2, EmptySeq DEF OwnerInv, MarksArePurged
  <2>4. orders[s][p][i].rem # 0
    BY <2>1, <2>3, EmptySeq DEF RestsWell
  <2>5. Past(orders[s][p][i].id) /\ ~Past(cur.id)
    BY <1>1, BookIsPast, CurIsNotPast DEF IInv
  <2> QED BY <1>1, <2>1, <2>4, <2>5 DEF RestsWell
<1>6. MarksArePurged'
  BY <1>1 DEF MarksArePurged
<1>7. WalkIsNoted'
  BY <1>1, EmptySeq DEF WalkIsNoted, Working
<1> QED BY <1>3, <1>4, <1>5, <1>6, <1>7 DEF OwnerInv

\* What is left of an order rests under its own, new id.
LEMMA RestIsAppend ==
    ASSUME IInv, OwnerInv, RestOrder
    PROVE  LET s == cur.side
               p == cur.price
               q == LevelOrders(s, p)
           IN  /\ s \in Sides /\ p \in Prices /\ cur \in Orders(OrderIds)
               /\ q \in Seq(Orders(OrderIds))
               /\ levels' = [levels EXCEPT ![s] = @ \cup {p}]
               /\ orders' = [orders EXCEPT ![s][p] = Append(q, cur)]
               /\ idMap' = [idMap EXCEPT ![cur.id] = [side |-> s, price |-> p]]
<1> DEFINE s == cur.side
           p == cur.price
           q == LevelOrders(s, p)
<1>1. s \in Sides /\ p \in Prices /\ cur \in Orders(OrderIds) /\ cur.id \in OrderIds
  BY RestFacts, OrderFields
<1>2. pc = "rest" /\ ~Past(cur.id)
  BY CurIsNotPast DEF RestOrder, IInv
<1>3. \A i \in DOMAIN q : q[i].id # cur.id
  <2> SUFFICES ASSUME p \in levels[s], NEW i \in DOMAIN orders[s][p]
               PROVE  orders[s][p][i].id # cur.id
    BY EmptySeq DEF LevelOrders
  <2> QED BY <1>1, <1>2, BookIsPast DEF IInv
<1>4. idMap[cur.id] = None
  BY <1>1, <1>2 DEF OwnerInv, IdsAreNew
<1>5. q \in Seq(Orders(OrderIds))
  BY <1>1, LevelOrdersFacts
<1> HIDE DEF q
<1>6. Entry(cur) = [side |-> s, price |-> p]
  BY <1>4 DEF Entry
<1> QED BY <1>1, <1>3, <1>5, <1>6 DEF RestOrder, q

LEMMA OwnerRest ==
    ASSUME IInv, OwnerInv, RestOrder
    PROVE  OwnerInv'
<1>1. PICK s \in Sides, p \in Prices, q \in Seq(Orders(OrderIds)) :
        /\ s = cur.side /\ p = cur.price /\ q = LevelOrders(s, p)
        /\ levels' = [levels EXCEPT ![s] = @ \cup {p}]
        /\ orders' = [orders EXCEPT ![s][p] = Append(q, cur)]
        /\ idMap' = [idMap EXCEPT ![cur.id] = [side |-> s, price |-> p]]
  BY RestIsAppend
<1>2. /\ pc = "rest" /\ pc' = "done"
      /\ UNCHANGED <<issued, submitted, cur, at, prev, marked, purge, modified, trades,
                     reported, executed>>
  BY DEF RestOrder, input, walk, outbox
<1>3. cur \in Orders(OrderIds) /\ cur.id \in OrderIds /\ ~Past(cur.id)
  BY <1>2, CurIsNotPast DEF IInv
<1>4. \A id : Past(id)' <=> Past(id)
  BY <1>2 DEF Past
<1>5. IdsAreNew'
  <2>1. \A id \in OrderIds : id # cur.id => idMap'[id] = idMap[id]
    BY <1>1 DEF IInv, TypeOK
  <2> QED BY <1>2, <1>4, <2>1 DEF OwnerInv, IdsAreNew
<1>6. CurIsOpen' /\ TradesAreBacked' /\ TakerIsTold'
  BY <1>2, TakerFrame, BackedFrame DEF OwnerInv, CurIsOpen
<1>7. MarksArePurged' /\ WalkIsNoted'
  BY <1>2 DEF OwnerInv, MarksArePurged, WalkIsNoted, Working
\* An order in the book then is the one of the call or was there.
<1>8. ASSUME NEW x \in Sides, NEW r \in levels'[x], NEW i \in DOMAIN orders'[x][r]
      PROVE  \/ x = s /\ r = p /\ orders'[x][r][i] = cur
             \/ r \in levels[x] /\ \E j \in DOMAIN orders[x][r] : orders'[x][r][i] = orders[x][r][j]
  <2>1. CASE x = s /\ r = p
    <3>1. orders'[x][r] = Append(q, cur)
      BY <1>1, <2>1 DEF IInv, TypeOK
    <3>2. (i \in DOMAIN q /\ orders'[x][r][i] = q[i]) \/ orders'[x][r][i] = cur
      BY <1>3, <3>1, AppendCases
    <3>3. DOMAIN q # {} => p \in levels[s] /\ q = orders[s][p]
      BY <1>1, EmptySeq DEF LevelOrders
    <3> QED BY <2>1, <3>2, <3>3
  <2>2. CASE ~(x = s /\ r = p)
    <3>1. r \in levels[x] /\ orders'[x][r] = orders[x][r]
      BY <1>1, <2>2 DEF IInv, TypeOK
    <3> QED BY <3>1
  <2> QED BY <2>1, <2>2
<1>9. OrdersRestWell'
  <2> SUFFICES ASSUME NEW x \in Sides, NEW r \in levels'[x], NEW i \in DOMAIN orders'[x][r]
               PROVE  RestsWell(x, r, orders[x][r][i])'
    BY DEF OrdersRestWell
  <2>1. CASE x = s /\ r = p /\ orders'[x][r][i] = cur
    <3>1. idMap'[cur.id] = [side |-> s, price |-> p]
      BY <1>1, <1>3 DEF IInv, TypeOK
    <3>2. cur.type = "LIMIT" /\ cur.rem > 0 /\ cur.rem <= cur.qty /\ cur.rem # 0
          /\ cur.status \in {"OPEN", "PARTIAL"}
      BY <1>2, <1>3, OrderFields DEF OwnerInv, CurIsOpen
    <3> QED BY <1>1, <1>2, <2>1, <3>1, <3>2 DEF RestsWell
  <2>2. CASE r \in levels[x] /\ \E j \in DOMAIN orders[x][r] : orders'[x][r][i] = orders[x][r][j]
    <3>1. PICK j \in DOMAIN orders[x][r] : orders'[x][r][i] = orders[x][r][j]
      BY <2>2
    <3>2. RestsWell(x, r, orders[x][r][j]) /\ Past(orders[x][r][j].id)
      BY <1>2, <2>2, BookIsPast DEF OwnerInv, OrdersRestWell, IInv
    <3>3. orders[x][r][j].id # cur.id /\ orders[x][r][j].id \in OrderIds
      BY <1>3, <2>2, <3>2, BookType, OrderFields DEF IInv
    <3>4. idMap'[orders[x][r][j].id] = idMap[orders[x][r][j].id]
      BY <1>1, <3>3 DEF IInv, TypeOK
    <3> QED BY <1>2, <3>1, <3>2, <3>3, <3>4 DEF RestsWell, Working
  <2> QED BY <1>8, <2>1, <2>2
<1>10. OwnersAreTold'
  <2> SUFFICES ASSUME NEW x \in Sides, NEW r \in levels'[x], NEW i \in DOMAIN orders'[x][r],
                      Past(orders'[x][r][i].id)
               PROVE  IsTold(orders'[x][r][i])
    BY <1>2, <1>4 DEF OwnersAreTold, IsTold, Touched, Passive
  <2> QED BY <1>3, <1>8 DEF OwnerInv, OwnersAreTold
<1> QED BY <1>5, <1>6, <1>7, <1>9, <1>10 DEF OwnerInv

LEMMA OwnerReturn ==
    ASSUME IInv, OwnerInv, Return
    PROVE  OwnerInv'
<1>1. /\ pc = "done" /\ pc' = "idle" /\ cur' = None
      /\ reported' = [reported EXCEPT ![cur.id] = View(cur)]
      /\ UNCHANGED <<levels, orders, idMap, issued, submitted, at, prev, marked,
                     purge, modified, trades, executed>>
  BY DEF Return, book, input, walk, outbox
<1>2. cur \in Orders(OrderIds) /\ cur.id \in OrderIds /\ ~Past(cur.id) /\ cur # None
  BY <1>1, CurIsNotPast DEF IInv
<1>3. modified = <<>> /\ trades = <<>> /\ purge = <<>> /\ Touched = {} /\ Passive = {}
  BY <1>1, EmptySeq DEF OwnerInv, WalkIsNoted, Working, Touched, Passive
<1>4. ASSUME NEW id \in OrderIds
      PROVE  Past(id)' <=> Past(id) \/ id = cur.id
  <2>1. cur.id = FirstId + issued - 1 /\ id \in Int /\ FirstId \in Int /\ issued \in Int
    BY <1>1, OrderIdsAreInts DEF OwnerInv, IdsAreNew, IInv, TypeOK
  <2> QED BY <2>1, <1>1 DEF Past
<1>5. /\ reported'[cur.id] = View(cur)
      /\ \A id \in OrderIds : id # cur.id => reported'[id] = reported[id]
  BY <1>1, <1>2 DEF IInv, TypeOK
<1>6. IdsAreNew'
  BY <1>1, <1>3, <1>4, <1>5, EmptySeq DEF OwnerInv, IdsAreNew
<1>7. CurIsOpen' /\ TakerIsTold'
  BY <1>1 DEF CurIsOpen, TakerIsTold
<1>8. OrdersRestWell'
  <2> SUFFICES ASSUME NEW s \in Sides, NEW p \in levels[s], NEW i \in DOMAIN orders[s][p]
               PROVE  RestsWell(s, p, orders[s][p][i])'
    BY <1>1 DEF OrdersRestWell
  <2>1. RestsWell(s, p, orders[s][p][i])
    BY DEF OwnerInv, OrdersRestWell
  <2> QED BY <1>1, <2>1 DEF RestsWell, Working
<1>9. MarksArePurged' /\ WalkIsNoted'
  BY <1>1, <1>3 DEF OwnerInv, MarksArePurged, WalkIsNoted, Working
<1>10. executed[cur.id] = cur.qty - cur.rem
  <2>1. PICK ss : AnnouncedUpTo(ss)
    BY <1>1 DEF OwnerInv, TakerIsTold
  <2> QED BY <2>1, <1>3, EmptySeq DEF AnnouncedUpTo
<1>11. OwnersAreTold'
  <2> SUFFICES ASSUME NEW s \in Sides, NEW p \in levels[s], NEW i \in DOMAIN orders[s][p]
               PROVE  IsTold(orders[s][p][i])'
    BY <1>1 DEF OwnersAreTold
  <2> DEFINE o == orders[s][p][i]
  <2>1. RestsWell(s, p, o) /\ o.id \in OrderIds
    BY BookType, OrderFields DEF OwnerInv, OrdersRestWell, IInv
  <2>2. CASE o.id = cur.id
    <3>1. o = cur
      BY <1>1, <2>1, <2>2 DEF RestsWell
    <3> HIDE DEF o
    <3>2. reported'[o.id] = View(o) /\ executed'[o.id] = o.qty - o.rem
      BY <1>1, <1>5, <1>10, <3>1
    <3> QED BY <1>1, <1>3, <3>2, EmptySeq DEF IsTold, o
  <2>3. CASE o.id # cur.id
    <3>1. IsTold(o)
      BY <1>1, <2>3, BookIsPast DEF OwnerInv, OwnersAreTold, IInv
    <3>2. reported'[o.id] = reported[o.id]
      BY <1>5, <2>1, <2>3
    <3> QED BY <1>1, <1>3, <3>1, <3>2, EmptySeq DEF IsTold, Touched, Passive
  <2> QED BY <2>2, <2>3
<1>12. TradesAreBacked'
  <2>1. FillsReportedBeforeTrades'
    <3> SUFFICES ASSUME NEW id \in OrderIds, executed[id] > 0
                 PROVE  reported'[id] # None /\ executed[id] <= reported'[id].qty - reported'[id].rem
      BY <1>1 DEF FillsReportedBeforeTrades
    <3>1. CASE id = cur.id
      BY <1>2, <1>5, <1>10, <3>1, OrderFields
    <3>2. CASE id # cur.id
      BY <1>2, <1>5, <3>2 DEF OwnerInv, TradesAreBacked, FillsReportedBeforeTrades
    <3> QED BY <3>1, <3>2
  <2> QED BY <2>1, <1>1, <1>3, EmptySeq DEF TradesAreBacked
<1> QED BY <1>6, <1>7, <1>8, <1>9, <1>11, <1>12 DEF OwnerInv

LEMMA OwnerSubmit ==
    ASSUME FreshOrders, IInv, OwnerInv, Submit
    PROVE  OwnerInv'
<1>1. PICK o \in Incoming :
        /\ Accept(o)
        /\ \/ cur' = Identified(o) /\ pc' \in {"match", "done"}
           \/ cur' = Identified(o) /\ pc' = "rest" /\ o.type = "LIMIT"
           \/ cur' = [Identified(o) EXCEPT !.status = "REJECTED"] /\ pc' = "done"
  BY DEF Submit, LimitOrder, MarketOrder, FillAndKillOrder, StartMatch, Reject,
         AfterMatching, Identified
<1>2. /\ o \in Orders(Nat) /\ o.id = 0 /\ o.status = "OPEN" /\ o.qty > 0
      /\ o.rem = o.qty /\ o.qty \in Nat /\ o.rem \in Nat
  BY IncomingAssumption DEF FreshOrders, Orders
<1>3. /\ pc = "idle" /\ issued' = issued + 1 /\ submitted' = submitted + 1
      /\ UNCHANGED <<levels, orders, total, idMap, prev, marked,
                     purge, modified, trades, reported, executed>>
  BY <1>1, <1>2 DEF Accept, book, outbox, feeds
<1>4. /\ Identified(o).id = FirstId + issued /\ Identified(o).type = o.type
      /\ Identified(o).qty = o.qty /\ Identified(o).rem = o.rem
      /\ Identified(o).status = o.status
  BY <1>2 DEF Identified, Orders
<1>5. /\ pc' \in {"match", "rest", "done"} /\ cur'.id = FirstId + issued
      /\ cur'.qty = o.qty /\ cur'.rem = o.rem
      /\ pc' # "done" => cur'.status = "OPEN"
      /\ pc' = "rest" => cur'.type = "LIMIT"
  <2>1. cur' \in {Identified(o), [Identified(o) EXCEPT !.status = "REJECTED"]}
    BY <1>1
  <2>2. cur'.id = FirstId + issued /\ cur'.qty = o.qty /\ cur'.rem = o.rem
    <3> DEFINE a == Identified(o)
    <3>1. a \in Orders(Nat) \/ a \in Orders({FirstId + issued})
      BY <1>2 DEF Identified, Orders
    <3> HIDE DEF a
    <3>2. cur' = a \/ cur' = [a EXCEPT !.status = "REJECTED"]
      BY <2>1 DEF a
    <3>3. cur'.id = a.id /\ cur'.qty = a.qty /\ cur'.rem = a.rem
      BY <3>1, <3>2 DEF Orders
    <3> QED BY <1>4, <3>3 DEF a
  <2> QED BY <1>1, <1>2, <1>4, <2>2
<1>6. modified = <<>> /\ trades = <<>> /\ purge = <<>> /\ Touched' = {} /\ Passive' = {}
  BY <1>3, EmptySeq DEF OwnerInv, WalkIsNoted, Working, Touched, Passive
<1>7. \A p \in Prices : marked[p] = <<>>
  BY <1>3 DEF IInv, MarksAreFilled
<1>8. issued \in Nat /\ cur'.id \in OrderIds
  <2>1. cur' \in Orders(OrderIds)
    BY SubmitType, <1>5 DEF TypeOK
  <2> QED BY <2>1, OrderFields DEF IInv, TypeOK
<1>9. \A id \in OrderIds : Past(id)' <=> Past(id)
  BY <1>3, <1>5, <1>8, OrderIdsAreInts DEF Past
<1>10. ~Past(cur'.id)
  BY <1>3, <1>5, <1>8, OrderIdsAreInts DEF Past
<1>11. IdsAreNew'
  BY <1>3, <1>5, <1>6, <1>8, <1>9, OrderIdsAreInts, EmptySeq DEF OwnerInv, IdsAreNew
<1>12. CurIsOpen'
  BY <1>2, <1>5 DEF CurIsOpen
<1>13. ASSUME NEW s \in Sides, NEW p \in levels[s], NEW i \in DOMAIN orders[s][p]
       PROVE  /\ Past(orders[s][p][i].id) /\ orders[s][p][i].id # cur'.id
              /\ orders[s][p][i].rem # 0 /\ orders[s][p][i].id \in OrderIds
  <2>1. Past(orders[s][p][i].id) /\ orders[s][p][i].id \in OrderIds
    BY <1>3, BookIsPast, BookType, OrderFields DEF IInv
  <2>2. RestsWell(s, p, orders[s][p][i])
    BY DEF OwnerInv, OrdersRestWell
  <2>3. Past(cur'.id) <=> FALSE
    BY <1>10
  <2> QED BY <2>1, <2>2, <2>3, <1>3 DEF RestsWell, Working
<1>14. OrdersRestWell'
  <2> SUFFICES ASSUME NEW s \in Sides, NEW p \in levels[s], NEW i \in DOMAIN orders[s][p]
               PROVE  RestsWell(s, p, orders[s][p][i])'
    BY <1>3 DEF OrdersRestWell
  <2>1. RestsWell(s, p, orders[s][p][i])
    BY DEF OwnerInv, OrdersRestWell
  <2> QED BY <1>3, <1>13, <2>1 DEF RestsWell
<1>15. MarksArePurged' /\ WalkIsNoted'
  BY <1>3, <1>5, <1>6, <1>7, EmptySeq DEF MarksArePurged, WalkIsNoted
<1>16. OwnersAreTold'
  <2> SUFFICES ASSUME NEW s \in Sides, NEW p \in levels[s], NEW i \in DOMAIN orders[s][p]
               PROVE  IsTold(orders[s][p][i])'
    BY <1>3 DEF OwnersAreTold
  <2>1. IsTold(orders[s][p][i])
    BY <1>13 DEF OwnerInv, OwnersAreTold
  <2> QED BY <1>3, <2>1 DEF IsTold, Touched, Passive
<1>17. TakerIsTold'
  <2>1. executed[cur'.id] = 0
    BY <1>3, <1>8, <1>10 DEF OwnerInv, IdsAreNew, IInv, TypeOK
  <2> DEFINE ss == [k \in 0 .. 0 |-> 0]
  <2>2. /\ Len(trades') = 0 /\ ss \in [0 .. Len(trades') -> 0 .. cur'.qty]
        /\ ss[0] = executed'[cur'.id] /\ ss[Len(trades')] = cur'.qty - cur'.rem
    BY <1>2, <1>3, <1>5, <1>6, <2>1
  <2> HIDE DEF ss
  <2>3. AnnouncedUpTo(ss)'
    BY <2>2 DEF AnnouncedUpTo
  <2> QED BY <2>2, <2>3 DEF TakerIsTold
<1>18. TradesAreBacked'
  <2>1. FillsReportedBeforeTrades'
    <3> SUFFICES ASSUME NEW id \in OrderIds, executed[id] > 0
                 PROVE  reported[id] # None /\ executed[id] <= reported[id].qty - reported[id].rem
      BY <1>3 DEF FillsReportedBeforeTrades
    <3>1. cur = None
      BY <1>3 DEF IInv, TypeOK
    <3> QED BY <3>1 DEF OwnerInv, TradesAreBacked, FillsReportedBeforeTrades
  <2> QED BY <2>1, <1>3, <1>6, EmptySeq DEF TradesAreBacked
<1> QED BY <1>11, <1>12, <1>14, <1>15, <1>16, <1>17, <1>18 DEF OwnerInv

LEMMA OwnerReportModified ==
    ASSUME IInv, OwnerInv, ReportModified
    PROVE  OwnerInv'
<1> DEFINE m == Head(modified)
<1>1. /\ pc = "publish" /\ modified # <<>> /\ modified' = Tail(modified)
      /\ reported' = [reported EXCEPT ![m.id] = View(m)]
      /\ UNCHANGED <<levels, orders, idMap, issued, submitted, pc, cur, at, prev, total, todo,
                     pos, marked, purge, trades, executed>>
  BY DEF ReportModified, book, input, walk
<1>2. modified \in Seq(Orders(OrderIds))
  BY DEF IInv, TypeOK
<1>3. /\ 1 \in DOMAIN modified /\ m = modified[1] /\ m \in Orders(OrderIds)
      /\ \A i \in DOMAIN modified' :
            i \in Nat \ {0} /\ i + 1 \in DOMAIN modified /\ modified'[i] = modified[i + 1]
      /\ \A i \in DOMAIN modified :
            i = 1 \/ (i - 1 \in DOMAIN modified' /\ modified'[i - 1] = modified[i])
  BY <1>1, <1>2, TailCases
<1> HIDE DEF m
<1>4. m.id \in OrderIds /\ View(m) # None /\ View(m).qty = m.qty /\ View(m).rem = m.rem
  BY <1>3, OrderFields
<1>5. Past(m.id) /\ \A id : Past(id)' <=> Past(id)
  BY <1>1, <1>3 DEF OwnerInv, IdsAreNew, Past
<1>6. \A i \in DOMAIN modified' : modified'[i].id # m.id
  BY <1>3 DEF OwnerInv, WalkIsNoted
<1>7. Passive' = Passive /\ Touched = Touched' \cup {m.id} /\ m.id \notin Touched'
  <2>1. Passive' = Passive /\ m.id \notin Touched'
    BY <1>1, <1>6 DEF Touched, Passive
  <2>2. Touched \subseteq Touched' \cup {m.id}
    BY <1>3 DEF Touched
  <2>3. Touched' \cup {m.id} \subseteq Touched
    BY <1>3 DEF Touched
  <2> QED BY <2>1, <2>2, <2>3
<1>8. /\ reported'[m.id] = View(m)
      /\ \A id \in OrderIds : id # m.id => reported'[id] = reported[id]
  BY <1>1, <1>4 DEF IInv, TypeOK
<1>9. IdsAreNew'
  <2>1. \A i \in DOMAIN modified' : Past(modified'[i].id)
    BY <1>3 DEF OwnerInv, IdsAreNew
  <2> QED BY <2>1, <1>1, <1>5, <1>8 DEF OwnerInv, IdsAreNew
<1>10. CurIsOpen' /\ TakerIsTold' /\ MarksArePurged'
  BY <1>1, TakerFrame DEF OwnerInv, CurIsOpen, MarksArePurged, CurSide
<1>11. OrdersRestWell'
  BY <1>1, RestsFrame
<1>12. WalkIsNoted'
  <2>1. \A i, j \in DOMAIN modified' : modified'[i].id = modified'[j].id => i = j
    <3> SUFFICES ASSUME NEW i \in DOMAIN modified', NEW j \in DOMAIN modified',
                        modified'[i].id = modified'[j].id
                 PROVE  i = j
      OBVIOUS
    <3>1. i + 1 = j + 1
      BY <1>3 DEF OwnerInv, WalkIsNoted
    <3> QED BY <3>1, <1>3
  <2> QED BY <2>1, <1>1 DEF OwnerInv, WalkIsNoted, Working
<1>13. OwnersAreTold'
  <2> SUFFICES ASSUME NEW s \in Sides, NEW p \in levels[s], NEW i \in DOMAIN orders[s][p],
                      Past(orders[s][p][i].id)
               PROVE  IsTold(orders[s][p][i])'
    BY <1>1, <1>5 DEF OwnersAreTold
  <2> DEFINE o == orders[s][p][i]
  <2>1. IsTold(o) /\ o.id \in OrderIds
    BY BookType, OrderFields DEF OwnerInv, OwnersAreTold, IInv
  <2>2. \A k \in DOMAIN modified' : modified'[k].id = o.id => View(modified'[k]) = View(o)
    BY <1>3, <2>1 DEF IsTold
  <2>3. o.id \notin Touched' => reported'[o.id] = View(o)
    <3>1. CASE o.id = m.id
      BY <1>3, <1>8, <2>1, <3>1 DEF IsTold
    <3>2. CASE o.id # m.id
      BY <1>7, <1>8, <2>1, <3>2 DEF IsTold
    <3> QED BY <3>1, <3>2
  <2>4. View(o)' = View(o)
    BY <1>1 DEF View
  <2> QED BY <1>1, <1>7, <2>1, <2>2, <2>3, <2>4 DEF IsTold, View
<1>14. TradesAreBacked'
  <2>1. FillsReportedBeforeTrades'
    <3> SUFFICES ASSUME NEW id \in OrderIds, executed[id] > 0, cur # None => id # cur.id
                 PROVE  reported'[id] # None /\ executed[id] <= reported'[id].qty - reported'[id].rem
      BY <1>1 DEF FillsReportedBeforeTrades
    <3>1. CASE id = m.id
      BY <1>3, <1>4, <1>8, <3>1 DEF OwnerInv, TradesAreBacked
    <3>2. CASE id # m.id
      BY <1>8, <3>2 DEF OwnerInv, TradesAreBacked, FillsReportedBeforeTrades
    <3> QED BY <3>1, <3>2
  <2>2. ASSUME NEW j \in DOMAIN modified'
        PROVE  executed[modified'[j].id] <= modified'[j].qty - modified'[j].rem
    BY <1>3 DEF OwnerInv, TradesAreBacked
  <2>3. ASSUME NEW k \in DOMAIN trades
        PROVE  LET id == trades[k].passive
                   n == executed[id] + trades[k].qty
               IN  \/ \E j \in DOMAIN modified' :
                         modified'[j].id = id /\ n <= modified'[j].qty - modified'[j].rem
                   \/ /\ id \notin Touched' /\ reported'[id] # None
                      /\ n <= reported'[id].qty - reported'[id].rem
    <3> DEFINE id == trades[k].passive
               n == executed[id] + trades[k].qty
    <3>0. id \in OrderIds
      BY TradesType DEF IInv
    <3>1. CASE \E j \in DOMAIN modified :
                 modified[j].id = id /\ n <= modified[j].qty - modified[j].rem
      <4>1. PICK j \in DOMAIN modified :
               modified[j].id = id /\ n <= modified[j].qty - modified[j].rem
        BY <3>1
      <4>2. CASE j = 1
        <5>1. id = m.id /\ n <= m.qty - m.rem
          BY <1>3, <4>1, <4>2
        <5> QED BY <1>4, <1>7, <1>8, <5>1
      <4>3. CASE j # 1
        <5>1. j - 1 \in DOMAIN modified' /\ modified'[j - 1] = modified[j]
          BY <1>3, <4>3
        <5> QED BY <4>1, <5>1
      <4> QED BY <4>2, <4>3
    <3>2. CASE id \notin Touched /\ reported[id] # None /\ n <= reported[id].qty - reported[id].rem
      BY <1>7, <1>8, <3>0, <3>2
    <3> QED BY <3>1, <3>2 DEF OwnerInv, TradesAreBacked
  <2> QED BY <1>1, <2>1, <2>2, <2>3 DEF TradesAreBacked
<1> QED BY <1>9, <1>10, <1>11, <1>12, <1>13, <1>14 DEF OwnerInv

LEMMA OwnerPublishTrade ==
    ASSUME IInv, OwnerInv, PublishTrade
    PROVE  OwnerInv'
<1> DEFINE t == Head(trades)
<1>1. /\ pc = "publish" /\ modified = <<>> /\ purge = <<>> /\ trades # <<>>
      /\ trades' = Tail(trades)
      /\ executed' = [i \in OrderIds |->
            IF i \in {t.passive, t.aggressor} THEN executed[i] + t.qty ELSE executed[i]]
      /\ UNCHANGED <<levels, orders, idMap, issued, submitted, pc, cur, at, prev, total, todo,
                     pos, marked, purge, modified, reported>>
  BY DEF PublishTrade, TradesDue, book, input, walk
<1>2. trades \in Seq(Trades)
  BY DEF IInv, TypeOK
<1>3. /\ 1 \in DOMAIN trades /\ t = trades[1] /\ t \in Trades
      /\ Len(trades') = Len(trades) - 1 /\ Len(trades) \in Nat \ {0}
      /\ \A i \in DOMAIN trades' :
            i \in Nat \ {0} /\ i + 1 \in DOMAIN trades /\ trades'[i] = trades[i + 1]
      /\ \A i \in DOMAIN trades :
            i = 1 \/ (i - 1 \in DOMAIN trades' /\ trades'[i - 1] = trades[i])
  BY <1>1, <1>2, TailCases
<1> HIDE DEF t
<1>4. t.passive \in OrderIds /\ t.aggressor \in OrderIds /\ t.qty \in Nat
  BY <1>3 DEF Trades
<1>5. /\ Past(t.passive) /\ t.aggressor = cur.id /\ ~Past(cur.id) /\ cur # None
      /\ cur.id \in OrderIds
      /\ \A id : Past(id)' <=> Past(id)
  BY <1>1, <1>3, CurIsNotPast DEF OwnerInv, IdsAreNew, Past, IInv
<1>6. ASSUME NEW i \in DOMAIN trades' PROVE trades'[i].passive # t.passive
  <2>1. i + 1 \in DOMAIN trades /\ trades'[i] = trades[i + 1] /\ i + 1 # 1
    BY <1>3
  <2> QED BY <1>3, <2>1 DEF OwnerInv, WalkIsNoted
<1>7. Touched' = {} /\ Touched = {} /\ Passive = Passive' \cup {t.passive} /\ DOMAIN modified = {}
  <2>1. Touched' = {} /\ Touched = {} /\ DOMAIN modified = {}
    BY <1>1, EmptySeq DEF Touched
  <2>2. Passive \subseteq Passive' \cup {t.passive}
    BY <1>3 DEF Passive
  <2>3. Passive' \cup {t.passive} \subseteq Passive
    BY <1>3 DEF Passive
  <2> QED BY <2>1, <2>2, <2>3
<1>8. /\ executed'[cur.id] = executed[cur.id] + t.qty
      /\ executed'[t.passive] = executed[t.passive] + t.qty
      /\ \A id \in OrderIds : id # cur.id /\ id # t.passive => executed'[id] = executed[id]
  BY <1>1, <1>4, <1>5
<1>9. IdsAreNew'
  <2>1. \A i \in DOMAIN trades' : Past(trades'[i].passive) /\ trades'[i].aggressor = cur.id
    BY <1>3 DEF OwnerInv, IdsAreNew
  <2> QED BY <2>1, <1>1, <1>5, <1>8 DEF OwnerInv, IdsAreNew
<1>10. CurIsOpen' /\ MarksArePurged'
  BY <1>1 DEF OwnerInv, CurIsOpen, MarksArePurged, CurSide
<1>11. OrdersRestWell'
  BY <1>1, RestsFrame
<1>12. WalkIsNoted'
  <2>1. \A i, j \in DOMAIN trades' : trades'[i].passive = trades'[j].passive => i = j
    <3> SUFFICES ASSUME NEW i \in DOMAIN trades', NEW j \in DOMAIN trades',
                        trades'[i].passive = trades'[j].passive
                 PROVE  i = j
      OBVIOUS
    <3>1. i + 1 = j + 1
      BY <1>3 DEF OwnerInv, WalkIsNoted
    <3> QED BY <3>1, <1>3
  <2> QED BY <2>1, <1>1 DEF OwnerInv, WalkIsNoted, Working
<1>13. OwnersAreTold'
  <2> SUFFICES ASSUME NEW s \in Sides, NEW p \in levels[s], NEW i \in DOMAIN orders[s][p],
                      Past(orders[s][p][i].id)
               PROVE  IsTold(orders[s][p][i])'
    BY <1>1, <1>5 DEF OwnersAreTold
  <2> DEFINE o == orders[s][p][i]
  <2>1. IsTold(o) /\ o.id \in OrderIds /\ o.id # cur.id
    BY <1>5, BookType, OrderFields DEF OwnerInv, OwnersAreTold, IInv
  <2>2. \A k \in DOMAIN trades' :
           trades'[k].passive = o.id => executed'[o.id] + trades'[k].qty = o.qty - o.rem
    <3> SUFFICES ASSUME NEW k \in DOMAIN trades', trades'[k].passive = o.id
                 PROVE  executed'[o.id] + trades'[k].qty = o.qty - o.rem
      OBVIOUS
    <3>1. executed'[o.id] = executed[o.id]
      BY <1>6, <1>8, <2>1
    <3>2. k + 1 \in DOMAIN trades /\ trades'[k] = trades[k + 1]
      BY <1>3
    <3>3. executed[o.id] + trades[k + 1].qty = o.qty - o.rem
      BY <3>2, <2>1 DEF IsTold
    <3> QED BY <3>1, <3>2, <3>3
  <2>3. o.id \notin Passive' => executed'[o.id] = o.qty - o.rem
    <3>1. CASE o.id = t.passive
      BY <1>3, <1>8, <2>1, <3>1 DEF IsTold
    <3>2. CASE o.id # t.passive
      BY <1>7, <1>8, <2>1, <3>2 DEF IsTold
    <3> QED BY <3>1, <3>2
  <2>4. reported[o.id] = View(o)
    BY <1>7, <2>1 DEF IsTold
  <2> HIDE DEF o
  <2>5. IsTold(o)'
    BY <1>1, <1>7, <2>2, <2>3, <2>4 DEF IsTold, View, o
  <2> QED BY <2>5, <1>1 DEF o
<1>14. TakerIsTold'
  <2>1. PICK ss \in [0 .. Len(trades) -> 0 .. cur.qty] : AnnouncedUpTo(ss)
    BY <1>1 DEF OwnerInv, TakerIsTold
  <2>s. PICK s2 : s2 = [k \in 0 .. Len(trades') |-> ss[k + 1]]
    OBVIOUS
  <2>2. s2 \in [0 .. Len(trades') -> 0 .. cur.qty]
    BY <2>s, <1>3, <2>1
  <2>3. DOMAIN trades' = 1 .. Len(trades')
    BY <1>1, <1>2, TailCases, LenProperties
  <2>4. s2[0] = executed'[cur.id]
    BY <2>s, <1>3, <1>8, <2>1 DEF AnnouncedUpTo
  <2>5. s2[Len(trades')] = cur.qty - cur.rem
    BY <2>s, <1>3, <2>1 DEF AnnouncedUpTo
  <2>6. \A k \in 1 .. Len(trades') : s2[k] = s2[k - 1] + trades'[k].qty
    <3> SUFFICES ASSUME NEW k \in 1 .. Len(trades') PROVE s2[k] = s2[k - 1] + trades'[k].qty
      OBVIOUS
    <3>1. k + 1 \in 1 .. Len(trades) /\ trades'[k] = trades[k + 1]
      BY <1>3, <2>3
    <3>2. ss[k + 1] = ss[(k + 1) - 1] + trades[k + 1].qty
      BY <2>1, <3>1 DEF AnnouncedUpTo
    <3> QED BY <2>s, <3>1, <3>2, <1>3
  <2>7. AnnouncedUpTo(s2)'
    BY <1>1, <2>4, <2>5, <2>6 DEF AnnouncedUpTo
  <2> QED BY <1>1, <2>2, <2>7 DEF TakerIsTold
<1>15. TradesAreBacked'
  <2>1. ASSUME NEW k \in DOMAIN trades
        PROVE  LET id == trades[k].passive
                   n == executed[id] + trades[k].qty
               IN  reported[id] # None /\ n <= reported[id].qty - reported[id].rem
    BY <1>7 DEF OwnerInv, TradesAreBacked
  <2>2. FillsReportedBeforeTrades'
    <3> SUFFICES ASSUME NEW id \in OrderIds, executed'[id] > 0, id # cur.id
                 PROVE  reported[id] # None /\ executed'[id] <= reported[id].qty - reported[id].rem
      BY <1>1, <1>5 DEF FillsReportedBeforeTrades
    <3>1. CASE id = t.passive
      BY <1>3, <1>8, <2>1, <3>1
    <3>2. CASE id # t.passive
      BY <1>8, <3>2 DEF OwnerInv, TradesAreBacked, FillsReportedBeforeTrades
    <3> QED BY <3>1, <3>2
  <2>3. ASSUME NEW k \in DOMAIN trades'
        PROVE  LET id == trades'[k].passive
                   n == executed'[id] + trades'[k].qty
               IN  reported[id] # None /\ n <= reported[id].qty - reported[id].rem
    <3> DEFINE id == trades'[k].passive
    <3>1. k + 1 \in DOMAIN trades /\ trades'[k] = trades[k + 1]
      BY <1>3
    <3>2. Past(id) /\ id \in OrderIds
      BY <3>1, TradesType DEF OwnerInv, IdsAreNew, IInv
    <3>3. executed'[id] = executed[id]
      BY <1>5, <1>6, <1>8, <3>2
    <3> QED BY <2>1, <3>1, <3>3
  <2> QED BY <1>1, <1>7, <2>2, <2>3 DEF TradesAreBacked
<1> QED BY <1>9, <1>10, <1>11, <1>12, <1>13, <1>14, <1>15 DEF OwnerInv

LEMMA OwnerRemoveMarked ==
    ASSUME IInv, OwnerInv, RemoveMarkedNode
    PROVE  OwnerInv'
<1>1. /\ pc = "publish" /\ purge # <<>>
      /\ UNCHANGED <<levels, idMap, issued, submitted, pc, cur, at, prev, total, todo,
                     pos, modified, trades, executed, reported>>
  BY DEF RemoveMarkedNode, input, feeds
<1>2. PICK p \in Prices :
        /\ p = Head(purge)
        /\ \/ marked[p] = <<>> /\ purge' = Tail(purge) /\ UNCHANGED <<orders, marked>>
           \/ /\ marked[p] # <<>> /\ UNCHANGED purge
              /\ \E i \in DOMAIN orders[CurSide][p] :
                    /\ orders[CurSide][p][i].id = Head(marked[p])
                    /\ orders' = [orders EXCEPT ![CurSide][p] = RemoveAt(@, i)]
              /\ marked' = [marked EXCEPT ![p] = Tail(@)]
  <2>1. purge \in Seq(Prices)
    BY DEF IInv, TypeOK
  <2>2. Head(purge) \in Prices
    BY <1>1, <2>1, TailCases
  <2> QED BY <2>2 DEF RemoveMarkedNode
<1>3. CurSide' = CurSide /\ Working /\ CurSide \in Sides
  BY <1>1, CurSideType DEF CurSide, Working, IInv
<1>4. CASE marked[p] = <<>> /\ purge' = Tail(purge) /\ UNCHANGED <<orders, marked>>
  <2>1. purge \in Seq(Prices)
    BY DEF IInv, TypeOK
  <2>2. \A k \in DOMAIN purge : k = 1 \/ (k - 1 \in DOMAIN purge' /\ purge'[k - 1] = purge[k])
    BY <1>1, <1>4, <2>1, TailCases
  <2>3. purge[1] = p
    BY <1>1, <1>2, <2>1, TailCases
  <2>4. MarksArePurged'
    BY <1>1, <1>4, <2>2, <2>3 DEF OwnerInv, MarksArePurged
  <2>5. BookOnlyLoses
    BY <1>1, <1>4, SameBookLosesNothing
  <2>6. IdsAreNew' /\ OwnersAreTold' /\ TakerIsTold' /\ TradesAreBacked' /\ OrdersRestWell'
    BY <1>1, <1>4, <2>5, IdsFrame, ToldFrame, TakerFrame, BackedFrame, RestsFrame
  <2>7. CurIsOpen' /\ WalkIsNoted'
    BY <1>1, <1>3 DEF OwnerInv, CurIsOpen, WalkIsNoted, Working
  <2> QED BY <2>4, <2>6, <2>7 DEF OwnerInv
<1>5. CASE /\ marked[p] # <<>> /\ UNCHANGED purge
           /\ \E i \in DOMAIN orders[CurSide][p] :
                 /\ orders[CurSide][p][i].id = Head(marked[p])
                 /\ orders' = [orders EXCEPT ![CurSide][p] = RemoveAt(@, i)]
           /\ marked' = [marked EXCEPT ![p] = Tail(@)]
  <2>1. PICK i \in DOMAIN orders[CurSide][p], q \in Seq(Orders(OrderIds)) :
          /\ q = orders[CurSide][p]
          /\ q[i].id = Head(marked[p])
          /\ orders' = [orders EXCEPT ![CurSide][p] = RemoveAt(q, i)]
    BY <1>3, <1>5, OrdersType DEF IInv
  <2>2. i \in 1 .. Len(q)
    BY <1>3, <2>1, OrdersType DEF IInv
  <2>3. \A k \in DOMAIN RemoveAt(q, i) :
          \E j \in DOMAIN q : j # i /\ RemoveAt(q, i)[k] = q[j]
    BY <2>2, RemoveAtKeeps
  <2>4. /\ orders'[CurSide][p] = RemoveAt(q, i)
        /\ \A s \in Sides, r \in Prices :
              ~(s = CurSide /\ r = p) => orders'[s][r] = orders[s][r]
    BY <1>3, <2>1 DEF IInv, TypeOK
  <2>5. /\ marked'[p] = Tail(marked[p])
        /\ \A r \in Prices : r # p => marked'[r] = marked[r]
    BY <1>5 DEF IInv, TypeOK
  <2>6. /\ marked[p][1] = Head(marked[p])
        /\ \A k \in DOMAIN marked[p] :
              k = 1 \/ (k - 1 \in DOMAIN marked'[p] /\ marked'[p][k - 1] = marked[p][k])
    <3>1. marked[p] \in Seq(OrderIds)
      BY DEF IInv, TypeOK
    <3> DEFINE mp == marked[p]
    <3>2. mp \in Seq(OrderIds) /\ mp # <<>>
      BY <1>5, <3>1
    <3> HIDE DEF mp
    <3>3. /\ mp[1] = Head(mp)
          /\ \A k \in DOMAIN mp :
                k = 1 \/ (k - 1 \in DOMAIN Tail(mp) /\ Tail(mp)[k - 1] = mp[k])
      BY <3>2, TailCases
    <3> QED BY <3>3, <2>5 DEF mp
  \* Every order that stays was there, at another place than i.
  <2>7. ASSUME NEW s \in Sides, NEW r \in levels[s], NEW k \in DOMAIN orders'[s][r]
        PROVE  \E j \in DOMAIN orders[s][r] :
                  orders'[s][r][k] = orders[s][r][j] /\ (s = CurSide /\ r = p => j # i)
    <3>1. r \in Prices
      BY BookType DEF IInv
    <3>2. CASE s = CurSide /\ r = p
      BY <2>1, <2>3, <2>4, <3>2
    <3>3. CASE ~(s = CurSide /\ r = p)
      BY <2>4, <3>1, <3>3
    <3> QED BY <3>2, <3>3
  <2>8. BookOnlyLoses
    BY <1>1, <2>7 DEF BookOnlyLoses
  <2>9. IdsAreNew' /\ OwnersAreTold' /\ TakerIsTold' /\ TradesAreBacked'
    BY <1>1, <2>8, IdsFrame, ToldFrame, TakerFrame, BackedFrame
  <2>10. CurIsOpen' /\ WalkIsNoted'
    BY <1>1, <1>3 DEF OwnerInv, CurIsOpen, WalkIsNoted, Working
  <2>11. MarksArePurged'
    BY <1>1, <1>5, <2>5 DEF OwnerInv, MarksArePurged
  <2>12. OrdersRestWell'
    <3> SUFFICES ASSUME NEW s \in Sides, NEW r \in levels[s], NEW k \in DOMAIN orders'[s][r]
                 PROVE  RestsWell(s, r, orders[s][r][k])'
      BY <1>1 DEF OrdersRestWell
    <3>1. PICK j \in DOMAIN orders[s][r] :
             orders'[s][r][k] = orders[s][r][j] /\ (s = CurSide /\ r = p => j # i)
      BY <2>7
    <3>o. PICK o : o = orders[s][r][j]
      OBVIOUS
    <3>2. RestsWell(s, r, o) /\ r \in Prices
      BY <3>o, BookType DEF OwnerInv, OrdersRestWell, IInv
    <3>3. s = CurSide /\ r = p => o.id # Head(marked[p])
      BY <2>1, <3>o, <3>1 DEF IInv, UniqueIds
    <3>4. (s = CurSide /\ \E n \in DOMAIN marked[r] : marked[r][n] = o.id) =>
              \E n \in DOMAIN marked'[r] : marked'[r][n] = o.id
      <4>1. CASE r = p
        BY <2>6, <3>3, <4>1
      <4>2. CASE r # p
        BY <2>5, <3>2, <4>2
      <4> QED BY <4>1, <4>2
    <3>5. RestsWell(s, r, o)'
      <4>1. idMap' = idMap /\ Working' /\ CurSide' = CurSide /\ pc' # "done"
        BY <1>1, <1>3 DEF Working
      <4> QED BY <3>2, <3>4, <4>1 DEF RestsWell
    <3> QED BY <3>o, <3>1, <3>5 DEF RestsWell
  <2> QED BY <2>9, <2>10, <2>11, <2>12 DEF OwnerInv
<1> QED BY <1>2, <1>4, <1>5

\* A step between calls that takes nothing but the order of id, if any, out of
\* the book, and its entry with it.
LEMMA OwnerAfterCancel ==
    ASSUME IInv, OwnerInv, NEW id \in OrderIds, pc = "idle", BookOnlyLoses,
           idMap' = [idMap EXCEPT ![id] = None],
           \A s \in Sides : \A p \in levels'[s] : \A i \in DOMAIN orders'[s][p] :
               orders'[s][p][i].id # id,
           UNCHANGED <<issued, submitted, pc, cur, at, prev, todo, pos, marked, purge,
                       modified, trades, executed, reported>>
    PROVE  OwnerInv'
<1>1. \A r \in OrderIds : r # id => idMap'[r] = idMap[r]
  BY DEF IInv, TypeOK
<1>2. idMap'[id] = None
  BY DEF IInv, TypeOK
<1>3. IdsAreNew'
  <2>1. \A r : Past(r)' <=> Past(r)
    BY DEF Past
  <2> QED BY <1>1, <1>2, <2>1 DEF OwnerInv, IdsAreNew
<1>4. OwnersAreTold' /\ TradesAreBacked'
  BY ToldFrame, BackedFrame
<1>5. CurIsOpen' /\ TakerIsTold'
  BY DEF CurIsOpen, TakerIsTold
<1>6. MarksArePurged' /\ WalkIsNoted'
  BY DEF OwnerInv, MarksArePurged, WalkIsNoted, Working
<1>7. OrdersRestWell'
  <2> SUFFICES ASSUME NEW s \in Sides, NEW p \in levels'[s], NEW i \in DOMAIN orders'[s][p]
               PROVE  RestsWell(s, p, orders[s][p][i])'
    BY DEF OrdersRestWell
  <2>1. p \in levels[s]
    BY DEF BookOnlyLoses
  <2>2. PICK j \in DOMAIN orders[s][p] : orders'[s][p][i] = orders[s][p][j]
    BY DEF BookOnlyLoses
  <2>3. PICK o : o = orders[s][p][j]
    OBVIOUS
  <2>4. RestsWell(s, p, o) /\ o.id \in OrderIds /\ o.id # id
    BY <2>1, <2>2, <2>3, BookType, OrderFields DEF OwnerInv, OrdersRestWell, IInv
  <2>5. RestsWell(s, p, o)'
    BY <1>1, <2>4 DEF RestsWell, Working
  <2> QED BY <2>2, <2>3, <2>5 DEF RestsWell
<1> QED BY <1>3, <1>4, <1>5, <1>6, <1>7 DEF OwnerInv

LEMMA OwnerCancel ==
    ASSUME IInv, OwnerInv, NEW id \in OrderIds, CancelResting(id) \/ CancelStale(id)
    PROVE  OwnerInv'
<1>1. /\ pc = "idle" /\ idMap[id] \in Entries
      /\ UNCHANGED <<issued, submitted, pc, cur, at, prev, todo, pos, marked, purge,
                     modified, trades, executed, reported>>
      /\ idMap' = [idMap EXCEPT ![id] = None]
  BY DEF CancelResting, CancelStale, CloseCancel, input, walk, outbox, IInv, TypeOK
<1>2. PICK s \in Sides, p \in Prices : idMap[id] = [side |-> s, price |-> p]
  BY <1>1 DEF Entries
\* Only the level of the entry holds the order, if any does.
<1>3. ASSUME NEW x \in Sides, NEW r \in levels[x], NEW j \in DOMAIN orders[x][r],
             orders[x][r][j].id = id
      PROVE  x = s /\ r = p
  <2>1. RestsWell(x, r, orders[x][r][j])
    BY DEF OwnerInv, OrdersRestWell
  <2> QED BY <1>2, <1>3, <2>1 DEF RestsWell
<1>4. /\ levels' \in [Sides -> SUBSET Prices]
      /\ \A x \in Sides, r \in Prices : ~(x = s /\ r = p) =>
            orders'[x][r] = orders[x][r] /\ (r \in levels'[x] <=> r \in levels[x])
  <2>1. idMap[id].side = s /\ idMap[id].price = p
    BY <1>2
  <2>2. PICK q : orders' = [orders EXCEPT ![s][p] = q]
    BY <2>1 DEF CancelResting, CancelStale
  <2>3. PICK t : CloseCancel(id, s, p, t)
    BY <2>1 DEF CancelResting, CancelStale
  <2>4. PICK l : levels' = [levels EXCEPT ![s] = l] /\ l \in {levels[s] \ {p}, levels[s] \cup {p}}
    BY <2>3 DEF CloseCancel
  <2>5. levels \in [Sides -> SUBSET Prices] /\ orders \in [Sides -> [Prices -> Seq(Orders(OrderIds))]]
    BY DEF IInv, TypeOK
  <2>6. levels' \in [Sides -> SUBSET Prices]
    BY <2>4, <2>5
  <2>7. \A x \in Sides, r \in Prices : ~(x = s /\ r = p) =>
            orders'[x][r] = orders[x][r] /\ (r \in levels'[x] <=> r \in levels[x])
    BY <2>2, <2>4, <2>5
  <2> QED BY <2>6, <2>7
<1>5. ASSUME p \in levels'[s], NEW i \in DOMAIN orders'[s][p]
      PROVE  /\ p \in levels[s] /\ orders'[s][p][i].id # id
             /\ \E j \in DOMAIN orders[s][p] : orders'[s][p][i] = orders[s][p][j]
  <2>1. CASE CancelResting(id)
    <3>1. PICK k \in DOMAIN LevelOrders(s, p) :
            /\ orders[s][p][k].id = id
            /\ orders' = [orders EXCEPT ![s][p] = RemoveAt(@, k)]
      <4>1. idMap[id].side = s /\ idMap[id].price = p
        BY <1>2
      <4> QED BY <2>1, <4>1 DEF CancelResting
    <3>2. p \in levels[s] /\ k \in DOMAIN orders[s][p]
      BY <3>1, EmptySeq DEF LevelOrders
    <3>3. PICK q \in Seq(Orders(OrderIds)) :
            q = orders[s][p] /\ k \in 1 .. Len(q) /\ orders'[s][p] = RemoveAt(q, k)
      BY <3>1, <3>2, OrdersType DEF IInv, TypeOK
    <3>4. PICK j \in DOMAIN q : j # k /\ orders'[s][p][i] = q[j]
      BY <3>3, <1>5, RemoveAtKeeps
    <3>5. q[j].id # id
      BY <3>1, <3>2, <3>3, <3>4 DEF IInv, UniqueIds
    <3> QED BY <3>2, <3>3, <3>4, <3>5
  <2>2. CASE CancelStale(id)
    <3>1. /\ \A k \in DOMAIN LevelOrders(s, p) : orders[s][p][k].id # id
          /\ orders' = [orders EXCEPT ![s][p] = LevelOrders(s, p)]
          /\ levels' = [levels EXCEPT ![s] =
                           IF LevelTotal(s, p) = 0 THEN @ \ {p} ELSE @ \cup {p}]
      BY <1>2, <2>2 DEF CancelStale, CloseCancel
    <3>2. p \in levels[s]
      BY <1>5, <3>1 DEF LevelTotal, IInv, TypeOK
    <3>3. orders'[s][p] = orders[s][p] /\ LevelOrders(s, p) = orders[s][p]
      BY <3>1, <3>2 DEF LevelOrders, IInv, TypeOK
    <3> QED BY <1>5, <3>1, <3>2, <3>3
  <2> QED BY <2>1, <2>2
<1>6. ASSUME NEW x \in Sides, NEW r \in levels'[x], NEW i \in DOMAIN orders'[x][r]
      PROVE  /\ r \in levels[x] /\ orders'[x][r][i].id # id
             /\ \E j \in DOMAIN orders[x][r] : orders'[x][r][i] = orders[x][r][j]
  <2>1. r \in Prices
    BY <1>4
  <2>2. CASE x = s /\ r = p
    BY <1>5, <2>2
  <2>3. CASE ~(x = s /\ r = p)
    BY <1>3, <1>4, <2>1, <2>3
  <2> QED BY <2>2, <2>3
<1>7. BookOnlyLoses
  BY <1>6 DEF BookOnlyLoses
<1> QED BY <1>1, <1>6, <1>7, OwnerAfterCancel

\* The order the walk has come to was not matched before, so its owner knows
\* of it, it has something left, and the match takes some of that.
LEMMA MatchedOrder ==
    ASSUME IInv, FeedInv, OwnerInv, MatchOrder
    PROVE  \E s \in Sides, p \in Prices, o \in Orders(OrderIds), m \in Orders(OrderIds),
              n \in Nat \ {0}, t \in Trades :
             /\ s = CurSide /\ p = at /\ p \in levels[s]
             /\ pos \in DOMAIN orders[s][p] /\ o = orders[s][p][pos]
             /\ o.id # cur.id /\ Past(o.id) /\ o.id \notin Touched /\ o.id \notin Passive
             /\ reported[o.id] = View(o) /\ executed[o.id] = o.qty - o.rem
             /\ n <= o.rem /\ n <= cur.rem
             /\ m.id = o.id /\ m.side = o.side /\ m.price = o.price /\ m.type = o.type
             /\ m.qty = o.qty /\ m.rem = o.rem - n
             /\ m.status = IF m.rem = 0 THEN "FILLED" ELSE "PARTIAL"
             /\ cur' \in Orders(OrderIds) /\ cur'.id = cur.id /\ cur'.side = cur.side
             /\ cur'.type = cur.type /\ cur'.qty = cur.qty /\ cur'.rem = cur.rem - n
             /\ cur'.status = IF cur'.rem = 0 THEN "FILLED" ELSE "PARTIAL"
             /\ t.passive = o.id /\ t.aggressor = cur.id /\ t.qty = n
             /\ orders' = [orders EXCEPT ![s][p][pos] = m]
             /\ total' = [total EXCEPT ![s][p] = @ - n]
             /\ marked' = IF m.rem = 0 THEN [marked EXCEPT ![p] = Append(@, o.id)] ELSE marked
             /\ modified' = Append(modified, m) /\ trades' = Append(trades, t)
<1> DEFINE s == CurSide
           p == at
           q == orders[s][p]
           o == q[pos]
           n == MatchedQty(o, cur)
           m == Reduced(o, n, cur.rem - n)
           t == [passive |-> m.id, aggressor |-> cur.id, price |-> m.price, qty |-> n]
<1>1. /\ s \in Sides /\ p \in levels[s] /\ p \in Prices
      /\ q \in Seq(Orders(OrderIds)) /\ pos \in 1 .. Len(q)
      /\ o \in Orders(OrderIds) /\ cur \in Orders(OrderIds)
      /\ n \in Nat /\ n <= o.rem /\ n <= cur.rem
      /\ n = o.rem \/ n = cur.rem
      /\ m \in Orders(OrderIds) /\ cur' \in Orders(OrderIds)
  BY MatchOrderFacts
<1>2. /\ pc = "level" /\ cur.rem > 0 /\ orders' = [orders EXCEPT ![s][p][pos] = m]
      /\ total' = [total EXCEPT ![s][p] = @ - n]
      /\ cur' = Reduced(cur, n, o.rem - n)
      /\ marked' = IF m.status = "FILLED" THEN [marked EXCEPT ![p] = Append(@, m.id)] ELSE marked
      /\ modified' = Append(modified, m) /\ trades' = Append(trades, t)
  BY DEF MatchOrder
<1>3. pos \in DOMAIN q /\ pos >= pos
  BY <1>1, LenProperties
<1>4. /\ Past(o.id) /\ RestsWell(s, p, o) /\ IsTold(o) /\ o.id # cur.id
  <2>1. Past(o.id)
    BY <1>1, <1>2, <1>3, BookIsPast DEF IInv
  <2>2. RestsWell(s, p, o) /\ IsTold(o)
    BY <1>1, <1>3, <2>1 DEF OwnerInv, OrdersRestWell, OwnersAreTold
  <2>3. ~Past(cur.id)
    BY <1>2, CurIsNotPast DEF IInv
  <2> QED BY <2>1, <2>2, <2>3
<1>5. o.id \notin Touched /\ o.id \notin Passive
  BY <1>2, <1>3 DEF OwnerInv, WalkIsNoted
<1>6. o.rem # 0
  BY <1>1, <1>2, <1>4, <1>5 DEF OwnerInv, WalkIsNoted, RestsWell
<1>7. reported[o.id] = View(o) /\ executed[o.id] = o.qty - o.rem
  BY <1>4, <1>5 DEF IsTold
<1> HIDE DEF o, n, m, s, p, q
<1>8. o.rem \in Nat /\ cur.rem \in Nat /\ n \in Nat \ {0}
  <2>1. o.rem \in Nat /\ cur.rem \in Nat
    BY <1>1, OrderFields
  <2> QED BY <2>1, <1>1, <1>2, <1>6
<1>9. /\ m.id = o.id /\ m.side = o.side /\ m.price = o.price /\ m.type = o.type
      /\ m.qty = o.qty /\ m.rem = o.rem - n
      /\ m.status = IF o.rem - n <= cur.rem - n THEN "FILLED" ELSE "PARTIAL"
  BY <1>1 DEF Reduced, Orders, m
<1>10. /\ cur'.id = cur.id /\ cur'.side = cur.side
       /\ cur'.type = cur.type /\ cur'.qty = cur.qty /\ cur'.rem = cur.rem - n
       /\ cur'.status = IF cur.rem - n <= o.rem - n THEN "FILLED" ELSE "PARTIAL"
  BY <1>1, <1>2 DEF Reduced, Orders
<1>11. (o.rem - n <= cur.rem - n <=> m.rem = 0) /\ (cur.rem - n <= o.rem - n <=> cur'.rem = 0)
  BY <1>1, <1>8, <1>9, <1>10
<1>12. t \in Trades /\ t.passive = o.id /\ t.aggressor = cur.id /\ t.qty = n
  BY <1>1, <1>8, <1>9 DEF Trades, Orders
<1>13. m.status = "FILLED" <=> m.rem = 0
  BY <1>9, <1>11
<1>14. /\ s = CurSide /\ p = at /\ pos \in DOMAIN orders[s][p] /\ o = orders[s][p][pos]
  BY <1>3 DEF s, p, q, o
<1>15. /\ marked' = IF m.rem = 0 THEN [marked EXCEPT ![p] = Append(@, o.id)] ELSE marked
       /\ m.status = IF m.rem = 0 THEN "FILLED" ELSE "PARTIAL"
       /\ cur'.status = IF cur'.rem = 0 THEN "FILLED" ELSE "PARTIAL"
  BY <1>2, <1>9, <1>10, <1>11, <1>13
<1> HIDE DEF t
<1> QED BY <1>1, <1>2, <1>4, <1>5, <1>7, <1>8, <1>9, <1>10, <1>12, <1>14, <1>15

LEMMA OwnerMatchOrder ==
    ASSUME IInv, FeedInv, OwnerInv, MatchOrder
    PROVE  OwnerInv'
<1>1. PICK s \in Sides, p \in Prices, o \in Orders(OrderIds), m \in Orders(OrderIds),
           n \in Nat \ {0}, t \in Trades :
        /\ s = CurSide /\ p = at /\ p \in levels[s]
        /\ pos \in DOMAIN orders[s][p] /\ o = orders[s][p][pos]
        /\ o.id # cur.id /\ Past(o.id) /\ o.id \notin Touched /\ o.id \notin Passive
        /\ reported[o.id] = View(o) /\ executed[o.id] = o.qty - o.rem
        /\ n <= o.rem /\ n <= cur.rem
        /\ m.id = o.id /\ m.side = o.side /\ m.price = o.price /\ m.type = o.type
        /\ m.qty = o.qty /\ m.rem = o.rem - n
        /\ m.status = IF m.rem = 0 THEN "FILLED" ELSE "PARTIAL"
        /\ cur' \in Orders(OrderIds) /\ cur'.id = cur.id /\ cur'.side = cur.side
        /\ cur'.type = cur.type /\ cur'.qty = cur.qty /\ cur'.rem = cur.rem - n
        /\ cur'.status = IF cur'.rem = 0 THEN "FILLED" ELSE "PARTIAL"
        /\ t.passive = o.id /\ t.aggressor = cur.id /\ t.qty = n
        /\ orders' = [orders EXCEPT ![s][p][pos] = m]
        /\ total' = [total EXCEPT ![s][p] = @ - n]
        /\ marked' = IF m.rem = 0 THEN [marked EXCEPT ![p] = Append(@, o.id)] ELSE marked
        /\ modified' = Append(modified, m) /\ trades' = Append(trades, t)
  BY MatchedOrder
\* The order that is matched, and what becomes of it; where it is; the records.
<1>1a. /\ o.id # cur.id /\ Past(o.id) /\ o.id \notin Touched /\ o.id \notin Passive
       /\ m.id = o.id /\ m.side = o.side /\ m.price = o.price /\ m.type = o.type
       /\ m.qty = o.qty /\ m.rem = o.rem - n
       /\ m.status = IF m.rem = 0 THEN "FILLED" ELSE "PARTIAL"
       /\ t.passive = o.id /\ t.aggressor = cur.id /\ t.qty = n
  BY <1>1
<1>1b. /\ cur' \in Orders(OrderIds) /\ cur'.id = cur.id /\ cur'.side = cur.side
       /\ cur'.type = cur.type /\ cur'.qty = cur.qty /\ cur'.rem = cur.rem - n
       /\ n <= cur.rem /\ cur'.status = IF cur'.rem = 0 THEN "FILLED" ELSE "PARTIAL"
  BY <1>1
<1>1c. /\ s = CurSide /\ p = at /\ p \in levels[s]
       /\ pos \in DOMAIN orders[s][p] /\ o = orders[s][p][pos]
       /\ orders' = [orders EXCEPT ![s][p][pos] = m]
  BY <1>1
<1>1d. marked' = IF m.rem = 0 THEN [marked EXCEPT ![p] = Append(@, o.id)] ELSE marked
  BY <1>1
<1>2. /\ pc = "level" /\ pos' = pos + 1
      /\ UNCHANGED <<levels, idMap, issued, submitted, pc, todo, at, prev, purge,
                     executed, reported>>
  BY DEF MatchOrder, input, feeds
<1>3. /\ CurSide' = CurSide /\ Working /\ Working' /\ \A id : Past(id)' <=> Past(id)
  BY <1>1b, <1>2 DEF CurSide, Working, Past
<1>4. /\ o.id \in OrderIds /\ o.qty \in Nat /\ o.rem \in Nat /\ cur \in Orders(OrderIds)
      /\ cur.qty \in Nat /\ cur.rem \in Nat /\ ~Past(cur.id) /\ m.rem \in Nat
  BY <1>1, <1>2, CurIsNotPast, OrderFields DEF IInv
<1>5. /\ DOMAIN modified' = DOMAIN modified \cup {Len(modified) + 1}
      /\ Len(modified) + 1 \notin DOMAIN modified
      /\ \A i \in DOMAIN modified : modified'[i] = modified[i]
      /\ modified'[Len(modified) + 1] = m
  <2>1. modified \in Seq(Orders(OrderIds))
    BY DEF IInv, TypeOK
  <2> QED BY <1>1, <2>1, AppendCases
<1>6. /\ DOMAIN trades' = DOMAIN trades \cup {Len(trades) + 1}
      /\ Len(trades) + 1 \notin DOMAIN trades
      /\ \A i \in DOMAIN trades : trades'[i] = trades[i]
      /\ trades'[Len(trades) + 1] = t
      /\ Len(trades') = Len(trades) + 1 /\ Len(trades) \in Nat
      /\ DOMAIN trades = 1 .. Len(trades)
  <2>1. trades \in Seq(Trades)
    BY DEF IInv, TypeOK
  <2> QED BY <1>1, <2>1, AppendCases, LenProperties
<1>7. /\ Touched' = Touched \cup {o.id} /\ Passive' = Passive \cup {o.id}
      /\ \A i \in DOMAIN modified : modified[i].id # o.id
      /\ \A i \in DOMAIN trades : trades[i].passive # o.id
      /\ Passive = Touched
  <2>1. \A i \in DOMAIN modified : modified[i].id \in Touched
    BY DEF Touched
  <2>2. \A i \in DOMAIN trades : trades[i].passive \in Passive
    BY DEF Passive
  <2>3. Touched' = Touched \cup {o.id}
    BY <1>1a, <1>5 DEF Touched
  <2>4. Passive' = Passive \cup {o.id}
    BY <1>1a, <1>6 DEF Passive
  <2> QED BY <1>1a, <1>2, <2>1, <2>2, <2>3, <2>4 DEF OwnerInv, WalkIsNoted
<1>7a. executed[m.id] + t.qty = m.qty - m.rem /\ executed[m.id] <= m.qty - m.rem
  <2>1. executed[m.id] = o.qty - o.rem /\ t.qty = n /\ m.qty = o.qty /\ m.rem = o.rem - n
    BY <1>1
  <2> QED BY <1>4, <2>1
\* The other orders of the book stay as they are and have other ids.
<1>8. /\ orders'[s][p][pos] = m
      /\ \A x \in Sides, r \in Prices : DOMAIN orders'[x][r] = DOMAIN orders[x][r]
      /\ \A x \in Sides, r \in Prices : \A i \in DOMAIN orders[x][r] :
            ~(x = s /\ r = p /\ i = pos) => orders'[x][r][i] = orders[x][r][i]
  BY <1>1c DEF IInv, TypeOK
<1>9. ASSUME NEW x \in Sides, NEW r \in levels[x], NEW i \in DOMAIN orders[x][r],
             ~(x = s /\ r = p /\ i = pos)
      PROVE  orders[x][r][i].id # o.id
  <2>1. RestsWell(x, r, orders[x][r][i]) /\ RestsWell(s, p, o)
    BY <1>1 DEF OwnerInv, OrdersRestWell
  <2>2. CASE x = s /\ r = p
    BY <1>1, <1>9, <2>2 DEF IInv, UniqueIds
  <2>3. CASE ~(x = s /\ r = p)
    BY <2>1, <2>3 DEF RestsWell
  <2> QED BY <2>2, <2>3
<1>10. IdsAreNew'
  <2>1. \A i \in DOMAIN modified' : Past(modified'[i].id)
    BY <1>1a, <1>5 DEF OwnerInv, IdsAreNew
  <2>2. \A i \in DOMAIN trades' : Past(trades'[i].passive) /\ trades'[i].aggressor = cur.id
    BY <1>1a, <1>6 DEF OwnerInv, IdsAreNew
  <2> QED BY <2>1, <2>2, <1>1, <1>2, <1>3 DEF OwnerInv, IdsAreNew
<1>11. CurIsOpen'
  BY <1>1b, <1>2, <1>4 DEF OwnerInv, CurIsOpen
<1>12. /\ \A r \in Prices : r # p => marked'[r] = marked[r]
       /\ \A k \in DOMAIN marked[p] : k \in DOMAIN marked'[p] /\ marked'[p][k] = marked[p][k]
       /\ \A k \in DOMAIN marked'[p] :
             (k \in DOMAIN marked[p] /\ marked'[p][k] = marked[p][k]) \/ marked'[p][k] = o.id
       /\ m.rem = 0 => \E k \in DOMAIN marked'[p] : marked'[p][k] = o.id
  <2>1. marked \in [Prices -> Seq(OrderIds)] /\ marked[p] \in Seq(OrderIds)
    BY DEF IInv, TypeOK
  <2>2. CASE m.rem = 0
    <3> DEFINE a == marked[p]
               b == Append(a, o.id)
    <3>1. marked'[p] = b /\ \A r \in Prices : r # p => marked'[r] = marked[r]
      BY <1>1d, <2>1, <2>2
    <3>2. a \in Seq(OrderIds)
      BY <2>1
    <3> HIDE DEF a
    <3>3. /\ DOMAIN b = DOMAIN a \cup {Len(a) + 1} /\ b[Len(a) + 1] = o.id
          /\ \A i \in DOMAIN a : b[i] = a[i]
      BY <1>4, <3>2, AppendCases
    <3> HIDE DEF b
    <3> QED BY <3>1, <3>3 DEF a
  <2>3. CASE m.rem # 0
    BY <1>1d, <2>3
  <2> QED BY <2>2, <2>3
<1>13. OrdersRestWell'
  <2> SUFFICES ASSUME NEW x \in Sides, NEW r \in levels[x], NEW i \in DOMAIN orders[x][r]
               PROVE  RestsWell(x, r, orders[x][r][i])'
    <3>1. \A x \in Sides : levels[x] \subseteq Prices
      BY DEF IInv, TypeOK
    <3> QED BY <3>1, <1>2, <1>8 DEF OrdersRestWell
  <2>1. r \in Prices /\ RestsWell(x, r, orders[x][r][i])
    BY BookType DEF OwnerInv, OrdersRestWell, IInv
  <2>2. CASE x = s /\ r = p /\ i = pos
    <3>1. RestsWell(s, p, o)
      BY <1>1, <2>1, <2>2
    <3>2. RestsWell(s, p, m)'
      <4>1. m.side = s /\ m.price = p /\ m.type = "LIMIT" /\ m.rem <= m.qty
        BY <1>1a, <1>4, <3>1 DEF RestsWell
      <4>2. idMap'[m.id] = [side |-> s, price |-> p] /\ m.id = o.id
        BY <1>1a, <1>2, <3>1 DEF RestsWell
      <4>3. m.rem > 0 => m.status \in {"OPEN", "PARTIAL"}
        BY <1>1
      <4>4. m.rem = 0 => Working' /\ s = CurSide' /\ \E k \in DOMAIN marked'[p] : marked'[p][k] = m.id
        <5>1. s = CurSide
          BY <1>1
        <5> QED BY <1>3, <1>12, <4>2, <5>1
      <4>5. pc' # "done"
        BY <1>2
      <4> QED BY <4>1, <4>2, <4>3, <4>4, <4>5 DEF RestsWell
    <3> QED BY <1>8, <2>2, <3>2 DEF RestsWell
  <2>3. CASE ~(x = s /\ r = p /\ i = pos)
    <3>1. PICK c : c = orders[x][r][i]
      OBVIOUS
    <3>2. (\E k \in DOMAIN marked[r] : marked[r][k] = c.id) =>
             \E k \in DOMAIN marked'[r] : marked'[r][k] = c.id
      BY <1>12, <2>1
    <3>3. RestsWell(x, r, c)'
      BY <1>2, <1>3, <2>1, <3>1, <3>2 DEF RestsWell
    <3>4. orders'[x][r][i] = c
      BY <1>8, <2>1, <2>3, <3>1
    <3> QED BY <3>3, <3>4 DEF RestsWell
  <2> QED BY <2>2, <2>3
<1>14. MarksArePurged'
  <2>1. /\ total[s][p] \in Nat /\ prev \in Nat /\ total[s][p] <= prev
    BY <1>1, <1>2 DEF OwnerInv, MarksArePurged, IInv, TypeOK
  <2>2. total'[s][p] = total[s][p] - n
    BY <1>1 DEF IInv, TypeOK
  <2>3. total'[s][p] <= prev /\ total'[s][p] # prev
    BY <2>1, <2>2
  <2>4. total'[CurSide'][at'] = total'[s][p] /\ p = at
    BY <1>1, <1>2, <1>3
  <2>5. ASSUME NEW r \in Prices, marked'[r] # <<>>
        PROVE  (\E k \in DOMAIN purge : purge[k] = r) \/ r = p
    BY <1>1c, <1>12, <2>5 DEF OwnerInv, MarksArePurged
  <2> QED BY <1>2, <2>3, <2>4, <2>5 DEF MarksArePurged
<1>15. WalkIsNoted'
  <2>1. \A i, j \in DOMAIN modified' : modified'[i].id = modified'[j].id => i = j
    BY <1>1a, <1>5, <1>7 DEF OwnerInv, WalkIsNoted
  <2>2. \A i, j \in DOMAIN trades' : trades'[i].passive = trades'[j].passive => i = j
    BY <1>1a, <1>6, <1>7 DEF OwnerInv, WalkIsNoted
  <2>3. \A r \in Prices : \A k \in DOMAIN marked'[r] : marked'[r][k] \in Touched'
    BY <1>2, <1>7, <1>12 DEF OwnerInv, WalkIsNoted
  <2>4. p \notin todo /\ todo \subseteq levels[s] /\ todo \subseteq Prices
    BY <1>1, <1>2 DEF FeedInv, UpdatesHold, IInv, WalkLeavesNothing, TypeOK
  <2>5. ASSUME NEW r \in todo, NEW i \in DOMAIN orders'[s][r]
        PROVE  orders'[s][r][i].id \notin Touched'
    <3>1. r \in Prices /\ r \in levels[s] /\ r # p /\ i \in DOMAIN orders[s][r]
      BY <1>8, <2>4
    <3>2. orders'[s][r][i] = orders[s][r][i] /\ orders[s][r][i].id # o.id
      BY <1>8, <1>9, <3>1
    <3>3. orders[s][r][i].id \notin Touched
      BY <1>1, <1>2, <3>1 DEF OwnerInv, WalkIsNoted
    <3> QED BY <1>7, <3>2, <3>3
  <2>6. ASSUME NEW i \in DOMAIN orders'[s][p], i >= pos + 1
        PROVE  orders'[s][p][i].id \notin Touched'
    <3>0. pos \in Nat /\ i \in Nat
      <4>1. DOMAIN orders[s][p] = 1 .. Len(orders[s][p])
        BY OrdersType DEF IInv
      <4>2. pos \in Nat
        BY DEF IInv, TypeOK
      <4> QED BY <1>8, <4>1, <4>2
    <3>1. i \in DOMAIN orders[s][p] /\ i # pos /\ i >= pos
      BY <1>8, <2>6, <3>0
    <3>2. orders'[s][p][i] = orders[s][p][i] /\ orders[s][p][i].id # o.id
      BY <1>1c, <1>8, <1>9, <3>1
    <3>3. orders[s][p][i].id \notin Touched
      BY <1>1, <1>2, <3>1 DEF OwnerInv, WalkIsNoted
    <3> QED BY <1>7, <3>2, <3>3
  <2> QED BY <1>1c, <1>2, <1>3, <1>7, <2>1, <2>2, <2>3, <2>5, <2>6 DEF WalkIsNoted
<1>16. OwnersAreTold'
  <2> SUFFICES ASSUME NEW x \in Sides, NEW r \in levels[x], NEW i \in DOMAIN orders[x][r],
                      Past(orders'[x][r][i].id)
               PROVE  IsTold(orders[x][r][i])'
    <3>1. \A x \in Sides : levels[x] \subseteq Prices
      BY DEF IInv, TypeOK
    <3> QED BY <3>1, <1>2, <1>3, <1>8 DEF OwnersAreTold
  <2>1. r \in Prices
    BY BookType DEF IInv
  <2>2. CASE x = s /\ r = p /\ i = pos
    <3>1. \A k \in DOMAIN modified' : modified'[k].id = m.id => View(modified'[k]) = View(m)
      BY <1>1a, <1>5, <1>7
    <3>2. m.id \in Touched' /\ m.id \in Passive'
      BY <1>1a, <1>7
    <3>3. \A k \in DOMAIN trades' :
             trades'[k].passive = m.id => executed[m.id] + trades'[k].qty = m.qty - m.rem
      <4>1. \A k \in DOMAIN trades : trades[k].passive # m.id
        BY <1>1a, <1>7
      <4> QED BY <1>6, <1>7a, <4>1
    <3>4. IsTold(m)'
      BY <1>2, <3>1, <3>2, <3>3 DEF IsTold, View
    <3> QED BY <1>8, <2>2, <3>4 DEF IsTold, View
  <2>3. CASE ~(x = s /\ r = p /\ i = pos)
    <3>1. PICK c : c = orders[x][r][i] /\ c = orders'[x][r][i] /\ c.id # o.id
      BY <1>8, <1>9, <2>1, <2>3
    <3>2. IsTold(c)
      BY <3>1 DEF OwnerInv, OwnersAreTold
    <3>3. \A k \in DOMAIN modified' : modified'[k].id = c.id => View(modified'[k]) = View(c)
      <4>1. m.id # c.id
        BY <1>1a, <3>1
      <4>2. \A k \in DOMAIN modified : modified[k].id = c.id => View(modified[k]) = View(c)
        BY <3>2 DEF IsTold
      <4> QED BY <1>5, <4>1, <4>2
    <3>4. \A k \in DOMAIN trades' :
             trades'[k].passive = c.id => executed[c.id] + trades'[k].qty = c.qty - c.rem
      <4>1. t.passive # c.id
        BY <1>1a, <3>1
      <4>2. \A k \in DOMAIN trades :
               trades[k].passive = c.id => executed[c.id] + trades[k].qty = c.qty - c.rem
        BY <3>2 DEF IsTold
      <4> QED BY <1>6, <4>1, <4>2
    <3>5. IsTold(c)'
      BY <1>2, <1>7, <3>1, <3>2, <3>3, <3>4 DEF IsTold, View
    <3> QED BY <3>1, <3>5 DEF IsTold, View
  <2> QED BY <2>2, <2>3
<1>17. TakerIsTold'
  <2>1. PICK ss \in [0 .. Len(trades) -> 0 .. cur.qty] : AnnouncedUpTo(ss)
    BY <1>2 DEF OwnerInv, TakerIsTold
  <2>2. PICK s2 : s2 = [k \in 0 .. Len(trades) + 1 |->
                           IF k <= Len(trades) THEN ss[k] ELSE cur.qty - (cur.rem - n)]
    OBVIOUS
  <2>3. cur.rem <= cur.qty
    BY <1>2 DEF OwnerInv, CurIsOpen
  <2>4. cur.qty - (cur.rem - n) \in 0 .. cur.qty
    BY <1>1, <1>4, <2>3
  <2>5. s2 \in [0 .. Len(trades') -> 0 .. cur'.qty]
    BY <1>1b, <1>6, <2>1, <2>2, <2>4
  <2>6. s2[0] = executed[cur.id] /\ s2[Len(trades')] = cur'.qty - cur'.rem
    BY <1>1b, <1>6, <2>1, <2>2 DEF AnnouncedUpTo
  <2>7. ASSUME NEW k \in 1 .. Len(trades')
        PROVE  s2[k] = s2[k - 1] + trades'[k].qty
    <3>1. CASE k \in 1 .. Len(trades)
      <4>1. ss[k] = ss[k - 1] + trades[k].qty
        BY <2>1, <3>1 DEF AnnouncedUpTo
      <4>2. /\ k \in 0 .. Len(trades) + 1 /\ k <= Len(trades)
            /\ k - 1 \in 0 .. Len(trades) + 1 /\ k - 1 <= Len(trades)
        BY <1>6, <3>1
      <4>3. s2[k] = ss[k] /\ s2[k - 1] = ss[k - 1]
        BY <2>2, <4>2
      <4>4. trades'[k] = trades[k]
        BY <1>6, <3>1
      <4> QED BY <4>1, <4>3, <4>4
    <3>2. CASE k = Len(trades) + 1
      <4>1. ss[Len(trades)] = cur.qty - cur.rem
        BY <2>1 DEF AnnouncedUpTo
      <4>2. s2[k] = cur.qty - (cur.rem - n) /\ s2[k - 1] = cur.qty - cur.rem /\ trades'[k].qty = n
        BY <1>1a, <1>6, <2>2, <3>2, <4>1
      <4> QED BY <1>4, <4>2
    <3> QED BY <1>6, <3>1, <3>2
  <2>8. AnnouncedUpTo(s2)'
    BY <1>1, <1>2, <2>6, <2>7 DEF AnnouncedUpTo
  <2> QED BY <1>2, <2>5, <2>8 DEF TakerIsTold
<1>18. TradesAreBacked'
  <2>1. FillsReportedBeforeTrades'
    <3>1. cur # None /\ cur' # None
      BY <1>1, <1>4, NoneAssumption
    <3> QED BY <1>1, <1>2, <3>1 DEF OwnerInv, TradesAreBacked, FillsReportedBeforeTrades
  <2>2. ASSUME NEW j \in DOMAIN modified'
        PROVE  executed[modified'[j].id] <= modified'[j].qty - modified'[j].rem
    <3>1. CASE j \in DOMAIN modified
      BY <1>5, <3>1 DEF OwnerInv, TradesAreBacked
    <3>2. CASE j = Len(modified) + 1
      BY <1>5, <1>7a, <3>2
    <3> QED BY <1>5, <3>1, <3>2
  <2>3. ASSUME NEW k \in DOMAIN trades'
        PROVE  LET id == trades'[k].passive
                   e == executed[id] + trades'[k].qty
               IN  \/ \E j \in DOMAIN modified' :
                         modified'[j].id = id /\ e <= modified'[j].qty - modified'[j].rem
                   \/ /\ id \notin Touched' /\ reported[id] # None
                      /\ e <= reported[id].qty - reported[id].rem
    <3>1. CASE k \in DOMAIN trades
      <4> DEFINE id == trades[k].passive
                 e == executed[id] + trades[k].qty
      <4>1. id # o.id /\ trades'[k] = trades[k]
        BY <1>6, <1>7, <3>1
      <4>2. \/ \E j \in DOMAIN modified :
                  modified[j].id = id /\ e <= modified[j].qty - modified[j].rem
            \/ /\ id \notin Touched /\ reported[id] # None
               /\ e <= reported[id].qty - reported[id].rem
        BY <3>1 DEF OwnerInv, TradesAreBacked
      <4>3. (\E j \in DOMAIN modified :
                modified[j].id = id /\ e <= modified[j].qty - modified[j].rem) =>
             \E j \in DOMAIN modified' :
                modified'[j].id = id /\ e <= modified'[j].qty - modified'[j].rem
        BY <1>5
      <4>4. id \notin Touched => id \notin Touched'
        BY <1>7, <4>1
      <4> QED BY <4>1, <4>2, <4>3, <4>4
    <3>2. CASE k = Len(trades) + 1
      <4>1. trades'[k] = t
        BY <1>6, <3>2
      <4>2. executed[t.passive] + t.qty <= m.qty - m.rem /\ m.id = t.passive
        BY <1>1a, <1>4, <1>7a
      <4> QED BY <1>5, <4>1, <4>2
    <3> QED BY <1>6, <3>1, <3>2
  <2> QED BY <1>2, <2>1, <2>2, <2>3 DEF TradesAreBacked
<1> QED BY <1>10, <1>11, <1>13, <1>14, <1>15, <1>16, <1>17, <1>18 DEF OwnerInv

LEMMA OwnerStep ==
    ASSUME FreshOrders, IInv, FeedInv, OwnerInv, [Next]_vars
    PROVE  OwnerInv'
<1>1. CASE Submit
  BY <1>1, OwnerSubmit
<1>2. CASE Engine
  BY <1>2, OwnerQuiet, OwnerMatchLevel, OwnerMatchOrder, OwnerLevelDone,
     OwnerMatchDone, OwnerReportModified, OwnerRemoveMarked, OwnerPublishTrade,
     OwnerMatchReturns, OwnerRest, OwnerReturn
     DEF Engine
<1>3. CASE Cancel
  BY <1>3, OwnerQuiet, OwnerCancel DEF Cancel
<1>4. CASE UNCHANGED vars
  BY <1>4, OwnerQuiet
<1> QED BY <1>1, <1>2, <1>3, <1>4 DEF Next

LEMMA InitOwnerInv == Init => OwnerInv
<1> SUFFICES ASSUME Init PROVE OwnerInv
  OBVIOUS
<1>1. /\ pc = "idle" /\ issued = 0 /\ submitted = 0 /\ at = None /\ cur = None
      /\ modified = <<>> /\ trades = <<>> /\ purge = <<>>
      /\ DOMAIN modified = {} /\ DOMAIN trades = {}
      /\ \A s \in Sides : levels[s] = {}
      /\ \A p \in Prices : marked[p] = <<>>
      /\ \A id \in OrderIds : idMap[id] = None /\ reported[id] = None /\ executed[id] = 0
  BY EmptySeq DEF Init
<1>2. IdsAreNew /\ CurIsOpen /\ TakerIsTold
  BY <1>1 DEF IdsAreNew, CurIsOpen, TakerIsTold
<1>3. OrdersRestWell /\ OwnersAreTold /\ MarksArePurged
  BY <1>1 DEF OrdersRestWell, OwnersAreTold, MarksArePurged
<1>4. WalkIsNoted /\ TradesAreBacked
  BY <1>1 DEF WalkIsNoted, TradesAreBacked, FillsReportedBeforeTrades
<1> QED BY <1>2, <1>3, <1>4 DEF OwnerInv

LEMMA OwnerInvariant ==
    ASSUME FreshOrders
    PROVE  Spec => [](IInv /\ FeedInv /\ OwnerInv)
<1>1. Init => OwnerInv
  BY InitOwnerInv
<1>2. IInv /\ FeedInv /\ OwnerInv /\ [Next]_vars => OwnerInv'
  BY OwnerStep
<1> QED BY <1>1, <1>2, FeedInvariant, PTL DEF Spec

-----------------------------------------------------------------------------
\* Whenever no call is in progress, every order in the book can be removed by
\* its id: orders_id_map_ says where it rests.
THEOREM CancellableCorrect ==
    ASSUME FreshOrders
    PROVE  Spec => []Cancellable
<1>1. OwnerInv => Cancellable
  <2> SUFFICES ASSUME OwnerInv,
                      NEW s \in Sides, NEW p \in levels[s], NEW i \in DOMAIN orders[s][p]
               PROVE  idMap[orders[s][p][i].id] = [side |-> s, price |-> p]
    BY DEF Cancellable
  <2>1. RestsWell(s, p, orders[s][p][i])
    BY DEF OwnerInv, OrdersRestWell
  <2> QED BY <2>1 DEF RestsWell
<1> QED BY <1>1, OwnerInvariant, PTL

\* Whenever no call is in progress, an order in the book is an unfilled limit
\* order whose owner was told exactly its quantities and status, and the trades
\* announced of it add up to what it has lost.
THEOREM PrivateFeedCorrect ==
    ASSUME FreshOrders
    PROVE  Spec => []PrivateFeedExact
<1>1. IInv /\ OwnerInv => PrivateFeedExact
  <2> SUFFICES ASSUME IInv, OwnerInv, pc = "idle",
                      NEW s \in Sides, NEW p \in levels[s], NEW i \in DOMAIN orders[s][p]
               PROVE  LET o == orders[s][p][i] IN
                      /\ o.type = "LIMIT" /\ o.rem > 0 /\ o.status \in {"OPEN", "PARTIAL"}
                      /\ reported[o.id] = View(o)
                      /\ executed[o.id] = o.qty - o.rem
    BY DEF PrivateFeedExact
  <2> DEFINE o == orders[s][p][i]
  <2>1. RestsWell(s, p, o) /\ Past(o.id) /\ o.rem \in Nat
    <3>1. o \in Orders(OrderIds)
      BY BookType DEF IInv
    <3>2. o.rem \in Nat
      BY <3>1, OrderFields
    <3>3. Past(o.id)
      BY BookIsPast DEF IInv
    <3>4. RestsWell(s, p, o)
      BY DEF OwnerInv, OrdersRestWell
    <3> QED BY <3>2, <3>3, <3>4
  <2>2. IsTold(o)
    BY <2>1 DEF OwnerInv, OwnersAreTold
  <2>3. Touched = {} /\ Passive = {}
    BY EmptySeq DEF OwnerInv, WalkIsNoted, Working, Touched, Passive
  <2>4. reported[o.id] = View(o) /\ executed[o.id] = o.qty - o.rem
    BY <2>2, <2>3 DEF IsTold
  <2>5. o.rem > 0
    BY <2>1 DEF RestsWell, Working
  <2> QED BY <2>1, <2>4, <2>5 DEF RestsWell
<1> QED BY <1>1, OwnerInvariant, PTL

\* In every state of every call, the owner of an order was told of all that the
\* trades announced so far have taken off it: MatchingEngine::match_order sends
\* the modified orders before the trades.
THEOREM FillsReportedFirst ==
    ASSUME FreshOrders
    PROVE  Spec => []FillsReportedBeforeTrades
<1>1. OwnerInv => FillsReportedBeforeTrades
  BY DEF OwnerInv, TradesAreBacked
<1> QED BY <1>1, OwnerInvariant, PTL

=============================================================================
