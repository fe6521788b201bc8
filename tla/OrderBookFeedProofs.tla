------------------------- MODULE OrderBookFeedProofs -------------------------
(***************************************************************************)
(* Proofs about what the public feed shows and about what leaves the book, *)
(* for every set of prices and incoming orders, ids reused or not.         *)
(***************************************************************************)
EXTENDS OrderBookProofs

\* A level of total zero holds nothing that has quantity left.
LEMMA TallyBounds ==
    ASSUME NEW q \in Seq(Orders(OrderIds)), NEW t \in Nat, Tally(q, t),
           NEW i \in 1 .. Len(q)
    PROVE  q[i].rem \in Nat /\ q[i].rem <= t
<1>1. t - q[i].rem \in Nat
  BY TallyRemove
<1>2. q[i] \in Orders(OrderIds)
  BY ElementOfSeq
<1>3. q[i].rem \in Nat
  BY <1>2 DEF Orders
<1> QED BY <1>1, <1>3

\* What an update of the feed and an empty feed look like.
LEMMA OwedFacts ==
    /\ updates = <<>> => Owed = {}
    /\ \A i \in DOMAIN updates : updates[i].price \in Owed
BY EmptySeq DEF Owed

LEMMA UpdatesType ==
    ASSUME TypeOK, NEW i \in DOMAIN updates
    PROVE  updates[i].price \in Prices /\ updates[i].total \in Nat
<1>1. updates[i] \in Updates
  BY ElementOfSeq DEF TypeOK
<1> QED BY <1>1 DEF Updates

\* When nothing is owed and no level is being walked, the feed is the book.
LEMMA FeedIsExact ==
    ASSUME IInv, FeedInv, pc \in {"idle", "rest", "done"}
    PROVE  updates = <<>> /\ \A s \in Sides, p \in Prices : mirror[s][p] = LevelTotal(s, p)
<1>1. updates = <<>> /\ Owed = {}
  BY OwedFacts DEF FeedInv, UpdatesHold
<1>2. at = None /\ None \notin Prices
  BY NoneAssumption DEF IInv, TypeOK
<1> QED BY <1>1, <1>2 DEF FeedInv, FeedFollows

-----------------------------------------------------------------------------
(* One lemma per kind of step.                                             *)

LEMMA FeedQuiet ==
    ASSUME IInv, FeedInv,
           \/ ReportModified \/ RemoveMarkedNode \/ PublishTrade
           \/ (\E id \in OrderIds : CancelUnknown(id)) \/ UNCHANGED vars
    PROVE  FeedInv'
<1>1. UNCHANGED <<levels, total, updates, mirror, at, todo, pc, cur>>
  BY DEF ReportModified, RemoveMarkedNode, PublishTrade, CancelUnknown, vars, book, walk,
         outbox, feeds
<1> QED BY <1>1 DEF FeedInv, UpdatesHold, FeedFollows, Owed, LevelTotal, CurSide

LEMMA FeedSubmit ==
    ASSUME IInv, FeedInv, Submit
    PROVE  FeedInv'
<1>1. /\ pc = "idle" /\ UNCHANGED <<levels, total, updates, mirror, at>>
      /\ \/ pc' = "match" /\ \E s \in {"BUY", "SELL"} : todo' = levels[s]
         \/ pc' \in {"rest", "done"}
  BY DEF Submit, LimitOrder, MarketOrder, FillAndKillOrder, StartMatch, Reject, Accept,
         AfterMatching, book, outbox, feeds, Opposite
<1>2. at = None /\ None \notin Prices /\ levels \in [Sides -> SUBSET Prices]
  BY <1>1, NoneAssumption DEF IInv, TypeOK
<1>3. updates = <<>> /\ Owed' = {} /\ DOMAIN updates' = {}
  BY <1>1, FeedIsExact, EmptySeq DEF Owed
<1>4. UpdatesHold'
  BY <1>1, <1>2, <1>3 DEF UpdatesHold, Sides
<1>5. FeedFollows'
  BY <1>1, FeedIsExact DEF FeedFollows, LevelTotal
<1> QED BY <1>4, <1>5 DEF FeedInv

LEMMA FeedMatchLevel ==
    ASSUME IInv, FeedInv, MatchLevel
    PROVE  FeedInv'
<1>1. PICK p \in todo : at' = p /\ todo' = todo \ {p}
  BY DEF MatchLevel
<1>2. /\ pc = "match" /\ pc' = "level" /\ CurSide' = CurSide
      /\ UNCHANGED <<levels, total, updates, mirror, cur>>
  BY DEF MatchLevel, book, outbox, feeds, CurSide
<1>3. at = None /\ None \notin Prices
  BY <1>2, NoneAssumption DEF IInv, TypeOK
<1>4. Owed' = Owed /\ \A s \in Sides, r \in Prices : LevelTotal(s, r)' = LevelTotal(s, r)
  BY <1>2 DEF Owed, LevelTotal
<1>5. UpdatesHold'
  <2>1. \A i \in DOMAIN updates' : updates'[i].total = LevelTotal(CurSide, updates[i].price)'
    BY <1>2 DEF FeedInv, UpdatesHold, LevelTotal
  <2> QED BY <2>1, <1>1, <1>2, <1>4 DEF FeedInv, UpdatesHold
<1>6. FeedFollows'
  BY <1>1, <1>2, <1>3, <1>4 DEF FeedInv, FeedFollows
<1> QED BY <1>5, <1>6 DEF FeedInv

LEMMA FeedMatchOrder ==
    ASSUME IInv, FeedInv, MatchOrder
    PROVE  FeedInv'
<1>1. /\ pc = "level" /\ CurSide \in Sides /\ at \in Prices /\ CurSide' = CurSide
  BY MatchOrderFacts DEF MatchOrder
<1>2. /\ UNCHANGED <<levels, updates, mirror, at, todo, pc>>
      /\ \E t : total' = [total EXCEPT ![CurSide][at] = t]
  BY DEF MatchOrder, feeds
<1>3. \A s \in Sides, p \in Prices :
        ~(s = CurSide /\ p = at) => LevelTotal(s, p)' = LevelTotal(s, p)
  BY <1>1, <1>2 DEF LevelTotal, IInv, TypeOK
<1>4. Owed' = Owed /\ at \notin Owed
  BY <1>1, <1>2 DEF Owed, FeedInv, UpdatesHold
<1>5. \A i \in DOMAIN updates : updates[i].price \in Owed /\ updates[i].price \in Prices
  BY UpdatesType, OwedFacts DEF IInv
<1>6. UpdatesHold'
  <2>1. ASSUME NEW i \in DOMAIN updates'
        PROVE  updates'[i].total = LevelTotal(CurSide, updates[i].price)'
    <3>1. i \in DOMAIN updates /\ updates'[i] = updates[i] /\ updates[i].price # at
      BY <1>2, <1>4, <1>5
    <3>2. updates[i].total = LevelTotal(CurSide, updates[i].price)
      BY <3>1 DEF FeedInv, UpdatesHold
    <3>3. LevelTotal(CurSide, updates[i].price)' = LevelTotal(CurSide, updates[i].price)
      BY <3>1, <1>1, <1>2, <1>5 DEF LevelTotal, IInv, TypeOK
    <3> QED BY <3>1, <3>2, <3>3
  <2> QED BY <2>1, <1>1, <1>2, <1>4 DEF FeedInv, UpdatesHold
<1>7. FeedFollows'
  BY <1>1, <1>2, <1>3, <1>4 DEF FeedInv, FeedFollows
<1> QED BY <1>6, <1>7 DEF FeedInv

LEMMA FeedLevelDone ==
    ASSUME IInv, FeedInv, LevelDone
    PROVE  FeedInv'
<1>1. /\ pc = "level" /\ pc' = "match" /\ at' = None /\ CurSide' = CurSide
      /\ updates' = Append(updates, LevelUpdate)
      /\ UNCHANGED <<levels, total, mirror, todo, cur>>
  BY DEF LevelDone, book, feeds, CurSide
<1>2. /\ TypeOK /\ CurSide \in Sides /\ at \in levels[CurSide] /\ at \in Prices
      /\ todo \subseteq Prices /\ None \notin Prices
  BY <1>1, CurSideType, NoneAssumption DEF IInv, TypeOK, WalkLeavesNothing
<1>3. LevelUpdate = [price |-> at, total |-> LevelTotal(CurSide, at)] /\ LevelUpdate \in Updates
  BY <1>2 DEF LevelUpdate, LevelTotal, Updates, TypeOK
<1>4. /\ DOMAIN updates' = DOMAIN updates \cup {Len(updates) + 1}
      /\ \A i \in DOMAIN updates : updates'[i] = updates[i]
      /\ updates'[Len(updates) + 1] = LevelUpdate
  <2>1. updates \in Seq(Updates)
    BY <1>2 DEF TypeOK
  <2>2. /\ updates' \in Seq(Updates) /\ Len(updates') = Len(updates) + 1
        /\ Len(updates) \in Nat
        /\ DOMAIN updates' = 1 .. Len(updates') /\ DOMAIN updates = 1 .. Len(updates)
    BY <2>1, <1>1, <1>3, AppendProperties, LenProperties
  <2> QED BY <2>1, <2>2, <1>1, <1>3, AppendProperties
<1>5. Owed' = Owed \cup {at}
  BY <1>3, <1>4 DEF Owed
<1>6. \A s, p : LevelTotal(s, p)' = LevelTotal(s, p)
  BY <1>1 DEF LevelTotal
<1>7. UpdatesHold'
  <2>1. Owed \cap (todo \cup {at}) = {} /\ at \notin todo
    BY <1>1 DEF FeedInv, UpdatesHold
  <2>2. None \notin Owed'
    <3>1. Owed \subseteq Prices
      BY <1>2, UpdatesType DEF Owed
    <3> QED BY <3>1, <1>2, <1>5
  <2>3. Owed' \cap (todo' \cup {at'}) = {} /\ at' \notin todo'
    BY <2>1, <2>2, <1>1, <1>2, <1>5
  <2>4. ASSUME NEW i \in DOMAIN updates'
        PROVE  updates'[i].total = LevelTotal(CurSide, updates[i].price)'
    <3>1. CASE i \in DOMAIN updates
      <4>1. updates'[i] = updates[i] /\ updates[i].total = LevelTotal(CurSide, updates[i].price)
        BY <3>1, <1>4 DEF FeedInv, UpdatesHold
      <4> QED BY <4>1, <1>1 DEF LevelTotal
    <3>2. CASE i = Len(updates) + 1
      BY <3>2, <1>1, <1>3, <1>4 DEF LevelTotal
    <3> QED BY <3>1, <3>2, <1>4
  <2> QED BY <2>3, <2>4, <1>1 DEF UpdatesHold
<1>8. FeedFollows'
  BY <1>1, <1>5, <1>6 DEF FeedInv, FeedFollows
<1> QED BY <1>7, <1>8 DEF FeedInv

\* The levels that are erased have nothing left.
LEMMA ErasedAreEmpty ==
    ASSUME IInv, FeedInv, pc # "idle", NEW p \in Exhausted
    PROVE  p \in Owed /\ p \in Prices /\ LevelTotal(CurSide, p) = 0
<1>1. PICK j \in DOMAIN updates : updates[j].total = 0 /\ p = updates[j].price
  BY DEF Exhausted
<1>3. p \in Owed /\ p \in Prices
  BY <1>1, UpdatesType DEF Owed, IInv
<1>4. updates[j].total = LevelTotal(CurSide, updates[j].price)
  BY <1>1 DEF FeedInv, UpdatesHold
<1> QED BY <1>1, <1>3, <1>4

LEMMA FeedMatchDone ==
    ASSUME IInv, FeedInv, MatchDone
    PROVE  FeedInv'
<1>1. /\ pc = "match" /\ pc' = "publish" /\ at' = at /\ CurSide' = CurSide
      /\ levels' = [levels EXCEPT ![CurSide] = @ \ Exhausted]
      /\ UNCHANGED <<total, mirror, updates, cur>>
  BY DEF MatchDone, outbox, feeds, CurSide
<1>2. TypeOK /\ CurSide \in Sides
  BY <1>1, CurSideType DEF IInv
<1>3. \A s \in Sides, p \in Prices : LevelTotal(s, p)' = LevelTotal(s, p)
  <2> TAKE s \in Sides, p \in Prices
  <2>1. CASE s = CurSide /\ p \in Exhausted
    <3>1. LevelTotal(s, p) = 0 /\ p \notin levels'[s]
      BY <2>1, <1>1, <1>2, ErasedAreEmpty DEF TypeOK
    <3> QED BY <3>1 DEF LevelTotal
  <2>2. CASE ~(s = CurSide /\ p \in Exhausted)
    <3>1. p \in levels'[s] <=> p \in levels[s]
      BY <2>2, <1>1, <1>2 DEF TypeOK
    <3> QED BY <3>1, <1>1 DEF LevelTotal
  <2> QED BY <2>1, <2>2
<1>4. \A i \in DOMAIN updates : updates[i].price \in Prices
  BY UpdatesType DEF IInv
<1>5. UpdatesHold'
  BY <1>1, <1>2, <1>3, <1>4 DEF FeedInv, UpdatesHold
<1>6. FeedFollows'
  BY <1>1, <1>3 DEF FeedInv, FeedFollows, Owed
<1> QED BY <1>5, <1>6 DEF FeedInv

LEMMA FeedPublish ==
    ASSUME IInv, FeedInv, PublishLevelUpdate
    PROVE  FeedInv'
<1> DEFINE u == Head(updates)
<1>1. /\ pc = "publish" /\ updates # <<>> /\ updates' = Tail(updates)
      /\ mirror' = [mirror EXCEPT ![CurSide][u.price] = u.total]
      /\ UNCHANGED <<levels, total, at, pc, todo, cur>> /\ CurSide' = CurSide
  BY DEF PublishLevelUpdate, UpdatesLeft, book, walk, CurSide
<1>2. TypeOK /\ CurSide \in Sides
  BY <1>1, CurSideType DEF IInv
<1>3. /\ 1 \in DOMAIN updates /\ u = updates[1]
      /\ \A i \in DOMAIN updates' : i + 1 \in DOMAIN updates /\ updates'[i] = updates[i + 1]
      /\ \A i \in DOMAIN updates : i # 1 => i - 1 \in DOMAIN updates' /\ updates'[i - 1] = updates[i]
  <2>1. updates \in Seq(Updates) /\ updates # <<>>
    BY <1>1, <1>2 DEF TypeOK
  <2>2. /\ Len(updates) \in Nat \ {0} /\ DOMAIN updates = 1 .. Len(updates)
        /\ updates' \in Seq(Updates) /\ Len(updates') = Len(updates) - 1
        /\ DOMAIN updates' = 1 .. Len(updates')
        /\ \A i \in 1 .. Len(updates') : updates'[i] = updates[i + 1]
    BY <2>1, <1>1, HeadTailProperties, LenProperties, EmptySeq
  <2>3. u = updates[1]
    BY <2>1, HeadTailProperties
  <2> QED BY <2>2, <2>3
<1>4. u.price \in Prices /\ u.total = LevelTotal(CurSide, u.price)
  <2>1. u.price \in Prices
    BY <1>2, <1>3, UpdatesType
  <2> QED BY <2>1, <1>3 DEF FeedInv, UpdatesHold
<1>5. \A s, p : LevelTotal(s, p)' = LevelTotal(s, p)
  BY <1>1 DEF LevelTotal
<1>6. UpdatesHold'
  <2>1. ASSUME NEW i \in DOMAIN updates'
        PROVE  updates'[i].total = LevelTotal(CurSide, updates'[i].price)
    BY <1>3 DEF FeedInv, UpdatesHold
  <2> QED BY <2>1, <1>1 DEF UpdatesHold, LevelTotal
<1>7. FeedFollows'
  <2> SUFFICES ASSUME NEW s \in Sides, NEW p \in Prices
               PROVE  \/ mirror'[s][p] = LevelTotal(s, p)'
                      \/ pc' # "idle" /\ s = CurSide' /\ p \in Owed' \cup {at'}
    BY DEF FeedFollows
  <2>1. CASE s = CurSide /\ p = u.price
    <3>1. mirror'[s][p] = u.total
      BY <2>1, <1>1, <1>2, <1>4 DEF TypeOK
    <3> QED BY <3>1, <2>1, <1>4, <1>5
  <2>2. CASE ~(s = CurSide /\ p = u.price)
    <3>1. mirror'[s][p] = mirror[s][p]
      BY <2>2, <1>1, <1>2, <1>4 DEF TypeOK
    <3>2. s = CurSide /\ p \in Owed => p \in Owed'
      BY <2>2, <1>3 DEF Owed
    <3> QED BY <3>1, <3>2, <1>1, <1>5 DEF FeedInv, FeedFollows
  <2> QED BY <2>1, <2>2
<1> QED BY <1>6, <1>7 DEF FeedInv

LEMMA FeedReturns ==
    ASSUME IInv, FeedInv, MatchReturns \/ Return
    PROVE  FeedInv'
<1>1. /\ updates = <<>> /\ pc' \in {"rest", "done", "idle"}
      /\ UNCHANGED <<levels, total, updates, mirror>>
      /\ at = None /\ None \notin Prices
  BY NoneAssumption
     DEF MatchReturns, Return, AfterMatching, book, walk, outbox, feeds, FeedInv,
         UpdatesHold, IInv, TypeOK
<1>2. Owed = {} /\ Owed' = {} /\ DOMAIN updates' = {}
  BY <1>1, EmptySeq DEF Owed
<1>3. UpdatesHold'
  BY <1>1, <1>2 DEF UpdatesHold
<1>4. FeedFollows'
  BY <1>1, <1>2 DEF FeedInv, FeedFollows, LevelTotal
<1> QED BY <1>3, <1>4 DEF FeedInv

\* Writing one level and telling the feed of it keeps the feed exact.
LEMMA FeedAfterWrite ==
    ASSUME IInv, FeedInv, pc \in {"idle", "rest", "done"}, UNCHANGED updates,
           pc' \in {"idle", "rest", "done"},
           NEW s \in Sides, NEW p \in Prices,
           mirror'[s][p] = LevelTotal(s, p)',
           \A x \in Sides, r \in Prices : ~(x = s /\ r = p) =>
               mirror'[x][r] = mirror[x][r] /\ LevelTotal(x, r)' = LevelTotal(x, r)
    PROVE  FeedInv'
<1>1. updates = <<>> /\ \A x \in Sides, r \in Prices : mirror[x][r] = LevelTotal(x, r)
  BY FeedIsExact
<1>2. UpdatesHold'
  BY <1>1, EmptySeq DEF UpdatesHold
<1>3. \A x \in Sides, r \in Prices : mirror'[x][r] = LevelTotal(x, r)'
  BY <1>1
<1> QED BY <1>2, <1>3 DEF FeedInv, FeedFollows

LEMMA FeedRest ==
    ASSUME IInv, FeedInv, RestOrder
    PROVE  FeedInv'
<1>1. PICK s \in Sides, p \in Prices, t \in Nat :
        /\ total' = [total EXCEPT ![s][p] = t]
        /\ mirror' = [mirror EXCEPT ![s][p] = t]
        /\ levels' = [levels EXCEPT ![s] = @ \cup {p}]
  BY RestFacts
<1>2. /\ pc \in {"idle", "rest", "done"} /\ pc' \in {"idle", "rest", "done"}
      /\ UNCHANGED updates
  BY DEF RestOrder, outbox
<1>3. mirror'[s][p] = LevelTotal(s, p)'
  BY <1>1 DEF IInv, TypeOK, LevelTotal
<1>4. \A x \in Sides, r \in Prices : ~(x = s /\ r = p) =>
         mirror'[x][r] = mirror[x][r] /\ LevelTotal(x, r)' = LevelTotal(x, r)
  BY <1>1 DEF IInv, TypeOK, LevelTotal
<1> QED BY <1>2, <1>3, <1>4, FeedAfterWrite

LEMMA FeedCancel ==
    ASSUME IInv, FeedInv, NEW id \in OrderIds, CancelResting(id) \/ CancelStale(id)
    PROVE  FeedInv'
<1>1. PICK s \in Sides, p \in Prices, t \in Nat : CloseCancel(id, s, p, t)
  BY CancelFacts
<1>2. /\ pc \in {"idle", "rest", "done"} /\ pc' \in {"idle", "rest", "done"}
      /\ UNCHANGED updates
  BY <1>1 DEF CancelResting, CancelStale, CloseCancel, outbox
<1>3. mirror'[s][p] = LevelTotal(s, p)'
  BY <1>1 DEF CloseCancel, IInv, TypeOK, LevelTotal
<1>4. \A x \in Sides, r \in Prices : ~(x = s /\ r = p) =>
         mirror'[x][r] = mirror[x][r] /\ LevelTotal(x, r)' = LevelTotal(x, r)
  BY <1>1 DEF CloseCancel, IInv, TypeOK, LevelTotal
<1> QED BY <1>2, <1>3, <1>4, FeedAfterWrite

LEMMA FeedStep ==
    ASSUME IInv, FeedInv, [Next]_vars
    PROVE  FeedInv'
BY FeedQuiet, FeedSubmit, FeedMatchLevel, FeedMatchOrder, FeedLevelDone, FeedMatchDone,
   FeedPublish, FeedReturns, FeedRest, FeedCancel
   DEF Next, Cancel, Engine

LEMMA InitFeedInv == Init => FeedInv
<1> SUFFICES ASSUME Init PROVE FeedInv
  OBVIOUS
<1>1. updates = <<>> /\ DOMAIN updates = {} /\ pc = "idle"
  BY EmptySeq DEF Init
<1>2. \A s \in Sides, p \in Prices : mirror[s][p] = LevelTotal(s, p)
  BY DEF Init, LevelTotal
<1> QED BY <1>1, <1>2 DEF FeedInv, UpdatesHold, FeedFollows

\* Every price the feed is wrong about is owed an update or is being walked,
\* and what is owed says what the book holds (the level updates match_order
\* keeps until its end, and those limit_order and remove_order publish).
THEOREM FeedInvariant == Spec => [](IInv /\ FeedInv)
<1>1. Init => FeedInv
  BY InitFeedInv
<1>2. IInv /\ FeedInv /\ [Next]_vars => FeedInv'
  BY FeedStep
<1> QED BY <1>1, <1>2, Invariant, PTL DEF Spec

-----------------------------------------------------------------------------
\* A subscriber that applies every level update holds exactly the book
\* whenever no call is in progress, whatever was sent and removed before
\* (OrderBook::match_order, limit_order and remove_order together).
THEOREM PublicFeedCorrect == Spec => []PublicFeedExact
<1>1. IInv /\ FeedInv => PublicFeedExact
  BY FeedIsExact DEF PublicFeedExact
<1> QED BY <1>1, FeedInvariant, PTL

-----------------------------------------------------------------------------
(* What leaves the book.                                                   *)

\* Removing one element keeps all others, and adds none.
LEMMA RemoveAtKeeps ==
    ASSUME NEW S, NEW q \in Seq(S), NEW i \in 1 .. Len(q)
    PROVE  LET r == RemoveAt(q, i) IN
           /\ r \in Seq(S) /\ DOMAIN r = 1 .. Len(q) - 1
           /\ \A j \in DOMAIN q : j # i => \E k \in DOMAIN r : r[k] = q[j]
           /\ \A k \in DOMAIN r : \E j \in DOMAIN q :
                 j # i /\ r[k] = q[j] /\ j = IF k < i THEN k ELSE k + 1
<1> DEFINE r == RemoveAt(q, i)
<1>1. /\ r \in Seq(S) /\ Len(r) = Len(q) - 1
      /\ \A j \in 1 .. Len(q) - 1 : r[j] = IF j < i THEN q[j] ELSE q[j + 1]
  BY RemoveAtFacts
<1>2. /\ Len(q) \in Nat /\ DOMAIN q = 1 .. Len(q) /\ DOMAIN r = 1 .. Len(q) - 1
  BY <1>1, LenProperties
<1> HIDE DEF r
<1>3. ASSUME NEW j \in DOMAIN q, j # i
      PROVE  \E k \in DOMAIN r : r[k] = q[j]
  <2>1. CASE j < i
    <3>1. j \in 1 .. Len(q) - 1
      BY <2>1, <1>2
    <3>2. r[j] = q[j]
      BY <3>1, <2>1, <1>1
    <3> QED BY <3>1, <3>2, <1>2
  <2>2. CASE j > i
    <3>1. j - 1 \in 1 .. Len(q) - 1 /\ ~(j - 1 < i) /\ (j - 1) + 1 = j
      BY <2>2, <1>2
    <3>2. r[j - 1] = q[(j - 1) + 1]
      BY <3>1, <1>1
    <3> QED BY <3>1, <3>2, <1>2
  <2> QED BY <2>1, <2>2, <1>3, <1>2
<1>4. ASSUME NEW k \in DOMAIN r
      PROVE  \E j \in DOMAIN q : j # i /\ r[k] = q[j] /\ j = IF k < i THEN k ELSE k + 1
  <2>1. CASE k < i
    <3>1. k \in DOMAIN q /\ k # i /\ r[k] = q[k]
      BY <2>1, <1>1, <1>2
    <3> QED BY <3>1, <2>1
  <2>2. CASE ~(k < i)
    <3>1. k + 1 \in DOMAIN q /\ k + 1 # i /\ r[k] = q[k + 1]
      BY <2>2, <1>1, <1>2
    <3> QED BY <3>1, <2>2
  <2> QED BY <2>1, <2>2
<1> QED BY <1>1, <1>2, <1>3, <1>4 DEF r

\* Ids of the orders a level may lose in a step.
Removed == {id \in OrderIds : idMap[id] # None /\ idMap'[id] = None}

LEMMA LevelOrdersFacts ==
    ASSUME IInv, NEW s \in Sides, NEW p \in Prices
    PROVE  /\ LevelOrders(s, p) \in Seq(Orders(OrderIds))
           /\ DOMAIN LevelOrders(s, p) = 1 .. Len(LevelOrders(s, p))
           /\ \A i \in DOMAIN LevelOrders(s, p) :
                  /\ LevelOrders(s, p)[i] \in Orders(OrderIds)
                  /\ LevelOrders(s, p)[i].rem \in Nat
                  /\ LevelOrders(s, p)[i].rem <= LevelTotal(s, p)
<1>1. /\ LevelOrders(s, p) \in Seq(Orders(OrderIds)) /\ LevelTotal(s, p) \in Nat
      /\ Tally(LevelOrders(s, p), LevelTotal(s, p))
  BY LevelType
<1> DEFINE q == LevelOrders(s, p)
           t == LevelTotal(s, p)
<1> HIDE DEF q, t
<1>2. /\ q \in Seq(Orders(OrderIds)) /\ t \in Nat /\ Tally(q, t)
  BY <1>1 DEF q, t
<1>3. DOMAIN q = 1 .. Len(q) /\ \A i \in DOMAIN q : q[i] \in Orders(OrderIds)
  BY <1>2, LenProperties, ElementOfSeq
<1>4. \A i \in DOMAIN q : q[i].rem \in Nat /\ q[i].rem <= t
  BY <1>2, <1>3, TallyBounds
<1> QED BY <1>2, <1>3, <1>4 DEF q, t

\* A level of total zero has no live order.
LEMMA EmptyHasNoLive ==
    ASSUME IInv, NEW s \in Sides, NEW p \in Prices, LevelTotal(s, p) = 0
    PROVE  LiveIds(LevelOrders(s, p)) = {}
<1>1. \A i \in DOMAIN LevelOrders(s, p) :
        LevelOrders(s, p)[i].rem \in Nat /\ LevelOrders(s, p)[i].rem <= 0
  BY LevelOrdersFacts
<1>2. \A i \in DOMAIN LevelOrders(s, p) : ~(LevelOrders(s, p)[i].rem > 0)
  BY <1>1
<1> QED BY <1>2 DEF LiveIds

LEMMA KeptQuiet ==
    ASSUME IInv, UNCHANGED <<levels, orders>>
    PROVE  NoneLost
<1>1. \A s, p : LevelOrders(s, p)' = LevelOrders(s, p)
  BY DEF LevelOrders
<1>2. \A s, p : LiveIds(LevelOrders(s, p)) \subseteq Ids(LevelOrders(s, p))
  BY DEF LiveIds, Ids
<1> QED BY <1>1, <1>2 DEF NoneLost

LEMMA KeptMatchOrder ==
    ASSUME IInv, MatchOrder
    PROVE  NoneLost
<1> DEFINE q == orders[CurSide][at]
           m == Reduced(q[pos], MatchedQty(q[pos], cur), cur.rem - MatchedQty(q[pos], cur))
           q2 == [q EXCEPT ![pos] = m]
<1>1. /\ CurSide \in Sides /\ at \in Prices
      /\ q \in Seq(Orders(OrderIds)) /\ pos \in 1 .. Len(q) /\ m.id = q[pos].id
  BY MatchOrderFacts
<1>2. orders' = [orders EXCEPT ![CurSide][at] = q2] /\ levels' = levels
  BY DEF MatchOrder
<1> HIDE DEF m
<1> HIDE DEF q
<1>3. DOMAIN q2 = DOMAIN q /\ \A i \in DOMAIN q : q2[i].id = q[i].id
  BY <1>1
<1>4. ASSUME NEW s \in Sides, NEW p \in Prices
      PROVE  LiveIds(LevelOrders(s, p)) \subseteq Ids(LevelOrders(s, p)')
  <2>1. CASE s = CurSide /\ p = at /\ p \in levels[s]
    <3>1. LevelOrders(s, p) = q /\ LevelOrders(s, p)' = q2
      BY <2>1, <1>1, <1>2 DEF LevelOrders, IInv, TypeOK, q
    <3> HIDE DEF q2
    <3> QED BY <3>1, <1>3 DEF LiveIds, Ids
  <2>2. CASE ~(s = CurSide /\ p = at /\ p \in levels[s])
    <3>1. LevelOrders(s, p)' = LevelOrders(s, p)
      BY <2>2, <1>1, <1>2 DEF LevelOrders, IInv, TypeOK
    <3> QED BY <3>1 DEF LiveIds, Ids
  <2> QED BY <2>1, <2>2
<1> QED BY <1>4 DEF NoneLost

LEMMA KeptMatchDone ==
    ASSUME IInv, FeedInv, MatchDone
    PROVE  NoneLost
<1>1. /\ pc # "idle" /\ orders' = orders
      /\ levels' = [levels EXCEPT ![CurSide] = @ \ Exhausted]
  BY DEF MatchDone
<1>2. CurSide \in Sides /\ TypeOK
  BY <1>1, CurSideType DEF IInv
<1>3. ASSUME NEW s \in Sides, NEW p \in Prices
      PROVE  LiveIds(LevelOrders(s, p)) \subseteq Ids(LevelOrders(s, p)')
  <2>1. CASE s = CurSide /\ p \in Exhausted
    <3>1. LiveIds(LevelOrders(s, p)) = {}
      BY <2>1, <1>1, ErasedAreEmpty, EmptyHasNoLive
    <3> QED BY <3>1
  <2>2. CASE ~(s = CurSide /\ p \in Exhausted)
    <3>1. LevelOrders(s, p)' = LevelOrders(s, p)
      BY <2>2, <1>1, <1>2 DEF LevelOrders, TypeOK
    <3> QED BY <3>1 DEF LiveIds, Ids
  <2> QED BY <2>1, <2>2
<1> QED BY <1>3 DEF NoneLost

\* Only the level the step writes can lose anything.
LEMMA KeptAfterWrite ==
    ASSUME IInv, NEW s \in Sides, NEW p \in Prices, NEW q,
           orders' = [orders EXCEPT ![s][p] = q],
           levels' \in [Sides -> SUBSET Prices],
           \A x \in Sides, r \in Prices :
               ~(x = s /\ r = p) => (r \in levels'[x] <=> r \in levels[x]),
           LiveIds(LevelOrders(s, p)) \subseteq
               (IF p \in levels'[s] THEN Ids(q) ELSE {}) \cup Removed
    PROVE  NoneLost
<1> SUFFICES ASSUME NEW x \in Sides, NEW r \in Prices
             PROVE  LiveIds(LevelOrders(x, r)) \subseteq Ids(LevelOrders(x, r)') \cup Removed
  BY DEF NoneLost, Removed
<1>1. CASE x = s /\ r = p
  <2>1. CASE p \in levels'[s]
    <3>1. LevelOrders(x, r)' = q
      BY <2>1, <1>1 DEF LevelOrders, IInv, TypeOK
    <3> QED BY <2>1, <3>1, <1>1
  <2>2. CASE p \notin levels'[s]
    BY <2>2, <1>1
  <2> QED BY <2>1, <2>2
<1>2. CASE ~(x = s /\ r = p)
  <2>1. LevelOrders(x, r)' = LevelOrders(x, r)
    BY <1>2 DEF LevelOrders, IInv, TypeOK
  <2> QED BY <2>1 DEF LiveIds, Ids
<1> QED BY <1>1, <1>2

LEMMA KeptRemoveMarked ==
    ASSUME IInv, RemoveMarkedNode
    PROVE  NoneLost
<1> DEFINE p == Head(purge)
           q == orders[CurSide][p]
<1>1. /\ pc = "publish" /\ TypeOK /\ purge # <<>> /\ levels' = levels
  BY DEF IInv, RemoveMarkedNode
<1>2. CurSide \in Sides /\ p \in Prices
  <2>1. purge \in Seq(Prices)
    BY <1>1 DEF TypeOK
  <2> QED BY <2>1, <1>1, CurSideType, HeadTailProperties
<1>3. CASE marked[p] = <<>>
  <2>1. orders' = orders
    BY <1>3 DEF RemoveMarkedNode
  <2> QED BY <2>1, <1>1, KeptQuiet
<1>4. CASE marked[p] # <<>>
  <2>1. PICK i \in DOMAIN q :
          /\ q[i].id = Head(marked[p])
          /\ orders' = [orders EXCEPT ![CurSide][p] = RemoveAt(q, i)]
    BY <1>4 DEF RemoveMarkedNode
  <2>2. q \in Seq(Orders(OrderIds)) /\ i \in 1 .. Len(q) /\ DOMAIN q = 1 .. Len(q)
    BY <1>1, <1>2, <2>1, OrdersType
  <2>3. p \in levels[CurSide] => q[i].rem = 0
    <3>1. marked[p] \in Seq(OrderIds) /\ marked[p] # <<>>
      BY <1>1, <1>2, <1>4 DEF TypeOK
    <3>2. 1 \in DOMAIN marked[p] /\ Head(marked[p]) = marked[p][1]
      BY <3>1, HeadTailProperties, LenProperties, EmptySeq
    <3> QED BY <3>2, <2>1, <1>1 DEF IInv, MarksAreFilled
  <2>4. LiveIds(LevelOrders(CurSide, p)) \subseteq IF p \in levels'[CurSide] THEN Ids(RemoveAt(q, i)) ELSE {}
    <3>1. CASE p \in levels[CurSide]
      <4> HIDE DEF q
      <4>1. \A j \in DOMAIN q : j # i => \E k \in DOMAIN RemoveAt(q, i) : RemoveAt(q, i)[k] = q[j]
        BY <2>2, RemoveAtKeeps
      <4>2. \A j \in DOMAIN q : q[j].rem > 0 => j # i
        BY <2>3, <3>1
      <4>3. LiveIds(q) \subseteq Ids(RemoveAt(q, i))
        BY <4>1, <4>2 DEF LiveIds, Ids
      <4> QED BY <4>3, <3>1, <1>1 DEF LevelOrders, q
    <3>2. CASE p \notin levels[CurSide]
      <4>1. LevelOrders(CurSide, p) = <<>>
        BY <3>2 DEF LevelOrders
      <4> QED BY <4>1, EmptySeq DEF LiveIds
    <3> QED BY <3>1, <3>2
  <2>5. levels' \in [Sides -> SUBSET Prices]
    BY <1>1 DEF TypeOK
  <2> DEFINE s == CurSide
             q2 == RemoveAt(q, i)
  <2>6. /\ s \in Sides /\ orders' = [orders EXCEPT ![s][p] = q2]
        /\ LiveIds(LevelOrders(s, p)) \subseteq (IF p \in levels'[s] THEN Ids(q2) ELSE {}) \cup Removed
    BY <1>2, <2>1, <2>4
  <2> HIDE DEF p, q2, s
  <2> QED BY <2>5, <2>6, <1>1, <1>2, KeptAfterWrite
<1> QED BY <1>3, <1>4

LEMMA KeptRest ==
    ASSUME IInv, RestOrder
    PROVE  NoneLost
<1>1. PICK s \in Sides, p \in Prices, q \in Seq(Orders(OrderIds)) :
        /\ orders' = [orders EXCEPT ![s][p] = q]
        /\ levels' = [levels EXCEPT ![s] = @ \cup {p}]
        /\ q = LevelOrders(s, p) \/ q = Append(LevelOrders(s, p), cur)
        /\ cur \in Orders(OrderIds)
  BY RestFacts
<1>2. /\ levels' \in [Sides -> SUBSET Prices] /\ p \in levels'[s]
      /\ \A x \in Sides, r \in Prices :
            ~(x = s /\ r = p) => (r \in levels'[x] <=> r \in levels[x])
  BY <1>1 DEF IInv, TypeOK
<1>3. LiveIds(LevelOrders(s, p)) \subseteq Ids(q)
  <2> DEFINE old == LevelOrders(s, p)
  <2>1. old \in Seq(Orders(OrderIds)) /\ DOMAIN old = 1 .. Len(old) /\ Len(old) \in Nat
    BY LevelOrdersFacts, LenProperties
  <2>2. q = old \/ q = Append(old, cur)
    BY <1>1
  <2> HIDE DEF old
  <2>3. \A i \in DOMAIN old : i \in DOMAIN q /\ q[i] = old[i]
    <3>1. CASE q = old
      BY <3>1
    <3>2. CASE q = Append(old, cur)
      <4>1. /\ Len(Append(old, cur)) = Len(old) + 1 /\ DOMAIN q = 1 .. Len(q)
            /\ \A i \in 1 .. Len(old) : Append(old, cur)[i] = old[i]
        BY <2>1, <1>1, AppendProperties, LenProperties
      <4> QED BY <4>1, <3>2, <2>1
    <3> QED BY <3>1, <3>2, <2>2
  <2>4. LiveIds(old) \subseteq Ids(q)
    BY <2>3 DEF LiveIds, Ids
  <2> QED BY <2>4 DEF old
<1> QED BY <1>1, <1>2, <1>3, KeptAfterWrite

LEMMA KeptCancel ==
    ASSUME IInv, NEW id \in OrderIds, CancelResting(id) \/ CancelStale(id)
    PROVE  NoneLost
<1>1. PICK s \in Sides, p \in Prices, q \in Seq(Orders(OrderIds)), t \in Nat :
        /\ orders' = [orders EXCEPT ![s][p] = q]
        /\ CloseCancel(id, s, p, t)
        /\ Tally(q, t)
        /\ \/ q = LevelOrders(s, p)
           \/ /\ p \in levels[s]
              /\ \E i \in 1 .. Len(orders[s][p]) :
                    q = RemoveAt(orders[s][p], i) /\ orders[s][p][i].id = id
  BY CancelFacts
<1>2. /\ levels' \in [Sides -> SUBSET Prices] /\ (p \in levels'[s] <=> t # 0)
      /\ \A x \in Sides, r \in Prices :
            ~(x = s /\ r = p) => (r \in levels'[x] <=> r \in levels[x])
  BY <1>1 DEF CloseCancel, IInv, TypeOK
<1>3. id \in Removed
  BY <1>1 DEF CloseCancel, CancelResting, CancelStale, IInv, TypeOK, Removed
<1>4. LiveIds(LevelOrders(s, p)) \subseteq LiveIds(q) \cup {id}
  <2>1. CASE q = LevelOrders(s, p)
    BY <2>1
  <2>2. CASE p \in levels[s] /\ \E i \in 1 .. Len(orders[s][p]) :
                q = RemoveAt(orders[s][p], i) /\ orders[s][p][i].id = id
    <3> DEFINE old == orders[s][p]
    <3>1. LevelOrders(s, p) = old /\ old \in Seq(Orders(OrderIds))
      BY <2>2, OrdersType DEF LevelOrders, IInv
    <3>2. PICK i \in 1 .. Len(old) : q = RemoveAt(old, i) /\ old[i].id = id
      BY <2>2
    <3> HIDE DEF old
    <3>3. \A j \in DOMAIN old : j # i => \E k \in DOMAIN q : q[k] = old[j]
      BY <3>1, <3>2, RemoveAtKeeps
    <3>4. LiveIds(old) \subseteq LiveIds(q) \cup {id}
      BY <3>2, <3>3 DEF LiveIds
    <3> QED BY <3>1, <3>4
  <2> QED BY <2>1, <2>2, <1>1
<1>5. t = 0 => LiveIds(q) = {}
  <2>1. \A i \in DOMAIN q : q[i].rem \in Nat /\ q[i].rem <= t
    BY <1>1, TallyBounds, LenProperties
  <2>2. t = 0 => \A i \in DOMAIN q : ~(q[i].rem > 0)
    BY <2>1
  <2> QED BY <2>2 DEF LiveIds
<1>6. LiveIds(q) \subseteq Ids(q)
  BY DEF LiveIds, Ids
<1>7. LiveIds(LevelOrders(s, p)) \subseteq (IF p \in levels'[s] THEN Ids(q) ELSE {}) \cup Removed
  BY <1>2, <1>3, <1>4, <1>5, <1>6
<1> QED BY <1>1, <1>2, <1>7, KeptAfterWrite

LEMMA KeptStep ==
    ASSUME IInv, FeedInv, [Next]_vars
    PROVE  NoneLost
<1>1. CASE \/ Submit \/ MatchLevel \/ LevelDone \/ ReportModified \/ PublishTrade
           \/ PublishLevelUpdate \/ MatchReturns \/ Return
           \/ (\E id \in OrderIds : CancelUnknown(id)) \/ UNCHANGED vars
  <2>1. UNCHANGED <<levels, orders>>
    BY <1>1 DEF Submit, LimitOrder, MarketOrder, FillAndKillOrder, Accept, MatchLevel,
       LevelDone, ReportModified, PublishTrade, PublishLevelUpdate, MatchReturns, Return,
       CancelUnknown, vars, book
  <2> QED BY <2>1, KeptQuiet
<1> QED BY <1>1, KeptMatchOrder, KeptMatchDone, KeptRemoveMarked, KeptRest, KeptCancel
        DEF Next, Engine, Cancel

\* No step of any call drops an order that has quantity left, except the
\* removal of its own id: erasing exhausted levels, unlinking filled nodes and
\* removing other orders (BookSide::match_order, remove_marked_order_nodes,
\* BookSide::remove_order) leave it where it is, whatever ids clients reuse.
THEOREM NoOrderLostCorrect == Spec => NoOrderLost
<1>1. IInv /\ FeedInv /\ [Next]_vars => [NoneLost]_vars
  BY KeptStep
<1> QED BY <1>1, FeedInvariant, PTL DEF Spec, NoOrderLost

=============================================================================
