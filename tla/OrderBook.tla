------------------------------ MODULE OrderBook ------------------------------
(***************************************************************************)
(* One OrderBook of order_forge: two sides of price levels, each level a   *)
(* FIFO of orders with a running total, matched by price-time priority.    *)
(*                                                                         *)
(* The program is single-threaded, but a call to add_order runs through    *)
(* several loops and calls its subscribers in between, so the model takes  *)
(* one step per visited level, per matched order and per callback: pc is   *)
(* how far the call in progress has come.  add_order's three order types   *)
(* and remove_order are the entry points, taken when pc is "idle".         *)
(*                                                                         *)
(* Prices and quantities are the scaled integers; sums of quantities are   *)
(* assumed to fit in their 64 bits.  A definition whose name ends in Slip  *)
(* is a plausible slip in the operator of that name: a property that would *)
(* not notice it would say nothing.                                        *)
(***************************************************************************)
EXTENDS Integers, SequencesExt

CONSTANTS
    Prices,     \* the prices orders name
    Incoming,   \* the orders clients send (id 0: let the engine choose one)
    FirstId,    \* the first order id the engine's generator hands out
    MaxOrders,  \* BOUND: orders submitted in a behaviour
    None        \* no order, no price, no entry

Sides == {"BUY", "SELL"}
Types == {"LIMIT", "MARKET", "FILL_AND_KILL"}
Statuses == {"OPEN", "PARTIAL", "FILLED", "CANCELLED", "REJECTED"}

OrderIds == ({o.id : o \in Incoming} \ {0}) \cup (FirstId .. FirstId + MaxOrders - 1)

Orders(ids) == [id : ids, side : Sides, price : Prices, qty : Nat, rem : Nat,
                status : Statuses, type : Types]
Entries == [side : Sides, price : Prices]
Views == [qty : Nat, rem : Nat, status : Statuses]
Updates == [price : Prices, total : Nat]
Trades == [passive : OrderIds, aggressor : OrderIds, price : Prices, qty : Nat]

ASSUME PricesAssumption == Prices \subseteq Int
ASSUME IncomingAssumption ==
    \A o \in Incoming : o \in Orders(Nat) /\ o.rem = o.qty
ASSUME IdsAssumption == FirstId \in Nat \ {0} /\ MaxOrders \in Nat
ASSUME NoneAssumption ==
    None \notin Prices \cup Entries \cup Orders(OrderIds) \cup Views

VARIABLES
    levels,     \* levels[s]: the prices side s has a PriceLevel for
    orders,     \* orders[s][p]: the FIFO of the level of side s at p
    total,      \* total[s][p]: total_qty_ of that level
    idMap,      \* orders_id_map_: where an order id was rested
    issued,     \* order ids the generator has handed out
    submitted,  \* orders submitted
    pc,         \* how far the call in progress has come
    cur,        \* the order add_order is working on
    todo,       \* levels the walk of BookSide::match_order has not visited
    at,         \* the level it is in
    pos,        \* the place in that level's FIFO it has come to
    prev,       \* that level's total when the walk entered it
    marked,     \* marked[p]: ids in orders_to_be_removed_ of the level at p
    purge,      \* remove_levels of the MatchingEngine
    modified,   \* its modified_orders_
    trades,     \* its trades_
    updates,    \* the level updates the walk collected
    mirror,     \* subscribers: the level totals the public feed has shown
    reported,   \* subscribers: the last private update of each order
    executed    \* subscribers: the quantity traded per order

book == <<levels, orders, total, idMap>>
input == <<issued, submitted>>
walk == <<todo, at, pos, prev, marked>>
outbox == <<purge, modified, trades, updates>>
feeds == <<mirror, reported, executed>>
vars == <<book, input, pc, cur, walk, outbox, feeds>>

TypeOK ==
    /\ levels \in [Sides -> SUBSET Prices]
    /\ orders \in [Sides -> [Prices -> Seq(Orders(OrderIds))]]
    /\ total \in [Sides -> [Prices -> Nat]]
    /\ idMap \in [OrderIds -> Entries \cup {None}]
    /\ issued \in Nat /\ submitted \in 0 .. MaxOrders /\ issued <= submitted
    /\ pc \in {"idle", "match", "level", "publish", "rest", "done"}
    /\ IF pc = "idle" THEN cur = None ELSE cur \in Orders(OrderIds)
    /\ todo \subseteq Prices
    /\ IF pc = "level" THEN at \in Prices ELSE at = None
    /\ pos \in Nat \ {0} /\ prev \in Nat
    /\ marked \in [Prices -> Seq(OrderIds)]
    /\ purge \in Seq(Prices) /\ modified \in Seq(Orders(OrderIds))
    /\ trades \in Seq(Trades) /\ updates \in Seq(Updates)
    /\ mirror \in [Sides -> [Prices -> Nat]]
    /\ reported \in [OrderIds -> Views \cup {None}]
    /\ executed \in [OrderIds -> Nat]

Init ==
    /\ levels = [s \in Sides |-> {}]
    /\ orders = [s \in Sides |-> [p \in Prices |-> <<>>]]
    /\ total = [s \in Sides |-> [p \in Prices |-> 0]]
    /\ idMap = [i \in OrderIds |-> None]
    /\ issued = 0 /\ submitted = 0
    /\ pc = "idle" /\ cur = None
    /\ todo = {} /\ at = None /\ pos = 1 /\ prev = 0
    /\ marked = [p \in Prices |-> <<>>]
    /\ purge = <<>> /\ modified = <<>> /\ trades = <<>> /\ updates = <<>>
    /\ mirror = [s \in Sides |-> [p \in Prices |-> 0]]
    /\ reported = [i \in OrderIds |-> None]
    /\ executed = [i \in OrderIds |-> 0]

-----------------------------------------------------------------------------
(* Helpers *)

Opposite(s) == IF s = "BUY" THEN "SELL" ELSE "BUY"

\* The order of the flat_map: greater<> for bids, less<> for asks.
AtLeastAsGood(s, p, q) == IF s = "BUY" THEN p >= q ELSE p <= q

\* Some level of the opposite side is at the order's price or better; the
\* code asks this of the best one, which is the same.
IsCrossingSlip(o) ==
    \E p \in levels[Opposite(o.side)] : AtLeastAsGood(o.side, o.price, p) /\ p # o.price
IsCrossing(o) ==
    \E p \in levels[Opposite(o.side)] : AtLeastAsGood(o.side, o.price, p)

\* A level that is not in the map is created empty when it is asked for.
LevelOrders(s, p) == IF p \in levels[s] THEN orders[s][p] ELSE <<>>
LevelTotal(s, p) == IF p \in levels[s] THEN total[s][p] ELSE 0

View(o) == [qty |-> o.qty, rem |-> o.rem, status |-> o.status]

\* What one match takes off both orders.
MatchedQtySlip(o, a) == a.rem
MatchedQty(o, a) == IF o.rem < a.rem THEN o.rem ELSE a.rem

\* reduce_qty, then the status the remaining quantities of the pair decide.
Reduced(o, n, other) ==
    [o EXCEPT !.rem = @ - n,
              !.status = IF o.rem - n <= other THEN "FILLED" ELSE "PARTIAL"]

\* After matching, only an unfilled limit order goes on to rest.
AfterMatchingSlip(o) == IF o.type = "LIMIT" THEN "rest" ELSE "done"
AfterMatching(o) ==
    IF o.type = "LIMIT" /\ o.status # "FILLED" THEN "rest" ELSE "done"

-----------------------------------------------------------------------------
(* add_order: identify the order, then dispatch on its type.  (An order for   *)
(* another symbol is only logged, which is no step.)                          *)

Identified(o) == IF o.id = 0 THEN [o EXCEPT !.id = FirstId + issued] ELSE o

Accept(o) ==
    /\ pc = "idle" /\ submitted < MaxOrders
    /\ submitted' = submitted + 1
    /\ issued' = IF o.id = 0 THEN issued + 1 ELSE issued
    /\ UNCHANGED <<book, at, pos, prev, marked, outbox, feeds>>

StartMatch(o) ==
    /\ cur' = o /\ pc' = "match" /\ todo' = levels[Opposite(o.side)]

Reject(o) ==
    /\ cur' = [o EXCEPT !.status = "REJECTED"] /\ pc' = "done"
    /\ UNCHANGED todo

\* limit_order: match if crossing; what is not filled will rest.
LimitOrder ==
    \E o \in Incoming :
        /\ o.type = "LIMIT" /\ Accept(o)
        /\ LET a == Identified(o) IN
           \/ IsCrossing(a) /\ StartMatch(a)
           \/ /\ ~IsCrossing(a)
              /\ cur' = a /\ pc' = AfterMatching(a) /\ UNCHANGED todo

\* market_order: rejected only when the opposite side has no level.
MarketOrder ==
    \E o \in Incoming :
        /\ o.type = "MARKET" /\ Accept(o)
        /\ LET a == Identified(o) IN
           \/ levels[Opposite(a.side)] # {} /\ StartMatch(a)
           \/ levels[Opposite(a.side)] = {} /\ Reject(a)

FillAndKillOrder ==
    \E o \in Incoming :
        /\ o.type = "FILL_AND_KILL" /\ Accept(o)
        /\ LET a == Identified(o) IN
           \/ IsCrossing(a) /\ StartMatch(a)
           \/ ~IsCrossing(a) /\ Reject(a)

-----------------------------------------------------------------------------
(* BookSide::match_order: walk the opposite levels from the best one while *)
(* the order has quantity left.  The walk compares no price.               *)

CurSide == Opposite(cur.side)

BestToDoSlip(p) == \A q \in todo : AtLeastAsGood(cur.side, p, q)
BestToDo(p) == \A q \in todo : AtLeastAsGood(CurSide, p, q)

MatchLevel ==
    /\ pc = "match" /\ cur.rem > 0
    /\ \E p \in todo :
        /\ BestToDo(p)
        /\ at' = p /\ todo' = todo \ {p}
        /\ prev' = total[CurSide][p]
    /\ pos' = 1 /\ pc' = "level"
    /\ UNCHANGED <<book, input, cur, marked, outbox, feeds>>

\* MatchingEngine::match_order on the order the level's loop has come to.
MatchOrder ==
    /\ pc = "level" /\ pos <= Len(orders[CurSide][at]) /\ cur.rem > 0
    /\ LET o == orders[CurSide][at][pos]
           n == MatchedQty(o, cur)
           m == Reduced(o, n, cur.rem - n)
       IN  /\ orders' = [orders EXCEPT ![CurSide][at][pos] = m]
           /\ total' = [total EXCEPT ![CurSide][at] = @ - n]
           /\ cur' = Reduced(cur, n, o.rem - n)
           /\ marked' = IF m.status = "FILLED"
                        THEN [marked EXCEPT ![at] = Append(@, m.id)]
                        ELSE marked
           /\ modified' = Append(modified, m)
           /\ trades' = Append(trades, [passive |-> m.id, aggressor |-> cur.id,
                                        price |-> m.price, qty |-> n])
    /\ pos' = pos + 1
    /\ UNCHANGED <<levels, idMap, input, pc, todo, at, prev, purge, updates, feeds>>

\* The end of PriceLevel::match_order: note the level for purging if its
\* total changed, and its update.
LevelUpdateSlip == [price |-> at, total |-> prev]
LevelUpdate == [price |-> at, total |-> total[CurSide][at]]

LevelDone ==
    /\ pc = "level" /\ (pos > Len(orders[CurSide][at]) \/ cur.rem = 0)
    /\ updates' = Append(updates, LevelUpdate)
    /\ purge' = IF total[CurSide][at] # prev THEN Append(purge, at) ELSE purge
    /\ at' = None /\ pc' = "match"
    /\ UNCHANGED <<book, input, cur, todo, pos, prev, marked, modified, trades, feeds>>

\* The second loop of BookSide::match_order erases the levels left empty.
ExhaustedSlip == {updates[i].price : i \in DOMAIN updates}
Exhausted == {updates[i].price : i \in {j \in DOMAIN updates : updates[j].total = 0}}

MatchDone ==
    /\ pc = "match" /\ (todo = {} \/ cur.rem = 0)
    /\ levels' = [levels EXCEPT ![CurSide] = @ \ Exhausted]
    /\ todo' = {} /\ pc' = "publish"
    /\ UNCHANGED <<orders, total, idMap, input, cur, at, pos, prev, marked, outbox, feeds>>

-----------------------------------------------------------------------------
(* The rest of OrderBook::match_order: report the modified orders, unlink  *)
(* the filled ones, then publish the trades and the level updates.         *)

ReportModified ==
    /\ pc = "publish" /\ modified # <<>>
    /\ LET o == Head(modified) IN
       reported' = [reported EXCEPT ![o.id] = View(o)]
    /\ modified' = Tail(modified)
    /\ UNCHANGED <<book, input, pc, cur, walk, purge, trades, updates, mirror, executed>>

\* remove_marked_order_nodes, one node per step.
RemoveMarkedNode ==
    /\ pc = "publish" /\ modified = <<>> /\ purge # <<>>
    /\ LET p == Head(purge) IN
       \/ /\ marked[p] = <<>>
          /\ purge' = Tail(purge)
          /\ UNCHANGED <<orders, marked>>
       \/ /\ marked[p] # <<>>
          /\ \E i \in DOMAIN orders[CurSide][p] :
                /\ orders[CurSide][p][i].id = Head(marked[p])
                /\ orders' = [orders EXCEPT ![CurSide][p] = RemoveAt(@, i)]
          /\ marked' = [marked EXCEPT ![p] = Tail(@)]
          /\ UNCHANGED purge
    /\ UNCHANGED <<levels, total, idMap, input, pc, cur, todo, at, pos, prev,
                   modified, trades, updates, feeds>>

TradesDueSlip == trades # <<>>
TradesDue == modified = <<>> /\ purge = <<>> /\ trades # <<>>

PublishTrade ==
    /\ pc = "publish" /\ TradesDue
    /\ LET t == Head(trades) IN
       executed' = [i \in OrderIds |->
           IF i \in {t.passive, t.aggressor} THEN executed[i] + t.qty ELSE executed[i]]
    /\ trades' = Tail(trades)
    /\ UNCHANGED <<book, input, pc, cur, walk, purge, modified, updates, mirror, reported>>

UpdatesLeftSlip == updates
UpdatesLeft == Tail(updates)

PublishLevelUpdate ==
    /\ pc = "publish" /\ modified = <<>> /\ purge = <<>> /\ trades = <<>>
    /\ updates # <<>>
    /\ mirror' = [mirror EXCEPT ![CurSide][Head(updates).price] = Head(updates).total]
    /\ updates' = UpdatesLeft
    /\ UNCHANGED <<book, input, pc, cur, walk, purge, modified, trades, reported, executed>>

\* match_order returns; a level that was erased takes its marks with it.
MatchReturns ==
    /\ pc = "publish"
    /\ modified = <<>> /\ purge = <<>> /\ trades = <<>> /\ updates = <<>>
    /\ marked' = [p \in Prices |-> <<>>]
    /\ pc' = AfterMatching(cur)
    /\ UNCHANGED <<book, input, cur, todo, at, pos, prev, outbox, feeds>>

-----------------------------------------------------------------------------
(* Resting, returning and removing *)

\* unordered_map::emplace: an entry that is there already stays.
EntrySlip(o) == [side |-> Opposite(o.side), price |-> o.price]
Entry(o) ==
    IF idMap[o.id] = None THEN [side |-> o.side, price |-> o.price] ELSE idMap[o.id]

\* BookSide::add_order, which refuses an id the level already holds,
\* then add_order_helper and the level update, whatever the level did.
RestOrder ==
    /\ pc = "rest"
    /\ LET s == cur.side
           p == cur.price
           q == LevelOrders(s, p)
           known == \E i \in DOMAIN q : q[i].id = cur.id
           t == LevelTotal(s, p) + (IF known THEN 0 ELSE cur.rem)
       IN  /\ levels' = [levels EXCEPT ![s] = @ \cup {p}]
           /\ orders' = [orders EXCEPT ![s][p] = IF known THEN q ELSE Append(q, cur)]
           /\ total' = [total EXCEPT ![s][p] = t]
           /\ mirror' = [mirror EXCEPT ![s][p] = t]
    /\ idMap' = [idMap EXCEPT ![cur.id] = Entry(cur)]
    /\ pc' = "done"
    /\ UNCHANGED <<input, cur, walk, outbox, reported, executed>>

\* add_order's last act is the private update of the order itself.
Return ==
    /\ pc = "done"
    /\ reported' = [reported EXCEPT ![cur.id] = View(cur)]
    /\ cur' = None /\ pc' = "idle"
    /\ UNCHANGED <<book, input, walk, outbox, mirror, executed>>

\* What BookSide::remove_order does to a level's total.
LeftAfterCancelSlip(s, p, r) == LevelTotal(s, p)
LeftAfterCancel(s, p, r) == LevelTotal(s, p) - r

\* The level is erased if nothing is left, created if it was not there.
CloseCancel(id, s, p, t) ==
    /\ total' = [total EXCEPT ![s][p] = t]
    /\ levels' = [levels EXCEPT ![s] = IF t = 0 THEN @ \ {p} ELSE @ \cup {p}]
    /\ mirror' = [mirror EXCEPT ![s][p] = t]
    /\ idMap' = [idMap EXCEPT ![id] = None]
    /\ UNCHANGED <<input, pc, cur, walk, outbox, reported, executed>>

\* remove_order of an order that rests where its entry says.
CancelResting(id) ==
    /\ pc = "idle" /\ idMap[id] # None
    /\ LET s == idMap[id].side
           p == idMap[id].price
       IN  \E i \in DOMAIN LevelOrders(s, p) :
              /\ orders[s][p][i].id = id
              /\ orders' = [orders EXCEPT ![s][p] = RemoveAt(@, i)]
              /\ CloseCancel(id, s, p, LeftAfterCancel(s, p, orders[s][p][i].rem))

\* remove_order of an order that has left the book: entries outlive fills.
CancelStale(id) ==
    /\ pc = "idle" /\ idMap[id] # None
    /\ LET s == idMap[id].side
           p == idMap[id].price
       IN  /\ \A i \in DOMAIN LevelOrders(s, p) : orders[s][p][i].id # id
           /\ orders' = [orders EXCEPT ![s][p] = LevelOrders(s, p)]
           /\ CloseCancel(id, s, p, LevelTotal(s, p))

\* remove_order of an id the map does not know only logs.
CancelUnknown(id) == pc = "idle" /\ idMap[id] = None /\ UNCHANGED vars

-----------------------------------------------------------------------------
Submit == LimitOrder \/ MarketOrder \/ FillAndKillOrder
Cancel == \E id \in OrderIds : CancelResting(id) \/ CancelStale(id) \/ CancelUnknown(id)
Engine ==
    \/ MatchLevel \/ MatchOrder \/ LevelDone \/ MatchDone
    \/ ReportModified \/ RemoveMarkedNode \/ PublishTrade \/ PublishLevelUpdate
    \/ MatchReturns \/ RestOrder \/ Return

Next == Submit \/ Cancel \/ Engine

\* A call runs to its end: the thread has nothing else to do.
Spec == Init /\ [][Next]_vars /\ WF_vars(Engine)

-----------------------------------------------------------------------------
(* Properties *)

\* The running totals of the quantities of q end at t.  (A witness instead of
\* a recursive sum, so that it can be proved about.)
RunningTotals(q, t, ss) ==
    /\ ss[0] = 0 /\ ss[Len(q)] = t
    /\ \A i \in 1 .. Len(q) : ss[i] = ss[i - 1] + q[i].rem
    /\ \A i, j \in 0 .. Len(q) : i <= j => ss[i] <= ss[j]
Tally(q, t) == \E ss \in [0 .. Len(q) -> 0 .. t] : RunningTotals(q, t, ss)

\* The total a level publishes is what its orders have left, at every step of
\* a match, a rest or a cancel: price_level.cpp keeps it by adding and
\* subtracting and never recounts (PriceLevel::match_order, add_order,
\* remove_order).
LevelTotals ==
    \A s \in Sides : \A p \in levels[s] : Tally(orders[s][p], total[s][p])

\* No bid level with quantity is at or above an ask level with quantity: what
\* crosses has matched first (limit_order), even in the middle of a call.
NotCrossed ==
    \A b \in levels["BUY"], a \in levels["SELL"] :
        total["BUY"][b] > 0 /\ total["SELL"][a] > 0 => b < a

\* When no call is in progress a subscriber of the public feed that applied
\* every level update holds exactly the book (public_order_book_update_handler).
PublicFeedExact ==
    pc = "idle" =>
        \A s \in Sides, p \in Prices : mirror[s][p] = LevelTotal(s, p)

\* When no call is in progress, every order in the book is an unfilled limit
\* order whose owner was told exactly its quantities and status, and what the
\* trades said of it is what it has lost (private_order_update_handler,
\* private_trades_update_handler).
PrivateFeedExact ==
    pc = "idle" =>
        \A s \in Sides : \A p \in levels[s] : \A i \in DOMAIN orders[s][p] :
            LET o == orders[s][p][i] IN
            /\ o.type = "LIMIT" /\ o.rem > 0 /\ o.status \in {"OPEN", "PARTIAL"}
            /\ reported[o.id] = View(o)
            /\ executed[o.id] = o.qty - o.rem

\* When no call is in progress and ids are not reused, every order in the
\* book can be removed by its id: orders_id_map_ says where it rests.
Cancellable ==
    pc = "idle" =>
        \A s \in Sides : \A p \in levels[s] : \A i \in DOMAIN orders[s][p] :
            idMap[orders[s][p][i].id] = [side |-> s, price |-> p]

\* A trade is announced only after the owner of the passive order was told of
\* the reduction it stands for (the order of the loops of match_order).
FillsReportedBeforeTrades ==
    \A id \in OrderIds :
        /\ executed[id] > 0 /\ (cur # None => id # cur.id)
        => reported[id] # None /\ executed[id] <= reported[id].qty - reported[id].rem

Ids(q) == {q[i].id : i \in DOMAIN q}
LiveIds(q) == {q[i].id : i \in {j \in DOMAIN q : q[j].rem > 0}}
\* No step drops an order that has quantity left, except the removal of its
\* own id: not the erasing of levels, the unlinking of filled nodes or the
\* removal of another order.
NoneLost ==
    \A s \in Sides, p \in Prices :
        LiveIds(LevelOrders(s, p)) \subseteq
            Ids(LevelOrders(s, p)') \cup {id \in OrderIds : idMap[id] # None /\ idMap'[id] = None}

\* No order with quantity is lost by any step of any call (levels_ and the
\* nodes remove_marked_order_nodes unlinks).
NoOrderLost == [][NoneLost]_vars

\* A limit or fill-and-kill order trades at its price or better only:
\* test_order_book.cpp calls its test of this
\* test_limit_order_stops_filling_on_cross.
LimitPriceRespected ==
    \A i \in DOMAIN trades :
        cur.type # "MARKET" => AtLeastAsGood(cur.side, cur.price, trades[i].price)

\* Every call returns: the walk, the callbacks and the purge all end.
Returns == pc # "idle" ~> pc = "idle"

-----------------------------------------------------------------------------
(* The inductive invariant behind LevelTotals and NotCrossed: what the     *)
(* walk of a match knows at each of its steps.                             *)

\* A level holds an id once: what finds an order by id finds the order.
UniqueIds ==
    \A s \in Sides : \A p \in levels[s] : \A i, j \in DOMAIN orders[s][p] :
        orders[s][p][i].id = orders[s][p][j].id => i = j

\* Nodes marked for unlinking have nothing left, and marks do not outlive
\* the match that made them.
MarksAreFilled ==
    IF pc \in {"idle", "rest", "done"}
    THEN \A p \in Prices : marked[p] = <<>>
    ELSE \A p \in levels[CurSide] :
            \A i \in DOMAIN orders[CurSide][p], k \in DOMAIN marked[p] :
                orders[CurSide][p][i].id = marked[p][k] => orders[CurSide][p][i].rem = 0

\* While the order has quantity left, a level the walk has been through is
\* empty, and its update says so.
WalkLeavesNothing ==
    pc \in {"match", "level"} =>
        /\ todo \subseteq levels[CurSide]
        /\ pc = "level" => at \in levels[CurSide]
        /\ cur.rem > 0 =>
            \A p \in levels[CurSide] \ (todo \cup {at}) :
                \E i \in DOMAIN updates : updates[i] = [price |-> p, total |-> 0]

\* ... and so is the part it has been through of the level it is in.
ScanLeavesNothing ==
    pc = "level" =>
        LET q == orders[CurSide][at]
            t == total[CurSide][at]
        IN  /\ pos <= Len(q) + 1
            /\ \E ss \in [0 .. Len(q) -> 0 .. t] :
                  RunningTotals(q, t, ss) /\ (cur.rem > 0 => ss[pos - 1] = 0)

\* What is left of an order goes to rest only when nothing meets its price.
RestDoesNotCross ==
    /\ pc = "publish" /\ cur.rem > 0 => levels[CurSide] = {}
    /\ pc = "rest" /\ cur.rem > 0 =>
        \A p \in levels[CurSide] :
            total[CurSide][p] > 0 => ~AtLeastAsGood(cur.side, cur.price, p)

IInv ==
    /\ TypeOK /\ LevelTotals /\ NotCrossed
    /\ UniqueIds /\ MarksAreFilled /\ WalkLeavesNothing /\ ScanLeavesNothing
    /\ RestDoesNotCross

-----------------------------------------------------------------------------
(* Behind PublicFeedExact and NoOrderLost: what the walk owes the public   *)
(* feed.                                                                   *)

\* Levels the feed will hear of before the call returns.
Owed == {updates[i].price : i \in DOMAIN updates}

\* An update is collected once the walk is through with its level, and says
\* what the level has from then on, erased or not.
UpdatesHold ==
    /\ pc \in {"idle", "rest", "done"} => updates = <<>>
    /\ pc \in {"match", "level"} => Owed \cap (todo \cup {at}) = {} /\ at \notin todo
    /\ \A i \in DOMAIN updates : updates[i].total = LevelTotal(CurSide, updates[i].price)

\* The feed differs from the book only where the walk is or owes an update.
FeedFollows ==
    \A s \in Sides, p \in Prices :
        \/ mirror[s][p] = LevelTotal(s, p)
        \/ pc # "idle" /\ s = CurSide /\ p \in Owed \cup {at}

FeedInv == UpdatesHold /\ FeedFollows

=============================================================================
