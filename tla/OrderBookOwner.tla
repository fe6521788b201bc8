---------------------------- MODULE OrderBookOwner ----------------------------
(***************************************************************************)
(* What the owners of orders are told, and when: the inductive invariant   *)
(* behind PrivateFeedExact, Cancellable and FillsReportedBeforeTrades of   *)
(* OrderBook.  A match tells them late: it collects the orders it changed  *)
(* and its trades, and reports, unlinks and announces when the walk is     *)
(* over.  Between those loops no list agrees with the book by itself; this *)
(* module says what they add up to.                                        *)
(***************************************************************************)
EXTENDS OrderBook

\* Clients leave the choice of an id to the engine and send open orders of
\* some quantity; with other orders the three properties do not hold.
FreshOrders == \A o \in Incoming : o.id = 0 /\ o.status = "OPEN" /\ o.qty > 0

Working == pc \in {"match", "level", "publish"}

\* Ids handed out before the call in progress.
Past(id) == id < FirstId + issued - (IF pc = "idle" THEN 0 ELSE 1)

\* Orders whose owners are still to hear of this match, and passive orders of
\* trades still to be announced.
Touched == {modified[i].id : i \in DOMAIN modified}
Passive == {trades[i].passive : i \in DOMAIN trades}

\* The call in progress has the newest id, and nobody has heard of it.
IdsAreNew ==
    /\ issued = submitted
    /\ pc # "idle" => cur.id = FirstId + issued - 1
    /\ \A id \in OrderIds : ~Past(id) =>
        /\ reported[id] = None
        /\ idMap[id] # None => pc = "done" /\ id = cur.id
        /\ executed[id] > 0 => pc # "idle" /\ id = cur.id
    /\ \A i \in DOMAIN modified : Past(modified[i].id)
    /\ \A i \in DOMAIN trades : Past(trades[i].passive) /\ trades[i].aggressor = cur.id

\* The order of the call is open until it is filled, and rests only if it is a
\* limit order that is not.
CurIsOpen ==
    /\ pc # "idle" => cur.rem <= cur.qty /\ cur.qty > 0
    /\ pc \in {"match", "level", "publish", "rest"} =>
        IF cur.rem = 0 THEN cur.status = "FILLED" ELSE cur.status \in {"OPEN", "PARTIAL"}
    /\ pc = "rest" => cur.type = "LIMIT" /\ cur.rem > 0

\* Every order in the book is where its entry says, and is open unless the
\* match in progress has filled it and marked it for unlinking.
RestsWell(s, p, o) ==
    /\ o.side = s /\ o.price = p /\ o.type = "LIMIT" /\ o.rem <= o.qty
    /\ idMap[o.id] = [side |-> s, price |-> p]
    /\ o.rem > 0 => o.status \in {"OPEN", "PARTIAL"}
    /\ o.rem = 0 => Working /\ s = CurSide /\ \E k \in DOMAIN marked[p] : marked[p][k] = o.id
    /\ pc = "done" /\ o.id = cur.id => o = cur
OrdersRestWell ==
    \A s \in Sides : \A p \in levels[s] : \A i \in DOMAIN orders[s][p] :
        RestsWell(s, p, orders[s][p][i])

\* A level with marks is purged before the call returns.
MarksArePurged ==
    /\ pc = "level" => total[CurSide][at] <= prev
    /\ \A p \in Prices : marked[p] # <<>> =>
        \/ \E k \in DOMAIN purge : purge[k] = p
        \/ pc = "level" /\ p = at /\ total[CurSide][at] # prev

\* The walk matches an order once, and notes it and its trade together.
WalkIsNoted ==
    /\ \A i, j \in DOMAIN modified : modified[i].id = modified[j].id => i = j
    /\ \A i, j \in DOMAIN trades : trades[i].passive = trades[j].passive => i = j
    /\ ~Working => modified = <<>> /\ trades = <<>> /\ purge = <<>>
    /\ pc \in {"match", "level"} =>
        /\ Passive = Touched
        /\ \A p \in Prices : \A k \in DOMAIN marked[p] : marked[p][k] \in Touched
        /\ \A p \in todo : \A i \in DOMAIN orders[CurSide][p] :
            orders[CurSide][p][i].id \notin Touched
    /\ pc = "level" =>
        \A i \in DOMAIN orders[CurSide][at] : i >= pos => orders[CurSide][at][i].id \notin Touched

\* The owner of a resting order was told, or is about to be told, what is left
\* of it; and what was traded, with what is still to be announced, is what it
\* has lost.
IsTold(o) ==
    /\ \A k \in DOMAIN modified : modified[k].id = o.id => View(modified[k]) = View(o)
    /\ o.id \notin Touched => reported[o.id] = View(o)
    /\ \A k \in DOMAIN trades :
        trades[k].passive = o.id => executed[o.id] + trades[k].qty = o.qty - o.rem
    /\ o.id \notin Passive => executed[o.id] = o.qty - o.rem
OwnersAreTold ==
    \A s \in Sides : \A p \in levels[s] : \A i \in DOMAIN orders[s][p] :
        Past(orders[s][p][i].id) => IsTold(orders[s][p][i])

\* The trades still to be announced make up what the order of the call has
\* lost and nobody knows of yet.
AnnouncedUpTo(ss) ==
    /\ ss[0] = executed[cur.id] /\ ss[Len(trades)] = cur.qty - cur.rem
    /\ \A k \in 1 .. Len(trades) : ss[k] = ss[k - 1] + trades[k].qty
TakerIsTold ==
    pc # "idle" => \E ss \in [0 .. Len(trades) -> 0 .. cur.qty] : AnnouncedUpTo(ss)

\* A trade is backed by an update that comes first, whether the order it
\* reduced is still in the book or not.
TradesAreBacked ==
    /\ FillsReportedBeforeTrades
    /\ \A j \in DOMAIN modified :
        executed[modified[j].id] <= modified[j].qty - modified[j].rem
    /\ \A k \in DOMAIN trades :
        LET id == trades[k].passive
            n == executed[id] + trades[k].qty
        IN  \/ \E j \in DOMAIN modified :
                  modified[j].id = id /\ n <= modified[j].qty - modified[j].rem
            \/ /\ id \notin Touched /\ reported[id] # None
               /\ n <= reported[id].qty - reported[id].rem

OwnerInv ==
    /\ IdsAreNew /\ CurIsOpen /\ OrdersRestWell /\ MarksArePurged
    /\ WalkIsNoted /\ OwnersAreTold /\ TakerIsTold /\ TradesAreBacked

=============================================================================
