------------------------- MODULE OrderBookRefinement -------------------------
(***************************************************************************)
(* OrderBook implements PriceTimeBook: the queue of a side at a price is   *)
(* the FIFO of its level without the orders that have nothing left and     *)
(* wait to be unlinked.  These come first, for a match fills from the      *)
(* front.                                                                  *)
(***************************************************************************)
EXTENDS OrderBookOwner

FilledUpTo(q, k) == \A i \in DOMAIN q : q[i].rem = 0 <=> i <= k
Filled(q) == CHOOSE k \in 0 .. Len(q) : FilledUpTo(q, k)

Resting(o) == [id |-> o.id, rem |-> o.rem]
Live(q) == [i \in 1 .. Len(q) - Filled(q) |-> Resting(q[i + Filled(q)])]

PromisedQueue == [s \in Sides |-> [p \in Prices |-> Live(LevelOrders(s, p))]]

Taking(o) == [id |-> o.id, side |-> o.side, price |-> o.price, rem |-> o.rem, type |-> o.type]
Taker == IF cur = None THEN None ELSE Taking(cur)
Takers == {Taking([o EXCEPT !.id = i]) : o \in Incoming, i \in OrderIds}

Phase == CASE pc = "idle" -> None
           [] pc \in {"match", "level", "publish"} -> "take"
           [] pc = "rest" -> "rest"
           [] pc = "done" -> "leave"

Promise == INSTANCE PriceTimeBook WITH queue <- PromisedQueue, taker <- Taker, phase <- Phase

\* Matching takes from the head of the best price only, an order rests behind
\* its equals, cancelling moves nobody, and an order stops only when it is
\* filled, rests or finds nothing more: price-time priority of the whole book,
\* out of levels, loops and deferred unlinking (OrderBook, BookSide,
\* PriceLevel and MatchingEngine together).
PriceTimePriority == Promise!PTSafety

\* ... and every order that was accepted is worked on until then.
OrdersAreServed == Promise!PTLiveness

-----------------------------------------------------------------------------
(* The inductive invariant behind PriceTimePriority, beyond IInv, FeedInv  *)
(* and OwnerInv.                                                           *)

\* In a level, the orders that wait to be unlinked come first.
FilledComeFirst ==
    \A s \in Sides : \A p \in levels[s] :
        \E k \in 0 .. Len(orders[s][p]) : FilledUpTo(orders[s][p], k)

\* A total says whether somebody offers to trade, and a level without an offer
\* is erased before the walk that emptied it ends.
HasOffer(q) == \E i \in DOMAIN q : q[i].rem > 0
LevelsOffer ==
    \A s \in Sides : \A p \in levels[s] :
        /\ total[s][p] > 0 => HasOffer(orders[s][p])
        /\ total[s][p] = 0 => pc \in {"match", "level"} /\ s = CurSide /\ p \in Owed \cup {at}

\* The walk is in the best of the levels it has not been through.
WalkIsBestFirst == pc = "level" => \A q \in todo : AtLeastAsGood(CurSide, at, q)

PromiseInv == OwnerInv /\ FilledComeFirst /\ LevelsOffer /\ WalkIsBestFirst

=============================================================================
