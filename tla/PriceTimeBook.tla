---------------------------- MODULE PriceTimeBook ----------------------------
(***************************************************************************)
(* What an order book promises its clients: each side is one queue per     *)
(* price, oldest first, and an order that takes liquidity takes it from    *)
(* the head of the best-priced queue of the opposite side, and only there. *)
(* No levels, totals, id maps, marks or callbacks: OrderBook adds those    *)
(* and is shown to implement this in OrderBookRefinement.                  *)
(***************************************************************************)
EXTENDS Integers, SequencesExt

CONSTANTS
    Prices,     \* the prices orders name
    Takers,     \* orders that may arrive: [id, side, price, rem, type]
    None        \* no order is being worked on

VARIABLES
    queue,      \* queue[s][p]: the resting orders of side s at price p
    taker,      \* the order being worked on
    phase       \* "take", "rest" or "leave" (None when there is no taker)

ptVars == <<queue, taker, phase>>

Other(s) == IF s = "BUY" THEN "SELL" ELSE "BUY"
NoWorse(s, p, q) == IF s = "BUY" THEN p >= q ELSE p <= q

\* The prices at which somebody offers to trade on side s, and the best of them.
Offers(s) == {p \in Prices : queue[s][p] # <<>>}
Best(s, p) == p \in Offers(s) /\ \A q \in Offers(s) : NoWorse(s, p, q)

PTInit ==
    /\ queue = [s \in {"BUY", "SELL"} |-> [p \in Prices |-> <<>>]]
    /\ taker = None /\ phase = None

\* A market order takes whatever there is, any other starts to take only if
\* some opposite price meets its own; a limit order that finds none, rests.
Takes(o) ==
    \E p \in Offers(Other(o.side)) : o.type = "MARKET" \/ NoWorse(o.side, o.price, p)

Arrive ==
    /\ taker = None
    /\ \E o \in Takers :
        /\ taker' = o
        /\ phase' = IF Takes(o) THEN "take"
                    ELSE IF o.type = "LIMIT" THEN "rest" ELSE "leave"
    /\ UNCHANGED queue

\* The head of the queue loses what the taker gains, and leaves at zero.
Served(q, n) ==
    IF Head(q).rem = n THEN Tail(q) ELSE <<[Head(q) EXCEPT !.rem = @ - n]>> \o Tail(q)

Take ==
    /\ phase = "take" /\ taker.rem > 0
    /\ \E p \in Prices :
        LET s == Other(taker.side)
            h == Head(queue[s][p])
            n == IF h.rem < taker.rem THEN h.rem ELSE taker.rem
        IN  /\ Best(s, p)
            /\ queue' = [queue EXCEPT ![s][p] = Served(@, n)]
            /\ taker' = [taker EXCEPT !.rem = @ - n]
    /\ UNCHANGED phase

\* Taking stops only when the taker is filled or nobody offers any more.
Settle ==
    /\ phase = "take" /\ (taker.rem = 0 \/ Offers(Other(taker.side)) = {})
    /\ phase' = IF taker.type = "LIMIT" /\ taker.rem > 0 THEN "rest" ELSE "leave"
    /\ UNCHANGED <<queue, taker>>

\* A resting order goes behind everything at its price.
Rest ==
    /\ phase = "rest"
    /\ queue' = [queue EXCEPT ![taker.side][taker.price] =
                    Append(@, [id |-> taker.id, rem |-> taker.rem])]
    /\ phase' = "leave"
    /\ UNCHANGED taker

Leave == phase = "leave" /\ taker' = None /\ phase' = None /\ UNCHANGED queue

\* Cancelling takes one order out of its queue and moves no other.
Withdraw ==
    /\ taker = None
    /\ \E s \in DOMAIN queue, p \in Prices : \E i \in DOMAIN queue[s][p] :
        queue' = [queue EXCEPT ![s][p] = RemoveAt(@, i)]
    /\ UNCHANGED <<taker, phase>>

PTNext == Arrive \/ Take \/ Settle \/ Rest \/ Leave \/ Withdraw

\* What may happen, and what must: an order that arrived is worked on.
PTSafety == PTInit /\ [][PTNext]_ptVars
PTLiveness == WF_ptVars(Take \/ Settle \/ Rest \/ Leave)

=============================================================================
