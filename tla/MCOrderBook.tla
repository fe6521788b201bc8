----------------------------- MODULE MCOrderBook -----------------------------
(***************************************************************************)
(* Small instances of OrderBook.  Order(...) is an order as it comes in.   *)
(***************************************************************************)
EXTENDS OrderBookRefinement

CONSTANTS Quantities, ClientIds, ClientStatuses

Order(id, s, p, q, st, ty) ==
    [id |-> id, side |-> s, price |-> p, qty |-> q, rem |-> q, status |-> st, type |-> ty]

\* The price of a market order is never read: one value stands for all.
AnyPrice == CHOOSE p \in Prices : TRUE

MCIncoming ==
    {Order(id, s, p, q, st, ty) :
        id \in ClientIds, s \in Sides, p \in Prices, q \in Quantities,
        st \in ClientStatuses, ty \in {"LIMIT", "FILL_AND_KILL"}}
    \cup
    {Order(id, s, AnyPrice, q, st, "MARKET") :
        id \in ClientIds, s \in Sides, q \in Quantities, st \in ClientStatuses}

=============================================================================
