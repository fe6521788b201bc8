------------------------------ MODULE OrderEntry ------------------------------
(***************************************************************************)
(* The way of an order's numbers: from a client's text through parse_order *)
(* (MessageProtocol), the conversion of its doubles (ScaledInt) and the    *)
(* generator's id (IdGenerator) into a price level whose total is an       *)
(* integer of Width bits, and out again as the feed's doubles; in a        *)
(* process that an exception ends and that is started again.               *)
(*                                                                         *)
(* Buy orders are LIMIT orders and rest, sell orders are MARKET orders and *)
(* take; clients leave the id to the engine.  OrderBook has every side,    *)
(* type and step of add_order, with numbers that always fit.               *)
(***************************************************************************)
EXTENDS IdGenerator, FiniteSetsExt, SequencesExt, MessageProtocol

CONSTANTS
    Precision,      \* bits of a double's significand
    PriceScale,     \* the Scale of Price
    QtyScale,       \* the Scale of Quantity
    Width,          \* bits of a Quantity
    Messages        \* what clients send

\* A message: what is wrong with its text, or a side, a price in ticks (units
\* of 1 / PriceScale) and a quantity in units of 1 / QtyScale.
ASSUME MessagesAssumption ==
    Messages \subseteq [faults : SUBSET Faults, side : {"BUY", "SELL"}, ticks : Nat, units : Int]
\* A text that is no JSON has no fields to be wrong.
ASSUME BrokenAssumption ==
    \A m \in Messages : Fault("text", "broken") \in m.faults => m.faults = {Fault("text", "broken")}
ASSUME NumbersAssumption ==
    {Precision, PriceScale, QtyScale, Width, 2^Width, 2^(Width - 1)} \subseteq Nat \ {0}
\* A double's exponents, and a scale small beside them.
ASSUME ExponentsAssumption ==
    /\ \A k \in 0 .. 2 * Precision : 2^k \in Nat \ {0} /\ 2^k <= 2^(2 * Precision)
    /\ \A s \in {PriceScale, QtyScale} : s * 2^(Precision - 1) <= 2^(2 * Precision)

VARIABLES
    up,         \* the process lives
    levels,     \* the bids: for each price with a level, its FIFO and total_qty_
    traded,     \* what the trades of the last call took, together
    last        \* the last text's faults, and what it came to

entryVars == <<vars, up, levels, traded, last>>

Price == INSTANCE ScaledInt WITH Scale <- PriceScale
Qty == INSTANCE ScaledInt WITH Scale <- QtyScale

Quantities == 0 .. 2^Width - 1
Resting == [id : Nat, ticks : Nat, units : Int, rem : Quantities]
Level == [orders : Seq(Resting), total : Quantities]

EntryTypeOK ==
    /\ TypeOK
    /\ up \in BOOLEAN /\ traded \in Nat
    /\ last \in [faults : SUBSET Faults, outcome : Outcomes]
    /\ DOMAIN levels \subseteq Int
    /\ \A p \in DOMAIN levels : levels[p] \in Level

NoLevels == [p \in {} |-> [orders |-> <<>>, total |-> 0]]

EntryInit ==
    /\ Init
    /\ up = TRUE /\ levels = NoLevels /\ traded = 0
    /\ last = [faults |-> {}, outcome |-> Outcome("order", 0)]

-----------------------------------------------------------------------------
(* The level: price_level.cpp in the arithmetic of the machine *)

RawPrice(m) == Price!Scaled(Price!Double(m.ticks, PriceScale))
RawQty(m) == Qty!ToUnsigned(Qty!Scaled(Qty!Double(m.units, QtyScale)))

\* A client's prices and quantities leave a double a bit to spare.  Quantities
\* of zero are left to OrderBook.
ASSUME RangeAssumption ==
    \A m \in Messages : m.faults = {} =>
        /\ m.ticks < 2^(Precision - 1)
        /\ m.units \in Quantities => m.units < 2^(Precision - 1)
        /\ RawQty(m) \in Quantities \ {0}

\* What the orders of a FIFO have left: all together, and those before one.
Rems(q) == [i \in DOMAIN q |-> q[i].rem]
Volume(q) == SumFunction(Rems(q))
Ahead(q, i) == SumFunctionOnSet(Rems(q), 1 .. i - 1)
LevelAt(p) == IF p \in DOMAIN levels THEN levels[p] ELSE [orders |-> <<>>, total |-> 0]

Rest(m, id) ==
    LET p == RawPrice(m)
        n == RawQty(m)
        o == [id |-> id, ticks |-> m.ticks, units |-> m.units, rem |-> n]
        l == [orders |-> Append(LevelAt(p).orders, o), total |-> Qty!Plus(LevelAt(p).total, n)]
    IN  levels' = [b \in DOMAIN levels \cup {p} |-> IF b = p THEN l ELSE levels[b]]

\* A taker of quantity n that comes to the FIFO q takes from its front, and
\* subtracts from the total what each match takes.
Takes(q, n, i) == Max({0, Min({q[i].rem, n - Ahead(q, i)})})
Taken(q, n) == Min({n, Volume(q)})
After(q, n) == [i \in DOMAIN q |-> [q[i] EXCEPT !.rem = @ - Takes(q, n, i)]]
Unfilled(q) ==
    LET kept[i \in 0 .. Len(q)] ==
            IF i = 0 THEN <<>>
            ELSE IF q[i].rem > 0 THEN Append(kept[i - 1], q[i]) ELSE kept[i - 1]
    IN  kept[Len(q)]
Matched(l, n) == [orders |-> Unfilled(After(l.orders, n)),
                  total |-> Qty!Minus(l.total, Taken(l.orders, n))]

\* BookSide::match_order: from the best level on, while the taker has
\* quantity left; then the levels whose update says zero are erased.
Volumes == [p \in DOMAIN levels |-> Volume(levels[p].orders)]
Better(p) == SumFunctionOnSet(Volumes, {b \in DOMAIN levels : b > p})
Visited(n) == {p \in DOMAIN levels : n > Better(p)}
AfterMatch(p, n) == Matched(levels[p], n - Better(p))
ErasedSlip(n) == Visited(n)
Erased(n) == {p \in Visited(n) : AfterMatch(p, n).total = 0}

Take(n) ==
    /\ levels' = [p \in DOMAIN levels \ Erased(n) |->
                    IF p \in Visited(n) THEN AfterMatch(p, n) ELSE levels[p]]
    /\ traded' = SumFunction([p \in Visited(n) |-> Taken(levels[p].orders, n - Better(p))])

-----------------------------------------------------------------------------
(* OrderForgeApp::handle_event *)

\* add_order of a book: the id first, whatever becomes of the order.
AddOrder(m) ==
    /\ DailyGenerate
    /\ \/ m.side = "BUY" /\ Rest(m, Count + 1) /\ traded' = 0
       \/ m.side = "SELL" /\ Take(RawQty(m))

\* The symbol the book is looked up by is a view into the text's JSON value,
\* which parse_order has destroyed: it may not be found.
NotFound == traded' = 0 /\ UNCHANGED <<vars, levels>>

HandleOrder(m) ==
    /\ ParseOrder(m.faults).kind = "order"
    /\ AddOrder(m) \/ NotFound
    /\ UNCHANGED up

\* An error is logged, then get_value throws; parse_order's own exceptions
\* are caught by nobody either.  The process ends, and its books with it.
Crash(m) ==
    /\ ParseOrder(m.faults).kind # "order"
    /\ up' = FALSE /\ levels' = NoLevels /\ traded' = 0
    /\ UNCHANGED vars

HandleEvent ==
    /\ up
    /\ \E m \in Messages :
        /\ last' = [faults |-> m.faults, outcome |-> ParseOrder(m.faults)]
        /\ HandleOrder(m) \/ Crash(m)

\* The process is started again, with empty books and no generator.
StartAgain ==
    /\ DailyRestart
    /\ up' = TRUE /\ levels' = NoLevels /\ traded' = 0
    /\ last' = [faults |-> {}, outcome |-> Outcome("order", 0)]

DayPasses == Midnight /\ UNCHANGED <<up, levels, traded, last>>

EntryNext == HandleEvent \/ StartAgain \/ DayPasses
EntrySpec == EntryInit /\ [][EntryNext]_entryVars

\* to_json_string of a level's update.
LevelLine(p) == [price |-> Price!Descaled(p), total |-> Qty!Descaled(levels[p].total)]

-----------------------------------------------------------------------------
(* Properties *)

\* An order is what a text without fault comes to.  A text that lacks a field
\* is refused with an error that names one it lacks, whatever else is wrong
\* with it, and no error names a field that nothing is wrong with
\* (validate_required_fields before the first get of parse_order).
LacksField == \E f \in last.faults : f.what \in {"missing", "not an object"}
FaultyFields ==
    {f.field : f \in last.faults}
    \cup (IF Fault("text", "not an object") \in last.faults THEN {"symbol"} ELSE {})
RefusalsNameAFault ==
    /\ last.outcome.kind = "order" <=> last.faults = {}
    /\ LacksField => last.outcome.kind = "error"
    /\ last.outcome.kind = "error" => Named(last.outcome.code) \in FaultyFields

\* An order rests at the price its client wrote or one tick below, with the
\* quantity it wrote or one unit less if that is one a Quantity has; an order
\* at a better written price never rests at a worse one; and a client that
\* sends back the price the feed shows for a level comes to that level or the
\* one below (ScaledInt's conversions, there and back).
AtOrBelow(a, b) == a \in {b - 1, b}
NumbersFaithful ==
    \A p \in DOMAIN levels :
        /\ AtOrBelow(Price!Scaled(LevelLine(p).price), p)
        /\ \A o \in ToSet(levels[p].orders) :
            /\ AtOrBelow(p, o.ticks)
            /\ o.units \in Quantities => o.rem <= o.units
            /\ \A r \in DOMAIN levels : r > p =>
                \A b \in ToSet(levels[r].orders) : b.ticks > o.ticks

\* A level's total is the sum of what its orders have left whenever that is
\* a number it can be, though the sum did not fit before (total_qty_ in
\* PriceLevel::add_order and match_order).
TotalExactIfItFits ==
    \A p \in DOMAIN levels :
        LET v == Volume(levels[p].orders) IN v \in Quantities => levels[p].total = v

\* What leaves the book was traded, as long as every level's sum fits: no
\* level is erased with quantity in it (BookSide::match_order erases by the
\* total alone).
BookVolume == SumFunction(Volumes)
AllFit == \A p \in DOMAIN levels : Volume(levels[p].orders) \in Quantities
OnlyTradesTakeAway ==
    [][ up /\ up' /\ AllFit /\ ~StartAgain => BookVolume' + traded' >= BookVolume ]_entryVars

=============================================================================
