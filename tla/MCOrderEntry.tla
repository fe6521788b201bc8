----------------------------- MODULE MCOrderEntry -----------------------------
(***************************************************************************)
(* Small instances of OrderEntry.                                          *)
(***************************************************************************)
EXTENDS OrderEntry

Ticks == {28, 29, 30}
Units == {14, 16, -1}

Text(f, s, t, u) == [faults |-> f, side |-> s, ticks |-> t, units |-> u]

\* Texts with one fault, or with one in each of two fields.
FaultSets == {{f} : f \in Faults}
    \cup {{f, g} : f, g \in {h \in Faults : h.field # "text"}}
TwoFields(fs) == \A f, g \in fs : f.field = g.field => f = g

\* Sell orders are at market: one price stands for all.  What numbers a faulty
\* text has does not matter.
MCMessages ==
    {Text({}, "BUY", t, u) : t \in Ticks, u \in Units}
    \cup {Text({}, "SELL", 0, u) : u \in Units}
    \cup {Text(fs, "BUY", 0, 0) : fs \in {gs \in FaultSets : TwoFields(gs)}}

=============================================================================
