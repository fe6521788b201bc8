--------------------------- MODULE MCOrderForgeApp ---------------------------
(***************************************************************************)
(* Small instances of OrderForgeApp.                                       *)
(***************************************************************************)
EXTENDS OrderForgeApp

CONSTANTS BOOK, ORDERS

\* What an order that rests makes its book report.
MCEffects == {<<BOOK, ORDERS>>}

\* Room for both connections, or for one only; with room for one event at a
\* time more handlers may be ready than epoll_wait takes.
MCSizes == {[events |-> 2, open |-> 2], [events |-> 1, open |-> 1]}

=============================================================================
