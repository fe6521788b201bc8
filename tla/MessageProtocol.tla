--------------------------- MODULE MessageProtocol ---------------------------
(***************************************************************************)
(* parse_order of the JSON protocol.  A text is known by what is wrong     *)
(* with it: a set of faults, at most one of a field, or one of the whole   *)
(* text.  "mistyped" is a value of a JSON type that get refuses, "unknown" *)
(* a name that is none of the enum's.                                      *)
(***************************************************************************)
EXTENDS Integers, Sequences, FiniteSetsExt

Fields == <<"symbol", "price", "qty", "order_side", "order_type", "order_status",
            "acc_id", "client_order_id", "order_id">>

Fault(f, w) == [field |-> f, what |-> w]
TextFaults == {Fault("text", w) : w \in {"broken", "not an object"}}
FieldFaults == {Fault(Fields[i], w) : i \in DOMAIN Fields, w \in {"missing", "mistyped"}}
NameFaults == {Fault("symbol", "empty")} \cup {Fault(Fields[i], "unknown") : i \in 4 .. 6}
Faults == TextFaults \cup FieldFaults \cup NameFaults

\* What a text comes to: an order, an error's code, or an exception (code 0).
Outcome(kind, code) == [kind |-> kind, code |-> code]
Outcomes == [kind : {"order", "error", "exception"}, code : Nat]
Check(f, w, kind, code) == [fault |-> Fault(f, w), outcome |-> Outcome(kind, code)]
Throws(f) == Check(f, "mistyped", "exception", 0)
Enum(f, code) == <<Throws(f), Check(f, "unknown", "error", code)>>

\* validate_required_fields: a text that is no object contains no field.
Required ==
    <<Check("text", "not an object", "error", 51)>>
    \o [i \in DOMAIN Fields |-> Check(Fields[i], "missing", "error", 50 + i)]

Symbol == <<Throws("symbol"), Check("symbol", "empty", "error", 51)>>
Numbers == <<Throws("price"), Throws("qty")>>
Enums == Enum("order_side", 120) \o Enum("order_type", 121) \o Enum("order_status", 122)
Ids == <<Throws("acc_id"), Throws("client_order_id"), Throws("order_id")>>

\* Every check, in the order of parse_order.
Gets == Symbol \o Numbers \o Enums \o Ids
Parse == <<Check("text", "broken", "exception", 0)>>
ChecksSlip == Parse \o Gets \o Required
Checks == (Parse \o Required) \o Gets

\* The first check that fails decides.
ParseOrder(faults) ==
    LET failed == {i \in DOMAIN Checks : Checks[i].fault \in faults} IN
    IF failed = {} THEN Outcome("order", 0) ELSE Checks[Min(failed)].outcome

\* The field a code's message names (errors_arr).
Named(code) == IF code < 120 THEN Fields[code - 50] ELSE Fields[code - 116]

=============================================================================
