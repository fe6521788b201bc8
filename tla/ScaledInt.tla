------------------------------ MODULE ScaledInt ------------------------------
(***************************************************************************)
(* ScaledInt: a double multiplied by Scale and kept as an integer of Width *)
(* bits.  Price and Quantity are two instances.                            *)
(*                                                                         *)
(* A double is a binary fraction [m |-> m, e |-> e], standing for m / 2^e, *)
(* whose m has Precision bits; operations on doubles round to the nearest, *)
(* ties to even.  The code's doubles have 53 bits: a small Precision shows *)
(* the same roundings at numbers TLC can reach.  Integers that are         *)
(* converted leave a bit to spare: they are below 2^(Precision - 1), as    *)
(* prices and quantities are below 2^52.                                   *)
(***************************************************************************)
EXTENDS Integers

CONSTANTS
    Precision,  \* bits of a double's significand
    Scale,      \* Scale
    Width       \* bits of int_type

Abs(n) == IF n < 0 THEN -n ELSE n
WithSign(n, m) == IF n < 0 THEN -m ELSE m

\* The integer nearest to a / b.
Nearest(a, b) ==
    LET q == a \div b
        r == a % b
    IN  IF 2 * r > b \/ (2 * r = b /\ q % 2 = 1) THEN q + 1 ELSE q

\* The double nearest to n / d: n literally, or the quotient of two doubles.
Double(n, d) ==
    IF n = 0 THEN [m |-> 0, e |-> 0]
    ELSE LET a == Abs(n)
             e == CHOOSE k \in 0 .. 2 * Precision :
                     /\ a * 2^k >= d * 2^(Precision - 1)
                     /\ k > 0 => a * 2^(k - 1) < d * 2^(Precision - 1)
         IN  [m |-> WithSign(n, Nearest(a * 2^e, d)), e |-> e]

\* From a double to the integer: towards zero, and what does not fit in an
\* unsigned type is what x86-64 makes of it.
Truncated(x) == WithSign(x.m, Abs(x.m) \div 2^x.e)
ToUnsigned(n) ==
    IF n >= 2^Width THEN 0 ELSE IF n >= -(2^(Width - 1)) THEN n % 2^Width ELSE 2^(Width - 1)

\* explicit ScaledInt(const double value) : value_(value * Scale)
Scaled(x) == Truncated(Double(x.m * Scale, 2^x.e))

\* descaled_value
DescaledSlip(v) == Double(v, 1)
Descaled(v) == Double(v, Scale)

\* operator+= and operator-= of an unsigned type.
PlusSlip(a, b) == IF a + b < 2^Width THEN a + b ELSE 2^Width - 1
Plus(a, b) == (a + b) % 2^Width
MinusSlip(a, b) == a - b
Minus(a, b) == (a - b) % 2^Width

=============================================================================
