----------------------------- MODULE FixedPoint -----------------------------
(***************************************************************************)
(* common/fixed_point.hpp: amounts as 64-bit integers.  Ticks and lots are *)
(* small integers, and notionals their exact products: to_notional_units   *)
(* saturates at MaxUnits, and the counters that add notionals up wrap.     *)
(***************************************************************************)
EXTENDS Integers

CONSTANT MaxUnits  \* INT64_MAX

Abs(x) == IF x < 0 THEN -x ELSE x

\* to_notional_units: the product, or the largest value it can hold.
Notional(price, lots) == IF price * lots > MaxUnits THEN MaxUnits ELSE price * lots

\* signed_notional_units, and the sign of a quantity.
Signed(side, x) == IF side = "BUY" THEN x ELSE -x

\* What a 64-bit counter holds after an addition: -MaxUnits - 1 .. MaxUnits.
Wrapped(x) == ((x + MaxUnits + 1) % (2 * (MaxUnits + 1))) - MaxUnits - 1
=============================================================================
