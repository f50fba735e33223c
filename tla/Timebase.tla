-------------------------------- MODULE Timebase --------------------------------
(***************************************************************************)
(* Conversion between the client's timestamps, in ticks of num/den         *)
(* seconds, and VideoToolbox's CMTime, a value over a timescale.  A frame  *)
(* goes in with cmTime(ticks) and its packet comes out with the ticks of   *)
(* that time.  The other modules have ticks on both ends; this one shows   *)
(* when that is right.                                                     *)
(*                                                                         *)
(* Products are of 64 bits and saturate.  Division truncates towards zero. *)
(* num and den are at least 1 (the initialiser sees to it), and den fits a *)
(* timescale: Int32(den) would trap otherwise.                             *)
(***************************************************************************)
EXTENDS Integers

CONSTANT
    MaxInt          \* Int64.max

MinInt == -MaxInt - 1
Int64 == MinInt .. MaxInt

\* multipliedReportingOverflow, and what both callers make of an overflow.
Product(a, b) ==
    IF a * b \in Int64 THEN a * b ELSE IF a >= 0 THEN MaxInt ELSE MinInt

\* Int64's division, for a positive divisor.
Quotient(a, b) == IF a >= 0 THEN a \div b ELSE -((-a) \div b)

\* The value of time(fromTicks:), over the timescale den.
Time(ticks, num) == Product(ticks, num)

\* ticks(from:), of a time with that value and timescale.
TicksOf(value, timescale, num, den) ==
    Quotient(Quotient(Product(value, den), timescale), num)

\* A timestamp that goes to VideoToolbox and comes back.
RoundTrip(ticks, num, den) == TicksOf(Time(ticks, num), den, num, den)
===============================================================================
