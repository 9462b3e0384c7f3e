-------------------------- MODULE RevenueAllocation ---------------------------
(***************************************************************************)
(* The cents of a booking, spread over its nights                          *)
(* (internal/store/finance_revenue_recognition.go, allocateFinanceGross).  *)
(***************************************************************************)
EXTENDS Integers

(* Division and remainder as Go has them: towards zero, the remainder with *)
(* the sign of the dividend.                                               *)
Quotient(a, n) == IF a >= 0 THEN a \div n ELSE -((-a) \div n)
Remainder(a, n) == IF a >= 0 THEN a % n ELSE -((-a) % n)

(* How many of the nights from .. to - 1 are among the first k.            *)
EarlyNights(k, from, to) ==
  LET end == IF to > k THEN k ELSE to IN IF end > from THEN end - from ELSE 0

(* Variant: every slice gives the odd cents to its own first nights.       *)
AllocatePerSlice(cents, nights, from, to) ==
  LET odd == Remainder(cents, nights)
  IN Quotient(cents, nights) * (to - from)
     + (IF odd < 0 THEN -EarlyNights(-odd, 0, to - from) ELSE EarlyNights(odd, 0, to - from))

(* The share of the nights from .. to - 1: an even part, and the odd cents *)
(* one by one on the earliest nights of the stay.                          *)
AllocateFinanceGross(cents, nights, from, to) ==
  IF nights <= 0 \/ from < 0 \/ to <= from \/ to > nights THEN 0
  ELSE LET odd == Remainder(cents, nights)
       IN Quotient(cents, nights) * (to - from)
          + (IF odd < 0 THEN -EarlyNights(-odd, from, to) ELSE EarlyNights(odd, from, to))
=============================================================================
