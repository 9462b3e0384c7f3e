----------------------- MODULE BookingAnalytics_proofs ------------------------
(***************************************************************************)
(* What allocateFinanceGross promises for every amount, stay and night,    *)
(* where the runs try a few: adjacent slices of a stay add up, so that     *)
(* however a stay is cut by months, the months recognize all of it.        *)
(* Then what the pages promise for every set of rows: revenue is           *)
(* recognized to the cent, the pace follows the bookings, and every page   *)
(* and chart counts the same nights and the same money.                    *)
(***************************************************************************)
EXTENDS BookingAnalytics, Sums

(* Go's division of integers splits an amount into an even part and a      *)
(* remainder of the same sign that is smaller than the number of nights.   *)
LEMMA Division ==
  ASSUME NEW a \in Int, NEW n \in Nat, n > 0
  PROVE  /\ Quotient(a, n) \in Int /\ Remainder(a, n) \in Int
         /\ a = n * Quotient(a, n) + Remainder(a, n)
         /\ a >= 0 => Quotient(a, n) >= 0 /\ Remainder(a, n) \in 0 .. n - 1
         /\ a < 0 => Quotient(a, n) <= 0 /\ -Remainder(a, n) \in 0 .. n - 1
<1>1. \A x \in Nat : /\ x \div n \in Int /\ x % n \in Int
                     /\ x = n * (x \div n) + (x % n)
                     /\ x \div n >= 0 /\ x % n \in 0 .. n - 1
  BY SMT
<1>2. CASE a >= 0
  BY <1>1, <1>2 DEF Quotient, Remainder
<1>3. CASE a < 0
  <2>1. -a \in Nat
    BY <1>3
  <2> DEFINE q == (-a) \div n
             r == (-a) % n
  <2>2. q \in Int /\ r \in Int /\ -a = n * q + r /\ q >= 0 /\ r \in 0 .. n - 1
    BY <1>1, <2>1
  <2>3. Quotient(a, n) = -q /\ Remainder(a, n) = -r
    BY <1>3 DEF Quotient, Remainder
  <2> HIDE DEF q, r
  <2>4. a = n * (-q) + (-r)
    BY <2>2
  <2> QED
    BY <1>3, <2>2, <2>3, <2>4
<1> QED
  BY <1>2, <1>3

(* The share of a slice, without the refusals of the function.             *)
Share(cents, nights, from, to) ==
  Quotient(cents, nights) * (to - from)
  + (IF Remainder(cents, nights) < 0 THEN -EarlyNights(-Remainder(cents, nights), from, to)
     ELSE EarlyNights(Remainder(cents, nights), from, to))

LEMMA AllocationIsShare ==
  ASSUME NEW cents \in Int, NEW nights \in Nat, nights > 0,
         NEW from \in Nat, NEW to \in Nat, from <= to, to <= nights
  PROVE  AllocateFinanceGross(cents, nights, from, to) = Share(cents, nights, from, to)
<1> DEFINE q == Quotient(cents, nights)
           r == Remainder(cents, nights)
<1>1. q \in Int /\ r \in Int
  BY Division
<1>2. CASE from < to
  BY <1>2 DEF AllocateFinanceGross, Share
<1>3. CASE from = to
  <2>1. AllocateFinanceGross(cents, nights, from, to) = 0
    BY <1>3 DEF AllocateFinanceGross
  <2>2. \A k \in Int : EarlyNights(k, from, to) = 0
    BY <1>3 DEF EarlyNights
  <2> HIDE DEF q, r
  <2>3. q * (to - from) = 0
    BY <1>1, <1>3
  <2> USE DEF q, r
  <2>4. -r \in Int
    BY <1>1
  <2> QED
    BY <1>1, <2>1, <2>2, <2>3, <2>4 DEF Share
<1> QED
  BY <1>2, <1>3

(* Two months that meet within a stay recognize together what one month    *)
(* with both their nights would: no cent is lost or recognized twice where *)
(* a stay is cut (allocateFinanceGross).                                   *)
THEOREM SlicesAddUp ==
  ASSUME NEW cents \in Int, NEW nights \in Nat, nights > 0,
         NEW a \in Nat, NEW b \in Nat, NEW c \in Nat, a <= b, b <= c, c <= nights
  PROVE  AllocateFinanceGross(cents, nights, a, b) + AllocateFinanceGross(cents, nights, b, c)
           = AllocateFinanceGross(cents, nights, a, c)
<1> DEFINE q == Quotient(cents, nights)
           r == Remainder(cents, nights)
           even(from, to) == q * (to - from)
<1>1. q \in Int /\ r \in Int
  BY Division
<1>2. /\ AllocateFinanceGross(cents, nights, a, b) = Share(cents, nights, a, b)
      /\ AllocateFinanceGross(cents, nights, b, c) = Share(cents, nights, b, c)
      /\ AllocateFinanceGross(cents, nights, a, c) = Share(cents, nights, a, c)
  BY AllocationIsShare
<1>3. /\ even(a, b) \in Int /\ even(b, c) \in Int
      /\ even(a, b) + even(b, c) = even(a, c)
  <2> HIDE DEF q
  <2> QED
    BY <1>1
<1>4. \A k \in Nat : /\ EarlyNights(k, a, b) \in Int /\ EarlyNights(k, b, c) \in Int
                      /\ EarlyNights(k, a, b) + EarlyNights(k, b, c) = EarlyNights(k, a, c)
  BY DEF EarlyNights
<1>5. CASE r < 0
  <2>1. -r \in Nat
    BY <1>1, <1>5
  <2>2. /\ EarlyNights(-r, a, b) \in Int /\ EarlyNights(-r, b, c) \in Int
        /\ EarlyNights(-r, a, b) + EarlyNights(-r, b, c) = EarlyNights(-r, a, c)
    BY <1>4, <2>1
  <2>3. /\ Share(cents, nights, a, b) = even(a, b) + (-EarlyNights(-r, a, b))
        /\ Share(cents, nights, b, c) = even(b, c) + (-EarlyNights(-r, b, c))
        /\ Share(cents, nights, a, c) = even(a, c) + (-EarlyNights(-r, a, c))
    BY <1>5 DEF Share
  <2> HIDE DEF q, r, even
  <2> QED
    BY <1>2, <1>3, <2>2, <2>3
<1>6. CASE r >= 0
  <2>1. /\ EarlyNights(r, a, b) \in Int /\ EarlyNights(r, b, c) \in Int
        /\ EarlyNights(r, a, b) + EarlyNights(r, b, c) = EarlyNights(r, a, c)
    BY <1>1, <1>6, <1>4
  <2>2. ~(r < 0)
    BY <1>1, <1>6
  <2>3. /\ Share(cents, nights, a, b) = even(a, b) + EarlyNights(r, a, b)
        /\ Share(cents, nights, b, c) = even(b, c) + EarlyNights(r, b, c)
        /\ Share(cents, nights, a, c) = even(a, c) + EarlyNights(r, a, c)
    BY <2>2 DEF Share
  <2> HIDE DEF q, r, even
  <2> QED
    BY <1>2, <1>3, <2>1, <2>3
<1> QED
  BY <1>1, <1>5, <1>6

(* All the nights of a stay recognize its whole amount (D05 of             *)
(* spec/PMS_28_Finance_Recognized_Net_Spec.md).                            *)
THEOREM WholeIsConserved ==
  ASSUME NEW cents \in Int, NEW nights \in Nat, nights > 0
  PROVE  AllocateFinanceGross(cents, nights, 0, nights) = cents
<1> DEFINE q == Quotient(cents, nights)
           r == Remainder(cents, nights)
<1>1. /\ q \in Int /\ r \in Int /\ cents = nights * q + r
      /\ r >= 0 => r <= nights
      /\ r < 0 => -r <= nights
  <2>1. /\ q \in Int /\ r \in Int /\ cents = nights * q + r
        /\ cents >= 0 => r \in 0 .. nights - 1
        /\ cents < 0 => -r \in 0 .. nights - 1
    BY Division
  <2> HIDE DEF q, r
  <2> QED
    BY <2>1
<1>2. AllocateFinanceGross(cents, nights, 0, nights) = Share(cents, nights, 0, nights)
  BY AllocationIsShare
<1>3. \A k \in Nat : k <= nights => EarlyNights(k, 0, nights) = k
  BY DEF EarlyNights
<1>4. Share(cents, nights, 0, nights) = q * (nights - 0) + r
  <2>1. CASE r < 0
    <3>1. EarlyNights(-r, 0, nights) = -r
      BY <1>1, <1>3, <2>1
    <3>2. -(-r) = r
      BY <1>1
    <3> QED
      BY <2>1, <3>1, <3>2 DEF Share
  <2>2. CASE r >= 0
    BY <1>1, <1>3, <2>2 DEF Share
  <2> QED
    BY <1>1, <2>1, <2>2
<1> HIDE DEF q, r
<1> QED
  BY <1>1, <1>2, <1>4

(* No month recognizes against the sign of the booking, or more than all   *)
(* of it.                                                                  *)
THEOREM SharesKeepTheSign ==
  ASSUME NEW cents \in Int, NEW nights \in Nat, nights > 0,
         NEW from \in Nat, NEW to \in Nat, from <= to, to <= nights
  PROVE  LET share == AllocateFinanceGross(cents, nights, from, to)
         IN IF cents >= 0 THEN share \in 0 .. cents ELSE share \in cents .. 0
<1> DEFINE part(a, b) == AllocateFinanceGross(cents, nights, a, b)
           q == Quotient(cents, nights)
           r == Remainder(cents, nights)
<1>1. ASSUME NEW a \in Nat, NEW b \in Nat, a <= b, b <= nights
      PROVE  /\ part(a, b) \in Int
             /\ cents >= 0 => part(a, b) >= 0
             /\ cents < 0 => part(a, b) <= 0
  <2>1. part(a, b) = Share(cents, nights, a, b)
    BY <1>1, AllocationIsShare
  <2>2. /\ q \in Int /\ r \in Int
        /\ cents >= 0 => q >= 0 /\ r \in 0 .. nights - 1
        /\ cents < 0 => q <= 0 /\ -r \in 0 .. nights - 1
    BY Division
  <2>3. /\ q * (b - a) \in Int
        /\ q >= 0 => q * (b - a) >= 0
        /\ q <= 0 => q * (b - a) <= 0
    <3> DEFINE d == b - a
    <3>1. d \in Nat /\ q \in Int
      BY <1>1, <2>2
    <3> HIDE DEF d, q
    <3>2. q * d \in Int /\ (q >= 0 => q * d >= 0) /\ (q <= 0 => q * d <= 0)
      BY <3>1
    <3> QED
      BY <3>2 DEF d
  <2>4. \A k \in Nat : EarlyNights(k, a, b) \in Nat
    BY <1>1 DEF EarlyNights
  <2>5. CASE r < 0
    <3>1. -r \in Nat /\ ~(cents >= 0)
      BY <2>2, <2>5
    <3> QED
      BY <2>1, <2>2, <2>3, <2>4, <2>5, <3>1 DEF Share
  <2>6. CASE r >= 0
    <3>1. r \in Nat /\ (cents < 0 => r = 0)
      BY <2>2, <2>6
    <3>2. EarlyNights(0, a, b) = 0
      BY <1>1 DEF EarlyNights
    <3> QED
      BY <2>1, <2>2, <2>3, <2>4, <2>6, <3>1, <3>2 DEF Share
  <2> QED
    BY <2>2, <2>5, <2>6
<1>2. part(0, from) + part(from, to) = part(0, to)
  BY SlicesAddUp
<1>3. part(0, to) + part(to, nights) = part(0, nights)
  BY SlicesAddUp
<1>4. part(0, nights) = cents
  BY WholeIsConserved
<1>5. /\ part(0, from) \in Int /\ part(from, to) \in Int /\ part(to, nights) \in Int
      /\ part(0, to) \in Int
      /\ cents >= 0 => part(0, from) >= 0 /\ part(from, to) >= 0 /\ part(to, nights) >= 0
      /\ cents < 0 => part(0, from) <= 0 /\ part(from, to) <= 0 /\ part(to, nights) <= 0
  BY <1>1
<1> HIDE DEF part
<1>6. IF cents >= 0 THEN part(from, to) \in 0 .. cents ELSE part(from, to) \in cents .. 0
  BY <1>2, <1>3, <1>4, <1>5
<1> QED
  BY <1>6 DEF part

-----------------------------------------------------------------------------
(* Every report shows what its page computes from rows no query changes.   *)
Typed == stay \in [Stays -> Stay] /\ booking \in [Bookings -> Booking]

PaceDays(m) == Min(DaysOf(m)) - Year .. Min(DaysOf(m))

PaceShown ==
  report.page = "pace" =>
    \E m \in Months : report.month = m /\ report.curve = PaceCurve(m, PaceDays(m))

RecognitionShown ==
  report.page = "recognition" =>
    report.result.excluded = {b \in PayoutBacked : ~ValidWindow(b)}

Shown == Typed /\ PaceShown /\ RecognitionShown

LEMMA ShownInit == Init => Shown
BY DEF Init, Shown, Typed, PaceShown, RecognitionShown, NoReport

LEMMA ShownStep == Shown /\ [Next]_vars => Shown'
<1> SUFFICES ASSUME Shown, [Next]_vars PROVE Shown'
  OBVIOUS
<1>1. stay' = stay /\ closure' = closure /\ booking' = booking
  BY DEF Next, GetAnalyticsPerformance, GetAnalyticsDemand, GetAnalyticsOutlook,
         GetAnalyticsPace, GetFinanceRevenueRecognition, portfolio, vars
<1>2. Typed'
  BY <1>1 DEF Shown, Typed
<1>3. \A m \in Months : PaceCurve(m, PaceDays(m))' = PaceCurve(m, PaceDays(m))
  BY <1>1 DEF PaceCurve, PaceDays, Cohort, Arrives, Sellable, Linked, GoneBy, DaysOf, Month
<1>4. {b \in PayoutBacked : ~ValidWindow(b)}' = {b \in PayoutBacked : ~ValidWindow(b)}
  BY <1>1 DEF PayoutBacked, ValidWindow
<1>5. CASE UNCHANGED vars
  <2>1. report' = report
    BY <1>5 DEF vars
  <2> QED
    BY <1>2, <1>3, <1>4, <2>1 DEF Shown, PaceShown, RecognitionShown
<1>6. ASSUME NEW m \in Months, GetAnalyticsPace(m) PROVE Shown'
  <2>1. report'.page = "pace" /\ report'.month = m /\ report'.curve = PaceCurve(m, PaceDays(m))
    BY <1>6 DEF GetAnalyticsPace, PaceDays
  <2> QED
    BY <1>2, <1>3, <2>1 DEF Shown, PaceShown, RecognitionShown
<1>7. ASSUME NEW m \in Months, GetFinanceRevenueRecognition(m) PROVE Shown'
  <2>1. /\ report'.page = "recognition"
        /\ report'.result.excluded = {b \in PayoutBacked : ~ValidWindow(b)}
    BY <1>7 DEF GetFinanceRevenueRecognition, ComputeFinanceRevenueRecognition
  <2> QED
    BY <1>2, <1>4, <2>1 DEF Shown, PaceShown, RecognitionShown
<1>8. ASSUME NEW from \in Days, NEW to \in Days,
             GetAnalyticsPerformance(from, to) \/ GetAnalyticsDemand(from, to)
      PROVE  Shown'
  <2>1. report'.page \in {"performance", "demand"}
    BY <1>8 DEF GetAnalyticsPerformance, GetAnalyticsDemand
  <2> QED
    BY <1>2, <2>1 DEF Shown, PaceShown, RecognitionShown
<1>9. ASSUME NEW today \in Days, GetAnalyticsOutlook(today) PROVE Shown'
  <2>1. report'.page = "outlook"
    BY <1>9 DEF GetAnalyticsOutlook
  <2> QED
    BY <1>2, <2>1 DEF Shown, PaceShown, RecognitionShown
<1>10. QED
  BY <1>5, <1>6, <1>7, <1>8, <1>9 DEF Next

LEMMA ShownAlways == Spec => []Shown
BY ShownInit, ShownStep, PTL DEF Spec

-----------------------------------------------------------------------------
LEMMA MinOfInterval ==
  ASSUME NEW a \in Int, NEW b \in Int, a <= b PROVE Min(a .. b) = a
<1>1. a \in a .. b /\ \A y \in a .. b : a <= y
  OBVIOUS
<1>2. \A x \in a .. b : (\A y \in a .. b : x <= y) => x = a
  BY <1>1
<1>3. QED
  BY <1>1, <1>2 DEF Min

(* A set that gained rows of N and lost rows of L only.                    *)
LEMMA GainAndLoss ==
  ASSUME NEW P, NEW Q, NEW N, NEW L, IsFiniteSet(P), IsFiniteSet(Q), IsFiniteSet(N), IsFiniteSet(L),
         Q \subseteq P \cup N, P \subseteq Q \cup L
  PROVE  Cardinality(Q) - Cardinality(P) \in -Cardinality(L) .. Cardinality(N)
<1>1. \A S, T, R : IsFiniteSet(S) /\ IsFiniteSet(T) /\ R \subseteq S \cup T
        => Cardinality(R) <= Cardinality(S) + Cardinality(T)
  <2> SUFFICES ASSUME NEW S, NEW T, NEW R, IsFiniteSet(S), IsFiniteSet(T), R \subseteq S \cup T
               PROVE  Cardinality(R) <= Cardinality(S) + Cardinality(T)
    OBVIOUS
  <2>1. /\ IsFiniteSet(S \cup T) /\ IsFiniteSet(S \cap T)
        /\ Cardinality(S \cup T) = Cardinality(S) + Cardinality(T) - Cardinality(S \cap T)
    <3>1. S \cap T \in SUBSET S
      OBVIOUS
    <3> QED
      BY <3>1, FS_Union, FS_Subset
  <2>2. IsFiniteSet(R) /\ Cardinality(R) <= Cardinality(S \cup T)
    BY <2>1, FS_Subset
  <2>3. /\ Cardinality(S) \in Nat /\ Cardinality(T) \in Nat /\ Cardinality(S \cap T) \in Nat
        /\ Cardinality(R) \in Nat
    BY <2>1, <2>2, FS_CardinalityType
  <2> QED
    BY <2>1, <2>2, <2>3
<1>2. /\ Cardinality(Q) <= Cardinality(P) + Cardinality(N)
      /\ Cardinality(P) <= Cardinality(Q) + Cardinality(L)
  BY <1>1
<1>3. /\ Cardinality(P) \in Nat /\ Cardinality(Q) \in Nat
      /\ Cardinality(N) \in Nat /\ Cardinality(L) \in Nat
  BY FS_CardinalityType
<1>4. QED
  BY <1>2, <1>3

LEMMA StaysFinite == ASSUME NEW S \in SUBSET Stays PROVE IsFiniteSet(S)
BY FS_Subset, CalendarAssumption

(* What a midnight adds to the bookings of a month, and what it takes.     *)
LEMMA PaceStep ==
  ASSUME Typed, NEW m, NEW c \in Int, NEW since \in Int, since <= c
  PROVE  LET of(d) == {s \in Cohort(DaysOf(m)) : stay[s].known < d /\ ~GoneBy(s, d)}
             new == NewBookingsByDay(since)
             lost == {s \in ListCancellations(DaysOf(m)) : stay[s].gone = c}
         IN Cardinality(of(c + 1)) - Cardinality(of(c))
              \in -Cardinality(lost) .. (IF c \in DOMAIN new THEN new[c] ELSE 0)
<1> DEFINE of(d) == {s \in Cohort(DaysOf(m)) : stay[s].known < d /\ ~GoneBy(s, d)}
           lost == {s \in ListCancellations(DaysOf(m)) : stay[s].gone = c}
           all == {s \in Stays : /\ stay[s].status \in {"active", "cancelled"}
                                 /\ stay[s].confirmed /\ Sellable(s) /\ stay[s].known >= since}
           fresh == {s \in all : stay[s].known = c}
           new == NewBookingsByDay(since)
<1>1. \A s \in Stays : stay[s].known \in Int /\ stay[s].gone \in Int \cup {None}
  BY DEF Typed, Stay
<1>2. None \notin Int
  BY CalendarAssumption
<1>3. of(c + 1) \subseteq of(c) \cup fresh
  BY <1>1, <1>2 DEF Cohort, GoneBy
<1>4. of(c) \subseteq of(c + 1) \cup lost
  BY <1>1, <1>2 DEF Cohort, GoneBy, ListCancellations
<1>5. (IF c \in DOMAIN new THEN new[c] ELSE 0) = Cardinality(fresh)
  <2>1. new = [d \in {stay[s].known : s \in all} |-> Cardinality({s \in all : stay[s].known = d})]
    BY DEF NewBookingsByDay
  <2>2. CASE c \in DOMAIN new
    BY <2>1, <2>2
  <2>3. CASE c \notin DOMAIN new
    <3>1. c \notin {stay[s].known : s \in all}
      BY <2>1, <2>3
    <3>2. fresh = {}
      BY <3>1
    <3> QED
      BY <2>3, <3>2, FS_EmptySet
  <2> QED
    BY <2>2, <2>3
<1>6. IsFiniteSet(of(c)) /\ IsFiniteSet(of(c + 1)) /\ IsFiniteSet(lost) /\ IsFiniteSet(fresh)
  BY StaysFinite DEF Cohort, ListCancellations
<1> HIDE DEF of, lost, fresh, new
<1>7. Cardinality(of(c + 1)) - Cardinality(of(c)) \in -Cardinality(lost) .. Cardinality(fresh)
  BY <1>3, <1>4, <1>6, GainAndLoss
<1>8. QED
  BY <1>5, <1>7 DEF of, lost, new

-----------------------------------------------------------------------------
(* The calendar: month m begins on day m * MonthLength.                    *)
LEMMA TimesMonotone ==
  ASSUME NEW a \in Nat, NEW b \in Nat, NEW n \in Nat, a <= b PROVE a * n <= b * n
<1>1. PICK k \in Nat : b = a + k
  <2>1. b - a \in Nat /\ b = a + (b - a)
    OBVIOUS
  <2> QED
    BY <2>1
<1>2. (a + k) * n = a * n + k * n /\ k * n \in Nat /\ a * n \in Nat
  OBVIOUS
<1>3. QED
  BY <1>1, <1>2

LEMMA MonthBounds ==
  ASSUME NEW d \in Nat, NEW m \in Nat
  PROVE  /\ Month(d) \in Nat /\ m * MonthLength \in Nat
         /\ Month(d) = m <=> m * MonthLength <= d /\ d < (m + 1) * MonthLength
<1> DEFINE L == MonthLength
           q == Month(d)
<1>1. L \in Nat /\ L > 0
  BY CalendarAssumption
<1>2. q \in Nat /\ q * L <= d /\ d < (q + 1) * L
  <2>1. \A n \in Nat \ {0} : /\ d \div n \in Nat /\ d % n \in 0 .. n - 1
                             /\ d = (d \div n) * n + (d % n)
    BY SMT
  <2>2. PICK r \in 0 .. L - 1 : q \in Nat /\ d = q * L + r
    BY <1>1, <2>1 DEF Month
  <2> HIDE DEF q, L
  <2>3. (q + 1) * L = q * L + L /\ q * L \in Nat
    BY <1>1, <2>2
  <2> QED
    BY <1>1, <2>2, <2>3
<1> HIDE DEF q, L
<1>3. m * L \in Nat /\ (m + 1) * L \in Nat /\ q * L \in Nat /\ (q + 1) * L \in Nat
  BY <1>1, <1>2
<1>4. ASSUME m * L <= d, d < (m + 1) * L PROVE q = m
  <2>1. CASE q + 1 <= m
    <3>1. (q + 1) * L <= m * L
      BY <1>1, <1>2, <2>1, TimesMonotone
    <3> QED
      BY <1>2, <1>3, <1>4, <3>1
  <2>2. CASE m + 1 <= q
    <3>1. (m + 1) * L <= q * L
      BY <1>1, <1>2, <2>2, TimesMonotone
    <3> QED
      BY <1>2, <1>3, <1>4, <3>1
  <2> QED
    BY <1>2, <2>1, <2>2
<1>5. QED
  BY <1>2, <1>3, <1>4 DEF q, L

(* The day month m begins, or would if the days did not end before.        *)
Begin(m) == IF m * MonthLength < LastDay THEN m * MonthLength ELSE LastDay

LEMMA MonthsAre ==
  ASSUME LastDay > 0
  PROVE  /\ Month(LastDay - 1) \in Nat /\ Months = 0 .. Month(LastDay - 1)
         /\ Begin(0) = 0 /\ Begin(Month(LastDay - 1) + 1) = LastDay
         /\ \A m \in Months : /\ m \in Nat /\ Begin(m) \in Nat /\ Begin(m + 1) \in Nat
                              /\ Begin(m) < Begin(m + 1) /\ Begin(m + 1) <= LastDay
                              /\ Begin(m) = m * MonthLength
                              /\ DaysOf(m) = Begin(m) .. Begin(m + 1) - 1
<1> DEFINE L == MonthLength
           top == Month(LastDay - 1)
<1>1. L \in Nat /\ L > 0 /\ LastDay \in Nat /\ LastDay - 1 \in Nat
  BY CalendarAssumption
<1>2. \A m \in Nat : /\ m * L \in Nat /\ (m + 1) * L \in Nat /\ (m + 1) * L = m * L + L
                     /\ m * L < (m + 1) * L
  BY <1>1
<1>3. \A d, m \in Nat : /\ Month(d) \in Nat
                        /\ Month(d) = m <=> m * L <= d /\ d < (m + 1) * L
  BY MonthBounds
<1>4. top \in Nat /\ top * L <= LastDay - 1 /\ LastDay - 1 < (top + 1) * L
  BY <1>1, <1>3
<1>5. ASSUME NEW d \in 0 .. LastDay - 1 PROVE Month(d) \in 0 .. top
  <2>1. d \in Nat /\ Month(d) \in Nat /\ Month(d) * L <= d
    BY <1>3, <1>5
  <2>2. ~(top + 1 <= Month(d))
    <3> SUFFICES ASSUME top + 1 <= Month(d) PROVE FALSE
      OBVIOUS
    <3>1. (top + 1) * L <= Month(d) * L
      BY <1>1, <1>4, <2>1, TimesMonotone
    <3>2. (top + 1) * L \in Nat /\ Month(d) * L \in Nat
      BY <1>1, <1>4, <2>1
    <3> HIDE DEF top, L
    <3> QED
      BY <1>1, <1>4, <1>5, <2>1, <3>1, <3>2
  <2> HIDE DEF top
  <2> QED
    BY <1>4, <2>1, <2>2
<1>6. ASSUME NEW m \in 0 .. top
      PROVE  m \in Nat /\ m * L \in 0 .. LastDay - 1 /\ Month(m * L) = m
  <2> HIDE DEF top
  <2>1. m \in Nat /\ m <= top
    BY <1>4
  <2>2. m * L <= top * L /\ m * L \in Nat /\ top * L \in Nat
    BY <1>1, <1>2, <1>4, <2>1, TimesMonotone
  <2>3. m * L \in 0 .. LastDay - 1
    <3> HIDE DEF L
    <3> QED
      BY <1>1, <1>4, <2>2
  <2>4. Month(m * L) = m
    <3>1. m * L <= m * L /\ m * L < (m + 1) * L
      BY <1>2, <2>1, <2>2
    <3> QED
      BY <1>3, <2>1, <2>2, <3>1
  <2> QED
    BY <2>1, <2>3, <2>4
<1>7. Months = 0 .. top
  <2> HIDE DEF top, L
  <2> QED
    BY <1>5, <1>6 DEF Months
<1>8. Begin(0) = 0 /\ Begin(top + 1) = LastDay
  <2>1. 0 * L = 0 /\ ~((top + 1) * L < LastDay)
    <3>1. (top + 1) * L \in Nat
      BY <1>2, <1>4
    <3> HIDE DEF top
    <3>2. 0 * L = 0
      BY <1>1
    <3> HIDE DEF L
    <3> QED
      BY <1>1, <1>4, <3>1, <3>2
  <2> QED
    BY <1>1, <2>1 DEF Begin
<1>9. ASSUME NEW m \in Months
      PROVE  /\ m \in Nat /\ Begin(m) \in Nat /\ Begin(m + 1) \in Nat
             /\ Begin(m) < Begin(m + 1) /\ Begin(m + 1) <= LastDay
             /\ Begin(m) = m * L
             /\ DaysOf(m) = Begin(m) .. Begin(m + 1) - 1
  <2>1. m \in Nat /\ m * L \in 0 .. LastDay - 1
    BY <1>6, <1>7
  <2>2. m * L \in Nat /\ (m + 1) * L \in Nat /\ m * L < (m + 1) * L
    BY <1>2, <2>1
  <2>3. Begin(m) = m * L /\ Begin(m + 1) = IF (m + 1) * L < LastDay THEN (m + 1) * L ELSE LastDay
    BY <1>1, <2>1 DEF Begin
  <2>4. DaysOf(m) = {d \in 0 .. LastDay - 1 : m * L <= d /\ d < (m + 1) * L}
    BY <1>3, <2>1 DEF DaysOf
  <2> DEFINE a == m * L
             b == (m + 1) * L
  <2> HIDE DEF a, b
  <2>5. {d \in 0 .. LastDay - 1 : a <= d /\ d < b}
          = a .. (IF b < LastDay THEN b ELSE LastDay) - 1
    BY <1>1, <2>1, <2>2 DEF a, b
  <2> QED
    BY <1>1, <2>1, <2>2, <2>3, <2>4, <2>5 DEF a, b
<1>10. QED
  BY <1>4, <1>7, <1>8, <1>9

LEMMA NoMonthWithoutDays == ASSUME NEW m \in Months PROVE LastDay \in Nat /\ LastDay > 0
BY CalendarAssumption DEF Months

(* From one midnight to the next the pace rises by bookings that became    *)
(* known on that day and falls by cancellations of that day                *)
(* (ComputePaceCurve), whatever the stays and the length of the year.      *)
THEOREM PaceCorrect == Spec => []PaceFollowsBookings
<1>1. Shown => PaceFollowsBookings
  <2> SUFFICES ASSUME Shown, report.page = "pace",
                      NEW c \in DOMAIN report.curve, c + 1 \in DOMAIN report.curve
               PROVE  LET new == NewBookingsByDay(Min(DOMAIN report.curve))
                          lost == {s \in ListCancellations(DaysOf(report.month)) : stay[s].gone = c}
                      IN report.curve[c + 1] - report.curve[c]
                           \in -Cardinality(lost) .. (IF c \in DOMAIN new THEN new[c] ELSE 0)
    BY DEF PaceFollowsBookings
  <2>1. PICK m \in Months : report.month = m /\ report.curve = PaceCurve(m, PaceDays(m))
    BY DEF Shown, PaceShown
  <2>2. PICK first \in Nat : Min(DaysOf(m)) = first
    BY NoMonthWithoutDays, MonthsAre, MinOfInterval
  <2>3. /\ DOMAIN report.curve = first - Year .. first
        /\ \A d \in first - Year .. first :
             report.curve[d] = Cardinality({s \in Cohort(DaysOf(m)) : stay[s].known < d /\ ~GoneBy(s, d)})
    BY <2>1, <2>2 DEF PaceCurve, PaceDays
  <2>4. /\ first - Year \in Int /\ first - Year <= first
        /\ c \in Int /\ c \in first - Year .. first /\ c + 1 \in first - Year .. first
    BY <2>2, <2>3, YearAssumption
  <2>5. Min(DOMAIN report.curve) = first - Year
    BY <2>2, <2>3, <2>4, MinOfInterval
  <2>6. LET of(d) == {s \in Cohort(DaysOf(m)) : stay[s].known < d /\ ~GoneBy(s, d)}
            new == NewBookingsByDay(first - Year)
            lost == {s \in ListCancellations(DaysOf(m)) : stay[s].gone = c}
        IN Cardinality(of(c + 1)) - Cardinality(of(c))
             \in -Cardinality(lost) .. (IF c \in DOMAIN new THEN new[c] ELSE 0)
    <3>1. Typed /\ first - Year <= c
      BY <2>2, <2>4, YearAssumption DEF Shown
    <3> QED
      BY <2>4, <3>1, PaceStep
  <2>7. /\ report.curve[c + 1] = Cardinality({s \in Cohort(DaysOf(m)) : stay[s].known < c + 1 /\ ~GoneBy(s, c + 1)})
        /\ report.curve[c] = Cardinality({s \in Cohort(DaysOf(m)) : stay[s].known < c /\ ~GoneBy(s, c)})
    BY <2>3, <2>4
  <2>8. QED
    BY <2>1, <2>5, <2>6, <2>7
<1>2. QED
  BY <1>1, ShownAlways, PTL

-----------------------------------------------------------------------------
LEMMA MaxOfInterval ==
  ASSUME NEW a \in Int, NEW b \in Int, a <= b PROVE Max(a .. b) = b
<1>1. b \in a .. b /\ \A y \in a .. b : b >= y
  OBVIOUS
<1>2. \A x \in a .. b : (\A y \in a .. b : x >= y) => x = b
  BY <1>1
<1>3. QED
  BY <1>1, <1>2 DEF Max

LEMMA LargerOfTwo ==
  ASSUME NEW a \in Int, NEW b \in Int PROVE Max({a, b}) = IF a < b THEN b ELSE a
<1> DEFINE x == IF a < b THEN b ELSE a
<1>1. x \in {a, b} /\ \A y \in {a, b} : x >= y
  OBVIOUS
<1>2. \A z \in {a, b} : (\A y \in {a, b} : z >= y) => z = x
  OBVIOUS
<1> HIDE DEF x
<1>3. Max({a, b}) = x
  BY <1>1, <1>2 DEF Max
<1>4. QED
  BY <1>3 DEF x

LEMMA SmallerOfTwo ==
  ASSUME NEW a \in Int, NEW b \in Int PROVE Min({a, b}) = IF a < b THEN a ELSE b
<1> DEFINE x == IF a < b THEN a ELSE b
<1>1. x \in {a, b} /\ \A y \in {a, b} : x <= y
  OBVIOUS
<1>2. \A z \in {a, b} : (\A y \in {a, b} : z <= y) => z = x
  OBVIOUS
<1> HIDE DEF x
<1>3. Min({a, b}) = x
  BY <1>1, <1>2 DEF Min
<1>4. QED
  BY <1>3 DEF x

(* The day d, brought into the stay from in to out.                        *)
Within(in, out, d) == IF d < in THEN in ELSE IF d > out THEN out ELSE d

(* A month takes the slice of a stay between its first day and that of the *)
(* next month.                                                             *)
LEMMA MonthTakesSlice ==
  ASSUME Typed, NEW b \in Bookings, ValidWindow(b), ~WithoutNights(b),
         NEW cents \in Int, NEW m \in Months
  PROVE  LET in == booking[b].in
             out == booking[b].out
         IN Recognized(b, cents, m)
              = AllocateFinanceGross(cents, out - in, Within(in, out, Begin(m)) - in,
                                     Within(in, out, Begin(m + 1)) - in)
<1> DEFINE in == booking[b].in
           out == booking[b].out
           first == Begin(m)
           next == Begin(m + 1)
           from == Max({in, Min(DaysOf(m))})
           to == Min({out, Max(DaysOf(m)) + 1})
<1>1. in \in Int /\ out \in Int /\ in < out
  BY CalendarAssumption DEF Typed, Booking, ValidWindow, Days
<1>2. first \in Nat /\ next \in Nat /\ first < next /\ DaysOf(m) = first .. next - 1
  BY NoMonthWithoutDays, MonthsAre
<1>3. Recognized(b, cents, m)
        = IF from < to THEN AllocateFinanceGross(cents, out - in, from - in, to - in) ELSE 0
  BY DEF Recognized
<1>4. Min(DaysOf(m)) = first /\ Max(DaysOf(m)) + 1 = next
  <2> HIDE DEF first, next
  <2>1. first \in Int /\ next - 1 \in Int /\ first <= next - 1
    BY <1>2
  <2>2. Min(DaysOf(m)) = first /\ Max(DaysOf(m)) = next - 1
    BY <1>2, <2>1, MinOfInterval, MaxOfInterval
  <2> QED
    BY <1>2, <2>2
<1>5. from = (IF in < first THEN first ELSE in) /\ to = (IF out < next THEN out ELSE next)
  <2>1. first \in Int /\ next \in Int
    BY <1>2
  <2> HIDE DEF in, out, first, next
  <2> QED
    BY <1>1, <1>4, <2>1, LargerOfTwo, SmallerOfTwo
<1> HIDE DEF in, out, first, next, from, to
<1>6. CASE from < to
  <2>1. from = Within(in, out, first) /\ to = Within(in, out, next)
    BY <1>1, <1>2, <1>5, <1>6 DEF Within
  <2> QED
    BY <1>3, <1>6, <2>1 DEF in, out, first, next
<1>7. CASE ~(from < to)
  <2>1. /\ Within(in, out, first) = Within(in, out, next)
        /\ Within(in, out, first) - in \in Int
    BY <1>1, <1>2, <1>5, <1>7 DEF Within
  <2>2. AllocateFinanceGross(cents, out - in, Within(in, out, first) - in, Within(in, out, next) - in) = 0
    BY <2>1 DEF AllocateFinanceGross
  <2> QED
    BY <1>3, <1>7, <2>2 DEF in, out, first, next
<1>8. QED
  BY <1>6, <1>7

(* The slices of the months lie one after the other, from the first night  *)
(* to the last.                                                            *)
LEMMA SlicesFollow ==
  ASSUME Typed, NEW b \in Bookings, ValidWindow(b), NEW m \in Months
  PROVE  LET in == booking[b].in
             out == booking[b].out
             at(d) == Within(in, out, Begin(d)) - in
         IN /\ out - in \in Nat /\ out - in > 0
            /\ at(m) \in Nat /\ at(m + 1) \in Nat
            /\ at(m) <= at(m + 1) /\ at(m + 1) <= out - in
            /\ at(0) = 0 /\ at(Month(LastDay - 1) + 1) = out - in
<1> DEFINE in == booking[b].in
           out == booking[b].out
<1>1. in \in Nat /\ out \in Nat /\ in < out /\ out <= LastDay
  BY CalendarAssumption DEF Typed, Booking, ValidWindow, Days
<1>2. /\ Begin(m) \in Nat /\ Begin(m + 1) \in Nat /\ Begin(m) < Begin(m + 1)
      /\ Begin(0) = 0 /\ Begin(Month(LastDay - 1) + 1) = LastDay
  BY NoMonthWithoutDays, MonthsAre
<1> HIDE DEF in, out
<1>3. LastDay \in Nat
  BY CalendarAssumption
<1>4. /\ out - in \in Nat /\ out - in > 0
      /\ Within(in, out, Begin(m)) - in \in Nat /\ Within(in, out, Begin(m + 1)) - in \in Nat
      /\ Within(in, out, Begin(m)) - in <= Within(in, out, Begin(m + 1)) - in
      /\ Within(in, out, Begin(m + 1)) - in <= out - in
  BY <1>1, <1>2 DEF Within
<1>5. Within(in, out, 0) - in = 0 /\ Within(in, out, LastDay) - in = out - in
  BY <1>1, <1>3 DEF Within
<1>6. QED
  BY <1>2, <1>4, <1>5 DEF in, out

LEMMA RecognizedByNights ==
  ASSUME Typed, NEW b \in Bookings, ValidWindow(b), ~WithoutNights(b), NEW cents \in Int,
         LastDay > 0
  PROVE  Total(LAMBDA m : Recognized(b, cents, m), Months) = cents
<1> DEFINE in == booking[b].in
           out == booking[b].out
           nights == out - in
           top == Month(LastDay - 1)
           at(m) == Within(in, out, Begin(m)) - in
           A == [m \in 0 .. top + 1 |-> AllocateFinanceGross(cents, nights, 0, at(m))]
           w == [m \in Months |-> Recognized(b, cents, m)]
<1>1. top \in Nat /\ Months = 0 .. top
  BY MonthsAre
<1>2. \A m \in 0 .. top : /\ nights \in Nat /\ nights > 0
                          /\ at(m) \in Nat /\ at(m + 1) \in Nat
                          /\ at(m) <= at(m + 1) /\ at(m + 1) <= nights
                          /\ at(0) = 0 /\ at(top + 1) = nights
  BY <1>1, SlicesFollow
<1>3. \A m \in 0 .. top : Recognized(b, cents, m) = AllocateFinanceGross(cents, nights, at(m), at(m + 1))
  BY <1>1, MonthTakesSlice
<1> HIDE DEF nights, at, top
<1>4. nights \in Nat /\ nights > 0 /\ at(0) = 0 /\ at(top + 1) = nights
  <2>1. 0 \in 0 .. top
    BY <1>1
  <2> QED
    BY <1>2, <2>1
<1>5. \A m \in 0 .. top + 1 : at(m) \in Nat /\ at(m) <= nights
  <2>1. \A m \in 0 .. top + 1 : m \in 0 .. top \/ m = top + 1
    BY <1>1
  <2>2. \A m \in 0 .. top : at(m) \in Nat /\ at(m) <= nights
    BY <1>2
  <2>3. at(top + 1) \in Nat /\ at(top + 1) <= nights
    BY <1>4
  <2> QED
    BY <2>1, <2>2, <2>3
<1>6. \A k \in Nat : k <= nights => AllocateFinanceGross(cents, nights, 0, k) \in Int
  <2> SUFFICES ASSUME NEW k \in Nat, k <= nights
               PROVE  AllocateFinanceGross(cents, nights, 0, k) \in Int
    OBVIOUS
  <2>1. IF cents >= 0 THEN AllocateFinanceGross(cents, nights, 0, k) \in 0 .. cents
        ELSE AllocateFinanceGross(cents, nights, 0, k) \in cents .. 0
    <3>1. 0 \in Nat /\ 0 <= k
      OBVIOUS
    <3> QED
      BY <1>4, <3>1, SharesKeepTheSign
  <2> QED
    BY <2>1
<1>7. A \in [0 .. top + 1 -> Int]
  BY <1>5, <1>6
<1>8. \A m \in 0 .. top : w[m] = A[m + 1] - A[m]
  <2> SUFFICES ASSUME NEW m \in 0 .. top PROVE w[m] = A[m + 1] - A[m]
    OBVIOUS
  <2>1. /\ at(m) \in Nat /\ at(m + 1) \in Nat /\ at(m) <= at(m + 1) /\ at(m + 1) <= nights
        /\ at(m) <= nights
    BY <1>2, <1>4
  <2>2. AllocateFinanceGross(cents, nights, 0, at(m))
          + AllocateFinanceGross(cents, nights, at(m), at(m + 1))
        = AllocateFinanceGross(cents, nights, 0, at(m + 1))
    BY <1>4, <2>1, SlicesAddUp
  <2>3. m \in 0 .. top + 1 /\ m + 1 \in 0 .. top + 1
    BY <1>1
  <2>4. /\ A[m + 1] = AllocateFinanceGross(cents, nights, 0, at(m + 1))
        /\ A[m] = AllocateFinanceGross(cents, nights, 0, at(m))
    BY <2>3
  <2>5. w[m] = AllocateFinanceGross(cents, nights, at(m), at(m + 1))
    BY <1>1, <1>3
  <2>6. A[m] + w[m] = A[m + 1]
    BY <2>2, <2>4, <2>5
  <2>7. w[m] \in Int /\ A[m] \in Int
    <3>1. IF cents >= 0 THEN AllocateFinanceGross(cents, nights, at(m), at(m + 1)) \in 0 .. cents
          ELSE AllocateFinanceGross(cents, nights, at(m), at(m + 1)) \in cents .. 0
      BY <1>4, <2>1, SharesKeepTheSign
    <3>2. AllocateFinanceGross(cents, nights, at(m), at(m + 1)) \in Int
      BY <3>1
    <3> QED
      BY <2>5, <3>2, <2>3, <1>7
  <2> HIDE DEF A, w
  <2> QED
    BY <2>6, <2>7
<1>9. A[0] = 0 /\ A[top + 1] = cents
  <2>1. 0 \in 0 .. top + 1 /\ top + 1 \in 0 .. top + 1
    BY <1>1
  <2>2. AllocateFinanceGross(cents, nights, 0, 0) = 0
    BY DEF AllocateFinanceGross
  <2> QED
    BY <1>4, <2>1, <2>2, WholeIsConserved
<1>10. Total(LAMBDA m : Recognized(b, cents, m), Months) = SumFunctionOnSet(w, 0 .. top)
  BY <1>1 DEF Total, SumFunction
<1> HIDE DEF A, w
<1>11. SumFunctionOnSet(w, 0 .. top) = A[top + 1] - A[0]
  BY <1>1, <1>7, <1>8, SumTelescopes
<1>12. QED
  BY <1>9, <1>10, <1>11

LEMMA RecognizedAtOnce ==
  ASSUME Typed, NEW b \in Bookings, ValidWindow(b), WithoutNights(b), NEW cents \in Int,
         LastDay > 0
  PROVE  Total(LAMBDA m : Recognized(b, cents, m), Months) = cents
<1> DEFINE in == booking[b].in
           w == [m \in Months |-> Recognized(b, cents, m)]
<1>1. in \in 0 .. LastDay - 1
  BY CalendarAssumption DEF Typed, Booking, ValidWindow, Days
<1>2. Month(in) \in Months
  BY <1>1 DEF Months
<1>3. \A m \in Months : w[m] = IF Month(in) = m THEN cents ELSE 0
  BY DEF Recognized
<1>4. IsFiniteSet(Months)
  BY MonthsAre, FS_Interval
<1>5. Total(LAMBDA m : Recognized(b, cents, m), Months) = SumFunctionOnSet(w, Months)
  BY DEF Total, SumFunction
<1> HIDE DEF w, in
<1>6. w[Month(in)] = cents /\ \A m \in Months \ {Month(in)} : w[m] = 0
  BY <1>2, <1>3
<1>7. SumFunctionOnSet(w, Months) = w[Month(in)]
  BY <1>2, <1>4, <1>6, SumOnlyOne
<1>8. QED
  BY <1>5, <1>6, <1>7

(* "Gross and net each conserve their own booking total across months"     *)
(* (spec/PMS_28, D05), for every calendar, every set of bookings and every *)
(* amount; no month recognizes against the sign of the booking.            *)
THEOREM RecognizedCorrect == Spec => []RecognizedExactly
<1>1. Shown => RecognizedExactly
  <2> SUFFICES ASSUME Shown, report.page = "recognition",
                      NEW b \in PayoutBacked \ report.result.excluded,
                      NEW cents \in {booking[b].gross, booking[b].net}
               PROVE  /\ Total(LAMBDA m : Recognized(b, cents, m), Months) = cents
                      /\ \A m \in Months : IF cents >= 0 THEN Recognized(b, cents, m) \in 0 .. cents
                                           ELSE Recognized(b, cents, m) \in cents .. 0
    BY DEF RecognizedExactly
  <2>1. Typed /\ b \in Bookings /\ ValidWindow(b) /\ cents \in Int
    BY DEF Shown, RecognitionShown, PayoutBacked, Typed, Booking
  <2>2. LastDay > 0
    BY <2>1, CalendarAssumption DEF Typed, Booking, ValidWindow, Days
  <2>3. Total(LAMBDA m : Recognized(b, cents, m), Months) = cents
    BY <2>1, <2>2, RecognizedByNights, RecognizedAtOnce
  <2>4. ASSUME NEW m \in Months
        PROVE  IF cents >= 0 THEN Recognized(b, cents, m) \in 0 .. cents
               ELSE Recognized(b, cents, m) \in cents .. 0
    <3>1. CASE WithoutNights(b)
      BY <2>1, <3>1 DEF Recognized
    <3>2. CASE ~WithoutNights(b)
      <4> DEFINE nights == booking[b].out - booking[b].in
                 at(d) == Within(booking[b].in, booking[b].out, Begin(d)) - booking[b].in
      <4>1. Recognized(b, cents, m) = AllocateFinanceGross(cents, nights, at(m), at(m + 1))
        BY <2>1, <3>2, MonthTakesSlice
      <4>2. /\ nights \in Nat /\ nights > 0 /\ at(m) \in Nat /\ at(m + 1) \in Nat
            /\ at(m) <= at(m + 1) /\ at(m + 1) <= nights
        BY <2>1, SlicesFollow
      <4> HIDE DEF nights, at
      <4>3. LET part == AllocateFinanceGross(cents, nights, at(m), at(m + 1))
            IN IF cents >= 0 THEN part \in 0 .. cents ELSE part \in cents .. 0
        BY <2>1, <4>2, SharesKeepTheSign
      <4> QED
        BY <4>1, <4>3
    <3> QED
      BY <3>1, <3>2
  <2> QED
    BY <2>3, <2>4
<1>2. QED
  BY <1>1, ShownAlways, PTL

-----------------------------------------------------------------------------
(* Nights.  Whatever a query filters and groups by, a night is sold,       *)
(* blocked or neither, and a stay that counts owns its nights alone.       *)
Rows ==
  /\ stay \in [Stays -> Stay] /\ closure \in [Closures -> {None} \cup Closure]
  /\ SoldOnce

SoldOn(d) == \E s \in Stays : CountsAsSold(s) /\ d \in Night(s)

BlockedOn(d) ==
  \/ \E s \in Stays : stay[s].status = "active" /\ Blocking(s) /\ d \in Night(s)
  \/ \E c \in Closures : closure[c] # None /\ d \in Blocked(c)

LEMMA StayDates ==
  ASSUME Rows, NEW s \in Stays
  PROVE  /\ stay[s].in \in Nat /\ stay[s].out \in Nat
         /\ stay[s].in < stay[s].out /\ stay[s].out <= LastDay /\ LastDay \in Nat
         /\ \A d \in Night(s) : d \in AllDays /\ stay[s].in <= d /\ d < stay[s].out
<1>1. stay[s].in \in Days /\ stay[s].out \in Days /\ stay[s].in < stay[s].out
  BY DEF Rows, Stay, SoldOnce
<1>2. QED
  BY <1>1, CalendarAssumption DEF Days, Night, AllDays

(* Nothing that is sold is blocked as well.                                *)
LEMMA SoldIsFree == ASSUME Rows, NEW d, SoldOn(d) PROVE ~BlockedOn(d)
<1>1. PICK s \in Stays : CountsAsSold(s) /\ d \in Night(s)
  BY DEF SoldOn
<1>2. ASSUME NEW t \in Stays, Blocking(t), d \in Night(t) PROVE FALSE
  <2>1. CASE t = s
    BY <1>1, <1>2, <2>1 DEF CountsAsSold, Sellable, Blocking
  <2>2. CASE t # s
    BY <1>1, <1>2, <2>2 DEF Rows, SoldOnce
  <2>3. QED
    BY <2>1, <2>2
<1>3. ASSUME NEW c \in Closures, closure[c] # None, d \in Blocked(c) PROVE FALSE
  BY <1>1, <1>3 DEF Rows, SoldOnce
<1>4. QED
  BY <1>2, <1>3 DEF BlockedOn

LEMMA NightsByDay ==
  ASSUME NEW W
  PROVE  /\ CalendarNights(W) = {d \in W : SoldOn(d)}
         /\ UNION {Night(s) \cap W : s \in {t \in Stays : CountsAsSold(t)}} = {d \in W : SoldOn(d)}
         /\ UNION {NightsIn(s, W) : s \in ActiveStays(W)} = {d \in W : SoldOn(d)}
         /\ OpenDays(W) = {d \in W : ~BlockedOn(d)}
         /\ \A d \in W : d \in UNION Blockers(W) <=> BlockedOn(d)
<1>1. CalendarNights(W) = {d \in W : SoldOn(d)}
  BY DEF CalendarNights, SoldOn, CountsAsSold
<1>2. UNION {Night(s) \cap W : s \in {t \in Stays : CountsAsSold(t)}} = {d \in W : SoldOn(d)}
  BY DEF SoldOn
<1>3. UNION {NightsIn(s, W) : s \in ActiveStays(W)} = {d \in W : SoldOn(d)}
  <2>1. \A s : s \in ActiveStays(W) <=> s \in Stays /\ CountsAsSold(s) /\ \E d \in W : d \in Night(s)
    BY DEF ActiveStays, CountsAsSold
  <2>2. QED
    BY <2>1 DEF SoldOn, NightsIn
<1>4. \A d \in W : d \in UNION Blockers(W) <=> BlockedOn(d)
  <2>1. \A T : T \in Blockers(W) <=>
          \/ \E s \in Stays : stay[s].status = "active" /\ Blocking(s) /\ T = Night(s) \cap W
          \/ \E c \in Closures : closure[c] # None /\ T = Blocked(c) \cap W
    BY Zenon DEF Blockers
  <2>2. ASSUME NEW d \in W, BlockedOn(d) PROVE d \in UNION Blockers(W)
    <3>1. \A s : d \in Night(s) => d \in Night(s) \cap W
      OBVIOUS
    <3>2. \A c : d \in Blocked(c) => d \in Blocked(c) \cap W
      OBVIOUS
    <3>3. QED
      BY <2>1, <2>2, <3>1, <3>2, Zenon DEF BlockedOn
  <2>3. ASSUME NEW d \in W, d \in UNION Blockers(W) PROVE BlockedOn(d)
    <3>1. PICK T \in Blockers(W) : d \in T
      BY <2>3
    <3>2. QED
      BY <2>1, <3>1 DEF BlockedOn
  <2>4. QED
    BY <2>2, <2>3
<1>5. OpenDays(W) = {d \in W : ~BlockedOn(d)}
  BY <1>4 DEF OpenDays
<1>6. QED
  BY <1>1, <1>2, <1>3, <1>4, <1>5

(* The nights of the stays that count, restricted to a cell X of a chart.  *)
LEMMA SoldAddsUp ==
  ASSUME Rows, NEW W, IsFiniteSet(W), NEW X, NEW w,
         \A s \in ActiveStays(W) : w[s] = Cardinality(NightsIn(s, W) \cap X)
  PROVE  SumFunctionOnSet(w, ActiveStays(W)) = Cardinality({d \in W : SoldOn(d)} \cap X)
<1> DEFINE S == ActiveStays(W)
           A == [s \in S |-> NightsIn(s, W) \cap X]
           U == {d \in W : SoldOn(d)} \cap X
<1>1. S \subseteq Stays /\ IsFiniteSet(S)
  <2>1. S \in SUBSET Stays
    BY DEF ActiveStays
  <2>2. QED
    BY <2>1, StaysFinite
<1>2. \A s \in S : IsFiniteSet(A[s]) /\ w[s] = Cardinality(A[s])
  <2>1. \A s : NightsIn(s, W) \cap X \in SUBSET W
    BY DEF NightsIn
  <2>2. QED
    BY <2>1, FS_Subset
<1>3. \A s, t \in S : s # t => A[s] \cap A[t] = {}
  BY <1>1 DEF Rows, SoldOnce, NightsIn
<1>4. \A d : d \in U <=> \E s \in S : d \in A[s]
  BY NightsByDay DEF NightsIn
<1>5. FallsInto(U, S, A, w)
  BY <1>2, <1>3, <1>4 DEF FallsInto
<1> HIDE DEF S, A, U
<1>6. SumFunctionOnSet(w, S) = Cardinality(U)
  BY <1>1, <1>5, SumOfSizes
<1>7. QED
  BY <1>6 DEF S, U

(* A chart of the nights of W by cell: c gives the cell of a day.          *)
ChartOf(chart, W, K, c) ==
  /\ \A d \in OpenDays(W) : c[d] \in K
  /\ DOMAIN chart = K
  /\ \A k \in K : /\ chart[k].sold = Cardinality({d \in CalendarNights(W) : c[d] = k})
                  /\ chart[k].available = Cardinality({d \in OpenDays(W) : c[d] = k})

LEMMA DaysFinite ==
  ASSUME Rows, NEW W, IsFiniteSet(W)
  PROVE  /\ IsFiniteSet(CalendarNights(W)) /\ IsFiniteSet(OpenDays(W))
         /\ CalendarNights(W) \subseteq OpenDays(W)
<1>1. OpenDays(W) \in SUBSET W /\ CalendarNights(W) \in SUBSET OpenDays(W)
  BY NightsByDay, SoldIsFree
<1>2. QED
  BY <1>1, FS_Subset

(* The cells of a chart add up to the nights of its window, and none is    *)
(* fuller than full.                                                       *)
LEMMA ChartAddsUp ==
  ASSUME Rows, NEW W, IsFiniteSet(W), NEW K, IsFiniteSet(K), NEW c, NEW chart,
         ChartOf(chart, W, K, c)
  PROVE  /\ Sum(chart, "sold") = Cardinality(CalendarNights(W))
         /\ Sum(chart, "available") = Cardinality(OpenDays(W))
         /\ \A k \in DOMAIN chart : chart[k].sold <= chart[k].available
<1> DEFINE sold == [k \in K |-> chart[k].sold]
           open == [k \in K |-> chart[k].available]
<1>1. /\ Sum(chart, "sold") = SumFunctionOnSet(sold, K)
      /\ Sum(chart, "available") = SumFunctionOnSet(open, K)
  BY DEF Sum, Total, SumFunction, ChartOf
<1>2. /\ SortedInto(CalendarNights(W), K, c, sold)
      /\ SortedInto(OpenDays(W), K, c, open)
  BY DaysFinite DEF SortedInto, ChartOf
<1> HIDE DEF sold, open
<1>3. /\ SumFunctionOnSet(sold, K) = Cardinality(CalendarNights(W))
      /\ SumFunctionOnSet(open, K) = Cardinality(OpenDays(W))
  BY <1>2, DaysFinite, SumOfCells
<1>4. ASSUME NEW k \in K PROVE chart[k].sold <= chart[k].available
  <2> DEFINE full == {d \in CalendarNights(W) : c[d] = k}
             cell == {d \in OpenDays(W) : c[d] = k}
  <2>1. full \in SUBSET cell
    BY DaysFinite
  <2>2. IsFiniteSet(cell)
    BY DaysFinite, FS_Subset
  <2>3. chart[k].sold = Cardinality(full) /\ chart[k].available = Cardinality(cell)
    BY DEF ChartOf
  <2> HIDE DEF full, cell
  <2>4. Cardinality(full) <= Cardinality(cell)
    BY <2>1, <2>2, FS_Subset
  <2>5. QED
    BY <2>3, <2>4
<1>5. QED
  BY <1>1, <1>3, <1>4 DEF ChartOf

(* What the loops over the stays count for a cell.                         *)
LEMMA CellCount ==
  ASSUME Rows, NEW W, IsFiniteSet(W), NEW X
  PROVE  SumFunctionOnSet([s \in ActiveStays(W) |-> Cardinality(NightsIn(s, W) \cap X)], ActiveStays(W))
           = Cardinality(CalendarNights(W) \cap X)
<1> DEFINE w == [s \in ActiveStays(W) |-> Cardinality(NightsIn(s, W) \cap X)]
<1>1. \A s \in ActiveStays(W) : w[s] = Cardinality(NightsIn(s, W) \cap X)
  OBVIOUS
<1> HIDE DEF w
<1>2. SumFunctionOnSet(w, ActiveStays(W)) = Cardinality({d \in W : SoldOn(d)} \cap X)
  BY <1>1, SoldAddsUp
<1>3. CalendarNights(W) = {d \in W : SoldOn(d)}
  BY NightsByDay
<1>4. QED
  BY <1>2, <1>3 DEF w

LEMMA WeekChart ==
  ASSUME Rows, NEW W, IsFiniteSet(W)
  PROVE  ChartOf(ListWeeklyOccupancy(W), W, {Week(d) : d \in OpenDays(W)}, [d \in W |-> Week(d)])
<1> DEFINE S == ActiveStays(W)
           K == {Week(d) : d \in OpenDays(W)}
           c == [d \in W |-> Week(d)]
           chart == ListWeeklyOccupancy(W)
<1>1. OpenDays(W) \subseteq W /\ CalendarNights(W) \subseteq W
  BY DaysFinite DEF OpenDays
<1>2. ASSUME NEW k \in K
      PROVE  /\ chart[k].sold = Cardinality({d \in CalendarNights(W) : c[d] = k})
             /\ chart[k].available = Cardinality({d \in OpenDays(W) : c[d] = k})
  <2> DEFINE X == {d \in W : Week(d) = k}
  <2>1. /\ chart[k].sold = SumFunctionOnSet([s \in S |-> Cardinality({d \in NightsIn(s, W) : Week(d) = k})], S)
        /\ chart[k].available = Cardinality({d \in OpenDays(W) : Week(d) = k})
    BY DEF ListWeeklyOccupancy, OccupancyBy, Cell, Total, SumFunction
  <2>2. \A s : {d \in NightsIn(s, W) : Week(d) = k} = NightsIn(s, W) \cap X
    BY DEF NightsIn
  <2>3. {d \in CalendarNights(W) : c[d] = k} = CalendarNights(W) \cap X
    BY <1>1
  <2>4. {d \in OpenDays(W) : c[d] = k} = {d \in OpenDays(W) : Week(d) = k}
    BY <1>1
  <2>5. [s \in S |-> Cardinality({d \in NightsIn(s, W) : Week(d) = k})]
          = [s \in S |-> Cardinality(NightsIn(s, W) \cap X)]
    BY <2>2
  <2> HIDE DEF X, chart, c
  <2>6. QED
    BY <2>1, <2>3, <2>4, <2>5, CellCount
<1>3. DOMAIN chart = K
  BY DEF ListWeeklyOccupancy, OccupancyBy
<1>4. \A d \in OpenDays(W) : c[d] \in K
  BY <1>1
<1> HIDE DEF K, c, chart
<1>5. ChartOf(chart, W, K, c)
  BY <1>2, <1>3, <1>4 DEF ChartOf
<1>6. QED
  BY <1>5 DEF K, c, chart

LEMMA WeekdayChart ==
  ASSUME Rows, NEW W \in SUBSET Days, IsFiniteSet(W)
  PROVE  ChartOf(ListDOWOccupancy(W), W, {Weekday(d) : d \in Days}, [d \in W |-> Weekday(d)])
<1> DEFINE S == ActiveStays(W)
           K == {Weekday(d) : d \in Days}
           c == [d \in W |-> Weekday(d)]
           chart == ListDOWOccupancy(W)
<1>1. OpenDays(W) \subseteq W /\ CalendarNights(W) \subseteq W
  BY DaysFinite DEF OpenDays
<1>2. ASSUME NEW k \in K
      PROVE  /\ chart[k].sold = Cardinality({d \in CalendarNights(W) : c[d] = k})
             /\ chart[k].available = Cardinality({d \in OpenDays(W) : c[d] = k})
  <2> DEFINE X == {d \in W : Weekday(d) = k}
  <2>1. /\ chart[k].sold = SumFunctionOnSet([s \in S |-> Cardinality({d \in NightsIn(s, W) : Weekday(d) = k})], S)
        /\ chart[k].available = Cardinality({d \in OpenDays(W) : Weekday(d) = k})
    BY DEF ListDOWOccupancy, OccupancyBy, Cell, Total, SumFunction
  <2>2. \A s : {d \in NightsIn(s, W) : Weekday(d) = k} = NightsIn(s, W) \cap X
    BY DEF NightsIn
  <2>3. {d \in CalendarNights(W) : c[d] = k} = CalendarNights(W) \cap X
    BY <1>1
  <2>4. {d \in OpenDays(W) : c[d] = k} = {d \in OpenDays(W) : Weekday(d) = k}
    BY <1>1
  <2>5. [s \in S |-> Cardinality({d \in NightsIn(s, W) : Weekday(d) = k})]
          = [s \in S |-> Cardinality(NightsIn(s, W) \cap X)]
    BY <2>2
  <2> HIDE DEF X, chart, c
  <2>6. QED
    BY <2>1, <2>3, <2>4, <2>5, CellCount
<1>3. DOMAIN chart = K
  BY DEF ListDOWOccupancy, OccupancyBy
<1>4. \A d \in OpenDays(W) : c[d] \in K
  BY <1>1
<1> HIDE DEF K, c, chart
<1>5. ChartOf(chart, W, K, c)
  BY <1>2, <1>3, <1>4 DEF ChartOf
<1>6. QED
  BY <1>5 DEF K, c, chart

(* The nights left of some of the days V when the blockers of all are      *)
(* known.                                                                  *)
LEMMA Bookable ==
  ASSUME NEW W, IsFiniteSet(W), NEW V \in SUBSET W
  PROVE  /\ BookableNightsInRange(Blockers(W), V) = Cardinality({d \in V : ~BlockedOn(d)})
         /\ IsFiniteSet({d \in V : ~BlockedOn(d)})
<1> DEFINE closed == V \cap UNION Blockers(W)
           open == {d \in V : ~BlockedOn(d)}
<1>1. open = V \ closed
  BY NightsByDay
<1>2. IsFiniteSet(V) /\ V \cap closed = closed
  BY FS_Subset
<1> HIDE DEF open
<1>3. IsFiniteSet(open) /\ Cardinality(open) = Cardinality(V) - Cardinality(closed)
  <2> HIDE DEF closed
  <2> QED
    BY <1>1, <1>2, FS_Difference
<1>4. Cardinality(open) \in Nat
  BY <1>3, FS_CardinalityType
<1>5. BookableNightsInRange(Blockers(W), V) = Max({0, Cardinality(open)})
  BY <1>3 DEF BookableNightsInRange, ClosedNightsInRange
<1>6. Max({0, Cardinality(open)}) = Cardinality(open)
  BY <1>4, LargerOfTwo
<1>7. QED
  BY <1>3, <1>5, <1>6 DEF open

LEMMA AllDaysFinite == IsFiniteSet(AllDays) /\ IsFiniteSet(Days)
BY CalendarAssumption, FS_Interval DEF AllDays, Days

(* The open days of a month are counted against the blockers of all the    *)
(* months shown.                                                           *)
LEMMA MonthChart ==
  ASSUME Rows, NEW K \in SUBSET Months
  PROVE  LET W == UNION {DaysOf(m) : m \in K}
         IN  IsFiniteSet(W) /\ ChartOf(MonthlyOccupancy(K), W, K, [d \in W |-> Month(d)])
<1> DEFINE W == UNION {DaysOf(m) : m \in K}
           S == ActiveStays(W)
           c == [d \in W |-> Month(d)]
           chart == MonthlyOccupancy(K)
<1>1. \A d : d \in W <=> d \in AllDays /\ Month(d) \in K
  BY DEF DaysOf, AllDays
<1>2. IsFiniteSet(W)
  <2>1. W \in SUBSET AllDays
    BY <1>1
  <2> HIDE DEF W
  <2>2. QED
    BY <2>1, AllDaysFinite, FS_Subset
<1>3. chart = [m \in K |->
        Cell(Total(LAMBDA s : Cardinality({d \in NightsIn(s, W) : Month(d) = m}), S),
             BookableNightsInRange(Blockers(W), DaysOf(m)))]
  BY DEF MonthlyOccupancy
<1> HIDE DEF W, chart
<1>4. OpenDays(W) \subseteq W /\ CalendarNights(W) \subseteq W
  BY DaysFinite, <1>2 DEF OpenDays
<1>5. ASSUME NEW k \in K
      PROVE  /\ chart[k].sold = Cardinality({d \in CalendarNights(W) : c[d] = k})
             /\ chart[k].available = Cardinality({d \in OpenDays(W) : c[d] = k})
  <2> DEFINE X == {d \in W : Month(d) = k}
  <2>1. /\ chart[k].sold = SumFunctionOnSet([s \in S |-> Cardinality({d \in NightsIn(s, W) : Month(d) = k})], S)
        /\ chart[k].available = BookableNightsInRange(Blockers(W), DaysOf(k))
    BY <1>3 DEF Cell, Total, SumFunction
  <2>2. \A s : {d \in NightsIn(s, W) : Month(d) = k} = NightsIn(s, W) \cap X
    BY DEF NightsIn
  <2>3. {d \in CalendarNights(W) : c[d] = k} = CalendarNights(W) \cap X
    BY <1>4
  <2>4. {d \in OpenDays(W) : c[d] = k} = {d \in DaysOf(k) : ~BlockedOn(d)}
    <3>1. \A d : d \in DaysOf(k) <=> d \in W /\ Month(d) = k
      BY <1>1 DEF DaysOf, AllDays
    <3>2. \A d : d \in OpenDays(W) <=> d \in W /\ ~BlockedOn(d)
      BY NightsByDay
    <3>3. QED
      BY <3>1, <3>2
  <2>5. [s \in S |-> Cardinality({d \in NightsIn(s, W) : Month(d) = k})]
          = [s \in S |-> Cardinality(NightsIn(s, W) \cap X)]
    BY <2>2
  <2>6. BookableNightsInRange(Blockers(W), DaysOf(k)) = Cardinality({d \in DaysOf(k) : ~BlockedOn(d)})
    <3>1. DaysOf(k) \in SUBSET W
      BY <1>1 DEF DaysOf, AllDays
    <3>2. QED
      BY <1>2, <3>1, Bookable
  <2> HIDE DEF X, c
  <2>7. QED
    <3>1. SumFunctionOnSet([s \in S |-> Cardinality(NightsIn(s, W) \cap X)], S)
            = Cardinality(CalendarNights(W) \cap X)
      BY <1>2, CellCount
    <3>2. chart[k].sold = Cardinality(CalendarNights(W) \cap X)
      BY <2>1, <2>5, <3>1
    <3> HIDE DEF S
    <3>3. QED
      BY <2>1, <2>3, <2>4, <2>6, <3>2
<1>6. DOMAIN chart = K
  BY <1>3
<1>7. \A d \in OpenDays(W) : c[d] \in K
  BY <1>1, <1>4
<1> HIDE DEF c
<1>8. ChartOf(chart, W, K, c)
  BY <1>5, <1>6, <1>7 DEF ChartOf
<1>9. QED
  BY <1>2, <1>8 DEF W, c, chart

LEMMA CellsFinite ==
  ASSUME NEW U, IsFiniteSet(U), NEW c, NEW K, \A k : k \in K <=> \E d \in U : k = c[d]
  PROVE  IsFiniteSet(K)
<1> DEFINE f == [d \in U |-> c[d]]
<1>1. f \in Surjection(U, K)
  BY DEF Surjection
<1> HIDE DEF f
<1>2. QED
  BY <1>1, FS_Surjection

(* The days end with a month, so the months before the day after the last  *)
(* are all there are.                                                      *)
LEMMA TrendCoversAll ==
  ASSUME NEW from \in Days, NEW to \in Days, from < to
  PROVE  /\ TrendMonths(to) \in SUBSET Months /\ IsFiniteSet(TrendMonths(to))
         /\ from .. to - 1 \in SUBSET AllDays /\ IsFiniteSet(from .. to - 1)
         /\ from .. to - 1 = AllDays => UNION {DaysOf(m) : m \in TrendMonths(to)} = AllDays
<1>1. /\ LastDay \in Nat /\ LastDay > 0 /\ from \in Nat /\ to \in Nat /\ to <= LastDay
      /\ MonthLength \in Nat \ {0}
  BY CalendarAssumption DEF Days
<1>2. TrendMonths(to) \in SUBSET Months /\ IsFiniteSet(TrendMonths(to))
  <2>1. IsFiniteSet(Months)
    BY <1>1, MonthsAre, FS_Interval
  <2>2. TrendMonths(to) \in SUBSET Months
    BY DEF TrendMonths
  <2>3. QED
    BY <2>1, <2>2, FS_Subset
<1>3. from .. to - 1 \in SUBSET AllDays
  BY <1>1 DEF AllDays
<1>4. ASSUME from .. to - 1 = AllDays
      PROVE  UNION {DaysOf(m) : m \in TrendMonths(to)} = AllDays
  <2>1. to = LastDay
    BY <1>1, <1>4 DEF AllDays
  <2>2. Month(LastDay) \in Nat /\ LastDay = Month(LastDay) * MonthLength
    <3>1. \A n \in Nat \ {0} : \A x \in Nat : x % n = 0 => x = (x \div n) * n
      BY Z3T(30)
    <3>2. Month(LastDay) \in Nat
      BY <1>1, MonthBounds
    <3>3. QED
      BY <1>1, <3>1, <3>2, CalendarAssumption DEF Month
  <2>3. ASSUME NEW d \in AllDays PROVE Month(d) \in TrendMonths(to)
    <3>1. d \in Nat /\ d < LastDay /\ Month(d) \in Nat /\ Month(d) \in Months
      BY <1>1, MonthBounds DEF AllDays, Months
    <3>2. Month(d) * MonthLength <= d
      BY <3>1, MonthBounds
    <3>3. ~(Month(LastDay) <= Month(d))
      <4>1. Month(LastDay) <= Month(d) => Month(LastDay) * MonthLength <= Month(d) * MonthLength
        BY <1>1, <2>2, <3>1, TimesMonotone
      <4>2. Month(d) * MonthLength \in Nat
        BY <3>1, MonthBounds
      <4> QED
        BY <1>1, <2>2, <3>1, <3>2, <4>1, <4>2
    <3>4. QED
      BY <2>1, <2>2, <3>1, <3>3 DEF TrendMonths
  <2>4. \A d : d \in UNION {DaysOf(m) : m \in TrendMonths(to)} <=> d \in AllDays /\ Month(d) \in TrendMonths(to)
    BY DEF DaysOf, AllDays
  <2>5. QED
    BY <2>3, <2>4
<1>5. IsFiniteSet(from .. to - 1)
  BY <1>3, AllDaysFinite, FS_Subset
<1>6. QED
  BY <1>2, <1>3, <1>4, <1>5

(* The headline of the page and the chart of the calendar.                 *)
LEMMA HeadlineAgrees ==
  ASSUME Rows, NEW W, IsFiniteSet(W)
  PROVE  /\ NightsSoldInRange(ActiveStays(W), W) = Cardinality(CalendarNights(W))
         /\ GuestNights(W) = Cardinality(CalendarNights(W))
         /\ BookableNightsInRange(Blockers(W), W) = Cardinality(OpenDays(W))
         /\ Cardinality(CalendarNights(W)) <= Cardinality(OpenDays(W))
<1>1. NightsSoldInRange(ActiveStays(W), W) = Cardinality(CalendarNights(W))
  <2>1. NightsSoldInRange(ActiveStays(W), W)
          = SumFunctionOnSet([s \in ActiveStays(W) |-> Cardinality(NightsIn(s, W))], ActiveStays(W))
    BY DEF NightsSoldInRange, Total, SumFunction
  <2>2. \A s : NightsIn(s, W) = NightsIn(s, W) \cap W
    BY DEF NightsIn
  <2>3. [s \in ActiveStays(W) |-> Cardinality(NightsIn(s, W))]
          = [s \in ActiveStays(W) |-> Cardinality(NightsIn(s, W) \cap W)]
    BY <2>2
  <2>4. CalendarNights(W) \cap W = CalendarNights(W)
    BY NightsByDay
  <2>5. SumFunctionOnSet([s \in ActiveStays(W) |-> Cardinality(NightsIn(s, W) \cap W)], ActiveStays(W))
          = Cardinality(CalendarNights(W) \cap W)
    BY CellCount
  <2>6. QED
    BY <2>1, <2>3, <2>4, <2>5
<1>2. GuestNights(W) = Cardinality(CalendarNights(W))
  <2>1. GuestNights(W) = Cardinality(UNION {Night(s) \cap W : s \in {t \in Stays : CountsAsSold(t)}})
    BY DEF GuestNights, CountsAsSold
  <2>2. QED
    BY <2>1, NightsByDay
<1>3. BookableNightsInRange(Blockers(W), W) = Cardinality(OpenDays(W))
  BY Bookable, NightsByDay
<1>4. Cardinality(CalendarNights(W)) <= Cardinality(OpenDays(W))
  BY DaysFinite, FS_Subset
<1>5. QED
  BY <1>1, <1>2, <1>3, <1>4

-----------------------------------------------------------------------------
(* The performance page.                                                   *)
LEMMA RowsKept ==
  ASSUME stay' = stay, booking' = booking
  PROVE  \A W : CalendarNights(W)' = CalendarNights(W)
BY DEF CalendarNights, CountsAsSold, Sellable, Linked, Night

LEMMA PerformanceHolds ==
  ASSUME Rows, NEW from \in Days, NEW to \in Days, GetAnalyticsPerformance(from, to)
  PROVE  PerformanceNights'
<1> DEFINE W == from .. to - 1
           M == UNION {DaysOf(m) : m \in TrendMonths(to)}
           sold(V) == Cardinality(CalendarNights(V))
           open(V) == Cardinality(OpenDays(V))
<1>1. /\ from < to /\ report'.window = W
      /\ report'.kpis.sold = NightsSoldInRange(ActiveStays(W), W)
      /\ report'.kpis.available = BookableNightsInRange(Blockers(W), W)
      /\ report'.kpis.guest = GuestNights(W)
      /\ report'.months = MonthlyOccupancy(TrendMonths(to))
      /\ report'.weeks = ListWeeklyOccupancy(AllDays)
      /\ report'.weekdays = ListDOWOccupancy(W)
  BY DEF GetAnalyticsPerformance, PerformanceKPIs, AllDays
<1>2. CalendarNights(report.window)' = CalendarNights(W)
  <2>1. stay' = stay /\ booking' = booking
    BY DEF GetAnalyticsPerformance, portfolio
  <2> HIDE DEF W
  <2>2. QED
    BY <1>1, <2>1 DEF CalendarNights, CountsAsSold, Sellable, Linked, Night
<1>3. /\ W \in SUBSET AllDays /\ W \in SUBSET Days /\ IsFiniteSet(W)
      /\ TrendMonths(to) \in SUBSET Months /\ IsFiniteSet(TrendMonths(to))
      /\ W = AllDays => M = AllDays
  BY <1>1, TrendCoversAll, CalendarAssumption DEF AllDays, Days
<1> HIDE DEF W, M
<1>4. /\ report'.kpis.sold = sold(W) /\ report'.kpis.guest = sold(W)
      /\ report'.kpis.available = open(W) /\ sold(W) <= open(W)
  BY <1>1, <1>3, HeadlineAgrees
<1>5. /\ Sum(report'.months, "sold") = sold(M) /\ Sum(report'.months, "available") = open(M)
      /\ \A k \in DOMAIN report'.months : report'.months[k].sold <= report'.months[k].available
  <2>1. /\ IsFiniteSet(M)
        /\ ChartOf(report'.months, M, TrendMonths(to), [d \in M |-> Month(d)])
    BY <1>1, <1>3, MonthChart DEF M
  <2>2. QED
    BY <1>3, <2>1, ChartAddsUp
<1>6. /\ Sum(report'.weeks, "sold") = sold(AllDays) /\ Sum(report'.weeks, "available") = open(AllDays)
      /\ \A k \in DOMAIN report'.weeks : report'.weeks[k].sold <= report'.weeks[k].available
  <2> DEFINE K == {Week(d) : d \in OpenDays(AllDays)}
             c == [d \in AllDays |-> Week(d)]
  <2>1. ChartOf(report'.weeks, AllDays, K, c)
    BY <1>1, AllDaysFinite, WeekChart
  <2>2. IsFiniteSet(K)
    <3>1. \A k : k \in K <=> \E d \in OpenDays(AllDays) : k = c[d]
      BY DEF OpenDays
    <3> HIDE DEF K, c
    <3>2. QED
      BY <3>1, AllDaysFinite, DaysFinite, CellsFinite
  <2> HIDE DEF K, c
  <2>3. QED
    BY <2>1, <2>2, AllDaysFinite, ChartAddsUp
<1>7. /\ Sum(report'.weekdays, "sold") = sold(W) /\ Sum(report'.weekdays, "available") = open(W)
      /\ \A k \in DOMAIN report'.weekdays : report'.weekdays[k].sold <= report'.weekdays[k].available
  <2> DEFINE K == {Weekday(d) : d \in Days}
             c == [d \in W |-> Weekday(d)]
             e == [d \in Days |-> Weekday(d)]
  <2>1. ChartOf(report'.weekdays, W, K, c)
    BY <1>1, <1>3, WeekdayChart
  <2>2. IsFiniteSet(K)
    <3>1. \A k : k \in K <=> \E d \in Days : k = e[d]
      OBVIOUS
    <3> HIDE DEF K, e
    <3>2. QED
      BY <3>1, AllDaysFinite, CellsFinite
  <2> HIDE DEF K, c
  <2>3. QED
    BY <1>3, <2>1, <2>2, ChartAddsUp
<1>8. /\ report'.window = AllDays => sold(M) = sold(W) /\ open(M) = open(W)
      /\ report'.window = AllDays => sold(AllDays) = sold(W) /\ open(AllDays) = open(W)
  BY <1>1, <1>3
<1>9. /\ Sum(report.months, "sold")' = Sum(report'.months, "sold")
      /\ Sum(report.months, "available")' = Sum(report'.months, "available")
      /\ Sum(report.weeks, "sold")' = Sum(report'.weeks, "sold")
      /\ Sum(report.weeks, "available")' = Sum(report'.weeks, "available")
      /\ Sum(report.weekdays, "sold")' = Sum(report'.weekdays, "sold")
      /\ Sum(report.weekdays, "available")' = Sum(report'.weekdays, "available")
      /\ AllDays' = AllDays
  BY DEF Sum, Total, SumFunction, AllDays
<1>10. QED
  BY <1>2, <1>4, <1>5, <1>6, <1>7, <1>8, <1>9 DEF PerformanceNights

-----------------------------------------------------------------------------
(* Free nights and their neighbours.                                       *)
Counting == {s \in Stays : CountsAsSold(s)}
EndedBy(d) == {s \in Counting : stay[s].out <= d + 1}
BeginsAfter(d) == {s \in Counting : stay[s].in >= d + 1}
Before(d) == IF EndedBy(d) = {} THEN None ELSE LastOf(EndedBy(d))
After(d) == IF BeginsAfter(d) = {} THEN None ELSE FirstOf(BeginsAfter(d))

LEMMA OccupiedDays ==
  ASSUME NEW a \in Int, NEW b \in Int, a <= b
  PROVE  Occupied(a .. b) = {d \in a - 1 .. b + 1 : SoldOn(d)}
<1>1. Around(a .. b) = a - 1 .. b + 1
  <2>1. a .. b # {} /\ Min(a .. b) = a /\ Max(a .. b) = b
    BY MinOfInterval, MaxOfInterval
  <2>2. QED
    BY <2>1 DEF Around
<1>2. QED
  BY <1>1, NightsByDay DEF Occupied

LEMMA AllAreListed == ASSUME Rows PROVE ActiveStays(Days) = Counting
<1>1. ASSUME NEW s \in Stays, CountsAsSold(s) PROVE Night(s) \cap Days # {}
  <2>1. stay[s].in \in Night(s) /\ stay[s].in \in Days
    BY <1>1, StayDates DEF Night, CountsAsSold, Days
  <2>2. QED
    BY <2>1
<1>2. QED
  BY <1>1 DEF ActiveStays, CountsAsSold, Counting

LEMMA UnsoldNights ==
  ASSUME Rows, NEW a \in Int, NEW b \in Int, a <= b
  PROVE  ListUnsoldNightsWithContext(a .. b)
           = {[date |-> d, prev |-> Before(d), next |-> After(d)] : d \in {e \in a .. b : ~SoldOn(e)}}
<1>1. (a .. b) \ Occupied(a .. b) = {e \in a .. b : ~SoldOn(e)}
  BY OccupiedDays
<1>2. QED
  BY <1>1, AllAreListed
     DEF ListUnsoldNightsWithContext, ListUnsoldNights, Before, After, EndedBy, BeginsAfter

LEMMA LastIsLast ==
  ASSUME Rows, NEW S \in SUBSET Stays, S # {}
  PROVE  LastOf(S) \in S /\ \A t \in S : stay[t].in <= stay[LastOf(S)].in
<1> DEFINE T == {LastDay - stay[s].in : s \in S}
<1>1. T \in SUBSET Nat /\ T # {}
  BY StayDates
<1>2. PICK x \in T : \A y \in T : x <= y
  <2> HIDE DEF T
  <2>1. QED
    BY <1>1, NatMin
<1>3. PICK s \in S : \A t \in S : LastDay - stay[s].in <= LastDay - stay[t].in
  BY <1>2
<1>4. \A t \in S : stay[t].in <= stay[s].in
  BY <1>3, StayDates
<1>5. QED
  BY <1>4 DEF LastOf

LEMMA FirstIsFirst ==
  ASSUME Rows, NEW S \in SUBSET Stays, S # {}
  PROVE  FirstOf(S) \in S /\ \A t \in S : stay[t].in >= stay[FirstOf(S)].in
<1> DEFINE T == {stay[s].in : s \in S}
<1>1. T \in SUBSET Nat /\ T # {}
  BY StayDates
<1>2. PICK x \in T : \A y \in T : x <= y
  <2> HIDE DEF T
  <2>1. QED
    BY <1>1, NatMin
<1>3. PICK s \in S : \A t \in S : stay[s].in <= stay[t].in
  BY <1>2
<1>4. \A t \in S : stay[t].in >= stay[s].in
  BY <1>3, StayDates
<1>5. QED
  BY <1>4 DEF FirstOf

(* Stays that count follow each other.                                     *)
LEMMA StaysInARow ==
  ASSUME Rows, NEW s \in Counting, NEW t \in Counting, s # t, stay[s].in <= stay[t].in
  PROVE  stay[s].out <= stay[t].in
<1>1. /\ stay[t].in \in Night(t) /\ Night(s) \cap Night(t) = {}
      /\ Night(s) = stay[s].in .. stay[s].out - 1
  BY StayDates DEF Night, Counting, CountsAsSold, Rows, SoldOnce
<1>2. stay[s].in \in Int /\ stay[s].out \in Int /\ stay[t].in \in Int
  BY StayDates DEF Counting
<1>3. QED
  BY <1>1, <1>2

(* The stay named before a free night has ended, and none that counts      *)
(* lies between; the same after it.                                        *)
LEMMA NeighboursOf ==
  ASSUME Rows, NEW d \in Int, ~SoldOn(d)
  PROVE  /\ Before(d) = None => \A s \in Counting : ~(stay[s].out <= d + 1)
         /\ Before(d) # None => /\ Before(d) \in Counting /\ stay[Before(d)].out <= d
                                /\ \A s \in Counting : stay[s].out <= d + 1
                                     => stay[s].in <= stay[Before(d)].in
         /\ After(d) = None => \A s \in Counting : ~(stay[s].in >= d + 1)
         /\ After(d) # None => /\ After(d) \in Counting /\ stay[After(d)].in >= d + 1
                               /\ \A s \in Counting : stay[s].in >= d + 1
                                    => stay[s].in >= stay[After(d)].in
<1>1. /\ EndedBy(d) \in SUBSET Counting /\ BeginsAfter(d) \in SUBSET Counting
      /\ Counting \in SUBSET Stays
  BY DEF EndedBy, BeginsAfter, Counting
<1>2. /\ Before(d) = None => \A s \in Counting : ~(stay[s].out <= d + 1)
      /\ Before(d) # None => /\ Before(d) \in Counting /\ stay[Before(d)].out <= d
                             /\ \A s \in Counting : stay[s].out <= d + 1
                                  => stay[s].in <= stay[Before(d)].in
  <2>1. CASE EndedBy(d) # {}
    <3>1. Before(d) \in EndedBy(d) /\ \A t \in EndedBy(d) : stay[t].in <= stay[Before(d)].in
      BY <1>1, <2>1, LastIsLast DEF Before
    <3>2. Before(d) # None
      BY <1>1, <3>1, CalendarAssumption
    <3>3. stay[Before(d)].out <= d
      <4>1. /\ Before(d) \in Counting /\ Before(d) \in Stays /\ stay[Before(d)].out <= d + 1
        BY <1>1, <3>1 DEF EndedBy
      <4>2. d \notin Night(Before(d))
        BY <4>1 DEF SoldOn, Counting
      <4>3. QED
        BY <4>1, <4>2, StayDates DEF Night, Counting, CountsAsSold
    <3>4. QED
      BY <1>1, <3>1, <3>2, <3>3 DEF EndedBy
  <2>2. CASE EndedBy(d) = {}
    BY <2>2 DEF Before, EndedBy
  <2>3. QED
    BY <2>1, <2>2
<1>3. /\ After(d) = None => \A s \in Counting : ~(stay[s].in >= d + 1)
      /\ After(d) # None => /\ After(d) \in Counting /\ stay[After(d)].in >= d + 1
                            /\ \A s \in Counting : stay[s].in >= d + 1
                                 => stay[s].in >= stay[After(d)].in
  <2>1. CASE BeginsAfter(d) # {}
    <3>1. After(d) \in BeginsAfter(d) /\ \A t \in BeginsAfter(d) : stay[t].in >= stay[After(d)].in
      BY <1>1, <2>1, FirstIsFirst DEF After
    <3>2. After(d) # None
      BY <1>1, <3>1, CalendarAssumption
    <3>3. QED
      BY <1>1, <3>1, <3>2 DEF BeginsAfter
  <2>2. CASE BeginsAfter(d) = {}
    BY <2>2 DEF After, BeginsAfter
  <2>3. QED
    BY <2>1, <2>2
<1>4. QED
  BY <1>2, <1>3

Upto(d) == IF Before(d) = None THEN 0 ELSE stay[Before(d)].out
From(d) == IF After(d) = None THEN LastDay + WeekLength ELSE stay[After(d)].in

LEMMA NothingBetween ==
  ASSUME Rows, NEW today \in Days, NEW d \in today .. today + WeekLength - 1, ~SoldOn(d)
  PROVE  /\ Upto(d) \in Int /\ From(d) \in Int
         /\ d \in Upto(d) .. From(d) - 1 /\ CalendarNights(Upto(d) .. From(d) - 1) = {}
<1>1. /\ today \in Nat /\ today <= LastDay /\ WeekLength \in Nat \ {0} /\ LastDay \in Nat
      /\ d \in Int /\ 0 <= d /\ d < LastDay + WeekLength
  BY CalendarAssumption DEF Days
<1>2. \A s \in Counting : s \in Stays /\ stay[s].in \in Int /\ stay[s].out \in Int /\ stay[s].in < stay[s].out
  BY StayDates DEF Counting
<1>3. Upto(d) \in Int /\ Upto(d) <= d /\ From(d) \in Int /\ d < From(d)
  BY <1>1, <1>2, NeighboursOf DEF Upto, From
<1>4. ASSUME NEW e \in Upto(d) .. From(d) - 1, SoldOn(e) PROVE FALSE
  <2>1. PICK s \in Counting : stay[s].in <= e /\ e < stay[s].out
    <3>1. PICK s \in Stays : CountsAsSold(s) /\ e \in Night(s)
      BY <1>4 DEF SoldOn
    <3>2. QED
      BY <3>1, StayDates DEF Counting
  <2>2. e \in Int /\ Upto(d) <= e /\ e < From(d)
    BY <1>3
  <2>3. stay[s].out <= d \/ stay[s].in >= d + 1
    <3>1. d \notin Night(s) /\ Night(s) = stay[s].in .. stay[s].out - 1
      BY DEF SoldOn, Counting, CountsAsSold, Night
    <3>2. QED
      BY <1>1, <1>2, <3>1
  <2>4. CASE stay[s].out <= d
    <3> DEFINE p == Before(d)
    <3>1. p # None /\ p \in Counting /\ stay[s].in <= stay[p].in /\ Upto(d) = stay[p].out
      BY <1>1, <1>2, <2>4, NeighboursOf DEF Upto
    <3> HIDE DEF p
    <3>2. s # p
      BY <1>2, <2>1, <2>2, <3>1
    <3>3. stay[s].out <= stay[p].in
      BY <3>1, <3>2, StaysInARow
    <3>4. QED
      BY <1>2, <2>1, <2>2, <3>1, <3>3
  <2>5. CASE stay[s].in >= d + 1
    <3>1. After(d) # None /\ stay[s].in >= stay[After(d)].in /\ From(d) = stay[After(d)].in
      BY <1>1, <2>5, NeighboursOf DEF From
    <3>2. QED
      BY <1>2, <1>3, <2>1, <2>2, <3>1
  <2>6. QED
    BY <2>3, <2>4, <2>5
<1>5. QED
  BY <1>1, <1>3, <1>4, NightsByDay

(* A gap is a free night that the stays named beside it touch.             *)
LEMMA GapsAreTouched ==
  ASSUME Rows, NEW d \in Int, ~SoldOn(d)
  PROVE  (SoldOn(d - 1) /\ SoldOn(d + 1))
           <=> (/\ Before(d) # None /\ After(d) # None
                /\ stay[Before(d)].out = d /\ stay[After(d)].in = d + 1)
<1>1. \A s \in Counting : /\ s \in Stays /\ CountsAsSold(s)
                           /\ stay[s].in \in Int /\ stay[s].out \in Int /\ stay[s].in < stay[s].out
                           /\ Night(s) = stay[s].in .. stay[s].out - 1
  BY StayDates DEF Counting, CountsAsSold, Night
<1>2. \A s \in Counting : d \notin Night(s)
  BY DEF SoldOn, Counting
<1>3. ASSUME Before(d) # None, stay[Before(d)].out = d PROVE SoldOn(d - 1)
  <2>1. Before(d) \in Counting /\ d - 1 \in Night(Before(d))
    BY <1>1, <1>3, NeighboursOf
  <2>2. QED
    BY <1>1, <2>1 DEF SoldOn
<1>4. ASSUME After(d) # None, stay[After(d)].in = d + 1 PROVE SoldOn(d + 1)
  <2>1. After(d) \in Counting /\ d + 1 \in Night(After(d))
    BY <1>1, <1>4, NeighboursOf
  <2>2. QED
    BY <1>1, <2>1 DEF SoldOn
<1>5. ASSUME SoldOn(d - 1) PROVE Before(d) # None /\ stay[Before(d)].out = d
  <2>1. PICK s \in Counting : d - 1 \in Night(s)
    BY <1>5 DEF SoldOn, Counting
  <2>2. stay[s].out = d
    BY <1>1, <1>2, <2>1
  <2>3. /\ Before(d) # None /\ Before(d) \in Counting /\ stay[Before(d)].out <= d
        /\ stay[s].in <= stay[Before(d)].in
    BY <1>1, <2>2, NeighboursOf
  <2>4. s = Before(d)
    <3>1. s # Before(d) => stay[s].out <= stay[Before(d)].in
      BY <2>3, StaysInARow
    <3>2. QED
      BY <1>1, <2>2, <2>3, <3>1
  <2>5. QED
    BY <2>2, <2>3, <2>4
<1>6. ASSUME SoldOn(d + 1) PROVE After(d) # None /\ stay[After(d)].in = d + 1
  <2>1. PICK s \in Counting : d + 1 \in Night(s)
    BY <1>6 DEF SoldOn, Counting
  <2>2. stay[s].in = d + 1
    BY <1>1, <1>2, <2>1
  <2>3. /\ After(d) # None /\ After(d) \in Counting /\ stay[After(d)].in >= d + 1
        /\ stay[s].in >= stay[After(d)].in
    BY <2>2, NeighboursOf
  <2>4. QED
    BY <1>1, <2>2, <2>3
<1>7. QED
  BY <1>3, <1>4, <1>5, <1>6
-----------------------------------------------------------------------------
(* What the code lists as free, exactly: the nights nothing is sold on.    *)
(* FreeIn says it of an answer r, the portfolio's stays, the free nights   *)
(* listed for its window and the nights that are sold; FreeNights follows. *)
SoldNights == UNION {Night(s) : s \in Counting}

FreeIn(r, stays, list, sold) ==
  LET touched == {u \in list : /\ u.prev # None /\ u.next # None
                               /\ stays[u.prev].out = u.date /\ stays[u.next].in = u.date + 1}
  IN /\ r.page = "outlook" =>
          /\ {u.date : u \in r.unsold} = r.window \ sold
          /\ \A u \in r.unsold :
               LET after == IF u.prev = None THEN 0 ELSE stays[u.prev].out
                   before == IF u.next = None THEN LastDay + WeekLength ELSE stays[u.next].in
               IN u.date \in after .. before - 1 /\ (after .. before - 1) \cap sold = {}
          /\ r.pace[Max(DOMAIN r.pace)] = r.horizons[Max(Horizons)].sold
     /\ r.page = "demand" =>
          /\ r.gaps = {u.date : u \in touched}
          /\ r.gaps \cup r.orphans \subseteq r.window \ sold

Listed == ListUnsoldNightsWithContext(report.window)

LEMMA SoldDays ==
  /\ \A d : d \in SoldNights <=> SoldOn(d)
  /\ \A W : CalendarNights(W) = W \cap SoldNights
<1>1. \A d : d \in SoldNights <=> SoldOn(d)
  BY DEF SoldNights, SoldOn, Counting
<1>2. QED
  BY <1>1, NightsByDay

FreeExactly == FreeIn(report, stay, Listed, SoldNights)

LEMMA FreeFollows == FreeExactly => FreeNights
<1>1. \A W : CalendarNights(W) = W \cap SoldNights
  BY SoldDays
<1>2. OpenDays(report.window) \subseteq report.window
  BY DEF OpenDays
<1>3. /\ report.window \ CalendarNights(report.window) = report.window \ SoldNights
      /\ OpenDays(report.window) \ CalendarNights(report.window) \subseteq report.window \ SoldNights
  BY <1>1, <1>2
<1>4. QED
  BY <1>1, <1>3 DEF FreeNights, FreeExactly, FreeIn, Listed

(* No query changes what a later one sees.                                 *)
LEMMA ListingKept ==
  ASSUME stay' = stay, booking' = booking
  PROVE  /\ \A W : report'.window = W => Listed' = ListUnsoldNightsWithContext(W)
         /\ SoldNights' = SoldNights
<1>1. ASSUME NEW W, report'.window = W PROVE Listed' = ListUnsoldNightsWithContext(W)
  BY <1>1 DEF Listed, ListUnsoldNightsWithContext, ListUnsoldNights, LastOf, FirstOf, Occupied,
              ActiveStays, Sellable, Linked, Night, NightsIn, Around
<1>2. SoldNights' = SoldNights
  BY DEF SoldNights, Counting, CountsAsSold, Sellable, Linked, Night
<1>3. QED
  BY <1>1, <1>2

LEMMA FreeLater ==
  ASSUME stay' = stay, booking' = booking,
         FreeIn(report', stay, ListUnsoldNightsWithContext(report'.window), SoldNights)
  PROVE  FreeExactly'
<1>1. Listed' = ListUnsoldNightsWithContext(report'.window) /\ SoldNights' = SoldNights
  BY ListingKept
<1>2. QED
  BY <1>1 DEF FreeExactly, FreeIn

LEMMA LongestHorizon ==
  Max(Horizons) \in Horizons /\ Max(Horizons) \in Nat /\ Max(Horizons) > 0
<1> DEFINE U == UNION {0 .. h - 1 : h \in Horizons}
           n == Cardinality(U)
           T == {n - h : h \in Horizons}
<1>1. \A h \in Horizons : h \in Nat /\ IsFiniteSet(0 .. h - 1) /\ Cardinality(0 .. h - 1) = h
  BY HorizonAssumption, FS_Interval
<1>2. IsFiniteSet(U)
  <2> DEFINE S == {0 .. h - 1 : h \in Horizons}
             f == [h \in Horizons |-> 0 .. h - 1]
  <2>1. IsFiniteSet(S)
    <3>1. \A X : X \in S <=> \E h \in Horizons : X = f[h]
      OBVIOUS
    <3> HIDE DEF S, f
    <3>2. QED
      BY <3>1, HorizonAssumption, CellsFinite
  <2>2. \A X \in S : IsFiniteSet(X)
    BY <1>1
  <2> HIDE DEF S
  <2>3. IsFiniteSet(UNION S)
    BY <2>1, <2>2, FS_UNION
  <2>4. QED
    BY <2>3 DEF S
<1>3. n \in Nat /\ \A h \in Horizons : h <= n
  <2>1. \A h \in Horizons : (0 .. h - 1) \in SUBSET U
    OBVIOUS
  <2> HIDE DEF U
  <2>2. QED
    BY <1>1, <1>2, <2>1, FS_Subset, FS_CardinalityType
<1> HIDE DEF n
<1>4. T \in SUBSET Nat /\ T # {}
  <2>1. ASSUME NEW h \in Horizons PROVE n - h \in Nat
    <3>1. h \in Nat /\ n \in Nat /\ h <= n
      BY <1>1, <1>3
    <3>. QED  BY <3>1
  <2>2. Horizons # {}
    BY HorizonAssumption
  <2>. QED  BY <2>1, <2>2
<1>5. PICK x \in T : \A y \in T : x <= y
  <2> HIDE DEF T
  <2>1. QED
    BY <1>4, NatMin
<1>6. PICK k \in Horizons : \A h \in Horizons : n - k <= n - h
  BY <1>5
<1>7. \A h \in Horizons : k >= h
  BY <1>1, <1>3, <1>6
<1>8. Max(Horizons) \in Horizons
  BY <1>7 DEF Max
<1>9. \A h \in Horizons : h \in Nat /\ h > 0
  BY HorizonAssumption
<1>10. QED
  BY <1>8, <1>9

(* The nights in a list of free nights.                                    *)
LEMMA NightsListed ==
  ASSUME NEW W, NEW list,
         list = {[date |-> d, prev |-> Before(d), next |-> After(d)] : d \in {e \in W : ~SoldOn(e)}}
  PROVE  /\ \A u \in list : \E d \in W : /\ ~SoldOn(d) /\ u.date = d
                                         /\ u.prev = Before(d) /\ u.next = After(d)
         /\ {u.date : u \in list} = W \ SoldNights
<1>1. \A u \in list : \E d \in W : /\ ~SoldOn(d) /\ u.date = d
                                   /\ u.prev = Before(d) /\ u.next = After(d)
  OBVIOUS
<1>2. ASSUME NEW d \in W, ~SoldOn(d)
      PROVE  \E u \in list : u.date = d /\ u.prev = Before(d) /\ u.next = After(d)
  <2> DEFINE u == [date |-> d, prev |-> Before(d), next |-> After(d)]
  <2>1. u \in list
    BY <1>2
  <2>2. QED
    BY <2>1
<1>3. \A d : d \in {u.date : u \in list} <=> d \in W /\ ~SoldOn(d)
  <2>1. \A d : d \in {u.date : u \in list} <=> \E u \in list : d = u.date
    OBVIOUS
  <2>2. QED
    BY <1>1, <1>2, <2>1
<1>4. {u.date : u \in list} = W \ SoldNights
  BY <1>3, SoldDays
<1>5. QED
  BY <1>1, <1>4

(* On the last day of a window the pace has counted all its nights.        *)
LEMMA PaceEnds ==
  ASSUME NEW a \in Int, NEW b \in Int, a <= b
  PROVE  PaceSeriesCumulative(a .. b)[Max(DOMAIN PaceSeriesCumulative(a .. b))]
           = NightsSoldInRange(ActiveStays(a .. b), a .. b)
<1> DEFINE W == a .. b
<1>1. DOMAIN PaceSeriesCumulative(W) = W /\ Max(W) = b /\ b \in W
  BY MaxOfInterval DEF PaceSeriesCumulative
<1>2. \A s : {e \in NightsIn(s, W) : e <= b} = NightsIn(s, W)
  BY DEF NightsIn
<1> HIDE DEF W
<1>3. PaceSeriesCumulative(W)[b]
        = Total(LAMBDA s : Cardinality({e \in NightsIn(s, W) : e <= b}), ActiveStays(W))
  BY <1>1 DEF PaceSeriesCumulative
<1>4. PaceSeriesCumulative(W)[b] = NightsSoldInRange(ActiveStays(W), W)
  BY <1>2, <1>3 DEF NightsSoldInRange, Total
<1>5. QED
  BY <1>1, <1>4 DEF W

LEMMA OutlookHolds ==
  ASSUME Rows, NEW today \in Days, GetAnalyticsOutlook(today)
  PROVE  FreeExactly'
<1> DEFINE soon == today .. today + WeekLength - 1
           last == today + Max(Horizons) - 1
           ahead == today .. last
<1>1. /\ stay' = stay /\ booking' = booking /\ report'.page = "outlook" /\ report'.window = soon
      /\ report'.unsold = ListUnsoldNightsWithContext(soon)
      /\ report'.pace = PaceSeriesCumulative(ahead)
      /\ Max(Horizons) \in Horizons =>
           report'.horizons[Max(Horizons)].sold = NightsSoldInRange(ActiveStays(ahead), ahead)
  BY DEF GetAnalyticsOutlook, Horizon, portfolio
<1>2. /\ today \in Int /\ today + WeekLength - 1 \in Int /\ today <= today + WeekLength - 1
      /\ Max(Horizons) \in Horizons /\ last \in Int /\ today <= last
  <2>1. Max(Horizons) \in Nat /\ Max(Horizons) > 0 /\ Max(Horizons) \in Horizons
    BY LongestHorizon
  <2>2. today \in Nat /\ WeekLength \in Nat /\ WeekLength > 0
    BY CalendarAssumption DEF Days
  <2>3. QED
    BY <2>1, <2>2
<1>3. report'.unsold = {[date |-> d, prev |-> Before(d), next |-> After(d)] : d \in {e \in soon : ~SoldOn(e)}}
  BY <1>1, <1>2, UnsoldNights
<1>4. {u.date : u \in report'.unsold} = soon \ SoldNights
  <2> HIDE DEF soon
  <2>1. QED
    BY <1>3, NightsListed
<1>5. ASSUME NEW u \in report'.unsold
      PROVE  LET after == IF u.prev = None THEN 0 ELSE stay[u.prev].out
                 before == IF u.next = None THEN LastDay + WeekLength ELSE stay[u.next].in
             IN u.date \in after .. before - 1 /\ (after .. before - 1) \cap SoldNights = {}
  <2>1. PICK d \in soon : ~SoldOn(d) /\ u = [date |-> d, prev |-> Before(d), next |-> After(d)]
    BY <1>3
  <2>2. d \in Upto(d) .. From(d) - 1 /\ CalendarNights(Upto(d) .. From(d) - 1) = {}
    BY <2>1, NothingBetween
  <2>3. QED
    BY <2>1, <2>2, SoldDays DEF Upto, From
<1>6. report'.pace[Max(DOMAIN report'.pace)] = report'.horizons[Max(Horizons)].sold
  <2> HIDE DEF last
  <2>1. QED
    BY <1>1, <1>2, PaceEnds
<1> HIDE DEF soon, ahead
<1>7. FreeIn(report', stay, ListUnsoldNightsWithContext(report'.window), SoldNights)
  BY <1>1, <1>4, <1>5, <1>6 DEF FreeIn
<1>8. QED
  BY <1>1, <1>7, FreeLater

LEMMA DemandHolds ==
  ASSUME Rows, NEW from \in Days, NEW to \in Days, GetAnalyticsDemand(from, to)
  PROVE  FreeExactly'
<1> DEFINE W == from .. to - 1
           list == ListUnsoldNightsWithContext(W)
           touched == {u \in list : /\ u.prev # None /\ u.next # None
                                    /\ stay[u.prev].out = u.date /\ stay[u.next].in = u.date + 1}
<1>1. /\ from < to /\ stay' = stay /\ booking' = booking
      /\ report'.page = "demand" /\ report'.window = W
      /\ report'.gaps = ListGapNights(W) /\ report'.orphans = ListOrphanMidweek(W)
  BY DEF GetAnalyticsDemand, portfolio
<1>2. from \in Int /\ to - 1 \in Int /\ from <= to - 1
  BY <1>1, CalendarAssumption DEF Days
<1>3. list = {[date |-> d, prev |-> Before(d), next |-> After(d)] : d \in {e \in W : ~SoldOn(e)}}
  BY <1>2, UnsoldNights
<1>4. Occupied(W) = {d \in from - 1 .. to : SoldOn(d)}
  BY <1>2, OccupiedDays
<1>5. W \ Occupied(W) = {d \in W : ~SoldOn(d)}
  BY <1>2, <1>4
<1>6. {u.date : u \in list} = W \ SoldNights
  <2> HIDE DEF W, list
  <2>1. QED
    BY <1>3, NightsListed
<1>7. report'.gaps = {u.date : u \in touched}
  <2>1. \A d : d \in ListGapNights(W) <=> d \in W /\ ~SoldOn(d) /\ SoldOn(d - 1) /\ SoldOn(d + 1)
    <3>1. \A d \in W : d \in Int /\ d - 1 \in from - 1 .. to /\ d + 1 \in from - 1 .. to
      BY <1>2
    <3> HIDE DEF W
    <3>2. QED
      BY <1>4, <1>5, <3>1 DEF ListGapNights
  <2>2. \A d : d \in {u.date : u \in touched}
          <=> (/\ d \in W /\ ~SoldOn(d) /\ Before(d) # None /\ After(d) # None
               /\ stay[Before(d)].out = d /\ stay[After(d)].in = d + 1)
    <3> HIDE DEF list, W
    <3>1. \A u \in list : \E d \in W : /\ ~SoldOn(d) /\ u.date = d
                                       /\ u.prev = Before(d) /\ u.next = After(d)
      BY <1>3, NightsListed
    <3>2. ASSUME NEW d \in W, ~SoldOn(d)
          PROVE  \E u \in list : u.date = d /\ u.prev = Before(d) /\ u.next = After(d)
      <4> DEFINE u == [date |-> d, prev |-> Before(d), next |-> After(d)]
      <4>1. u \in list
        BY <1>3, <3>2
      <4>2. u.date = d /\ u.prev = Before(d) /\ u.next = After(d)
        OBVIOUS
      <4> HIDE DEF u
      <4>3. QED
        BY <4>1, <4>2
    <3>3. \A d : d \in {u.date : u \in touched} <=> \E u \in touched : d = u.date
      OBVIOUS
    <3>4. QED
      BY <3>1, <3>2, <3>3
  <2>3. \A d \in W : d \in Int
    BY <1>2
  <2> HIDE DEF touched, list, W
  <2>4. QED
    BY <1>1, <2>1, <2>2, <2>3, GapsAreTouched
<1>8. report'.gaps \cup report'.orphans \subseteq report'.window \ SoldNights
  <2>1. \A d \in ListOrphanMidweek(W) : d \in W \ Occupied(W)
    BY DEF ListOrphanMidweek
  <2>2. \A d \in ListGapNights(W) : d \in W \ Occupied(W)
    BY DEF ListGapNights
  <2> HIDE DEF list, W
  <2>3. QED
    BY <1>1, <1>5, <2>1, <2>2, SoldDays
<1> HIDE DEF list, W
<1>9. FreeIn(report', stay, ListUnsoldNightsWithContext(report'.window), SoldNights)
  BY <1>1, <1>7, <1>8 DEF FreeIn, list
<1>10. QED
  BY <1>1, <1>9, FreeLater

Accounted == Rows /\ PerformanceNights /\ FreeExactly

LEMMA AccountedInit == Init => Accounted
<1> SUFFICES ASSUME Init PROVE Accounted
  OBVIOUS
<1>1. report.page = "none" /\ Rows
  BY DEF Init, NoReport, Rows
<1>2. PerformanceNights
  BY <1>1 DEF PerformanceNights
<1>3. FreeExactly
  BY <1>1 DEF FreeExactly, FreeIn
<1>4. QED
  BY <1>1, <1>2, <1>3 DEF Accounted

LEMMA AccountedStep == Accounted /\ [Next]_vars => Accounted'
<1> SUFFICES ASSUME Accounted, [Next]_vars PROVE Accounted'
  OBVIOUS
<1>1. stay' = stay /\ closure' = closure /\ booking' = booking
  BY DEF Next, GetAnalyticsPerformance, GetAnalyticsDemand, GetAnalyticsOutlook,
         GetAnalyticsPace, GetFinanceRevenueRecognition, portfolio, vars
<1>2. Rows'
  BY <1>1 DEF Accounted, Rows, SoldOnce, Night, Blocked
<1>3. Rows
  BY DEF Accounted
<1>4. report'.page # "performance" => PerformanceNights'
  BY DEF PerformanceNights
<1>5. report'.page \notin {"outlook", "demand"} => FreeExactly'
  BY DEF FreeExactly, FreeIn
<1>6. CASE UNCHANGED vars
  <2>1. report' = report
    BY <1>6 DEF vars
  <2>2. PerformanceNights'
    <3>1. CalendarNights(report.window)' = CalendarNights(report.window)
      BY <1>1, <2>1 DEF CalendarNights, CountsAsSold, Sellable, Linked, Night
    <3>2. QED
      BY <2>1, <3>1 DEF Accounted, PerformanceNights, Sum, Total, SumFunction, AllDays
  <2>3. FreeExactly'
    BY <1>1, <2>1, FreeLater DEF Accounted, FreeExactly, Listed
  <2>4. QED
    BY <1>2, <2>2, <2>3 DEF Accounted
<1>7. ASSUME NEW from \in Days, NEW to \in Days, GetAnalyticsPerformance(from, to)
      PROVE  Accounted'
  <2>1. report'.page = "performance"
    BY <1>7 DEF GetAnalyticsPerformance
  <2>2. QED
    BY <1>2, <1>3, <1>5, <1>7, <2>1, PerformanceHolds DEF Accounted
<1>8. ASSUME NEW today \in Days, GetAnalyticsOutlook(today) PROVE Accounted'
  <2>1. report'.page = "outlook"
    BY <1>8 DEF GetAnalyticsOutlook
  <2>2. QED
    BY <1>2, <1>3, <1>4, <1>8, <2>1, OutlookHolds DEF Accounted
<1>9. ASSUME NEW from \in Days, NEW to \in Days, GetAnalyticsDemand(from, to)
      PROVE  Accounted'
  <2>1. report'.page = "demand"
    BY <1>9 DEF GetAnalyticsDemand
  <2>2. QED
    BY <1>2, <1>3, <1>4, <1>9, <2>1, DemandHolds DEF Accounted
<1>10. ASSUME NEW m \in Months, GetAnalyticsPace(m) \/ GetFinanceRevenueRecognition(m)
       PROVE  Accounted'
  <2>1. report'.page \in {"pace", "recognition"}
    BY <1>10 DEF GetAnalyticsPace, GetFinanceRevenueRecognition
  <2>2. QED
    BY <1>2, <1>4, <1>5, <2>1 DEF Accounted
<1>11. QED
  BY <1>6, <1>7, <1>8, <1>9, <1>10 DEF Next

(* NightsAgree: headline, months, weeks, weekdays, calendar, outlook and   *)
(* demand count the nights by queries of their own (analytics.go,          *)
(* occupancy_nights.go, stay_calendar.go); whatever the portfolio is, they *)
(* give the same account, as long as no night is sold twice or sold and    *)
(* blocked.                                                                *)
THEOREM NightsCorrect == Spec => []NightsAgree
<1>1. Accounted => NightsAgree
  BY FreeFollows DEF Accounted, NightsAgree
<1>2. QED
  BY <1>1, AccountedInit, AccountedStep, PTL DEF Spec

-----------------------------------------------------------------------------
(* Revenue and bookings.                                                   *)
Books ==
  Rows /\ booking \in [Bookings -> Booking] /\ evidence \subseteq Evidence

LEMMA MoneyFinite ==
  ASSUME Books, NEW W
  PROVE  /\ Payouts(W) \in SUBSET Bookings /\ IsFiniteSet(Payouts(W))
         /\ ManualSales(W) \in SUBSET Stays /\ IsFiniteSet(ManualSales(W))
         /\ Matched(W) \in SUBSET Stays /\ IsFiniteSet(Matched(W))
         /\ ActiveStays(W) \in SUBSET Stays /\ IsFiniteSet(ActiveStays(W))
         /\ \A b \in Bookings : booking[b].gross \in Int
         /\ \A s \in ManualSales(W) : stay[s].revenue \in Int
<1>1. Payouts(W) \in SUBSET Bookings /\ ManualSales(W) \in SUBSET Stays
  BY DEF Payouts, ManualSales
<1>2. \A b \in Payouts(W) : StayOf(b) \in Stays
  BY DEF Books, Booking, Payouts, StayOf
<1>3. Matched(W) \in SUBSET Stays
  BY <1>1, <1>2 DEF Matched
<1>4. \A b \in Bookings : booking[b].gross \in Int
  BY DEF Books, Booking
<1>5. \A s \in ManualSales(W) : stay[s].revenue \in Int
  BY DEF ManualSales, Books, Rows, Stay
<1>6. ActiveStays(W) \in SUBSET Stays
  BY DEF ActiveStays
<1>7. QED
  BY <1>1, <1>3, <1>4, <1>5, <1>6, StaysFinite, CalendarAssumption, FS_Subset

LEMMA GrossIs ==
  ASSUME NEW W
  PROVE  Gross(W) = SumFunctionOnSet([b \in Payouts(W) |-> booking[b].gross], Payouts(W))
                    + SumFunctionOnSet([s \in ManualSales(W) |-> stay[s].revenue], ManualSales(W))
BY DEF Gross, Total, SumFunction

(* c sorts the days W into the cells K, of revenue v.                      *)
GrossInto(W, K, c, v) ==
  /\ \A d \in W : c[d] \in K
  /\ \A k \in K : v[k] = Gross({d \in W : c[d] = k})

(* Both sums of Gross, over all rows and over those of one cell of days.   *)
LEMMA GrossByCell ==
  ASSUME Books, NEW W, NEW K, IsFiniteSet(K), NEW c, NEW v, GrossInto(W, K, c, v)
  PROVE  SumFunctionOnSet(v, K) = Gross(W)
<1> USE DEF GrossInto
<1> DEFINE P == Payouts(W)
           M == ManualSales(W)
           g == [b \in P |-> booking[b].gross]
           h == [s \in M |-> stay[s].revenue]
           cb == [b \in P |-> c[stay[StayOf(b)].in]]
           cs == [s \in M |-> c[stay[s].in]]
           gv == [k \in K |-> SumFunctionOnSet(g, {b \in P : cb[b] = k})]
           hv == [k \in K |-> SumFunctionOnSet(h, {s \in M : cs[s] = k})]
<1>1. /\ IsFiniteSet(P) /\ IsFiniteSet(M)
      /\ \A b \in P : g[b] \in Int /\ cb[b] \in K
      /\ \A s \in M : h[s] \in Int /\ cs[s] \in K
  <2>1. \A b \in P : c[stay[StayOf(b)].in] \in K
    BY DEF Payouts, Arrives
  <2>2. \A s \in M : c[stay[s].in] \in K
    BY DEF ManualSales, Arrives
  <2>3. QED
    BY <2>1, <2>2, MoneyFinite
<1>2. ASSUME NEW k \in K
      PROVE  gv[k] \in Int /\ hv[k] \in Int /\ v[k] = gv[k] + hv[k]
  <2> DEFINE D == {d \in W : c[d] = k}
  <2>1. Payouts(D) = {b \in P : cb[b] = k}
    BY DEF Payouts, Arrives
  <2>2. ManualSales(D) = {s \in M : cs[s] = k}
    BY DEF ManualSales, Arrives
  <2>3. /\ SumFunctionOnSet([b \in Payouts(D) |-> booking[b].gross], Payouts(D))
             = SumFunctionOnSet(g, Payouts(D))
        /\ SumFunctionOnSet(g, Payouts(D)) \in Int
    <3> DEFINE T == Payouts(D)
               w == [b \in T |-> booking[b].gross]
    <3>1. IsFiniteSet(T) /\ T \in SUBSET P /\ \A b \in T : g[b] \in Int /\ w[b] = g[b]
      BY <1>1, <2>1, MoneyFinite
    <3> HIDE DEF T, w, g
    <3>2. QED
      BY <3>1, SumSame, SumInt DEF T, w
  <2>4. /\ SumFunctionOnSet([s \in ManualSales(D) |-> stay[s].revenue], ManualSales(D))
             = SumFunctionOnSet(h, ManualSales(D))
        /\ SumFunctionOnSet(h, ManualSales(D)) \in Int
    <3> DEFINE T == ManualSales(D)
               w == [s \in T |-> stay[s].revenue]
    <3>1. IsFiniteSet(T) /\ T \in SUBSET M /\ \A s \in T : h[s] \in Int /\ w[s] = h[s]
      BY <1>1, <2>2, MoneyFinite
    <3> HIDE DEF T, w, h
    <3>2. QED
      BY <3>1, SumSame, SumInt DEF T, w
  <2>5. v[k] = Gross(D)
    OBVIOUS
  <2> HIDE DEF D, g, h, P, M, cb, cs
  <2>6. QED
    BY <2>1, <2>2, <2>3, <2>4, <2>5, GrossIs
<1>3. SumFunctionOnSet(gv, K) = SumFunctionOnSet(g, P)
  <2>1. AddedInto(P, g, K, cb, gv)
    BY <1>1 DEF AddedInto
  <2> HIDE DEF gv, g, cb, P
  <2>2. QED
    BY <1>1, <2>1, SumByCell
<1>4. SumFunctionOnSet(hv, K) = SumFunctionOnSet(h, M)
  <2>1. AddedInto(M, h, K, cs, hv)
    BY <1>1 DEF AddedInto
  <2> HIDE DEF hv, h, cs, M
  <2>2. QED
    BY <1>1, <2>1, SumByCell
<1> HIDE DEF gv, hv
<1>5. SumFunctionOnSet(v, K) = SumFunctionOnSet(gv, K) + SumFunctionOnSet(hv, K)
  BY <1>2, SumPlus
<1>6. QED
  BY <1>3, <1>4, <1>5, GrossIs

(* What each stay brings adds up to the gross of its window.               *)
OwnPayouts(s, W) == {b \in Payouts(W) : StayOf(b) = s}

LEMMA RevenueIs ==
  ASSUME NEW W, NEW s
  PROVE  RevenueOf(s, W)
           = SumFunctionOnSet([b \in OwnPayouts(s, W) |-> booking[b].gross], OwnPayouts(s, W))
             + (IF s \in ManualSales(W) THEN stay[s].revenue ELSE 0)
BY DEF RevenueOf, OwnPayouts, Total, SumFunction

LEMMA RevenueParts ==
  ASSUME Books, NEW W, NEW s
  PROVE  /\ SumFunctionOnSet([b \in OwnPayouts(s, W) |-> booking[b].gross], OwnPayouts(s, W))
              = SumFunctionOnSet([b \in Payouts(W) |-> booking[b].gross], OwnPayouts(s, W))
         /\ SumFunctionOnSet([b \in Payouts(W) |-> booking[b].gross], OwnPayouts(s, W)) \in Int
         /\ RevenueOf(s, W) \in Int
<1> DEFINE P == Payouts(W)
           T == OwnPayouts(s, W)
           g == [b \in P |-> booking[b].gross]
           w == [b \in T |-> booking[b].gross]
<1>1. T \in SUBSET P /\ IsFiniteSet(T)
  <2>1. T \in SUBSET P
    BY DEF OwnPayouts
  <2> HIDE DEF T, P
  <2>2. QED
    BY <2>1, MoneyFinite, FS_Subset DEF P
<1>2. \A b \in T : g[b] \in Int /\ w[b] = g[b]
  BY <1>1, MoneyFinite
<1>3. SumFunctionOnSet(w, T) = SumFunctionOnSet(g, T) /\ SumFunctionOnSet(g, T) \in Int
  <2> HIDE DEF T, g, w
  <2>1. QED
    BY <1>1, <1>2, SumSame, SumInt
<1>4. (IF s \in ManualSales(W) THEN stay[s].revenue ELSE 0) \in Int
  BY MoneyFinite
<1>5. QED
  BY <1>3, <1>4, RevenueIs

LEMMA RevenueAddsUp ==
  ASSUME Books, NEW W
  PROVE  Total(LAMBDA s : RevenueOf(s, W), Matched(W)) = Gross(W)
<1> DEFINE P == Payouts(W)
           M == ManualSales(W)
           S == Matched(W)
           g == [b \in P |-> booking[b].gross]
           h == [s \in M |-> stay[s].revenue]
           c == [b \in P |-> StayOf(b)]
           paid == [s \in S |-> SumFunctionOnSet(g, {b \in P : c[b] = s})]
           priced == [s \in S |-> IF s \in M THEN stay[s].revenue ELSE 0]
           all == [s \in S |-> RevenueOf(s, W)]
<1>1. Total(LAMBDA s : RevenueOf(s, W), Matched(W)) = SumFunctionOnSet(all, S)
  BY DEF Total, SumFunction
<1>2. /\ IsFiniteSet(P) /\ IsFiniteSet(M) /\ IsFiniteSet(S) /\ M \in SUBSET S
      /\ \A b \in P : g[b] \in Int /\ c[b] \in S
      /\ \A s \in M : h[s] \in Int /\ priced[s] = h[s]
      /\ \A s \in S : priced[s] \in Int /\ (s \notin M => priced[s] = 0)
  <2>1. M \in SUBSET S /\ \A b \in P : c[b] \in S
    BY DEF Matched
  <2>2. QED
    BY <2>1, MoneyFinite
<1>3. \A s \in S : /\ paid[s] \in Int
                   /\ all[s] = paid[s] + priced[s]
  <2>1. ASSUME NEW s \in S PROVE OwnPayouts(s, W) = {b \in P : c[b] = s}
    BY DEF OwnPayouts
  <2>2. QED
    BY <2>1, RevenueIs, RevenueParts
<1>4. SumFunctionOnSet(paid, S) = SumFunctionOnSet(g, P)
  <2>1. AddedInto(P, g, S, c, paid)
    BY <1>2 DEF AddedInto
  <2> HIDE DEF P, S, g, c, paid
  <2>2. QED
    BY <1>2, <2>1, SumByCell
<1> HIDE DEF paid, all, g, priced, c, h
<1>5. SumFunctionOnSet(priced, S) = SumFunctionOnSet(h, M)
  <2>1. SumFunctionOnSet(priced, S) = SumFunctionOnSet(priced, M) + SumFunctionOnSet(priced, S \ M)
    <3> HIDE DEF S, M
    <3>1. QED
      BY <1>2, SumSplits
  <2>2. SumFunctionOnSet(priced, S \ M) = 0
    <3> DEFINE R == S \ M
    <3>1. IsFiniteSet(R) /\ \A s \in R : priced[s] = 0
      BY <1>2, FS_Subset
    <3> HIDE DEF R
    <3>2. SumFunctionOnSet(priced, R) = 0
      BY <3>1, SumZero
    <3>3. QED
      BY <3>2 DEF R
  <2>3. SumFunctionOnSet(priced, M) = SumFunctionOnSet(h, M) /\ SumFunctionOnSet(h, M) \in Int
    <3> HIDE DEF S, M
    <3>1. QED
      BY <1>2, SumSame, SumInt
  <2>4. QED
    BY <2>1, <2>2, <2>3
<1>6. SumFunctionOnSet(all, S) = SumFunctionOnSet(paid, S) + SumFunctionOnSet(priced, S)
  <2> HIDE DEF S
  <2>1. QED
    BY <1>2, <1>3, SumPlus
<1>7. QED
  BY <1>1, <1>4, <1>5, <1>6, GrossIs DEF g, h

(* Rates by month of arrival and by lead time: c gives the cell of a stay. *)
StayNights(W) == Total(LAMBDA s : Cardinality(Night(s)), Matched(W))

RatesBy(chart, W, K, c) ==
  /\ DOMAIN chart = K /\ \A s \in Matched(W) : c[s] \in K
  /\ \A k \in K :
       LET of == {s \in Matched(W) : c[s] = k}
       IN /\ chart[k].gross = SumFunctionOnSet([s \in of |-> RevenueOf(s, W)], of)
          /\ chart[k].nights = SumFunctionOnSet([s \in of |-> Cardinality(Night(s))], of)

LEMMA NightsFinite ==
  ASSUME Rows, NEW s \in Stays
  PROVE  IsFiniteSet(Night(s)) /\ Cardinality(Night(s)) \in Nat
<1>1. Night(s) \in SUBSET AllDays
  BY StayDates
<1>2. QED
  BY <1>1, AllDaysFinite, FS_Subset, FS_CardinalityType

LEMMA RatesAddUp ==
  ASSUME Books, NEW W, NEW K, IsFiniteSet(K), NEW c, NEW chart, RatesBy(chart, W, K, c)
  PROVE  Sum(chart, "gross") = Gross(W) /\ Sum(chart, "nights") = StayNights(W)
<1> DEFINE S == Matched(W)
           of(k) == {s \in S : c[s] = k}
           r == [s \in S |-> RevenueOf(s, W)]
           n == [s \in S |-> Cardinality(Night(s))]
           gross == [k \in K |-> chart[k].gross]
           nights == [k \in K |-> chart[k].nights]
<1>1. /\ Sum(chart, "gross") = SumFunctionOnSet(gross, K)
      /\ Sum(chart, "nights") = SumFunctionOnSet(nights, K)
  BY DEF Sum, Total, SumFunction, RatesBy
<1>2. /\ IsFiniteSet(S) /\ \A s \in S : c[s] \in K
      /\ \A s \in S : r[s] \in Int /\ n[s] \in Int
  <2>1. IsFiniteSet(S) /\ \A s \in S : s \in Stays /\ RevenueOf(s, W) \in Int
    BY MoneyFinite, RevenueParts
  <2>2. \A s \in S : Cardinality(Night(s)) \in Int
    BY <2>1, NightsFinite DEF Books
  <2>3. \A s \in S : c[s] \in K
    BY DEF RatesBy
  <2>4. QED
    BY <2>1, <2>2, <2>3
<1>3. ASSUME NEW k \in K
      PROVE  /\ gross[k] = SumFunctionOnSet(r, of(k))
             /\ nights[k] = SumFunctionOnSet(n, of(k))
  <2> DEFINE T == of(k)
             u == [s \in T |-> RevenueOf(s, W)]
             v == [s \in T |-> Cardinality(Night(s))]
  <2>1. gross[k] = SumFunctionOnSet(u, T) /\ nights[k] = SumFunctionOnSet(v, T)
    BY DEF RatesBy
  <2>2. IsFiniteSet(T)
    <3>1. T \in SUBSET S
      OBVIOUS
    <3> HIDE DEF T, S
    <3>2. QED
      BY <1>2, <3>1, FS_Subset
  <2>3. \A s \in T : r[s] \in Int /\ n[s] \in Int /\ u[s] = r[s] /\ v[s] = n[s]
    BY <1>2
  <2> HIDE DEF T, u, v, r, n
  <2>4. SumFunctionOnSet(u, T) = SumFunctionOnSet(r, T) /\ SumFunctionOnSet(v, T) = SumFunctionOnSet(n, T)
    BY <2>2, <2>3, SumSame
  <2>5. QED
    BY <2>1, <2>4 DEF T
<1>4. AddedInto(S, r, K, c, gross) /\ AddedInto(S, n, K, c, nights)
  BY <1>2, <1>3 DEF AddedInto
<1>5. SumFunctionOnSet(r, S) = Gross(W) /\ SumFunctionOnSet(n, S) = StayNights(W)
  <2>1. SumFunctionOnSet(r, S) = Total(LAMBDA s : RevenueOf(s, W), Matched(W))
    BY DEF Total, SumFunction
  <2>2. SumFunctionOnSet(n, S) = StayNights(W)
    BY DEF StayNights, Total, SumFunction
  <2>3. QED
    BY <2>1, <2>2, RevenueAddsUp
<1> HIDE DEF S, r, n, gross, nights
<1>6. SumFunctionOnSet(gross, K) = SumFunctionOnSet(r, S) /\ SumFunctionOnSet(nights, K) = SumFunctionOnSet(n, S)
  BY <1>2, <1>4, SumByCell
<1>7. QED
  BY <1>1, <1>5, <1>6

LEMMA RatesByMonth ==
  ASSUME Books, NEW W
  PROVE  /\ Sum(ADRByMonth(W), "gross") = Gross(W)
         /\ Sum(ADRByMonth(W), "nights") = StayNights(W)
<1> DEFINE S == Matched(W)
           K == {Month(stay[s].in) : s \in S}
           c == [s \in S |-> Month(stay[s].in)]
           chart == ADRByMonth(W)
<1>1. RatesBy(chart, W, K, c)
  <2>1. DOMAIN chart = K /\ \A s \in S : c[s] \in K
    BY DEF ADRByMonth, ADRBy
  <2>2. ASSUME NEW k \in K
        PROVE  LET of == {s \in S : c[s] = k}
               IN /\ chart[k].gross = SumFunctionOnSet([s \in of |-> RevenueOf(s, W)], of)
                  /\ chart[k].nights = SumFunctionOnSet([s \in of |-> Cardinality(Night(s))], of)
    <3>1. {s \in S : c[s] = k} = {s \in S : Month(stay[s].in) = k}
      OBVIOUS
    <3>2. QED
      BY <3>1 DEF ADRByMonth, ADRBy, Rate, Total, SumFunction
  <2>3. QED
    BY <2>1, <2>2 DEF RatesBy
<1>2. IsFiniteSet(K)
  <2>1. \A k : k \in K <=> \E s \in S : k = c[s]
    OBVIOUS
  <2>2. IsFiniteSet(S)
    BY MoneyFinite
  <2> HIDE DEF S, K, c
  <2>3. QED
    BY <2>1, <2>2, CellsFinite
<1> HIDE DEF K, c, chart
<1>3. Sum(chart, "gross") = Gross(W) /\ Sum(chart, "nights") = StayNights(W)
  BY <1>1, <1>2, RatesAddUp
<1>4. QED
  BY <1>3 DEF chart

(* No number exceeds more bounds than there are.                           *)
LEMMA BucketIn ==
  ASSUME NEW bounds, IsFiniteSet(bounds), NEW n
  PROVE  Bucket(n, bounds) \in Buckets(bounds) /\ IsFiniteSet(Buckets(bounds))
<1> DEFINE T == {b \in bounds : b < n}
<1>1. T \in SUBSET bounds
  OBVIOUS
<1>2. Bucket(n, bounds) = Cardinality(T)
  BY DEF Bucket
<1> HIDE DEF T
<1>3. /\ Cardinality(T) \in Nat /\ Cardinality(bounds) \in Nat
      /\ Cardinality(T) <= Cardinality(bounds)
  BY <1>1, FS_Subset, FS_CardinalityType
<1>4. IsFiniteSet(0 .. Cardinality(bounds))
  BY <1>3, FS_Interval
<1>5. QED
  BY <1>2, <1>3, <1>4 DEF Buckets

LEMMA RatesByLead ==
  ASSUME Books, NEW W
  PROVE  /\ Sum(ADRByLead(W), "gross") = Gross(W)
         /\ Sum(ADRByLead(W), "nights") = StayNights(W)
<1> DEFINE S == Matched(W)
           K == Buckets(LeadBounds)
           c == [s \in S |-> Bucket(LeadDays(s), LeadBounds)]
           chart == ADRByLead(W)
<1>1. RatesBy(chart, W, K, c)
  <2>1. DOMAIN chart = K
    BY DEF ADRByLead, ADRBy
  <2>2. \A s \in S : c[s] \in K
    BY BucketIn, CalendarAssumption
  <2>3. ASSUME NEW k \in K
        PROVE  LET of == {s \in S : c[s] = k}
               IN /\ chart[k].gross = SumFunctionOnSet([s \in of |-> RevenueOf(s, W)], of)
                  /\ chart[k].nights = SumFunctionOnSet([s \in of |-> Cardinality(Night(s))], of)
    <3>1. {s \in S : c[s] = k} = {s \in S : Bucket(LeadDays(s), LeadBounds) = k}
      OBVIOUS
    <3>2. QED
      BY <3>1 DEF ADRByLead, ADRBy, Rate, Total, SumFunction
  <2>4. QED
    BY <2>1, <2>2, <2>3 DEF RatesBy
<1>2. IsFiniteSet(K)
  BY BucketIn, CalendarAssumption
<1> HIDE DEF K, c, chart
<1>3. Sum(chart, "gross") = Gross(W) /\ Sum(chart, "nights") = StayNights(W)
  BY <1>1, <1>2, RatesAddUp
<1>4. QED
  BY <1>3 DEF chart

(* Rates by weekday: a stay's revenue is spread evenly over its nights.    *)
On(s, k) == Cardinality({d \in Night(s) : Weekday(d) = k})

LEMMA NightsByWeekday ==
  ASSUME Rows, NEW s \in Stays
  PROVE  LET K == {Weekday(d) : d \in Days}
             w == [k \in K |-> On(s, k)]
         IN /\ IsFiniteSet(K) /\ \A k \in K : w[k] \in Nat
            /\ SumFunctionOnSet(w, K) = Cardinality(Night(s))
<1> DEFINE K == {Weekday(d) : d \in Days}
           U == Night(s)
           c == [d \in Days |-> Weekday(d)]
           w == [k \in K |-> On(s, k)]
<1>1. IsFiniteSet(U) /\ U \in SUBSET Days
  BY NightsFinite, StayDates, CalendarAssumption DEF AllDays, Days
<1>2. IsFiniteSet(K)
  <2>1. \A k : k \in K <=> \E d \in Days : k = c[d]
    OBVIOUS
  <2> HIDE DEF K, c
  <2>2. QED
    BY <2>1, AllDaysFinite, CellsFinite
<1>3. ASSUME NEW k \in K
      PROVE  w[k] = Cardinality({d \in U : c[d] = k}) /\ w[k] \in Nat
  <2> DEFINE T == {d \in U : c[d] = k}
  <2>1. T = {d \in U : Weekday(d) = k} /\ T \in SUBSET U
    BY <1>1
  <2>2. w[k] = Cardinality(T)
    BY <2>1 DEF On
  <2>3. Cardinality(T) \in Nat
    <3> HIDE DEF T, U
    <3>1. QED
      BY <1>1, <2>1, FS_Subset, FS_CardinalityType
  <2>4. QED
    BY <2>2, <2>3
<1>4. \A d \in U : c[d] \in K
  BY <1>1
<1>5. SortedInto(U, K, c, w)
  BY <1>3, <1>4 DEF SortedInto
<1> HIDE DEF U, K, c, w
<1>6. SumFunctionOnSet(w, K) = Cardinality(U)
  BY <1>1, <1>2, <1>5, SumOfCells
<1>7. QED
  BY <1>2, <1>3, <1>6 DEF U, K, w

(* What rounding takes from a stay is less than a cent for each night.     *)
LEMMA SpreadIsClose ==
  ASSUME Books, NEW W, NEW s \in Matched(W)
  PROVE  LET n == Cardinality(Night(s))
         IN /\ n \in Nat /\ PerNight(s, W) \in Int /\ PerNight(s, W) * n \in Int
            /\ RevenueOf(s, W) \in Int
            /\ RevenueOf(s, W) - PerNight(s, W) * n \in -n .. n
<1> DEFINE n == Cardinality(Night(s))
           r == RevenueOf(s, W)
           q == Quotient(r, n)
<1>1. s \in Stays /\ r \in Int
  BY MoneyFinite, RevenueParts
<1>2. n \in Nat /\ n > 0
  <2>1. Night(s) # {} /\ IsFiniteSet(Night(s))
    <3>1. Night(s) # {}
      BY DEF Matched, Payouts, ManualSales, Counted
    <3>2. QED
      BY <1>1, <3>1, NightsFinite DEF Books
  <2>2. QED
    BY <1>1, <2>1, FS_EmptySet, FS_CardinalityType
<1>3. PerNight(s, W) = q
  BY DEF PerNight
<1> HIDE DEF n, r
<1>4. /\ q \in Int /\ Remainder(r, n) \in Int /\ r = n * q + Remainder(r, n)
      /\ r >= 0 => Remainder(r, n) \in 0 .. n - 1
      /\ r < 0 => -Remainder(r, n) \in 0 .. n - 1
  BY <1>1, <1>2, Division
<1> HIDE DEF q
<1>5. q * n \in Int /\ q * n = n * q
  BY <1>2, <1>4
<1>6. r - q * n \in -n .. n
  BY <1>1, <1>2, <1>4, <1>5
<1>7. QED
  BY <1>1, <1>2, <1>3, <1>4, <1>5, <1>6 DEF n, r

LEMMA RatesByWeekday ==
  ASSUME Books, NEW W
  PROVE  /\ Sum(ADRByWeekday(W), "nights") = StayNights(W)
         /\ Gross(W) - Sum(ADRByWeekday(W), "gross") \in -StayNights(W) .. StayNights(W)
<1> DEFINE S == Matched(W)
           K == {Weekday(d) : d \in Days}
           chart == ADRByWeekday(W)
           count == [s \in S |-> [k \in K |-> On(s, k)]]
           money == [s \in S |-> [k \in K |-> PerNight(s, W) * On(s, k)]]
           n == [s \in S |-> Cardinality(Night(s))]
           even == [s \in S |-> PerNight(s, W) * Cardinality(Night(s))]
           r == [s \in S |-> RevenueOf(s, W)]
           nights == [k \in K |-> chart[k].nights]
           gross == [k \in K |-> chart[k].gross]
<1>1. /\ Sum(chart, "nights") = SumFunctionOnSet(nights, K)
      /\ Sum(chart, "gross") = SumFunctionOnSet(gross, K)
  BY DEF Sum, Total, SumFunction, ADRByWeekday
<1>2. IsFiniteSet(S) /\ S \in SUBSET Stays
  BY MoneyFinite
<1>3. IsFiniteSet(K)
  <2> DEFINE c == [d \in Days |-> Weekday(d)]
  <2>1. \A k : k \in K <=> \E d \in Days : k = c[d]
    OBVIOUS
  <2> HIDE DEF K, c
  <2>2. QED
    BY <2>1, AllDaysFinite, CellsFinite
<1>4. ASSUME NEW s \in S
      PROVE  /\ \A k \in K : On(s, k) \in Nat
             /\ SumFunctionOnSet(count[s], K) = n[s]
  BY <1>2, NightsByWeekday DEF Books
<1>5. ASSUME NEW s \in S
      PROVE  /\ \A k \in K : PerNight(s, W) * On(s, k) \in Int
             /\ SumFunctionOnSet(money[s], K) = even[s]
  <2> DEFINE p == PerNight(s, W)
             f == count[s]
             v == money[s]
  <2>1. p \in Int
    BY SpreadIsClose
  <2>2. \A k \in K : f[k] = On(s, k) /\ On(s, k) \in Nat /\ v[k] = p * On(s, k)
    BY <1>4
  <2>3. SumFunctionOnSet(f, K) = Cardinality(Night(s))
    BY <1>4
  <2>4. even[s] = p * Cardinality(Night(s))
    OBVIOUS
  <2>5. PerNight(s, W) = p
    OBVIOUS
  <2> HIDE DEF K, p, f, v, even
  <2>6. \A k \in K : p * On(s, k) \in Int
    BY <2>1, <2>2
  <2>7. SumFunctionOnSet(v, K) = p * SumFunctionOnSet(f, K)
    BY <1>3, <2>1, <2>2, SumScaled
  <2>8. QED
    BY <2>3, <2>4, <2>5, <2>6, <2>7 DEF v
<1>6. ASSUME NEW k \in K
      PROVE  /\ nights[k] = SumFunctionOnSet([s \in S |-> count[s][k]], S)
             /\ gross[k] = SumFunctionOnSet([s \in S |-> money[s][k]], S)
  <2>1. /\ [s \in S |-> count[s][k]] = [s \in S |-> On(s, k)]
        /\ [s \in S |-> money[s][k]] = [s \in S |-> PerNight(s, W) * On(s, k)]
    OBVIOUS
  <2>2. /\ nights[k] = SumFunctionOnSet([s \in S |-> On(s, k)], S)
        /\ gross[k] = SumFunctionOnSet([s \in S |-> PerNight(s, W) * On(s, k)], S)
    BY DEF ADRByWeekday, Rate, Total, SumFunction, On
  <2>3. QED
    BY <2>1, <2>2
<1>7. Table(count, S, K, n, nights) /\ Table(money, S, K, even, gross)
  <2>1. Table(count, S, K, n, nights)
    <3>1. ASSUME NEW s \in S, NEW k \in K PROVE count[s][k] \in Int
      <4>1. count[s][k] = On(s, k)
        OBVIOUS
      <4>2. On(s, k) \in Nat
        BY <1>4
      <4>3. QED
        BY <4>1, <4>2
    <3> HIDE DEF count, n, nights, S, K
    <3>2. QED
      BY <1>4, <1>6, <3>1 DEF Table
  <2>2. Table(money, S, K, even, gross)
    BY <1>5, <1>6 DEF Table
  <2>3. QED
    BY <2>1, <2>2
<1>8. /\ SumFunctionOnSet(n, S) = StayNights(W)
      /\ SumFunctionOnSet(r, S) = Gross(W)
  <2>1. SumFunctionOnSet(r, S) = Total(LAMBDA s : RevenueOf(s, W), Matched(W))
    BY DEF Total, SumFunction
  <2>2. SumFunctionOnSet(n, S) = StayNights(W)
    BY DEF StayNights, Total, SumFunction
  <2>3. QED
    BY <2>1, <2>2, RevenueAddsUp
<1>9. \A s \in S : n[s] \in Nat /\ even[s] \in Int /\ r[s] \in Int /\ r[s] - even[s] \in -n[s] .. n[s]
  BY SpreadIsClose
<1> HIDE DEF S, K, count, money, n, even, r, nights, gross, chart
<1>10. /\ SumFunctionOnSet(nights, K) = SumFunctionOnSet(n, S)
       /\ SumFunctionOnSet(gross, K) = SumFunctionOnSet(even, S)
  BY <1>2, <1>3, <1>7, SumBothWays
<1>11. SumFunctionOnSet(r, S) - SumFunctionOnSet(even, S)
         \in -SumFunctionOnSet(n, S) .. SumFunctionOnSet(n, S)
  <2> DEFINE low == [s \in S |-> even[s] - n[s]]
             minus == [s \in S |-> -n[s]]
             high == [s \in S |-> even[s] + n[s]]
  <2>1. \A s \in S : /\ even[s] \in Int /\ n[s] \in Int /\ r[s] \in Int /\ minus[s] \in Int
                     /\ minus[s] = (-1) * n[s]
                     /\ low[s] \in Int /\ low[s] = even[s] + minus[s] /\ low[s] <= r[s]
                     /\ high[s] \in Int /\ high[s] = even[s] + n[s] /\ r[s] <= high[s]
    BY <1>9
  <2> HIDE DEF low, high, minus
  <2>2. SumFunctionOnSet(low, S) <= SumFunctionOnSet(r, S) /\ SumFunctionOnSet(r, S) <= SumFunctionOnSet(high, S)
    BY <1>2, <2>1, SumBelow
  <2>3. /\ SumFunctionOnSet(low, S) = SumFunctionOnSet(even, S) + SumFunctionOnSet(minus, S)
        /\ SumFunctionOnSet(high, S) = SumFunctionOnSet(even, S) + SumFunctionOnSet(n, S)
    BY <1>2, <2>1, SumPlus
  <2>4. SumFunctionOnSet(minus, S) = (-1) * SumFunctionOnSet(n, S)
    BY <1>2, <2>1, SumScaled
  <2>5. /\ SumFunctionOnSet(even, S) \in Int /\ SumFunctionOnSet(n, S) \in Int
        /\ SumFunctionOnSet(r, S) \in Int
    BY <1>2, <2>1, SumInt
  <2>6. QED
    BY <2>2, <2>3, <2>4, <2>5
<1>12. QED
  BY <1>1, <1>8, <1>10, <1>11 DEF chart

(* Every stay has one lead time and one length.                            *)
LEMMA BucketsAgree ==
  ASSUME Books, NEW W
  PROVE  LET lead == ListLeadTimeBuckets(W)
             los == ListLengthOfStayBuckets(W)
         IN /\ Total(LAMBDA b : lead[b], DOMAIN lead) = Cardinality(ActiveStays(W))
            /\ Total(LAMBDA b : los[b], DOMAIN los) = Cardinality(ActiveStays(W))
<1> DEFINE S == ActiveStays(W)
           lead == ListLeadTimeBuckets(W)
           los == ListLengthOfStayBuckets(W)
           days == [s \in S |-> Bucket(LeadDays(s), LeadBounds)]
           nights == [s \in S |-> Bucket(Cardinality(Night(s)), LosBounds)]
<1>1. /\ Total(LAMBDA b : lead[b], DOMAIN lead)
           = SumFunctionOnSet([b \in Buckets(LeadBounds) |-> lead[b]], Buckets(LeadBounds))
      /\ Total(LAMBDA b : los[b], DOMAIN los)
           = SumFunctionOnSet([b \in Buckets(LosBounds) |-> los[b]], Buckets(LosBounds))
  BY DEF ListLeadTimeBuckets, ListLengthOfStayBuckets, Total, SumFunction
<1>2. IsFiniteSet(S)
  BY MoneyFinite
<1>3. SumFunctionOnSet([b \in Buckets(LeadBounds) |-> lead[b]], Buckets(LeadBounds)) = Cardinality(S)
  <2> DEFINE K == Buckets(LeadBounds)
             w == [b \in K |-> lead[b]]
  <2>1. IsFiniteSet(K) /\ \A s \in S : days[s] \in K
    BY BucketIn, CalendarAssumption
  <2>2. ASSUME NEW k \in K PROVE w[k] = Cardinality({s \in S : days[s] = k})
    <3>1. {s \in S : days[s] = k} = {s \in S : Bucket(LeadDays(s), LeadBounds) = k}
      OBVIOUS
    <3>2. QED
      BY <3>1 DEF ListLeadTimeBuckets
  <2>3. SortedInto(S, K, days, w)
    BY <2>1, <2>2 DEF SortedInto
  <2> HIDE DEF S, K, days, w
  <2>4. SumFunctionOnSet(w, K) = Cardinality(S)
    BY <1>2, <2>1, <2>3, SumOfCells
  <2>5. QED
    BY <2>4 DEF w, K
<1>4. SumFunctionOnSet([b \in Buckets(LosBounds) |-> los[b]], Buckets(LosBounds)) = Cardinality(S)
  <2> DEFINE K == Buckets(LosBounds)
             w == [b \in K |-> los[b]]
  <2>1. IsFiniteSet(K) /\ \A s \in S : nights[s] \in K
    BY BucketIn, CalendarAssumption
  <2>2. ASSUME NEW k \in K PROVE w[k] = Cardinality({s \in S : nights[s] = k})
    <3>1. {s \in S : nights[s] = k} = {s \in S : Bucket(Cardinality(Night(s)), LosBounds) = k}
      OBVIOUS
    <3>2. QED
      BY <3>1 DEF ListLengthOfStayBuckets
  <2>3. SortedInto(S, K, nights, w)
    BY <2>1, <2>2 DEF SortedInto
  <2> HIDE DEF S, K, nights, w
  <2>4. SumFunctionOnSet(w, K) = Cardinality(S)
    BY <1>2, <2>1, <2>3, SumOfCells
  <2>5. QED
    BY <2>4 DEF w, K
<1>5. QED
  BY <1>1, <1>3, <1>4

(* Who returns has stayed before.                                          *)
LEMMA GuestsReturn ==
  ASSUME Books, NEW W
  PROVE  /\ ReturningGuestCount(W).returning <= ReturningGuestCount(W).total
         /\ {stay[s].guest : s \in Returning(W)} \subseteq ListReturningGuests(W)
<1> DEFINE T == {s \in Stays : Known(s) /\ Arrives(s, W)}
<1>1. ReturningGuestCount(W).returning <= ReturningGuestCount(W).total
  <2>1. /\ ReturningGuestCount(W).returning = Cardinality(Returning(W))
        /\ ReturningGuestCount(W).total = Cardinality(T)
    BY DEF ReturningGuestCount
  <2>2. Returning(W) \in SUBSET T /\ T \in SUBSET Stays
    BY DEF Returning
  <2> HIDE DEF T
  <2>3. Cardinality(Returning(W)) <= Cardinality(T)
    BY <2>2, StaysFinite, FS_Subset
  <2>4. QED
    BY <2>1, <2>3
<1>2. ASSUME NEW s \in Returning(W) PROVE stay[s].guest \in ListReturningGuests(W)
  <2> DEFINE g == stay[s].guest
             U == StaysOf(g)
  <2>1. s \in Stays /\ Known(s) /\ Arrives(s, W) /\ g \in Guests
    BY DEF Returning
  <2>2. PICK t \in U : stay[t].in < stay[s].in
    BY DEF Returning
  <2>3. s \in U /\ U \in SUBSET Stays
    BY <2>1 DEF StaysOf
  <2>4. s # t /\ {s, t} \in SUBSET U
    <3>1. stay[s].in \in Nat
      BY <2>1, StayDates DEF Books
    <3>2. QED
      BY <2>2, <2>3, <3>1
  <2>5. Cardinality(U) >= 2
    <3> HIDE DEF U
    <3>1. {s} \cap {t} = {} /\ {s, t} = {s} \cup {t}
      BY <2>4
    <3>2. IsFiniteSet({s}) /\ IsFiniteSet({t}) /\ Cardinality({s}) = 1 /\ Cardinality({t}) = 1
      BY FS_Singleton
    <3>3. Cardinality({s, t}) = 1 + 1
      <4> DEFINE A == {s}
                 B == {t}
                 C == {s, t}
      <4>1. /\ IsFiniteSet(A) /\ IsFiniteSet(B) /\ A \cap B = {} /\ C = A \cup B
            /\ Cardinality(A) = 1 /\ Cardinality(B) = 1
        BY <3>1, <3>2
      <4> HIDE DEF A, B, C
      <4>2. Cardinality(C) = 1 + 1
        BY <4>1, SizesJoin
      <4>3. QED
        BY <4>2 DEF C
    <3>4. IsFiniteSet(U)
      BY <2>3, StaysFinite
    <3>5. Cardinality({s, t}) <= Cardinality(U) /\ Cardinality(U) \in Nat
      BY <2>4, <3>4, FS_Subset, FS_CardinalityType
    <3>6. QED
      BY <3>3, <3>5
  <2>6. QED
    BY <2>1, <2>3, <2>5 DEF ListReturningGuests
<1>3. QED
  BY <1>1, <1>2

(* The stays that have revenue, within those that count.                   *)
LEMMA MatchedNights ==
  ASSUME Books, NEW W, IsFiniteSet(W)
  PROVE  NightsSoldInRange(ActiveStays(W) \cap Matched(W), W) <= NightsSoldInRange(ActiveStays(W), W)
<1> DEFINE S == ActiveStays(W)
           T == ActiveStays(W) \cap Matched(W)
           n == [s \in S |-> Cardinality(NightsIn(s, W))]
           w == [s \in T |-> Cardinality(NightsIn(s, W))]
           part == [s \in S |-> IF s \in T THEN n[s] ELSE 0]
<1>1. /\ NightsSoldInRange(S, W) = SumFunctionOnSet(n, S)
      /\ NightsSoldInRange(T, W) = SumFunctionOnSet(w, T)
  BY DEF NightsSoldInRange, Total, SumFunction
<1>2. \A s : Cardinality(NightsIn(s, W)) \in Nat
  <2>1. \A s : NightsIn(s, W) \in SUBSET W
    BY DEF NightsIn
  <2>2. QED
    BY <2>1, FS_Subset, FS_CardinalityType
<1>3. IsFiniteSet(S) /\ T \in SUBSET S /\ IsFiniteSet(T)
  <2>1. IsFiniteSet(S) /\ T \in SUBSET S
    BY MoneyFinite
  <2>2. QED
    BY <2>1, FS_Subset
<1>4. /\ \A s \in S : n[s] \in Nat /\ part[s] \in Nat /\ part[s] <= n[s]
      /\ \A s \in T : part[s] = w[s] /\ w[s] \in Nat
      /\ \A s \in S \ T : part[s] = 0
  BY <1>2
<1> HIDE DEF S, T, n, w, part
<1>5. SumFunctionOnSet(part, S) <= SumFunctionOnSet(n, S)
  BY <1>3, <1>4, SumBelow
<1>6. SumFunctionOnSet(part, S) = SumFunctionOnSet(part, T) + SumFunctionOnSet(part, S \ T)
  BY <1>3, <1>4, SumSplits
<1>7. SumFunctionOnSet(part, S \ T) = 0
  BY <1>3, <1>4, FS_Subset, SumZero
<1>8. SumFunctionOnSet(part, T) = SumFunctionOnSet(w, T) /\ SumFunctionOnSet(w, T) \in Int
  BY <1>3, <1>4, SumSame, SumInt
<1>9. QED
  BY <1>1, <1>5, <1>6, <1>7, <1>8 DEF S, T

(* The months of the trend add up to what their days make together.        *)
LEMMA MonthlyMoney ==
  ASSUME Books, NEW K \in SUBSET Months, IsFiniteSet(K)
  PROVE  LET W == UNION {DaysOf(m) : m \in K}
         IN /\ Sum(MonthlyRevenue(K), "gross") = Gross(W)
            /\ Sum(MonthlyRevenue(K), "matched")
                 = NightsSoldInRange(ActiveStays(W) \cap Matched(W), W)
<1> DEFINE W == UNION {DaysOf(m) : m \in K}
           S == ActiveStays(W) \cap Matched(W)
           c == [d \in W |-> Month(d)]
           chart == MonthlyRevenue(K)
           gross == [m \in K |-> chart[m].gross]
           matched == [m \in K |-> chart[m].matched]
           a == [s \in S |-> [m \in K |-> Cardinality(NightsIn(s, DaysOf(m)))]]
           n == [s \in S |-> Cardinality(NightsIn(s, W))]
<1>1. /\ Sum(chart, "gross") = SumFunctionOnSet(gross, K)
      /\ Sum(chart, "matched") = SumFunctionOnSet(matched, K)
  BY DEF Sum, Total, SumFunction, MonthlyRevenue
<1>2. \A m \in K : /\ gross[m] = Gross(DaysOf(m))
                   /\ matched[m] = NightsSoldInRange(S, DaysOf(m))
  BY DEF MonthlyRevenue
<1>3. \A d : d \in W <=> d \in AllDays /\ Month(d) \in K
  BY DEF DaysOf, AllDays
<1>4. \A m \in K : {d \in W : c[d] = m} = DaysOf(m)
  BY <1>3 DEF DaysOf, AllDays
<1>5. IsFiniteSet(W)
  <2>1. W \in SUBSET AllDays
    BY <1>3
  <2> HIDE DEF W
  <2>2. QED
    BY <2>1, AllDaysFinite, FS_Subset
<1>6. \A d \in W : c[d] \in K
  BY <1>3
<1> HIDE DEF W, chart
<1>7. IsFiniteSet(S)
  <2>1. IsFiniteSet(ActiveStays(W)) /\ S \in SUBSET ActiveStays(W)
    BY MoneyFinite
  <2> HIDE DEF S
  <2>2. QED
    BY <2>1, FS_Subset
<1>8. SumFunctionOnSet(gross, K) = Gross(W)
  <2>1. \A m \in K : gross[m] = Gross({d \in W : c[d] = m})
    BY <1>2, <1>4
  <2>2. GrossInto(W, K, c, gross)
    BY <1>6, <2>1 DEF GrossInto
  <2> HIDE DEF gross, c
  <2>3. QED
    BY <2>2, GrossByCell
<1>9. ASSUME NEW s \in S
      PROVE  /\ \A m \in K : a[s][m] \in Nat
             /\ SumFunctionOnSet(a[s], K) = n[s]
  <2> DEFINE U == NightsIn(s, W)
             w == a[s]
  <2>1. U \in SUBSET W
    BY DEF NightsIn
  <2>2. IsFiniteSet(U)
    <3> HIDE DEF U
    <3>1. QED
      BY <1>5, <2>1, FS_Subset
  <2>3. ASSUME NEW m \in K PROVE w[m] = Cardinality({d \in U : c[d] = m}) /\ w[m] \in Nat
    <3> DEFINE T == {d \in U : c[d] = m}
    <3>1. \A d : d \in DaysOf(m) <=> d \in W /\ c[d] = m
      BY <1>4
    <3>2. NightsIn(s, DaysOf(m)) = T
      BY <3>1 DEF NightsIn
    <3>3. w[m] = Cardinality(T)
      BY <3>2
    <3>4. T \in SUBSET U
      OBVIOUS
    <3> HIDE DEF T, U, w
    <3>5. Cardinality(T) \in Nat
      BY <2>2, <3>4, FS_Subset, FS_CardinalityType
    <3>6. QED
      BY <3>3, <3>5 DEF T
  <2>4. SortedInto(U, K, c, w)
    <3>1. \A d \in U : c[d] \in K
      BY <1>6, <2>1
    <3> HIDE DEF U, w
    <3>2. QED
      BY <2>3, <3>1 DEF SortedInto
  <2>5. n[s] = Cardinality(U)
    OBVIOUS
  <2> HIDE DEF U, w, c, n
  <2>6. SumFunctionOnSet(w, K) = Cardinality(U)
    BY <2>2, <2>4, SumOfCells
  <2>7. QED
    BY <2>3, <2>5, <2>6 DEF w
<1>10. \A m \in K : matched[m] = SumFunctionOnSet([s \in S |-> a[s][m]], S)
  <2>1. ASSUME NEW m \in K PROVE matched[m] = SumFunctionOnSet([s \in S |-> a[s][m]], S)
    <3>1. [s \in S |-> a[s][m]] = [s \in S |-> Cardinality(NightsIn(s, DaysOf(m)))]
      OBVIOUS
    <3>2. NightsSoldInRange(S, DaysOf(m))
            = SumFunctionOnSet([s \in S |-> Cardinality(NightsIn(s, DaysOf(m)))], S)
      BY DEF NightsSoldInRange, Total, SumFunction
    <3>3. QED
      BY <1>2, <3>1, <3>2
  <2>2. QED
    BY <2>1
<1>11. SumFunctionOnSet(n, S) = NightsSoldInRange(S, W)
  BY DEF NightsSoldInRange, Total, SumFunction
<1>12. SumFunctionOnSet(matched, K) = SumFunctionOnSet(n, S)
  <2> HIDE DEF S, a, n, matched
  <2>1. Table(a, S, K, n, matched)
    BY <1>9, <1>10 DEF Table
  <2>2. QED
    BY <1>7, <2>1, SumBothWays
<1>13. QED
  BY <1>1, <1>8, <1>11, <1>12 DEF chart, W

(* Nothing a query over W reads lies outside.                              *)
Inside(W) ==
  /\ W = AllDays
  /\ \A s \in Stays : stay[s].known \in AllDays
  /\ \A e \in evidence : e.booked \in AllDays /\ e.in \in AllDays

LEMMA EvidenceFinite ==
  ASSUME Books PROVE IsFiniteSet(evidence) /\ IsFiniteSet(Unstated)
<1> DEFINE B == Bookings \cup {None}
           U == (B \X Days) \X Days
           f == [p \in U |-> [of |-> p[1][1], booked |-> p[1][2], in |-> p[2]]]
<1>1. IsFiniteSet(B)
  BY CalendarAssumption, FS_AddElement
<1>2. IsFiniteSet(U)
  <2> HIDE DEF B
  <2>1. IsFiniteSet(B \X Days)
    BY <1>1, AllDaysFinite, FS_Product
  <2>2. QED
    BY <2>1, AllDaysFinite, FS_Product
<1>3. f \in Surjection(U, Evidence)
  <2>1. ASSUME NEW p \in U PROVE f[p] \in Evidence
    BY DEF Evidence
  <2>2. ASSUME NEW e \in Evidence PROVE \E p \in U : f[p] = e
    <3>1. <<<<e.of, e.booked>>, e.in>> \in U
      BY DEF Evidence
    <3>2. f[<<<<e.of, e.booked>>, e.in>>] = e
      BY <3>1 DEF Evidence
    <3>3. QED
      BY <3>1, <3>2
  <2>3. QED
    BY <2>1, <2>2 DEF Surjection
<1>4. IsFiniteSet(Evidence)
  <2> HIDE DEF U, f
  <2>1. QED
    BY <1>2, <1>3, FS_Surjection
<1>5. Unstated \in SUBSET evidence /\ evidence \in SUBSET Evidence
  BY DEF Unstated, Books
<1>6. QED
  BY <1>4, <1>5, FS_Subset

LEMMA StatedFinite ==
  /\ Stated \in SUBSET Bookings /\ IsFiniteSet(Stated)
  /\ Books => \A b \in Stated : StayOf(b) \in Stays
<1>1. Stated \in SUBSET Bookings
  BY DEF Stated
<1>2. IsFiniteSet(Stated)
  BY <1>1, CalendarAssumption, FS_Subset
<1>3. Books => \A b \in Stated : StayOf(b) \in Stays
  BY DEF Books, Booking, Stated, StayOf
<1>4. QED
  BY <1>1, <1>2, <1>3

(* A cohort by month: c gives the month of a booking, e that of a          *)
(* cancelled reservation.                                                  *)
FateOf(e) == IF EvidenceOutcome(e) THEN "other" ELSE "cancelled"

BookedOn(e) == IF e.of # None /\ StayOf(e.of) # None THEN KnownOf(StayOf(e.of)) ELSE e.booked
ArrivedOn(e) == IF e.of # None /\ StayOf(e.of) # None THEN ArrivalOf(StayOf(e.of)) ELSE e.in

CohortBy(chart, c, e) ==
  /\ DOMAIN chart = Months
  /\ \A b \in Stated : c[b] \in Months
  /\ \A x \in Unstated : e[x] \in Months
  /\ \A m \in Months : \A fate \in {"cancelled", "active", "other"} :
       chart[m][fate] = Cardinality({b \in Stated : Fate(b) = fate /\ c[b] = m})
                        + Cardinality({x \in Unstated : FateOf(x) = fate /\ e[x] = m})

LEMMA CohortAddsUp ==
  ASSUME Books, NEW chart, NEW c, NEW e, CohortBy(chart, c, e), IsFiniteSet(Months),
         NEW fate \in {"cancelled", "active", "other"}
  PROVE  Sum(chart, fate) = Cardinality({b \in Stated : Fate(b) = fate})
                            + Cardinality({x \in Unstated : FateOf(x) = fate})
<1> DEFINE B == {b \in Stated : Fate(b) = fate}
           X == {x \in Unstated : FateOf(x) = fate}
           w == [m \in Months |-> chart[m][fate]]
           rows == [m \in Months |-> Cardinality({b \in B : c[b] = m})]
           more == [m \in Months |-> Cardinality({x \in X : e[x] = m})]
<1>1. Sum(chart, fate) = SumFunctionOnSet(w, Months)
  BY DEF Sum, Total, SumFunction, CohortBy
<1>2. IsFiniteSet(B) /\ IsFiniteSet(X)
  <2>1. B \in SUBSET Stated /\ X \in SUBSET Unstated
    OBVIOUS
  <2> HIDE DEF B, X
  <2>2. QED
    BY <2>1, StatedFinite, EvidenceFinite, FS_Subset
<1>3. ASSUME NEW m \in Months
      PROVE  rows[m] \in Int /\ more[m] \in Int /\ w[m] = rows[m] + more[m]
  <2>1. /\ {b \in Stated : Fate(b) = fate /\ c[b] = m} = {b \in B : c[b] = m}
        /\ {x \in Unstated : FateOf(x) = fate /\ e[x] = m} = {x \in X : e[x] = m}
    OBVIOUS
  <2>2. w[m] = rows[m] + more[m]
    BY <2>1 DEF CohortBy
  <2>3. rows[m] \in Int /\ more[m] \in Int
    <3> DEFINE P == {b \in B : c[b] = m}
               Q == {x \in X : e[x] = m}
    <3>1. P \in SUBSET B /\ Q \in SUBSET X /\ rows[m] = Cardinality(P) /\ more[m] = Cardinality(Q)
      OBVIOUS
    <3> HIDE DEF B, X, P, Q, rows, more
    <3>2. QED
      BY <1>2, <3>1, FS_Subset, FS_CardinalityType
  <2>4. QED
    BY <2>2, <2>3
<1>4. SortedInto(B, Months, c, rows) /\ SortedInto(X, Months, e, more)
  BY DEF SortedInto, CohortBy
<1> HIDE DEF B, X, w, rows, more
<1>5. SumFunctionOnSet(w, Months) = SumFunctionOnSet(rows, Months) + SumFunctionOnSet(more, Months)
  BY <1>3, SumPlus
<1>6. /\ SumFunctionOnSet(rows, Months) = Cardinality(B)
      /\ SumFunctionOnSet(more, Months) = Cardinality(X)
  BY <1>2, <1>4, SumOfCells
<1>7. QED
  BY <1>1, <1>5, <1>6 DEF B, X

LEMMA MonthInMonths == \A d \in AllDays : Month(d) \in Months
BY DEF AllDays, Months

LEMMA ArrivesInside ==
  ASSUME Books, NEW s \in Stays PROVE stay[s].in \in AllDays
BY StayDates DEF Books, AllDays

LEMMA CohortByBooking ==
  ASSUME Books, NEW W, Inside(W)
  PROVE  CohortBy(ListCancellationByBookingCohort(W),
                  [b \in Stated |-> Month(KnownOf(StayOf(b)))],
                  [x \in Unstated |-> Month(BookedOn(x))])
<1> DEFINE chart == ListCancellationByBookingCohort(W)
           c == [b \in Stated |-> Month(KnownOf(StayOf(b)))]
           e == [x \in Unstated |-> Month(BookedOn(x))]
<1>1. \A b \in Stated : KnownOf(StayOf(b)) \in W
  BY StatedFinite DEF Inside, KnownOf
<1>2. \A x \in Unstated : BookedOn(x) \in W
  <2>1. ASSUME NEW x \in Unstated PROVE BookedOn(x) \in W
    <3>1. x \in evidence /\ (x.of = None \/ x.of \in Bookings)
      BY DEF Unstated, Books, Evidence
    <3>2. x.of # None /\ StayOf(x.of) # None => StayOf(x.of) \in Stays
      BY <3>1 DEF Books, Booking, StayOf
    <3>3. QED
      BY <3>1, <3>2 DEF BookedOn, Inside, KnownOf
  <2>2. QED
    BY <2>1
<1>3. /\ {b \in Stated : KnownOf(StayOf(b)) \in W} = Stated
      /\ {x \in Unstated : BookedOn(x) \in W} = Unstated
  BY <1>1, <1>2
<1>4. ASSUME NEW m \in Months, NEW fate \in {"cancelled", "active", "other"}
      PROVE  chart[m][fate] = Cardinality({b \in Stated : Fate(b) = fate /\ c[b] = m})
                              + Cardinality({x \in Unstated : FateOf(x) = fate /\ e[x] = m})
  <2>1. chart[m][fate]
          = Cardinality({b \in {y \in Stated : KnownOf(StayOf(y)) \in W} :
                           Fate(b) = fate /\ Month(KnownOf(StayOf(b))) = m})
            + Cardinality({x \in {y \in Unstated : BookedOn(y) \in W} :
                             /\ Month(BookedOn(x)) = m
                             /\ fate = IF EvidenceOutcome(x) THEN "other" ELSE "cancelled"})
    <3>1. CASE fate = "cancelled"
      BY <3>1 DEF ListCancellationByBookingCohort, CancellationCohort, EvidenceDate, BookedOn
    <3>2. CASE fate = "active"
      BY <3>2 DEF ListCancellationByBookingCohort, CancellationCohort, EvidenceDate, BookedOn
    <3>3. CASE fate = "other"
      BY <3>3 DEF ListCancellationByBookingCohort, CancellationCohort, EvidenceDate, BookedOn
    <3>4. QED
      BY <3>1, <3>2, <3>3
  <2>2. {b \in Stated : Fate(b) = fate /\ Month(KnownOf(StayOf(b))) = m}
          = {b \in Stated : Fate(b) = fate /\ c[b] = m}
    OBVIOUS
  <2>3. {x \in Unstated : /\ Month(BookedOn(x)) = m
                          /\ fate = IF EvidenceOutcome(x) THEN "other" ELSE "cancelled"}
          = {x \in Unstated : FateOf(x) = fate /\ e[x] = m}
    BY DEF FateOf
  <2>4. QED
    BY <1>3, <2>1, <2>2, <2>3
<1>5. DOMAIN chart = Months
  BY DEF ListCancellationByBookingCohort, CancellationCohort
<1>6. /\ \A b \in Stated : c[b] \in Months
      /\ \A x \in Unstated : e[x] \in Months
  BY <1>1, <1>2, MonthInMonths DEF Inside
<1> HIDE DEF chart, c, e
<1>7. CohortBy(chart, c, e)
  BY <1>4, <1>5, <1>6 DEF CohortBy
<1>8. QED
  BY <1>7 DEF chart, c, e

LEMMA CohortByArrival ==
  ASSUME Books, NEW W, Inside(W)
  PROVE  CohortBy(ListCancellationByArrivalCohort(W),
                  [b \in Stated |-> Month(ArrivalOf(StayOf(b)))],
                  [x \in Unstated |-> Month(ArrivedOn(x))])
<1> DEFINE chart == ListCancellationByArrivalCohort(W)
           c == [b \in Stated |-> Month(ArrivalOf(StayOf(b)))]
           e == [x \in Unstated |-> Month(ArrivedOn(x))]
<1>1. \A b \in Stated : ArrivalOf(StayOf(b)) \in W
  BY StatedFinite, ArrivesInside DEF Inside, ArrivalOf
<1>2. \A x \in Unstated : ArrivedOn(x) \in W
  <2>1. ASSUME NEW x \in Unstated PROVE ArrivedOn(x) \in W
    <3>1. x \in evidence /\ (x.of = None \/ x.of \in Bookings)
      BY DEF Unstated, Books, Evidence
    <3>2. x.of # None /\ StayOf(x.of) # None => stay[StayOf(x.of)].in \in AllDays
      BY <3>1, ArrivesInside DEF Books, Booking, StayOf
    <3>3. QED
      BY <3>1, <3>2 DEF ArrivedOn, Inside, ArrivalOf
  <2>2. QED
    BY <2>1
<1>3. /\ {b \in Stated : ArrivalOf(StayOf(b)) \in W} = Stated
      /\ {x \in Unstated : ArrivedOn(x) \in W} = Unstated
  BY <1>1, <1>2
<1>4. ASSUME NEW m \in Months, NEW fate \in {"cancelled", "active", "other"}
      PROVE  chart[m][fate] = Cardinality({b \in Stated : Fate(b) = fate /\ c[b] = m})
                              + Cardinality({x \in Unstated : FateOf(x) = fate /\ e[x] = m})
  <2>1. chart[m][fate]
          = Cardinality({b \in {y \in Stated : ArrivalOf(StayOf(y)) \in W} :
                           Fate(b) = fate /\ Month(ArrivalOf(StayOf(b))) = m})
            + Cardinality({x \in {y \in Unstated : ArrivedOn(y) \in W} :
                             /\ Month(ArrivedOn(x)) = m
                             /\ fate = IF EvidenceOutcome(x) THEN "other" ELSE "cancelled"})
    <3>1. CASE fate = "cancelled"
      BY <3>1 DEF ListCancellationByArrivalCohort, CancellationCohort, EvidenceDate, ArrivedOn
    <3>2. CASE fate = "active"
      BY <3>2 DEF ListCancellationByArrivalCohort, CancellationCohort, EvidenceDate, ArrivedOn
    <3>3. CASE fate = "other"
      BY <3>3 DEF ListCancellationByArrivalCohort, CancellationCohort, EvidenceDate, ArrivedOn
    <3>4. QED
      BY <3>1, <3>2, <3>3
  <2>2. {b \in Stated : Fate(b) = fate /\ Month(ArrivalOf(StayOf(b))) = m}
          = {b \in Stated : Fate(b) = fate /\ c[b] = m}
    OBVIOUS
  <2>3. {x \in Unstated : /\ Month(ArrivedOn(x)) = m
                          /\ fate = IF EvidenceOutcome(x) THEN "other" ELSE "cancelled"}
          = {x \in Unstated : FateOf(x) = fate /\ e[x] = m}
    BY DEF FateOf
  <2>4. QED
    BY <1>3, <2>1, <2>2, <2>3
<1>5. DOMAIN chart = Months
  BY DEF ListCancellationByArrivalCohort, CancellationCohort
<1>6. /\ \A b \in Stated : c[b] \in Months
      /\ \A x \in Unstated : e[x] \in Months
  BY <1>1, <1>2, MonthInMonths DEF Inside
<1> HIDE DEF chart, c, e
<1>7. CohortBy(chart, c, e)
  BY <1>4, <1>5, <1>6 DEF CohortBy
<1>8. QED
  BY <1>7 DEF chart, c, e

(* The trend counts by month of booking what is listed by arrival.         *)
LEMMA CommissionsAgree ==
  ASSUME Books, NEW W, Inside(W)
  PROVE  Sum(ListCommissionRateTrend(W), "stays") = Cardinality(ListCommissionPerStay(W))
<1> DEFINE R == {b \in Stated : Financial(b)}
           c == [b \in R |-> Month(KnownOf(StayOf(b)))]
           K == {c[b] : b \in R}
           chart == ListCommissionRateTrend(W)
           w == [m \in K |-> chart[m].stays]
<1>1. \A b \in R : /\ b \in Stated /\ KnownOf(StayOf(b)) \in W /\ Arrives(StayOf(b), W)
  BY StatedFinite, ArrivesInside DEF Inside, KnownOf, Arrives
<1>2. /\ ListCommissionPerStay(W) = R
      /\ {b \in Stated : Financial(b) /\ KnownOf(StayOf(b)) \in W} = R
  BY <1>1 DEF ListCommissionPerStay
<1>3. {Month(KnownOf(StayOf(b))) : b \in R} = K
  OBVIOUS
<1>4. DOMAIN chart = K
  BY <1>2, <1>3 DEF ListCommissionRateTrend
<1>5. Sum(chart, "stays") = SumFunctionOnSet(w, K)
  BY <1>4 DEF Sum, Total, SumFunction
<1>6. ASSUME NEW m \in K PROVE w[m] = Cardinality({b \in R : c[b] = m})
  <2>1. {b \in R : c[b] = m} = {b \in R : Month(KnownOf(StayOf(b))) = m}
    OBVIOUS
  <2>2. QED
    BY <1>2, <1>3, <2>1 DEF ListCommissionRateTrend
<1>7. IsFiniteSet(R) /\ IsFiniteSet(K)
  <2>1. R \in SUBSET Stated /\ \A k : k \in K <=> \E b \in R : k = c[b]
    OBVIOUS
  <2> HIDE DEF R, K, c
  <2>2. IsFiniteSet(R)
    BY <2>1, StatedFinite, FS_Subset
  <2>3. QED
    BY <2>1, <2>2, CellsFinite
<1>8. SortedInto(R, K, c, w)
  <2>1. \A b \in R : c[b] \in K
    OBVIOUS
  <2>2. QED
    BY <1>6, <2>1 DEF SortedInto
<1> HIDE DEF R, K, c, w, chart
<1>9. SumFunctionOnSet(w, K) = Cardinality(R)
  BY <1>7, <1>8, SumOfCells
<1>10. QED
  BY <1>2, <1>5, <1>9 DEF chart

(* What the list of stays takes for the gross of one that arrives.         *)
LEMMA StayRevenueIs ==
  ASSUME Books, NEW W \in SUBSET Days, NEW s \in ActiveStays(W), Arrives(s, W)
  PROVE  LET gross(b) == booking[b].gross
         IN StayRevenue(s, gross) = RevenueOf(s, W)
<1> DEFINE T == {b \in Linked(s) : Materialized(b)}
           P == OwnPayouts(s, W)
<1>1. s \in Stays /\ Counted(s)
  BY DEF ActiveStays, Counted
<1>2. P = T
  <2>1. \A b : b \in P <=> b \in Bookings /\ StayOf(b) = s /\ Materialized(b)
    BY <1>1, CalendarAssumption DEF OwnPayouts, Payouts
  <2>2. \A b : b \in T <=> b \in Bookings /\ StayOf(b) = s /\ Materialized(b)
    BY DEF Linked, StayOf
  <2>3. QED
    BY <2>1, <2>2
<1>3. s \in ManualSales(Days) <=> s \in ManualSales(W)
  BY DEF ManualSales, Arrives
<1>4. CASE Linked(s) # {}
  <2>1. s \notin ManualSales(W)
    BY <1>4 DEF ManualSales
  <2>2. RevenueOf(s, W) = SumFunctionOnSet([b \in P |-> booking[b].gross], P)
    <3> HIDE DEF P
    <3>1. SumFunctionOnSet([b \in P |-> booking[b].gross], P) \in Int
      BY RevenueParts DEF P
    <3>2. QED
      BY <2>1, <3>1, RevenueIs DEF P
  <2>3. QED
    BY <1>2, <1>4, <2>2 DEF StayRevenue, Total, SumFunction
<1>5. CASE Linked(s) = {}
  <2>1. P = {}
    BY <1>2, <1>5
  <2>2. SumFunctionOnSet([b \in P |-> booking[b].gross], P) = 0
    BY <2>1, SumEmpty
  <2>3. (IF s \in ManualSales(W) THEN stay[s].revenue ELSE 0) \in Int
    BY MoneyFinite
  <2>4. RevenueOf(s, W) = IF s \in ManualSales(W) THEN stay[s].revenue ELSE 0
    BY <2>2, <2>3, RevenueIs
  <2>5. QED
    BY <1>3, <1>5, <2>4 DEF StayRevenue
<1>6. QED
  BY <1>4, <1>5

SoldRevenue(W) == Total(LAMBDA s : RevenueOf(s, W), Matched(W) \cap ActiveStays(W))

(* The rows of the list add up to the revenue of the stays that count,     *)
(* though it has none for a stay without revenue and more than those.      *)
LEMMA NetAddsUp ==
  ASSUME Books, NEW W \in SUBSET Days
  PROVE  Total(LAMBDA n : n.gross, {n \in ListNetPerStay(W) : Arrives(n.stay, W)}) = SoldRevenue(W)
<1> DEFINE A == {s \in ActiveStays(W) : Arrives(s, W)}
           S == Matched(W) \cap ActiveStays(W)
           gross(b) == booking[b].gross
           net(b) == booking[b].net
           commission(b) == booking[b].commission
           fee(b) == booking[b].fee
           figures(s) == {StayRevenue(s, gross), StayRevenue(s, net),
                          StayRevenue(s, commission), StayRevenue(s, fee)}
           L == {s \in A : figures(s) # {0}}
           N == {n \in ListNetPerStay(W) : Arrives(n.stay, W)}
           c == [s \in L |-> [stay |-> s, gross |-> StayRevenue(s, gross),
                   net |-> StayRevenue(s, net) - (IF stay[s].outcome THEN 0 ELSE FeeOn[stay[s].out])]]
           r == [s \in A |-> RevenueOf(s, W)]
           v == [n \in N |-> n.gross]
           u == [s \in S |-> RevenueOf(s, W)]
<1>1. Total(LAMBDA n : n.gross, N) = SumFunctionOnSet(v, N)
  BY DEF Total, SumFunction
<1>2. SoldRevenue(W) = SumFunctionOnSet(u, S)
  BY DEF SoldRevenue, Total, SumFunction
<1>3. ASSUME NEW s \in A PROVE StayRevenue(s, gross) = r[s] /\ r[s] \in Int
  BY StayRevenueIs, RevenueParts
<1>4. \A n : n \in N <=> \E s \in L : c[s] = n
  <2>1. ASSUME NEW n \in N PROVE \E s \in L : c[s] = n
    <3>1. PICK s \in ActiveStays(W) :
            /\ figures(s) # {0}
            /\ n = [stay |-> s, gross |-> StayRevenue(s, gross),
                    net |-> StayRevenue(s, net) - (IF stay[s].outcome THEN 0 ELSE FeeOn[stay[s].out])]
      BY DEF ListNetPerStay
    <3>2. n.stay = s /\ Arrives(s, W)
      BY <3>1
    <3>3. s \in L
      BY <3>1, <3>2
    <3>4. QED
      BY <3>1, <3>3
  <2>2. ASSUME NEW s \in L PROVE c[s] \in N
    <3>1. c[s].stay = s /\ Arrives(s, W)
      OBVIOUS
    <3>2. c[s] \in ListNetPerStay(W)
      BY DEF ListNetPerStay
    <3>3. QED
      BY <3>1, <3>2
  <2>3. QED
    BY <2>1, <2>2
<1>5. \A s \in L : c[s].stay = s /\ c[s].gross = StayRevenue(s, gross)
  OBVIOUS
<1>6. L \in SUBSET A /\ A \in SUBSET ActiveStays(W) /\ S \in SUBSET A
  BY DEF Matched, Payouts, ManualSales
<1>7. ASSUME NEW s \in A PROVE s \notin S => r[s] = 0
  <2>1. SUFFICES ASSUME s \notin S PROVE r[s] = 0
    OBVIOUS
  <2>2. s \notin Matched(W)
    BY <2>1
  <2>3. OwnPayouts(s, W) = {} /\ s \notin ManualSales(W)
    BY <2>2 DEF OwnPayouts, Matched
  <2> DEFINE x == SumFunctionOnSet([b \in OwnPayouts(s, W) |-> booking[b].gross], OwnPayouts(s, W))
  <2>4. x = 0 /\ RevenueOf(s, W) = x + (IF s \in ManualSales(W) THEN stay[s].revenue ELSE 0)
    BY <2>3, SumEmpty, RevenueIs
  <2> HIDE DEF x
  <2>5. RevenueOf(s, W) = 0
    BY <2>3, <2>4
  <2>6. QED
    BY <2>5
<1>8. \A s \in A : s \notin L => r[s] = 0
  <2>1. \A s \in A : s \notin L => StayRevenue(s, gross) \in {0}
    OBVIOUS
  <2>2. QED
    BY <1>3, <2>1
<1>9. IsFiniteSet(A) /\ IsFiniteSet(L) /\ IsFiniteSet(S)
  <2>1. IsFiniteSet(ActiveStays(W))
    BY MoneyFinite
  <2> HIDE DEF A, L, S
  <2>2. QED
    BY <1>6, <2>1, FS_Subset
<1>10. Renames(L, r, N, c, v)
  <2>1. \A s, t \in L : c[s] = c[t] => s = t
    BY <1>5
  <2>2. ASSUME NEW s \in L PROVE v[c[s]] = r[s]
    <3>1. c[s] \in N
      BY <1>4
    <3>2. v[c[s]] = c[s].gross
      BY <3>1
    <3>3. c[s].gross = StayRevenue(s, gross)
      BY <1>5
    <3>4. StayRevenue(s, gross) = r[s]
      BY <1>3
    <3>5. QED
      BY <3>2, <3>3, <3>4, Zenon
  <2> HIDE DEF L, N, c, v, r
  <2>3. QED
    BY <1>4, <2>1, <2>2 DEF Renames
<1>11. \A s \in S : u[s] = r[s]
  BY <1>6
<1>12. \A s \in A : r[s] \in Int
  BY <1>3
<1> HIDE DEF A, S, L, N, c, r, v, u
<1>13. SumFunctionOnSet(v, N) = SumFunctionOnSet(r, L)
  BY <1>6, <1>9, <1>10, <1>12, SumRenamed
<1>14. SumFunctionOnSet(r, A) = SumFunctionOnSet(r, L) /\ SumFunctionOnSet(r, A) = SumFunctionOnSet(r, S)
  <2>1. ASSUME NEW T \in SUBSET A, \A s \in A : s \notin T => r[s] = 0
        PROVE  SumFunctionOnSet(r, A) = SumFunctionOnSet(r, T)
    <3>1. SumFunctionOnSet(r, A) = SumFunctionOnSet(r, T) + SumFunctionOnSet(r, A \ T)
      BY <1>9, <1>12, SumSplits
    <3>2. SumFunctionOnSet(r, A \ T) = 0
      BY <1>9, <2>1, FS_Subset, SumZero
    <3>3. SumFunctionOnSet(r, T) \in Int
      BY <1>9, <1>12, SumPart
    <3>4. QED
      BY <3>1, <3>2, <3>3
  <2>2. QED
    BY <1>6, <1>7, <1>8, <2>1
<1>15. SumFunctionOnSet(u, S) = SumFunctionOnSet(r, S)
  BY <1>6, <1>9, <1>11, <1>12, SumSame
<1>16. QED
  BY <1>1, <1>2, <1>13, <1>14, <1>15 DEF N

(* What the pages promise about money, of an answer r and of what the      *)
(* rows say of its window.                                                 *)
MoneyIn(r, stays, inside, sold, gross, guests) ==
  /\ r.page = "performance" =>
       /\ r.kpis.matched <= r.kpis.sold
       /\ inside => /\ r.kpis.gross = Sum(r.revenue, "gross")
                    /\ r.kpis.matched = Sum(r.revenue, "matched")
                    /\ \A fate \in {"cancelled", "active", "other"} :
                         Sum(r.booked, fate) = Sum(r.arrived, fate)
                    /\ Sum(r.commission, "stays") = Cardinality(r.perStay)
       /\ Total(LAMBDA n : n.gross, {n \in r.net : stays[n.stay].in \in r.window}) = sold
  /\ r.page = "demand" =>
       /\ Sum(r.months, "gross") = gross /\ Sum(r.months, "gross") = Sum(r.leads, "gross")
       /\ Sum(r.months, "nights") = Sum(r.leads, "nights")
       /\ Sum(r.months, "nights") = Sum(r.weekdays, "nights")
       /\ Sum(r.months, "gross") - Sum(r.weekdays, "gross")
            \in -Sum(r.months, "nights") .. Sum(r.months, "nights")
       /\ Total(LAMBDA b : r.lead[b], DOMAIN r.lead) = Total(LAMBDA b : r.los[b], DOMAIN r.los)
       /\ r.returning.returning <= r.returning.total
       /\ guests \subseteq r.guests

ReturningNames(W) == {stay[s].guest : s \in Returning(W)}

SoldNow == SoldRevenue(report.window)
GrossNow == Gross(report.window)
GuestsNow == ReturningNames(report.window)

LEMMA MoneyMeans == MoneyAgrees <=> MoneyIn(report, stay, AllInside, SoldNow, GrossNow, GuestsNow)
BY DEF MoneyAgrees, MoneyIn, SoldNow, SoldRevenue, GrossNow, GuestsNow, ReturningNames, Arrives

LEMMA MoneyKept ==
  ASSUME stay' = stay, booking' = booking, evidence' = evidence, NEW W, report'.window = W
  PROVE  /\ AllInside' <=> Inside(W)
         /\ SoldNow' = SoldRevenue(W) /\ GrossNow' = Gross(W) /\ GuestsNow' = ReturningNames(W)
<1>1. AllInside' <=> Inside(W)
  BY DEF AllInside, Inside, AllDays
<1>2. GrossNow' = Gross(W)
  BY DEF GrossNow, Gross, Total, SumFunction, Payouts, ManualSales, StayOf, Counted, Arrives,
         Materialized, Outcome, Night, Linked
<1>3. SoldNow' = SoldRevenue(W)
  BY DEF SoldNow, SoldRevenue, Total, SumFunction, RevenueOf, Matched, ActiveStays, Sellable,
         NightsIn, Payouts, ManualSales, StayOf, Counted, Arrives, Materialized, Outcome, Night, Linked
<1>4. GuestsNow' = ReturningNames(W)
  BY DEF GuestsNow, ReturningNames, Returning, Known, StaysOf, Arrives, Sellable, Linked
<1>5. QED
  BY <1>1, <1>2, <1>3, <1>4

LEMMA MoneyLater ==
  ASSUME stay' = stay, booking' = booking, evidence' = evidence, NEW W, report'.window = W,
         MoneyIn(report', stay, Inside(W), SoldRevenue(W), Gross(W), ReturningNames(W))
  PROVE  MoneyAgrees'
<1>1. MoneyIn(report, stay, AllInside, SoldNow, GrossNow, GuestsNow)'
  BY MoneyKept DEF MoneyIn, Sum, Total, SumFunction
<1>2. QED
  BY <1>1, MoneyMeans, PTL

-----------------------------------------------------------------------------
(* The pages.                                                              *)
LEMMA PerformanceMoney ==
  ASSUME Books, NEW from \in Days, NEW to \in Days, GetAnalyticsPerformance(from, to)
  PROVE  MoneyAgrees'
<1> DEFINE W == from .. to - 1
           K == TrendMonths(to)
           M == UNION {DaysOf(m) : m \in K}
<1>1. /\ from < to /\ stay' = stay /\ booking' = booking /\ evidence' = evidence
      /\ report'.page = "performance" /\ report'.window = W
      /\ report'.kpis.sold = NightsSoldInRange(ActiveStays(W), W)
      /\ report'.kpis.matched = NightsSoldInRange(ActiveStays(W) \cap Matched(W), W)
      /\ report'.kpis.gross = Gross(W)
      /\ report'.revenue = MonthlyRevenue(K)
      /\ report'.booked = ListCancellationByBookingCohort(W)
      /\ report'.arrived = ListCancellationByArrivalCohort(W)
      /\ report'.commission = ListCommissionRateTrend(W)
      /\ report'.perStay = ListCommissionPerStay(W)
      /\ report'.net = ListNetPerStay(W)
  BY DEF GetAnalyticsPerformance, PerformanceKPIs, portfolio
<1>2. /\ W \in SUBSET Days /\ IsFiniteSet(W)
      /\ K \in SUBSET Months /\ IsFiniteSet(K) /\ IsFiniteSet(Months)
      /\ W = AllDays => M = AllDays
  <2>1. /\ W \in SUBSET AllDays /\ IsFiniteSet(W) /\ K \in SUBSET Months /\ IsFiniteSet(K)
        /\ W = AllDays => M = AllDays
    BY <1>1, TrendCoversAll
  <2>2. AllDays \subseteq Days
    BY CalendarAssumption DEF AllDays, Days
  <2>3. IsFiniteSet(Months)
    <3>1. LastDay \in Nat /\ LastDay > 0
      BY <1>1, CalendarAssumption DEF Days
    <3>2. QED
      BY <3>1, MonthsAre, FS_Interval
  <2>4. QED
    BY <2>1, <2>2, <2>3
<1> HIDE DEF W, K, M
<1>3. report'.kpis.matched <= report'.kpis.sold
  BY <1>1, <1>2, MatchedNights
<1>4. ASSUME Inside(W)
      PROVE  /\ report'.kpis.gross = Sum(report'.revenue, "gross")
             /\ report'.kpis.matched = Sum(report'.revenue, "matched")
  <2>1. M = W
    BY <1>2, <1>4 DEF Inside
  <2>2. /\ Sum(report'.revenue, "gross") = Gross(M)
        /\ Sum(report'.revenue, "matched") = NightsSoldInRange(ActiveStays(M) \cap Matched(M), M)
    BY <1>1, <1>2, MonthlyMoney DEF M
  <2>3. QED
    BY <1>1, <2>1, <2>2
<1>5. ASSUME Inside(W), NEW fate \in {"cancelled", "active", "other"}
      PROVE  Sum(report'.booked, fate) = Sum(report'.arrived, fate)
  BY <1>1, <1>2, <1>5, CohortByBooking, CohortByArrival, CohortAddsUp
<1>6. Inside(W) => Sum(report'.commission, "stays") = Cardinality(report'.perStay)
  BY <1>1, CommissionsAgree
<1>7. Total(LAMBDA n : n.gross, {n \in report'.net : stay[n.stay].in \in report'.window}) = SoldRevenue(W)
  BY <1>1, <1>2, NetAddsUp DEF Arrives
<1>8. MoneyIn(report', stay, Inside(W), SoldRevenue(W), Gross(W), ReturningNames(W))
  BY <1>1, <1>3, <1>4, <1>5, <1>6, <1>7 DEF MoneyIn
<1>9. QED
  BY <1>1, <1>8, MoneyLater

LEMMA DemandMoney ==
  ASSUME Books, NEW from \in Days, NEW to \in Days, GetAnalyticsDemand(from, to)
  PROVE  MoneyAgrees'
<1> DEFINE W == from .. to - 1
<1>1. /\ stay' = stay /\ booking' = booking /\ evidence' = evidence
      /\ report'.page = "demand" /\ report'.window = W
      /\ report'.lead = ListLeadTimeBuckets(W) /\ report'.los = ListLengthOfStayBuckets(W)
      /\ report'.months = ADRByMonth(W) /\ report'.leads = ADRByLead(W)
      /\ report'.weekdays = ADRByWeekday(W)
      /\ report'.returning = ReturningGuestCount(W) /\ report'.guests = ListReturningGuests(W)
  BY DEF GetAnalyticsDemand, portfolio
<1> HIDE DEF W
<1>2. /\ Sum(report'.months, "gross") = Gross(W) /\ Sum(report'.leads, "gross") = Gross(W)
      /\ Sum(report'.months, "nights") = StayNights(W)
      /\ Sum(report'.leads, "nights") = StayNights(W)
      /\ Sum(report'.weekdays, "nights") = StayNights(W)
      /\ Gross(W) - Sum(report'.weekdays, "gross") \in -StayNights(W) .. StayNights(W)
  BY <1>1, RatesByMonth, RatesByLead, RatesByWeekday
<1>3. Total(LAMBDA b : report'.lead[b], DOMAIN report'.lead)
        = Total(LAMBDA b : report'.los[b], DOMAIN report'.los)
  BY <1>1, BucketsAgree DEF Total, SumFunction
<1>4. /\ report'.returning.returning <= report'.returning.total
      /\ ReturningNames(W) \subseteq report'.guests
  BY <1>1, GuestsReturn DEF ReturningNames
<1>5. MoneyIn(report', stay, Inside(W), SoldRevenue(W), Gross(W), ReturningNames(W))
  BY <1>1, <1>2, <1>3, <1>4 DEF MoneyIn
<1>6. QED
  BY <1>1, <1>5, MoneyLater

Audited == Books /\ MoneyAgrees

LEMMA AuditedInit == Init => Audited
<1> SUFFICES ASSUME Init PROVE Audited
  OBVIOUS
<1>1. report.page = "none" /\ Books
  BY DEF Init, NoReport, Books, Rows
<1>2. MoneyAgrees
  BY <1>1 DEF MoneyAgrees
<1>3. QED
  BY <1>1, <1>2 DEF Audited

LEMMA AuditedStep == Audited /\ [Next]_vars => Audited'
<1> SUFFICES ASSUME Audited, [Next]_vars PROVE Audited'
  OBVIOUS
<1>1. stay' = stay /\ closure' = closure /\ booking' = booking /\ evidence' = evidence
  BY DEF Next, GetAnalyticsPerformance, GetAnalyticsDemand, GetAnalyticsOutlook,
         GetAnalyticsPace, GetFinanceRevenueRecognition, portfolio, vars
<1>2. Books /\ Books'
  BY <1>1 DEF Audited, Books, Rows, SoldOnce, Night, Blocked
<1>3. report'.page \notin {"performance", "demand"} => MoneyAgrees'
  BY DEF MoneyAgrees
<1>4. CASE UNCHANGED vars
  <2> DEFINE W == report.window
  <2>1. report' = report /\ MoneyIn(report, stay, AllInside, SoldNow, GrossNow, GuestsNow)
    BY <1>4, MoneyMeans DEF vars, Audited
  <2>2. MoneyIn(report', stay, Inside(W), SoldRevenue(W), Gross(W), ReturningNames(W))
    BY <2>1 DEF MoneyIn, AllInside, Inside, SoldNow, GrossNow, GuestsNow
  <2>3. QED
    BY <1>1, <1>2, <2>1, <2>2, MoneyLater DEF Audited
<1>5. ASSUME NEW from \in Days, NEW to \in Days, GetAnalyticsPerformance(from, to)
      PROVE  Audited'
  BY <1>2, <1>5, PerformanceMoney DEF Audited
<1>6. ASSUME NEW from \in Days, NEW to \in Days, GetAnalyticsDemand(from, to)
      PROVE  Audited'
  BY <1>2, <1>6, DemandMoney DEF Audited
<1>7. ASSUME NEW today \in Days, GetAnalyticsOutlook(today) PROVE Audited'
  BY <1>2, <1>3, <1>7 DEF Audited, GetAnalyticsOutlook
<1>8. ASSUME NEW m \in Months, GetAnalyticsPace(m) \/ GetFinanceRevenueRecognition(m)
      PROVE  Audited'
  BY <1>2, <1>3, <1>8 DEF Audited, GetAnalyticsPace, GetFinanceRevenueRecognition
<1>9. QED
  BY <1>4, <1>5, <1>6, <1>7, <1>8 DEF Next

(* MoneyAgrees: the performance and the demand page take revenue, rates,   *)
(* cohorts, buckets and guests from queries of their own (analytics.go,    *)
(* analytics_statement.go), some by booking, some by stay, some by month;  *)
(* whatever the rows are, their sums agree, and the rates by weekday are   *)
(* off by less than a cent for each night.                                 *)
THEOREM MoneyCorrect == Spec => []MoneyAgrees
<1>1. Audited => MoneyAgrees
  BY DEF Audited
<1>2. QED
  BY <1>1, AuditedInit, AuditedStep, PTL DEF Spec
=============================================================================
