--------------------------- MODULE BookingAnalytics ---------------------------
(***************************************************************************)
(* The revenue of a property as its analytics and its finance pages count  *)
(* it (internal/store/analytics.go, analytics_statement.go,                *)
(* finance_revenue_recognition.go), and the pages that show it             *)
(* (internal/api/analytics_handlers.go, finance_handlers.go).              *)
(*                                                                         *)
(* The pages change nothing: a request is answered from the rows of one    *)
(* moment, and the answer is kept for comparison.                          *)
(***************************************************************************)
EXTENDS StayAnalytics, RevenueAllocation

CONSTANTS
  Horizons,     \* how many days ahead the outlook looks
  Year,         \* days of the trailing year
  MinNights,    \* nights without which there is no trailing rate
  FeeOn         \* the cleaner's fee in force on a day

VARIABLES
  evidence,     \* finance_statement_evidence of cancelled reservations
  report        \* the last answer

vars == <<portfolio, evidence, report>>

ASSUME YearAssumption == Year \in Nat

ASSUME HorizonAssumption ==
  Horizons \subseteq Nat \ {0} /\ Horizons # {} /\ IsFiniteSet(Horizons)

(* payout, statement: has_payout_data, has_statement_data; outcome:        *)
(* outcome_override is set; status comes from statements, reservation from *)
(* payouts.                                                                *)
Booking == [stay : Stays \cup {None}, payout : BOOLEAN, statement : BOOLEAN,
            in : Days \cup {None}, out : Days \cup {None},
            gross : Int, net : Int, commission : Int, fee : Int, persons : Nat,
            status : {None, "OK", "CANCELLED", "NO_SHOW"},
            reservation : {None, "ok", "cancelled"},
            outcome : BOOLEAN]

(* of: the booking with the same reference.                                *)
Evidence == [of : Bookings \cup {None}, booked : Days, in : Days]

StayOf(b) == booking[b].stay
Outcome(b) == booking[b].outcome \/ (StayOf(b) # None /\ stay[StayOf(b)].outcome)

-----------------------------------------------------------------------------
(* Revenue recognition.                                                    *)

(* parseFinanceStayWindow                                                  *)
ValidWindow(b) ==
  /\ booking[b].in # None /\ booking[b].out # None
  /\ booking[b].in < booking[b].out

CanonicalStatus(b) ==
  IF booking[b].status # None THEN booking[b].status
  ELSE IF booking[b].reservation = "cancelled" THEN "CANCELLED" ELSE "OK"

WithoutNights(b) == CanonicalStatus(b) \in {"CANCELLED", "NO_SHOW"} \/ Outcome(b)

(* What month m recognizes of an amount of booking b: all of it in the     *)
(* month of check-in when nobody stayed, else by nights.                   *)
Recognized(b, cents, m) ==
  LET x == booking[b]
      from == Max({x.in, Min(DaysOf(m))})
      to == Min({x.out, Max(DaysOf(m)) + 1})
  IN IF ~ValidWindow(b) THEN 0
     ELSE IF WithoutNights(b) THEN (IF Month(x.in) = m THEN cents ELSE 0)
     ELSE IF from < to THEN AllocateFinanceGross(cents, x.out - x.in, from - x.in, to - x.in)
     ELSE 0

PayoutBacked == {b \in Bookings : booking[b].payout}

ComputeFinanceRevenueRecognition(m) ==
  [gross    |-> Total(LAMBDA b : Recognized(b, booking[b].gross, m), PayoutBacked),
   net      |-> Total(LAMBDA b : Recognized(b, booking[b].net, m), PayoutBacked),
   excluded |-> {b \in PayoutBacked : ~ValidWindow(b)}]

-----------------------------------------------------------------------------
(* Revenue by arrival.                                                     *)

(* The condition four queries share.                                       *)
Materialized(b) == Outcome(b) \/ booking[b].reservation # "cancelled"

Counted(s) == stay[s].status = "active" /\ stay[s].confirmed /\ Night(s) # {}

Payouts(W) ==
  {b \in Bookings : /\ StayOf(b) # None
                    /\ Counted(StayOf(b)) /\ Arrives(StayOf(b), W) /\ Materialized(b)}

(* Variant: the price people entered counts beside the payout.             *)
ManualAndPaid(W) ==
  {s \in Stays : /\ Counted(s) /\ Arrives(s, W)
                 /\ stay[s].type = "external" /\ stay[s].revenue # None}

ManualSales(W) ==
  {s \in Stays : /\ Counted(s) /\ Arrives(s, W)
                 /\ stay[s].type = "external" /\ stay[s].revenue # None
                 /\ Linked(s) = {}}

Gross(W) == Total(LAMBDA b : booking[b].gross, Payouts(W))
            + Total(LAMBDA s : stay[s].revenue, ManualSales(W))
Net(W) == Total(LAMBDA b : booking[b].net, Payouts(W))
          + Total(LAMBDA s : stay[s].revenue, ManualSales(W))
Matched(W) == {StayOf(b) : b \in Payouts(W)} \cup ManualSales(W)

(* SumPayoutGrossNetForStays                                               *)
SumPayouts(W) == [gross |-> Gross(W), net |-> Net(W), matched |-> Matched(W)]

(* ListMonthlyOccupancyAndADR, its money                                   *)
MonthlyRevenue(months) ==
  LET W == UNION {DaysOf(m) : m \in months}
  IN [m \in months |->
        [gross   |-> Gross(DaysOf(m)),
         matched |-> NightsSoldInRange(ActiveStays(W) \cap Matched(W), DaysOf(m))]]

(* TrailingADR                                                             *)
TrailingADR(today) ==
  LET sum == SumPayouts(today - Year .. today - 1)
      nights == Total(LAMBDA s : Cardinality(Night(s)), sum.matched)
  IN IF nights < MinNights \/ nights = 0 THEN 0 ELSE Quotient(sum.gross, nights)

(* ListNetPerStay: all the bookings of a stay, wherever it arrives; a stay *)
(* whose four figures are all 0 has no row.                                *)
StayRevenue(s, cents(_)) ==
  IF Linked(s) # {} THEN Total(cents, {b \in Linked(s) : Materialized(b)})
  ELSE IF s \in ManualSales(Days) THEN stay[s].revenue ELSE 0

ListNetPerStay(W) ==
  LET gross(b) == booking[b].gross
      net(b) == booking[b].net
      commission(b) == booking[b].commission
      fee(b) == booking[b].fee
      figures(s) == {StayRevenue(s, gross), StayRevenue(s, net),
                     StayRevenue(s, commission), StayRevenue(s, fee)}
  IN {[stay |-> s, gross |-> StayRevenue(s, gross),
       net |-> StayRevenue(s, net) - (IF stay[s].outcome THEN 0 ELSE FeeOn[stay[s].out])] :
      s \in {t \in ActiveStays(W) : figures(t) # {0}}}

(* ADRByDimension: revenue and nights of the stays with revenue, by month  *)
(* of arrival, by lead time, or spread over the weekdays of their nights.  *)
RevenueOf(s, W) ==
  Total(LAMBDA b : booking[b].gross, {b \in Payouts(W) : StayOf(b) = s})
  + (IF s \in ManualSales(W) THEN stay[s].revenue ELSE 0)

Rate(gross, nights) == [gross |-> gross, nights |-> nights]

ADRBy(key(_), keys, W) ==
  LET of(k) == {s \in Matched(W) : key(s) = k}
  IN [k \in keys |-> Rate(Total(LAMBDA s : RevenueOf(s, W), of(k)),
                          Total(LAMBDA s : Cardinality(Night(s)), of(k)))]

ADRByMonth(W) ==
  ADRBy(LAMBDA s : Month(stay[s].in), {Month(stay[s].in) : s \in Matched(W)}, W)

ADRByLead(W) ==
  ADRBy(LAMBDA s : Bucket(LeadDays(s), LeadBounds), Buckets(LeadBounds), W)

PerNight(s, W) == Quotient(RevenueOf(s, W), Cardinality(Night(s)))

ADRByWeekday(W) ==
  LET on(s, k) == Cardinality({d \in Night(s) : Weekday(d) = k})
  IN [k \in {Weekday(d) : d \in Days} |->
        Rate(Total(LAMBDA s : PerNight(s, W) * on(s, k), Matched(W)),
             Total(LAMBDA s : on(s, k), Matched(W)))]

-----------------------------------------------------------------------------
(* What statements tell.                                                   *)
Stated == {b \in Bookings : booking[b].statement /\ StayOf(b) # None}

(* statementFinanciallyMaterializedStatus                                  *)
Financial(b) == booking[b].status \in {None, "OK"} \/ Outcome(b)

(* What a booking counts as in a cohort.                                   *)
Fate(b) == IF Outcome(b) THEN "other"
           ELSE IF booking[b].status = "CANCELLED" THEN "cancelled"
           ELSE IF booking[b].status \in {None, "OK"} THEN "active" ELSE "other"

(* Evidence counts until the booking it is about has a statement.          *)
Unstated == {e \in evidence : e.of = None \/ ~booking[e.of].statement}

EvidenceOutcome(e) == e.of # None /\ Outcome(e.of)

(* The dates of the stay win over those of the evidence.                   *)
EvidenceDate(e, own, date(_)) ==
  IF e.of # None /\ StayOf(e.of) # None THEN date(StayOf(e.of)) ELSE own

ArrivalOf(s) == stay[s].in
KnownOf(s) == stay[s].known

(* cancellationCohort: by the month of first_known_at or of check-in.      *)
CancellationCohort(date(_), own(_), W) ==
  LET rows == {b \in Stated : date(StayOf(b)) \in W}
      more == {e \in Unstated : EvidenceDate(e, own(e), date) \in W}
      of(fate, m) ==
        Cardinality({b \in rows : Fate(b) = fate /\ Month(date(StayOf(b))) = m})
        + Cardinality({e \in more : /\ Month(EvidenceDate(e, own(e), date)) = m
                                    /\ fate = IF EvidenceOutcome(e) THEN "other" ELSE "cancelled"})
  IN [m \in Months |->
        [cancelled |-> of("cancelled", m), active |-> of("active", m), other |-> of("other", m)]]

ListCancellationByBookingCohort(W) == CancellationCohort(KnownOf, LAMBDA e : e.booked, W)
ListCancellationByArrivalCohort(W) == CancellationCohort(ArrivalOf, LAMBDA e : e.in, W)

(* ListLeadTimeStatementBuckets: whole days, of 24 hours, before check-in. *)
ListLeadTimeStatementBuckets(W) ==
  [k \in Buckets(LeadBounds) |->
     Cardinality({b \in Stated : /\ Financial(b) /\ Arrives(StayOf(b), W)
                                 /\ Bucket(Max({0, stay[StayOf(b)].in - stay[StayOf(b)].known - 1}),
                                           LeadBounds) = k})]

(* ListPersonsDistribution                                                 *)
ListPersonsDistribution(W) ==
  LET rows == {b \in Stated : Financial(b) /\ booking[b].persons > 0 /\ Arrives(StayOf(b), W)}
  IN [p \in {booking[b].persons : b \in rows} |->
        LET of == {b \in rows : booking[b].persons = p}
        IN [stays |-> Cardinality(of), gross |-> Total(LAMBDA b : booking[b].gross, of)]]

(* ListCommissionPerStay                                                   *)
ListCommissionPerStay(W) == {b \in Stated : Financial(b) /\ Arrives(StayOf(b), W)}

(* ListCommissionRateTrend                                                 *)
ListCommissionRateTrend(W) ==
  LET rows == {b \in Stated : Financial(b) /\ KnownOf(StayOf(b)) \in W}
  IN [m \in {Month(KnownOf(StayOf(b))) : b \in rows} |->
        LET of == {b \in rows : Month(KnownOf(StayOf(b))) = m}
        IN [stays |-> Cardinality(of),
            commission |-> Total(LAMBDA b : booking[b].commission, of)]]

-----------------------------------------------------------------------------
(* The pages.                                                              *)

(* computePerformanceKPIs                                                  *)
PerformanceKPIs(W) ==
  [sold      |-> NightsSoldInRange(ActiveStays(W), W),
   available |-> BookableNightsInRange(Blockers(W), W),
   gross     |-> Gross(W),
   matched   |-> NightsSoldInRange(ActiveStays(W) \cap Matched(W), W),
   guest     |-> GuestNights(W)]

(* The trend ends with the month before the one of the window's end.       *)
TrendMonths(to) == {m \in Months : m < Month(to)}

(* getAnalyticsPerformance, with from .. to - 1 as its window.             *)
GetAnalyticsPerformance(from, to) ==
  LET W == from .. to - 1
  IN /\ from < to
     /\ report' =
          [page       |-> "performance", window |-> W,
           kpis       |-> PerformanceKPIs(W),
           months     |-> MonthlyOccupancy(TrendMonths(to)),
           revenue    |-> MonthlyRevenue(TrendMonths(to)),
           weeks      |-> ListWeeklyOccupancy(0 .. LastDay - 1),
           weekdays   |-> ListDOWOccupancy(W),
           cancelled  |-> ListCancellations(W),
           arrivals   |-> CountActiveArrivals(W),
           booked     |-> ListCancellationByBookingCohort(W),
           arrived    |-> ListCancellationByArrivalCohort(W),
           commission |-> ListCommissionRateTrend(W),
           perStay    |-> ListCommissionPerStay(W),
           net        |-> ListNetPerStay(W)]
     /\ UNCHANGED <<portfolio, evidence>>

(* The revenue of a horizon: the gross of the stays that have revenue, and *)
(* for the nights of the others the trailing rate.                         *)
Horizon(stays, today, h) ==
  LET W == today .. today + h - 1
      sold == NightsSoldInRange(stays, W)
      matched == NightsSoldInRange(stays \cap Matched(W), W)
  IN [sold      |-> sold,
      available |-> BookableNightsInRange(Blockers(W), W),
      confirmed |-> Gross(W),
      estimated |-> Max({0, sold - matched})]

(* getAnalyticsOutlook: estimated nights stand for the estimated revenue.  *)
GetAnalyticsOutlook(today) ==
  LET ahead == today .. today + Max(Horizons) - 1
      soon == today .. today + WeekLength - 1
  IN /\ report' =
          [page     |-> "outlook", today |-> today, window |-> soon,
           trailing |-> TrailingADR(today),
           horizons |-> [h \in Horizons |-> Horizon(ActiveStays(ahead), today, h)],
           pace     |-> PaceSeriesCumulative(ahead),
           unsold   |-> ListUnsoldNightsWithContext(soon),
           new      |-> NewBookingsByDay(today - WeekLength)]
     /\ UNCHANGED <<portfolio, evidence>>

(* getAnalyticsDemand                                                      *)
GetAnalyticsDemand(from, to) ==
  LET W == from .. to - 1
  IN /\ from < to
     /\ report' =
          [page      |-> "demand", window |-> W,
           lead      |-> ListLeadTimeBuckets(W),
           stated    |-> ListLeadTimeStatementBuckets(W),
           los       |-> ListLengthOfStayBuckets(W),
           persons   |-> ListPersonsDistribution(W),
           months    |-> ADRByMonth(W), leads |-> ADRByLead(W), weekdays |-> ADRByWeekday(W),
           gaps      |-> ListGapNights(W), orphans |-> ListOrphanMidweek(W),
           returning |-> ReturningGuestCount(W), guests |-> ListReturningGuests(W)]
     /\ UNCHANGED <<portfolio, evidence>>

(* getAnalyticsPace: at every midnight up to the first of the month.       *)
GetAnalyticsPace(m) ==
  /\ report' = [page |-> "pace", month |-> m,
                curve |-> PaceCurve(m, Min(DaysOf(m)) - Year .. Min(DaysOf(m)))]
  /\ UNCHANGED <<portfolio, evidence>>

(* getFinanceRevenueRecognition                                            *)
GetFinanceRevenueRecognition(m) ==
  /\ report' = [page |-> "recognition", month |-> m,
                result |-> ComputeFinanceRevenueRecognition(m)]
  /\ UNCHANGED <<portfolio, evidence>>

Next ==
  \/ \E from, to \in Days : \/ GetAnalyticsPerformance(from, to)
                            \/ GetAnalyticsDemand(from, to)
  \/ \E today \in Days : GetAnalyticsOutlook(today)
  \/ \E m \in Months : GetAnalyticsPace(m) \/ GetFinanceRevenueRecognition(m)

NoReport == [page |-> "none"]

(* NoNightSoldTwice and DerivedRowsAgree of NamedStays: what the rows of a *)
(* property fulfil whatever its requests were.                             *)
SoldOnce ==
  \A s \in Stays :
    /\ stay[s].in < stay[s].out
    /\ \A t \in Stays \ {s} : Night(s) \cap Night(t) = {}
    /\ \A c \in Closures : closure[c] # None => Night(s) \cap Blocked(c) = {}

Init ==
  /\ stay \in [Stays -> Stay] /\ closure \in [Closures -> {None} \cup Closure]
  /\ booking \in [Bookings -> Booking] /\ evidence \subseteq Evidence
  /\ SoldOnce
  /\ report = NoReport

Spec == Init /\ [][Next]_vars

-----------------------------------------------------------------------------
AllDays == 0 .. LastDay - 1
Sum(cells, field) == Total(LAMBDA k : cells[k][field], DOMAIN cells)

(* The nights of one window are the same on every chart of the page and in *)
(* the calendar, and no cell is fuller than full: "sold-night counts must  *)
(* match backend analytics semantics"                                      *)
(* (spec/PMS_21_Coding_Agent_Remediation_Instructions_2026-07-18.md:40).   *)
PerformanceNights ==
  report.page = "performance" =>
    LET k == report.kpis
        Full(cells) == \A c \in DOMAIN cells : cells[c].sold <= cells[c].available
    IN /\ k.sold = k.guest /\ k.sold = Cardinality(CalendarNights(report.window))
       /\ k.sold <= k.available
       /\ k.sold = Sum(report.weekdays, "sold")
       /\ k.available = Sum(report.weekdays, "available")
       /\ Full(report.months) /\ Full(report.weeks) /\ Full(report.weekdays)
       /\ report.window = AllDays =>
            /\ k.sold = Sum(report.months, "sold") /\ k.sold = Sum(report.weeks, "sold")
            /\ k.available = Sum(report.months, "available")
            /\ k.available = Sum(report.weeks, "available")

(* No night the calendar sells is listed as unsold, every night that is    *)
(* still available is, and between the two stays named beside one nothing  *)
(* is sold.  Among the available nights the gaps are those that their two  *)
(* neighbours touch, and a gap or an orphan is never a night that is sold. *)
(* Nothing is said of a night that is closed, kept for personal use or     *)
(* under review: the lists name it like any other unsold night.            *)
FreeNights ==
  LET sold == CalendarNights(report.window)
      available == OpenDays(report.window)
      unsold == ListUnsoldNightsWithContext(report.window)
      touched == {u \in unsold : /\ u.prev # None /\ u.next # None
                                 /\ stay[u.prev].out = u.date /\ stay[u.next].in = u.date + 1}
  IN /\ report.page = "outlook" =>
          /\ {u.date : u \in report.unsold} \subseteq report.window \ sold
          /\ available \ sold \subseteq {u.date : u \in report.unsold}
          /\ \A u \in report.unsold :
               LET after == IF u.prev = None THEN 0 ELSE stay[u.prev].out
                   before == IF u.next = None THEN LastDay + WeekLength ELSE stay[u.next].in
               IN u.date \in after .. before - 1 /\ CalendarNights(after .. before - 1) = {}
          /\ report.pace[Max(DOMAIN report.pace)] = report.horizons[Max(Horizons)].sold
     /\ report.page = "demand" =>
          /\ report.gaps \cap available = {u.date : u \in touched} \cap available
          /\ report.gaps \cup report.orphans \subseteq report.window \ sold

(* Every page and chart gives the same account of the nights.              *)
NightsAgree == PerformanceNights /\ FreeNights

(* Nothing a query reads lies outside the window of all days.              *)
AllInside ==
  /\ report.window = AllDays
  /\ \A s \in Stays : stay[s].known \in AllDays
  /\ \A e \in evidence : e.booked \in AllDays /\ e.in \in AllDays

(* Every chart gives the same account of the revenue and of the bookings:  *)
(* months add up to the headline, stays to the arrivals, cohorts by        *)
(* booking to cohorts by arrival; rates by month, by lead time and by      *)
(* weekday share their revenue up to a cent per night.                     *)
MoneyAgrees ==
  /\ report.page = "performance" =>
       LET k == report.kpis
       IN /\ k.matched <= k.sold
          /\ AllInside => /\ k.gross = Sum(report.revenue, "gross")
                          /\ k.matched = Sum(report.revenue, "matched")
                          /\ \A fate \in {"cancelled", "active", "other"} :
                               Sum(report.booked, fate) = Sum(report.arrived, fate)
                          /\ Sum(report.commission, "stays") = Cardinality(report.perStay)
          /\ LET sold == Matched(report.window) \cap ActiveStays(report.window)
                 rows == {n \in report.net : Arrives(n.stay, report.window)}
             IN Total(LAMBDA n : n.gross, rows)
                  = Total(LAMBDA s : RevenueOf(s, report.window), sold)
  /\ report.page = "demand" =>
       LET gross == Sum(report.months, "gross")
           nights == Sum(report.months, "nights")
           spread == Sum(report.weekdays, "gross")
       IN /\ gross = Gross(report.window) /\ gross = Sum(report.leads, "gross")
          /\ nights = Sum(report.leads, "nights") /\ nights = Sum(report.weekdays, "nights")
          /\ gross - spread \in -nights .. nights
          /\ Total(LAMBDA b : report.lead[b], DOMAIN report.lead)
               = Total(LAMBDA b : report.los[b], DOMAIN report.los)
          /\ report.returning.returning <= report.returning.total
          /\ {stay[s].guest : s \in Returning(report.window)} \subseteq report.guests

(* "Gross and net each conserve their own booking total across months"     *)
(* (spec/PMS_28, D05): to the cent, for amounts of either sign, and no     *)
(* month recognizes more than the booking or against its sign.             *)
RecognizedExactly ==
  report.page = "recognition" =>
    \A b \in PayoutBacked \ report.result.excluded :
      \A cents \in {booking[b].gross, booking[b].net} :
        /\ Total(LAMBDA m : Recognized(b, cents, m), Months) = cents
        /\ \A m \in Months : IF cents >= 0 THEN Recognized(b, cents, m) \in 0 .. cents
                             ELSE Recognized(b, cents, m) \in cents .. 0

(* From one midnight to the next the pace rises by bookings that became    *)
(* known on that day and falls by cancellations of that day, no other way: *)
(* outcomes that keep the sale keep it in the curve                        *)
(* (spec/PMS_05_Analytics_Module_Spec.md:48-51).                           *)
PaceFollowsBookings ==
  report.page = "pace" =>
    \A c \in DOMAIN report.curve :
      c + 1 \in DOMAIN report.curve =>
        LET new == NewBookingsByDay(Min(DOMAIN report.curve))
            lost == {s \in ListCancellations(DaysOf(report.month)) : stay[s].gone = c}
        IN report.curve[c + 1] - report.curve[c]
             \in -Cardinality(lost) .. (IF c \in DOMAIN new THEN new[c] ELSE 0)
=============================================================================
