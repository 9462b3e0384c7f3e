---------------------------- MODULE StayAnalytics -----------------------------
(***************************************************************************)
(* The nights of a property as its analytics count them: sold, blocked and *)
(* free nights by window, month, week and weekday, gaps, bookings known    *)
(* over time, returning guests (internal/store/analytics.go,               *)
(* occupancy_nights.go, stay_calendar.go).  The code computes the calendar *)
(* and each number by queries of their own.  A filter that several queries *)
(* write out and that is the same in all of them is one operator here, so  *)
(* copies of it that drift apart would not show.                           *)
(*                                                                         *)
(* Dates are day numbers; night d lies between day d and day d + 1, and a  *)
(* window is the set of its days.  A time is the day it lies in, some time *)
(* after midnight.  Every day has 24 hours here.                           *)
(***************************************************************************)
EXTENDS Integers, FiniteSets, FiniteSetsExt

CONSTANTS
  Stays,        \* ids of named_stays
  Closures,     \* ids of property_availability_blocks
  Bookings,     \* ids of finance_bookings
  Guests,       \* names of guests, as NormalizeGuestName folds them
  LastDay,      \* bound: the last check-out date
  MonthLength, WeekLength,
  Midweek,      \* the weekdays that are not Friday, Saturday or Sunday
  LeadBounds,   \* upper bounds of the lead time buckets but the last
  LosBounds,    \* the same for the length of stay
  None

ASSUME CalendarAssumption ==
  /\ LastDay \in Nat /\ MonthLength \in Nat \ {0} /\ WeekLength \in Nat \ {0}
  /\ IsFiniteSet(Stays) /\ IsFiniteSet(Bookings)
  /\ IsFiniteSet(LeadBounds) /\ IsFiniteSet(LosBounds)
  /\ LastDay % MonthLength = 0   \* the days end with a month
  /\ None \notin Int /\ None \notin Stays

VARIABLES
  stay,         \* named_stays with the active rows of named_stay_nights
  closure,      \* property_availability_blocks with status active
  booking       \* finance_bookings

portfolio == <<stay, closure, booking>>

Days == 0 .. LastDay
Month(d) == d \div MonthLength
Week(d) == d \div WeekLength
Weekday(d) == d % WeekLength

Months == {Month(d) : d \in 0 .. LastDay - 1}
DaysOf(m) == {d \in 0 .. LastDay - 1 : Month(d) = m}

(* revenue: manual_revenue_cents; outcome: no_show or                      *)
(* cancelled_non_refundable; known: first_known_at; gone:                  *)
(* cancellation_effective_at; guest: None stands for a name too short.     *)
Stay == [in : Days, out : Days,
         status : {"active", "cancelled", "archived"},
         type : {"booking_com", "external", "personal_use"},
         confirmed : BOOLEAN, outcome : BOOLEAN,
         revenue : Int \cup {None},
         known : Int, gone : Int \cup {None},
         guest : Guests \cup {None}]

Closure == [in : Days, out : Days]

(* What the transactions of NamedStays leave behind.                       *)
Night(s) == IF stay[s].status = "active" THEN stay[s].in .. stay[s].out - 1 ELSE {}
Blocked(c) == closure[c].in .. closure[c].out - 1

Linked(s) == {b \in Bookings : booking[b].stay = s}
Total(f(_), S) == SumFunction([x \in S |-> f(x)])

-----------------------------------------------------------------------------
(* Which stays count.                                                      *)

(* A stay of a kind that is sold: one filter that seven queries repeat.    *)
Sellable(s) ==
  \/ stay[s].type = "booking_com"
  \/ stay[s].type = "external" /\ (stay[s].revenue # None \/ Linked(s) # {})

(* ListActiveStaysInDateRange                                              *)
ActiveStays(W) ==
  {s \in Stays : /\ stay[s].status = "active" /\ stay[s].confirmed
                 /\ Night(s) \cap W # {}
                 /\ Sellable(s)}

NightsIn(s, W) == Night(s) \cap W

(* Variant: a booking does not make an external stay a sale.               *)
BlockingUnlessPriced(s) ==
  \/ ~stay[s].confirmed
  \/ stay[s].type = "personal_use"
  \/ stay[s].type = "external" /\ stay[s].revenue = None

Blocking(s) ==
  \/ ~stay[s].confirmed
  \/ stay[s].type = "personal_use"
  \/ stay[s].type = "external" /\ stay[s].revenue = None /\ Linked(s) = {}

(* ListAvailabilityBlockersInDateRange: the nights each blocker takes.     *)
Blockers(W) ==
  {Night(s) \cap W : s \in {t \in Stays : stay[t].status = "active" /\ Blocking(t)}}
  \cup {Blocked(c) \cap W : c \in {d \in Closures : closure[d] # None}}

NightsSoldInRange(stays, W) == Total(LAMBDA s : Cardinality(NightsIn(s, W)), stays)

ClosedNightsInRange(blockers, W) == Cardinality(W \cap UNION blockers)

BookableNightsInRange(blockers, W) ==
  Max({0, Cardinality(W) - ClosedNightsInRange(blockers, W)})

(* OccupancyMetricNights: the headline of the performance page.            *)
GuestNights(W) ==
  Cardinality(UNION {Night(s) \cap W :
    s \in {t \in Stays : /\ stay[t].status = "active"
                         /\ stay[t].confirmed /\ Sellable(t)}})

(* ListCalendarNamedStays: counts_as_sold and the covered nights of the    *)
(* calendar.                                                               *)
CountsAsSold(s) == stay[s].status = "active" /\ stay[s].confirmed /\ Sellable(s)
CalendarNights(W) ==
  {d \in W : \E s \in Stays : /\ stay[s].status # "archived"
                              /\ CountsAsSold(s) /\ d \in Night(s)}

-----------------------------------------------------------------------------
(* Occupancy by month, week and weekday.                                   *)
Cell(sold, available) == [sold |-> sold, available |-> available]

(* ListMonthlyOccupancyAndADR, its nights                                  *)
MonthlyOccupancy(months) ==
  LET W == UNION {DaysOf(m) : m \in months}
      stays == ActiveStays(W)
      blockers == Blockers(W)
  IN [m \in months |->
        Cell(Total(LAMBDA s : Cardinality({d \in NightsIn(s, W) : Month(d) = m}), stays),
             BookableNightsInRange(blockers, DaysOf(m)))]

(* ListWeeklyOccupancy and ListDOWOccupancy: rows for the cells of the     *)
(* calendar with a day that no row blocks, or for every weekday.           *)
OpenDays(W) == W \ UNION Blockers(W)

OccupancyBy(cell(_), cells, W) ==
  [k \in cells |->
     Cell(Total(LAMBDA s : Cardinality({d \in NightsIn(s, W) : cell(d) = k}), ActiveStays(W)),
          Cardinality({d \in OpenDays(W) : cell(d) = k}))]

ListWeeklyOccupancy(W) == OccupancyBy(Week, {Week(d) : d \in OpenDays(W)}, W)
ListDOWOccupancy(W) == OccupancyBy(Weekday, {Weekday(d) : d \in Days}, W)

-----------------------------------------------------------------------------
(* Free nights: those that are not sold, whatever else takes them.  The    *)
(* code looks a month, or a week, around the window.                       *)
Around(W) == IF W = {} THEN {} ELSE Min(W) - 1 .. Max(W) + 1

Occupied(W) == UNION {NightsIn(s, Around(W)) : s \in ActiveStays(Around(W))}

LastOf(stays)  == CHOOSE s \in stays : \A t \in stays : stay[t].in <= stay[s].in
FirstOf(stays) == CHOOSE s \in stays : \A t \in stays : stay[t].in >= stay[s].in

(* ListUnsoldNightsWithContext: stays are listed by check-in date, and the *)
(* neighbours are the last that has ended and the first that begins.       *)
ListUnsoldNights(W, listed) ==
  {[date |-> d,
    prev |-> LET before == {s \in listed : stay[s].out <= d + 1}
             IN IF before = {} THEN None ELSE LastOf(before),
    next |-> LET after == {s \in listed : stay[s].in >= d + 1}
             IN IF after = {} THEN None ELSE FirstOf(after)] : d \in W \ Occupied(W)}

ListUnsoldNightsWithContext(W) == ListUnsoldNights(W, ActiveStays(Days))

(* ListGapNights                                                           *)
ListGapNights(W) ==
  {d \in W \ Occupied(W) : d - 1 \in Occupied(W) /\ d + 1 \in Occupied(W)}

(* ListOrphanMidweek: one or two free nights in midweek, with a sold night *)
(* before and a sold night after.                                          *)
ListOrphanMidweek(W) ==
  LET free == {d \in W \ Occupied(W) : Weekday(d) \in Midweek}
  IN UNION {S \in {a .. a + n : a \in W, n \in {0, 1}} :
              S \subseteq free /\ {Min(S) - 1, Max(S) + 1} \subseteq Occupied(W)}

-----------------------------------------------------------------------------
(* Bookings over time.                                                     *)
Arrives(s, W) == stay[s].in \in W

(* NewBookingsByDay                                                        *)
NewBookingsByDay(since) ==
  LET new == {s \in Stays : /\ stay[s].status \in {"active", "cancelled"}
                            /\ stay[s].confirmed /\ Sellable(s) /\ stay[s].known >= since}
  IN [d \in {stay[s].known : s \in new} |-> Cardinality({s \in new : stay[s].known = d})]

(* PaceSeriesCumulative                                                    *)
PaceSeriesCumulative(W) ==
  [d \in W |-> Total(LAMBDA s : Cardinality({e \in NightsIn(s, W) : e <= d}), ActiveStays(W))]

(* paceCurve: at midnight of a day, the bookings of a window's arrivals    *)
(* that were known by then and not yet cancelled.                          *)
Cohort(W) ==
  {s \in Stays : /\ Arrives(s, W)
                 /\ stay[s].status \in {"active", "cancelled"}
                 /\ stay[s].confirmed /\ Sellable(s)}

(* Variant: outcomes are not looked at.                                    *)
GoneByStatus(s, day) ==
  stay[s].status = "cancelled" /\ stay[s].gone # None /\ stay[s].gone < day

GoneBy(s, day) ==
  /\ stay[s].status = "cancelled" /\ ~stay[s].outcome
  /\ stay[s].gone # None /\ stay[s].gone < day

PaceCurve(m, cutoffs) ==
  [c \in cutoffs |->
     Cardinality({s \in Cohort(DaysOf(m)) : stay[s].known < c /\ ~GoneBy(s, c)})]

(* ListCancellationsInArrivalWindow, whatever the kind of stay             *)
ListCancellations(W) ==
  {s \in Stays : /\ stay[s].status = "cancelled" /\ ~stay[s].outcome
                 /\ stay[s].gone # None /\ Arrives(s, W)}

(* CountActiveArrivalsInWindow                                             *)
CountActiveArrivals(W) ==
  Cardinality({s \in Stays : /\ stay[s].status = "active" /\ stay[s].confirmed
                             /\ ~stay[s].outcome /\ Arrives(s, W)
                             /\ Night(s) # {} /\ Sellable(s)})

(* leadBucketFor, losBucketFor: how many bounds a number exceeds.          *)
Bucket(n, bounds) == Cardinality({b \in bounds : b < n})
Buckets(bounds) == 0 .. Cardinality(bounds)

(* calendarLeadDays                                                        *)
LeadDays(s) == Max({0, stay[s].in - stay[s].known})

ListLeadTimeBuckets(W) ==
  [k \in Buckets(LeadBounds) |->
     Cardinality({s \in ActiveStays(W) : Bucket(LeadDays(s), LeadBounds) = k})]

ListLengthOfStayBuckets(W) ==
  [k \in Buckets(LosBounds) |->
     Cardinality({s \in ActiveStays(W) : Bucket(Cardinality(Night(s)), LosBounds) = k})]

(* ListReturningGuests and ReturningGuestCount read all stays, whether     *)
(* they have nights or not.                                                *)
Known(s) == stay[s].status = "active" /\ stay[s].confirmed /\ Sellable(s)
StaysOf(g) == {s \in Stays : Known(s) /\ stay[s].guest = g}

ListReturningGuests(W) ==
  {g \in Guests : Cardinality(StaysOf(g)) >= 2 /\ \E s \in StaysOf(g) : Arrives(s, W)}

Returning(W) ==
  {s \in Stays : /\ Known(s) /\ Arrives(s, W) /\ stay[s].guest \in Guests
                 /\ \E t \in StaysOf(stay[s].guest) : stay[t].in < stay[s].in}

ReturningGuestCount(W) ==
  [returning |-> Cardinality(Returning(W)),
   total     |-> Cardinality({s \in Stays : Known(s) /\ Arrives(s, W)})]
=============================================================================
