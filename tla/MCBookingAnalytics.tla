-------------------------- MODULE MCBookingAnalytics --------------------------
(***************************************************************************)
(* Instances of BookingAnalytics for TLC: the rows of a property in which  *)
(* nights, revenue, or the course of bookings vary, and one request.       *)
(***************************************************************************)
EXTENDS BookingAnalytics, TLC

CONSTANTS s1, s2, c1, c2, b1, b2, g1

MCMidweek == {1, 2}
MCLead == {0, 2}
MCLos == {1, 2}
MCHorizons == {2, 4}
MCFee == [d \in Days |-> 2]

Ranges == {<<i, o>> \in Days \X Days : i < o /\ o <= i + 4}

(* A stay of the usual kind, and a booking of it.                          *)
Usual(i, o) == [in |-> i, out |-> o, status |-> "active", type |-> "booking_com",
                confirmed |-> TRUE, outcome |-> FALSE, revenue |-> None,
                known |-> 0, gone |-> None, guest |-> g1]
Paid(s) == [stay |-> s, payout |-> TRUE, statement |-> TRUE, in |-> 0, out |-> 1,
            gross |-> 7, net |-> 5, commission |-> 2, fee |-> 0, persons |-> 1,
            status |-> "OK", reservation |-> "ok", outcome |-> FALSE]

Kinds ==
  {[x EXCEPT !.type = "external"] : x \in {Usual(0, 1), [Usual(0, 1) EXCEPT !.revenue = 5]}}
  \cup {Usual(0, 1), [Usual(0, 1) EXCEPT !.type = "personal_use"],
        [Usual(0, 1) EXCEPT !.confirmed = FALSE]}

At(x, r) == [x EXCEPT !.in = r[1], !.out = r[2]]

NoClosures == closure = [c \in Closures |-> None]
Closed == {None} \cup {[in |-> r[1], out |-> r[2]] : r \in {<<0, 2>>, <<1, 3>>, <<5, 6>>}}

NightRows ==
  /\ \E r, q \in Ranges, x \in Kinds, y \in {k \in Kinds : k.type = "external"} \cup {Usual(0, 1)} :
       stay = (s1 :> At(x, r)) @@ (s2 :> At(y, q))
  /\ closure \in [Closures -> Closed]
  /\ booking = [b \in Bookings |-> Paid(IF b = b1 THEN s1 ELSE None)]
  /\ evidence = {}

MoneyRows ==
  /\ \E r, q \in {<<0, 2>>, <<1, 4>>, <<2, 3>>, <<4, 6>>}, x, y \in Kinds, k \in {0, 1} :
       stay = (s1 :> At([x EXCEPT !.known = k], r)) @@ (s2 :> At(y, q))
  /\ NoClosures
  /\ \E s \in {s1, None}, t \in {s1, s2}, st \in {None, "CANCELLED"},
        rs \in {"ok", "cancelled"}, o, told \in BOOLEAN :
       booking = (b1 :> [Paid(s) EXCEPT !.status = st, !.reservation = rs, !.outcome = o,
                                        !.statement = told])
                 @@ (b2 :> [Paid(t) EXCEPT !.gross = -3])
  /\ evidence \in {{}, {[of |-> b1, booked |-> 1, in |-> 4]}}

RecognitionRows ==
  /\ stay = [s \in Stays |-> IF s = s1 THEN Usual(0, 1) ELSE Usual(1, 2)]
  /\ NoClosures
  /\ \E i, o \in Days \cup {None}, cents \in {-7, -1, 0, 4, 11},
        st \in {"OK", "NO_SHOW", None}, rs \in {"ok", "cancelled"}, out \in BOOLEAN :
       booking = [b \in Bookings |->
         IF b = b1 THEN [Paid(None) EXCEPT !.in = i, !.out = o, !.gross = cents, !.net = 3 - cents,
                                           !.status = st, !.reservation = rs, !.outcome = out]
         ELSE Paid(s1)]
  /\ evidence = {}

PaceRows ==
  /\ \E i \in {3, 4}, k, l \in 0 .. 3, st \in {"active", "cancelled", "archived"},
        out, f \in BOOLEAN, g \in {None} \cup 1 .. 4, ty \in {"booking_com", "personal_use"} :
       /\ g # None => st = "cancelled" /\ g >= k
       /\ st = "cancelled" => g # None
       /\ stay = (s1 :> [At(Usual(0, 1), <<i, 6>>) EXCEPT !.known = k, !.status = st, !.gone = g,
                           !.outcome = out, !.type = ty, !.confirmed = f])
                 @@ (s2 :> [At(Usual(0, 1), <<i - 1, i>>) EXCEPT !.known = l])
  /\ NoClosures
  /\ booking = [b \in Bookings |-> Paid(None)]
  /\ evidence = {}

VARIABLE question

MCInit ==
  /\ \/ question = "nights" /\ NightRows
     \/ question = "money" /\ MoneyRows
     \/ question = "recognition" /\ RecognitionRows
     \/ question = "pace" /\ PaceRows
  /\ Init

Windows == {<<0, LastDay>>, <<1, 4>>}

MCNext ==
  /\ report = NoReport
  /\ \/ /\ question \in {"nights", "money"}
        /\ \E w \in Windows : \/ GetAnalyticsPerformance(w[1], w[2])
                              \/ GetAnalyticsDemand(w[1], w[2])
     \/ question \in {"nights", "money"} /\ \E today \in {2, LastDay} : GetAnalyticsOutlook(today)
     \/ question = "recognition" /\ \E m \in Months : GetFinanceRevenueRecognition(m)
     \/ question = "pace" /\ \E m \in Months : GetAnalyticsPace(m)
  /\ UNCHANGED question

MCSpec == MCInit /\ [][MCNext]_<<vars, question>>
=============================================================================
