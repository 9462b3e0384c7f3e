---- MODULE MCCleaningCalendar ----
(***************************************************************************)
(* Instances of CleaningCalendar for TLC, explored apart so that their     *)
(* state spaces add up: a stay arrives as the other one leaves; a stay is  *)
(* cancelled and taken up again, with retries, lost answers and crashes;   *)
(* or while settings change; a check-out moves, also while people edit the *)
(* calendar.  One stay request waits for its pass at a time.               *)
(***************************************************************************)
EXTENDS CleaningCalendar, TLC

CONSTANTS s1, s2

VARIABLE question

Stay(in, out, cleaning) == [active |-> TRUE, cleaning |-> cleaning, in |-> in, out |-> out]
NoStay == [active |-> FALSE, cleaning |-> FALSE, in |-> 0, out |-> 0]

(* s2 is an arrival nobody cleans up after.                                *)
MCBookings ==
  (s1 :> {NoStay, Stay(0, 1, TRUE), Stay(0, 2, TRUE)}) @@ (s2 :> {NoStay, Stay(1, 2, FALSE)})

MCSettings ==
  {[calendar |-> "c", schedule |-> 0], [calendar |-> "c", schedule |-> 1], [calendar |-> None, schedule |-> 0]}

Default == [calendar |-> "c", schedule |-> 0]

SameSettings == settings' = settings

NoRetry == pass'.retry => pass.retry

Asked ==
  \/ /\ question = "turnover"
     /\ stay'[s1].out # 2 /\ hands' = 0 /\ faults' = 0 /\ NoRetry /\ SameSettings
  \/ /\ question = "cancel"
     /\ stay'[s1].out # 2 /\ ~stay'[s2].active /\ hands' = 0 /\ SameSettings
  \/ /\ question = "settings"
     /\ stay'[s1].out # 2 /\ ~stay'[s2].active /\ today' = 0 /\ hands' = 0 /\ faults' = 0 /\ NoRetry
  \/ /\ question = "move"
     /\ ~stay'[s2].active /\ today' = 0 /\ hands' = 0 /\ faults' = 0 /\ NoRetry /\ SameSettings
  \/ /\ question = "hands"
     /\ ~stay'[s2].active /\ today' = 0 /\ faults' = 0 /\ NoRetry /\ SameSettings
     /\ stay' # stay => pass.pc = "idle"

MCInit ==
  /\ Init
  /\ question \in {"turnover", "cancel", "settings", "move", "hands"}
  /\ question # "settings" => settings = Default

MCNext == Next /\ Asked /\ Cardinality(waiting') <= 1 /\ UNCHANGED question
MCSpec == MCInit /\ [][MCNext]_<<vars, question>> /\ Fairness
====
