------------------------------ MODULE MCNamedStays ------------------------------
(***************************************************************************)
(* Instances of NamedStays for TLC.  Sales and links are explored apart,   *)
(* so that their state spaces add up and do not multiply: two stays and a  *)
(* closure without blocks, or one stay and its blocks without closures.    *)
(***************************************************************************)
EXTENDS NamedStays, TLC

VARIABLE question

(* Late checkouts with and without cleaning, and owners with neither.      *)
ThreeKinds ==
  {[guest |-> TRUE, clean |-> TRUE, late |-> TRUE],
   [guest |-> TRUE, clean |-> FALSE, late |-> TRUE],
   [guest |-> FALSE, clean |-> FALSE, late |-> FALSE]}

(* Where links are asked about, every stay is booked without extras.       *)
Plain(s) == stay'[s].guest /\ stay'[s].clean /\ ~stay'[s].late

SalesStep ==
  \/ \E s \in Stays : StayRequest(s)
  \/ \E c \in Closures : ClosureRequest(c)

LinksStep ==
  \/ \E s \in Stays : StayRequest(s) /\ Plain(s) /\ \A t \in Stays \ {s} : ~Exists(t)
  \/ Synchronise

MCInit ==
  /\ Init
  /\ \/ question = "sales" /\ \A b \in Blocks : block[b].status = "absent"
     \/ question = "links"

MCNext ==
  /\ \/ question = "sales" /\ SalesStep
     \/ question = "links" /\ LinksStep
  /\ UNCHANGED question

MCSpec == MCInit /\ [][MCNext]_<<vars, question>>

Symmetry == Permutations(Stays) \cup Permutations(Blocks) \cup Permutations(Closures)
=============================================================================
