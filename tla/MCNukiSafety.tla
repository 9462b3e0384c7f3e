----------------------------- MODULE MCNukiSafety -----------------------------
(***************************************************************************)
(* Three questions to NukiLifecycle whose state spaces add up: requests    *)
(* and a worker that generate and revoke the code of one stay; one client  *)
(* that is cut off again and again while nothing else happens; and a       *)
(* property whose lock, stay and code change under a request and a worker. *)
(***************************************************************************)
EXTENDS MCNukiLifecycle

CONSTANT l1

VARIABLE question

Used == {r \in Auths : auth[r].st # "unused"}
Busy == {p \in Procs : proc[p] # IdleProc}

NoDrop == \A r \in Auths : auth'[r].st # "dropped"

(* Requests run a pass only after a call of their own.                     *)
NoSync == \A p \in Requests : proc'[p].pc = "snap" => proc[p].pc # "idle"

(* Names fit the lock.                                                     *)
NoLongName == \A p \in Requests : proc'[p].pc = "gen_fail_project" => proc[p].pc # "idle"

(* Bound for the third question: nothing begins above this revision.       *)
FewRevisions ==
  \A p \in Procs : (proc[p] = IdleProc /\ proc'[p] # IdleProc) => \A i \in CredIds : cred[i].rev < 4

Asked ==
  \/ /\ question = "concurrent"
     /\ stay' = stay /\ lock' = lock /\ NoDrop /\ NoSync
  \/ /\ question = "cut off"
     /\ stay' = stay /\ lock' = lock /\ NoLongName
     /\ \A p \in Busy' : p \in Requests /\ proc'[p].pc # "del_start"
     /\ \A p, q \in Busy' : p = q
  \/ /\ question = "rebinding"
     /\ Cardinality(Used') <= 1 /\ Cardinality(Busy' \cap Requests) <= 1 /\ NoDrop /\ NoSync
     /\ FewRevisions

MCInit == Init /\ lock = l1 /\ question \in {"concurrent", "cut off", "rebinding"}
MCNext == Next /\ Asked /\ UNCHANGED question
MCSpec == MCInit /\ [][MCNext]_<<vars, question>>

(* A client that is alone never opens a second authorization, wherever its *)
(* requests are cut off and whichever answers are lost: the intent that is *)
(* durable before the provider hears of it holds the next one back.  The   *)
(* names it asks for fit the lock: the failure recorded for a longer one   *)
(* takes the identity from the code, and the next request creates anew.    *)
OneClientOneAuthorization == question = "cut off" => OneAuthorizationPerStay
=============================================================================
