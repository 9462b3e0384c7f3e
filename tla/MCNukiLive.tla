------------------------------ MODULE MCNukiLive ------------------------------
(***************************************************************************)
(* Two questions to a fair NukiLifecycle whose state spaces add up:        *)
(* whether pending work ends while codes are generated and revoked, and    *)
(* while the stay is edited, renamed and expires under it.                 *)
(***************************************************************************)
EXTENDS MCNukiLifecycle

VARIABLE question

(* Bound for the second question: requests begin only below this revision. *)
(* Nobody has to make a request, so fairness does not depend on it.        *)
FewRequests ==
  \A p \in Requests : (proc[p] = IdleProc /\ proc'[p] # IdleProc) => \A i \in CredIds : cred[i].rev < 3

Asked ==
  \/ question = "codes" /\ stay' = stay
  \/ question = "edits" /\ FewRequests

MCInit == Init /\ question \in {"codes", "edits"}
MCNext == Next /\ Asked /\ UNCHANGED question
LiveSpec == MCInit /\ [][MCNext]_<<vars, question>> /\ Fairness
=============================================================================
