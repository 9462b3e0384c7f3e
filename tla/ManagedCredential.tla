--------------------------- MODULE ManagedCredential ---------------------------
(***************************************************************************)
(* What nuki_managed_credentials promises about one durable operation,     *)
(* whoever works on it and whenever: the lifecycle of operation_state, the *)
(* identity a row is bound to, and the meaning of its final state.  A row  *)
(* is bound only to an identity the provider has shown, keeps it for good, *)
(* and is deleted only when that identity is absent from the row's lock.   *)
(***************************************************************************)
CONSTANTS
  Ids,       \* rows
  Identities,      \* identities: an authorization on a lock
  Unbound    \* a row without identity

VARIABLES
  state,    \* operation_state by row
  bound,    \* the identity of a row, or Unbound
  shown,    \* identities the provider's inventory has ever contained
  listed    \* identities it contains now

vars == <<state, bound, shown, listed>>

Init ==
  /\ state = [i \in Ids |-> "absent"]
  /\ bound = [i \in Ids |-> Unbound]
  /\ shown = {} /\ listed = {}

Move(i, from, to) == state[i] \in from /\ state' = [state EXCEPT ![i] = to]
Bind(i, x) == bound' = [bound EXCEPT ![i] = x]
Provider == UNCHANGED <<shown, listed>>

Intend(i) == Move(i, {"absent"}, "create_pending") /\ UNCHANGED bound /\ Provider

(* The inventory has shown the authorization the intent asked for.         *)
Resolve(i) ==
  /\ Move(i, {"create_pending"}, "active") \/ Move(i, {"create_pending"}, "delete_pending")
  /\ \E x \in shown : Bind(i, x)
  /\ Provider

StartUpdate(i) == Move(i, {"active"}, "update_pending") /\ UNCHANGED bound /\ Provider
EndUpdate(i)   == Move(i, {"update_pending"}, "active") /\ UNCHANGED bound /\ Provider

(* Once a deletion is requested nothing makes the row usable again; a late *)
(* duplicate of the request may reopen a deletion already confirmed.       *)
StartDeletion(i) ==
  /\ Move(i, {"active", "update_pending", "needs_review", "deleted"}, "delete_pending")
  /\ bound[i] # Unbound
  /\ UNCHANGED bound /\ Provider

(* A deletion of an identity that no row owns yet.                         *)
AdoptDeletion(i, x) ==
  Move(i, {"absent"}, "delete_pending") /\ Bind(i, x) /\ Provider

ConfirmDeletion(i) ==
  /\ Move(i, {"delete_pending"}, "deleted")
  /\ bound[i] # Unbound /\ bound[i] \notin listed
  /\ UNCHANGED bound /\ Provider

Suspend(i) ==
  /\ Move(i, {"create_pending", "update_pending", "delete_pending"}, "needs_review")
  /\ UNCHANGED bound /\ Provider

(* An identity appears once and does not come back.                        *)
Appear(x) ==
  /\ x \notin shown
  /\ shown' = shown \cup {x} /\ listed' = listed \cup {x}
  /\ UNCHANGED <<state, bound>>

Vanish(x) ==
  /\ x \in listed /\ listed' = listed \ {x}
  /\ UNCHANGED <<state, bound, shown>>

Next ==
  \/ \E i \in Ids : \/ Intend(i) \/ Resolve(i) \/ StartUpdate(i) \/ EndUpdate(i)
                    \/ StartDeletion(i) \/ ConfirmDeletion(i) \/ Suspend(i)
                    \/ \E x \in Identities : AdoptDeletion(i, x)
  \/ \E x \in Identities : Appear(x) \/ Vanish(x)

Spec == Init /\ [][Next]_vars

=============================================================================
