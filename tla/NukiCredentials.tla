--------------------------- MODULE NukiCredentials ---------------------------
(***************************************************************************)
(* The data of the Nuki door-code lifecycle of one property: the SQLite    *)
(* tables named_stays, nuki_access_codes (the code shown to the guest, at  *)
(* most one per stay) and nuki_managed_credentials (the durable operation  *)
(* log of internal/store/nuki_managed_credentials.go), and the Nuki cloud  *)
(* (external) that applies accepted requests later and in any order.       *)
(*                                                                         *)
(* Every write operator below is one SQL statement or one transaction.     *)
(* An authorization is identified with the PIN drawn for it: the cloud     *)
(* gives every creation an id of its own, and the client never learns it   *)
(* from the answer (httpClient.CreateAccess), only from a later listing.   *)
(* A "version" stands for the label and validity window wanted for a stay. *)
(***************************************************************************)
EXTENDS Integers, FiniteSets

CONSTANTS
  Stays,      \* named stays of the property
  Auths,      \* PINs drawn, and the ids of the authorizations made from them
  Locks,      \* smartlock ids the property may be bound to
  MaxCred,    \* bound: rows of nuki_managed_credentials
  MaxVer,     \* bound: edits of a stay's label or window
  None

ASSUME CredentialAssumption ==
  /\ None \notin Auths \cup Stays
  /\ IsFiniteSet(Stays)
  /\ MaxCred \in Nat
  /\ MaxVer \in Nat

CredIds == 1 .. MaxCred
Vers == 0 .. MaxVer

(* operation_state; "absent" is a row that does not exist yet.             *)
OpStates == {"absent", "create_pending", "active", "update_pending",
             "delete_pending", "deleted", "needs_review"}

CredRow == [state  : OpStates,
            rev    : Nat,                      \* operation_revision
            stay   : Stays \cup {None},        \* named_stay_id
            lock   : Locks \cup {None},        \* smartlock_id
            remote : Auths \cup {None},        \* remote_id
            pin    : Auths \cup {None},        \* pending_pin
            ver    : Vers,                     \* desired_label, desired_valid_*
            acc    : BOOLEAN,                  \* request_accepted_at IS NOT NULL
            due    : BOOLEAN,                  \* next_retry_at NULL or passed
            link   : BOOLEAN]                  \* nuki_access_code_id IS NOT NULL

AbsentRow == [state |-> "absent", rev |-> 0, stay |-> None, lock |-> None,
              remote |-> None, pin |-> None, ver |-> 0, acc |-> FALSE,
              due |-> TRUE, link |-> FALSE]

(* status "none" is a stay without a row in nuki_access_codes.             *)
CodeRow == [status : {"none", "not_generated", "generated", "revoked"},
            ext    : Auths \cup {None},        \* external_nuki_id
            pin    : Auths \cup {None},        \* generated_pin_plain
            ver    : Vers]                     \* code_label, valid_from, valid_until

NoCode == [status |-> "none", ext |-> None, pin |-> None, ver |-> 0]

StayRow == [elig : BOOLEAN,                    \* NamedStayNukiEligible, active, no outcome
            past : 0 .. MaxVer + 1,            \* windows of earlier versions have ended
            ver  : Vers]

(* An authorization at the provider and the accepted requests about it     *)
(* that it has not applied yet.                                            *)
AuthRow == [st   : {"unused", "drawn", "sent", "dropped", "present", "gone"},
            lock : Locks \cup {None},
            ver  : Vers,
            upds : SUBSET Vers,
            del  : BOOLEAN]

VARIABLES
  stay,   \* named_stays
  code,   \* nuki_access_codes, by stay
  cred,   \* nuki_managed_credentials, by id
  auth,   \* the provider
  lock    \* property_secrets.nuki_smartlock_id: the configured binding

dataVars == <<stay, code, cred, auth, lock>>

DataInit ==
  /\ stay = [s \in Stays |-> [elig |-> TRUE, past |-> 0, ver |-> 0]]
  /\ code = [s \in Stays |-> NoCode]
  /\ cred = [i \in CredIds |-> AbsentRow]
  /\ auth = [r \in Auths |-> [st |-> "unused", lock |-> None, ver |-> 0,
                              upds |-> {}, del |-> FALSE]]
  /\ lock \in Locks

DataTypeOK ==
  /\ stay \in [Stays -> StayRow]
  /\ code \in [Stays -> CodeRow]
  /\ cred \in [CredIds -> CredRow]
  /\ auth \in [Auths -> AuthRow]
  /\ lock \in Locks

-----------------------------------------------------------------------------
(* Reads of the store.                                                     *)

(* idx_nuki_managed_credentials_pending_stay *)
BlocksStay(row, s) ==
  row.stay = s /\ row.state \notin {"absent", "deleted", "needs_review"}

(* idx_nuki_managed_credentials_remote, and NukiManagedRemoteOwner *)
OwnsRemote(row, l, r) ==
  row.lock = l /\ row.remote = r /\ row.state \notin {"absent", "deleted"}

(* Variant: an unresolved creation does not count.                         *)
HasPendingMaintenance(s) ==
  \E i \in CredIds : cred[i].stay = s /\ cred[i].state \in {"update_pending", "delete_pending"}

HasPendingNukiManagedCredentialForStay(s) ==
  \E i \in CredIds : cred[i].stay = s
    /\ cred[i].state \in {"create_pending", "update_pending", "delete_pending"}

NukiManagedRemoteOwner(l, r, exclude) ==
  \E i \in CredIds \ {exclude} : OwnsRemote(cred[i], l, r)

(* ORDER BY id DESC LIMIT 1 over a set of row ids.                         *)
IsLatest(i, ids) == i \in ids /\ \A j \in ids : j <= i

RowsOfRemote(l, r) == {i \in CredIds : cred[i].lock = l /\ cred[i].remote = r}
RowsOfCode(s)      == {i \in CredIds : cred[i].stay = s /\ cred[i].link}

ListNukiCodesForCleanup(s) ==
  /\ code[s].status \in {"generated", "revoked"}
  /\ code[s].ver < stay[s].past
  /\ code[s].ext # None
  /\ \A i \in CredIds : ~(cred[i].remote = code[s].ext /\ cred[i].state = "deleted")

-----------------------------------------------------------------------------
(* Writes of the store.  An UPDATE whose WHERE matches no row changes      *)
(* nothing; the caller sees sql.ErrNoRows, tested here by the predicate    *)
(* that guards each write.                                                 *)

SetCred(i, row) == cred' = [cred EXCEPT ![i] = row]

Fresh(i) == cred[i].state = "absent" /\ \A j \in 1 .. i - 1 : cred[j].state # "absent"

(* Both partial unique indexes accept the new row.                         *)
InsertAllowed(row) ==
  \A i \in CredIds :
    /\ row.stay # None => ~BlocksStay(cred[i], row.stay)
    /\ row.remote # None => ~OwnsRemote(cred[i], row.lock, row.remote)

(* Variant: WHERE id = ? alone.                                            *)
OperationAnyRevision(i, rev) == cred[i].state # "absent"

(* ... WHERE id = ? AND operation_revision = revision-1 *)
OperationCurrent(i, rev) == cred[i].state # "absent" /\ cred[i].rev = rev - 1

UpdateNukiManagedOperation(i, state, rev, later, accepted) ==
  IF OperationCurrent(i, rev)
  THEN SetCred(i, [cred[i] EXCEPT !.state = state, !.rev = rev, !.due = ~later,
                                  !.acc = @ \/ accepted])
  ELSE UNCHANGED cred

MarkNukiManagedDeletionAttempt(i, rev, later, accepted) ==
  UpdateNukiManagedOperation(i, "delete_pending", rev + 1, later, accepted)

ClaimCurrent(i, rev) == cred[i].state = "create_pending" /\ cred[i].rev = rev

ClaimNukiManagedCreation(i, rev) ==
  IF ClaimCurrent(i, rev) THEN SetCred(i, [cred[i] EXCEPT !.rev = rev + 1])
                          ELSE UNCHANGED cred

StartNukiManagedUpdate(i, v) ==
  SetCred(i, [cred[i] EXCEPT !.state = "update_pending", !.rev = @ + 1,
                             !.ver = v, !.link = TRUE, !.due = TRUE])

UpdateConfirmable(i, rev) == cred[i].state = "update_pending" /\ cred[i].rev = rev

ConfirmNukiManagedUpdate(i, rev) ==
  SetCred(i, [cred[i] EXCEPT !.state = "active", !.rev = rev + 1, !.due = TRUE])

(* The UPDATE of an existing owner row: the retry time and the acceptance  *)
(* time of the previous operation stay as they are.                        *)
RestartAsDeletion(i) ==
  SetCred(i, [cred[i] EXCEPT !.state = "delete_pending", !.rev = @ + 1])

(* The revision is still the claimed one, and a code row that was missing  *)
(* when the worker read it can still be inserted.                          *)
CreationConfirmable(i, rev, hadCode) ==
  ClaimCurrent(i, rev) /\ (hadCode \/ code[cred[i].stay].status = "none")

(* Variant: the operation state is written where the code's status belongs.*)
ConfirmCreationMixingStates(i, rev, r, hadCode, eligible) ==
  /\ SetCred(i, [cred[i] EXCEPT !.state = IF eligible THEN "active" ELSE "delete_pending",
                                !.rev = rev + 1, !.remote = r, !.pin = None,
                                !.link = hadCode, !.due = TRUE, !.acc = TRUE])
  /\ code' = [code EXCEPT ![cred[i].stay] =
       [status |-> IF eligible THEN "active" ELSE "revoked", ext |-> r,
        pin |-> IF eligible THEN cred[i].pin ELSE None, ver |-> cred[i].ver]]

(* One transaction: identity into the row, projection into the code.  The  *)
(* row gets the id of the code the worker had read, or NULL.               *)
ConfirmNukiManagedCreation(i, rev, r, hadCode, eligible) ==
  /\ SetCred(i, [cred[i] EXCEPT !.state = IF eligible THEN "active" ELSE "delete_pending",
                                !.rev = rev + 1, !.remote = r, !.pin = None,
                                !.link = hadCode, !.due = TRUE, !.acc = TRUE])
  /\ code' = [code EXCEPT ![cred[i].stay] =
       [status |-> IF eligible THEN "generated" ELSE "revoked", ext |-> r,
        pin |-> IF eligible THEN cred[i].pin ELSE None, ver |-> cred[i].ver]]

(* Variant: the caller passes the revision the row will have next.         *)
DeletionConfirmableNext(i, rev) == cred[i].state = "delete_pending" /\ cred[i].rev = rev + 1

DeletionConfirmable(i, rev) == cred[i].state = "delete_pending" /\ cred[i].rev = rev

(* One transaction; the projection is touched only when the row carries    *)
(* the id of an access code.                                               *)
ConfirmNukiManagedDeletion(i, rev, linked) ==
  /\ SetCred(i, [cred[i] EXCEPT !.state = "deleted", !.rev = rev + 1, !.due = TRUE, !.pin = None])
  /\ IF linked
     THEN code' = [code EXCEPT ![cred[i].stay] = [@ EXCEPT !.status = "revoked", !.pin = None]]
     ELSE UNCHANGED code

UpsertNukiCode(s, row) == code' = [code EXCEPT ![s] = row]
=============================================================================
