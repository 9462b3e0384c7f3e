---------------------------- MODULE NukiLifecycle ----------------------------
(***************************************************************************)
(* The processes that move Nuki door codes through their life              *)
(* (internal/nuki/service.go): HTTP requests that generate, maintain and   *)
(* revoke a code, and the scheduled passes that reconcile pending          *)
(* operations with the provider's inventory.  They share the SQLite        *)
(* database and hold no transaction across a provider call, so every       *)
(* action is one database statement or transaction, or one provider call;  *)
(* what a process read earlier is kept in its local record and may be      *)
(* stale when it is used.                                                  *)
(***************************************************************************)
EXTENDS NukiCredentials

CONSTANTS
  Requests,       \* goroutines serving HTTP requests
  Workers,        \* scheduler goroutines that run the reconciliation passes
  Ops,            \* which operations and events this instance exercises
  Answers,        \* what a provider call may do: "accepted", "lost", "refused"
  ReviewRevision, \* revision at which an unmatched creation goes to review (22)
  MaxRev          \* bound: operations start while every revision is below it

ASSUME LifecycleAssumption ==
  /\ Answers \subseteq {"accepted", "lost", "refused"}
  /\ ReviewRevision \in Nat
  /\ MaxRev \in Nat
  /\ None \notin (Locks \cup {None}) \X Auths   \* None is no identity, see ManagedBound

Procs == Requests \cup Workers

VARIABLE proc     \* local state of each goroutine

vars == <<dataVars, proc>>

PCs == {"idle",
        "gen_intent", "gen_create", "gen_accepted", "gen_project", "gen_link",
        "gen_failed", "gen_fail_project", "gen_touch", "gen_update", "gen_updated",
        "gen_update_failed", "gen_again", "gen_recreate", "gen_recreated",
        "mt_load", "upd_start", "upd_call", "upd_list", "upd_confirm", "upd_code",
        "upd_unconfirmed", "upd_error", "upd_error_op",
        "del_start", "del_read", "del_call", "del_accepted", "del_error",
        "list", "snap", "item", "decide", "confirm", "record", "item_code"}

Kinds == {"creations", "deletions", "updates"}

(* operation_state served by each reconciliation pass *)
PendingState == [creations |-> "create_pending", deletions |-> "delete_pending",
                 updates |-> "update_pending"]

Item == [id : CredIds, row : CredRow]
Seen == [id : Auths, ver : Vers]

Local == [pc    : PCs,
          kind  : Kinds,              \* reconciliation pass
          stay  : Stays \cup {None},
          lock  : Locks \cup {None},  \* Credentials.SmartLockID
          code  : CodeRow,            \* the access code as it was read
          ver   : Vers,               \* the wanted label and window
          id    : CredIds \cup {0},   \* managed row being worked on
          rev   : Nat,                \* its revision after our last write
          auth  : Auths \cup {None},  \* PIN drawn, or authorization matched
          ok    : BOOLEAN,            \* stay eligible, or DELETE accepted
          items : SUBSET Item,        \* due rows still to do, as they were read
          snap  : SUBSET Seen]        \* the provider's inventory as it was read

IdleProc == [pc |-> "idle", kind |-> "creations", stay |-> None, lock |-> None,
             code |-> NoCode, ver |-> 0, id |-> 0, rev |-> 0, auth |-> None,
             ok |-> FALSE, items |-> {}, snap |-> {}]

Init == DataInit /\ proc = [p \in Procs |-> IdleProc]

At(p, pc) == proc[p].pc = pc
Become(p, l) == proc' = [proc EXCEPT ![p] = l]
Goto(p, pc) == proc' = [proc EXCEPT ![p].pc = pc]
Return(p) == Become(p, IdleProc)

(* Bound: no new operation while a row has reached MaxRev.                 *)
Room == \A i \in CredIds : cred[i].rev < MaxRev

-----------------------------------------------------------------------------
(* Provider calls (internal/nuki/client.go).  A call is accepted, refused, *)
(* or accepted with its answer lost; the caller tells only accepted from   *)
(* the rest.  A request about an authorization the lock does not have is   *)
(* refused.                                                                *)

Reachable(r, l) == auth[r].st = "present" /\ auth[r].lock = l

CreateAccess(p, yes, no) ==
  \E a \in Answers :
    /\ auth' = IF a = "refused" THEN auth
               ELSE [auth EXCEPT ![proc[p].auth] =
                       [st |-> "sent", lock |-> proc[p].lock, ver |-> proc[p].ver,
                        upds |-> {}, del |-> FALSE]]
    /\ Goto(p, IF a = "accepted" THEN yes ELSE no)

UpdateAccess(p, r, yes, no) ==
  \E a \in IF Reachable(r, proc[p].lock) THEN Answers ELSE {"refused"} :
    /\ auth' = IF a = "refused" THEN auth
               ELSE [auth EXCEPT ![r].upds = @ \cup {proc[p].ver}]
    /\ Goto(p, IF a = "accepted" THEN yes ELSE no)

DeleteAnswers(r, l) == IF Reachable(r, l) THEN Answers ELSE {"refused"}
RevokeAccess(r, a) == auth' = IF a = "refused" THEN auth ELSE [auth EXCEPT ![r].del = TRUE]

(* GET /smartlock/{id}/auth: the complete inventory of one lock.           *)
ListKeypadCodes(l) ==
  {[id |-> r, ver |-> auth[r].ver] : r \in {x \in Auths : Reachable(x, l)}}

ListingMayFail == "refused" \in Answers

-----------------------------------------------------------------------------
(* Generate: generateCodesInternal for the one selected stay.              *)

(* The branch taken for the access code just read.                         *)
GenerationBranch(c, v) ==
  IF c.status = "none" THEN "gen_intent"
  ELSE IF c.status = "generated" /\ c.ext # None /\ c.ver = v THEN "gen_touch"
  ELSE IF c.ext # None /\ c.status # "revoked" THEN "gen_update"
  ELSE "gen_again"

(* The listing keeps a stay until the end of its check-out day, so a code  *)
(* may be generated after its valid_until.  r is the random PIN.           *)
Generate(p, s) ==
  /\ "generate" \in Ops /\ p \in Requests /\ At(p, "idle") /\ Room
  /\ stay[s].elig
  /\ LET branch == GenerationBranch(code[s], stay[s].ver)
         l == [IdleProc EXCEPT !.pc = branch, !.stay = s, !.lock = lock,
                               !.code = code[s], !.ver = stay[s].ver]
     IN IF branch \in {"gen_intent", "gen_again"}
        THEN \E r \in Auths :
               /\ auth[r].st = "unused"
               /\ auth' = [auth EXCEPT ![r].st = "drawn"]
               /\ Become(p, [l EXCEPT !.auth = r])
        ELSE Become(p, l) /\ UNCHANGED auth
  /\ UNCHANGED <<stay, code, cred, lock>>

(* A name that the lock could not show is refused before the code is read, *)
(* and the failure recorded over whatever code the stay has.               *)
RefuseLongName(p, s) ==
  /\ "long name" \in Ops /\ p \in Requests /\ At(p, "idle") /\ Room
  /\ stay[s].elig
  /\ Become(p, [IdleProc EXCEPT !.pc = "gen_fail_project", !.stay = s, !.ver = stay[s].ver])
  /\ UNCHANGED dataVars

(* Returns before the PIN was stored or sent: nobody ever saw it.          *)
DiscardPin(p) ==
  /\ auth' = [auth EXCEPT ![proc[p].auth].st = "unused"]
  /\ Return(p)

(* The intent is made durable before the provider hears of it.             *)
CreateNukiManagedCredential(p) ==
  /\ At(p, "gen_intent")
  /\ LET l == proc[p]
         row == [AbsentRow EXCEPT !.state = "create_pending", !.rev = 1, !.stay = l.stay,
                                  !.lock = l.lock, !.pin = l.auth, !.ver = l.ver]
     IN IF \/ HasPendingNukiManagedCredentialForStay(l.stay)
           \/ ~InsertAllowed(row) \/ ~\E i \in CredIds : Fresh(i)
        THEN DiscardPin(p) /\ UNCHANGED cred
        ELSE \E i \in CredIds :
               /\ Fresh(i)
               /\ SetCred(i, row)
               /\ Become(p, [l EXCEPT !.pc = "gen_create", !.id = i, !.rev = 1])
               /\ UNCHANGED auth
  /\ UNCHANGED <<stay, code, lock>>

SendCreation(p) ==
  /\ At(p, "gen_create")
  /\ CreateAccess(p, "gen_accepted", "gen_failed")
  /\ UNCHANGED <<stay, code, cred, lock>>

(* The answer carries no id: acceptance is recorded, the row stays pending. *)
RecordAcceptance(p) ==
  /\ At(p, "gen_accepted")
  /\ LET l == proc[p]
     IN IF OperationCurrent(l.id, 2)
        THEN /\ UpdateNukiManagedOperation(l.id, "create_pending", 2, FALSE, TRUE)
             /\ Goto(p, "gen_project")
        ELSE UNCHANGED cred /\ Return(p)
  /\ UNCHANGED <<stay, code, auth, lock>>

PendingProjection(v) == [status |-> "not_generated", ext |-> None, pin |-> None, ver |-> v]

ProjectPending(p) ==
  /\ At(p, "gen_project")
  /\ UpsertNukiCode(proc[p].stay, PendingProjection(proc[p].ver))
  /\ Goto(p, "gen_link")
  /\ UNCHANGED <<stay, cred, auth, lock>>

(* LinkNukiManagedAccessCode, then one reconciliation pass.                *)
LinkProjection(p) ==
  /\ At(p, "gen_link")
  /\ SetCred(proc[p].id, [cred[proc[p].id] EXCEPT !.link = TRUE])
  /\ Become(p, [IdleProc EXCEPT !.pc = "list", !.lock = proc[p].lock])
  /\ UNCHANGED <<stay, code, auth, lock>>

(* Error or unknown outcome: retry later.                                  *)
RecordFailure(p) ==
  /\ At(p, "gen_failed")
  /\ UpdateNukiManagedOperation(proc[p].id, "create_pending", 2, TRUE, FALSE)
  /\ Goto(p, "gen_fail_project")
  /\ UNCHANGED <<stay, code, auth, lock>>

(* upsertFailure without an existing code: a row that is there loses its   *)
(* identity and its PIN.                                                   *)
ProjectFailure(p) ==
  /\ At(p, "gen_fail_project")
  /\ UpsertNukiCode(proc[p].stay, PendingProjection(proc[p].ver))
  /\ Return(p)
  /\ UNCHANGED <<stay, cred, auth, lock>>

(* An up-to-date code is written back as it was read.                      *)
TouchCode(p) ==
  /\ At(p, "gen_touch")
  /\ UpsertNukiCode(proc[p].stay, proc[p].code)
  /\ Return(p)
  /\ UNCHANGED <<stay, cred, auth, lock>>

(* An existing identity is updated without a managed operation.            *)
SendDirectUpdate(p) ==
  /\ At(p, "gen_update")
  /\ UpdateAccess(p, proc[p].code.ext, "gen_updated", "gen_update_failed")
  /\ UNCHANGED <<stay, code, cred, lock>>

ProjectDirectUpdate(p) ==
  /\ At(p, "gen_updated") \/ At(p, "gen_update_failed")
  /\ UpsertNukiCode(proc[p].stay,
       [proc[p].code EXCEPT !.ver = proc[p].ver,
                            !.status = IF At(p, "gen_updated") THEN "generated"
                                                               ELSE "not_generated"])
  /\ Return(p)
  /\ UNCHANGED <<stay, cred, auth, lock>>

(* A code without a usable identity is created again without an intent.    *)
CheckPending(p) ==
  /\ At(p, "gen_again")
  /\ IF HasPendingNukiManagedCredentialForStay(proc[p].stay)
     THEN DiscardPin(p)
     ELSE Goto(p, "gen_recreate") /\ UNCHANGED auth
  /\ UNCHANGED <<stay, code, cred, lock>>

SendRecreation(p) ==
  /\ At(p, "gen_recreate")
  /\ CreateAccess(p, "gen_recreated", "gen_fail_project")
  /\ UNCHANGED <<stay, code, cred, lock>>

ProjectRecreation(p) ==
  /\ At(p, "gen_recreated")
  /\ UpsertNukiCode(proc[p].stay,
       [proc[p].code EXCEPT !.status = "generated", !.pin = proc[p].auth, !.ver = proc[p].ver])
  /\ Return(p)
  /\ UNCHANGED <<stay, cred, auth, lock>>

-----------------------------------------------------------------------------
(* Maintain: MaintainNamedStay, run after an edit of the stay.             *)

(* The edit handlers store the stay, then call MaintainNamedStay.          *)
EditStay(p, s) ==
  /\ "edit" \in Ops /\ p \in Requests /\ At(p, "idle") /\ Room
  /\ \E e \in BOOLEAN, v \in {stay[s].ver, stay[s].ver + 1} \cap Vers :
       /\ <<e, v>> # <<stay[s].elig, stay[s].ver>>
       /\ stay' = [stay EXCEPT ![s].elig = e, ![s].ver = v]
  /\ Become(p, [IdleProc EXCEPT !.pc = "mt_load", !.stay = s])
  /\ UNCHANGED <<code, cred, auth, lock>>

MaintainNamedStay(p, s) ==
  /\ At(p, "mt_load") /\ proc[p].stay = s
  /\ LET next == IF stay[s].elig THEN "upd_start" ELSE "del_start"
     IN IF \/ code[s].status \in {"none", "revoked"}
           \/ code[s].ext = None
           \/ stay[s].elig /\ code[s].status # "generated"
        THEN Return(p)
        ELSE Become(p, [proc[p] EXCEPT !.pc = next, !.lock = lock, !.code = code[s],
                                       !.ver = stay[s].ver])
  /\ UNCHANGED <<stay, code, cred, auth, lock>>

(* StartNukiManagedUpdate: the latest row of the identity must be active.  *)
StartUpdate(p) ==
  /\ At(p, "upd_start")
  /\ LET l == proc[p]
         startable == {i \in CredIds : /\ IsLatest(i, RowsOfRemote(l.lock, l.code.ext))
                                       /\ cred[i].state = "active"}
     IN IF startable = {}
        THEN Return(p) /\ UNCHANGED cred
        ELSE \E i \in startable :
               /\ StartNukiManagedUpdate(i, l.ver)
               /\ Become(p, [l EXCEPT !.pc = "upd_call", !.id = i, !.rev = cred[i].rev + 1])
  /\ UNCHANGED <<stay, code, auth, lock>>

SendUpdate(p) ==
  /\ At(p, "upd_call")
  /\ UpdateAccess(p, proc[p].code.ext, "upd_list", "upd_error")
  /\ UNCHANGED <<stay, code, cred, lock>>

(* The code is written back as it was read, with an error message.         *)
ProjectUpdateError(p) ==
  /\ At(p, "upd_error")
  /\ UpsertNukiCode(proc[p].stay, proc[p].code)
  /\ Goto(p, "upd_error_op")
  /\ UNCHANGED <<stay, cred, auth, lock>>

(* Retry later; accepted only when the provider answered.                  *)
RecordUnconfirmedUpdate(p) ==
  /\ At(p, "upd_error_op") \/ At(p, "upd_unconfirmed")
  /\ UpdateNukiManagedOperation(proc[p].id, "update_pending", proc[p].rev + 1, TRUE,
                                At(p, "upd_unconfirmed"))
  /\ Return(p)
  /\ UNCHANGED <<stay, code, auth, lock>>

ObserveUpdate(p) ==
  /\ At(p, "upd_list")
  /\ \/ /\ [id |-> proc[p].code.ext, ver |-> proc[p].ver] \in ListKeypadCodes(proc[p].lock)
        /\ Goto(p, "upd_confirm")
     \/ /\ \/ ListingMayFail
           \/ [id |-> proc[p].code.ext, ver |-> proc[p].ver] \notin ListKeypadCodes(proc[p].lock)
        /\ Goto(p, "upd_unconfirmed")
  /\ UNCHANGED dataVars

ConfirmUpdate(p) ==
  /\ At(p, "upd_confirm")
  /\ IF UpdateConfirmable(proc[p].id, proc[p].rev)
     THEN ConfirmNukiManagedUpdate(proc[p].id, proc[p].rev) /\ Goto(p, "upd_code")
     ELSE UNCHANGED cred /\ Return(p)
  /\ UNCHANGED <<stay, code, auth, lock>>

ProjectUpdate(p) ==
  /\ At(p, "upd_code")
  /\ UpsertNukiCode(proc[p].stay, [proc[p].code EXCEPT !.ver = proc[p].ver])
  /\ Return(p)
  /\ UNCHANGED <<stay, cred, auth, lock>>

-----------------------------------------------------------------------------
(* Delete: dispatchDeletion, on a manual revoke, for an ineligible stay    *)
(* and for a code whose window has ended.                                  *)

RevokeCode(p, s) ==
  /\ "revoke" \in Ops /\ p \in Requests /\ At(p, "idle") /\ Room
  /\ code[s].ext # None
  /\ Become(p, [IdleProc EXCEPT !.pc = "del_start", !.stay = s, !.lock = lock, !.code = code[s]])
  /\ UNCHANGED dataVars

CleanupExpiredCodes(p, s) ==
  /\ "cleanup" \in Ops /\ p \in Workers /\ At(p, "idle") /\ Room
  /\ ListNukiCodesForCleanup(s)
  /\ Become(p, [IdleProc EXCEPT !.pc = "del_start", !.stay = s, !.lock = lock, !.code = code[s]])
  /\ UNCHANGED dataVars

(* StartNukiManagedDeletion: UPDATE of the owning row, or INSERT.          *)
StartNukiManagedDeletion(p) ==
  /\ At(p, "del_start")
  /\ LET l == proc[p]
         owners == {i \in CredIds : OwnsRemote(cred[i], l.lock, l.code.ext)}
         row == [AbsentRow EXCEPT !.state = "delete_pending", !.rev = 1, !.stay = l.stay,
                                  !.lock = l.lock, !.remote = l.code.ext,
                                  !.ver = l.code.ver, !.link = TRUE]
     IN \/ /\ \E i \in owners : RestartAsDeletion(i)
           /\ Goto(p, "del_read")
        \/ /\ owners = {} /\ InsertAllowed(row)
           /\ \E i \in CredIds : /\ Fresh(i)
                                 /\ SetCred(i, row)
                                 /\ Become(p, [l EXCEPT !.pc = "del_call", !.id = i, !.rev = 1])
        \/ /\ owners = {} /\ ~(InsertAllowed(row) /\ \E i \in CredIds : Fresh(i))
           /\ Return(p)
           /\ UNCHANGED cred
  /\ UNCHANGED <<stay, code, auth, lock>>

(* SELECT id, operation_revision: another writer may have come in between. *)
ReadDeletion(p) ==
  /\ At(p, "del_read")
  /\ \E i \in CredIds :
       /\ IsLatest(i, RowsOfRemote(proc[p].lock, proc[p].code.ext))
       /\ Become(p, [proc[p] EXCEPT !.pc = "del_call", !.id = i, !.rev = cred[i].rev])
  /\ UNCHANGED dataVars

SendDeletion(p) ==
  /\ At(p, "del_call")
  /\ LET r == proc[p].code.ext
     IN \E a \in DeleteAnswers(r, proc[p].lock) :
          /\ RevokeAccess(r, a)
          /\ Goto(p, IF a = "accepted" THEN "del_accepted" ELSE "del_error")
  /\ UNCHANGED <<stay, code, cred, lock>>

RecordDeletionError(p) ==
  /\ At(p, "del_error")
  /\ MarkNukiManagedDeletionAttempt(proc[p].id, proc[p].rev, TRUE, FALSE)
  /\ Return(p)
  /\ UNCHANGED <<stay, code, auth, lock>>

(* Due at once, and one reconciliation pass follows.                       *)
RecordDeletionAccepted(p) ==
  /\ At(p, "del_accepted")
  /\ LET l == proc[p]
     IN /\ MarkNukiManagedDeletionAttempt(l.id, l.rev, FALSE, TRUE)
        /\ IF OperationCurrent(l.id, l.rev + 1)
           THEN Become(p, [IdleProc EXCEPT !.pc = "list", !.kind = "deletions"])
           ELSE Return(p)
  /\ UNCHANGED <<stay, code, auth, lock>>

-----------------------------------------------------------------------------
(* Reconciliation passes: due rows are read, then the inventory, then each *)
(* row is handled in id order with its own compare-and-set on the revision *)
(* that was read.                                                          *)

(* Bound: a row at MaxRev is read only when the pass can bring it to its   *)
(* next state, so that retries without effect stay finite.                 *)
Progressable(row) ==
  CASE row.state = "create_pending" -> Reachable(row.pin, row.lock)
    [] row.state = "delete_pending" -> ~Reachable(row.remote, row.lock)
    [] OTHER -> auth[row.remote].ver = row.ver

WithinBound(row) == row.rev < MaxRev \/ (row.rev < 2 * MaxRev /\ Progressable(row))

(* Variant: only rows whose request the provider is known to have accepted.*)
ListDueAccepted(kind) ==
  {[id |-> i, row |-> cred[i]] : i \in
     {j \in CredIds : /\ cred[j].state = PendingState[kind]
                     /\ cred[j].due /\ cred[j].acc
                     /\ WithinBound(cred[j])}}

(* ListDueNukiManagedCreations, ...Deletions, ...Updates                   *)
ListDue(kind) ==
  {[id |-> i, row |-> cred[i]] : i \in
     {j \in CredIds : /\ cred[j].state = PendingState[kind]
                     /\ cred[j].due
                     /\ WithinBound(cred[j])}}

StartPass(p, kind) ==
  /\ At(p, "idle")
  /\ p \in Workers \/ "sync" \in Ops
  /\ ListDue(kind) # {}
  /\ Become(p, [IdleProc EXCEPT !.pc = "snap", !.kind = kind, !.lock = lock,
                                !.items = ListDue(kind)])
  /\ UNCHANGED dataVars

(* The pass that a request runs after its own call was accepted.           *)
StartInlinePass(p) ==
  /\ At(p, "list")
  /\ IF ListDue(proc[p].kind) = {}
     THEN Return(p)
     ELSE Become(p, [proc[p] EXCEPT !.pc = "snap", !.lock = lock,
                                    !.items = ListDue(proc[p].kind)])
  /\ UNCHANGED dataVars

(* Variant: a listing that failed is taken for an empty one.               *)
TakeSnapshotOrNothing(p) ==
  /\ At(p, "snap")
  /\ \/ Become(p, [proc[p] EXCEPT !.pc = "item", !.snap = ListKeypadCodes(proc[p].lock)])
     \/ ListingMayFail /\ Become(p, [proc[p] EXCEPT !.pc = "item"])
  /\ UNCHANGED dataVars

TakeSnapshot(p) ==
  /\ At(p, "snap")
  /\ \/ Become(p, [proc[p] EXCEPT !.pc = "item", !.snap = ListKeypadCodes(proc[p].lock)])
     \/ ListingMayFail /\ Return(p)
  /\ UNCHANGED dataVars

(* x is the row to be handled next.                                        *)
NextItem(l, x) == x \in l.items /\ \A y \in l.items : x.id <= y.id

After(l, x) == IF l.items = {x} THEN IdleProc
               ELSE [l EXCEPT !.pc = "item", !.items = @ \ {x}]

Handling(p, pc, kind, x) ==
  At(p, pc) /\ proc[p].kind = kind /\ NextItem(proc[p], x)

ClaimItem(p, x) ==
  /\ Handling(p, "item", "creations", x)
  /\ ClaimNukiManagedCreation(x.id, x.row.rev)
  /\ Become(p, IF ClaimCurrent(x.id, x.row.rev)
               THEN [proc[p] EXCEPT !.pc = "decide", !.rev = x.row.rev + 1]
               ELSE After(proc[p], x))
  /\ UNCHANGED <<stay, code, auth, lock>>

(* Variant: the binding is not compared.                                   *)
AnyBinding(l, row) == FALSE

(* The row was written under another smartlock than the one now configured.*)
OtherBinding(l, row) == row.lock # l.lock

(* Variant: an intent is matched before the authorization is listed.       *)
CorrelatesUnlisted(x, l) == ~NukiManagedRemoteOwner(x.row.lock, x.row.pin, x.id)

(* The full correlation of a listed authorization with the intent.         *)
Correlates(x, l) ==
  /\ [id |-> x.row.pin, ver |-> x.row.ver] \in l.snap
  /\ ~NukiManagedRemoteOwner(x.row.lock, x.row.pin, x.id)

DecideCreation(p, x) ==
  /\ Handling(p, "decide", "creations", x)
  /\ LET l == proc[p]
     IN IF OtherBinding(l, x.row)
        THEN /\ UpdateNukiManagedOperation(x.id, "needs_review", l.rev + 1, FALSE, FALSE)
             /\ Become(p, After(l, x))
        ELSE IF ~Correlates(x, l)
        THEN /\ UpdateNukiManagedOperation(x.id,
                  IF x.row.rev >= ReviewRevision THEN "needs_review" ELSE "create_pending",
                  l.rev, TRUE, FALSE)
             /\ Become(p, After(l, x))
        ELSE /\ \E s \in Stays :
                  /\ s = x.row.stay
                  /\ Become(p, [l EXCEPT !.pc = "confirm", !.auth = x.row.pin,
                                         !.code = code[s], !.ok = stay[s].elig])
             /\ UNCHANGED cred
  /\ UNCHANGED <<stay, code, auth, lock>>

ConfirmItem(p, x) ==
  /\ Handling(p, "confirm", "creations", x)
  /\ LET l == proc[p] had == l.code.status # "none"
     IN IF CreationConfirmable(x.id, l.rev, had)
        THEN ConfirmNukiManagedCreation(x.id, l.rev, l.auth, had, l.ok)
        ELSE UNCHANGED <<cred, code>>
  /\ Become(p, After(proc[p], x))
  /\ UNCHANGED <<stay, auth, lock>>

Listed(l, r) == \E a \in l.snap : a.id = r

(* A row observed absent is confirmed deleted; one whose DELETE was        *)
(* accepted is looked at again later; any other is sent a DELETE.          *)
DeletionItem(p, x) ==
  /\ Handling(p, "item", "deletions", x)
  /\ LET l == proc[p] row == x.row
     IN \/ /\ OtherBinding(l, row)
           /\ UpdateNukiManagedOperation(x.id, "needs_review", row.rev + 1, FALSE, FALSE)
           /\ Become(p, After(l, x))
           /\ UNCHANGED <<code, auth>>
        \/ /\ ~OtherBinding(l, row) /\ ~Listed(l, row.remote)
           /\ IF DeletionConfirmable(x.id, row.rev)
              THEN ConfirmNukiManagedDeletion(x.id, row.rev, row.link)
              ELSE UNCHANGED <<cred, code>>
           /\ Become(p, After(l, x))
           /\ UNCHANGED auth
        \/ /\ ~OtherBinding(l, row) /\ Listed(l, row.remote) /\ row.acc
           /\ MarkNukiManagedDeletionAttempt(x.id, row.rev, TRUE, TRUE)
           /\ Become(p, After(l, x))
           /\ UNCHANGED <<code, auth>>
        \/ /\ ~OtherBinding(l, row) /\ Listed(l, row.remote) /\ ~row.acc
           /\ \E a \in DeleteAnswers(row.remote, l.lock) :
                /\ RevokeAccess(row.remote, a)
                /\ Become(p, [l EXCEPT !.pc = "record", !.ok = (a = "accepted")])
           /\ UNCHANGED <<cred, code>>
  /\ UNCHANGED <<stay, lock>>

RecordDeletionItem(p, x) ==
  /\ Handling(p, "record", "deletions", x)
  /\ MarkNukiManagedDeletionAttempt(x.id, x.row.rev, TRUE, proc[p].ok)
  /\ Become(p, After(proc[p], x))
  /\ UNCHANGED <<stay, code, auth, lock>>

UpdateItem(p, x) ==
  /\ Handling(p, "item", "updates", x)
  /\ LET l == proc[p] row == x.row
         confirmable == UpdateConfirmable(x.id, row.rev)
     IN IF OtherBinding(l, row)
        THEN /\ UpdateNukiManagedOperation(x.id, "needs_review", row.rev + 1, FALSE, FALSE)
             /\ Become(p, After(l, x))
        ELSE IF [id |-> row.remote, ver |-> row.ver] \notin l.snap
        THEN /\ UpdateNukiManagedOperation(x.id, "update_pending", row.rev + 1, TRUE, TRUE)
             /\ Become(p, After(l, x))
        ELSE /\ IF confirmable THEN ConfirmNukiManagedUpdate(x.id, row.rev) ELSE UNCHANGED cred
             /\ IF confirmable /\ row.link
                THEN \E s \in Stays :
                       /\ s = row.stay
                       /\ Become(p, [l EXCEPT !.pc = "item_code", !.code = code[s]])
                ELSE Become(p, After(l, x))
  /\ UNCHANGED <<stay, code, auth, lock>>

(* The code is written back as it was read, with the confirmed values.     *)
ProjectUpdateItem(p, x) ==
  /\ Handling(p, "item_code", "updates", x)
  /\ UpsertNukiCode(x.row.stay, [proc[p].code EXCEPT !.ver = x.row.ver])
  /\ Become(p, After(proc[p], x))
  /\ UNCHANGED <<stay, cred, auth, lock>>

-----------------------------------------------------------------------------
(* The environment.                                                        *)

(* The client disconnects (its context cancels every later statement and   *)
(* call), the handler panics, or the server restarts.                      *)
Abort(p) ==
  /\ (IF p \in Requests THEN "abort" ELSE "restart") \in Ops
  /\ ~At(p, "idle")
  /\ Return(p)
  /\ UNCHANGED dataVars

(* A payout import renames the matched stay; its code is not maintained    *)
(* ("payout imports must not alter [...] access-code state").              *)
UpdateFinanceMatchedStayName(s) ==
  LET v == stay[s].ver + 1
  IN /\ "import" \in Ops /\ v \in Vers
     /\ stay' = [stay EXCEPT ![s].ver = v, ![s].past = IF @ = v THEN v + 1 ELSE @]
     /\ UNCHANGED <<code, cred, auth, lock, proc>>

(* The window of the current version ends.                                 *)
Expire(s) ==
  /\ "expire" \in Ops /\ stay[s].past <= stay[s].ver
  /\ stay' = [stay EXCEPT ![s].past = stay[s].ver + 1]
  /\ UNCHANGED <<code, cred, auth, lock, proc>>

(* The retry time of a row passes.                                         *)
RetryDue(i) ==
  /\ ~cred[i].due
  /\ SetCred(i, [cred[i] EXCEPT !.due = TRUE])
  /\ UNCHANGED <<stay, code, auth, lock, proc>>

(* The owner configures another smartlock for the property.                *)
Rebind(l) ==
  /\ "rebind" \in Ops /\ l # lock
  /\ lock' = l
  /\ UNCHANGED <<stay, code, cred, auth, proc>>

(* The provider carries out an accepted creation, or drops it.             *)
ApplyCreate(r) ==
  /\ auth[r].st = "sent"
  /\ \E st \in {"present"} \cup (IF "drop" \in Ops THEN {"dropped"} ELSE {}) :
       auth' = [auth EXCEPT ![r].st = st]
  /\ UNCHANGED <<stay, code, cred, lock, proc>>

ApplyUpdate(r) ==
  /\ auth[r].st = "present"
  /\ \E v \in auth[r].upds : auth' = [auth EXCEPT ![r].ver = v, ![r].upds = @ \ {v}]
  /\ UNCHANGED <<stay, code, cred, lock, proc>>

ApplyDelete(r) ==
  /\ auth[r].st = "present" /\ auth[r].del
  /\ auth' = [auth EXCEPT ![r].st = "gone"]
  /\ UNCHANGED <<stay, code, cred, lock, proc>>

-----------------------------------------------------------------------------
GenerateStep(p) ==
  \/ CreateNukiManagedCredential(p) \/ SendCreation(p) \/ RecordAcceptance(p)
  \/ ProjectPending(p) \/ LinkProjection(p) \/ RecordFailure(p) \/ ProjectFailure(p)
  \/ TouchCode(p) \/ SendDirectUpdate(p) \/ ProjectDirectUpdate(p)
  \/ CheckPending(p) \/ SendRecreation(p) \/ ProjectRecreation(p)

MaintainStep(p) ==
  \/ \E s \in Stays : MaintainNamedStay(p, s)
  \/ StartUpdate(p) \/ SendUpdate(p) \/ ProjectUpdateError(p)
  \/ RecordUnconfirmedUpdate(p) \/ ObserveUpdate(p) \/ ConfirmUpdate(p) \/ ProjectUpdate(p)

DeleteStep(p) ==
  \/ StartNukiManagedDeletion(p) \/ ReadDeletion(p) \/ SendDeletion(p)
  \/ RecordDeletionError(p) \/ RecordDeletionAccepted(p)

PassStep(p) ==
  \/ StartInlinePass(p) \/ TakeSnapshot(p)
  \/ \E x \in proc[p].items :
       \/ ClaimItem(p, x) \/ DecideCreation(p, x) \/ ConfirmItem(p, x)
       \/ DeletionItem(p, x) \/ RecordDeletionItem(p, x)
       \/ UpdateItem(p, x) \/ ProjectUpdateItem(p, x)

(* What a goroutine does once it has begun.                                *)
Step(p) == GenerateStep(p) \/ MaintainStep(p) \/ DeleteStep(p) \/ PassStep(p)

Begin(p) ==
  \/ \E s \in Stays : Generate(p, s) \/ RefuseLongName(p, s) \/ EditStay(p, s)
                       \/ RevokeCode(p, s) \/ CleanupExpiredCodes(p, s)
  \/ \E k \in Kinds : StartPass(p, k)

ProviderStep == \E r \in Auths : ApplyCreate(r) \/ ApplyUpdate(r) \/ ApplyDelete(r)

Environment ==
  \/ \E s \in Stays : UpdateFinanceMatchedStayName(s) \/ Expire(s)
  \/ \E i \in CredIds : RetryDue(i)
  \/ \E l \in Locks : Rebind(l)
  \/ ProviderStep

Next == Environment \/ \E p \in Procs : Begin(p) \/ Step(p) \/ Abort(p)

Spec == Init /\ [][Next]_vars

(* A goroutine that runs goes on; a scheduler tick runs every pass in turn *)
(* for as long as the server lives; retry times pass; the provider carries *)
(* out what it has accepted.                                               *)
Fairness ==
  /\ \A p \in Procs : WF_vars(Step(p))
  /\ \A p \in Workers, k \in Kinds : SF_vars(StartPass(p, k))
  /\ \A i \in CredIds : WF_vars(RetryDue(i))
  /\ \A r \in Auths : WF_vars(ApplyCreate(r)) /\ WF_vars(ApplyUpdate(r)) /\ WF_vars(ApplyDelete(r))

FairSpec == Spec /\ Fairness

-----------------------------------------------------------------------------
(* Type invariant.                                                         *)
TypeOK == DataTypeOK /\ proc \in [Procs -> Local]

(* "deleted" is written only when the authorization is really no longer on *)
(* the row's lock (ReconcilePendingNukiDeletions: "only marks a credential *)
(* deleted after a complete authoritative inventory omits it"), whatever   *)
(* other requests did since the inventory was read, and it stays true.     *)
DeletedIsGone ==
  \A i \in CredIds :
    cred[i].state = "deleted" => ~Reachable(cred[i].remote, cred[i].lock)

(* A row gets the identity of an authorization only after an inventory has *)
(* shown it (PMS 34: the answer of the PUT carries no id), and then keeps  *)
(* the identity for good.                                                  *)
IdentityIsObserved ==
  \A i \in CredIds :
    cred[i].remote # None => auth[cred[i].remote].st \in {"present", "gone"}

(* The row, not the code, is what the abstract lifecycle promises: see     *)
(* ManagedCredential.                                                      *)
Identity(l, r) == <<l, r>>
ManagedBound == [i \in CredIds |-> IF cred[i].remote = None THEN None
                                   ELSE Identity(cred[i].lock, cred[i].remote)]
ManagedShown == {Identity(auth[r].lock, r) :
                   r \in {x \in Auths : auth[x].st \in {"present", "gone"}}}
ManagedListed == {Identity(auth[r].lock, r) : r \in {x \in Auths : auth[x].st = "present"}}

Managed == INSTANCE ManagedCredential WITH
  Ids <- CredIds, Identities <- Locks \X Auths, Unbound <- None,
  state <- [i \in CredIds |-> cred[i].state],
  bound <- ManagedBound, shown <- ManagedShown, listed <- ManagedListed

(* Every step of every request and worker, stale or not, is a step of the  *)
(* lifecycle of the row it writes, or leaves it alone.                     *)
ImplementsManagedCredential == Managed!Spec

(* However often a request is aborted, the server restarted or an answer   *)
(* lost, a repeated Generate does not open a second authorization for a    *)
(* stay (PMS 34: "a failed local commit after remote success must not      *)
(* cause a second create").                                                *)
OneAuthorizationPerStay ==
  Cardinality({r \in Auths : auth[r].st \in {"sent", "present"}}) <= Cardinality(Stays)

(* An accepted creation is resolved, even when its answer was lost and the *)
(* request that sent it is gone.                                           *)
CreationsResolve ==
  \A i \in CredIds :
    (cred[i].state = "create_pending" /\ auth[cred[i].pin].st = "sent")
      ~> cred[i].state # "create_pending"

(* A deletion the provider has accepted ends in "deleted".                 *)
DeletionsConverge ==
  \A i \in CredIds :
    (cred[i].state = "delete_pending" /\ auth[cred[i].remote].del)
      ~> cred[i].state = "deleted"

(* "An accepted DELETE must not be repeated [...] Retry only work never    *)
(* dispatched": what a pass takes for an accepted deletion, when nobody is *)
(* working on the row any more, is one the provider has received.          *)
AcceptedMeansDispatched ==
  \A i \in CredIds :
    (/\ cred[i].state = "delete_pending" /\ cred[i].acc
     /\ \A p \in Procs : At(p, "idle"))
      => auth[cred[i].remote].del

=============================================================================
