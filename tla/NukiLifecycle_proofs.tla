-------------------------- MODULE NukiLifecycle_proofs --------------------------
(***************************************************************************)
(* Proofs about NukiLifecycle for every set of stays, PINs, smartlocks,    *)
(* requests and workers, every answer of the provider and every bound.     *)
(* The last part is about the client of the second question of             *)
(* MCNukiSafety.                                                           *)
(***************************************************************************)
EXTENDS MCNukiSafety, FiniteSetTheorems, TLAPS

-----------------------------------------------------------------------------
(* The parts of the type invariant, one per variable.                      *)
StayOK == stay \in [Stays -> StayRow]
CodeOK == code \in [Stays -> CodeRow]
CredOK == cred \in [CredIds -> CredRow]
AuthOK == auth \in [Auths -> AuthRow]
LockOK == lock \in Locks
ProcOK == proc \in [Procs -> Local]

LEMMA Parts ==
  /\ TypeOK <=> StayOK /\ CodeOK /\ CredOK /\ AuthOK /\ LockOK /\ ProcOK
  /\ TypeOK' <=> StayOK' /\ CodeOK' /\ CredOK' /\ AuthOK' /\ LockOK' /\ ProcOK'
BY DEF TypeOK, DataTypeOK, StayOK, CodeOK, CredOK, AuthOK, LockOK, ProcOK

LEMMA IdleIsLocal == IdleProc \in Local
BY CredentialAssumption
   DEF IdleProc, Local, PCs, Kinds, NoCode, CodeRow, Vers, CredIds

LEMMA TypeInit == Init => TypeOK
<1>. SUFFICES ASSUME Init PROVE TypeOK
  OBVIOUS
<1>1. StayOK
  BY CredentialAssumption DEF Init, DataInit, StayOK, StayRow, Vers
<1>2. CodeOK
  BY CredentialAssumption DEF Init, DataInit, CodeOK, CodeRow, NoCode, Vers
<1>3. CredOK
  BY CredentialAssumption DEF Init, DataInit, CredOK, CredRow, AbsentRow, OpStates, Vers
<1>4. AuthOK
  BY CredentialAssumption DEF Init, DataInit, AuthOK, AuthRow, Vers
<1>5. ProcOK
  BY IdleIsLocal DEF Init, ProcOK
<1>. QED
  BY <1>1, <1>2, <1>3, <1>4, <1>5, Parts DEF Init, DataInit, LockOK

-----------------------------------------------------------------------------
(* Every write of a variable keeps its type.                               *)
LEMMA CredWrite ==
  ASSUME CredOK, NEW i, NEW row, i \in CredIds => row \in CredRow, SetCred(i, row)
  PROVE  CredOK'
BY DEF CredOK, SetCred

LEMMA CredOperation ==
  ASSUME CredOK, NEW i, NEW s \in OpStates, NEW rev \in Nat, NEW later \in BOOLEAN,
         NEW accepted \in BOOLEAN, UpdateNukiManagedOperation(i, s, rev, later, accepted)
  PROVE  CredOK'
<1>1. i \in CredIds => [cred[i] EXCEPT !.state = s, !.rev = rev, !.due = ~later,
                                      !.acc = @ \/ accepted] \in CredRow
  BY DEF CredOK, CredRow
<1>. QED  BY <1>1, CredWrite DEF UpdateNukiManagedOperation, CredOK

LEMMA CodeWrite ==
  ASSUME CodeOK, NEW s, NEW row \in CodeRow, UpsertNukiCode(s, row)
  PROVE  CodeOK'
BY DEF CodeOK, UpsertNukiCode

LEMMA ProcWrite ==
  ASSUME ProcOK, NEW p \in Procs, NEW l \in Local, Become(p, l)
  PROVE  ProcOK'
BY DEF ProcOK, Become

LEMMA ProcGoto ==
  ASSUME ProcOK, NEW p \in Procs, NEW pc \in PCs, Goto(p, pc)
  PROVE  ProcOK'
<1>1. [proc[p] EXCEPT !.pc = pc] \in Local
  BY DEF ProcOK, Local
<1>. QED  BY <1>1 DEF ProcOK, Goto

LEMMA ProcReturn ==
  ASSUME ProcOK, NEW p \in Procs, Return(p)
  PROVE  ProcOK'
BY IdleIsLocal, ProcWrite DEF Return

LEMMA Unchanged ==
  /\ StayOK /\ UNCHANGED stay => StayOK'
  /\ CodeOK /\ UNCHANGED code => CodeOK'
  /\ CredOK /\ UNCHANGED cred => CredOK'
  /\ AuthOK /\ UNCHANGED auth => AuthOK'
  /\ LockOK /\ UNCHANGED lock => LockOK'
  /\ ProcOK /\ UNCHANGED proc => ProcOK'
BY DEF StayOK, CodeOK, CredOK, AuthOK, LockOK, ProcOK

LEMMA ProjectionType == \A v \in Vers : PendingProjection(v) \in CodeRow
BY DEF PendingProjection, CodeRow

LEMMA LocalType ==
  ASSUME ProcOK, NEW p \in Procs
  PROVE  /\ proc[p] \in Local
         /\ proc[p].code \in CodeRow /\ proc[p].ver \in Vers /\ proc[p].rev \in Nat
         /\ proc[p].auth \in Auths \cup {None} /\ proc[p].ok \in BOOLEAN
         /\ proc[p].items \in SUBSET Item /\ proc[p].snap \in SUBSET Seen
         /\ proc[p].lock \in Locks \cup {None} /\ proc[p].stay \in Stays \cup {None}
BY DEF ProcOK, Local

LEMMA CreateAccessType ==
  ASSUME AuthOK, ProcOK, NEW p \in Procs, NEW yes \in PCs, NEW no \in PCs,
         CreateAccess(p, yes, no)
  PROVE  AuthOK' /\ ProcOK'
<1>. PICK a \in Answers :
       /\ auth' = IF a = "refused" THEN auth
                  ELSE [auth EXCEPT ![proc[p].auth] =
                          [st |-> "sent", lock |-> proc[p].lock, ver |-> proc[p].ver,
                           upds |-> {}, del |-> FALSE]]
       /\ Goto(p, IF a = "accepted" THEN yes ELSE no)
  BY DEF CreateAccess
<1>1. AuthOK'
  BY LocalType DEF AuthOK, AuthRow
<1>2. ProcOK'
  BY ProcGoto
<1>. QED  BY <1>1, <1>2

LEMMA UpdateAccessType ==
  ASSUME AuthOK, ProcOK, NEW p \in Procs, NEW r, NEW yes \in PCs, NEW no \in PCs,
         UpdateAccess(p, r, yes, no)
  PROVE  AuthOK' /\ ProcOK'
<1>. PICK a :
       /\ auth' = IF a = "refused" THEN auth
                  ELSE [auth EXCEPT ![r].upds = @ \cup {proc[p].ver}]
       /\ Goto(p, IF a = "accepted" THEN yes ELSE no)
  BY DEF UpdateAccess
<1>1. AuthOK'
  <2>1. CASE r \in Auths
    <3>1. [auth[r] EXCEPT !.upds = @ \cup {proc[p].ver}] \in AuthRow
      BY <2>1, LocalType DEF AuthOK, AuthRow
    <3>. QED  BY <3>1, <2>1 DEF AuthOK
  <2>2. CASE r \notin Auths
    BY <2>2 DEF AuthOK
  <2>. QED  BY <2>1, <2>2
<1>2. ProcOK'
  BY ProcGoto
<1>. QED  BY <1>1, <1>2

LEMMA RevokeAccessType ==
  ASSUME AuthOK, NEW r, NEW a, RevokeAccess(r, a)
  PROVE  AuthOK'
<1>1. CASE r \in Auths
  <2>1. [auth[r] EXCEPT !.del = TRUE] \in AuthRow
    BY <1>1 DEF AuthOK, AuthRow
  <2>. QED  BY <2>1, <1>1 DEF AuthOK, RevokeAccess
<1>2. CASE r \notin Auths
  BY <1>2 DEF AuthOK, RevokeAccess
<1>. QED  BY <1>1, <1>2

LEMMA SetColumns ==
  ASSUME NEW row \in CredRow, NEW n \in Nat, NEW v \in Vers
  PROVE  /\ row.rev + 1 \in Nat
         /\ [row EXCEPT !.state = "delete_pending", !.rev = n] \in CredRow
         /\ [row EXCEPT !.state = "active", !.rev = n, !.due = TRUE] \in CredRow
         /\ [row EXCEPT !.state = "deleted", !.rev = n, !.due = TRUE, !.pin = None] \in CredRow
         /\ [row EXCEPT !.state = "update_pending", !.rev = n,
                        !.ver = v, !.link = TRUE, !.due = TRUE] \in CredRow
         /\ [row EXCEPT !.rev = n] \in CredRow
         /\ [row EXCEPT !.due = TRUE] \in CredRow
         /\ [row EXCEPT !.link = TRUE] \in CredRow
<1>1. row.rev + 1 \in Nat
  BY DEF CredRow
<1>2. [row EXCEPT !.state = "delete_pending", !.rev = n] \in CredRow
  BY DEF CredRow, OpStates
<1>3. [row EXCEPT !.state = "active", !.rev = n, !.due = TRUE] \in CredRow
  BY DEF CredRow, OpStates
<1>4. [row EXCEPT !.state = "deleted", !.rev = n, !.due = TRUE, !.pin = None] \in CredRow
  BY DEF CredRow, OpStates
<1>5. [row EXCEPT !.state = "update_pending", !.rev = n,
                  !.ver = v, !.link = TRUE, !.due = TRUE] \in CredRow
  BY DEF CredRow, OpStates
<1>6. [row EXCEPT !.rev = n] \in CredRow
  BY DEF CredRow
<1>7. [row EXCEPT !.due = TRUE] \in CredRow
  BY DEF CredRow
<1>8. [row EXCEPT !.link = TRUE] \in CredRow
  BY DEF CredRow
<1>. QED  BY <1>1, <1>2, <1>3, <1>4, <1>5, <1>6, <1>7, <1>8

LEMMA ConfirmedColumns ==
  ASSUME NEW row \in CredRow, NEW st \in OpStates, NEW n \in Nat,
         NEW r \in Auths \cup {None}, NEW b \in BOOLEAN
  PROVE  [row EXCEPT !.state = st, !.rev = n, !.remote = r, !.pin = None,
                     !.link = b, !.due = TRUE, !.acc = TRUE] \in CredRow
BY DEF CredRow

LEMMA RowType == TypeOK => \A i \in CredIds : cred[i] \in CredRow
BY Parts DEF CredOK

LEMMA SetField ==
  ASSUME NEW l \in Local
  PROVE  /\ \A pc \in PCs : [l EXCEPT !.pc = pc] \in Local
         /\ \A pc \in PCs, i \in CredIds \cup {0}, n \in Nat :
              [l EXCEPT !.pc = pc, !.id = i, !.rev = n] \in Local
         /\ \A pc \in PCs, n \in Nat : [l EXCEPT !.pc = pc, !.rev = n] \in Local
         /\ \A pc \in PCs, x \in Locks, c \in CodeRow, v \in Vers :
              [l EXCEPT !.pc = pc, !.lock = x, !.code = c, !.ver = v] \in Local
         /\ \A pc \in PCs, r \in Auths \cup {None}, c \in CodeRow, b \in BOOLEAN :
              [l EXCEPT !.pc = pc, !.auth = r, !.code = c, !.ok = b] \in Local
         /\ \A pc \in PCs, x \in Locks, s \in SUBSET Item :
              [l EXCEPT !.pc = pc, !.lock = x, !.items = s] \in Local
         /\ \A pc \in PCs, s \in SUBSET Seen : [l EXCEPT !.pc = pc, !.snap = s] \in Local
         /\ \A pc \in PCs, c \in CodeRow : [l EXCEPT !.pc = pc, !.code = c] \in Local
         /\ \A pc \in PCs, b \in BOOLEAN : [l EXCEPT !.pc = pc, !.ok = b] \in Local
<1>1. \A pc \in PCs : [l EXCEPT !.pc = pc] \in Local
  BY DEF Local
<1>2. \A pc \in PCs, i \in CredIds \cup {0}, n \in Nat :
        [l EXCEPT !.pc = pc, !.id = i, !.rev = n] \in Local
  BY DEF Local
<1>3. \A pc \in PCs, n \in Nat : [l EXCEPT !.pc = pc, !.rev = n] \in Local
  BY DEF Local
<1>4. \A pc \in PCs, x \in Locks, c \in CodeRow, v \in Vers :
        [l EXCEPT !.pc = pc, !.lock = x, !.code = c, !.ver = v] \in Local
  BY DEF Local
<1>5. \A pc \in PCs, r \in Auths \cup {None}, c \in CodeRow, b \in BOOLEAN :
        [l EXCEPT !.pc = pc, !.auth = r, !.code = c, !.ok = b] \in Local
  BY DEF Local
<1>6. \A pc \in PCs, x \in Locks, s \in SUBSET Item :
        [l EXCEPT !.pc = pc, !.lock = x, !.items = s] \in Local
  BY DEF Local
<1>7. \A pc \in PCs, s \in SUBSET Seen : [l EXCEPT !.pc = pc, !.snap = s] \in Local
  BY DEF Local
<1>8. \A pc \in PCs, c \in CodeRow : [l EXCEPT !.pc = pc, !.code = c] \in Local
  BY DEF Local
<1>9. \A pc \in PCs, b \in BOOLEAN : [l EXCEPT !.pc = pc, !.ok = b] \in Local
  BY DEF Local
<1>. QED  BY <1>1, <1>2, <1>3, <1>4, <1>5, <1>6, <1>7, <1>8, <1>9

-----------------------------------------------------------------------------
(* Every action keeps the type invariant.                                  *)
LEMMA GenerateType ==
  ASSUME TypeOK, NEW p \in Procs, NEW s \in Stays, Generate(p, s)
  PROVE  TypeOK'
<1>. DEFINE branch == GenerationBranch(code[s], stay[s].ver)
            l == [IdleProc EXCEPT !.pc = branch, !.stay = s, !.lock = lock,
                                  !.code = code[s], !.ver = stay[s].ver]
<1>1. code[s] \in CodeRow /\ stay[s].ver \in Vers /\ lock \in Locks
  BY Parts DEF StayOK, StayRow, CodeOK, LockOK
<1>2. branch \in PCs
  BY DEF GenerationBranch, PCs
<1>3. l \in Local
  BY <1>1, <1>2, IdleIsLocal DEF Local
<1>. HIDE DEF l
<1>4. CASE /\ auth' = auth
           /\ Become(p, l)
  <2>1. StayOK' /\ CodeOK' /\ CredOK' /\ LockOK' /\ AuthOK'
    BY <1>4, Unchanged, Parts DEF Generate
  <2>2. ProcOK'
    BY <1>3, <1>4, ProcWrite, Parts
  <2>. QED  BY <2>1, <2>2, Parts
<1>5. CASE \E r \in Auths : /\ auth' = [auth EXCEPT ![r].st = "drawn"]
                            /\ Become(p, [l EXCEPT !.auth = r])
  <2>. PICK r \in Auths : /\ auth' = [auth EXCEPT ![r].st = "drawn"]
                          /\ Become(p, [l EXCEPT !.auth = r])
    BY <1>5
  <2>1. AuthOK'
    BY Parts DEF AuthOK, AuthRow
  <2>2. [l EXCEPT !.auth = r] \in Local
    BY <1>3 DEF Local
  <2>3. StayOK' /\ CodeOK' /\ CredOK' /\ LockOK'
    BY Unchanged, Parts DEF Generate
  <2>4. ProcOK'
    BY <2>2, ProcWrite, Parts
  <2>. QED  BY <2>1, <2>3, <2>4, Parts
<1>. QED  BY <1>4, <1>5 DEF Generate, l

LEMMA DiscardPinType ==
  ASSUME TypeOK, NEW p \in Procs, DiscardPin(p)
  PROVE  AuthOK' /\ ProcOK'
<1>1. AuthOK /\ ProcOK /\ Return(p)
  BY Parts DEF DiscardPin
<1>2. \A r \in Auths : [auth[r] EXCEPT !.st = "unused"] \in AuthRow
  BY <1>1 DEF AuthOK, AuthRow
<1>3. AuthOK'
  BY <1>1, <1>2 DEF DiscardPin, AuthOK
<1>. QED  BY <1>1, <1>3, ProcReturn

LEMMA GenerateStepType ==
  ASSUME TypeOK, NEW p \in Procs, GenerateStep(p)
  PROVE  TypeOK'
<1>. DEFINE l == proc[p]
<1>a. /\ l \in Local /\ l.code \in CodeRow /\ l.ver \in Vers /\ l.auth \in Auths \cup {None}
      /\ l.lock \in Locks \cup {None} /\ l.stay \in Stays \cup {None}
  BY LocalType, Parts
<1>1. CASE CreateNukiManagedCredential(p)
  <2>. DEFINE row == [AbsentRow EXCEPT !.state = "create_pending", !.rev = 1, !.stay = l.stay,
                                       !.lock = l.lock, !.pin = l.auth, !.ver = l.ver]
  <2>1. CASE DiscardPin(p) /\ UNCHANGED cred
    BY <1>1, <2>1, DiscardPinType, Unchanged, Parts DEF CreateNukiManagedCredential
  <2>2. CASE \E i \in CredIds :
               /\ SetCred(i, row)
               /\ Become(p, [l EXCEPT !.pc = "gen_create", !.id = i, !.rev = 1])
               /\ UNCHANGED auth
    <3>1. row \in CredRow
      BY <1>a DEF AbsentRow, CredRow, OpStates
    <3>2. \A i \in CredIds : [l EXCEPT !.pc = "gen_create", !.id = i, !.rev = 1] \in Local
      BY <1>a, SetField DEF PCs
    <3>. QED  BY <1>1, <2>2, <3>1, <3>2, CredWrite, ProcWrite, Unchanged, Parts
                 DEF CreateNukiManagedCredential
  <2>. QED  BY <1>1, <2>1, <2>2 DEF CreateNukiManagedCredential
<1>2. CASE SendCreation(p)
  BY <1>2, CreateAccessType, Unchanged, Parts DEF SendCreation, PCs
<1>3. CASE RecordAcceptance(p)
  <2>1. CredOK'
    <3>1. CASE UpdateNukiManagedOperation(l.id, "create_pending", 2, FALSE, TRUE)
      BY <3>1, CredOperation, Parts DEF OpStates
    <3>2. CASE UNCHANGED cred
      BY <3>2, Unchanged, Parts
    <3>. QED  BY <1>3, <3>1, <3>2 DEF RecordAcceptance
  <2>2. ProcOK'
    BY <1>3, ProcGoto, ProcReturn, Parts DEF RecordAcceptance, PCs
  <2>. QED  BY <1>3, <2>1, <2>2, Unchanged, Parts DEF RecordAcceptance
<1>4. CASE ProjectPending(p)
  BY <1>4, <1>a, CodeWrite, ProjectionType, ProcGoto, Unchanged, Parts DEF ProjectPending, PCs
<1>5. CASE LinkProjection(p)
  <2>1. l.id \in CredIds => [cred[l.id] EXCEPT !.link = TRUE] \in CredRow
    <3>1. 0 \in Nat /\ 0 \in Vers
      BY CredentialAssumption DEF Vers
    <3>2. ASSUME NEW row \in CredRow PROVE [row EXCEPT !.link = TRUE] \in CredRow
      BY <3>1, SetColumns
    <3>. QED  BY <3>2, RowType
  <2>2. [IdleProc EXCEPT !.pc = "list", !.lock = l.lock] \in Local
    BY <1>a, IdleIsLocal DEF Local, PCs
  <2>. QED  BY <1>5, <2>1, <2>2, CredWrite, ProcWrite, Unchanged, Parts DEF LinkProjection
<1>6. CASE RecordFailure(p)
  BY <1>6, CredOperation, ProcGoto, Unchanged, Parts DEF RecordFailure, OpStates, PCs
<1>7. CASE ProjectFailure(p)
  BY <1>7, <1>a, CodeWrite, ProjectionType, ProcReturn, Unchanged, Parts DEF ProjectFailure
<1>8. CASE TouchCode(p)
  BY <1>8, <1>a, CodeWrite, ProcReturn, Unchanged, Parts DEF TouchCode
<1>9. CASE SendDirectUpdate(p)
  BY <1>9, UpdateAccessType, Unchanged, Parts DEF SendDirectUpdate, PCs
<1>10. CASE ProjectDirectUpdate(p)
  <2>1. \A st \in {"generated", "not_generated"} :
          [l.code EXCEPT !.ver = l.ver, !.status = st] \in CodeRow
    BY <1>a DEF CodeRow
  <2>. QED  BY <1>10, <2>1, CodeWrite, ProcReturn, Unchanged, Parts DEF ProjectDirectUpdate
<1>11. CASE CheckPending(p)
  BY <1>11, DiscardPinType, ProcGoto, Unchanged, Parts DEF CheckPending, PCs
<1>12. CASE SendRecreation(p)
  BY <1>12, CreateAccessType, Unchanged, Parts DEF SendRecreation, PCs
<1>13. CASE ProjectRecreation(p)
  <2>1. [l.code EXCEPT !.status = "generated", !.pin = l.auth, !.ver = l.ver] \in CodeRow
    BY <1>a DEF CodeRow
  <2>. QED  BY <1>13, <2>1, CodeWrite, ProcReturn, Unchanged, Parts DEF ProjectRecreation
<1>. QED  BY <1>1, <1>2, <1>3, <1>4, <1>5, <1>6, <1>7, <1>8, <1>9, <1>10, <1>11, <1>12, <1>13
             DEF GenerateStep

LEMMA MaintainStepType ==
  ASSUME TypeOK, NEW p \in Procs, MaintainStep(p)
  PROVE  TypeOK'
<1>. DEFINE l == proc[p]
<1>a. /\ l \in Local /\ l.code \in CodeRow /\ l.ver \in Vers /\ l.rev \in Nat
  BY LocalType, Parts
<1>1. CASE \E s \in Stays : MaintainNamedStay(p, s)
  <2>. PICK s \in Stays : MaintainNamedStay(p, s)
    BY <1>1
  <2>. DEFINE next == IF stay[s].elig THEN "upd_start" ELSE "del_start"
              read == [l EXCEPT !.pc = next, !.lock = lock, !.code = code[s], !.ver = stay[s].ver]
  <2>1. read \in Local
    <3>1. code[s] \in CodeRow /\ stay[s].ver \in Vers /\ lock \in Locks /\ next \in PCs
      BY Parts DEF StayOK, StayRow, CodeOK, LockOK, PCs
    <3>. QED  BY <1>a, <3>1, SetField
  <2>2. Return(p) \/ Become(p, read)
    BY DEF MaintainNamedStay
  <2>. HIDE DEF read
  <2>3. ProcOK'
    BY <2>1, <2>2, ProcWrite, ProcReturn, Parts
  <2>. QED  BY <2>3, Unchanged, Parts DEF MaintainNamedStay
<1>2. CASE StartUpdate(p)
  <2>1. CASE Return(p) /\ UNCHANGED cred
    BY <1>2, <2>1, ProcReturn, Unchanged, Parts DEF StartUpdate
  <2>2. CASE \E i \in CredIds :
               /\ StartNukiManagedUpdate(i, l.ver)
               /\ Become(p, [l EXCEPT !.pc = "upd_call", !.id = i, !.rev = cred[i].rev + 1])
    <3>. PICK i \in CredIds :
               /\ StartNukiManagedUpdate(i, l.ver)
               /\ Become(p, [l EXCEPT !.pc = "upd_call", !.id = i, !.rev = cred[i].rev + 1])
      BY <2>2
    <3>1. CredOK'
      <4>1. [cred[i] EXCEPT !.state = "update_pending", !.rev = @ + 1,
                            !.ver = l.ver, !.link = TRUE, !.due = TRUE] \in CredRow
        BY <1>a, RowType, SetColumns
      <4>. QED  BY <4>1, CredWrite, Parts DEF StartNukiManagedUpdate
    <3>2. [l EXCEPT !.pc = "upd_call", !.id = i, !.rev = cred[i].rev + 1] \in Local
      <4>1. cred[i].rev + 1 \in Nat
        BY Parts DEF CredOK, CredRow
      <4>. QED  BY <1>a, <4>1, SetField DEF PCs
    <3>. QED  BY <1>2, <3>1, <3>2, ProcWrite, Unchanged, Parts DEF StartUpdate
  <2>. QED  BY <1>2, <2>1, <2>2 DEF StartUpdate
<1>3. CASE SendUpdate(p)
  BY <1>3, UpdateAccessType, Unchanged, Parts DEF SendUpdate, PCs
<1>4. CASE ProjectUpdateError(p)
  BY <1>4, <1>a, CodeWrite, ProcGoto, Unchanged, Parts DEF ProjectUpdateError, PCs
<1>5. CASE RecordUnconfirmedUpdate(p)
  <2>1. At(p, "upd_unconfirmed") \in BOOLEAN /\ l.rev + 1 \in Nat
    BY <1>a DEF At
  <2>2. CredOK'
    BY <1>5, <2>1, CredOperation, Parts DEF RecordUnconfirmedUpdate, OpStates
  <2>. QED  BY <1>5, <2>2, ProcReturn, Unchanged, Parts DEF RecordUnconfirmedUpdate
<1>6. CASE ObserveUpdate(p)
  BY <1>6, ProcGoto, Unchanged, Parts DEF ObserveUpdate, PCs, dataVars
<1>7. CASE ConfirmUpdate(p)
  <2>1. CASE ConfirmNukiManagedUpdate(l.id, l.rev) /\ Goto(p, "upd_code")
    <3>1. ASSUME l.id \in CredIds
          PROVE  [cred[l.id] EXCEPT !.state = "active", !.rev = l.rev + 1, !.due = TRUE] \in CredRow
      <4>1. l.rev + 1 \in Nat /\ cred[l.id] \in CredRow
        BY <1>a, <3>1, RowType
      <4>. QED  BY <4>1, <1>a, SetColumns
    <3>2. CredOK'
      BY <2>1, <3>1, CredWrite, Parts DEF ConfirmNukiManagedUpdate
    <3>. QED  BY <1>7, <2>1, <3>2, ProcGoto, Unchanged, Parts DEF ConfirmUpdate, PCs
  <2>2. CASE UNCHANGED cred /\ Return(p)
    BY <1>7, <2>2, ProcReturn, Unchanged, Parts DEF ConfirmUpdate
  <2>. QED  BY <1>7, <2>1, <2>2 DEF ConfirmUpdate
<1>8. CASE ProjectUpdate(p)
  <2>1. [l.code EXCEPT !.ver = l.ver] \in CodeRow
    BY <1>a DEF CodeRow
  <2>. QED  BY <1>8, <2>1, CodeWrite, ProcReturn, Unchanged, Parts DEF ProjectUpdate
<1>. QED  BY <1>1, <1>2, <1>3, <1>4, <1>5, <1>6, <1>7, <1>8 DEF MaintainStep

LEMMA DeleteStepType ==
  ASSUME TypeOK, NEW p \in Procs, DeleteStep(p)
  PROVE  TypeOK'
<1>. DEFINE l == proc[p]
<1>a. /\ l \in Local /\ l.code \in CodeRow /\ l.ver \in Vers /\ l.rev \in Nat
      /\ l.lock \in Locks \cup {None} /\ l.stay \in Stays \cup {None}
  BY LocalType, Parts
<1>1. CASE StartNukiManagedDeletion(p)
  <2>. DEFINE row == [AbsentRow EXCEPT !.state = "delete_pending", !.rev = 1, !.stay = l.stay,
                                       !.lock = l.lock, !.remote = l.code.ext,
                                       !.ver = l.code.ver, !.link = TRUE]
  <2>1. CASE /\ \E i \in CredIds : RestartAsDeletion(i)
             /\ Goto(p, "del_read")
    <3>1. ASSUME NEW i \in CredIds
          PROVE  [cred[i] EXCEPT !.state = "delete_pending", !.rev = @ + 1] \in CredRow
      <4>1. cred[i] \in CredRow /\ cred[i].rev + 1 \in Nat
        BY RowType DEF CredRow
      <4>. QED  BY <4>1, <1>a, SetColumns
    <3>2. CredOK'
      BY <2>1, <3>1, CredWrite, Parts DEF RestartAsDeletion
    <3>. QED  BY <1>1, <2>1, <3>2, ProcGoto, Unchanged, Parts DEF StartNukiManagedDeletion, PCs
  <2>2. CASE \E i \in CredIds :
               /\ SetCred(i, row)
               /\ Become(p, [l EXCEPT !.pc = "del_call", !.id = i, !.rev = 1])
    <3>1. row \in CredRow
      BY <1>a DEF AbsentRow, CredRow, OpStates, CodeRow
    <3>2. \A i \in CredIds : [l EXCEPT !.pc = "del_call", !.id = i, !.rev = 1] \in Local
      BY <1>a, SetField DEF PCs
    <3>. QED  BY <1>1, <2>2, <3>1, <3>2, CredWrite, ProcWrite, Unchanged, Parts
                 DEF StartNukiManagedDeletion
  <2>3. CASE Return(p) /\ UNCHANGED cred
    BY <1>1, <2>3, ProcReturn, Unchanged, Parts DEF StartNukiManagedDeletion
  <2>. QED  BY <1>1, <2>1, <2>2, <2>3 DEF StartNukiManagedDeletion
<1>2. CASE ReadDeletion(p)
  <2>. PICK i \in CredIds :
         Become(p, [l EXCEPT !.pc = "del_call", !.id = i, !.rev = cred[i].rev])
    BY <1>2 DEF ReadDeletion
  <2>1. cred[i].rev \in Nat
    BY Parts DEF CredOK, CredRow
  <2>2. [l EXCEPT !.pc = "del_call", !.id = i, !.rev = cred[i].rev] \in Local
    BY <1>a, <2>1, SetField DEF PCs
  <2>. QED  BY <1>2, <2>2, ProcWrite, Unchanged, Parts DEF ReadDeletion, dataVars
<1>3. CASE SendDeletion(p)
  <2>1. AuthOK'
    BY <1>3, RevokeAccessType, Parts DEF SendDeletion
  <2>2. ProcOK'
    BY <1>3, ProcGoto, Parts DEF SendDeletion, PCs
  <2>. QED  BY <1>3, <2>1, <2>2, Unchanged, Parts DEF SendDeletion
<1>4. CASE RecordDeletionError(p)
  <2>1. l.rev + 1 \in Nat
    BY <1>a
  <2>2. CredOK'
    BY <1>4, <2>1, CredOperation, Parts
       DEF RecordDeletionError, MarkNukiManagedDeletionAttempt, OpStates
  <2>. QED  BY <1>4, <2>2, ProcReturn, Unchanged, Parts DEF RecordDeletionError
<1>5. CASE RecordDeletionAccepted(p)
  <2>1. l.rev + 1 \in Nat
    BY <1>a
  <2>2. CredOK'
    BY <1>5, <2>1, CredOperation, Parts
       DEF RecordDeletionAccepted, MarkNukiManagedDeletionAttempt, OpStates
  <2>3. [IdleProc EXCEPT !.pc = "list", !.kind = "deletions"] \in Local
    BY IdleIsLocal DEF Local, PCs, Kinds
  <2>4. ProcOK'
    BY <1>5, <2>3, ProcWrite, ProcReturn, Parts DEF RecordDeletionAccepted
  <2>. QED  BY <1>5, <2>2, <2>4, Unchanged, Parts DEF RecordDeletionAccepted
<1>. QED  BY <1>1, <1>2, <1>3, <1>4, <1>5 DEF DeleteStep

LEMMA ListDueType == TypeOK => \A k \in Kinds : ListDue(k) \in SUBSET Item
BY RowType DEF ListDue, Item

LEMMA ListingType == TypeOK => \A l : ListKeypadCodes(l) \in SUBSET Seen
BY Parts DEF ListKeypadCodes, Seen, AuthOK, AuthRow

LEMMA AfterType ==
  ASSUME NEW l \in Local, NEW x
  PROVE  After(l, x) \in Local
<1>1. l.items \ {x} \in SUBSET Item
  BY DEF Local
<1>2. [l EXCEPT !.pc = "item", !.items = @ \ {x}] \in Local
  BY <1>1 DEF Local, PCs
<1>. QED  BY <1>2, IdleIsLocal DEF After

LEMMA ItemType ==
  ASSUME TypeOK, NEW p \in Procs, NEW x \in proc[p].items
  PROVE  /\ x \in Item /\ x.id \in CredIds /\ x.row \in CredRow
         /\ x.row.rev \in Nat /\ x.row.rev + 1 \in Nat /\ x.row.ver \in Vers
         /\ x.row.pin \in Auths \cup {None} /\ x.row.remote \in Auths \cup {None}
<1>1. x \in Item
  BY LocalType, Parts
<1>. QED  BY <1>1 DEF Item, CredRow

LEMMA PassStepType ==
  ASSUME TypeOK, NEW p \in Procs, PassStep(p)
  PROVE  TypeOK'
<1>. DEFINE l == proc[p]
<1>a. /\ l \in Local /\ l.code \in CodeRow /\ l.ver \in Vers /\ l.rev \in Nat /\ l.rev + 1 \in Nat
      /\ l.kind \in Kinds /\ l.ok \in BOOLEAN /\ l.auth \in Auths \cup {None} /\ lock \in Locks
  BY LocalType, Parts DEF Local, LockOK
<1>1. CASE StartInlinePass(p)
  <2>1. ListDue(l.kind) \in SUBSET Item
    BY <1>a, ListDueType
  <2>2. [l EXCEPT !.pc = "snap", !.lock = lock, !.items = ListDue(l.kind)] \in Local
    <3>1. "snap" \in PCs
      BY DEF PCs
    <3>. QED  BY <1>a, <2>1, <3>1, SetField
  <2>. QED  BY <1>1, <2>2, ProcWrite, ProcReturn, Unchanged, Parts DEF StartInlinePass, dataVars
<1>2. CASE TakeSnapshot(p)
  <2>1. [l EXCEPT !.pc = "item", !.snap = ListKeypadCodes(l.lock)] \in Local
    <3>1. "item" \in PCs
      BY DEF PCs
    <3>2. ListKeypadCodes(l.lock) \in SUBSET Seen
      BY ListingType
    <3>. QED  BY <1>a, <3>1, <3>2, SetField
  <2>. QED  BY <1>2, <2>1, ProcWrite, ProcReturn, Unchanged, Parts DEF TakeSnapshot, dataVars
<1>3. ASSUME NEW x \in l.items,
             \/ ClaimItem(p, x) \/ DecideCreation(p, x) \/ ConfirmItem(p, x)
             \/ DeletionItem(p, x) \/ RecordDeletionItem(p, x)
             \/ UpdateItem(p, x) \/ ProjectUpdateItem(p, x)
      PROVE  TypeOK'
  <2>a. /\ x.id \in CredIds /\ x.row \in CredRow /\ x.row.rev \in Nat /\ x.row.rev + 1 \in Nat
        /\ x.row.ver \in Vers /\ x.row.pin \in Auths \cup {None}
        /\ x.row.remote \in Auths \cup {None} /\ x.row.stay \in Stays \cup {None}
    BY ItemType DEF CredRow
  <2>b. After(l, x) \in Local
    BY <1>a, AfterType
  <2>c. cred[x.id] \in CredRow
    BY <2>a, RowType
  <2>1. CASE ClaimItem(p, x)
    <3>1. [cred[x.id] EXCEPT !.rev = x.row.rev + 1] \in CredRow
      BY <1>a, <2>a, <2>c, SetColumns
    <3>2. CredOK'
      <4>1. CredOK /\ ClaimNukiManagedCreation(x.id, x.row.rev)
        BY <2>1, Parts DEF ClaimItem
      <4>. QED  BY <3>1, <4>1, CredWrite, Unchanged DEF ClaimNukiManagedCreation
    <3>3. [l EXCEPT !.pc = "decide", !.rev = x.row.rev + 1] \in Local
      <4>1. "decide" \in PCs
        BY DEF PCs
      <4>. QED  BY <1>a, <2>a, <4>1, SetField
    <3>4. ProcOK'
      BY <2>1, <2>b, <3>3, ProcWrite, Parts DEF ClaimItem
    <3>5. StayOK' /\ CodeOK' /\ AuthOK' /\ LockOK'
      BY <2>1, Unchanged, Parts DEF ClaimItem
    <3>. QED  BY <3>2, <3>4, <3>5, Parts
  <2>2. CASE DecideCreation(p, x)
    <3>1. CASE OtherBinding(l, x.row)
      BY <1>a, <2>2, <2>b, <3>1, CredOperation, ProcWrite, Unchanged, Parts
         DEF DecideCreation, OpStates
    <3>2. CASE ~OtherBinding(l, x.row) /\ ~Correlates(x, l)
      <4>1. CredOK'
        BY <1>a, <2>2, <3>2, CredOperation, Parts DEF DecideCreation, OpStates
      <4>. QED  BY <2>2, <2>b, <3>2, <4>1, ProcWrite, Unchanged, Parts DEF DecideCreation
    <3>3. CASE ~OtherBinding(l, x.row) /\ Correlates(x, l)
      <4>. PICK s \in Stays :
             Become(p, [l EXCEPT !.pc = "confirm", !.auth = x.row.pin,
                                 !.code = code[s], !.ok = stay[s].elig])
        BY <2>2, <3>3 DEF DecideCreation
      <4>1. code[s] \in CodeRow /\ stay[s].elig \in BOOLEAN
        BY Parts DEF StayOK, StayRow, CodeOK
      <4>2. [l EXCEPT !.pc = "confirm", !.auth = x.row.pin,
                      !.code = code[s], !.ok = stay[s].elig] \in Local
        BY <1>a, <2>a, <4>1 DEF Local, PCs
      <4>. QED  BY <2>2, <3>3, <4>2, ProcWrite, Unchanged, Parts DEF DecideCreation
    <3>. QED  BY <3>1, <3>2, <3>3
  <2>3. CASE ConfirmItem(p, x)
    <3>. DEFINE had == l.code.status # "none"
                st == IF l.ok THEN "active" ELSE "delete_pending"
    <3>1. CASE ConfirmNukiManagedCreation(x.id, l.rev, l.auth, had, l.ok)
      <4>1. [cred[x.id] EXCEPT !.state = st, !.rev = l.rev + 1, !.remote = l.auth, !.pin = None,
                               !.link = had, !.due = TRUE, !.acc = TRUE] \in CredRow
        <5>1. st \in OpStates /\ had \in BOOLEAN
          BY DEF OpStates
        <5>2. cred[x.id] \in CredRow /\ l.rev + 1 \in Nat /\ l.auth \in Auths \cup {None}
          BY <1>a, <2>c
        <5>. HIDE DEF st, had, l
        <5>. QED  BY <5>1, <5>2, ConfirmedColumns
      <4>2. CredOK'
        BY <3>1, <4>1, CredWrite, Parts DEF ConfirmNukiManagedCreation
      <4>3. [status |-> IF l.ok THEN "generated" ELSE "revoked", ext |-> l.auth,
             pin |-> IF l.ok THEN cred[x.id].pin ELSE None, ver |-> cred[x.id].ver] \in CodeRow
        BY <1>a, <2>c DEF CredRow, CodeRow
      <4>4. CodeOK'
        BY <3>1, <4>3, Parts DEF ConfirmNukiManagedCreation, CodeOK
      <4>. QED  BY <2>3, <2>b, <4>2, <4>4, ProcWrite, Unchanged, Parts DEF ConfirmItem
    <3>2. CASE UNCHANGED <<cred, code>>
      BY <2>3, <2>b, <3>2, ProcWrite, Unchanged, Parts DEF ConfirmItem
    <3>. QED  BY <2>3, <3>1, <3>2 DEF ConfirmItem
  <2>4. CASE DeletionItem(p, x)
    <3>1. CASE /\ UpdateNukiManagedOperation(x.id, "needs_review", x.row.rev + 1, FALSE, FALSE)
               /\ Become(p, After(l, x))
               /\ UNCHANGED <<code, auth>>
      <4>1. CredOK'
        BY <2>a, <3>1, CredOperation, Parts DEF OpStates
      <4>. QED  BY <2>4, <2>b, <3>1, <4>1, ProcWrite, Unchanged, Parts DEF DeletionItem
    <3>2. CASE /\ IF DeletionConfirmable(x.id, x.row.rev)
                  THEN ConfirmNukiManagedDeletion(x.id, x.row.rev, x.row.link)
                  ELSE UNCHANGED <<cred, code>>
               /\ Become(p, After(l, x))
               /\ UNCHANGED auth
      <4>1. [cred[x.id] EXCEPT !.state = "deleted", !.rev = x.row.rev + 1,
                               !.due = TRUE, !.pin = None] \in CredRow
        BY <1>a, <2>a, <2>c, SetColumns
      <4>2. CredOK'
        BY <3>2, <4>1, CredWrite, Unchanged, Parts DEF ConfirmNukiManagedDeletion
      <4>3. \A s \in Stays : [code[s] EXCEPT !.status = "revoked", !.pin = None] \in CodeRow
        BY Parts DEF CodeOK, CodeRow
      <4>4. CodeOK'
        BY <3>2, <4>3, Unchanged, Parts DEF ConfirmNukiManagedDeletion, CodeOK
      <4>. QED  BY <2>4, <2>b, <3>2, <4>2, <4>4, ProcWrite, Unchanged, Parts DEF DeletionItem
    <3>3. CASE /\ MarkNukiManagedDeletionAttempt(x.id, x.row.rev, TRUE, TRUE)
               /\ Become(p, After(l, x))
               /\ UNCHANGED <<code, auth>>
      <4>1. CredOK'
        BY <2>a, <3>3, CredOperation, Parts DEF MarkNukiManagedDeletionAttempt, OpStates
      <4>. QED  BY <2>4, <2>b, <3>3, <4>1, ProcWrite, Unchanged, Parts DEF DeletionItem
    <3>4. CASE /\ \E a \in DeleteAnswers(x.row.remote, l.lock) :
                    /\ RevokeAccess(x.row.remote, a)
                    /\ Become(p, [l EXCEPT !.pc = "record", !.ok = (a = "accepted")])
               /\ UNCHANGED <<cred, code>>
      <4>1. \A b \in BOOLEAN : [l EXCEPT !.pc = "record", !.ok = b] \in Local
        BY <1>a, SetField DEF PCs
      <4>. QED  BY <2>4, <3>4, <4>1, RevokeAccessType, ProcWrite, Unchanged, Parts
                   DEF DeletionItem
    <3>. QED  BY <2>4, <3>1, <3>2, <3>3, <3>4 DEF DeletionItem
  <2>5. CASE RecordDeletionItem(p, x)
    <3>1. CredOK'
      BY <1>a, <2>5, <2>a, CredOperation, Parts
         DEF RecordDeletionItem, MarkNukiManagedDeletionAttempt, OpStates
    <3>. QED  BY <2>5, <2>b, <3>1, ProcWrite, Unchanged, Parts DEF RecordDeletionItem
  <2>6. CASE UpdateItem(p, x)
    <3>1. CASE \E st \in OpStates, b \in BOOLEAN :
                 /\ UpdateNukiManagedOperation(x.id, st, x.row.rev + 1, b, b)
                 /\ Become(p, After(l, x))
      <4>1. CredOK'
        BY <2>a, <3>1, CredOperation, Parts
      <4>. QED  BY <2>6, <2>b, <3>1, <4>1, ProcWrite, Unchanged, Parts DEF UpdateItem
    <3>2. CASE /\ ConfirmNukiManagedUpdate(x.id, x.row.rev) \/ UNCHANGED cred
               /\ \/ \E s \in Stays : Become(p, [l EXCEPT !.pc = "item_code", !.code = code[s]])
                  \/ Become(p, After(l, x))
      <4>1. [cred[x.id] EXCEPT !.state = "active", !.rev = x.row.rev + 1, !.due = TRUE] \in CredRow
        BY <1>a, <2>a, <2>c, SetColumns
      <4>2. CredOK'
        BY <3>2, <4>1, CredWrite, Unchanged, Parts DEF ConfirmNukiManagedUpdate
      <4>3. \A s \in Stays : [l EXCEPT !.pc = "item_code", !.code = code[s]] \in Local
        BY <1>a, SetField, Parts DEF CodeOK, PCs
      <4>4. ProcOK'
        BY <2>b, <3>2, <4>3, ProcWrite, Parts
      <4>. QED  BY <2>6, <4>2, <4>4, Unchanged, Parts DEF UpdateItem
    <3>. QED  BY <2>6, <3>1, <3>2 DEF UpdateItem, OpStates
  <2>7. CASE ProjectUpdateItem(p, x)
    <3>1. [l.code EXCEPT !.ver = x.row.ver] \in CodeRow
      BY <1>a, <2>a DEF CodeRow
    <3>. QED  BY <2>7, <2>b, <3>1, CodeWrite, ProcWrite, Unchanged, Parts DEF ProjectUpdateItem
  <2>. QED  BY <1>3, <2>1, <2>2, <2>3, <2>4, <2>5, <2>6, <2>7
<1>. QED  BY <1>1, <1>2, <1>3 DEF PassStep

LEMMA BeginType ==
  ASSUME TypeOK, NEW p \in Procs, Begin(p)
  PROVE  TypeOK'
<1>1. ASSUME NEW s \in Stays, Generate(p, s) PROVE TypeOK'
  BY <1>1, GenerateType
<1>2. ASSUME NEW s \in Stays, EditStay(p, s) PROVE TypeOK'
  <2>1. StayOK'
    BY <1>2, Parts DEF EditStay, StayOK, StayRow
  <2>2. [IdleProc EXCEPT !.pc = "mt_load", !.stay = s] \in Local
    BY IdleIsLocal DEF Local, PCs
  <2>. QED  BY <1>2, <2>1, <2>2, ProcWrite, Unchanged, Parts DEF EditStay
<1>3. ASSUME NEW s \in Stays
      PROVE  [IdleProc EXCEPT !.pc = "del_start", !.stay = s, !.lock = lock,
                              !.code = code[s]] \in Local
  <2>1. code[s] \in CodeRow /\ lock \in Locks
    BY Parts DEF CodeOK, LockOK
  <2>. QED  BY <2>1, IdleIsLocal DEF Local, PCs
<1>4. ASSUME NEW s \in Stays, RevokeCode(p, s) PROVE TypeOK'
  BY <1>3, <1>4, ProcWrite, Unchanged, Parts DEF RevokeCode, dataVars
<1>5. ASSUME NEW s \in Stays, CleanupExpiredCodes(p, s) PROVE TypeOK'
  BY <1>3, <1>5, ProcWrite, Unchanged, Parts DEF CleanupExpiredCodes, dataVars
<1>6. ASSUME NEW k \in Kinds, StartPass(p, k) PROVE TypeOK'
  <2>1. ListDue(k) \in SUBSET Item /\ lock \in Locks
    BY <1>6, ListDueType, Parts DEF LockOK
  <2>2. [IdleProc EXCEPT !.pc = "snap", !.kind = k, !.lock = lock,
                         !.items = ListDue(k)] \in Local
    BY <1>6, <2>1, IdleIsLocal DEF Local, PCs
  <2>. QED  BY <1>6, <2>2, ProcWrite, Unchanged, Parts DEF StartPass, dataVars
<1>7. ASSUME NEW s \in Stays, RefuseLongName(p, s) PROVE TypeOK'
  <2>1. stay[s].ver \in Vers
    BY Parts DEF StayOK, StayRow
  <2>2. [IdleProc EXCEPT !.pc = "gen_fail_project", !.stay = s, !.ver = stay[s].ver] \in Local
    BY <2>1, IdleIsLocal DEF Local, PCs
  <2>. QED  BY <1>7, <2>2, ProcWrite, Unchanged, Parts DEF RefuseLongName, dataVars
<1>. QED  BY <1>1, <1>2, <1>4, <1>5, <1>6, <1>7 DEF Begin

LEMMA EnvironmentType ==
  ASSUME TypeOK, Environment
  PROVE  TypeOK'
<1>1. ASSUME NEW s \in Stays, UpdateFinanceMatchedStayName(s) PROVE TypeOK'
  <2>1. /\ stay[s].ver + 1 \in Vers /\ stay[s].ver + 1 + 1 \in 0 .. MaxVer + 1
        /\ stay[s].past \in 0 .. MaxVer + 1 /\ stay \in [Stays -> StayRow]
    <3>1. stay[s].ver \in Vers /\ stay[s].past \in 0 .. MaxVer + 1 /\ stay \in [Stays -> StayRow]
      BY <1>1, Parts DEF StayOK, StayRow
    <3>. QED  BY <1>1, <3>1, CredentialAssumption DEF UpdateFinanceMatchedStayName, Vers
  <2>2. \E q \in 0 .. MaxVer + 1 :
          stay' = [stay EXCEPT ![s].ver = stay[s].ver + 1, ![s].past = q]
    <3>1. CASE stay[s].past = stay[s].ver + 1
      BY <1>1, <2>1, <3>1 DEF UpdateFinanceMatchedStayName
    <3>2. CASE stay[s].past # stay[s].ver + 1
      BY <1>1, <2>1, <3>2 DEF UpdateFinanceMatchedStayName
    <3>. QED  BY <3>1, <3>2
  <2>3. PICK q \in 0 .. MaxVer + 1 :
          stay' = [stay EXCEPT ![s].ver = stay[s].ver + 1, ![s].past = q]
    BY <2>2
  <2>4. StayOK'
    BY <1>1, <2>1, <2>3 DEF StayOK, StayRow
  <2>. QED  BY <1>1, <2>4, Unchanged, Parts DEF UpdateFinanceMatchedStayName
<1>2. ASSUME NEW s \in Stays, Expire(s) PROVE TypeOK'
  <2>1. stay[s].ver \in Vers
    BY <1>2, Parts DEF StayOK, StayRow
  <2>2. stay[s].ver + 1 \in 0 .. MaxVer + 1
    BY <2>1, CredentialAssumption DEF Vers
  <2>3. StayOK'
    BY <1>2, <2>2, Parts DEF Expire, StayOK, StayRow
  <2>. QED  BY <1>2, <2>3, Unchanged, Parts DEF Expire
<1>3. ASSUME NEW i \in CredIds, RetryDue(i) PROVE TypeOK'
  <2>1. [cred[i] EXCEPT !.due = TRUE] \in CredRow
    BY <1>3, RowType DEF CredRow
  <2>. QED  BY <1>3, <2>1, CredWrite, Unchanged, Parts DEF RetryDue
<1>4. ASSUME NEW k \in Locks, Rebind(k) PROVE TypeOK'
  BY <1>4, Unchanged, Parts DEF Rebind, LockOK
<1>5. ASSUME NEW r \in Auths, ApplyCreate(r) \/ ApplyUpdate(r) \/ ApplyDelete(r)
      PROVE  TypeOK'
  <2>1. ASSUME NEW st \in {"present", "dropped", "gone"},
               auth' = [auth EXCEPT ![r].st = st]
        PROVE  AuthOK'
    BY <1>5, <2>1, Parts DEF AuthOK, AuthRow
  <2>2. ASSUME NEW v \in auth[r].upds,
               auth' = [auth EXCEPT ![r].ver = v, ![r].upds = @ \ {v}]
        PROVE  AuthOK'
    BY <1>5, <2>2, Parts DEF AuthOK, AuthRow
  <2>3. AuthOK'
    BY <1>5, <2>1, <2>2 DEF ApplyCreate, ApplyUpdate, ApplyDelete
  <2>. QED  BY <1>5, <2>3, Unchanged, Parts DEF ApplyCreate, ApplyUpdate, ApplyDelete
<1>. QED  BY <1>1, <1>2, <1>3, <1>4, <1>5 DEF Environment, ProviderStep

LEMMA TypeNext == TypeOK /\ [Next]_vars => TypeOK'
<1>. SUFFICES ASSUME TypeOK, [Next]_vars PROVE TypeOK'
  OBVIOUS
<1>1. ASSUME NEW p \in Procs, Abort(p) PROVE TypeOK'
  BY <1>1, ProcReturn, Unchanged, Parts DEF Abort, dataVars
<1>2. ASSUME NEW p \in Procs, Step(p) PROVE TypeOK'
  BY <1>2, GenerateStepType, MaintainStepType, DeleteStepType, PassStepType DEF Step
<1>3. CASE UNCHANGED vars
  BY <1>3, Unchanged, Parts DEF vars, dataVars
<1>. QED  BY <1>1, <1>2, <1>3, BeginType, EnvironmentType DEF Next

(* Every table row and every goroutine keeps its type, whatever the number *)
(* of stays, PINs, smartlocks, requests and workers: in particular a code  *)
(* only ever has one of the statuses of nuki_access_codes and an operation *)
(* one of the states of nuki_managed_credentials.                          *)
THEOREM TypeCorrect == Spec => []TypeOK
BY TypeInit, TypeNext, PTL DEF Spec

-----------------------------------------------------------------------------
(***************************************************************************)
(* What a deletion and an identity mean, for every set of stays, PINs,     *)
(* smartlocks, requests and workers: a row is "deleted" only while its     *)
(* authorization is not on its lock, and a row's identity is that of an    *)
(* authorization the provider has shown.                                   *)
(*                                                                         *)
(* Neither is inductive: both depend on what every goroutine still holds   *)
(* from its earlier reads.  The invariant below says what those stale      *)
(* copies are good for; what makes them good is that some facts about the  *)
(* database and the provider never change again (Advances).                *)
(***************************************************************************)
(* The inductive invariant.  Its parts are operators of the values they    *)
(* speak of (a: the provider, c: the rows, k: the codes, f: the goroutines)*)
(* so that a later state can be given to them as well as the current one.  *)

(* The provider has carried out the creation of r. *)
Materialised(a, r) == a[r].st \in {"present", "gone"}

(* The inventory of lock k does not contain r. *)
Absent(a, r, k) == ~(a[r].st = "present" /\ a[r].lock = k)

RowGood(row, a) ==
  /\ row.state = "absent" => row.rev = 0
  /\ row.state # "absent" => row.rev >= 1
  /\ row.state \in {"absent", "create_pending"} => row.remote = None
  /\ row.state \in {"delete_pending", "deleted"} => row.remote # None
  /\ row.remote # None => Materialised(a, row.remote)
  /\ row.state = "deleted" => Absent(a, row.remote, row.lock)

RowsGood(c, a) == \A i \in CredIds : RowGood(c[i], a)

CodeGood(k, a) == k.ext # None => Materialised(a, k.ext)
CodesGood(k, a) == \A s \in Stays : CodeGood(k[s], a)

(* What a goroutine may still rely on, by where it is. *)
CreatingGood(l, c) ==
  l.pc \in {"gen_create", "gen_accepted", "gen_failed"} =>
    /\ l.id \in CredIds
    /\ c[l.id].state # "absent"
    /\ c[l.id].remote # None => c[l.id].rev >= 2

DeletingGood(l, c) ==
  /\ l.pc \in {"del_start", "del_read"} => l.code.ext # None
  /\ l.pc \in {"del_call", "del_accepted", "del_error"} =>
       l.id \in CredIds /\ c[l.id].remote # None

MatchingGood(l, a, c) ==
  /\ l.pc = "decide" => \A x \in l.items : NextItem(l, x) => c[x.id].rev >= l.rev
  /\ l.pc = "confirm" => l.auth \in Auths /\ Materialised(a, l.auth)

DeletionsGood(l, a, c) ==
  l.kind = "deletions" => \A x \in l.items :
    /\ x.row.remote # None
    /\ c[x.id].remote = x.row.remote /\ c[x.id].lock = x.row.lock
    /\ (/\ l.pc \in {"item", "record"}
        /\ x.row.lock = l.lock /\ ~Listed(l, x.row.remote))
         => Absent(a, x.row.remote, x.row.lock)

LocalGood(l, a, c) ==
  /\ CodeGood(l.code, a)
  /\ \A o \in l.snap : Materialised(a, o.id)
  /\ CreatingGood(l, c) /\ DeletingGood(l, c)
  /\ MatchingGood(l, a, c) /\ DeletionsGood(l, a, c)

(* A PIN that is drawn and not yet sent belongs to one goroutine. *)
Drawing == {"gen_intent", "gen_create", "gen_again", "gen_recreate"}

PinsGood(f, a) ==
  /\ \A p \in Procs : f[p].pc \in Drawing => f[p].auth \in Auths /\ a[f[p].auth].st = "drawn"
  /\ \A p, q \in Procs : (f[p].pc \in Drawing /\ f[q].pc \in Drawing /\ p # q)
                           => f[p].auth # f[q].auth

SafetyInv ==
  /\ TypeOK
  /\ RowsGood(cred, auth)
  /\ CodesGood(code, auth)
  /\ \A p \in Procs : LocalGood(proc[p], auth, cred)
  /\ PinsGood(proc, auth)

-----------------------------------------------------------------------------
(* What never changes again, whoever takes a step. *)
AuthAdvances(a, b) ==
  \A r \in Auths : Materialised(a, r) =>
    /\ Materialised(b, r)
    /\ b[r].lock = a[r].lock
    /\ a[r].st = "gone" => b[r].st = "gone"

RowAdvances(old, new) ==
  /\ new.rev >= old.rev
  /\ old.state # "absent" => new.state # "absent"
  /\ old.remote # None => new.remote = old.remote /\ new.lock = old.lock
  /\ (old.state # "absent" /\ old.remote = None /\ new.remote # None) => new.rev >= 2

CredAdvances(c, d) == \A i \in CredIds : RowAdvances(c[i], d[i])

LEMMA AbsentStays ==
  ASSUME NEW a, NEW b, AuthAdvances(a, b), NEW r \in Auths, Materialised(a, r),
         NEW k, Absent(a, r, k)
  PROVE  Absent(b, r, k)
BY DEF AuthAdvances, Materialised, Absent

LEMMA NothingAdvances ==
  /\ \A a : AuthAdvances(a, a)
  /\ \A c \in [CredIds -> CredRow] : CredAdvances(c, c)
BY DEF AuthAdvances, CredAdvances, RowAdvances, CredRow

(* The invariant of a goroutine survives what the others do. *)
LEMMA LocalStable ==
  ASSUME NEW l \in Local, NEW a, NEW b, AuthAdvances(a, b),
         NEW c \in [CredIds -> CredRow], NEW d \in [CredIds -> CredRow], CredAdvances(c, d),
         RowsGood(c, a), LocalGood(l, a, c)
  PROVE  LocalGood(l, b, d)
<1>1. CodeGood(l.code, b)
  BY DEF LocalGood, CodeGood, AuthAdvances, Local, CodeRow
<1>2. \A o \in l.snap : Materialised(b, o.id)
  BY DEF LocalGood, AuthAdvances, Local, Seen
<1>3. CreatingGood(l, d)
  <2>. SUFFICES ASSUME l.pc \in {"gen_create", "gen_accepted", "gen_failed"}
                PROVE  /\ l.id \in CredIds /\ d[l.id].state # "absent"
                       /\ d[l.id].remote # None => d[l.id].rev >= 2
    BY DEF CreatingGood
  <2>1. /\ l.id \in CredIds /\ c[l.id].state # "absent"
        /\ c[l.id].remote # None => c[l.id].rev >= 2
    BY DEF LocalGood, CreatingGood
  <2>2. c[l.id].rev \in Nat /\ d[l.id].rev \in Nat
    BY <2>1 DEF CredRow
  <2>. QED  BY <2>1, <2>2 DEF CredAdvances, RowAdvances
<1>4. DeletingGood(l, d)
  BY DEF LocalGood, DeletingGood, CredAdvances, RowAdvances
<1>5. MatchingGood(l, b, d)
  <2>1. ASSUME l.pc = "decide", NEW x \in l.items, NextItem(l, x)
        PROVE  d[x.id].rev >= l.rev
    <3>1. x.id \in CredIds /\ l.rev \in Nat
      BY DEF Local, Item
    <3>2. c[x.id].rev >= l.rev
      BY <2>1 DEF LocalGood, MatchingGood
    <3>3. d[x.id].rev >= c[x.id].rev /\ c[x.id].rev \in Nat /\ d[x.id].rev \in Nat
      BY <3>1 DEF CredAdvances, RowAdvances, CredRow
    <3>. QED  BY <3>1, <3>2, <3>3
  <2>2. l.pc = "confirm" => l.auth \in Auths /\ Materialised(b, l.auth)
    BY DEF LocalGood, MatchingGood, AuthAdvances
  <2>. QED  BY <2>1, <2>2 DEF MatchingGood
<1>6. DeletionsGood(l, b, d)
  <2>. SUFFICES ASSUME l.kind = "deletions", NEW x \in l.items
                PROVE  /\ x.row.remote # None
                       /\ d[x.id].remote = x.row.remote /\ d[x.id].lock = x.row.lock
                       /\ (/\ l.pc \in {"item", "record"}
                           /\ x.row.lock = l.lock /\ ~Listed(l, x.row.remote))
                            => Absent(b, x.row.remote, x.row.lock)
    BY DEF DeletionsGood
  <2>1. x.id \in CredIds /\ x.row.remote \in Auths \cup {None}
    BY DEF Local, Item, CredRow
  <2>2. /\ x.row.remote # None
        /\ c[x.id].remote = x.row.remote /\ c[x.id].lock = x.row.lock
        /\ (/\ l.pc \in {"item", "record"}
            /\ x.row.lock = l.lock /\ ~Listed(l, x.row.remote))
             => Absent(a, x.row.remote, x.row.lock)
    BY DEF LocalGood, DeletionsGood
  <2>3. d[x.id].remote = x.row.remote /\ d[x.id].lock = x.row.lock
    BY <2>1, <2>2 DEF CredAdvances, RowAdvances
  <2>4. Materialised(a, x.row.remote)
    BY <2>1, <2>2 DEF RowsGood, RowGood
  <2>. QED  BY <2>1, <2>2, <2>3, <2>4, AbsentStays
<1>. QED  BY <1>1, <1>2, <1>3, <1>4, <1>5, <1>6 DEF LocalGood

LEMMA RowsStable ==
  ASSUME NEW a, NEW b, AuthAdvances(a, b), NEW c \in [CredIds -> CredRow], RowsGood(c, a)
  PROVE  RowsGood(c, b)
<1>. SUFFICES ASSUME NEW i \in CredIds PROVE RowGood(c[i], b)
  BY DEF RowsGood
<1>1. RowGood(c[i], a) /\ c[i].remote \in Auths \cup {None}
  BY DEF RowsGood, CredRow
<1>2. c[i].remote # None => Materialised(a, c[i].remote) /\ Materialised(b, c[i].remote)
  BY <1>1 DEF RowGood, AuthAdvances
<1>3. c[i].state = "deleted" => Absent(b, c[i].remote, c[i].lock)
  BY <1>1, <1>2, AbsentStays DEF RowGood
<1>. QED  BY <1>1, <1>2, <1>3 DEF RowGood

LEMMA CodesStable ==
  ASSUME NEW a, NEW b, AuthAdvances(a, b), NEW k \in [Stays -> CodeRow], CodesGood(k, a)
  PROVE  CodesGood(k, b)
BY DEF CodesGood, CodeGood, AuthAdvances, CodeRow

-----------------------------------------------------------------------------
(* A step of one goroutine keeps the invariant when what it writes is good *)
(* and nothing it overwrites was still relied upon.                        *)
LEMMA StepKeeps ==
  ASSUME SafetyInv, TypeOK', NEW p \in Procs, NEW m, Become(p, m),
         AuthAdvances(auth, auth'), CredAdvances(cred, cred'),
         RowsGood(cred', auth'), CodesGood(code', auth'),
         LocalGood(m, auth', cred'), PinsGood(proc', auth')
  PROVE  SafetyInv'
<1>1. ASSUME NEW q \in Procs PROVE LocalGood(proc'[q], auth', cred')
  <2>1. CASE q = p
    BY <2>1, Parts DEF SafetyInv, Become, ProcOK
  <2>2. CASE q # p
    <3>1. proc'[q] = proc[q] /\ proc[q] \in Local
      BY <2>2, Parts DEF SafetyInv, Become, ProcOK
    <3>2. cred \in [CredIds -> CredRow] /\ cred' \in [CredIds -> CredRow]
      BY Parts DEF SafetyInv, CredOK
    <3>3. LocalGood(proc[q], auth, cred) /\ RowsGood(cred, auth)
      BY DEF SafetyInv
    <3>. QED  BY <3>1, <3>2, <3>3, LocalStable
  <2>. QED  BY <2>1, <2>2
<1>. QED  BY <1>1 DEF SafetyInv

(* A step of the environment leaves the goroutines alone. *)
LEMMA EnvironmentKeeps ==
  ASSUME SafetyInv, TypeOK', UNCHANGED proc,
         AuthAdvances(auth, auth'), CredAdvances(cred, cred'),
         RowsGood(cred', auth'), CodesGood(code', auth'), PinsGood(proc, auth')
  PROVE  SafetyInv'
<1>1. ASSUME NEW q \in Procs PROVE LocalGood(proc'[q], auth', cred')
  <2>1. proc'[q] = proc[q] /\ proc[q] \in Local
    BY Parts DEF SafetyInv, ProcOK
  <2>2. cred \in [CredIds -> CredRow] /\ cred' \in [CredIds -> CredRow]
    BY Parts DEF SafetyInv, CredOK
  <2>. QED  BY <2>1, <2>2, LocalStable DEF SafetyInv
<1>. QED  BY <1>1 DEF SafetyInv

LEMMA PinsKept ==
  ASSUME PinsGood(proc, auth), ProcOK, NEW p \in Procs, NEW m, Become(p, m),
         m.pc \in Drawing => proc[p].pc \in Drawing /\ m.auth = proc[p].auth,
         \A r \in Auths : (auth[r].st = "drawn" /\ auth'[r].st # "drawn")
            => proc[p].pc \in Drawing /\ r = proc[p].auth /\ m.pc \notin Drawing
  PROVE  PinsGood(proc', auth')
<1>1. proc'[p] = m /\ \A q \in Procs : q # p => proc'[q] = proc[q]
  BY DEF Become, ProcOK
<1>. QED  BY <1>1 DEF PinsGood

(* A step that touches neither the provider nor the PINs. *)
LEMMA LocalStepKeeps ==
  ASSUME SafetyInv, TypeOK', NEW p \in Procs, NEW m, Become(p, m), UNCHANGED auth,
         CredAdvances(cred, cred'), RowsGood(cred', auth), CodesGood(code', auth),
         LocalGood(m, auth, cred'),
         m.pc \in Drawing => proc[p].pc \in Drawing /\ m.auth = proc[p].auth
  PROVE  SafetyInv'
<1>1. PinsGood(proc', auth')
  BY PinsKept, Parts DEF SafetyInv
<1>2. AuthAdvances(auth, auth')
  BY NothingAdvances
<1>. QED  BY <1>1, <1>2, StepKeeps

LEMMA RowWritten ==
  ASSUME SafetyInv, NEW i, NEW row, SetCred(i, row),
         i \in CredIds => RowGood(row, auth) /\ RowAdvances(cred[i], row)
  PROVE  RowsGood(cred', auth) /\ CredAdvances(cred, cred')
<1>1. cred \in [CredIds -> CredRow]
  BY Parts DEF SafetyInv, CredOK
<1>2. \A j \in CredIds : cred'[j] = IF j = i THEN row ELSE cred[j]
  BY <1>1 DEF SetCred
<1>3. \A j \in CredIds : RowAdvances(cred[j], cred[j])
  BY <1>1 DEF RowAdvances, CredRow
<1>. QED  BY <1>2, <1>3 DEF SafetyInv, RowsGood, CredAdvances

LEMMA RowsUntouched ==
  ASSUME SafetyInv, UNCHANGED cred
  PROVE  RowsGood(cred', auth) /\ CredAdvances(cred, cred')
BY NothingAdvances, Parts DEF SafetyInv, CredOK

(* A compare-and-set on the operation state. *)
LEMMA OperationWritten ==
  ASSUME SafetyInv, NEW i, NEW s \in OpStates \ {"absent", "deleted"}, NEW rev \in Nat,
         NEW later, NEW accepted, UpdateNukiManagedOperation(i, s, rev, later, accepted),
         (i \in CredIds /\ OperationCurrent(i, rev)) =>
            /\ s = "create_pending" => cred[i].remote = None
            /\ s = "delete_pending" => cred[i].remote # None
  PROVE  RowsGood(cred', auth) /\ CredAdvances(cred, cred')
<1>1. CASE OperationCurrent(i, rev)
  <2>. DEFINE row == [cred[i] EXCEPT !.state = s, !.rev = rev, !.due = ~later,
                                     !.acc = @ \/ accepted]
  <2>1. ASSUME i \in CredIds PROVE RowGood(row, auth) /\ RowAdvances(cred[i], row)
    <3>1. cred[i] \in CredRow /\ RowGood(cred[i], auth)
      BY <2>1, RowType DEF SafetyInv, RowsGood
    <3>2. /\ row.state = s /\ row.rev = rev
          /\ row.remote = cred[i].remote /\ row.lock = cred[i].lock
      BY <3>1 DEF CredRow
    <3>3. cred[i].rev \in Nat /\ cred[i].rev = rev - 1 /\ cred[i].state # "absent"
      BY <1>1, <3>1 DEF OperationCurrent, CredRow
    <3>. HIDE DEF row
    <3>4. RowGood(row, auth)
      BY <1>1, <2>1, <3>1, <3>2, <3>3 DEF RowGood, OpStates
    <3>5. RowAdvances(cred[i], row)
      BY <3>2, <3>3 DEF RowAdvances, OpStates
    <3>. QED  BY <3>4, <3>5
  <2>. QED  BY <1>1, <2>1, RowWritten DEF UpdateNukiManagedOperation
<1>2. CASE ~OperationCurrent(i, rev)
  BY <1>2, RowsUntouched DEF UpdateNukiManagedOperation
<1>. QED  BY <1>1, <1>2

-----------------------------------------------------------------------------
(* Local states a goroutine moves to. *)
Plain == PCs \ {"gen_create", "gen_accepted", "gen_failed", "del_start", "del_read",
                "del_call", "del_accepted", "del_error", "decide", "confirm",
                "item", "record"}

LEMMA GotoIsBecome ==
  ASSUME ProcOK, NEW p \in Procs, NEW pc, Goto(p, pc)
  PROVE  Become(p, [proc[p] EXCEPT !.pc = pc])
BY DEF Goto, Become, ProcOK, Local

LEMMA IdleGood == \A a, c : LocalGood(IdleProc, a, c)
BY DEF LocalGood, IdleProc, NoCode, CodeGood, CreatingGood, DeletingGood, MatchingGood,
       DeletionsGood

LEMMA PlainGood ==
  ASSUME NEW l \in Local, NEW a, NEW c, LocalGood(l, a, c), NEW pc \in Plain
  PROVE  LocalGood([l EXCEPT !.pc = pc], a, c)
<1>. DEFINE m == [l EXCEPT !.pc = pc]
<1>1. /\ m.pc = pc /\ m.code = l.code /\ m.snap = l.snap /\ m.items = l.items
      /\ m.kind = l.kind
  BY DEF Local
<1>. HIDE DEF m
<1>. QED  BY <1>1 DEF LocalGood, Plain, CodeGood, CreatingGood, DeletingGood, MatchingGood,
                      DeletionsGood

LEMMA LocalNow ==
  ASSUME SafetyInv, NEW p \in Procs
  PROVE  /\ proc[p] \in Local /\ LocalGood(proc[p], auth, cred)
         /\ cred \in [CredIds -> CredRow] /\ code \in [Stays -> CodeRow]
         /\ auth \in [Auths -> AuthRow]
BY Parts DEF SafetyInv, ProcOK, CredOK, CodeOK, AuthOK

LEMMA ReturnKeeps ==
  ASSUME SafetyInv, TypeOK', NEW p \in Procs, Return(p), UNCHANGED auth,
         CredAdvances(cred, cred'), RowsGood(cred', auth), CodesGood(code', auth)
  PROVE  SafetyInv'
<1>1. IdleProc.pc \notin Drawing
  BY DEF IdleProc, Drawing
<1>. QED  BY <1>1, IdleGood, LocalStepKeeps DEF Return

LEMMA PlainStepKeeps ==
  ASSUME SafetyInv, TypeOK', NEW p \in Procs, NEW pc \in Plain, Goto(p, pc),
         pc \in Drawing => proc[p].pc \in Drawing, UNCHANGED auth,
         CredAdvances(cred, cred'), RowsGood(cred', auth), CodesGood(code', auth)
  PROVE  SafetyInv'
<1>. DEFINE m == [proc[p] EXCEPT !.pc = pc]
<1>1. m \in Local /\ m.pc = pc /\ m.auth = proc[p].auth
  BY LocalNow DEF Local, Plain
<1>2. LocalGood(m, auth, cred)
  BY LocalNow, PlainGood
<1>3. Become(p, m)
  BY GotoIsBecome, Parts DEF SafetyInv
<1>. HIDE DEF m
<1>4. LocalGood(m, auth, cred')
  <2>1. cred' \in [CredIds -> CredRow] /\ AuthAdvances(auth, auth)
    BY NothingAdvances, Parts DEF CredOK
  <2>. QED  BY <1>1, <1>2, <2>1, LocalNow, LocalStable DEF SafetyInv
<1>. QED  BY <1>1, <1>3, <1>4, LocalStepKeeps

LEMMA CodeWritten ==
  ASSUME SafetyInv, NEW s, NEW row, CodeGood(row, auth), UpsertNukiCode(s, row)
  PROVE  CodesGood(code', auth)
BY Parts DEF SafetyInv, CodesGood, UpsertNukiCode, CodeOK

LEMMA CodesUntouched ==
  ASSUME SafetyInv, UNCHANGED code
  PROVE  CodesGood(code', auth)
BY DEF SafetyInv

(* The provider receives a request about an authorization it knows. *)
LEMMA NotedKeeps ==
  ASSUME SafetyInv, TypeOK', NEW p \in Procs, NEW m \in Local, Become(p, m),
         \A r \in Auths : auth'[r].st = auth[r].st /\ auth'[r].lock = auth[r].lock,
         UNCHANGED <<code, cred>>, LocalGood(m, auth, cred), m.pc \notin Drawing
  PROVE  SafetyInv'
<1>1. AuthAdvances(auth, auth')
  BY DEF AuthAdvances, Materialised
<1>2. LocalGood(m, auth', cred')
  BY <1>1, NothingAdvances, LocalNow, LocalStable DEF SafetyInv
<1>3. RowsGood(cred', auth') /\ CodesGood(code', auth') /\ CredAdvances(cred, cred')
  BY <1>1, NothingAdvances, LocalNow, RowsStable, CodesStable DEF SafetyInv
<1>4. PinsGood(proc', auth')
  BY PinsKept, Parts DEF SafetyInv
<1>. QED  BY <1>1, <1>2, <1>3, <1>4, StepKeeps

(* A drawn PIN is sent or discarded. *)
LEMMA PinSpent ==
  ASSUME SafetyInv, TypeOK', NEW p \in Procs, NEW m \in Local, Become(p, m),
         proc[p].pc \in Drawing, m.pc \notin Drawing,
         \A r \in Auths \ {proc[p].auth} : auth'[r] = auth[r],
         UNCHANGED <<code, cred>>, LocalGood(m, auth, cred)
  PROVE  SafetyInv'
<1>1. proc[p].auth \in Auths /\ auth[proc[p].auth].st = "drawn"
  BY DEF SafetyInv, PinsGood
<1>2. AuthAdvances(auth, auth')
  BY <1>1 DEF AuthAdvances, Materialised
<1>3. LocalGood(m, auth', cred')
  BY <1>2, NothingAdvances, LocalNow, LocalStable DEF SafetyInv
<1>4. RowsGood(cred', auth') /\ CodesGood(code', auth') /\ CredAdvances(cred, cred')
  BY <1>2, NothingAdvances, LocalNow, RowsStable, CodesStable DEF SafetyInv
<1>5. PinsGood(proc', auth')
  BY PinsKept, Parts DEF SafetyInv
<1>. QED  BY <1>2, <1>3, <1>4, <1>5, StepKeeps

LEMMA DiscardPinKeeps ==
  ASSUME SafetyInv, TypeOK', NEW p \in Procs, proc[p].pc \in Drawing, DiscardPin(p),
         UNCHANGED <<code, cred>>
  PROVE  SafetyInv'
<1>1. \A r \in Auths \ {proc[p].auth} : auth'[r] = auth[r]
  BY LocalNow DEF DiscardPin
<1>2. IdleProc.pc \notin Drawing
  BY DEF IdleProc, Drawing
<1>. QED  BY <1>1, <1>2, IdleIsLocal, IdleGood, PinSpent DEF DiscardPin, Return

LEMMA CreateAccessKeeps ==
  ASSUME SafetyInv, TypeOK', NEW p \in Procs, proc[p].pc \in Drawing,
         NEW yes \in PCs \ Drawing, NEW no \in PCs \ Drawing, CreateAccess(p, yes, no),
         UNCHANGED <<code, cred>>,
         LocalGood([proc[p] EXCEPT !.pc = yes], auth, cred),
         LocalGood([proc[p] EXCEPT !.pc = no], auth, cred)
  PROVE  SafetyInv'
<1>1. \A r \in Auths \ {proc[p].auth} : auth'[r] = auth[r]
  BY LocalNow DEF CreateAccess
<1>2. PICK pc \in {yes, no} : Become(p, [proc[p] EXCEPT !.pc = pc])
  BY GotoIsBecome, Parts DEF CreateAccess, SafetyInv
<1>. DEFINE m == [proc[p] EXCEPT !.pc = pc]
<1>3. m \in Local /\ m.pc = pc
  BY LocalNow DEF Local
<1>4. LocalGood(m, auth, cred)
  BY <1>2
<1>. HIDE DEF m
<1>. QED  BY <1>1, <1>2, <1>3, <1>4, PinSpent DEF m

-----------------------------------------------------------------------------
(* Every action keeps the invariant. *)
LEMMA GenerateKeeps ==
  ASSUME SafetyInv, TypeOK', NEW p \in Procs, NEW s \in Stays, Generate(p, s)
  PROVE  SafetyInv'
<1>. DEFINE branch == GenerationBranch(code[s], stay[s].ver)
            l == [IdleProc EXCEPT !.pc = branch, !.stay = s, !.lock = lock,
                                  !.code = code[s], !.ver = stay[s].ver]
<1>1. branch \in {"gen_intent", "gen_touch", "gen_update", "gen_again"}
  BY DEF GenerationBranch
<1>2. /\ l.pc = branch /\ l.code = code[s] /\ l.snap = {} /\ l.items = {}
      /\ l.kind = "creations"
  BY DEF IdleProc
<1>3. CodeGood(code[s], auth)
  BY DEF SafetyInv, CodesGood
<1>4. \A m : (/\ m.pc = branch /\ m.code = code[s] /\ m.snap = {} /\ m.items = {}
              /\ m.kind = "creations") => LocalGood(m, auth, cred)
  BY <1>1, <1>3 DEF LocalGood, CreatingGood, DeletingGood, MatchingGood, DeletionsGood
<1>5. RowsGood(cred', auth) /\ CredAdvances(cred, cred') /\ CodesGood(code', auth)
  BY RowsUntouched, CodesUntouched DEF Generate
<1>6. CASE branch \notin {"gen_intent", "gen_again"}
  <2>1. Become(p, l) /\ UNCHANGED auth
    BY <1>6 DEF Generate
  <2>. HIDE DEF l
  <2>2. l.pc \notin Drawing
    BY <1>1, <1>2, <1>6 DEF Drawing
  <2>. QED  BY <1>2, <1>4, <1>5, <2>1, <2>2, LocalStepKeeps DEF Generate
<1>7. CASE branch \in {"gen_intent", "gen_again"}
  <2>. PICK r \in Auths : /\ auth[r].st = "unused"
                          /\ auth' = [auth EXCEPT ![r].st = "drawn"]
                          /\ Become(p, [l EXCEPT !.auth = r])
    BY <1>7 DEF Generate
  <2>. DEFINE m == [l EXCEPT !.auth = r]
  <2>1. /\ m.pc = branch /\ m.code = code[s] /\ m.snap = {} /\ m.items = {}
        /\ m.kind = "creations" /\ m.auth = r
    BY DEF IdleProc
  <2>2. m \in Local
    <3>1. code[s] \in CodeRow /\ stay[s].ver \in Vers /\ lock \in Locks /\ branch \in PCs
      BY <1>1, Parts DEF SafetyInv, StayOK, StayRow, CodeOK, LockOK, PCs
    <3>. QED  BY <3>1, IdleIsLocal DEF Local
  <2>. HIDE DEF m, l
  <2>3. Become(p, m)
    BY DEF m
  <2>4. LocalGood(m, auth, cred)
    BY <1>4, <2>1
  <2>5. /\ \A q \in Auths \ {r} : auth'[q] = auth[q]
        /\ auth'[r].st = "drawn"
    BY LocalNow DEF AuthRow
  <2>6. AuthAdvances(auth, auth')
    BY <2>5 DEF AuthAdvances, Materialised
  <2>7. LocalGood(m, auth', cred')
    BY <2>2, <2>4, <2>6, NothingAdvances, LocalNow, LocalStable DEF SafetyInv, Generate
  <2>8. RowsGood(cred', auth') /\ CodesGood(code', auth')
    BY <2>6, LocalNow, RowsStable, CodesStable DEF SafetyInv, Generate
  <2>9. PinsGood(proc', auth')
    <3>1. proc'[p] = m /\ \A q \in Procs : q # p => proc'[q] = proc[q]
      BY <2>3, Parts DEF SafetyInv, ProcOK, Become
    <3>2. \A q \in Procs : proc[q].pc \in Drawing => proc[q].auth \in Auths \ {r}
      BY DEF SafetyInv, PinsGood
    <3>. QED  BY <2>1, <2>5, <3>1, <3>2 DEF SafetyInv, PinsGood
  <2>. QED  BY <1>5, <2>3, <2>6, <2>7, <2>8, <2>9, StepKeeps
<1>. QED  BY <1>6, <1>7

LEMMA CreateIntentKeeps ==
  ASSUME SafetyInv, TypeOK', NEW p \in Procs, CreateNukiManagedCredential(p)
  PROVE  SafetyInv'
<1>. DEFINE l == proc[p]
            row == [AbsentRow EXCEPT !.state = "create_pending", !.rev = 1, !.stay = l.stay,
                                     !.lock = l.lock, !.pin = l.auth, !.ver = l.ver]
<1>a. l.pc \in Drawing /\ l.pc = "gen_intent"
  BY DEF CreateNukiManagedCredential, At, Drawing
<1>1. CASE DiscardPin(p) /\ UNCHANGED cred
  BY <1>a, <1>1, DiscardPinKeeps DEF CreateNukiManagedCredential
<1>2. CASE \E i \in CredIds :
             /\ Fresh(i) /\ SetCred(i, row)
             /\ Become(p, [l EXCEPT !.pc = "gen_create", !.id = i, !.rev = 1])
             /\ UNCHANGED auth
  <2>. PICK i \in CredIds :
             /\ Fresh(i) /\ SetCred(i, row)
             /\ Become(p, [l EXCEPT !.pc = "gen_create", !.id = i, !.rev = 1])
             /\ UNCHANGED auth
    BY <1>2
  <2>. DEFINE m == [l EXCEPT !.pc = "gen_create", !.id = i, !.rev = 1]
  <2>1. /\ row.state = "create_pending" /\ row.rev = 1 /\ row.remote = None
    BY DEF AbsentRow
  <2>2. RowGood(cred[i], auth) /\ cred[i].state = "absent"
    BY DEF SafetyInv, RowsGood, Fresh
  <2>. HIDE DEF row
  <2>3. RowGood(row, auth) /\ RowAdvances(cred[i], row)
    BY <2>1, <2>2 DEF RowGood, RowAdvances
  <2>4. RowsGood(cred', auth) /\ CredAdvances(cred, cred')
    BY <2>3, RowWritten
  <2>5. /\ m.pc = "gen_create" /\ m.id = i /\ m.code = l.code /\ m.snap = l.snap
        /\ m.items = l.items /\ m.kind = l.kind /\ m.auth = l.auth
    BY LocalNow DEF Local
  <2>6. cred'[i] = row
    BY LocalNow DEF SetCred
  <2>7. LocalGood(l, auth, cred')
    <3>1. cred' \in [CredIds -> CredRow] /\ AuthAdvances(auth, auth)
      BY NothingAdvances, Parts DEF CredOK
    <3>. QED  BY <2>4, <3>1, LocalNow, LocalStable DEF SafetyInv
  <2>. HIDE DEF m
  <2>8. LocalGood(m, auth, cred')
    BY <2>1, <2>5, <2>6, <2>7
       DEF LocalGood, CreatingGood, DeletingGood, MatchingGood, DeletionsGood
  <2>9. Become(p, m)
    BY DEF m
  <2>. QED  BY <1>a, <2>4, <2>5, <2>8, <2>9, CodesUntouched, LocalStepKeeps
               DEF CreateNukiManagedCredential
<1>. QED  BY <1>1, <1>2 DEF CreateNukiManagedCredential

LEMMA SendCreationKeeps ==
  ASSUME SafetyInv, TypeOK', NEW p \in Procs, SendCreation(p)
  PROVE  SafetyInv'
<1>1. proc[p].pc = "gen_create" /\ proc[p].pc \in Drawing
  BY DEF SendCreation, At, Drawing
<1>2. ASSUME NEW pc \in {"gen_accepted", "gen_failed"}
      PROVE  LocalGood([proc[p] EXCEPT !.pc = pc], auth, cred)
  <2>. DEFINE m == [proc[p] EXCEPT !.pc = pc]
  <2>1. /\ m.pc = pc /\ m.id = proc[p].id /\ m.code = proc[p].code /\ m.snap = proc[p].snap
        /\ m.items = proc[p].items /\ m.kind = proc[p].kind
    BY LocalNow DEF Local
  <2>. HIDE DEF m
  <2>. QED  BY <1>1, <2>1, LocalNow
               DEF LocalGood, CreatingGood, DeletingGood, MatchingGood, DeletionsGood
<1>3. {"gen_accepted", "gen_failed"} \subseteq PCs \ Drawing
  BY DEF PCs, Drawing
<1>. QED  BY <1>1, <1>2, <1>3, CreateAccessKeeps DEF SendCreation

LEMMA SendRecreationKeeps ==
  ASSUME SafetyInv, TypeOK', NEW p \in Procs, SendRecreation(p)
  PROVE  SafetyInv'
<1>1. proc[p].pc = "gen_recreate" /\ proc[p].pc \in Drawing
  BY DEF SendRecreation, At, Drawing
<1>2. {"gen_recreated", "gen_fail_project"} \subseteq (PCs \ Drawing) \cap Plain
  BY DEF PCs, Drawing, Plain
<1>. QED  BY <1>1, <1>2, PlainGood, LocalNow, CreateAccessKeeps DEF SendRecreation

(* Until another writer has been there, the intent has no identity yet. *)
LEMMA IntentUpdated ==
  ASSUME SafetyInv, NEW p \in Procs, proc[p].pc \in {"gen_accepted", "gen_failed"},
         NEW later, NEW accepted,
         UpdateNukiManagedOperation(proc[p].id, "create_pending", 2, later, accepted)
  PROVE  RowsGood(cred', auth) /\ CredAdvances(cred, cred')
<1>. DEFINE i == proc[p].id
<1>1. cred[i].remote # None => cred[i].rev >= 2
  BY LocalNow DEF LocalGood, CreatingGood
<1>2. OperationCurrent(i, 2) => cred[i].remote = None
  BY <1>1 DEF OperationCurrent
<1>. QED  BY <1>2, OperationWritten DEF OpStates

LEMMA GenerateStepKeeps ==
  ASSUME SafetyInv, TypeOK', NEW p \in Procs, GenerateStep(p)
  PROVE  SafetyInv'
<1>. DEFINE l == proc[p]
<1>a. /\ CodeGood(l.code, auth) /\ l \in Local
  BY LocalNow DEF LocalGood
<1>b. \A v : CodeGood(PendingProjection(v), auth)
  BY DEF CodeGood, PendingProjection
<1>c. {"gen_project", "gen_link", "gen_fail_project", "gen_updated", "gen_update_failed",
       "gen_recreate"} \subseteq Plain
  BY DEF Plain, PCs
<1>d. \A pc \in Plain \ {"gen_recreate", "gen_intent", "gen_again"} : pc \notin Drawing
  BY DEF Plain, Drawing
<1>1. CASE RecordAcceptance(p)
  <2>1. CASE UpdateNukiManagedOperation(l.id, "create_pending", 2, FALSE, TRUE)
             /\ Goto(p, "gen_project")
    <3>1. RowsGood(cred', auth) /\ CredAdvances(cred, cred')
      BY <1>1, <2>1, IntentUpdated DEF RecordAcceptance, At
    <3>. QED  BY <1>1, <1>c, <1>d, <2>1, <3>1, CodesUntouched, PlainStepKeeps DEF RecordAcceptance
  <2>2. CASE UNCHANGED cred /\ Return(p)
    BY <1>1, <2>2, RowsUntouched, CodesUntouched, ReturnKeeps DEF RecordAcceptance
  <2>. QED  BY <1>1, <2>1, <2>2 DEF RecordAcceptance
<1>2. CASE ProjectPending(p)
  BY <1>2, <1>b, <1>c, <1>d, CodeWritten, RowsUntouched, PlainStepKeeps DEF ProjectPending
<1>3. CASE LinkProjection(p)
  <2>. DEFINE row == [cred[l.id] EXCEPT !.link = TRUE]
              m == [IdleProc EXCEPT !.pc = "list", !.lock = l.lock]
  <2>1. ASSUME l.id \in CredIds PROVE RowGood(row, auth) /\ RowAdvances(cred[l.id], row)
    <3>1. cred[l.id] \in CredRow /\ RowGood(cred[l.id], auth)
      BY <2>1, LocalNow DEF SafetyInv, RowsGood
    <3>2. /\ row.state = cred[l.id].state /\ row.rev = cred[l.id].rev
          /\ row.remote = cred[l.id].remote /\ row.lock = cred[l.id].lock
          /\ cred[l.id].rev \in Nat
      BY <3>1 DEF CredRow
    <3>. QED  BY <3>1, <3>2 DEF RowGood, RowAdvances
  <2>2. RowsGood(cred', auth) /\ CredAdvances(cred, cred')
    BY <1>3, <2>1, RowWritten DEF LinkProjection
  <2>3. LocalGood(m, auth, cred') /\ m.pc \notin Drawing
    BY DEF LocalGood, IdleProc, NoCode, CodeGood, CreatingGood, DeletingGood, MatchingGood,
           DeletionsGood, Drawing
  <2>4. Become(p, m) /\ UNCHANGED <<auth, code>>
    BY <1>3 DEF LinkProjection
  <2>. HIDE DEF m
  <2>. QED  BY <2>2, <2>3, <2>4, CodesUntouched, LocalStepKeeps
<1>4. CASE RecordFailure(p)
  <2>1. RowsGood(cred', auth) /\ CredAdvances(cred, cred')
    BY <1>4, IntentUpdated DEF RecordFailure, At
  <2>. QED  BY <1>4, <1>c, <1>d, <2>1, CodesUntouched, PlainStepKeeps DEF RecordFailure
<1>5. CASE ProjectFailure(p)
  BY <1>5, <1>b, CodeWritten, RowsUntouched, ReturnKeeps DEF ProjectFailure
<1>6. CASE TouchCode(p)
  BY <1>6, <1>a, CodeWritten, RowsUntouched, ReturnKeeps DEF TouchCode
<1>7. CASE SendDirectUpdate(p)
  <2>1. PICK pc \in {"gen_updated", "gen_update_failed"} :
          Become(p, [l EXCEPT !.pc = pc])
    BY <1>7, GotoIsBecome, Parts DEF SendDirectUpdate, UpdateAccess, SafetyInv
  <2>2. \A r \in Auths : auth'[r].st = auth[r].st /\ auth'[r].lock = auth[r].lock
    BY <1>7, LocalNow DEF SendDirectUpdate, UpdateAccess, AuthRow
  <2>3. pc \in Plain /\ pc \notin Drawing
    BY <2>1, <1>c, <1>d
  <2>4. LocalGood([l EXCEPT !.pc = pc], auth, cred)
    BY <2>3, LocalNow, PlainGood
  <2>5. [l EXCEPT !.pc = pc] \in Local /\ [l EXCEPT !.pc = pc].pc = pc
    BY <1>a, <2>3 DEF Local, Plain
  <2>. QED  BY <1>7, <2>1, <2>2, <2>3, <2>4, <2>5, NotedKeeps DEF SendDirectUpdate
<1>8. CASE ProjectDirectUpdate(p)
  <2>1. \A st : CodeGood([l.code EXCEPT !.ver = l.ver, !.status = st], auth)
    BY <1>a DEF CodeGood, Local, CodeRow
  <2>. QED  BY <1>8, <2>1, CodeWritten, RowsUntouched, ReturnKeeps DEF ProjectDirectUpdate
<1>9. CASE CheckPending(p)
  <2>1. proc[p].pc \in Drawing
    BY <1>9 DEF CheckPending, At, Drawing
  <2>. QED  BY <1>9, <1>c, <2>1, DiscardPinKeeps, RowsUntouched, CodesUntouched, PlainStepKeeps
               DEF CheckPending
<1>10. CASE ProjectRecreation(p)
  <2>1. CodeGood([l.code EXCEPT !.status = "generated", !.pin = l.auth, !.ver = l.ver], auth)
    BY <1>a DEF CodeGood, Local, CodeRow
  <2>. QED  BY <1>10, <2>1, CodeWritten, RowsUntouched, ReturnKeeps DEF ProjectRecreation
<1>. QED  BY <1>1, <1>2, <1>3, <1>4, <1>5, <1>6, <1>7, <1>8, <1>9, <1>10,
             CreateIntentKeeps, SendCreationKeeps, SendRecreationKeeps DEF GenerateStep

(* Writes of the row that keep its identity and do not end a deletion. *)
LEMMA RowMoved ==
  ASSUME SafetyInv, NEW i \in CredIds, NEW row, SetCred(i, row), row.rev = cred[i].rev + 1,
         row.state \in {"active", "update_pending", "delete_pending"},
         row.remote = cred[i].remote, row.lock = cred[i].lock,
         cred[i].state \notin {"absent", "create_pending"},
         row.state = "delete_pending" => cred[i].remote # None
  PROVE  RowsGood(cred', auth) /\ CredAdvances(cred, cred')
<1>1. RowGood(cred[i], auth) /\ cred[i].rev \in Nat
  BY Parts DEF SafetyInv, RowsGood, CredOK, CredRow
<1>2. RowGood(row, auth) /\ RowAdvances(cred[i], row)
  BY <1>1 DEF RowGood, RowAdvances
<1>. QED  BY <1>2, RowWritten

LEMMA MaintainStepKeeps ==
  ASSUME SafetyInv, TypeOK', NEW p \in Procs, MaintainStep(p)
  PROVE  SafetyInv'
<1>. DEFINE l == proc[p]
<1>a. /\ CodeGood(l.code, auth) /\ l \in Local
  BY LocalNow DEF LocalGood
<1>b. {"upd_start", "upd_call", "upd_list", "upd_confirm", "upd_code", "upd_unconfirmed",
       "upd_error", "upd_error_op"} \subseteq Plain \ Drawing
  BY DEF Plain, PCs, Drawing
<1>1. ASSUME NEW s \in Stays, MaintainNamedStay(p, s) PROVE SafetyInv'
  <2>. DEFINE next == IF stay[s].elig THEN "upd_start" ELSE "del_start"
              m == [l EXCEPT !.pc = next, !.lock = lock, !.code = code[s], !.ver = stay[s].ver]
  <2>1. CASE Return(p)
    BY <1>1, <2>1, RowsUntouched, CodesUntouched, ReturnKeeps DEF MaintainNamedStay, dataVars
  <2>2. CASE code[s].ext # None /\ Become(p, m)
    <3>1. /\ m.pc = next /\ m.code = code[s] /\ m.snap = l.snap /\ m.items = l.items
          /\ m.kind = l.kind
      BY <1>a DEF Local
    <3>2. CodeGood(code[s], auth)
      BY DEF SafetyInv, CodesGood
    <3>. HIDE DEF m
    <3>3. LocalGood(m, auth, cred)
      BY <2>2, <3>1, <3>2, LocalNow
         DEF LocalGood, CreatingGood, DeletingGood, MatchingGood, DeletionsGood
    <3>4. m.pc \notin Drawing
      BY <3>1 DEF Drawing
    <3>. QED  BY <1>1, <2>2, <3>3, <3>4, RowsUntouched, CodesUntouched, LocalStepKeeps
                 DEF MaintainNamedStay, dataVars
  <2>. QED  BY <1>1, <2>1, <2>2 DEF MaintainNamedStay
<1>2. CASE StartUpdate(p)
  <2>1. CASE Return(p) /\ UNCHANGED cred
    BY <1>2, <2>1, RowsUntouched, CodesUntouched, ReturnKeeps DEF StartUpdate
  <2>2. CASE \E i \in CredIds :
               /\ cred[i].state = "active"
               /\ StartNukiManagedUpdate(i, l.ver)
               /\ Become(p, [l EXCEPT !.pc = "upd_call", !.id = i, !.rev = cred[i].rev + 1])
    <3>. PICK i \in CredIds :
               /\ cred[i].state = "active"
               /\ StartNukiManagedUpdate(i, l.ver)
               /\ Become(p, [l EXCEPT !.pc = "upd_call", !.id = i, !.rev = cred[i].rev + 1])
      BY <2>2
    <3>. DEFINE row == [cred[i] EXCEPT !.state = "update_pending", !.rev = @ + 1,
                                       !.ver = l.ver, !.link = TRUE, !.due = TRUE]
                m == [l EXCEPT !.pc = "upd_call", !.id = i, !.rev = cred[i].rev + 1]
    <3>1. /\ row.state = "update_pending" /\ row.rev = cred[i].rev + 1
          /\ row.remote = cred[i].remote /\ row.lock = cred[i].lock
      BY LocalNow DEF CredRow
    <3>2. SetCred(i, row) /\ Become(p, m)
      BY DEF StartNukiManagedUpdate
    <3>3. /\ m.pc = "upd_call" /\ m.code = l.code /\ m.snap = l.snap /\ m.items = l.items
          /\ m.kind = l.kind
      BY <1>a DEF Local
    <3>. HIDE DEF row, m
    <3>4. RowsGood(cred', auth) /\ CredAdvances(cred, cred')
      BY <3>1, <3>2, RowMoved
    <3>5. LocalGood(l, auth, cred')
      BY <3>4, NothingAdvances, LocalNow, LocalStable, Parts DEF SafetyInv, CredOK
    <3>6. LocalGood(m, auth, cred')
      BY <3>3, <3>5 DEF LocalGood, CreatingGood, DeletingGood, MatchingGood, DeletionsGood
    <3>7. m.pc \notin Drawing
      BY <3>3 DEF Drawing
    <3>. QED  BY <1>2, <3>2, <3>4, <3>6, <3>7, CodesUntouched, LocalStepKeeps DEF StartUpdate
  <2>. QED  BY <1>2, <2>1, <2>2 DEF StartUpdate
<1>3. CASE SendUpdate(p)
  <2>1. PICK pc \in {"upd_list", "upd_error"} : Become(p, [l EXCEPT !.pc = pc])
    BY <1>3, GotoIsBecome, Parts DEF SendUpdate, UpdateAccess, SafetyInv
  <2>2. \A r \in Auths : auth'[r].st = auth[r].st /\ auth'[r].lock = auth[r].lock
    BY <1>3, LocalNow DEF SendUpdate, UpdateAccess, AuthRow
  <2>3. pc \in Plain /\ pc \notin Drawing
    BY <2>1, <1>b
  <2>4. LocalGood([l EXCEPT !.pc = pc], auth, cred)
    BY <2>3, LocalNow, PlainGood
  <2>5. [l EXCEPT !.pc = pc] \in Local /\ [l EXCEPT !.pc = pc].pc = pc
    BY <1>a, <2>3 DEF Local, Plain
  <2>. QED  BY <1>3, <2>1, <2>2, <2>3, <2>4, <2>5, NotedKeeps DEF SendUpdate
<1>4. CASE ProjectUpdateError(p)
  BY <1>4, <1>a, <1>b, CodeWritten, RowsUntouched, PlainStepKeeps DEF ProjectUpdateError
<1>5. CASE RecordUnconfirmedUpdate(p)
  <2>1. l.rev + 1 \in Nat
    BY <1>a DEF Local
  <2>2. RowsGood(cred', auth) /\ CredAdvances(cred, cred')
    BY <1>5, <2>1, OperationWritten DEF RecordUnconfirmedUpdate, OpStates
  <2>. QED  BY <1>5, <2>2, CodesUntouched, ReturnKeeps DEF RecordUnconfirmedUpdate
<1>6. CASE ObserveUpdate(p)
  BY <1>6, <1>b, RowsUntouched, CodesUntouched, PlainStepKeeps DEF ObserveUpdate, dataVars
<1>7. CASE ConfirmUpdate(p)
  <2>1. CASE UpdateConfirmable(l.id, l.rev)
    <3>. DEFINE row == [cred[l.id] EXCEPT !.state = "active", !.rev = l.rev + 1, !.due = TRUE]
    <3>1. SetCred(l.id, row) /\ Goto(p, "upd_code")
      BY <1>7, <2>1 DEF ConfirmUpdate, ConfirmNukiManagedUpdate
    <3>2. CASE l.id \in CredIds
      <4>1. /\ row.state = "active" /\ row.rev = cred[l.id].rev + 1
            /\ row.remote = cred[l.id].remote /\ row.lock = cred[l.id].lock
            /\ cred[l.id].state = "update_pending"
        BY <2>1, <3>2, LocalNow DEF UpdateConfirmable, CredRow
      <4>. HIDE DEF row
      <4>2. RowsGood(cred', auth) /\ CredAdvances(cred, cred')
        BY <3>1, <3>2, <4>1, RowMoved
      <4>. QED  BY <1>7, <1>b, <3>1, <4>2, CodesUntouched, PlainStepKeeps DEF ConfirmUpdate
    <3>3. CASE l.id \notin CredIds
      <4>1. RowsGood(cred', auth) /\ CredAdvances(cred, cred')
        BY <3>1, <3>3, RowWritten
      <4>. QED  BY <1>7, <1>b, <3>1, <4>1, CodesUntouched, PlainStepKeeps DEF ConfirmUpdate
    <3>. QED  BY <3>2, <3>3
  <2>2. CASE ~UpdateConfirmable(l.id, l.rev)
    BY <1>7, <2>2, RowsUntouched, CodesUntouched, ReturnKeeps DEF ConfirmUpdate
  <2>. QED  BY <2>1, <2>2
<1>8. CASE ProjectUpdate(p)
  <2>1. CodeGood([l.code EXCEPT !.ver = l.ver], auth)
    BY <1>a DEF CodeGood, Local, CodeRow
  <2>. QED  BY <1>8, <2>1, CodeWritten, RowsUntouched, ReturnKeeps DEF ProjectUpdate
<1>. QED  BY <1>1, <1>2, <1>3, <1>4, <1>5, <1>6, <1>7, <1>8 DEF MaintainStep

LEMMA StartDeletionKeeps ==
  ASSUME SafetyInv, TypeOK', NEW p \in Procs, StartNukiManagedDeletion(p)
  PROVE  SafetyInv'
<1>. DEFINE l == proc[p]
            row == [AbsentRow EXCEPT !.state = "delete_pending", !.rev = 1, !.stay = l.stay,
                                     !.lock = l.lock, !.remote = l.code.ext,
                                     !.ver = l.code.ver, !.link = TRUE]
<1>a. /\ l.code.ext # None /\ Materialised(auth, l.code.ext) /\ l.pc = "del_start"
      /\ l \in Local
  BY LocalNow DEF StartNukiManagedDeletion, At, LocalGood, DeletingGood, CodeGood
<1>1. CASE /\ \E i \in CredIds : OwnsRemote(cred[i], l.lock, l.code.ext) /\ RestartAsDeletion(i)
           /\ Goto(p, "del_read")
  <2>. PICK i \in CredIds : OwnsRemote(cred[i], l.lock, l.code.ext) /\ RestartAsDeletion(i)
    BY <1>1
  <2>. DEFINE new == [cred[i] EXCEPT !.state = "delete_pending", !.rev = @ + 1]
              m == [l EXCEPT !.pc = "del_read"]
  <2>1. /\ new.state = "delete_pending" /\ new.rev = cred[i].rev + 1
        /\ new.remote = cred[i].remote /\ new.lock = cred[i].lock
    BY LocalNow DEF CredRow
  <2>2. SetCred(i, new) /\ Become(p, m)
    BY <1>1, GotoIsBecome, Parts DEF RestartAsDeletion, SafetyInv
  <2>3. cred[i].remote # None /\ cred[i].state \notin {"absent", "create_pending"}
    <3>1. RowGood(cred[i], auth) /\ cred[i].remote = l.code.ext
      BY DEF SafetyInv, RowsGood, OwnsRemote
    <3>. QED  BY <1>a, <3>1 DEF RowGood
  <2>4. /\ m.pc = "del_read" /\ m.code = l.code /\ m.snap = l.snap /\ m.items = l.items
        /\ m.kind = l.kind
    BY <1>a DEF Local
  <2>. HIDE DEF new, m
  <2>5. RowsGood(cred', auth) /\ CredAdvances(cred, cred')
    BY <2>1, <2>2, <2>3, RowMoved
  <2>6. LocalGood(l, auth, cred')
    BY <2>5, NothingAdvances, LocalNow, LocalStable, Parts DEF SafetyInv, CredOK
  <2>7. LocalGood(m, auth, cred') /\ m.pc \notin Drawing
    BY <1>a, <2>4, <2>6
       DEF LocalGood, CreatingGood, DeletingGood, MatchingGood, DeletionsGood, Drawing
  <2>. QED  BY <2>2, <2>5, <2>7, CodesUntouched, LocalStepKeeps DEF StartNukiManagedDeletion
<1>2. CASE \E i \in CredIds :
             /\ Fresh(i) /\ SetCred(i, row)
             /\ Become(p, [l EXCEPT !.pc = "del_call", !.id = i, !.rev = 1])
  <2>. PICK i \in CredIds :
             /\ Fresh(i) /\ SetCred(i, row)
             /\ Become(p, [l EXCEPT !.pc = "del_call", !.id = i, !.rev = 1])
    BY <1>2
  <2>. DEFINE m == [l EXCEPT !.pc = "del_call", !.id = i, !.rev = 1]
  <2>1. row.state = "delete_pending" /\ row.rev = 1 /\ row.remote = l.code.ext
    BY DEF AbsentRow
  <2>2. /\ m.pc = "del_call" /\ m.id = i /\ m.code = l.code /\ m.snap = l.snap
        /\ m.items = l.items /\ m.kind = l.kind
    BY <1>a DEF Local
  <2>3. Become(p, m) /\ cred'[i] = row
    BY LocalNow DEF SetCred
  <2>. HIDE DEF row, m
  <2>4. RowGood(row, auth) /\ RowAdvances(cred[i], row)
    <3>1. RowGood(cred[i], auth) /\ cred[i].state = "absent"
      BY DEF SafetyInv, RowsGood, Fresh
    <3>. QED  BY <1>a, <2>1, <3>1 DEF RowGood, RowAdvances
  <2>5. RowsGood(cred', auth) /\ CredAdvances(cred, cred')
    BY <2>4, RowWritten
  <2>6. LocalGood(l, auth, cred')
    BY <2>5, NothingAdvances, LocalNow, LocalStable, Parts DEF SafetyInv, CredOK
  <2>7. LocalGood(m, auth, cred') /\ m.pc \notin Drawing
    BY <1>a, <2>1, <2>2, <2>3, <2>6
       DEF LocalGood, CreatingGood, DeletingGood, MatchingGood, DeletionsGood, Drawing
  <2>. QED  BY <2>3, <2>5, <2>7, CodesUntouched, LocalStepKeeps DEF StartNukiManagedDeletion
<1>3. CASE Return(p) /\ UNCHANGED cred
  BY <1>3, RowsUntouched, CodesUntouched, ReturnKeeps DEF StartNukiManagedDeletion
<1>. QED  BY <1>1, <1>2, <1>3 DEF StartNukiManagedDeletion

LEMMA DeleteStepKeeps ==
  ASSUME SafetyInv, TypeOK', NEW p \in Procs, DeleteStep(p)
  PROVE  SafetyInv'
<1>. DEFINE l == proc[p]
<1>a. l \in Local /\ LocalGood(l, auth, cred)
  BY LocalNow
<1>1. CASE ReadDeletion(p)
  <2>. PICK i \in RowsOfRemote(l.lock, l.code.ext) :
         Become(p, [l EXCEPT !.pc = "del_call", !.id = i, !.rev = cred[i].rev])
    BY <1>1 DEF ReadDeletion, IsLatest
  <2>. DEFINE m == [l EXCEPT !.pc = "del_call", !.id = i, !.rev = cred[i].rev]
  <2>1. /\ m.pc = "del_call" /\ m.id = i /\ m.code = l.code /\ m.snap = l.snap
        /\ m.items = l.items /\ m.kind = l.kind
    BY <1>a DEF Local
  <2>2. i \in CredIds /\ cred[i].remote # None
    BY <1>1, <1>a DEF RowsOfRemote, ReadDeletion, At, LocalGood, DeletingGood
  <2>3. Become(p, m)
    OBVIOUS
  <2>. HIDE DEF m
  <2>4. LocalGood(m, auth, cred) /\ m.pc \notin Drawing
    BY <1>a, <2>1, <2>2
       DEF LocalGood, CreatingGood, DeletingGood, MatchingGood, DeletionsGood, Drawing
  <2>. QED  BY <1>1, <2>3, <2>4, RowsUntouched, CodesUntouched, LocalStepKeeps
               DEF ReadDeletion, dataVars
<1>2. CASE SendDeletion(p)
  <2>1. PICK pc \in {"del_accepted", "del_error"} : Become(p, [l EXCEPT !.pc = pc])
    BY <1>2, GotoIsBecome, Parts DEF SendDeletion, SafetyInv
  <2>. DEFINE m == [l EXCEPT !.pc = pc]
  <2>2. \A r \in Auths : auth'[r].st = auth[r].st /\ auth'[r].lock = auth[r].lock
    BY <1>2, LocalNow DEF SendDeletion, RevokeAccess, AuthRow
  <2>3. /\ m.pc = pc /\ m.id = l.id /\ m.code = l.code /\ m.snap = l.snap
        /\ m.items = l.items /\ m.kind = l.kind /\ m \in Local
    BY <1>a DEF Local, PCs
  <2>4. Become(p, m)
    BY <2>1
  <2>. HIDE DEF m
  <2>5. LocalGood(m, auth, cred) /\ m.pc \notin Drawing
    BY <1>2, <1>a, <2>3
       DEF SendDeletion, At, LocalGood, CreatingGood, DeletingGood, MatchingGood,
           DeletionsGood, Drawing
  <2>. QED  BY <1>2, <2>2, <2>3, <2>4, <2>5, NotedKeeps DEF SendDeletion
<1>3. ASSUME l.pc \in {"del_error", "del_accepted"},
             \/ MarkNukiManagedDeletionAttempt(l.id, l.rev, TRUE, FALSE)
             \/ MarkNukiManagedDeletionAttempt(l.id, l.rev, FALSE, TRUE)
      PROVE  RowsGood(cred', auth) /\ CredAdvances(cred, cred')
  <2>1. l.id \in CredIds /\ cred[l.id].remote # None /\ l.rev + 1 \in Nat
    BY <1>3, <1>a DEF LocalGood, DeletingGood, Local
  <2>2. \/ UpdateNukiManagedOperation(l.id, "delete_pending", l.rev + 1, TRUE, FALSE)
        \/ UpdateNukiManagedOperation(l.id, "delete_pending", l.rev + 1, FALSE, TRUE)
    BY <1>3 DEF MarkNukiManagedDeletionAttempt
  <2>3. "delete_pending" \in OpStates \ {"absent", "deleted"}
    BY DEF OpStates
  <2>. QED  BY <2>1, <2>2, <2>3, OperationWritten
<1>4. CASE RecordDeletionError(p)
  BY <1>3, <1>4, CodesUntouched, ReturnKeeps DEF RecordDeletionError, At
<1>5. CASE RecordDeletionAccepted(p)
  <2>. DEFINE m == [IdleProc EXCEPT !.pc = "list", !.kind = "deletions"]
  <2>1. RowsGood(cred', auth) /\ CredAdvances(cred, cred')
    BY <1>3, <1>5 DEF RecordDeletionAccepted, At
  <2>2. LocalGood(m, auth, cred') /\ m.pc \notin Drawing
    BY DEF LocalGood, IdleProc, NoCode, CodeGood, CreatingGood, DeletingGood, MatchingGood,
           DeletionsGood, Drawing
  <2>3. Become(p, m) \/ Return(p)
    BY <1>5 DEF RecordDeletionAccepted
  <2>. HIDE DEF m
  <2>. QED  BY <1>5, <2>1, <2>2, <2>3, CodesUntouched, LocalStepKeeps, ReturnKeeps
               DEF RecordDeletionAccepted
<1>. QED  BY <1>1, <1>2, <1>4, <1>5, StartDeletionKeeps DEF DeleteStep

-----------------------------------------------------------------------------
(* The reconciliation passes. *)

(* The rows of a deletion pass carry the identity they were read with.     *)
LEMMA DueGood ==
  ASSUME SafetyInv
  PROVE  \A x \in ListDue("deletions") :
           /\ x.row.remote # None
           /\ cred[x.id].remote = x.row.remote /\ cred[x.id].lock = x.row.lock
BY DEF SafetyInv, RowsGood, RowGood, ListDue, PendingState

LEMMA BegunGood ==
  ASSUME SafetyInv, NEW m, m.pc = "snap", m.kind \in Kinds, m.items = ListDue(m.kind),
         CodeGood(m.code, auth), \A o \in m.snap : Materialised(auth, o.id)
  PROVE  LocalGood(m, auth, cred)
BY DueGood DEF LocalGood, CreatingGood, DeletingGood, MatchingGood, DeletionsGood

(* What is not in the inventory of a lock is not on that lock.             *)
LEMMA SnapshotGood ==
  ASSUME SafetyInv, NEW l \in Local, l.pc = "snap", LocalGood(l, auth, cred)
  PROVE  LocalGood([l EXCEPT !.pc = "item", !.snap = ListKeypadCodes(l.lock)], auth, cred)
<1>. DEFINE m == [l EXCEPT !.pc = "item", !.snap = ListKeypadCodes(l.lock)]
<1>1. /\ m.pc = "item" /\ m.code = l.code /\ m.snap = ListKeypadCodes(l.lock)
      /\ m.items = l.items /\ m.kind = l.kind /\ m.lock = l.lock
  BY DEF Local
<1>. HIDE DEF m
<1>2. \A o \in m.snap : Materialised(auth, o.id)
  BY <1>1 DEF ListKeypadCodes, Reachable, Materialised
<1>3. DeletionsGood(m, auth, cred)
  <2>. SUFFICES ASSUME l.kind = "deletions", NEW x \in l.items
                PROVE  /\ x.row.remote # None
                       /\ cred[x.id].remote = x.row.remote /\ cred[x.id].lock = x.row.lock
                       /\ (x.row.lock = m.lock /\ ~Listed(m, x.row.remote))
                            => Absent(auth, x.row.remote, x.row.lock)
    BY <1>1 DEF DeletionsGood
  <2>1. x.row.remote \in Auths \cup {None}
    BY DEF Local, Item, CredRow
  <2>2. /\ x.row.remote # None
        /\ cred[x.id].remote = x.row.remote /\ cred[x.id].lock = x.row.lock
    BY DEF LocalGood, DeletionsGood
  <2>3. ASSUME x.row.lock = m.lock, ~Absent(auth, x.row.remote, x.row.lock)
        PROVE  Listed(m, x.row.remote)
    <3>1. Reachable(x.row.remote, l.lock)
      BY <1>1, <2>3 DEF Absent, Reachable
    <3>2. [id |-> x.row.remote, ver |-> auth[x.row.remote].ver] \in ListKeypadCodes(l.lock)
      <4>1. x.row.remote \in {r \in Auths : Reachable(r, l.lock)}
        BY <2>1, <2>2, <3>1
      <4>. QED  BY <4>1 DEF ListKeypadCodes
    <3>. QED  BY <1>1, <3>2 DEF Listed
  <2>. QED  BY <2>2, <2>3
<1>4. LocalGood(m, auth, cred)
  BY <1>1, <1>2, <1>3 DEF LocalGood, CreatingGood, DeletingGood, MatchingGood
<1>. QED  BY <1>4 DEF m

LEMMA AfterGood ==
  ASSUME NEW l \in Local, NEW a, NEW c, LocalGood(l, a, c), NEW x \in l.items,
         l.kind = "deletions" => l.pc \in {"item", "record"}
  PROVE  LocalGood(After(l, x), a, c) /\ After(l, x).pc \notin Drawing
<1>1. CASE l.items = {x}
  BY <1>1, IdleGood DEF After, IdleProc, Drawing
<1>2. CASE l.items # {x}
  <2>. DEFINE m == [l EXCEPT !.pc = "item", !.items = @ \ {x}]
  <2>1. /\ m.pc = "item" /\ m.code = l.code /\ m.snap = l.snap
        /\ m.items = l.items \ {x} /\ m.kind = l.kind /\ m.lock = l.lock
    BY DEF Local
  <2>2. After(l, x) = m
    BY <1>2 DEF After
  <2>. HIDE DEF m
  <2>3. DeletionsGood(m, a, c)
    BY <2>1 DEF LocalGood, DeletionsGood, Listed
  <2>. QED  BY <2>1, <2>2, <2>3
               DEF LocalGood, CreatingGood, DeletingGood, MatchingGood, Drawing
<1>. QED  BY <1>1, <1>2

(* The goroutine has dealt with a row and turns to the next.               *)
LEMMA AfterKeeps ==
  ASSUME SafetyInv, TypeOK', NEW p \in Procs, NEW x \in proc[p].items,
         proc[p].kind = "deletions" => proc[p].pc \in {"item", "record"},
         Become(p, After(proc[p], x)), UNCHANGED auth,
         CredAdvances(cred, cred'), RowsGood(cred', auth), CodesGood(code', auth)
  PROVE  SafetyInv'
<1>1. LocalGood(proc[p], auth, cred')
  BY NothingAdvances, LocalNow, LocalStable, Parts DEF SafetyInv, CredOK
<1>2. LocalGood(After(proc[p], x), auth, cred') /\ After(proc[p], x).pc \notin Drawing
  BY <1>1, LocalNow, AfterGood
<1>. QED  BY <1>2, LocalStepKeeps

LEMMA ClaimKeeps ==
  ASSUME SafetyInv, TypeOK', NEW p \in Procs, NEW x \in proc[p].items, ClaimItem(p, x)
  PROVE  SafetyInv'
<1>. DEFINE l == proc[p]
            row == [cred[x.id] EXCEPT !.rev = x.row.rev + 1]
            m == [l EXCEPT !.pc = "decide", !.rev = x.row.rev + 1]
<1>a. /\ l \in Local /\ LocalGood(l, auth, cred) /\ x.id \in CredIds
      /\ cred[x.id] \in CredRow /\ x.row.rev \in Nat /\ x \in Item
  BY LocalNow, ItemType DEF SafetyInv
<1>1. CASE ClaimCurrent(x.id, x.row.rev)
  <2>1. SetCred(x.id, row) /\ Become(p, m) /\ UNCHANGED <<auth, code>>
    BY <1>1 DEF ClaimItem, ClaimNukiManagedCreation
  <2>2. /\ row.state = "create_pending" /\ row.rev = cred[x.id].rev + 1
        /\ row.remote = cred[x.id].remote /\ row.rev = x.row.rev + 1
    BY <1>1, <1>a DEF ClaimCurrent, CredRow
  <2>3. /\ m.pc = "decide" /\ m.code = l.code /\ m.snap = l.snap /\ m.items = l.items
        /\ m.kind = "creations" /\ m.rev = x.row.rev + 1
    BY <1>a DEF Local, ClaimItem, Handling
  <2>4. cred'[x.id] = row
    BY <1>a, <2>1, LocalNow DEF SetCred
  <2>. HIDE DEF row, m
  <2>5. RowGood(row, auth) /\ RowAdvances(cred[x.id], row)
    <3>1. RowGood(cred[x.id], auth) /\ cred[x.id].rev \in Nat /\ cred[x.id].state = "create_pending"
      BY <1>1, <1>a DEF SafetyInv, RowsGood, CredRow, ClaimCurrent
    <3>. QED  BY <2>2, <3>1 DEF RowGood, RowAdvances
  <2>6. RowsGood(cred', auth) /\ CredAdvances(cred, cred')
    BY <2>1, <2>5, RowWritten
  <2>7. \A y \in m.items : NextItem(m, y) => y.id = x.id
    <3>1. ASSUME NEW y \in m.items, NextItem(m, y) PROVE y.id = x.id
      <4>1. y.id \in Nat /\ x.id \in Nat
        BY <1>a, <2>3, <3>1, LocalNow, ItemType DEF SafetyInv, CredIds
      <4>2. y.id <= x.id /\ x.id <= y.id
        BY <2>3, <3>1 DEF NextItem, ClaimItem, Handling
      <4>. QED  BY <4>1, <4>2
    <3>. QED  BY <3>1
  <2>8. LocalGood(m, auth, cred') /\ m.pc \notin Drawing
    <3>1. x.row.rev + 1 \in Nat
      BY <1>a
    <3>. QED  BY <1>a, <2>2, <2>3, <2>4, <2>7, <3>1
                 DEF LocalGood, CreatingGood, DeletingGood, MatchingGood, DeletionsGood, Drawing
  <2>. QED  BY <2>1, <2>6, <2>8, CodesUntouched, LocalStepKeeps
<1>2. CASE ~ClaimCurrent(x.id, x.row.rev)
  BY <1>2, RowsUntouched, CodesUntouched, AfterKeeps
     DEF ClaimItem, Handling, ClaimNukiManagedCreation
<1>. QED  BY <1>1, <1>2

LEMMA DecideKeeps ==
  ASSUME SafetyInv, TypeOK', NEW p \in Procs, NEW x \in proc[p].items, DecideCreation(p, x)
  PROVE  SafetyInv'
<1>. DEFINE l == proc[p]
<1>a. /\ l \in Local /\ LocalGood(l, auth, cred) /\ x.id \in CredIds /\ x \in Item
      /\ cred[x.id] \in CredRow /\ x.row.rev \in Nat /\ l.rev \in Nat
      /\ x.row.pin \in Auths \cup {None}
  BY LocalNow, ItemType DEF SafetyInv, Local
<1>b. l.pc = "decide" /\ l.kind = "creations" /\ NextItem(l, x)
  BY DEF DecideCreation, Handling, At
<1>1. CASE OtherBinding(l, x.row)
  <2>1. "needs_review" \in OpStates \ {"absent", "deleted"} /\ l.rev + 1 \in Nat
    BY <1>a DEF OpStates
  <2>2. RowsGood(cred', auth) /\ CredAdvances(cred, cred')
    BY <1>1, <2>1, OperationWritten DEF DecideCreation
  <2>. QED  BY <1>1, <1>b, <2>2, CodesUntouched, AfterKeeps DEF DecideCreation
<1>2. CASE ~OtherBinding(l, x.row) /\ ~Correlates(x, l)
  <2>. DEFINE st == IF x.row.rev >= ReviewRevision THEN "needs_review" ELSE "create_pending"
  <2>1. cred[x.id].rev >= l.rev /\ cred[x.id].rev \in Nat
    BY <1>a, <1>b DEF LocalGood, MatchingGood, CredRow
  <2>2. ~OperationCurrent(x.id, l.rev)
    BY <1>a, <2>1 DEF OperationCurrent
  <2>3. UNCHANGED cred
    BY <1>2, <2>2 DEF DecideCreation, UpdateNukiManagedOperation
  <2>. QED  BY <1>2, <1>b, <2>3, RowsUntouched, CodesUntouched, AfterKeeps DEF DecideCreation
<1>3. CASE ~OtherBinding(l, x.row) /\ Correlates(x, l)
  <2>. PICK s \in Stays : Become(p, [l EXCEPT !.pc = "confirm", !.auth = x.row.pin,
                                              !.code = code[s], !.ok = stay[s].elig])
    BY <1>3 DEF DecideCreation
  <2>. DEFINE m == [l EXCEPT !.pc = "confirm", !.auth = x.row.pin,
                             !.code = code[s], !.ok = stay[s].elig]
  <2>1. /\ m.pc = "confirm" /\ m.auth = x.row.pin /\ m.code = code[s] /\ m.snap = l.snap
        /\ m.items = l.items /\ m.kind = l.kind
    BY <1>a DEF Local
  <2>2. x.row.pin \in Auths /\ Materialised(auth, x.row.pin)
    <3>1. [id |-> x.row.pin, ver |-> x.row.ver] \in l.snap
      BY <1>3 DEF Correlates
    <3>. QED  BY <1>a, <3>1 DEF LocalGood, Local, Seen
  <2>3. CodeGood(code[s], auth)
    BY DEF SafetyInv, CodesGood
  <2>4. Become(p, m)
    OBVIOUS
  <2>. HIDE DEF m
  <2>5. LocalGood(m, auth, cred) /\ m.pc \notin Drawing
    BY <1>a, <1>b, <2>1, <2>2, <2>3
       DEF LocalGood, CreatingGood, DeletingGood, MatchingGood, DeletionsGood, Drawing
  <2>6. UNCHANGED <<auth, cred, code>>
    BY <1>3 DEF DecideCreation
  <2>. QED  BY <2>4, <2>5, <2>6, RowsUntouched, CodesUntouched, LocalStepKeeps
<1>. QED  BY <1>1, <1>2, <1>3

(* The row is still a creation, so it has no identity to lose; the one it  *)
(* gets was in the inventory.                                              *)
LEMMA ConfirmKeeps ==
  ASSUME SafetyInv, TypeOK', NEW p \in Procs, NEW x \in proc[p].items, ConfirmItem(p, x)
  PROVE  SafetyInv'
<1>. DEFINE l == proc[p]
            had == l.code.status # "none"
            i == x.id
            row == [cred[i] EXCEPT !.state = IF l.ok THEN "active" ELSE "delete_pending",
                                   !.rev = l.rev + 1, !.remote = l.auth, !.pin = None,
                                   !.link = had, !.due = TRUE, !.acc = TRUE]
<1>a. /\ l \in Local /\ LocalGood(l, auth, cred) /\ x.id \in CredIds
      /\ cred[x.id] \in CredRow /\ l.rev \in Nat
      /\ l.kind = "creations" /\ l.auth \in Auths /\ Materialised(auth, l.auth)
  BY LocalNow, ItemType DEF SafetyInv, Local, ConfirmItem, Handling, At, LocalGood, MatchingGood
<1>1. CASE CreationConfirmable(i, l.rev, had)
  <2>1. SetCred(i, row)
    BY <1>1 DEF ConfirmItem, ConfirmNukiManagedCreation
  <2>2. /\ row.state \in {"active", "delete_pending"} /\ row.rev = cred[i].rev + 1
        /\ row.remote = l.auth
    BY <1>1, <1>a DEF CreationConfirmable, ClaimCurrent, CredRow
  <2>. HIDE DEF row
  <2>3. RowGood(row, auth) /\ RowAdvances(cred[i], row)
    <3>1. /\ RowGood(cred[i], auth) /\ cred[i].rev \in Nat
          /\ cred[i].state = "create_pending" /\ l.auth # None
      BY <1>1, <1>a, CredentialAssumption
         DEF SafetyInv, RowsGood, CredRow, CreationConfirmable, ClaimCurrent
    <3>. QED  BY <1>a, <2>2, <3>1 DEF RowGood, RowAdvances
  <2>4. RowsGood(cred', auth) /\ CredAdvances(cred, cred')
    BY <2>1, <2>3, RowWritten
  <2>5. CodesGood(code', auth)
    <3>1. \A s \in Stays : code'[s] = code[s] \/ code'[s].ext = l.auth
      BY <1>1, LocalNow DEF ConfirmItem, ConfirmNukiManagedCreation
    <3>. QED  BY <1>a, <3>1 DEF SafetyInv, CodesGood, CodeGood
  <2>. QED  BY <1>a, <2>4, <2>5, AfterKeeps DEF ConfirmItem
<1>2. CASE ~CreationConfirmable(i, l.rev, had)
  BY <1>2, <1>a, RowsUntouched, CodesUntouched, AfterKeeps DEF ConfirmItem
<1>. QED  BY <1>1, <1>2

(* The row still has the identity that the inventory did not contain, and  *)
(* an identity that is gone does not come back.                            *)
LEMMA DeletionItemKeeps ==
  ASSUME SafetyInv, TypeOK', NEW p \in Procs, NEW x \in proc[p].items,
         DeletionItem(p, x) \/ RecordDeletionItem(p, x)
  PROVE  SafetyInv'
<1>. DEFINE l == proc[p]
            r == x.row.remote
            i == x.id
<1>a. /\ l \in Local /\ LocalGood(l, auth, cred) /\ i \in CredIds
      /\ cred[i] \in CredRow /\ x.row.rev \in Nat /\ x.row.rev + 1 \in Nat
      /\ l.kind = "deletions" /\ l.pc \in {"item", "record"}
  BY LocalNow, ItemType DEF SafetyInv, Local, DeletionItem, RecordDeletionItem, Handling, At
<1>b. /\ r # None /\ cred[i].remote = r /\ cred[i].lock = x.row.lock
      /\ (x.row.lock = l.lock /\ ~Listed(l, r)) => Absent(auth, r, x.row.lock)
  BY <1>a DEF LocalGood, DeletionsGood
<1>c. "needs_review" \in OpStates \ {"absent", "deleted"}
      /\ "delete_pending" \in OpStates \ {"absent", "deleted"}
  BY DEF OpStates
<1>1. CASE /\ UpdateNukiManagedOperation(i, "needs_review", x.row.rev + 1, FALSE, FALSE)
           /\ Become(p, After(l, x)) /\ UNCHANGED <<code, auth>>
  <2>1. RowsGood(cred', auth) /\ CredAdvances(cred, cred')
    BY <1>1, <1>a, <1>c, OperationWritten
  <2>. QED  BY <1>1, <1>a, <2>1, CodesUntouched, AfterKeeps
<1>2. CASE /\ x.row.lock = l.lock /\ ~Listed(l, r)
           /\ IF DeletionConfirmable(i, x.row.rev)
              THEN ConfirmNukiManagedDeletion(i, x.row.rev, x.row.link)
              ELSE UNCHANGED <<cred, code>>
           /\ Become(p, After(l, x)) /\ UNCHANGED auth
  <2>1. CASE DeletionConfirmable(i, x.row.rev)
    <3>. DEFINE row == [cred[i] EXCEPT !.state = "deleted", !.rev = x.row.rev + 1,
                                       !.due = TRUE, !.pin = None]
    <3>1. SetCred(i, row)
      BY <1>2, <2>1 DEF ConfirmNukiManagedDeletion
    <3>2. /\ row.state = "deleted" /\ row.rev = cred[i].rev + 1
          /\ row.remote = cred[i].remote /\ row.lock = cred[i].lock
      BY <1>a, <2>1 DEF DeletionConfirmable, CredRow
    <3>. HIDE DEF row
    <3>3. Absent(auth, row.remote, row.lock)
      BY <1>2, <1>b, <3>2
    <3>4. RowGood(row, auth) /\ RowAdvances(cred[i], row)
      <4>1. RowGood(cred[i], auth) /\ cred[i].rev \in Nat /\ cred[i].state = "delete_pending"
        BY <1>a, <2>1 DEF SafetyInv, RowsGood, CredRow, DeletionConfirmable
      <4>. QED  BY <1>b, <3>2, <3>3, <4>1 DEF RowGood, RowAdvances
    <3>5. RowsGood(cred', auth) /\ CredAdvances(cred, cred')
      BY <3>1, <3>4, RowWritten
    <3>6. CodesGood(code', auth)
      <4>1. \A s \in Stays : code'[s].ext = code[s].ext
        <5>1. \A s \in Stays : code[s] \in CodeRow
          BY LocalNow
        <5>2. \/ UNCHANGED code
              \/ code' = [code EXCEPT ![cred[i].stay] = [@ EXCEPT !.status = "revoked", !.pin = None]]
          BY <1>2, <2>1 DEF ConfirmNukiManagedDeletion
        <5>3. \A k \in CodeRow : [k EXCEPT !.status = "revoked", !.pin = None].ext = k.ext
          BY DEF CodeRow
        <5>4. \A s \in Stays :
                \/ code'[s] = code[s]
                \/ code'[s] = [code[s] EXCEPT !.status = "revoked", !.pin = None]
          BY <5>2, LocalNow
        <5>. QED  BY <5>1, <5>3, <5>4
      <4>. QED  BY <4>1 DEF SafetyInv, CodesGood, CodeGood
    <3>. QED  BY <1>2, <1>a, <3>5, <3>6, AfterKeeps
  <2>2. CASE ~DeletionConfirmable(i, x.row.rev)
    BY <1>2, <1>a, <2>2, RowsUntouched, CodesUntouched, AfterKeeps
  <2>. QED  BY <2>1, <2>2
<1>3. CASE /\ \E b \in BOOLEAN : MarkNukiManagedDeletionAttempt(i, x.row.rev, TRUE, b)
           /\ Become(p, After(l, x)) /\ UNCHANGED <<code, auth>>
  <2>1. PICK b \in BOOLEAN :
          UpdateNukiManagedOperation(i, "delete_pending", x.row.rev + 1, TRUE, b)
    BY <1>3 DEF MarkNukiManagedDeletionAttempt
  <2>2. RowsGood(cred', auth) /\ CredAdvances(cred, cred')
    BY <1>a, <1>b, <1>c, <2>1, OperationWritten
  <2>. QED  BY <1>3, <1>a, <2>2, CodesUntouched, AfterKeeps
<1>4. ASSUME NEW a, NEW b \in BOOLEAN, RevokeAccess(r, a),
             Become(p, [l EXCEPT !.pc = "record", !.ok = b]),
             l.pc = "item", UNCHANGED <<cred, code>>
      PROVE  SafetyInv'
  <2>. DEFINE m == [l EXCEPT !.pc = "record", !.ok = b]
  <2>1. /\ m \in Local /\ m.pc = "record" /\ m.code = l.code /\ m.snap = l.snap
        /\ m.items = l.items /\ m.kind = l.kind /\ m.lock = l.lock
    <3>1. "record" \in PCs
      BY DEF PCs
    <3>. HIDE DEF l
    <3>. QED  BY <1>a, <3>1 DEF Local
  <2>2. \A q \in Auths : auth'[q].st = auth[q].st /\ auth'[q].lock = auth[q].lock
    BY <1>4, LocalNow DEF RevokeAccess, AuthRow
  <2>3. Become(p, m)
    BY <1>4
  <2>. HIDE DEF m
  <2>4. LocalGood(m, auth, cred) /\ m.pc \notin Drawing
    <3>1. DeletionsGood(m, auth, cred)
      <4>1. DeletionsGood(l, auth, cred)
        BY <1>a DEF LocalGood
      <4>2. l.pc = "item" /\ \A y : Listed(m, y) <=> Listed(l, y)
        BY <1>4, <2>1 DEF Listed
      <4>. HIDE DEF l
      <4>. QED  BY <2>1, <4>1, <4>2 DEF DeletionsGood
    <3>. QED  BY <1>a, <2>1, <3>1
                 DEF LocalGood, CreatingGood, DeletingGood, MatchingGood, Drawing
  <2>. QED  BY <1>4, <2>1, <2>2, <2>3, <2>4, NotedKeeps
<1>5. CASE RecordDeletionItem(p, x)
  <2>1. l.ok \in BOOLEAN
    BY <1>a DEF Local
  <2>. QED  BY <1>3, <1>5, <2>1 DEF RecordDeletionItem
<1>6. CASE DeletionItem(p, x)
  <2>1. CASE \E a \in DeleteAnswers(r, l.lock) :
               /\ RevokeAccess(r, a)
               /\ Become(p, [l EXCEPT !.pc = "record", !.ok = (a = "accepted")])
               /\ UNCHANGED <<cred, code>>
    <3>. PICK a : /\ RevokeAccess(r, a)
                  /\ Become(p, [l EXCEPT !.pc = "record", !.ok = (a = "accepted")])
                  /\ UNCHANGED <<cred, code>>
      BY <2>1
    <3>1. l.pc = "item" /\ (a = "accepted") \in BOOLEAN
      BY <1>6 DEF DeletionItem, Handling, At
    <3>. QED  BY <1>4, <3>1
  <2>2. CASE ~\E a \in DeleteAnswers(r, l.lock) :
               /\ RevokeAccess(r, a)
               /\ Become(p, [l EXCEPT !.pc = "record", !.ok = (a = "accepted")])
               /\ UNCHANGED <<cred, code>>
    BY <1>1, <1>2, <1>3, <1>6, <2>2 DEF DeletionItem, OtherBinding
  <2>. QED  BY <2>1, <2>2
<1>. QED  BY <1>5, <1>6

LEMMA UpdateItemKeeps ==
  ASSUME SafetyInv, TypeOK', NEW p \in Procs, NEW x \in proc[p].items,
         UpdateItem(p, x) \/ ProjectUpdateItem(p, x)
  PROVE  SafetyInv'
<1>. DEFINE l == proc[p]
            i == x.id
<1>a. /\ l \in Local /\ LocalGood(l, auth, cred) /\ i \in CredIds
      /\ cred[i] \in CredRow /\ x.row.rev \in Nat /\ x.row.rev + 1 \in Nat
      /\ l.kind = "updates"
  BY LocalNow, ItemType DEF SafetyInv, Local, UpdateItem, ProjectUpdateItem, Handling
<1>1. CASE /\ \/ UpdateNukiManagedOperation(i, "needs_review", x.row.rev + 1, FALSE, FALSE)
              \/ UpdateNukiManagedOperation(i, "update_pending", x.row.rev + 1, TRUE, TRUE)
           /\ Become(p, After(l, x)) /\ UNCHANGED <<code, auth>>
  <2>1. {"needs_review", "update_pending"} \subseteq OpStates \ {"absent", "deleted"}
    BY DEF OpStates
  <2>2. RowsGood(cred', auth) /\ CredAdvances(cred, cred')
    BY <1>1, <1>a, <2>1, OperationWritten
  <2>. QED  BY <1>1, <1>a, <2>2, CodesUntouched, AfterKeeps
<1>2. CASE /\ IF UpdateConfirmable(i, x.row.rev)
              THEN ConfirmNukiManagedUpdate(i, x.row.rev) ELSE UNCHANGED cred
           /\ \/ \E s \in Stays : Become(p, [l EXCEPT !.pc = "item_code", !.code = code[s]])
              \/ Become(p, After(l, x))
           /\ UNCHANGED <<code, auth>>
  <2>. DEFINE row == [cred[i] EXCEPT !.state = "active", !.rev = x.row.rev + 1, !.due = TRUE]
  <2>1. RowsGood(cred', auth) /\ CredAdvances(cred, cred')
    <3>1. CASE UpdateConfirmable(i, x.row.rev)
      <4>1. SetCred(i, row)
        BY <1>2, <3>1 DEF ConfirmNukiManagedUpdate
      <4>2. /\ row.state = "active" /\ row.rev = cred[i].rev + 1
            /\ row.remote = cred[i].remote /\ row.lock = cred[i].lock
            /\ cred[i].state = "update_pending"
        BY <1>a, <3>1 DEF UpdateConfirmable, CredRow
      <4>. HIDE DEF row
      <4>. QED  BY <1>a, <4>1, <4>2, RowMoved
    <3>2. CASE ~UpdateConfirmable(i, x.row.rev)
      BY <1>2, <3>2, RowsUntouched
    <3>. QED  BY <3>1, <3>2
  <2>2. CASE Become(p, After(l, x))
    BY <1>2, <1>a, <2>1, <2>2, CodesUntouched, AfterKeeps
  <2>3. CASE \E s \in Stays : Become(p, [l EXCEPT !.pc = "item_code", !.code = code[s]])
    <3>. PICK s \in Stays : Become(p, [l EXCEPT !.pc = "item_code", !.code = code[s]])
      BY <2>3
    <3>. DEFINE m == [l EXCEPT !.pc = "item_code", !.code = code[s]]
    <3>1. /\ m.pc = "item_code" /\ m.code = code[s] /\ m.snap = l.snap
          /\ m.items = l.items /\ m.kind = l.kind
      BY <1>a DEF Local
    <3>2. CodeGood(code[s], auth)
      BY DEF SafetyInv, CodesGood
    <3>3. Become(p, m)
      OBVIOUS
    <3>. HIDE DEF m
    <3>4. LocalGood(m, auth, cred') /\ m.pc \notin Drawing
      BY <1>a, <3>1, <3>2
         DEF LocalGood, CreatingGood, DeletingGood, MatchingGood, DeletionsGood, Drawing
    <3>. QED  BY <1>2, <2>1, <3>3, <3>4, CodesUntouched, LocalStepKeeps
  <2>. QED  BY <1>2, <2>2, <2>3
<1>3. CASE UpdateItem(p, x)
  BY <1>1, <1>2, <1>3 DEF UpdateItem
<1>4. CASE ProjectUpdateItem(p, x)
  <2>1. CodeGood([l.code EXCEPT !.ver = x.row.ver], auth)
    BY <1>a DEF LocalGood, CodeGood, Local, CodeRow
  <2>. QED  BY <1>4, <1>a, <2>1, CodeWritten, RowsUntouched, AfterKeeps DEF ProjectUpdateItem
<1>. QED  BY <1>3, <1>4

LEMMA PassStepKeeps ==
  ASSUME SafetyInv, TypeOK', NEW p \in Procs, PassStep(p)
  PROVE  SafetyInv'
<1>. DEFINE l == proc[p]
<1>a. l \in Local /\ LocalGood(l, auth, cred)
  BY LocalNow
<1>1. CASE StartInlinePass(p)
  <2>. DEFINE m == [l EXCEPT !.pc = "snap", !.lock = lock, !.items = ListDue(l.kind)]
  <2>1. CASE Return(p)
    BY <1>1, <2>1, RowsUntouched, CodesUntouched, ReturnKeeps DEF StartInlinePass, dataVars
  <2>2. CASE Become(p, m)
    <3>1. /\ m.pc = "snap" /\ m.kind = l.kind /\ m.items = ListDue(l.kind)
          /\ m.code = l.code /\ m.snap = l.snap /\ l.kind \in Kinds
      BY <1>a DEF Local
    <3>. HIDE DEF m
    <3>2. LocalGood(m, auth, cred)
      BY <1>a, <3>1, BegunGood DEF LocalGood
    <3>3. m.pc \notin Drawing
      BY <3>1 DEF Drawing
    <3>. QED  BY <1>1, <2>2, <3>2, <3>3, RowsUntouched, CodesUntouched, LocalStepKeeps
                 DEF StartInlinePass, dataVars
  <2>. QED  BY <1>1, <2>1, <2>2 DEF StartInlinePass
<1>2. CASE TakeSnapshot(p)
  <2>. DEFINE m == [l EXCEPT !.pc = "item", !.snap = ListKeypadCodes(l.lock)]
  <2>1. CASE Return(p)
    BY <1>2, <2>1, RowsUntouched, CodesUntouched, ReturnKeeps DEF TakeSnapshot, dataVars
  <2>2. CASE Become(p, m)
    <3>1. LocalGood(m, auth, cred)
      BY <1>2, <1>a, SnapshotGood DEF TakeSnapshot, At
    <3>2. m.pc \notin Drawing
      BY <1>a DEF Local, Drawing
    <3>. HIDE DEF m
    <3>. QED  BY <1>2, <2>2, <3>1, <3>2, RowsUntouched, CodesUntouched, LocalStepKeeps
                 DEF TakeSnapshot, dataVars
  <2>. QED  BY <1>2, <2>1, <2>2 DEF TakeSnapshot
<1>3. ASSUME NEW x \in proc[p].items,
             \/ ClaimItem(p, x) \/ DecideCreation(p, x) \/ ConfirmItem(p, x)
             \/ DeletionItem(p, x) \/ RecordDeletionItem(p, x)
             \/ UpdateItem(p, x) \/ ProjectUpdateItem(p, x)
      PROVE  SafetyInv'
  BY <1>3, ClaimKeeps, DecideKeeps, ConfirmKeeps, DeletionItemKeeps, UpdateItemKeeps
<1>. QED  BY <1>1, <1>2, <1>3 DEF PassStep

LEMMA BeginKeeps ==
  ASSUME SafetyInv, TypeOK', NEW p \in Procs, Begin(p)
  PROVE  SafetyInv'
<1>1. ASSUME NEW s \in Stays, EditStay(p, s) PROVE SafetyInv'
  <2>. DEFINE m == [IdleProc EXCEPT !.pc = "mt_load", !.stay = s]
  <2>1. LocalGood(m, auth, cred) /\ m.pc \notin Drawing
    BY DEF LocalGood, IdleProc, NoCode, CodeGood, CreatingGood, DeletingGood, MatchingGood,
           DeletionsGood, Drawing
  <2>2. Become(p, m) /\ UNCHANGED <<code, cred, auth>>
    BY <1>1 DEF EditStay
  <2>. HIDE DEF m
  <2>. QED  BY <2>1, <2>2, RowsUntouched, CodesUntouched, LocalStepKeeps
<1>2. ASSUME NEW s \in Stays, code[s].ext # None, UNCHANGED dataVars,
             Become(p, [IdleProc EXCEPT !.pc = "del_start", !.stay = s, !.lock = lock,
                                        !.code = code[s]])
      PROVE  SafetyInv'
  <2>. DEFINE m == [IdleProc EXCEPT !.pc = "del_start", !.stay = s, !.lock = lock,
                                    !.code = code[s]]
  <2>1. /\ m.pc = "del_start" /\ m.code = code[s] /\ m.snap = {} /\ m.items = {}
        /\ m.kind = "creations"
    BY DEF IdleProc
  <2>2. CodeGood(code[s], auth)
    BY DEF SafetyInv, CodesGood
  <2>3. Become(p, m) /\ UNCHANGED <<code, cred, auth>>
    BY <1>2 DEF dataVars
  <2>. HIDE DEF m
  <2>4. LocalGood(m, auth, cred) /\ m.pc \notin Drawing
    BY <1>2, <2>1, <2>2
       DEF LocalGood, CreatingGood, DeletingGood, MatchingGood, DeletionsGood, Drawing
  <2>. QED  BY <2>3, <2>4, RowsUntouched, CodesUntouched, LocalStepKeeps
<1>3. ASSUME NEW s \in Stays, RevokeCode(p, s) PROVE SafetyInv'
  BY <1>2, <1>3 DEF RevokeCode
<1>4. ASSUME NEW s \in Stays, CleanupExpiredCodes(p, s) PROVE SafetyInv'
  BY <1>2, <1>4 DEF CleanupExpiredCodes, ListNukiCodesForCleanup
<1>5. ASSUME NEW k \in Kinds, StartPass(p, k) PROVE SafetyInv'
  <2>. DEFINE m == [IdleProc EXCEPT !.pc = "snap", !.kind = k, !.lock = lock,
                                    !.items = ListDue(k)]
  <2>1. /\ m.pc = "snap" /\ m.kind = k /\ m.items = ListDue(k) /\ m.code = NoCode /\ m.snap = {}
    BY DEF IdleProc
  <2>2. Become(p, m) /\ UNCHANGED <<code, cred, auth>>
    BY <1>5 DEF StartPass, dataVars
  <2>. HIDE DEF m
  <2>3. LocalGood(m, auth, cred) /\ m.pc \notin Drawing
    BY <2>1, BegunGood DEF CodeGood, NoCode, Drawing
  <2>. QED  BY <2>2, <2>3, RowsUntouched, CodesUntouched, LocalStepKeeps
<1>6. ASSUME NEW s \in Stays, RefuseLongName(p, s) PROVE SafetyInv'
  <2>. DEFINE m == [IdleProc EXCEPT !.pc = "gen_fail_project", !.stay = s, !.ver = stay[s].ver]
  <2>1. LocalGood(m, auth, cred) /\ m.pc \notin Drawing
    BY DEF LocalGood, IdleProc, NoCode, CodeGood, CreatingGood, DeletingGood, MatchingGood,
           DeletionsGood, Drawing
  <2>2. Become(p, m) /\ UNCHANGED <<code, cred, auth>>
    BY <1>6 DEF RefuseLongName, dataVars
  <2>. HIDE DEF m
  <2>. QED  BY <2>1, <2>2, RowsUntouched, CodesUntouched, LocalStepKeeps
<1>. QED  BY <1>1, <1>3, <1>4, <1>5, <1>6, GenerateKeeps DEF Begin

LEMMA EnvironmentStepKeeps ==
  ASSUME SafetyInv, TypeOK', Environment
  PROVE  SafetyInv'
<1>a. /\ auth \in [Auths -> AuthRow] /\ cred \in [CredIds -> CredRow]
      /\ code \in [Stays -> CodeRow]
  BY Parts DEF SafetyInv, AuthOK, CredOK, CodeOK
<1>1. ASSUME UNCHANGED <<code, cred, auth, proc>> PROVE SafetyInv'
  BY <1>1, <1>a, NothingAdvances, EnvironmentKeeps DEF SafetyInv
<1>2. ASSUME NEW s \in Stays, UpdateFinanceMatchedStayName(s) \/ Expire(s) PROVE SafetyInv'
  BY <1>1, <1>2 DEF UpdateFinanceMatchedStayName, Expire
<1>3. ASSUME NEW k \in Locks, Rebind(k) PROVE SafetyInv'
  BY <1>1, <1>3 DEF Rebind
<1>4. ASSUME NEW i \in CredIds, RetryDue(i) PROVE SafetyInv'
  <2>. DEFINE row == [cred[i] EXCEPT !.due = TRUE]
  <2>1. /\ row.state = cred[i].state /\ row.rev = cred[i].rev
        /\ row.remote = cred[i].remote /\ row.lock = cred[i].lock /\ cred[i].rev \in Nat
    BY <1>4, <1>a DEF CredRow
  <2>2. SetCred(i, row) /\ UNCHANGED <<code, auth, proc>>
    BY <1>4 DEF RetryDue
  <2>. HIDE DEF row
  <2>3. RowGood(row, auth) /\ RowAdvances(cred[i], row)
    <3>1. RowGood(cred[i], auth)
      BY <1>4 DEF SafetyInv, RowsGood
    <3>. QED  BY <2>1, <3>1 DEF RowGood, RowAdvances
  <2>4. RowsGood(cred', auth) /\ CredAdvances(cred, cred')
    BY <2>2, <2>3, RowWritten
  <2>. QED  BY <2>2, <2>4, NothingAdvances, EnvironmentKeeps DEF SafetyInv
<1>5. ASSUME NEW r \in Auths, ApplyCreate(r) \/ ApplyUpdate(r) \/ ApplyDelete(r)
      PROVE  SafetyInv'
  <2>1. /\ \A q \in Auths \ {r} : auth'[q] = auth[q]
        /\ auth[r].st \in {"sent", "present"} /\ auth'[r].lock = auth[r].lock
        /\ auth[r].st = "present" => auth'[r].st \in {"present", "gone"}
    BY <1>5, <1>a DEF ApplyCreate, ApplyUpdate, ApplyDelete, AuthRow
  <2>2. AuthAdvances(auth, auth')
    BY <2>1 DEF AuthAdvances, Materialised
  <2>3. UNCHANGED <<code, cred, proc>>
    BY <1>5 DEF ApplyCreate, ApplyUpdate, ApplyDelete
  <2>4. RowsGood(cred', auth') /\ CodesGood(code', auth') /\ CredAdvances(cred, cred')
    BY <1>a, <2>2, <2>3, NothingAdvances, RowsStable, CodesStable DEF SafetyInv
  <2>5. PinsGood(proc, auth')
    BY <2>1 DEF SafetyInv, PinsGood
  <2>. QED  BY <2>2, <2>3, <2>4, <2>5, EnvironmentKeeps
<1>. QED  BY <1>2, <1>3, <1>4, <1>5 DEF Environment, ProviderStep

-----------------------------------------------------------------------------
LEMMA SafetyInit == Init => SafetyInv
<1>. SUFFICES ASSUME Init PROVE SafetyInv
  OBVIOUS
<1>1. RowsGood(cred, auth)
  BY DEF Init, DataInit, RowsGood, RowGood, AbsentRow
<1>2. CodesGood(code, auth)
  BY DEF Init, DataInit, CodesGood, CodeGood, NoCode
<1>3. \A p \in Procs : LocalGood(proc[p], auth, cred)
  BY IdleGood DEF Init
<1>4. PinsGood(proc, auth)
  BY DEF Init, PinsGood, IdleProc, Drawing
<1>. QED  BY <1>1, <1>2, <1>3, <1>4, TypeInit DEF SafetyInv

LEMMA SafetyNext == SafetyInv /\ [Next]_vars => SafetyInv'
<1>. SUFFICES ASSUME SafetyInv, [Next]_vars PROVE SafetyInv'
  OBVIOUS
<1>1. TypeOK'
  BY TypeNext DEF SafetyInv
<1>2. ASSUME NEW p \in Procs, Abort(p) PROVE SafetyInv'
  BY <1>1, <1>2, RowsUntouched, CodesUntouched, ReturnKeeps DEF Abort, dataVars
<1>3. ASSUME NEW p \in Procs, Step(p) PROVE SafetyInv'
  BY <1>1, <1>3, GenerateStepKeeps, MaintainStepKeeps, DeleteStepKeeps, PassStepKeeps DEF Step
<1>4. CASE UNCHANGED vars
  BY <1>1, <1>4, NothingAdvances, Parts, EnvironmentKeeps
     DEF SafetyInv, CredOK, vars, dataVars
<1>. QED  BY <1>1, <1>2, <1>3, <1>4, BeginKeeps, EnvironmentStepKeeps DEF Next

(* Whatever requests, passes, aborts, restarts and rebindings interleave,  *)
(* a row in state "deleted" names an authorization that is not on its      *)
(* lock: the inventory that a pass read may be old when the row is         *)
(* confirmed, but the row cannot have got another identity since, and an   *)
(* authorization that was gone does not come back.                         *)
THEOREM DeletionsAreReal == Spec => []DeletedIsGone
<1>1. SafetyInv => DeletedIsGone
  BY DEF SafetyInv, RowsGood, RowGood, DeletedIsGone, Absent, Reachable
<1>. QED  BY <1>1, SafetyInit, SafetyNext, PTL DEF Spec

(* The identity in a row is one the provider has shown: it is never taken  *)
(* from the answer of a creation, nor from a row somebody else wrote.      *)
THEOREM IdentitiesAreObserved == Spec => []IdentityIsObserved
<1>1. SafetyInv => IdentityIsObserved
  BY DEF SafetyInv, RowsGood, RowGood, IdentityIsObserved, Materialised
<1>. QED  BY <1>1, SafetyInit, SafetyNext, PTL DEF Spec

-----------------------------------------------------------------------------
(***************************************************************************)
(* The refinement of ManagedCredential.  SafetyInv says what the stale     *)
(* copies of a goroutine are good for; the abstract lifecycle needs two    *)
(* facts more: a row that still has the revision somebody read has the     *)
(* state he read, so that a write guarded by the revision alone is a move  *)
(* from that state; and an inventory lists the lock that the row is on, so *)
(* that the identity that is bound is one that was shown.                  *)
(***************************************************************************)
Reconciling == {"item", "decide", "confirm", "record", "item_code"}
Updating == {"upd_call", "upd_list", "upd_unconfirmed", "upd_error", "upd_error_op"}

(* The row has been written since it had revision rev, or is in that state. *)
Unmoved(state, rev, row) == row.rev >= rev /\ (row.rev = rev => row.state = state)

ItemTracked(l, x, a, c) ==
  /\ x.row.state = PendingState[l.kind]
  /\ c[x.id].state # "absent" /\ c[x.id].lock = x.row.lock
  /\ Unmoved(x.row.state, x.row.rev, c[x.id])
  /\ NextItem(l, x) =>
       /\ l.pc \in {"decide", "confirm"} => Unmoved("create_pending", l.rev, c[x.id])
       /\ l.pc = "confirm" => a[l.auth].lock = x.row.lock

LocalTracked(l, a, c) ==
  /\ l.pc \in Drawing \cup {"del_start"} => l.lock \in Locks
  /\ l.pc \notin Reconciling => l.snap = {}
  /\ \A o \in l.snap : a[o.id].lock = l.lock
  /\ \A x \in l.items : ItemTracked(l, x, a, c)
  /\ l.pc \in Updating => l.id \in CredIds /\ Unmoved("update_pending", l.rev, c[l.id])

Located(a) == \A r \in Auths : a[r].st \in {"sent", "present", "gone"} => a[r].lock \in Locks

(* A row is inserted with revision 1, and every other write raises it. *)
Started(row) == row.rev = 1 => row.state \in {"create_pending", "delete_pending"}

TrackInv ==
  /\ SafetyInv
  /\ \A i \in CredIds : Started(cred[i])
  /\ Located(auth)
  /\ \A p \in Procs : LocalTracked(proc[p], auth, cred)

(* One write of a row: what readers of the row may rely on, ... *)
RowKept(old, new) ==
  /\ Started(new)
  /\ new.rev >= old.rev /\ (new.rev = old.rev => new.state = old.state)
  /\ old.state # "absent" => new.state # "absent" /\ new.lock = old.lock

(* ... and which step of the lifecycle it is, if any. *)
Moves == {<<"absent", "create_pending">>, <<"active", "update_pending">>,
          <<"update_pending", "active">>, <<"create_pending", "needs_review">>,
          <<"update_pending", "needs_review">>, <<"delete_pending", "needs_review">>}

Deletable == {"active", "update_pending", "needs_review", "deleted"}

RowMoves(old, new, a) ==
  \/ /\ new.remote = old.remote
     /\ \/ new.state = old.state
        \/ <<old.state, new.state>> \in Moves
        \/ /\ old.state \in Deletable /\ new.state = "delete_pending" /\ old.remote # None
        \/ /\ old.state = "delete_pending" /\ new.state = "deleted"
           /\ Absent(a, old.remote, old.lock)
  \/ /\ old.state = "create_pending" /\ new.state \in {"active", "delete_pending"}
     /\ new.remote \in Auths /\ Materialised(a, new.remote)
     /\ a[new.remote].lock = new.lock
  \/ /\ old.state = "absent" /\ new.state = "delete_pending"
     /\ new.remote \in Auths /\ new.lock \in Locks

RowWrites(c, d, a) ==
  \/ d = c
  \/ \E i \in CredIds, new \in CredRow :
       d = [c EXCEPT ![i] = new] /\ RowKept(c[i], new) /\ RowMoves(c[i], new, a)

(* The provider's inventory does not change. *)
AuthCalm(a, b) ==
  \A r \in Auths :
    /\ Materialised(b, r) <=> Materialised(a, r)
    /\ b[r].st = "present" <=> a[r].st = "present"
    /\ Materialised(a, r) => b[r].lock = a[r].lock

-----------------------------------------------------------------------------
ManagedState == [i \in CredIds |-> cred[i].state]

LEMMA InventoryCalm ==
  ASSUME AuthCalm(auth, auth')
  PROVE  ManagedShown' = ManagedShown /\ ManagedListed' = ManagedListed
<1>1. ManagedShown' = ManagedShown
  BY DEF AuthCalm, ManagedShown, Materialised, Identity
<1>2. ManagedListed' = ManagedListed
  BY DEF AuthCalm, ManagedListed, Materialised, Identity
<1>. QED  BY <1>1, <1>2

(* A write of a row that is one move of the lifecycle is one step of it. *)
LEMMA RowStepMaps ==
  ASSUME TrackInv, NEW i \in CredIds, NEW new \in CredRow, cred' = [cred EXCEPT ![i] = new],
         RowKept(cred[i], new), RowMoves(cred[i], new, auth), AuthCalm(auth, auth')
  PROVE  [Managed!Next]_(Managed!vars)
<1>. DEFINE old == cred[i]
            same == IF new.remote = None THEN None ELSE Identity(new.lock, new.remote)
<1>1. cred \in [CredIds -> CredRow] /\ old \in CredRow /\ RowGood(old, auth)
  BY Parts DEF TrackInv, SafetyInv, CredOK, RowsGood
<1>2. ManagedState' = [ManagedState EXCEPT ![i] = new.state] /\ ManagedState[i] = old.state
  BY <1>1 DEF ManagedState
<1>3. ManagedBound' = [ManagedBound EXCEPT ![i] = same]
  BY <1>1 DEF ManagedBound, Identity
<1>4. ManagedBound[i] = IF old.remote = None THEN None ELSE Identity(old.lock, old.remote)
  BY DEF ManagedBound
<1>5. ManagedShown' = ManagedShown /\ ManagedListed' = ManagedListed
  BY InventoryCalm
<1>6. Managed!Provider
  BY <1>5 DEF Managed!Provider
<1>7. ASSUME NEW from, old.state \in from PROVE Managed!Move(i, from, new.state)
  BY <1>2, <1>7 DEF Managed!Move, ManagedState
<1>8. ASSUME NEW l \in Locks \cup {None}, NEW r \in Auths PROVE Identity(l, r) # None
  BY LifecycleAssumption DEF Identity
<1>9. ASSUME new.remote = old.remote, old.state # "absent" \/ old.remote = None
      PROVE  ManagedBound' = ManagedBound
  <2>1. same = ManagedBound[i]
    BY <1>1, <1>4, <1>9 DEF RowKept, RowGood
  <2>. QED  BY <1>3, <2>1 DEF ManagedBound
<1>10. CASE new.remote = old.remote
  <2>1. ManagedBound' = ManagedBound
    BY <1>1, <1>9, <1>10 DEF RowGood
  <2>2. CASE new.state = old.state
    <3>1. ManagedState' = ManagedState
      BY <1>2, <2>2 DEF ManagedState
    <3>. QED  BY <1>5, <2>1, <3>1 DEF Managed!vars, ManagedState
  <2>3. CASE <<old.state, new.state>> \in Moves
    <3>1. \/ Managed!Intend(i) \/ Managed!StartUpdate(i) \/ Managed!EndUpdate(i)
          \/ Managed!Suspend(i)
      BY <1>6, <1>7, <2>1, <2>3
         DEF Moves, Managed!Intend, Managed!StartUpdate, Managed!EndUpdate, Managed!Suspend
    <3>. QED  BY <3>1 DEF Managed!Next
  <2>4. CASE old.state \in Deletable /\ new.state = "delete_pending" /\ old.remote # None
    <3>1. ManagedBound[i] # None
      BY <1>1, <1>4, <1>8, <2>4 DEF CredRow
    <3>2. Managed!StartDeletion(i)
      BY <1>6, <1>7, <2>1, <2>4, <3>1 DEF Deletable, Managed!StartDeletion
    <3>. QED  BY <3>2 DEF Managed!Next
  <2>5. CASE /\ old.state = "delete_pending" /\ new.state = "deleted"
             /\ Absent(auth, old.remote, old.lock)
    <3>1. old.remote # None
      BY <1>1, <2>5 DEF RowGood
    <3>2. ManagedBound[i] = Identity(old.lock, old.remote)
      BY <1>4, <3>1
    <3>3. ManagedBound[i] \notin ManagedListed
      BY <2>5, <3>2 DEF Absent, ManagedListed, Identity
    <3>4. Managed!ConfirmDeletion(i)
      <4>1. ManagedBound[i] # None
        BY <1>1, <1>8, <3>1, <3>2 DEF CredRow
      <4>. QED  BY <1>6, <1>7, <2>1, <2>5, <3>3, <4>1 DEF Managed!ConfirmDeletion
    <3>. QED  BY <3>4 DEF Managed!Next
  <2>. QED
    <3>1. old.state = "create_pending" => old.remote = None
      BY <1>1 DEF RowGood
    <3>2. old.state = "absent" => old.remote = None
      BY <1>1 DEF RowGood
    <3>. QED  BY <1>10, <2>2, <2>3, <2>4, <2>5, <3>1, <3>2, CredentialAssumption DEF RowMoves
<1>11. CASE /\ old.state = "create_pending" /\ new.state \in {"active", "delete_pending"}
            /\ new.remote \in Auths /\ Materialised(auth, new.remote)
            /\ auth[new.remote].lock = new.lock
  <2>1. same = Identity(auth[new.remote].lock, new.remote) /\ same \in ManagedShown
    BY <1>11, CredentialAssumption DEF ManagedShown, Materialised
  <2>2. Managed!Bind(i, same)
    BY <1>3 DEF Managed!Bind
  <2>3. Managed!Resolve(i)
    BY <1>6, <1>7, <1>11, <2>1, <2>2 DEF Managed!Resolve
  <2>. QED  BY <2>3 DEF Managed!Next
<1>12. CASE /\ old.state = "absent" /\ new.state = "delete_pending"
            /\ new.remote \in Auths /\ new.lock \in Locks
  <2>1. same \in Locks \X Auths
    BY <1>12, CredentialAssumption DEF Identity
  <2>2. Managed!Bind(i, same)
    BY <1>3 DEF Managed!Bind
  <2>3. Managed!AdoptDeletion(i, same)
    BY <1>6, <1>7, <1>12, <2>2 DEF Managed!AdoptDeletion
  <2>. QED  BY <2>1, <2>3 DEF Managed!Next
<1>. QED  BY <1>10, <1>11, <1>12 DEF RowMoves

-----------------------------------------------------------------------------
LEMMA RowUnkept == ASSUME NEW row \in CredRow, Started(row) PROVE RowKept(row, row)
BY DEF RowKept, CredRow

LEMMA UnmovedStable ==
  ASSUME NEW old \in CredRow, NEW new \in CredRow, RowKept(old, new), NEW state, NEW rev \in Nat,
         Unmoved(state, rev, old)
  PROVE  Unmoved(state, rev, new)
BY DEF RowKept, Unmoved, CredRow

(* What a goroutine holds survives the writes of the others. *)
LEMMA LocalTrackedStable ==
  ASSUME NEW l \in Local, NEW a, NEW b,
         \A r \in Auths : Materialised(a, r) => b[r].lock = a[r].lock,
         NEW c \in [CredIds -> CredRow], NEW d \in [CredIds -> CredRow],
         \A i \in CredIds : RowKept(c[i], d[i]),
         LocalGood(l, a, c), LocalTracked(l, a, c)
  PROVE  LocalTracked(l, b, d)
<1>1. \A o \in l.snap : b[o.id].lock = l.lock
  BY DEF LocalTracked, LocalGood, Local, Seen
<1>2. ASSUME NEW x \in l.items PROVE ItemTracked(l, x, b, d)
  <2>1. /\ x.id \in CredIds /\ x.row \in CredRow /\ x.row.rev \in Nat /\ l.rev \in Nat
        /\ ItemTracked(l, x, a, c)
    BY <1>2 DEF Local, Item, LocalTracked, CredRow
  <2>2. c[x.id] \in CredRow /\ d[x.id] \in CredRow /\ RowKept(c[x.id], d[x.id])
    BY <2>1
  <2>3. d[x.id].state # "absent" /\ d[x.id].lock = x.row.lock
    BY <2>1, <2>2 DEF ItemTracked, RowKept
  <2>4. Unmoved(x.row.state, x.row.rev, d[x.id])
    BY <2>1, <2>2, UnmovedStable DEF ItemTracked
  <2>5. ASSUME NextItem(l, x), l.pc \in {"decide", "confirm"}
        PROVE  Unmoved("create_pending", l.rev, d[x.id])
    BY <2>1, <2>2, <2>5, UnmovedStable DEF ItemTracked
  <2>6. ASSUME NextItem(l, x), l.pc = "confirm" PROVE b[l.auth].lock = x.row.lock
    <3>1. l.auth \in Auths /\ Materialised(a, l.auth)
      BY <2>6 DEF LocalGood, MatchingGood
    <3>. QED  BY <2>1, <2>6, <3>1 DEF ItemTracked
  <2>. QED  BY <2>1, <2>3, <2>4, <2>5, <2>6 DEF ItemTracked
<1>3. ASSUME l.pc \in Updating PROVE l.id \in CredIds /\ Unmoved("update_pending", l.rev, d[l.id])
  <2>1. l.id \in CredIds /\ l.rev \in Nat /\ Unmoved("update_pending", l.rev, c[l.id])
    BY <1>3 DEF LocalTracked, Local
  <2>2. c[l.id] \in CredRow /\ d[l.id] \in CredRow /\ RowKept(c[l.id], d[l.id])
    BY <2>1
  <2>. QED  BY <2>1, <2>2, UnmovedStable
<1>. QED  BY <1>1, <1>2, <1>3 DEF LocalTracked

LEMMA WritesKeep ==
  ASSUME TrackInv, SafetyInv', NEW a, RowWrites(cred, cred', a)
  PROVE  /\ \A i \in CredIds : RowKept(cred[i], cred'[i])
         /\ \A i \in CredIds : Started(cred'[i])
<1>1. cred \in [CredIds -> CredRow]
  BY Parts DEF TrackInv, SafetyInv, CredOK
<1>2. \A i \in CredIds : RowKept(cred[i], cred[i])
  BY <1>1, RowUnkept DEF TrackInv
<1>3. \A i \in CredIds : RowKept(cred[i], cred'[i])
  BY <1>1, <1>2 DEF RowWrites
<1>. QED  BY <1>3 DEF RowKept

LEMMA TrackKept ==
  ASSUME TrackInv, SafetyInv', Located(auth'), NEW a, RowWrites(cred, cred', a),
         \A q \in Procs : proc'[q] = proc[q] \/ LocalTracked(proc'[q], auth', cred'),
         \A r \in Auths : Materialised(auth, r) => auth'[r].lock = auth[r].lock
  PROVE  TrackInv'
<1>1. /\ cred \in [CredIds -> CredRow] /\ cred' \in [CredIds -> CredRow]
      /\ proc \in [Procs -> Local]
  BY Parts DEF TrackInv, SafetyInv, CredOK, ProcOK
<1>2. /\ \A i \in CredIds : RowKept(cred[i], cred'[i])
      /\ \A i \in CredIds : Started(cred'[i])
  BY WritesKeep
<1>3. ASSUME NEW q \in Procs PROVE LocalTracked(proc'[q], auth', cred')
  <2>1. CASE proc'[q] = proc[q]
    <3>1. proc[q] \in Local /\ LocalGood(proc[q], auth, cred) /\ LocalTracked(proc[q], auth, cred)
      BY <1>1 DEF TrackInv, SafetyInv
    <3>. QED  BY <1>1, <1>2, <2>1, <3>1, LocalTrackedStable
  <2>. QED  BY <2>1
<1>. QED  BY <1>2, <1>3 DEF TrackInv

LEMMA WritesMap ==
  ASSUME TrackInv, RowWrites(cred, cred', auth), AuthCalm(auth, auth')
  PROVE  [Managed!Next]_(Managed!vars)
<1>1. CASE cred' = cred
  <2>1. ManagedShown' = ManagedShown /\ ManagedListed' = ManagedListed
    BY InventoryCalm
  <2>. QED  BY <1>1, <2>1 DEF Managed!vars, ManagedBound
<1>2. ASSUME NEW i \in CredIds, NEW new \in CredRow,
             cred' = [cred EXCEPT ![i] = new], RowKept(cred[i], new), RowMoves(cred[i], new, auth)
      PROVE  [Managed!Next]_(Managed!vars)
  BY <1>2, RowStepMaps
<1>. QED  BY <1>1, <1>2 DEF RowWrites

(* A step of one goroutine: at most one move of one row. *)
Tracked(p) ==
  /\ \E m : Become(p, m) /\ LocalTracked(m, auth', cred')
  /\ RowWrites(cred, cred', auth)
  /\ AuthCalm(auth, auth') /\ Located(auth')

LEMMA TrackedStep ==
  ASSUME TrackInv, SafetyInv', NEW p \in Procs, Tracked(p)
  PROVE  TrackInv' /\ [Managed!Next]_(Managed!vars)
<1>1. \A q \in Procs : proc'[q] = proc[q] \/ LocalTracked(proc'[q], auth', cred')
  BY Parts DEF Tracked, Become, TrackInv, SafetyInv, ProcOK
<1>2. \A r \in Auths : Materialised(auth, r) => auth'[r].lock = auth[r].lock
  BY DEF Tracked, AuthCalm
<1>. QED  BY <1>1, <1>2, TrackKept, WritesMap DEF Tracked

-----------------------------------------------------------------------------
(* Writes of one row. *)
LEMMA CalmSame == AuthCalm(auth, auth)
BY DEF AuthCalm

LEMMA RowTracked ==
  ASSUME TrackInv, TypeOK', NEW i, NEW new, SetCred(i, new),
         i \in CredIds => RowKept(cred[i], new) /\ RowMoves(cred[i], new, auth)
  PROVE  RowWrites(cred, cred', auth)
<1>1. cred \in [CredIds -> CredRow] /\ cred' \in [CredIds -> CredRow]
  BY Parts DEF TrackInv, SafetyInv, CredOK
<1>2. CASE i \in CredIds
  <2>1. new = cred'[i]
    BY <1>1, <1>2 DEF SetCred
  <2>2. new \in CredRow
    BY <1>1, <1>2, <2>1
  <2>. QED  BY <1>2, <2>2 DEF SetCred, RowWrites
<1>3. CASE i \notin CredIds
  BY <1>1, <1>3 DEF SetCred, RowWrites
<1>. QED  BY <1>2, <1>3

(* A row keeps its identity and lock, and its revision rises. *)
LEMMA RowRaised ==
  ASSUME TrackInv, TypeOK', NEW i \in CredIds, NEW new, SetCred(i, new),
         new.rev \in Nat, new.rev > cred[i].rev, cred[i].state # "absent", new.state # "absent",
         new.remote = cred[i].remote, new.lock = cred[i].lock, RowMoves(cred[i], new, auth)
  PROVE  RowWrites(cred, cred', auth)
<1>1. cred[i] \in CredRow /\ RowGood(cred[i], auth)
  BY Parts DEF TrackInv, SafetyInv, CredOK, RowsGood
<1>2. RowKept(cred[i], new)
  BY <1>1 DEF RowKept, Started, RowGood, CredRow
<1>. QED  BY <1>2, RowTracked

(* A compare-and-set on the operation state. *)
LEMMA OperationTracked ==
  ASSUME TrackInv, TypeOK', NEW i, NEW s \in OpStates \ {"absent", "deleted"}, NEW rev \in Nat,
         NEW later, NEW accepted, UpdateNukiManagedOperation(i, s, rev, later, accepted),
         (i \in CredIds /\ OperationCurrent(i, rev)) =>
            \/ cred[i].state = s
            \/ <<cred[i].state, s>> \in Moves
            \/ s = "delete_pending" /\ cred[i].remote # None
  PROVE  RowWrites(cred, cred', auth)
<1>1. CASE i \in CredIds /\ OperationCurrent(i, rev)
  <2>. DEFINE new == [cred[i] EXCEPT !.state = s, !.rev = rev, !.due = ~later,
                                     !.acc = @ \/ accepted]
  <2>1. cred[i] \in CredRow /\ RowGood(cred[i], auth)
    BY <1>1, Parts DEF TrackInv, SafetyInv, CredOK, RowsGood
  <2>2. /\ new.state = s /\ new.rev = rev /\ new.remote = cred[i].remote
        /\ new.lock = cred[i].lock
    BY <2>1 DEF CredRow
  <2>3. SetCred(i, new)
    BY <1>1 DEF UpdateNukiManagedOperation
  <2>. HIDE DEF new
  <2>4. cred[i].state # "absent" /\ new.rev > cred[i].rev
    BY <1>1, <2>1, <2>2 DEF OperationCurrent, CredRow
  <2>5. s = "delete_pending" /\ cred[i].remote # None
          => cred[i].state = s \/ cred[i].state \in Deletable
    BY <2>1, <2>4 DEF RowGood, CredRow, OpStates, Deletable
  <2>6. RowMoves(cred[i], new, auth)
    BY <1>1, <2>2, <2>5 DEF RowMoves
  <2>7. new.state # "absent"
    BY <2>2
  <2>. QED  BY <1>1, <2>2, <2>3, <2>4, <2>6, <2>7, RowRaised
<1>2. CASE i \notin CredIds /\ OperationCurrent(i, rev)
  <2>1. cred \in [CredIds -> CredRow]
    BY Parts DEF TrackInv, SafetyInv, CredOK
  <2>. QED  BY <1>2, <2>1 DEF UpdateNukiManagedOperation, SetCred, RowWrites
<1>3. CASE ~OperationCurrent(i, rev)
  BY <1>3 DEF UpdateNukiManagedOperation, RowWrites
<1>. QED  BY <1>1, <1>2, <1>3

(* Columns that are no part of the lifecycle. *)
LEMMA RowAside ==
  ASSUME TrackInv, TypeOK', NEW i, NEW new, SetCred(i, new),
         i \in CredIds => /\ new.state = cred[i].state /\ new.rev = cred[i].rev
                          /\ new.remote = cred[i].remote /\ new.lock = cred[i].lock
  PROVE  RowWrites(cred, cred', auth)
<1>1. ASSUME i \in CredIds PROVE cred[i] \in CredRow /\ Started(cred[i])
  BY <1>1, Parts DEF TrackInv, SafetyInv, CredOK
<1>2. i \in CredIds => RowKept(cred[i], new) /\ RowMoves(cred[i], new, auth)
  BY <1>1 DEF RowKept, RowMoves, Started, CredRow
<1>. QED  BY <1>2, RowTracked

-----------------------------------------------------------------------------
(* The environment. *)
LEMMA CreateApplied ==
  ASSUME TrackInv, SafetyInv', NEW r \in Auths, ApplyCreate(r)
  PROVE  TrackInv' /\ [Managed!Next]_(Managed!vars)
<1>1. /\ auth[r].st = "sent" /\ auth \in [Auths -> AuthRow]
      /\ UNCHANGED <<cred, proc>>
  BY Parts DEF ApplyCreate, TrackInv, SafetyInv, AuthOK
<1>2. PICK st \in {"present", "dropped"} : auth' = [auth EXCEPT ![r].st = st]
  BY DEF ApplyCreate
<1>3. \A q \in Auths : /\ auth'[q].lock = auth[q].lock
                       /\ auth'[q].st = IF q = r THEN st ELSE auth[q].st
  BY <1>1, <1>2 DEF AuthRow
<1>4. Located(auth')
  BY <1>1, <1>3 DEF TrackInv, Located
<1>5. TrackInv'
  BY <1>1, <1>3, <1>4, TrackKept DEF RowWrites
<1>6. ManagedBound' = ManagedBound /\ ManagedState' = ManagedState
  BY <1>1 DEF ManagedBound, ManagedState
<1>7. [Managed!Next]_(Managed!vars)
  <2>1. CASE st = "dropped"
    <3>1. AuthCalm(auth, auth')
      BY <1>1, <1>3, <2>1 DEF AuthCalm, Materialised
    <3>. QED  BY <1>1, <3>1, WritesMap DEF RowWrites
  <2>2. CASE st = "present"
    <3>. DEFINE x == Identity(auth[r].lock, r)
    <3>1. x \notin ManagedShown
      BY <1>1 DEF ManagedShown, Identity
    <3>2. {q \in Auths : auth'[q].st = "present"} = {q \in Auths : auth[q].st = "present"} \cup {r}
      BY <1>3, <2>2
    <3>3. {q \in Auths : auth'[q].st \in {"present", "gone"}}
            = {q \in Auths : auth[q].st \in {"present", "gone"}} \cup {r}
      BY <1>3, <2>2
    <3>4. ManagedListed' = ManagedListed \cup {x}
      BY <1>3, <3>2 DEF ManagedListed
    <3>5. ManagedShown' = ManagedShown \cup {x}
      BY <1>3, <3>3 DEF ManagedShown
    <3>6. x \in Locks \X Auths
      BY <1>1 DEF TrackInv, Located, Identity
    <3>7. Managed!Appear(x)
      BY <1>6, <3>1, <3>4, <3>5 DEF Managed!Appear, ManagedState
    <3>. QED  BY <3>6, <3>7 DEF Managed!Next
  <2>. QED  BY <2>1, <2>2
<1>. QED  BY <1>5, <1>7

LEMMA DeleteApplied ==
  ASSUME TrackInv, SafetyInv', NEW r \in Auths, ApplyDelete(r)
  PROVE  TrackInv' /\ [Managed!Next]_(Managed!vars)
<1>1. /\ auth[r].st = "present" /\ auth \in [Auths -> AuthRow]
      /\ UNCHANGED <<cred, proc>>
  BY Parts DEF ApplyDelete, TrackInv, SafetyInv, AuthOK
<1>2. \A q \in Auths : /\ auth'[q].lock = auth[q].lock
                       /\ auth'[q].st = IF q = r THEN "gone" ELSE auth[q].st
  BY <1>1 DEF AuthRow, ApplyDelete
<1>3. Located(auth')
  BY <1>1, <1>2 DEF TrackInv, Located
<1>4. TrackInv'
  BY <1>1, <1>2, <1>3, TrackKept DEF RowWrites
<1>5. ManagedBound' = ManagedBound /\ ManagedState' = ManagedState
  BY <1>1 DEF ManagedBound, ManagedState
<1>. DEFINE x == Identity(auth[r].lock, r)
<1>6. x \in ManagedListed /\ x \in Locks \X Auths
  BY <1>1 DEF TrackInv, Located, ManagedListed, Identity
<1>7. ManagedShown' = ManagedShown
  <2>1. {q \in Auths : auth'[q].st \in {"present", "gone"}}
          = {q \in Auths : auth[q].st \in {"present", "gone"}}
    BY <1>1, <1>2
  <2>. QED  BY <1>2, <2>1 DEF ManagedShown
<1>8. ManagedListed' = ManagedListed \ {x}
  <2>1. {q \in Auths : auth'[q].st = "present"} = {q \in Auths : auth[q].st = "present"} \ {r}
    BY <1>2
  <2>. QED  BY <1>2, <2>1 DEF ManagedListed, Identity
<1>9. Managed!Vanish(x)
  BY <1>5, <1>6, <1>7, <1>8 DEF Managed!Vanish, ManagedState
<1>. QED  BY <1>4, <1>6, <1>9 DEF Managed!Next

LEMMA EnvironmentTracked ==
  ASSUME TrackInv, SafetyInv', TypeOK', Environment
  PROVE  TrackInv' /\ [Managed!Next]_(Managed!vars)
<1>1. ASSUME RowWrites(cred, cred', auth), AuthCalm(auth, auth'), Located(auth'), UNCHANGED proc
      PROVE  TrackInv' /\ [Managed!Next]_(Managed!vars)
  BY <1>1, TrackKept, WritesMap DEF AuthCalm
<1>2. CASE UNCHANGED <<cred, auth, proc>>
  BY <1>1, <1>2, CalmSame DEF RowWrites, TrackInv
<1>3. ASSUME NEW i \in CredIds, RetryDue(i) PROVE TrackInv' /\ [Managed!Next]_(Managed!vars)
  <2>1. cred[i] \in CredRow
    BY RowType DEF TrackInv, SafetyInv
  <2>2. RowWrites(cred, cred', auth)
    BY <1>3, <2>1, RowAside DEF RetryDue, CredRow
  <2>. QED  BY <1>1, <1>3, <2>2, CalmSame DEF RetryDue, TrackInv
<1>4. ASSUME NEW r \in Auths, ApplyUpdate(r) PROVE TrackInv' /\ [Managed!Next]_(Managed!vars)
  <2>1. \A q \in Auths : auth'[q].st = auth[q].st /\ auth'[q].lock = auth[q].lock
    BY <1>4, Parts DEF ApplyUpdate, TrackInv, SafetyInv, AuthOK, AuthRow
  <2>2. AuthCalm(auth, auth') /\ Located(auth')
    BY <2>1 DEF AuthCalm, Materialised, Located, TrackInv
  <2>. QED  BY <1>1, <1>4, <2>2 DEF ApplyUpdate, RowWrites
<1>. QED  BY <1>2, <1>3, <1>4, CreateApplied, DeleteApplied
          DEF Environment, ProviderStep, UpdateFinanceMatchedStayName, Expire, Rebind

-----------------------------------------------------------------------------
(* Local states a goroutine moves to. *)
LEMMA FreshTracked ==
  ASSUME NEW m, m.items = {}, m.snap = {}, m.pc \notin Updating,
         m.pc \in Drawing \cup {"del_start"} => m.lock \in Locks, NEW a, NEW c
  PROVE  LocalTracked(m, a, c)
BY DEF LocalTracked

LEMMA IdleTracked == \A a, c : LocalTracked(IdleProc, a, c)
BY FreshTracked DEF IdleProc, Updating, Drawing

(* Outside a pass: the program counter moves, and what is held stays. *)
LEMMA MovedTracked ==
  ASSUME NEW l, NEW m, NEW a, NEW c, LocalTracked(l, a, c), l.pc \notin Reconciling,
         m.pc \notin Reconciling, m.items = l.items, m.kind = l.kind, m.snap = l.snap,
         m.pc \in Drawing \cup {"del_start"} => m.lock \in Locks,
         m.pc \in Updating => m.id \in CredIds /\ Unmoved("update_pending", m.rev, c[m.id])
  PROVE  LocalTracked(m, a, c)
<1>1. ASSUME NEW x \in m.items PROVE ItemTracked(m, x, a, c)
  <2>1. ItemTracked(l, x, a, c) /\ m.pc \notin {"decide", "confirm"}
    BY <1>1 DEF LocalTracked, Reconciling
  <2>. QED  BY <2>1 DEF ItemTracked
<1>. QED  BY <1>1 DEF LocalTracked

LEMMA TrackedNow ==
  ASSUME TrackInv, NEW p \in Procs
  PROVE  /\ proc[p] \in Local /\ LocalGood(proc[p], auth, cred)
         /\ LocalTracked(proc[p], auth, cred) /\ Located(auth)
         /\ cred \in [CredIds -> CredRow] /\ auth \in [Auths -> AuthRow]
         /\ lock \in Locks /\ code \in [Stays -> CodeRow]
BY LocalNow, Parts DEF TrackInv, SafetyInv, LockOK

(* What a goroutine holds survives its own write of a row. *)
LEMMA HeldTracked ==
  ASSUME TrackInv, SafetyInv', NEW p \in Procs, RowWrites(cred, cred', auth),
         AuthCalm(auth, auth')
  PROVE  LocalTracked(proc[p], auth', cred')
<1>1. cred' \in [CredIds -> CredRow]
  BY Parts DEF SafetyInv, CredOK
<1>. QED  BY <1>1, TrackedNow, WritesKeep, LocalTrackedStable DEF AuthCalm

(* The steps that only touch the provider's queue, a code or the goroutine. *)
LEMMA ReturnTracked ==
  ASSUME TrackInv, NEW p \in Procs, Return(p), RowWrites(cred, cred', auth),
         AuthCalm(auth, auth'), Located(auth')
  PROVE  Tracked(p)
BY IdleTracked DEF Return, Tracked

LEMMA GotoTracked ==
  ASSUME TrackInv, SafetyInv', NEW p \in Procs, NEW pc \in PCs \ Reconciling, Goto(p, pc),
         proc[p].pc \notin Reconciling, pc \in Updating => proc[p].pc \in Updating,
         pc \in Drawing \cup {"del_start"} => proc[p].pc \in Drawing \cup {"del_start"},
         RowWrites(cred, cred', auth), AuthCalm(auth, auth'), Located(auth')
  PROVE  Tracked(p)
<1>. DEFINE l == proc[p]
            m == [l EXCEPT !.pc = pc]
<1>1. Become(p, m)
  BY GotoIsBecome, Parts DEF TrackInv, SafetyInv
<1>2. /\ m.pc = pc /\ m.items = l.items /\ m.kind = l.kind /\ m.snap = l.snap
      /\ m.lock = l.lock /\ m.id = l.id /\ m.rev = l.rev
  BY TrackedNow DEF Local
<1>3. LocalTracked(l, auth', cred')
  BY HeldTracked
<1>. HIDE DEF m
<1>4. LocalTracked(m, auth', cred')
  <2>1. m.pc \in Drawing \cup {"del_start"} => m.lock \in Locks
    BY <1>2, <1>3 DEF LocalTracked
  <2>2. m.pc \in Updating => m.id \in CredIds /\ Unmoved("update_pending", m.rev, cred'[m.id])
    BY <1>2, <1>3 DEF LocalTracked
  <2>. QED  BY <1>2, <1>3, <2>1, <2>2, MovedTracked
<1>. QED  BY <1>1, <1>4 DEF Tracked

(* A PIN that is drawn, returned or sent is in no inventory yet. *)
LEMMA PinCalm ==
  ASSUME TrackInv, NEW r \in Auths, ~Materialised(auth, r), ~Materialised(auth', r),
         \A q \in Auths \ {r} : auth'[q] = auth[q], auth'[r].st = "sent" => auth'[r].lock \in Locks
  PROVE  AuthCalm(auth, auth') /\ Located(auth')
<1>1. AuthCalm(auth, auth')
  BY DEF AuthCalm, Materialised
<1>2. Located(auth')
  BY DEF TrackInv, Located, Materialised
<1>. QED  BY <1>1, <1>2

LEMMA PinDrawn ==
  ASSUME TrackInv, NEW p \in Procs, proc[p].pc \in Drawing
  PROVE  proc[p].auth \in Auths /\ ~Materialised(auth, proc[p].auth)
BY DEF TrackInv, SafetyInv, PinsGood, Materialised

LEMMA DiscardTracked ==
  ASSUME TrackInv, NEW p \in Procs, proc[p].pc \in Drawing, DiscardPin(p), UNCHANGED cred
  PROVE  Tracked(p)
<1>. DEFINE r == proc[p].auth
<1>1. r \in Auths /\ ~Materialised(auth, r)
  BY PinDrawn
<1>2. /\ \A q \in Auths \ {r} : auth'[q] = auth[q]
      /\ auth'[r].st = "unused"
  BY <1>1, TrackedNow DEF DiscardPin, AuthRow
<1>. HIDE DEF r
<1>3. AuthCalm(auth, auth') /\ Located(auth')
  BY <1>1, <1>2, PinCalm DEF Materialised
<1>. QED  BY <1>3, ReturnTracked DEF DiscardPin, RowWrites

LEMMA CreateAccessTracked ==
  ASSUME TrackInv, SafetyInv', NEW p \in Procs, proc[p].pc \in Drawing,
         NEW yes \in PCs, NEW no \in PCs, CreateAccess(p, yes, no), UNCHANGED cred,
         {yes, no} \cap (Reconciling \cup Updating \cup Drawing \cup {"del_start"}) = {}
  PROVE  Tracked(p)
<1>. DEFINE r == proc[p].auth
<1>1. r \in Auths /\ ~Materialised(auth, r)
  BY PinDrawn
<1>2. proc[p].lock \in Locks /\ proc[p].pc \notin Reconciling
  BY TrackedNow DEF LocalTracked, Drawing, Reconciling
<1>3. CASE auth' = auth
  <2>1. AuthCalm(auth, auth') /\ Located(auth')
    BY <1>3, CalmSame, TrackedNow
  <2>. QED  BY <1>2, <2>1, GotoTracked DEF CreateAccess, RowWrites
<1>4. CASE auth' = [auth EXCEPT ![r] = [st |-> "sent", lock |-> proc[p].lock, ver |-> proc[p].ver,
                                        upds |-> {}, del |-> FALSE]]
  <2>1. /\ \A q \in Auths \ {r} : auth'[q] = auth[q]
        /\ auth'[r].st = "sent" /\ auth'[r].lock = proc[p].lock
    BY <1>1, <1>4, TrackedNow
  <2>. HIDE DEF r
  <2>2. AuthCalm(auth, auth') /\ Located(auth')
    BY <1>1, <1>2, <2>1, PinCalm DEF Materialised
  <2>. QED  BY <1>2, <2>2, GotoTracked DEF CreateAccess, RowWrites
<1>. QED  BY <1>3, <1>4 DEF CreateAccess

(* Requests about an authorization leave its state and lock alone. *)
LEMMA NotedCalm ==
  ASSUME TrackInv, \A r \in Auths : auth'[r].st = auth[r].st /\ auth'[r].lock = auth[r].lock
  PROVE  AuthCalm(auth, auth') /\ Located(auth')
BY DEF AuthCalm, Materialised, Located, TrackInv

-----------------------------------------------------------------------------
LEMMA CalmNow ==
  ASSUME TrackInv, UNCHANGED auth
  PROVE  AuthCalm(auth, auth') /\ Located(auth')
BY CalmSame DEF TrackInv

LEMMA IntentTracked ==
  ASSUME TrackInv, TypeOK', NEW p \in Procs, proc[p].pc \in {"gen_accepted", "gen_failed"},
         NEW later, NEW accepted,
         UpdateNukiManagedOperation(proc[p].id, "create_pending", 2, later, accepted)
  PROVE  RowWrites(cred, cred', auth)
<1>. DEFINE i == proc[p].id
<1>1. ASSUME i \in CredIds, OperationCurrent(i, 2) PROVE cred[i].state = "create_pending"
  <2>1. cred[i] \in CredRow /\ RowGood(cred[i], auth) /\ Started(cred[i])
    BY <1>1, TrackedNow DEF TrackInv, SafetyInv, RowsGood
  <2>2. cred[i].rev = 1
    BY <1>1, <2>1 DEF OperationCurrent, CredRow
  <2>3. cred[i].remote = None
    BY <2>2, TrackedNow DEF LocalGood, CreatingGood
  <2>. QED  BY <2>1, <2>2, <2>3 DEF RowGood, Started
<1>. QED  BY <1>1, OperationTracked DEF OpStates

LEMMA CreateIntentTracked ==
  ASSUME TrackInv, SafetyInv', TypeOK', NEW p \in Procs, CreateNukiManagedCredential(p)
  PROVE  Tracked(p)
<1>. DEFINE l == proc[p]
            row == [AbsentRow EXCEPT !.state = "create_pending", !.rev = 1, !.stay = l.stay,
                                     !.lock = l.lock, !.pin = l.auth, !.ver = l.ver]
<1>1. l.pc = "gen_intent" /\ l.pc \in Drawing /\ l.lock \in Locks
  BY TrackedNow DEF CreateNukiManagedCredential, At, Drawing, LocalTracked
<1>2. CASE DiscardPin(p) /\ UNCHANGED cred
  BY <1>1, <1>2, DiscardTracked
<1>3. ASSUME NEW i \in CredIds, Fresh(i), SetCred(i, row), UNCHANGED auth,
             Become(p, [l EXCEPT !.pc = "gen_create", !.id = i, !.rev = 1])
      PROVE  Tracked(p)
  <2>. DEFINE m == [l EXCEPT !.pc = "gen_create", !.id = i, !.rev = 1]
  <2>1. row.state = "create_pending" /\ row.rev = 1 /\ row.remote = None
    BY DEF AbsentRow
  <2>2. cred[i] \in CredRow /\ RowGood(cred[i], auth) /\ cred[i].state = "absent"
    BY <1>3, TrackedNow DEF TrackInv, SafetyInv, RowsGood, Fresh
  <2>. HIDE DEF row
  <2>3. RowKept(cred[i], row) /\ RowMoves(cred[i], row, auth)
    BY <2>1, <2>2 DEF RowGood, RowKept, Started, RowMoves, Moves
  <2>4. RowWrites(cred, cred', auth)
    BY <1>3, <2>3, RowTracked
  <2>5. AuthCalm(auth, auth') /\ Located(auth')
    BY <1>3, CalmNow
  <2>6. LocalTracked(l, auth', cred')
    BY <2>4, <2>5, HeldTracked
  <2>7. /\ m.pc = "gen_create" /\ m.lock = l.lock /\ m.items = l.items /\ m.snap = l.snap
        /\ m.kind = l.kind
    BY TrackedNow DEF Local
  <2>8. Become(p, m)
    BY <1>3
  <2>. HIDE DEF m
  <2>9. LocalTracked(m, auth', cred')
    BY <1>1, <2>6, <2>7, MovedTracked DEF Reconciling, Updating
  <2>. QED  BY <2>4, <2>5, <2>8, <2>9 DEF Tracked
<1>. QED  BY <1>2, <1>3 DEF CreateNukiManagedCredential

LEMMA GenerateStepTracked ==
  ASSUME TrackInv, SafetyInv', TypeOK', NEW p \in Procs, GenerateStep(p)
  PROVE  Tracked(p)
<1>. DEFINE l == proc[p]
            Calm == AuthCalm(auth, auth') /\ Located(auth')
<1>a. {"gen_create", "gen_accepted", "gen_project", "gen_link", "gen_failed",
       "gen_fail_project", "gen_update", "gen_updated", "gen_update_failed", "gen_again",
       "gen_recreate", "gen_recreated"} \subseteq PCs \ (Reconciling \cup Updating \cup {"del_start"})
  BY DEF PCs, Reconciling, Updating
<1>b. /\ {"gen_create", "gen_again", "gen_recreate"} \subseteq Drawing
      /\ {"gen_accepted", "gen_failed", "gen_project", "gen_link", "gen_fail_project",
          "gen_updated", "gen_update_failed", "gen_recreated"} \cap Drawing = {}
  BY DEF Drawing
<1>c. UNCHANGED cred => RowWrites(cred, cred', auth)
  BY DEF RowWrites
<1>1. CASE SendCreation(p)
  BY <1>1, <1>a, <1>b, CreateAccessTracked DEF SendCreation, At
<1>2. CASE SendRecreation(p)
  BY <1>2, <1>a, <1>b, CreateAccessTracked DEF SendRecreation, At
<1>3. CASE RecordAcceptance(p)
  <2>1. Calm
    BY <1>3, CalmNow DEF RecordAcceptance
  <2>2. CASE /\ UpdateNukiManagedOperation(l.id, "create_pending", 2, FALSE, TRUE)
             /\ Goto(p, "gen_project")
    <3>1. RowWrites(cred, cred', auth)
      BY <1>3, <2>2, IntentTracked DEF RecordAcceptance, At
    <3>. QED  BY <1>3, <1>a, <1>b, <2>1, <2>2, <3>1, GotoTracked DEF RecordAcceptance, At
  <2>3. CASE UNCHANGED cred /\ Return(p)
    BY <1>c, <2>1, <2>3, ReturnTracked
  <2>. QED  BY <1>3, <2>2, <2>3 DEF RecordAcceptance
<1>4. CASE LinkProjection(p)
  <2>. DEFINE m == [IdleProc EXCEPT !.pc = "list", !.lock = l.lock]
  <2>1. ASSUME l.id \in CredIds PROVE cred[l.id] \in CredRow
    BY <2>1, TrackedNow
  <2>2. RowWrites(cred, cred', auth)
    BY <1>4, <2>1, RowAside DEF LinkProjection, CredRow
  <2>3. LocalTracked(m, auth', cred')
    BY FreshTracked DEF IdleProc, Updating, Drawing
  <2>4. Become(p, m)
    BY <1>4 DEF LinkProjection
  <2>. HIDE DEF m
  <2>. QED  BY <1>4, <2>2, <2>3, <2>4, CalmNow DEF Tracked, LinkProjection
<1>5. CASE RecordFailure(p)
  <2>1. RowWrites(cred, cred', auth)
    BY <1>5, IntentTracked DEF RecordFailure, At
  <2>. QED  BY <1>5, <1>a, <1>b, <2>1, CalmNow, GotoTracked DEF RecordFailure, At
<1>6. CASE ProjectPending(p)
  BY <1>6, <1>a, <1>b, <1>c, CalmNow, GotoTracked DEF ProjectPending, At
<1>7. CASE ProjectFailure(p) \/ TouchCode(p) \/ ProjectDirectUpdate(p) \/ ProjectRecreation(p)
  BY <1>7, <1>c, CalmNow, ReturnTracked
     DEF ProjectFailure, TouchCode, ProjectDirectUpdate, ProjectRecreation
<1>8. CASE SendDirectUpdate(p)
  <2>1. PICK pc \in {"gen_updated", "gen_update_failed"} : Goto(p, pc)
    BY <1>8 DEF SendDirectUpdate, UpdateAccess
  <2>2. \A r \in Auths : auth'[r].st = auth[r].st /\ auth'[r].lock = auth[r].lock
    BY <1>8, TrackedNow DEF SendDirectUpdate, UpdateAccess, AuthRow
  <2>. QED  BY <1>8, <1>a, <1>b, <1>c, <2>1, <2>2, NotedCalm, GotoTracked DEF SendDirectUpdate, At
<1>9. CASE CheckPending(p)
  <2>1. l.pc = "gen_again"
    BY <1>9 DEF CheckPending, At
  <2>2. CASE DiscardPin(p)
    BY <1>9, <1>b, <2>1, <2>2, DiscardTracked DEF CheckPending
  <2>3. CASE Goto(p, "gen_recreate") /\ UNCHANGED auth
    BY <1>9, <1>a, <1>b, <1>c, <2>1, <2>3, CalmNow, GotoTracked DEF CheckPending
  <2>. QED  BY <1>9, <2>2, <2>3 DEF CheckPending
<1>. QED  BY <1>1, <1>2, <1>3, <1>4, <1>5, <1>6, <1>7, <1>8, <1>9, CreateIntentTracked
          DEF GenerateStep

LEMMA UpdateConfirmedTracked ==
  ASSUME TrackInv, TypeOK', NEW i, NEW rev \in Nat, UpdateConfirmable(i, rev),
         ConfirmNukiManagedUpdate(i, rev)
  PROVE  RowWrites(cred, cred', auth)
<1>. DEFINE new == [cred[i] EXCEPT !.state = "active", !.rev = rev + 1, !.due = TRUE]
<1>1. CASE i \in CredIds
  <2>1. cred[i] \in CredRow
    BY <1>1, RowType DEF TrackInv, SafetyInv
  <2>2. /\ new.state = "active" /\ new.rev = rev + 1
        /\ new.remote = cred[i].remote /\ new.lock = cred[i].lock
    BY <2>1 DEF CredRow
  <2>3. SetCred(i, new)
    BY DEF ConfirmNukiManagedUpdate
  <2>4. cred[i].state = "update_pending" /\ cred[i].rev = rev
    BY DEF UpdateConfirmable
  <2>. HIDE DEF new
  <2>5. RowMoves(cred[i], new, auth)
    BY <2>2, <2>4 DEF RowMoves, Moves
  <2>. QED  BY <1>1, <2>2, <2>3, <2>4, <2>5, RowRaised
<1>2. CASE i \notin CredIds
  BY <1>2, RowTracked DEF ConfirmNukiManagedUpdate
<1>. QED  BY <1>1, <1>2

LEMMA MaintainStepTracked ==
  ASSUME TrackInv, SafetyInv', TypeOK', NEW p \in Procs, MaintainStep(p)
  PROVE  Tracked(p)
<1>. DEFINE l == proc[p]
<1>a. {"upd_start", "upd_call", "upd_list", "upd_confirm", "upd_code", "upd_unconfirmed",
       "upd_error", "upd_error_op"} \subseteq PCs \ (Reconciling \cup Drawing \cup {"del_start"})
  BY DEF PCs, Reconciling, Drawing
<1>b. /\ {"upd_call", "upd_list", "upd_unconfirmed", "upd_error", "upd_error_op"} \subseteq Updating
      /\ {"upd_confirm", "upd_code"} \cap Updating = {}
  BY DEF Updating
<1>c. UNCHANGED cred => RowWrites(cred, cred', auth)
  BY DEF RowWrites
<1>1. ASSUME NEW s \in Stays, MaintainNamedStay(p, s) PROVE Tracked(p)
  <2>. DEFINE next == IF stay[s].elig THEN "upd_start" ELSE "del_start"
              m == [l EXCEPT !.pc = next, !.lock = lock, !.code = code[s], !.ver = stay[s].ver]
  <2>1. CASE Return(p)
    BY <1>1, <1>c, <2>1, CalmNow, ReturnTracked DEF MaintainNamedStay, dataVars
  <2>2. CASE Become(p, m)
    <3>1. /\ m.pc = next /\ m.lock = lock /\ m.items = l.items /\ m.snap = l.snap
          /\ m.kind = l.kind /\ next \in {"upd_start", "del_start"}
      BY TrackedNow DEF Local
    <3>. HIDE DEF m, next
    <3>2. l.pc \notin Reconciling /\ m.pc \notin Reconciling \cup Updating
      BY <1>1, <3>1 DEF MaintainNamedStay, At, Reconciling, Updating
    <3>3. LocalTracked(m, auth, cred)
      BY <3>1, <3>2, TrackedNow, MovedTracked
    <3>4. UNCHANGED <<auth, cred>>
      BY <1>1 DEF MaintainNamedStay, dataVars
    <3>5. LocalTracked(m, auth', cred')
      BY <3>3, <3>4
    <3>. QED  BY <1>c, <2>2, <3>4, <3>5, CalmNow DEF Tracked
  <2>. QED  BY <1>1, <2>1, <2>2 DEF MaintainNamedStay
<1>2. CASE StartUpdate(p)
  <2>1. CASE Return(p) /\ UNCHANGED cred
    BY <1>2, <1>c, <2>1, CalmNow, ReturnTracked DEF StartUpdate
  <2>2. ASSUME NEW i \in CredIds, cred[i].state = "active", StartNukiManagedUpdate(i, l.ver),
               Become(p, [l EXCEPT !.pc = "upd_call", !.id = i, !.rev = cred[i].rev + 1])
        PROVE  Tracked(p)
    <3>. DEFINE new == [cred[i] EXCEPT !.state = "update_pending", !.rev = @ + 1,
                                       !.ver = l.ver, !.link = TRUE, !.due = TRUE]
                m == [l EXCEPT !.pc = "upd_call", !.id = i, !.rev = cred[i].rev + 1]
    <3>1. cred[i] \in CredRow
      BY TrackedNow
    <3>2. /\ new.state = "update_pending" /\ new.rev = cred[i].rev + 1
          /\ new.remote = cred[i].remote /\ new.lock = cred[i].lock /\ cred[i].rev \in Nat
      BY <3>1 DEF CredRow
    <3>3. SetCred(i, new) /\ cred'[i] = new
      BY <2>2, TrackedNow DEF StartNukiManagedUpdate, SetCred
    <3>4. /\ m.pc = "upd_call" /\ m.id = i /\ m.rev = cred[i].rev + 1 /\ m.items = l.items
          /\ m.snap = l.snap /\ m.kind = l.kind
      BY TrackedNow DEF Local
    <3>5. Become(p, m)
      BY <2>2
    <3>. HIDE DEF new, m
    <3>6. RowWrites(cred, cred', auth)
      <4>1. RowMoves(cred[i], new, auth)
        BY <2>2, <3>2 DEF RowMoves, Moves
      <4>. QED  BY <2>2, <3>2, <3>3, <4>1, RowRaised
    <3>7. AuthCalm(auth, auth') /\ Located(auth')
      BY <1>2, CalmNow DEF StartUpdate
    <3>8. LocalTracked(m, auth', cred')
      <4>1. Unmoved("update_pending", m.rev, cred'[i])
        BY <3>2, <3>3, <3>4 DEF Unmoved
      <4>2. LocalTracked(l, auth', cred')
        BY <3>6, <3>7, HeldTracked
      <4>3. l.pc \notin Reconciling
        BY <1>2 DEF StartUpdate, At, Reconciling
      <4>. QED  BY <1>a, <1>b, <3>4, <4>1, <4>2, <4>3, MovedTracked
    <3>. QED  BY <3>5, <3>6, <3>7, <3>8 DEF Tracked
  <2>. QED  BY <1>2, <2>1, <2>2 DEF StartUpdate
<1>3. CASE SendUpdate(p)
  <2>1. PICK pc \in {"upd_list", "upd_error"} : Goto(p, pc)
    BY <1>3 DEF SendUpdate, UpdateAccess
  <2>2. \A r \in Auths : auth'[r].st = auth[r].st /\ auth'[r].lock = auth[r].lock
    BY <1>3, TrackedNow DEF SendUpdate, UpdateAccess, AuthRow
  <2>. QED  BY <1>3, <1>a, <1>b, <1>c, <2>1, <2>2, NotedCalm, GotoTracked DEF SendUpdate, At
<1>4. CASE ProjectUpdateError(p)
  BY <1>4, <1>a, <1>b, <1>c, CalmNow, GotoTracked DEF ProjectUpdateError, At
<1>5. CASE RecordUnconfirmedUpdate(p)
  <2>1. l.pc \in Updating /\ l.rev \in Nat
    BY <1>5, TrackedNow DEF RecordUnconfirmedUpdate, At, Updating, Local
  <2>2. /\ l.id \in CredIds /\ Unmoved("update_pending", l.rev, cred[l.id])
        /\ cred[l.id] \in CredRow
    BY <2>1, TrackedNow DEF LocalTracked
  <2>3. OperationCurrent(l.id, l.rev + 1) => cred[l.id].state = "update_pending"
    BY <2>1, <2>2 DEF OperationCurrent, Unmoved, CredRow
  <2>4. PICK accepted \in BOOLEAN :
          UpdateNukiManagedOperation(l.id, "update_pending", l.rev + 1, TRUE, accepted)
    BY <1>5, Zenon DEF RecordUnconfirmedUpdate, At
  <2>5. "update_pending" \in OpStates \ {"absent", "deleted"} /\ l.rev + 1 \in Nat
    BY <2>1 DEF OpStates
  <2>6. RowWrites(cred, cred', auth)
    BY <2>3, <2>4, <2>5, OperationTracked, Zenon
  <2>. QED  BY <1>5, <2>6, CalmNow, ReturnTracked DEF RecordUnconfirmedUpdate
<1>6. CASE ObserveUpdate(p)
  <2>1. UNCHANGED <<auth, cred>> /\ l.pc = "upd_list"
    BY <1>6 DEF ObserveUpdate, At, dataVars
  <2>2. PICK pc \in {"upd_confirm", "upd_unconfirmed"} : Goto(p, pc)
    BY <1>6 DEF ObserveUpdate
  <2>. QED  BY <1>a, <1>b, <1>c, <2>1, <2>2, CalmNow, GotoTracked
<1>7. CASE ConfirmUpdate(p)
  <2>1. AuthCalm(auth, auth') /\ Located(auth') /\ l.pc = "upd_confirm"
    BY <1>7, CalmNow DEF ConfirmUpdate, At
  <2>2. CASE UNCHANGED cred /\ Return(p)
    BY <1>c, <2>1, <2>2, ReturnTracked
  <2>3. CASE /\ UpdateConfirmable(l.id, l.rev)
             /\ ConfirmNukiManagedUpdate(l.id, l.rev) /\ Goto(p, "upd_code")
    <3>1. RowWrites(cred, cred', auth)
      BY <2>3, UpdateConfirmedTracked, TrackedNow DEF Local
    <3>. QED  BY <1>a, <1>b, <2>1, <2>3, <3>1, GotoTracked
  <2>. QED  BY <1>7, <2>2, <2>3 DEF ConfirmUpdate
<1>8. CASE ProjectUpdate(p)
  BY <1>8, <1>c, CalmNow, ReturnTracked DEF ProjectUpdate
<1>. QED  BY <1>1, <1>2, <1>3, <1>4, <1>5, <1>6, <1>7, <1>8 DEF MaintainStep

-----------------------------------------------------------------------------
(* A deletion is requested of a row that has an identity. *)
LEMMA AttemptTracked ==
  ASSUME TrackInv, TypeOK', NEW i, i \in CredIds => cred[i].remote # None, NEW rev \in Nat,
         NEW later, NEW accepted, MarkNukiManagedDeletionAttempt(i, rev, later, accepted)
  PROVE  RowWrites(cred, cred', auth)
<1>1. "delete_pending" \in OpStates \ {"absent", "deleted"} /\ rev + 1 \in Nat
  BY DEF OpStates
<1>2. UpdateNukiManagedOperation(i, "delete_pending", rev + 1, later, accepted)
  BY DEF MarkNukiManagedDeletionAttempt
<1>. QED  BY <1>1, <1>2, OperationTracked, Zenon

LEMMA StartDeletionTracked ==
  ASSUME TrackInv, SafetyInv', TypeOK', NEW p \in Procs, StartNukiManagedDeletion(p)
  PROVE  Tracked(p)
<1>. DEFINE l == proc[p]
            row == [AbsentRow EXCEPT !.state = "delete_pending", !.rev = 1, !.stay = l.stay,
                                     !.lock = l.lock, !.remote = l.code.ext,
                                     !.ver = l.code.ver, !.link = TRUE]
<1>1. /\ l.pc = "del_start" /\ l.lock \in Locks /\ l.code.ext \in Auths
      /\ AuthCalm(auth, auth') /\ Located(auth')
  BY CalmNow, TrackedNow
     DEF StartNukiManagedDeletion, At, LocalTracked, LocalGood, DeletingGood, Local, CodeRow
<1>2. CASE Return(p) /\ UNCHANGED cred
  BY <1>1, <1>2, ReturnTracked DEF RowWrites
<1>3. ASSUME NEW i \in CredIds, OwnsRemote(cred[i], l.lock, l.code.ext),
             RestartAsDeletion(i), Goto(p, "del_read")
      PROVE  Tracked(p)
  <2>. DEFINE new == [cred[i] EXCEPT !.state = "delete_pending", !.rev = @ + 1]
  <2>1. cred[i] \in CredRow /\ RowGood(cred[i], auth)
    BY <1>3, TrackedNow DEF TrackInv, SafetyInv, RowsGood
  <2>2. /\ new.state = "delete_pending" /\ new.rev = cred[i].rev + 1
        /\ new.remote = cred[i].remote /\ new.lock = cred[i].lock /\ cred[i].rev \in Nat
    BY <2>1 DEF CredRow
  <2>3. SetCred(i, new)
    BY <1>3 DEF RestartAsDeletion
  <2>4. /\ cred[i].remote # None /\ cred[i].state # "absent"
        /\ cred[i].state = "delete_pending" \/ cred[i].state \in Deletable
    BY <1>1, <1>3, <2>1, CredentialAssumption DEF OwnsRemote, RowGood, CredRow, OpStates, Deletable
  <2>. HIDE DEF new
  <2>5. RowMoves(cred[i], new, auth)
    BY <2>2, <2>4 DEF RowMoves
  <2>6. RowWrites(cred, cred', auth)
    BY <1>3, <2>2, <2>3, <2>4, <2>5, RowRaised
  <2>7. "del_read" \in PCs \ (Reconciling \cup Updating \cup Drawing \cup {"del_start"})
        /\ "del_start" \notin Reconciling
    BY DEF PCs, Reconciling, Updating, Drawing
  <2>. QED  BY <1>1, <1>3, <2>6, <2>7, GotoTracked
<1>4. ASSUME NEW i \in CredIds, Fresh(i), SetCred(i, row),
             Become(p, [l EXCEPT !.pc = "del_call", !.id = i, !.rev = 1])
      PROVE  Tracked(p)
  <2>. DEFINE m == [l EXCEPT !.pc = "del_call", !.id = i, !.rev = 1]
  <2>1. /\ row.state = "delete_pending" /\ row.rev = 1 /\ row.remote = l.code.ext
        /\ row.lock = l.lock
    BY DEF AbsentRow
  <2>2. cred[i] \in CredRow /\ RowGood(cred[i], auth) /\ cred[i].state = "absent"
    BY <1>4, TrackedNow DEF TrackInv, SafetyInv, RowsGood, Fresh
  <2>. HIDE DEF row
  <2>3. RowMoves(cred[i], row, auth)
    BY <1>1, <2>1, <2>2 DEF RowMoves
  <2>4. RowKept(cred[i], row)
    BY <2>1, <2>2 DEF RowKept, Started, RowGood
  <2>5. RowWrites(cred, cred', auth)
    BY <1>4, <2>3, <2>4, RowTracked
  <2>6. LocalTracked(l, auth', cred')
    BY <1>1, <2>5, HeldTracked
  <2>7. m.pc = "del_call" /\ m.items = l.items /\ m.snap = l.snap /\ m.kind = l.kind
    BY TrackedNow DEF Local
  <2>8. Become(p, m)
    BY <1>4
  <2>. HIDE DEF m
  <2>9. LocalTracked(m, auth', cred')
    BY <1>1, <2>6, <2>7, MovedTracked DEF Reconciling, Updating, Drawing
  <2>. QED  BY <1>1, <2>5, <2>8, <2>9 DEF Tracked
<1>. QED  BY <1>2, <1>3, <1>4 DEF StartNukiManagedDeletion

LEMMA DeleteStepTracked ==
  ASSUME TrackInv, SafetyInv', TypeOK', NEW p \in Procs, DeleteStep(p)
  PROVE  Tracked(p)
<1>. DEFINE l == proc[p]
<1>a. {"del_call", "del_accepted", "del_error"}
        \subseteq PCs \ (Reconciling \cup Updating \cup Drawing \cup {"del_start"})
  BY DEF PCs, Reconciling, Updating, Drawing
<1>b. UNCHANGED cred => RowWrites(cred, cred', auth)
  BY DEF RowWrites
<1>c. /\ l.rev \in Nat
      /\ l.pc \in {"del_accepted", "del_error"} => l.id \in CredIds /\ cred[l.id].remote # None
  BY TrackedNow DEF Local, LocalGood, DeletingGood
<1>1. CASE ReadDeletion(p)
  <2>. PICK i \in CredIds :
         Become(p, [l EXCEPT !.pc = "del_call", !.id = i, !.rev = cred[i].rev])
    BY <1>1 DEF ReadDeletion
  <2>. DEFINE m == [l EXCEPT !.pc = "del_call", !.id = i, !.rev = cred[i].rev]
  <2>1. m.pc = "del_call" /\ m.items = l.items /\ m.snap = l.snap /\ m.kind = l.kind
    BY TrackedNow DEF Local
  <2>2. Become(p, m)
    OBVIOUS
  <2>. HIDE DEF m
  <2>3. l.pc = "del_read" /\ UNCHANGED <<auth, cred>>
    BY <1>1 DEF ReadDeletion, At, dataVars
  <2>4. LocalTracked(m, auth, cred)
    BY <1>a, <2>1, <2>3, TrackedNow, MovedTracked DEF Reconciling
  <2>5. LocalTracked(m, auth', cred')
    BY <2>3, <2>4
  <2>. QED  BY <1>b, <2>2, <2>3, <2>5, CalmNow DEF Tracked
<1>2. CASE SendDeletion(p)
  <2>1. PICK pc \in {"del_accepted", "del_error"} : Goto(p, pc)
    BY <1>2 DEF SendDeletion
  <2>2. \A r \in Auths : auth'[r].st = auth[r].st /\ auth'[r].lock = auth[r].lock
    BY <1>2, TrackedNow DEF SendDeletion, RevokeAccess, AuthRow
  <2>3. l.pc = "del_call" /\ UNCHANGED cred
    BY <1>2 DEF SendDeletion, At
  <2>. QED  BY <1>a, <1>b, <2>1, <2>2, <2>3, NotedCalm, GotoTracked
<1>3. CASE RecordDeletionError(p)
  <2>1. RowWrites(cred, cred', auth)
    BY <1>3, <1>c, AttemptTracked DEF RecordDeletionError, At
  <2>. QED  BY <1>3, <2>1, CalmNow, ReturnTracked DEF RecordDeletionError
<1>4. CASE RecordDeletionAccepted(p)
  <2>. DEFINE m == [IdleProc EXCEPT !.pc = "list", !.kind = "deletions"]
  <2>1. RowWrites(cred, cred', auth)
    BY <1>4, <1>c, AttemptTracked DEF RecordDeletionAccepted, At
  <2>2. LocalTracked(m, auth', cred')
    BY FreshTracked DEF IdleProc, Updating, Drawing
  <2>3. AuthCalm(auth, auth') /\ Located(auth')
    BY <1>4, CalmNow DEF RecordDeletionAccepted
  <2>4. Become(p, m) \/ Return(p)
    BY <1>4 DEF RecordDeletionAccepted
  <2>. HIDE DEF m
  <2>. QED  BY <2>1, <2>2, <2>3, <2>4, ReturnTracked DEF Tracked
<1>. QED  BY <1>1, <1>2, <1>3, <1>4, StartDeletionTracked DEF DeleteStep

-----------------------------------------------------------------------------
LEMMA DueTracked ==
  ASSUME TrackInv, NEW m, m.items = ListDue(m.kind), m.kind \in Kinds, m.snap = {}, m.pc = "snap"
  PROVE  LocalTracked(m, auth, cred)
<1>1. ASSUME NEW x \in m.items PROVE ItemTracked(m, x, auth, cred)
  <2>1. /\ x.id \in CredIds /\ x.row = cred[x.id] /\ x.row.state = PendingState[m.kind]
    BY <1>1 DEF ListDue
  <2>2. cred[x.id] \in CredRow
    BY <2>1, RowType DEF TrackInv, SafetyInv
  <2>3. PendingState[m.kind] # "absent"
    BY DEF PendingState, Kinds
  <2>4. Unmoved(x.row.state, x.row.rev, cred[x.id])
    BY <2>1, <2>2 DEF Unmoved, CredRow
  <2>. QED  BY <2>1, <2>3, <2>4 DEF ItemTracked
<1>. QED  BY <1>1 DEF LocalTracked, Drawing, Updating

LEMMA BeginTracked ==
  ASSUME TrackInv, SafetyInv', TypeOK', NEW p \in Procs, Begin(p)
  PROVE  Tracked(p)
<1>1. ASSUME NEW m, Become(p, m), LocalTracked(m, auth, cred), UNCHANGED <<auth, cred>>
      PROVE  Tracked(p)
  BY <1>1, CalmNow DEF Tracked, RowWrites
<1>2. ASSUME NEW s \in Stays, Generate(p, s) PROVE Tracked(p)
  <2>. DEFINE branch == GenerationBranch(code[s], stay[s].ver)
              l == [IdleProc EXCEPT !.pc = branch, !.stay = s, !.lock = lock,
                                    !.code = code[s], !.ver = stay[s].ver]
  <2>1. branch \in {"gen_intent", "gen_touch", "gen_update", "gen_again"}
    BY DEF GenerationBranch
  <2>. HIDE DEF branch
  <2>2. /\ l.pc = branch /\ l.lock = lock /\ l.items = {} /\ l.snap = {}
        /\ \A r : LET m == [l EXCEPT !.auth = r]
                  IN m.pc = branch /\ m.lock = lock /\ m.items = {} /\ m.snap = {}
    BY DEF IdleProc
  <2>3. ASSUME NEW m, m.pc = branch, m.lock = lock, m.items = {}, m.snap = {}
        PROVE  \A a, c : LocalTracked(m, a, c)
    BY <2>1, <2>3, TrackedNow, FreshTracked DEF Updating
  <2>4. CASE Become(p, l) /\ UNCHANGED auth
    <3>. HIDE DEF l
    <3>. QED  BY <1>1, <1>2, <2>2, <2>3, <2>4 DEF Generate
  <2>5. ASSUME NEW r \in Auths, auth[r].st = "unused", auth' = [auth EXCEPT ![r].st = "drawn"],
               Become(p, [l EXCEPT !.auth = r])
        PROVE  Tracked(p)
    <3>1. /\ \A q \in Auths \ {r} : auth'[q] = auth[q]
          /\ auth'[r].st = "drawn"
      BY <2>5, TrackedNow DEF AuthRow
    <3>2. AuthCalm(auth, auth') /\ Located(auth')
      BY <2>5, <3>1, PinCalm DEF Materialised
    <3>3. LocalTracked([l EXCEPT !.auth = r], auth', cred')
      BY <2>2, <2>3
    <3>4. RowWrites(cred, cred', auth)
      BY <1>2 DEF Generate, RowWrites
    <3>. QED  BY <2>5, <3>2, <3>3, <3>4 DEF Tracked
  <2>. QED  BY <1>2, <2>4, <2>5 DEF Generate, branch
<1>3. ASSUME NEW s \in Stays, EditStay(p, s) PROVE Tracked(p)
  <2>. DEFINE m == [IdleProc EXCEPT !.pc = "mt_load", !.stay = s]
  <2>1. LocalTracked(m, auth, cred)
    BY FreshTracked DEF IdleProc, Updating, Drawing
  <2>. HIDE DEF m
  <2>. QED  BY <1>1, <1>3, <2>1 DEF EditStay, m
<1>4. ASSUME NEW s \in Stays, RevokeCode(p, s) \/ CleanupExpiredCodes(p, s) PROVE Tracked(p)
  <2>. DEFINE m == [IdleProc EXCEPT !.pc = "del_start", !.stay = s, !.lock = lock, !.code = code[s]]
  <2>1. LocalTracked(m, auth, cred)
    BY FreshTracked, TrackedNow DEF IdleProc, Updating, Drawing
  <2>2. Become(p, m) /\ UNCHANGED <<auth, cred>>
    BY <1>4 DEF RevokeCode, CleanupExpiredCodes, dataVars
  <2>. HIDE DEF m
  <2>. QED  BY <1>1, <2>1, <2>2
<1>5. ASSUME NEW kind \in Kinds, StartPass(p, kind) PROVE Tracked(p)
  <2>. DEFINE m == [IdleProc EXCEPT !.pc = "snap", !.kind = kind, !.lock = lock,
                                    !.items = ListDue(kind)]
  <2>1. m.items = ListDue(kind) /\ m.kind = kind /\ m.snap = {} /\ m.pc = "snap"
    BY DEF IdleProc
  <2>2. Become(p, m) /\ UNCHANGED <<auth, cred>>
    BY <1>5 DEF StartPass, dataVars
  <2>. HIDE DEF m
  <2>3. LocalTracked(m, auth, cred)
    BY <2>1, DueTracked
  <2>. QED  BY <1>1, <2>2, <2>3
<1>6. ASSUME NEW s \in Stays, RefuseLongName(p, s) PROVE Tracked(p)
  <2>. DEFINE m == [IdleProc EXCEPT !.pc = "gen_fail_project", !.stay = s, !.ver = stay[s].ver]
  <2>1. LocalTracked(m, auth, cred)
    BY FreshTracked DEF IdleProc, Updating, Drawing
  <2>2. Become(p, m) /\ UNCHANGED <<auth, cred>>
    BY <1>6 DEF RefuseLongName, dataVars
  <2>. HIDE DEF m
  <2>. QED  BY <1>1, <2>1, <2>2
<1>. QED  BY <1>2, <1>3, <1>4, <1>5, <1>6 DEF Begin

-----------------------------------------------------------------------------
(* The steps of a pass. *)
LEMMA WithinTracked ==
  ASSUME NEW l, NEW m, NEW a, NEW c, LocalTracked(l, a, c), m.items \subseteq l.items,
         m.kind = l.kind, m.lock = l.lock, m.snap = l.snap, m.pc \in {"item", "record", "item_code"}
  PROVE  LocalTracked(m, a, c)
<1>1. ASSUME NEW x \in m.items PROVE ItemTracked(m, x, a, c)
  <2>1. ItemTracked(l, x, a, c)
    BY <1>1 DEF LocalTracked
  <2>. QED  BY <2>1 DEF ItemTracked
<1>. QED  BY <1>1 DEF LocalTracked, Reconciling, Drawing, Updating

(* The goroutine has dealt with a row and turns to the next. *)
LEMMA AfterTracked ==
  ASSUME TrackInv, SafetyInv', NEW p \in Procs, NEW x, Become(p, After(proc[p], x)),
         RowWrites(cred, cred', auth), AuthCalm(auth, auth'), Located(auth')
  PROVE  Tracked(p)
<1>. DEFINE l == proc[p]
            m == [l EXCEPT !.pc = "item", !.items = @ \ {x}]
<1>1. LocalTracked(l, auth', cred')
  BY HeldTracked
<1>2. CASE After(l, x) = IdleProc
  BY <1>2, IdleTracked DEF Tracked
<1>3. CASE After(l, x) = m
  <2>1. /\ m.pc = "item" /\ m.items = l.items \ {x} /\ m.kind = l.kind /\ m.lock = l.lock
        /\ m.snap = l.snap
    BY TrackedNow DEF Local
  <2>2. Become(p, m)
    BY <1>3
  <2>. HIDE DEF m
  <2>3. LocalTracked(m, auth', cred')
    BY <1>1, <2>1, WithinTracked
  <2>. QED  BY <2>2, <2>3 DEF Tracked
<1>. QED  BY <1>2, <1>3 DEF After

(* What is known of the row that is handled. *)
LEMMA ItemNow ==
  ASSUME TrackInv, NEW p \in Procs, NEW x \in proc[p].items
  PROVE  /\ x.id \in CredIds /\ x.row \in CredRow /\ x.row.rev \in Nat
         /\ cred[x.id] \in CredRow /\ cred[x.id].rev \in Nat /\ RowGood(cred[x.id], auth)
         /\ ItemTracked(proc[p], x, auth, cred)
         /\ proc[p].rev \in Nat
<1>1. x \in Item /\ proc[p].rev \in Nat
  BY TrackedNow DEF Local
<1>2. x.id \in CredIds /\ x.row \in CredRow /\ x.row.rev \in Nat
  BY <1>1 DEF Item, CredRow
<1>3. cred[x.id] \in CredRow /\ cred[x.id].rev \in Nat /\ RowGood(cred[x.id], auth)
  BY <1>2, TrackedNow DEF TrackInv, SafetyInv, RowsGood, CredRow
<1>. QED  BY <1>1, <1>2, <1>3, TrackedNow DEF LocalTracked

(* Two rows to be handled next are one. *)
LEMMA NextOnce ==
  ASSUME NEW l \in Local, NEW x, NEW y, NextItem(l, x), NextItem(l, y)
  PROVE  x.id = y.id
<1>1. x.id \in Nat /\ y.id \in Nat /\ x.id <= y.id /\ y.id <= x.id
  BY DEF NextItem, Local, Item, CredIds
<1>. QED  BY <1>1

LEMMA ClaimTracked ==
  ASSUME TrackInv, SafetyInv', TypeOK', NEW p \in Procs, NEW x \in proc[p].items, ClaimItem(p, x)
  PROVE  Tracked(p)
<1>. DEFINE l == proc[p]
            i == x.id
            new == [cred[i] EXCEPT !.rev = x.row.rev + 1]
            m == [l EXCEPT !.pc = "decide", !.rev = x.row.rev + 1]
<1>1. AuthCalm(auth, auth') /\ Located(auth')
  BY CalmNow DEF ClaimItem
<1>2. CASE ClaimCurrent(i, x.row.rev)
  <2>1. SetCred(i, new) /\ Become(p, m)
    BY <1>2 DEF ClaimItem, ClaimNukiManagedCreation
  <2>2. /\ new.state = "create_pending" /\ new.rev = x.row.rev + 1 /\ new.rev > cred[i].rev
        /\ new.remote = cred[i].remote /\ new.lock = cred[i].lock
        /\ new.rev \in Nat /\ cred[i].state = "create_pending"
    BY <1>2, ItemNow DEF ClaimCurrent, CredRow
  <2>3. /\ m.pc = "decide" /\ m.snap = l.snap /\ m.items = l.items
        /\ m.kind = l.kind /\ m.lock = l.lock /\ m.rev = x.row.rev + 1
    BY TrackedNow DEF Local
  <2>4. cred'[i] = new
    BY <2>1, ItemNow, TrackedNow DEF SetCred
  <2>. HIDE DEF new, m
  <2>5. RowWrites(cred, cred', auth)
    <3>1. RowMoves(cred[i], new, auth)
      BY <2>2 DEF RowMoves
    <3>. QED  BY <2>1, <2>2, <3>1, ItemNow, RowRaised
  <2>6. LocalTracked(l, auth', cred')
    BY <1>1, <2>5, HeldTracked
  <2>7. ASSUME NEW y \in m.items PROVE ItemTracked(m, y, auth', cred')
    <3>1. ItemTracked(l, y, auth', cred')
      BY <2>3, <2>6, <2>7 DEF LocalTracked
    <3>2. NextItem(m, y) => y.id = i
      BY <2>3, TrackedNow, NextOnce DEF NextItem, ClaimItem, Handling
    <3>3. Unmoved("create_pending", m.rev, cred'[i])
      BY <2>2, <2>3, <2>4 DEF Unmoved
    <3>. QED  BY <2>3, <3>1, <3>2, <3>3 DEF ItemTracked
  <2>8. LocalTracked(m, auth', cred')
    BY <2>3, <2>6, <2>7 DEF LocalTracked, Reconciling, Drawing, Updating
  <2>. QED  BY <1>1, <2>1, <2>5, <2>8 DEF Tracked
<1>3. CASE ~ClaimCurrent(i, x.row.rev)
  BY <1>1, <1>3, AfterTracked DEF ClaimItem, ClaimNukiManagedCreation, RowWrites
<1>. QED  BY <1>2, <1>3

LEMMA DecideTracked ==
  ASSUME TrackInv, SafetyInv', TypeOK', NEW p \in Procs, NEW x \in proc[p].items,
         DecideCreation(p, x)
  PROVE  Tracked(p)
<1>. DEFINE l == proc[p]
            i == x.id
<1>1. AuthCalm(auth, auth') /\ Located(auth')
  BY CalmNow DEF DecideCreation
<1>2. l.pc = "decide" /\ NextItem(l, x) /\ Unmoved("create_pending", l.rev, cred[i])
  BY ItemNow DEF DecideCreation, Handling, At, ItemTracked
<1>3. CASE OtherBinding(l, x.row)
  <2>1. UpdateNukiManagedOperation(i, "needs_review", l.rev + 1, FALSE, FALSE)
        /\ Become(p, After(l, x))
    BY <1>3 DEF DecideCreation
  <2>2. OperationCurrent(i, l.rev + 1) => <<cred[i].state, "needs_review">> \in Moves
    BY <1>2, ItemNow DEF OperationCurrent, Unmoved, Moves
  <2>3. "needs_review" \in OpStates \ {"absent", "deleted"} /\ l.rev + 1 \in Nat
    BY ItemNow DEF OpStates
  <2>4. RowWrites(cred, cred', auth)
    BY <2>1, <2>2, <2>3, OperationTracked
  <2>. QED  BY <1>1, <2>1, <2>4, AfterTracked
<1>4. CASE ~OtherBinding(l, x.row) /\ ~Correlates(x, l)
  <2>1. ~OperationCurrent(i, l.rev)
    BY <1>2, ItemNow DEF OperationCurrent, Unmoved
  <2>2. UNCHANGED cred /\ Become(p, After(l, x))
    BY <1>4, <2>1 DEF DecideCreation, UpdateNukiManagedOperation
  <2>. QED  BY <1>1, <2>2, AfterTracked DEF RowWrites
<1>5. CASE ~OtherBinding(l, x.row) /\ Correlates(x, l)
  <2>. PICK s \in Stays : Become(p, [l EXCEPT !.pc = "confirm", !.auth = x.row.pin,
                                              !.code = code[s], !.ok = stay[s].elig])
    BY <1>5 DEF DecideCreation
  <2>. DEFINE m == [l EXCEPT !.pc = "confirm", !.auth = x.row.pin,
                             !.code = code[s], !.ok = stay[s].elig]
  <2>1. /\ m.pc = "confirm" /\ m.auth = x.row.pin /\ m.snap = l.snap
        /\ m.items = l.items /\ m.kind = l.kind /\ m.lock = l.lock /\ m.rev = l.rev
    BY TrackedNow DEF Local
  <2>2. Become(p, m)
    OBVIOUS
  <2>. HIDE DEF m
  <2>3. UNCHANGED <<auth, cred>>
    BY <1>5 DEF DecideCreation
  <2>4. auth[m.auth].lock = x.row.lock
    <3>1. [id |-> x.row.pin, ver |-> x.row.ver] \in l.snap /\ x.row.lock = l.lock
      BY <1>5 DEF Correlates, OtherBinding
    <3>2. \A o \in l.snap : auth[o.id].lock = l.lock
      BY TrackedNow DEF LocalTracked
    <3>. QED  BY <2>1, <3>1, <3>2
  <2>5. ASSUME NEW y \in m.items PROVE ItemTracked(m, y, auth, cred)
    <3>1. ItemTracked(l, y, auth, cred) /\ ItemTracked(l, x, auth, cred)
      BY <2>1, <2>5, TrackedNow DEF LocalTracked
    <3>2. NextItem(m, y) => NextItem(l, y) /\ y.id = i
      BY <1>2, <2>1, TrackedNow, NextOnce DEF NextItem
    <3>3. NextItem(m, y) => y.row.lock = x.row.lock
      BY <3>1, <3>2 DEF ItemTracked
    <3>. QED  BY <1>2, <2>1, <2>4, <3>1, <3>2, <3>3 DEF ItemTracked
  <2>6. LocalTracked(m, auth, cred)
    BY <2>1, <2>5, TrackedNow DEF LocalTracked, Reconciling, Drawing, Updating
  <2>7. LocalTracked(m, auth', cred')
    BY <2>3, <2>6
  <2>. QED  BY <1>1, <2>2, <2>3, <2>7 DEF Tracked, RowWrites
<1>. QED  BY <1>3, <1>4, <1>5

LEMMA ConfirmTracked ==
  ASSUME TrackInv, SafetyInv', TypeOK', NEW p \in Procs, NEW x \in proc[p].items,
         ConfirmItem(p, x)
  PROVE  Tracked(p)
<1>. DEFINE l == proc[p]
            i == x.id
            had == l.code.status # "none"
            new == [cred[i] EXCEPT !.state = IF l.ok THEN "active" ELSE "delete_pending",
                                   !.rev = l.rev + 1, !.remote = l.auth, !.pin = None,
                                   !.link = had, !.due = TRUE, !.acc = TRUE]
<1>1. AuthCalm(auth, auth') /\ Located(auth') /\ Become(p, After(l, x))
  BY CalmNow DEF ConfirmItem
<1>2. CASE CreationConfirmable(i, l.rev, had)
  <2>1. SetCred(i, new)
    BY <1>2 DEF ConfirmItem, ConfirmNukiManagedCreation
  <2>2. /\ new.state \in {"active", "delete_pending"} /\ new.rev = cred[i].rev + 1
        /\ new.remote = l.auth /\ new.lock = cred[i].lock /\ cred[i].state = "create_pending"
    BY <1>2, ItemNow DEF CreationConfirmable, ClaimCurrent, CredRow
  <2>. HIDE DEF new
  <2>3. l.auth \in Auths /\ Materialised(auth, l.auth) /\ auth[l.auth].lock = cred[i].lock
    BY ItemNow, TrackedNow DEF ConfirmItem, Handling, At, LocalGood, MatchingGood, ItemTracked
  <2>4. RowMoves(cred[i], new, auth)
    BY <2>2, <2>3 DEF RowMoves
  <2>5. RowKept(cred[i], new)
    BY <2>2, ItemNow DEF RowKept, Started, RowGood
  <2>6. RowWrites(cred, cred', auth)
    BY <2>1, <2>4, <2>5, RowTracked
  <2>. QED  BY <1>1, <2>6, AfterTracked
<1>3. CASE ~CreationConfirmable(i, l.rev, had)
  BY <1>1, <1>3, AfterTracked DEF ConfirmItem, RowWrites
<1>. QED  BY <1>2, <1>3

(* A write guarded by the revision that was read is a move from the state  *)
(* that was read.                                                          *)
LEMMA ItemOperationTracked ==
  ASSUME TrackInv, TypeOK', NEW p \in Procs, NEW x \in proc[p].items,
         NEW s \in {"needs_review", "update_pending"}, NEW later, NEW accepted,
         x.row.state = "update_pending" \/ (s = "needs_review" /\ x.row.state = "delete_pending"),
         UpdateNukiManagedOperation(x.id, s, x.row.rev + 1, later, accepted)
  PROVE  RowWrites(cred, cred', auth)
<1>1. OperationCurrent(x.id, x.row.rev + 1) => cred[x.id].state = x.row.state
  BY ItemNow DEF OperationCurrent, ItemTracked, Unmoved
<1>2. OperationCurrent(x.id, x.row.rev + 1) =>
        cred[x.id].state = s \/ <<cred[x.id].state, s>> \in Moves
  BY <1>1 DEF Moves
<1>3. s \in OpStates \ {"absent", "deleted"} /\ x.row.rev + 1 \in Nat
  BY ItemNow DEF OpStates
<1>. QED  BY <1>2, <1>3, OperationTracked, Zenon

LEMMA DeletionItemTracked ==
  ASSUME TrackInv, SafetyInv', TypeOK', NEW p \in Procs, NEW x \in proc[p].items,
         DeletionItem(p, x) \/ RecordDeletionItem(p, x)
  PROVE  Tracked(p)
<1>. DEFINE l == proc[p]
            r == x.row.remote
            i == x.id
<1>a. l.kind = "deletions" /\ l.pc \in {"item", "record"} /\ x.row.state = "delete_pending"
  <2>1. l.kind = "deletions" /\ l.pc \in {"item", "record"}
    BY DEF DeletionItem, RecordDeletionItem, Handling, At
  <2>2. x.row.state = PendingState[l.kind]
    BY ItemNow DEF ItemTracked
  <2>. QED  BY <2>1, <2>2 DEF PendingState
<1>b. /\ r # None /\ cred[i].remote = r /\ cred[i].lock = x.row.lock
      /\ (x.row.lock = l.lock /\ ~Listed(l, r)) => Absent(auth, r, x.row.lock)
  BY <1>a, TrackedNow DEF LocalGood, DeletionsGood
<1>c. UNCHANGED auth => AuthCalm(auth, auth') /\ Located(auth')
  BY CalmNow
<1>1. CASE /\ UpdateNukiManagedOperation(i, "needs_review", x.row.rev + 1, FALSE, FALSE)
           /\ Become(p, After(l, x)) /\ UNCHANGED auth
  <2>1. RowWrites(cred, cred', auth)
    BY <1>1, <1>a, ItemOperationTracked
  <2>. QED  BY <1>1, <1>c, <2>1, AfterTracked
<1>2. CASE /\ x.row.lock = l.lock /\ ~Listed(l, r)
           /\ IF DeletionConfirmable(i, x.row.rev)
              THEN ConfirmNukiManagedDeletion(i, x.row.rev, x.row.link)
              ELSE UNCHANGED <<cred, code>>
           /\ Become(p, After(l, x)) /\ UNCHANGED auth
  <2>1. CASE DeletionConfirmable(i, x.row.rev)
    <3>. DEFINE new == [cred[i] EXCEPT !.state = "deleted", !.rev = x.row.rev + 1,
                                       !.due = TRUE, !.pin = None]
    <3>1. SetCred(i, new)
      BY <1>2, <2>1 DEF ConfirmNukiManagedDeletion
    <3>2. /\ new.state = "deleted" /\ new.rev = cred[i].rev + 1 /\ new.rev \in Nat
          /\ new.remote = cred[i].remote /\ new.lock = cred[i].lock
          /\ cred[i].state = "delete_pending"
      BY <2>1, ItemNow DEF DeletionConfirmable, CredRow
    <3>. HIDE DEF new
    <3>3. RowMoves(cred[i], new, auth)
      BY <1>2, <1>b, <3>2 DEF RowMoves
    <3>4. new.rev > cred[i].rev
      BY <3>2, ItemNow
    <3>5. RowWrites(cred, cred', auth)
      BY <3>1, <3>2, <3>3, <3>4, ItemNow, RowRaised
    <3>. QED  BY <1>2, <1>c, <3>5, AfterTracked
  <2>2. CASE ~DeletionConfirmable(i, x.row.rev)
    BY <1>2, <1>c, <2>2, AfterTracked DEF RowWrites
  <2>. QED  BY <2>1, <2>2
<1>3. ASSUME NEW b \in BOOLEAN, MarkNukiManagedDeletionAttempt(i, x.row.rev, TRUE, b),
             Become(p, After(l, x)), UNCHANGED auth
      PROVE  Tracked(p)
  <2>1. x.row.rev \in Nat
    BY ItemNow
  <2>2. RowWrites(cred, cred', auth)
    BY <1>3, <1>b, <2>1, AttemptTracked
  <2>. QED  BY <1>3, <1>c, <2>2, AfterTracked
<1>4. ASSUME NEW a, RevokeAccess(r, a), NEW b, Become(p, [l EXCEPT !.pc = "record", !.ok = b]),
             UNCHANGED cred
      PROVE  Tracked(p)
  <2>. DEFINE m == [l EXCEPT !.pc = "record", !.ok = b]
  <2>1. /\ m.pc = "record" /\ m.items = l.items /\ m.kind = l.kind /\ m.lock = l.lock
        /\ m.snap = l.snap
    BY TrackedNow DEF Local
  <2>2. \A q \in Auths : auth'[q].st = auth[q].st /\ auth'[q].lock = auth[q].lock
    BY <1>4, TrackedNow DEF RevokeAccess, AuthRow
  <2>3. Become(p, m)
    BY <1>4
  <2>. HIDE DEF m
  <2>4. /\ AuthCalm(auth, auth') /\ Located(auth')
        /\ RowWrites(cred, cred', auth)
    BY <1>4, <2>2, NotedCalm DEF RowWrites
  <2>5. LocalTracked(m, auth', cred')
    BY <2>1, <2>4, HeldTracked, WithinTracked
  <2>. QED  BY <2>3, <2>4, <2>5 DEF Tracked
<1>5. CASE RecordDeletionItem(p, x)
  <2>1. l.ok \in BOOLEAN
    BY TrackedNow DEF Local
  <2>. QED  BY <1>3, <1>5, <2>1 DEF RecordDeletionItem
<1>6. CASE DeletionItem(p, x)
  BY <1>1, <1>2, <1>3, <1>4, <1>6 DEF DeletionItem, OtherBinding
<1>. QED  BY <1>5, <1>6

LEMMA UpdateItemTracked ==
  ASSUME TrackInv, SafetyInv', TypeOK', NEW p \in Procs, NEW x \in proc[p].items,
         UpdateItem(p, x) \/ ProjectUpdateItem(p, x)
  PROVE  Tracked(p)
<1>. DEFINE l == proc[p]
            i == x.id
<1>a. x.row.state = "update_pending" /\ AuthCalm(auth, auth') /\ Located(auth')
  <2>1. l.kind = "updates" /\ UNCHANGED auth
    BY DEF UpdateItem, ProjectUpdateItem, Handling
  <2>2. x.row.state = PendingState[l.kind]
    BY ItemNow DEF ItemTracked
  <2>. QED  BY <2>1, <2>2, CalmNow DEF PendingState
<1>1. CASE /\ \/ UpdateNukiManagedOperation(i, "needs_review", x.row.rev + 1, FALSE, FALSE)
              \/ UpdateNukiManagedOperation(i, "update_pending", x.row.rev + 1, TRUE, TRUE)
           /\ Become(p, After(l, x))
  <2>1. RowWrites(cred, cred', auth)
    BY <1>1, <1>a, ItemOperationTracked
  <2>. QED  BY <1>1, <1>a, <2>1, AfterTracked
<1>2. CASE /\ IF UpdateConfirmable(i, x.row.rev)
              THEN ConfirmNukiManagedUpdate(i, x.row.rev) ELSE UNCHANGED cred
           /\ \/ \E s \in Stays : Become(p, [l EXCEPT !.pc = "item_code", !.code = code[s]])
              \/ Become(p, After(l, x))
  <2>1. RowWrites(cred, cred', auth)
    BY <1>2, ItemNow, UpdateConfirmedTracked DEF RowWrites
  <2>2. ASSUME NEW s \in Stays, Become(p, [l EXCEPT !.pc = "item_code", !.code = code[s]])
        PROVE  Tracked(p)
    <3>. DEFINE m == [l EXCEPT !.pc = "item_code", !.code = code[s]]
    <3>1. /\ m.pc = "item_code" /\ m.items = l.items /\ m.kind = l.kind /\ m.lock = l.lock
          /\ m.snap = l.snap
      BY TrackedNow DEF Local
    <3>2. Become(p, m)
      BY <2>2
    <3>. HIDE DEF m
    <3>3. LocalTracked(m, auth', cred')
      BY <1>a, <2>1, <3>1, HeldTracked, WithinTracked
    <3>. QED  BY <1>a, <2>1, <3>2, <3>3 DEF Tracked
  <2>. QED  BY <1>2, <1>a, <2>1, <2>2, AfterTracked
<1>3. CASE UpdateItem(p, x)
  BY <1>1, <1>2, <1>3 DEF UpdateItem
<1>4. CASE ProjectUpdateItem(p, x)
  BY <1>4, <1>a, AfterTracked DEF ProjectUpdateItem, RowWrites
<1>. QED  BY <1>3, <1>4

LEMMA PassStepTracked ==
  ASSUME TrackInv, SafetyInv', TypeOK', NEW p \in Procs, PassStep(p)
  PROVE  Tracked(p)
<1>. DEFINE l == proc[p]
<1>1. ASSUME NEW m, Become(p, m), LocalTracked(m, auth, cred), UNCHANGED <<auth, cred>>
      PROVE  Tracked(p)
  BY <1>1, CalmNow DEF Tracked, RowWrites
<1>2. CASE StartInlinePass(p)
  <2>. DEFINE m == [l EXCEPT !.pc = "snap", !.lock = lock, !.items = ListDue(l.kind)]
  <2>1. UNCHANGED <<auth, cred>> /\ l.pc = "list"
    BY <1>2 DEF StartInlinePass, dataVars, At
  <2>2. CASE Return(p)
    BY <1>1, <2>1, <2>2, IdleTracked DEF Return
  <2>3. CASE Become(p, m)
    <3>1. /\ m.pc = "snap" /\ m.kind = l.kind /\ m.items = ListDue(l.kind)
          /\ m.snap = l.snap /\ l.kind \in Kinds
      BY TrackedNow DEF Local
    <3>. HIDE DEF m
    <3>2. l.snap = {}
      BY <2>1, TrackedNow DEF LocalTracked, Reconciling
    <3>3. LocalTracked(m, auth, cred)
      BY <3>1, <3>2, DueTracked
    <3>. QED  BY <1>1, <2>1, <2>3, <3>3
  <2>. QED  BY <1>2, <2>2, <2>3 DEF StartInlinePass
<1>3. CASE TakeSnapshot(p)
  <2>. DEFINE m == [l EXCEPT !.pc = "item", !.snap = ListKeypadCodes(l.lock)]
  <2>1. UNCHANGED <<auth, cred>>
    BY <1>3 DEF TakeSnapshot, dataVars
  <2>2. CASE Return(p)
    BY <1>1, <2>1, <2>2, IdleTracked DEF Return
  <2>3. CASE Become(p, m)
    <3>1. /\ m.pc = "item" /\ m.kind = l.kind /\ m.items = l.items
          /\ m.snap = ListKeypadCodes(l.lock) /\ m.lock = l.lock
      BY TrackedNow DEF Local
    <3>. HIDE DEF m
    <3>2. \A o \in m.snap : auth[o.id].lock = m.lock
      BY <3>1 DEF ListKeypadCodes, Reachable
    <3>3. ASSUME NEW x \in m.items PROVE ItemTracked(m, x, auth, cred)
      <4>1. ItemTracked(l, x, auth, cred)
        BY <3>1, <3>3, TrackedNow DEF LocalTracked
      <4>. QED  BY <3>1, <4>1 DEF ItemTracked
    <3>4. LocalTracked(m, auth, cred)
      BY <3>1, <3>2, <3>3 DEF LocalTracked, Reconciling, Drawing, Updating
    <3>. QED  BY <1>1, <2>1, <2>3, <3>4
  <2>. QED  BY <1>3, <2>2, <2>3 DEF TakeSnapshot
<1>. QED  BY <1>2, <1>3, ClaimTracked, DecideTracked, ConfirmTracked, DeletionItemTracked,
             UpdateItemTracked DEF PassStep

-----------------------------------------------------------------------------
LEMMA TrackInit == Init => TrackInv /\ Managed!Init
<1>. SUFFICES ASSUME Init PROVE TrackInv /\ Managed!Init
  OBVIOUS
<1>1. \A i \in CredIds : Started(cred[i])
  BY DEF Init, DataInit, AbsentRow, Started
<1>2. Located(auth)
  BY DEF Init, DataInit, Located
<1>3. \A p \in Procs : LocalTracked(proc[p], auth, cred)
  BY IdleTracked DEF Init
<1>4. TrackInv
  BY <1>1, <1>2, <1>3, SafetyInit DEF TrackInv
<1>5. ManagedBound = [i \in CredIds |-> None]
  BY DEF Init, DataInit, ManagedBound, AbsentRow
<1>6. ManagedShown = {} /\ ManagedListed = {}
  BY DEF Init, DataInit, ManagedShown, ManagedListed
<1>7. [i \in CredIds |-> cred[i].state] = [i \in CredIds |-> "absent"]
  BY DEF Init, DataInit, AbsentRow
<1>8. Managed!Init
  BY <1>5, <1>6, <1>7 DEF Managed!Init
<1>. QED  BY <1>4, <1>8

LEMMA TrackNext ==
  TrackInv /\ [Next]_vars => TrackInv' /\ [Managed!Next]_(Managed!vars)
<1>. SUFFICES ASSUME TrackInv, [Next]_vars
              PROVE  TrackInv' /\ [Managed!Next]_(Managed!vars)
  OBVIOUS
<1>1. SafetyInv' /\ TypeOK'
  BY SafetyNext DEF TrackInv, SafetyInv
<1>2. ASSUME NEW p \in Procs, Begin(p) \/ Step(p) \/ Abort(p)
      PROVE  TrackInv' /\ [Managed!Next]_(Managed!vars)
  <2>1. CASE Abort(p)
    BY <2>1, CalmNow, ReturnTracked, <1>1, TrackedStep DEF Abort, dataVars, RowWrites
  <2>2. CASE Begin(p) \/ Step(p)
    BY <1>1, <2>2, BeginTracked, GenerateStepTracked, MaintainStepTracked, DeleteStepTracked,
       PassStepTracked, TrackedStep DEF Step
  <2>. QED  BY <1>2, <2>1, <2>2
<1>3. CASE UNCHANGED vars
  <2>1. RowWrites(cred, cred', auth) /\ AuthCalm(auth, auth') /\ Located(auth')
    BY <1>3, CalmNow DEF vars, dataVars, RowWrites
  <2>. QED  BY <1>1, <1>3, <2>1, TrackKept, WritesMap DEF vars, dataVars
<1>. QED  BY <1>1, <1>2, <1>3, EnvironmentTracked DEF Next

(* Whatever requests, passes, aborts, restarts and rebindings interleave,  *)
(* and however old what a goroutine knows when it writes, each write of a  *)
(* row in nuki_managed_credentials is one step of the lifecycle that the   *)
(* table promises, or none: a row is bound only to an identity its lock's  *)
(* inventory has shown, keeps it, is suspended only from a pending state,  *)
(* and is confirmed deleted only when the identity is no longer listed.    *)
THEOREM LifecycleImplemented == Spec => ImplementsManagedCredential
BY TrackInit, TrackNext, PTL DEF Spec, ImplementsManagedCredential, Managed!Spec

-----------------------------------------------------------------------------
(* An intent of the configured lock that the inventory does not show is    *)
(* left as it is: the write that should put it off, or at ReviewRevision   *)
(* to review (PMS 35, 4.2: "Preserve the intent and back off; after a      *)
(* documented bounded policy, expose needs_review"), compares with the     *)
(* revision before the claim, and revisions never go back.                 *)
UnmatchedStays ==
  [][\A p \in Procs : \A x \in proc[p].items :
       (DecideCreation(p, x) /\ ~OtherBinding(proc[p], x.row) /\ ~Correlates(x, proc[p]))
         => UNCHANGED cred]_vars

LEMMA DecisionMisses ==
  ASSUME SafetyInv, NEW p \in Procs, NEW x \in proc[p].items, DecideCreation(p, x),
         ~OtherBinding(proc[p], x.row), ~Correlates(x, proc[p])
  PROVE  UNCHANGED cred
<1>1. /\ proc[p] \in Local /\ LocalGood(proc[p], auth, cred)
      /\ proc[p].pc = "decide" /\ NextItem(proc[p], x)
  BY LocalNow DEF DecideCreation, Handling, At
<1>2. x.id \in CredIds /\ proc[p].rev \in Nat
  BY <1>1 DEF Local, Item
<1>3. cred[x.id].rev >= proc[p].rev /\ cred[x.id].rev \in Nat
  BY <1>1, <1>2, LocalNow DEF LocalGood, MatchingGood, CredRow
<1>4. ~OperationCurrent(x.id, proc[p].rev)
  BY <1>2, <1>3 DEF OperationCurrent
<1>. QED  BY <1>4 DEF DecideCreation, UpdateNukiManagedOperation

(* However often a pass claims and decides, and whoever else works on the  *)
(* row: ReconcilePendingNukiCreations never puts off an unmatched intent.  *)
THEOREM UnmatchedIntentsStay == Spec => UnmatchedStays
<1>1. SafetyInv /\ [Next]_vars =>
        [\A p \in Procs : \A x \in proc[p].items :
           (DecideCreation(p, x) /\ ~OtherBinding(proc[p], x.row) /\ ~Correlates(x, proc[p]))
             => UNCHANGED cred]_vars
  BY DecisionMisses
<1>. QED  BY <1>1, SafetyInit, SafetyNext, PTL DEF Spec, UnmatchedStays

-----------------------------------------------------------------------------
(* A client that is alone (OneClientOneAuthorization).  Every              *)
(* authorization that was ever requested is held by a row, no two rows are *)
(* about one stay, and so authorizations and stays are in one-to-one       *)
(* correspondence.  What keeps it so is where the client is when it is cut *)
(* off: the row is there before the request is sent and stays              *)
(* create_pending until the inventory has shown the authorization.         *)

Exists(row) == row.state # "absent"

LoneRow(row, b) ==
  /\ row.state \in {"absent", "create_pending", "active"}
  /\ Exists(row) => row.stay \in Stays /\ row.lock = b

LoneRows(c, b) ==
  /\ \A i \in CredIds : LoneRow(c[i], b)
  /\ \A i, j \in CredIds : (Exists(c[i]) /\ Exists(c[j]) /\ c[i].stay = c[j].stay) => i = j

Holds(row, r) ==
  \/ row.state = "create_pending" /\ row.pin = r
  \/ row.state = "active" /\ row.remote = r

Requested(a, r) == a[r].st \notin {"unused", "drawn"}

LoneAuths(c, a) == \A r \in Auths : Requested(a, r) => \E i \in CredIds : Holds(c[i], r)

(* The code of a stay has a row behind it; a code without identity has an  *)
(* intent behind it, so that a repeated Generate finds it pending.         *)
LoneCodes(c, k) ==
  \A s \in Stays :
    /\ k[s].status # "revoked"
    /\ k[s].status # "none" => \E i \in CredIds : Exists(c[i]) /\ c[i].stay = s
    /\ \A i \in CredIds : (c[i].state = "active" /\ c[i].stay = s) => k[s].ext # None

(* Where a client that is alone can be. *)
Sending == {"gen_create", "gen_accepted", "gen_project", "gen_link", "gen_failed",
            "gen_fail_project"}
Rewriting == {"gen_touch", "gen_update", "gen_updated", "gen_update_failed"}
Matching == {"snap", "item", "decide", "confirm"}
LonePCs == {"idle", "gen_intent", "gen_again", "list"} \cup Sending \cup Rewriting \cup Matching

LoneItems(l, c) ==
  \A x \in l.items :
    /\ c[x.id].state = "create_pending" /\ c[x.id].stay = x.row.stay
    /\ c[x.id].pin = x.row.pin /\ x.row.lock = l.lock
    /\ l.pc = "confirm" /\ NextItem(l, x) => l.auth = x.row.pin
    /\ \A y \in l.items : x.id = y.id => x = y

LoneLocal(l, c, k, b) ==
  /\ l.pc \in LonePCs
  /\ l.pc = "gen_intent" => l.stay \in Stays /\ l.lock = b
  /\ l.pc = "gen_again" => \E i \in CredIds : c[i].state = "create_pending" /\ c[i].stay = l.stay
  /\ l.pc \in Sending => /\ l.id \in CredIds /\ l.stay \in Stays
                          /\ c[l.id].state = "create_pending" /\ c[l.id].stay = l.stay
  /\ l.pc = "gen_create" => c[l.id].pin = l.auth
  /\ l.pc \in Rewriting => /\ l.stay \in Stays /\ l.code = k[l.stay]
                            /\ l.code.ext # None /\ l.code.status # "none"
  /\ l.pc \in {"list"} \cup Matching => l.kind = "creations"
  /\ l.pc = "snap" => l.lock = b
  /\ l.pc \in Matching => LoneItems(l, c)
  /\ l.pc = "confirm" => l.ok

OneBusy(f) == \A p, q \in Procs : (f[p].pc # "idle" /\ f[q].pc # "idle") => p = q

LoneInv ==
  /\ \A s \in Stays : stay[s].elig
  /\ LoneRows(cred, lock) /\ LoneAuths(cred, auth) /\ LoneCodes(cred, code)
  /\ \A p \in Procs : LoneLocal(proc[p], cred, code, lock)
  /\ OneBusy(proc)

CutOffInv == question = "cut off" => LoneInv

-----------------------------------------------------------------------------
(* What the invariant reads of the rows: not the revision, the retry time, *)
(* the acceptance or the link.                                             *)
SameRows(c, d) ==
  \A i \in CredIds :
    /\ d[i].state = c[i].state /\ d[i].stay = c[i].stay /\ d[i].lock = c[i].lock
    /\ d[i].remote = c[i].remote /\ d[i].pin = c[i].pin

LEMMA LoneStable ==
  ASSUME NEW c, NEW d, SameRows(c, d)
  PROVE  /\ \A b : LoneRows(c, b) => LoneRows(d, b)
         /\ \A a : LoneAuths(c, a) => LoneAuths(d, a)
         /\ \A k : LoneCodes(c, k) => LoneCodes(d, k)
<1>1. \A i \in CredIds : \A r : Holds(c[i], r) => Holds(d[i], r)
  BY DEF SameRows, Holds
<1>2. \A b : LoneRows(c, b) => LoneRows(d, b)
  BY DEF SameRows, LoneRows, LoneRow, Exists
<1>3. \A a : LoneAuths(c, a) => LoneAuths(d, a)
  BY <1>1 DEF LoneAuths
<1>4. \A k : LoneCodes(c, k) => LoneCodes(d, k)
  BY DEF SameRows, LoneCodes, Exists
<1>. QED  BY <1>2, <1>3, <1>4

LEMMA LoneLocalStable ==
  ASSUME NEW l \in Local, NEW c, NEW d, SameRows(c, d), NEW k, NEW b, LoneLocal(l, c, k, b)
  PROVE  LoneLocal(l, d, k, b)
<1>1. l.items \subseteq Item
  BY DEF Local
<1>2. LoneItems(l, c) => LoneItems(l, d)
  BY <1>1 DEF LoneItems, SameRows, Item
<1>3. l.pc \in Sending => l.id \in CredIds
  BY DEF LoneLocal
<1>. QED  BY <1>2, <1>3 DEF LoneLocal, SameRows, Sending

LEMMA LoneIdle == \A l, c, k, b : l.pc = "idle" => LoneLocal(l, c, k, b)
BY DEF LoneLocal, LonePCs, Sending, Rewriting, Matching

LEMMA LoneNow ==
  ASSUME SafetyInv, LoneInv, NEW p \in Procs
  PROVE  /\ proc[p] \in Local /\ LoneLocal(proc[p], cred, code, lock)
         /\ cred \in [CredIds -> CredRow] /\ code \in [Stays -> CodeRow]
         /\ auth \in [Auths -> AuthRow] /\ proc \in [Procs -> Local]
         /\ LocalGood(proc[p], auth, cred)
BY LocalNow, Parts DEF LoneInv, SafetyInv, ProcOK

(* What the second question of MCNukiSafety lets happen. *)
LoneStep ==
  /\ stay' = stay /\ lock' = lock /\ OneBusy(proc')
  /\ \A p \in Procs : proc'[p].pc # "idle" => p \in Requests /\ proc'[p].pc # "del_start"
  /\ \A p \in Procs : proc'[p].pc = "gen_fail_project" => proc[p].pc # "idle"

LEMMA AskedAlone ==
  ASSUME TypeOK', question = "cut off", Asked
  PROVE  LoneStep
<1>1. IdleProc.pc = "idle"
  BY DEF IdleProc
<1>2. \A p \in Procs : proc'[p].pc # "idle" => proc'[p] # IdleProc
  BY <1>1
<1>3. \A p \in Procs : proc'[p].pc # "idle" => p \in Requests
  BY <1>2 DEF Asked, Busy
<1>4. \A p \in Procs : proc'[p].pc = "gen_fail_project" => proc[p].pc # "idle"
  BY <1>3 DEF Asked, NoLongName
<1>. QED  BY <1>2, <1>4 DEF Asked, Busy, LoneStep, OneBusy

(* A step of the client: every other goroutine is idle, before and after.  *)
LEMMA ClientStep ==
  ASSUME SafetyInv, LoneInv, LoneStep, NEW p \in Procs, NEW m, Become(p, m),
         proc[p].pc # "idle" \/ m.pc # "idle",
         LoneRows(cred', lock'), LoneAuths(cred', auth'), LoneCodes(cred', code'),
         LoneLocal(m, cred', code', lock')
  PROVE  LoneInv'
<1>1. proc'[p] = m /\ \A q \in Procs : q # p => proc'[q] = proc[q]
  BY LoneNow DEF Become
<1>2. ASSUME NEW q \in Procs PROVE LoneLocal(proc'[q], cred', code', lock')
  <2>1. CASE q = p
    BY <1>1, <2>1
  <2>2. CASE q # p
    <3>1. proc'[q].pc = "idle"
      BY <1>1, <2>2 DEF LoneInv, LoneStep, OneBusy
    <3>. QED  BY <3>1, LoneIdle
  <2>. QED  BY <2>1, <2>2
<1>3. \A s \in Stays : stay'[s].elig
  BY DEF LoneInv, LoneStep
<1>. QED  BY <1>2, <1>3 DEF LoneInv, LoneStep

(* The same when the step writes nothing that the invariant reads. *)
LEMMA ClientMoves ==
  ASSUME SafetyInv, LoneInv, LoneStep, NEW p \in Procs, NEW m, Become(p, m),
         proc[p].pc # "idle" \/ m.pc # "idle",
         SameRows(cred, cred'), UNCHANGED code,
         \A r \in Auths : Requested(auth', r) => Requested(auth, r),
         LoneLocal(m, cred', code, lock)
  PROVE  LoneInv'
<1>1. LoneRows(cred, lock) /\ LoneAuths(cred, auth) /\ LoneCodes(cred, code) /\ lock' = lock
  BY DEF LoneInv, LoneStep
<1>2. LoneRows(cred', lock') /\ LoneCodes(cred', code') /\ LoneAuths(cred', auth)
  BY <1>1, LoneStable
<1>3. LoneAuths(cred', auth')
  BY <1>2 DEF LoneAuths
<1>4. LoneLocal(m, cred', code', lock')
  BY <1>1
<1>. QED  BY <1>2, <1>3, <1>4, ClientStep

LEMMA RowsSame == SameRows(cred, cred)
BY DEF SameRows

LEMMA ClientReturns ==
  ASSUME SafetyInv, LoneInv, LoneStep, NEW p \in Procs, Return(p), proc[p].pc # "idle",
         SameRows(cred, cred'), UNCHANGED code,
         \A r \in Auths : Requested(auth', r) => Requested(auth, r)
  PROVE  LoneInv'
<1>1. IdleProc.pc = "idle"
  BY DEF IdleProc
<1>. QED  BY <1>1, LoneIdle, ClientMoves DEF Return

(* A client that goes on within one of the groups of positions. *)
LEMMA LonePosition ==
  ASSUME NEW l \in Local, NEW c, NEW k, NEW b, LoneLocal(l, c, k, b), NEW pc,
         \/ l.pc \in Sending /\ pc \in Sending \ {"gen_create"}
         \/ l.pc \in Rewriting /\ pc \in Rewriting
  PROVE  LoneLocal([l EXCEPT !.pc = pc], c, k, b)
<1>. DEFINE m == [l EXCEPT !.pc = pc]
<1>1. m.pc = pc /\ m.id = l.id /\ m.stay = l.stay /\ m.code = l.code
  BY DEF Local
<1>. HIDE DEF m
<1>. QED  BY <1>1 DEF LoneLocal, LonePCs, Sending, Rewriting, Matching

LEMMA LoneGenerate ==
  ASSUME SafetyInv, LoneInv, LoneStep, NEW p \in Procs, NEW s \in Stays, Generate(p, s)
  PROVE  LoneInv'
<1>. DEFINE branch == GenerationBranch(code[s], stay[s].ver)
            l == [IdleProc EXCEPT !.pc = branch, !.stay = s, !.lock = lock,
                                  !.code = code[s], !.ver = stay[s].ver]
<1>1. /\ branch \in {"gen_intent", "gen_touch", "gen_update", "gen_again"}
      /\ branch \in {"gen_touch", "gen_update"} => code[s].ext # None /\ code[s].status # "none"
      /\ branch = "gen_again" => /\ code[s].status # "none"
                                 /\ code[s].ext = None \/ code[s].status = "revoked"
  BY DEF GenerationBranch
<1>2. branch = "gen_again" => \E i \in CredIds : cred[i].state = "create_pending" /\ cred[i].stay = s
  BY <1>1 DEF LoneInv, LoneCodes, LoneRows, LoneRow, Exists
<1>3. \A m : (m.pc = branch /\ m.stay = s /\ m.lock = lock /\ m.code = code[s])
              => LoneLocal(m, cred, code, lock)
  BY <1>1, <1>2 DEF LoneLocal, LonePCs, Sending, Rewriting, Matching
<1>4. l.pc = branch /\ l.stay = s /\ l.lock = lock /\ l.code = code[s]
  BY DEF IdleProc
<1>5. UNCHANGED <<code, cred>> /\ SameRows(cred, cred')
  BY DEF Generate, SameRows
<1>6. CASE branch \notin {"gen_intent", "gen_again"}
  <2>1. Become(p, l) /\ UNCHANGED auth
    BY <1>6 DEF Generate
  <2>. HIDE DEF l
  <2>2. LoneLocal(l, cred', code, lock)
    BY <1>3, <1>4, <1>5
  <2>. QED  BY <1>1, <1>4, <1>5, <2>1, <2>2, ClientMoves
<1>7. CASE branch \in {"gen_intent", "gen_again"}
  <2>. PICK r \in Auths : /\ auth[r].st = "unused"
                          /\ auth' = [auth EXCEPT ![r].st = "drawn"]
                          /\ Become(p, [l EXCEPT !.auth = r])
    BY <1>7 DEF Generate
  <2>. DEFINE m == [l EXCEPT !.auth = r]
  <2>1. m.pc = branch /\ m.stay = s /\ m.lock = lock /\ m.code = code[s]
    BY DEF IdleProc
  <2>2. \A q \in Auths : Requested(auth', q) => Requested(auth, q)
    BY LoneNow DEF AuthRow, Requested
  <2>3. Become(p, m)
    OBVIOUS
  <2>. HIDE DEF m, l
  <2>4. LoneLocal(m, cred', code, lock)
    BY <1>3, <1>5, <2>1
  <2>. QED  BY <1>1, <1>5, <2>1, <2>2, <2>3, <2>4, ClientMoves
<1>. QED  BY <1>6, <1>7

LEMMA LoneDiscard ==
  ASSUME SafetyInv, LoneInv, LoneStep, NEW p \in Procs, DiscardPin(p), UNCHANGED <<code, cred>>,
         proc[p].pc # "idle"
  PROVE  LoneInv'
<1>1. \A q \in Auths : Requested(auth', q) => Requested(auth, q)
  BY LoneNow DEF AuthRow, Requested, DiscardPin
<1>. QED  BY <1>1, ClientReturns, RowsSame DEF DiscardPin

(* The new row is the only one of its stay. *)
LEMMA LoneIntent ==
  ASSUME SafetyInv, LoneInv, LoneStep, NEW p \in Procs, CreateNukiManagedCredential(p)
  PROVE  LoneInv'
<1>. DEFINE l == proc[p]
            row == [AbsentRow EXCEPT !.state = "create_pending", !.rev = 1, !.stay = l.stay,
                                     !.lock = l.lock, !.pin = l.auth, !.ver = l.ver]
<1>1. /\ l \in Local /\ l.pc = "gen_intent" /\ l.stay \in Stays /\ l.lock = lock
      /\ UNCHANGED <<stay, code, lock>>
  BY LoneNow DEF CreateNukiManagedCredential, At, LoneLocal
<1>2. CASE DiscardPin(p) /\ UNCHANGED cred
  BY <1>1, <1>2, LoneDiscard
<1>3. ASSUME InsertAllowed(row), NEW i \in CredIds, Fresh(i), SetCred(i, row), UNCHANGED auth,
             Become(p, [l EXCEPT !.pc = "gen_create", !.id = i, !.rev = 1])
      PROVE  LoneInv'
  <2>. DEFINE m == [l EXCEPT !.pc = "gen_create", !.id = i, !.rev = 1]
  <2>1. m.pc = "gen_create" /\ m.id = i /\ m.stay = l.stay /\ m.auth = l.auth
    BY <1>1 DEF Local
  <2>2. row.state = "create_pending" /\ row.stay = l.stay /\ row.lock = lock /\ row.pin = l.auth
    BY <1>1 DEF AbsentRow
  <2>3. cred[i].state = "absent" /\ \A j \in CredIds : ~BlocksStay(cred[j], l.stay)
    BY <1>1, <1>3, <2>2, CredentialAssumption DEF InsertAllowed, Fresh
  <2>4. Become(p, m)
    BY <1>3
  <2>. HIDE DEF row, m
  <2>5. cred'[i] = row /\ \A j \in CredIds : j # i => cred'[j] = cred[j]
    BY <1>3, LoneNow DEF SetCred
  <2>6. \A j \in CredIds : cred[j].stay = l.stay => ~Exists(cred[j])
    BY <2>3 DEF LoneInv, LoneRows, LoneRow, BlocksStay, Exists
  <2>7. LoneRows(cred', lock)
    BY <1>1, <2>2, <2>5, <2>6 DEF LoneInv, LoneRows, LoneRow, Exists
  <2>8. LoneAuths(cred', auth)
    BY <2>3, <2>5 DEF LoneInv, LoneAuths, Holds
  <2>9. LoneCodes(cred', code)
    BY <2>2, <2>3, <2>5 DEF LoneInv, LoneCodes, Exists
  <2>10. LoneLocal(m, cred', code, lock)
    BY <1>1, <2>1, <2>2, <2>5 DEF LoneLocal, LonePCs, Sending, Rewriting, Matching
  <2>. QED  BY <1>1, <1>3, <2>1, <2>4, <2>7, <2>8, <2>9, <2>10, ClientStep
<1>. QED  BY <1>2, <1>3 DEF CreateNukiManagedCredential

(* The authorization that is requested is the one the intent names. *)
LEMMA LoneSend ==
  ASSUME SafetyInv, LoneInv, LoneStep, NEW p \in Procs, SendCreation(p)
  PROVE  LoneInv'
<1>. DEFINE l == proc[p]
<1>1. /\ l \in Local /\ l.pc = "gen_create" /\ LoneLocal(l, cred, code, lock)
      /\ l.id \in CredIds /\ cred[l.id].state = "create_pending" /\ cred[l.id].pin = l.auth
      /\ UNCHANGED <<stay, code, cred, lock>>
  BY LoneNow DEF SendCreation, At, LoneLocal, Sending
<1>2. PICK pc \in {"gen_accepted", "gen_failed"} : Goto(p, pc)
  BY DEF SendCreation, CreateAccess
<1>3. \A r \in Auths : r # l.auth => auth'[r] = auth[r]
  BY LoneNow DEF SendCreation, CreateAccess
<1>4. LoneAuths(cred, auth')
  BY <1>1, <1>3 DEF LoneInv, LoneAuths, Holds, Requested
<1>. DEFINE m == [l EXCEPT !.pc = pc]
<1>5. Become(p, m)
  BY <1>2, GotoIsBecome, Parts DEF SafetyInv
<1>6. LoneLocal(m, cred, code, lock)
  <2>1. l.pc \in Sending /\ pc \in Sending \ {"gen_create"}
    BY <1>1, <1>2 DEF Sending
  <2>. QED  BY <1>1, <2>1, LonePosition
<1>7. LoneRows(cred, lock) /\ LoneCodes(cred, code)
  BY DEF LoneInv
<1>. HIDE DEF m
<1>. QED  BY <1>1, <1>4, <1>5, <1>6, <1>7, ClientStep

(* A compare-and-set that leaves the intent in its state. *)
LEMMA IntentNoted ==
  ASSUME SafetyInv, NEW i, NEW rev, NEW later, NEW accepted,
         i \in CredIds => cred[i].state = "create_pending",
         UpdateNukiManagedOperation(i, "create_pending", rev, later, accepted)
  PROVE  SameRows(cred, cred')
<1>. DEFINE row == [cred[i] EXCEPT !.state = "create_pending", !.rev = rev, !.due = ~later,
                                   !.acc = @ \/ accepted]
<1>1. i \in CredIds => /\ row.state = cred[i].state /\ row.stay = cred[i].stay
                        /\ row.lock = cred[i].lock /\ row.remote = cred[i].remote
                        /\ row.pin = cred[i].pin
  BY RowType DEF SafetyInv, CredRow
<1>2. SetCred(i, row) \/ UNCHANGED cred
  BY DEF UpdateNukiManagedOperation
<1>. HIDE DEF row
<1>3. CASE SetCred(i, row)
  BY <1>1, <1>3, Parts DEF SafetyInv, CredOK, SetCred, SameRows
<1>. QED  BY <1>2, <1>3, RowsSame

LEMMA LoneRecord ==
  ASSUME SafetyInv, LoneInv, LoneStep, NEW p \in Procs,
         RecordAcceptance(p) \/ RecordFailure(p) \/ LinkProjection(p)
  PROVE  LoneInv'
<1>. DEFINE l == proc[p]
<1>1. /\ l \in Local /\ l.pc \in {"gen_accepted", "gen_failed", "gen_link"}
      /\ LoneLocal(l, cred, code, lock)
      /\ l.id \in CredIds /\ cred[l.id].state = "create_pending"
      /\ UNCHANGED <<stay, code, auth, lock>>
  BY LoneNow DEF RecordAcceptance, RecordFailure, LinkProjection, At, LoneLocal, Sending
<1>2. SameRows(cred, cred')
  <2>1. CASE RecordAcceptance(p)
    BY <1>1, <2>1, IntentNoted, RowsSame DEF RecordAcceptance
  <2>2. CASE RecordFailure(p)
    BY <1>1, <2>2, IntentNoted DEF RecordFailure
  <2>3. CASE LinkProjection(p)
    BY <2>3, LoneNow DEF LinkProjection, SetCred, SameRows, CredRow
  <2>. QED  BY <2>1, <2>2, <2>3
<1>3. \A r \in Auths : Requested(auth', r) => Requested(auth, r)
  BY <1>1
<1>4. CASE Return(p)
  BY <1>1, <1>2, <1>3, <1>4, ClientReturns
<1>5. ASSUME NEW pc \in {"gen_project", "gen_fail_project"}, Goto(p, pc)
      PROVE  LoneInv'
  <2>. DEFINE m == [l EXCEPT !.pc = pc]
  <2>1. Become(p, m)
    BY <1>5, GotoIsBecome, Parts DEF SafetyInv
  <2>2. m \in Local
    BY <1>1, <1>5 DEF Local, PCs
  <2>3. l.pc \in Sending /\ pc \in Sending \ {"gen_create"}
    BY <1>1, <1>5 DEF Sending
  <2>4. LoneLocal(m, cred, code, lock)
    BY <1>1, <2>3, LonePosition
  <2>. HIDE DEF m
  <2>5. LoneLocal(m, cred', code, lock)
    BY <1>2, <2>2, <2>4, LoneLocalStable
  <2>. QED  BY <1>1, <1>2, <1>3, <2>1, <2>5, ClientMoves
<1>6. CASE Become(p, [IdleProc EXCEPT !.pc = "list", !.lock = proc[p].lock])
  <2>. DEFINE m == [IdleProc EXCEPT !.pc = "list", !.lock = proc[p].lock]
  <2>1. m.pc = "list" /\ m.kind = "creations"
    BY DEF IdleProc
  <2>2. Become(p, m)
    BY <1>6
  <2>. HIDE DEF m
  <2>3. LoneLocal(m, cred', code, lock)
    BY <2>1 DEF LoneLocal, LonePCs, Sending, Rewriting, Matching
  <2>. QED  BY <1>1, <1>2, <1>3, <2>2, <2>3, ClientMoves
<1>. QED  BY <1>4, <1>5, <1>6 DEF RecordAcceptance, RecordFailure, LinkProjection

(* A code written for a stay with a row behind it, without identity only   *)
(* while the row is still an intent.                                       *)
LEMMA CodeRewritten ==
  ASSUME SafetyInv, LoneInv, NEW s \in Stays, NEW row, UpsertNukiCode(s, row),
         NEW i \in CredIds, Exists(cred[i]), cred[i].stay = s,
         row.status # "revoked", cred[i].state = "active" => row.ext # None
  PROVE  LoneCodes(cred, code')
<1>1. code'[s] = row /\ \A t \in Stays : t # s => code'[t] = code[t]
  BY LocalNow, Parts DEF SafetyInv, CodeOK, UpsertNukiCode
<1>2. \A j \in CredIds : cred[j].state = "active" /\ cred[j].stay = s => j = i
  BY DEF LoneInv, LoneRows, Exists
<1>. QED  BY <1>1, <1>2 DEF LoneInv, LoneCodes

LEMMA LoneProject ==
  ASSUME SafetyInv, LoneInv, LoneStep, NEW p \in Procs,
         ProjectPending(p) \/ ProjectFailure(p)
  PROVE  LoneInv'
<1>. DEFINE l == proc[p]
<1>1. /\ l \in Local /\ l.pc \in {"gen_project", "gen_fail_project"}
      /\ LoneLocal(l, cred, code, lock)
      /\ l.id \in CredIds /\ l.stay \in Stays
      /\ cred[l.id].state = "create_pending" /\ cred[l.id].stay = l.stay
      /\ UNCHANGED <<stay, cred, auth, lock>>
      /\ UpsertNukiCode(l.stay, PendingProjection(l.ver))
  BY LoneNow DEF ProjectPending, ProjectFailure, At, LoneLocal, Sending
<1>2. LoneCodes(cred, code')
  <2>1. PendingProjection(l.ver).status # "revoked"
    BY DEF PendingProjection
  <2>. QED  BY <1>1, <2>1, CodeRewritten DEF Exists
<1>3. LoneRows(cred, lock) /\ LoneAuths(cred, auth)
  BY DEF LoneInv
<1>4. CASE Return(p)
  <2>1. LoneLocal(IdleProc, cred', code', lock')
    BY LoneIdle DEF IdleProc
  <2>. QED  BY <1>1, <1>2, <1>3, <1>4, <2>1, ClientStep DEF Return
<1>5. CASE Goto(p, "gen_link")
  <2>. DEFINE m == [l EXCEPT !.pc = "gen_link"]
  <2>1. Become(p, m)
    BY <1>5, GotoIsBecome, Parts DEF SafetyInv
  <2>2. m.pc = "gen_link" /\ m.id = l.id /\ m.stay = l.stay
    BY <1>1 DEF Local
  <2>. HIDE DEF m
  <2>3. LoneLocal(m, cred, code', lock)
    BY <1>1, <2>2 DEF LoneLocal, LonePCs, Sending, Rewriting, Matching
  <2>. QED  BY <1>1, <1>2, <1>3, <2>1, <2>3, ClientStep
<1>. QED  BY <1>4, <1>5 DEF ProjectPending, ProjectFailure

(* An existing identity is written back. *)
LEMMA LoneRewrite ==
  ASSUME SafetyInv, LoneInv, LoneStep, NEW p \in Procs,
         TouchCode(p) \/ ProjectDirectUpdate(p)
  PROVE  LoneInv'
<1>. DEFINE l == proc[p]
<1>1. /\ l \in Local /\ l.pc \in Rewriting /\ l.stay \in Stays
      /\ l.code = code[l.stay] /\ l.code.ext # None /\ l.code.status # "none"
      /\ UNCHANGED <<stay, cred, auth, lock>> /\ Return(p) /\ l.pc # "idle"
  BY LoneNow DEF TouchCode, ProjectDirectUpdate, At, LoneLocal, Rewriting
<1>2. PICK row : UpsertNukiCode(l.stay, row) /\ row.status # "revoked" /\ row.ext # None
  <2>1. l.code \in CodeRow /\ l.code.status # "revoked"
    BY <1>1 DEF LoneInv, LoneCodes, Local
  <2>2. CASE TouchCode(p)
    BY <1>1, <2>1, <2>2 DEF TouchCode
  <2>3. CASE ProjectDirectUpdate(p)
    <3>. DEFINE row == [l.code EXCEPT !.ver = l.ver,
                          !.status = IF At(p, "gen_updated") THEN "generated" ELSE "not_generated"]
    <3>1. row.status \in {"generated", "not_generated"} /\ row.ext = l.code.ext
      BY <2>1 DEF CodeRow
    <3>2. UpsertNukiCode(l.stay, row)
      BY <2>3 DEF ProjectDirectUpdate
    <3>. HIDE DEF row
    <3>. QED  BY <1>1, <3>1, <3>2
  <2>. QED  BY <2>2, <2>3
<1>3. PICK i \in CredIds : Exists(cred[i]) /\ cred[i].stay = l.stay
  BY <1>1 DEF LoneInv, LoneCodes
<1>4. LoneCodes(cred, code')
  BY <1>1, <1>2, <1>3, CodeRewritten
<1>5. LoneLocal(IdleProc, cred', code', lock')
  BY LoneIdle DEF IdleProc
<1>6. LoneRows(cred, lock) /\ LoneAuths(cred, auth)
  BY DEF LoneInv
<1>. QED  BY <1>1, <1>4, <1>5, <1>6, ClientStep DEF Return

(* A direct update tells the provider about an authorization it has. *)
LEMMA LoneUpdate ==
  ASSUME SafetyInv, LoneInv, LoneStep, NEW p \in Procs, SendDirectUpdate(p)
  PROVE  LoneInv'
<1>. DEFINE l == proc[p]
<1>1. /\ l \in Local /\ l.pc = "gen_update" /\ LoneLocal(l, cred, code, lock)
      /\ UNCHANGED <<stay, code, cred, lock>>
  BY LoneNow DEF SendDirectUpdate, At
<1>2. PICK pc \in {"gen_updated", "gen_update_failed"} : Goto(p, pc)
  BY DEF SendDirectUpdate, UpdateAccess
<1>3. \A r \in Auths : auth'[r].st = auth[r].st
  BY LoneNow DEF SendDirectUpdate, UpdateAccess, AuthRow
<1>4. \A r \in Auths : Requested(auth', r) => Requested(auth, r)
  BY <1>3 DEF Requested
<1>. DEFINE m == [l EXCEPT !.pc = pc]
<1>5. Become(p, m)
  BY <1>2, GotoIsBecome, Parts DEF SafetyInv
<1>6. LoneLocal(m, cred, code, lock)
  <2>1. l.pc \in Rewriting /\ pc \in Rewriting
    BY <1>1, <1>2 DEF Rewriting
  <2>. QED  BY <1>1, <2>1, LonePosition
<1>. HIDE DEF m
<1>. QED  BY <1>1, <1>4, <1>5, <1>6, RowsSame, ClientMoves

(* A code without identity has an intent behind it: nothing is sent. *)
LEMMA LoneCheck ==
  ASSUME SafetyInv, LoneInv, LoneStep, NEW p \in Procs, CheckPending(p)
  PROVE  LoneInv'
<1>1. proc[p].pc = "gen_again" /\ LoneLocal(proc[p], cred, code, lock)
  BY LoneNow DEF CheckPending, At
<1>2. HasPendingNukiManagedCredentialForStay(proc[p].stay)
  BY <1>1 DEF LoneLocal, HasPendingNukiManagedCredentialForStay
<1>. QED  BY <1>1, <1>2, LoneDiscard DEF CheckPending

(* Where a client that is alone never is. *)
LEMMA LoneElsewhere ==
  ASSUME SafetyInv, LoneInv, NEW p \in Procs
  PROVE  ~(SendRecreation(p) \/ ProjectRecreation(p) \/ MaintainStep(p) \/ DeleteStep(p))
<1>1. proc[p].pc \in LonePCs
  BY LoneNow DEF LoneLocal
<1>2. ~(SendRecreation(p) \/ ProjectRecreation(p))
  BY <1>1 DEF SendRecreation, ProjectRecreation, At, LonePCs, Sending, Rewriting, Matching
<1>3. ~MaintainStep(p)
  BY <1>1 DEF MaintainStep, MaintainNamedStay, StartUpdate, SendUpdate, ProjectUpdateError,
              RecordUnconfirmedUpdate, ObserveUpdate, ConfirmUpdate, ProjectUpdate, At,
              LonePCs, Sending, Rewriting, Matching
<1>4. ~DeleteStep(p)
  BY <1>1 DEF DeleteStep, StartNukiManagedDeletion, ReadDeletion, SendDeletion,
              RecordDeletionError, RecordDeletionAccepted, At,
              LonePCs, Sending, Rewriting, Matching
<1>. QED  BY <1>2, <1>3, <1>4

-----------------------------------------------------------------------------
(* The passes of a client that is alone. *)
LEMMA LoneDue ==
  ASSUME SafetyInv, LoneInv, NEW k \in Kinds, ListDue(k) # {}
  PROVE  /\ k = "creations"
         /\ \A x \in ListDue(k) : /\ x.id \in CredIds /\ x.row = cred[x.id]
                                   /\ x.row.state = "create_pending" /\ x.row.lock = lock
                                   /\ \A y \in ListDue(k) : x.id = y.id => x = y
<1>1. ASSUME NEW x \in ListDue(k)
      PROVE  x.id \in CredIds /\ x.row = cred[x.id] /\ cred[x.id].state = PendingState[k]
  BY <1>1 DEF ListDue
<1>2. \A x \in ListDue(k) : cred[x.id].state \in {"absent", "create_pending", "active"}
                           /\ (cred[x.id].state = "create_pending" => cred[x.id].lock = lock)
  BY <1>1 DEF LoneInv, LoneRows, LoneRow, Exists
<1>3. k = "creations"
  <2>1. PendingState["deletions"] = "delete_pending" /\ PendingState["updates"] = "update_pending"
    BY DEF PendingState
  <2>. QED  BY <1>1, <1>2, <2>1 DEF Kinds
<1>4. PendingState["creations"] = "create_pending"
  BY DEF PendingState
<1>5. \A x, y \in ListDue(k) : x.id = y.id => x = y
  BY DEF ListDue
<1>. QED  BY <1>1, <1>2, <1>3, <1>4, <1>5

LEMMA LoneBegunItems ==
  ASSUME SafetyInv, LoneInv, NEW k \in Kinds, ListDue(k) # {}, NEW m,
         m.pc = "snap", m.kind = k, m.lock = lock, m.items = ListDue(k)
  PROVE  LoneLocal(m, cred, code, lock)
<1>1. LoneItems(m, cred)
  BY LoneDue DEF LoneItems
<1>. QED  BY <1>1, LoneDue DEF LoneLocal, LonePCs, Sending, Rewriting, Matching

LEMMA LoneStartPass ==
  ASSUME SafetyInv, LoneInv, LoneStep, NEW p \in Procs,
         StartInlinePass(p) \/ \E k \in Kinds : StartPass(p, k)
  PROVE  LoneInv'
<1>0. /\ proc[p] \in Local /\ LoneLocal(proc[p], cred, code, lock)
      /\ UNCHANGED <<stay, code, cred, auth, lock>>
  BY LoneNow DEF StartInlinePass, StartPass, dataVars
<1>1. \A r \in Auths : Requested(auth', r) => Requested(auth, r)
  BY <1>0
<1>2. ASSUME NEW k \in Kinds, StartPass(p, k) PROVE LoneInv'
  <2>. DEFINE m == [IdleProc EXCEPT !.pc = "snap", !.kind = k, !.lock = lock, !.items = ListDue(k)]
  <2>1. m.pc = "snap" /\ m.kind = k /\ m.lock = lock /\ m.items = ListDue(k)
    BY DEF IdleProc
  <2>2. Become(p, m) /\ ListDue(k) # {}
    BY <1>2 DEF StartPass
  <2>. HIDE DEF m
  <2>3. LoneLocal(m, cred, code, lock)
    BY <2>1, <2>2, LoneBegunItems
  <2>. QED  BY <1>0, <1>1, <2>1, <2>2, <2>3, RowsSame, ClientMoves
<1>3. CASE StartInlinePass(p)
  <2>. DEFINE k == proc[p].kind
              m == [proc[p] EXCEPT !.pc = "snap", !.lock = lock, !.items = ListDue(k)]
  <2>1. k \in Kinds /\ proc[p].pc = "list"
    BY <1>0, <1>3 DEF Local, StartInlinePass, At
  <2>2. CASE Return(p)
    BY <1>0, <1>1, <2>1, <2>2, RowsSame, ClientReturns
  <2>3. CASE Become(p, m) /\ ListDue(k) # {}
    <3>1. m.pc = "snap" /\ m.kind = k /\ m.lock = lock /\ m.items = ListDue(k)
      BY <1>0 DEF Local
    <3>. HIDE DEF m
    <3>2. LoneLocal(m, cred, code, lock)
      BY <2>1, <2>3, <3>1, LoneBegunItems
    <3>. QED  BY <1>0, <1>1, <2>1, <2>3, <3>2, RowsSame, ClientMoves
  <2>. QED  BY <1>3, <2>2, <2>3 DEF StartInlinePass
<1>. QED  BY <1>2, <1>3

LEMMA LoneSnapshot ==
  ASSUME SafetyInv, LoneInv, LoneStep, NEW p \in Procs, TakeSnapshot(p)
  PROVE  LoneInv'
<1>. DEFINE l == proc[p]
            m == [l EXCEPT !.pc = "item", !.snap = ListKeypadCodes(l.lock)]
<1>1. /\ l \in Local /\ l.pc = "snap" /\ LoneLocal(l, cred, code, lock)
      /\ UNCHANGED <<stay, code, cred, auth, lock>>
  BY LoneNow DEF TakeSnapshot, At, dataVars
<1>2. \A r \in Auths : Requested(auth', r) => Requested(auth, r)
  BY <1>1
<1>3. CASE Return(p)
  BY <1>1, <1>2, <1>3, RowsSame, ClientReturns
<1>4. CASE Become(p, m)
  <2>1. m.pc = "item" /\ m.kind = l.kind /\ m.lock = l.lock /\ m.items = l.items
    BY <1>1 DEF Local
  <2>. HIDE DEF m
  <2>2. LoneItems(m, cred)
    BY <1>1, <2>1 DEF LoneLocal, Matching, LoneItems
  <2>3. LoneLocal(m, cred, code, lock)
    BY <1>1, <2>1, <2>2 DEF LoneLocal, LonePCs, Sending, Rewriting, Matching
  <2>. QED  BY <1>1, <1>2, <1>4, <2>3, RowsSame, ClientMoves
<1>. QED  BY <1>3, <1>4 DEF TakeSnapshot

(* What a client knows of the row it handles. *)
LEMMA LoneItemNow ==
  ASSUME SafetyInv, LoneInv, NEW p \in Procs, NEW x \in proc[p].items,
         proc[p].pc \in {"item", "decide", "confirm"}
  PROVE  /\ x.id \in CredIds /\ cred[x.id] \in CredRow /\ x.row \in CredRow
         /\ cred[x.id].state = "create_pending" /\ cred[x.id].stay = x.row.stay
         /\ cred[x.id].pin = x.row.pin /\ x.row.lock = proc[p].lock
         /\ \A y \in proc[p].items : x.id = y.id => x = y
         /\ proc[p].kind = "creations"
<1>1. x \in Item
  BY LoneNow DEF Local
<1>2. LoneItems(proc[p], cred) /\ proc[p].kind = "creations"
  BY LoneNow DEF LoneLocal, Matching
<1>. QED  BY <1>1, <1>2, LoneNow DEF LoneItems, Item

(* The client has dealt with a row; no other row has changed. *)
LEMMA LoneAfter ==
  ASSUME SafetyInv, LoneInv, NEW p \in Procs, NEW x \in proc[p].items,
         proc[p].pc \in {"item", "decide", "confirm"}, NEW d, NEW k, NEW b,
         \A i \in CredIds : i # x.id => d[i] = cred[i]
  PROVE  LoneLocal(After(proc[p], x), d, k, b)
<1>. DEFINE l == proc[p]
            m == [l EXCEPT !.pc = "item", !.items = @ \ {x}]
<1>1. CASE After(l, x) = IdleProc
  BY <1>1, LoneIdle DEF IdleProc
<1>2. CASE After(l, x) = m
  <2>1. m.pc = "item" /\ m.kind = l.kind /\ m.lock = l.lock /\ m.items = l.items \ {x}
    BY LoneNow DEF Local
  <2>2. \A y \in l.items : /\ y.id \in CredIds /\ cred[y.id].state = "create_pending"
                           /\ cred[y.id].stay = y.row.stay /\ cred[y.id].pin = y.row.pin
                           /\ y.row.lock = l.lock /\ l.kind = "creations"
                           /\ \A z \in l.items : y.id = z.id => y = z
    BY LoneItemNow
  <2>. HIDE DEF m
  <2>3. LoneItems(m, d)
    BY <2>1, <2>2 DEF LoneItems
  <2>4. LoneLocal(m, d, k, b)
    BY <2>1, <2>2, <2>3 DEF LoneLocal, LonePCs, Sending, Rewriting, Matching
  <2>. QED  BY <1>2, <2>4
<1>. QED  BY <1>1, <1>2 DEF After

LEMMA LoneClaim ==
  ASSUME SafetyInv, LoneInv, LoneStep, NEW p \in Procs, NEW x \in proc[p].items, ClaimItem(p, x)
  PROVE  LoneInv'
<1>. DEFINE l == proc[p]
<1>1. /\ l \in Local /\ l.pc = "item" /\ LoneLocal(l, cred, code, lock)
      /\ UNCHANGED <<stay, code, auth, lock>>
  BY LoneNow DEF ClaimItem, Handling, At
<1>2. \A r \in Auths : Requested(auth', r) => Requested(auth, r)
  BY <1>1
<1>3. /\ \A i \in CredIds : i # x.id => cred'[i] = cred[i]
      /\ SameRows(cred, cred')
  BY LoneNow, LoneItemNow, <1>1 DEF ClaimItem, ClaimNukiManagedCreation, SetCred, SameRows, CredRow
<1>4. CASE Become(p, After(l, x))
  <2>1. LoneLocal(After(l, x), cred', code, lock)
    BY <1>1, <1>3, LoneAfter
  <2>. QED  BY <1>1, <1>2, <1>3, <1>4, <2>1, ClientMoves
<1>5. CASE Become(p, [l EXCEPT !.pc = "decide", !.rev = x.row.rev + 1])
  <2>. DEFINE m == [l EXCEPT !.pc = "decide", !.rev = x.row.rev + 1]
  <2>1. m.pc = "decide" /\ m.kind = l.kind /\ m.lock = l.lock /\ m.items = l.items
    BY <1>1 DEF Local
  <2>2. m \in Local
    <3>1. x.row.rev + 1 \in Nat
      BY <1>1, LoneItemNow DEF CredRow
    <3>. QED  BY <1>1, <3>1 DEF Local, PCs
  <2>. HIDE DEF m
  <2>3. LoneItems(m, cred)
    BY <1>1, <2>1 DEF LoneLocal, Matching, LoneItems
  <2>4. LoneLocal(m, cred, code, lock)
    BY <1>1, <2>1, <2>3 DEF LoneLocal, LonePCs, Sending, Rewriting, Matching
  <2>5. LoneLocal(m, cred', code, lock)
    BY <1>3, <2>2, <2>4, LoneLocalStable
  <2>6. Become(p, m)
    BY <1>5 DEF m
  <2>. QED  BY <1>1, <1>2, <1>3, <2>5, <2>6, ClientMoves
<1>. QED  BY <1>4, <1>5 DEF ClaimItem

(* An intent that is not matched is left as it is. *)
LEMMA LoneDecide ==
  ASSUME SafetyInv, LoneInv, LoneStep, NEW p \in Procs, NEW x \in proc[p].items,
         DecideCreation(p, x)
  PROVE  LoneInv'
<1>. DEFINE l == proc[p]
<1>1. /\ l \in Local /\ l.pc = "decide" /\ LoneLocal(l, cred, code, lock) /\ NextItem(l, x)
      /\ UNCHANGED <<stay, code, auth, lock>>
  BY LoneNow DEF DecideCreation, Handling, At
<1>2. \A r \in Auths : Requested(auth', r) => Requested(auth, r)
  BY <1>1
<1>3. ~OtherBinding(l, x.row)
  BY <1>1, LoneItemNow DEF OtherBinding
<1>4. CASE Become(p, After(l, x)) /\ ~Correlates(x, l)
  <2>1. UNCHANGED cred
    BY <1>3, <1>4, DecisionMisses
  <2>2. LoneLocal(After(l, x), cred, code, lock)
    BY <1>1, LoneAfter
  <2>. QED  BY <1>1, <1>2, <1>4, <2>1, <2>2, RowsSame, ClientMoves
<1>5. ASSUME NEW s \in Stays, UNCHANGED cred,
             Become(p, [l EXCEPT !.pc = "confirm", !.auth = x.row.pin,
                                 !.code = code[s], !.ok = stay[s].elig])
      PROVE  LoneInv'
  <2>. DEFINE m == [l EXCEPT !.pc = "confirm", !.auth = x.row.pin,
                             !.code = code[s], !.ok = stay[s].elig]
  <2>1. /\ m.pc = "confirm" /\ m.kind = l.kind /\ m.lock = l.lock /\ m.items = l.items
        /\ m.auth = x.row.pin /\ m.ok
    BY <1>1 DEF Local, LoneInv
  <2>2. Become(p, m)
    BY <1>5
  <2>. HIDE DEF m
  <2>3. \A y \in l.items : NextItem(m, y) => y = x
    <3>1. \A y \in l.items : NextItem(m, y) => NextItem(l, y)
      BY <2>1 DEF NextItem
    <3>. QED  BY <1>1, <3>1, NextOnce, LoneItemNow
  <2>4. LoneItems(m, cred)
    BY <1>1, <2>1, <2>3 DEF LoneLocal, Matching, LoneItems
  <2>5. LoneLocal(m, cred, code, lock)
    BY <1>1, <2>1, <2>4 DEF LoneLocal, LonePCs, Sending, Rewriting, Matching
  <2>. QED  BY <1>1, <1>2, <1>5, <2>2, <2>5, RowsSame, ClientMoves
<1>. QED  BY <1>3, <1>4, <1>5 DEF DecideCreation

(* The row goes from holding the authorization as an intent to holding it  *)
(* as its identity, and the code of the stay gets the identity with it.    *)
LEMMA LoneConfirm ==
  ASSUME SafetyInv, LoneInv, LoneStep, NEW p \in Procs, NEW x \in proc[p].items,
         ConfirmItem(p, x)
  PROVE  LoneInv'
<1>. DEFINE l == proc[p]
            i == x.id
            had == l.code.status # "none"
<1>1. /\ l \in Local /\ l.pc = "confirm" /\ LoneLocal(l, cred, code, lock) /\ NextItem(l, x)
      /\ UNCHANGED <<stay, auth, lock>> /\ Become(p, After(l, x))
  BY LoneNow DEF ConfirmItem, Handling, At
<1>2. /\ i \in CredIds /\ cred[i] \in CredRow /\ cred[i].state = "create_pending"
      /\ l.auth = cred[i].pin /\ l.ok /\ l.auth \in Auths
  BY <1>1, LoneItemNow, LoneNow DEF LoneLocal, Matching, LoneItems, LocalGood, MatchingGood
<1>3. cred[i].stay \in Stays /\ cred[i].lock = lock
  BY <1>2 DEF LoneInv, LoneRows, LoneRow, Exists
<1>4. CASE UNCHANGED <<cred, code>>
  <2>1. LoneLocal(After(l, x), cred, code, lock)
    BY <1>1, LoneAfter
  <2>. QED  BY <1>1, <1>4, <2>1, RowsSame, ClientMoves
<1>5. CASE ConfirmNukiManagedCreation(i, l.rev, l.auth, had, l.ok)
  <2>. DEFINE row == [cred[i] EXCEPT !.state = IF l.ok THEN "active" ELSE "delete_pending",
                        !.rev = l.rev + 1, !.remote = l.auth, !.pin = None,
                        !.link = had, !.due = TRUE, !.acc = TRUE]
              shown == [status |-> IF l.ok THEN "generated" ELSE "revoked", ext |-> l.auth,
                        pin |-> IF l.ok THEN cred[i].pin ELSE None, ver |-> cred[i].ver]
  <2>1. /\ row.state = "active" /\ row.remote = l.auth
        /\ row.stay = cred[i].stay /\ row.lock = lock
    BY <1>2, <1>3 DEF CredRow
  <2>2. shown.status = "generated" /\ shown.ext # None
    BY <1>2, CredentialAssumption
  <2>3. cred' = [cred EXCEPT ![i] = row] /\ code' = [code EXCEPT ![cred[i].stay] = shown]
    BY <1>5 DEF ConfirmNukiManagedCreation, SetCred
  <2>. HIDE DEF row, shown
  <2>4. cred'[i] = row /\ \A j \in CredIds : j # i => cred'[j] = cred[j]
    BY <1>2, <2>3, LoneNow
  <2>5. code'[cred[i].stay] = shown /\ \A s \in Stays : s # cred[i].stay => code'[s] = code[s]
    BY <1>3, <2>3, LoneNow
  <2>6. LoneRows(cred', lock)
    BY <1>2, <1>3, <2>1, <2>4 DEF LoneInv, LoneRows, LoneRow, Exists
  <2>7. LoneAuths(cred', auth)
    <3>1. \A j \in CredIds, r \in Auths : Holds(cred[j], r) => Holds(cred'[j], r)
      BY <1>2, <2>1, <2>4 DEF Holds
    <3>. QED  BY <3>1 DEF LoneInv, LoneAuths
  <2>8. LoneCodes(cred', code')
    <3>1. ASSUME NEW s \in Stays
          PROVE  /\ code'[s].status # "revoked"
                 /\ code'[s].status # "none" => \E j \in CredIds : Exists(cred'[j]) /\ cred'[j].stay = s
                 /\ \A j \in CredIds : (cred'[j].state = "active" /\ cred'[j].stay = s)
                                         => code'[s].ext # None
      <4>1. CASE s = cred[i].stay
        BY <1>2, <2>1, <2>2, <2>4, <2>5, <4>1 DEF Exists
      <4>2. CASE s # cred[i].stay
        BY <1>2, <2>1, <2>4, <2>5, <4>2 DEF LoneInv, LoneCodes, Exists
      <4>. QED  BY <4>1, <4>2
    <3>. QED  BY <3>1 DEF LoneCodes
  <2>9. LoneLocal(After(l, x), cred', code', lock)
    BY <1>1, <2>4, LoneAfter
  <2>. QED  BY <1>1, <2>6, <2>7, <2>8, <2>9, ClientStep
<1>. QED  BY <1>4, <1>5 DEF ConfirmItem

LEMMA LonePassStep ==
  ASSUME SafetyInv, LoneInv, LoneStep, NEW p \in Procs, PassStep(p)
  PROVE  LoneInv'
<1>1. ASSUME NEW x \in proc[p].items
      PROVE  ~(\/ DeletionItem(p, x) \/ RecordDeletionItem(p, x)
               \/ UpdateItem(p, x) \/ ProjectUpdateItem(p, x))
  <2>1. proc[p].pc \in LonePCs /\ (proc[p].pc = "item" => proc[p].kind = "creations")
    BY LoneNow DEF LoneLocal, Matching
  <2>. QED  BY <2>1 DEF DeletionItem, RecordDeletionItem, UpdateItem, ProjectUpdateItem, Handling,
                        At, LonePCs, Sending, Rewriting, Matching
<1>. QED  BY <1>1, LoneStartPass, LoneSnapshot, LoneClaim, LoneDecide, LoneConfirm DEF PassStep

LEMMA LoneGenerateStep ==
  ASSUME SafetyInv, LoneInv, LoneStep, NEW p \in Procs, GenerateStep(p)
  PROVE  LoneInv'
BY LoneIntent, LoneSend, LoneRecord, LoneProject, LoneRewrite, LoneUpdate, LoneCheck,
   LoneElsewhere DEF GenerateStep

(* Nothing but a pass and Generate, for a name that fits, can begin.       *)
LEMMA LoneBegin ==
  ASSUME SafetyInv, LoneInv, LoneStep, NEW p \in Procs, Begin(p)
  PROVE  LoneInv'
<1>1. ASSUME NEW s \in Stays PROVE ~EditStay(p, s)
  <2>. SUFFICES ASSUME EditStay(p, s) PROVE FALSE
    OBVIOUS
  <2>. PICK e \in BOOLEAN, v \in Vers :
         /\ <<e, v>> # <<stay[s].elig, stay[s].ver>>
         /\ stay' = [stay EXCEPT ![s].elig = e, ![s].ver = v]
    BY DEF EditStay
  <2>1. stay \in [Stays -> StayRow]
    BY Parts DEF SafetyInv, StayOK
  <2>2. stay'[s].elig = e /\ stay'[s].ver = v
    BY <2>1 DEF StayRow
  <2>. QED  BY <2>2 DEF LoneStep
<1>2. ASSUME NEW s \in Stays PROVE ~RevokeCode(p, s) /\ ~CleanupExpiredCodes(p, s)
  <2>. DEFINE m == [IdleProc EXCEPT !.pc = "del_start", !.stay = s, !.lock = lock, !.code = code[s]]
  <2>1. m.pc = "del_start"
    BY DEF IdleProc
  <2>. HIDE DEF m
  <2>2. ~Become(p, m)
    <3>. SUFFICES ASSUME Become(p, m) PROVE FALSE
      OBVIOUS
    <3>1. proc'[p] = m
      BY LoneNow DEF Become
    <3>. QED  BY <2>1, <3>1 DEF LoneStep
  <2>. QED  BY <2>2 DEF RevokeCode, CleanupExpiredCodes, m
<1>3. ASSUME NEW s \in Stays PROVE ~RefuseLongName(p, s)
  <2>. DEFINE m == [IdleProc EXCEPT !.pc = "gen_fail_project", !.stay = s, !.ver = stay[s].ver]
  <2>1. m.pc = "gen_fail_project"
    BY DEF IdleProc
  <2>. HIDE DEF m
  <2>2. SUFFICES ASSUME Become(p, m), proc[p].pc = "idle" PROVE FALSE
    BY DEF RefuseLongName, At, m
  <2>3. proc'[p] = m
    BY <2>2, LoneNow DEF Become
  <2>. QED  BY <2>1, <2>2, <2>3 DEF LoneStep
<1>. QED  BY <1>1, <1>2, <1>3, LoneGenerate, LoneStartPass DEF Begin

LEMMA LoneEnvironment ==
  ASSUME SafetyInv, LoneInv, LoneStep, Environment
  PROVE  LoneInv'
<1>1. /\ SameRows(cred, cred') /\ UNCHANGED <<code, proc>>
      /\ \A r \in Auths : Requested(auth', r) => Requested(auth, r)
  <2>1. ASSUME NEW s \in Stays, UpdateFinanceMatchedStayName(s) \/ Expire(s)
        PROVE  UNCHANGED <<code, cred, auth, proc>>
    BY <2>1 DEF UpdateFinanceMatchedStayName, Expire
  <2>2. ASSUME NEW i \in CredIds, RetryDue(i)
        PROVE  SameRows(cred, cred') /\ UNCHANGED <<code, auth, proc>>
    BY <2>2, LocalNow, Parts DEF RetryDue, SetCred, SameRows, SafetyInv, CredOK, CredRow
  <2>3. ASSUME NEW k \in Locks, Rebind(k)
        PROVE  UNCHANGED <<code, cred, auth, proc>>
    BY <2>3 DEF Rebind
  <2>4. CASE ProviderStep
    <3>. PICK r \in Auths : ApplyCreate(r) \/ ApplyUpdate(r) \/ ApplyDelete(r)
      BY <2>4 DEF ProviderStep
    <3>1. UNCHANGED <<code, cred, proc>> /\ Requested(auth, r)
      BY DEF ApplyCreate, ApplyUpdate, ApplyDelete, Requested
    <3>2. \A q \in Auths : q # r => auth'[q] = auth[q]
      BY Parts DEF SafetyInv, AuthOK, ApplyCreate, ApplyUpdate, ApplyDelete
    <3>. QED  BY <3>1, <3>2, RowsSame DEF Requested
  <2>. QED  BY <2>1, <2>2, <2>3, <2>4, RowsSame DEF Environment
<1>2. LoneRows(cred', lock') /\ LoneCodes(cred', code') /\ LoneAuths(cred', auth)
  BY <1>1, LoneStable DEF LoneInv, LoneStep
<1>3. LoneAuths(cred', auth')
  BY <1>1, <1>2 DEF LoneAuths
<1>4. \A p \in Procs : LoneLocal(proc'[p], cred', code', lock')
  BY <1>1, LoneNow, LoneLocalStable DEF LoneStep
<1>. QED  BY <1>2, <1>3, <1>4 DEF LoneInv, LoneStep

LEMMA LoneInit == Init => LoneInv
<1>. SUFFICES ASSUME Init PROVE LoneInv
  OBVIOUS
<1>1. \A i \in CredIds : cred[i].state = "absent"
  BY DEF Init, DataInit, AbsentRow
<1>2. \A s \in Stays : stay[s].elig /\ code[s].status = "none"
  BY DEF Init, DataInit, NoCode
<1>3. \A p \in Procs : proc[p].pc = "idle"
  BY DEF Init, IdleProc
<1>4. \A r \in Auths : ~Requested(auth, r)
  BY DEF Init, DataInit, Requested
<1>. QED  BY <1>1, <1>2, <1>3, <1>4, LoneIdle
          DEF LoneInv, LoneRows, LoneRow, LoneAuths, LoneCodes, OneBusy, Exists

LEMMA LoneNext ==
  ASSUME SafetyInv, CutOffInv, TypeOK', [MCNext]_<<vars, question>>
  PROVE  CutOffInv'
<1>. SUFFICES ASSUME question' = "cut off" PROVE LoneInv'
  BY DEF CutOffInv
<1>1. question = "cut off" /\ LoneInv
  BY DEF MCNext, CutOffInv
<1>2. CASE UNCHANGED vars
  BY <1>1, <1>2 DEF vars, dataVars, LoneInv, LoneRows, LoneAuths, LoneCodes, OneBusy
<1>3. CASE MCNext
  <2>1. LoneStep
    BY <1>1, <1>3, AskedAlone DEF MCNext
  <2>2. CASE Environment
    BY <1>1, <2>1, <2>2, LoneEnvironment
  <2>3. ASSUME NEW p \in Procs, Begin(p) PROVE LoneInv'
    BY <1>1, <2>1, <2>3, LoneBegin
  <2>4. ASSUME NEW p \in Procs, Step(p) PROVE LoneInv'
    BY <1>1, <2>1, <2>4, LoneGenerateStep, LonePassStep, LoneElsewhere DEF Step
  <2>5. ASSUME NEW p \in Procs, Abort(p) PROVE LoneInv'
    BY <1>1, <2>1, <2>5, ClientReturns, RowsSame DEF Abort, At, dataVars
  <2>. QED  BY <1>3, <2>2, <2>3, <2>4, <2>5 DEF MCNext, Next
<1>. QED  BY <1>2, <1>3

(* One row of one stay for every authorization that may be on the lock. *)
LEMMA LoneCount == SafetyInv /\ LoneInv => OneAuthorizationPerStay
<1>. SUFFICES ASSUME SafetyInv, LoneInv PROVE OneAuthorizationPerStay
  OBVIOUS
<1>. DEFINE Open == {r \in Auths : auth[r].st \in {"sent", "present"}}
            holder == [r \in Open |-> CHOOSE i \in CredIds : Holds(cred[i], r)]
            stayOf == [r \in Open |-> cred[holder[r]].stay]
<1>1. \A r \in Open : holder[r] \in CredIds /\ Holds(cred[holder[r]], r)
  BY DEF LoneInv, LoneAuths, Requested
<1>. HIDE DEF holder
<1>2. \A r \in Open : Exists(cred[holder[r]]) /\ stayOf[r] \in Stays
  BY <1>1 DEF LoneInv, LoneRows, LoneRow, Holds, Exists
<1>3. ASSUME NEW r \in Open, NEW q \in Open, stayOf[r] = stayOf[q] PROVE r = q
  <2>1. holder[r] = holder[q]
    BY <1>1, <1>2, <1>3 DEF LoneInv, LoneRows
  <2>. QED  BY <1>1, <2>1 DEF Holds
<1>4. stayOf \in Injection(Open, Stays)
  BY <1>2, <1>3 DEF Injection, IsInjective
<1>5. Cardinality(Open) <= Cardinality(Stays)
  BY <1>4, FS_Injection, CredentialAssumption
<1>. QED  BY <1>5 DEF OneAuthorizationPerStay

(* A client that is alone never opens a second authorization for a stay    *)
(* whose name fits the lock, wherever it is cut off, whichever answers are *)
(* lost and whatever the provider drops, and for every number of stays.  That an intent is never *)
(* put to review is part of why: see UnmatchedIntentsStay.                 *)
THEOREM LoneClientCorrect == MCSpec => []OneClientOneAuthorization
<1>1. MCInit => SafetyInv /\ CutOffInv
  BY SafetyInit, LoneInit DEF MCInit, CutOffInv
<1>2. SafetyInv /\ CutOffInv /\ [MCNext]_<<vars, question>> => SafetyInv' /\ CutOffInv'
  <2>. SUFFICES ASSUME SafetyInv, CutOffInv, [MCNext]_<<vars, question>>
                PROVE  SafetyInv' /\ CutOffInv'
    OBVIOUS
  <2>1. [Next]_vars
    BY DEF MCNext
  <2>2. SafetyInv' /\ TypeOK'
    BY <2>1, SafetyNext DEF SafetyInv
  <2>. QED  BY <2>2, LoneNext
<1>3. SafetyInv /\ CutOffInv => OneClientOneAuthorization
  BY LoneCount DEF CutOffInv, OneClientOneAuthorization
<1>. QED  BY <1>1, <1>2, <1>3, PTL DEF MCSpec

=============================================================================
