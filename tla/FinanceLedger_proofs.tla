------------------------- MODULE FinanceLedger_proofs -------------------------
(***************************************************************************)
(* The ledger keeps up with its rules, its rows with their rules and files *)
(* and the counts with the lock's log, and a reset keeps the cleaner's     *)
(* pay, for any number of rules, months, transactions, requests and passes,*)
(* in any order of their steps and with any of them cut off.               *)
(*                                                                         *)
(* The invariants are nearly inductive.  What they lack is what a request  *)
(* or a pass carries from one of its steps to the next: the rule and the   *)
(* row it has read are of the right kind, the file it is about to link is  *)
(* on disk unless its transaction is gone for good, and the part of the    *)
(* log a pass has in hand reaches back to the last complete pass.          *)
(***************************************************************************)
EXTENDS FinanceLedger, Sums

RequestOK(s) ==
  /\ s.at = "edit" => s.rule \in Rules /\ s.read \in Rule /\ s.patch \in Patches
  /\ s.at \in {"save", "link", "update"} => s.tx \in Txs
  /\ s.at = "update" => s.row \in Tx
  /\ s.at = "unlink" => s.of \subseteq Txs

Shape ==
  /\ rules \in [Rules -> {Unused, Deleted} \cup Rule]
  /\ \A x \in generated : x.rule \in Rules
  /\ salary = [m \in Months |-> salary[m]]
  /\ txs \in [Txs -> {Unused, Deleted} \cup Tx]
  /\ request = [q \in Requests |-> request[q]]
  /\ \A q \in Requests : RequestOK(request[q])

(* A file a request carries is on disk, or its transaction is deleted.     *)
FileOK(s) ==
  /\ s.at = "link" => s.tx \in files \/ txs[s.tx] = Deleted
  /\ s.at = "update" /\ s.row.attached => s.tx \in files \/ txs[s.tx] = Deleted
  /\ s.at = "unlink" => \A t \in s.of : txs[t] = Deleted

FilesOK == \A q \in Requests : FileOK(request[q])

IInv == Shape /\ FilesOK /\ LedgerFollowsRules /\ NoOrphans /\ LinkedFilesExist

(* What a request has still to sync, step by step.                         *)
LEMMA UnsyncedOf ==
  ASSUME NEW s
  PROVE  /\ s.at = "list" => Unsynced(s) = opened
         /\ s.at = "resync" => Unsynced(s) = s.left
         /\ s.at = "sync" => Unsynced(s) = s.left \cup {s.month}
         /\ s.at \notin {"list", "resync", "sync"} => Unsynced(s) = {}
BY DEF Unsynced

LEMMA AfterSyncOf ==
  ASSUME NEW left
  PROVE  Unsynced(AfterSync(left)) = left /\ AfterSync(left).at \in {"idle", "resync"}
<1>1. CASE left = {}
  <2>1. AfterSync(left).at = "idle"
    BY <1>1 DEF AfterSync, Idle
  <2> QED
    BY <1>1, <2>1, UnsyncedOf
<1>2. CASE left # {}
  <2>1. AfterSync(left).at = "resync" /\ AfterSync(left).left = left
    BY <1>2 DEF AfterSync
  <2> QED
    BY <2>1, UnsyncedOf
<1> QED
  BY <1>1, <1>2

LEMMA InitHolds == Init => IInv
<1> SUFFICES ASSUME LedgerInit PROVE IInv
  BY DEF Init
<1> USE DEF LedgerInit
<1>1. \A q \in Requests : request[q] = Idle
  OBVIOUS
<1>2. Idle.at = "idle"
  BY DEF Idle
<1>3. \A q \in Requests : RequestOK(request[q]) /\ FileOK(request[q])
  BY <1>1, <1>2 DEF RequestOK, FileOK
<1>4. rules \in [Rules -> {Unused, Deleted} \cup Rule] /\ \A x \in generated : x.rule \in Rules
  BY RuleAssumption
<1>5. \A x \in generated : Exists(x.rule) /\ x.month \in opened
  BY RuleAssumption DEF Exists
<1>6. \A m \in Months : ~(salary[m] > 0)
  OBVIOUS
<1>7. LedgerFollowsRules
  BY DEF LedgerFollowsRules
<1>8. \A t \in Txs : ~TxExists(t)
  BY DEF TxExists
<1>9. salary = [m \in Months |-> salary[m]] /\ request = [q \in Requests |-> request[q]]
  OBVIOUS
<1>10. txs \in [Txs -> {Unused, Deleted} \cup Tx]
  OBVIOUS
<1> QED
  BY <1>3, <1>4, <1>5, <1>6, <1>7, <1>8, <1>9, <1>10 DEF IInv, Shape, FilesOK, NoOrphans, LinkedFilesExist

-----------------------------------------------------------------------------
(* A step of a request that changes no row: it hands on what it has to     *)
(* sync, or is cut off and leaves it behind.                               *)
LEMMA RequestMoves ==
  ASSUME IInv, NEW q \in Requests, NEW s,
         request' = [request EXCEPT ![q] = s],
         rules' = rules, generated' = generated, salary' = salary, opened' = opened,
         txs' = txs, files' = files, abandoned \subseteq abandoned',
         RequestOK(s), FileOK(s), Unsynced(request[q]) \subseteq Unsynced(s) \cup abandoned'
  PROVE  IInv'
<1>1. request' = [p \in Requests |-> request'[p]]
      /\ \A p \in Requests : request'[p] = IF p = q THEN s ELSE request[p]
  BY DEF IInv, Shape
<1>2. Shape'
  BY <1>1 DEF IInv, Shape, RequestOK
<1>3. FilesOK'
  BY <1>1 DEF IInv, FilesOK, FileOK
<1>4. LedgerFollowsRules'
  <2>1. \A x : Unsynced(x)' = Unsynced(x)
    BY DEF Unsynced
  <2>2. \A m : InStep(m)' = InStep(m)
    BY DEF InStep, Covering, Entry, Exists, Covers
  <2>3. \A m : Pending(m) => Pending(m)' \/ m \in abandoned'
    BY <1>1, <2>1 DEF Pending
  <2> QED
    BY <2>2, <2>3 DEF IInv, LedgerFollowsRules
<1>5. NoOrphans' /\ LinkedFilesExist'
  BY DEF IInv, NoOrphans, LinkedFilesExist, Exists, TxExists
<1> QED
  BY <1>2, <1>3, <1>4, <1>5 DEF IInv

(* All but the log: what a step that leaves the ledger alone does.         *)
LEMMA LedgerUnchanged == IInv /\ UNCHANGED ledgerVars => IInv'
<1> SUFFICES ASSUME IInv, UNCHANGED ledgerVars PROVE IInv'
  OBVIOUS
<1>1. /\ rules' = rules /\ generated' = generated /\ salary' = salary /\ opened' = opened
      /\ txs' = txs /\ files' = files /\ request' = request /\ abandoned' = abandoned
  BY DEF ledgerVars
<1>2. Shape'
  BY <1>1 DEF IInv, Shape, RequestOK
<1>3. FilesOK'
  BY <1>1 DEF IInv, FilesOK, FileOK
<1>4. \A x : Unsynced(x)' = Unsynced(x)
  BY <1>1 DEF Unsynced
<1>5. LedgerFollowsRules'
  BY <1>1, <1>4 DEF IInv, LedgerFollowsRules, InStep, Covering, Entry, Exists, Covers, Pending
<1>6. NoOrphans' /\ LinkedFilesExist'
  BY <1>1 DEF IInv, NoOrphans, LinkedFilesExist, Exists, TxExists
<1> QED
  BY <1>2, <1>3, <1>5, <1>6 DEF IInv

LEMMA SyncAsked ==
  ASSUME IInv, NEW q \in Requests, NEW m \in Months, NEW read \in BOOLEAN, SyncGeneratedEntries(q, m, read)
  PROVE  IInv'
<1> DEFINE s == ComputeCleaningMonthlySummary(m, {}, read)
<1>1. s.at = "sync"
  BY DEF ComputeCleaningMonthlySummary
<1>2. Unsynced(request[q]) = {}
  BY UnsyncedOf DEF SyncGeneratedEntries, Idle
<1>3. RequestOK(s) /\ FileOK(s)
  BY <1>1 DEF RequestOK, FileOK
<1> HIDE DEF s
<1>4. /\ request' = [request EXCEPT ![q] = s]
      /\ rules' = rules /\ generated' = generated /\ salary' = salary /\ opened' = opened
      /\ txs' = txs /\ files' = files /\ abandoned' = abandoned
  BY DEF SyncGeneratedEntries, s
<1> QED
  BY <1>2, <1>3, <1>4, RequestMoves

LEMMA PatchRead ==
  ASSUME IInv, NEW q \in Requests, NEW r \in Rules, NEW patch \in Patches,
         PatchFinanceRecurringRule(q, r, patch)
  PROVE  IInv'
<1> DEFINE s == [at |-> "edit", rule |-> r, patch |-> patch, read |-> rules[r]]
<1>1. Unsynced(request[q]) = {}
  BY UnsyncedOf DEF PatchFinanceRecurringRule, Idle
<1>2. rules[r] \in Rule
  BY DEF PatchFinanceRecurringRule, Exists, IInv, Shape
<1>3. RequestOK(s) /\ FileOK(s)
  BY <1>2 DEF RequestOK, FileOK
<1> HIDE DEF s
<1>4. /\ request' = [request EXCEPT ![q] = s]
      /\ rules' = rules /\ generated' = generated /\ salary' = salary /\ opened' = opened
      /\ txs' = txs /\ files' = files /\ abandoned' = abandoned
  BY DEF PatchFinanceRecurringRule, s
<1> QED
  BY <1>1, <1>3, <1>4, RequestMoves

LEMMA MonthsListed ==
  ASSUME IInv, NEW q \in Requests, ListOpenedFinanceMonths(q)
  PROVE  IInv'
<1> DEFINE s == AfterSync(opened)
<1>1. Unsynced(request[q]) = Unsynced(s) /\ s.at \in {"idle", "resync"}
  BY UnsyncedOf, AfterSyncOf DEF ListOpenedFinanceMonths
<1>2. RequestOK(s) /\ FileOK(s)
  BY <1>1 DEF RequestOK, FileOK
<1> HIDE DEF s
<1>3. /\ request' = [request EXCEPT ![q] = s]
      /\ rules' = rules /\ generated' = generated /\ salary' = salary /\ opened' = opened
      /\ txs' = txs /\ files' = files /\ abandoned' = abandoned
  BY DEF ListOpenedFinanceMonths, s
<1> QED
  BY <1>1, <1>2, <1>3, RequestMoves

(* The month that is taken is in the set or not: nothing is lost.          *)
LEMMA NextMonthTaken ==
  ASSUME IInv, NEW q \in Requests, NEW read \in BOOLEAN, ResyncNextMonth(q, read)
  PROVE  IInv'
<1> DEFINE m == Min(request[q].left)
           s == ComputeCleaningMonthlySummary(m, request[q].left \ {m}, read)
<1>1. s.at = "sync" /\ s.month = m /\ s.left = request[q].left \ {m}
  BY DEF ComputeCleaningMonthlySummary
<1>2. request[q].at = "resync"
  BY DEF ResyncNextMonth
<1>3. Unsynced(request[q]) = request[q].left /\ Unsynced(s) = s.left \cup {s.month}
  BY <1>1, <1>2, UnsyncedOf
<1>4. Unsynced(request[q]) \subseteq Unsynced(s)
  BY <1>1, <1>3
<1>5. RequestOK(s) /\ FileOK(s)
  BY <1>1 DEF RequestOK, FileOK
<1> HIDE DEF s
<1>6. /\ request' = [request EXCEPT ![q] = s]
      /\ rules' = rules /\ generated' = generated /\ salary' = salary /\ opened' = opened
      /\ txs' = txs /\ files' = files /\ abandoned' = abandoned
  BY DEF ResyncNextMonth, s
<1> QED
  BY <1>4, <1>5, <1>6, RequestMoves

LEMMA RowToLinkRead ==
  ASSUME IInv, NEW q \in Requests, LinkAttachment(q)
  PROVE  IInv'
<1> DEFINE t == request[q].tx
           s == IF TxExists(t)
                THEN [at |-> "update", tx |-> t, row |-> [txs[t] EXCEPT !.attached = TRUE]] ELSE Idle
<1>1. request[q].at = "link"
  BY DEF LinkAttachment
<1>2. Unsynced(request[q]) = {}
  BY <1>1, UnsyncedOf
<1>3. t \in Txs /\ (t \in files \/ txs[t] = Deleted)
  BY <1>1 DEF IInv, Shape, RequestOK, FilesOK, FileOK
<1>4. CASE TxExists(t)
  <2>1. txs[t] \in Tx
    BY <1>3, <1>4 DEF TxExists, IInv, Shape
  <2>2. [txs[t] EXCEPT !.attached = TRUE] \in Tx
    BY <2>1 DEF Tx
  <2>3. t \in files
    BY <1>3, <1>4 DEF TxExists
  <2>4. s.at = "update" /\ s.tx = t /\ s.row \in Tx
    BY <1>4, <2>2
  <2> QED
    <3>1. RequestOK(s) /\ FileOK(s)
      BY <1>3, <2>3, <2>4 DEF RequestOK, FileOK
    <3> HIDE DEF s
    <3>2. /\ request' = [request EXCEPT ![q] = s]
          /\ rules' = rules /\ generated' = generated /\ salary' = salary /\ opened' = opened
          /\ txs' = txs /\ files' = files /\ abandoned' = abandoned
      BY DEF LinkAttachment, s
    <3> QED
      BY <1>2, <3>1, <3>2, RequestMoves
<1>5. CASE ~TxExists(t)
  <2>1. s.at = "idle"
    BY <1>5 DEF Idle
  <2>2. RequestOK(s) /\ FileOK(s)
    BY <2>1 DEF RequestOK, FileOK
  <2> HIDE DEF s
  <2>3. /\ request' = [request EXCEPT ![q] = s]
        /\ rules' = rules /\ generated' = generated /\ salary' = salary /\ opened' = opened
        /\ txs' = txs /\ files' = files /\ abandoned' = abandoned
    BY DEF LinkAttachment, s
  <2> QED
    BY <1>2, <2>2, <2>3, RequestMoves
<1> QED
  BY <1>4, <1>5

LEMMA RowToPatchRead ==
  ASSUME IInv, NEW q \in Requests, NEW t \in Txs, NEW amount \in Amounts, NEW m \in Months,
         PatchFinanceTransaction(q, t, amount, m)
  PROVE  IInv'
<1> DEFINE s == [at |-> "update", tx |-> t, row |-> [txs[t] EXCEPT !.amount = amount, !.month = m]]
<1>1. Unsynced(request[q]) = {}
  BY UnsyncedOf DEF PatchFinanceTransaction, Idle
<1>2. TxExists(t) /\ txs[t] \in Tx
  BY DEF PatchFinanceTransaction, TxExists, IInv, Shape
<1>3. s.row \in Tx /\ s.row.attached = txs[t].attached
  BY <1>2 DEF Tx
<1>4. s.row.attached => t \in files
  BY <1>2, <1>3 DEF IInv, LinkedFilesExist
<1>5. RequestOK(s) /\ FileOK(s)
  BY <1>3, <1>4 DEF RequestOK, FileOK
<1> HIDE DEF s
<1>6. /\ request' = [request EXCEPT ![q] = s]
      /\ rules' = rules /\ generated' = generated /\ salary' = salary /\ opened' = opened
      /\ txs' = txs /\ files' = files /\ abandoned' = abandoned
  BY DEF PatchFinanceTransaction, s
<1> QED
  BY <1>1, <1>5, <1>6, RequestMoves

LEMMA RequestCut ==
  ASSUME IInv, NEW q \in Requests, CutRequest(q)
  PROVE  IInv'
<1>1. RequestOK(Idle) /\ FileOK(Idle)
  BY DEF RequestOK, FileOK, Idle
<1>2. Unsynced(request[q]) \subseteq abandoned' /\ abandoned \subseteq abandoned'
  BY DEF CutRequest
<1>3. /\ request' = [request EXCEPT ![q] = Idle]
      /\ rules' = rules /\ generated' = generated /\ salary' = salary /\ opened' = opened
      /\ txs' = txs /\ files' = files
  BY DEF CutRequest
<1> QED
  BY <1>1, <1>2, <1>3, RequestMoves

-----------------------------------------------------------------------------
(* Steps that change rows.  Of requests, all but the one that moves carry  *)
(* what they carried.                                                      *)
LEMMA OneRequestMoves ==
  ASSUME IInv, NEW q \in Requests, NEW s, request' = [request EXCEPT ![q] = s]
  PROVE  /\ request' = [p \in Requests |-> request'[p]]
         /\ request'[q] = s
         /\ \A p \in Requests \ {q} : request'[p] = request[p]
         /\ RequestOK(s) => \A p \in Requests : RequestOK(request'[p])
BY DEF IInv, Shape

(* A change of rules leaves every opened month to be synced.               *)
LEMMA RulesChange ==
  ASSUME IInv, NEW q \in Requests, request' = [request EXCEPT ![q] = [at |-> "list"]],
         opened' = opened, txs' = txs, files' = files
  PROVE  FilesOK' /\ LedgerFollowsRules' /\ LinkedFilesExist'
         /\ \A p \in Requests : RequestOK(request'[p])
<1> DEFINE s == [at |-> "list"]
<1>1. s.at = "list"
  OBVIOUS
<1>2. RequestOK(s) /\ FileOK(s)'
  BY DEF RequestOK, FileOK
<1>3. /\ request'[q] = s /\ \A p \in Requests \ {q} : request'[p] = request[p]
      /\ \A p \in Requests : RequestOK(request'[p])
  BY <1>2, OneRequestMoves
<1>4. FilesOK'
  BY <1>2, <1>3 DEF IInv, FilesOK, FileOK
<1>5. \A x : x.at = "list" => Unsynced(x)' = opened'
  BY DEF Unsynced
<1>6. LedgerFollowsRules'
  BY <1>1, <1>3, <1>5 DEF LedgerFollowsRules, Pending
<1>7. LinkedFilesExist'
  BY DEF IInv, LinkedFilesExist, TxExists
<1> QED
  BY <1>3, <1>4, <1>6, <1>7

LEMMA RulePosted ==
  ASSUME IInv, NEW q \in Requests, NEW r \in Rules, NEW new \in NewRules,
         PostFinanceRecurringRule(q, r, new)
  PROVE  IInv'
<1>1. /\ request' = [request EXCEPT ![q] = [at |-> "list"]] /\ rules' = [rules EXCEPT ![r] = new]
      /\ generated' = generated /\ salary' = salary /\ opened' = opened
      /\ txs' = txs /\ files' = files
  BY DEF PostFinanceRecurringRule
<1>2. /\ FilesOK' /\ LedgerFollowsRules' /\ LinkedFilesExist'
      /\ \A p \in Requests : RequestOK(request'[p])
  BY <1>1, RulesChange
<1>3. new \in Rule /\ new # Unused /\ new # Deleted
  BY RuleAssumption
<1>4. Shape'
  BY <1>1, <1>2, <1>3, OneRequestMoves DEF IInv, Shape
<1>5. NoOrphans'
  BY <1>1, <1>3 DEF IInv, Shape, NoOrphans, Exists
<1> QED
  BY <1>2, <1>4, <1>5 DEF IInv

LEMMA RuleUpdated ==
  ASSUME IInv, NEW q \in Requests, UpdateFinanceRecurringRule(q)
  PROVE  IInv'
<1> DEFINE e == request[q]
           new == Patched(e.read, e.patch)
<1>1. e.at = "edit" /\ e.rule \in Rules /\ new \in Rule /\ new # Unused /\ new # Deleted
  BY RuleAssumption DEF UpdateFinanceRecurringRule, IInv, Shape, RequestOK
<1>2. CASE Exists(e.rule)
  <2>1. /\ request' = [request EXCEPT ![q] = [at |-> "list"]] /\ rules' = [rules EXCEPT ![e.rule] = new]
        /\ generated' = generated /\ salary' = salary /\ opened' = opened
        /\ txs' = txs /\ files' = files
    BY <1>2 DEF UpdateFinanceRecurringRule
  <2>2. /\ FilesOK' /\ LedgerFollowsRules' /\ LinkedFilesExist'
        /\ \A p \in Requests : RequestOK(request'[p])
    BY <2>1, RulesChange
  <2> HIDE DEF new, e
  <2>3. Shape'
    BY <1>1, <2>1, <2>2, OneRequestMoves DEF IInv, Shape
  <2>4. NoOrphans'
    BY <1>1, <2>1 DEF IInv, Shape, NoOrphans, Exists
  <2> QED
    BY <2>2, <2>3, <2>4 DEF IInv
<1>3. CASE ~Exists(e.rule)
  <2>1. RequestOK(Idle) /\ FileOK(Idle)
    BY DEF RequestOK, FileOK, Idle
  <2>2. Unsynced(request[q]) = {}
    BY <1>1, UnsyncedOf
  <2>3. /\ request' = [request EXCEPT ![q] = Idle]
        /\ rules' = rules /\ generated' = generated /\ salary' = salary /\ opened' = opened
        /\ txs' = txs /\ files' = files /\ abandoned' = abandoned
    BY <1>3 DEF UpdateFinanceRecurringRule
  <2> QED
    BY <2>1, <2>2, <2>3, RequestMoves
<1> QED
  BY <1>2, <1>3

(* The rows go with their rule, so that none is left without one.          *)
LEMMA RuleDeleted ==
  ASSUME IInv, NEW q \in Requests, NEW r \in Rules, DeleteFinanceRecurringRule(q, r)
  PROVE  IInv'
<1>1. /\ request' = [request EXCEPT ![q] = [at |-> "list"]] /\ rules' = [rules EXCEPT ![r] = Deleted]
      /\ generated' = generated \ RowsOf(r) /\ salary' = salary /\ opened' = opened
      /\ txs' = txs /\ files' = files
  BY DEF DeleteFinanceRecurringRule
<1>2. /\ FilesOK' /\ LedgerFollowsRules' /\ LinkedFilesExist'
      /\ \A p \in Requests : RequestOK(request'[p])
  BY <1>1, RulesChange
<1>3. \A x \in generated' : x \in generated /\ x.rule # r /\ x.rule \in Rules
  BY <1>1 DEF RowsOf, IInv, Shape
<1>4. Shape'
  BY <1>1, <1>2, <1>3, OneRequestMoves DEF IInv, Shape
<1>5. NoOrphans'
  <2>1. \A x \in generated' : rules'[x.rule] = rules[x.rule]
    BY <1>1, <1>3 DEF IInv, Shape
  <2> QED
    BY <1>1, <1>3, <2>1 DEF IInv, NoOrphans, Exists
<1> QED
  BY <1>2, <1>4, <1>5 DEF IInv

(* A synced month is in step with the rules as they are, whatever was      *)
(* there before; others keep their rows.                                   *)
LEMMA SyncedMonth ==
  ASSUME NEW rows, NEW m
  PROVE  LET synced == Purged(Upserted(rows, m), m)
         IN /\ {x \in synced : x.month = m} = {Entry(r, m) : r \in Covering(m)}
            /\ \A n : n # m => {x \in synced : x.month = n} = {x \in rows : x.month = n}
            /\ \A x \in synced : x \in rows \/ \E r \in Covering(m) : x = Entry(r, m)
<1>1. \A r : Entry(r, m).month = m /\ Entry(r, m).rule = r /\ ~Entry(r, m).legacy
  BY DEF Entry
<1>2. \A x : x \in Purged(Upserted(rows, m), m) <=>
         /\ (x \in rows /\ ~(x.month = m /\ x.rule \in Covering(m))) \/ \E r \in Covering(m) : x = Entry(r, m)
         /\ x.month = m => ~x.legacy /\ x.rule \in Covering(m)
  BY DEF Purged, Upserted
<1> QED
  BY <1>1, <1>2

LEMMA MonthSynced ==
  ASSUME IInv, NEW q \in Requests, SyncFinanceGeneratedEntriesForMonth(q)
  PROVE  IInv'
<1> DEFINE s == request[q]
           m == s.month
           next == AfterSync(s.left)
<1>1. s.at = "sync" /\ Unsynced(s) = s.left \cup {m} /\ Unsynced(next) = s.left
      /\ next.at \in {"idle", "resync"}
  BY UnsyncedOf, AfterSyncOf DEF SyncFinanceGeneratedEntriesForMonth
<1>2. RequestOK(next) /\ FileOK(next)
  BY <1>1 DEF RequestOK, FileOK
<1>3. /\ request' = [request EXCEPT ![q] = next]
      /\ rules' = rules /\ generated' = Purged(Upserted(generated, m), m)
      /\ salary' = SyncedSalary(m, s.owed) /\ opened' = opened \cup {m}
      /\ txs' = txs /\ files' = files /\ abandoned' = abandoned \ {m}
  BY DEF SyncFinanceGeneratedEntriesForMonth
<1>4. /\ request' = [p \in Requests |-> request'[p]]
      /\ request'[q] = next /\ \A p \in Requests \ {q} : request'[p] = request[p]
      /\ \A p \in Requests : RequestOK(request'[p])
  BY <1>2, <1>3, OneRequestMoves
<1>5. /\ {x \in generated' : x.month = m} = {Entry(r, m) : r \in Covering(m)}
      /\ \A n : n # m => {x \in generated' : x.month = n} = {x \in generated : x.month = n}
      /\ \A x \in generated' : x \in generated \/ \E r \in Covering(m) : x = Entry(r, m)
  BY <1>3, SyncedMonth
<1>6. \A r : Entry(r, m).rule = r /\ Entry(r, m).month = m
  BY DEF Entry
<1>7. \A n : n \in Months => (salary'[n] = salary[n] \/ n = m)
  BY <1>3 DEF SyncedSalary, IInv, Shape
<1>8. salary' = [n \in Months |-> salary'[n]]
  BY <1>3 DEF SyncedSalary, IInv, Shape
<1>9. \A x : Unsynced(x) \subseteq Unsynced(x)'
  <2>1. opened \subseteq opened'
    BY <1>3
  <2> QED
    BY <2>1 DEF Unsynced
<1> HIDE DEF s, m, next
<1>10. \A x \in generated' : x.rule \in Rules /\ Exists(x.rule) /\ x.month \in opened'
  BY <1>3, <1>5, <1>6 DEF IInv, Shape, NoOrphans, Covering
<1>11. Shape'
  BY <1>3, <1>4, <1>8, <1>10 DEF IInv, Shape
<1>12. FilesOK'
  <2>1. \A x : FileOK(x) => FileOK(x)'
    BY <1>3 DEF FileOK
  <2>2. \A p \in Requests : FileOK(request'[p])
    BY <1>2, <1>4 DEF IInv, FilesOK
  <2> QED
    BY <2>1, <2>2 DEF FilesOK
<1>13. NoOrphans'
  BY <1>3, <1>7, <1>10 DEF IInv, NoOrphans, Exists
<1>14. LinkedFilesExist'
  BY <1>3 DEF IInv, LinkedFilesExist, TxExists
<1>15. LedgerFollowsRules'
  <2> SUFFICES ASSUME NEW n \in opened' PROVE InStep(n)' \/ Pending(n)' \/ n \in abandoned'
    BY DEF LedgerFollowsRules
  <2>1. \A k : {Entry(r, k) : r \in Covering(k)}' = {Entry(r, k) : r \in Covering(k)}
    BY <1>3 DEF Entry, Covering, Covers, Exists
  <2>2. CASE n = m
    BY <1>5, <2>1, <2>2 DEF InStep
  <2>3. CASE n # m
    <3>1. InStep(n) \/ Pending(n) \/ n \in abandoned
      BY <1>3, <2>3 DEF IInv, LedgerFollowsRules
    <3>2. InStep(n) => InStep(n)'
      BY <1>5, <2>1, <2>3 DEF InStep
    <3>3. Pending(n) => Pending(n)'
      BY <1>1, <1>4, <1>9, <2>3 DEF Pending, s
    <3> QED
      BY <1>3, <2>3, <3>1, <3>2, <3>3
  <2> QED
    BY <2>2, <2>3
<1> QED
  BY <1>11, <1>12, <1>13, <1>14, <1>15 DEF IInv

-----------------------------------------------------------------------------
(* Steps on transactions and files.  No rule, month or generated row       *)
(* changes, and the request that moves has nothing to sync.                *)
LEMMA LedgerKept ==
  ASSUME IInv, NEW q \in Requests, NEW s,
         request' = [request EXCEPT ![q] = s], Unsynced(request[q]) = {},
         rules' = rules, generated' = generated, salary' = salary, opened' = opened,
         abandoned' = abandoned
  PROVE  LedgerFollowsRules' /\ NoOrphans'
<1>1. \A p \in Requests \ {q} : request'[p] = request[p]
  BY OneRequestMoves
<1>2. \A x : Unsynced(x)' = Unsynced(x)
  BY DEF Unsynced
<1>3. \A m : Pending(m) => Pending(m)'
  BY <1>1, <1>2 DEF Pending
<1>4. \A m : InStep(m)' = InStep(m)
  BY DEF InStep, Covering, Entry, Exists, Covers
<1>5. LedgerFollowsRules'
  BY <1>3, <1>4 DEF IInv, LedgerFollowsRules
<1>6. NoOrphans'
  BY DEF IInv, NoOrphans, Exists
<1> QED
  BY <1>5, <1>6

(* What a request carries stays right when files only come and no deleted  *)
(* transaction comes back.                                                 *)
LEMMA FilesKept ==
  ASSUME IInv, NEW q \in Requests, NEW s, request' = [request EXCEPT ![q] = s],
         FileOK(s)', files \subseteq files', \A t \in Txs : txs[t] = Deleted => txs'[t] = Deleted
  PROVE  FilesOK'
<1>1. request'[q] = s /\ \A p \in Requests \ {q} : request'[p] = request[p]
  BY OneRequestMoves
<1>2. \A x : RequestOK(x) /\ FileOK(x) => FileOK(x)'
  BY DEF FileOK, RequestOK
<1>3. \A p \in Requests : RequestOK(request[p]) /\ FileOK(request[p])
  BY DEF IInv, Shape, FilesOK
<1> QED
  BY <1>1, <1>2, <1>3 DEF FilesOK

LEMMA TransactionPosted ==
  ASSUME IInv, NEW q \in Requests, NEW t \in Txs, NEW amount \in Amounts, NEW m \in Months,
         NEW attach \in BOOLEAN, PostFinanceTransaction(q, t, amount, m, attach)
  PROVE  IInv'
<1> DEFINE s == IF attach THEN [at |-> "save", tx |-> t] ELSE Idle
           row == [amount |-> amount, month |-> m, attached |-> FALSE]
<1>1. row \in Tx /\ row # Unused /\ row # Deleted /\ ~row.attached
  <2>1. row \in Tx
    BY DEF Tx
  <2> QED
    BY <2>1, RuleAssumption
<1>2. RequestOK(s) /\ FileOK(s)'
  BY DEF RequestOK, FileOK, Idle
<1>3. Unsynced(request[q]) = {}
  BY UnsyncedOf DEF PostFinanceTransaction, Idle
<1> HIDE DEF s, row
<1>4. /\ request' = [request EXCEPT ![q] = s] /\ txs' = [txs EXCEPT ![t] = row] /\ txs[t] = Unused
      /\ rules' = rules /\ generated' = generated /\ salary' = salary /\ opened' = opened
      /\ files' = files /\ abandoned' = abandoned
  BY DEF PostFinanceTransaction, s, row
<1>5. LedgerFollowsRules' /\ NoOrphans'
  BY <1>3, <1>4, LedgerKept
<1>6. \A u \in Txs : txs[u] = Deleted => txs'[u] = Deleted
  BY <1>4, RuleAssumption DEF IInv, Shape
<1>7. FilesOK'
  BY <1>2, <1>4, <1>6, FilesKept
<1>8. Shape'
  BY <1>1, <1>2, <1>4, OneRequestMoves DEF IInv, Shape
<1>9. LinkedFilesExist'
  BY <1>1, <1>4 DEF IInv, Shape, LinkedFilesExist, TxExists
<1> QED
  BY <1>5, <1>7, <1>8, <1>9 DEF IInv

LEMMA FileSaved ==
  ASSUME IInv, NEW q \in Requests, NEW saved \in BOOLEAN, SaveFinanceAttachment(q, saved)
  PROVE  IInv'
<1> DEFINE t == request[q].tx
           s == AfterSave(saved, t)
<1>1. request[q].at = "save" /\ t \in Txs
  BY DEF SaveFinanceAttachment, IInv, Shape, RequestOK
<1>2. Unsynced(request[q]) = {}
  BY <1>1, UnsyncedOf
<1>3. IF saved THEN s.at = "link" /\ s.tx = t ELSE s.at = "idle"
  BY DEF AfterSave, Idle
<1>4. RequestOK(s)
  BY <1>1, <1>3 DEF RequestOK
<1>5. /\ request' = [request EXCEPT ![q] = s]
      /\ rules' = rules /\ generated' = generated /\ salary' = salary /\ opened' = opened
      /\ txs' = txs /\ abandoned' = abandoned /\ files' = IF saved THEN files \cup {t} ELSE files
  BY DEF SaveFinanceAttachment
<1> HIDE DEF s, t
<1>6. LedgerFollowsRules' /\ NoOrphans'
  BY <1>2, <1>5, LedgerKept
<1>7. request'[q] = s /\ \A p \in Requests \ {q} : request'[p] = request[p]
  BY <1>5, OneRequestMoves
<1>8. FilesOK'
  <2>1. \A x : FileOK(x) => FileOK(x)'
    BY <1>5 DEF FileOK
  <2>2. \A x : (IF saved THEN x.at = "link" /\ x.tx = t ELSE x.at = "idle") => FileOK(x)'
    BY <1>5 DEF FileOK
  <2> QED
    BY <1>3, <1>7, <2>1, <2>2 DEF IInv, FilesOK
<1>9. Shape'
  BY <1>4, <1>5, OneRequestMoves DEF IInv, Shape
<1>10. LinkedFilesExist'
  BY <1>5 DEF IInv, LinkedFilesExist, TxExists
<1> QED
  BY <1>6, <1>8, <1>9, <1>10 DEF IInv

(* A row is written as it was read: its file is there, or the row is gone  *)
(* and nothing is written.                                                 *)
LEMMA TransactionUpdated ==
  ASSUME IInv, NEW q \in Requests, UpdateFinanceTransaction(q)
  PROVE  IInv'
<1> DEFINE t == request[q].tx
           row == request[q].row
<1>1. request[q].at = "update"
  BY DEF UpdateFinanceTransaction
<1>2. t \in Txs /\ row \in Tx /\ (row.attached => t \in files \/ txs[t] = Deleted)
  BY <1>1 DEF IInv, Shape, RequestOK, FilesOK, FileOK
<1>3. Unsynced(request[q]) = {}
  BY <1>1, UnsyncedOf
<1>4. RequestOK(Idle) /\ FileOK(Idle)'
  BY DEF RequestOK, FileOK, Idle
<1>5. /\ request' = [request EXCEPT ![q] = Idle]
      /\ txs' = IF TxExists(t) THEN [txs EXCEPT ![t] = row] ELSE txs
      /\ rules' = rules /\ generated' = generated /\ salary' = salary /\ opened' = opened
      /\ files' = files /\ abandoned' = abandoned
  BY DEF UpdateFinanceTransaction
<1> HIDE DEF t, row
<1>6. LedgerFollowsRules' /\ NoOrphans'
  BY <1>3, <1>5, LedgerKept
<1>7. \A u \in Txs : txs[u] = Deleted => txs'[u] = Deleted
  BY <1>2, <1>5 DEF TxExists, IInv, Shape
<1>8. FilesOK'
  BY <1>4, <1>5, <1>7, FilesKept
<1>9. Shape'
  BY <1>2, <1>4, <1>5, OneRequestMoves DEF IInv, Shape
<1>10. LinkedFilesExist'
  <2> SUFFICES ASSUME NEW u \in Txs, TxExists(u)', txs'[u].attached PROVE u \in files
    BY <1>5 DEF LinkedFilesExist
  <2>1. CASE u = t /\ TxExists(t)
    <3>1. txs'[u] = row /\ txs[t] # Deleted
      BY <1>2, <1>5, <2>1 DEF IInv, Shape, TxExists
    <3> QED
      BY <1>2, <2>1, <3>1
  <2>2. CASE ~(u = t /\ TxExists(t))
    <3>1. txs'[u] = txs[u]
      BY <1>2, <1>5, <2>2 DEF IInv, Shape
    <3> QED
      BY <3>1 DEF IInv, LinkedFilesExist, TxExists
  <2> QED
    BY <2>1, <2>2
<1> QED
  BY <1>6, <1>8, <1>9, <1>10 DEF IInv

LEMMA TransactionDeleted ==
  ASSUME IInv, NEW t \in Txs, DeleteFinanceTransaction(t)
  PROVE  IInv'
<1>1. /\ txs' = [txs EXCEPT ![t] = Deleted]
      /\ rules' = rules /\ generated' = generated /\ salary' = salary /\ opened' = opened
      /\ files' = files /\ request' = request /\ abandoned' = abandoned
  BY DEF DeleteFinanceTransaction
<1>2. \A u \in Txs : txs'[u] = IF u = t THEN Deleted ELSE txs[u]
  BY <1>1 DEF IInv, Shape
<1>3. Shape'
  BY <1>1 DEF IInv, Shape, RequestOK
<1>4. FilesOK'
  <2>1. \A x : RequestOK(x) /\ FileOK(x) => FileOK(x)'
    BY <1>1, <1>2 DEF FileOK, RequestOK
  <2> QED
    BY <1>1, <2>1 DEF IInv, Shape, FilesOK
<1>5. LedgerFollowsRules'
  <2>1. \A x : Unsynced(x)' = Unsynced(x)
    BY <1>1 DEF Unsynced
  <2> QED
    BY <1>1, <2>1 DEF IInv, LedgerFollowsRules, InStep, Covering, Entry, Exists, Covers, Pending
<1>6. NoOrphans' /\ LinkedFilesExist'
  BY <1>1, <1>2 DEF IInv, NoOrphans, LinkedFilesExist, Exists, TxExists
<1> QED
  BY <1>3, <1>4, <1>5, <1>6 DEF IInv

LEMMA LateCheckoutReconciled ==
  ASSUME IInv, NEW x, NEW m, ReconcileLateCheckout(x, m)
  PROVE  IInv'
<1>1. /\ rules' = rules /\ generated' = generated /\ salary' = salary /\ opened' = opened
      /\ txs' = txs /\ files' = files /\ request' = request /\ abandoned' = abandoned
  BY DEF ReconcileLateCheckout
<1>2. \A y : Unsynced(y)' = Unsynced(y)
  BY <1>1 DEF Unsynced
<1>3. LedgerFollowsRules'
  BY <1>1, <1>2 DEF IInv, LedgerFollowsRules, InStep, Covering, Entry, Exists, Covers, Pending
<1>4. Shape' /\ FilesOK' /\ NoOrphans' /\ LinkedFilesExist'
  BY <1>1 DEF IInv, Shape, RequestOK, FilesOK, FileOK, NoOrphans, LinkedFilesExist, Exists, TxExists
<1> QED
  BY <1>3, <1>4 DEF IInv

(* The files a reset removes are of transactions it has deleted.           *)
LEMMA FilesRemoved ==
  ASSUME IInv, NEW q \in Requests, NEW removed, DeleteFinanceResetFiles(q, removed)
  PROVE  IInv'
<1>1. request[q].at = "unlink" /\ removed \subseteq request[q].of
  BY DEF DeleteFinanceResetFiles
<1>2. \A t \in removed : txs[t] = Deleted
  BY <1>1 DEF IInv, FilesOK, FileOK
<1>3. Unsynced(request[q]) = {}
  BY <1>1, UnsyncedOf
<1>4. RequestOK(Idle) /\ FileOK(Idle)
  BY DEF RequestOK, FileOK, Idle
<1>5. /\ request' = [request EXCEPT ![q] = Idle] /\ files' = files \ removed
      /\ rules' = rules /\ generated' = generated /\ salary' = salary /\ opened' = opened
      /\ txs' = txs /\ abandoned' = abandoned
  BY DEF DeleteFinanceResetFiles
<1>6. LedgerFollowsRules' /\ NoOrphans'
  BY <1>3, <1>5, LedgerKept
<1>7. request'[q] = Idle /\ \A p \in Requests \ {q} : request'[p] = request[p]
  BY <1>5, OneRequestMoves
<1>8. FilesOK'
  <2>1. \A x : FileOK(x) => FileOK(x)'
    BY <1>2, <1>5 DEF FileOK
  <2> QED
    BY <1>4, <1>7, <2>1 DEF IInv, FilesOK
<1>9. Shape'
  BY <1>4, <1>5, OneRequestMoves DEF IInv, Shape
<1>10. LinkedFilesExist'
  BY <1>2, <1>5 DEF IInv, LinkedFilesExist, TxExists
<1> QED
  BY <1>6, <1>8, <1>9, <1>10 DEF IInv

(* A reset leaves no rule, no generated row and no transaction, so nothing *)
(* a request carries from before can be written.                           *)
LEMMA RecordsReset ==
  ASSUME IInv, NEW q \in Requests, ResetFinanceRecords(q)
  PROVE  IInv'
<1> DEFINE s == [at |-> "unlink", of |-> {t \in Txs : TxExists(t) /\ txs[t].attached}]
<1>1. s.at = "unlink" /\ s.of \subseteq Txs /\ \A t \in s.of : TxExists(t)
  OBVIOUS
<1>2. RequestOK(s)
  BY <1>1 DEF RequestOK
<1> HIDE DEF s
<1>3. /\ request' = [request EXCEPT ![q] = s]
      /\ rules' = [r \in Rules |-> IF Exists(r) THEN Deleted ELSE rules[r]]
      /\ generated' = {} /\ salary' = [m \in Months |-> ResetSalary(m)]
      /\ opened' = {m \in Months : salary'[m] > 0} /\ files' = files
      /\ txs' = [t \in Txs |-> IF TxExists(t) THEN Deleted ELSE txs[t]]
  BY DEF ResetFinanceRecords, s
<1>4. request'[q] = s /\ \A p \in Requests \ {q} : request'[p] = request[p]
  BY <1>3, OneRequestMoves
<1>5. \A t \in Txs : ~TxExists(t)' /\ (TxExists(t) \/ txs[t] = Deleted => txs'[t] = Deleted)
  BY <1>3 DEF TxExists
<1>6. \A r \in Rules : ~Exists(r)'
  BY <1>3 DEF Exists
<1>7. Shape'
  BY <1>2, <1>3, OneRequestMoves DEF IInv, Shape, Exists, TxExists
<1>8. FilesOK'
  <2>1. \A x : RequestOK(x) /\ FileOK(x) => FileOK(x)'
    BY <1>3, <1>5 DEF FileOK, RequestOK
  <2>2. \A x : x.at = "unlink" /\ x.of \subseteq Txs /\ (\A t \in x.of : TxExists(t)) => FileOK(x)'
    BY <1>5 DEF FileOK
  <2> QED
    BY <1>1, <1>4, <2>1, <2>2 DEF IInv, Shape, FilesOK
<1>9. LedgerFollowsRules'
  BY <1>3, <1>6 DEF LedgerFollowsRules, InStep, Covering
<1>10. NoOrphans' /\ LinkedFilesExist'
  BY <1>3, <1>5 DEF NoOrphans, LinkedFilesExist
<1> QED
  BY <1>7, <1>8, <1>9, <1>10 DEF IInv

-----------------------------------------------------------------------------
LEMMA StepHolds == IInv /\ [Next]_vars => IInv'
<1> SUFFICES ASSUME IInv, [Next]_vars PROVE IInv'
  OBVIOUS
<1>1. CASE UNCHANGED ledgerVars
  BY <1>1, LedgerUnchanged
<1>2. CASE LogStep /\ UNCHANGED ledgerVars
  BY <1>2, LedgerUnchanged
<1>3. ASSUME NEW q \in Requests, RequestStep(q) PROVE IInv'
  <2>1. ASSUME NEW m \in Months, NEW read \in BOOLEAN, SyncGeneratedEntries(q, m, read) PROVE IInv'
    BY <2>1, SyncAsked
  <2>2. ASSUME SyncFinanceGeneratedEntriesForMonth(q) PROVE IInv'
    BY <2>2, MonthSynced
  <2>3. ASSUME NEW r \in Rules, NEW new \in NewRules, PostFinanceRecurringRule(q, r, new) PROVE IInv'
    BY <2>3, RulePosted
  <2>4. ASSUME NEW r \in Rules, NEW patch \in Patches, PatchFinanceRecurringRule(q, r, patch) PROVE IInv'
    BY <2>4, PatchRead
  <2>5. ASSUME NEW r \in Rules, DeleteFinanceRecurringRule(q, r) PROVE IInv'
    BY <2>5, RuleDeleted
  <2>6. ASSUME UpdateFinanceRecurringRule(q) PROVE IInv'
    BY <2>6, RuleUpdated
  <2>7. ASSUME ListOpenedFinanceMonths(q) PROVE IInv'
    BY <2>7, MonthsListed
  <2>8. ASSUME NEW read \in BOOLEAN, ResyncNextMonth(q, read) PROVE IInv'
    BY <2>8, NextMonthTaken
  <2>9. ASSUME NEW t \in Txs, NEW a \in Amounts, NEW m \in Months, NEW attach \in BOOLEAN,
               PostFinanceTransaction(q, t, a, m, attach)
        PROVE  IInv'
    BY <2>9, TransactionPosted
  <2>10. ASSUME NEW t \in Txs, NEW a \in Amounts, NEW m \in Months, PatchFinanceTransaction(q, t, a, m)
         PROVE  IInv'
    BY <2>10, RowToPatchRead
  <2>11. ASSUME NEW saved \in BOOLEAN, SaveFinanceAttachment(q, saved) PROVE IInv'
    BY <2>11, FileSaved
  <2>12. ASSUME LinkAttachment(q) PROVE IInv'
    BY <2>12, RowToLinkRead
  <2>13. ASSUME UpdateFinanceTransaction(q) PROVE IInv'
    BY <2>13, TransactionUpdated
  <2>14. ASSUME ResetFinanceRecords(q) PROVE IInv'
    BY <2>14, RecordsReset
  <2>15. ASSUME NEW removed \in SUBSET Txs, DeleteFinanceResetFiles(q, removed) PROVE IInv'
    BY <2>15, FilesRemoved
  <2>16. ASSUME CutRequest(q) PROVE IInv'
    BY <2>16, RequestCut
  <2> QED
    BY <1>3, <2>1, <2>2, <2>3, <2>4, <2>5, <2>6, <2>7, <2>8, <2>9, <2>10, <2>11, <2>12, <2>13, <2>14,
       <2>15, <2>16 DEF RequestStep
<1>4. ASSUME NEW t \in Txs, DeleteFinanceTransaction(t) PROVE IInv'
  BY <1>4, TransactionDeleted
<1>5. ASSUME NEW x \in LateStays, NEW m \in Months \cup {0}, ReconcileLateCheckout(x, m) PROVE IInv'
  BY <1>5, LateCheckoutReconciled
<1> QED
  BY <1>1, <1>2, <1>3, <1>4, <1>5 DEF Next, LedgerStep, vars

LEMMA Invariant == Spec => []IInv
<1>1. Init => IInv
  BY InitHolds
<1>2. IInv /\ [Next]_vars => IInv'
  BY StepHolds
<1> QED
  BY <1>1, <1>2, PTL DEF Spec

(* Opened months follow the rules (SyncFinanceGeneratedEntriesForMonth,    *)
(* resyncRecurringForAllOpenMonths): rules change and months are opened by *)
(* any number of requests at once, and still no opened month is behind     *)
(* unless a request has yet to sync it or was cut off before it could.     *)
THEOREM OpenedMonthsFollow == Spec => []LedgerFollowsRules
<1>1. IInv => LedgerFollowsRules
  BY DEF IInv
<1> QED
  BY <1>1, Invariant, PTL

(* No generated row outlives its rule, and every row and salary lies in an *)
(* opened month (DeleteFinanceRecurringRule, ResetFinanceRecords).         *)
THEOREM RowsHaveRules == Spec => []NoOrphans
<1>1. IInv => NoOrphans
  BY DEF IInv
<1> QED
  BY <1>1, Invariant, PTL

(* A transaction never names a file that is not there, whichever of the    *)
(* three steps of an upload, an edit or a reset is the last one made.      *)
THEOREM AttachmentsExist == Spec => []LinkedFilesExist
<1>1. IInv => LinkedFilesExist
  BY DEF IInv
<1> QED
  BY <1>1, Invariant, PTL

-----------------------------------------------------------------------------
(* The cleaner's log.  What a pass under way has found and not written yet *)
(* makes up for what it has covered.                                       *)

CleanerEntry(t) == lockLog[t] = [auth |-> Cleaner, entry |-> TRUE]
Counted(t) == entries[Cleaner, DayOf(t)] # None

PassesOK ==
  \A p \in Passes :
    /\ \A u \in pass[p].left : lockLog[u] # None
    /\ pass[p].covered > 0 => pass[p].who = {Cleaner} /\ pass[p].covered <= now
    /\ \A t \in Times : t < pass[p].covered /\ CleanerEntry(t) =>
         Counted(t) \/ \E u \in pass[p].left : lockLog[u].auth = Cleaner /\ DayOf(u) = DayOf(t)

LogInv ==
  /\ LogTypeOK /\ PassesOK /\ EntriesAreCounted
  /\ reconciled <= now /\ now <= reconciled + Lookback

LEMMA DayInDays == ASSUME NEW t \in Times PROVE DayOf(t) \in Days /\ t \in Nat
BY TimeAssumption DEF Days, Times

LEMMA MaxOfTwo ==
  ASSUME NEW a \in Int, NEW b \in Int
  PROVE  Max({a, b}) = IF a >= b THEN a ELSE b
<1>1. CASE a >= b
  <2>1. \A x \in {a, b} : (\A y \in {a, b} : x >= y) <=> x = a
    BY <1>1
  <2>2. QED
    BY <1>1, <2>1 DEF Max
<1>2. CASE ~(a >= b)
  <2>1. \A x \in {a, b} : (\A y \in {a, b} : x >= y) <=> x = b
    BY <1>2
  <2>2. QED
    BY <1>2, <2>1 DEF Max
<1>3. QED
  BY <1>1, <1>2

LEMMA LogInitHolds == LogInit => LogInv
<1> SUFFICES ASSUME LogInit PROVE LogInv
  OBVIOUS
<1>1. 0 \in Times /\ Times \subseteq Nat
  BY TimeAssumption DEF Times
<1>2. LogTypeOK
  BY <1>1 DEF LogInit, LogTypeOK, NoPass
<1>3. PassesOK
  BY NoneAssumption DEF LogInit, PassesOK, NoPass, Times
<1>4. EntriesAreCounted
  <2>1. \A t \in Times : ~(t < reconciled)
    BY <1>1 DEF LogInit
  <2>2. QED
    BY <2>1 DEF EntriesAreCounted
<1>5. QED
  BY <1>2, <1>3, <1>4, TimeAssumption DEF LogInv, LogInit

(* Of a day on which somebody entered a pass takes the first entry.        *)
LEMMA FirstsFind ==
  ASSUME LogTypeOK, NEW events \in SUBSET Times, NEW t \in events, CleanerEntry(t)
  PROVE  \E u \in Firsts(events) : lockLog[u].auth = Cleaner /\ DayOf(u) = DayOf(t)
<1> DEFINE entered == {x \in events : lockLog[x].entry}
           alike == {x \in entered : lockLog[x].auth = Cleaner /\ DayOf(x) = DayOf(t)}
<1>1. t \in alike
  BY DEF CleanerEntry
<1>2. alike \in SUBSET Nat
  <2>1. Times \subseteq Nat
    BY TimeAssumption DEF Times
  <2>2. QED
    BY <2>1
<1>3. PICK u \in alike : \A x \in alike : u <= x
  BY <1>1, <1>2, NatMin
<1>4. u \in Firsts(events)
  BY <1>1, <1>3 DEF Firsts
<1>5. QED
  BY <1>3, <1>4

LEMMA FirstsOf ==
  ASSUME NEW events PROVE Firsts(events) \subseteq events
BY DEF Firsts

LEMMA EventsOf ==
  ASSUME now \in Times, NEW since \in Int, NEW who
  PROVE  \A u \in Of(ListSmartlockEvents(since, who), who) : u \in Times /\ lockLog[u] # None
<1>1. now \in Nat /\ MaxTime \in Nat /\ now <= MaxTime
  BY TimeAssumption DEF Times
<1>2. ASSUME NEW u \in Logged(since) PROVE u \in Times /\ lockLog[u] # None
  <2>1. u \in since..now /\ u >= 0 /\ lockLog[u] # None
    BY DEF Logged
  <2>2. u \in Int /\ u <= now
    BY <2>1, <1>1
  <2>3. QED
    BY <2>1, <2>2, <1>1 DEF Times
<1>3. QED
  BY <1>2 DEF Of, ListSmartlockEvents

(* A pass that starts with the last complete one within its window makes   *)
(* good for every instant up to now.                                       *)
LEMMA WindowReaches ==
  ASSUME LogInv, NEW who, NEW t \in Times, t < now, CleanerEntry(t), who = {Cleaner}
  PROVE  \/ Counted(t)
         \/ \E u \in Firsts(Of(ListSmartlockEvents(now - Lookback, who), who)) :
              lockLog[u].auth = Cleaner /\ DayOf(u) = DayOf(t)
<1> DEFINE events == Of(ListSmartlockEvents(now - Lookback, who), who)
<1>1. now \in Nat /\ reconciled \in Nat /\ t \in Nat /\ Lookback \in Nat /\ now <= reconciled + Lookback
  BY TimeAssumption DEF LogInv, LogTypeOK, Times
<1>2. CASE t < now - Lookback
  <2>1. t < reconciled
    BY <1>1, <1>2
  <2>2. QED
    BY <2>1 DEF LogInv, EntriesAreCounted, Counted, CleanerEntry
<1>3. CASE ~(t < now - Lookback)
  <2>1. t \in (now - Lookback)..now /\ t >= 0
    BY <1>1, <1>3
  <2>2. lockLog[t] # None
    <3>1. [auth |-> Cleaner, entry |-> TRUE] \in [auth : {Cleaner} \cup Guests, entry : BOOLEAN]
      OBVIOUS
    <3>2. QED
      BY <3>1, NoneAssumption DEF CleanerEntry
  <2>3. lockLog[t].auth \in who
    BY DEF CleanerEntry
  <2>4. t \in events
    BY <2>1, <2>2, <2>3 DEF ListSmartlockEvents, Of, Logged
  <2>5. events \in SUBSET Times
    BY <1>1, EventsOf DEF LogInv, LogTypeOK
  <2>6. QED
    BY <2>4, <2>5, FirstsFind DEF LogInv
<1>4. QED
  BY <1>2, <1>3

LEMMA PassStarts ==
  ASSUME LogInv, NEW p \in Passes, NEW who \in SUBSET Who, NEW since \in Int, NEW covered \in Times,
         covered > 0 => who = {Cleaner} /\ since = now - Lookback /\ covered = now,
         StartPass(p, who, since, covered)
  PROVE  LogInv'
<1> DEFINE firsts == Firsts(Of(ListSmartlockEvents(since, who), who))
<1>1. /\ UNCHANGED <<now, lockLog, entries, fees, adjustments, reconciled>>
      /\ pass' = [pass EXCEPT ![p] = [who |-> who, left |-> firsts, covered |-> covered]]
  BY DEF StartPass
<1>2. LogTypeOK /\ PassesOK /\ now \in Nat
  BY TimeAssumption DEF LogInv, LogTypeOK, Times
<1>3. firsts \subseteq Times /\ \A u \in firsts : lockLog[u] # None
  BY <1>2, FirstsOf, EventsOf DEF LogTypeOK
<1>4. covered > 0 => \A t \in Times : t < covered /\ CleanerEntry(t) =>
        Counted(t) \/ \E u \in firsts : lockLog[u].auth = Cleaner /\ DayOf(u) = DayOf(t)
  BY WindowReaches
<1> HIDE DEF firsts
<1>5. LogTypeOK'
  BY <1>1, <1>2, <1>3 DEF LogTypeOK
<1>6. PassesOK'
  <2>1. \A t \in Times : ~(covered > 0) => ~(t < covered)
    BY TimeAssumption DEF Times
  <2>2. \A t \in Times : (CleanerEntry(t) <=> CleanerEntry(t)') /\ (Counted(t) <=> Counted(t)')
    BY <1>1 DEF CleanerEntry, Counted
  <2>3. ASSUME NEW o \in Passes \ {p}
        PROVE  /\ \A u \in pass'[o].left : lockLog'[u] # None
               /\ pass'[o].covered > 0 => pass'[o].who = {Cleaner} /\ pass'[o].covered <= now'
               /\ \A t \in Times : t < pass'[o].covered /\ CleanerEntry(t)' =>
                    Counted(t)' \/ \E u \in pass'[o].left : lockLog'[u].auth = Cleaner /\ DayOf(u) = DayOf(t)
    <3>1. pass'[o] = pass[o]
      BY <1>1, <1>2 DEF LogTypeOK
    <3>2. QED
      BY <3>1, <2>2, <1>1, <1>2 DEF PassesOK
  <2>4. pass'[p] = [who |-> who, left |-> firsts, covered |-> covered]
    BY <1>1, <1>2 DEF LogTypeOK
  <2>5. /\ \A u \in pass'[p].left : lockLog'[u] # None
        /\ pass'[p].covered > 0 => pass'[p].who = {Cleaner} /\ pass'[p].covered <= now'
        /\ \A t \in Times : t < pass'[p].covered /\ CleanerEntry(t)' =>
             Counted(t)' \/ \E u \in pass'[p].left : lockLog'[u].auth = Cleaner /\ DayOf(u) = DayOf(t)
    BY <2>1, <2>2, <2>4, <1>1, <1>2, <1>3, <1>4
  <2>6. QED
    BY <2>3, <2>5 DEF PassesOK
<1>7. QED
  BY <1>1, <1>5, <1>6 DEF LogInv, EntriesAreCounted

(* A row that is written replaces one at most, and is of the event found.  *)
LEMMA RowWritten ==
  ASSUME LogInv, NEW p \in Passes, NEW x \in Times, UpsertDailyEntry(p, x)
  PROVE  LogInv'
<1> DEFINE key == <<lockLog[x].auth, DayOf(x)>>
<1>1. /\ UNCHANGED <<now, lockLog, fees, adjustments, reconciled>>
      /\ x \in pass[p].left
      /\ entries' = [entries EXCEPT ![key] = x]
      /\ pass' = [pass EXCEPT ![p].left = @ \ {x}]
  BY DEF UpsertDailyEntry
<1>2. LogTypeOK /\ PassesOK /\ EntriesAreCounted
  BY DEF LogInv
<1>3. lockLog[x] \in [auth : Who, entry : BOOLEAN]
  BY <1>1, <1>2 DEF PassesOK, LogTypeOK
<1>4. key \in Who \X Days /\ x # None
  BY <1>3, DayInDays, NoneAssumption
<1>5. LogTypeOK'
  BY <1>1, <1>2, <1>4 DEF LogTypeOK
<1>6. /\ entries'[key] # None
      /\ \A k \in Who \X Days : entries[k] # None => entries'[k] # None
  BY <1>1, <1>2, <1>4 DEF LogTypeOK
<1>7. Cleaner \in Who
  BY DEF Who
<1>8. \A t \in Times : (CleanerEntry(t)' <=> CleanerEntry(t)) /\ (Counted(t) => Counted(t)')
  BY <1>1, <1>6, <1>7, DayInDays DEF CleanerEntry, Counted
<1>9. \A t \in Times : lockLog[x].auth = Cleaner /\ DayOf(x) = DayOf(t) => Counted(t)'
  BY <1>6 DEF Counted
<1>10. PassesOK'
  <2> SUFFICES ASSUME NEW o \in Passes
               PROVE  /\ \A u \in pass'[o].left : lockLog'[u] # None
                      /\ pass'[o].covered > 0 => pass'[o].who = {Cleaner} /\ pass'[o].covered <= now'
                      /\ \A t \in Times : t < pass'[o].covered /\ CleanerEntry(t)' =>
                           Counted(t)' \/ \E u \in pass'[o].left : lockLog'[u].auth = Cleaner /\ DayOf(u) = DayOf(t)
    BY DEF PassesOK
  <2>1. /\ pass'[o].covered = pass[o].covered /\ pass'[o].who = pass[o].who
        /\ pass'[o].left \subseteq pass[o].left /\ pass[o].left \subseteq pass'[o].left \cup {x}
    <3>1. pass[p] \in [who : SUBSET Who, left : SUBSET Times, covered : Times]
      BY <1>2 DEF LogTypeOK
    <3>2. CASE o = p
      BY <3>1, <3>2, <1>1, <1>2 DEF LogTypeOK
    <3>3. CASE o # p
      BY <3>3, <1>1, <1>2 DEF LogTypeOK
    <3>4. QED
      BY <3>2, <3>3
  <2>2. ASSUME NEW t \in Times, t < pass'[o].covered, CleanerEntry(t)'
        PROVE  Counted(t)' \/ \E u \in pass'[o].left : lockLog'[u].auth = Cleaner /\ DayOf(u) = DayOf(t)
    <3>1. Counted(t) \/ \E u \in pass[o].left : lockLog[u].auth = Cleaner /\ DayOf(u) = DayOf(t)
      BY <2>1, <2>2, <1>2, <1>8 DEF PassesOK
    <3>2. QED
      BY <3>1, <2>1, <1>1, <1>8, <1>9
  <2>3. QED
    BY <2>1, <2>2, <1>1, <1>2 DEF PassesOK
<1>11. EntriesAreCounted'
  BY <1>1, <1>2, <1>8 DEF EntriesAreCounted, CleanerEntry, Counted
<1>12. QED
  BY <1>1, <1>5, <1>10, <1>11 DEF LogInv

LEMMA PassesKept ==
  ASSUME LogTypeOK, PassesOK, LogTypeOK', UNCHANGED <<lockLog, entries>>, now <= now',
         \A o \in Passes : pass'[o] = pass[o] \/ pass'[o] = NoPass
  PROVE  PassesOK'
<1>1. Times \subseteq Nat /\ now \in Nat /\ now' \in Nat
  BY TimeAssumption DEF LogTypeOK, Times
<1>2. \A t \in Times : (CleanerEntry(t)' <=> CleanerEntry(t)) /\ (Counted(t)' <=> Counted(t))
  BY DEF CleanerEntry, Counted
<1>3. ASSUME NEW o \in Passes
      PROVE  /\ \A u \in pass'[o].left : lockLog'[u] # None
             /\ pass'[o].covered > 0 => pass'[o].who = {Cleaner} /\ pass'[o].covered <= now'
             /\ \A t \in Times : t < pass'[o].covered /\ CleanerEntry(t)' =>
                  Counted(t)' \/ \E u \in pass'[o].left : lockLog'[u].auth = Cleaner /\ DayOf(u) = DayOf(t)
  <2>1. CASE pass'[o] = NoPass
    <3>1. pass'[o].left = {} /\ pass'[o].covered = 0
      BY <2>1 DEF NoPass
    <3>2. \A t \in Times : ~(t < 0)
      BY <1>1
    <3>3. QED
      BY <3>1, <3>2
  <2>2. CASE pass'[o] = pass[o]
    <3>1. pass[o].covered \in Nat
      BY <1>1 DEF LogTypeOK
    <3>2. pass[o].covered <= now => pass[o].covered <= now'
      BY <1>1, <3>1
    <3>3. QED
      BY <2>2, <3>2, <1>2 DEF PassesOK
  <2>3. QED
    BY <2>1, <2>2
<1>4. QED
  BY <1>3 DEF PassesOK

LEMMA PassEnds ==
  ASSUME LogInv, NEW p \in Passes, EndPass(p)
  PROVE  LogInv'
<1>1. /\ UNCHANGED <<now, lockLog, entries, fees, adjustments>>
      /\ pass[p].left = {}
      /\ pass' = [pass EXCEPT ![p] = NoPass]
      /\ reconciled' = Max({reconciled, pass[p].covered})
  BY DEF EndPass
<1>2. LogTypeOK /\ PassesOK /\ EntriesAreCounted /\ reconciled <= now /\ now <= reconciled + Lookback
  BY DEF LogInv
<1>3. pass[p] \in [who : SUBSET Who, left : SUBSET Times, covered : Times] /\ Times \subseteq Nat /\ 0 \in Times
  BY <1>2, TimeAssumption DEF LogTypeOK, Times
<1>4. reconciled \in Nat /\ pass[p].covered \in Nat /\ now \in Nat /\ Lookback \in Nat
  BY <1>2, <1>3, TimeAssumption DEF LogTypeOK
<1>5. reconciled' = IF reconciled >= pass[p].covered THEN reconciled ELSE pass[p].covered
  BY <1>1, <1>4, MaxOfTwo
<1>6. pass[p].covered <= now
  BY <1>2, <1>4 DEF PassesOK
<1>7. LogTypeOK'
  BY <1>1, <1>2, <1>3, <1>5 DEF LogTypeOK, NoPass
<1>8. PassesOK'
  <2>1. \A o \in Passes : pass'[o] = IF o = p THEN NoPass ELSE pass[o]
    BY <1>1, <1>2 DEF LogTypeOK
  <2>2. now <= now'
    BY <1>1, <1>4
  <2>3. QED
    BY <2>1, <2>2, <1>1, <1>2, <1>7, PassesKept
<1>9. EntriesAreCounted'
  <2>1. ASSUME NEW t \in Times, t < reconciled', CleanerEntry(t) PROVE Counted(t)
    <3>1. CASE t < reconciled
      BY <3>1, <2>1, <1>2 DEF EntriesAreCounted, CleanerEntry, Counted
    <3>2. CASE t < pass[p].covered
      BY <3>2, <2>1, <1>1, <1>2 DEF PassesOK
    <3>3. QED
      BY <3>1, <3>2, <2>1, <1>5
  <2>2. QED
    BY <2>1, <1>1 DEF EntriesAreCounted, CleanerEntry, Counted
<1>10. reconciled' <= now' /\ now' <= reconciled' + Lookback
  <2>1. reconciled <= reconciled' /\ reconciled' \in Nat /\ reconciled' <= now
    BY <1>2, <1>4, <1>5, <1>6
  <2>2. now <= reconciled' + Lookback
    <3> DEFINE r == reconciled'
    <3>1. r \in Nat /\ reconciled <= r
      BY <2>1
    <3> HIDE DEF r
    <3>2. now <= r + Lookback
      BY <3>1, <1>2, <1>4
    <3>3. QED
      BY <3>2 DEF r
  <2>3. QED
    BY <2>1, <2>2, <1>1
<1>11. QED
  BY <1>7, <1>8, <1>9, <1>10 DEF LogInv

LEMMA PassCut ==
  ASSUME LogInv, NEW p \in Passes, CutPass(p)
  PROVE  LogInv'
<1>1. /\ UNCHANGED <<now, lockLog, entries, fees, adjustments, reconciled>>
      /\ pass' = [pass EXCEPT ![p] = NoPass]
  BY DEF CutPass
<1>2. LogTypeOK /\ PassesOK
  BY DEF LogInv
<1>3. Times \subseteq Nat /\ 0 \in Times /\ now \in Nat
  BY <1>2, TimeAssumption DEF LogTypeOK, Times
<1>4. LogTypeOK'
  BY <1>1, <1>2, <1>3 DEF LogTypeOK, NoPass
<1>5. PassesOK'
  <2>1. \A o \in Passes : pass'[o] = IF o = p THEN NoPass ELSE pass[o]
    BY <1>1, <1>2 DEF LogTypeOK
  <2>2. now <= now'
    BY <1>1, <1>3
  <2>3. QED
    BY <2>1, <2>2, <1>1, <1>2, <1>4, PassesKept
<1>6. QED
  BY <1>1, <1>4, <1>5 DEF LogInv, EntriesAreCounted

(* What happens now lies before no pass, and no pass has found it.         *)
LEMMA LockUsed ==
  ASSUME LogInv, NEW w \in Who, NEW entry \in BOOLEAN, Use(w, entry)
  PROVE  LogInv'
<1>1. /\ UNCHANGED <<now, entries, fees, adjustments, pass, reconciled>>
      /\ lockLog[now] = None
      /\ lockLog' = [lockLog EXCEPT ![now] = [auth |-> w, entry |-> entry]]
  BY DEF Use
<1>2. LogTypeOK /\ PassesOK /\ EntriesAreCounted /\ reconciled <= now /\ now \in Nat /\ Times \subseteq Nat
  BY TimeAssumption DEF LogInv, LogTypeOK, Times
<1>3. LogTypeOK'
  BY <1>1, <1>2 DEF LogTypeOK
<1>4. \A t \in Times : t # now => lockLog'[t] = lockLog[t]
  BY <1>1, <1>2 DEF LogTypeOK
<1>5. PassesOK'
  <2> SUFFICES ASSUME NEW o \in Passes
               PROVE  /\ \A u \in pass[o].left : lockLog'[u] # None
                      /\ \A t \in Times : t < pass[o].covered /\ CleanerEntry(t)' =>
                           Counted(t) \/ \E u \in pass[o].left : lockLog'[u].auth = Cleaner /\ DayOf(u) = DayOf(t)
    BY <1>1, <1>2 DEF PassesOK, Counted
  <2>1. pass[o] \in [who : SUBSET Who, left : SUBSET Times, covered : Times]
    BY <1>2 DEF LogTypeOK
  <2>2. \A u \in pass[o].left : lockLog'[u] = lockLog[u]
    BY <2>1, <1>1, <1>2, <1>4 DEF PassesOK
  <2>3. ASSUME NEW t \in Times, t < pass[o].covered PROVE lockLog'[t] = lockLog[t]
    <3>1. pass[o].covered <= now /\ pass[o].covered \in Nat /\ t \in Nat
      BY <2>1, <2>3, <1>2 DEF PassesOK
    <3>2. QED
      BY <3>1, <2>3, <1>2, <1>4
  <2>4. \A u \in pass[o].left : lockLog'[u] # None
    BY <2>2, <1>2 DEF PassesOK
  <2>5. ASSUME NEW t \in Times, t < pass[o].covered, CleanerEntry(t)'
        PROVE  Counted(t) \/ \E u \in pass[o].left : lockLog'[u].auth = Cleaner /\ DayOf(u) = DayOf(t)
    <3>1. CleanerEntry(t)
      BY <2>3, <2>5 DEF CleanerEntry
    <3>2. Counted(t) \/ \E u \in pass[o].left : lockLog[u].auth = Cleaner /\ DayOf(u) = DayOf(t)
      BY <1>2, <2>5, <3>1 DEF PassesOK
    <3>3. QED
      BY <2>2, <3>2
  <2>6. QED
    BY <2>4, <2>5
<1>6. EntriesAreCounted'
  <2>1. reconciled \in Nat
    BY <1>2 DEF LogTypeOK
  <2>2. \A t \in Times : t < reconciled => lockLog'[t] = lockLog[t]
    BY <2>1, <1>2, <1>4
  <2>3. QED
    BY <2>2, <1>1, <1>2 DEF EntriesAreCounted
<1>7. QED
  BY <1>1, <1>3, <1>5, <1>6 DEF LogInv

LEMMA TimePasses ==
  ASSUME LogInv, Tick
  PROVE  LogInv'
<1>1. /\ UNCHANGED <<lockLog, entries, fees, adjustments, pass, reconciled>>
      /\ now < MaxTime /\ now < reconciled + Lookback /\ now' = now + 1
  BY DEF Tick
<1>2. LogTypeOK /\ PassesOK /\ EntriesAreCounted /\ reconciled <= now
  BY DEF LogInv
<1>3. now \in Nat /\ reconciled \in Nat /\ Lookback \in Nat /\ MaxTime \in Nat /\ Times \subseteq Nat
  BY <1>2, TimeAssumption DEF LogTypeOK, Times
<1>4. LogTypeOK'
  <2>1. now' \in Times
    BY <1>1, <1>3 DEF Times
  <2>2. QED
    BY <2>1, <1>1, <1>2 DEF LogTypeOK
<1>5. PassesOK'
  <2>1. now <= now'
    BY <1>1, <1>3
  <2>2. QED
    BY <2>1, <1>1, <1>2, <1>4, PassesKept
<1>6. reconciled' <= now' /\ now' <= reconciled' + Lookback
  BY <1>1, <1>2, <1>3
<1>7. QED
  BY <1>1, <1>2, <1>4, <1>5, <1>6 DEF LogInv, EntriesAreCounted

LEMMA LogStepHolds == LogInv /\ (LogStep \/ UNCHANGED logVars) => LogInv'
<1> SUFFICES ASSUME LogInv PROVE LogStep \/ UNCHANGED logVars => LogInv'
  OBVIOUS
<1>1. now \in Nat /\ Lookback \in Nat /\ 0 \in Times /\ now \in Times /\ ~(0 > 0)
  BY TimeAssumption DEF LogInv, LogTypeOK, Times
<1>2. ASSUME NEW p \in Passes, ReconcileCleanerDailyLogs(p) PROVE LogInv'
  <2>1. now - Lookback \in Int /\ {Cleaner} \in SUBSET Who
    BY <1>1 DEF Who
  <2>2. QED
    BY <2>1, <1>1, <1>2, PassStarts DEF ReconcileCleanerDailyLogs
<1>3. ASSUME NEW p \in Passes, ReconcileGuestDailyEntries(p) PROVE LogInv'
  <2>1. now - Lookback \in Int /\ Guests \in SUBSET Who
    BY <1>1 DEF Who
  <2>2. QED
    BY <2>1, <1>1, <1>3, PassStarts DEF ReconcileGuestDailyEntries
<1>4. ASSUME NEW p \in Passes, NEW m \in Months, RunCleaningReconcile(p, m) PROVE LogInv'
  <2>1. FirstOf(m) \in Int /\ {Cleaner} \in SUBSET Who
    <3>1. PICK t \in Times : m = 1 + DayOf(t) \div MonthLength
      BY DEF Months, Days, MonthOf
    <3>2. t \in Nat /\ DayLength \in Nat \ {0} /\ MonthLength \in Nat \ {0}
      BY TimeAssumption DEF Times
    <3>3. DayOf(t) \in Int
      BY <3>2 DEF DayOf
    <3>4. m \in Int
      BY <3>1, <3>2, <3>3
    <3>5. (m - 1) * MonthLength \in Int
      BY <3>2, <3>4
    <3>6. QED
      BY <3>2, <3>5 DEF FirstOf, Who
  <2>2. QED
    BY <2>1, <1>1, <1>4, PassStarts DEF RunCleaningReconcile
<1>5. ASSUME NEW t \in Times, NEW f \in Fees, PostCleaningFees(t, f) PROVE LogInv'
  <2>1. /\ UNCHANGED <<now, lockLog, entries, adjustments, pass, reconciled>>
        /\ LogTypeOK'
    BY <1>5 DEF PostCleaningFees, LogInv, LogTypeOK
  <2>2. QED
    BY <2>1 DEF LogInv, PassesOK, EntriesAreCounted, CleanerEntry, Counted
<1>6. ASSUME NEW m \in Months, NEW a \in Adjustments, PostCleaningAdjustment(m, a) PROVE LogInv'
  <2>1. UNCHANGED <<now, lockLog, entries, fees, pass, reconciled>>
    BY <1>6 DEF PostCleaningAdjustment
  <2>2. adjustments' \in [Months -> Int]
    <3>1. adjustments[m] + a \in Int
      BY <1>6 DEF PostCleaningAdjustment
    <3>2. QED
      BY <3>1, <1>6 DEF PostCleaningAdjustment, LogInv, LogTypeOK
  <2>3. LogTypeOK'
    BY <2>1, <2>2 DEF LogInv, LogTypeOK
  <2>4. QED
    BY <2>1, <2>3 DEF LogInv, PassesOK, EntriesAreCounted, CleanerEntry, Counted
<1>7. ASSUME UNCHANGED logVars PROVE LogInv'
  <2>1. UNCHANGED <<now, lockLog, entries, fees, adjustments, pass, reconciled>>
    BY <1>7 DEF logVars
  <2>2. LogTypeOK'
    BY <2>1 DEF LogInv, LogTypeOK
  <2>3. QED
    BY <2>1, <2>2 DEF LogInv, PassesOK, EntriesAreCounted, CleanerEntry, Counted
<1>8. QED
  BY <1>2, <1>3, <1>4, <1>5, <1>6, <1>7, RowWritten, PassEnds, PassCut, LockUsed, TimePasses DEF LogStep

LEMMA LogInvariant == Spec => []LogInv
<1>1. Init => LogInv
  BY LogInitHolds DEF Init
<1>2. LogInv /\ [Next]_vars => LogInv'
  BY LogStepHolds DEF Next, vars
<1> QED
  BY <1>1, <1>2, PTL DEF Spec

(* An entry of the cleaner before the last complete pass is counted        *)
(* (ReconcileCleanerDailyLogs): passes cut off between two rows, passes of *)
(* other windows and events that arrive meanwhile lose none.               *)
THEOREM EntriesCounted == Spec => []EntriesAreCounted
<1>1. LogInv => EntriesAreCounted
  BY DEF LogInv
<1> QED
  BY <1>1, LogInvariant, PTL

-----------------------------------------------------------------------------
(* Types.  A salary is a sum of fees and so a whole number; a resync has   *)
(* always a next month.                                                    *)
TypeInv ==
  /\ LedgerTypeOK
  /\ \A q \in Requests : request[q].at = "resync" => request[q].left # {}

LEMMA CalendarTypes ==
  /\ Times \subseteq Nat /\ 0 \in Times
  /\ Days \subseteq 0..MaxTime /\ IsFiniteSet(Days)
  /\ Months \subseteq Nat \ {0}
<1>1. Times \subseteq Nat /\ 0 \in Times
  BY TimeAssumption DEF Times
<1>2. \A t \in Times : DayOf(t) \in 0..MaxTime
  <2> SUFFICES ASSUME NEW t \in Times PROVE DayOf(t) \in 0..MaxTime
    OBVIOUS
  <2>1. t \in Nat /\ t <= MaxTime /\ MaxTime \in Nat /\ DayLength \in Nat \ {0}
    BY TimeAssumption DEF Times
  <2>2. t \div DayLength \in Nat /\ t \div DayLength <= t
    BY <2>1
  <2>3. QED
    BY <2>1, <2>2 DEF DayOf
<1>3. Days \subseteq 0..MaxTime
  BY <1>2 DEF Days
<1>4. IsFiniteSet(Days)
  <2>1. MaxTime \in Int /\ 0 \in Int
    BY TimeAssumption
  <2>2. IsFiniteSet(0..MaxTime)
    BY <2>1, FS_Interval
  <2>3. QED
    BY <1>3, <2>2, FS_Subset
<1>5. ASSUME NEW d \in Days PROVE MonthOf(d) \in Nat \ {0}
  <2>1. d \in Nat /\ MonthLength \in Nat \ {0}
    BY <1>3, TimeAssumption
  <2>2. d \div MonthLength \in Nat
    BY <2>1
  <2>3. QED
    BY <2>2 DEF MonthOf
<1>6. QED
  BY <1>1, <1>3, <1>4, <1>5 DEF Months

LEMMA LargestIn ==
  ASSUME NEW n \in Nat, NEW S \in SUBSET (0..n), S # {} PROVE Max(S) \in S
<1> DEFINE above == {x \in Nat : \A y \in S : x >= y}
<1>1. n \in above
  OBVIOUS
<1>2. PICK x \in above : \A y \in above : x <= y
  BY <1>1, NatMin
<1>3. x \in S
  <2> SUFFICES ASSUME x \notin S PROVE FALSE
    OBVIOUS
  <2>1. PICK y \in S : TRUE
    OBVIOUS
  <2>2. x > 0
    BY <1>2, <2>1
  <2>3. x - 1 \in above
    BY <1>2, <2>2
  <2>4. QED
    BY <1>2, <2>3
<1>4. \A y \in S : x >= y
  BY <1>2
<1>5. QED
  BY <1>3, <1>4 DEF Max

LEMMA SmallestIn == ASSUME NEW S \in SUBSET Nat, S # {} PROVE Min(S) \in S
<1>1. PICK x \in S : \A y \in S : x <= y
  BY NatMin
<1>2. QED
  BY <1>1 DEF Min

(* Every day earns a whole number, and so does every month.                *)
LEMMA FeeType == ASSUME LogTypeOK, NEW t \in Times PROVE FeeAt(t) \in Int
<1> DEFINE inForce == {u \in 0..t : fees[u] # None}
<1>1. CASE inForce = {}
  BY <1>1 DEF FeeAt
<1>2. CASE inForce # {}
  <2>1. t \in Nat /\ 0..t \subseteq Times
    BY TimeAssumption DEF Times
  <2>2. Max(inForce) \in inForce
    BY <1>2, <2>1, LargestIn
  <2>3. fees[Max(inForce)] \in Fees
    BY <2>1, <2>2 DEF LogTypeOK
  <2>4. FeeAt(t) = fees[Max(inForce)]
    BY <1>2 DEF FeeAt
  <2>5. QED
    BY <2>3, <2>4, FeeAssumption
<1>3. QED
  BY <1>1, <1>2

LEMMA SalaryType == ASSUME LogTypeOK, NEW m \in Months PROVE OrdinarySalary(m) \in Int
<1> DEFINE D == CountedDays(m)
           pay == [d \in D |-> FeeAt(entries[Cleaner, d])]
<1>1. D \subseteq Days /\ IsFiniteSet(D)
  BY CalendarTypes, FS_Subset DEF CountedDays
<1>2. ASSUME NEW d \in D PROVE pay[d] \in Int
  <2>1. d \in Days /\ entries[Cleaner, d] # None
    BY DEF CountedDays
  <2>2. entries[Cleaner, d] \in Times
    BY <2>1 DEF LogTypeOK, Who
  <2>3. QED
    BY <2>2, FeeType
<1>3. DOMAIN pay = D
  OBVIOUS
<1>4. BaseSalary(m) = SumFunctionOnSet(pay, D)
  BY <1>3 DEF BaseSalary, SumFunction
<1> HIDE DEF pay, D
<1>5. BaseSalary(m) \in Int
  BY <1>1, <1>2, <1>4, SumInt
<1>6. adjustments[m] \in Int
  BY DEF LogTypeOK
<1>7. QED
  BY <1>5, <1>6 DEF OrdinarySalary

LEMMA StateOf ==
  ASSUME NEW s \in RequestStates
  PROVE  /\ s.at = "edit" => s.rule \in Rules /\ s.patch \in Patches /\ s.read \in Rule
         /\ s.at = "resync" => s.left \in SUBSET Months
         /\ s.at = "sync" => s.month \in Months /\ s.owed \in Int /\ s.left \in SUBSET Months
         /\ s.at \in {"save", "link", "update"} => s.tx \in Txs
         /\ s.at = "update" => s.row \in Tx
         /\ s.at = "unlink" => s.of \subseteq Txs
BY DEF RequestStates, Idle

LEMMA IsState ==
  /\ Idle \in RequestStates /\ [at |-> "list"] \in RequestStates
  /\ \A left \in SUBSET Months : AfterSync(left) \in RequestStates
  /\ \A m \in Months, left \in SUBSET Months, read \in BOOLEAN :
       OrdinarySalary(m) \in Int => ComputeCleaningMonthlySummary(m, left, read) \in RequestStates
  /\ \A r \in Rules, p \in Patches, x \in Rule :
       [at |-> "edit", rule |-> r, patch |-> p, read |-> x] \in RequestStates
  /\ \A t \in Txs, row \in Tx : [at |-> "update", tx |-> t, row |-> row] \in RequestStates
  /\ \A t \in Txs : [at |-> "save", tx |-> t] \in RequestStates /\ [at |-> "link", tx |-> t] \in RequestStates
  /\ \A of \in SUBSET Txs : [at |-> "unlink", of |-> of] \in RequestStates
<1>1. /\ Idle \in RequestStates /\ [at |-> "list"] \in RequestStates
      /\ \A left \in SUBSET Months : [at |-> "resync", left |-> left] \in RequestStates
  BY DEF RequestStates
<1>2. \A m \in Months, left \in SUBSET Months, owed \in Int :
        [at |-> "sync", month |-> m, owed |-> owed, left |-> left] \in RequestStates
  BY DEF RequestStates
<1>3. \A r \in Rules, p \in Patches, x \in Rule :
        [at |-> "edit", rule |-> r, patch |-> p, read |-> x] \in RequestStates
  BY DEF RequestStates
<1>4. /\ \A t \in Txs, row \in Tx : [at |-> "update", tx |-> t, row |-> row] \in RequestStates
      /\ \A t \in Txs : [at |-> "save", tx |-> t] \in RequestStates /\ [at |-> "link", tx |-> t] \in RequestStates
      /\ \A of \in SUBSET Txs : [at |-> "unlink", of |-> of] \in RequestStates
  BY DEF RequestStates
<1>5. QED
  BY <1>1, <1>2, <1>3, <1>4 DEF AfterSync, ComputeCleaningMonthlySummary

LEMMA TypeInitHolds == Init => TypeInv
<1> SUFFICES ASSUME LedgerInit PROVE TypeInv
  BY DEF Init
<1>1. LedgerTypeOK
  <2>1. rules \in [Rules -> {Unused, Deleted} \cup Rule]
    BY RuleAssumption DEF LedgerInit
  <2>2. generated \subseteq [rule : Rules, month : Months, legacy : BOOLEAN, amount : Amounts]
    <3>1. CASE generated = {}
      BY <3>1
    <3>2. CASE generated # {}
      <4>1. PICK r \in Rules, new \in NewRules, m \in Months :
              generated = {[rule |-> r, month |-> m, legacy |-> TRUE, amount |-> new.amount]}
        BY <3>2 DEF LedgerInit
      <4>2. new.amount \in Amounts
        BY RuleAssumption DEF Rule
      <4>3. QED
        BY <4>1, <4>2
    <3>3. QED
      BY <3>1, <3>2
  <2>3. opened \subseteq Months /\ abandoned \subseteq Months
    BY DEF LedgerInit
  <2>4. request \in [Requests -> RequestStates]
    BY IsState DEF LedgerInit
  <2>5. salary \in [Months -> Nat] /\ late \in [LateStays -> Months \cup {0}]
    BY DEF LedgerInit
  <2>6. txs \in [Txs -> {Unused, Deleted} \cup Tx] /\ files \subseteq Txs
    BY DEF LedgerInit
  <2>7. QED
    BY <2>1, <2>2, <2>3, <2>4, <2>5, <2>6 DEF LedgerTypeOK
<1>2. \A q \in Requests : request[q].at # "resync"
  BY DEF LedgerInit, Idle
<1>3. QED
  BY <1>1, <1>2 DEF TypeInv

(* A request that moves to a state of its kind, the rows being of theirs.  *)
LEMMA TypesKept ==
  ASSUME TypeInv, NEW q \in Requests, NEW s \in RequestStates, s.at = "resync" => s.left # {},
         request' = [request EXCEPT ![q] = s],
         rules' \in [Rules -> {Unused, Deleted} \cup Rule],
         generated' \subseteq [rule : Rules, month : Months, legacy : BOOLEAN, amount : Amounts],
         salary' \in [Months -> Nat], late' = late,
         opened' \subseteq Months, abandoned' \subseteq Months,
         txs' \in [Txs -> {Unused, Deleted} \cup Tx], files' \subseteq Txs
  PROVE  TypeInv'
<1>1. request \in [Requests -> RequestStates]
  BY DEF TypeInv, LedgerTypeOK
<1>2. request' \in [Requests -> RequestStates]
  BY <1>1
<1>3. \A p \in Requests : request'[p] = IF p = q THEN s ELSE request[p]
  BY <1>1
<1>4. RequestStates' = RequestStates
  BY DEF RequestStates
<1>5. LedgerTypeOK'
  BY <1>2, <1>4 DEF TypeInv, LedgerTypeOK
<1>6. \A p \in Requests : request'[p].at = "resync" => request'[p].left # {}
  BY <1>3 DEF TypeInv
<1>7. QED
  BY <1>5, <1>6 DEF TypeInv

LEMMA UnsyncedType ==
  ASSUME TypeInv, NEW q \in Requests PROVE Unsynced(request[q]) \subseteq Months
<1>1. request[q] \in RequestStates /\ opened \subseteq Months
  BY DEF TypeInv, LedgerTypeOK
<1>2. QED
  BY <1>1, StateOf DEF Unsynced

LEMMA GeneratedType ==
  ASSUME TypeInv, NEW m \in Months
  PROVE  Purged(Upserted(generated, m), m)
           \subseteq [rule : Rules, month : Months, legacy : BOOLEAN, amount : Amounts]
<1>1. ASSUME NEW r \in Covering(m)
      PROVE  Entry(r, m) \in [rule : Rules, month : Months, legacy : BOOLEAN, amount : Amounts]
  <2>1. r \in Rules /\ rules[r] \in Rule
    BY DEF Covering, Exists, TypeInv, LedgerTypeOK
  <2>2. rules[r].amount \in Amounts
    BY <2>1 DEF Rule
  <2>3. QED
    BY <2>1, <2>2 DEF Entry
<1>2. generated \subseteq [rule : Rules, month : Months, legacy : BOOLEAN, amount : Amounts]
  BY DEF TypeInv, LedgerTypeOK
<1>3. QED
  BY <1>1, <1>2 DEF Purged, Upserted

LEMMA RequestStepTyped ==
  ASSUME LogTypeOK, TypeInv, NEW q \in Requests, RequestStep(q)
  PROVE  TypeInv'
<1> DEFINE R == request[q]
<1>1. R \in RequestStates /\ (R.at = "resync" => R.left # {}) /\ opened \subseteq Months /\ abandoned \subseteq Months
  BY DEF TypeInv, LedgerTypeOK
<1>2. /\ R.at = "edit" => R.rule \in Rules /\ R.patch \in Patches /\ R.read \in Rule
      /\ R.at = "resync" => R.left \in SUBSET Months
      /\ R.at = "sync" => R.month \in Months /\ R.owed \in Int /\ R.left \in SUBSET Months
      /\ R.at \in {"save", "link", "update"} => R.tx \in Txs
      /\ R.at = "update" => R.row \in Tx
  BY <1>1, StateOf
<1>3. Idle.at # "resync"
  BY DEF Idle
<1>4. \A left \in SUBSET Months : AfterSync(left) \in RequestStates
        /\ (AfterSync(left).at = "resync" => AfterSync(left).left # {})
  BY <1>3, IsState DEF AfterSync
<1>5. \A m \in Months, left \in SUBSET Months, read \in BOOLEAN :
        /\ ComputeCleaningMonthlySummary(m, left, read) \in RequestStates
        /\ ComputeCleaningMonthlySummary(m, left, read).at # "resync"
  <2>1. \A m, left, read : ComputeCleaningMonthlySummary(m, left, read).at # "resync"
    BY DEF ComputeCleaningMonthlySummary
  <2>2. QED
    BY <2>1, SalaryType, IsState
<1>6. /\ rules \in [Rules -> {Unused, Deleted} \cup Rule]
      /\ generated \subseteq [rule : Rules, month : Months, legacy : BOOLEAN, amount : Amounts]
      /\ salary \in [Months -> Nat]
      /\ txs \in [Txs -> {Unused, Deleted} \cup Tx]
      /\ files \subseteq Txs
  BY DEF TypeInv, LedgerTypeOK
<1>7. ASSUME NEW m \in Months, NEW read \in BOOLEAN, SyncGeneratedEntries(q, m, read) PROVE TypeInv'
  <2>1. /\ ComputeCleaningMonthlySummary(m, {}, read) \in RequestStates
        /\ ComputeCleaningMonthlySummary(m, {}, read).at # "resync"
    BY <1>5
  <2>2. QED
    BY <2>1, <1>1, <1>6, <1>7, TypesKept DEF SyncGeneratedEntries
<1>8. ASSUME SyncFinanceGeneratedEntriesForMonth(q) PROVE TypeInv'
  <2>1. R.at = "sync"
    BY <1>8 DEF SyncFinanceGeneratedEntriesForMonth
  <2>2. R.month \in Months /\ R.owed \in Int /\ R.left \in SUBSET Months
    BY <2>1, <1>2
  <2>3. SyncedSalary(R.month, R.owed) \in [Months -> Nat]
    BY <2>2, <1>6 DEF SyncedSalary
  <2>4. Purged(Upserted(generated, R.month), R.month)
          \subseteq [rule : Rules, month : Months, legacy : BOOLEAN, amount : Amounts]
    BY <2>2, GeneratedType
  <2>5. /\ request' = [request EXCEPT ![q] = AfterSync(R.left)]
        /\ rules' = rules /\ late' = late /\ txs' = txs /\ files' = files
        /\ generated' = Purged(Upserted(generated, R.month), R.month)
        /\ salary' = SyncedSalary(R.month, R.owed)
        /\ opened' = opened \cup {R.month} /\ abandoned' = abandoned \ {R.month}
    BY <1>8 DEF SyncFinanceGeneratedEntriesForMonth
  <2>6. opened' \subseteq Months /\ abandoned' \subseteq Months
    BY <2>2, <2>5, <1>1
  <2> HIDE DEF R
  <2>7. QED
    BY <2>2, <2>3, <2>4, <2>5, <2>6, <1>4, <1>6, TypesKept
<1>9. ASSUME NEW r \in Rules, NEW new \in NewRules, PostFinanceRecurringRule(q, r, new) PROVE TypeInv'
  BY <1>9, <1>1, <1>6, IsState, RuleAssumption, TypesKept DEF PostFinanceRecurringRule
<1>10. ASSUME NEW r \in Rules, NEW patch \in Patches, PatchFinanceRecurringRule(q, r, patch) PROVE TypeInv'
  <2>1. rules[r] \in Rule
    BY <1>10, <1>6 DEF PatchFinanceRecurringRule, Exists
  <2>2. QED
    BY <2>1, <1>10, <1>1, <1>6, IsState, TypesKept DEF PatchFinanceRecurringRule
<1>11. ASSUME NEW r \in Rules, DeleteFinanceRecurringRule(q, r) PROVE TypeInv'
  BY <1>11, <1>1, <1>6, IsState, TypesKept DEF DeleteFinanceRecurringRule
<1>12. ASSUME UpdateFinanceRecurringRule(q) PROVE TypeInv'
  <2>1. R.at = "edit"
    BY <1>12 DEF UpdateFinanceRecurringRule
  <2>2. R.rule \in Rules /\ Patched(R.read, R.patch) \in Rule
    BY <2>1, <1>2, RuleAssumption
  <2>3. rules' \in [Rules -> {Unused, Deleted} \cup Rule]
    BY <2>2, <1>6, <1>12 DEF UpdateFinanceRecurringRule
  <2>4. \E s \in {Idle, [at |-> "list"]} : request' = [request EXCEPT ![q] = s]
    BY <1>12 DEF UpdateFinanceRecurringRule
  <2>5. UNCHANGED <<generated, salary, late, opened, txs, files, abandoned>>
    BY <1>12 DEF UpdateFinanceRecurringRule
  <2>6. QED
    BY <2>3, <2>4, <2>5, <1>1, <1>3, <1>6, IsState, TypesKept
<1>13. ASSUME ListOpenedFinanceMonths(q) PROVE TypeInv'
  BY <1>13, <1>1, <1>4, <1>6, TypesKept DEF ListOpenedFinanceMonths
<1>14. ASSUME NEW read \in BOOLEAN, ResyncNextMonth(q, read) PROVE TypeInv'
  <2> DEFINE m == Min(R.left)
  <2>1. R.at = "resync"
    BY <1>14 DEF ResyncNextMonth
  <2>2. R.left \in SUBSET Months /\ R.left # {}
    BY <2>1, <1>1, <1>2
  <2>3. m \in Months
    BY <2>2, SmallestIn, CalendarTypes
  <2>4. /\ request' = [request EXCEPT ![q] = ComputeCleaningMonthlySummary(m, R.left \ {m}, read)]
        /\ UNCHANGED <<rules, generated, salary, late, opened, txs, files, abandoned>>
    BY <1>14 DEF ResyncNextMonth
  <2> HIDE DEF R, m
  <2>5. QED
    BY <2>2, <2>3, <2>4, <1>1, <1>5, <1>6, TypesKept
<1>15. ASSUME NEW t \in Txs, NEW a \in Amounts, NEW m \in Months, NEW attach \in BOOLEAN,
              PostFinanceTransaction(q, t, a, m, attach)
       PROVE  TypeInv'
  <2>1. [amount |-> a, month |-> m, attached |-> FALSE] \in Tx
    BY DEF Tx
  <2>2. txs' \in [Txs -> {Unused, Deleted} \cup Tx]
    BY <2>1, <1>6, <1>15 DEF PostFinanceTransaction
  <2>3. \E s \in {Idle, [at |-> "save", tx |-> t]} : request' = [request EXCEPT ![q] = s]
    BY <1>15 DEF PostFinanceTransaction
  <2>4. UNCHANGED <<rules, generated, salary, late, opened, files, abandoned>>
    BY <1>15 DEF PostFinanceTransaction
  <2>5. QED
    BY <2>2, <2>3, <2>4, <1>1, <1>3, <1>6, IsState, TypesKept
<1>16. ASSUME NEW t \in Txs, NEW a \in Amounts, NEW m \in Months, PatchFinanceTransaction(q, t, a, m)
       PROVE  TypeInv'
  <2>1. txs[t] \in Tx
    BY <1>6, <1>16 DEF PatchFinanceTransaction, TxExists
  <2>2. [txs[t] EXCEPT !.amount = a, !.month = m] \in Tx
    BY <2>1 DEF Tx
  <2>3. QED
    BY <2>2, <1>1, <1>6, <1>16, IsState, TypesKept DEF PatchFinanceTransaction
<1>17. ASSUME NEW saved \in BOOLEAN, SaveFinanceAttachment(q, saved) PROVE TypeInv'
  <2>1. R.tx \in Txs
    BY <1>2, <1>17 DEF SaveFinanceAttachment
  <2>2. files' \subseteq Txs
    BY <2>1, <1>6, <1>17 DEF SaveFinanceAttachment
  <2>3. \E s \in {Idle, [at |-> "link", tx |-> R.tx]} : request' = [request EXCEPT ![q] = s]
    BY <1>17 DEF SaveFinanceAttachment, AfterSave
  <2>4. UNCHANGED <<rules, generated, salary, late, opened, txs, abandoned>>
    BY <1>17 DEF SaveFinanceAttachment
  <2> HIDE DEF R
  <2>5. QED
    BY <2>1, <2>2, <2>3, <2>4, <1>1, <1>3, <1>6, IsState, TypesKept
<1>18. ASSUME LinkAttachment(q) PROVE TypeInv'
  <2> DEFINE t == R.tx
             row == [txs[t] EXCEPT !.attached = TRUE]
  <2>1. t \in Txs
    BY <1>2, <1>18 DEF LinkAttachment
  <2>2. TxExists(t) => row \in Tx
    BY <2>1, <1>6 DEF TxExists, Tx
  <2>3. request' = [request EXCEPT ![q] = IF TxExists(t) THEN [at |-> "update", tx |-> t, row |-> row] ELSE Idle]
    BY <1>18 DEF LinkAttachment
  <2>4. UNCHANGED <<rules, generated, salary, late, opened, txs, files, abandoned>>
    BY <1>18 DEF LinkAttachment
  <2> HIDE DEF t, row
  <2>5. QED
    BY <2>1, <2>2, <2>3, <2>4, <1>1, <1>3, <1>6, IsState, TypesKept
<1>19. ASSUME UpdateFinanceTransaction(q) PROVE TypeInv'
  <2>1. R.tx \in Txs /\ R.row \in Tx
    BY <1>2, <1>19 DEF UpdateFinanceTransaction
  <2>2. txs' \in [Txs -> {Unused, Deleted} \cup Tx]
    BY <2>1, <1>6, <1>19 DEF UpdateFinanceTransaction
  <2>3. /\ request' = [request EXCEPT ![q] = Idle]
        /\ UNCHANGED <<rules, generated, salary, late, opened, files, abandoned>>
    BY <1>19 DEF UpdateFinanceTransaction
  <2>4. QED
    BY <2>2, <2>3, <1>1, <1>3, <1>6, IsState, TypesKept
<1>20. ASSUME ResetFinanceRecords(q) PROVE TypeInv'
  <2>1. /\ rules' \in [Rules -> {Unused, Deleted} \cup Rule]
        /\ txs' \in [Txs -> {Unused, Deleted} \cup Tx]
    BY <1>6, <1>20 DEF ResetFinanceRecords
  <2>2. salary' \in [Months -> Nat]
    <3>1. \A m \in Months : ResetSalary(m) \in Nat
      BY SalaryType DEF ResetSalary
    <3>2. QED
      BY <3>1, <1>20 DEF ResetFinanceRecords
  <2>3. generated' = {} /\ opened' \subseteq Months /\ abandoned' = {} /\ late' = late /\ files' = files
    BY <1>20 DEF ResetFinanceRecords
  <2>4. request' = [request EXCEPT ![q] = [at |-> "unlink", of |-> {t \in Txs : TxExists(t) /\ txs[t].attached}]]
    BY <1>20 DEF ResetFinanceRecords
  <2>5. QED
    BY <2>1, <2>2, <2>3, <2>4, <1>1, <1>6, IsState, TypesKept
<1>21. ASSUME NEW removed \in SUBSET Txs, DeleteFinanceResetFiles(q, removed) PROVE TypeInv'
  BY <1>21, <1>1, <1>3, <1>6, IsState, TypesKept DEF DeleteFinanceResetFiles
<1>22. ASSUME CutRequest(q) PROVE TypeInv'
  <2>1. abandoned' \subseteq Months
    BY <1>1, <1>22, UnsyncedType DEF CutRequest
  <2>2. QED
    BY <2>1, <1>22, <1>1, <1>3, <1>6, IsState, TypesKept DEF CutRequest
<1> QED
  BY <1>7, <1>8, <1>9, <1>10, <1>11, <1>12, <1>13, <1>14, <1>15, <1>16, <1>17, <1>18, <1>19, <1>20,
     <1>21, <1>22 DEF RequestStep

LEMMA TypeStepHolds == LogTypeOK /\ TypeInv /\ [Next]_vars => TypeInv'
<1> SUFFICES ASSUME LogTypeOK, TypeInv, [Next]_vars PROVE TypeInv'
  OBVIOUS
<1>1. RequestStates' = RequestStates
  BY DEF RequestStates
<1>2. CASE UNCHANGED ledgerVars
  <2>1. UNCHANGED <<rules, generated, salary, late, opened, txs, files, request, abandoned>>
    BY <1>2 DEF ledgerVars
  <2>2. QED
    BY <2>1, <1>1 DEF TypeInv, LedgerTypeOK
<1>3. ASSUME NEW t \in Txs, DeleteFinanceTransaction(t) PROVE TypeInv'
  BY <1>1, <1>3 DEF DeleteFinanceTransaction, TypeInv, LedgerTypeOK
<1>4. ASSUME NEW s \in LateStays, NEW m \in Months \cup {0}, ReconcileLateCheckout(s, m) PROVE TypeInv'
  BY <1>1, <1>4 DEF ReconcileLateCheckout, TypeInv, LedgerTypeOK
<1>5. QED
  BY <1>2, <1>3, <1>4, RequestStepTyped DEF Next, LedgerStep, vars

(* Every row and every request is of its kind: salaries are whole numbers  *)
(* and never negative, and a request carries what its next step needs.     *)
THEOREM TypeCorrect == Spec => []TypeOK
<1>1. Init => TypeInv
  BY TypeInitHolds
<1>2. LogInv => LogTypeOK
  BY DEF LogInv
<1>3. LogTypeOK /\ TypeInv /\ [Next]_vars => TypeInv'
  BY TypeStepHolds
<1>4. LogTypeOK /\ TypeInv => TypeOK
  BY DEF TypeInv, TypeOK
<1> QED
  BY <1>1, <1>2, <1>3, <1>4, LogInvariant, PTL DEF Spec

-----------------------------------------------------------------------------
(* What a reset pays.  Only a reset leaves a request with files to remove. *)
LEMMA OnlyResetsUnlink ==
  ASSUME TypeInv, [Next]_vars, NEW q \in Requests, request'[q].at = "unlink", request[q].at # "unlink"
  PROVE  ResetFinanceRecords(q)
<1>1. request' # request
  OBVIOUS
<1>2. PICK p \in Requests : RequestStep(p)
  BY <1>1 DEF Next, LedgerStep, vars, ledgerVars, DeleteFinanceTransaction, ReconcileLateCheckout
<1>3. /\ Idle.at # "unlink"
      /\ \A left : AfterSync(left).at # "unlink"
      /\ \A m, left, read : ComputeCleaningMonthlySummary(m, left, read).at # "unlink"
      /\ \A saved, t : AfterSave(saved, t).at # "unlink"
  BY DEF Idle, AfterSync, ComputeCleaningMonthlySummary, AfterSave
<1>4. ASSUME NEW s, request' = [request EXCEPT ![p] = s], s.at # "unlink" PROVE FALSE
  BY <1>4 DEF TypeInv, LedgerTypeOK
<1>5. ASSUME NEW m \in Months, NEW read \in BOOLEAN, SyncGeneratedEntries(p, m, read) PROVE FALSE
  BY <1>3, <1>4, <1>5 DEF SyncGeneratedEntries
<1>6. ~SyncFinanceGeneratedEntriesForMonth(p)
  BY <1>3, <1>4 DEF SyncFinanceGeneratedEntriesForMonth
<1>7. ASSUME NEW r \in Rules PROVE /\ \A new \in NewRules : ~PostFinanceRecurringRule(p, r, new)
                                   /\ \A patch \in Patches : ~PatchFinanceRecurringRule(p, r, patch)
                                   /\ ~DeleteFinanceRecurringRule(p, r)
  BY <1>4 DEF PostFinanceRecurringRule, PatchFinanceRecurringRule, DeleteFinanceRecurringRule
<1>8. ~UpdateFinanceRecurringRule(p)
  BY <1>3, <1>4 DEF UpdateFinanceRecurringRule
<1>9. ~ListOpenedFinanceMonths(p) /\ \A read \in BOOLEAN : ~ResyncNextMonth(p, read)
  BY <1>3, <1>4 DEF ListOpenedFinanceMonths, ResyncNextMonth
<1>10. ASSUME NEW t \in Txs, NEW a \in Amounts, NEW m \in Months
       PROVE  /\ \A attach \in BOOLEAN : ~PostFinanceTransaction(p, t, a, m, attach)
              /\ ~PatchFinanceTransaction(p, t, a, m)
  BY <1>3, <1>4 DEF PostFinanceTransaction, PatchFinanceTransaction
<1>11. \A saved \in BOOLEAN : ~SaveFinanceAttachment(p, saved)
  BY <1>3, <1>4 DEF SaveFinanceAttachment
<1>12. ~LinkAttachment(p) /\ ~UpdateFinanceTransaction(p)
  BY <1>3, <1>4 DEF LinkAttachment, UpdateFinanceTransaction
<1>13. ~CutRequest(p) /\ \A removed \in SUBSET Txs : ~DeleteFinanceResetFiles(p, removed)
  BY <1>3, <1>4 DEF CutRequest, DeleteFinanceResetFiles
<1>14. ResetFinanceRecords(p)
  BY <1>2, <1>5, <1>6, <1>7, <1>8, <1>9, <1>10, <1>11, <1>12, <1>13 DEF RequestStep
<1>15. p = q
  BY <1>14 DEF ResetFinanceRecords, TypeInv, LedgerTypeOK
<1>16. QED
  BY <1>14, <1>15

LEMMA ResetPays ==
  ASSUME LogTypeOK, NEW q \in Requests, ResetFinanceRecords(q), NEW m \in Months
  PROVE  ComputeFinanceOtherMovements(m)'
           = [incoming |-> 0, outgoing |-> Max({OrdinarySalary(m), 0}) + BonusTotal(m)]
<1>1. /\ salary'[m] = ResetSalary(m) /\ generated' = {} /\ late' = late
      /\ \A t \in Txs : txs'[t] = IF TxExists(t) THEN Deleted ELSE txs[t]
  BY DEF ResetFinanceRecords
<1>2. OrdinarySalary(m) \in Int
  BY SalaryType
<1>3. salary'[m] = Max({OrdinarySalary(m), 0}) /\ salary'[m] \in Int
  BY <1>1, <1>2, MaxOfTwo DEF ResetSalary
<1>4. BonusTotal(m)' = BonusTotal(m) /\ BonusTotal(m) \in Int
  <2>1. Cardinality({s \in LateStays : late[s] = m}) \in Nat
    BY BonusAssumption, FS_Subset, FS_CardinalityType
  <2>2. QED
    BY <2>1, <1>1, BonusAssumption DEF BonusTotal
<1>5. \A t \in Txs : ~TxExists(t)'
  BY <1>1 DEF TxExists
<1>6. Moved(Incoming, m)' = 0
  <2> DEFINE rows == [x \in {y \in generated' : y.month = m} |-> Incoming(x.amount)]
             manual == [t \in {u \in Txs : TxExists(u)' /\ txs'[u].month = m} |-> Incoming(txs'[t].amount)]
  <2>1. DOMAIN rows = {} /\ DOMAIN manual = {}
    BY <1>1, <1>5
  <2>2. Moved(Incoming, m)' = SumFunction(rows) + SumFunction(manual)
    BY DEF Moved
  <2> HIDE DEF rows, manual
  <2>3. SumFunction(rows) = 0 /\ SumFunction(manual) = 0
    BY <2>1, SumEmpty DEF SumFunction
  <2>4. QED
    BY <2>2, <2>3
<1>7. Moved(Outgoing, m)' = 0
  <2> DEFINE rows == [x \in {y \in generated' : y.month = m} |-> Outgoing(x.amount)]
             manual == [t \in {u \in Txs : TxExists(u)' /\ txs'[u].month = m} |-> Outgoing(txs'[t].amount)]
  <2>1. DOMAIN rows = {} /\ DOMAIN manual = {}
    BY <1>1, <1>5
  <2>2. Moved(Outgoing, m)' = SumFunction(rows) + SumFunction(manual)
    BY DEF Moved
  <2> HIDE DEF rows, manual
  <2>3. SumFunction(rows) = 0 /\ SumFunction(manual) = 0
    BY <2>1, SumEmpty DEF SumFunction
  <2>4. QED
    BY <2>2, <2>3
<1>8. ComputeFinanceOtherMovements(m)'
        = [incoming |-> Moved(Incoming, m)',
           outgoing |-> salary'[m] + BonusTotal(m)' + Moved(Outgoing, m)']
  BY DEF ComputeFinanceOtherMovements
<1>9. QED
  BY <1>3, <1>4, <1>6, <1>7, <1>8

(* A reset leaves of every month what its cleaning log earns and the       *)
(* bonuses, and no rule's row or manual transaction (ResetFinanceRecords), *)
(* whatever syncs and edits are under way.                                 *)
THEOREM ResetsPayTheCleaner == Spec => ResetKeepsCleanerPay
<1> DEFINE Paid == \A q \in Requests : request'[q].at = "unlink" /\ request[q].at # "unlink" =>
                     \A m \in Months :
                       ComputeFinanceOtherMovements(m)'
                         = [incoming |-> 0, outgoing |-> Max({OrdinarySalary(m), 0}) + BonusTotal(m)]
<1>1. LogTypeOK /\ TypeInv /\ [Next]_vars => [Paid]_vars
  BY OnlyResetsUnlink, ResetPays
<1>2. LogTypeOK /\ TypeInv /\ [Next]_vars => TypeInv'
  BY TypeStepHolds
<1>3. Init => TypeInv
  BY TypeInitHolds
<1>4. LogInv => LogTypeOK
  BY DEF LogInv
<1> QED
  BY <1>1, <1>2, <1>3, <1>4, LogInvariant, PTL DEF Spec, ResetKeepsCleanerPay
=============================================================================
