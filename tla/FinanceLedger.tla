---------------------------- MODULE FinanceLedger -----------------------------
(***************************************************************************)
(* The ledger of a property: entries generated from recurring rules and    *)
(* from the cleaning log, manual transactions with their files, and the    *)
(* finance reset (internal/store/finance.go, finance_reset.go,             *)
(* internal/api/finance_handlers.go).                                      *)
(*                                                                         *)
(* A request is a sequence of statements of its own; requests interleave   *)
(* between them, and any of them may be cut off.  What one transaction     *)
(* does is one action.                                                     *)
(***************************************************************************)
EXTENDS CleaningLog

CONSTANTS
  Rules,        \* ids of recurring rules
  NewRules,     \* rules as people post them
  Patches,      \* changes of some fields of a rule
  Txs,          \* ids of manual transactions
  Amounts,      \* amounts of rules and transactions; below 0: money that goes out
  LateStays,    \* stays that may be charged for a late checkout
  Requests,
  Bonus,        \* what the cleaner gets for a late checkout
  Unused,       \* of an id: not taken yet
  Deleted       \* of an id: its row is gone, and the id is not taken again

VARIABLES
  rules,        \* finance_recurring_rules
  generated,    \* finance_transactions of source recurring_rule
  salary,       \* finance_transactions of source cleaning_salary, by month; 0: no row
  late,         \* the late_checkout_cleaner_bonus rows, by stay; 0: no row, else its month
  opened,       \* finance_month_states
  txs,          \* manual finance_transactions
  files,        \* the transactions whose attachment is on disk
  request,      \* the requests under way
  abandoned     \* opened months whose resync was cut off, since they were last synced

ledgerVars == <<rules, generated, salary, late, opened, txs, files, request, abandoned>>
vars == <<logVars, ledgerVars>>

(* Months in which a rule starts and ends, and from and to which it is     *)
(* effective, in UTC; 0: no end.                                           *)
Rule == [amount : Amounts, start : Months, end : Months \cup {0},
         from : Months, to : Months \cup {0}, active : BOOLEAN]

(* The columns a patch names, and those of the rule it does not.           *)
Patched(rule, patch) ==
  [f \in DOMAIN rule |-> IF f \in DOMAIN patch THEN patch[f] ELSE rule[f]]

Tx == [amount : Amounts, month : Months, attached : BOOLEAN]

(* Requests are checked before anything is written: a rule stays a rule.   *)
ASSUME RuleAssumption ==
  /\ NewRules \subseteq Rule
  /\ \A rule \in Rule, patch \in Patches : Patched(rule, patch) \in Rule
  /\ Unused # Deleted
  /\ Unused \notin Rule /\ Deleted \notin Rule /\ Unused \notin Tx /\ Deleted \notin Tx

ASSUME BonusAssumption == Bonus \in Int /\ IsFiniteSet(LateStays)

Idle == [at |-> "idle"]
RequestStates ==
  {Idle, [at |-> "list"]}
  \cup [at : {"edit"}, rule : Rules, patch : Patches, read : Rule]
  \cup [at : {"resync"}, left : SUBSET Months]
  \cup [at : {"sync"}, month : Months, owed : Int, left : SUBSET Months]
  \cup [at : {"save", "link"}, tx : Txs]
  \cup [at : {"update"}, tx : Txs, row : Tx]
  \cup [at : {"unlink"}, of : SUBSET Txs]

LedgerTypeOK ==
  /\ rules \in [Rules -> {Unused, Deleted} \cup Rule]
  /\ generated \subseteq [rule : Rules, month : Months, legacy : BOOLEAN, amount : Amounts]
  /\ salary \in [Months -> Nat]
  /\ late \in [LateStays -> Months \cup {0}]
  /\ opened \subseteq Months /\ abandoned \subseteq Months
  /\ txs \in [Txs -> {Unused, Deleted} \cup Tx]
  /\ files \subseteq Txs
  /\ request \in [Requests -> RequestStates]

TypeOK == LogTypeOK /\ LedgerTypeOK

-----------------------------------------------------------------------------
Exists(r) == rules[r] \notin {Unused, Deleted}

Covers(rule, m) ==
  /\ rule.active
  /\ rule.start <= m /\ (rule.end = 0 \/ rule.end >= m)
  /\ rule.from <= m /\ (rule.to = 0 \/ rule.to >= m)

Covering(m) == {r \in Rules : Exists(r) /\ Covers(rules[r], m)}
Entry(r, m) == [rule |-> r, month |-> m, legacy |-> FALSE, amount |-> rules[r].amount]

(* A rule's row of the month is updated, an early one that names only the  *)
(* rule is adopted; otherwise a row is inserted.                           *)
Upserted(rows, m) ==
  {x \in rows : ~(x.month = m /\ x.rule \in Covering(m))} \cup {Entry(r, m) : r \in Covering(m)}

(* Variant: rows of active rules stay whichever months they cover.         *)
PurgedOfInactive(rows, m) ==
  {x \in rows : x.month = m => (~x.legacy /\ Exists(x.rule) /\ rules[x.rule].active)}

(* Rows dated in the month whose reference is not that of a covering rule. *)
Purged(rows, m) == {x \in rows : x.month = m => (~x.legacy /\ x.rule \in Covering(m))}

(* The summary is computed before the transaction begins.  When its rows   *)
(* cannot be read the sync goes on without one, and no salary is owed.     *)
ComputeCleaningMonthlySummary(m, left, read) ==
  [at |-> "sync", month |-> m, owed |-> IF read THEN OrdinarySalary(m) ELSE 0, left |-> left]

(* Variant: any sum is written.                                            *)
SyncedSalaryOfAnySign(m, owed) == [salary EXCEPT ![m] = owed]

(* A salary that is no longer positive leaves the row as it was.           *)
SyncedSalary(m, owed) == IF owed > 0 THEN [salary EXCEPT ![m] = owed] ELSE salary

AfterSync(left) == IF left = {} THEN Idle ELSE [at |-> "resync", left |-> left]

(* POST months/{month}/open and generated-entries sync.                    *)
SyncGeneratedEntries(q, m, read) ==
  /\ request[q] = Idle
  /\ request' = [request EXCEPT ![q] = ComputeCleaningMonthlySummary(m, {}, read)]
  /\ UNCHANGED <<rules, generated, salary, late, opened, txs, files, abandoned>>

SyncFinanceGeneratedEntriesForMonth(q) ==
  LET s == request[q] IN
  /\ s.at = "sync"
  /\ opened' = opened \cup {s.month}
  /\ generated' = Purged(Upserted(generated, s.month), s.month)
  /\ salary' = SyncedSalary(s.month, s.owed)
  /\ abandoned' = abandoned \ {s.month}
  /\ request' = [request EXCEPT ![q] = AfterSync(s.left)]
  /\ UNCHANGED <<rules, late, txs, files>>

-----------------------------------------------------------------------------
(* Rules: a change commits first, then every opened month is synced.       *)
PostFinanceRecurringRule(q, r, new) ==
  /\ request[q] = Idle /\ rules[r] = Unused
  /\ rules' = [rules EXCEPT ![r] = new]
  /\ request' = [request EXCEPT ![q] = [at |-> "list"]]
  /\ UNCHANGED <<generated, salary, late, opened, txs, files, abandoned>>

PatchFinanceRecurringRule(q, r, patch) ==
  /\ request[q] = Idle /\ Exists(r)
  /\ request' = [request EXCEPT ![q] = [at |-> "edit", rule |-> r, patch |-> patch, read |-> rules[r]]]
  /\ UNCHANGED <<rules, generated, salary, late, opened, txs, files, abandoned>>

(* All columns are written, those the patch does not name as they were     *)
(* read.  A rule deleted meanwhile is not found.                           *)
UpdateFinanceRecurringRule(q) ==
  LET e == request[q] IN
  /\ e.at = "edit"
  /\ rules' = IF Exists(e.rule) THEN [rules EXCEPT ![e.rule] = Patched(e.read, e.patch)] ELSE rules
  /\ request' = [request EXCEPT ![q] = IF Exists(e.rule) THEN [at |-> "list"] ELSE Idle]
  /\ UNCHANGED <<generated, salary, late, opened, txs, files, abandoned>>

(* Variant: rows in the early form are forgotten.                          *)
RowsInNewForm(r) == {x \in generated : x.rule = r /\ ~x.legacy}

RowsOf(r) == {x \in generated : x.rule = r}

(* The rule and its rows of all months and of both forms, in one           *)
(* transaction.                                                            *)
DeleteFinanceRecurringRule(q, r) ==
  /\ request[q] = Idle /\ Exists(r)
  /\ rules' = [rules EXCEPT ![r] = Deleted]
  /\ generated' = generated \ RowsOf(r)
  /\ request' = [request EXCEPT ![q] = [at |-> "list"]]
  /\ UNCHANGED <<salary, late, opened, txs, files, abandoned>>

ListOpenedFinanceMonths(q) ==
  /\ request[q].at = "list"
  /\ request' = [request EXCEPT ![q] = AfterSync(opened)]
  /\ UNCHANGED <<rules, generated, salary, late, opened, txs, files, abandoned>>

ResyncNextMonth(q, read) ==
  /\ request[q].at = "resync"
  /\ LET m == Min(request[q].left)
     IN  request' = [request EXCEPT ![q] = ComputeCleaningMonthlySummary(m, request[q].left \ {m}, read)]
  /\ UNCHANGED <<rules, generated, salary, late, opened, txs, files, abandoned>>

-----------------------------------------------------------------------------
(* Manual transactions.  The row is committed before its file is saved,    *)
(* and linked after.                                                       *)
PostFinanceTransaction(q, t, amount, m, attach) ==
  /\ request[q] = Idle /\ txs[t] = Unused
  /\ txs' = [txs EXCEPT ![t] = [amount |-> amount, month |-> m, attached |-> FALSE]]
  /\ request' = [request EXCEPT ![q] = IF attach THEN [at |-> "save", tx |-> t] ELSE Idle]
  /\ UNCHANGED <<rules, generated, salary, late, opened, files, abandoned>>

(* Variant: the file is linked although it could not be saved.             *)
LinkAnyway(saved, t) == [at |-> "link", tx |-> t]

AfterSave(saved, t) == IF saved THEN [at |-> "link", tx |-> t] ELSE Idle

SaveFinanceAttachment(q, saved) ==
  /\ request[q].at = "save"
  /\ files' = IF saved THEN files \cup {request[q].tx} ELSE files
  /\ request' = [request EXCEPT ![q] = AfterSave(saved, request[q].tx)]
  /\ UNCHANGED <<rules, generated, salary, late, opened, txs, abandoned>>

TxExists(t) == txs[t] \notin {Unused, Deleted}

(* The read of UpdateFinanceTransaction, for a file or for new columns.    *)
LinkAttachment(q) ==
  LET t == request[q].tx IN
  /\ request[q].at = "link"
  /\ request' = [request EXCEPT ![q] =
       IF TxExists(t) THEN [at |-> "update", tx |-> t, row |-> [txs[t] EXCEPT !.attached = TRUE]] ELSE Idle]
  /\ UNCHANGED <<rules, generated, salary, late, opened, txs, files, abandoned>>

PatchFinanceTransaction(q, t, amount, m) ==
  /\ request[q] = Idle /\ TxExists(t)
  /\ request' = [request EXCEPT ![q] =
       [at |-> "update", tx |-> t, row |-> [txs[t] EXCEPT !.amount = amount, !.month = m]]]
  /\ UNCHANGED <<rules, generated, salary, late, opened, txs, files, abandoned>>

UpdateFinanceTransaction(q) ==
  LET u == request[q] IN
  /\ u.at = "update"
  /\ txs' = IF TxExists(u.tx) THEN [txs EXCEPT ![u.tx] = u.row] ELSE txs
  /\ request' = [request EXCEPT ![q] = Idle]
  /\ UNCHANGED <<rules, generated, salary, late, opened, files, abandoned>>

(* The file stays.                                                         *)
DeleteFinanceTransaction(t) ==
  /\ TxExists(t)
  /\ txs' = [txs EXCEPT ![t] = Deleted]
  /\ UNCHANGED <<rules, generated, salary, late, opened, files, request, abandoned>>

-----------------------------------------------------------------------------
(* Late checkouts write their rows with the stay.                          *)
ReconcileLateCheckout(s, m) ==
  /\ late' = [late EXCEPT ![s] = m]
  /\ UNCHANGED <<rules, generated, salary, opened, txs, files, request, abandoned>>

BonusTotal(m) == Bonus * Cardinality({s \in LateStays : late[s] = m})

(* Variant: the bonuses are paid with the salary as well.                  *)
ResetFinalSalary(m) == IF OrdinarySalary(m) > 0 THEN OrdinarySalary(m) + BonusTotal(m) ELSE 0

(* Months with a salary row, with a counted day or an adjustment, or with  *)
(* a bonus are computed anew, within the transaction.                      *)
ResetSalary(m) == IF OrdinarySalary(m) > 0 THEN OrdinarySalary(m) ELSE 0

(* One transaction; the files of the transactions it deletes are removed   *)
(* after it.                                                               *)
ResetFinanceRecords(q) ==
  /\ request[q] = Idle
  /\ rules' = [r \in Rules |-> IF Exists(r) THEN Deleted ELSE rules[r]]
  /\ generated' = {}
  /\ txs' = [t \in Txs |-> IF TxExists(t) THEN Deleted ELSE txs[t]]
  /\ salary' = [m \in Months |-> ResetSalary(m)]
  /\ opened' = {m \in Months : salary'[m] > 0}
  /\ abandoned' = {}
  /\ request' = [request EXCEPT ![q] = [at |-> "unlink", of |-> {t \in Txs : TxExists(t) /\ txs[t].attached}]]
  /\ UNCHANGED <<late, files>>

(* A file that cannot be removed is reported and left.                     *)
DeleteFinanceResetFiles(q, removed) ==
  /\ request[q].at = "unlink" /\ removed \subseteq request[q].of
  /\ files' = files \ removed
  /\ request' = [request EXCEPT ![q] = Idle]
  /\ UNCHANGED <<rules, generated, salary, late, opened, txs, abandoned>>

(* The client goes away, a statement fails, or the process stops.          *)
Unsynced(s) ==
  CASE s.at = "list" -> opened
    [] s.at = "resync" -> s.left
    [] s.at = "sync" -> s.left \cup {s.month}
    [] OTHER -> {}

CutRequest(q) ==
  /\ request[q] # Idle
  /\ abandoned' = abandoned \cup Unsynced(request[q])
  /\ request' = [request EXCEPT ![q] = Idle]
  /\ UNCHANGED <<rules, generated, salary, late, opened, txs, files>>

-----------------------------------------------------------------------------
(* A new database, or one of an earlier version, whose opened months hold  *)
(* rows in the early form.                                                 *)
LedgerInit ==
  /\ \/ rules = [r \in Rules |-> Unused] /\ generated = {} /\ opened = {}
     \/ \E r \in Rules, new \in NewRules, m \in Months :
          /\ new.start <= m
          /\ rules = [x \in Rules |-> IF x = r THEN new ELSE Unused]
          /\ generated = {[rule |-> r, month |-> m, legacy |-> TRUE, amount |-> new.amount]}
          /\ opened = {m}
  /\ abandoned = opened
  /\ salary = [m \in Months |-> 0]
  /\ late = [s \in LateStays |-> 0]
  /\ txs = [t \in Txs |-> Unused] /\ files = {}
  /\ request = [q \in Requests |-> Idle]

Init == LogInit /\ LedgerInit

RequestStep(q) ==
  \/ \E read \in BOOLEAN : (\E m \in Months : SyncGeneratedEntries(q, m, read)) \/ ResyncNextMonth(q, read)
  \/ SyncFinanceGeneratedEntriesForMonth(q)
  \/ \E r \in Rules :
       \/ \E new \in NewRules : PostFinanceRecurringRule(q, r, new)
       \/ \E patch \in Patches : PatchFinanceRecurringRule(q, r, patch)
       \/ DeleteFinanceRecurringRule(q, r)
  \/ UpdateFinanceRecurringRule(q) \/ ListOpenedFinanceMonths(q)
  \/ \E t \in Txs, a \in Amounts, m \in Months :
       \/ \E attach \in BOOLEAN : PostFinanceTransaction(q, t, a, m, attach)
       \/ PatchFinanceTransaction(q, t, a, m)
  \/ \E saved \in BOOLEAN : SaveFinanceAttachment(q, saved)
  \/ LinkAttachment(q) \/ UpdateFinanceTransaction(q)
  \/ ResetFinanceRecords(q)
  \/ \E removed \in SUBSET Txs : DeleteFinanceResetFiles(q, removed)
  \/ CutRequest(q)

LedgerStep ==
  \/ \E q \in Requests : RequestStep(q)
  \/ \E t \in Txs : DeleteFinanceTransaction(t)
  \/ \E s \in LateStays, m \in Months \cup {0} : ReconcileLateCheckout(s, m)

Next ==
  \/ LogStep /\ UNCHANGED ledgerVars
  \/ LedgerStep /\ UNCHANGED logVars

Spec == Init /\ [][Next]_vars

-----------------------------------------------------------------------------
(* What the finance summary reports of a month as money that came in and   *)
(* went out, payouts aside: every row of the month counts, whatever its    *)
(* source.  (The charges of late checkouts come in next to the bonuses and *)
(* stay with them; NamedStays has them, and they are left out here.)       *)
Incoming(amount) == IF amount > 0 THEN amount ELSE 0
Outgoing(amount) == IF amount < 0 THEN -amount ELSE 0

Moved(part(_), m) ==
  SumFunction([x \in {y \in generated : y.month = m} |-> part(x.amount)])
  + SumFunction([t \in {u \in Txs : TxExists(u) /\ txs[u].month = m} |-> part(txs[t].amount)])

ComputeFinanceOtherMovements(m) ==
  [incoming |-> Moved(Incoming, m),
   outgoing |-> salary[m] + BonusTotal(m) + Moved(Outgoing, m)]

-----------------------------------------------------------------------------
(* The generated rows of an opened month are those of the rules that cover *)
(* it, with their amounts, unless a request has still to sync the month or *)
(* one that had to was cut off: two requests that change rules while a     *)
(* month is being opened never leave a month behind.                       *)
InStep(m) == {x \in generated : x.month = m} = {Entry(r, m) : r \in Covering(m)}
Pending(m) == \E q \in Requests : m \in Unsynced(request[q])

LedgerFollowsRules == \A m \in opened : InStep(m) \/ Pending(m) \/ m \in abandoned

(* No generated row outlives its rule, not even by a sync that was under   *)
(* way as the rule was deleted or the records were reset; and every row    *)
(* lies in an opened month, where a resync finds it.                       *)
NoOrphans ==
  /\ \A x \in generated : Exists(x.rule) /\ x.month \in opened
  /\ \A m \in Months : salary[m] > 0 => m \in opened

(* A transaction that names an attachment has its file, whatever is cut    *)
(* off or reset in between.                                                *)
LinkedFilesExist == \A t \in Txs : TxExists(t) /\ txs[t].attached => t \in files

(* A reset leaves of every month what its cleaning log earns and the       *)
(* bonuses, and nothing else: no row of a rule and no manual transaction,  *)
(* of either direction, counts any more (PMS_16 Finance Reset; PMS_39 D14  *)
(* keeps the rows of late checkouts).                                      *)
ResetKeepsCleanerPay ==
  [][\A q \in Requests : request'[q].at = "unlink" /\ request[q].at # "unlink" =>
       \A m \in Months :
         ComputeFinanceOtherMovements(m)'
           = [incoming |-> 0, outgoing |-> Max({OrdinarySalary(m), 0}) + BonusTotal(m)]]_vars
=============================================================================
