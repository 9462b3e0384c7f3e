--------------------------- MODULE MCFinanceLedger ----------------------------
(***************************************************************************)
(* Instances of FinanceLedger for TLC, explored apart so that their state  *)
(* spaces add up: passes over the lock's log; two requests that change     *)
(* rules, open months and reset; the cleaner's pay under fees, adjustments *)
(* and late checkouts; and transactions with files.                        *)
(***************************************************************************)
EXTENDS FinanceLedger, TLC

CONSTANTS r1, r2

VARIABLE question

(* A cost of every month, and an income from the second month on.          *)
MCAmounts == {-1, 2}
MCNewRules ==
  {[amount |-> -1, start |-> 1, end |-> 0, from |-> 1, to |-> 0, active |-> TRUE],
   [amount |-> 2, start |-> 1, end |-> 0, from |-> 2, to |-> 0, active |-> TRUE]}
MCPatches == {("active" :> FALSE), ("end" :> 1) @@ ("amount" :> 2)}

MCAdjustments == {-1, 1}

NoRules == rules' = rules
NoTxs == txs' = txs
NoLate == late' = late
NoFees == fees' = fees /\ adjustments' = adjustments
NoSync == \A q \in Requests : request'[q].at # "sync"

OnlyPassesOf(w) == \A p \in Passes : pass'[p].who \subseteq w
OnlyUsedBy(w) == \A t \in {u \in Times : lockLog'[u] # None} : lockLog'[t].auth \in w

(* The first rule of MCNewRules is posted as r1, the second as r2.         *)
OwnRule == \A r \in Rules : rules[r] = Unused /\ rules'[r] # Unused => (rules'[r].from = 1 <=> r = r1)

Asked ==
  \/ question = "log" /\ ledgerVars' = ledgerVars /\ NoFees /\ OnlyPassesOf({Cleaner}) /\ OnlyUsedBy({Cleaner})
  \/ /\ question = "guests" /\ ledgerVars' = ledgerVars /\ NoFees /\ OnlyUsedBy(Guests)
     /\ Cardinality({p \in Passes : pass'[p] # NoPass}) <= 1
  \/ /\ question = "rules" /\ logVars' = logVars /\ NoTxs /\ NoLate /\ OwnRule
     /\ Exists(r2)' => Exists(r1)
  \/ /\ question = "pay" /\ NoRules /\ NoTxs
     /\ now' = 0 /\ OnlyPassesOf({Cleaner}) /\ OnlyUsedBy({Cleaner})
     /\ \A t \in Times \ {0} : fees'[t] = None
     /\ Cardinality({q \in Requests : request'[q] # Idle} \cup {p \in Passes : pass'[p] # NoPass}) <= 1
  \/ question = "files" /\ logVars' = logVars /\ NoRules /\ NoLate /\ NoSync

MCInit ==
  /\ Init
  /\ question \in {"log", "guests", "rules", "pay", "files"}
  /\ question # "rules" => opened = {}

MCNext == Next /\ Asked /\ UNCHANGED question
MCSpec == MCInit /\ [][MCNext]_<<vars, question>>
=============================================================================
