--------------------------- MODULE MCFinanceImport ----------------------------
(***************************************************************************)
(* Instances of FinanceImport for TLC, explored apart so that their state  *)
(* spaces add up: two uploads previewed and committed while stays, links   *)
(* and the ledger change; a payout and two exports that correct it; the    *)
(* versions of an invoice under two requests; and two invoices of a        *)
(* booking that is mapped, imported anew and reset.                        *)
(***************************************************************************)
EXTENDS FinanceImport, TLC

CONSTANTS s1, s2, q1, q2, d1, d2, t1, t2, t3

VARIABLE question

Payout(ref, guest, amount, net) ==
  [source |-> "payout", kind |-> "reservation", ref |-> ref, guest |-> guest, status |-> "OK",
   amount |-> amount, net |-> net, id |-> 1, parses |-> TRUE]
Correction(ref, kind, amount, net) ==
  [source |-> "payout", kind |-> kind, ref |-> ref, guest |-> Blank, status |-> "OK",
   amount |-> amount, net |-> net, id |-> 2, parses |-> TRUE]
Statement(ref, guest, status) ==
  [source |-> "statement", kind |-> "reservation", ref |-> ref, guest |-> guest, status |-> status,
   amount |-> 4, net |-> 0, id |-> 0, parses |-> TRUE]

(* A payout; the same payout paid out anew, with its adjustment; a refund  *)
(* and a payout without a guest; a booking and its cancellation.           *)
First == <<Payout("a", "Ann", 3, 2)>>
Anew == <<Payout("a", "Ann", 3, 1), Correction("a", "adjustment", 0, -1)>>
Refund == <<Payout("b", Blank, 3, 3), Correction("a", "reservation", -1, -1), Correction("a", "adjustment", 0, -2)>>
MCFiles ==
  {First, Anew, Refund,
   <<Statement("a", "Bob", "OK"), Statement("a", "Ann", "OK"), [Statement("b", "Ann", "OK") EXCEPT !.parses = FALSE]>>,
   <<Statement("a", "Bob", "CANCELLED"), Statement("b", "Bob", "OK")>>}

MCReference == (s1 :> "a") @@ (s2 :> NoRef)

Previewed(t, f) == previews'[t] # Gone => Len(previews'[t]) = Len(f) /\ previews'[t][1].row = f[1]

Asked ==
  \/ question = "imports" /\ t3 \notin used' /\ UNCHANGED invoiceVars
  \/ /\ question = "corrections" /\ edits' = 0 /\ UNCHANGED invoiceVars
     /\ Previewed(t1, First) /\ Previewed(t2, Anew) /\ Previewed(t3, Refund)
  \/ question = "versions" /\ edits' = 0 /\ used' = {} /\ resets' = 0 /\ invoices'[d2] = NoDocument
  \/ /\ question = "links" /\ edits' = 0 /\ t3 \notin used' /\ clerk'[q2] = Idle
     /\ \A t \in Tokens : Previewed(t, First)
     /\ \A q \in Clerks : clerk'[q].at # "attach"

MCInit ==
  /\ Init
  /\ question \in {"imports", "corrections", "versions", "links"}
  /\ stays[s1] = [name |-> "Ann", active |-> TRUE, review |-> "legacy"]
  /\ stays[s2].name = "Bob" /\ stays[s2].review = "confirmed"
  /\ question # "imports" => stays[s2].active

MCNext == Next /\ Asked /\ UNCHANGED question
MCSpec == MCInit /\ [][MCNext]_<<vars, question>>
=============================================================================
