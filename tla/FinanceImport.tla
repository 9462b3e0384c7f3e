----------------------------- MODULE FinanceImport -----------------------------
(***************************************************************************)
(* Imports of Booking.com payouts and statements: an upload is previewed,  *)
(* the preview is committed row by row, and bookings are matched with      *)
(* named stays (internal/api/finance_imports_handlers.go,                  *)
(* internal/store/finance_bookings_merge.go, finance_booking_payouts.go).  *)
(*                                                                         *)
(* A preview reads the database in one step.  A commit checks the whole    *)
(* plan in one step and then takes one transaction for each row; people    *)
(* edit stays, map bookings, edit invoices and reset the ledger between    *)
(* them, no other commit does.                                             *)
(***************************************************************************)
EXTENDS Invoices

CONSTANTS
  Tokens,       \* preview tokens
  Gone,         \* of a token: no preview, or no longer
  Files,        \* uploads: sequences of records of one source
  SourceReference,  \* of a stay: the reservation it was made from, or NoRef
  MaxResets, MaxEdits

VARIABLES
  evidence,     \* finance_statement_evidence, by reference; NoBooking: none
  ledger,       \* the booking_payout transactions, by reference; 0: none
  corrections,  \* the booking_payout_adjustment transactions
  previews,
  commit,       \* the commit that holds financePreviewCommitMu
  resets, edits,
  used          \* tokens taken

importVars == <<evidence, ledger, corrections, previews, commit, resets, edits, used>>
vars == <<bookings, stays, invoiceVars, importVars>>

(* What is planned for a line.  fate: planned, pending (several stays have *)
(* its nights), or left out; basis: how its stay was found.                *)
Entry == [line : Nat, row : Row, fate : {"planned", "pending", "out"}, born : Nat \cup {NoBooking},
          result : Canonical, action : {"insert", "update", "unchanged"}, flipped : BOOLEAN,
          stay : Stays \cup {NoStay}, basis : {"none", "association", "match", "unique", "manual"},
          name : Guests \cup {Blank}, rename : BOOLEAN,
          kept : BOOLEAN, offered : SUBSET [stay : Stays, name : Guests]]

(* imp: the import's own row is still there; left: lines to write; alone:  *)
(* evidence to keep after them.                                            *)
Commit == [token : Tokens, imp : BOOLEAN, left : SUBSET Entry, alone : SUBSET Row]
NoCommit == [token |-> Gone]

(* An upload is the export of one source.                                  *)
ASSUME ImportAssumption ==
  /\ Gone \notin Tokens /\ NoBooking \notin Row
  /\ MaxResets \in Nat /\ MaxEdits \in Nat
  /\ \A file \in Files :
       file \in Seq(Row) /\ \A i, j \in DOMAIN file : file[i].source = file[j].source

ImportTypeOK ==
  /\ evidence \in [Refs -> Row \cup {NoBooking}]
  /\ ledger \in [Refs -> Int]
  /\ corrections \subseteq [ref : Refs, id : Nat, kind : {"refund", "adjustment"}, net : Int]
  /\ previews \in [Tokens -> {Gone} \cup Seq(Entry)]
  /\ commit \in {NoCommit} \cup Commit
  /\ resets \in 0..MaxResets /\ edits \in 0..MaxEdits
  /\ used \subseteq Tokens

TypeOK == InvoiceTypeOK /\ ImportTypeOK

-----------------------------------------------------------------------------
(* The stays a row may be of.  All stays and rows are of the same nights;  *)
(* a payout without a guest stands for one with partial stay fields.       *)
Active == {s \in Stays : stays[s].active}
ReferenceMatches(row) == {s \in Active : SourceReference[s] = row.ref}
NameMatches(row) == {s \in Active : row.guest = Blank \/ stays[s].name = row.guest}

Only(S) == IF Cardinality(S) = 1 THEN CHOOSE s \in S : TRUE ELSE NoStay

FindNamedStayForFinanceStayDates(row) ==
  IF ReferenceMatches(row) # {} THEN Only(ReferenceMatches(row)) ELSE Only(NameMatches(row))

Existing(r) == IF bookings[r] = NoBooking THEN Empty ELSE bookings[r].data
Born(r) == IF bookings[r] = NoBooking THEN NoBooking ELSE bookings[r].born

(* Variant: a booking of a statement alone will do.                        *)
MissingBooking(row) == bookings[row.ref] = NoBooking

(* A correction needs the payout it corrects.                              *)
MissingBaseline(row) ==
  LET b == bookings[row.ref] IN
  b = NoBooking \/ ~b.data.payout \/ (IsRefund(row) /\ b.data.amount = 0)

LeftOut(row) ==
  LET new == bookings[row.ref] = NoBooking IN
  \/ IsCorrection(row) /\ MissingBaseline(row)
  \/ new /\ IsCancelled(row) /\ Cardinality(ReferenceMatches(row)) # 1
  \/ /\ new /\ ~(row.source = "payout" /\ row.guest = Blank)
     /\ FindNamedStayForFinanceStayDates(row) = NoStay /\ Active = {}

MatchOf(row) ==
  LET b == bookings[row.ref]
      found == FindNamedStayForFinanceStayDates(row)
  IN
  IF b # NoBooking THEN [stay |-> b.stay, basis |-> IF b.stay = NoStay THEN "none" ELSE "association"]
  ELSE IF row.source = "payout" /\ row.guest = Blank THEN [stay |-> NoStay, basis |-> "none"]
  ELSE IF found # NoStay THEN [stay |-> found, basis |-> "match"]
  ELSE [stay |-> Only(Active), basis |-> "unique"]

(* The stay takes the name of the payout.                                  *)
Renames(row, s) ==
  row.source = "payout" /\ s # NoStay /\ row.guest # Blank /\ row.guest # stays[s].name

Planned(line, row, kept) ==
  LET m == MatchOf(row)
      b == Existing(row.ref)
      fate == IF ~kept \/ LeftOut(row) THEN "out"
              ELSE IF m.basis = "unique" /\ m.stay = NoStay THEN "pending" ELSE "planned"
  IN
  [line |-> line, row |-> row, fate |-> fate, born |-> Born(row.ref), result |-> Merge(b, row),
   action |-> Action(bookings[row.ref] = NoBooking, b, row), flipped |-> StatusChanged(b, row),
   stay |-> m.stay, basis |-> m.basis,
   name |-> IF m.stay = NoStay THEN Blank ELSE stays[m.stay].name, rename |-> Renames(row, m.stay),
   kept |-> kept, offered |-> IF fate = "pending" THEN {[stay |-> s, name |-> stays[s].name] : s \in Active} ELSE {}]

PostFinanceImportPreview(t, file) ==
  /\ t \notin used
  /\ previews' = [previews EXCEPT ![t] = [i \in DOMAIN file |-> Planned(i, file[i], Kept(file, i))]]
  /\ used' = used \cup {t}
  /\ UNCHANGED <<bookings, stays, invoiceVars, evidence, ledger, corrections, commit, resets, edits>>

(* Fifteen minutes.                                                        *)
ExpirePreview(t) ==
  /\ previews[t] # Gone /\ commit.token # t
  /\ previews' = [previews EXCEPT ![t] = Gone]
  /\ UNCHANGED <<bookings, stays, invoiceVars, evidence, ledger, corrections, commit, resets, edits, used>>

-----------------------------------------------------------------------------
Pending(preview) == {i \in DOMAIN preview : preview[i].fate = "pending"}

(* A pending line is left out, or given a stay that was offered for it and *)
(* is as it was.                                                           *)
Choices(preview) ==
  {choice \in [Pending(preview) -> Stays \cup {NoStay}] :
     \A i \in Pending(preview) : choice[i] # NoStay =>
       stays[choice[i]].active
       /\ [stay |-> choice[i], name |-> stays[choice[i]].name] \in preview[i].offered}

Selected(e, s) ==
  [e EXCEPT !.fate = "planned", !.stay = s, !.basis = "manual", !.name = stays[s].name,
            !.rename = Renames(e.row, s)]

(* Lines planned, in order, then the pending ones that were given a stay.  *)
PlanOf(preview, choice) ==
  {preview[i] : i \in {j \in DOMAIN preview : preview[j].fate = "planned"}}
  \cup {Selected(preview[i], choice[i]) : i \in {j \in Pending(preview) : choice[j] # NoStay}}

Precedes(e, f) ==
  IF (e.basis = "manual") = (f.basis = "manual") THEN e.line < f.line ELSE f.basis = "manual"

(* Statement rows of reservations the plan does not name, of which only    *)
(* the evidence is kept.                                                   *)
EvidenceOnly(preview, plan) ==
  LET refs == {e.row.ref : e \in plan}
      alone == {i \in DOMAIN preview : preview[i].kept /\ preview[i].row.source = "statement"
                                       /\ preview[i].row.ref \notin refs}
  IN {preview[i].row : i \in alone}

BookingAsShown(e) ==
  LET b == Existing(e.row.ref) IN
  /\ Born(e.row.ref) = e.born
  /\ Merge(b, e.row) = e.result /\ Action(bookings[e.row.ref] = NoBooking, b, e.row) = e.action
  /\ e.born # NoBooking => bookings[e.row.ref].stay = e.stay

(* Of a statement the stay of a known booking is not looked at.            *)
StayAsShown(e) ==
  e.stay # NoStay /\ (e.row.source = "payout" \/ e.born = NoBooking) =>
  /\ stays[e.stay].active
  /\ e.row.source = "payout" => stays[e.stay].name = e.name
  /\ e.basis = "unique" => Active = {e.stay}

(* The whole plan is checked before anything is written; otherwise 409.    *)
PostFinanceImportCommit(t, choice) ==
  /\ commit = NoCommit /\ previews[t] # Gone
  /\ LET plan == PlanOf(previews[t], choice) IN
     /\ \A e \in plan : BookingAsShown(e) /\ StayAsShown(e)
     /\ commit' = [token |-> t, imp |-> TRUE, left |-> plan, alone |-> EvidenceOnly(previews[t], plan)]
  /\ UNCHANGED <<bookings, stays, invoiceVars, evidence, ledger, corrections, previews, resets, edits, used>>

-----------------------------------------------------------------------------
(* One row of the plan: a transaction that fails as a whole.               *)
Upserts(e) ==
  LET b == bookings[e.row.ref] IN
  IF e.born = NoBooking THEN b = NoBooking /\ (e.stay # NoStay \/ e.result.payout)
  ELSE b # NoBooking /\ b.born = e.born

(* MarkNamedStayFinanceReviewForBooking writes through a connection of its *)
(* own, which waits for the lock the row's transaction holds until it      *)
(* gives up: the row fails.                                                *)
NeedsReview(e) ==
  e.result.status = "CANCELLED" /\ (e.flipped \/ (e.row.source = "statement" /\ e.born = NoBooking))

Links(e) == e.row.source = "payout" /\ e.stay # NoStay

(* No invoice refers to a booking together with another stay.              *)
Relinkable(r, s) == \A d \in Documents : Stored(d) /\ invoices[d].booking = r => invoices[d].stay = s

(* The audit row of an update and the evidence refer to the import.        *)
RowSucceeds(e) ==
  /\ Upserts(e) /\ ~NeedsReview(e)
  /\ (e.action = "update" \/ e.row.source = "statement") => commit.imp
  /\ Links(e) => Relinkable(e.row.ref, e.stay) /\ (e.rename => stays[e.stay].active /\ e.result.guest # Blank)

WrittenBooking(e) ==
  [born |-> IF e.born = NoBooking THEN resets ELSE e.born,
   stay |-> IF e.born = NoBooking \/ Links(e) THEN e.stay ELSE bookings[e.row.ref].stay,
   data |-> e.result]

(* Finance evidence that is not a cancellation confirms a stay the         *)
(* migration left to review, and only such a stay.                         *)
ConfirmNamedStayWithFinanceEvidence(all, linked) ==
  [s \in Stays |->
     IF s \in linked /\ stays[s].review = "legacy"
        /\ \E r \in Refs : all[r] # NoBooking /\ all[r].stay = s /\ all[r].data.status # "CANCELLED"
     THEN [stays[s] EXCEPT !.review = "confirmed"] ELSE stays[s]]

Renamed(all, e) == IF Links(e) /\ e.rename THEN [all EXCEPT ![e.stay].name = e.result.guest] ELSE all

(* One row for each reservation, payout and kind.                          *)
UpsertBookingPayoutAdjustment(e) ==
  LET new == [ref |-> e.row.ref, id |-> e.row.id, kind |-> IF IsRefund(e.row) THEN "refund" ELSE "adjustment",
              net |-> e.row.net]
  IN {c \in corrections : ~(c.ref = new.ref /\ c.id = new.id /\ c.kind = new.kind)} \cup {new}

(* Variant: an adjustment is booked as the payout it corrects.             *)
CorrectionAsPayout(e) == [ledger EXCEPT ![e.row.ref] = e.row.net]

(* A net of zero leaves the row as it is.                                  *)
UpsertBookingFinanceTransaction(e) == [ledger EXCEPT ![e.row.ref] = IF e.result.net = 0 THEN @ ELSE e.result.net]

CommitRow(e) ==
  /\ \A f \in commit.left \ {e} : Precedes(e, f)
  /\ LET all == [bookings EXCEPT ![e.row.ref] = WrittenBooking(e)]
         linked == {all[e.row.ref].stay} \ {NoStay}
     IN
     IF RowSucceeds(e)
     THEN /\ bookings' = all
          /\ stays' = Renamed(ConfirmNamedStayWithFinanceEvidence(all, linked), e)
          /\ ledger' = IF e.row.source = "payout" THEN UpsertBookingFinanceTransaction(e) ELSE ledger
          /\ corrections' = IF IsCorrection(e.row) /\ e.row.net # 0
                            THEN UpsertBookingPayoutAdjustment(e) ELSE corrections
          /\ evidence' = IF e.row.source = "statement" THEN [evidence EXCEPT ![e.row.ref] = e.row] ELSE evidence
     ELSE UNCHANGED <<bookings, stays, ledger, corrections, evidence>>
  /\ commit' = [commit EXCEPT !.left = @ \ {e}]
  /\ UNCHANGED <<invoiceVars, previews, resets, edits, used>>

CommitEvidence(row) ==
  /\ commit # NoCommit /\ commit.left = {} /\ row \in commit.alone
  /\ evidence' = IF commit.imp THEN [evidence EXCEPT ![row.ref] = row] ELSE evidence
  /\ commit' = [commit EXCEPT !.alone = @ \ {row}]
  /\ UNCHANGED <<bookings, stays, invoiceVars, ledger, corrections, previews, resets, edits, used>>

(* The preview is evicted last.                                            *)
FinishCommit ==
  /\ commit # NoCommit /\ commit.left = {} /\ commit.alone = {}
  /\ commit' = NoCommit
  /\ previews' = [previews EXCEPT ![commit.token] = Gone]
  /\ UNCHANGED <<bookings, stays, invoiceVars, evidence, ledger, corrections, resets, edits, used>>

(* The client goes away: the rows left are rejected, the preview stays.    *)
Disconnect ==
  /\ commit # NoCommit
  /\ commit' = NoCommit
  /\ UNCHANGED <<bookings, stays, invoiceVars, evidence, ledger, corrections, previews, resets, edits, used>>

(* Previews are in memory.                                                 *)
Restart ==
  /\ used # {}
  /\ commit' = NoCommit
  /\ previews' = [t \in Tokens |-> Gone]
  /\ clerk' = [q \in Clerks |-> Idle]
  /\ UNCHANGED <<bookings, stays, invoices, sequences, disk, issued, evidence, ledger, corrections, resets, edits,
                 used>>

-----------------------------------------------------------------------------
(* By hand, or one booking of a rematch.                                   *)
MapFinanceBookingPayout(r, s) ==
  /\ bookings[r] # NoBooking /\ Relinkable(r, s)
  /\ bookings' = [bookings EXCEPT ![r].stay = s]
  /\ stays' = ConfirmNamedStayWithFinanceEvidence(bookings', {s})
  /\ UNCHANGED <<invoiceVars, importVars>>

EditStay(s, name, active) ==
  /\ edits < MaxEdits
  /\ [name |-> name, active |-> active, review |-> stays[s].review] # stays[s]
  /\ stays' = [stays EXCEPT ![s].name = name, ![s].active = active]
  /\ edits' = edits + 1
  /\ UNCHANGED <<bookings, invoiceVars, evidence, ledger, corrections, previews, commit, resets, used>>

ResetFinanceRecords ==
  /\ resets < MaxResets
  /\ resets' = resets + 1
  /\ ResetInvoices
  /\ bookings' = [r \in Refs |-> NoBooking]
  /\ evidence' = [r \in Refs |-> NoBooking]
  /\ ledger' = [r \in Refs |-> 0] /\ corrections' = {}
  /\ commit' = IF commit = NoCommit THEN NoCommit ELSE [commit EXCEPT !.imp = FALSE]
  /\ UNCHANGED <<stays, previews, edits, used>>

InvoiceStep ==
  /\ \/ \E q \in Clerks, d \in Documents, t \in Types, s \in Stays, r \in Refs \cup {NoRef}, c \in Contents :
          CreateInvoice(q, d, t, s, r, c)
     \/ \E q \in Clerks, d \in Documents : GetInvoice(q, d)
     \/ \E q \in Clerks, s \in Stays, r \in Refs \cup {NoRef}, c \in Contents : UpdateInvoice(q, s, r, c)
     \/ \E q \in Clerks : ReadBack(q) \/ SaveInvoicePDF(q) \/ AttachInvoiceFile(q) \/ AbandonRequest(q)
  /\ UNCHANGED importVars

ImportStep ==
  \/ \E t \in Tokens, f \in Files : PostFinanceImportPreview(t, f)
  \/ \E t \in Tokens : ExpirePreview(t)
  \/ \E t \in Tokens : previews[t] # Gone /\ \E choice \in Choices(previews[t]) : PostFinanceImportCommit(t, choice)
  \/ commit # NoCommit /\ \E e \in commit.left : CommitRow(e)
  \/ FinishCommit \/ Disconnect \/ Restart \/ ResetFinanceRecords
  \/ commit # NoCommit /\ \E row \in commit.alone : CommitEvidence(row)
  \/ \E r \in Refs, s \in Stays : MapFinanceBookingPayout(r, s)
  \/ \E s \in Stays, g \in Guests, a \in BOOLEAN : EditStay(s, g, a)

(* Some stays are active, one of them left to review by the migration.     *)
Init ==
  /\ bookings = [r \in Refs |-> NoBooking]
  /\ stays \in [Stays -> [name : Guests, active : BOOLEAN, review : {"confirmed", "legacy"}]]
  /\ invoices = [d \in Documents |-> NoDocument] /\ sequences = [t \in Types |-> 0]
  /\ disk = {} /\ clerk = [q \in Clerks |-> Idle] /\ issued = {}
  /\ evidence = [r \in Refs |-> NoBooking] /\ ledger = [r \in Refs |-> 0] /\ corrections = {}
  /\ previews = [t \in Tokens |-> Gone] /\ commit = NoCommit
  /\ resets = 0 /\ edits = 0 /\ used = {}

Next == InvoiceStep \/ ImportStep
Spec == Init /\ [][Next]_vars

-----------------------------------------------------------------------------
(* The cash the ledger shows for a reservation is the net of its booking,  *)
(* whichever exports were committed in which order; a net of zero leaves   *)
(* the last other one.  No booking without a payout lacks a stay.          *)
LedgerFollowsBookings ==
  \A r \in Refs :
    LET b == bookings[r] IN
    /\ b = NoBooking => ledger[r] = 0
    /\ b # NoBooking => b.data.payout \/ (b.stay # NoStay /\ ledger[r] = 0)
    /\ b # NoBooking /\ b.data.net # 0 => ledger[r] = b.data.net

(* A booking is the same whichever of the two exports is imported first,   *)
(* and importing one again changes nothing                                 *)
(* (PMS_Statement_Ingestion_Spec, 5.3).                                    *)
RowsOf(r) == {row \in UNION {{file[i] : i \in DOMAIN file} : file \in Files} : row.ref = r}

ExportsInAnyOrder ==
  \A r \in Refs : bookings[r] # NoBooking =>
    LET b == bookings[r].data IN
    /\ \A row \in RowsOf(r) : Merge(Merge(b, row), row) = Merge(b, row)
    /\ \A p, s \in RowsOf(r) : p.source = "payout" /\ s.source = "statement" =>
         Merge(Merge(b, p), s) = Merge(Merge(b, s), p)

(* A correction counts once, in whichever exports it comes and however     *)
(* often its preview is committed after being cut off, and never for a     *)
(* reservation of which no payout is booked, not even when the ledger is   *)
(* reset between the rows of a commit.                                     *)
CorrectionsCountOnce ==
  \A c \in corrections :
    /\ bookings[c.ref] # NoBooking /\ bookings[c.ref].data.payout
    /\ \A d \in corrections : d.ref = c.ref /\ d.id = c.id /\ d.kind = c.kind => d = c

(* A statement that cancels a known booking is taken over when its commit  *)
(* is through (spec/PMS_25, 3.2).                                          *)
CancellationsImported ==
  [][FinishCommit /\ commit.imp =>
       \A i \in DOMAIN previews[commit.token] :
         LET e == previews[commit.token][i] IN
         e.fate = "planned" /\ IsCancelled(e.row) /\ Born(e.row.ref) = e.born
         => e.born = NoBooking \/ bookings[e.row.ref].data.status = "CANCELLED"]_vars

(* A row overwrites nothing newer than its preview, neither a booking nor  *)
(* its stay nor an operator's edit of the stay's name (spec/PMS_24, 3.3    *)
(* and 3.4): whatever it was checked against still holds.                  *)
RowsOverwriteNothingNewer ==
  [][\A t \in Tokens :
       commit.token = t /\ commit'.token = t =>
       \A e \in commit.left :
         commit'.left = commit.left \ {e} /\ RowSucceeds(e) => BookingAsShown(e) /\ StayAsShown(e)]_vars
===============================================================================
