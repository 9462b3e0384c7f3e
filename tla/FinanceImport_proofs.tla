------------------------ MODULE FinanceImport_proofs -------------------------
(***************************************************************************)
(* Proofs about FinanceImport and Invoices, for any number of bookings,    *)
(* stays, invoices, requests, uploads and previews.                        *)
(***************************************************************************)
EXTENDS FinanceImport, FiniteSetTheorems, TLAPS

-----------------------------------------------------------------------------
(* What merging does to a booking.                                         *)

LEMMA MergeType ==
  ASSUME NEW b \in Canonical, NEW row \in Row
  PROVE  Merge(b, row) \in Canonical
<1>1. MergePayout(b, row) \in Canonical
  BY DEF MergePayout, Canonical, Row, Wins, Fills, WinsCents
<1>2. MergeStatement(b, row) \in Canonical
  BY DEF MergeStatement, Canonical, Row, Wins, Fills, FillsCents
<1>3. QED
  BY <1>1, <1>2 DEF Merge

LEMMA EmptyType == Empty \in Canonical
BY DEF Empty, Canonical, Blank

LEMMA MergeTwice ==
  ASSUME NEW b, NEW row
  PROVE  Merge(Merge(b, row), row) = Merge(b, row)
<1>1. MergePayout(MergePayout(b, row), row) = MergePayout(b, row)
  BY DEF MergePayout, Fills, WinsCents
<1>2. MergeStatement(MergeStatement(b, row), row) = MergeStatement(b, row)
  BY DEF MergeStatement, Wins, FillsCents
<1>3. QED
  BY <1>1, <1>2 DEF Merge

LEMMA MergeEitherOrder ==
  ASSUME NEW b, NEW p, NEW s, p.source = "payout", s.source = "statement"
  PROVE  Merge(Merge(b, p), s) = Merge(Merge(b, s), p)
<1>1. MergeStatement(MergePayout(b, p), s) = MergePayout(MergeStatement(b, s), p)
  BY DEF MergePayout, MergeStatement, Wins, Fills, WinsCents, FillsCents
<1>2. QED
  BY <1>1 DEF Merge

(* A statement leaves the money of the payout alone.                       *)
LEMMA StatementKeepsPayout ==
  ASSUME NEW b, NEW row, row.source = "statement"
  PROVE  Merge(b, row).payout = b.payout /\ Merge(b, row).net = b.net
BY DEF Merge, MergeStatement

(* A payout that is no correction makes the booking one that is paid out.  *)
LEMMA PayoutIsPaid ==
  ASSUME NEW b, NEW row, row.source = "payout"
  PROVE  IF IsCorrection(row) THEN Merge(b, row) = b ELSE Merge(b, row).payout = TRUE
BY DEF Merge, MergePayout

(* ExportsInAnyOrder: whichever exports are imported, in which order and   *)
(* how often, a booking ends the same.                                     *)
THEOREM ExportsCommute == Spec => []ExportsInAnyOrder
<1>1. ExportsInAnyOrder
  BY MergeTwice, MergeEitherOrder DEF ExportsInAnyOrder
<1>2. QED
  BY <1>1, PTL

-----------------------------------------------------------------------------
(* Types.                                                                  *)
LEMMA OnlyType == ASSUME NEW S PROVE Only(S) \in S \cup {NoStay}
<1>1. CASE Cardinality(S) = 1
  BY <1>1, FS_EmptySet DEF Only
<1>2. CASE Cardinality(S) # 1
  BY <1>2 DEF Only
<1>3. QED
  BY <1>1, <1>2

LEMMA FoundType ==
  ASSUME NEW row PROVE FindNamedStayForFinanceStayDates(row) \in Stays \cup {NoStay}
<1>1. ReferenceMatches(row) \subseteq Stays /\ NameMatches(row) \subseteq Stays
  BY DEF ReferenceMatches, NameMatches, Active
<1>2. /\ Only(ReferenceMatches(row)) \in ReferenceMatches(row) \cup {NoStay}
      /\ Only(NameMatches(row)) \in NameMatches(row) \cup {NoStay}
  BY OnlyType
<1>3. QED
  BY <1>1, <1>2 DEF FindNamedStayForFinanceStayDates

LEMMA ExistingType ==
  ASSUME TypeOK, NEW r \in Refs
  PROVE  Existing(r) \in Canonical /\ Born(r) \in Nat \cup {NoBooking}
BY EmptyType DEF TypeOK, InvoiceTypeOK, Existing, Born, Booking

LEMMA MatchType ==
  ASSUME TypeOK, NEW row \in Row
  PROVE  /\ MatchOf(row).stay \in Stays \cup {NoStay}
         /\ MatchOf(row).basis \in {"none", "association", "match", "unique"}
<1>1. Only(Active) \in Stays \cup {NoStay}
  BY OnlyType DEF Active
<1>2. row.ref \in Refs
  BY DEF Row
<1>3. bookings[row.ref] # NoBooking => bookings[row.ref].stay \in Stays \cup {NoStay}
  BY <1>2 DEF TypeOK, InvoiceTypeOK, Booking
<1>4. QED
  BY <1>1, <1>3, FoundType DEF MatchOf

LEMMA PlannedType ==
  ASSUME TypeOK, NEW line \in Nat, NEW row \in Row, NEW kept \in BOOLEAN
  PROVE  Planned(line, row, kept) \in Entry
<1> DEFINE m == MatchOf(row)
           b == Existing(row.ref)
           fate == IF ~kept \/ LeftOut(row) THEN "out"
                   ELSE IF m.basis = "unique" /\ m.stay = NoStay THEN "pending" ELSE "planned"
           name == IF m.stay = NoStay THEN Blank ELSE stays[m.stay].name
           offered == IF fate = "pending" THEN {[stay |-> s, name |-> stays[s].name] : s \in Active} ELSE {}
<1>1. row.ref \in Refs
  BY DEF Row
<1>2. b \in Canonical /\ Born(row.ref) \in Nat \cup {NoBooking}
  BY <1>1, ExistingType
<1>3. Merge(b, row) \in Canonical
  BY <1>2, MergeType
<1>4. m.stay \in Stays \cup {NoStay} /\ m.basis \in {"none", "association", "match", "unique", "manual"}
  BY MatchType
<1>5. name \in Guests \cup {Blank}
  BY <1>4 DEF TypeOK, InvoiceTypeOK
<1>6. offered \in SUBSET [stay : Stays, name : Guests]
  BY DEF TypeOK, InvoiceTypeOK, Active
<1>7. fate \in {"planned", "pending", "out"}
  OBVIOUS
<1>8. Action(bookings[row.ref] = NoBooking, b, row) \in {"insert", "update", "unchanged"}
  BY DEF Action
<1>9. StatusChanged(b, row) \in BOOLEAN /\ Renames(row, m.stay) \in BOOLEAN
  BY DEF StatusChanged, Renames
<1> HIDE DEF m, b, fate, name, offered
<1>10. [line |-> line, row |-> row, fate |-> fate, born |-> Born(row.ref), result |-> Merge(b, row),
        action |-> Action(bookings[row.ref] = NoBooking, b, row), flipped |-> StatusChanged(b, row),
        stay |-> m.stay, basis |-> m.basis, name |-> name, rename |-> Renames(row, m.stay),
        kept |-> kept, offered |-> offered] \in Entry
  BY <1>2, <1>3, <1>4, <1>5, <1>6, <1>7, <1>8, <1>9 DEF Entry
<1>11. QED
  BY <1>10 DEF Planned, m, b, fate, name, offered

LEMMA PreviewType ==
  ASSUME TypeOK, NEW file \in Files
  PROVE  [i \in DOMAIN file |-> Planned(i, file[i], Kept(file, i))] \in Seq(Entry)
<1>1. file \in Seq(Row)
  BY ImportAssumption
<1>2. \A i \in DOMAIN file : i \in Nat /\ file[i] \in Row /\ Kept(file, i) \in BOOLEAN
  BY <1>1 DEF Kept
<1>3. \A i \in 1..Len(file) : Planned(i, file[i], Kept(file, i)) \in Entry
  BY <1>1, <1>2, PlannedType
<1>4. DOMAIN file = 1..Len(file) /\ Len(file) \in Nat
  BY <1>1
<1>5. QED
  BY <1>3, <1>4

LEMMA ChoiceType ==
  ASSUME NEW preview \in Seq(Entry), NEW choice \in Choices(preview), NEW i \in Pending(preview)
  PROVE  /\ i \in DOMAIN preview /\ preview[i].fate = "pending"
         /\ choice[i] \in Stays \cup {NoStay}
BY DEF Choices, Pending

LEMMA SelectedType ==
  ASSUME TypeOK, NEW e \in Entry, NEW s \in Stays
  PROVE  /\ Selected(e, s) \in Entry
         /\ Selected(e, s).fate = "planned" /\ Selected(e, s).basis = "manual"
         /\ \A f \in {"line", "row", "born", "result", "action", "flipped", "kept"} : Selected(e, s)[f] = e[f]
<1>1. Renames(e.row, s) \in BOOLEAN
  BY DEF Renames
<1>2. stays[s].name \in Guests
  BY DEF TypeOK, InvoiceTypeOK
<1>3. QED
  BY <1>1, <1>2 DEF Selected, Entry

LEMMA PlanType ==
  ASSUME TypeOK, NEW preview \in Seq(Entry), NEW choice \in Choices(preview)
  PROVE  PlanOf(preview, choice) \subseteq Entry /\ EvidenceOnly(preview, PlanOf(preview, choice)) \subseteq Row
<1>1. \A i \in DOMAIN preview : preview[i] \in Entry
  OBVIOUS
<1> \A e \in Entry : e.row \in Row
  BY DEF Entry
<1>2. \A i \in Pending(preview) : choice[i] # NoStay => Selected(preview[i], choice[i]) \in Entry
  BY <1>1, ChoiceType, SelectedType
<1>3. QED
  BY <1>1, <1>2 DEF PlanOf, EvidenceOnly

LEMMA TypeInit == Init => TypeOK
<1> SUFFICES ASSUME Init PROVE TypeOK
  OBVIOUS
<1> USE DEF Init
<1>1. InvoiceTypeOK
  BY DEF InvoiceTypeOK, ClerkStates
<1>2. ImportTypeOK
  BY ImportAssumption DEF ImportTypeOK
<1>3. QED
  BY <1>1, <1>2 DEF TypeOK

LEMMA CreateInvoiceType ==
  ASSUME TypeOK, NEW q \in Clerks, NEW d \in Documents, NEW type \in Types, NEW s \in Stays,
         NEW r \in Refs \cup {NoRef}, NEW c \in Contents, CreateInvoice(q, d, type, s, r, c)
  PROVE  InvoiceTypeOK'
<1> DEFINE new == [type |-> type, stay |-> s, booking |-> r, number |-> NextNumber(type),
                    version |-> 1, content |-> c, files |-> {}]
<1>1. NextNumber(type) \in Nat \ {0}
  BY DEF NextNumber, TypeOK, InvoiceTypeOK
<1>2. new \in Invoice
  BY <1>1 DEF Invoice
<1>3. invoices' = [invoices EXCEPT ![d] = new]
  BY DEF CreateInvoice
<1> HIDE DEF new
<1>4. invoices' \in [Documents -> Invoice \cup {NoDocument}]
  BY <1>2, <1>3 DEF TypeOK, InvoiceTypeOK
<1>5. clerk' \in [Clerks -> ClerkStates]
  BY DEF ClerkStates, CreateInvoice, TypeOK, InvoiceTypeOK
<1>6. sequences' \in [Types -> Nat]
  BY <1>1 DEF CreateInvoice, TypeOK, InvoiceTypeOK
<1>7. issued' \subseteq [doc : Documents, type : Types, number : Nat \ {0}]
  BY <1>1 DEF CreateInvoice, TypeOK, InvoiceTypeOK
<1>8. QED
  BY <1>4, <1>5, <1>6, <1>7 DEF CreateInvoice, TypeOK, InvoiceTypeOK

(* What a request at each of its steps carries.                            *)
LEMMA ClerkCarries ==
  ASSUME TypeOK, NEW q \in Clerks
  PROVE  /\ clerk[q].at \in {"idle", "edit", "saved", "render", "attach"}
         /\ clerk[q].at = "idle" <=> clerk[q] = Idle
         /\ clerk[q].at # "idle" => clerk[q].doc \in Documents
         /\ clerk[q].at = "edit" => clerk[q].row \in Invoice
         /\ clerk[q].at = "saved" => clerk[q].next \in {0, 1}
         /\ clerk[q].at \in {"render", "attach"} =>
              /\ clerk[q] \in [at : {"render", "attach"}, doc : Documents, type : Types, number : Nat \ {0},
                               version : Nat \ {0}, content : Contents]
              /\ clerk[q].type \in Types /\ clerk[q].number \in Nat \ {0}
              /\ clerk[q].version \in Nat \ {0} /\ clerk[q].content \in Contents
<1> clerk[q] \in ClerkStates
  BY DEF TypeOK, InvoiceTypeOK
<1> QED
  BY DEF ClerkStates, Idle

LEMMA InvoiceStepType == TypeOK /\ InvoiceStep => InvoiceTypeOK'
<1> SUFFICES ASSUME TypeOK, InvoiceStep PROVE InvoiceTypeOK'
  OBVIOUS
<1> USE DEF InvoiceTypeOK
<1>1. ASSUME NEW q \in Clerks, NEW d \in Documents, GetInvoice(q, d)
      PROVE  InvoiceTypeOK'
  <2>1. invoices[d] \in Invoice
    BY <1>1 DEF GetInvoice, TypeOK, Stored
  <2>2. QED
    BY <1>1, <2>1 DEF GetInvoice, TypeOK, ClerkStates
<1>2. ASSUME NEW q \in Clerks, NEW s \in Stays, NEW r \in Refs \cup {NoRef}, NEW c \in Contents,
             UpdateInvoice(q, s, r, c)
      PROVE  InvoiceTypeOK'
  <2>1. clerk[q].doc \in Documents
    BY <1>2, ClerkCarries DEF UpdateInvoice
  <2>2. clerk' \in [Clerks -> ClerkStates]
    BY <1>2, <2>1 DEF UpdateInvoice, TypeOK, ClerkStates
  <2>3. invoices' \in [Documents -> Invoice \cup {NoDocument}]
    <3>1. CASE Stored(clerk[q].doc)
      <4>1. invoices[clerk[q].doc] \in Invoice
        BY <2>1, <3>1 DEF TypeOK, Stored
      <4>2. [invoices[clerk[q].doc] EXCEPT !.stay = s, !.booking = r, !.content = c] \in Invoice
        BY <4>1 DEF Invoice
      <4>3. \/ invoices' = [invoices EXCEPT ![clerk[q].doc] =
                              [invoices[clerk[q].doc] EXCEPT !.stay = s, !.booking = r, !.content = c]]
            \/ invoices' = invoices
        BY <1>2, <2>1, <4>1 DEF UpdateInvoice, TypeOK, Invoice
      <4>4. QED
        BY <2>1, <4>2, <4>3 DEF TypeOK
    <3>2. CASE ~Stored(clerk[q].doc)
      BY <1>2, <3>2 DEF UpdateInvoice, TypeOK
    <3>3. QED
      BY <3>1, <3>2
  <2>4. QED
    BY <1>2, <2>2, <2>3 DEF UpdateInvoice, TypeOK
<1>3. ASSUME NEW q \in Clerks, ReadBack(q)
      PROVE  InvoiceTypeOK'
  <2>1. clerk[q].doc \in Documents /\ clerk[q].next \in {0, 1}
    BY <1>3, ClerkCarries DEF ReadBack
  <2>2. Stored(clerk[q].doc) =>
          [at |-> "render", doc |-> clerk[q].doc, type |-> invoices[clerk[q].doc].type,
           number |-> invoices[clerk[q].doc].number, version |-> invoices[clerk[q].doc].version + clerk[q].next,
           content |-> invoices[clerk[q].doc].content] \in ClerkStates
    BY <2>1 DEF TypeOK, Stored, Invoice, ClerkStates
  <2>3. QED
    BY <1>3, <2>2 DEF ReadBack, TypeOK, ClerkStates
<1>4. ASSUME NEW q \in Clerks, SaveInvoicePDF(q)
      PROVE  InvoiceTypeOK'
  <2>1. clerk[q] \in [at : {"render", "attach"}, doc : Documents, type : Types, number : Nat \ {0},
                      version : Nat \ {0}, content : Contents]
    BY <1>4, ClerkCarries DEF SaveInvoicePDF
  <2>2. [clerk[q] EXCEPT !.at = "attach"] \in ClerkStates
    BY <2>1 DEF ClerkStates
  <2>3. Pdf(clerk[q]) \in [type : Types, number : Nat \ {0}, version : Nat \ {0}, content : Contents]
    BY <2>1 DEF Pdf
  <2>4. clerk' \in [Clerks -> ClerkStates]
    BY <1>4, <2>2 DEF SaveInvoicePDF, TypeOK
  <2>5. disk' \subseteq [type : Types, number : Nat \ {0}, version : Nat \ {0}, content : Contents]
    BY <1>4, <2>3 DEF SaveInvoicePDF, TypeOK
  <2>6. QED
    BY <1>4, <2>4, <2>5 DEF SaveInvoicePDF, TypeOK
<1>5. ASSUME NEW q \in Clerks, AttachInvoiceFile(q)
      PROVE  InvoiceTypeOK'
  <2>1. clerk[q].doc \in Documents /\ clerk[q].version \in Nat \ {0}
    BY <1>5, ClerkCarries DEF AttachInvoiceFile
  <2>2. clerk' \in [Clerks -> ClerkStates]
    BY <1>5 DEF AttachInvoiceFile, TypeOK, ClerkStates
  <2>3. invoices' \in [Documents -> Invoice \cup {NoDocument}]
    <3>1. CASE Attachable(clerk[q])
      BY <1>5, <2>1, <3>1 DEF AttachInvoiceFile, TypeOK, Attachable, Stored, Invoice
    <3>2. CASE ~Attachable(clerk[q])
      BY <1>5, <3>2 DEF AttachInvoiceFile, TypeOK
    <3>3. QED
      BY <3>1, <3>2
  <2>4. QED
    BY <1>5, <2>2, <2>3 DEF AttachInvoiceFile, TypeOK
<1>6. ASSUME NEW q \in Clerks, AbandonRequest(q)
      PROVE  InvoiceTypeOK'
  BY <1>6 DEF AbandonRequest, TypeOK, ClerkStates
<1>7. QED
  BY <1>1, <1>2, <1>3, <1>4, <1>5, <1>6, CreateInvoiceType DEF InvoiceStep

LEMMA ConfirmType ==
  ASSUME TypeOK, NEW all, NEW linked
  PROVE  /\ ConfirmNamedStayWithFinanceEvidence(all, linked) \in
              [Stays -> [name : Guests, active : BOOLEAN, review : {"confirmed", "legacy", "cancelled"}]]
         /\ \A s \in Stays : /\ ConfirmNamedStayWithFinanceEvidence(all, linked)[s].name = stays[s].name
                             /\ ConfirmNamedStayWithFinanceEvidence(all, linked)[s].active = stays[s].active
BY DEF ConfirmNamedStayWithFinanceEvidence, TypeOK, InvoiceTypeOK

LEMMA WrittenType ==
  ASSUME TypeOK, NEW e \in Entry, RowSucceeds(e)
  PROVE  /\ e.row.ref \in Refs /\ WrittenBooking(e) \in Booking
         /\ [bookings EXCEPT ![e.row.ref] = WrittenBooking(e)] \in [Refs -> Booking \cup {NoBooking}]
         /\ e.row \in Row /\ e.result \in Canonical
<1>1. e.row \in Row /\ e.row.ref \in Refs /\ e.result \in Canonical
      /\ e.born \in Nat \cup {NoBooking} /\ e.stay \in Stays \cup {NoStay}
  BY DEF Entry, Row
<1>2. bookings[e.row.ref] \in Booking \cup {NoBooking} /\ resets \in Nat
  BY <1>1, ImportAssumption DEF TypeOK, InvoiceTypeOK, ImportTypeOK
<1>3. e.born # NoBooking => bookings[e.row.ref] # NoBooking
  BY DEF RowSucceeds, Upserts
<1>4. WrittenBooking(e) \in Booking
  BY <1>1, <1>2, <1>3 DEF WrittenBooking, Booking
<1>5. QED
  BY <1>1, <1>4 DEF TypeOK, InvoiceTypeOK

LEMMA CommitRowType ==
  ASSUME TypeOK, commit # NoCommit, NEW e \in commit.left, CommitRow(e)
  PROVE  TypeOK'
<1>1. commit \in Commit /\ e \in Entry
  BY DEF TypeOK, ImportTypeOK, Commit
<1>2. commit' \in Commit
  BY <1>1 DEF CommitRow, Commit
<1>3. UNCHANGED <<invoiceVars, previews, resets, edits, used>>
  BY DEF CommitRow
<1>4. CASE ~RowSucceeds(e)
  <2>1. UNCHANGED <<bookings, stays, ledger, corrections, evidence>>
    BY <1>4 DEF CommitRow
  <2>2. QED
    BY <1>2, <1>3, <2>1 DEF TypeOK, InvoiceTypeOK, ImportTypeOK, invoiceVars
<1>5. CASE RowSucceeds(e)
  <2> DEFINE all == [bookings EXCEPT ![e.row.ref] = WrittenBooking(e)]
             confirmed == ConfirmNamedStayWithFinanceEvidence(all, {all[e.row.ref].stay} \ {NoStay})
  <2>1. /\ bookings' = all
        /\ stays' = Renamed(confirmed, e)
        /\ ledger' = IF e.row.source = "payout" THEN UpsertBookingFinanceTransaction(e) ELSE ledger
        /\ corrections' = IF IsCorrection(e.row) /\ e.row.net # 0
                          THEN UpsertBookingPayoutAdjustment(e) ELSE corrections
        /\ evidence' = IF e.row.source = "statement" THEN [evidence EXCEPT ![e.row.ref] = e.row] ELSE evidence
    BY <1>5 DEF CommitRow
  <2>2. all \in [Refs -> Booking \cup {NoBooking}] /\ e.row.ref \in Refs /\ e.row \in Row /\ e.result \in Canonical
    BY <1>1, <1>5, WrittenType
  <2>3. confirmed \in [Stays -> [name : Guests, active : BOOLEAN, review : {"confirmed", "legacy", "cancelled"}]]
    BY ConfirmType
  <2> HIDE DEF all, confirmed
  <2>4. e.stay \in Stays \cup {NoStay} /\ e.result.guest \in Guests \cup {Blank}
        /\ e.result.net \in Int /\ e.row.net \in Int /\ e.row.id \in Nat
    BY <1>1, <2>2 DEF Entry, Canonical, Row
  <2>5. Links(e) /\ e.rename => e.result.guest # Blank /\ e.stay \in Stays
    BY <1>5, <2>4 DEF RowSucceeds, Links
  <2>6. stays' \in [Stays -> [name : Guests, active : BOOLEAN, review : {"confirmed", "legacy", "cancelled"}]]
    BY <2>1, <2>3, <2>4, <2>5 DEF Renamed
  <2>7. ledger' \in [Refs -> Int]
    BY <2>1, <2>2, <2>4 DEF UpsertBookingFinanceTransaction, TypeOK, ImportTypeOK
  <2>8. corrections' \subseteq [ref : Refs, id : Nat, kind : {"refund", "adjustment"}, net : Int]
    BY <2>1, <2>2, <2>4 DEF UpsertBookingPayoutAdjustment, TypeOK, ImportTypeOK
  <2>9. evidence' \in [Refs -> Row \cup {NoBooking}]
    BY <2>1, <2>2 DEF TypeOK, ImportTypeOK
  <2>10. QED
    BY <1>2, <1>3, <2>1, <2>2, <2>6, <2>7, <2>8, <2>9 DEF TypeOK, InvoiceTypeOK, ImportTypeOK, invoiceVars
<1>6. QED
  BY <1>4, <1>5

LEMMA ImportStepType == TypeOK /\ ImportStep => TypeOK'
<1> SUFFICES ASSUME TypeOK, ImportStep PROVE TypeOK'
  OBVIOUS
<1> USE DEF invoiceVars, importVars
<1>1. ASSUME NEW t \in Tokens, NEW file \in Files, PostFinanceImportPreview(t, file)
      PROVE  TypeOK'
  <2> DEFINE preview == [i \in DOMAIN file |-> Planned(i, file[i], Kept(file, i))]
  <2>1. preview \in Seq(Entry)
    BY PreviewType
  <2>2. previews' = [previews EXCEPT ![t] = preview]
    BY <1>1 DEF PostFinanceImportPreview
  <2> HIDE DEF preview
  <2>3. previews' \in [Tokens -> {Gone} \cup Seq(Entry)]
    BY <2>1, <2>2 DEF TypeOK, ImportTypeOK
  <2>4. used' \subseteq Tokens
    BY <1>1 DEF PostFinanceImportPreview, TypeOK, ImportTypeOK
  <2>5. UNCHANGED <<bookings, stays, invoiceVars, evidence, ledger, corrections, commit, resets, edits>>
    BY <1>1 DEF PostFinanceImportPreview
  <2>6. QED
    BY <2>3, <2>4, <2>5 DEF TypeOK, InvoiceTypeOK, ImportTypeOK
<1>2. ASSUME NEW t \in Tokens, ExpirePreview(t)
      PROVE  TypeOK'
  BY <1>2 DEF ExpirePreview, TypeOK, InvoiceTypeOK, ImportTypeOK
<1>3. ASSUME NEW t \in Tokens, previews[t] # Gone, NEW choice \in Choices(previews[t]),
             PostFinanceImportCommit(t, choice)
      PROVE  TypeOK'
  <2>1. previews[t] \in Seq(Entry)
    BY <1>3 DEF TypeOK, ImportTypeOK
  <2> DEFINE plan == PlanOf(previews[t], choice)
             alone == EvidenceOnly(previews[t], plan)
  <2>2. plan \subseteq Entry /\ alone \subseteq Row
    BY <1>3, <2>1, PlanType
  <2>3. commit' = [token |-> t, imp |-> TRUE, left |-> plan, alone |-> alone]
        /\ UNCHANGED <<bookings, stays, invoiceVars, evidence, ledger, corrections, previews, resets, edits, used>>
    BY <1>3 DEF PostFinanceImportCommit
  <2> HIDE DEF plan, alone
  <2>4. commit' \in Commit
    BY <2>2, <2>3 DEF Commit
  <2>5. QED
    BY <2>3, <2>4 DEF TypeOK, InvoiceTypeOK, ImportTypeOK
<1>4. ASSUME NEW row, row \in commit.alone, CommitEvidence(row)
      PROVE  TypeOK'
  <2>1. commit \in Commit
    BY <1>4 DEF CommitEvidence, TypeOK, ImportTypeOK
  <2>2. row \in Row /\ row.ref \in Refs /\ commit' \in Commit
    BY <1>4, <2>1 DEF CommitEvidence, Commit, Row
  <2>3. evidence' \in [Refs -> Row \cup {NoBooking}]
    BY <1>4, <2>2 DEF CommitEvidence, TypeOK, ImportTypeOK
  <2>4. QED
    BY <1>4, <2>2, <2>3 DEF CommitEvidence, TypeOK, InvoiceTypeOK, ImportTypeOK
<1>5. CASE FinishCommit
  <2>1. previews' \in [Tokens -> {Gone} \cup Seq(Entry)]
    BY <1>5 DEF FinishCommit, TypeOK, ImportTypeOK
  <2>2. QED
    BY <1>5, <2>1 DEF FinishCommit, TypeOK, InvoiceTypeOK, ImportTypeOK
<1>6. CASE Disconnect
  BY <1>6 DEF Disconnect, TypeOK, InvoiceTypeOK, ImportTypeOK
<1>7. CASE Restart
  BY <1>7 DEF Restart, TypeOK, InvoiceTypeOK, ImportTypeOK, ClerkStates
<1>8. CASE ResetFinanceRecords
  <2>1. invoices' \in [Documents -> Invoice \cup {NoDocument}]
        /\ sequences' \in [Types -> Nat]
        /\ disk' \subseteq [type : Types, number : Nat \ {0}, version : Nat \ {0}, content : Contents]
        /\ UNCHANGED <<clerk, issued>>
    BY <1>8 DEF ResetFinanceRecords, ResetInvoices, CountersAfterReset, TypeOK, InvoiceTypeOK
  <2>2. commit' \in {NoCommit} \cup Commit
    BY <1>8 DEF ResetFinanceRecords, TypeOK, ImportTypeOK, Commit
  <2>3. bookings' \in [Refs -> Booking \cup {NoBooking}] /\ UNCHANGED stays
    BY <1>8 DEF ResetFinanceRecords
  <2>4. InvoiceTypeOK'
    BY <2>1, <2>3 DEF TypeOK, InvoiceTypeOK
  <2>5. /\ evidence' \in [Refs -> Row \cup {NoBooking}]
        /\ ledger' \in [Refs -> Int] /\ corrections' = {}
        /\ UNCHANGED <<previews, edits, used>> /\ resets' = resets + 1 /\ resets < MaxResets
    BY <1>8 DEF ResetFinanceRecords
  <2>6. resets' \in 0..MaxResets
    BY <2>5, ImportAssumption DEF TypeOK, ImportTypeOK
  <2>7. QED
    BY <2>2, <2>4, <2>5, <2>6 DEF TypeOK, ImportTypeOK
<1>9. ASSUME NEW r \in Refs, NEW s \in Stays, MapFinanceBookingPayout(r, s)
      PROVE  TypeOK'
  <2>1. bookings' \in [Refs -> Booking \cup {NoBooking}]
    <3>1. bookings[r] \in Booking /\ bookings' = [bookings EXCEPT ![r] = [bookings[r] EXCEPT !.stay = s]]
      BY <1>9 DEF MapFinanceBookingPayout, TypeOK, InvoiceTypeOK
    <3>2. [bookings[r] EXCEPT !.stay = s] \in Booking
      BY <3>1 DEF Booking
    <3>3. QED
      BY <3>1, <3>2 DEF TypeOK, InvoiceTypeOK
  <2>2. stays' \in [Stays -> [name : Guests, active : BOOLEAN, review : {"confirmed", "legacy", "cancelled"}]]
    BY <1>9, ConfirmType DEF MapFinanceBookingPayout
  <2>3. QED
    BY <1>9, <2>1, <2>2 DEF MapFinanceBookingPayout, TypeOK, InvoiceTypeOK, ImportTypeOK
<1>10. ASSUME NEW s \in Stays, NEW g \in Guests, NEW a \in BOOLEAN, EditStay(s, g, a)
      PROVE  TypeOK'
  <2>1. edits' \in 0..MaxEdits
    BY <1>10, ImportAssumption DEF EditStay, TypeOK, ImportTypeOK
  <2>2. stays' \in [Stays -> [name : Guests, active : BOOLEAN, review : {"confirmed", "legacy", "cancelled"}]]
    BY <1>10 DEF EditStay, TypeOK, InvoiceTypeOK
  <2>3. QED
    BY <1>10, <2>1, <2>2 DEF EditStay, TypeOK, InvoiceTypeOK, ImportTypeOK
<1>11. QED
  BY <1>1, <1>2, <1>3, <1>4, <1>5, <1>6, <1>7, <1>8, <1>9, <1>10, CommitRowType DEF ImportStep

LEMMA TypeNext == TypeOK /\ [Next]_vars => TypeOK'
<1> SUFFICES ASSUME TypeOK, [Next]_vars PROVE TypeOK'
  OBVIOUS
<1>1. CASE InvoiceStep
  <2>1. ImportTypeOK'
    BY <1>1 DEF InvoiceStep, importVars, TypeOK, ImportTypeOK
  <2>2. QED
    BY <1>1, <2>1, InvoiceStepType DEF TypeOK
<1>2. CASE ImportStep
  BY <1>2, ImportStepType
<1>3. CASE UNCHANGED vars
  BY <1>3 DEF vars, invoiceVars, importVars, TypeOK, InvoiceTypeOK, ImportTypeOK
<1>4. QED
  BY <1>1, <1>2, <1>3 DEF Next

(* TypeOK: what the imports and the invoices store has its shape.          *)
THEOREM TypeCorrect == Spec => []TypeOK
<1>1. QED
  BY TypeInit, TypeNext, PTL DEF Spec

-----------------------------------------------------------------------------
(* Invoices.  What makes the properties inductive is what the requests     *)
(* under way still hold: an id is never given twice, so what a request has *)
(* read of the type and the number of its invoice stays true.              *)

Numbered(d, x) == [doc |-> d, type |-> x.type, number |-> x.number] \in issued

NumbersGood ==
  /\ \A i, j \in issued : i.doc = j.doc => i = j
  /\ \A d \in Documents : Stored(d) => Numbered(d, invoices[d])
  /\ \A q \in Clerks :
       LET e == clerk[q] IN
       /\ e.at = "edit" => Numbered(e.doc, e.row)
       /\ e.at = "saved" => \E i \in issued : i.doc = e.doc
       /\ e.at \in {"render", "attach"} => Numbered(e.doc, e)

ProformasUnbooked ==
  \A d \in Documents : Stored(d) /\ invoices[d].type = "proforma" => invoices[d].booking = NoRef

OnDisk(x, v) == \E y \in disk : y.type = x.type /\ y.number = x.number /\ y.version = v

(* The first PDF attached may be that of the second version, and that of   *)
(* the first may still follow.                                             *)
VersionsGood(inv) ==
  \/ inv.files = {} /\ inv.version = 1
  \/ \E lo, hi \in inv.files : lo <= 2 /\ inv.files = lo..hi /\ inv.version \in inv.files

(* A version a request may attach leaves no gap.                           *)
Fits(v, files) == IF files = {} THEN v \in {1, 2} ELSE \E w \in files : v <= w + 1

PdfsGood ==
  /\ \A d \in Documents : Stored(d) =>
       VersionsGood(invoices[d]) /\ \A v \in invoices[d].files : OnDisk(invoices[d], v)
  /\ \A q \in Clerks :
       LET e == clerk[q] IN
       /\ e.at \in {"render", "attach"} /\ Stored(e.doc) => Fits(e.version, invoices[e.doc].files)
       /\ e.at = "attach" /\ Stored(e.doc) => OnDisk(e, e.version)

-----------------------------------------------------------------------------
(* The ledger.  What makes the properties inductive is what an entry is    *)
(* good for as long as it may be committed.                                *)

EntryGood(e) ==
  /\ e.fate # "out" => e.kept
  /\ e.fate # "out" /\ e.row.source = "payout" => e.result.payout
  /\ e.fate # "out" /\ e.row.source = "statement" /\ e.born = NoBooking => ~e.result.payout /\ e.result.net = 0

(* A statement gives a reservation once.                                   *)
PreviewGood(preview) ==
  /\ \A i \in DOMAIN preview : EntryGood(preview[i])
  /\ \A i, j \in DOMAIN preview : preview[i].row.source = preview[j].row.source
  /\ \A i, j \in DOMAIN preview :
       i # j /\ preview[i].kept /\ preview[j].kept /\ preview[i].row.source = "statement"
       => preview[i].row.ref # preview[j].row.ref

(* No line of a statement will change what was paid out.                   *)
KeepsPayout(e) ==
  LET b == bookings[e.row.ref] IN
  e.row.source = "statement" /\ e.born # NoBooking /\ b # NoBooking /\ b.born = e.born
  => e.result.payout = b.data.payout /\ e.result.net = b.data.net

CommitGood ==
  commit # NoCommit =>
    /\ \A e \in commit.left : EntryGood(e) /\ e.fate = "planned" /\ KeepsPayout(e)
    /\ \A e, f \in commit.left :
         /\ e.row.source = f.row.source
         /\ e # f /\ e.row.source = "statement" => e.row.ref # f.row.ref

PreviewsGood == \A t \in Tokens : previews[t] # Gone => PreviewGood(previews[t])

LedgerInv == PreviewsGood /\ CommitGood /\ LedgerFollowsBookings /\ CorrectionsCountOnce

LEMMA StepsOnInvoices ==
  ASSUME [Next]_vars
  PROVE  \/ InvoiceStep
         \/ Restart \/ ResetFinanceRecords
         \/ UNCHANGED invoiceVars
<1> USE DEF vars, invoiceVars, importVars
<1>1. CASE ImportStep
  <2>1. ASSUME NEW t \in Tokens, NEW f \in Files, PostFinanceImportPreview(t, f) PROVE UNCHANGED invoiceVars
    BY <2>1 DEF PostFinanceImportPreview
  <2>2. ASSUME NEW t \in Tokens, ExpirePreview(t) PROVE UNCHANGED invoiceVars
    BY <2>2 DEF ExpirePreview
  <2>3. ASSUME NEW t \in Tokens, NEW choice, PostFinanceImportCommit(t, choice) PROVE UNCHANGED invoiceVars
    BY <2>3 DEF PostFinanceImportCommit
  <2>4. ASSUME NEW e, CommitRow(e) PROVE UNCHANGED invoiceVars
    BY <2>4 DEF CommitRow
  <2>5. ASSUME NEW row, CommitEvidence(row) PROVE UNCHANGED invoiceVars
    BY <2>5 DEF CommitEvidence
  <2>6. FinishCommit \/ Disconnect => UNCHANGED invoiceVars
    BY DEF FinishCommit, Disconnect
  <2>7. ASSUME NEW r \in Refs, NEW s \in Stays, MapFinanceBookingPayout(r, s) PROVE UNCHANGED invoiceVars
    BY <2>7 DEF MapFinanceBookingPayout
  <2>8. ASSUME NEW s \in Stays, NEW g, NEW a, EditStay(s, g, a) PROVE UNCHANGED invoiceVars
    BY <2>8 DEF EditStay
  <2>9. QED
    BY <1>1, <2>1, <2>2, <2>3, <2>4, <2>5, <2>6, <2>7, <2>8 DEF ImportStep
<1>2. CASE UNCHANGED vars
  BY <1>2
<1>3. QED
  BY <1>1, <1>2 DEF Next

(* Numbers are given by CreateInvoice alone.                               *)
LEMMA NumbersGiven ==
  ASSUME [Next]_vars
  PROVE  \/ UNCHANGED <<sequences, issued>>
         \/ \E q \in Clerks, d \in Documents, t \in Types, s \in Stays, r \in Refs \cup {NoRef}, c \in Contents :
              CreateInvoice(q, d, t, s, r, c)
<1>1. CASE InvoiceStep
  <2>1. ASSUME NEW q \in Clerks, NEW d \in Documents, GetInvoice(q, d)
        PROVE  UNCHANGED <<sequences, issued>>
    BY <2>1 DEF GetInvoice
  <2>2. ASSUME NEW q \in Clerks, NEW s \in Stays, NEW r \in Refs \cup {NoRef}, NEW c \in Contents,
               UpdateInvoice(q, s, r, c)
        PROVE  UNCHANGED <<sequences, issued>>
    BY <2>2 DEF UpdateInvoice
  <2>3. ASSUME NEW q \in Clerks, ReadBack(q) \/ SaveInvoicePDF(q) \/ AttachInvoiceFile(q) \/ AbandonRequest(q)
        PROVE  UNCHANGED <<sequences, issued>>
    BY <2>3 DEF ReadBack, SaveInvoicePDF, AttachInvoiceFile, AbandonRequest
  <2>4. QED
    BY <1>1, <2>1, <2>2, <2>3 DEF InvoiceStep
<1>2. CASE Restart \/ ResetFinanceRecords
  BY <1>2 DEF Restart, ResetFinanceRecords, ResetInvoices, CountersAfterReset
<1>3. QED
  BY <1>1, <1>2, StepsOnInvoices DEF invoiceVars

LEMMA FinalNext ==
  ASSUME TypeOK, NumbersAreFinal, [Next]_vars
  PROVE  NumbersAreFinal'
<1>1. CASE UNCHANGED <<sequences, issued>>
  BY <1>1 DEF NumbersAreFinal
<1>2. ASSUME NEW q \in Clerks, NEW d \in Documents, NEW type \in Types, NEW s \in Stays,
             NEW r \in Refs \cup {NoRef}, NEW c \in Contents, CreateInvoice(q, d, type, s, r, c)
      PROVE  NumbersAreFinal'
  <2> DEFINE new == [doc |-> d, type |-> type, number |-> NextNumber(type)]
             given(t) == {i \in issued : i.type = t}
  <2>1. /\ sequences' = [sequences EXCEPT ![type] = NextNumber(type)]
        /\ issued' = issued \cup {new}
        /\ sequences \in [Types -> Nat] /\ NextNumber(type) = sequences[type] + 1
    BY <1>2 DEF CreateInvoice, NextNumber, TypeOK, InvoiceTypeOK
  <2>2. new.type = type /\ new.number = sequences[type] + 1
    BY <2>1
  <2> HIDE DEF new
  <2> SUFFICES ASSUME NEW t \in Types
               PROVE  /\ {i.number : i \in given(t)'} = 1..sequences'[t]
                      /\ \A i, j \in given(t)' : i.number = j.number => i = j
    BY DEF NumbersAreFinal
  <2>3. /\ {i.number : i \in given(t)} = 1..sequences[t]
        /\ \A i, j \in given(t) : i.number = j.number => i = j
    BY DEF NumbersAreFinal
  <2>4. CASE t # type
    BY <2>1, <2>2, <2>3, <2>4
  <2>5. CASE t = type
    <3>1. given(t)' = given(t) \cup {new} /\ sequences'[t] = sequences[t] + 1 /\ sequences[t] \in Nat
      BY <2>1, <2>2, <2>5
    <3>2. {i.number : i \in given(t)'} = {i.number : i \in given(t)} \cup {new.number}
      BY <3>1
    <3>3. 1..(sequences[t] + 1) = (1..sequences[t]) \cup {sequences[t] + 1}
      BY <3>1
    <3>4. \A i \in given(t) : i.number # new.number
      <4>1. \A i \in given(t) : i.number \in 1..sequences[t]
        BY <2>3
      <4>2. QED
        BY <2>2, <2>5, <3>1, <4>1
    <3>5. QED
      BY <2>2, <2>3, <2>5, <3>1, <3>2, <3>3, <3>4
  <2>6. QED
    BY <2>4, <2>5
<1>3. QED
  BY <1>1, <1>2, NumbersGiven

(* NumbersAreFinal: no number is given twice and none is left out, however *)
(* often the ledger is reset.                                              *)
THEOREM NumbersStayFinal == Spec => []NumbersAreFinal
<1>1. Init => NumbersAreFinal
  BY DEF Init, NumbersAreFinal
<1>2. QED
  BY <1>1, FinalNext, TypeCorrect, PTL DEF Spec

LEMMA NumberedStays ==
  ASSUME [Next]_vars, NEW d, NEW x, Numbered(d, x)
  PROVE  Numbered(d, x)'
<1>1. issued \subseteq issued'
  BY NumbersGiven DEF CreateInvoice
<1>2. QED
  BY <1>1 DEF Numbered

(* What an invoice is called never changes.                                *)
LEMMA NameKept ==
  ASSUME TypeOK, [Next]_vars, NEW d \in Documents, Stored(d)'
  PROVE  \/ Stored(d) /\ invoices'[d].type = invoices[d].type /\ invoices'[d].number = invoices[d].number
         \/ Numbered(d, invoices[d])'
<1>1. ASSUME NEW q \in Clerks, NEW c \in Documents, NEW type \in Types, NEW s \in Stays,
             NEW r \in Refs \cup {NoRef}, NEW content \in Contents, CreateInvoice(q, c, type, s, r, content), c = d
      PROVE  Numbered(d, invoices[d])'
  BY <1>1 DEF CreateInvoice, Numbered, TypeOK, InvoiceTypeOK
<1>2. ASSUME NEW q \in Clerks, NEW c \in Documents, NEW type \in Types, NEW s \in Stays,
             NEW r \in Refs \cup {NoRef}, NEW content \in Contents, CreateInvoice(q, c, type, s, r, content), c # d
      PROVE  invoices'[d] = invoices[d]
  BY <1>2 DEF CreateInvoice, TypeOK, InvoiceTypeOK
<1>3. ASSUME NEW q \in Clerks, NEW s \in Stays, NEW r \in Refs \cup {NoRef}, NEW c \in Contents,
             UpdateInvoice(q, s, r, c)
      PROVE  Stored(d) /\ invoices'[d].type = invoices[d].type /\ invoices'[d].number = invoices[d].number
  <2>1. CASE invoices' = invoices
    BY <2>1 DEF Stored
  <2>2. CASE invoices' # invoices
    <3>1. Stored(clerk[q].doc) /\ invoices' = [invoices EXCEPT ![clerk[q].doc].stay = s, ![clerk[q].doc].booking = r,
                                               ![clerk[q].doc].content = c]
      BY <1>3, <2>2 DEF UpdateInvoice
    <3>2. QED
      BY <3>1 DEF Stored, TypeOK, InvoiceTypeOK, Invoice
  <2>3. QED
    BY <2>1, <2>2
<1>4. ASSUME NEW q \in Clerks, AttachInvoiceFile(q)
      PROVE  Stored(d) /\ invoices'[d].type = invoices[d].type /\ invoices'[d].number = invoices[d].number
  BY <1>4 DEF AttachInvoiceFile, Attachable, Stored, TypeOK, InvoiceTypeOK, Invoice
<1>5. ASSUME NEW q \in Clerks, NEW c \in Documents,
             GetInvoice(q, c) \/ ReadBack(q) \/ SaveInvoicePDF(q) \/ AbandonRequest(q)
      PROVE  invoices' = invoices
  BY <1>5 DEF GetInvoice, ReadBack, SaveInvoicePDF, AbandonRequest
<1>6. CASE ResetFinanceRecords
  BY <1>6 DEF ResetFinanceRecords, ResetInvoices, Stored
<1>7. CASE Restart \/ UNCHANGED invoiceVars
  BY <1>7 DEF Restart, invoiceVars, Stored
<1>8. QED
  BY <1>1, <1>2, <1>3, <1>4, <1>5, <1>6, <1>7, StepsOnInvoices DEF InvoiceStep, Stored

LEMMA NumbersGoodNext ==
  ASSUME TypeOK, NumbersGood, [Next]_vars
  PROVE  NumbersGood'
<1> DEFINE Known(e) == /\ e.at = "edit" => Numbered(e.doc, e.row)
                       /\ e.at = "saved" => \E i \in issued : i.doc = e.doc
                       /\ e.at \in {"render", "attach"} => Numbered(e.doc, e)
<1>1. \A i, j \in issued' : i.doc = j.doc => i = j
  BY NumbersGiven DEF CreateInvoice, NumbersGood
<1>2. \A d \in Documents : Stored(d)' => Numbered(d, invoices[d])'
  <2> SUFFICES ASSUME NEW d \in Documents, Stored(d)' PROVE Numbered(d, invoices[d])'
    OBVIOUS
  <2>1. Stored(d) => Numbered(d, invoices[d])
    BY DEF NumbersGood
  <2>2. Stored(d) => [doc |-> d, type |-> invoices[d].type, number |-> invoices[d].number] \in issued'
    BY <2>1, NumberedStays DEF Numbered
  <2>3. QED
    BY <2>2, NameKept DEF Numbered
<1>3. ASSUME NEW p \in Clerks PROVE Known(clerk[p])'
  <2>1. Known(clerk[p])
    BY DEF NumbersGood
  <2>2. issued \subseteq issued'
    BY NumbersGiven DEF CreateInvoice
  <2>3. CASE clerk'[p] = clerk[p]
    BY <2>1, <2>2, <2>3 DEF Numbered
  <2>4. CASE clerk'[p] = Idle
    BY <2>4 DEF Idle
  <2>5. CASE clerk'[p] # clerk[p] /\ clerk'[p] # Idle
    <3> USE DEF TypeOK, InvoiceTypeOK
    <3>1. ASSUME NEW q \in Clerks, NEW d \in Documents, NEW type \in Types, NEW s \in Stays,
                 NEW r \in Refs \cup {NoRef}, NEW c \in Contents, CreateInvoice(q, d, type, s, r, c)
          PROVE  Known(clerk[p])'
      <4>1. q = p /\ clerk'[p] = [at |-> "saved", doc |-> d, next |-> 0]
        BY <2>5, <3>1 DEF CreateInvoice
      <4>2. [doc |-> d, type |-> type, number |-> NextNumber(type)] \in issued'
        BY <3>1 DEF CreateInvoice
      <4>3. QED
        BY <4>1, <4>2
    <3>2. ASSUME NEW q \in Clerks, NEW d \in Documents, GetInvoice(q, d)
          PROVE  Known(clerk[p])'
      <4>1. q = p /\ clerk'[p] = [at |-> "edit", doc |-> d, row |-> invoices[d]] /\ Stored(d)
        BY <2>5, <3>2 DEF GetInvoice
      <4>2. QED
        BY <2>2, <4>1 DEF NumbersGood, Numbered
    <3>3. ASSUME NEW q \in Clerks, NEW s \in Stays, NEW r \in Refs \cup {NoRef}, NEW c \in Contents,
                 UpdateInvoice(q, s, r, c)
          PROVE  Known(clerk[p])'
      <4>1. q = p /\ clerk'[p] = [at |-> "saved", doc |-> clerk[p].doc, next |-> 1] /\ clerk[p].at = "edit"
        BY <2>5, <3>3 DEF UpdateInvoice
      <4>2. [doc |-> clerk[p].doc, type |-> clerk[p].row.type, number |-> clerk[p].row.number] \in issued
        BY <2>1, <4>1 DEF Numbered
      <4>3. QED
        BY <2>2, <4>1, <4>2
    <3>4. ASSUME NEW q \in Clerks, ReadBack(q)
          PROVE  Known(clerk[p])'
      <4>1. /\ q = p /\ clerk[p].at = "saved" /\ Stored(clerk[p].doc)
            /\ clerk'[p].at = "render" /\ clerk'[p].doc = clerk[p].doc
            /\ clerk'[p].type = invoices[clerk[p].doc].type /\ clerk'[p].number = invoices[clerk[p].doc].number
        BY <2>5, <3>4 DEF ReadBack
      <4>2. clerk[p].doc \in Documents
        BY <4>1, ClerkCarries
      <4>3. QED
        BY <2>2, <4>1, <4>2 DEF NumbersGood, Numbered
    <3>5. ASSUME NEW q \in Clerks, SaveInvoicePDF(q)
          PROVE  Known(clerk[p])'
      <4>1. q = p /\ clerk[p].at = "render" /\ clerk'[p] = [clerk[p] EXCEPT !.at = "attach"]
        BY <2>5, <3>5 DEF SaveInvoicePDF
      <4>2. clerk[p] \in [at : {"render", "attach"}, doc : Documents, type : Types, number : Nat \ {0},
                          version : Nat \ {0}, content : Contents]
        BY <4>1, ClerkCarries
      <4>3. QED
        BY <2>1, <2>2, <4>1, <4>2 DEF Numbered
    <3>6. ASSUME NEW q \in Clerks, AttachInvoiceFile(q) \/ AbandonRequest(q)
          PROVE  FALSE
      BY <2>5, <3>6 DEF AttachInvoiceFile, AbandonRequest
    <3>7. CASE Restart \/ ResetFinanceRecords \/ UNCHANGED invoiceVars
      BY <2>5, <3>7 DEF Restart, ResetFinanceRecords, ResetInvoices, invoiceVars
    <3>8. QED
      BY <3>1, <3>2, <3>3, <3>4, <3>5, <3>6, <3>7, StepsOnInvoices DEF InvoiceStep
  <2>6. QED
    BY <2>3, <2>4, <2>5
<1>4. QED
  BY <1>1, <1>2, <1>3 DEF NumbersGood

(* What a request has read of the name of its invoice is what it is.       *)
LEMMA NameRead ==
  ASSUME TypeOK, NumbersGood, NEW q \in Clerks, Stored(clerk[q].doc)
  PROVE  /\ clerk[q].at = "edit" => clerk[q].row.type = invoices[clerk[q].doc].type
         /\ clerk[q].at \in {"render", "attach"} =>
              clerk[q].type = invoices[clerk[q].doc].type /\ clerk[q].number = invoices[clerk[q].doc].number
<1> DEFINE e == clerk[q]
<1>1. ASSUME NEW x, NEW y, NEW d, Numbered(d, x), Numbered(d, y)
      PROVE  x.type = y.type /\ x.number = y.number
  <2>1. [doc |-> d, type |-> x.type, number |-> x.number] = [doc |-> d, type |-> y.type, number |-> y.number]
    BY <1>1 DEF Numbered, NumbersGood
  <2>2. QED
    BY <2>1
<1>2. e.at \in {"edit", "render", "attach"} => e.doc \in Documents /\ Numbered(e.doc, invoices[e.doc])
  BY ClerkCarries DEF NumbersGood
<1>3. CASE e.at = "edit"
  <2>1. Numbered(e.doc, e.row)
    BY <1>3 DEF NumbersGood
  <2>2. QED
    BY <1>1, <1>2, <1>3, <2>1
<1>4. CASE e.at \in {"render", "attach"}
  <2>1. Numbered(e.doc, e)
    BY <1>4 DEF NumbersGood
  <2>2. QED
    BY <1>1, <1>2, <1>4, <2>1
<1>5. QED
  BY <1>3, <1>4

(* The links of an invoice are those a request has checked.                *)
LEMMA LinksChecked ==
  ASSUME TypeOK, NumbersGood, ProformasUnbooked, InvoiceStep, NEW d \in Documents, Stored(d)'
  PROVE  /\ UNCHANGED bookings
         /\ invoices'[d].type = "proforma" => invoices'[d].booking = NoRef
         /\ \/ /\ Stored(d) /\ invoices'[d].booking = invoices[d].booking /\ invoices'[d].stay = invoices[d].stay
            \/ ValidateInvoiceLinks(invoices'[d].booking, invoices'[d].stay)
<1>1. ASSUME NEW q \in Clerks, NEW c \in Documents, NEW type \in Types, NEW s \in Stays,
             NEW r \in Refs \cup {NoRef}, NEW content \in Contents, CreateInvoice(q, c, type, s, r, content)
      PROVE  /\ UNCHANGED bookings
             /\ \/ invoices'[d] = invoices[d]
                \/ /\ invoices'[d].booking = r /\ invoices'[d].stay = s /\ ValidateInvoiceLinks(r, s)
                   /\ invoices'[d].type = "proforma" => r = NoRef
  <2>1. CASE c = d
    BY <1>1, <2>1 DEF CreateInvoice, Parsed, TypeOK, InvoiceTypeOK
  <2>2. CASE c # d
    BY <1>1, <2>2 DEF CreateInvoice, TypeOK, InvoiceTypeOK
  <2>3. QED
    BY <2>1, <2>2
<1>2. ASSUME NEW q \in Clerks, NEW s \in Stays, NEW r \in Refs \cup {NoRef}, NEW c \in Contents,
             UpdateInvoice(q, s, r, c)
      PROVE  /\ UNCHANGED bookings
             /\ \/ invoices'[d] = invoices[d]
                \/ /\ invoices'[d].booking = r /\ invoices'[d].stay = s /\ ValidateInvoiceLinks(r, s)
                   /\ invoices'[d].type = "proforma" => r = NoRef
  <2>1. UNCHANGED bookings /\ clerk[q].at = "edit"
    BY <1>2 DEF UpdateInvoice
  <2>2. CASE invoices' = invoices
    BY <2>1, <2>2
  <2>3. CASE invoices' # invoices
    <3>1. /\ Stored(clerk[q].doc) /\ ValidateInvoiceLinks(r, s)
          /\ clerk[q].row.type = "proforma" => r = NoRef
          /\ invoices' = [invoices EXCEPT ![clerk[q].doc].stay = s, ![clerk[q].doc].booking = r,
                                          ![clerk[q].doc].content = c]
      BY <1>2, <2>3 DEF UpdateInvoice
    <3>2. clerk[q].row.type = invoices[clerk[q].doc].type
      BY <2>1, <3>1, NameRead
    <3>3. CASE d = clerk[q].doc
      <4>1. invoices[d] \in Invoice
        BY <3>1, <3>3 DEF Stored, TypeOK, InvoiceTypeOK
      <4>2. invoices'[d].stay = s /\ invoices'[d].booking = r /\ invoices'[d].type = invoices[d].type
        BY <3>1, <3>3, <4>1 DEF Invoice, TypeOK, InvoiceTypeOK
      <4>3. QED
        BY <2>1, <3>1, <3>2, <3>3, <4>2
    <3>4. CASE d # clerk[q].doc
      BY <2>1, <3>1, <3>4 DEF TypeOK, InvoiceTypeOK
    <3>5. QED
      BY <3>3, <3>4
  <2>4. QED
    BY <2>2, <2>3
<1>3. ASSUME NEW q \in Clerks, AttachInvoiceFile(q)
      PROVE  /\ UNCHANGED bookings
             /\ Stored(d) /\ invoices'[d].booking = invoices[d].booking /\ invoices'[d].stay = invoices[d].stay
             /\ invoices'[d].type = invoices[d].type
  BY <1>3 DEF AttachInvoiceFile, Attachable, Stored, TypeOK, InvoiceTypeOK, Invoice
<1>4. ASSUME NEW q \in Clerks, NEW c \in Documents,
             GetInvoice(q, c) \/ ReadBack(q) \/ SaveInvoicePDF(q) \/ AbandonRequest(q)
      PROVE  UNCHANGED <<bookings, invoices>>
  BY <1>4 DEF GetInvoice, ReadBack, SaveInvoicePDF, AbandonRequest
<1>5. Stored(d) /\ invoices[d].type = "proforma" => invoices[d].booking = NoRef
  BY DEF ProformasUnbooked
<1>6. QED
  BY <1>1, <1>2, <1>3, <1>4, <1>5 DEF InvoiceStep, Stored

(* A booking an invoice refers to keeps its stay, until a reset deletes    *)
(* both.                                                                   *)
LEMMA LinkedKeepStay ==
  ASSUME TypeOK, InvoicesMatchBookings, ImportStep, ~ResetFinanceRecords,
         NEW d \in Documents, Stored(d), invoices[d].booking # NoRef
  PROVE  /\ bookings'[invoices[d].booking] # NoBooking
         /\ bookings'[invoices[d].booking].stay = invoices[d].stay
<1> DEFINE r == invoices[d].booking
<1>1. r \in Refs /\ bookings[r] \in Booking /\ bookings[r] # NoBooking /\ bookings[r].stay = invoices[d].stay
  BY DEF Stored, TypeOK, InvoiceTypeOK, Invoice, InvoicesMatchBookings
<1>2. ASSUME NEW e \in commit.left, commit # NoCommit, CommitRow(e), RowSucceeds(e)
      PROVE  bookings'[r] # NoBooking /\ bookings'[r].stay = invoices[d].stay
  <2>1. e \in Entry
    BY <1>2 DEF TypeOK, ImportTypeOK, Commit
  <2>2. bookings' = [bookings EXCEPT ![e.row.ref] = WrittenBooking(e)]
    BY <1>2 DEF CommitRow
  <2>3. CASE e.row.ref = r
    <3>1. e.born # NoBooking
      BY <1>1, <1>2, <2>3 DEF RowSucceeds, Upserts
    <3>2. Links(e) => e.stay = invoices[d].stay
      BY <1>2, <2>3 DEF RowSucceeds, Relinkable
    <3>3. WrittenBooking(e) \in Booking
      BY <1>2, <2>1, WrittenType
    <3>4. WrittenBooking(e).stay = invoices[d].stay
      BY <1>1, <2>3, <3>1, <3>2 DEF WrittenBooking
    <3>5. bookings'[r] = WrittenBooking(e)
      BY <1>1, <2>2, <2>3 DEF TypeOK, InvoiceTypeOK
    <3>6. QED
      BY <3>3, <3>4, <3>5, InvoiceAssumption
  <2>4. CASE e.row.ref # r
    BY <1>1, <2>2, <2>4 DEF TypeOK, InvoiceTypeOK
  <2>5. QED
    BY <2>3, <2>4
<1>3. ASSUME NEW x \in Refs, NEW s \in Stays, MapFinanceBookingPayout(x, s)
      PROVE  bookings'[r] # NoBooking /\ bookings'[r].stay = invoices[d].stay
  <2>1. bookings[x] # NoBooking /\ bookings' = [bookings EXCEPT ![x] = [bookings[x] EXCEPT !.stay = s]]
        /\ (x = r => s = invoices[d].stay)
    BY <1>3 DEF MapFinanceBookingPayout, Relinkable
  <2>2. bookings[x] \in Booking
    BY <2>1 DEF TypeOK, InvoiceTypeOK
  <2>3. [bookings[x] EXCEPT !.stay = s] \in Booking /\ [bookings[x] EXCEPT !.stay = s].stay = s
    BY <2>2 DEF Booking
  <2>4. QED
    BY <1>1, <2>1, <2>3, InvoiceAssumption DEF TypeOK, InvoiceTypeOK
<1>4. \/ UNCHANGED bookings
      \/ \E e \in commit.left : commit # NoCommit /\ CommitRow(e) /\ RowSucceeds(e)
      \/ \E x \in Refs, s \in Stays : MapFinanceBookingPayout(x, s)
  <2>1. ASSUME NEW t \in Tokens, NEW f \in Files, PostFinanceImportPreview(t, f) PROVE UNCHANGED bookings
    BY <2>1 DEF PostFinanceImportPreview
  <2>2. ASSUME NEW t \in Tokens, ExpirePreview(t) PROVE UNCHANGED bookings
    BY <2>2 DEF ExpirePreview
  <2>3. ASSUME NEW t \in Tokens, NEW choice, PostFinanceImportCommit(t, choice) PROVE UNCHANGED bookings
    BY <2>3 DEF PostFinanceImportCommit
  <2>4. ASSUME NEW e, CommitRow(e), ~RowSucceeds(e) PROVE UNCHANGED bookings
    BY <2>4 DEF CommitRow
  <2>5. ASSUME NEW row, CommitEvidence(row) PROVE UNCHANGED bookings
    BY <2>5 DEF CommitEvidence
  <2>6. FinishCommit \/ Disconnect \/ Restart => UNCHANGED bookings
    BY DEF FinishCommit, Disconnect, Restart
  <2>7. ASSUME NEW s \in Stays, NEW g, NEW a, EditStay(s, g, a) PROVE UNCHANGED bookings
    BY <2>7 DEF EditStay
  <2>8. QED
    BY <2>1, <2>2, <2>3, <2>4, <2>5, <2>6, <2>7 DEF ImportStep
<1>5. QED
  BY <1>1, <1>2, <1>3, <1>4

LEMMA LinksNext ==
  ASSUME TypeOK, NumbersGood, ProformasUnbooked, InvoicesMatchBookings, [Next]_vars
  PROVE  ProformasUnbooked' /\ InvoicesMatchBookings'
<1>1. CASE InvoiceStep
  <2> SUFFICES ASSUME NEW d \in Documents, Stored(d)'
               PROVE  /\ invoices'[d].type = "proforma" => invoices'[d].booking = NoRef
                      /\ invoices'[d].booking # NoRef =>
                           bookings'[invoices'[d].booking] # NoBooking
                           /\ bookings'[invoices'[d].booking].stay = invoices'[d].stay
    BY DEF ProformasUnbooked, InvoicesMatchBookings
  <2>1. UNCHANGED bookings /\ (invoices'[d].type = "proforma" => invoices'[d].booking = NoRef)
    BY <1>1, LinksChecked
  <2>2. CASE Stored(d) /\ invoices'[d].booking = invoices[d].booking /\ invoices'[d].stay = invoices[d].stay
    BY <2>1, <2>2 DEF InvoicesMatchBookings
  <2>3. CASE ValidateInvoiceLinks(invoices'[d].booking, invoices'[d].stay)
    BY <2>1, <2>3 DEF ValidateInvoiceLinks
  <2>4. QED
    BY <1>1, <2>1, <2>2, <2>3, LinksChecked
<1>2. CASE ImportStep /\ ~ResetFinanceRecords
  <2>1. invoices' = invoices
    BY <1>2, StepsOnInvoices DEF ImportStep, invoiceVars, PostFinanceImportPreview, ExpirePreview, PostFinanceImportCommit,
       CommitRow, FinishCommit, Disconnect, Restart, CommitEvidence, MapFinanceBookingPayout, EditStay
  <2>2. QED
    BY <1>2, <2>1, LinkedKeepStay DEF ProformasUnbooked, InvoicesMatchBookings, Stored
<1>3. CASE ResetFinanceRecords
  <2>1. invoices' = [d \in Documents |-> IF d \in {c \in Documents : ResetDeletes(c)} THEN NoDocument ELSE invoices[d]]
    BY <1>3 DEF ResetFinanceRecords, ResetInvoices
  <2>2. \A d \in Documents : Stored(d)' => Stored(d) /\ invoices'[d] = invoices[d] /\ ~ResetDeletes(d)
    BY <2>1 DEF Stored
  <2>3. \A d \in Documents : Stored(d)' => invoices[d].booking = NoRef
    BY <2>2 DEF ResetDeletes, ProformasUnbooked, TypeOK, InvoiceTypeOK, Invoice, Types, Stored
  <2>4. QED
    BY <2>2, <2>3 DEF ProformasUnbooked, InvoicesMatchBookings
<1>4. CASE UNCHANGED vars
  BY <1>4 DEF vars, invoiceVars, ProformasUnbooked, InvoicesMatchBookings, Stored
<1>5. QED
  BY <1>1, <1>2, <1>3, <1>4 DEF Next

LinksInv == NumbersGood /\ ProformasUnbooked /\ InvoicesMatchBookings

(* InvoicesMatchBookings: an invoice of a booking is for the booking's     *)
(* stay, whatever is mapped, imported and edited meanwhile.                *)
THEOREM InvoicesFollowBookings == Spec => []InvoicesMatchBookings
<1>1. Init => LinksInv
  BY DEF Init, LinksInv, NumbersGood, ProformasUnbooked, InvoicesMatchBookings, Stored, Idle
<1>2. TypeOK /\ LinksInv /\ [Next]_vars => LinksInv'
  BY NumbersGoodNext, LinksNext DEF LinksInv
<1>3. LinksInv => InvoicesMatchBookings
  BY DEF LinksInv
<1>4. QED
  BY <1>1, <1>2, <1>3, TypeCorrect, PTL DEF Spec

LEMMA NamesUnique ==
  ASSUME TypeOK, NumbersAreFinal, NumbersGood, NEW c \in Documents, NEW d \in Documents, Stored(c), Stored(d),
         invoices[c].type = invoices[d].type, invoices[c].number = invoices[d].number
  PROVE  c = d
<1> DEFINE n(x) == [doc |-> x, type |-> invoices[x].type, number |-> invoices[x].number]
<1>1. n(c) \in issued /\ n(d) \in issued
  BY DEF NumbersGood, Numbered
<1>2. invoices[c].type \in Types
  BY DEF TypeOK, InvoiceTypeOK, Stored, Invoice
<1>3. n(c) = n(d)
  BY <1>1, <1>2 DEF NumbersAreFinal
<1>4. QED
  BY <1>3

(* Attaching a version that fits leaves no gap, and what fitted before     *)
(* still does.                                                             *)
LEMMA AttachedVersions ==
  ASSUME NEW inv \in Invoice, VersionsGood(inv), NEW v \in Nat \ {0}, Fits(v, inv.files), v \notin inv.files
  PROVE  /\ VersionsGood([inv EXCEPT !.files = @ \cup {v}, !.version = v])
         /\ \A w \in Nat \ {0} : Fits(w, inv.files) => Fits(w, inv.files \cup {v})
<1> DEFINE new == [inv EXCEPT !.files = @ \cup {v}, !.version = v]
<1>1. new.files = inv.files \cup {v} /\ new.version = v /\ inv.files \subseteq Nat \ {0}
  BY DEF Invoice
<1> HIDE DEF new
<1> SUFFICES VersionsGood(new) /\ \A w \in Nat \ {0} : Fits(w, inv.files) => Fits(w, inv.files \cup {v})
  BY DEF new
<1>2. CASE inv.files = {}
  <2>1. new.files = v..v /\ v \in {1, 2}
    BY <1>1, <1>2 DEF Fits
  <2>2. VersionsGood(new)
    BY <1>1, <1>2, <2>1 DEF VersionsGood
  <2>3. ASSUME NEW w \in Nat \ {0}, Fits(w, inv.files) PROVE Fits(w, inv.files \cup {v})
    BY <1>2, <2>1, <2>3 DEF Fits
  <2>4. QED
    BY <2>2, <2>3
<1>3. CASE inv.files # {}
  <2>1. PICK lo \in inv.files, hi \in inv.files : lo <= 2 /\ inv.files = lo..hi
    BY <1>3 DEF VersionsGood
  <2>2. PICK w \in inv.files : v <= w + 1
    BY <1>3 DEF Fits
  <2>3. lo \in Nat \ {0} /\ hi \in Nat \ {0} /\ lo <= hi /\ w \in Nat /\ w <= hi
    BY <1>1, <2>1, <2>2
  <2>4. v = hi + 1 \/ (lo = 2 /\ v = 1)
    BY <2>1, <2>2, <2>3
  <2>5. ASSUME v = hi + 1 PROVE VersionsGood(new)
    <3>1. new.files = lo..v /\ lo \in new.files /\ v \in new.files
      BY <1>1, <2>1, <2>3, <2>5
    <3>2. QED
      BY <1>1, <2>1, <3>1 DEF VersionsGood
  <2>6. ASSUME lo = 2, v = 1 PROVE VersionsGood(new)
    <3>1. new.files = v..hi /\ hi \in new.files /\ v \in new.files /\ v <= 2
      BY <1>1, <2>1, <2>3, <2>6
    <3>2. \E x, y \in new.files : x <= 2 /\ new.files = x..y /\ new.version \in new.files
      <4>1. new.version \in new.files
        BY <1>1, <3>1
      <4>2. QED
        BY <3>1, <4>1, Zenon
    <3>3. QED
      BY <3>2, Zenon DEF VersionsGood
  <2>7. VersionsGood(new)
    BY <2>4, <2>5, <2>6
  <2>8. \A x \in Nat \ {0} : Fits(x, inv.files) => Fits(x, inv.files \cup {v})
    BY <1>3 DEF Fits
  <2>9. QED
    BY <2>7, <2>8
<1>4. QED
  BY <1>2, <1>3

(* Steps that change neither the files of an invoice nor what a request    *)
(* renders.                                                                *)
LEMMA PdfsUntouched ==
  ASSUME PdfsGood,
         \A d \in Documents : Stored(d)' =>
           /\ Stored(d) /\ invoices'[d].files = invoices[d].files /\ invoices'[d].version = invoices[d].version
           /\ invoices'[d].type = invoices[d].type /\ invoices'[d].number = invoices[d].number,
         \A q \in Clerks : clerk'[q].at \in {"render", "attach"} => clerk'[q] = clerk[q] /\ clerk[q].doc \in Documents,
         disk' = disk
  PROVE  PdfsGood'
<1>1. ASSUME NEW d \in Documents, Stored(d)'
      PROVE  VersionsGood(invoices'[d]) /\ \A v \in invoices'[d].files : OnDisk(invoices[d], v)'
  <2>1. VersionsGood(invoices[d]) /\ \A v \in invoices[d].files : OnDisk(invoices[d], v)
    BY <1>1 DEF PdfsGood
  <2>2. QED
    BY <1>1, <2>1 DEF VersionsGood, OnDisk
<1>2. ASSUME NEW q \in Clerks, clerk'[q].at \in {"render", "attach"}, Stored(clerk[q].doc)'
      PROVE  /\ Fits(clerk[q].version, invoices[clerk[q].doc].files)'
             /\ clerk'[q].at = "attach" => OnDisk(clerk[q], clerk[q].version)'
  <2>1. clerk'[q] = clerk[q] /\ Stored(clerk[q].doc)
        /\ invoices'[clerk[q].doc].files = invoices[clerk[q].doc].files
    BY <1>2 DEF Stored
  <2>2. /\ Fits(clerk[q].version, invoices[clerk[q].doc].files)
        /\ clerk[q].at = "attach" => OnDisk(clerk[q], clerk[q].version)
    BY <1>2, <2>1 DEF PdfsGood
  <2>3. QED
    BY <2>1, <2>2 DEF OnDisk
<1>3. QED
  BY <1>1, <1>2 DEF PdfsGood

LEMMA PdfsNext ==
  ASSUME TypeOK, NumbersAreFinal, NumbersGood, PdfsGood, [Next]_vars
  PROVE  PdfsGood'
<1> USE DEF TypeOK, InvoiceTypeOK
<1>1. ASSUME NEW q \in Clerks, NEW d \in Documents, NEW type \in Types, NEW s \in Stays,
             NEW r \in Refs \cup {NoRef}, NEW c \in Contents, CreateInvoice(q, d, type, s, r, c)
      PROVE  PdfsGood'
  <2>1. \A b \in Documents \ {d} : invoices'[b] = invoices[b]
    BY <1>1 DEF CreateInvoice
  <2>2. invoices'[d].files = {} /\ invoices'[d].version = 1
    BY <1>1 DEF CreateInvoice
  <2>3. disk' = disk
    BY <1>1 DEF CreateInvoice
  <2>4. ASSUME NEW b \in Documents, Stored(b)'
        PROVE  VersionsGood(invoices[b])' /\ \A v \in invoices'[b].files : OnDisk(invoices[b], v)'
    <3>1. CASE b = d
      BY <2>2, <3>1 DEF VersionsGood
    <3>2. CASE b # d
      <4>1. invoices'[b] = invoices[b] /\ Stored(b)
        BY <2>1, <2>4, <3>2 DEF Stored
      <4>2. VersionsGood(invoices[b]) /\ \A v \in invoices[b].files : OnDisk(invoices[b], v)
        BY <4>1 DEF PdfsGood
      <4>3. QED
        BY <2>3, <4>1, <4>2 DEF OnDisk
    <3>3. QED
      BY <3>1, <3>2
  <2>5. ASSUME NEW p \in Clerks, clerk'[p].at \in {"render", "attach"}, Stored(clerk[p].doc)'
        PROVE  /\ Fits(clerk[p].version, invoices[clerk[p].doc].files)'
               /\ clerk'[p].at = "attach" => OnDisk(clerk[p], clerk[p].version)'
    <3>1. p # q /\ clerk'[p] = clerk[p]
      BY <1>1, <2>5 DEF CreateInvoice
    <3>2. clerk[p].doc \in Documents /\ Numbered(clerk[p].doc, clerk[p])
      BY <2>5, <3>1, ClerkCarries DEF NumbersGood
    <3>3. clerk[p].doc # d
      BY <1>1, <3>2 DEF CreateInvoice, Numbered
    <3>4. invoices'[clerk[p].doc] = invoices[clerk[p].doc] /\ Stored(clerk[p].doc)
      BY <2>1, <2>5, <3>1, <3>2, <3>3 DEF Stored
    <3>5. /\ Fits(clerk[p].version, invoices[clerk[p].doc].files)
          /\ clerk[p].at = "attach" => OnDisk(clerk[p], clerk[p].version)
      BY <2>5, <3>1, <3>4 DEF PdfsGood
    <3>6. QED
      BY <2>3, <3>1, <3>4, <3>5 DEF OnDisk
  <2>6. QED
    BY <2>4, <2>5 DEF PdfsGood
<1>2. ASSUME NEW q \in Clerks, NEW d \in Documents, GetInvoice(q, d)
      PROVE  PdfsGood'
  <2>1. invoices' = invoices /\ disk' = disk
        /\ clerk' = [clerk EXCEPT ![q] = [at |-> "edit", doc |-> d, row |-> invoices[d]]]
    BY <1>2 DEF GetInvoice
  <2>2. \A p \in Clerks : clerk'[p].at \in {"render", "attach"} => clerk'[p] = clerk[p] /\ clerk[p].doc \in Documents
    BY <2>1, ClerkCarries
  <2>3. QED
    BY <2>1, <2>2, PdfsUntouched DEF Stored
<1>3. ASSUME NEW q \in Clerks, NEW s \in Stays, NEW r \in Refs \cup {NoRef}, NEW c \in Contents,
             UpdateInvoice(q, s, r, c)
      PROVE  PdfsGood'
  <2>1. \A p \in Clerks : clerk'[p].at \in {"render", "attach"} => clerk'[p] = clerk[p] /\ clerk[p].doc \in Documents
    BY <1>3, ClerkCarries DEF UpdateInvoice, Idle
  <2>2. disk' = disk
    BY <1>3 DEF UpdateInvoice
  <2>3. ASSUME NEW d \in Documents, Stored(d)'
        PROVE  /\ Stored(d) /\ invoices'[d].files = invoices[d].files /\ invoices'[d].version = invoices[d].version
               /\ invoices'[d].type = invoices[d].type /\ invoices'[d].number = invoices[d].number
    <3>1. CASE invoices' = invoices
      BY <2>3, <3>1 DEF Stored
    <3>2. CASE invoices' # invoices
      <4>1. Stored(clerk[q].doc) /\ invoices' = [invoices EXCEPT ![clerk[q].doc].stay = s, ![clerk[q].doc].booking = r,
                                                 ![clerk[q].doc].content = c]
        BY <1>3, <3>2 DEF UpdateInvoice
      <4>2. QED
        BY <2>3, <4>1 DEF Stored, Invoice
    <3>3. QED
      BY <3>1, <3>2
  <2>4. QED
    BY <2>1, <2>2, <2>3, PdfsUntouched
<1>4. ASSUME NEW q \in Clerks, ReadBack(q)
      PROVE  PdfsGood'
  <2>1. invoices' = invoices /\ disk' = disk
    BY <1>4 DEF ReadBack
  <2>2. ASSUME NEW p \in Clerks, clerk'[p].at \in {"render", "attach"}, Stored(clerk[p].doc)'
        PROVE  /\ Fits(clerk[p].version, invoices[clerk[p].doc].files)'
               /\ clerk'[p].at = "attach" => OnDisk(clerk[p], clerk[p].version)'
    <3>1. CASE p = q
      <4>1. /\ clerk[q].at = "saved" /\ Stored(clerk[q].doc) /\ clerk'[q].at = "render"
            /\ clerk'[q].doc = clerk[q].doc /\ clerk'[q].version = invoices[clerk[q].doc].version + clerk[q].next
        BY <1>4, <2>2, <3>1 DEF ReadBack, Idle
      <4>2. clerk[q].doc \in Documents /\ clerk[q].next \in {0, 1}
        BY <4>1, ClerkCarries
      <4>3. VersionsGood(invoices[clerk[q].doc]) /\ invoices[clerk[q].doc].files \subseteq Nat \ {0}
            /\ invoices[clerk[q].doc].version \in Nat \ {0}
        BY <4>1, <4>2 DEF PdfsGood, Stored, Invoice
      <4>4. Fits(clerk'[q].version, invoices[clerk[q].doc].files)
        BY <4>1, <4>2, <4>3 DEF VersionsGood, Fits
      <4>5. QED
        BY <2>1, <3>1, <4>1, <4>4
    <3>2. CASE p # q
      <4>1. clerk'[p] = clerk[p]
        BY <1>4, <3>2 DEF ReadBack
      <4>2. QED
        BY <2>1, <2>2, <4>1 DEF PdfsGood, Stored, OnDisk
    <3>3. QED
      BY <3>1, <3>2
  <2>3. QED
    BY <2>1, <2>2 DEF PdfsGood, Stored, OnDisk
<1>5. ASSUME NEW q \in Clerks, SaveInvoicePDF(q)
      PROVE  PdfsGood'
  <2>1. invoices' = invoices /\ clerk[q].at = "render" /\ clerk' = [clerk EXCEPT ![q] = [clerk[q] EXCEPT !.at = "attach"]]
        /\ disk' = {x \in disk : ~SameFile(x, Pdf(clerk[q]))} \cup {Pdf(clerk[q])}
    BY <1>5 DEF SaveInvoicePDF
  <2>2. ASSUME NEW x, NEW v, OnDisk(x, v)
        PROVE  \E y \in disk' : y.type = x.type /\ y.number = x.number /\ y.version = v
    <3>1. PICK y \in disk : y.type = x.type /\ y.number = x.number /\ y.version = v
      BY <2>2 DEF OnDisk
    <3>2. CASE SameFile(y, Pdf(clerk[q]))
      BY <2>1, <3>1, <3>2 DEF SameFile
    <3>3. CASE ~SameFile(y, Pdf(clerk[q]))
      BY <2>1, <3>1, <3>3
    <3>4. QED
      BY <3>2, <3>3
  <2>3. clerk[q] \in [at : {"render", "attach"}, doc : Documents, type : Types, number : Nat \ {0},
                      version : Nat \ {0}, content : Contents]
    BY <2>1, ClerkCarries
  <2>4. ASSUME NEW p \in Clerks, clerk'[p].at \in {"render", "attach"}, Stored(clerk[p].doc)'
        PROVE  /\ Fits(clerk[p].version, invoices[clerk[p].doc].files)'
               /\ clerk'[p].at = "attach" => OnDisk(clerk[p], clerk[p].version)'
    <3>1. CASE p = q
      <4>1. clerk'[q].doc = clerk[q].doc /\ clerk'[q].version = clerk[q].version
            /\ clerk'[q].type = clerk[q].type /\ clerk'[q].number = clerk[q].number
        BY <2>1, <2>3
      <4>2. Fits(clerk[q].version, invoices[clerk[q].doc].files)
        BY <2>1, <2>4, <3>1, <4>1 DEF PdfsGood, Stored
      <4>3. Pdf(clerk[q]) \in disk'
        BY <2>1
      <4>4. QED
        BY <2>1, <3>1, <4>1, <4>2, <4>3 DEF OnDisk, Pdf
    <3>2. CASE p # q
      <4>1. clerk'[p] = clerk[p]
        BY <2>1, <3>2
      <4>2. /\ Fits(clerk[p].version, invoices[clerk[p].doc].files)
            /\ clerk[p].at = "attach" => OnDisk(clerk[p], clerk[p].version)
        BY <2>1, <2>4, <4>1 DEF PdfsGood, Stored
      <4>3. clerk[p].at = "attach" => \E y \in disk' :
              y.type = clerk[p].type /\ y.number = clerk[p].number /\ y.version = clerk[p].version
        BY <2>2, <4>2
      <4>4. QED
        BY <2>1, <4>1, <4>2, <4>3 DEF OnDisk
    <3>3. QED
      BY <3>1, <3>2
  <2>5. ASSUME NEW d \in Documents, Stored(d)'
        PROVE  VersionsGood(invoices[d])' /\ \A v \in invoices'[d].files : OnDisk(invoices[d], v)'
    <3>1. VersionsGood(invoices[d]) /\ \A v \in invoices[d].files : OnDisk(invoices[d], v)
      BY <2>1, <2>5 DEF PdfsGood, Stored
    <3>2. \A v \in invoices[d].files : \E y \in disk' :
            y.type = invoices[d].type /\ y.number = invoices[d].number /\ y.version = v
      BY <2>2, <3>1
    <3>3. QED
      BY <2>1, <3>1, <3>2 DEF OnDisk
  <2>6. QED
    BY <2>4, <2>5 DEF PdfsGood
<1>6. ASSUME NEW q \in Clerks, AttachInvoiceFile(q)
      PROVE  PdfsGood'
  <2> DEFINE e == clerk[q]
  <2>1. e.at = "attach" /\ e.doc \in Documents /\ e.version \in Nat \ {0} /\ disk' = disk
        /\ clerk' = [clerk EXCEPT ![q] = Idle]
    BY <1>6, ClerkCarries DEF AttachInvoiceFile
  <2>2. CASE ~Attachable(e)
    <3>1. invoices' = invoices
      BY <1>6, <2>2 DEF AttachInvoiceFile
    <3>2. \A p \in Clerks : clerk'[p].at \in {"render", "attach"} => clerk'[p] = clerk[p] /\ clerk[p].doc \in Documents
      BY <2>1, ClerkCarries DEF Idle
    <3>3. QED
      BY <2>1, <3>1, <3>2, PdfsUntouched DEF Stored
  <2>3. CASE Attachable(e)
    <3> DEFINE inv == invoices[e.doc]
               new == [inv EXCEPT !.files = @ \cup {e.version}, !.version = e.version]
    <3>1. Stored(e.doc) /\ inv \in Invoice /\ e.version \notin inv.files
      BY <2>1, <2>3 DEF Attachable, Stored
    <3>2. invoices' = [invoices EXCEPT ![e.doc] = new]
      <4>1. invoices' = [invoices EXCEPT ![e.doc].files = @ \cup {e.version}, ![e.doc].version = e.version]
        BY <1>6, <2>3 DEF AttachInvoiceFile
      <4>2. QED
        BY <2>1, <4>1
    <3>3. VersionsGood(inv) /\ Fits(e.version, inv.files) /\ OnDisk(e, e.version)
          /\ \A v \in inv.files : OnDisk(inv, v)
      BY <2>1, <3>1 DEF PdfsGood
    <3>4. VersionsGood(new) /\ \A w \in Nat \ {0} : Fits(w, inv.files) => Fits(w, inv.files \cup {e.version})
      BY <2>1, <3>1, <3>3, AttachedVersions
    <3>5. new.files = inv.files \cup {e.version} /\ new.type = inv.type /\ new.number = inv.number
      BY <3>1 DEF Invoice
    <3>6. e.type = inv.type /\ e.number = inv.number
      BY <2>1, <3>1, NameRead
    <3> HIDE DEF new
    <3>7. ASSUME NEW d \in Documents, Stored(d)'
          PROVE  VersionsGood(invoices[d])' /\ \A v \in invoices'[d].files : OnDisk(invoices[d], v)'
      <4>1. CASE d = e.doc
        <5>1. invoices'[d] = new
          BY <2>1, <3>2, <4>1
        <5>2. QED
          BY <2>1, <3>3, <3>4, <3>5, <3>6, <5>1 DEF OnDisk
      <4>2. CASE d # e.doc
        <5>1. invoices'[d] = invoices[d] /\ Stored(d)
          BY <3>2, <3>7, <4>2 DEF Stored
        <5>2. QED
          BY <2>1, <5>1 DEF PdfsGood, OnDisk
      <4>3. QED
        BY <4>1, <4>2
    <3>8. ASSUME NEW p \in Clerks, clerk'[p].at \in {"render", "attach"}, Stored(clerk[p].doc)'
          PROVE  /\ Fits(clerk[p].version, invoices[clerk[p].doc].files)'
                 /\ clerk'[p].at = "attach" => OnDisk(clerk[p], clerk[p].version)'
      <4>1. p # q /\ clerk'[p] = clerk[p]
        BY <2>1, <3>8 DEF Idle
      <4>2. clerk[p].doc \in Documents /\ clerk[p].version \in Nat \ {0}
        BY <3>8, <4>1, ClerkCarries
      <4>3. Stored(clerk[p].doc)
        BY <3>1, <3>2, <3>8, <4>1, <4>2 DEF Stored
      <4>4. /\ Fits(clerk[p].version, invoices[clerk[p].doc].files)
            /\ clerk[p].at = "attach" => OnDisk(clerk[p], clerk[p].version)
        BY <3>8, <4>1, <4>3 DEF PdfsGood
      <4>5. Fits(clerk[p].version, invoices'[clerk[p].doc].files)
        <5>1. CASE clerk[p].doc = e.doc
          BY <2>1, <3>2, <3>4, <3>5, <4>2, <4>4, <5>1
        <5>2. CASE clerk[p].doc # e.doc
          BY <3>2, <4>2, <4>4, <5>2
        <5>3. QED
          BY <5>1, <5>2
      <4>6. QED
        BY <2>1, <4>1, <4>4, <4>5 DEF OnDisk
    <3>9. QED
      BY <3>7, <3>8 DEF PdfsGood
  <2>4. QED
    BY <2>2, <2>3
<1>7. ASSUME NEW q \in Clerks, AbandonRequest(q)
      PROVE  PdfsGood'
  <2>1. \A p \in Clerks : clerk'[p].at \in {"render", "attach"} => clerk'[p] = clerk[p] /\ clerk[p].doc \in Documents
    BY <1>7, ClerkCarries DEF AbandonRequest, Idle
  <2>2. QED
    BY <1>7, <2>1, PdfsUntouched DEF AbandonRequest, Stored
<1>8. CASE Restart
  <2>1. \A p \in Clerks : clerk'[p] = Idle
    BY <1>8 DEF Restart
  <2>2. QED
    BY <1>8, <2>1, PdfsUntouched DEF Restart, Stored, Idle
<1>9. CASE ResetFinanceRecords
  <2> DEFINE gone == {d \in Documents : ResetDeletes(d)}
  <2>1. /\ invoices' = [d \in Documents |-> IF d \in gone THEN NoDocument ELSE invoices[d]]
        /\ disk' = {x \in disk : ~\E d \in gone :
                      x.type = invoices[d].type /\ x.number = invoices[d].number /\ x.version \in invoices[d].files}
        /\ clerk' = clerk
    BY <1>9 DEF ResetFinanceRecords, ResetInvoices
  <2>2. \A d \in Documents : Stored(d)' => Stored(d) /\ d \notin gone /\ invoices'[d] = invoices[d]
    BY <2>1 DEF Stored
  <2>3. \A d \in gone : d \in Documents /\ Stored(d)
    BY DEF ResetDeletes
  <2> HIDE DEF gone
  <2>4. ASSUME NEW d \in Documents, Stored(d)', NEW x, x.type = invoices[d].type, x.number = invoices[d].number,
               NEW v, OnDisk(x, v)
        PROVE  \E y \in disk' : y.type = x.type /\ y.number = x.number /\ y.version = v
    <3>1. PICK y \in disk : y.type = x.type /\ y.number = x.number /\ y.version = v
      BY <2>4 DEF OnDisk
    <3>2. ASSUME NEW c \in gone, y.type = invoices[c].type, y.number = invoices[c].number
          PROVE  FALSE
      <4>1. c = d
        BY <2>2, <2>3, <2>4, <3>1, <3>2, NamesUnique
      <4>2. QED
        BY <2>2, <2>4, <4>1
    <3>3. y \in disk'
      BY <2>1, <3>2
    <3>4. QED
      BY <3>1, <3>3
  <2>5. ASSUME NEW d \in Documents, Stored(d)'
        PROVE  VersionsGood(invoices[d])' /\ \A v \in invoices'[d].files : OnDisk(invoices[d], v)'
    <3>1. Stored(d) /\ invoices'[d] = invoices[d]
      BY <2>2, <2>5
    <3>2. VersionsGood(invoices[d]) /\ \A v \in invoices[d].files : OnDisk(invoices[d], v)
      BY <3>1 DEF PdfsGood
    <3>3. \A v \in invoices[d].files : \E y \in disk' :
            y.type = invoices[d].type /\ y.number = invoices[d].number /\ y.version = v
      BY <2>4, <2>5, <3>2
    <3>4. QED
      BY <3>1, <3>2, <3>3 DEF OnDisk
  <2>6. ASSUME NEW p \in Clerks, clerk'[p].at \in {"render", "attach"}, Stored(clerk[p].doc)'
        PROVE  /\ Fits(clerk[p].version, invoices[clerk[p].doc].files)'
               /\ clerk'[p].at = "attach" => OnDisk(clerk[p], clerk[p].version)'
    <3>1. clerk'[p] = clerk[p] /\ clerk[p].doc \in Documents
      BY <2>1, <2>6, ClerkCarries
    <3>2. Stored(clerk[p].doc) /\ invoices'[clerk[p].doc] = invoices[clerk[p].doc]
      BY <2>2, <2>6, <3>1
    <3>3. /\ Fits(clerk[p].version, invoices[clerk[p].doc].files)
          /\ clerk[p].at = "attach" => OnDisk(clerk[p], clerk[p].version)
      BY <2>6, <3>1, <3>2 DEF PdfsGood
    <3>4. clerk[p].type = invoices[clerk[p].doc].type /\ clerk[p].number = invoices[clerk[p].doc].number
      BY <2>6, <3>1, <3>2, NameRead
    <3>5. Stored(clerk[p].doc)'
      BY <2>6, <3>1
    <3>6. clerk[p].at = "attach" => \E y \in disk' :
            y.type = clerk[p].type /\ y.number = clerk[p].number /\ y.version = clerk[p].version
      BY <2>4, <3>1, <3>3, <3>4, <2>6
    <3>7. QED
      BY <3>1, <3>2, <3>3, <3>6 DEF OnDisk
  <2>7. QED
    BY <2>5, <2>6 DEF PdfsGood
<1>10. CASE UNCHANGED invoiceVars
  <2>1. \A p \in Clerks : clerk[p].at \in {"render", "attach"} => clerk[p].doc \in Documents
    BY ClerkCarries
  <2>2. QED
    BY <1>10, <2>1, PdfsUntouched DEF invoiceVars, Stored
<1>11. QED
  BY <1>1, <1>2, <1>3, <1>4, <1>5, <1>6, <1>7, <1>8, <1>9, <1>10, StepsOnInvoices DEF InvoiceStep

(* VersionsComplete: whichever requests render and fail at once, the       *)
(* version an invoice names is attached, none is missing between two, and  *)
(* each has its PDF.                                                       *)
THEOREM PdfsComplete == Spec => []VersionsComplete
<1> DEFINE Inv == NumbersAreFinal /\ NumbersGood /\ PdfsGood
<1>1. Init => Inv
  BY DEF Init, NumbersAreFinal, NumbersGood, PdfsGood, Stored, Idle
<1>2. TypeOK /\ Inv /\ [Next]_vars => Inv'
  BY FinalNext, NumbersGoodNext, PdfsNext
<1>3. TypeOK /\ Inv => VersionsComplete
  <2> SUFFICES ASSUME TypeOK, PdfsGood, NEW d \in Documents, Stored(d)
               PROVE  /\ invoices[d].files # {} => invoices[d].version \in invoices[d].files
                      /\ \A v, w \in invoices[d].files : v..w \subseteq invoices[d].files
                      /\ \A v \in invoices[d].files : OnDisk(invoices[d], v)
    BY DEF VersionsComplete, OnDisk
  <2>1. VersionsGood(invoices[d]) /\ \A v \in invoices[d].files : OnDisk(invoices[d], v)
    BY DEF PdfsGood
  <2>2. invoices[d].files \subseteq Nat
    BY DEF TypeOK, InvoiceTypeOK, Stored, Invoice
  <2>3. QED
    BY <2>1, <2>2 DEF VersionsGood
<1> HIDE DEF Inv
<1>4. QED
  BY <1>1, <1>2, <1>3, TypeCorrect, PTL DEF Spec

-----------------------------------------------------------------------------
(* The ledger follows the bookings.                                        *)

LEMMA PlannedGood ==
  ASSUME TypeOK, NEW line, NEW row \in Row, NEW kept \in BOOLEAN
  PROVE  /\ EntryGood(Planned(line, row, kept))
         /\ Planned(line, row, kept).row = row /\ Planned(line, row, kept).kept = kept
<1> DEFINE e == Planned(line, row, kept)
           b == Existing(row.ref)
<1>1. /\ e.row = row /\ e.kept = kept /\ e.born = Born(row.ref) /\ e.result = Merge(b, row)
      /\ e.fate # "out" => kept /\ ~LeftOut(row)
  BY DEF Planned
<1>2. row.ref \in Refs
  BY DEF Row
<1>3. CASE row.source = "payout" /\ IsCorrection(row) /\ ~LeftOut(row)
  <2>1. bookings[row.ref] # NoBooking /\ bookings[row.ref].data.payout
    BY <1>3 DEF LeftOut, MissingBaseline
  <2>2. b.payout
    BY <2>1 DEF Existing
  <2>3. e.result.payout
    BY <1>1, <1>3, <2>2, PayoutIsPaid
  <2>4. QED
    BY <1>1, <1>3, <2>3 DEF EntryGood
<1>4. CASE row.source = "payout" /\ ~IsCorrection(row)
  BY <1>1, <1>4, PayoutIsPaid DEF EntryGood
<1>5. CASE row.source = "statement"
  <2>1. Born(row.ref) = NoBooking => b = Empty
    BY <1>2, InvoiceAssumption DEF Born, Existing, TypeOK, InvoiceTypeOK, Booking
  <2>2. Merge(b, row).payout = b.payout /\ Merge(b, row).net = b.net
    BY <1>5, StatementKeepsPayout
  <2>3. Born(row.ref) = NoBooking => ~Merge(b, row).payout /\ Merge(b, row).net = 0
    BY <2>1, <2>2 DEF Empty
  <2>4. QED
    BY <1>1, <1>5, <2>3 DEF EntryGood
<1>6. row.source \in {"payout", "statement"}
  BY DEF Row
<1>7. CASE LeftOut(row)
  BY <1>1, <1>7 DEF EntryGood
<1>8. QED
  BY <1>1, <1>3, <1>4, <1>5, <1>6, <1>7

LEMMA FreshPreviewGood ==
  ASSUME TypeOK, NEW file \in Files
  PROVE  PreviewGood([i \in DOMAIN file |-> Planned(i, file[i], Kept(file, i))])
<1> DEFINE p == [i \in DOMAIN file |-> Planned(i, file[i], Kept(file, i))]
<1>1. file \in Seq(Row) /\ \A i, j \in DOMAIN file : file[i].source = file[j].source
  BY ImportAssumption
<1>2. \A i \in DOMAIN file : i \in Nat \ {0} /\ file[i] \in Row /\ Kept(file, i) \in BOOLEAN
  BY <1>1 DEF Kept
<1>3. \A i \in DOMAIN file : EntryGood(p[i]) /\ p[i].row = file[i] /\ p[i].kept = Kept(file, i)
  BY <1>2, PlannedGood
<1>4. DOMAIN p = DOMAIN file
  OBVIOUS
<1> HIDE DEF p
<1>5. ASSUME NEW i \in DOMAIN file, NEW j \in DOMAIN file, i # j, Kept(file, i), Kept(file, j),
             file[i].source = "statement"
      PROVE  file[i].ref # file[j].ref
  <2>1. i \in Nat \ {0} /\ j \in Nat \ {0} /\ file[j].source = "statement"
    BY <1>1, <1>2, <1>5
  <2>2. CASE i < j
    <3>1. i \in 1..(j - 1)
      BY <2>1, <2>2
    <3>2. QED
      BY <1>5, <2>1, <3>1 DEF Kept
  <2>3. CASE j < i
    <3>1. j \in 1..(i - 1)
      BY <2>1, <2>3
    <3>2. QED
      BY <1>5, <2>1, <3>1 DEF Kept
  <2>4. QED
    BY <1>5, <2>1, <2>2, <2>3
<1>6. PreviewGood(p)
  BY <1>1, <1>3, <1>4, <1>5 DEF PreviewGood
<1>7. QED
  BY <1>6 DEF p

(* What the plan of a commit is good for when it is made.                  *)
LEMMA PlanGood ==
  ASSUME TypeOK, NEW preview \in Seq(Entry), PreviewGood(preview), NEW choice \in Choices(preview),
         \A e \in PlanOf(preview, choice) : BookingAsShown(e)
  PROVE  /\ \A e \in PlanOf(preview, choice) : EntryGood(e) /\ e.fate = "planned" /\ KeepsPayout(e)
         /\ \A e, f \in PlanOf(preview, choice) :
              /\ e.row.source = f.row.source
              /\ e # f /\ e.row.source = "statement" => e.row.ref # f.row.ref
<1> DEFINE D == DOMAIN preview
           From(e, i) == \/ preview[i].fate = "planned" /\ e = preview[i]
                         \/ i \in Pending(preview) /\ choice[i] # NoStay /\ e = Selected(preview[i], choice[i])
<1>1. \A i \in D : preview[i] \in Entry /\ EntryGood(preview[i])
  BY DEF PreviewGood
<1>2. ASSUME NEW e \in PlanOf(preview, choice)
      PROVE  \E i \in D : From(e, i)
  BY <1>2 DEF PlanOf, Pending
<1>3. ASSUME NEW e, NEW i \in D, From(e, i)
      PROVE  e.row = preview[i].row /\ e.kept = preview[i].kept /\ EntryGood(e) /\ e.fate = "planned"
  <2>1. CASE preview[i].fate = "planned" /\ e = preview[i]
    BY <1>1, <2>1
  <2>2. CASE i \in Pending(preview) /\ choice[i] # NoStay /\ e = Selected(preview[i], choice[i])
    <3>1. preview[i] \in Entry /\ preview[i].fate = "pending" /\ choice[i] \in Stays
      BY <1>1, <2>2, ChoiceType
    <3>2. /\ e.row = preview[i].row /\ e.born = preview[i].born /\ e.result = preview[i].result
          /\ e.kept = preview[i].kept /\ e.fate = "planned"
      BY <2>2, <3>1, SelectedType DEF Selected, Entry
    <3>3. EntryGood(preview[i]) /\ preview[i].fate # "out"
      BY <1>1, <3>1
    <3>4. QED
      BY <3>2, <3>3 DEF EntryGood
  <2>3. QED
    BY <1>3, <2>1, <2>2
<1>4. ASSUME NEW e \in PlanOf(preview, choice), e.row.source = "statement", e.born # NoBooking,
             bookings[e.row.ref] # NoBooking
      PROVE  e.result.payout = bookings[e.row.ref].data.payout /\ e.result.net = bookings[e.row.ref].data.net
  <2>1. Merge(bookings[e.row.ref].data, e.row) = e.result
    BY <1>4 DEF BookingAsShown, Existing
  <2>2. QED
    BY <1>4, <2>1, StatementKeepsPayout
<1>5. ASSUME NEW e \in PlanOf(preview, choice)
      PROVE  EntryGood(e) /\ e.fate = "planned" /\ KeepsPayout(e)
  BY <1>2, <1>3, <1>4 DEF KeepsPayout
<1>6. ASSUME NEW e \in PlanOf(preview, choice), NEW f \in PlanOf(preview, choice)
      PROVE  /\ e.row.source = f.row.source
             /\ e # f /\ e.row.source = "statement" => e.row.ref # f.row.ref
  <2>1. PICK i \in D : From(e, i)
    BY <1>2
  <2>2. PICK j \in D : From(f, j)
    BY <1>2
  <2>3. /\ e.row = preview[i].row /\ e.kept = preview[i].kept /\ e.kept
        /\ f.row = preview[j].row /\ f.kept = preview[j].kept /\ f.kept
    <3>1. e.row = preview[i].row /\ e.kept = preview[i].kept /\ EntryGood(e) /\ e.fate = "planned"
      BY <1>3, <2>1
    <3>2. f.row = preview[j].row /\ f.kept = preview[j].kept /\ EntryGood(f) /\ f.fate = "planned"
      BY <1>3, <2>2
    <3>3. QED
      BY <3>1, <3>2 DEF EntryGood
  <2>4. i = j => e = f
    BY <2>1, <2>2 DEF Pending
  <2>5. QED
    BY <2>3, <2>4 DEF PreviewGood
<1>7. QED
  BY <1>5, <1>6

LEMMA InvoiceStepKeeps ==
  InvoiceStep => UNCHANGED <<bookings, importVars>>
<1> SUFFICES ASSUME InvoiceStep PROVE UNCHANGED bookings
  BY DEF InvoiceStep
<1>1. ASSUME NEW q \in Clerks, NEW d \in Documents, NEW t \in Types, NEW s \in Stays,
             NEW r \in Refs \cup {NoRef}, NEW c \in Contents, CreateInvoice(q, d, t, s, r, c)
      PROVE  UNCHANGED bookings
  BY <1>1 DEF CreateInvoice
<1>2. ASSUME NEW q \in Clerks, NEW s \in Stays, NEW r \in Refs \cup {NoRef}, NEW c \in Contents,
             UpdateInvoice(q, s, r, c)
      PROVE  UNCHANGED bookings
  BY <1>2 DEF UpdateInvoice
<1>3. ASSUME NEW q \in Clerks, NEW d \in Documents, GetInvoice(q, d)
      PROVE  UNCHANGED bookings
  BY <1>3 DEF GetInvoice
<1>4. ASSUME NEW q \in Clerks, ReadBack(q) \/ SaveInvoicePDF(q) \/ AttachInvoiceFile(q) \/ AbandonRequest(q)
      PROVE  UNCHANGED bookings
  BY <1>4 DEF ReadBack, SaveInvoicePDF, AttachInvoiceFile, AbandonRequest
<1>5. QED
  BY <1>1, <1>2, <1>3, <1>4 DEF InvoiceStep

(* Steps that write neither bookings nor the ledger and leave the commit's *)
(* lines alone.                                                            *)
LEMMA LedgerUntouched ==
  ASSUME CommitGood, LedgerFollowsBookings, CorrectionsCountOnce,
         UNCHANGED <<bookings, ledger, corrections>>,
         commit' = NoCommit \/ (commit # NoCommit /\ commit'.left = commit.left)
  PROVE  CommitGood' /\ LedgerFollowsBookings' /\ CorrectionsCountOnce'
<1>1. CommitGood'
  BY DEF CommitGood, KeepsPayout
<1>2. LedgerFollowsBookings' /\ CorrectionsCountOnce'
  BY DEF LedgerFollowsBookings, CorrectionsCountOnce
<1>3. QED
  BY <1>1, <1>2

LEMMA CommitRowKeepsLedger ==
  ASSUME TypeOK, CommitGood, LedgerFollowsBookings, CorrectionsCountOnce,
         commit # NoCommit, NEW e \in commit.left, CommitRow(e)
  PROVE  CommitGood' /\ LedgerFollowsBookings' /\ CorrectionsCountOnce'
<1> DEFINE x == e.row.ref
           b == bookings[x]
           w == WrittenBooking(e)
<1>1. commit \in Commit /\ e \in Entry /\ commit' = [commit EXCEPT !.left = @ \ {e}] /\ x \in Refs /\ e.row \in Row
  BY DEF TypeOK, ImportTypeOK, Commit, CommitRow, Entry, Row
<1>2. commit'.left = commit.left \ {e}
  BY <1>1 DEF Commit
<1>3. EntryGood(e) /\ e.fate = "planned" /\ KeepsPayout(e)
  BY DEF CommitGood
<1>4. CASE ~RowSucceeds(e)
  <2>1. UNCHANGED <<bookings, ledger, corrections>>
    BY <1>4 DEF CommitRow
  <2>2. CommitGood'
    BY <1>2, <2>1 DEF CommitGood, KeepsPayout
  <2>3. LedgerFollowsBookings' /\ CorrectionsCountOnce'
    BY <2>1 DEF LedgerFollowsBookings, CorrectionsCountOnce
  <2>4. QED
    BY <2>2, <2>3
<1>5. CASE RowSucceeds(e)
  <2>1. /\ bookings' = [bookings EXCEPT ![x] = w]
        /\ ledger' = IF e.row.source = "payout" THEN UpsertBookingFinanceTransaction(e) ELSE ledger
        /\ corrections' = IF IsCorrection(e.row) /\ e.row.net # 0
                          THEN UpsertBookingPayoutAdjustment(e) ELSE corrections
    BY <1>5 DEF CommitRow
  <2>2. w \in Booking /\ w # NoBooking
    BY <1>1, <1>5, WrittenType, InvoiceAssumption
  <2>3. w.data = e.result /\ (e.born = NoBooking \/ Links(e) => w.stay = e.stay) /\ (e.born # NoBooking => w.born = e.born)
        /\ (e.born # NoBooking /\ ~Links(e) => w.stay = b.stay)
    BY DEF WrittenBooking
  <2>4. bookings'[x] = w /\ \A r \in Refs \ {x} : bookings'[r] = bookings[r]
    BY <1>1, <2>1 DEF TypeOK, InvoiceTypeOK
  <2>5. IF e.born = NoBooking THEN b = NoBooking /\ (e.stay # NoStay \/ e.result.payout)
        ELSE b # NoBooking /\ b.born = e.born
    BY <1>5 DEF RowSucceeds, Upserts
  <2>6. e.row.source = "payout" => e.result.payout
    BY <1>3 DEF EntryGood
  <2>7. e.row.source = "statement" =>
          IF e.born = NoBooking THEN ~e.result.payout /\ e.result.net = 0
          ELSE e.result.payout = b.data.payout /\ e.result.net = b.data.net
    BY <1>3, <2>5 DEF EntryGood, KeepsPayout
  <2>8. e.row.source \in {"payout", "statement"} /\ e.result \in Canonical
    BY <1>1 DEF Row, Entry
  <2> HIDE DEF w
  <2>9. ASSUME NEW f \in commit.left, f # e
        PROVE  KeepsPayout(f)'
    <3>1. e.row.source = f.row.source
          /\ (f.row.source = "statement" => e.row.ref # f.row.ref)
          /\ KeepsPayout(f) /\ f.row.ref \in Refs
      BY <1>1, <2>9 DEF CommitGood, Commit, Entry, Row
    <3>2. f.row.source = "statement" => bookings'[f.row.ref] = bookings[f.row.ref]
      BY <2>4, <3>1
    <3>3. QED
      BY <3>1, <3>2 DEF KeepsPayout
  <2>10. CommitGood'
    BY <1>2, <2>9 DEF CommitGood
  <2>11. \A r \in Refs \ {x} : ledger'[r] = ledger[r]
    BY <2>1 DEF UpsertBookingFinanceTransaction, TypeOK, ImportTypeOK
  <2>12. ledger'[x] = IF e.row.source = "payout" /\ e.result.net # 0 THEN e.result.net ELSE ledger[x]
    BY <1>1, <2>1 DEF UpsertBookingFinanceTransaction, TypeOK, ImportTypeOK
  <2>13. /\ b = NoBooking => ledger[x] = 0
         /\ b # NoBooking => b.data.payout \/ (b.stay # NoStay /\ ledger[x] = 0)
         /\ b # NoBooking /\ b.data.net # 0 => ledger[x] = b.data.net
    BY <1>1 DEF LedgerFollowsBookings
  <2>14. w.data.payout \/ (w.stay # NoStay /\ ledger'[x] = 0)
    <3>1. CASE e.row.source = "payout"
      BY <2>3, <2>6, <3>1
    <3>2. CASE e.row.source = "statement"
      <4>1. ~Links(e)
        BY <3>2 DEF Links
      <4>2. QED
        BY <2>3, <2>5, <2>7, <2>12, <2>13, <3>2, <4>1
    <3>3. QED
      BY <2>8, <3>1, <3>2
  <2>15. w.data.net # 0 => ledger'[x] = w.data.net
    <3>1. CASE e.row.source = "payout"
      BY <2>3, <2>12, <3>1
    <3>2. CASE e.row.source = "statement"
      BY <2>3, <2>5, <2>7, <2>12, <2>13, <3>2
    <3>3. QED
      BY <2>8, <3>1, <3>2
  <2>16. LedgerFollowsBookings'
    <3> SUFFICES ASSUME NEW r \in Refs
                 PROVE  /\ bookings'[r] = NoBooking => ledger'[r] = 0
                        /\ bookings'[r] # NoBooking =>
                             bookings'[r].data.payout \/ (bookings'[r].stay # NoStay /\ ledger'[r] = 0)
                        /\ bookings'[r] # NoBooking /\ bookings'[r].data.net # 0 => ledger'[r] = bookings'[r].data.net
      BY DEF LedgerFollowsBookings
    <3>1. CASE r = x
      BY <2>2, <2>4, <2>14, <2>15, <3>1
    <3>2. CASE r # x
      BY <2>4, <2>11, <3>2 DEF LedgerFollowsBookings
    <3>3. QED
      BY <3>1, <3>2
  <2>17. \A c \in corrections : bookings[c.ref] # NoBooking /\ bookings[c.ref].data.payout /\ c.ref \in Refs
    BY DEF CorrectionsCountOnce, TypeOK, ImportTypeOK
  <2>18. \A c \in corrections : bookings'[c.ref] # NoBooking /\ bookings'[c.ref].data.payout
    <3> SUFFICES ASSUME NEW c \in corrections PROVE bookings'[c.ref] # NoBooking /\ bookings'[c.ref].data.payout
      OBVIOUS
    <3>1. CASE c.ref = x
      <4>1. b # NoBooking /\ b.data.payout
        BY <2>17, <3>1
      <4>2. e.result.payout
        BY <2>5, <2>6, <2>7, <2>8, <4>1
      <4>3. QED
        BY <2>2, <2>3, <2>4, <3>1, <4>2
    <3>2. CASE c.ref # x
      BY <2>4, <2>17, <3>2
    <3>3. QED
      BY <3>1, <3>2
  <2>19. CorrectionsCountOnce'
    <3>1. CASE corrections' = corrections
      BY <2>18, <3>1 DEF CorrectionsCountOnce
    <3>2. CASE IsCorrection(e.row) /\ corrections' = UpsertBookingPayoutAdjustment(e)
      <4> DEFINE kind == IF IsRefund(e.row) THEN "refund" ELSE "adjustment"
                 new == [ref |-> x, id |-> e.row.id, kind |-> kind, net |-> e.row.net]
      <4>1. corrections' = {c \in corrections : ~(c.ref = x /\ c.id = e.row.id /\ c.kind = kind)} \cup {new}
        BY <3>2 DEF UpsertBookingPayoutAdjustment
      <4>2. e.row.source = "payout"
        BY <3>2 DEF IsCorrection, IsCommissionAdjustment, IsRefund
      <4>3. bookings'[x] # NoBooking /\ bookings'[x].data.payout
        BY <2>2, <2>3, <2>4, <2>6, <4>2
      <4>4. new.ref = x /\ new.id = e.row.id /\ new.kind = kind
        OBVIOUS
      <4> HIDE DEF new, kind
      <4>5. \A c \in corrections' : bookings'[c.ref] # NoBooking /\ bookings'[c.ref].data.payout
        BY <2>18, <4>1, <4>3, <4>4
      <4>6. \A c, d \in corrections' : d.ref = c.ref /\ d.id = c.id /\ d.kind = c.kind => d = c
        BY <4>1, <4>4 DEF CorrectionsCountOnce
      <4>7. QED
        BY <4>5, <4>6 DEF CorrectionsCountOnce
    <3>3. QED
      BY <2>1, <3>1, <3>2
  <2>20. QED
    BY <2>10, <2>16, <2>19
<1>6. QED
  BY <1>4, <1>5

LEMMA PreviewsNext ==
  ASSUME TypeOK, PreviewsGood, [Next]_vars
  PROVE  PreviewsGood'
<1> USE DEF TypeOK, ImportTypeOK
<1> SUFFICES ASSUME NEW t \in Tokens
             PROVE  previews'[t] = previews[t] \/ previews'[t] = Gone \/ PreviewGood(previews'[t])
  BY DEF PreviewsGood
<1>1. ASSUME NEW x \in Tokens, NEW file \in Files, PostFinanceImportPreview(x, file)
      PROVE  previews'[t] = previews[t] \/ PreviewGood(previews'[t])
  BY <1>1, FreshPreviewGood DEF PostFinanceImportPreview
<1>2. ASSUME NEW x \in Tokens, ExpirePreview(x)
      PROVE  previews'[t] = previews[t] \/ previews'[t] = Gone
  BY <1>2 DEF ExpirePreview
<1>3. ASSUME NEW x \in Tokens, NEW choice, PostFinanceImportCommit(x, choice)
      PROVE  previews' = previews
  BY <1>3 DEF PostFinanceImportCommit
<1>4. ASSUME NEW e, CommitRow(e) PROVE previews' = previews
  BY <1>4 DEF CommitRow
<1>5. ASSUME NEW row, CommitEvidence(row) PROVE previews' = previews
  BY <1>5 DEF CommitEvidence
<1>6. FinishCommit \/ Restart => previews'[t] = previews[t] \/ previews'[t] = Gone
  BY DEF FinishCommit, Restart
<1>7. Disconnect \/ ResetFinanceRecords => previews' = previews
  BY DEF Disconnect, ResetFinanceRecords
<1>8. ASSUME NEW r \in Refs, NEW s \in Stays, MapFinanceBookingPayout(r, s) PROVE previews' = previews
  BY <1>8 DEF MapFinanceBookingPayout, importVars
<1>9. ASSUME NEW s \in Stays, NEW g, NEW a, EditStay(s, g, a) PROVE previews' = previews
  BY <1>9 DEF EditStay
<1>10. InvoiceStep \/ UNCHANGED vars => previews' = previews
  BY InvoiceStepKeeps DEF importVars, vars
<1>11. QED
  BY <1>1, <1>2, <1>3, <1>4, <1>5, <1>6, <1>7, <1>8, <1>9, <1>10 DEF Next, ImportStep

LEMMA LedgerNext ==
  ASSUME TypeOK, PreviewsGood, CommitGood, LedgerFollowsBookings, CorrectionsCountOnce, [Next]_vars
  PROVE  CommitGood' /\ LedgerFollowsBookings' /\ CorrectionsCountOnce'
<1> DEFINE Good == CommitGood /\ LedgerFollowsBookings /\ CorrectionsCountOnce
<1>1. ASSUME NEW t \in Tokens, previews[t] # Gone, NEW choice \in Choices(previews[t]),
             PostFinanceImportCommit(t, choice)
      PROVE  Good'
  <2> DEFINE plan == PlanOf(previews[t], choice)
  <2>1. previews[t] \in Seq(Entry) /\ PreviewGood(previews[t])
    BY <1>1 DEF TypeOK, ImportTypeOK, PreviewsGood
  <2>2. /\ \A e \in plan : BookingAsShown(e)
        /\ commit' = [token |-> t, imp |-> TRUE, left |-> plan, alone |-> EvidenceOnly(previews[t], plan)]
        /\ UNCHANGED <<bookings, ledger, corrections>>
    BY <1>1 DEF PostFinanceImportCommit
  <2>3. /\ \A e \in plan : EntryGood(e) /\ e.fate = "planned" /\ KeepsPayout(e)
        /\ \A e, f \in plan : /\ e.row.source = f.row.source
                              /\ e # f /\ e.row.source = "statement" => e.row.ref # f.row.ref
    BY <1>1, <2>1, <2>2, PlanGood
  <2> HIDE DEF plan
  <2>4. commit'.left = plan
    BY <2>2
  <2>5. CommitGood'
    BY <2>2, <2>3, <2>4 DEF CommitGood, KeepsPayout
  <2>6. LedgerFollowsBookings' /\ CorrectionsCountOnce'
    BY <2>2 DEF LedgerFollowsBookings, CorrectionsCountOnce
  <2>7. QED
    BY <2>5, <2>6
<1>2. ASSUME NEW row, row \in commit.alone, CommitEvidence(row)
      PROVE  Good'
  <2>1. UNCHANGED <<bookings, ledger, corrections>> /\ commit # NoCommit /\ commit' = [commit EXCEPT !.alone = @ \ {row}]
    BY <1>2 DEF CommitEvidence
  <2>2. commit'.left = commit.left
    BY <2>1 DEF TypeOK, ImportTypeOK, Commit
  <2>3. QED
    BY <2>1, <2>2, LedgerUntouched
<1>3. CASE FinishCommit \/ Disconnect \/ Restart
  BY <1>3, LedgerUntouched DEF FinishCommit, Disconnect, Restart
<1>4. CASE ResetFinanceRecords
  <2>1. /\ bookings' = [r \in Refs |-> NoBooking] /\ ledger' = [r \in Refs |-> 0] /\ corrections' = {}
        /\ commit' = IF commit = NoCommit THEN NoCommit ELSE [commit EXCEPT !.imp = FALSE]
    BY <1>4 DEF ResetFinanceRecords
  <2>2. LedgerFollowsBookings' /\ CorrectionsCountOnce'
    BY <2>1 DEF LedgerFollowsBookings, CorrectionsCountOnce
  <2>3. commit' # NoCommit =>
          commit # NoCommit /\ commit'.left = commit.left /\ \A e \in commit.left : e.row.ref \in Refs
    BY <2>1 DEF TypeOK, ImportTypeOK, Commit, Entry, Row
  <2>4. CommitGood'
    BY <2>1, <2>3 DEF CommitGood, KeepsPayout
  <2>5. QED
    BY <2>2, <2>4
<1>5. ASSUME NEW r \in Refs, NEW s \in Stays, MapFinanceBookingPayout(r, s)
      PROVE  Good'
  <2>1. /\ bookings[r] # NoBooking /\ bookings' = [bookings EXCEPT ![r] = [bookings[r] EXCEPT !.stay = s]]
        /\ UNCHANGED <<ledger, corrections, commit>>
    BY <1>5 DEF MapFinanceBookingPayout, importVars
  <2>2. bookings[r] \in Booking
    BY <2>1 DEF TypeOK, InvoiceTypeOK
  <2>3. /\ [bookings[r] EXCEPT !.stay = s] \in Booking /\ [bookings[r] EXCEPT !.stay = s].stay = s
        /\ [bookings[r] EXCEPT !.stay = s].data = bookings[r].data
        /\ [bookings[r] EXCEPT !.stay = s].born = bookings[r].born
    BY <2>2 DEF Booking
  <2>4. \A x \in Refs :
          /\ bookings[x] = NoBooking <=> bookings'[x] = NoBooking
          /\ bookings'[x] # NoBooking =>
               /\ bookings'[x].data = bookings[x].data /\ bookings'[x].born = bookings[x].born
               /\ bookings'[x].stay \in {bookings[x].stay, s}
    BY <2>1, <2>3, InvoiceAssumption DEF TypeOK, InvoiceTypeOK
  <2>5. s # NoStay
    BY InvoiceAssumption
  <2>6. LedgerFollowsBookings'
    BY <2>1, <2>4, <2>5 DEF LedgerFollowsBookings
  <2>7. CorrectionsCountOnce'
    BY <2>1, <2>4 DEF CorrectionsCountOnce, TypeOK, ImportTypeOK
  <2>8. \A e \in commit.left : commit # NoCommit => e.row.ref \in Refs
    BY DEF TypeOK, ImportTypeOK, Commit, Entry, Row
  <2>9. CommitGood'
    BY <2>1, <2>4, <2>8 DEF CommitGood, KeepsPayout
  <2>10. QED
    BY <2>6, <2>7, <2>9
<1>6. ASSUME NEW t \in Tokens, NEW f \in Files, PostFinanceImportPreview(t, f)
      PROVE  Good'
  BY <1>6, LedgerUntouched DEF PostFinanceImportPreview
<1>7. ASSUME NEW t \in Tokens, ExpirePreview(t)
      PROVE  Good'
  BY <1>7, LedgerUntouched DEF ExpirePreview
<1>8. ASSUME NEW s \in Stays, NEW g, NEW a, EditStay(s, g, a)
      PROVE  Good'
  BY <1>8, LedgerUntouched DEF EditStay
<1>9. CASE InvoiceStep \/ UNCHANGED vars
  BY <1>9, InvoiceStepKeeps, LedgerUntouched DEF importVars, vars
<1>10. QED
  BY <1>1, <1>2, <1>3, <1>4, <1>5, <1>6, <1>7, <1>8, <1>9, CommitRowKeepsLedger DEF Next, ImportStep

LEMMA LedgerInductive ==
  /\ Init => LedgerInv
  /\ TypeOK /\ LedgerInv /\ [Next]_vars => LedgerInv'
<1>1. Init => LedgerInv
  BY DEF Init, LedgerInv, PreviewsGood, CommitGood, LedgerFollowsBookings, CorrectionsCountOnce
<1>2. QED
  BY <1>1, PreviewsNext, LedgerNext DEF LedgerInv

(* LedgerFollowsBookings: the cash of a reservation is the net of its      *)
(* booking, whichever exports are committed in which order.                *)
THEOREM LedgerAgrees == Spec => []LedgerFollowsBookings
<1>1. LedgerInv => LedgerFollowsBookings
  BY DEF LedgerInv
<1>2. QED
  BY <1>1, LedgerInductive, TypeCorrect, PTL DEF Spec

(* CorrectionsCountOnce: a correction is booked once, and only with the    *)
(* payout it corrects.                                                     *)
THEOREM CorrectionsNotRepeated == Spec => []CorrectionsCountOnce
<1>1. LedgerInv => CorrectionsCountOnce
  BY DEF LedgerInv
<1>2. QED
  BY <1>1, LedgerInductive, TypeCorrect, PTL DEF Spec
=============================================================================
