------------------------------- MODULE Invoices -------------------------------
(***************************************************************************)
(* Invoices and pro formas of a property: their numbers, their links to    *)
(* stays and bookings, and the versions of their PDFs                      *)
(* (internal/api/invoice_handlers.go, internal/store/invoices.go).         *)
(*                                                                         *)
(* A request saves the row in one transaction, reads it back, writes the   *)
(* PDF under the name of the number and the version, and attaches it in    *)
(* another transaction; requests interleave between these steps, and any   *)
(* may end after one of them.                                              *)
(***************************************************************************)
EXTENDS StatementMerge, FiniteSets

CONSTANTS
  Stays,        \* named stays, all of the same nights
  NoStay,
  NoBooking,
  Documents,    \* ids of invoices
  NoDocument,   \* of an id: not taken, or its row is gone
  Contents,     \* what an invoice says
  Clerks,       \* requests on invoices
  MaxVersion    \* bound: of the versions that are edited further

VARIABLES
  bookings,     \* finance_bookings, by reference
  stays,        \* named_stays: name, whether active, and what there is to review
  invoices,
  sequences,    \* invoice_sequences
  disk,         \* the PDFs in the data directory
  clerk,        \* the requests under way
  issued        \* every number given, with the invoice it was given to

invoiceVars == <<invoices, sequences, disk, clerk, issued>>

Types == {"invoice", "proforma"}
NoRef == "none"

(* born: in how many resets the property's bookings were deleted before.   *)
Booking == [born : Nat, stay : Stays \cup {NoStay}, data : Canonical]
Invoice == [type : Types, stay : Stays, booking : Refs \cup {NoRef}, number : Nat \ {0},
            version : Nat \ {0}, content : Contents, files : SUBSET (Nat \ {0})]

ASSUME InvoiceAssumption ==
  /\ NoStay \notin Stays /\ NoRef \notin Refs
  /\ NoBooking \notin Nat /\ NoBooking \notin Booking /\ NoDocument \notin Invoice

Idle == [at |-> "idle"]
ClerkStates ==
  {Idle}
  \cup [at : {"edit"}, doc : Documents, row : Invoice]
  \cup [at : {"saved"}, doc : Documents, next : {0, 1}]
  \cup [at : {"render", "attach"}, doc : Documents, type : Types, number : Nat \ {0},
        version : Nat \ {0}, content : Contents]

InvoiceTypeOK ==
  /\ bookings \in [Refs -> Booking \cup {NoBooking}]
  /\ stays \in [Stays -> [name : Guests, active : BOOLEAN, review : {"confirmed", "legacy", "cancelled"}]]
  /\ invoices \in [Documents -> Invoice \cup {NoDocument}]
  /\ sequences \in [Types -> Nat]
  /\ disk \subseteq [type : Types, number : Nat \ {0}, version : Nat \ {0}, content : Contents]
  /\ clerk \in [Clerks -> ClerkStates]
  /\ issued \subseteq [doc : Documents, type : Types, number : Nat \ {0}]

-----------------------------------------------------------------------------
Stored(d) == invoices[d] # NoDocument

(* Variant: the booking's stay is not compared.                            *)
ExistingBooking(booking, stay) == booking # NoRef => bookings[booking] # NoBooking

ValidateInvoiceLinks(booking, stay) ==
  booking # NoRef => bookings[booking] # NoBooking /\ bookings[booking].stay = stay

(* Unique: one document of a type per stay, one invoice per booking.       *)
Free(d, type, stay, booking) ==
  \A e \in Documents \ {d} : Stored(e) =>
    /\ ~(invoices[e].type = type /\ invoices[e].stay = stay)
    /\ booking # NoRef => invoices[e].booking # booking

(* Of a pro forma: no booking, and a stay that is active when it is parsed *)
Parsed(type, stay, booking) == type = "proforma" => booking = NoRef /\ stays[stay].active

NextNumber(type) == sequences[type] + 1

(* The row and its number, in one transaction.                             *)
CreateInvoice(q, d, type, stay, booking, content) ==
  /\ clerk[q] = Idle
  /\ ~Stored(d) /\ \A i \in issued : i.doc # d
  /\ Parsed(type, stay, booking)
  /\ ValidateInvoiceLinks(booking, stay) /\ Free(d, type, stay, booking)
  /\ invoices' = [invoices EXCEPT ![d] =
       [type |-> type, stay |-> stay, booking |-> booking, number |-> NextNumber(type),
        version |-> 1, content |-> content, files |-> {}]]
  /\ sequences' = [sequences EXCEPT ![type] = NextNumber(type)]
  /\ issued' = issued \cup {[doc |-> d, type |-> type, number |-> NextNumber(type)]}
  /\ clerk' = [clerk EXCEPT ![q] = [at |-> "saved", doc |-> d, next |-> 0]]
  /\ UNCHANGED <<bookings, stays, disk>>

(* PATCH and regenerate read the row first, and write all of it.           *)
GetInvoice(q, d) ==
  /\ clerk[q] = Idle /\ Stored(d) /\ invoices[d].version <= MaxVersion
  /\ clerk' = [clerk EXCEPT ![q] = [at |-> "edit", doc |-> d, row |-> invoices[d]]]
  /\ UNCHANGED <<bookings, stays, invoices, sequences, disk, issued>>

(* A pro forma keeps its stay; PATCH asks for an active one, regenerating  *)
(* does not.  A link that no longer matches is an error.                   *)
UpdateInvoice(q, stay, booking, content) ==
  LET e == clerk[q]
      ok == /\ Stored(e.doc)
            /\ ValidateInvoiceLinks(booking, stay) /\ Free(e.doc, e.row.type, stay, booking)
  IN
  /\ e.at = "edit"
  /\ e.row.type = "proforma" => stay = e.row.stay /\ booking = NoRef
  /\ invoices' = IF ok THEN [invoices EXCEPT ![e.doc].stay = stay, ![e.doc].booking = booking,
                                             ![e.doc].content = content]
                 ELSE invoices
  /\ clerk' = [clerk EXCEPT ![q] = IF ok THEN [at |-> "saved", doc |-> e.doc, next |-> 1] ELSE Idle]
  /\ UNCHANGED <<bookings, stays, sequences, disk, issued>>

(* The row is read back: what is rendered and the version it will have.    *)
ReadBack(q) ==
  LET e == clerk[q]
      inv == invoices[e.doc]
  IN
  /\ e.at = "saved"
  /\ clerk' = [clerk EXCEPT ![q] =
       IF Stored(e.doc)
       THEN [at |-> "render", doc |-> e.doc, type |-> inv.type, number |-> inv.number,
             version |-> inv.version + e.next, content |-> inv.content]
       ELSE Idle]
  /\ UNCHANGED <<bookings, stays, invoices, sequences, disk, issued>>

(* Variant: the name of the file leaves the version out.                   *)
PdfOfNumber(e) == [type |-> e.type, number |-> e.number, version |-> 1, content |-> e.content]

Pdf(e) == [type |-> e.type, number |-> e.number, version |-> e.version, content |-> e.content]
SameFile(x, y) == x.type = y.type /\ x.number = y.number /\ x.version = y.version

SaveInvoicePDF(q) ==
  LET e == clerk[q] IN
  /\ e.at = "render"
  /\ disk' = {x \in disk : ~SameFile(x, Pdf(e))} \cup {Pdf(e)}
  /\ clerk' = [clerk EXCEPT ![q] = [e EXCEPT !.at = "attach"]]
  /\ UNCHANGED <<bookings, stays, invoices, sequences, issued>>

(* The version is new: (invoice_id, version) is unique.                    *)
Attachable(e) == Stored(e.doc) /\ e.version \notin invoices[e.doc].files

AttachInvoiceFile(q) ==
  LET e == clerk[q] IN
  /\ e.at = "attach"
  /\ invoices' = IF Attachable(e)
                 THEN [invoices EXCEPT ![e.doc].files = @ \cup {e.version}, ![e.doc].version = e.version]
                 ELSE invoices
  /\ clerk' = [clerk EXCEPT ![q] = Idle]
  /\ UNCHANGED <<bookings, stays, sequences, disk, issued>>

(* The client goes away, rendering fails, or the process ends.             *)
AbandonRequest(q) ==
  /\ clerk[q] # Idle
  /\ clerk' = [clerk EXCEPT ![q] = Idle]
  /\ UNCHANGED <<bookings, stays, invoices, sequences, disk, issued>>

(* A reset deletes the invoices of bookings and of their stays, and not    *)
(* pro formas; their PDFs follow.  Counters stay.                          *)
BookedStays == {bookings[r].stay : r \in {x \in Refs : bookings[x] # NoBooking}}
ResetDeletes(d) ==
  Stored(d) /\ invoices[d].type = "invoice"
  /\ (invoices[d].booking # NoRef \/ invoices[d].stay \in BookedStays)

(* Variant: counters start anew.                                           *)
CountersAnew == [t \in Types |-> IF t = "invoice" THEN 0 ELSE sequences[t]]

CountersAfterReset == sequences

ResetInvoices ==
  LET gone == {d \in Documents : ResetDeletes(d)} IN
  /\ invoices' = [d \in Documents |-> IF d \in gone THEN NoDocument ELSE invoices[d]]
  /\ sequences' = CountersAfterReset
  /\ disk' = {x \in disk : ~\E d \in gone :
                x.type = invoices[d].type /\ x.number = invoices[d].number /\ x.version \in invoices[d].files}
  /\ UNCHANGED <<clerk, issued>>

-----------------------------------------------------------------------------
(* No number of a type is given to two invoices, not even after a reset    *)
(* has deleted the first, and none is left out.                            *)
NumbersAreFinal ==
  \A t \in Types :
    LET given == {i \in issued : i.type = t} IN
    /\ {i.number : i \in given} = 1..sequences[t]
    /\ \A i, j \in given : i.number = j.number => i = j

(* An invoice of a booking is for the stay the booking has: bookings are   *)
(* matched anew, imported and mapped by hand while invoices are edited.    *)
InvoicesMatchBookings ==
  \A d \in Documents : Stored(d) /\ invoices[d].booking # NoRef =>
    /\ bookings[invoices[d].booking] # NoBooking
    /\ bookings[invoices[d].booking].stay = invoices[d].stay

(* The version an invoice names is one it has once any is attached, none  *)
(* between two of them is missing, and each has its PDF, whichever         *)
(* requests rendered at once and failed.                                   *)
VersionsComplete ==
  \A d \in Documents : Stored(d) =>
    LET inv == invoices[d] IN
    /\ inv.files # {} => inv.version \in inv.files
    /\ \A v, w \in inv.files : v..w \subseteq inv.files
    /\ \A v \in inv.files : \E x \in disk : x.type = inv.type /\ x.number = inv.number /\ x.version = v
===============================================================================
