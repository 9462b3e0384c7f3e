---------------------------- MODULE StatementMerge ----------------------------
(***************************************************************************)
(* What the Booking.com exports say of a reservation and how a row of one  *)
(* is merged into the booking the database has                             *)
(* (internal/finance/statements/parser.go, merge.go).                      *)
(*                                                                         *)
(* Of the columns, one stands for each rule of precedence: status and      *)
(* guest for those in which the statement wins, amount for the one in      *)
(* which the payout wins though both give it, net for those only payouts   *)
(* give.  A missing cell is Blank, a missing or zero amount is 0.          *)
(***************************************************************************)
EXTENDS Integers, Sequences

CONSTANTS
  Refs,         \* reservation numbers
  Guests        \* names of guests

Blank == ""
Statuses == {"OK", "CANCELLED"}

(* A record of an export.  parses: its reference, currency, dates and      *)
(* amounts can be read; id: what else tells two payouts apart.             *)
Row == [source : {"payout", "statement"}, kind : {"reservation", "adjustment"}, ref : Refs,
        guest : Guests \cup {Blank}, status : Statuses \cup {Blank}, amount : Int, net : Int,
        id : Nat, parses : BOOLEAN]

(* The canonical values of a booking.                                      *)
Canonical == [payout : BOOLEAN, statement : BOOLEAN, guest : Guests \cup {Blank},
              status : Statuses \cup {Blank}, amount : Int, net : Int]

Empty == [payout |-> FALSE, statement |-> FALSE, guest |-> Blank, status |-> Blank, amount |-> 0, net |-> 0]

IsCommissionAdjustment(row) == row.source = "payout" /\ row.kind = "adjustment"
IsRefund(row) == row.source = "payout" /\ row.kind = "reservation" /\ row.amount < 0
IsCorrection(row) == IsCommissionAdjustment(row) \/ IsRefund(row)
IsCancelled(row) == row.source = "statement" /\ row.status = "CANCELLED"

(* The rows an upload gives: a record that cannot be read is rejected, and *)
(* of the records of one reservation in a statement the first is taken,    *)
(* the others are ignored or rejected.  Payouts may name a reservation     *)
(* several times.                                                          *)
Kept(file, i) ==
  /\ file[i].parses
  /\ file[i].source = "statement" =>
       \A j \in 1..(i - 1) : ~(file[j].parses /\ file[j].ref = file[i].ref)

-----------------------------------------------------------------------------
(* setStrIfWins, setIntPtrIfWins: an empty cell never overwrites.          *)
Wins(old, new) == IF new = Blank THEN old ELSE new
Fills(old, new) == IF old = Blank THEN new ELSE old
WinsCents(old, new) == IF new = 0 THEN old ELSE new
FillsCents(old, new) == IF old = 0 THEN new ELSE old

(* Variant: a payout overwrites the name a statement gave.                 *)
MergePayoutOverGuest(b, row) ==
  IF IsCorrection(row) THEN b
  ELSE [payout |-> TRUE, statement |-> b.statement, guest |-> Wins(b.guest, row.guest),
        status |-> Fills(b.status, row.status), amount |-> WinsCents(b.amount, row.amount), net |-> row.net]

(* Corrections are cash movements of their own.                            *)
MergePayout(b, row) ==
  IF IsCorrection(row) THEN b
  ELSE [payout |-> TRUE, statement |-> b.statement, guest |-> Fills(b.guest, row.guest),
        status |-> Fills(b.status, row.status), amount |-> WinsCents(b.amount, row.amount), net |-> row.net]

MergeStatement(b, row) ==
  [payout |-> b.payout, statement |-> TRUE, guest |-> Wins(b.guest, row.guest),
   status |-> Wins(b.status, row.status), amount |-> FillsCents(b.amount, row.amount), net |-> b.net]

Merge(b, row) == IF row.source = "payout" THEN MergePayout(b, row) ELSE MergeStatement(b, row)

(* Which source has given values does not count as a change.               *)
Values(b) == <<b.guest, b.status, b.amount, b.net>>
Action(isNew, b, row) ==
  IF isNew THEN "insert" ELSE IF Values(Merge(b, row)) = Values(b) THEN "unchanged" ELSE "update"

StatusChanged(b, row) == row.source = "statement" /\ Merge(b, row).status # b.status
===============================================================================
