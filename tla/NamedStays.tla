------------------------------ MODULE NamedStays ------------------------------
(***************************************************************************)
(* Stays, closures and the blocks of the Booking.com feed of one property, *)
(* with the rows derived from them: the nights a stay occupies, the nights *)
(* a block covers, the health of the links from stays to blocks, and the   *)
(* ledger entries of late checkouts (internal/store/named_stays.go,        *)
(* stay_source_links.go, stay_calendar.go, occupancy_reconciliation.go,    *)
(* late_checkout.go).  Every operation is one SQLite transaction, and a    *)
(* transaction that writes after another one committed is refused, so each *)
(* is one step.  A refused operation changes nothing and is no step.       *)
(*                                                                         *)
(* Dates are day numbers; night d lies between day d and day d + 1.  Names, *)
(* prices, revenue and review columns are left out: nothing here reads them. *)
(***************************************************************************)
EXTENDS Integers, FiniteSets

CONSTANTS
  Stays,      \* ids of named_stays
  Blocks,     \* event UIDs of the feed, and so rows of raw_booking_blocks
  Closures,   \* ids of property_availability_blocks
  LastDay,    \* bound: the last check-out date
  Details,    \* what a caller may submit beside the dates
  None        \* no stay, no ledger entry

ASSUME StaysAssumption ==
  /\ LastDay \in Nat \ {0}
  /\ Details \subseteq [guest : BOOLEAN, clean : BOOLEAN, late : BOOLEAN]
  /\ None \notin Int

VARIABLES
  stay,      \* named_stays
  night,     \* named_stay_nights with active = 1, by stay
  link,      \* stay_source_links, by stay
  block,     \* raw_booking_blocks
  raw,       \* raw_booking_block_nights with active = 1, by block
  closure,   \* property_availability_blocks
  ledger     \* finance_transactions of the two late checkout sources, by stay

vars == <<stay, night, link, block, raw, closure, ledger>>

Days == 0 .. LastDay

(* parseNamedStayRange: check-out after check-in.                          *)
Ranges == {r \in [in : Days, out : Days] : r.in < r.out}

(* nightsUTC, dateNights: check-in inclusive, check-out exclusive.         *)
Nights(r) == r.in .. r.out - 1

Overlap(r, q) == r.in < q.out /\ q.in < r.out

(* guest: stay_type is booking_com or external, not maintenance or own use; *)
(* outcome: no_show or cancelled_non_refundable.                            *)
Stay == [status  : {"absent", "active", "cancelled", "archived"},
         range   : Ranges,
         guest   : BOOLEAN,
         clean   : BOOLEAN,      \* cleaning_required
         late    : BOOLEAN,      \* late_checkout
         outcome : BOOLEAN]

(* A stay's links change together: they share the stay's dates and one     *)
(* link_status.                                                            *)
Link == [blocks : SUBSET Blocks,
         range  : Ranges,        \* linked_check_in_date, linked_check_out_date
         health : {"active", "source_deleted", "conflict"}]

Block   == [status : {"absent", "active", "deleted_from_source"}, range : Ranges]
Closure == [status : {"absent", "active", "archived"}, range : Ranges]
Entries == [charge : Days \cup {None}, bonus : Days \cup {None}]

FirstNight == [in |-> 0, out |-> 1]
NoStay  == [status |-> "absent", range |-> FirstNight, guest |-> FALSE, clean |-> FALSE,
            late |-> FALSE, outcome |-> FALSE]
NoLink  == [blocks |-> {}, range |-> FirstNight, health |-> "active"]
NoEntry == [charge |-> None, bonus |-> None]

Exists(s) == stay[s].status # "absent"
Active(s) == stay[s].status = "active"

-----------------------------------------------------------------------------
(* What the transactions share.                                            *)

(* Variant: closures are not consulted.                                    *)
NightsAvailable(s, r) == \A t \in Stays \ {s} : night[t] \cap Nights(r) = {}

(* namedStayRangeAvailableTx                                               *)
RangeAvailable(s, r) ==
  /\ \A c \in Closures : closure[c].status = "active" => ~Overlap(closure[c].range, r)
  /\ \A t \in Stays \ {s} : night[t] \cap Nights(r) = {}

(* replaceNamedStayNightsTx: the old nights are switched off, the range's  *)
(* nights on, and the unique index on active nights has the last word.     *)
ReplaceNights(s, nights) ==
  /\ \A t \in Stays \ {s} : night[t] \cap nights = {}
  /\ night' = [night EXCEPT ![s] = nights]

(* Nights of r that active linked blocks cover, all blocks together.       *)
Covered(r, blocks, blk, cover) ==
  {d \in Nights(r) : \E b \in blocks : blk[b].status = "active" /\ d \in cover[b]}

(* Variant: some covered night is enough.                                  *)
LinkHealthPartial(r, blocks, blk, cover) ==
  IF Covered(r, blocks, blk, cover) = {} THEN "source_deleted" ELSE "active"

LinkHealth(r, blocks, blk, cover) ==
  LET covered == Covered(r, blocks, blk, cover)
  IN IF covered = {} THEN "source_deleted"
     ELSE IF covered # Nights(r) THEN "conflict" ELSE "active"

(* Variant: links that had been healthy are looked at, others are not.     *)
RecomputeHealthy(stays, links, blk, cover) ==
  [s \in Stays |->
     IF stays[s].status = "active" /\ links[s].blocks # {} /\ links[s].health = "active"
     THEN [links[s] EXCEPT !.health = LinkHealth(stays[s].range, links[s].blocks, blk, cover)]
     ELSE links[s]]

(* recomputeSourceLinkHealthTx: every active stay with links, whichever    *)
(* stay the transaction is about.                                          *)
RecomputeSourceLinkHealth(stays, links, blk, cover) ==
  [s \in Stays |->
     IF stays[s].status = "active" /\ links[s].blocks # {}
     THEN [links[s] EXCEPT !.health = LinkHealth(stays[s].range, links[s].blocks, blk, cover)]
     ELSE links[s]]

(* ensureNamedStayWithinActiveLinksTx                                      *)
WithinActiveLinks(s, r) ==
  link[s].blocks = {} \/ Covered(r, link[s].blocks, block, raw) = Nights(r)

LateCheckoutEligible(x) == x.status = "active" /\ x.guest /\ x.late /\ ~x.outcome

(* reconcileLateCheckoutTx: the entries carry the check-out date.          *)
LateCheckoutEntries(x) ==
  [charge |-> IF LateCheckoutEligible(x) THEN x.range.out ELSE None,
   bonus  |-> IF LateCheckoutEligible(x) /\ x.clean THEN x.range.out ELSE None]

(* Variant: an entry that is there is left as it is.                       *)
KeepLateCheckout(s, x) ==
  ledger' = [ledger EXCEPT ![s] =
               IF LateCheckoutEligible(x) /\ @.charge # None THEN @ ELSE LateCheckoutEntries(x)]

ReconcileLateCheckout(s, x) == ledger' = [ledger EXCEPT ![s] = LateCheckoutEntries(x)]

(* The columns a request sets; only guests check out late.                 *)
Submitted(x, r, e) ==
  [x EXCEPT !.range = r, !.guest = e.guest, !.clean = e.clean, !.late = e.late /\ e.guest]

-----------------------------------------------------------------------------
(* Requests about stays.                                                   *)

NewStay(r, e) == Submitted([NoStay EXCEPT !.status = "active"], r, e)

(* POST of a stay without a block.                                         *)
CreateNamedStayRecord(s, r, e) ==
  /\ ~Exists(s)
  /\ RangeAvailable(s, r)
  /\ stay' = [stay EXCEPT ![s] = NewStay(r, e)]
  /\ ReplaceNights(s, Nights(r))
  /\ ReconcileLateCheckout(s, NewStay(r, e))
  /\ UNCHANGED <<link, block, raw, closure>>

(* The stay lies within one active block and is linked to it.              *)
PromoteRawBookingBlock(s, b, r, e) ==
  /\ ~Exists(s)
  /\ block[b].status = "active"
  /\ block[b].range.in <= r.in /\ r.out <= block[b].range.out
  /\ RangeAvailable(s, r)
  /\ stay' = [stay EXCEPT ![s] = NewStay(r, e)]
  /\ ReplaceNights(s, Nights(r))
  /\ link' = [link EXCEPT ![s] = [blocks |-> {b}, range |-> r, health |-> "active"]]
  /\ ReconcileLateCheckout(s, NewStay(r, e))
  /\ UNCHANGED <<block, raw, closure>>

(* Coverage is asked for only when the dates change, availability only of  *)
(* an active stay.                                                         *)
UpdateNamedStayRecord(s, r, e) ==
  /\ Exists(s)
  /\ r # stay[s].range => WithinActiveLinks(s, r)
  /\ Active(s) => RangeAvailable(s, r)
  /\ stay' = [stay EXCEPT ![s] = Submitted(@, r, e)]
  /\ IF Active(s) THEN ReplaceNights(s, Nights(r)) ELSE UNCHANGED night
  /\ link' = RecomputeSourceLinkHealth(
               stay', [link EXCEPT ![s].range = IF link[s].blocks = {} THEN @ ELSE r],
               block, raw)
  /\ ReconcileLateCheckout(s, Submitted(stay[s], r, e))
  /\ UNCHANGED <<block, raw, closure>>

WithStatus(x, status) ==
  [x EXCEPT !.status = status, !.late = @ /\ status = "active"]

(* Links are not looked at, neither for coverage nor for their health.     *)
UpdateNamedStayStatus(s, status) ==
  /\ Exists(s)
  /\ status = "active" => RangeAvailable(s, stay[s].range)
  /\ stay' = [stay EXCEPT ![s] = WithStatus(@, status)]
  /\ ReplaceNights(s, IF status = "active" THEN Nights(stay[s].range) ELSE {})
  /\ ReconcileLateCheckout(s, WithStatus(stay[s], status))
  /\ UNCHANGED <<link, block, raw, closure>>

WithOutcome(x, outcome) == [x EXCEPT !.outcome = outcome, !.late = @ /\ ~outcome]

(* In any status; clearing the outcome does not bring late_checkout back.  *)
UpdateNamedStayOutcome(s, outcome) ==
  /\ Exists(s)
  /\ stay' = [stay EXCEPT ![s] = WithOutcome(@, outcome)]
  /\ ReconcileLateCheckout(s, WithOutcome(stay[s], outcome))
  /\ UNCHANGED <<night, link, block, raw, closure>>

-----------------------------------------------------------------------------
(* Requests about closures: they give way to stays, not to each other.     *)

ClosureAvailable(r) == \A s \in Stays : night[s] \cap Nights(r) = {}

CreateAvailabilityBlock(c, r) ==
  /\ closure[c].status = "absent"
  /\ ClosureAvailable(r)
  /\ closure' = [closure EXCEPT ![c] = [status |-> "active", range |-> r]]
  /\ UNCHANGED <<stay, night, link, block, raw, ledger>>

UpdateAvailabilityBlock(c, r, status) ==
  /\ closure[c].status # "absent"
  /\ status = "active" => ClosureAvailable(r)
  /\ closure' = [closure EXCEPT ![c] = [status |-> status, range |-> r]]
  /\ UNCHANGED <<stay, night, link, block, raw, ledger>>

-----------------------------------------------------------------------------
(* The synchronisation.  A feed holds an event or none for each UID; the   *)
(* dates of a cancelled event are stored, but nothing reads them.          *)
NoEvent   == [status |-> "none", range |-> FirstNight]
Cancelled == [status |-> "cancelled", range |-> FirstNight]
Events    == {NoEvent, Cancelled} \cup [status : {"confirmed"}, range : Ranges]
Feeds   == [Blocks -> Events]

(* markRawBookingBlocksDisappearedTx: what has checked out stays.          *)
Disappears(b, feed, today) ==
  block[b].status = "active" /\ feed[b] = NoEvent /\ block[b].range.out >= today

(* Variant: the feed's own word is stored.                                 *)
UpsertedVerbatim(e) == [status |-> e.status, range |-> e.range]

(* upsertRawBookingBlockTx                                                 *)
Upserted(e) ==
  [status |-> IF e.status = "cancelled" THEN "deleted_from_source" ELSE "active",
   range  |-> e.range]

(* Variant: what the feed no longer mentions is left alone.                *)
ReconciledBlockKept(b, feed, today) ==
  IF feed[b] = NoEvent THEN block[b] ELSE Upserted(feed[b])

ReconciledBlock(b, feed, today) ==
  IF Disappears(b, feed, today) THEN [block[b] EXCEPT !.status = "deleted_from_source"]
  ELSE IF feed[b] = NoEvent THEN block[b] ELSE Upserted(feed[b])

(* Variant: the nights of a block that is gone are left on.                *)
ReconciledNightsKept(b, feed, today) ==
  IF feed[b].status = "confirmed" THEN Nights(feed[b].range) ELSE raw[b]

ReconciledNights(b, feed, today) ==
  IF Disappears(b, feed, today) \/ feed[b].status = "cancelled" THEN {}
  ELSE IF feed[b] = NoEvent THEN raw[b] ELSE Nights(feed[b].range)

ReconcileBookingICSSync(feed, today) ==
  /\ block' = [b \in Blocks |-> ReconciledBlock(b, feed, today)]
  /\ raw' = [b \in Blocks |-> ReconciledNights(b, feed, today)]
  /\ link' = RecomputeSourceLinkHealth(stay, link, block', raw')
  /\ UNCHANGED <<stay, night, closure, ledger>>

-----------------------------------------------------------------------------
Statuses == {"active", "cancelled", "archived"}

StayRequest(s) ==
  \/ \E r \in Ranges, e \in Details :
       \/ CreateNamedStayRecord(s, r, e)
       \/ \E b \in Blocks : PromoteRawBookingBlock(s, b, r, e)
       \/ UpdateNamedStayRecord(s, r, e)
  \/ \E status \in Statuses : UpdateNamedStayStatus(s, status)
  \/ \E outcome \in BOOLEAN : UpdateNamedStayOutcome(s, outcome)

ClosureRequest(c) ==
  \E r \in Ranges : \/ CreateAvailabilityBlock(c, r)
                    \/ \E st \in {"active", "archived"} : UpdateAvailabilityBlock(c, r, st)

Synchronise == \E feed \in Feeds, today \in Days : ReconcileBookingICSSync(feed, today)

(* A property starts with no rows, or with a stay m taken over from the    *)
(* former model.  Such a stay may have several links; the migration lets   *)
(* it pass only with the health its blocks give it                         *)
(* (migrate/000039_legacy_occupancy_removal.up.sql).                       *)
MigratedStay(r) ==
  [NoStay EXCEPT !.status = "active", !.range = r, !.guest = TRUE, !.clean = TRUE]

MigratedLinks(m, r, blocks) ==
  [s \in Stays |-> IF s = m /\ blocks # {}
                   THEN [NoLink EXCEPT !.blocks = blocks, !.range = r]
                   ELSE NoLink]

MigratedRows(m, r, blocks, q) ==
  /\ stay = [s \in Stays |-> IF s = m THEN MigratedStay(r) ELSE NoStay]
  /\ night = [s \in Stays |-> IF s = m THEN Nights(r) ELSE {}]
  /\ block = [b \in Blocks |-> IF b \in blocks
                               THEN [status |-> "active", range |-> q[b]]
                               ELSE [status |-> "absent", range |-> FirstNight]]
  /\ raw = [b \in Blocks |-> IF b \in blocks THEN Nights(q[b]) ELSE {}]
  /\ link = RecomputeSourceLinkHealth(stay, MigratedLinks(m, r, blocks), block, raw)

Init ==
  /\ \E m \in Stays \cup {None}, r \in Ranges, q \in [Blocks -> Ranges] :
       \E blocks \in SUBSET (IF m \in Stays THEN Blocks ELSE {}) :
         MigratedRows(m, r, blocks, q)
  /\ closure = [c \in Closures |-> [status |-> "absent", range |-> FirstNight]]
  /\ ledger = [s \in Stays |-> NoEntry]

Next ==
  \/ \E s \in Stays : StayRequest(s)
  \/ \E c \in Closures : ClosureRequest(c)
  \/ Synchronise

Spec == Init /\ [][Next]_vars

-----------------------------------------------------------------------------
(* Type invariant.                                                         *)
TypeOK ==
  /\ stay \in [Stays -> Stay]
  /\ night \in [Stays -> SUBSET Days]
  /\ link \in [Stays -> Link]
  /\ block \in [Blocks -> Block]
  /\ raw \in [Blocks -> SUBSET Days]
  /\ closure \in [Closures -> Closure]
  /\ ledger \in [Stays -> Entries]

(* By the dates the calendar shows, no night is sold twice and none is     *)
(* sold while the property is closed (ErrNamedStayOverlap), although the   *)
(* checks read nights of stays and dates of closures, in transactions that *)
(* do not look at each other's rows alike.                                 *)
NoNightSoldTwice ==
  \A s \in Stays : Active(s) =>
    /\ \A t \in Stays \ {s} : Active(t) => ~Overlap(stay[s].range, stay[t].range)
    /\ \A c \in Closures :
         closure[c].status = "active" => ~Overlap(stay[s].range, closure[c].range)

(* "Active owners have exactly their half-open range of active derived     *)
(* nights; inactive owners have none", and links repeat the stay's dates:  *)
(* what migration 000039 requires of the rows the operations maintain.     *)
DerivedRowsAgree ==
  /\ \A s \in Stays :
       /\ night[s] = IF Active(s) THEN Nights(stay[s].range) ELSE {}
       /\ link[s].blocks # {} => Exists(s) /\ link[s].range = stay[s].range
  /\ \A b \in Blocks :
       raw[b] = IF block[b].status = "active" THEN Nights(block[b].range) ELSE {}

(* A stay is charged for late checkout exactly as long as it is owed, on   *)
(* its present check-out date, whatever sequence of edits, cancellations   *)
(* and outcomes led there (reconcileLateCheckoutTx).                       *)
LedgerFollowsStay ==
  \A s \in Stays :
    /\ ledger[s].charge # None <=> LateCheckoutEligible(stay[s])
    /\ ledger[s].bonus # None <=> LateCheckoutEligible(stay[s]) /\ stay[s].clean
    /\ {ledger[s].charge, ledger[s].bonus} \subseteq {None, stay[s].range.out}

HealthTold(s) ==
  link[s].blocks # {} =>
    link[s].health = LinkHealth(stay[s].range, link[s].blocks, block, raw)

(* The links of every active stay say what the blocks say: "raw source     *)
(* loss is represented as source-link source_deleted or conflict, surfaced *)
(* to users" (docs/adr/ADR-002).                                           *)
LinksTellTheTruth == \A s \in Stays : Active(s) => HealthTold(s)

(* No step leaves an active stay with links that say something else than   *)
(* the blocks, except the one that makes the stay active again: creations, *)
(* edits of any stay and synchronisations all leave true links behind.     *)
OnlyReactivationMisleads ==
  [][\A s \in Stays :
       (Active(s)' /\ ~HealthTold(s)') =>
         \/ Active(s) /\ ~HealthTold(s)
         \/ stay[s].status \in {"cancelled", "archived"}]_vars

(* A warning on an active stay goes away only when active blocks cover all *)
(* its nights ("auto-cleared only when active raw coverage again covers    *)
(* the linked range").                                                     *)
WarningsClearByCoverage ==
  [][\A s \in Stays :
       (link[s].health # "active" /\ link'[s].health = "active" /\ link'[s].blocks # {}) =>
         Covered(link'[s].range, link'[s].blocks, block', raw') = Nights(link'[s].range)]_vars

=============================================================================
