---------------------------- MODULE NamedStays_proofs ----------------------------
(***************************************************************************)
(* What holds of the stays of any property, for any number of stays,       *)
(* blocks and closures and any last day: the rows are well typed, the      *)
(* derived rows agree with their owners, no night is sold twice, and the   *)
(* ledger follows the stay.  The requests about stays differ in what they  *)
(* check and in what they write, but all of them write one stay, its       *)
(* nights and its ledger entries together (StayWritten); the invariants    *)
(* are proved of that.  Then of the synchronisation: one run at a time     *)
(* applies what it fetched.                                                *)
(***************************************************************************)
EXTENDS OccupancySync, TLAPS

-----------------------------------------------------------------------------
(* Lemmas about the operators.                                             *)

(* Nights of a range are days of the calendar.                             *)
LEMMA NightsAreDays == ASSUME NEW r \in Ranges PROVE Nights(r) \subseteq Days
  BY StaysAssumption DEF Nights, Ranges, Days

(* Two ranges that overlap by their dates share a night, so that looking   *)
(* for shared nights finds every overlap.                                  *)
LEMMA OverlapSharesNight ==
  ASSUME NEW r \in Ranges, NEW q \in Ranges, Nights(r) \cap Nights(q) = {}
  PROVE  ~Overlap(r, q) /\ ~Overlap(q, r)
<1>1. /\ r.in \in Int /\ r.out \in Int /\ r.in < r.out
      /\ q.in \in Int /\ q.out \in Int /\ q.in < q.out
  BY StaysAssumption DEF Ranges, Days
<1>2. CASE r.in <= q.in
  <2>1. q.in \in Nights(q)
    BY <1>1 DEF Nights
  <2>2. q.in \notin Nights(r)
    BY <2>1
  <2>. QED  BY <1>1, <1>2, <2>2 DEF Nights, Overlap
<1>3. CASE q.in <= r.in
  <2>1. r.in \in Nights(r)
    BY <1>1 DEF Nights
  <2>2. r.in \notin Nights(q)
    BY <2>1
  <2>. QED  BY <1>1, <1>3, <2>2 DEF Nights, Overlap
<1>. QED  BY <1>1, <1>2, <1>3

(* What a request submits is a stay, with the dates submitted.             *)
LEMMA SubmittedIsStay ==
  ASSUME NEW x \in Stay, NEW r \in Ranges, NEW e \in Details
  PROVE  /\ Submitted(x, r, e) \in Stay
         /\ Submitted(x, r, e).status = x.status
         /\ Submitted(x, r, e).range = r
  BY StaysAssumption DEF Submitted, Stay

(* A new stay is active, with the dates submitted.                         *)
LEMMA NewIsStay ==
  ASSUME NEW r \in Ranges, NEW e \in Details
  PROVE  /\ NewStay(r, e) \in Stay
         /\ NewStay(r, e).status = "active"
         /\ NewStay(r, e).range = r
<1>1. FirstNight \in Ranges
  BY StaysAssumption DEF FirstNight, Ranges, Days
<1>2. [NoStay EXCEPT !.status = "active"] \in Stay
  BY <1>1 DEF NoStay, Stay
<1>3. [NoStay EXCEPT !.status = "active"].status = "active"
  BY DEF NoStay
<1>. QED  BY <1>2, <1>3, SubmittedIsStay DEF NewStay

(* The ledger entries of a stay are of the ledger's type and say what is   *)
(* owed for it.                                                            *)
LEMMA EntriesOfStay ==
  ASSUME NEW x \in Stay
  PROVE  LET y == LateCheckoutEntries(x)
         IN /\ y \in Entries
            /\ y.charge # None <=> LateCheckoutEligible(x)
            /\ y.bonus # None <=> LateCheckoutEligible(x) /\ x.clean
            /\ {y.charge, y.bonus} \subseteq {None, x.range.out}
<1>1. x.range.out \in Days /\ x.range.out # None
  BY StaysAssumption DEF Stay, Ranges, Days
<1>. QED  BY <1>1 DEF LateCheckoutEntries, Entries

(* Recomputing the health of links touches nothing else of them.           *)
LEMMA RecomputedLinks ==
  \A stays, blk, cover : \A links \in [Stays -> Link] :
    LET new == RecomputeSourceLinkHealth(stays, links, blk, cover)
    IN /\ new \in [Stays -> Link]
       /\ \A s \in Stays : new[s].blocks = links[s].blocks /\ new[s].range = links[s].range
<1>1. ASSUME NEW r, NEW blocks, NEW blk, NEW cover
      PROVE  LinkHealth(r, blocks, blk, cover) \in {"active", "source_deleted", "conflict"}
  BY DEF LinkHealth
<1>. QED  BY <1>1 DEF RecomputeSourceLinkHealth, Link

-----------------------------------------------------------------------------
(* What requests about stays have in common.                               *)

(* Stay s becomes x; its nights and its ledger entries follow; if it is    *)
(* active, its nights were free or its own.                                *)
StayWritten(s, x) ==
  /\ x \in Stay
  /\ stay' = [stay EXCEPT ![s] = x]
  /\ night' \in [Stays -> SUBSET Days]
  /\ night'[s] = IF x.status = "active" THEN Nights(x.range) ELSE {}
  /\ \A t \in Stays \ {s} : night'[t] = night[t]
  /\ x.status = "active" => RangeAvailable(s, x.range) \/ (Active(s) /\ x.range = stay[s].range)
  /\ ledger' = [ledger EXCEPT ![s] = LateCheckoutEntries(x)]

(* Links stay typed, belong to a stay and repeat its dates.                *)
LinksWritten ==
  /\ link' \in [Stays -> Link]
  /\ \A t \in Stays :
       link'[t].blocks # {} => stay'[t].status # "absent" /\ link'[t].range = stay'[t].range

(* The nights of an active stay replaced by those of r.                    *)
LEMMA NightsReplaced ==
  ASSUME TypeOK, NEW s \in Stays, NEW nights \in SUBSET Days, ReplaceNights(s, nights)
  PROVE  /\ night' \in [Stays -> SUBSET Days]
         /\ night'[s] = nights
         /\ \A t \in Stays \ {s} : night'[t] = night[t]
  BY DEF TypeOK, ReplaceNights

(* Every request about a stay writes it, its nights and its entries        *)
(* together, and leaves links that repeat the dates.                       *)
LEMMA RequestWritesStay ==
  ASSUME TypeOK, DerivedRowsAgree, NEW s \in Stays, StayRequest(s)
  PROVE  /\ \E x : StayWritten(s, x)
         /\ LinksWritten
         /\ UNCHANGED <<block, raw, closure>>
<1>. USE DEF TypeOK
<1>1. ASSUME NEW r \in Ranges, NEW e \in Details, CreateNamedStayRecord(s, r, e)
      PROVE  StayWritten(s, NewStay(r, e)) /\ LinksWritten /\ UNCHANGED <<block, raw, closure>>
  <2>1. StayWritten(s, NewStay(r, e))
    BY <1>1, NewIsStay, NightsAreDays, NightsReplaced
       DEF CreateNamedStayRecord, StayWritten, ReconcileLateCheckout
  <2>2. LinksWritten
    BY <1>1, NewIsStay DEF CreateNamedStayRecord, LinksWritten, DerivedRowsAgree, Exists
  <2>. QED  BY <1>1, <2>1, <2>2 DEF CreateNamedStayRecord
<1>2. ASSUME NEW r \in Ranges, NEW e \in Details, NEW b \in Blocks,
             PromoteRawBookingBlock(s, b, r, e)
      PROVE  StayWritten(s, NewStay(r, e)) /\ LinksWritten /\ UNCHANGED <<block, raw, closure>>
  <2>1. StayWritten(s, NewStay(r, e))
    BY <1>2, NewIsStay, NightsAreDays, NightsReplaced
       DEF PromoteRawBookingBlock, StayWritten, ReconcileLateCheckout
  <2>2. [blocks |-> {b}, range |-> r, health |-> "active"] \in Link
    BY DEF Link
  <2>3. LinksWritten
    BY <1>2, <2>2, NewIsStay
       DEF PromoteRawBookingBlock, LinksWritten, DerivedRowsAgree, Exists
  <2>. QED  BY <1>2, <2>1, <2>3 DEF PromoteRawBookingBlock
<1>3. ASSUME NEW r \in Ranges, NEW e \in Details, UpdateNamedStayRecord(s, r, e)
      PROVE  /\ StayWritten(s, Submitted(stay[s], r, e))
             /\ LinksWritten
             /\ UNCHANGED <<block, raw, closure>>
  <2>. DEFINE x == Submitted(stay[s], r, e)
              links == [link EXCEPT ![s].range = IF link[s].blocks = {} THEN @ ELSE r]
  <2>1. x \in Stay /\ x.status = stay[s].status /\ x.range = r
    BY SubmittedIsStay
  <2>2. stay' = [stay EXCEPT ![s] = x] /\ link' = RecomputeSourceLinkHealth(stay', links, block, raw)
    BY <1>3 DEF UpdateNamedStayRecord
  <2>3. StayWritten(s, x)
    <3>1. CASE Active(s)
      BY <1>3, <2>1, <3>1, NightsAreDays, NightsReplaced
         DEF UpdateNamedStayRecord, StayWritten, ReconcileLateCheckout, Active
    <3>2. CASE ~Active(s)
      BY <1>3, <2>1, <3>2
         DEF UpdateNamedStayRecord, StayWritten, ReconcileLateCheckout, Active, DerivedRowsAgree
    <3>. QED  BY <3>1, <3>2
  <2>4. /\ links \in [Stays -> Link]
        /\ \A t \in Stays : /\ links[t].blocks = link[t].blocks
                            /\ t # s => links[t].range = link[t].range
        /\ link[s].blocks # {} => links[s].range = r
    BY DEF Link
  <2>5. LinksWritten
    <3>. HIDE DEF links, x, TypeOK
    <3>1. LET new == RecomputeSourceLinkHealth(stay', links, block, raw)
          IN /\ new \in [Stays -> Link]
             /\ \A t \in Stays : new[t].blocks = links[t].blocks /\ new[t].range = links[t].range
      BY <2>4, RecomputedLinks
    <3>2. stay[s].status # "absent"
      BY <1>3 DEF UpdateNamedStayRecord, Exists
    <3>3. /\ link' \in [Stays -> Link]
          /\ \A t \in Stays : link'[t].blocks = link[t].blocks /\ link'[t].range = links[t].range
      BY <2>2, <2>4, <3>1
    <3>4. ASSUME NEW t \in Stays, link'[t].blocks # {}
          PROVE  stay'[t].status # "absent" /\ link'[t].range = stay'[t].range
      <4>1. stay'[t] = IF t = s THEN x ELSE stay[t]
        BY <2>2 DEF TypeOK
      <4>2. stay[t].status # "absent" /\ link[t].range = stay[t].range
        BY <3>3, <3>4 DEF DerivedRowsAgree, Exists
      <4>3. CASE t = s
        BY <2>1, <2>4, <3>2, <3>3, <3>4, <4>1, <4>3
      <4>4. CASE t # s
        BY <2>4, <3>3, <4>1, <4>2, <4>4
      <4>. QED  BY <4>3, <4>4
    <3>. QED  BY <3>3, <3>4 DEF LinksWritten
  <2>. QED  BY <1>3, <2>3, <2>5 DEF UpdateNamedStayRecord
<1>4. ASSUME NEW status \in Statuses, UpdateNamedStayStatus(s, status)
      PROVE  /\ StayWritten(s, WithStatus(stay[s], status))
             /\ LinksWritten
             /\ UNCHANGED <<block, raw, closure>>
  <2>. DEFINE x == WithStatus(stay[s], status)
  <2>1. x \in Stay /\ x.status = status /\ x.range = stay[s].range /\ x.range \in Ranges
    BY DEF WithStatus, Statuses, Stay
  <2>2. StayWritten(s, x)
    BY <1>4, <2>1, NightsAreDays, NightsReplaced
       DEF UpdateNamedStayStatus, StayWritten, ReconcileLateCheckout
  <2>3. LinksWritten
    BY <1>4, <2>1 DEF UpdateNamedStayStatus, LinksWritten, DerivedRowsAgree, Exists, Statuses
  <2>. QED  BY <1>4, <2>2, <2>3 DEF UpdateNamedStayStatus
<1>5. ASSUME NEW outcome \in BOOLEAN, UpdateNamedStayOutcome(s, outcome)
      PROVE  /\ StayWritten(s, WithOutcome(stay[s], outcome))
             /\ LinksWritten
             /\ UNCHANGED <<block, raw, closure>>
  <2>. DEFINE x == WithOutcome(stay[s], outcome)
  <2>1. x \in Stay /\ x.status = stay[s].status /\ x.range = stay[s].range
    BY DEF WithOutcome, Stay
  <2>2. StayWritten(s, x)
    BY <1>5, <2>1
       DEF UpdateNamedStayOutcome, StayWritten, ReconcileLateCheckout, DerivedRowsAgree, Active
  <2>3. LinksWritten
    BY <1>5, <2>1 DEF UpdateNamedStayOutcome, LinksWritten, DerivedRowsAgree, Exists
  <2>. QED  BY <1>5, <2>2, <2>3 DEF UpdateNamedStayOutcome
<1>. QED  BY <1>1, <1>2, <1>3, <1>4, <1>5 DEF StayRequest

-----------------------------------------------------------------------------
(* The inductive invariant.  Nights decide about stays and dates about     *)
(* closures, so neither is kept apart without the rows agreeing.           *)
Inv == TypeOK /\ DerivedRowsAgree /\ NoNightSoldTwice /\ LedgerFollowsStay

(* A property starts with no stays, or with one migrated stay.             *)
LEMMA InitInv == Init => Inv
<1>. SUFFICES ASSUME NEW m, NEW r \in Ranges, NEW q \in [Blocks -> Ranges], NEW blocks \in SUBSET Blocks,
                     MigratedRows(m, r, blocks, q),
                     closure = [c \in Closures |-> [status |-> "absent", range |-> FirstNight]],
                     ledger = [s \in Stays |-> NoEntry]
              PROVE  Inv
  BY Zenon DEF Init
<1>. DEFINE links == MigratedLinks(m, r, blocks)
<1>1. FirstNight \in Ranges
  BY StaysAssumption DEF FirstNight, Ranges, Days
<1>2. /\ NoStay \in Stay /\ NoStay.status = "absent" /\ NoStay.late = FALSE
      /\ MigratedStay(r) \in Stay
      /\ MigratedStay(r).status = "active"
      /\ MigratedStay(r).range = r
      /\ MigratedStay(r).late = FALSE
  BY <1>1 DEF NoStay, MigratedStay, Stay
<1>3. stay = [s \in Stays |-> IF s = m THEN MigratedStay(r) ELSE NoStay]
  BY DEF MigratedRows
<1>4. /\ links \in [Stays -> Link]
      /\ \A s \in Stays : links[s].blocks # {} => s = m /\ links[s].range = r
  BY <1>1 DEF NoLink, Link, MigratedLinks
<1>5. /\ link \in [Stays -> Link]
      /\ \A s \in Stays : link[s].blocks = links[s].blocks /\ link[s].range = links[s].range
  <2>1. link = RecomputeSourceLinkHealth(stay, links, block, raw)
    BY DEF MigratedRows
  <2>. QED  BY <1>4, <2>1, RecomputedLinks
<1>. HIDE DEF links
<1>6. TypeOK
  <2>1. stay \in [Stays -> Stay]
    BY <1>2, <1>3
  <2>2. night \in [Stays -> SUBSET Days] /\ raw \in [Blocks -> SUBSET Days]
    BY NightsAreDays DEF MigratedRows
  <2>3. block \in [Blocks -> Block] /\ closure \in [Closures -> Closure]
    BY <1>1 DEF MigratedRows, Block, Closure
  <2>4. ledger \in [Stays -> Entries]
    BY DEF NoEntry, Entries
  <2>. QED  BY <1>5, <2>1, <2>2, <2>3, <2>4 DEF TypeOK
<1>7. DerivedRowsAgree
  <2>1. ASSUME NEW s \in Stays
        PROVE  /\ night[s] = IF Active(s) THEN Nights(stay[s].range) ELSE {}
               /\ link[s].blocks # {} => Exists(s) /\ link[s].range = stay[s].range
    BY <1>2, <1>3, <1>4, <1>5 DEF MigratedRows, Active, Exists
  <2>2. ASSUME NEW b \in Blocks
        PROVE  raw[b] = IF block[b].status = "active" THEN Nights(block[b].range) ELSE {}
    BY DEF MigratedRows
  <2>. QED  BY <2>1, <2>2 DEF DerivedRowsAgree
<1>8. NoNightSoldTwice
  BY <1>2, <1>3 DEF NoNightSoldTwice, Active
<1>9. LedgerFollowsStay
  BY <1>2, <1>3 DEF LedgerFollowsStay, LateCheckoutEligible, NoEntry
<1>. QED  BY <1>6, <1>7, <1>8, <1>9 DEF Inv

(* A request about a stay.                                                 *)
LEMMA RequestInv ==
  ASSUME Inv, NEW s \in Stays, NEW x, StayWritten(s, x), LinksWritten,
         UNCHANGED <<block, raw, closure>>
  PROVE  Inv'
<1>. USE DEF Inv
<1>1. /\ stay' \in [Stays -> Stay]
      /\ stay'[s] = x
      /\ \A t \in Stays \ {s} : stay'[t] = stay[t]
  BY DEF StayWritten, TypeOK
<1>2. /\ ledger' \in [Stays -> Entries]
      /\ ledger'[s] = LateCheckoutEntries(x)
      /\ \A t \in Stays \ {s} : ledger'[t] = ledger[t]
  BY EntriesOfStay DEF StayWritten, TypeOK
<1>3. TypeOK'
  BY <1>1, <1>2 DEF TypeOK, StayWritten, LinksWritten
<1>4. DerivedRowsAgree'
  BY <1>1 DEF DerivedRowsAgree, StayWritten, LinksWritten, Active, Exists
<1>5. ASSUME x.status = "active"
      PROVE  /\ \A t \in Stays \ {s} : Active(t) => /\ ~Overlap(x.range, stay[t].range)
                                                    /\ ~Overlap(stay[t].range, x.range)
             /\ \A c \in Closures : closure[c].status = "active" => ~Overlap(x.range, closure[c].range)
  <2>1. CASE Active(s) /\ x.range = stay[s].range
    BY <2>1 DEF NoNightSoldTwice, Overlap
  <2>2. CASE RangeAvailable(s, x.range)
    <3>1. x.range \in Ranges /\ \A t \in Stays : stay[t].range \in Ranges
      BY DEF StayWritten, TypeOK, Stay
    <3>2. ASSUME NEW t \in Stays \ {s}, Active(t)
          PROVE  Nights(stay[t].range) \cap Nights(x.range) = {}
      BY <2>2, <3>2 DEF RangeAvailable, DerivedRowsAgree
    <3>3. \A t \in Stays \ {s} : Active(t) => /\ ~Overlap(x.range, stay[t].range)
                                              /\ ~Overlap(stay[t].range, x.range)
      BY <3>1, <3>2, OverlapSharesNight
    <3>4. \A c \in Closures : closure[c].status = "active" => ~Overlap(x.range, closure[c].range)
      BY <2>2 DEF RangeAvailable, Overlap
    <3>. QED  BY <3>3, <3>4
  <2>. QED  BY <1>5, <2>1, <2>2 DEF StayWritten
<1>6. NoNightSoldTwice'
  BY <1>1, <1>5 DEF NoNightSoldTwice, Active
<1>7. LedgerFollowsStay'
  BY <1>1, <1>2, EntriesOfStay DEF LedgerFollowsStay, StayWritten
<1>. QED  BY <1>3, <1>4, <1>6, <1>7

(* A request about a closure.                                              *)
LEMMA ClosureInv ==
  ASSUME Inv, NEW c \in Closures, ClosureRequest(c)
  PROVE  Inv'
<1>. USE DEF Inv
<1>1. PICK r \in Ranges, status \in {"active", "archived"} :
        /\ status = "active" => ClosureAvailable(r)
        /\ closure' = [closure EXCEPT ![c] = [status |-> status, range |-> r]]
        /\ UNCHANGED <<stay, night, link, block, raw, ledger>>
  BY DEF ClosureRequest, CreateAvailabilityBlock, UpdateAvailabilityBlock
<1>2. TypeOK'
  BY <1>1 DEF TypeOK, Closure
<1>3. DerivedRowsAgree' /\ LedgerFollowsStay'
  BY <1>1 DEF DerivedRowsAgree, Active, Exists, LedgerFollowsStay
<1>4. ASSUME NEW s \in Stays, Active(s), status = "active"
      PROVE  ~Overlap(stay[s].range, r)
  <2>1. stay[s].range \in Ranges
    BY DEF TypeOK, Stay
  <2>2. Nights(stay[s].range) \cap Nights(r) = {}
    BY <1>1, <1>4 DEF ClosureAvailable, DerivedRowsAgree
  <2>. QED  BY <2>1, <2>2, OverlapSharesNight
<1>5. NoNightSoldTwice'
  BY <1>1, <1>4 DEF NoNightSoldTwice, Active, TypeOK
<1>. QED  BY <1>2, <1>3, <1>5

(* A synchronisation: "it must not resize, rename, reclassify, delete,     *)
(* cancel, archive or otherwise mutate" the stays.                         *)
LEMMA SyncInv ==
  ASSUME Inv, NEW feed \in Feeds, NEW date \in Days, ReconcileBookingICSSync(feed, date)
  PROVE  Inv'
<1>. USE DEF Inv
<1>1. \A b \in Blocks : feed[b] \in Events
  BY DEF Feeds
<1>2. \A b \in Blocks : feed[b].range \in Ranges
                        /\ (feed[b] # NoEvent => feed[b].status \in {"confirmed", "cancelled"})
  BY <1>1, StaysAssumption DEF Events, NoEvent, Cancelled, FirstNight, Ranges, Days
<1>3. \A b \in Blocks : ReconciledBlock(b, feed, date) \in Block
  BY <1>2 DEF ReconciledBlock, Upserted, Block, TypeOK
<1>4. \A b \in Blocks : ReconciledNights(b, feed, date) \subseteq Days
  BY <1>2, NightsAreDays DEF ReconciledNights, TypeOK
<1>5. /\ link' \in [Stays -> Link]
      /\ \A s \in Stays : link'[s].blocks = link[s].blocks /\ link'[s].range = link[s].range
  <2>1. link' = RecomputeSourceLinkHealth(stay, link, block', raw') /\ link \in [Stays -> Link]
    BY DEF ReconcileBookingICSSync, TypeOK
  <2>. QED  BY <2>1, RecomputedLinks
<1>6. TypeOK'
  BY <1>3, <1>4, <1>5 DEF TypeOK, ReconcileBookingICSSync
<1>7. ASSUME NEW b \in Blocks
      PROVE  LET new == ReconciledBlock(b, feed, date)
             IN ReconciledNights(b, feed, date)
                  = IF new.status = "active" THEN Nights(new.range) ELSE {}
  <2>1. NoEvent.status = "none"
    BY DEF NoEvent
  <2>2. CASE Disappears(b, feed, date)
    BY <2>2 DEF ReconciledBlock, ReconciledNights, TypeOK, Block
  <2>3. CASE ~Disappears(b, feed, date) /\ feed[b] = NoEvent
    BY <2>1, <2>3 DEF ReconciledBlock, ReconciledNights, DerivedRowsAgree
  <2>4. CASE ~Disappears(b, feed, date) /\ feed[b] # NoEvent
    BY <1>2, <2>4 DEF ReconciledBlock, ReconciledNights, Upserted
  <2>. QED  BY <2>2, <2>3, <2>4
<1>8. DerivedRowsAgree'
  BY <1>5, <1>7 DEF DerivedRowsAgree, ReconcileBookingICSSync, Active, Exists
<1>9. NoNightSoldTwice' /\ LedgerFollowsStay'
  BY DEF ReconcileBookingICSSync, NoNightSoldTwice, LedgerFollowsStay, Active
<1>. QED  BY <1>6, <1>8, <1>9

(* Every step.                                                             *)
LEMMA NextInv == Inv /\ [Next]_vars => Inv'
<1>. SUFFICES ASSUME Inv, [Next]_vars PROVE Inv'
  OBVIOUS
<1>1. ASSUME NEW s \in Stays, StayRequest(s) PROVE Inv'
  <2>1. /\ \E x : StayWritten(s, x)
        /\ LinksWritten
        /\ UNCHANGED <<block, raw, closure>>
    BY <1>1, RequestWritesStay DEF Inv
  <2>. QED  BY <2>1, RequestInv
<1>2. ASSUME NEW c \in Closures, ClosureRequest(c) PROVE Inv'
  BY <1>2, ClosureInv
<1>3. CASE Synchronise
  BY <1>3, SyncInv DEF Synchronise
<1>4. CASE UNCHANGED vars
  BY <1>4 DEF vars, Inv, TypeOK, DerivedRowsAgree, NoNightSoldTwice, LedgerFollowsStay, Active, Exists
<1>. QED  BY <1>1, <1>2, <1>3, <1>4 DEF Next

LEMMA Invariance == Spec => []Inv
  BY InitInv, NextInv, PTL DEF Spec

(* The rows are of their types in every reachable state of a property, for *)
(* any stays, blocks, closures and last day.                               *)
THEOREM TypeCorrect == Spec => []TypeOK
  BY Invariance, PTL DEF Inv

(* The nights of stays and of blocks are those of their dates and status,  *)
(* and links belong to a stay and repeat its dates, as the migration's     *)
(* guards require.                                                         *)
THEOREM RowsAgree == Spec => []DerivedRowsAgree
  BY Invariance, PTL DEF Inv

(* No night is sold twice or while the property is closed                  *)
(* (namedStayRangeAvailableTx, availabilityBlockRangeAvailableTx).         *)
THEOREM NightsSoldOnce == Spec => []NoNightSoldTwice
  BY Invariance, PTL DEF Inv

(* Late checkouts are charged exactly as long as they are owed, on the     *)
(* present check-out date (reconcileLateCheckoutTx).                       *)
THEOREM LedgerCorrect == Spec => []LedgerFollowsStay
  BY Invariance, PTL DEF Inv

-----------------------------------------------------------------------------
(* Links and blocks.                                                       *)

(* Recomputing gives the links of an active stay the health their blocks   *)
(* give them, and leaves the others alone.                                 *)
LEMMA RecomputedHealth ==
  \A stays, blk, cover : \A links \in [Stays -> Link] : \A s \in Stays :
    LET new == RecomputeSourceLinkHealth(stays, links, blk, cover)
    IN IF stays[s].status = "active" /\ links[s].blocks # {}
       THEN new[s].health = LinkHealth(stays[s].range, links[s].blocks, blk, cover)
       ELSE new[s] = links[s]
  BY DEF RecomputeSourceLinkHealth, Link

(* Links are healthy exactly when all nights are covered.                  *)
LEMMA HealthyIsCovered ==
  ASSUME NEW r \in Ranges, NEW blocks, NEW blk, NEW cover
  PROVE  LinkHealth(r, blocks, blk, cover) = "active"
           <=> Covered(r, blocks, blk, cover) = Nights(r)
<1>1. Nights(r) # {}
  <2>1. r.in \in Int /\ r.out \in Int /\ r.in < r.out
    BY StaysAssumption DEF Ranges, Days
  <2>2. r.in \in Nights(r)
    BY <2>1 DEF Nights
  <2>. QED  BY <2>2
<1>. HIDE DEF Nights
<1>. QED  BY <1>1 DEF LinkHealth

(* A stay within an active block is covered by it.                         *)
LEMMA WithinIsCovered ==
  ASSUME TypeOK, DerivedRowsAgree, NEW b \in Blocks, NEW r \in Ranges,
         block[b].status = "active", block[b].range.in <= r.in, r.out <= block[b].range.out
  PROVE  Covered(r, {b}, block, raw) = Nights(r)
<1>1. block[b].range \in Ranges
  BY DEF TypeOK, Block
<1>2. Nights(r) \subseteq Nights(block[b].range)
  BY <1>1, StaysAssumption DEF Nights, Ranges, Days
<1>3. raw[b] = Nights(block[b].range)
  BY DEF DerivedRowsAgree
<1>. HIDE DEF Nights
<1>. QED  BY <1>2, <1>3 DEF Covered

(* A step leaves the links of stay t as they are, with what they are       *)
(* judged by, and makes the stay active only if it was before or had been  *)
(* given up ...                                                            *)
LinksUntouched(t) ==
  /\ link'[t] = link[t] /\ stay'[t].range = stay[t].range
  /\ block' = block /\ raw' = raw
  /\ Active(t)' => stay[t].status \in {"active", "cancelled", "archived"}

(* ... or it leaves links that say what the blocks say, if the stay is     *)
(* active, and their health as it was, if it is not.                       *)
LinksTold(t) == IF Active(t)' THEN HealthTold(t)' ELSE link'[t].health = link[t].health

(* Recomputed links are told.                                              *)
LEMMA RecomputeTells ==
  ASSUME NEW t \in Stays, NEW links \in [Stays -> Link], links[t].health = link[t].health,
         link' = RecomputeSourceLinkHealth(stay', links, block', raw')
  PROVE  LinksTold(t)
<1>1. LET new == RecomputeSourceLinkHealth(stay', links, block', raw')
      IN /\ new[t].blocks = links[t].blocks
         /\ IF stay'[t].status = "active" /\ links[t].blocks # {}
            THEN new[t].health = LinkHealth(stay'[t].range, links[t].blocks, block', raw')
            ELSE new[t] = links[t]
  BY RecomputedLinks, RecomputedHealth
<1>. QED  BY <1>1 DEF LinksTold, HealthTold, Active

(* Every step does one or the other.                                       *)
LEMMA LinkStep ==
  ASSUME Inv, Next, NEW t \in Stays
  PROVE  LinksUntouched(t) \/ LinksTold(t)
<1>. USE DEF Inv
<1>1. stay \in [Stays -> Stay] /\ link \in [Stays -> Link]
  BY DEF TypeOK
<1>2. ASSUME NEW s \in Stays, NEW r \in Ranges, NEW e \in Details, CreateNamedStayRecord(s, r, e)
      PROVE  LinksUntouched(t) \/ LinksTold(t)
  <2>1. link[s].blocks = {} /\ ~Exists(s)
    BY <1>2 DEF CreateNamedStayRecord, DerivedRowsAgree
  <2>2. stay' = [stay EXCEPT ![s] = NewStay(r, e)] /\ UNCHANGED <<link, block, raw>>
    BY <1>2 DEF CreateNamedStayRecord
  <2>3. CASE t = s
    BY <1>1, <2>1, <2>2, <2>3 DEF LinksTold, HealthTold
  <2>4. CASE t # s
    BY <1>1, <2>2, <2>4 DEF LinksUntouched, Active
  <2>. QED  BY <2>3, <2>4
<1>3. ASSUME NEW s \in Stays, NEW b \in Blocks, NEW r \in Ranges, NEW e \in Details,
             PromoteRawBookingBlock(s, b, r, e)
      PROVE  LinksUntouched(t) \/ LinksTold(t)
  <2>1. /\ stay' = [stay EXCEPT ![s] = NewStay(r, e)]
        /\ link' = [link EXCEPT ![s] = [blocks |-> {b}, range |-> r, health |-> "active"]]
        /\ UNCHANGED <<block, raw>>
    BY <1>3 DEF PromoteRawBookingBlock
  <2>2. CASE t = s
    <3>1. stay'[t].status = "active" /\ stay'[t].range = r
      BY <1>1, <2>1, <2>2, NewIsStay
    <3>2. link'[t].blocks = {b} /\ link'[t].health = "active"
      BY <1>1, <2>1, <2>2
    <3>3. Covered(r, {b}, block, raw) = Nights(r)
      BY <1>3, WithinIsCovered DEF PromoteRawBookingBlock
    <3>4. LinkHealth(r, {b}, block, raw) = "active"
      BY <3>3, HealthyIsCovered
    <3>. QED  BY <2>1, <3>1, <3>2, <3>4 DEF LinksTold, HealthTold, Active
  <2>3. CASE t # s
    BY <1>1, <2>1, <2>3 DEF LinksUntouched, Active
  <2>. QED  BY <2>2, <2>3
<1>4. ASSUME NEW s \in Stays, NEW r \in Ranges, NEW e \in Details, UpdateNamedStayRecord(s, r, e)
      PROVE  LinksTold(t)
  <2>. DEFINE links == [link EXCEPT ![s].range = IF link[s].blocks = {} THEN @ ELSE r]
  <2>1. links \in [Stays -> Link] /\ links[t].health = link[t].health
    BY <1>1 DEF Link
  <2>2. link' = RecomputeSourceLinkHealth(stay', links, block', raw')
    BY <1>4 DEF UpdateNamedStayRecord
  <2>. HIDE DEF links
  <2>. QED  BY <2>1, <2>2, RecomputeTells
<1>5. ASSUME NEW s \in Stays, NEW status \in Statuses, UpdateNamedStayStatus(s, status)
      PROVE  LinksUntouched(t)
  <2>1. /\ stay[s].status \in {"active", "cancelled", "archived"}
        /\ stay' = [stay EXCEPT ![s] = WithStatus(@, status)]
        /\ UNCHANGED <<link, block, raw>>
    BY <1>1, <1>5 DEF UpdateNamedStayStatus, Exists, Stay
  <2>2. WithStatus(stay[s], status).range = stay[s].range
    BY <1>1 DEF WithStatus, Stay
  <2>. QED  BY <1>1, <2>1, <2>2 DEF LinksUntouched, Active
<1>6. ASSUME NEW s \in Stays, NEW outcome \in BOOLEAN, UpdateNamedStayOutcome(s, outcome)
      PROVE  LinksUntouched(t)
  <2>1. /\ stay' = [stay EXCEPT ![s] = WithOutcome(@, outcome)]
        /\ UNCHANGED <<link, block, raw>>
    BY <1>6 DEF UpdateNamedStayOutcome
  <2>2. /\ WithOutcome(stay[s], outcome).range = stay[s].range
        /\ WithOutcome(stay[s], outcome).status = stay[s].status
    BY <1>1 DEF WithOutcome, Stay
  <2>. QED  BY <1>1, <2>1, <2>2 DEF LinksUntouched, Active
<1>7. ASSUME NEW c \in Closures, ClosureRequest(c) PROVE LinksUntouched(t)
  BY <1>7 DEF ClosureRequest, CreateAvailabilityBlock, UpdateAvailabilityBlock,
              LinksUntouched, Active
<1>8. ASSUME NEW feed \in Feeds, NEW date \in Days, ReconcileBookingICSSync(feed, date)
      PROVE  LinksTold(t)
  <2>1. stay' = stay /\ link' = RecomputeSourceLinkHealth(stay', link, block', raw')
    BY <1>8 DEF ReconcileBookingICSSync
  <2>. QED  BY <1>1, <2>1, RecomputeTells
<1>. QED  BY <1>2, <1>3, <1>4, <1>5, <1>6, <1>7, <1>8 DEF Next, StayRequest, Synchronise

(* Only a reactivation leaves an active stay with links that say something *)
(* else than the blocks (UpdateNamedStayStatus recomputes nothing).        *)
THEOREM ReactivationAlone == Spec => OnlyReactivationMisleads
<1>1. ASSUME Inv, [Next]_vars
      PROVE  [\A s \in Stays :
                (Active(s)' /\ ~HealthTold(s)') =>
                  \/ Active(s) /\ ~HealthTold(s)
                  \/ stay[s].status \in {"cancelled", "archived"}]_vars
  BY <1>1, LinkStep DEF LinksUntouched, LinksTold, HealthTold, Active
<1>. QED  BY <1>1, Invariance, PTL DEF Spec, OnlyReactivationMisleads

(* A warning goes away only when active blocks cover all nights of the     *)
(* stay (recomputeSourceLinkHealthTx).                                     *)
THEOREM WarningsJustified == Spec => WarningsClearByCoverage
<1>1. ASSUME Inv, Inv', Next, NEW s \in Stays,
             link[s].health # "active", link'[s].health = "active", link'[s].blocks # {}
      PROVE  Covered(link'[s].range, link'[s].blocks, block', raw') = Nights(link'[s].range)
  <2>1. CASE LinksUntouched(s)
    BY <1>1, <2>1 DEF LinksUntouched
  <2>2. CASE LinksTold(s)
    <3>1. LinkHealth(stay'[s].range, link'[s].blocks, block', raw') = "active"
      BY <1>1, <2>2 DEF LinksTold, HealthTold
    <3>2. stay'[s].range \in Ranges /\ link'[s].range = stay'[s].range
      BY <1>1 DEF Inv, TypeOK, Stay, DerivedRowsAgree
    <3>. QED  BY <3>1, <3>2, HealthyIsCovered
  <2>. QED  BY <1>1, <2>1, <2>2, LinkStep
<1>2. ASSUME Inv, Inv', [Next]_vars
      PROVE  [\A s \in Stays :
                (link[s].health # "active" /\ link'[s].health = "active" /\ link'[s].blocks # {}) =>
                  Covered(link'[s].range, link'[s].blocks, block', raw')
                    = Nights(link'[s].range)]_vars
  BY <1>1, <1>2
<1>. QED  BY <1>2, Invariance, PTL DEF Spec, WarningsClearByCoverage

-----------------------------------------------------------------------------
(* The synchronisation, for any number of runs, blocks and feeds.          *)

(* What a run holds in memory is never older than what has been applied:   *)
(* nobody else can apply a feed while it holds the lease.                  *)
FetchedIsNewer ==
  /\ applied <= published.version
  /\ \A r \in Runs : run[r].pc = "apply" =>
       applied <= run[r].feed.version /\ run[r].feed.version <= published.version

RunsInv == SyncTypeOK /\ OneRunHoldsLease /\ FetchedIsNewer

USE DEF syncVars

LEMMA SyncInitInv == SyncInit => RunsInv
  BY SyncAssumption
  DEF SyncInit, RunsInv, SyncTypeOK, OneRunHoldsLease, FetchedIsNewer, Run, Idle, NoFeed

(* Steps of a run; ReconcileFeed is the only one that moves "applied".     *)
LEMMA RunStepInv ==
  ASSUME RunsInv, NEW r \in Runs, RunStep(r)
  PROVE  RunsInv' /\ applied' >= applied
<1> USE SyncAssumption DEF RunsInv, SyncTypeOK, OneRunHoldsLease, FetchedIsNewer, Run, Idle, NoFeed
<1>1. CASE SyncProperty(r)
  BY <1>1 DEF SyncProperty
<1>2. CASE FetchFeed(r)
  BY <1>2 DEF FetchFeed
<1>3. CASE FailRun(r)
  BY <1>3 DEF FailRun
<1>4. CASE FinishPartial(r)
  BY <1>4 DEF FinishPartial
<1>5. CASE ReconcileFeed(r)
  <2>1. \A q \in Runs : run[q].pc # "idle" => q = r
    BY <1>5 DEF ReconcileFeed
  <2>2. /\ run[r].pc = "apply" /\ applied' = run[r].feed.version
        /\ run' = [run EXCEPT ![r] = [pc |-> "release", feed |-> NoFeed]]
        /\ UNCHANGED <<published, lease>>
    BY <1>5 DEF ReconcileFeed
  <2> QED BY <2>1, <2>2
<1>6. CASE ReleaseLease(r)
  BY <1>6 DEF ReleaseLease
<1>7. CASE CrashRun(r)
  BY <1>7 DEF CrashRun
<1> QED BY <1>1, <1>2, <1>3, <1>4, <1>5, <1>6, <1>7 DEF RunStep

LEMMA SyncNextInv ==
  ASSUME RunsInv, [SyncNext]_allVars
  PROVE  RunsInv' /\ applied' >= applied
<1>1. CASE \E r \in Runs : RunStep(r)
  BY <1>1, RunStepInv
<1> USE SyncAssumption DEF RunsInv, SyncTypeOK, OneRunHoldsLease, FetchedIsNewer, Run, Idle, NoFeed
<1>2. CASE LapseLease
  BY <1>2 DEF LapseLease
<1>3. CASE \E events \in Publishable : Publish(events)
  BY <1>3 DEF Publish
<1>4. CASE Midnight
  BY <1>4 DEF Midnight
<1>5. CASE StayOrClosureRequest
  BY <1>5 DEF StayOrClosureRequest
<1>6. CASE UNCHANGED allVars
  BY <1>6 DEF allVars
<1> QED BY <1>1, <1>2, <1>3, <1>4, <1>5, <1>6 DEF SyncNext

(* Types, for any number of runs and feeds (sync.go, SyncProperty).        *)
THEOREM SyncTypeCorrect == SyncSpec => []SyncTypeOK
<1>1. RunsInv => SyncTypeOK
  BY DEF RunsInv
<1> QED BY <1>1, SyncInitInv, SyncNextInv, PTL DEF SyncSpec

(* The lease of the property admits one run at a time.                     *)
THEOREM LeaseHeldByTheRun == SyncSpec => []OneRunHoldsLease
<1>1. RunsInv => OneRunHoldsLease
  BY DEF RunsInv
<1> QED BY <1>1, SyncInitInv, SyncNextInv, PTL DEF SyncSpec

(* The blocks never go back to an older feed, however many runs there are, *)
(* whatever fails and whichever of them die.                               *)
THEOREM FeedsAppliedInOrder == SyncSpec => FeedsInOrder
<1>1. RunsInv /\ [SyncNext]_allVars => [applied' >= applied]_allVars
  BY SyncNextInv
<1> QED BY <1>1, SyncInitInv, SyncNextInv, PTL DEF SyncSpec, FeedsInOrder

-----------------------------------------------------------------------------
(* Only a feed that omits or cancels an event takes the block away.        *)
LEMMA RequestsKeepBlocks ==
  ASSUME StayOrClosureRequest
  PROVE  UNCHANGED block
<1>1. ASSUME NEW s \in Stays, StayRequest(s) PROVE UNCHANGED block
  BY <1>1 DEF StayRequest, CreateNamedStayRecord, PromoteRawBookingBlock, UpdateNamedStayRecord,
              UpdateNamedStayStatus, UpdateNamedStayOutcome
<1>2. ASSUME NEW c \in Closures, ClosureRequest(c) PROVE UNCHANGED block
  BY <1>2 DEF ClosureRequest, CreateAvailabilityBlock, UpdateAvailabilityBlock
<1> QED BY <1>1, <1>2 DEF StayOrClosureRequest

LEMMA ListedBlocksStay ==
  ASSUME NEW r \in Runs, ReconcileFeed(r), NEW b \in Blocks,
         block[b].status = "active", block'[b].status # "active",
         Listed(run[r].feed.events[b])
  PROVE  run[r].feed.events[b].cancelled
<1> DEFINE e == run[r].feed.events[b]
           feed == ParseICalendarDetailed(run[r].feed.events)
<1>1. feed[b] = ParseVEvent(e) /\ feed[b] # Unreadable
  BY DEF ReconcileFeed, ParseICalendarDetailed, ParseErrors
<1>2. block'[b] = ReconciledBlock(b, feed, today)
  BY DEF ReconcileFeed, ReconcileBookingICSSync
<1> HIDE DEF feed
<1>3. feed[b] # NoEvent
  BY <1>1 DEF ParseVEvent, Listed, NoRaw, NoEvent, Cancelled, Unreadable
<1>4. block'[b] = Upserted(feed[b])
  BY <1>2, <1>3 DEF ReconciledBlock, Disappears
<1>5. feed[b].status = "cancelled"
  BY <1>4 DEF Upserted
<1> QED BY <1>1, <1>3, <1>5 DEF ParseVEvent, NoEvent, Cancelled, Unreadable

(* No feed that could be read only in part, and no failed run, takes a     *)
(* block away (StatusPartialNoMutation).                                   *)
THEOREM PartialFeedsDeleteNothing == SyncSpec => OnlyOmittedBlocksGo
<1> DEFINE Goes(b) == block[b].status = "active" /\ block'[b].status # "active"
           Told(b) == \E r \in Runs :
                        /\ run[r].pc = "apply"
                        /\ Listed(run[r].feed.events[b]) => run[r].feed.events[b].cancelled
<1>1. ASSUME [SyncNext]_allVars, NEW b \in Blocks, Goes(b) PROVE Told(b)
  <2>1. block' # block
    BY <1>1
  <2>2. ~StayOrClosureRequest
    BY <2>1, RequestsKeepBlocks
  <2>3. PICK r \in Runs : RunStep(r)
    BY <1>1, <2>1, <2>2 DEF SyncNext, LapseLease, Publish, Midnight, allVars, vars
  <2>4. ReconcileFeed(r)
    BY <2>1, <2>3 DEF RunStep, SyncProperty, FetchFeed, FailRun, FinishPartial, ReleaseLease,
                      CrashRun, vars
  <2> QED BY <1>1, <2>4, ListedBlocksStay DEF ReconcileFeed
<1>2. [SyncNext]_allVars => [\A b \in Blocks : Goes(b) => Told(b)]_allVars
  BY <1>1
<1> QED BY <1>2, PTL DEF SyncSpec, OnlyOmittedBlocksGo

=============================================================================
