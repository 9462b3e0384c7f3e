---------------------------- MODULE CleaningCalendar ----------------------------
(***************************************************************************)
(* The cleanings of a property in its Google calendar                      *)
(* (internal/cleaningcalendar, store/cleaning_calendar.go).  A pass lists  *)
(* the events of a range of days, writes a row and an event for every stay *)
(* that checks out in it and wants a cleaning, and then takes the events   *)
(* of all other rows away.  A retry replays one row.  Passes and retries   *)
(* hold the mutex of the service and the lease of the property (JobLease), *)
(* so at most one is under way; requests about stays and settings, people  *)
(* who edit the calendar, and crashes interleave with it.                  *)
(*                                                                         *)
(* A row is found by its cleaning_identity, the stay and its check-out     *)
(* date; local id and identity name the same row, so the index by          *)
(* pms_cleaning_event_id is the one by pms_cleaning_identity.  The future  *)
(* window of 365 days is taken to reach beyond LastDay.                    *)
(***************************************************************************)
EXTENDS Integers, FiniteSets, FiniteSetsExt

CONSTANTS
  Stays,       \* named stays of the property
  LastDay,     \* days are 0 .. LastDay
  Bookings,    \* what each stay may be: a set of records for every stay
  Settings,    \* what the settings may be
  Ids,         \* bound: ids Google may give to events, natural numbers
  None,        \* no event, no row, no calendar
  MaxHands,    \* bound: edits of the calendar by people
  MaxFaults    \* bound: answers of Google that get faults, and crashes

Days       == 0 .. LastDay
Identities == Stays \X Days     \* "stay:<property>:<stay>:<check-out>"

Booking == [active : BOOLEAN, cleaning : BOOLEAN, in : Days, out : Days]
Setting == [calendar : STRING \cup {None}, schedule : Nat]

ASSUME CleaningAssumption ==
  /\ Ids \subseteq Nat /\ IsFiniteSet(Ids)
  /\ None \notin Ids /\ None \notin Identities
  /\ LastDay \in Nat
  /\ Bookings \in [Stays -> SUBSET Booking]
  /\ Settings \subseteq Setting
  /\ MaxHands \in Nat /\ MaxFaults \in Nat

VARIABLES
  stay,      \* named_stays, reduced to what a cleaning depends on
  settings,  \* property_google_cleaning_settings
  today,
  row,       \* cleaning_calendar_events
  google,    \* the events Google has, whatever the calendar
  pass,      \* local state of the pass or retry under way
  waiting,   \* ranges of stay edits whose pass waits for the mutex
  hands,     \* edits of the calendar by people so far
  faults     \* answers faults, and crashes, so far

vars == <<stay, settings, today, row, google, pass, waiting, hands, faults>>

-----------------------------------------------------------------------------
(* Rows, events and what a cleaning looks like.  A title tells whether a   *)
(* guest arrives on the same day; an end is the default one or the short   *)
(* one, an hour before that guest's check-in.                              *)
Look == [sameDay : BOOLEAN, short : BOOLEAN, schedule : Nat]

NoRow == [status |-> "none", pending |-> "none", google |-> None,
          calendar |-> None, sameDay |-> FALSE, short |-> FALSE, schedule |-> 0]

RowLook(r) == [sameDay |-> r.sameDay, short |-> r.short, schedule |-> r.schedule]

NoEvent == [alive |-> FALSE, owner |-> None, day |-> 0, calendar |-> None,
            look |-> RowLook(NoRow)]

Deleted(e) == [NoEvent EXCEPT !.calendar = e.calendar]

(* What a pass has in memory: the settings and the day it started with,    *)
(* the listing, the look of each event it may write, the rows left to do   *)
(* and the one it asks Google about.                                       *)
NoPass == [pc |-> "idle", retry |-> FALSE, calendar |-> None, today |-> 0,
           listing |-> [g \in Ids |-> NoEvent], look |-> [i \in Identities |-> RowLook(NoRow)],
           todo |-> {}, at |-> None, reused |-> {}, owners |-> {}]

Enabled == settings.calendar # None

(* cleaningNamedStayEligibility: active, confirmed, neither a no-show nor  *)
(* a non-refundable cancellation, and a cleaning is wanted.                *)
Eligible(s) == stay[s].active /\ stay[s].cleaning

Owners == {<<s, stay[s].out>> : s \in {t \in Stays : Eligible(t)}}

(* FindCleaningCalendarSameDayNamedStayArrival, by night, cleaning or not. *)
SameDayArrival(i) ==
  \E t \in Stays \ {i[1]} : stay[t].active /\ stay[t].in <= i[2] /\ i[2] < stay[t].out

(* buildNamedStayEvent; the schedule hash stands for the times of day and  *)
(* the duration the settings and the profile ask for.                      *)
BuildNamedStayEvent(i) ==
  [sameDay |-> SameDayArrival(i), short |-> SameDayArrival(i), schedule |-> settings.schedule]

(* A row with the same schedule hash keeps the end it has.                 *)
KeepEnd(look, r) ==
  IF r.status # "none" /\ r.schedule = look.schedule
  THEN [look EXCEPT !.short = r.short] ELSE look

-----------------------------------------------------------------------------
(* googleEventIndex.  None stands for events people made themselves, which *)
(* carry no private properties of this property.                           *)
Listed(listing)   == {g \in Ids : listing[g].alive}
Lowest(ids)       == IF \E g \in ids : \A h \in ids : g <= h THEN Min(ids) ELSE None

(* Variant: only the stored id counts.                                     *)
MatchKnown(listing, i, known) == IF known \in Listed(listing) THEN known ELSE None

(* Variant: events are also recognised by their day.                       *)
MatchByDay(listing, i, known) ==
  IF known \in Listed(listing) THEN known
  ELSE Lowest({g \in Listed(listing) : listing[g].day = i[2]})

Match(listing, i, known) ==
  LET byIdentity     == {g \in Listed(listing) : listing[g].owner = i}
      byNamedStayDay == {g \in Listed(listing) :
                           /\ listing[g].owner # None
                           /\ listing[g].owner[1] = i[1]
                           /\ listing[g].day = i[2]}
  IN IF known \in Listed(listing) THEN known
     ELSE IF byIdentity # {} THEN Lowest(byIdentity)
     ELSE Lowest(byNamedStayDay)

(* ListEvents: the events of one calendar that fall on a day of the range. *)
ListEvents(calendar, from, to) ==
  [g \in Ids |-> IF google[g].alive /\ google[g].calendar = calendar /\ google[g].day \in from .. to
                 THEN google[g] ELSE NoEvent]

-----------------------------------------------------------------------------
(* A pass.                                                                 *)

(* ReconcilePropertyDateRange up to the desired events; the listing and    *)
(* the stays are read one after the other, and nothing depends on both.    *)
StartPass(from, to) ==
  /\ pass.pc = "idle"
  /\ Enabled
  /\ pass' = [NoPass EXCEPT
       !.pc = "desired",
       !.calendar = settings.calendar,
       !.today = today,
       !.look = [i \in Identities |-> BuildNamedStayEvent(i)],
       !.listing = ListEvents(settings.calendar, from, to),
       !.todo = {i \in Owners : from <= i[2] /\ i[2] <= to /\ today <= i[2]}]
  /\ UNCHANGED <<stay, settings, today, row, google, hands, faults>>

(* The scheduler, "Reconcile now": from today on.                          *)
ReconcileProperty ==
  /\ StartPass(today, LastDay)
  /\ UNCHANGED waiting

(* The end of a stay request: its pass, over old and new dates.            *)
ReconcileStayRange(range) ==
  /\ range \in waiting
  /\ waiting' = waiting \ {range}
  /\ StartPass(range.in, range.out)

(* It finds the sync switched off, another process busy, or Google silent. *)
SkipStayRange(range) ==
  /\ range \in waiting
  /\ waiting' = waiting \ {range}
  /\ UNCHANGED <<stay, settings, today, row, google, pass, hands, faults>>

(* Variant: what Google shows does not matter.                             *)
CanSkipUnseen(i, look) ==
  /\ row[i].status = "synced"
  /\ row[i].google # None
  /\ row[i].calendar = pass.calendar
  /\ RowLook(row[i]) = look

(* canSkipGoogleUpsert: nothing to tell Google.                            *)
CanSkip(i, look) ==
  /\ row[i].status = "synced"
  /\ row[i].google \in Listed(pass.listing)
  /\ row[i].calendar = pass.calendar
  /\ RowLook(row[i]) = look

SkipEvent(i) ==
  /\ pass.pc = "desired" /\ i \in pass.todo
  /\ CanSkip(i, KeepEnd(pass.look[i], row[i]))
  /\ pass' = [pass EXCEPT !.todo = @ \ {i}]
  /\ UNCHANGED <<stay, settings, today, row, google, waiting, hands, faults>>

(* UpsertCleaningCalendarEventByIdentity, and the pending mark of          *)
(* syncUpsert.                                                             *)
UpsertRow(i) ==
  LET look    == KeepEnd(pass.look[i], row[i])
      matched == Match(pass.listing, i, row[i].google)
      event   == IF matched = None THEN row[i].google ELSE matched
  IN
  /\ pass.pc = "desired" /\ i \in pass.todo
  /\ ~CanSkip(i, look)
  /\ row' = [row EXCEPT ![i] =
       [status |-> "pending", pending |-> "upsert", google |-> event, calendar |-> pass.calendar,
        sameDay |-> look.sameDay, short |-> look.short, schedule |-> look.schedule]]
  /\ pass' = [pass EXCEPT !.pc = "upsert", !.at = i, !.todo = @ \ {i},
                          !.reused = @ \cup ({row[i].google, event} \ {None})]
  /\ UNCHANGED <<stay, settings, today, google, waiting, hands, faults>>

(* The events are told; now the rows that stand for nothing any more, with *)
(* the owners as they are now.                                             *)
StartSweep ==
  /\ pass.pc = "desired" /\ pass.todo = {}
  /\ pass' = [pass EXCEPT !.pc = "sweep", !.owners = Owners, !.look = NoPass.look,
                          !.todo = {i \in Identities : row[i].status \notin {"none", "removed"}}]
  /\ UNCHANGED <<stay, settings, today, row, google, waiting, hands, faults>>

Removed(r) == [r EXCEPT !.status = "removed", !.pending = "none"]

(* Variant: a row outside the desired events of this pass is obsolete.     *)
KeepsDesiredOnly(i) ==
  /\ row[i].pending # "delete"
  /\ \/ i[2] < pass.today
     \/ i \in pass.owners /\ row[i].google \in pass.reused \cup Listed(pass.listing)

(* A row of the past, or one whose stay still checks out on its day.       *)
Keeps(i) == row[i].pending # "delete" /\ (i[2] < pass.today \/ i \in pass.owners)

KeepRow(i) ==
  /\ pass.pc = "sweep" /\ i \in pass.todo
  /\ Keeps(i)
  /\ row' = [row EXCEPT ![i].pending = IF i[2] < pass.today /\ @ = "upsert" THEN "none" ELSE @]
  /\ pass' = [pass EXCEPT !.todo = @ \ {i}]
  /\ UNCHANGED <<stay, settings, today, google, waiting, hands, faults>>

(* Its event was taken over by another row in this pass.                   *)
Reused(i) == row[i].pending # "delete" /\ row[i].google \in pass.reused

RemoveReusedRow(i) ==
  /\ pass.pc = "sweep" /\ i \in pass.todo
  /\ ~Keeps(i) /\ Reused(i)
  /\ row' = [row EXCEPT ![i] = Removed(@)]
  /\ pass' = [pass EXCEPT !.todo = @ \ {i}]
  /\ UNCHANGED <<stay, settings, today, google, waiting, hands, faults>>

(* syncDelete: the mark, and nothing more if no event is known.            *)
SyncDelete(i, known, then) ==
  IF known = None
  THEN /\ row' = [row EXCEPT ![i] = Removed(@)]
       /\ pass' = then
  ELSE /\ row' = [row EXCEPT ![i] = [@ EXCEPT !.pending = "delete", !.google = known]]
       /\ pass' = [then EXCEPT !.pc = "delete", !.at = i]

SweepRow(i) ==
  LET matched == Match(pass.listing, i, row[i].google)
      known   == IF row[i].google = None /\ row[i].pending # "delete" THEN matched ELSE row[i].google
  IN
  /\ pass.pc = "sweep" /\ i \in pass.todo
  /\ ~Keeps(i) /\ ~Reused(i)
  /\ SyncDelete(i, known, [pass EXCEPT !.todo = @ \ {i}])
  /\ UNCHANGED <<stay, settings, today, google, waiting, hands, faults>>

EndPass ==
  /\ pass.pc = "sweep" /\ pass.todo = {}
  /\ pass' = NoPass
  /\ UNCHANGED <<stay, settings, today, row, google, waiting, hands, faults>>

(* RetryEvent: the row as it is stored, without a look at the calendar.    *)
RetryEvent(i) ==
  /\ pass.pc = "idle"
  /\ row[i].status # "none"
  /\ IF row[i].pending = "delete" \/ row[i].status = "removed"
     THEN SyncDelete(i, row[i].google, [NoPass EXCEPT !.retry = TRUE])
     ELSE /\ row' = [row EXCEPT ![i].pending = "upsert"]
          /\ pass' = [NoPass EXCEPT !.pc = "upsert", !.at = i, !.retry = TRUE]
  /\ UNCHANGED <<stay, settings, today, google, waiting, hands, faults>>

-----------------------------------------------------------------------------
(* Requests to Google.  A request is refused, or done and answered, or     *)
(* done with its answer lost or the process gone before it is recorded.    *)

(* Variant: the pass forgets the row and stays where it is.                *)
NextPcLost == [pass EXCEPT !.at = None]

(* After the request of a pass, its next row; a retry is over.             *)
NextPc == IF pass.retry THEN NoPass
          ELSE [pass EXCEPT !.pc = IF pass.pc = "upsert" THEN "desired" ELSE "sweep", !.at = None]

(* The event as the payload describes it.                                  *)
Payload(i) == [alive |-> TRUE, owner |-> i, day |-> i[2], calendar |-> row[i].calendar,
               look |-> RowLook(row[i])]

(* Ids nobody has or remembers: Google does not give an id twice.          *)
Fresh == {g \in Ids : /\ ~google[g].alive
                      /\ \A i \in Identities : row[i].google # g
                      /\ ~pass.listing[g].alive
                      /\ g \notin pass.reused}

(* UpsertEvent: PATCH, which also revives a deleted event; POST if there   *)
(* is no such event (any more).                                            *)
UpsertTargets(i) ==
  LET g == row[i].google IN
  IF g # None /\ google[g].alive /\ google[g].calendar = row[i].calendar THEN {g}
  ELSE {Lowest(Fresh)}
         \cup (IF g # None /\ google[g].calendar = row[i].calendar THEN {g} ELSE {})

DoUpsert(i, g) == /\ g \in UpsertTargets(i) /\ g # None
                  /\ google' = [google EXCEPT ![g] = Payload(i)]

Record(i, g) == [row EXCEPT ![i].google = g, ![i].status = "synced", ![i].pending = "none"]

(* Variant: a refused request counts as a removal.                         *)
FailRemoved(i) == [row EXCEPT ![i] = Removed(@)]

Fail(i) == [row EXCEPT ![i].status = "error"]

GoogleUpserts ==
  /\ pass.pc = "upsert"
  /\ \E g \in Ids : DoUpsert(pass.at, g) /\ row' = Record(pass.at, g)
  /\ pass' = NextPc
  /\ UNCHANGED <<stay, settings, today, waiting, hands, faults>>

(* DeleteEvent: 204, or 404 and 410 for what is gone already.              *)
DoDelete(i) ==
  google' = [google EXCEPT ![row[i].google] = IF @.calendar = row[i].calendar THEN Deleted(@) ELSE @]

GoogleDeletes ==
  /\ pass.pc = "delete"
  /\ DoDelete(pass.at)
  /\ row' = [row EXCEPT ![pass.at] = Removed(@)]
  /\ pass' = NextPc
  /\ UNCHANGED <<stay, settings, today, waiting, hands, faults>>

(* The request did not reach Google or was refused.                        *)
GoogleRefuses ==
  /\ pass.pc \in {"upsert", "delete"}
  /\ row' = Fail(pass.at)
  /\ pass' = NextPc
  /\ UNCHANGED <<stay, settings, today, google, waiting, hands, faults>>

(* It was done, but the caller gets a timeout, or dies before the record.  *)
AnswerLost ==
  /\ faults < MaxFaults
  /\ faults' = faults + 1
  /\ \/ pass.pc = "upsert" /\ \E g \in Ids : DoUpsert(pass.at, g)
     \/ pass.pc = "delete" /\ DoDelete(pass.at)
  /\ \/ row' = Fail(pass.at) /\ pass' = NextPc
     \/ row' = row /\ pass' = NoPass
  /\ UNCHANGED <<stay, settings, today, waiting, hands>>

Crash ==
  /\ pass.pc # "idle"
  /\ faults < MaxFaults
  /\ faults' = faults + 1
  /\ pass' = NoPass
  /\ UNCHANGED <<stay, settings, today, row, google, waiting, hands>>

-----------------------------------------------------------------------------
(* Requests about stays and settings, the calendar date, people.           *)

Overlaps(a, b) == a.active /\ b.active /\ a.in < b.out /\ b.in < a.out

(* affectedCleaningDateRange: the dates before and after.                  *)
AffectedRange(old, new) ==
  LET of == {b \in {old, new} : b.active} IN
  [in |-> Min({b.in : b \in of}), out |-> Max({b.out : b \in of})]

(* Any request that changes a stay; then its pass waits for its turn.      *)
EditStay(s, new) ==
  /\ new # stay[s] /\ (new.active \/ stay[s].active)
  /\ \A t \in Stays \ {s} : ~Overlaps(new, stay[t])
  /\ stay' = [stay EXCEPT ![s] = new]
  /\ waiting' = waiting \cup {AffectedRange(stay[s], new)}
  /\ UNCHANGED <<settings, today, row, google, pass, hands, faults>>

UpdateGoogleCleaningSettings(new) ==
  /\ new # settings
  /\ settings' = new
  /\ UNCHANGED <<stay, today, row, google, pass, waiting, hands, faults>>

Midnight ==
  /\ today < LastDay
  /\ today' = today + 1
  /\ UNCHANGED <<stay, settings, row, google, pass, waiting, hands, faults>>

(* Somebody deletes or moves an event, or makes one.                       *)
EditByHand ==
  /\ hands < MaxHands
  /\ hands' = hands + 1
  /\ \/ \E g \in Ids, d \in Days :
          /\ google[g].alive
          /\ google' \in {[google EXCEPT ![g] = Deleted(@)], [google EXCEPT ![g].day = d]}
     \/ \E g \in Fresh, d \in Days :
          /\ Enabled
          /\ google' = [google EXCEPT ![g] =
               [NoEvent EXCEPT !.alive = TRUE, !.day = d, !.calendar = settings.calendar]]
  /\ UNCHANGED <<stay, settings, today, row, pass, waiting, faults>>

PassStep ==
  \/ \E i \in Identities : SkipEvent(i) \/ UpsertRow(i) \/ KeepRow(i) \/ RemoveReusedRow(i) \/ SweepRow(i)
  \/ StartSweep \/ EndPass

Environment ==
  \/ \E s \in Stays : \E new \in Bookings[s] : EditStay(s, new)
  \/ \E new \in Settings : UpdateGoogleCleaningSettings(new)
  \/ Midnight \/ EditByHand

Init ==
  /\ stay \in [Stays -> Booking]
  /\ \A s \in Stays : stay[s] \in Bookings[s] /\ ~stay[s].active
  /\ settings \in Settings
  /\ today = 0
  /\ row = [i \in Identities |-> NoRow]
  /\ google = [g \in Ids |-> NoEvent]
  /\ pass = NoPass
  /\ waiting = {}
  /\ hands = 0
  /\ faults = 0

Next ==
  \/ ReconcileProperty
  \/ \E range \in waiting : ReconcileStayRange(range) \/ SkipStayRange(range)
  \/ PassStep
  \/ \E i \in Identities : RetryEvent(i)
  \/ GoogleUpserts \/ GoogleDeletes \/ GoogleRefuses \/ AnswerLost \/ Crash
  \/ Environment

Spec == Init /\ [][Next]_vars

(* The scheduler runs a pass every interval; a pass that was started goes  *)
(* on; stay requests get the mutex or give up; Google does not refuse the  *)
(* same kind of request for ever.                                          *)
Fairness ==
  /\ WF_vars(ReconcileProperty)
  /\ WF_vars(\E range \in waiting : ReconcileStayRange(range) \/ SkipStayRange(range))
  /\ WF_vars(PassStep)
  /\ WF_vars(GoogleUpserts \/ GoogleDeletes \/ GoogleRefuses)
  /\ SF_vars(GoogleUpserts)
  /\ SF_vars(GoogleDeletes)

FairSpec == Spec /\ Fairness

-----------------------------------------------------------------------------
(* Type invariant.                                                         *)
Row   == [status : {"none", "pending", "synced", "error", "removed"},
          pending : {"none", "upsert", "delete"}, google : Ids \cup {None},
          calendar : STRING \cup {None}, sameDay : BOOLEAN, short : BOOLEAN, schedule : Nat]

Event == [alive : BOOLEAN, owner : Identities \cup {None}, day : Days,
          calendar : STRING \cup {None}, look : Look]

Pass  == [pc : {"idle", "desired", "upsert", "sweep", "delete"}, retry : BOOLEAN,
          calendar : STRING \cup {None}, today : Days, listing : [Ids -> Event],
          look : [Identities -> Look], todo : SUBSET Identities,
          at : Identities \cup {None}, reused : SUBSET Ids, owners : SUBSET Identities]

TypeOK ==
  /\ stay \in [Stays -> Booking]
  /\ settings \in Setting
  /\ today \in Days
  /\ row \in [Identities -> Row]
  /\ google \in [Ids -> Event]
  /\ pass \in Pass
  /\ pass.pc \in {"upsert", "delete"} => pass.at \in Identities

(* Rows only ever name events PMS has written, so that no event somebody   *)
(* made in the same calendar can be patched or deleted through a row,      *)
(* whatever was deleted, moved, lost or retried before.                    *)
OwnEventsOnly ==
  \A i \in Identities : row[i].google # None =>
    LET e == google[row[i].google] IN e.alive => e.owner # None

(* The events people made stay as they are until people change them:      *)
(* matching goes by id and private properties, never by what an event      *)
(* looks like (TestGoogleMatchingHasNoLegacyOrSummaryFallback).            *)
OthersUntouched ==
  [][\A g \in Ids :
       (google[g].alive /\ google[g].owner = None /\ google'[g] # google[g]) => hands' # hands]_vars

Live(i, calendar) ==
  {g \in Ids : google[g].alive /\ google[g].owner = i /\ google[g].calendar = calendar}

(* Unless people edit the calendar, a pass does not give a cleaning a      *)
(* second event: neither after a lost answer nor after a crash, as it      *)
(* lists before it writes.  (A retry does not.)                            *)
PassesInsertOnce ==
  [][\A i \in Identities :
       LET known == Live(i, row[i].calendar) IN
       (pass.pc = "upsert" /\ pass.at = i /\ ~pass.retry /\ known # {} /\ hands = 0)
       => Cardinality(Live(i, row[i].calendar)') <= Cardinality(known)]_vars

(* A pass takes an event away only when the stay it belongs to no longer   *)
(* wants a cleaning on that day, or when that was found by an earlier pass *)
(* that could not finish: a pass over a few days does not delete the       *)
(* cleanings of other days (spec/PMS_32), nor one it has just written.     *)
DueCleaningsStay ==
  [][\A i \in Identities :
       /\ (row[i].pending # "delete" /\ row'[i].pending = "delete") => i \notin pass.owners
       /\ \A g \in Ids : (row[i].google = g /\ google[g].alive /\ ~google'[g].alive /\ hands' = hands)
            => \E j \in Identities : row[j].google = g /\ row[j].pending = "delete"]_vars

(* A row is marked removed while its event stays in the calendar only if   *)
(* this pass counts the event among those it has just written for a row    *)
(* ("removed; Google event reused").                                       *)
RemovedOnlyIfGone ==
  [][\A i \in Identities :
       LET g == row[i].google IN
       (row[i].status # "removed" /\ row'[i].status = "removed" /\ g # None)
       => g \in pass.reused \/ ~google'[g].alive \/ google[g].calendar # row[i].calendar]_vars

(* When stays and settings rest and nobody retries, the calendar comes to  *)
(* show every cleaning that is due, titled by who arrives (if nobody has   *)
(* moved events about), and the rows of all others are removed.            *)
Due(i) == i \in Owners /\ i[2] >= today

Shown(i) ==
  /\ row[i].status = "synced"
  /\ row[i].google # None
  /\ LET e == google[row[i].google] IN
     /\ e.alive /\ e.calendar = settings.calendar
     /\ hands = 0 => e.owner = i /\ e.look.sameDay = SameDayArrival(i)

Gone(i) == row[i].status \in {"none", "removed"}

CalendarAgrees ==
  \A i \in Identities : i[2] >= today => IF i \in Owners THEN Shown(i) ELSE Gone(i)

Rest == stay' = stay /\ settings' = settings /\ (pass'.retry => pass.retry)

CalendarFollowsStays == <>[][Rest]_vars => <>[](Enabled => CalendarAgrees)

=============================================================================
