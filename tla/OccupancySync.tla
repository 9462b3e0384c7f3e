----------------------------- MODULE OccupancySync -----------------------------
(***************************************************************************)
(* The synchronisation of a property with its Booking.com feed             *)
(* (internal/occupancy/sync.go and parse.go) on top of the tables of       *)
(* NamedStays.  A run takes the lease of the property, fetches the feed,   *)
(* parses it and, if every event could be read, reconciles the blocks with *)
(* it in one transaction.  Runs are started by the scheduler of any server *)
(* process and by requests; requests about stays go on meanwhile.          *)
(*                                                                         *)
(* The lease is JobLease's row seen from its users: owners are "run-<id>", *)
(* so no two are alike; a run's fetch ends after 60 seconds and the Ttl is *)
(* five minutes, so a lease lapses only when its run is gone.  A run reads *)
(* the whole body: that it stops at 20 MiB is left out.                    *)
(***************************************************************************)
EXTENDS NamedStays

CONSTANTS
  Runs,         \* synchronisations that may be under way
  Dead,         \* the owner of a lease whose run died
  Publishable,  \* bound: the feeds Booking.com may publish
  MaxFeeds,     \* bound: how often the feed changes
  MaxCrashes    \* bound: how many runs die

ASSUME SyncAssumption ==
  /\ None \notin Runs /\ Dead \notin Runs
  /\ MaxFeeds \in Nat
  /\ MaxCrashes \in Nat

VARIABLES
  published,    \* the feed as Booking.com serves it: version and events
  run,          \* position of each run, and the feed it has fetched
  lease,        \* owner of the property's row in job_leases
  applied,      \* version of the feed reconciled last
  today,        \* the property's date
  crashes       \* runs that died so far

syncVars == <<published, run, lease, applied, today, crashes>>
allVars  == <<vars, syncVars>>

-----------------------------------------------------------------------------
(* Parsing.  An event of the feed has a start and an end day.  No start    *)
(* stands for everything that makes an event unreadable: no DTSTART, one   *)
(* that is no date, or an all-day DTEND that is no date.  No end stands    *)
(* for a DTEND that is missing or, in an event with times, malformed.      *)
RawEvent == [start : Days \cup {None}, end : Days \cup {None}, cancelled : BOOLEAN]
NoRaw    == [start |-> None, end |-> None, cancelled |-> FALSE]
Listed(e) == e # NoRaw

Unreadable == [status |-> "unreadable", range |-> FirstNight]

(* parseVEvent: an unreadable event fails; no end, or one that is not      *)
(* after the start, becomes one night.                                     *)
ParseVEvent(e) ==
  IF e = NoRaw THEN NoEvent
  ELSE IF e.start = None THEN Unreadable
  ELSE IF e.cancelled THEN Cancelled
  ELSE [status |-> "confirmed",
        range  |-> [in  |-> e.start,
                    out |-> IF e.end \in Days /\ e.end > e.start THEN e.end ELSE e.start + 1]]

(* Variant: unreadable events are skipped.                                 *)
ParseSkipping(raws) ==
  [b \in Blocks |-> IF ParseVEvent(raws[b]) = Unreadable THEN NoEvent ELSE ParseVEvent(raws[b])]

ParseICalendarDetailed(raws) == [b \in Blocks |-> ParseVEvent(raws[b])]

ParseErrors(feed) == {b \in Blocks : feed[b] = Unreadable}

-----------------------------------------------------------------------------
(* A row of occupancy_sync_runs; feed is what the run holds in memory.     *)
NoFeed == [version |-> 0, events |-> [b \in Blocks |-> NoRaw]]
Run    == [pc : {"idle", "fetch", "apply", "release"},
           feed : [version : 0 .. MaxFeeds, events : Publishable \cup {NoFeed.events}]]

Idle == [pc |-> "idle", feed |-> NoFeed]

(* Variant: the lease is not asked for.                                    *)
SyncUnleased(r) ==
  /\ run[r].pc = "idle"
  /\ lease' = r
  /\ run' = [run EXCEPT ![r].pc = "fetch"]
  /\ UNCHANGED <<vars, published, applied, today, crashes>>

(* A run that finds the lease taken records "skipped" and ends.            *)
SyncProperty(r) ==
  /\ run[r].pc = "idle"
  /\ lease = None
  /\ lease' = r
  /\ run' = [run EXCEPT ![r].pc = "fetch"]
  /\ UNCHANGED <<vars, published, applied, today, crashes>>

FetchFeed(r) ==
  /\ run[r].pc = "fetch"
  /\ run' = [run EXCEPT ![r] = [pc |-> "apply", feed |-> published]]
  /\ UNCHANGED <<vars, published, lease, applied, today, crashes>>

(* failRun: no connection, an answer other than 2xx, no calendar in the    *)
(* body; later on, a snapshot or the transaction that fails.               *)
FailRun(r) ==
  /\ run[r].pc \in {"fetch", "apply"}
  /\ run' = [run EXCEPT ![r] = [pc |-> "release", feed |-> NoFeed]]
  /\ UNCHANGED <<vars, published, lease, applied, today, crashes>>

(* partial_no_mutation                                                     *)
FinishPartial(r) ==
  /\ run[r].pc = "apply"
  /\ ParseErrors(ParseICalendarDetailed(run[r].feed.events)) # {}
  /\ run' = [run EXCEPT ![r] = [pc |-> "release", feed |-> NoFeed]]
  /\ UNCHANGED <<vars, published, lease, applied, today, crashes>>

ReconcileFeed(r) ==
  LET feed == ParseICalendarDetailed(run[r].feed.events) IN
  /\ run[r].pc = "apply"
  /\ ParseErrors(feed) = {}
  /\ ReconcileBookingICSSync(feed, today)
  /\ applied' = run[r].feed.version
  /\ run' = [run EXCEPT ![r] = [pc |-> "release", feed |-> NoFeed]]
  /\ UNCHANGED <<published, lease, today, crashes>>

(* The deferred ReleaseJobLease: DELETE ... WHERE owner = run-<id>.        *)
ReleaseLease(r) ==
  /\ run[r].pc = "release"
  /\ lease' = IF lease = r THEN None ELSE lease
  /\ run' = [run EXCEPT ![r] = Idle]
  /\ UNCHANGED <<vars, published, applied, today, crashes>>

(* The server stops, or the handler panics, before the release.            *)
CrashRun(r) ==
  /\ run[r].pc # "idle"
  /\ crashes < MaxCrashes
  /\ crashes' = crashes + 1
  /\ run' = [run EXCEPT ![r] = Idle]
  /\ lease' = IF lease = r THEN Dead ELSE lease
  /\ UNCHANGED <<vars, published, applied, today>>

LapseLease ==
  /\ lease = Dead
  /\ lease' = None
  /\ UNCHANGED <<vars, published, run, applied, today, crashes>>

-----------------------------------------------------------------------------
(* Booking.com, the calendar, and the other requests.                      *)
Publish(events) ==
  /\ published.version < MaxFeeds
  /\ published' = [version |-> published.version + 1, events |-> events]
  /\ UNCHANGED <<vars, run, lease, applied, today, crashes>>

Midnight ==
  /\ today < LastDay
  /\ today' = today + 1
  /\ UNCHANGED <<vars, published, run, lease, applied, crashes>>

StayOrClosureRequest ==
  /\ \/ \E s \in Stays : StayRequest(s)
     \/ \E c \in Closures : ClosureRequest(c)
  /\ UNCHANGED syncVars

RunStep(r) ==
  SyncProperty(r) \/ FetchFeed(r) \/ FailRun(r) \/ FinishPartial(r) \/ ReconcileFeed(r)
    \/ ReleaseLease(r) \/ CrashRun(r)

SyncInit ==
  /\ Init
  /\ \E events \in Publishable : published = [version |-> 0, events |-> events]
  /\ run = [r \in Runs |-> Idle]
  /\ lease = None
  /\ applied = 0
  /\ today = 0
  /\ crashes = 0

SyncNext ==
  \/ \E r \in Runs : RunStep(r)
  \/ LapseLease
  \/ \E events \in Publishable : Publish(events)
  \/ Midnight
  \/ StayOrClosureRequest

SyncSpec == SyncInit /\ [][SyncNext]_allVars

(* The scheduler starts another run every interval; a run that was started *)
(* goes on; the feed can be fetched and stored again and again.            *)
SyncFairness ==
  /\ WF_allVars(\E r \in Runs : SyncProperty(r))
  /\ WF_allVars(LapseLease)
  /\ \A r \in Runs :
       /\ WF_allVars(ReleaseLease(r))
       /\ WF_allVars(FetchFeed(r) \/ FailRun(r) \/ FinishPartial(r))
       /\ SF_allVars(FetchFeed(r))
       /\ SF_allVars(ReconcileFeed(r))

FairSyncSpec == SyncSpec /\ SyncFairness

-----------------------------------------------------------------------------
(* Type invariant of the synchronisation.                                  *)
SyncTypeOK ==
  /\ published \in [version : 0 .. MaxFeeds, events : Publishable]
  /\ run \in [Runs -> Run]
  /\ lease \in Runs \cup {None, Dead}
  /\ applied \in 0 .. MaxFeeds

(* At most one run of a property is under way, and it owns the lease, until *)
(* it has released it or died ("sync_already_running").                    *)
OneRunHoldsLease == \A r \in Runs : run[r].pc # "idle" => lease = r

(* Feeds are applied in the order they were published, whoever fetched     *)
(* them and however long a run took from its fetch to its transaction: the *)
(* blocks never go back to an older feed.                                  *)
FeedsInOrder == [][applied' >= applied]_allVars

(* A block that some feed since the last one applied still lists, readable *)
(* or not, is not taken for gone: "a skipped event can never be mistaken   *)
(* for a disappeared one" (sync.go:118).  Only a feed that omits or        *)
(* cancels the event deletes the block.                                    *)
OnlyOmittedBlocksGo ==
  [][\A b \in Blocks :
       (block[b].status = "active" /\ block'[b].status # "active") =>
         \E r \in Runs :
           /\ run[r].pc = "apply"
           /\ Listed(run[r].feed.events[b]) => run[r].feed.events[b].cancelled]_allVars

(* Once the feed no longer changes and can be read, the blocks become and  *)
(* stay what it lists; what it does not list is gone, or has checked out.  *)
Final == published.version = MaxFeeds /\ ParseErrors(ParseICalendarDetailed(published.events)) = {}

BlockAgrees(b) ==
  LET e == ParseVEvent(published.events[b]) IN
  IF e.status = "confirmed" THEN block[b] = [status |-> "active", range |-> e.range]
  ELSE block[b].status = "active" => e = NoEvent /\ block[b].range.out < today

BlocksFollowFeed == []<>Final => <>[](\A b \in Blocks : BlockAgrees(b))

(* Links that mislead about an active stay, as they do when it was made    *)
(* active again, are put right by a later synchronisation.                 *)
LinksHeal ==
  []<>Final => \A s \in Stays : (Active(s) /\ ~HealthTold(s)) ~> (~Active(s) \/ HealthTold(s))

=============================================================================
