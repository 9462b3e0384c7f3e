# A verification project for PMS

PMS is the back office of a small short-term-rental business: a Go server over
one SQLite database, with Booking.com calendars (ICS), Nuki smartlocks, Google
Calendar and Booking.com statements as its external parties. This directory
holds TLA+ specifications of its core logic, TLC configurations that check them
on small instances, and TLAPS proofs of theorems about them for every value of
the constants.

## 1. Inventory of the system

One process serves HTTP requests, each in a goroutine of its own, and runs one
goroutine per periodic job (`backend/cmd/server/main.go`). Requests and jobs
share nothing but the database and the external services; there are almost no
in-memory locks. SQLite serialises the writers, so one statement, or one
transaction, is atomic, and everything between two statements can interleave.
A request's context is cancelled when its client goes away: every later
statement and call of that request then fails.

| Component | State | Operations | What makes it hard | What makes it correct |
|---|---|---|---|---|
| Job leases and schedulers (`store/job_leases.go`, `cmd/server/main.go`) | `job_leases` | acquire, renew, release | whole-second text timestamps, runs longer than the lease, dead holders | exclusion for the Ttl; a late release evicts nobody; the job runs again |
| Nuki credential lifecycle (`nuki/service.go`, `store/nuki_managed_credentials.go`, `store/nuki.go`) | `nuki_managed_credentials`, `nuki_access_codes`, the provider's authorizations | generate, update after an edit, revoke, clean up; passes over pending creations, updates, deletions | accepted requests take effect later, answers without an id, lost answers, aborted requests, overlapping workers, rebinding to another lock | an identity comes from an inventory; "deleted" means gone; pending work ends |
| Occupancy ICS synchronisation (`occupancy/`, `store/occupancy_reconciliation.go`) | `raw_booking_blocks` and nights | fetch, parse, reconcile | slow fetches under a five-minute lease, partial feeds | a partial feed changes nothing; feeds are not applied backwards; blocks and links come to follow the feed |
| Named stays and source links (`store/named_stays.go`, `store/stay_source_links.go`, `store/late_checkout.go`) | `named_stays`, nights, links, late-checkout entries | create, edit, cancel, outcome, link | overlap with blocks and closures, links that go stale | no night is sold twice; link health says what the blocks say |
| Cleaning calendar (`cleaningcalendar/`, `store/cleaning_calendar.go`) | `cleaning_calendar_events`, Google events | reconcile, retry, clean up | lost answers, crashes between Google and the database, people who edit the calendar | one event per cleaning; events of others are untouched; the calendar comes to show what is due |
| Cleaning log and salary (`nuki/service.go`, `store/cleaning.go`, `store/nuki_guest_logs.go`) | daily rows, fees, adjustments | passes over the lock's log, fees, salary | sliding windows, full pages, cut-off passes | every entry is counted; the day's fee is the one in force |
| Finance transactions and recurring rules (`store/finance.go`, `store/finance_reset.go`, `api/finance_handlers.go`) | rules, opened months, transactions, files | rule CRUD with resync, open a month, transactions with attachments, reset | a rule and its months are written in many statements, two requests interleave, a reset comes in between | opened months follow the rules; no orphans; a reset keeps the cleaner's pay |
| Finance imports and statements (`api/finance_imports_handlers.go`, `store/finance_bookings_merge.go`, `finance/statements/`) | previews, bookings, evidence, corrections | preview, commit, merge, map, reset | the preview goes stale, one transaction per row, two sources for one booking | the order of the exports does not matter; the ledger follows the bookings; corrections count once |
| Invoices (`api/invoice_handlers.go`, `store/invoices.go`) | invoices, sequences, PDFs | create, edit, render, reset | row, file and version are three steps | numbers are final; an invoice and its booking belong together |
| Revenue recognition and analytics (`store/analytics*.go`, `store/finance_revenue_recognition.go`, `api/analytics_handlers.go`) | none (reads) | four pages and the recognition of a month | about thirty queries, each with its own filters and its own cutting of nights | the same night and the same cent count once on every page |
| Users, sessions, TOTP; backups; messages; migrations; one-off commands; frontend | | | sequential, or independent of the rest | |

How they interact: the edit handlers of a stay call the Nuki service and the
cleaning calendar after they have stored the stay; the ICS synchronisation only
writes blocks and links; payout imports rename stays and write ledger rows;
invoices follow bookings; the cleaning log feeds the salary rows of the ledger;
analytics read all of it. The list of the behaviours that are hard to test,
each with its line, is `hazards` in `PROJECT.json`.

## 2. How the modules fit together

| Module | extends | run | proofs |
|---|---|---|---|
| `JobLease` | | `lease` | `JobLease_proofs` |
| `NukiCredentials`, `NukiLifecycle`, `ManagedCredential` | `NukiLifecycle` extends `NukiCredentials` and implements `ManagedCredential` | `nuki_safety`, `nuki_live`, `nuki_never_dispatched` | `NukiLifecycle_proofs` |
| `NamedStays` | | `stays` | `NamedStays_proofs` |
| `OccupancySync` | `NamedStays` | `occupancy_sync` | `NamedStays_proofs` |
| `CleaningCalendar` | | `cleaning_calendar` | `CleaningCalendar_proofs` |
| `FinanceLedger` | `CleaningLog` | `finance_ledger` | `FinanceLedger_proofs` |
| `FinanceImport` | `Invoices`, which extends `StatementMerge` | `finance_import`, `import_cancellation`, `import_overwrites` | `FinanceImport_proofs` |
| `BookingAnalytics` | `StayAnalytics`; uses `RevenueAllocation` | `analytics` | `BookingAnalytics_proofs` |
| `Sums` | `Functions` of the community modules | | a library of lemmas about sums, used by the proofs of `FinanceLedger`, `CleaningCalendar` and `BookingAnalytics` |

Compositions share variables: `OccupancySync` adds the runs of the
synchronisation to the tables of `NamedStays` and keeps its requests as they
are; `FinanceLedger` puts the passes over the lock's log next to the requests
that pay for what they count; `FinanceImport` runs commits against the invoices
of the same bookings. What crosses the other borders is reduced to what the
module reads of it: the lifecycle of a code sees of a stay a version and
whether it is eligible, the cleaning calendar sees bookings that may change at
any time, an import sees stays that are renamed and cancelled at any time.

What would come next, in this order: a small protocol of enrolment, recovery
codes and the provisioning gate (`Totp`); the incident recovery as one more caller
of `NukiCredentials`.

## 3. Modules

### JobLease

The row of one job as `lease` (owner, ticks until a peer may take it over), the
contenders that are inside the job (`running`, `elapsed`), and `phase`, the
position of the clock inside a second. Both timestamps of the row are written
with whole seconds and compared with `<`; `TakeoverIn` computes when that
comparison first succeeds for a peer. `TryAcquireJobLease` is the UPSERT,
`ReleaseJobLease` the DELETE of the ICS synchronisation and the cleaning
calendar (the scheduler ticks never release: constant `Releases`), `Crash` a
process that dies with the row in place. Contenders may share an owner value
(`OwnerOf`), which the cleaning calendar's owner, an object address, allows; two
of them would both be inside, which is why the theorem asks for distinct ones.

### NukiCredentials and NukiLifecycle

`NukiCredentials` holds the data: `cred` (rows of `nuki_managed_credentials`),
`code` (`nuki_access_codes`, one per stay), `stay` (what the lifecycle reads of a
stay: eligible or not, a version that stands for label and window, and which
versions' windows are over), `auth` (the provider: one element of `Auths` is
one authorization, identified with the PIN that was drawn for it, since a
correlation compares the PIN), and `lock` (the configured smartlock); and one
operator per write of the store with the condition of its WHERE clause.

`NukiLifecycle` holds the goroutines. `proc[p]` is the program counter of a
request or a worker and the values it has read and not used yet (row, revision,
code, inventory, wanted version). An action is one statement with the local
computation around it, so a code path is a chain of actions:

| Code | Chain of actions |
|---|---|
| `generateCodesInternal`, no code row | `Generate`, `CreateNukiManagedCredential`, `SendCreation`, `RecordAcceptance`, `ProjectPending`, `LinkProjection`, `StartInlinePass`; on refusal `RecordFailure`, `ProjectFailure` |
| the same, a name of more than 32 characters | `RefuseLongName`, `ProjectFailure`: over whatever code the stay has, whose identity is lost |
| the same, code row present | `TouchCode`; `SendDirectUpdate`, `ProjectDirectUpdate`; `CheckPending`, `SendRecreation`, `ProjectRecreation` |
| edit handlers and `MaintainNamedStay` | `EditStay`, `MaintainNamedStay`, `StartUpdate`, `SendUpdate`, `ObserveUpdate`, `ConfirmUpdate`, `ProjectUpdate`, or the deletion chain |
| `RevokeCode`, `DeleteKeypadCode`, `CleanupExpiredCodes`, `dispatchDeletion` | `RevokeCode` or `CleanupExpiredCodes`, `StartNukiManagedDeletion`, `ReadDeletion`, `SendDeletion`, `RecordDeletionError` or `RecordDeletionAccepted`, then a pass over deletions |
| the three reconciliation passes | `StartPass`, `TakeSnapshot`, then per row `ClaimItem`, `DecideCreation`, `ConfirmItem`; `DeletionItem`, `RecordDeletionItem`; `UpdateItem`, `ProjectUpdateItem` |

Reads that follow each other with no write in between are one action.
`StartNukiManagedUpdate` reads a row and updates it with a compare-and-set in
the next statement; a compare-and-set that fails there is a failure at that
time, so the pair is one action.

The environment: `Abort` (a client disconnects, a handler panics, the server
restarts: the rest of the goroutine's work is lost), `Rebind` (another
smartlock is configured), `Expire`, `RetryDue`, `UpdateFinanceMatchedStayName`
(a payout import renames the stay), and the provider. A request to the provider
is accepted (204) and carried out later, refused, or its answer is lost, which
leaves it carried out or not; an accepted creation may be dropped (`"drop"`).
The provider and its timing are modelled from how `nuki/client.go` and the
service use them.

Left out: `nuki_generation_status` of a stay and the sync-run and event logs
(shown, never read by the lifecycle), the keypad cache, `SetKeypadCodeEnabled`,
the mock client, collisions of the six-digit PIN, `findMatchingKeypadEntry`
(returns nothing), rows without a stay, the property's late-checkout change
(`MaintainLateCheckoutStays` is a sequence of maintenances). `DeleteKeypadCode`
is the same chain as `RevokeCode`.

### ManagedCredential

What one row promises, whoever works on it: the lifecycle of
`operation_state`; a row is bound only to an identity the inventory has shown
and keeps it; it is deleted only when the identity is absent. It leaves open
when that happens and through which goroutine. `NukiLifecycle` implements it
under the mapping `Managed`: the state of a row as it is, its identity as the
pair of lock and authorization, the provider's inventory as the set of pairs
present. It allows `deleted` to be reopened, as `StartNukiManagedDeletion`
does: its SELECT may find a row that was confirmed after its UPDATE.

### NamedStays

The tables of one property: `stay` (`named_stays`), `night` and `raw` (the
active nights of stays and of blocks), `link` (`stay_source_links`), `block`
(`raw_booking_blocks`), `closure` (`property_availability_blocks`), and `ledger`
(the two transactions of a late checkout). Each operation is one SQLite
transaction and so one action: `CreateNamedStayRecord`,
`PromoteRawBookingBlock`, `UpdateNamedStayRecord`, `UpdateNamedStayStatus`,
`UpdateNamedStayOutcome`, `CreateAvailabilityBlock`, `UpdateAvailabilityBlock`
and `ReconcileBookingICSSync`, which applies a parsed feed: blocks it does not
mention and that have not checked out disappear, events are stored, and the
health of every active stay's links is recomputed. The feed is any assignment of
events (confirmed, cancelled or none) to UIDs.

Dates are day numbers. The links of a stay are one record, because every
statement writes all of them alike; a stay promoted from a block has one, a stay
taken over from the former model, with which a property may start, may have
several, with the health that migration 000039 demands. No code path unlinks a stay by hand any more, so
`manual_unlinked` links, which every query skips, do not occur. Stays, blocks and
closures are never deleted. Transactions that edit or delete a ledger entry
refuse generated ones, and the finance reset spares them, so nothing else writes
`ledger`. Details that no check reads (names, prices, revenue, review) are left
out, as are the Nuki and cleaning calendar calls after the commit.

### OccupancySync

The synchronisation on top of `NamedStays`. A run takes the lease
(`SyncProperty`), fetches what Booking.com serves at that moment (`FetchFeed`),
parses it (`ParseICalendarDetailed`, `ParseVEvent`) and, if every event could
be read, applies it in one transaction with the blocks, nights and link health
of `NamedStays` (`ReconcileFeed`); with one unreadable event it ends without
touching anything (`FinishPartial`). `FailRun` is every other error, `CrashRun`
a server that stops with the lease in place, `LapseLease` the five minutes
going by, `Publish` a feed that changes, and `StayOrClosureRequest` every
request of `NamedStays`. That a lease lapses only after its run is gone rests
on the fetch's own timeout of 60 seconds; `SyncUnleased`, a run that ignores
the lease, is what it guards against. An event without a start stands for every
event that `parseVEvent` cannot read, one without an end for a DTEND that is
missing or, with times, malformed. A body is read whole: that a longer one is cut
at 20 MiB (`sync.go:98`) is left out.

### CleaningCalendar

A pass over a range of days lists Google's events, writes a row and then an
event for every stay that checks out and wants a cleaning (`UpsertRow`,
`KeepRow`, `SkipEvent`), reads the owners again (`StartSweep`) and takes away
what nobody owns (`SweepRow`, `RemoveReusedRow`). `ReconcileProperty` is the
pass over the whole future, `ReconcileStayRange` the one a stay request asks
for, or gives up (`SkipStayRange`), `RetryEvent` replays a row without listing.
Google is a keyed store: PATCH of an event that is gone revives it or inserts
another, deletion of what is gone succeeds, an id is not given twice. A request
to it is done, refused, or done without its answer being recorded
(`AnswerLost`); `Crash` stops a pass anywhere; `EditByHand` is people who delete, move
and add events. Titles, descriptions and reports are left out, except what
makes a pass write an event again: same-day arrival, short cleaning, schedule.

### CleaningLog and FinanceLedger

`CleaningLog`: the lock's log, the rows that passes make of it
(`cleaning_daily_logs`, `nuki_guest_daily_entries`), fees, adjustments and the
salary they add up to. A pass reads a window (`ListSmartlockEvents`, which is an
error when all pages are full), keeps the first entry of every person and day
(`Firsts`), and writes row after row; `CutPass` ends it anywhere. `Tick` lets
the clock advance only while some complete pass lies within the last
`Lookback`: the job runs every few hours and looks back 45 days, so this says
that the server is not without a complete pass for 45 days.

`FinanceLedger`: `rules`, the rows they generate, `opened` months, `salary` and
late-checkout rows, manual transactions and the files on disk. A request is the
chain of its statements: a change of a rule commits
(`PostFinanceRecurringRule`, `UpdateFinanceRecurringRule`,
`DeleteFinanceRecurringRule`), lists the opened months
(`ListOpenedFinanceMonths`), and for each computes the salary
(`ResyncNextMonth`; when the log cannot be read, the code syncs on without one)
and then syncs the month in a transaction
(`SyncFinanceGeneratedEntriesForMonth`). Amounts are signed: below zero goes out,
as the direction of a rule or transaction says, and
`ComputeFinanceOtherMovements` is what the summary reports of a month in either
direction. A transaction with a file is saved,
then its file, then the link. `ResetFinanceRecords` is one transaction, the
files follow (`DeleteFinanceResetFiles`). `CutRequest` ends a request between
any two statements; a month it has not synced then joins `abandoned`, a history
variable that no guard reads. Categories, notes and reports are left out, and the
late-checkout charges to guests, which a reset keeps with the bonuses
(`NamedStays` has them).

### StatementMerge, Invoices and FinanceImport

`StatementMerge`: which records of an upload are kept and what `Merge` makes of
a booking and a record, with one column for each rule of precedence (the
statement wins, the payout wins, only payouts give it, latest).

`Invoices`: `invoices`, `sequences`, the PDFs on `disk`, and requests that save
the row with its links and number, read it back, write the PDF under the name
of number and version, and attach the version. `issued` records every number
given.

`FinanceImport`: `PostFinanceImportPreview` makes the plan of an upload
(`PlanOf`: merge, match with stays, candidates), `PostFinanceImportCommit`
checks the whole plan against the database, `CommitRow` writes one row in a
transaction with booking, ledger row or correction, stay name and links,
`CommitEvidence` the statements without a booking, `FinishCommit` ends it. The
token of a preview is taken once and given back when the commit fails;
`Disconnect`, `Restart` and `ExpirePreview` are the ways it gets lost.
A stay left to review by the migration is confirmed by such evidence
(`ConfirmNamedStayWithFinanceEvidence`). Meanwhile `EditStay`,
`MapFinanceBookingPayout`, `ResetFinanceRecords` and the requests
of `Invoices` go on. A row that marks a stay for review waits for its own
transaction and fails (`RowSucceeds`, finding `import_cancellation`). The
earlier importer (`importFinanceBookingPayouts`) has no route and is not
modelled.

### RevenueAllocation, StayAnalytics and BookingAnalytics

`RevenueAllocation` is `allocateFinanceGross` with Go's division. `StayAnalytics`
has the queries on nights (windows, months, weeks, weekdays, gaps, lead times,
pace, returning guests),
`BookingAnalytics` those on money and the requests of the four pages, which put
into `report` what they answer. Nothing is written: `Init` chooses the rows of
the property, subject to `SoldOnce`, which is what `NamedStays_proofs` proves of
them, and one request is asked. The code writes its filters out in every query;
those that are equal there are one operator here (`Sellable`, `Payouts`,
`Gross`), so the agreement the run and the proofs show is of what the queries do
today with different filters and different groupings, and a copy that drifts
from the others would have to be translated anew to show. Dates are day numbers, windows sets of days, and
the calendar is scaled: months of `MonthLength` days and weeks of `WeekLength`.
Days have 24 hours here; the one computation the code does with 24 hours instead
of a calendar day (`ListUnsoldNightsWithContext`, the neighbours of a free
night) therefore shows nothing about the nights on which clocks change.

## 4. Runs

| Run | Instance | Question |
|---|---|---|
| `lease` | 3 contenders, 3 ticks a second, Ttl 4, runs up to 8 ticks | Does the lease exclude, survive crashes, and ignore late releases? |
| `nuki_safety` | 2 requests, a worker, 1 stay, 2 authorizations, 2 locks, 2 rows | Do concurrent, aborted and stale goroutines keep every row's promise; can a single client open two authorizations? |
| `nuki_live` | fair scheduler, 1 request and a worker, 2 rows, 2 versions of the stay | Do pending creations and deletions end, also while the stay changes? |
| `nuki_never_dispatched` | 1 request, a worker, a refused deletion | violated: a refused deletion counts as accepted |
| `stays` | 2 stays, 1 closure, 2 blocks, 3 nights, three kinds of stay | Is a night ever sold twice or while closed; do ledger entries and derived rows follow; do link warnings come and go with coverage? |
| `occupancy_sync` | 2 runs, 1 stay, 1 block, feeds that change once, 1 crash | Are feeds applied in order; do only omitted events delete; do blocks and links come to follow the feed? |
| `cleaning_calendar` | 2 stays, 3 event ids, days 0 to 2, 1 edit by hand, 1 fault | Are foreign events safe, inserts single, and does the calendar converge? |
| `finance_ledger` | 2 requests, 2 rules, 2 months, 2 transactions, 2 passes | Do opened months follow the rules, rows have rules, files exist, entries count, and does a reset keep the cleaner's pay? |
| `finance_import` | 2 references, 2 stays, 5 uploads, 3 tokens, 2 invoices, 2 requests | Does the order of exports not matter; do ledger, corrections, invoices and their files stay consistent? |
| `import_cancellation` | the same | violated: a cancellation of a known booking is never taken over |
| `import_overwrites` | the same | violated: a row overwrites what changed after the check |
| `analytics` | 2 stays, 2 closures, 2 bookings, 6 nights in 2 months | Do the pages agree on nights and money, are cents conserved, does the pace follow? |

Several runs ask questions apart (`question` in their MC module) so that their
state spaces add up instead of multiplying: each question restricts which steps
are taken, and all of them together take every action. `nuki_safety`: requests
and a worker on one code; one client that is cut off again and again; lock, stay
and code that change under a request and a worker. `nuki_live`: codes that are
generated and revoked; a stay that is edited, renamed and expires, where requests
begin only below revision 3. `cleaning_calendar`: a
turnover, a cancellation with faults and retries, settings, a move, edits by
hand. `finance_ledger`: the passes over the log for the cleaner and for guests,
rules, pay, files. `finance_import`: imports, corrections, versions of an
invoice, links of invoices. `analytics`: rows that vary in nights, in money or in
the course of bookings. What a question leaves out the others or the proofs
cover, except combinations of all (an import during a reset during an edit of an
invoice with a file), which no run explores.

Bounds. In the Nuki runs `MaxCred` rows, `MaxVer` edits and `MaxRev` revisions
bound the counters; the guards that use them are `Fresh`, `Vers`, `Room`,
`Progressable` and `WithinBound`. Two rows of one stay are what a regeneration
after a deletion needs, two authorizations what a double creation needs, and two
requests with a worker give every pair of code paths, one of them twice.
`MaxRev` bounds how many times a row is worked on: five admit a whole life
(creation, claim, confirmation, deletion, confirmation); in the third question
of `nuki_safety` nothing begins above revision 3. `ReviewRevision` is the code's
22, lowered so that the branch is reached (its write matches no row, which is
what `UnmatchedIntentsStay` says). PINs and requests are
interchangeable, which is the symmetry of that run. In the stay runs `LastDay`
bounds the calendar: three nights hold two adjacent stays, overlaps at either
end and a gap in the middle of a coverage; two blocks give every union.
`occupancy_sync` has one block and two nights because liveness is checked
without symmetry; one change of the feed and two runs suffice to apply feeds in
the wrong order if the lease did not forbid it. In `cleaning_calendar`
`MaxHands` and `MaxFaults` bound edits by people and lost answers or crashes;
three ids are what a row, its replacement and an event of somebody else take. In
`finance_ledger` `MaxTime` 3 with days of two instants gives two days in two
months; `LogBudget` 4 makes a full log reachable. In `finance_import` `MaxResets`
and `MaxEdits` are one, and `MaxVersion` 2 lets two requests render the same
version after an earlier one. In `analytics` two stays within six nights meet the
ends of a month, of a week and of the window in every way, and seven cents do
not divide by the nights.
Deadlock is checked in `lease`, `stays`, `occupancy_sync` and
`cleaning_calendar`. The Nuki and finance runs may use up their bounds, and an
analytics run ends with its answer.

Fairness. `lease` assumes that the clock advances, a run returns and every
scheduler keeps trying. `nuki_live`: a goroutine that runs goes on; a tick runs
each pass in turn and there is always another tick, so every pass that can start
again and again does (strong fairness of `StartPass` for workers); retry times
pass; the provider carries out what it accepted. Requests have no fairness to
begin with. In that run the provider does not refuse and the server is not
restarted for good, since otherwise nothing need ever be confirmed; answers are
lost and requests are aborted at any point. `occupancy_sync`: the scheduler
starts a run every interval, a lease of a dead run lapses, a run goes on; and a
feed that can be fetched and stored again and again is (strong fairness of
`FetchFeed` and `ReconcileFeed`: runs may fail, not for ever).
`cleaning_calendar`: the scheduler runs a pass every interval, a pass goes on,
stay requests get the mutex or give up, and Google does not refuse the same kind
of request for ever. Convergence is only claimed once stays and settings rest
and nobody retries.

The three violations are real disagreements between the code and its own
comments and specifications, listed under `findings` in `PROJECT.json` with the
lines they contradict.

## 5. Proofs

Every theorem holds for all values of the constants that satisfy the assumptions
at the end of this section, so for any number of stays, rows, goroutines,
months or events, where the runs have two or three of each.

### JobLease_proofs

`LeaseExcludes`: contenders with distinct owner values exclude each other for
the Ttl. The exclusion is not inductive by itself: a lease also has to last at
least as long as its holder still has to its Ttl, so the invariant relates
`lease.left` to `elapsed` of the holder, and says that a contender that does
not hold the row has outlasted its Ttl. The arithmetic fact underneath is that
`TakeoverIn` is more than the Ttl and at most the Ttl plus one second.
`StaleReleaseIsHarmless`: a late release leaves the row of the one that holds
the lease in place, again for distinct owner values.

### NukiLifecycle_proofs

`DeletionsAreReal` (a deleted row's authorization is gone) and
`IdentitiesAreObserved`. Neither is inductive: a goroutine confirms from what
it has read earlier. `SafetyInv` adds what the columns of a row say about each
other (one that is being created has no identity, one that waits for deletion
or is deleted has one; a bound identity has materialised) and, for every
goroutine, what its stale copies are still good for: an identity it has copied
or seen in an inventory has materialised; the row it is creating exists, and
has been written again if it has got an identity meanwhile; a row due for
deletion keeps the identity and the lock it was listed with, and if the
inventory of that lock omits the identity, it is gone; a PIN it has drawn is
nobody else's. Two relations carry this across the steps of others:
`AuthAdvances` (an authorization that materialised keeps its lock, and one that
is gone stays gone) and `CredAdvances` (revisions grow, a row does not become
absent, and an identity and its lock are never exchanged). Each action is then
shown to keep `SafetyInv`, and the environment's steps to advance in this sense.

`LifecycleImplemented`: `NukiLifecycle` implements `ManagedCredential` under
`Managed`. Each step has to be one move of one row's lifecycle, one change of
the inventory, or neither, although the write of a row is guarded by its
revision alone and its writer decided on the state it had read long before.
`TrackInv` therefore adds to `SafetyInv` that a row which still has the revision
somebody read has the state he read (`Unmoved`: every write raises the
revision, and revision 1 is only that of a row just inserted, `Started`), and that
what an inventory lists is on the lock the row is on (`Located`, `LocalTracked`),
so that the identity which is bound is one that was shown. Every action of a
goroutine then writes at most one row, with one of the moves of `RowMoves`, while
the inventory rests (`AuthCalm`); a provider that carries out a creation is
`Appear` of the abstract specification, one that carries out a deletion `Vanish`.

`UnmatchedIntentsStay`: a decision about an intent that the inventory does not
show changes no row. This is a disagreement with PMS 35 (4.2), which asks to back
off and in the end to expose `needs_review`: the claim raises the revision and
`service.go:385` passes the raised revision where the one after it is needed (line
352 has it right), so that the compare-and-set misses whatever the row has gone
through since (`DecisionMisses`). The intent is due again in the next pass.

`LoneClientCorrect`: a client that is alone opens at most one authorization for
each stay whose name fits the lock (`OneClientOneAuthorization`, the second question of `MCNukiSafety`,
whose specification the theorem is about). That is a count, and the invariant
behind it (`LoneInv`) a correspondence: whatever the provider has been asked for
is held by a row (`LoneAuths`), as the PIN of an intent or as the identity of an
active row; a stay has at most one row (`LoneRows`); and a code without identity
has an intent behind it (`LoneCodes`), so that a repeated Generate finds the
pending row whatever statement the first was cut off at. `LoneLocal` says where
such a client can be; creating without an intent (`SendRecreation`) is not among
the places. The injection from authorizations to stays then bounds the one by the
other. The theorem needs no bound on how often an intent is looked at, because an
intent is never put to review (`UnmatchedIntentsStay`). With that write repaired
the row would no longer hold the next creation back, since neither
`HasPendingNukiManagedCredentialForStay` nor the unique index counts
`needs_review`, and the repair has to change both (TLC finds the second
authorization otherwise).

### NamedStays_proofs

Every property of `stays`, for any calendar. Requests about stays differ in what
they check, but each writes a stay, its nights and its ledger entries together
(`StayWritten`, `RequestWritesStay`), so the invariants are proved of that one
shape. `NoNightSoldTwice` speaks about dates while the code compares nights; it
is inductive only together with `DerivedRowsAgree`, and the bridge is
`OverlapSharesNight`. The two action properties follow from `LinkStep`: each
step either leaves a stay's links and what they are judged by alone, or leaves
them saying what the blocks say; only a change of status can make a stay active
by the first way.

The module also holds the safety of `OccupancySync`. A run that is under way
owns the lease (`LeaseHeldByTheRun`), from which it follows that feeds are
applied in order: the invariant adds that a fetched feed is at least as new as
the one applied (`FetchedIsNewer`), which only holds because no other run can
apply one meanwhile. `PartialFeedsDeleteNothing` follows a block through
`ReconcileFeed` of `NamedStays`.

### CleaningCalendar_proofs

All safety properties of `cleaning_calendar`. `OnlyOwnEvents` and
`OthersLeftAlone`: a row takes an event id from the listing of its pass, which
is old when it is used, so the invariant adds that what was listed as an event
of PMS is not anybody else's now (`ListedStayOwn`); that an id is not given
twice keeps it.

`DueCleaningsKept` and `RemovalsAreReal` follow deletions: between the mark on a
row and the request to Google lies a retry, a crash or another pass, and
`DeletesAreMarked` says that the row whose event a pass is taking away still
bears the mark.

`InsertedOnce`: as long as nobody edits the calendar by hand, a pass inserts no
event for a cleaning that has one. A pass decides that from its listing, and
faults of earlier passes may have left events no row knows of. The invariant
(`Calm`, for as long as `hands` is 0) says that every event, listed or still
there, belongs to the stay its row is for and lies on its day
(`EventsHaveOwners`), that two rows never name one event (`RowsNameTheirOwn`),
that for the cleanings still to be written the listing shows what the calendar
has (`ListingIsCurrent`), and that the row being written names the event of its
cleaning if there is one (`EventIsFound`).

### FinanceLedger_proofs

`OpenedMonthsFollow`, `RowsHaveRules` and `AttachmentsExist`. What the three
invariants lack is what a request carries from one step to the next: the rule
and row it has read are well formed (`RequestOK`), and the file it is about to
link is on disk unless the transaction is gone for good (`FileOK`). Steps fall
into a few shapes, and each shape is one lemma: a request moves on and hands
over what it has still to sync; a change of rules puts all opened months on its
list; a sync of a month rebuilds its rows from the rules.

`EntriesCounted`, about `CleaningLog`: the invariant `PassesOK` says that what a
pass under way has covered is counted or is in its hands, so that a pass that
ends complete has counted all of it (`PassEnds`) and one that is cut off takes
its coverage with it (`PassCut`). Windows slide: `WindowReaches` is where the
assumption on time (a complete pass within `Lookback`) is used.

`TypeCorrect`, and `ResetsPayTheCleaner`: a reset is the only step that leaves a
request with files to remove (`OnlyResetsUnlink`), what it puts back is for
each month what the log, the fees and the adjustments add up to, and neither a rule
nor a manual transaction moves anything in or out after it.

### FinanceImport_proofs

All safety properties of `finance_import`.

- `ExportsCommute`: `Merge` of a payout and a statement commute, and a row merged
  again changes nothing; it is a fact about `Merge`, rule of precedence by rule.
- `NumbersStayFinal`: counters outlive resets, so the numbers issued are always
  1 to the counter. `NumbersGood` adds that what a request holds of an
  invoice it has read, type and number, is still what was issued.
- `InvoicesFollowBookings` (`LinksInv`): a proforma never has a booking
  (`ProformasUnbooked`), and imports, mappings and resets either leave a booking's
  stay or take the invoices' link with it.
- `PdfsComplete` (`PdfsGood`): requests that render at once attach versions late
  and out of order. The versions attached are an interval that starts at 1 or
  2 (`VersionsGood`), and a version some request has still to attach leaves no gap
  (`Fits`).
- `LedgerAgrees` and `CorrectionsNotRepeated` (`LedgerInv`): a preview may be
  committed at any later time, row by row. The invariant says what an entry is
  good for until then: a payout's result is paid out, a statement's entry for an
  unknown booking carries no money (`EntryGood`), a statement names a reservation once
  (`PreviewGood`), and an entry that has passed the check of its commit leaves what
  was paid as it is, as long as the booking is the one it was checked against
  (`KeepsPayout`).

### BookingAnalytics_proofs

The cents of a booking: two adjacent months recognize together what they would
as one (`SlicesAddUp`), the whole stay recognizes the whole amount
(`WholeIsConserved`), and no share has the other sign or exceeds the amount
(`SharesKeepTheSign`), for all amounts including refunds.

`RecognizedCorrect` (`RecognizedExactly` in every state): the shares of the
months of a property add up to what each booking recognizes, whatever the number
of months. Each month takes the slice between the nights before it and the
nights up to its end (`MonthTakesSlice`), the slice of one month begins where that of
the one before ends (`SlicesFollow`), and such differences telescope.
`PaceCorrect` (`PaceFollowsBookings`): from one midnight to the next the sum over
the stays that count changes by those that come to count and those that cease to
(`GainAndLoss`), and a stay comes to count only on the day it became known and
ceases to on the day it was cancelled. Both rest on `Shown`: the rows do
not change and a report shows what its page computes from them.

`NightsCorrect` (`NightsAgree` in every state): whatever the portfolio and the
window, the headline, every chart, the calendar, the outlook and the demand page
count the same sold and bookable nights. Of the lists of free nights it says that
no sold night is among them and no open one is missing (`FreeExactly`,
`FreeFollows`); whether they name nights that are closed, of personal use or under
review is left open, since code and specification differ there (section 6). The
queries choose and group their rows differently, so
the proof goes back to single nights: a night is sold or blocked, by stays
and closures that do not depend on the window (`NightsByDay`), and since no night
is sold twice or sold and blocked (`SoldOnce`, which `NamedStays_proofs`
proves of the tables), counting nights stay by stay counts days (`SoldAddsUp`).
A chart by month, week or weekday sorts the days of its window into
cells (`ChartOf`), so its cells add up and none is fuller than full
(`ChartAddsUp`). For free nights, stays that count follow each other
(`StaysInARow`), so nothing is sold between the two neighbours the outlook
names (`NothingBetween`), and a night that is not sold is a gap when its neighbours touch it
(`GapsAreTouched`).

`MoneyCorrect` (`MoneyAgrees` in every state): the same for revenue and bookings.
The headline sums payouts and manual prices, the rates sum what each stay
brings, the months what their days bring, and the list of stays recomputes its
revenue from all bookings of a stay. The proof shows that each chart sorts the
same rows: payouts by stay (`RevenueAddsUp`), by day of arrival (`GrossByCell`),
stays by month or lead time (`RatesAddUp`), statements and evidence by the
month of booking or of arrival (`CohortAddsUp`). The rates by weekday spread the
revenue of a stay evenly, and what the division leaves is less than a cent for each of its
nights (`SpreadIsClose`). Charts that only look at some months or some dates agree
when nothing lies outside the window (`AllInside`); the proof found that this has to
include the dates of the evidence, which may name any day when the
reservation never became a booking.

### Sums

Salaries, months and pages are sums over sets of rows (`SumFunctionOnSet`), which
the code builds in a loop and SQLite in whatever order it likes. The library shows
that the order does not matter (`SumTakesAny`), that a sum is that of its parts
(`SumSplits`), that differences of neighbours telescope (`SumTelescopes`), that
counting or adding by groups counts or adds all (`SumOfSizes`, `SumOfCells`,
`SumByCell`), and that a table adds up by rows as by columns (`SumBothWays`). A
proof by induction over the set would need a theorem with an operator
as parameter, which the provers cannot instantiate; the lemmas take a smallest
set on which the claim would fail instead (`SmallestSet`). The models sum with functions
over a finite set for this reason.

### Assumptions

Type invariants are proved of `JobLease`, `NukiLifecycle`, `NamedStays`,
`OccupancySync` (`SyncTypeCorrect`), `CleaningCalendar`, `FinanceLedger` with
`CleaningLog`, and `FinanceImport` with `Invoices`.

Assumptions: `LeaseAssumption`, `CredentialAssumption`, `LifecycleAssumption`,
`StaysAssumption`, `SyncAssumption`, `CleaningAssumption`, `TimeAssumption`,
`NoneAssumption`, `FeeAssumption`, `RuleAssumption`, `BonusAssumption`,
`InvoiceAssumption`, `ImportAssumption`, `CalendarAssumption`,
`YearAssumption` and `HorizonAssumption`. They give the sorts of the constants,
say that `None` and its like are no values of the sort they stand beside (in
`LifecycleAssumption` also that it is no pair of lock and authorization), that
what is summed or counted over is finite, that the days end with a month and the
outlook has a horizon, that a patched rule is a rule, which the handler checks,
and that an upload is the export of one source. TLC evaluates them in every run. `LeaseExcludes` and
`StaleReleaseIsHarmless` have one hypothesis of their own, that owner values
are distinct (`DistinctOwners`).

### What is only model-checked

- Liveness, which is out of the prover's reach with everything that needs
  ENABLED: `JobRunsAgain`, `CreationsResolve`, `DeletionsConverge`,
  `BlocksFollowFeed`, `LinksHeal`, `CalendarFollowsStays`.
- What a recursive definition computes for every input; the models that are proved
  about declare none.

## 6. What is not modelled

Components without a module, for the reasons given in `PROJECT.json`: users,
sessions, TOTP and permissions; backups; messages and dashboard; the Nuki
incident recovery, the cleaning calendar cleanup and the legacy occupancy removal
(operator commands and one-off repairs); server infrastructure; the frontend.
Parts of modelled components: review columns and prices of stays, custom
categories and the comparison with long-term rent, the content and layout of
invoices, reading CSV cells, `YearlyFinanceRollup`, freshness, the check-in
heatmap and the comparison over years.

Disagreements seen while modelling that no run of this project shows, because the
part they concern is abstracted or the model takes the code's side:

- The cleaner's expense of a month selects bonus rows by the month where their
  writer puts the stay, and so counts none (`store/finance.go:780`,
  `spec/PMS_39_Late_Checkout_Spec.md:150`).
- The lists of unsold and of gap nights name every night that is not sold, also
  one that is closed, of personal use or under review
  (`store/analytics.go:1467`), where `spec/PMS_05_Analytics_Module_Spec.md:164`
  asks for "every sellable night", line 122 for "any available night" and the
  comment at `store/analytics.go:1465` for "single available nights". `FreeNights`
  asks nothing of those nights.
- A name too long for the lock is refused by writing the failure over the stay's
  code (`nuki/service.go:663`), whose identity is lost; the next generation, with a
  name that fits, creates a second authorization. `OneClientOneAuthorization`
  supposes names that fit (`NoLongName` in `MCNukiSafety`); without that TLC finds
  the second authorization, against "preserve its PIN/remote ID"
  (`spec/PMS_34_Nuki_API_and_Managed_Code_Lifecycle_Fix_Spec.md:273`).
- Two requests that both hold a code row without an identity may each open an
  authorization (`nuki/service.go:827`): `OneAuthorizationPerStay`, which
  `nuki_safety` checks for a client that is alone only, fails with two.
- A reactivated stay keeps the link health it had until the next synchronisation
  (`store/named_stays.go:430`). `OnlyReactivationMisleads` says that nothing else
  does this, `LinksHeal` that it ends.
- An update of an authorization whose request was refused or lost is not sent
  again and stays pending (`nuki/service.go:205`).
