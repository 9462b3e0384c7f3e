----------------------------- MODULE CleaningLog ------------------------------
(***************************************************************************)
(* The days on which the cleaner and the guests entered, as passes over    *)
(* the lock's log find them (internal/nuki/service.go,                     *)
(* internal/store/nuki_guest_logs.go), and what the cleaner earns by them  *)
(* (internal/store/cleaning.go, internal/api/cleaning_handlers.go).        *)
(*                                                                         *)
(* Time is counted in instants; a day and a month of the property are      *)
(* DayLength instants and MonthLength days.  A pass fetches the log of the *)
(* last Lookback instants, or since the first of a month when a person     *)
(* asks for it, and then writes one row after the other.                   *)
(***************************************************************************)
EXTENDS Integers, FiniteSets, FiniteSetsExt

CONSTANTS
  Cleaner,       \* the authorization of the cleaner
  Guests,        \* the authorizations of generated codes, each of one stay
  Passes,        \* passes that may run at once
  MaxTime, DayLength, MonthLength, Lookback,
  LogBudget,     \* events in as many full pages as a fetch may read
  Fees,          \* cleaning and washing fees of one day
  Adjustments,   \* amounts people add to or take from a salary
  MaxAdjusted,   \* bound of their sum
  None

ASSUME TimeAssumption ==
  /\ MaxTime \in Nat /\ DayLength \in Nat \ {0} /\ MonthLength \in Nat \ {0} /\ Lookback \in Nat
  /\ LogBudget \in Nat

(* None is neither an instant nor an event.                                *)
ASSUME NoneAssumption ==
  None \notin Nat /\ None \notin [auth : {Cleaner} \cup Guests, entry : BOOLEAN]

ASSUME FeeAssumption == Fees \subseteq Int

Who == {Cleaner} \cup Guests
Times == 0..MaxTime
DayOf(t) == t \div DayLength
Days == {DayOf(t) : t \in Times}
MonthOf(d) == 1 + d \div MonthLength
Months == {MonthOf(d) : d \in Days}
FirstOf(m) == (m - 1) * MonthLength * DayLength

VARIABLES
  now,          \* the clock
  lockLog,      \* the log of the lock: who did what at an instant
  entries,      \* cleaning_daily_logs and nuki_guest_daily_entries
  fees,         \* cleaner_fee_history, by the instant from which a fee holds
  adjustments,  \* cleaning_salary_adjustments, their sum by month
  pass,         \* the passes under way
  reconciled    \* when the last complete pass over the cleaner's log of a Lookback fetched it

logVars == <<now, lockLog, entries, fees, adjustments, pass, reconciled>>

NoPass == [who |-> {}, left |-> {}, covered |-> 0]

LogTypeOK ==
  /\ now \in Times /\ reconciled \in Times
  /\ lockLog \in [Times -> {None} \cup [auth : Who, entry : BOOLEAN]]
  /\ entries \in [Who \X Days -> {None} \cup Times]
  /\ fees \in [Times -> {None} \cup Fees]
  /\ adjustments \in [Months -> Int]
  /\ pass \in [Passes -> [who : SUBSET Who, left : SUBSET Times, covered : Times]]

LogInit ==
  /\ now = 0 /\ reconciled = 0
  /\ lockLog = [t \in Times |-> None]
  /\ entries = [k \in Who \X Days |-> None]
  /\ fees = [t \in Times |-> None]
  /\ adjustments = [m \in Months |-> 0]
  /\ pass = [p \in Passes |-> NoPass]

-----------------------------------------------------------------------------
(* The rows a pass writes, each named by its event: of every person and    *)
(* day the first entry; if no event in the whole log reads as an entry,    *)
(* the first event of any kind.                                            *)
Firsts(events) ==
  LET entered == {t \in events : lockLog[t].entry}
      used == IF entered = {} THEN events ELSE entered
      Same(t, u) == lockLog[t].auth = lockLog[u].auth /\ DayOf(t) = DayOf(u)
  IN  {t \in used : \A u \in used : Same(t, u) => t <= u}

(* Variant: the window is open at its beginning.                           *)
LoggedAfter(since) == {t \in (since + 1)..now : t >= 0 /\ lockLog[t] # None}

Logged(since) == {t \in since..now : t >= 0 /\ lockLog[t] # None}
Of(events, who) == {t \in events : lockLog[t].auth \in who}

(* The provider selects the cleaner's events, not those of the guests; a   *)
(* log that fills all pages a fetch may read is an error.  covered: the    *)
(* instant up to which a pass over a whole Lookback of the cleaner's log   *)
(* has seen it.                                                            *)
ListSmartlockEvents(since, who) == IF who = {Cleaner} THEN Of(Logged(since), who) ELSE Logged(since)
Readable(since, who) == Cardinality(ListSmartlockEvents(since, who)) < LogBudget

StartPass(p, who, since, covered) ==
  /\ pass[p] = NoPass
  /\ Readable(since, who)
  /\ pass' = [pass EXCEPT ![p] = [who |-> who,
                                   left |-> Firsts(Of(ListSmartlockEvents(since, who), who)),
                                   covered |-> covered]]
  /\ UNCHANGED <<now, lockLog, entries, fees, adjustments, reconciled>>

ReconcileCleanerDailyLogs(p) == StartPass(p, {Cleaner}, now - Lookback, now)
ReconcileGuestDailyEntries(p) == StartPass(p, Guests, now - Lookback, 0)
RunCleaningReconcile(p, m) == StartPass(p, {Cleaner}, FirstOf(m), 0)

(* UpsertCleaningDailyLog and UpsertNukiGuestDailyEntry: the row is        *)
(* replaced by what the pass found, in no particular order.                *)
UpsertDailyEntry(p, t) ==
  /\ t \in pass[p].left
  /\ entries' = [entries EXCEPT ![<<lockLog[t].auth, DayOf(t)>>] = t]
  /\ pass' = [pass EXCEPT ![p].left = @ \ {t}]
  /\ UNCHANGED <<now, lockLog, fees, adjustments, reconciled>>

EndPass(p) ==
  /\ pass[p].who # {} /\ pass[p].left = {}
  /\ pass' = [pass EXCEPT ![p] = NoPass]
  /\ reconciled' = Max({reconciled, pass[p].covered})
  /\ UNCHANGED <<now, lockLog, entries, fees, adjustments>>

(* A statement fails, or the process stops.                                *)
CutPass(p) ==
  /\ pass[p].left # {}
  /\ pass' = [pass EXCEPT ![p] = NoPass]
  /\ UNCHANGED <<now, lockLog, entries, fees, adjustments, reconciled>>

PostCleaningFees(t, f) ==
  /\ fees' = [fees EXCEPT ![t] = f]
  /\ UNCHANGED <<now, lockLog, entries, adjustments, pass, reconciled>>

PostCleaningAdjustment(m, a) ==
  /\ adjustments[m] + a \in -MaxAdjusted..MaxAdjusted
  /\ adjustments' = [adjustments EXCEPT ![m] = @ + a]
  /\ UNCHANGED <<now, lockLog, entries, fees, pass, reconciled>>

(* Somebody uses the lock.                                                 *)
Use(w, entry) ==
  /\ lockLog[now] = None
  /\ lockLog' = [lockLog EXCEPT ![now] = [auth |-> w, entry |-> entry]]
  /\ UNCHANGED <<now, entries, fees, adjustments, pass, reconciled>>

(* Some pass is complete within every Lookback: the scheduler runs one     *)
(* every few hours, and Lookback is 45 days.                               *)
Tick ==
  /\ now < MaxTime /\ now < reconciled + Lookback
  /\ now' = now + 1
  /\ UNCHANGED <<lockLog, entries, fees, adjustments, pass, reconciled>>

LogStep ==
  \/ \E p \in Passes :
       \/ ReconcileCleanerDailyLogs(p) \/ ReconcileGuestDailyEntries(p)
       \/ \E m \in Months : RunCleaningReconcile(p, m)
       \/ \E t \in Times : UpsertDailyEntry(p, t)
       \/ EndPass(p) \/ CutPass(p)
  \/ \E t \in Times, f \in Fees : PostCleaningFees(t, f)
  \/ \E m \in Months, a \in Adjustments : PostCleaningAdjustment(m, a)
  \/ \E w \in Who, entry \in BOOLEAN : Use(w, entry)
  \/ Tick

-----------------------------------------------------------------------------
(* What the log earns: the fee of a day is the one in force at its first   *)
(* entry, also when it was posted later.                                   *)
FeeAt(t) ==
  LET inForce == {u \in 0..t : fees[u] # None}
  IN  IF inForce = {} THEN 0 ELSE fees[Max(inForce)]

CountedDays(m) == {d \in Days : MonthOf(d) = m /\ entries[Cleaner, d] # None}
BaseSalary(m) == SumFunction([d \in CountedDays(m) |-> FeeAt(entries[Cleaner, d])])
OrdinarySalary(m) == BaseSalary(m) + adjustments[m]

-----------------------------------------------------------------------------
(* What the lock reported as an entry of the cleaner before the fetch of a *)
(* complete pass is counted, wherever passes were cut off before: every    *)
(* window reaches back to the last complete pass.                          *)
EntriesAreCounted ==
  \A t \in Times :
    (t < reconciled /\ lockLog[t] = [auth |-> Cleaner, entry |-> TRUE]) => entries[Cleaner, DayOf(t)] # None

=============================================================================
