------------------------------- MODULE JobLease -------------------------------
(***************************************************************************)
(* The job_leases table that keeps two copies of one background job from   *)
(* running at once (internal/store/job_leases.go), as the schedulers of    *)
(* cmd/server/main.go, the ICS sync (internal/occupancy/sync.go) and the   *)
(* cleaning-calendar reconciliation use it.                                *)
(*                                                                         *)
(* The row stores acquired_at and expires_at as RFC 3339 text, that is,    *)
(* truncated to whole seconds, and a peer takes the row over only when     *)
(* expires_at is STRICTLY smaller than its own truncated clock.  Time here *)
(* advances in ticks, TicksPerSecond of them to a second; the row is kept  *)
(* as the number of ticks until that comparison first succeeds.            *)
(***************************************************************************)
EXTENDS Integers

CONSTANTS
  Instances,      \* contenders for the job: server processes, or concurrent requests
  Owners,         \* the values of the owner column
  OwnerOf,        \* the owner value a contender writes
  NoOwner,        \* no row, or a row whose owner value nobody uses any more
  TicksPerSecond,
  Ttl,            \* time to live asked for, in ticks
  MaxRun,         \* the longest a run of the job takes, in ticks
  Releases        \* TRUE: the run releases its lease in a deferred call;
                  \* FALSE: the scheduler ticks, which let it expire

ASSUME LeaseAssumption ==
  /\ OwnerOf \in [Instances -> Owners]
  /\ NoOwner \notin Owners
  /\ TicksPerSecond \in Nat \ {0}
  /\ Ttl \in Nat \ {0}
  /\ MaxRun \in Nat
  /\ Releases \in BOOLEAN

VARIABLES
  phase,    \* position of the clock inside the current second
  lease,    \* the row: [owner, left], left = ticks until a peer may take it over
  running,  \* running[n]: n is inside the job's body
  elapsed   \* elapsed[n]: how long the current run of n has taken

vars == <<phase, lease, running, elapsed>>

-----------------------------------------------------------------------------
(* Variants of TakeoverIn, each a slip in the timestamps: expires_at rounded*)
(* up, and expires_at <= acquired_at in the takeover condition.            *)
TakeoverInRoundedUp(t) == TicksPerSecond * ((t + Ttl) \div TicksPerSecond + 2) - t
TakeoverInAtEquality(t) == TicksPerSecond * ((t + Ttl) \div TicksPerSecond) - t

(* A row written at position t of a second with the given Ttl carries      *)
(* expires_at = floor((t + Ttl) / second); it is overtaken by the clock at *)
(* the start of the following second.                                      *)
TakeoverIn(t) == TicksPerSecond * ((t + Ttl) \div TicksPerSecond + 1) - t

(* Variant: an expired row is never taken over.                            *)
MayAcquireOwn(n) == lease.owner = OwnerOf[n]

(* WHERE job_leases.owner = excluded.owner                                 *)
(*    OR job_leases.expires_at < excluded.acquired_at                      *)
MayAcquire(n) == lease.owner = OwnerOf[n] \/ lease.left = 0

Init ==
  /\ phase = 0
  /\ lease = [owner |-> NoOwner, left |-> 0]
  /\ running = [n \in Instances |-> FALSE]
  /\ elapsed = [n \in Instances |-> 0]

(* A tick of the scheduler, or a request, acquires the lease and enters    *)
(* the job.  An attempt that does not acquire it returns without effect.   *)
TryAcquireJobLease(n) ==
  /\ ~running[n]
  /\ MayAcquire(n)
  /\ lease' = [owner |-> OwnerOf[n], left |-> TakeoverIn(phase)]
  /\ running' = [running EXCEPT ![n] = TRUE]
  /\ elapsed' = [elapsed EXCEPT ![n] = 0]
  /\ UNCHANGED phase

(* Variant: DELETE ... WHERE job_name = ?, whoever holds the row.          *)
ReleaseAnyLease(n) ==
  IF Releases THEN lease' = [owner |-> NoOwner, left |-> 0] ELSE UNCHANGED lease

(* DELETE ... WHERE job_name = ? AND owner = ?                             *)
ReleaseJobLease(n) ==
  IF Releases /\ lease.owner = OwnerOf[n]
  THEN lease' = [owner |-> NoOwner, left |-> 0]
  ELSE UNCHANGED lease

(* The job's body returns, fails or panics (safeTick recovers the panic).  *)
Finish(n) ==
  /\ running[n]
  /\ running' = [running EXCEPT ![n] = FALSE]
  /\ ReleaseJobLease(n)
  /\ UNCHANGED <<phase, elapsed>>

(* The process dies: no deferred call runs, and the next process draws a   *)
(* new owner value, so nobody can renew the row it leaves behind (unless   *)
(* another contender happens to write the same value).                     *)
Crash(n) ==
  /\ running[n] \/ lease.owner = OwnerOf[n]
  /\ running' = [running EXCEPT ![n] = FALSE]
  /\ lease' = IF /\ lease.owner = OwnerOf[n]
                 /\ \A m \in Instances \ {n} : OwnerOf[m] # OwnerOf[n]
              THEN [lease EXCEPT !.owner = NoOwner]
              ELSE lease
  /\ UNCHANGED <<phase, elapsed>>

(* Time passes; a run that has lasted MaxRun must return first.            *)
Tick ==
  /\ \A n \in Instances : running[n] => elapsed[n] < MaxRun
  /\ phase' = (phase + 1) % TicksPerSecond
  /\ lease' = [lease EXCEPT !.left = IF @ > 0 THEN @ - 1 ELSE 0]
  /\ elapsed' = [n \in Instances |-> IF running[n] THEN elapsed[n] + 1 ELSE elapsed[n]]
  /\ UNCHANGED running

Next ==
  \/ Tick
  \/ \E n \in Instances : TryAcquireJobLease(n) \/ Finish(n) \/ Crash(n)

Spec == Init /\ [][Next]_vars

(* The clock advances, a run returns, and every scheduler keeps trying: a  *)
(* ticker calls the handler once per interval for as long as the process   *)
(* lives.                                                                  *)
Fairness ==
  /\ WF_vars(Tick)
  /\ \A n \in Instances : WF_vars(TryAcquireJobLease(n)) /\ WF_vars(Finish(n))

FairSpec == Spec /\ Fairness

-----------------------------------------------------------------------------
(* Type invariant.                                                         *)
TypeOK ==
  /\ phase \in 0 .. TicksPerSecond - 1
  /\ lease \in [owner : Owners \cup {NoOwner}, left : 0 .. Ttl + TicksPerSecond]
  /\ running \in [Instances -> BOOLEAN]
  /\ elapsed \in [Instances -> 0 .. MaxRun]

(* At most one contender is inside the job for the life of a lease: two    *)
(* overlap only after one of them has outlasted the Ttl it asked for.      *)
(* This holds whatever the whole-second rounding of both timestamps makes  *)
(* of the comparison, through crashes that leave the row behind and        *)
(* releases by runs that no longer own it.                                 *)
ExclusiveForTtl ==
  \A m, n \in Instances :
    (running[m] /\ running[n] /\ m # n) => (elapsed[m] > Ttl \/ elapsed[n] > Ttl)

(* "A mismatched owner is treated as a no-op so a stale caller cannot      *)
(* evict an unrelated holder": the return of a run that overran its lease  *)
(* leaves the row of the run that took over in place.                      *)
StaleReleaseKeepsHolder ==
  [][\A n \in Instances :
       (running[n] /\ running'[n] /\ lease.owner = OwnerOf[n])
         => (lease'.owner = OwnerOf[n] \/ lease.left = 0)]_vars

(* A lease left behind by a dead process does not stop the job for good:   *)
(* some contender enters it again and again.                               *)
JobRunsAgain == []<>(\E n \in Instances : running[n])
=============================================================================
