---------------------------- MODULE JobLease_proofs ----------------------------
(***************************************************************************)
(* Proofs about JobLease for every set of contenders, Ttl, clock resolution *)
(* and length of a run.                                                    *)
(***************************************************************************)
EXTENDS JobLease, TLAPS

-----------------------------------------------------------------------------
(* Rounding down to whole seconds keeps less than a second.                *)
LEMMA Rounding ==
  ASSUME NEW a \in Nat, NEW s \in Nat \ {0}
  PROVE  /\ a \div s \in Nat
         /\ s * (a \div s) <= a
         /\ a < s * (a \div s + 1)
<1>1. a = s * (a \div s) + (a % s) /\ a % s \in 0 .. s - 1 /\ a \div s \in Int
  BY Z3T(30)
<1>2. a \div s \in Nat
  BY Z3T(30)
<1>3. s * (a \div s + 1) = s * (a \div s) + s
  BY <1>2, Z3T(30)
<1>4. s * (a \div s) \in Int
  BY <1>2, Z3T(30)
<1>5. QED
  BY <1>1, <1>2, <1>3, <1>4, Z3T(30)

(* A row can be taken over only after Ttl has passed in full, and at most  *)
(* a second later, wherever in a second it was written.                    *)
LEMMA TakeoverBounds ==
  ASSUME NEW t \in 0 .. TicksPerSecond - 1
  PROVE  TakeoverIn(t) \in Ttl + 1 .. Ttl + TicksPerSecond
<1>1. t + Ttl \in Nat /\ TicksPerSecond \in Nat \ {0} /\ Ttl \in Nat
  BY LeaseAssumption
<1>. DEFINE q == (t + Ttl) \div TicksPerSecond
<1>2. q \in Nat /\ TicksPerSecond * q <= t + Ttl /\ t + Ttl < TicksPerSecond * (q + 1)
  BY <1>1, Rounding
<1>3. TicksPerSecond * (q + 1) = TicksPerSecond * q + TicksPerSecond
  BY <1>1, <1>2
<1>4. TicksPerSecond * q \in Nat
  BY <1>1, <1>2
<1>5. TakeoverIn(t) = TicksPerSecond * (q + 1) - t
  BY DEF TakeoverIn
<1>. HIDE DEF q
<1>. QED
  BY <1>1, <1>2, <1>3, <1>4, <1>5

-----------------------------------------------------------------------------
LEMMA TypeInit == Init => TypeOK
BY LeaseAssumption DEF Init, TypeOK

LEMMA TypeNext == TypeOK /\ [Next]_vars => TypeOK'
<1>. SUFFICES ASSUME TypeOK, [Next]_vars PROVE TypeOK'
  OBVIOUS
<1>. USE LeaseAssumption DEF TypeOK
<1>1. ASSUME NEW n \in Instances, TryAcquireJobLease(n) PROVE TypeOK'
  <2>1. TakeoverIn(phase) \in 0 .. Ttl + TicksPerSecond
    BY TakeoverBounds
  <2>. QED  BY <1>1, <2>1 DEF TryAcquireJobLease
<1>2. ASSUME NEW n \in Instances, Finish(n) PROVE TypeOK'
  BY <1>2 DEF Finish, ReleaseJobLease
<1>3. ASSUME NEW n \in Instances, Crash(n) PROVE TypeOK'
  BY <1>3 DEF Crash
<1>4. CASE Tick
  <2>1. phase' \in 0 .. TicksPerSecond - 1
    BY <1>4 DEF Tick
  <2>2. lease' \in [owner : Owners \cup {NoOwner}, left : 0 .. Ttl + TicksPerSecond]
    BY <1>4 DEF Tick
  <2>3. elapsed' \in [Instances -> 0 .. MaxRun]
    BY <1>4 DEF Tick
  <2>4. running' \in [Instances -> BOOLEAN]
    BY <1>4 DEF Tick
  <2>. QED  BY <2>1, <2>2, <2>3, <2>4
<1>5. CASE UNCHANGED vars
  BY <1>5 DEF vars
<1>. QED
  BY <1>1, <1>2, <1>3, <1>4, <1>5 DEF Next

(* The variables of JobLease always have their types.                      *)
THEOREM TypeCorrect == Spec => []TypeOK
<1>. QED  BY TypeInit, TypeNext, PTL DEF Spec

-----------------------------------------------------------------------------
(* Why the lease excludes: a run that is younger than Ttl still owns the   *)
(* row, and the row outlives the rest of its Ttl.                          *)
HoldsForTtl(n) ==
  (running[n] /\ elapsed[n] <= Ttl)
    => (lease.owner = OwnerOf[n] /\ lease.left >= Ttl + 1 - elapsed[n])

RowOutlivesRun == \A n \in Instances : HoldsForTtl(n)

(* Every contender writes an owner value of its own.                       *)
DistinctOwners == \A m, n \in Instances : OwnerOf[m] = OwnerOf[n] => m = n

LEMMA HoldsInit == Init => RowOutlivesRun
BY DEF Init, RowOutlivesRun, HoldsForTtl

LEMMA HoldsNext ==
  ASSUME DistinctOwners, TypeOK, RowOutlivesRun, [Next]_vars
  PROVE  RowOutlivesRun'
<1>. SUFFICES ASSUME NEW m \in Instances PROVE HoldsForTtl(m)'
  BY DEF RowOutlivesRun
<1>. USE LeaseAssumption DEF TypeOK, HoldsForTtl
<1>0. HoldsForTtl(m)
  BY DEF RowOutlivesRun
<1>1. ASSUME NEW n \in Instances, TryAcquireJobLease(n) PROVE HoldsForTtl(m)'
  <2>1. TakeoverIn(phase) >= Ttl + 1 /\ TakeoverIn(phase) \in Int
    BY TakeoverBounds
  <2>2. CASE m = n
    BY <1>1, <2>1, <2>2 DEF TryAcquireJobLease
  <2>3. CASE m # n
    <3>1. ~(running[m] /\ elapsed[m] <= Ttl)
      BY <1>0, <1>1, <2>3 DEF TryAcquireJobLease, MayAcquire, DistinctOwners
    <3>2. running'[m] = running[m] /\ elapsed'[m] = elapsed[m]
      BY <1>1, <2>3 DEF TryAcquireJobLease
    <3>. QED  BY <3>1, <3>2
  <2>. QED  BY <2>2, <2>3
<1>2. ASSUME NEW n \in Instances, Finish(n) PROVE HoldsForTtl(m)'
  BY <1>0, <1>2 DEF Finish, ReleaseJobLease, DistinctOwners
<1>3. ASSUME NEW n \in Instances, Crash(n) PROVE HoldsForTtl(m)'
  BY <1>0, <1>3 DEF Crash, DistinctOwners
<1>4. CASE Tick
  BY <1>0, <1>4 DEF Tick
<1>5. CASE UNCHANGED vars
  BY <1>0, <1>5 DEF vars
<1>. QED
  BY <1>1, <1>2, <1>3, <1>4, <1>5 DEF Next

(* TryAcquireJobLease excludes for the whole Ttl, for every Ttl, clock     *)
(* resolution and number of contenders, provided that no two of them write *)
(* the same owner value.                                                   *)
THEOREM LeaseExcludes ==
  ASSUME DistinctOwners
  PROVE  Spec => []ExclusiveForTtl
<1>1. TypeOK /\ RowOutlivesRun => ExclusiveForTtl
  BY LeaseAssumption DEF RowOutlivesRun, HoldsForTtl, ExclusiveForTtl, DistinctOwners, TypeOK
<1>2. TypeOK /\ RowOutlivesRun /\ [Next]_vars => RowOutlivesRun'
  BY HoldsNext
<1>. QED
  BY <1>1, <1>2, TypeCorrect, HoldsInit, PTL DEF Spec

(* The return of a run that overran its lease leaves the row of the run    *)
(* that took over in place (ReleaseJobLease compares the owner), provided  *)
(* that no two contenders write the same owner value.                      *)
THEOREM StaleReleaseIsHarmless ==
  ASSUME DistinctOwners
  PROVE  Spec => StaleReleaseKeepsHolder
<1>1. TypeOK /\ [Next]_vars =>
        [\A n \in Instances :
           (running[n] /\ running'[n] /\ lease.owner = OwnerOf[n])
             => (lease'.owner = OwnerOf[n] \/ lease.left = 0)]_vars
  <2> SUFFICES ASSUME TypeOK, Next, NEW n \in Instances,
                      running[n], running'[n], lease.owner = OwnerOf[n]
               PROVE  lease'.owner = OwnerOf[n] \/ lease.left = 0
    OBVIOUS
  <2>1. CASE Tick
    BY <2>1 DEF Tick, TypeOK
  <2>2. ASSUME NEW m \in Instances, TryAcquireJobLease(m)
        PROVE  lease'.owner = OwnerOf[n] \/ lease.left = 0
    BY <2>2 DEF TryAcquireJobLease, MayAcquire
  <2>3. ASSUME NEW m \in Instances, Finish(m) \/ Crash(m)
        PROVE  lease'.owner = OwnerOf[n] \/ lease.left = 0
    <3>1. m # n
      BY <2>3 DEF Finish, Crash, TypeOK
    <3>2. lease.owner # OwnerOf[m]
      BY <3>1 DEF DistinctOwners
    <3> QED
      BY <2>3, <3>2 DEF Finish, ReleaseJobLease, Crash
  <2> QED
    BY <2>1, <2>2, <2>3 DEF Next
<1> QED
  BY <1>1, TypeCorrect, PTL DEF Spec, StaleReleaseKeepsHolder
=============================================================================
