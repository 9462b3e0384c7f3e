----------------------------- MODULE MCJobLease -----------------------------
(***************************************************************************)
(* Instances of JobLease for TLC: who writes which owner value.            *)
(***************************************************************************)
EXTENDS JobLease, TLC

CONSTANTS i1, i2, i3

MCInstances == {i1, i2, i3}

(* Scheduler ticks and ICS syncs: every contender has a value of its own.  *)
MCOwnerOf == [n \in {i1, i2, i3} |-> n]

=============================================================================
