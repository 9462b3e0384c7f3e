---------------------------- MODULE MCNukiLifecycle ----------------------------
(***************************************************************************)
(* Instances of NukiLifecycle for TLC.                                     *)
(***************************************************************************)
EXTENDS NukiLifecycle, TLC

CONSTANTS a1, a2, q1, q2

(* PINs and requests are interchangeable.                                  *)
Symmetry == Permutations({a1, a2}) \cup Permutations({q1, q2})
=============================================================================
