--------------------------- MODULE MCRunLifecycle ---------------------------
(* Instances of RunLifecycle for TLC. *)
EXTENDS RunLifecycle, TLC

Symmetry == Permutations(Runs) \cup Permutations(Runners)
              \cup Permutations(Requests) \cup Permutations(Reapers)
=============================================================================
