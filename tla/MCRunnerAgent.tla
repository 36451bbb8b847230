---------------------------- MODULE MCRunnerAgent ----------------------------
(* An instance of RunnerAgent for TLC: the second run is pinned.           *)
EXTENDS RunnerAgent, TLC

CONSTANTS steady, other

TwoPins == 1 :> {None} @@ 2 :> {steady}
=============================================================================
