------------------------------- MODULE MCHost -------------------------------
(* What runs on a runner's host beside the deployments: the document mirror *)
(* and the processes of one step.  `part` says which of the two moves.      *)
EXTENDS DocumentMirror, StepProcess
CONSTANTS v1, v2, v3, tick, deploy, k1, k2

VARIABLE part
host == <<vars, stepVars, part>>

HostInit ==
  /\ part \in {"mirror", "steps"} /\ Init /\ StepInit
  /\ part = "mirror" => ~limited /\ ignores = {} /\ quiet = {} /\ box = "none"

HostNext ==
  /\ UNCHANGED part
  /\ \/ part = "mirror" /\ Next /\ UNCHANGED stepVars
     \/ part = "steps" /\ Step /\ UNCHANGED vars

Host ==
  /\ HostInit /\ [][HostNext]_host
  /\ part = "mirror" => Fairness
  /\ part = "steps" => StepFairness
=============================================================================
