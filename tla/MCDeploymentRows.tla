--------------------------- MODULE MCDeploymentRows ---------------------------
(* The rows of deployments, the images they start and the page that shows    *)
(* one, which share nothing: `part` says which moves.                        *)
EXTENDS DeploymentRows, ImageBuilds, LiveView, TLC
CONSTANTS h1, h2, host1, host2
Symmetry == Permutations(Calls) \cup Permutations(DockerHosts)

VARIABLE part
deploying == <<vars, imageVars, liveVars, part>>

DeployingInit ==
  /\ Init /\ ImageInit /\ LiveInit
  /\ part \in {"rows", "images", "page"}
  /\ part # "page" => hook = "run"

\* A bound of the run: one mishap, and no two that handle the tunnel at a time
\* (after which no property says more of the links).
Explored == overlaps + faults <= 1 /\ ~crossed

DeployingNext ==
  /\ UNCHANGED part
  /\ \/ part = "rows" /\ Next /\ Explored' /\ UNCHANGED <<imageVars, liveVars>>
     \/ part = "images" /\ Imaging /\ UNCHANGED <<vars, liveVars>>
     \/ part = "page" /\ Live /\ UNCHANGED <<vars, imageVars>>

Deploying == DeployingInit /\ [][DeployingNext]_deploying
===============================================================================
