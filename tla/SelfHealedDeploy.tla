--------------------------- MODULE SelfHealedDeploy ---------------------------
(***************************************************************************)
(* Deployments and self-healing on one host.  The runner process runs both *)
(* (commands/start.ts starts the monitor before it polls) and they share   *)
(* the containers, the proxy and nothing else: no lock orders their calls. *)
(***************************************************************************)
EXTENDS LocalDeploy, SelfHealing

VARIABLE overlapped   \* history: has one acted while the other was at work?

allVars == <<host, deployer, monitor, overlapped>>

SystemInit == Init /\ MonitorInit /\ overlapped = FALSE

\* An application stops answering, for good.
Break(image) ==
  /\ broken' = broken \cup {image}
  /\ UNCHANGED <<box, proxy, conf, loaded, deployer, monitor, overlapped>>

Deploying ==
  /\ Next
  /\ overlapped' = (overlapped \/ step # "idle")
  /\ UNCHANGED monitor

Healing ==
  /\ MonitorStep
  /\ overlapped' = (overlapped \/ pc # "idle")
  /\ UNCHANGED deployer

SystemNext == Deploying \/ Healing \/ \E image \in Images : Break(image)

System == SystemInit /\ [][SystemNext]_allVars

\* The runner's event loop serves both: the calls of each return, and the
\* monitor's timer fires again after every tick.
LiveSystem == System /\ WF_allVars(DeployerStep /\ Deploying) /\ WF_allVars(Healing)

-------------------------------------------------------------------------------

MonitorOK ==
  /\ TypeOK
  /\ \A id \in DOMAIN monitored :
       /\ Len(monitored[id].window) <= HEALTH_CHECK_WINDOW_SIZE
       /\ monitored[id].restarts <= MAX_RESTART_ATTEMPTS
  /\ todo \subseteq DOMAIN monitored
  /\ step \notin {"idle", "check"} => cur \in DOMAIN monitored

(* Self-healing does not cost a blue/green project its traffic: the rollback *)
(* starts and checks the previous image beside the broken container and      *)
(* switches from one to the other.                                           *)
HealingKeepsTraffic ==
  [][Healing /\ ~overlapped' /\ job.strategy = "blue_green" /\ Serving => Serving']_allVars

(* A deployment is reported as rolled back only when traffic goes to its     *)
(* previous image, in a container whose check passed.                        *)
RolledBackIsServed ==
  [][~overlapped' => \A id \in told' \ told : \E n \in loaded' :
        /\ box'[n].image = monitored[id].previous
        /\ box'[n].check = "passed"]_allVars

(* A blue/green project left alone ends up serving no broken image, if the   *)
(* broken release replaced one that still works.                             *)
Remediable == \E n \in loaded \cap {blue, green} :
                box[n].image \in broken /\ box[n].previous \notin broken \cup {None}
BrokenIsReplaced == Remediable ~> ~Remediable
===============================================================================
