----------------------------- MODULE LocalDeploy -----------------------------
(***************************************************************************)
(* Deployments of one project to the local Docker host, one after the      *)
(* other, with the driver createDeployer picks for the strategy in the     *)
(* pipeline's deploy configuration.                                        *)
(***************************************************************************)
EXTENDS BlueGreenDeployer, CanaryDeployer, RollingDeployer

CONSTANTS
  Strategies,     \* the strategies the project is deployed with
  Counts,         \* values of rolling.instances
  Batches,        \* values of rolling.max_unavailable
  Switching,      \* may the strategy change between two deployments?
  Faults          \* may docker calls fail and the runner die?

ASSUME DeployAssumption ==
  /\ Strategies \subseteq {"blue_green", "canary", "rolling"}
  /\ Counts \subseteq Nat \ {0} /\ Batches \subseteq Nat \ {0}
  /\ \A count \in Counts : 0 .. count - 1 \subseteq Ordinals
  /\ MaxDeployments \in Nat /\ MaxStages \in Nat
  /\ None \notin Strategies

vars == <<host, deployer>>

Init == HostInit /\ DeployerInit

createDeployer ==
  \E image \in Images, strategy \in Strategies :
    /\ Switching \/ job.strategy \in {None, strategy}
    /\ CASE strategy = "blue_green" -> Begin(strategy, "bg_choose", image, 1, 1)
         [] strategy = "canary" -> Begin(strategy, "cn_start", image, 1, 1)
         [] strategy = "rolling" ->
              \E count \in Counts, batch \in Batches :
                Begin(strategy, "rl_start", image, count, IF batch < count THEN batch ELSE count)

Finish == Return("done", "success") /\ UNCHANGED host

DeployerStep == BlueGreenStep \/ CanaryStep \/ RollingStep \/ Finish

\* A call fails, or the runner dies during it: deploy() cleans nothing up.
Mishap ==
  /\ Faults
  /\ pc # "idle"
  /\ pc' = "idle"
  /\ verdict' = "failure"
  /\ mishap' = TRUE
  /\ UNCHANGED job
  /\ \/ UNCHANGED host
     \/ \E n \in Names :
          /\ BlueGreenTouches(pc, n) \/ CanaryTouches(pc, n) \/ RollingTouches(pc, n)
          /\ HalfRemoved(n) \/ HalfCreated(n, job.image)
     \/ \E names \in SUBSET Names :
          /\ BlueGreenLoads(pc, names) \/ CanaryLoads(pc, names) \/ RollingLoads(pc, names)
          /\ HalfLoaded(names)

Next == createDeployer \/ DeployerStep \/ Mishap

Spec == Init /\ [][Next]_vars

-------------------------------------------------------------------------------

TypeOK ==
  /\ HostOK
  /\ pc = "idle" => job.deployment <= MaxDeployments
  /\ verdict \in Verdicts
  /\ mishap \in BOOLEAN

Restoring == pc \in {"rl_undo", "rl_redo", "rl_next", "rl_refresh"}

\* max_unavailable allows every instance the update found to be down at once.
AllAtOnce == job.size # 0 /\ job.batch >= job.size

(* Zero downtime: once the project is served, no step of a deployment leaves *)
(* its proxy without a container it can reach.  (The rollback of a rolling   *)
(* update is left out: rollbackInstances recreates instances under a proxy   *)
(* that is reloaded only when all of them are back.)                         *)
Uninterrupted ==
  [][Serving /\ ~mishap' /\ ~Restoring /\ ~AllAtOnce => Serving']_vars

(* After a deployment that succeeded, whatever happened to earlier ones,     *)
(* everything served is of this deployment (but for instances beyond the     *)
(* present count).                                                           *)
SuccessIsServed ==
  pc = "idle" /\ verdict = "success" =>
    \A n \in loaded :
      box[n].deployment = job.deployment \/ (n \in Ordinals /\ n >= job.count)

(* A deployment that failed leaves the traffic on images that were served    *)
(* before it; a canary that was being given traffic may keep it.             *)
FailureIsNotServed ==
  pc = "idle" /\ ~mishap /\ verdict = "failure" /\ job.stage = 0 /\ job.image \notin job.before =>
    ServedImages \subseteq job.before

(* While a rolling update replaces instances, at most max_unavailable of     *)
(* those it found are out of rotation.                                       *)
CapacityKept ==
  ~mishap /\ pc \in {"rl_drop", "rl_run", "rl_check", "rl_rejoin"} =>
    Cardinality(loaded) + job.batch >= job.size

===============================================================================
