------------------------------- MODULE Deployer -------------------------------
(***************************************************************************)
(* What the three docker_local drivers share (deployer-interface.ts,       *)
(* deployer-factory.ts): a deployment of one project, executed call by     *)
(* call on the Docker host, that returns success or failure.  A runner     *)
(* executes one deployment of a project at a time.                         *)
(***************************************************************************)
EXTENDS DockerHost

CONSTANTS
  MaxDeployments,                \* bound on the deployments of a behaviour
  MaxStages                      \* bound on the stages of a canary

VARIABLES
  pc,         \* the call the deployer makes next; "idle" between deployments
  job,        \* the DeployContext and the local variables of deploy()
  verdict,    \* what the last deployment returned
  mishap      \* has a docker call failed, or the runner died in a deployment?

deployer == <<pc, job, verdict, mishap>>

Verdicts == {"none", "success", "failure"}

NoJob == [strategy |-> None, image |-> None, deployment |-> 0, before |-> {}, old |-> None, new |-> None,
          previous |-> None, carried |-> None, count |-> 1, batch |-> 1, size |-> 0,
          base |-> 0, at |-> 0, cursor |-> 0, stage |-> 0]

DeployerInit == pc = "idle" /\ job = NoJob /\ verdict = "none" /\ mishap = FALSE

\* deploy() is called with the next deployment's image.
Begin(strategy, first, image, count, batch) ==
  /\ pc = "idle"
  /\ job.deployment < MaxDeployments
  /\ pc' = first
  /\ job' = [NoJob EXCEPT !.strategy = strategy, !.image = image, !.deployment = job.deployment + 1,
                          !.before = ServedImages, !.count = count, !.batch = batch]
  /\ UNCHANGED <<verdict, mishap, host>>

GoTo(p, q) == pc = p /\ pc' = q /\ UNCHANGED <<verdict, mishap>>

Step(p, q) == GoTo(p, q) /\ UNCHANGED job

Return(p, result) ==
  /\ pc = p
  /\ pc' = "idle"
  /\ verdict' = result
  /\ UNCHANGED <<job, mishap>>

\* docker run, and going on; it throws when the name is taken.
RunThen(p, n, image, previous, q) ==
  \/ Step(p, q) /\ runContainer(n, image, previous, job.deployment)
  \/ Return(p, "failure") /\ box[n].state # "absent" /\ UNCHANGED host

\* A check of n sends the deployer to one of two next calls.
CheckThen(p, n, healthy, unhealthy) ==
  \E passed \in BOOLEAN :
    /\ Step(p, IF passed THEN healthy ELSE unhealthy)
    /\ checkHealthViaDocker(n, passed)

\* Routing traffic to names and going on; nginx -t refuses a name that does
\* not resolve, and the deployment fails as it stands.
RouteThen(p, names, q) ==
  IF names \subseteq Running
    THEN Step(p, q) /\ writeAndReloadNginx(names)
    ELSE Return(p, "failure") /\ ReloadRefused(names)
===============================================================================
