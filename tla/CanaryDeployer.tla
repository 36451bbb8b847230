---------------------------- MODULE CanaryDeployer ----------------------------
(***************************************************************************)
(* apps/runner/src/deployers/docker-local-canary-deployer.ts: start a      *)
(* canary beside the stable container, give it a growing share of the      *)
(* traffic while it is observed, then replace the stable container.        *)
(***************************************************************************)
EXTENDS Deployer

\* The first deployment is told from the others by the stable container.
LookForStable ==
  /\ Step("cn_start", IF isContainerRunning(stable) THEN "cn_clear" ELSE "cn_first")
  /\ UNCHANGED host

\* firstDeploy: an exited stable container is not removed, its name is taken.
RunFirst == RunThen("cn_first", stable, job.image, None, "cn_first_check")

CheckFirst == CheckThen("cn_first_check", stable, "cn_first_route", "cn_first_abandon")

AbandonFirst == Return("cn_first_abandon", "failure") /\ removeContainerIfExists(stable)

RouteFirst == RouteThen("cn_first_route", {stable}, "done")

ClearCanary ==
  /\ GoTo("cn_clear", "cn_run")
  /\ removeContainerIfExists(canary)
  /\ job' = [job EXCEPT !.previous = IF box[stable].image = None THEN None
                                     ELSE resolvePreviousImage(box[stable], job.image)]

RunCanary == RunThen("cn_run", canary, job.image, job.previous, "cn_check")

CheckCanary == CheckThen("cn_check", canary, "cn_stage", "cn_abandon")

AbandonCanary == Return("cn_abandon", "failure") /\ removeContainerIfExists(canary)

\* A stage: a percentage below 100 keeps the stable container as an upstream.
StageTargets(whole) == IF whole THEN {canary} ELSE {stable, canary}

ShiftTraffic ==
  /\ job.stage < MaxStages
  /\ \E whole \in BOOLEAN :
       \/ /\ GoTo("cn_stage", "cn_observe")
          /\ job' = [job EXCEPT !.stage = @ + 1]
          /\ writeAndReloadNginx(StageTargets(whole))
       \/ Return("cn_stage", "failure") /\ ReloadRefused(StageTargets(whole))

\* After the observation period: roll back, go to the next stage, or promote.
Observe ==
  \/ CheckThen("cn_observe", canary, "cn_stage", "cn_back") /\ job.stage < MaxStages
  \/ CheckThen("cn_observe", canary, "cn_promote", "cn_back")

RouteBack == RouteThen("cn_back", {stable}, "cn_abandon")

RouteToCanary == RouteThen("cn_promote", {canary}, "cn_drop_stable")

DropStable == Step("cn_drop_stable", "cn_run_stable") /\ removeContainerIfExists(stable)

RunStable == RunThen("cn_run_stable", stable, job.image, job.previous, "cn_check_stable")

CheckStable == CheckThen("cn_check_stable", stable, "cn_settle", "cn_keep_canary")

\* The new stable is unhealthy: traffic stays on the canary.
KeepCanary == Return("cn_keep_canary", "failure") /\ removeContainerIfExists(stable)

RouteToStable == RouteThen("cn_settle", {stable}, "cn_drop_canary")

DropCanary == Return("cn_drop_canary", "success") /\ removeContainerIfExists(canary)

CanaryStep ==
  \/ LookForStable \/ RunFirst \/ CheckFirst \/ AbandonFirst \/ RouteFirst
  \/ ClearCanary \/ RunCanary \/ CheckCanary \/ AbandonCanary
  \/ ShiftTraffic \/ Observe \/ RouteBack
  \/ RouteToCanary \/ DropStable \/ RunStable \/ CheckStable
  \/ KeepCanary \/ RouteToStable \/ DropCanary

CanaryTouches(p, n) ==
  \/ p \in {"cn_clear", "cn_run", "cn_abandon", "cn_drop_canary"} /\ n = canary
  \/ /\ p \in {"cn_first", "cn_first_abandon", "cn_drop_stable", "cn_run_stable",
               "cn_keep_canary"}
     /\ n = stable

CanaryLoads(p, names) ==
  \/ p \in {"cn_first_route", "cn_back", "cn_settle"} /\ names = {stable}
  \/ p = "cn_stage" /\ names \in {StageTargets(TRUE), StageTargets(FALSE)}
  \/ p = "cn_promote" /\ names = {canary}
===============================================================================
