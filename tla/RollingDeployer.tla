---------------------------- MODULE RollingDeployer ----------------------------
(***************************************************************************)
(* apps/runner/src/deployers/docker-local-rolling-deployer.ts: replace the *)
(* instances batch by batch; when one of them is unhealthy, put back the   *)
(* image the replaced ones had.                                            *)
(***************************************************************************)
EXTENDS Deployer

\* Mutant of Batch: one instance more than max_unavailable.
Batch_OneMore == {o \in Ordinals : job.base <= o /\ o <= job.base + job.batch /\ o < job.count}

Batch == {o \in Ordinals : job.base <= o /\ o < job.base + job.batch /\ o < job.count}

RunningInstances == Running \cap Ordinals

\* existingInstances[0]
Outgoing == box[CHOOSE o \in RunningInstances : \A x \in RunningInstances : o <= x]

DiscoverInstances ==
  \/ /\ RunningInstances = {}
     /\ Step("rl_start", "rl_first")
     /\ UNCHANGED host
  \/ /\ RunningInstances # {}
     /\ GoTo("rl_start", "rl_exclude")
     /\ job' = [job EXCEPT !.previous = resolvePreviousImage(Outgoing, job.image),
                           !.carried = Outgoing.previous,
                           !.size = Cardinality(RunningInstances)]
     /\ proxy' = TRUE
     /\ UNCHANGED <<box, conf, loaded, broken>>

\* The proxy is pointed at every running instance but those excluded; not at
\* all when none would remain.
updateNginxForRunningInstances(exclude) ==
  LET names == RunningInstances \ exclude
  IN IF names = {} THEN UNCHANGED host ELSE writeAndReloadNginx(names)

ExcludeBatch == Step("rl_exclude", "rl_drop") /\ updateNginxForRunningInstances(Batch)

DropInstance ==
  /\ GoTo("rl_drop", IF job.cursor + 1 \in Batch THEN "rl_drop" ELSE "rl_run")
  /\ job' = [job EXCEPT !.cursor = @ + 1]
  /\ IF isContainerRunning(job.cursor)
       THEN removeContainerIfExists(job.cursor)
       ELSE UNCHANGED host

RunInstance == RunThen("rl_run", job.at, job.image, job.previous, "rl_check")

InstanceHealthy ==
  /\ GoTo("rl_check", IF job.at + 1 \in Batch THEN "rl_run" ELSE "rl_rejoin")
  /\ checkHealthViaDocker(job.at, TRUE)
  /\ job' = [job EXCEPT !.at = @ + 1]

\* rollbackInstances: every instance updated so far, and this one; with no
\* previous image it only warns.
InstanceUnhealthy ==
  /\ GoTo("rl_check", IF job.previous = None THEN "rl_refresh" ELSE "rl_undo")
  /\ checkHealthViaDocker(job.at, FALSE)
  /\ job' = [job EXCEPT !.cursor = 0]

RemoveUpdated == Step("rl_undo", "rl_redo") /\ removeContainerIfExists(job.cursor)

\* Mutant of RestoreInstance: the rollback starts the image that failed.
RestoreInstance_FailedImage ==
  RunThen("rl_redo", job.cursor, job.image, job.carried,
          IF job.cursor < job.at THEN "rl_next" ELSE "rl_refresh")

RestoreInstance ==
  /\ RunThen("rl_redo", job.cursor, job.previous, job.carried,
             IF job.cursor < job.at THEN "rl_next" ELSE "rl_refresh")

NextToRestore ==
  GoTo("rl_next", "rl_undo") /\ job' = [job EXCEPT !.cursor = @ + 1] /\ UNCHANGED host

RefreshAfterRollback ==
  Return("rl_refresh", "failure") /\ updateNginxForRunningInstances({})

\* Mutant of RejoinBatch: the update ends with its first batch.
RejoinBatch_FirstOnly ==
  /\ GoTo("rl_rejoin", "done")
  /\ updateNginxForRunningInstances({})
  /\ UNCHANGED job

RejoinBatch ==
  /\ GoTo("rl_rejoin", IF job.base + job.batch < job.count THEN "rl_exclude" ELSE "done")
  /\ job' = [job EXCEPT !.base = @ + job.batch, !.cursor = job.base + job.batch]
  /\ updateNginxForRunningInstances({})

\* firstDeploy: every instance from nothing; all of them go when one fails.
ClearFirstInstance ==
  Step("rl_first", "rl_first_run") /\ removeContainerIfExists(job.at)

RunFirstInstance == RunThen("rl_first_run", job.at, job.image, None, "rl_first_check")

FirstInstanceHealthy ==
  /\ GoTo("rl_first_check", IF job.at + 1 < job.count THEN "rl_first" ELSE "rl_first_route")
  /\ checkHealthViaDocker(job.at, TRUE)
  /\ job' = [job EXCEPT !.at = @ + 1]

FirstInstanceUnhealthy ==
  Step("rl_first_check", "rl_first_clean") /\ checkHealthViaDocker(job.at, FALSE)

CleanFirst ==
  /\ IF job.cursor < job.at
       THEN /\ GoTo("rl_first_clean", "rl_first_clean")
            /\ job' = [job EXCEPT !.cursor = @ + 1]
       ELSE Return("rl_first_clean", "failure")
  /\ removeContainerIfExists(job.cursor)

FirstInstances == {o \in Ordinals : o < job.count}

RouteFirstInstances == RouteThen("rl_first_route", FirstInstances, "done")

RollingStep ==
  \/ DiscoverInstances \/ ExcludeBatch \/ DropInstance \/ RunInstance
  \/ InstanceHealthy \/ InstanceUnhealthy \/ RemoveUpdated \/ RestoreInstance \/ NextToRestore
  \/ RefreshAfterRollback \/ RejoinBatch
  \/ ClearFirstInstance \/ RunFirstInstance \/ FirstInstanceHealthy
  \/ FirstInstanceUnhealthy \/ CleanFirst \/ RouteFirstInstances

RollingTouches(p, n) ==
  \/ p \in {"rl_drop", "rl_undo", "rl_redo", "rl_first_clean"} /\ n = job.cursor
  \/ p \in {"rl_run", "rl_first", "rl_first_run"} /\ n = job.at

RollingLoads(p, names) ==
  \/ p = "rl_exclude" /\ names = RunningInstances \ Batch
  \/ p \in {"rl_rejoin", "rl_refresh"} /\ names = RunningInstances
  \/ p = "rl_first_route" /\ names = FirstInstances
================================================================================
