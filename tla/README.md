# DeployX, modelled in TLA+

DeployX is a self-hosted continuous-delivery tool: a control plane (Next.js
handlers over a Supabase/Postgres database), runners that poll it and execute
pipelines, and deployers that put the built images behind a proxy or on a cloud.
These modules model the parts of it in which several actors meet, check them with
TLC on small instances, and prove the central properties with TLAPS for every
instance.

## The system

| Component | State | Operations | Meets |
|---|---|---|---|
| Status tables (`packages/shared`, `pipeline-engine/state-machine.ts`) | none | validate a transition | every handler |
| Run lifecycle, control plane (`runs/actions.ts`, `pipelines/actions.ts`, the `runner/*` routes, `reap-orphans.ts`, `runners/actions.ts`, webhook, schedules) | rows of `pipeline_runs`, `task_runs`, `runner_registrations` | create, queue, claim, report, cancel, heartbeat, revoke, reap | runners, users, the cron tick, through the rows only |
| Runner agent (`commands/start.ts`, `api-client.ts`) | two flags, the callbacks in flight | poll, claim, execute, report, shut down | the control plane; a slow poll of its own |
| Approval gates (`deployments/actions.ts`, `approvals/route.ts`, `approval-gate.ts`) | `deployment_approvals`, `approval_votes`, the runner's loop | insert at the claim, vote, poll, abort | claims, reviewers, the runner |
| DAG resolution (`dag.ts`) | local to the call | validate, group | the execution |
| Pipeline execution (`apps/runner/src/executor`) | outcomes of the tasks, the abort signal | run a group, gate, step, deploy, skip, cancel, report | the control plane, by calls that may fail |
| Processes of a step (`step-executor.ts`, `step-termination.ts`) | a process group, a container, timers | spawn, time out, signal, remove | the abort signal, processes that ignore signals |
| Images (`image-builder.ts`, `docker-client.ts`) | tags of a host and of a registry | build, tag, push, record, start | other runs on the same tags |
| Deployment records (`deployments/*` routes, `settle-previous-deployments.ts`, `deployments/actions.ts`) and public URLs (`public-tunnel.ts`, `expire-public-urls.ts`) | rows of `deployments`, their revisions, one tunnel per project | create and drain, report, settle, stop, roll back, expire | deployers, users, the monitor, other runs of the project |
| Local deployers (blue/green, canary, rolling) | containers, proxy configuration | deploy, cut over, promote, restore | the host's Docker, the monitor |
| Cloud deployers (Fly, Railway) | a machine or a service | find, create, update, wait, check | the cloud, whose replies may be lost |
| Health monitor, remediation | a window and a restart count per deployment | probe, restart, roll back | the same containers as the deployers |
| Documents (`documents/actions.ts`, `expire-documents.ts`, `verify-document`) | rows with versions, objects in a store | upload, verify, restore, prune, delete, expire | overlapping handlers, browsers that put bytes |
| Document mirror (`apps/runner/src/documents`) | a bucket and a state file | fetch the manifest, upload, remove, save | a deployment's own synchronisation; kills |
| Schedules and alerts (`lib/cron`, their actions) | a due date, a stamp | claim, fire, edit | overlapping ticks |
| Log streaming (`log-streamer.ts`, `logs/route.ts`) | a buffer and a flag | push, flush, shut down | its timer and itself |
| Pipeline versions (`pipelines/actions.ts`) | a definition and its versions | create, save, restore, make current | overlapping saves |
| Organisations, invitations, roles (`settings/actions.ts`, `invite_links`) | memberships and invitations | invite, redeem, decline, change, remove | overlapping actions of members |
| Project creation (`projects/new`, `github-repo-picker.tsx`) | a form, fetches in flight | search, pick, submit | late answers |
| Live views and notifications (`use-realtime-*.ts`, `lib/notifications.ts`) | a snapshot and channels | read, join, apply, close | writers of the rows |
| Parser, artifacts, secrets, MFA, metrics, port allocation, probe, the rest of the dashboard | files, rows | read and write | not modelled, see below |

What is hard here:

* **Handlers interleave between database calls.** No handler opens a transaction:
  each PostgREST call is atomic, the sequence is not. Reads are used after other
  handlers have written.
* **Calls fail half-way**, and many errors are ignored. A request, or its answer,
  may get lost, and a time limit on the client says nothing of the server.
* **Runners come and go.** A dead runner is known only by its old heartbeat; what
  it was doing to containers, buckets and clouds stays as it was.
* **On the runner, everything between two `await`s is a step**: callbacks of one
  process overlap, and the monitor, the deployer and the document syncer share
  containers without a lock.
* **The browser sees snapshots and events**, in no common order.

For each component, correct means: one runner per run, and none declared dead that was
heard of (lifecycle); what a run is shown to have come to is what its
execution came to, and a stopped runner leaves none behind (agent); a verdict of the
reviewers that the votes justify, heard by the runner (approvals); groups in an order
that respects the dependencies (DAG); no task before its dependencies, an honest
verdict and a cancelled run that ends (execution); an ended step (processes); the
commit's own image (images); one active deployment, the one that is served, with
links that work (records); a proxy that keeps a container it can reach and, after
each deployment, serves what the deployment reported (deployers); remediation that
costs no traffic and replaces what is broken (healing); nothing leaked and nothing
current pruned (documents); a mirror that comes to the manifest; each slot fired
once and each cooldown kept (cron); lines in order (logs); the last save current
(versions); ranks that come from the owner (membership).

## The modules

| Module | What it is |
|---|---|
| `RunStates` | the transition tables and terminal sets of `constants.ts`, the predicates of `state-machine.ts` |
| `RunLifecycle` | every writer of the runs, tasks and runners in the control plane; `RunLifecycleProofs` |
| `RunnerAgent` | runner processes against a control plane that may lose calls; `RunnerAgentProofs` |
| `ApprovalPromise` | what a gate promises: votes accumulate, a verdict has the votes for it, the runner hears it |
| `Approval` | the gate call by call, which refines `ApprovalPromise`; `ApprovalProofs` |
| `Dag` | `validateDAG` and `resolveDAG`; `DagProofs` |
| `PipelineExecution` | a runner executing a claimed run; `PipelineExecutionProofs` |
| `StepProcess` | the processes of one step and what ends them |
| `ImageBuilds` | images and tags of runs that share hosts and a registry; `DeploymentRowsProofs` |
| `DeploymentRows` | the deployments of a project as rows, and its tunnel; `DeploymentRowsProofs` |
| `DockerHost` | containers and proxy of one project, and the calls that change them |
| `Deployer`, `BlueGreenDeployer`, `CanaryDeployer`, `RollingDeployer` | what a deployer is; the three strategies |
| `LocalDeploy` | composes the three: deployments one after the other on one host; `DeployerProofs` |
| `SelfHealing` | the health monitor and the remediation engine on a `DockerHost` |
| `SelfHealedDeploy` | composes `LocalDeploy` and `SelfHealing` on the same containers; `DeployerProofs` |
| `CloudDeploy` | `executeDeployment` for Fly, Railway and `auto`, with the rows it settles; `DeployerProofs` |
| `ProjectDocuments` | the versions of a document path in the control plane |
| `DocumentMirror` | a runner's synchronisation of a path |
| `ScheduleDispatch`, `AlertRule` | a schedule and a rule under overlapping ticks and edits |
| `LogStreamer` | the streamer of a run and the handler that stores its batches |
| `PipelineVersions` | the saves of a pipeline |
| `Membership` | the members of an organisation and its invitations |
| `ProjectSetup` | the page that creates a project |
| `LiveView`, `Notifications` | a page that follows a run or a deployment; the bell |
| `ConsoleProofs` | proofs about `ProjectDocuments`, `Membership`, `ScheduleDispatch`, `AlertRule`, `LogStreamer`, `PipelineVersions`, `ProjectSetup`, `Notifications` and `DocumentMirror` |
| `DeploymentRowsProofs` | proofs about `DeploymentRows`, `ImageBuilds` and `LiveView`, as `MCDeploymentRows` runs them |
| `DeployerProofs` | proofs about `LocalDeploy`, with the three drivers, `SelfHealedDeploy` and `CloudDeploy` |
| `MC*` | instances for TLC; three of them put parts that share nothing into one run |

`RunLifecycle`, `RunnerAgent`, `PipelineExecution` and `DeploymentRows` extend
`RunStates`. `PipelineExecution` takes the groups as a constant and assumes of them
what `DagProofs` proves of `resolveDAG` (`PipelineAssumption`). To `RunLifecycle` a
runner is anything that calls the runner API at any time with anything; in
`RunnerAgent` the handlers are atomic and the runners real. `LocalDeploy` has the
containers of which `DeploymentRows` only knows who is served. `DocumentMirror`'s
`published` is what `ProjectDocuments` calls the manifest.

`MCConsole`, `MCHost` and `MCDeploymentRows` hold a variable `part`, chosen initially:
only the part that it names moves, so each is explored by itself and the run's states
are the sum, not the product.

In each module, names with an underscore (`Claimable_AnyStatus`) are a definition got
wrong in a plausible way: they are used only to see that the property it should
break does break.

### Control plane and runner

**RunLifecycle.** The variables are columns: `status`, `claimer` (`runner_id`), `target`
(`target_runner_id`), `task`, `registered`, `job` (`current_job_id`), `label`
(`runner_registrations.status`). Two clocks are cut into what the code compares: `idle`
says that a run's `updated_at` is older than the grace period, and `hbAge` is 0 (fresh),
1 (stale) or 2 (older than the reaper's threshold). `req[q]` is the local state of a
handler invocation; each of its database calls is an action (`ClaimRun`, `MarkBusy`,
`InsertTasks`, `ReplyClaim`; `ReadRunStatus`, `WriteRunStatus`, ...). `CallFails` either
ends the invocation or, where the handler ignores the error, goes on.

**RunnerAgent.** `poll[a][p]` is where callback p of the timer of agent a stands, `mode`
whether the process polls, waits for its job or is down, with the flag `isExecutingJob`.
`Slow` agents have polls longer than the interval, `Lossy` ones lose requests and
answers, `Brisk` ones are restarted before the reaper saw them silent: properties say
which of these they except, and all of them are explored. The reaper knows heartbeats
only, so a `Lossy` agent may be taken for dead while it executes. `doubled` records
the runs for which two overlapping polls of one agent went.

**Approval, ApprovalPromise.** `approval` is the row, `votes` the rows of
`approval_votes`, `call` the overlapping requests, `gate` and `aborted` the runner's
loop. The refinement mapping sends the runner's loop to its verdict, or to "waiting".

**Dag.** The input (`depends_on`, as sequences, so that duplicates and unknown names
exist) is chosen in `Init`. `validateDAG`'s queue is first in, first out in the code;
`VisitTask` takes any task of it, since no property depends on the order.

**PipelineExecution.** `pc` and `group` are where `executePipeline` is, `at[t]` is where
`executeTask` is with task t, `outcome` is the `outcomes` map, `aborted` the
`AbortSignal`; `run` and `row` are the control plane's rows. A report takes effect when
it is sent, or never, perhaps without its answer, which `lost` records. A run without
tasks is excluded by `Tasks # {}`.

**StepProcess.** The processes form one group; `ignores` and `quiet` are those that
ignore SIGTERM or gave up their pipes, `box` the step's container. execa's own timers
and the terminator's are separate actions.

**ImageBuilds.** `build[j]` is where run j is, a host and the registry map tags to what
was built or pushed under them last. Assumed: commits differ in their short sha, and no
branch is named like one or `latest`.

### Deployments

**DeploymentRows.** Rows are numbered in the order of `created_at`. `call[c]` is a
handler; `served` and `running` are the runner's side: whose containers have the
traffic, and the tunnel that is up. A deployer succeeds, fails and says so, or throws,
of which nobody is told (`thrown`); one that did not succeed may have moved the traffic
all the same (`stray`). The tunnel is a container with one name, which deployments and
the monitor's reaper handle one docker command at a time; `crossed` records that two of
them did so at once, `unread` that the address of a good tunnel was not found in its
log. `overlaps` and `faults` count what was not orderly. That `cloudflared` exits by
itself is left out.

**DockerHost** and the deployers. `box` holds the containers by name with image,
deployment, whether they run and what their last check said; `conf` is the proxy's
configuration on disk, `loaded` the names it resolved to the container that is there
now: a recreated container has a new address the proxy does not know until its reload.
Each deployer is one action per Docker call or check. `Mishap` is a call that fails, or
a runner that dies, before, inside or after it.

**SelfHealing.** `monitored` is the monitor's map with window and restarts, `todo` what
the tick still has to look at; `broken` are the images whose application does not
answer. `overlapped` (SelfHealedDeploy) records that the two acted at the same time.

**CloudDeploy.** A Fly app is the sequence of its machines, a Railway project that of
the services with the deployer's name; every call may fail, and the reply to one that
changed something may be lost (`doubts`).

### Documents

**ProjectDocuments.** One path; a version is a row (`status`, `current`) and an object.
`call[h]` is a handler that may die between any two calls; `races` counts handlers that
began beside another, `late` the files put after their row was on its way out.
**DocumentMirror.** `content` is what the bucket holds, `state` what the state file
says; `cut` is a change that was cut off before it was noted.

### The rest

`ScheduleDispatch` and `AlertRule` have time in minutes and dispatches that hold the
`now` of their tick; that of a schedule holds the expression it read as well, from
which it computes the next slot when it claims one. `LogStreamer` numbers the lines;
a batch whose call failed may be with its handler still (`adrift`), which stores it
behind later ones, or never: `overdue` has its lines. `PipelineVersions` records with
each version the save that made it. In `Membership` an action reads the caller's role
once and row-level security looks at it again at every write; `knighted` are those the
owner made admin. In `LiveView` every table is one counter and every channel a queue;
assumed are a delivery shorter than `TERMINAL_GRACE_MS` and fewer log lines than the
page reads. In `Notifications` every row is delivered once after the channel was joined. The
layout's queries are two, and either may fail, which reads as no rows, or a count of 0;
`torn` records a write between them, or a count that failed.
In `ProjectSetup` a listing of branches that succeeds has the default branch.

## The checks

### Runs that pass

| Run | Shows | Bounds |
|---|---|---|
| `lifecycle_claims` | one runner per run for ever, under creations, re-runs, claims, cancellations and revocations with failing calls | 2 runs, 2 runners, 2 overlapping invocations |
| `lifecycle_live` | only orphans are reaped, and they are; labels heal | 1 run and its task, 2 runners, 1 invocation and a reaper, no failing call |
| `approval` | `ApprovalPromise` is implemented; votes end the wait; any call may fail | 3 users, a quorum of 2, 3 requests in flight |
| `execution` | dependencies first, rows that settle, an honest verdict, a cancelled run that ends though steps hang and gates stay undecided | 4 tasks in 3 groups, two of them gated, one deploying, one of 2 steps |
| `deploy` | no interruption while nothing failed, capacity of a rolling update, success is served, failure is not | 4 deployments in a row of one strategy, 3 images, up to 3 instances, 2 canary stages, a mishap at every step |
| `healing` | remediation keeps the traffic, reports a rollback only if it is served, replaces what is broken | 3 deployments, 2 images, 2 colours or 1 instance, a window of 2, 1 restart |
| `rows` | one active deployment, the one that is served unless a deployer that failed took the traffic; links work, tunnels being handled command by command; images are the commit's own; a page that stopped following shows the end | 3 deployments, 2 handlers, 2 tunnels, 1 overlap or 1 failure; 2 builds, 2 hosts; 2 events per table |
| `agent` | no run shown as ended under its execution (but timed out, where heartbeats are lost), honest statuses, nothing left behind by a shutdown, queued runs are served | 2 processes, one of them slow, lossy and restarted at once, 2 overlapping polls each, 2 runs, one pinned |
| `console` | the ten parts of `MCConsole`: documents, members, schedule, alerts, logs, graphs, clouds, versions, project setup, bell | see below |
| `host` | a clean synchronisation leaves its manifest, the mirror converges; a step ends | 3 versions, one of them corrupt, 2 synchronisations, 1 overlap; 2 child processes |

`console`: 2 documents versions, 2 handlers, one kept version; 3 users, 2 invitations, 2
actions in flight; 4 minutes with periods of 1 and 2, 2 dispatches; 2 evaluations, 4
minutes, cooldowns of 2 and 3; batches of 2 lines, 5 lines; every graph of 3 tasks and
an unknown name with lists of at most 2; 3 deployments to each cloud, 3 machines, one
doubtful call; 3 saves; 2 repositories, a fetch more than one at a time; 2
notifications, a page of 1, 2 visits.

Why these bounds: a race of handlers needs the row, the competing actor and one
invocation on each side, and most bounds are on how many are in flight, never on how
many are made: a finished invocation may be made again. Where a sequence is counted
(rows, versions, deployments), it is long enough for a predecessor, a successor and one
that comes back: three deployments are one to restore, one that fails and one that
succeeds; four make a colour or a stable container come round again after a mishap. A
quorum of 2 of 3 users is the least with votes that complete it together and one
against. A chain of three groups is the least in which a skipped task blocks another.
Where `Calls` leaves kinds of invocation out of a run, it is because the run's
properties are about the others; the proofs have no such bound. `rows` has one more
bound, `Explored` in `MCDeploymentRows`: an overlap or a failure, not both, and no step
after two have handled the tunnel at once, from where on no property says anything of
the links. In `healing` docker
calls do not fail and a check passes exactly if the application works, so that what is
explored is the interleaving of the two.

Every run has deadlock checking off: every model may come to rest (no more calls, a
decided gate, an ended run, a bound reached). Symmetry is used in safety runs only,
over sets whose members the specification treats alike.

### What the documentation says and the code does not do

| Run | Statement | What happens |
|---|---|---|
| `finding_status` | the status endpoint validates transitions, and `cancelled` is final | the update is by id only: a report overwrites a cancellation made since the check |
| `finding_cloud` | on failure "the deployer never cut over, so the most recent draining deployment is still serving" | a cloud's one machine or service was updated in place, and nothing puts the earlier image back: the active row is not served |

Seen while modelling, and not runs of their own (each is either excepted in the
property that meets it, by a variable that records it, or part of what is left out):

* *Lifecycle.* A run cancelled between its insertion and its second write is queued
  again. Cancelling rewrites skipped tasks, which the filter lacks. An error of the
  reaper's runner lookup makes every run look orphaned. Where an approval and a
  rejection overlap, the approval may win and the rejection stay on record. A missed
  insertion of the approval row leaves the runner polling a 404 until the run is
  cancelled. The count of a vote runs once, after the vote was stored. A runner at work
  whose heartbeats get lost is taken for dead, and its run timed out; it stops for
  `cancelled` only, so it goes on.
* *DAG.* A dependency that is listed twice is reported as a cycle.
* *Agent.* "One job runs at a time per runner" does not hold for polls longer than the
  interval: `isExecutingJob` is set after `pollJob` returned. A runner that was told of
  a run and refused it reports that run as failed; the claim check of the status
  endpoint keeps that from doing harm. A shutdown while a poll is in flight may claim a
  run and leave it.
* *Deployment rows.* A strategy that a cloud does not have makes `createDeployer` throw:
  no report is made, the row stays "deploying", and its predecessor, which is served,
  "draining" until the next deployment. A canary whose new stable container fails, and a
  docker command that fails after the switch, leave the traffic where it was moved, while
  the row of the predecessor is made active again. The reaper reads a tunnel's label and
  removes by name, so it may remove the tunnel that a deployment put in place meanwhile,
  and so may another deployment. A good tunnel whose address scrolled out of the last
  200 lines of its log is replaced, and the rows before show a dead link until it
  expires. Two runs that deploy at once leave two active rows; an insertion
  that fails after the draining leaves the predecessor draining; a crash leaves a row
  "deploying"; the updates of the report, the stop and the restoring carry no
  condition; a user's rollback leaves the link in a row that the report would clear;
  "the runner will detect the status change and stop the containers" of a stop is not
  so.
* *Deployers and healing.* A crash between the switch and the removal of the old colour
  makes the next deployment start the colour that is served. The window keeps the
  failures from before a restart: a container that answers again may be restarted again,
  and rolled back. A rolling update's rollback recreates instances under a proxy that
  reloads only at the end. After a change of strategy, it goes back to instances that
  were not served when the deployment began. A canary that kept the traffic when its
  promotion failed runs on after the next deployment took that traffic; rolled back in
  place later, it is reported as rolled back and serves nobody.
* *Clouds.* Lost or late replies of a creation leave two
  machines. A Railway deployment that took too long is reported failed and goes on. The
  security scan is skipped where Docker is missing.
* *Steps.* Two terminations arm two kill timers of which one is cleared. Processes that
  ignore SIGTERM and gave up the pipes survive a step. `docker rm -f` before the
  container exists misses it.
* *Documents.* A restore between the reading and the deletions of a prune loses the
  version it restored; a prune ignores that an object was not removed; a PUT may land
  while its path is deleted. Overlapping synchronisations write each other's state file
  back, and one that is killed between a put and the state file, followed by a restore
  of the old version, leaves the newer one served. A bucket whose policy was not put
  after its creation is not readable.
* *Logs.* Batches outgrow the size the documentation gives while a flush is in flight;
  a shutdown that meets a flush in flight loses the lines buffered since. A call that
  failed at the client does not hold back the next one, and its handler may store its
  lines behind later ones.
* *Schedules.* An edit that was computed before a slot fired puts that slot back; one
  deactivated after it was fetched still fires; one whose expression was changed since,
  with the same next slot, goes on to the next slot of the old expression; a slot is claimed before its run is
  inserted, so a failure in between loses the run.
* *Membership.* Someone promoted to admin between an admin's read and write is changed
  or removed by that admin. Those who accepted, or were removed, cannot be invited
  again. A resent invitation is deleted first, and its insertion may fail.
* *Versions.* Overlapping saves leave the older version current; a creation whose last
  call fails leaves a definition without a current version.
* *Browser.* A refresh with a final status cuts the live view off before the last
  events; writes between the snapshot and the join are not seen; steps of a task the
  page does not know are dropped; a deployment's page closes at once. A late answer of
  the picker brings back a given-up repository (with its branch). "Mark all as read"
  marks what was never shown, and going to another page shows read ones as unread. A
  count that failed shows no badge beside unread notifications.

### Fairness

* `lifecycle_live`: pg_cron calls the tick every minute, so the scan of a run that
  stays eligible is made again and again (strong fairness: between two ticks the
  reaper may be busy with another run) and a scan that was begun ends (weak). Time
  passes: heartbeats age and runs go idle. Handlers of users and runners get none.
* `approval`: a request that was begun ends, the runner keeps polling, and of
  infinitely many polls one is answered (strong fairness of `HearStatus`): the loop
  retries every error. Votes are never forced, and calls may fail for ever.
* `execution`: the runner's process lives, one task's progress does not wait for
  another's, the watcher's polls are answered in the end, clones and deployments end
  (they have timeouts). None for reviewers, the end of a step or the user.
* `agent`: the timer fires, and a request ends in an answer or an error. That jobs end
  and that the agent keeps polling are premises of `QueueIsServed`.
* `healing`: the monitor's ticks and the deployment in progress go on. Nothing breaks
  or heals by fairness, and no deployment is ever started by it.
* `host`: the syncer's loop goes on; failures may never stop, which is why `Converges`
  has the premise `calm`. Timers fire and a process that got SIGKILL is gone.

The other runs check safety, and state no fairness.

## The proofs

Theorems hold for every value of the constants that satisfies the named assumptions.
Each is an inductive invariant, checked by TLC before it was proved, with one step per
action.

* **RunLifecycle.** `TypeCorrect`; then `RunsConsistent /\ RequestsConsistent`. That
  claims are exclusive is not inductive: it needs that a run has a runner exactly when
  its status says it was claimed (`ClaimMatchesStatus`), and what each invocation in
  flight knows of the rows it is about to write (`RequestKnows`). From it:
  `ClaimsAreExclusive`, `PinsAreRespected`, `LinksAreSound`, `TasksAreInsertedOnce`,
  `ClaimsArePermanent` and, with what the reaper has read by then (`OrphanKnown`),
  `ReaperTakesOnlyOrphans` and `OnlyOrphansTimeOut`: both except a lookup of the
  runners that failed.
* **Approval.** A request about to approve has counted a quorum, one about to reject has
  its vote on record, and votes exist only on an inserted row. Quorums are cardinalities
  of sets that only grow, which `QuorumGrows` turns into a fact the actions preserve.
  From it `VerdictsHaveVotes`, `NoQuorumIsLost`, and `ApprovalImplementsPromise`, where
  every step maps to a vote, a settlement, a hearing or a stutter.
* **Dag.** Both loops keep an in-degree. In `resolveDAG` it is exactly the number of list
  entries not yet taken, in `validateDAG` at least that; so a task whose degree is zero
  waits for nothing, and a task on a cycle is never taken. From it `GroupsAreSound` and
  `SafetyNetIsUnused`. When no list repeats a name the count of `validateDAG` is exact
  too (`CountIsExact`), so what it leaves over waits for itself:
  `CycleErrorsAreExplained`.
* **PipelineExecution.** Groups ahead are untouched (`Ahead`), groups behind have an
  outcome for every task (`Behind`), an outcome tells how its task ended and a skipped
  task has a failed or cancelled one before it (`Results`), and a run that has a verdict
  is past its groups (`Verdicts`). From it `DependenciesRespected`, `VerdictIsHonest` and
  `NothingLaunchedAfterAbort`. For the rows two more are needed (`Skipping`, `Rows`);
  from them `RowsAlwaysFollow` and `RowsAlwaysSettle`.
* **DeploymentRows.** While handlers neither overlapped nor failed, the one that is at
  work explains every row that is not at rest: which row is deploying, which is draining,
  and who has the traffic, by the step it is at (`Expected`); between two of them every
  row but one has ended or was left by a deployer that threw, and the one that is active
  has the traffic unless a failed deployer moved it (`Settled`). From it
  `OneActiveDeployment`, `ActiveDeploymentIsServed`, `NothingHalfWay` and
  `EndedDeploymentsStayEnded`. Without that premise, in every interleaving of handlers
  and with every failure of a database or docker call: as long as no two have handled
  the tunnel at a time, one that does so knows whether it runs (`Orderly`), and where no
  address was overlooked it removes a tunnel only when no link to it is of use (`Useful`),
  so a link that has not expired is the running one's. `UrlsWork` says so of all rows,
  and of the active one even where addresses were overlooked, for which the invariant
  follows the links of the handler at work (`Linked`). No row that stopped or failed shows
  a link, whatever happens (`NoUrlWhenStopped`).
* **RunnerAgent.** That a run is not shown failed while it is executed says nothing of
  how the agent came to execute it. The invariant adds that a runner's name stands on a
  run exactly when its status says so (`ClaimedByStatus`), that a run which an agent was
  granted is that agent's and one callback's (`GrantsAreExclusive`), that a verdict is
  come to before it is shown (`VerdictFirst`, `FailureFirst`), that a process which is
  down has left no callback (`DownIsEmpty`), and, for agents whose polls do not
  overlap, that the flag `isExecutingJob` tells whether the one callback is at work
  (`OneCallback`) and what that knows of its run at each step (`CallbackKnows`). For
  agents that lose nothing and are not restarted at once, a run they hold is in a
  callback's hands (`HeldIsInHand`); a shutdown that waited has none. A run of an agent
  that loses heartbeats may be shown timed out at each of these steps. `NoFalseFailure`,
  `StatusesAreHonest`, `ShutdownLeavesNothing`.
* **ProjectDocuments.** What a handler has made sure of when it is between two calls
  (`HandlersKnow`): the rows it is about to delete have lost their objects, a path that
  is being deleted has no row it did not read, and what it prunes is not current. This
  is kept only as long as one handler is at work at a time (`Undisturbed`), which is why
  the theorems have that premise. `NoObjectLeaks`, `PruningKeepsCurrent`.
* **Membership.** A call is followed by what it read earlier: one about to make
  somebody an admin read "owner", one about to write to a member is not about the
  founder (`CallsAreAllowed`), and an invitation to become an admin is the founder's
  (`InvitesAreAllowed`), although roles change in between. `RanksAreGranted`.
* **ScheduleDispatch, AlertRule.** A slot is claimed when it is due and moves the
  schedule beyond it (`ClaimsAreDue`, `NextIsBeyond`), by the period of the expression it read, which a
  stored row had (`RowsHavePeriods`). An evaluation that has claimed its rule has stamped it
  (`EvaluationsDecided`); the invariant spreads the cooldown over notifications that
  were sent and those that are claimed and not sent yet (`StampsApart`), which are in
  no order. `NoSlotTwice`, `NotifiedOnce`.
* **LogStreamer.** What is stored, the one batch under way and the buffer follow each
  other, and nothing is past the last line pushed (`OneBatch`, `InSequence`); batches of
  calls that failed are of overdue lines, disjoint and before all that is yet to be sent
  (`Adrift`), so only such lines stand behind later ones.
  `LinesAreInOrder`.
* **PipelineVersions.** The numbers have no gaps and a handler inserts right after
  ones that are saved (`NumbersInRow`, `SavesAreNumbered`, `VersionsAreSaved`), so that
  a handler which began after another was over saves under a higher number; the unique
  index refuses the rest. `EditsAreCurrent`.
* **ProjectSetup, Notifications.** The form's branch is one of its repository
  (`FormHasItsBranch`); a half of the layout that has answered, and did not fail, still says what the table
  does if the other half sees the same table (`LayoutAgrees`), counted with the
  cardinality theorems. `ProjectsKeepTheirBranch`, `BadgeIsEnough`.
* **DocumentMirror.** Where no synchronisation overlapped another and none was cut off
  between a change of the bucket and its note, one is under way at a time (`OneSync`),
  between two of them the state file names what the bucket holds if it holds anything
  (`StateTells`), a bucket that is not readable yet is being opened (`BareIsOpened`),
  and at each step a synchronisation still knows what it read (`SyncKnows`); failed
  calls, lost answers that left nothing and kills elsewhere keep all of that.
  `MirrorLeavesManifest`.
* **ImageBuilds.** Tags with a commit in them name builds of that commit, on every host
  and in the registry, whoever moved them (`TagsAreHonest`), so what a run reads under
  one of them is of its commit (`ReadsAreHonest`); and between its build and its
  deployment they exist (`TagsAreThere`). Nothing is said of `latest` or a branch's tag,
  and nothing can be. `ImagesAreOfTheirCommit`.
* **LiveView.** A channel holds the last writes of its table in order (`EventsFollow`);
  what a page shows with what it has still to be sent is all there is (`NothingIsLost`);
  while it is closing, what is due is enough for the end (`EndIsComing`). `ViewsAreFinal`.
* **LocalDeploy.** Each of the three drivers finds on the host what an earlier deployment
  left there, so the invariant (`LocalInv`) joins three things. For every call of every
  driver (`pc`) it says which containers run, which this deployment made (`IsNew`) and
  which have the traffic (`BlueGreenOK`, `CanaryOK`, `RollingOK`); this holds after any
  history of failed calls and dead runners. Until a call fails (`Clean`) it also says
  that nothing has exited, that between two deployments at most one colour runs and no
  canary has traffic beside a stable container, and what a rolling update has taken out
  of rotation.
  And for a project that was only ever deployed by rolling updates (`Rolled`) it says
  that an instance which runs but is not of this deployment has an image served before,
  which is what `rollbackInstances` returns to. The lemmas on `stop`, `remove`, `run`
  and the reload of nginx (`RunEffect`, `RemoveEffect`, ...) are shared by the drivers;
  there is one lemma per driver's call. `CapacityKept` follows from counting: what the
  update found is at most the instances that run together with those of the batch.
  `LocalSuccessIsServed`, `LocalFailureIsNotServed`, `LocalCapacityKept`,
  `LocalUninterrupted`. The second has the premise that the project keeps its strategy
  (`~Switching`), as the run has it; the other three do not. Without it the statement is
  false: TLC finds a rolling update that fails after a canary, and goes back to the
  instances of an earlier rolling deployment, which nobody had been served from since.
* **SelfHealedDeploy.** The monitor does not keep the drivers' invariant: it starts
  containers that no deployment made and removes ones that a driver left. The
  composition has an invariant of its own (`HealInv`). It says of the containers only
  what both sides keep: the colours, or the ordinals, that may run at each call of the
  driver (`ColoursApart`, `InstancesKnown`), one colour at most between deployments
  except in the middle of a swap, and instances that the configuration names. Of the
  monitor it says that whatever a remediation is about is one colour that runs, or an
  instance nginx is configured with (`MonitorTyped`), and what it has made sure of at
  each call (`RollbackKnows`): before the switch the other colour has no traffic, after
  it all of it, in a container of the previous image whose check passed. A call that is
  refused, or that gives up, is then impossible where it would lose traffic. The rest is
  one lemma per call of the monitor and of the drivers of colours and instances.
  `HealingKeepsServing`, `RolledBackServes`. All of this is said while neither side has
  acted in the middle of the other's work (`overlapped`, as in the properties). The
  premises are that no docker call of a deployment fails and that the project keeps its
  strategy, as the run has it, and for the second that it has no canaries. TLC refutes
  either statement without either of the first two, and the second for a project with
  canaries whose checks are flaky. The window's size and the number of restarts are
  arbitrary, and so is whether checks are flaky.
* **CloudDeploy.** That one image is served is not inductive: without doubts one task is
  at work (`Alone`) and it is the last that asked (`AskedLast`), the Fly app has one
  machine that has not failed and none is starting that no task waits for
  (`OneMachine`), Railway has one service and one successful deployment of it
  (`OneService`), and a task that was told of success is served as long as nobody asked
  after it (`LatestIsServed`). `CloudServesOneImage`.

`ProjectDocuments`, `ProjectSetup` and `Notifications` have no theorem about their types,
which their invariants contain as far as they are needed (`WebTyped`, `Countable`); the
others have. The constants they need are
assumed by name in their modules, and TLC evaluates that on their runs: the value that
stands for "none" is not a member of the set (`BuildsAssumption`, `MirrorAssumption`,
and `SavesAssumption`, which also has finitely many saves), bounds are natural numbers (`CloudAssumption`,
`LiveAssumption`, `LinesAssumption`), periods and cooldowns are positive
(`ScheduleAssumption`, `AlertAssumption`), so are instance counts and batches, which the
validators require (`deployment.ts:32`), and every instance of a count has its ordinal
(`DeployAssumption`), the founder is a user, and invitations are
for roles below owner (`OrgAssumption`).

Proved and not the property of a run: `PinsAreRespected`, `LinksAreSound`,
`TasksAreInsertedOnce`, `ClaimsArePermanent`, `OnlyOrphansTimeOut`,
`VerdictsHaveVotes`, `NoQuorumIsLost`, `SafetyNetIsUnused`, `CycleErrorsAreExplained`,
`NothingLaunchedAfterAbort`, `RowsAlwaysFollow`, `NothingHalfWay`,
`EndedDeploymentsStayEnded`, `NoUrlWhenStopped`.

### Only model-checked

Liveness (`OrphansReaped`, `LabelHeals`, `VotesEndTheWait`, `CancelEndsRun`,
`QueueIsServed`, `BrokenIsReplaced`, `Converges`, `StepEnds`) is out of the prover's
reach, since it rests on fairness and ENABLED. `StepProcess` has no other property.
Every invariant and action property of the passing runs is a theorem. No module declares
a RECURSIVE operator.

## Not modelled

* Pipeline parser and validators, secrets, encryption, MFA, the probe: stateless.
* Port allocation: in one process it is one synchronous step, and nothing but `stop()`,
  which only tests call, releases a port. Runner profiles of one machine share the file
  without a lock, which loses allocations; `PROJECT.json` lists it as a hazard.
* Artifacts, metrics, audit events, the outgoing webhook of notifications: written once
  and read by nothing that acts on them. Two tasks' artifacts of one name overwrite
  each other.
* The rows of steps in the status endpoint, whose handler is that of tasks.
* `stop`, `rollback`, `getStatus`, `getHealth` and `getLogs` of the deployers: called by
  tests only.
* The proxy's rate limit, security headers and documents snippet; bucket policies.
* Editing and deleting projects, organisation names and slugs, GitHub tokens, search,
  and what the dashboard renders.
* Row-level security, but for memberships and invitations.

## Running

`tlc -config <run>.cfg <MC module>` for a run (`finding_cloud` runs `CloudDeploy`
itself), `tlapm <module>.tla` for the proofs.
