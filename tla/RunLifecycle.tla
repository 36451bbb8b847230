---------------------------- MODULE RunLifecycle ----------------------------
(***************************************************************************)
(* The life of a pipeline run in the control plane of DeployX: the rows of *)
(* pipeline_runs, task_runs and runner_registrations, and every handler    *)
(* that writes them.                                                       *)
(*                                                                         *)
(* A handler is a serverless function.  Each of its database calls is one  *)
(* atomic step (PostgREST runs one statement per call, and no handler      *)
(* opens a transaction), so a handler is a small program whose steps       *)
(* interleave with those of every other handler.  req[q] is the local      *)
(* state of the handler invocation q: what it is, the step (the database   *)
(* call) it will do next and the values it has read or was given.          *)
(*                                                                         *)
(* Runners are not trusted to behave: any registered runner may call any   *)
(* endpoint of the runner API with any run at any time, which includes     *)
(* the late, repeated and overlapping calls the real runner makes.         *)
(***************************************************************************)
EXTENDS RunStates, Naturals

CONSTANTS
  Runs,      \* ids that pipeline runs are created with
  Runners,   \* ids of registered runners
  Tasks,     \* the tasks of the pipeline's configuration
  Requests,  \* handler invocations that may be in flight together
  Reapers,   \* invocations of the cron tick's reaper, one per run it looks at
  None,      \* SQL null
  Calls,     \* bound: the kinds of invocation made in this instance
  Faults,    \* may a database call fail, or a handler die between two calls?
  LookupFaults \* may the reaper's read of runner_registrations fail?

VARIABLES
  status,     \* pipeline_runs.status, "absent" before the row exists
  claimer,    \* pipeline_runs.runner_id
  target,     \* pipeline_runs.target_runner_id
  idle,       \* is pipeline_runs.updated_at older than the grace period?
  task,       \* task_runs.status per run and task, "absent" without a row
  registered, \* the rows of runner_registrations
  job,        \* runner_registrations.current_job_id
  label,      \* runner_registrations.status
  hbAge,      \* age of last_heartbeat_at: 0 fresh, 1 stale, 2 stale + grace
  req,        \* the handler invocations
  granted,    \* history: the <<runner, run>> a claim answered with success
  wasSilent   \* history: the runs whose runner was silent since the claim

runVars    == <<status, claimer, target, idle>>
runnerVars == <<registered, job, label, hbAge>>
history    == <<granted, wasSilent>>
vars       == <<runVars, task, runnerVars, req, history>>

-----------------------------------------------------------------------------
(* Handler invocations. *)

Invocations == Requests \cup Reapers

Kinds == {"none", "schedule", "submit", "claim", "report", "taskReport", "cancel",
          "heartbeat", "revoke", "reap"}

ASSUME RunLifecycleAssumption ==
  /\ None \notin Runs \cup Runners \cup Tasks
  /\ Requests \cap Reapers = {}
  /\ Calls \subseteq Kinds \ {"none"}
  /\ Faults \in BOOLEAN
  /\ LookupFaults \in BOOLEAN

Steps == {"none", "queue", "cas", "busy", "tasks", "reply", "read", "write",
          "release", "delete", "lookup", "tidy", "tidyTasks", "tidyJob"}

RunStatuses  == PipelineStatuses \cup {"absent"}
TaskRowStatuses == TaskStatuses \cup {"absent"}
RunnerLabels == {"online", "busy", "offline"}

\* What an invocation knows.  run, runner and task: the rows the call is
\* about.  to: the status a report carries, the label a heartbeat will write.
Request == [kind   : Kinds,
            step   : Steps,
            run    : Runs \cup {None},
            runner : Runners \cup {None},
            task   : Tasks \cup {None},
            to     : PipelineStatuses \cup TaskStatuses \cup RunnerLabels \cup {"none"}]

\* The statuses the runner reports for a run, and for a task.
ReportedRunStatuses  == {"success", "failed"}
ReportedTaskStatuses == {"running", "awaiting_approval", "success", "failed",
                         "cancelled", "skipped"}

\* The parameters and the steps of each kind of invocation.
Shaped(x) ==
  /\ x.kind \in {"submit", "claim", "report", "taskReport", "cancel", "reap"} => x.run \in Runs
  /\ x.kind \in {"claim", "report", "taskReport", "heartbeat", "revoke"}
       => x.runner \in Runners
  /\ x.kind = "taskReport" => x.task \in Tasks /\ x.to \in ReportedTaskStatuses
  /\ x.kind = "report" => x.to \in ReportedRunStatuses
  /\ x.kind = "heartbeat" => x.to \in {"online", "busy"}
  /\ x.kind = "claim" => x.step \in {"cas", "busy", "tasks", "reply"}
  /\ x.kind = "report" => x.step \in {"read", "write", "release"}
  /\ x.kind = "taskReport" => x.step \in {"read", "write"}
  /\ x.kind = "reap" => x.step \in {"lookup", "cas", "tidy", "tidyTasks", "tidyJob"}

NoRequest == [kind |-> "none", step |-> "none", run |-> None,
              runner |-> None, task |-> None, to |-> "none"]

Free(q)           == req[q].kind = "none"
At(q, kind, step) == req[q].kind = kind /\ req[q].step = step

CallWith(q, kind, step, r, w, t, to) ==
  /\ Free(q)
  /\ kind \in Calls
  /\ req' = [req EXCEPT ![q] = [kind |-> kind, step |-> step, run |-> r,
                                runner |-> w, task |-> t, to |-> to]]

Call(q, kind, step, r, w) == CallWith(q, kind, step, r, w, None, "none")

Goto(q, step) == req' = [req EXCEPT ![q].step = step]
Return(q)     == req' = [req EXCEPT ![q] = NoRequest]

RowsOK ==
  /\ status \in [Runs -> RunStatuses]
  /\ claimer \in [Runs -> Runners \cup {None}]
  /\ target \in [Runs -> Runners \cup {None}]
  /\ idle \in [Runs -> BOOLEAN]
  /\ task \in [Runs -> [Tasks -> TaskRowStatuses]]
  /\ registered \subseteq Runners
  /\ job \in [Runners -> Runs \cup {None}]
  /\ label \in [Runners -> RunnerLabels]
  /\ hbAge \in [Runners -> 0..2]
  /\ granted \subseteq Runners \X Runs
  /\ wasSilent \subseteq Runs

RequestsOK ==
  /\ req \in [Invocations -> Request]
  /\ \A q \in Invocations : Shaped(req[q])
  /\ \A q \in Requests : req[q].kind # "reap"
  /\ \A q \in Reapers : req[q].kind \in {"none", "reap"}

TypeOK == RowsOK /\ RequestsOK

Init ==
  /\ status = [r \in Runs |-> "absent"]
  /\ claimer = [r \in Runs |-> None]
  /\ target = [r \in Runs |-> None]
  /\ idle = [r \in Runs |-> FALSE]
  /\ task = [r \in Runs |-> [t \in Tasks |-> "absent"]]
  /\ registered = Runners
  /\ job = [w \in Runners |-> None]
  /\ label = [w \in Runners |-> "offline"]
  /\ hbAge = [w \in Runners |-> 2]
  /\ req = [q \in Invocations |-> NoRequest]
  /\ granted = {}
  /\ wasSilent = {}

-----------------------------------------------------------------------------
(* Creating a run: a row in "created", then a second write to "queued".    *)

InsertRun(q, r, pin) ==
  /\ status[r] = "absent"
  /\ status' = [status EXCEPT ![r] = "created"]
  /\ target' = [target EXCEPT ![r] = pin]
  /\ Call(q, "submit", "queue", r, None)
  /\ UNCHANGED <<claimer, idle, task, runnerVars, history>>

\* A push to GitHub that passes the webhook's checks.
ReceivePush(q, r) == InsertRun(q, r, None)

\* "Run now" in the dashboard, pinned to a runner or not.
TriggerPipelineRun(q, r) == \E pin \in registered \cup {None} : InsertRun(q, r, pin)

\* A re-run copies the source run's pin, and needs the source to be finished.
RerunPipelineRun(q, r) ==
  \E source \in Runs : /\ isPipelineTerminal(status[source])
                       /\ InsertRun(q, r, target[source])

QueueRun(q) ==
  LET r == req[q].run IN
  /\ At(q, "submit", "queue")
  /\ status' = [status EXCEPT ![r] = "queued"]
  /\ idle' = [idle EXCEPT ![r] = FALSE]
  /\ Return(q)
  /\ UNCHANGED <<claimer, target, task, runnerVars, history>>

\* A due schedule inserts its run directly in "queued".
DispatchSchedule(r) ==
  /\ "schedule" \in Calls
  /\ status[r] = "absent"
  /\ status' = [status EXCEPT ![r] = "queued"]
  /\ UNCHANGED <<claimer, target, idle, task, runnerVars, req, history>>

-----------------------------------------------------------------------------
(* A runner claims a run.                                                  *)

CallClaim(q, w, r) ==
  /\ w \in registered
  /\ status[r] # "absent"
  /\ Call(q, "claim", "cas", r, w)
  /\ UNCHANGED <<runVars, task, runnerVars, history>>

\* Mutant of Claimable: the compare-and-swap forgets the status.
Claimable_AnyStatus(r, w)  == status[r] # "absent" /\ target[r] \in {None, w} /\ w \in registered

Claimable(r, w) ==
  /\ status[r] = "queued"
  /\ target[r] \in {None, w}
  /\ w \in registered  \* the foreign key of runner_id

ClaimRun(q) ==
  LET r == req[q].run  w == req[q].runner IN
  /\ At(q, "claim", "cas")
  /\ IF Claimable(r, w)
     THEN /\ status' = [status EXCEPT ![r] = "running"]
          /\ claimer' = [claimer EXCEPT ![r] = w]
          /\ idle' = [idle EXCEPT ![r] = FALSE]
          /\ wasSilent' = IF hbAge[w] = 2 THEN wasSilent \cup {r} ELSE wasSilent
          /\ Goto(q, "busy")
     ELSE /\ UNCHANGED <<status, claimer, idle, wasSilent>>  \* 409
          /\ Return(q)
  /\ UNCHANGED <<target, task, runnerVars, granted>>

MarkBusy(q) ==
  LET w == req[q].runner IN
  /\ At(q, "claim", "busy")
  /\ job' = [job EXCEPT ![w] = req[q].run]
  /\ label' = [label EXCEPT ![w] = "busy"]
  /\ Goto(q, "tasks")
  /\ UNCHANGED <<runVars, task, registered, hbAge, history>>

\* task_runs, with the approvals and step_runs that hang off them.
InsertTasks(q) ==
  /\ At(q, "claim", "tasks")
  /\ task' = [task EXCEPT ![req[q].run] = [t \in Tasks |-> "pending"]]
  /\ Goto(q, "reply")
  /\ UNCHANGED <<runVars, runnerVars, history>>

\* The response reaches the runner, or is lost.
ReplyClaim(q) ==
  /\ At(q, "claim", "reply")
  /\ granted' \in {granted, granted \cup {<<req[q].runner, req[q].run>>}}
  /\ Return(q)
  /\ UNCHANGED <<runVars, task, runnerVars, wasSilent>>

-----------------------------------------------------------------------------
(* A runner reports a status: read and validate, then write by id.         *)

CallReport(q, w, r, to) ==
  /\ w \in registered
  /\ CallWith(q, "report", "read", r, w, None, to)
  /\ UNCHANGED <<runVars, task, runnerVars, history>>

\* 404 without a row, 403 if another runner claimed it, 422 if the table has
\* no such transition.
ReadRunStatus(q) ==
  LET r == req[q].run IN
  /\ At(q, "report", "read")
  /\ IF /\ claimer[r] = req[q].runner
        /\ validatePipelineTransition(status[r], req[q].to)
     THEN Goto(q, "write")
     ELSE Return(q)
  /\ UNCHANGED <<runVars, task, runnerVars, history>>

WriteRunStatus(q) ==
  LET r == req[q].run IN
  /\ At(q, "report", "write")
  /\ status' = [status EXCEPT ![r] = req[q].to]
  /\ idle' = [idle EXCEPT ![r] = FALSE]
  /\ IF isPipelineTerminal(req[q].to) THEN Goto(q, "release") ELSE Return(q)
  /\ UNCHANGED <<claimer, target, task, runnerVars, history>>

ReleaseReporter(q) ==
  LET w == req[q].runner IN
  /\ At(q, "report", "release")
  /\ job' = [job EXCEPT ![w] = None]
  /\ label' = [label EXCEPT ![w] = "online"]
  /\ Return(q)
  /\ UNCHANGED <<runVars, task, registered, hbAge, history>>

CallTaskReport(q, w, r, t, to) ==
  /\ w \in registered
  /\ CallWith(q, "taskReport", "read", r, w, t, to)
  /\ UNCHANGED <<runVars, task, runnerVars, history>>

\* The status of the run itself is not looked at.
ReadTaskStatus(q) ==
  LET r == req[q].run  t == req[q].task IN
  /\ At(q, "taskReport", "read")
  /\ IF /\ claimer[r] = req[q].runner
        /\ task[r][t] # "absent"
        /\ validateTaskTransition(task[r][t], req[q].to)
     THEN Goto(q, "write")
     ELSE Return(q)
  /\ UNCHANGED <<runVars, task, runnerVars, history>>

WriteTaskStatus(q) ==
  /\ At(q, "taskReport", "write")
  /\ task' = [task EXCEPT ![req[q].run][req[q].task] = req[q].to]
  /\ Return(q)
  /\ UNCHANGED <<runVars, runnerVars, history>>

-----------------------------------------------------------------------------
(* A user cancels a run: read the status, then four writes by id.          *)

CallCancel(q, r) ==
  /\ status[r] # "absent"
  /\ Call(q, "cancel", "read", r, None)
  /\ UNCHANGED <<runVars, task, runnerVars, history>>

TERMINAL_STATUSES == {"success", "failed", "cancelled", "timed_out"}

ReadBeforeCancel(q) ==
  /\ At(q, "cancel", "read")
  /\ IF status[req[q].run] \in TERMINAL_STATUSES THEN Return(q) ELSE Goto(q, "write")
  /\ UNCHANGED <<runVars, task, runnerVars, history>>

CancelRun(q) ==
  LET r == req[q].run IN
  /\ At(q, "cancel", "write")
  /\ status' = [status EXCEPT ![r] = "cancelled"]
  /\ idle' = [idle EXCEPT ![r] = FALSE]
  /\ Goto(q, "tasks")
  /\ UNCHANGED <<claimer, target, task, runnerVars, history>>

\* The tasks whose status is not in TERMINAL_STATUSES, which is the set of a
\* run's terminal states and not a task's.
CancelTasks(q) ==
  LET r == req[q].run IN
  /\ At(q, "cancel", "tasks")
  /\ task' = [task EXCEPT ![r] =
                [t \in Tasks |-> IF task[r][t] \in TERMINAL_STATUSES \cup {"absent"}
                                 THEN task[r][t] ELSE "cancelled"]]
  /\ Goto(q, "release")
  /\ UNCHANGED <<runVars, runnerVars, history>>

\* Re-reads runner_id and releases that runner.  The two calls are one step:
\* runner_id is written once (ClaimedOnce), so nothing can come between.
ReleaseClaimer(q) ==
  LET w == claimer[req[q].run] IN
  /\ At(q, "cancel", "release")
  /\ job' = IF w = None THEN job ELSE [job EXCEPT ![w] = None]
  /\ label' = IF w = None THEN label ELSE [label EXCEPT ![w] = "online"]
  /\ Return(q)
  /\ UNCHANGED <<runVars, task, registered, hbAge, history>>

-----------------------------------------------------------------------------
(* Heartbeats.  The label is derived from the row read while authenticating *)
(* the request, before the write.                                          *)

CallHeartbeat(q, w) ==
  /\ w \in registered
  /\ CallWith(q, "heartbeat", "write", None, w, None,
              IF job[w] # None THEN "busy" ELSE "online")
  /\ UNCHANGED <<runVars, task, runnerVars, history>>

\* Mutant of WriteHeartbeat: only the timestamp is refreshed.
WriteHeartbeat_NoLabel(q) ==
  /\ At(q, "heartbeat", "write")
  /\ hbAge' = [hbAge EXCEPT ![req[q].runner] = 0]
  /\ Return(q)
  /\ UNCHANGED <<runVars, task, registered, job, label, history>>

WriteHeartbeat(q) ==
  LET w == req[q].runner IN
  /\ At(q, "heartbeat", "write")
  /\ IF w \in registered
     THEN /\ hbAge' = [hbAge EXCEPT ![w] = 0]
          /\ label' = [label EXCEPT ![w] = req[q].to]
     ELSE UNCHANGED <<hbAge, label>>
  /\ Return(q)
  /\ UNCHANGED <<runVars, task, registered, job, history>>

-----------------------------------------------------------------------------
(* An administrator revokes a runner, refused while it has a job unless    *)
(* forced.  The foreign key of runner_id (no action) refuses the deletion  *)
(* of a runner that any run names; target_runner_id is set to null.        *)

CallRevoke(q, w, force) ==
  /\ w \in registered
  /\ job[w] = None \/ force
  /\ Call(q, "revoke", "delete", None, w)
  /\ UNCHANGED <<runVars, task, runnerVars, history>>

DeleteRunner(q) ==
  LET w == req[q].runner IN
  /\ At(q, "revoke", "delete")
  /\ IF \A r \in Runs : claimer[r] # w
     THEN /\ registered' = registered \ {w}
          /\ target' = [r \in Runs |-> IF target[r] = w THEN None ELSE target[r]]
     ELSE UNCHANGED <<registered, target>>
  /\ Return(q)
  /\ UNCHANGED <<status, claimer, idle, task, job, label, hbAge, history>>

-----------------------------------------------------------------------------
(* The reaper of the cron tick.  A tick reads the running runs, then their *)
(* runners, then times out the orphaned ones one by one; here each run it  *)
(* looks at is an invocation of its own, which allows the interleavings of *)
(* one tick and those of overlapping ticks.                                *)

MarkStaleOffline ==
  /\ label' = [w \in Runners |->
                 IF /\ w \in registered
                    /\ label[w] \in {"online", "busy"}
                    /\ hbAge[w] >= 1
                 THEN "offline" ELSE label[w]]
  /\ UNCHANGED <<runVars, task, registered, job, hbAge, req, history>>

\* A run updated within the grace period is not orphaned whoever runs it.
ScanRun(q, r) ==
  /\ status[r] = "running"
  /\ idle[r]
  /\ Call(q, "reap", "lookup", r, claimer[r])
  /\ UNCHANGED <<runVars, task, runnerVars, history>>

\* Mutant of LookupRunner: only a deleted runner makes an orphan.
LookupRunner_DeletedOnly(q) ==
  /\ At(q, "reap", "lookup")
  /\ IF req[q].runner \notin registered THEN Goto(q, "cas") ELSE Return(q)
  /\ UNCHANGED <<runVars, task, runnerVars, history>>

\* An error of this read is ignored: the map of runners is then empty, and a
\* run whose runner is not in the map counts as orphaned.
LookupRunner(q) ==
  LET w == req[q].runner IN
  /\ At(q, "reap", "lookup")
  /\ \/ IF w \notin registered \/ hbAge[w] = 2 THEN Goto(q, "cas") ELSE Return(q)
     \/ LookupFaults /\ Goto(q, "cas")
  /\ UNCHANGED <<runVars, task, runnerVars, history>>

\* Mutant of TimeOutRun: the update names the run and not the status it read.
TimeOutRun_ById(q) ==
  LET r == req[q].run IN
  /\ At(q, "reap", "cas")
  /\ status' = [status EXCEPT ![r] = "timed_out"]
  /\ idle' = [idle EXCEPT ![r] = FALSE]
  /\ Goto(q, "tidy")
  /\ UNCHANGED <<claimer, target, task, runnerVars, history>>

TimeOutRun(q) ==
  LET r == req[q].run IN
  /\ At(q, "reap", "cas")
  /\ IF status[r] = "running"
     THEN /\ status' = [status EXCEPT ![r] = "timed_out"]
          /\ idle' = [idle EXCEPT ![r] = FALSE]
          /\ Goto(q, "tidy")
     ELSE /\ UNCHANGED <<status, idle>>
          /\ Return(q)
  /\ UNCHANGED <<claimer, target, task, runnerVars, history>>

\* Two updates sent together (Promise.all), which complete in either order;
\* AfterTidy is what is left to do after one of them.
AfterTidy(q, other) == IF req[q].step = "tidy" THEN Goto(q, other) ELSE Return(q)

TidyTasks(q) ==
  LET r == req[q].run IN
  /\ At(q, "reap", "tidy") \/ At(q, "reap", "tidyTasks")
  /\ task' = [task EXCEPT ![r] =
                [t \in Tasks |->
                   IF task[r][t] \in {"pending", "running", "awaiting_approval"}
                   THEN "cancelled" ELSE task[r][t]]]
  /\ AfterTidy(q, "tidyJob")
  /\ UNCHANGED <<runVars, runnerVars, history>>

TidyJob(q) ==
  LET r == req[q].run  w == req[q].runner IN
  /\ At(q, "reap", "tidy") \/ At(q, "reap", "tidyJob")
  /\ job' = IF job[w] = r THEN [job EXCEPT ![w] = None] ELSE job
  /\ AfterTidy(q, "tidyTasks")
  /\ UNCHANGED <<runVars, task, registered, label, hbAge, history>>

-----------------------------------------------------------------------------
(* A database call fails, or the process that serves the request dies.     *)
(* Where the handler checks the error it answers with one; where it        *)
(* ignores the error it goes on with the next call.                        *)

AfterIgnoredError(kind, step) ==
  CASE kind = "claim" /\ step = "busy"   -> {"tasks"}
    [] kind = "claim" /\ step = "tasks"  -> {"reply"}
    [] kind = "cancel" /\ step = "tasks" -> {"release"}
    [] kind = "reap" /\ step = "tidy"    -> {"tidyTasks", "tidyJob"}
    [] OTHER                             -> {}

CallFails(q) ==
  /\ Faults
  /\ ~Free(q)
  /\ req[q].step \notin {"reply", "lookup"}
  /\ \/ Return(q)
     \/ \E step \in AfterIgnoredError(req[q].kind, req[q].step) : Goto(q, step)
  /\ UNCHANGED <<runVars, task, runnerVars, history>>

-----------------------------------------------------------------------------
(* Time: a heartbeat ages, a run goes without an update.                   *)

Age(w) ==
  /\ w \in registered
  /\ hbAge[w] < 2
  /\ hbAge' = [hbAge EXCEPT ![w] = hbAge[w] + 1]
  /\ wasSilent' = IF hbAge[w] = 1
                  THEN wasSilent \cup {r \in Runs : claimer[r] = w} ELSE wasSilent
  /\ UNCHANGED <<runVars, task, registered, job, label, req, granted>>

GoIdle(r) ==
  /\ status[r] = "running"
  /\ ~idle[r]
  /\ idle' = [idle EXCEPT ![r] = TRUE]
  /\ UNCHANGED <<status, claimer, target, task, runnerVars, req, history>>

-----------------------------------------------------------------------------
DashboardCall(q) ==
  \/ \E r \in Runs : \/ ReceivePush(q, r)
                     \/ TriggerPipelineRun(q, r)
                     \/ RerunPipelineRun(q, r)
                     \/ CallCancel(q, r)
  \/ \E w \in Runners, force \in BOOLEAN : CallRevoke(q, w, force)

RunnerCall(q) ==
  \E w \in Runners :
    \/ CallHeartbeat(q, w)
    \/ \E r \in Runs :
         \/ CallClaim(q, w, r)
         \/ \E to \in ReportedRunStatuses : CallReport(q, w, r, to)
         \/ \E t \in Tasks, to \in ReportedTaskStatuses : CallTaskReport(q, w, r, t, to)

\* The next database call of an invocation made on behalf of a user or runner.
HandlerStep(q) ==
  \/ QueueRun(q)
  \/ ClaimRun(q) \/ MarkBusy(q) \/ InsertTasks(q) \/ ReplyClaim(q)
  \/ ReadRunStatus(q) \/ WriteRunStatus(q) \/ ReleaseReporter(q)
  \/ ReadTaskStatus(q) \/ WriteTaskStatus(q)
  \/ ReadBeforeCancel(q) \/ CancelRun(q) \/ CancelTasks(q) \/ ReleaseClaimer(q)
  \/ WriteHeartbeat(q)
  \/ DeleteRunner(q)

ReaperStep(q) == LookupRunner(q) \/ TimeOutRun(q) \/ TidyTasks(q) \/ TidyJob(q)

Next ==
  \/ \E q \in Requests : DashboardCall(q) \/ RunnerCall(q) \/ HandlerStep(q)
  \/ \E q \in Reapers  : (\E r \in Runs : ScanRun(q, r)) \/ ReaperStep(q)
  \/ \E q \in Invocations : CallFails(q)
  \/ \E r \in Runs : DispatchSchedule(r) \/ GoIdle(r)
  \/ \E w \in Runners : Age(w)
  \/ MarkStaleOffline

Spec == Init /\ [][Next]_vars

\* pg_cron calls the tick once a minute, so a running, idle run is scanned
\* again and again and a scan that was begun is finished; time passes.
ReaperFairness ==
  /\ \A r \in Runs : SF_vars(\E q \in Reapers : ScanRun(q, r)) /\ WF_vars(GoIdle(r))
  /\ \A q \in Reapers : WF_vars(ReaperStep(q))

LabelFairness ==
  /\ \A w \in Runners : WF_vars(Age(w))
  /\ WF_vars(MarkStaleOffline)

LiveSpec == Spec /\ ReaperFairness /\ LabelFairness

-----------------------------------------------------------------------------
(* Safety.                                                                 *)

\* Two runners are never both told that they hold the same run: whoever got a
\* successful answer from the claim endpoint is the run's runner_id, for ever.
ClaimExclusive == \A w \in Runners, r \in Runs : <<w, r>> \in granted => claimer[r] = w

\* runner_id is written once: no cancellation, re-run, revocation, time-out
\* or late claim replaces or clears it.
ClaimedOnce == [][\A r \in Runs : claimer[r] # None => claimer'[r] = claimer[r]]_vars

\* A run pinned to a runner is run by that runner, whatever happened between
\* its creation (or its re-run) and the claim.
PinRespected == \A r \in Runs : claimer[r] # None => target[r] \in {None, claimer[r]}

\* A runner's current_job_id names a run that this runner claimed.
JobIsClaimed == \A w \in Runners : job[w] # None => claimer[job[w]] = w

\* A claim inserts a run's tasks where there are none: a second set of rows
\* would make every later .single() on (run, task name) fail.
TasksInsertedOnce ==
  \A q \in Requests : At(q, "claim", "tasks")
                        => \A t \in Tasks : task[req[q].run][t] = "absent"

\* No run names a runner whose registration has been deleted, although the
\* refusal to revoke a busy runner looks at a stale current_job_id.
ClaimerRegistered == \A r \in Runs : claimer[r] # None => claimer[r] \in registered

\* A run is timed out only if the heartbeats of its runner were missing for
\* longer than the grace period at some time since the claim.
TimedOutWasOrphaned == \A r \in Runs : status[r] = "timed_out" => r \in wasSilent

\* "Every write is conditional on the state we read": the reaper decides from
\* reads of the run and of its runner that are old when it writes, and yet the
\* only run it changes is one that is still running and whose runner was silent
\* beyond the grace period since the claim (unless the read of the runners
\* failed); it changes no task that finished and no job but that of its run.  A
\* report stored between its reads and its writes is never overwritten.
OnlyOrphansAreReaped ==
  [][\A q \in Reapers : req'[q] # req[q] =>
       /\ \A r \in Runs : status'[r] # status[r]
                           => status[r] = "running" /\ (LookupFaults \/ r \in wasSilent)
       /\ \A r \in Runs, t \in Tasks :
            task[r][t] \in TASK_RUN_TERMINAL_STATES => task'[r][t] = task[r][t]
       /\ \A w \in Runners : job[w] # req[q].run => job'[w] = job[w]]_vars

-----------------------------------------------------------------------------
(* What holds between the steps of the handlers, and makes the properties  *)
(* above inductive.                                                        *)

\* A run has a runner only if it was claimed, and a claimed run has one.
ClaimMatchesStatus ==
  \A r \in Runs :
    /\ status[r] \in {"absent", "created", "queued"} => claimer[r] = None
    /\ status[r] \in {"running", "success", "failed", "timed_out"} => claimer[r] # None
    /\ \A t \in Tasks : task[r][t] # "absent" => claimer[r] # None

\* After the compare-and-swap a claim owns its run.
Won(q) == req[q].kind = "claim" /\ req[q].step # "cas"

\* What an invocation knows of the rows it is about to write: the write that
\* queues a new run finds it unclaimed, a claim that won holds the run and
\* inserts its first tasks, a report that passed its check is about a claimed
\* run or an existing task, and the reaper knows the runner of its run.
RequestKnows(q) ==
  LET r == req[q].run  w == req[q].runner IN
  /\ req[q].kind = "submit" => status[r] \in {"created", "cancelled"} /\ claimer[r] = None
  /\ Won(q) => claimer[r] = w
  /\ Won(q) /\ req[q].step # "reply" => \A t \in Tasks : task[r][t] = "absent"
  /\ req[q].kind = "report" /\ req[q].step # "read" => claimer[r] = w
  /\ req[q].kind = "taskReport" /\ req[q].step # "read" => task[r][req[q].task] # "absent"
  /\ req[q].kind = "reap" => w \in Runners /\ claimer[r] = w

\* A run is created once, and won once.
OneSubmit ==
  \A p, q \in Invocations :
    p # q /\ req[p].kind = "submit" /\ req[q].kind = "submit" => req[p].run # req[q].run
OneWinner ==
  \A p, q \in Invocations : p # q /\ Won(p) /\ Won(q) => req[p].run # req[q].run

RequestsConsistent == OneSubmit /\ OneWinner /\ \A q \in Invocations : RequestKnows(q)

RunsConsistent ==
  /\ ClaimMatchesStatus /\ JobIsClaimed /\ ClaimExclusive /\ ClaimerRegistered /\ PinRespected

Consistent == RunsConsistent /\ RequestsConsistent

\* With a reliable read of the runners, what the reaper concluded is true.
OrphanKnown ==
  /\ TimedOutWasOrphaned
  /\ \A r \in Runs : claimer[r] # None /\ hbAge[claimer[r]] = 2 => r \in wasSilent
  /\ \A q \in Reapers : At(q, "reap", "cas") => req[q].run \in wasSilent

ReaperKnows == LookupFaults \/ OrphanKnown

-----------------------------------------------------------------------------
(* What the documentation says and the code does not keep (the finding).   *)

\* The transition table is followed by every change of a run's status: the
\* status endpoint "validates state transitions using the pipeline engine
\* state machine", and a terminal status has no successor.
StatusFollowsTable ==
  [][\A r \in Runs : status'[r] # status[r] /\ status[r] # "absent"
                       => validatePipelineTransition(status[r], status'[r])]_vars

-----------------------------------------------------------------------------
(* Liveness.                                                               *)

\* A run whose runner has stopped sending heartbeats for good does not stay
\* "running".
OrphansReaped ==
  \A r \in Runs, w \in Runners :
    <>[](hbAge[w] = 2) => [](status[r] = "running" /\ claimer[r] = w
                               => <>(status[r] # "running"))

\* A runner left without a job does not stay "busy" for ever, although
\* heartbeats write a label computed from an earlier read.
LabelHeals ==
  \A w \in Runners : <>[](job[w] = None) => <>[](label[w] # "busy")
=============================================================================
