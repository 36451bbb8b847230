------------------------- MODULE PipelineExecution -------------------------
(***************************************************************************)
(* How a runner executes a claimed run: executePipeline walks the groups   *)
(* that resolveDAG made, executeTask takes each task of a group, all in    *)
(* parallel, through its gate, its steps and its deployment, and the       *)
(* CancellationWatcher, polling the control plane, aborts them.  Whatever  *)
(* lies between two awaits is one action.                                  *)
(*                                                                         *)
(* The control plane is external to the runner and appears as the rows the *)
(* runner's reports change (each report checked against the transition     *)
(* tables and applied in one step: RunLifecycle has the races of the       *)
(* endpoint itself) and as the user's cancellation.  Reports of steps, log *)
(* lines and artifacts are left out.                                       *)
(***************************************************************************)
EXTENDS RunStates, Naturals, Sequences, FiniteSets

CONSTANTS Tasks,
          Deps,   \* the set of tasks each task's depends_on names
          Groups, \* the groups of resolveDAG
          Gated,  \* the tasks with approval_required
          Deploys,\* the tasks with a deploy section
          Steps   \* the number of steps of each task

\* What resolveDAG returns for these tasks: module Dag, GroupsAreSound and
\* SafetyNetIsUnused.
ASSUME PipelineAssumption ==
    /\ Deps \in [Tasks -> SUBSET Tasks]
    /\ Groups \in Seq(SUBSET Tasks)
    /\ Tasks = UNION {Groups[i] : i \in DOMAIN Groups}
    /\ \A i \in DOMAIN Groups, j \in DOMAIN Groups : i # j => Groups[i] \cap Groups[j] = {}
    /\ \A i \in DOMAIN Groups : \A t \in Groups[i] :
          Deps[t] \subseteq UNION {Groups[j] : j \in 1..(i - 1)}
    /\ Tasks # {} /\ Gated \subseteq Tasks /\ Deploys \subseteq Tasks
    /\ Steps \in [Tasks -> Nat]

VARIABLES
  run,     \* pipeline_runs.status, in the control plane
  row,     \* task_runs.status of every task, in the control plane
  sweep,   \* has the cancellation cancelled the tasks' rows, too?
  lost,    \* history: has a report, or the answer to one, been lost?
  pc,      \* where executePipeline is
  group,   \* the number of the group it is at
  at,      \* where executeTask is, for every task
  left,    \* the steps the task has still to run
  outcome, \* executePipeline's outcomes map: "none", a TaskOutcome or "skipped"
  watching,\* is the watcher started?
  aborted  \* the watcher's AbortSignal

server == <<run, row, sweep, lost>>
runner == <<pc, group, at, left, outcome, watching, aborted>>
vars == <<server, runner>>

Outcomes == {"success", "failed", "cancelled", "skipped"}
Returned == {"success", "failed", "cancelled"}
\* "idle" before executeTask is called, "waiting" at its gate, "launching"
\* between the report of a step and its process, "stepping" while it runs.
Places == {"idle", "gate", "waiting", "start", "between", "launching", "stepping",
           "deploying", "succeeding", "failing", "cancelling"} \cup Returned

Init == /\ run = "running"
        /\ row = [t \in Tasks |-> "pending"]
        /\ sweep = FALSE
        /\ lost = FALSE
        /\ pc = "cloning"
        /\ group = 1
        /\ at = [t \in Tasks |-> "idle"]
        /\ left = Steps
        /\ outcome = [t \in Tasks |-> "none"]
        /\ watching = FALSE
        /\ aborted = FALSE
-----------------------------------------------------------------------------
(* The control plane                                                       *)

CancelRun == /\ run = "running"
             /\ run' = "cancelled"
             /\ UNCHANGED <<row, sweep, lost, runner>>

CancelRows == /\ run = "cancelled" /\ ~sweep
              /\ sweep' = TRUE
              /\ row' = [t \in Tasks |-> IF row[t] \in {"success", "failed", "cancelled"}
                                         THEN row[t] ELSE "cancelled"]
              /\ UNCHANGED <<run, lost, runner>>

\* reportSafe and reportCancelled: one attempt, errors are only logged.
ReportTask(t, status) ==
    /\ \/ /\ row' = [row EXCEPT ![t] = IF validateTaskTransition(row[t], status)
                                       THEN status ELSE row[t]]
          /\ lost' = lost
       \/ row' = row /\ lost' = TRUE
    /\ UNCHANGED <<run, sweep>>
-----------------------------------------------------------------------------
(* CancellationWatcher                                                     *)

\* Reads "cancelled".  Failed polls, and polls that read anything else, do
\* nothing.
Poll == /\ watching
        /\ run = "cancelled" /\ ~aborted
        /\ aborted' = TRUE
        /\ UNCHANGED <<server, pc, group, at, left, outcome, watching>>

\* The await of watcher.check() before a group: an answer that has not failed
\* and is not that of an earlier poll in flight tells the truth.
Checked == aborted' \in {aborted, run = "cancelled"}
-----------------------------------------------------------------------------
(* executePipeline up to its groups                                        *)

\* resolveDAG may throw, and so may createWorkspace, before the watcher is
\* started; after it, prepareRunContext.
CloneWorkspace == /\ pc = "cloning"
                  /\ pc' \in {"preparing", "catch", "again"}
                  /\ watching' = (pc' = "preparing")
                  /\ UNCHANGED <<server, group, at, left, outcome, aborted>>

Prepare == /\ pc = "preparing"
           /\ pc' \in {"check", "catch"}
           /\ UNCHANGED <<server, group, at, left, outcome, watching, aborted>>

\* Names with an underscore are plausible mistakes: the definition they are
\* named after, got wrong.  Only the mutation runs use them.

Blocked_OnFailure(t) == \E d \in Deps[t] : outcome[d] = "failed"

Blocked(t) == \E d \in Deps[t] : outcome[d] \notin {"none", "success"}

First(t) == IF t \in Gated THEN "gate" ELSE "start"

BeginGroup == /\ pc = "check" /\ group <= Len(Groups)
              /\ Checked
              /\ pc' = IF aborted' THEN "cancelRest" ELSE "skip"
              /\ UNCHANGED <<server, group, at, left, outcome, watching>>

SkipTask == /\ pc = "skip"
            /\ \E t \in Groups[group] :
                  /\ Blocked(t) /\ outcome[t] = "none"
                  /\ ReportTask(t, "skipped")
                  /\ outcome' = [outcome EXCEPT ![t] = "skipped"]
            /\ UNCHANGED <<pc, group, at, left, watching, aborted>>

Runnable(t) == t \in Groups[group] /\ ~Blocked(t)

\* Promise.all over the runnable tasks of the group.
StartGroup == /\ pc = "skip"
              /\ \A t \in Groups[group] : Blocked(t) => outcome[t] = "skipped"
              /\ at' = [t \in Tasks |-> IF Runnable(t) THEN First(t) ELSE at[t]]
              /\ pc' = "run"
              /\ UNCHANGED <<server, group, left, outcome, watching, aborted>>

EndGroup == /\ pc = "run"
            /\ \A t \in Groups[group] : Runnable(t) => at[t] \in Returned
            /\ outcome' = [t \in Tasks |-> IF Runnable(t) THEN at[t] ELSE outcome[t]]
            /\ group' = group + 1
            /\ pc' = "check"
            /\ UNCHANGED <<server, at, left, watching, aborted>>
-----------------------------------------------------------------------------
(* executeTask                                                             *)

Go(t, place) == at' = [at EXCEPT ![t] = place]
TaskOnly == UNCHANGED <<pc, group, outcome, watching, aborted>>
Quiet == UNCHANGED <<server, left>> /\ TaskOnly

AwaitApproval(t) == /\ at[t] = "gate"
                    /\ ReportTask(t, "awaiting_approval")
                    /\ Go(t, "waiting")
                    /\ UNCHANGED left /\ TaskOnly

\* The reviewers' verdict arrives, also to a poll that an abort overtook.
PassGate(t) == /\ at[t] = "waiting"
               /\ Go(t, "start") \/ Go(t, "failing")
               /\ Quiet

LeaveGate_Never(t) == /\ at[t] = "waiting" /\ aborted
                      /\ Go(t, "waiting")
                      /\ Quiet

LeaveGate(t) == /\ at[t] = "waiting" /\ aborted
                /\ Go(t, "cancelling")
                /\ Quiet

StartTask(t) == /\ at[t] = "start"
                /\ ReportTask(t, "running")
                /\ Go(t, "between")
                /\ UNCHANGED left /\ TaskOnly

NextStep(t) == /\ at[t] = "between" /\ left[t] > 0
               /\ Go(t, IF aborted THEN "cancelling" ELSE "launching")
               /\ Quiet


\* The report of the step was awaited, so the signal is read once more.  No
\* process starts for a step whose image cannot be used.
Launch(t) == /\ at[t] = "launching"
             /\ \/ aborted /\ Go(t, "cancelling")
                \/ ~aborted /\ Go(t, "stepping")
                \/ Go(t, "failing")
             /\ Quiet

\* A step that exits with 0 counts, even when the abort came first.
StepSucceeds(t) == /\ at[t] = "stepping"
                   /\ Go(t, "between")
                   /\ left' = [left EXCEPT ![t] = @ - 1]
                   /\ UNCHANGED server /\ TaskOnly

StepFails(t) == /\ at[t] = "stepping" /\ ~aborted
                /\ Go(t, "failing")
                /\ Quiet

\* The abort kills the process group.
KillStep(t) == /\ at[t] = "stepping" /\ aborted
               /\ Go(t, "cancelling")
               /\ Quiet

FinishTask(t) == /\ at[t] = "between" /\ left[t] = 0
                 /\ Go(t, IF t \notin Deploys THEN "succeeding"
                          ELSE IF aborted THEN "cancelling" ELSE "deploying")
                 /\ Quiet

\* A deployment that has begun does not look at the signal.
Deploy(t) == /\ at[t] = "deploying"
             /\ Go(t, "succeeding") \/ Go(t, "failing")
             /\ Quiet

ReturnTask(t) ==
    /\ \E o \in Returned :
          /\ at[t] = CASE o = "success" -> "succeeding"
                       [] o = "failed" -> "failing"
                       [] o = "cancelled" -> "cancelling"
          /\ ReportTask(t, o)
          /\ Go(t, o)
    /\ UNCHANGED left /\ TaskOnly

TaskStep(t) == \/ AwaitApproval(t) \/ LeaveGate(t) \/ StartTask(t) \/ NextStep(t)
               \/ Launch(t) \/ KillStep(t) \/ FinishTask(t) \/ Deploy(t) \/ ReturnTask(t)
-----------------------------------------------------------------------------
(* executePipeline after its groups, and its caller's catch                *)

EndGroups == /\ pc = "check" /\ group > Len(Groups)
             /\ pc' = IF aborted THEN "cancelRest" ELSE "report"
             /\ UNCHANGED <<server, group, at, left, outcome, watching, aborted>>

\* cancelUnstartedTasks, a task at a time.  The outcome marks what it has done;
\* the code keeps no outcome for these tasks, and looks at none from here on.
CancelUnstarted == /\ pc = "cancelRest"
                   /\ \E t \in Tasks :
                         /\ outcome[t] = "none"
                         /\ ReportTask(t, "cancelled")
                         /\ outcome' = [outcome EXCEPT ![t] = "cancelled"]
                   /\ UNCHANGED <<pc, group, at, left, watching, aborted>>

LeaveCancelled_AtOnce == /\ pc = "cancelRest" \/ (pc = "report" /\ aborted)
                         /\ pc' = "ended" /\ watching' = FALSE
                         /\ UNCHANGED <<server, group, at, left, outcome, aborted>>

LeaveCancelled == /\ \/ pc = "cancelRest" /\ \A t \in Tasks : outcome[t] # "none"
                     \/ pc = "report" /\ aborted
                  /\ pc' = "ended" /\ watching' = FALSE
                  /\ UNCHANGED <<server, group, at, left, outcome, aborted>>

Verdict_LastGroup == IF Groups # <<>> /\ \E t \in Groups[Len(Groups)] : outcome[t] # "success"
                     THEN "failed" ELSE "success"

Verdict == IF \E t \in Tasks : outcome[t] # "success" THEN "failed" ELSE "success"

\* A report of the run: refused unless it is running; and if the answer is
\* lost, or the request, the caller sees an error.
ReportRun(status, accepted, failed) ==
    /\ \/ /\ run = "running" /\ run' = status
          /\ \/ pc' = accepted /\ lost' = lost
             \/ pc' = failed /\ lost' = TRUE
       \/ run # "running" /\ run' = run /\ pc' = failed /\ lost' = lost
       \/ run' = run /\ pc' = failed /\ lost' = TRUE
    /\ UNCHANGED <<row, sweep>>

ReportVerdict == /\ pc = "report" /\ ~aborted
                 /\ ReportRun(Verdict, "ended", "catch")
                 /\ watching' = (pc' = "catch")
                 /\ UNCHANGED <<group, at, left, outcome, aborted>>

Catch == /\ pc = "catch"
         /\ IF aborted THEN pc' = "again" /\ UNCHANGED server
                       ELSE ReportRun("failed", "again", "again")
         /\ watching' = FALSE
         /\ UNCHANGED <<group, at, left, outcome, aborted>>

\* The error is rethrown, and the polling loop of the start command reports
\* the run once more.
ReportAgain == /\ pc = "again"
               /\ ReportRun("failed", "ended", "ended")
               /\ UNCHANGED <<group, at, left, outcome, watching, aborted>>

RunnerStep == \/ CloneWorkspace \/ Prepare \/ BeginGroup \/ SkipTask \/ StartGroup \/ EndGroup
              \/ EndGroups \/ CancelUnstarted \/ LeaveCancelled
              \/ ReportVerdict \/ Catch \/ ReportAgain

Next == \/ CancelRun \/ CancelRows \/ Poll
        \/ RunnerStep
        \/ \E t \in Tasks : TaskStep(t) \/ PassGate(t) \/ StepSucceeds(t) \/ StepFails(t)

Spec == Init /\ [][Next]_vars

\* The runner is alive, its polls are answered in the end, and clones and
\* deployments end.  Reviewers may never vote and a step may never exit by
\* itself.
Fairness == /\ WF_vars(RunnerStep)
            /\ \A t \in Tasks : WF_vars(TaskStep(t))
            /\ WF_vars(Poll)

LiveSpec == Spec /\ Fairness
-----------------------------------------------------------------------------
TypeOK ==
    /\ run \in PipelineStatuses
    /\ row \in [Tasks -> TaskStatuses]
    /\ sweep \in BOOLEAN
    /\ lost \in BOOLEAN
    /\ pc \in {"cloning", "preparing", "check", "skip", "run", "cancelRest",
              "report", "catch", "again", "ended"}
    /\ group \in 1..(Len(Groups) + 1)
    /\ at \in [Tasks -> Places]
    /\ left \in [Tasks -> Nat]
    /\ outcome \in [Tasks -> Outcomes \cup {"none"}]
    /\ watching \in BOOLEAN
    /\ aborted \in BOOLEAN

\* A task does not begin, not even to ask for its approval, unless everything
\* it depends on has succeeded: a failure blocks all that follows from it,
\* through skipped tasks too.
DependenciesFirst ==
    \A t \in Tasks : at[t] # "idle" => \A d \in Deps[t] : outcome[d] = "success"

\* What the dashboard shows of a task is where the task is: none of the
\* runner's reports is refused by the transition table, unless one got lost
\* before it or the user cancels.
Shown(t) ==
    IF outcome[t] = "skipped" THEN {"skipped"} ELSE
    CASE at[t] \in Returned                  -> {at[t]}
      [] at[t] \in {"idle", "gate"}          -> {"pending"}
      [] at[t] = "waiting"                   -> {"awaiting_approval"}
      [] at[t] = "start"                     -> {"pending", "awaiting_approval"}
      [] at[t] \in {"failing", "cancelling"} -> {"running"} \cup
                                  IF t \in Gated THEN {"awaiting_approval"} ELSE {}
      [] OTHER                               -> {"running"}
RowsFollow == ~lost /\ run # "cancelled" => \A t \in Tasks : row[t] \in Shown(t)

\* When the execution has ended, no task is left pending or running in the
\* control plane (unless it never got to the tasks): the cancelled ones are
\* reported, whether or not the user's cancellation reached their rows; only a
\* lost report leaves one behind.
RowsSettle ==
    ~lost /\ pc = "ended" =>
        \/ \A t \in Tasks : outcome[t] = "none"
        \/ \A t \in Tasks : outcome[t] # "none" /\ row[t] \in TASK_RUN_TERMINAL_STATES

\* A run is a success only if all its tasks were and all their steps ran, and
\* failed only if a task did or no task began, or an answer was lost.
HonestVerdict ==
    /\ run = "success" => \A t \in Tasks : outcome[t] = "success" /\ left[t] = 0
    /\ run = "failed" /\ ~lost => \/ \E t \in Tasks : outcome[t] = "failed"
                                  \/ \A t \in Tasks : outcome[t] = "none"

\* Once the cancellation has been seen, no process and no deployment starts,
\* whatever report was being awaited when it was.
NoLaunchAfterAbort ==
    [][\A t \in Tasks : aborted /\ at'[t] \in {"stepping", "deploying"} => at'[t] = at[t]]_vars

\* A cancelled run ends on its runner, also when a step hangs or a gate is
\* never decided.
CancelEndsRun == run = "cancelled" ~> pc = "ended"
=============================================================================
