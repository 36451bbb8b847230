------------------------- MODULE RunLifecycleProofs -------------------------
(* Theorems about RunLifecycle, for every set of runs, runners, tasks and  *)
(* invocations, with and without failing database calls.                   *)
EXTENDS RunLifecycle, TLAPS

USE RunLifecycleAssumption DEF RunLifecycleAssumption

Others(q) == \A p \in Invocations : p # q => req'[p] = req[p]

\* What the three ways of changing an invocation do to req.
LEMMA GotoFacts ==
  ASSUME RequestsOK, NEW q \in Invocations, NEW step \in Steps, Goto(q, step)
  PROVE  /\ req' \in [Invocations -> Request]
         /\ Others(q)
         /\ req'[q].kind = req[q].kind /\ req'[q].step = step
         /\ req'[q].run = req[q].run /\ req'[q].runner = req[q].runner
         /\ req'[q].task = req[q].task /\ req'[q].to = req[q].to
<1>1. req[q] \in Request
  BY DEF RequestsOK
<1>2. [req[q] EXCEPT !.step = step] \in Request
  BY <1>1 DEF Request
<1>3. req' = [req EXCEPT ![q] = [req[q] EXCEPT !.step = step]]
  BY DEF Goto
<1>4. req'[q] = [req[q] EXCEPT !.step = step]
  BY <1>3 DEF RequestsOK
<1>5. req' \in [Invocations -> Request] /\ Others(q)
  BY <1>2, <1>3 DEF RequestsOK, Others
<1> QED
  BY <1>1, <1>4, <1>5 DEF Request

LEMMA ReturnFacts ==
  ASSUME RequestsOK, NEW q \in Invocations, Return(q)
  PROVE  /\ req' \in [Invocations -> Request]
         /\ Others(q)
         /\ req'[q].kind = "none" /\ req'[q].step = "none"
         /\ Shaped(req'[q])
<1>1. NoRequest \in Request
  BY DEF NoRequest, Request, Kinds, Steps
<1>2. req'[q] = NoRequest
  BY DEF RequestsOK, Return
<1> QED
  BY <1>1, <1>2 DEF RequestsOK, Return, Others, NoRequest, Shaped

LEMMA CallFacts ==
  ASSUME RequestsOK, NEW q \in Invocations,
         NEW kind, NEW step \in Steps, NEW r \in Runs \cup {None},
         NEW w \in Runners \cup {None}, NEW t \in Tasks \cup {None},
         NEW to \in PipelineStatuses \cup TaskStatuses \cup RunnerLabels \cup {"none"},
         CallWith(q, kind, step, r, w, t, to)
  PROVE  /\ req' \in [Invocations -> Request]
         /\ Others(q)
         /\ req[q].kind = "none"
         /\ req'[q].kind = kind /\ req'[q].step = step
         /\ req'[q].run = r /\ req'[q].runner = w
         /\ req'[q].task = t /\ req'[q].to = to
<1> DEFINE new == [kind |-> kind, step |-> step, run |-> r,
                   runner |-> w, task |-> t, to |-> to]
<1>1. new \in Request
  BY DEF Request, CallWith
<1>2. req' = [req EXCEPT ![q] = new]
  BY DEF CallWith
<1> QED
  BY <1>1, <1>2 DEF RequestsOK, Others, CallWith, Free

\* RequestsOK is preserved when one invocation changes into a shaped one.
LEMMA RequestsKept ==
  ASSUME RequestsOK, NEW q \in Invocations,
         req' \in [Invocations -> Request], Others(q), Shaped(req'[q]),
         q \in Requests => req'[q].kind # "reap",
         q \in Reapers => req'[q].kind \in {"none", "reap"}
  PROVE  RequestsOK'
<1>1. ASSUME NEW p \in Invocations
      PROVE  /\ Shaped(req'[p])
             /\ p \in Requests => req'[p].kind # "reap"
             /\ p \in Reapers => req'[p].kind \in {"none", "reap"}
  <2>1. CASE p = q
    BY <2>1
  <2>2. CASE p # q
    BY <2>2 DEF RequestsOK, Others, Invocations
  <2> QED
    BY <2>1, <2>2
<1>2. \A p \in Invocations : Shaped(req[p])'
  BY <1>1 DEF Shaped
<1>3. \A p \in Requests : req'[p].kind # "reap"
  BY <1>1 DEF Invocations
<1>4. \A p \in Reapers : req'[p].kind \in {"none", "reap"}
  BY <1>1 DEF Invocations
<1> QED
  BY <1>2, <1>3, <1>4 DEF RequestsOK

\* RequestsOK when the invocation goes to a step its kind has, or returns.
LEMMA GotoOK ==
  ASSUME RequestsOK, NEW q \in Invocations, NEW step \in Steps, Goto(q, step),
         req[q].kind = "claim" => step \in {"cas", "busy", "tasks", "reply"},
         req[q].kind = "report" => step \in {"read", "write", "release"},
         req[q].kind = "taskReport" => step \in {"read", "write"},
         req[q].kind = "reap" => step \in {"lookup", "cas", "tidy", "tidyTasks", "tidyJob"}
  PROVE  RequestsOK'
<1>1. Shaped(req[q])
  BY DEF RequestsOK
<1>2. Shaped(req'[q])
  BY <1>1, GotoFacts DEF Shaped
<1> QED
  BY <1>2, GotoFacts, RequestsKept DEF RequestsOK

LEMMA ReturnOK ==
  ASSUME RequestsOK, NEW q \in Invocations, Return(q)
  PROVE  RequestsOK'
BY ReturnFacts, RequestsKept

LEMMA CallOK ==
  ASSUME RequestsOK, NEW q \in Invocations,
         NEW kind \in Calls, NEW step \in Steps, NEW r \in Runs \cup {None},
         NEW w \in Runners \cup {None}, NEW t \in Tasks \cup {None},
         NEW to \in PipelineStatuses \cup TaskStatuses \cup RunnerLabels \cup {"none"},
         CallWith(q, kind, step, r, w, t, to),
         Shaped([kind |-> kind, step |-> step, run |-> r,
                 runner |-> w, task |-> t, to |-> to]),
         kind = "reap" <=> q \in Reapers
  PROVE  RequestsOK'
<1>1. /\ req' \in [Invocations -> Request] /\ Others(q)
      /\ req'[q].kind = kind /\ req'[q].step = step
      /\ req'[q].run = r /\ req'[q].runner = w
      /\ req'[q].task = t /\ req'[q].to = to
  <2> DEFINE new == [kind |-> kind, step |-> step, run |-> r,
                     runner |-> w, task |-> t, to |-> to]
  <2>1. new \in Request
    BY DEF Request, CallWith
  <2>2. req' = [req EXCEPT ![q] = new]
    BY DEF CallWith
  <2>3. req \in [Invocations -> Request]
    BY DEF RequestsOK
  <2> QED BY <2>1, <2>2, <2>3 DEF Others
<1>2. Shaped(req'[q])
  BY <1>1 DEF Shaped
<1> QED
  BY <1>1, <1>2, RequestsKept

\* The steps of the handlers keep the invocations well formed ...
LEMMA HandlerRequests ==
  ASSUME RequestsOK, NEW q \in Requests, HandlerStep(q)
  PROVE  RequestsOK'
<1>1. q \in Invocations
  BY DEF Invocations
<1> USE DEF At, Steps
<1>2. CASE QueueRun(q)
  BY <1>1, <1>2, ReturnOK DEF QueueRun
<1>3. CASE ClaimRun(q)
  BY <1>1, <1>3, GotoOK, ReturnOK DEF ClaimRun
<1>4. CASE MarkBusy(q)
  BY <1>1, <1>4, GotoOK DEF MarkBusy
<1>5. CASE InsertTasks(q)
  BY <1>1, <1>5, GotoOK DEF InsertTasks
<1>6. CASE ReplyClaim(q)
  BY <1>1, <1>6, ReturnOK DEF ReplyClaim
<1>7. CASE ReadRunStatus(q)
  BY <1>1, <1>7, GotoOK, ReturnOK DEF ReadRunStatus
<1>8. CASE WriteRunStatus(q)
  BY <1>1, <1>8, GotoOK, ReturnOK DEF WriteRunStatus
<1>9. CASE ReleaseReporter(q)
  BY <1>1, <1>9, ReturnOK DEF ReleaseReporter
<1>10. CASE ReadTaskStatus(q)
  BY <1>1, <1>10, GotoOK, ReturnOK DEF ReadTaskStatus
<1>11. CASE WriteTaskStatus(q)
  BY <1>1, <1>11, ReturnOK DEF WriteTaskStatus
<1>12. CASE ReadBeforeCancel(q)
  BY <1>1, <1>12, GotoOK, ReturnOK DEF ReadBeforeCancel
<1>13. CASE CancelRun(q)
  BY <1>1, <1>13, GotoOK DEF CancelRun
<1>14. CASE CancelTasks(q)
  BY <1>1, <1>14, GotoOK DEF CancelTasks
<1>15. CASE ReleaseClaimer(q)
  BY <1>1, <1>15, ReturnOK DEF ReleaseClaimer
<1>16. CASE WriteHeartbeat(q)
  BY <1>1, <1>16, ReturnOK DEF WriteHeartbeat
<1>17. CASE DeleteRunner(q)
  BY <1>1, <1>17, ReturnOK DEF DeleteRunner
<1> QED
  BY <1>2, <1>3, <1>4, <1>5, <1>6, <1>7, <1>8, <1>9, <1>10, <1>11, <1>12, <1>13, <1>14, <1>15, <1>16, <1>17 DEF HandlerStep

\* ... and the rows well typed.
LEMMA HandlerRows ==
  ASSUME TypeOK, NEW q \in Requests, HandlerStep(q)
  PROVE  RowsOK'
<1>1. q \in Invocations /\ Shaped(req[q])
  BY DEF Invocations, TypeOK, RequestsOK
<1> USE DEF TypeOK, RowsOK, At, runVars, runnerVars, history
<1>2. CASE QueueRun(q)
  BY <1>1, <1>2 DEF QueueRun, RunStatuses, PipelineStatuses, Shaped
<1>3. CASE ClaimRun(q)
  <2>1. req[q].run \in Runs /\ req[q].runner \in Runners
    BY <1>1, <1>3 DEF ClaimRun, Shaped
  <2>2. CASE Claimable(req[q].run, req[q].runner)
    <3>1. /\ status' = [status EXCEPT ![req[q].run] = "running"]
          /\ claimer' = [claimer EXCEPT ![req[q].run] = req[q].runner]
          /\ idle' = [idle EXCEPT ![req[q].run] = FALSE]
          /\ wasSilent' \in {wasSilent, wasSilent \cup {req[q].run}}
          /\ UNCHANGED <<target, task, registered, job, label, hbAge, granted>>
      BY <2>2, <1>3 DEF ClaimRun
    <3> QED
      BY <2>1, <3>1 DEF RunStatuses, PipelineStatuses
  <2>3. CASE ~Claimable(req[q].run, req[q].runner)
    BY <2>3, <1>3 DEF ClaimRun
  <2> QED
    BY <2>2, <2>3
<1>4. CASE MarkBusy(q)
  BY <1>1, <1>4 DEF MarkBusy, RunnerLabels, Shaped
<1>5. CASE InsertTasks(q)
  BY <1>1, <1>5 DEF InsertTasks, TaskRowStatuses, TaskStatuses, Shaped
<1>6. CASE ReplyClaim(q)
  BY <1>1, <1>6 DEF ReplyClaim, Shaped
<1>7. CASE ReadRunStatus(q)
  BY <1>1, <1>7 DEF ReadRunStatus
<1>8. CASE WriteRunStatus(q)
  BY <1>1, <1>8 DEF WriteRunStatus, RunStatuses, PipelineStatuses, ReportedRunStatuses, Shaped
<1>9. CASE ReleaseReporter(q)
  BY <1>1, <1>9 DEF ReleaseReporter, RunnerLabels, Shaped
<1>10. CASE ReadTaskStatus(q)
  BY <1>1, <1>10 DEF ReadTaskStatus
<1>11. CASE WriteTaskStatus(q)
  BY <1>1, <1>11 DEF WriteTaskStatus, TaskRowStatuses, TaskStatuses, ReportedTaskStatuses, Shaped
<1>12. CASE ReadBeforeCancel(q)
  BY <1>1, <1>12 DEF ReadBeforeCancel
<1>13. CASE CancelRun(q)
  BY <1>1, <1>13 DEF CancelRun, RunStatuses, PipelineStatuses, Shaped
<1>14. CASE CancelTasks(q)
  BY <1>1, <1>14 DEF CancelTasks, TaskRowStatuses, TaskStatuses, Shaped
<1>15. CASE ReleaseClaimer(q)
  BY <1>1, <1>15 DEF ReleaseClaimer, RunnerLabels, Shaped
<1>16. CASE WriteHeartbeat(q)
  BY <1>1, <1>16 DEF WriteHeartbeat, RunnerLabels, Shaped
<1>17. CASE DeleteRunner(q)
  BY <1>1, <1>17 DEF DeleteRunner, Shaped
<1> QED
  BY <1>2, <1>3, <1>4, <1>5, <1>6, <1>7, <1>8, <1>9, <1>10, <1>11, <1>12, <1>13, <1>14, <1>15, <1>16, <1>17 DEF HandlerStep

\* A new call by a user or a runner.
LEMMA CallType ==
  ASSUME TypeOK, NEW q \in Requests, DashboardCall(q) \/ RunnerCall(q)
  PROVE  TypeOK'
<1>1. q \in Invocations /\ q \notin Reapers
  BY DEF Invocations
<1> USE DEF TypeOK, runVars, runnerVars, history
<1>2. ASSUME NEW r \in Runs, NEW pin \in Runners \cup {None}, InsertRun(q, r, pin)
      PROVE  TypeOK'
  <2>1. RequestsOK'
    <3>1. CallWith(q, "submit", "queue", r, None, None, "none")
      BY <1>2 DEF InsertRun, Call
    <3>2. "submit" \in Calls /\ "queue" \in Steps
      BY <3>1 DEF CallWith, Steps
    <3>3. Shaped([kind |-> "submit", step |-> "queue", run |-> r,
                  runner |-> None, task |-> None, to |-> "none"])
      BY DEF Shaped
    <3> QED BY <1>1, <3>1, <3>2, <3>3, CallOK
  <2>2. RowsOK'
    BY <1>2 DEF InsertRun, RowsOK, RunStatuses, PipelineStatuses
  <2> QED
    BY <2>1, <2>2
<1>3. ASSUME NEW r \in Runs, ReceivePush(q, r) \/ TriggerPipelineRun(q, r)
      PROVE  TypeOK'
  BY <1>2, <1>3 DEF ReceivePush, TriggerPipelineRun, RowsOK
<1>4. ASSUME NEW r \in Runs, RerunPipelineRun(q, r)
      PROVE  TypeOK'
  BY <1>2, <1>4 DEF RerunPipelineRun, RowsOK
<1>5. ASSUME NEW r \in Runs, CallCancel(q, r)
      PROVE  TypeOK'
  BY <1>1, <1>5, CallOK DEF CallCancel, Call, CallWith, Steps, Shaped, RowsOK
<1>6. ASSUME NEW w \in Runners, NEW force \in BOOLEAN, CallRevoke(q, w, force)
      PROVE  TypeOK'
  BY <1>1, <1>6, CallOK DEF CallRevoke, Call, CallWith, Steps, Shaped, RowsOK
<1>7. ASSUME NEW w \in Runners, CallHeartbeat(q, w)
      PROVE  TypeOK'
  <2>1. PICK to \in {"online", "busy"} : CallWith(q, "heartbeat", "write", None, w, None, to)
    BY <1>7 DEF CallHeartbeat
  <2>2. RequestsOK'
    BY <2>1, <1>1, CallOK DEF CallWith, Steps, Shaped, RunnerLabels
  <2> QED
    BY <2>2, <1>7 DEF CallHeartbeat, RowsOK
<1>8. ASSUME NEW w \in Runners, NEW r \in Runs, CallClaim(q, w, r)
      PROVE  TypeOK'
  <2>1. CallWith(q, "claim", "cas", r, w, None, "none")
    BY <1>8 DEF CallClaim, Call
  <2>2. "claim" \in Calls /\ "cas" \in Steps
    BY <2>1 DEF CallWith, Steps
  <2>3. Shaped([kind |-> "claim", step |-> "cas", run |-> r,
                runner |-> w, task |-> None, to |-> "none"])
    BY DEF Shaped
  <2>4. RequestsOK'
    BY <1>1, <2>1, <2>2, <2>3, CallOK
  <2> QED
    BY <2>4, <1>8 DEF CallClaim, RowsOK
<1>9. ASSUME NEW w \in Runners, NEW r \in Runs, NEW to \in ReportedRunStatuses,
             CallReport(q, w, r, to)
      PROVE  TypeOK'
  <2>1. CallWith(q, "report", "read", r, w, None, to)
    BY <1>9 DEF CallReport
  <2>2. /\ "report" \in Calls /\ "read" \in Steps
        /\ to \in PipelineStatuses \cup TaskStatuses \cup RunnerLabels \cup {"none"}
    BY <2>1 DEF CallWith, Steps, ReportedRunStatuses, PipelineStatuses
  <2>3. Shaped([kind |-> "report", step |-> "read", run |-> r,
                runner |-> w, task |-> None, to |-> to])
    BY DEF Shaped
  <2>4. RequestsOK'
    BY <1>1, <2>1, <2>2, <2>3, CallOK
  <2> QED
    BY <2>4, <1>9 DEF CallReport, RowsOK
<1>10. ASSUME NEW w \in Runners, NEW r \in Runs, NEW t \in Tasks,
              NEW to \in ReportedTaskStatuses, CallTaskReport(q, w, r, t, to)
       PROVE  TypeOK'
  <2>1. CallWith(q, "taskReport", "read", r, w, t, to)
    BY <1>10 DEF CallTaskReport
  <2>2. to \in TaskStatuses
    BY DEF ReportedTaskStatuses, TaskStatuses
  <2>3. RequestsOK'
    BY <2>1, <2>2, <1>1, CallOK DEF CallWith, Steps, Shaped
  <2> QED
    BY <2>3, <1>10 DEF CallTaskReport, RowsOK
<1> QED
  BY <1>3, <1>4, <1>5, <1>6, <1>7, <1>8, <1>9, <1>10 DEF DashboardCall, RunnerCall

\* The reaper.
LEMMA ReaperType ==
  ASSUME TypeOK, NEW q \in Reapers,
         (\E r \in Runs : ScanRun(q, r)) \/ ReaperStep(q)
  PROVE  TypeOK'
<1>1. q \in Invocations /\ Shaped(req[q])
  BY DEF Invocations, TypeOK, RequestsOK
<1> USE DEF TypeOK, runVars, runnerVars, history, At, Steps
<1>2. ASSUME NEW r \in Runs, ScanRun(q, r)
      PROVE  TypeOK'
  <2>1. claimer[r] \in Runners \cup {None}
    BY DEF RowsOK
  <2>2. CallWith(q, "reap", "lookup", r, claimer[r], None, "none") /\ RowsOK'
    BY <1>2 DEF ScanRun, Call, RowsOK
  <2> QED
    BY <2>1, <2>2, <1>1, CallOK DEF CallWith, Shaped
<1>3. CASE LookupRunner(q)
  BY <1>1, <1>3, GotoOK, ReturnOK DEF LookupRunner, RowsOK
<1>4. CASE TimeOutRun(q)
  BY <1>1, <1>4, GotoOK, ReturnOK
     DEF TimeOutRun, RowsOK, RunStatuses, PipelineStatuses, Shaped
<1>5. CASE TidyTasks(q) \/ TidyJob(q)
  <2>1. req[q].kind = "reap" /\ req[q].run \in Runs
    BY <1>1, <1>5 DEF TidyTasks, TidyJob, Shaped
  <2>2. Return(q) \/ \E step \in {"tidyTasks", "tidyJob"} : Goto(q, step)
    BY <1>5 DEF TidyTasks, TidyJob, AfterTidy
  <2>3. RequestsOK'
    BY <1>1, <2>1, <2>2, GotoOK, ReturnOK
  <2>4. RowsOK'
    <3>1. CASE TidyTasks(q)
      BY <2>1, <3>1 DEF TidyTasks, RowsOK, TaskRowStatuses, TaskStatuses
    <3>2. CASE TidyJob(q)
      BY <2>1, <3>2 DEF TidyJob, RowsOK
    <3> QED
      BY <1>5, <3>1, <3>2
  <2> QED
    BY <2>3, <2>4
<1> QED
  BY <1>2, <1>3, <1>4, <1>5 DEF ReaperStep

\* A failing database call, the schedules and the passing of time.
LEMMA FailureType ==
  ASSUME TypeOK, NEW q \in Invocations, CallFails(q)
  PROVE  TypeOK'
<1>1. RowsOK'
  BY DEF CallFails, TypeOK, RowsOK, runVars, runnerVars, history
<1>2. CASE Return(q)
  BY <1>1, <1>2, ReturnOK DEF TypeOK
<1>3. CASE \E step \in AfterIgnoredError(req[q].kind, req[q].step) : Goto(q, step)
  <2>1. \/ req[q].kind = "claim" /\ Goto(q, "tasks")
        \/ req[q].kind = "claim" /\ Goto(q, "reply")
        \/ req[q].kind = "cancel" /\ Goto(q, "release")
        \/ req[q].kind = "reap" /\ Goto(q, "tidyTasks")
        \/ req[q].kind = "reap" /\ Goto(q, "tidyJob")
    BY <1>3 DEF AfterIgnoredError
  <2>2. CASE req[q].kind = "reap"
    BY <2>1, <2>2, <1>1, GotoOK DEF TypeOK, Steps
  <2>3. CASE req[q].kind \in {"claim", "cancel"}
    BY <2>1, <2>3, <1>1, GotoOK DEF TypeOK, Steps
  <2> QED
    BY <2>1, <2>2, <2>3
<1> QED
  BY <1>2, <1>3 DEF CallFails

LEMMA EnvironmentType ==
  ASSUME TypeOK,
         \/ \E r \in Runs : DispatchSchedule(r) \/ GoIdle(r)
         \/ \E w \in Runners : Age(w)
         \/ MarkStaleOffline
  PROVE  TypeOK'
<1> USE DEF TypeOK, RowsOK, runVars, runnerVars, history
<1>0. ASSUME req' = req PROVE RequestsOK'
  BY <1>0 DEF RequestsOK, Shaped
<1>1. ASSUME NEW r \in Runs, DispatchSchedule(r) PROVE TypeOK'
  BY <1>0, <1>1 DEF DispatchSchedule, RunStatuses, PipelineStatuses
<1>2. ASSUME NEW r \in Runs, GoIdle(r) PROVE TypeOK'
  BY <1>0, <1>2 DEF GoIdle
<1>3. ASSUME NEW w \in Runners, Age(w) PROVE TypeOK'
  BY <1>0, <1>3 DEF Age
<1>4. ASSUME MarkStaleOffline PROVE TypeOK'
  BY <1>0, <1>4 DEF MarkStaleOffline, RunnerLabels
<1> QED
  BY <1>1, <1>2, <1>3, <1>4

LEMMA InitType == Init => TypeOK
BY DEF Init, TypeOK, RowsOK, RequestsOK, Shaped, NoRequest, Request, Kinds, Steps,
       RunStatuses, PipelineStatuses, TaskRowStatuses, TaskStatuses, RunnerLabels,
       Invocations

LEMMA NextType == TypeOK /\ [Next]_vars => TypeOK'
<1> SUFFICES ASSUME TypeOK, [Next]_vars PROVE TypeOK'
  OBVIOUS
<1>1. CASE \E q \in Requests : DashboardCall(q) \/ RunnerCall(q) \/ HandlerStep(q)
  BY <1>1, CallType, HandlerRequests, HandlerRows DEF TypeOK
<1>2. CASE \E q \in Reapers : (\E r \in Runs : ScanRun(q, r)) \/ ReaperStep(q)
  BY <1>2, ReaperType
<1>3. CASE \E q \in Invocations : CallFails(q)
  BY <1>3, FailureType
<1>4. CASE \/ \E r \in Runs : DispatchSchedule(r) \/ GoIdle(r)
           \/ \E w \in Runners : Age(w)
           \/ MarkStaleOffline
  BY <1>4, EnvironmentType
<1>5. CASE UNCHANGED vars
  BY <1>5 DEF vars, runVars, runnerVars, history, TypeOK, RowsOK, RequestsOK, Shaped
<1> QED
  BY <1>1, <1>2, <1>3, <1>4, <1>5 DEF Next

\* Every row and every invocation is well formed in every reachable state: no
\* handler stores a status of another table or mixes up the ids it was given.
THEOREM TypeCorrect == Spec => []TypeOK
BY InitType, NextType, PTL DEF Spec

-----------------------------------------------------------------------------
(* Consistent is inductive: OthersKnow and MoverKnows say what an          *)
(* invocation needs to keep what it knows, QuietStep and RowStep what a    *)
(* step needs to keep the whole invariant; one lemma per group of actions. *)

\* Rows only gain what the invocations in flight rely on.
RowsGrow ==
  /\ \A r \in Runs : claimer[r] # None => claimer'[r] = claimer[r]
  /\ \A r \in Runs, t \in Tasks : task[r][t] # "absent" => task'[r][t] # "absent"

\* An invocation that does not move keeps what it knows.
LEMMA OthersKnow ==
  ASSUME TypeOK, Consistent, NEW p \in Invocations, req'[p] = req[p], RowsGrow,
         req[p].kind = "submit" => /\ status'[req[p].run] \in {"created", "cancelled"}
                                   /\ claimer'[req[p].run] = None,
         Won(p) /\ req[p].step # "reply" => task'[req[p].run] = task[req[p].run]
  PROVE  RequestKnows(p)'
<1>1. RequestKnows(p) /\ Shaped(req[p]) /\ req[p] \in Request
  BY DEF Consistent, RequestsConsistent, TypeOK, RequestsOK
<1>2. req[p].kind \in {"claim", "report"} => req[p].runner # None /\ req[p].run \in Runs
  BY <1>1 DEF Shaped
<1>3. req[p].kind = "taskReport" => req[p].run \in Runs /\ req[p].task \in Tasks
  BY <1>1 DEF Shaped
<1>4. req[p].kind = "reap" => req[p].run \in Runs
  BY <1>1 DEF Shaped
<1> QED
  BY <1>1, <1>2, <1>3, <1>4 DEF RequestKnows, Won, RowsGrow

\* The invocations stay consistent when the one that moves does.
LEMMA MoverKnows ==
  ASSUME TypeOK, Consistent, NEW q \in Invocations, Others(q),
         RequestKnows(q)',
         \A p \in Invocations : p # q => RequestKnows(p)',
         req'[q].kind = "submit" =>
           \A p \in Invocations : p # q /\ req[p].kind = "submit" => req[p].run # req'[q].run,
         Won(q)' => \A p \in Invocations : p # q /\ Won(p) => req[p].run # req'[q].run
  PROVE  RequestsConsistent'
<1>1. \A p \in Invocations : p # q => req'[p] = req[p]
  BY DEF Others
<1>2. OneSubmit'
  BY <1>1 DEF OneSubmit, Consistent, RequestsConsistent
<1>3. OneWinner'
  BY <1>1 DEF OneWinner, Won, Consistent, RequestsConsistent
<1> QED
  BY <1>2, <1>3 DEF RequestsConsistent

\* A step that writes no row an invariant is about, only its own invocation.
LEMMA QuietStep ==
  ASSUME TypeOK, Consistent, NEW q \in Invocations, Others(q), RequestKnows(q)',
         UNCHANGED <<status, claimer, target, task, registered, job, granted>>,
         req'[q].kind = "submit" => req[q].kind = "submit" /\ req'[q].run = req[q].run,
         Won(q)' => Won(q) /\ req'[q].run = req[q].run
  PROVE  Consistent'
<1>1. RowsGrow
  BY DEF RowsGrow
<1>2. ASSUME NEW p \in Invocations, p # q PROVE RequestKnows(p)'
  <2>1. RequestKnows(p) /\ req'[p] = req[p]
    BY <1>2 DEF Others, Consistent, RequestsConsistent
  <2> QED
    BY <2>1 DEF RequestKnows, Won
<1>3. RequestsConsistent'
  BY <1>2, MoverKnows DEF OneSubmit, OneWinner, Consistent, RequestsConsistent
<1>4. RunsConsistent'
  BY DEF Consistent, RunsConsistent, ClaimMatchesStatus, JobIsClaimed, ClaimExclusive,
         ClaimerRegistered, PinRespected
<1> QED
  BY <1>3, <1>4 DEF Consistent

\* A step that writes rows.
LEMMA RowStep ==
  ASSUME TypeOK, Consistent, NEW q \in Invocations, Others(q), RequestKnows(q)',
         RowsGrow, RunsConsistent',
         \A p \in Invocations : p # q /\ req[p].kind = "submit"
           => status'[req[p].run] \in {"created", "cancelled"} /\ claimer'[req[p].run] = None,
         \A p \in Invocations : p # q /\ Won(p) /\ req[p].step # "reply"
           => task'[req[p].run] = task[req[p].run],
         req'[q].kind = "submit" =>
           \A p \in Invocations : p # q /\ req[p].kind = "submit" => req[p].run # req'[q].run,
         Won(q)' => \A p \in Invocations : p # q /\ Won(p) => req[p].run # req'[q].run
  PROVE  Consistent'
<1>1. \A p \in Invocations : p # q => req'[p] = req[p]
  BY DEF Others
<1>2. \A p \in Invocations : p # q => RequestKnows(p)'
  BY <1>1, OthersKnow
<1> QED
  BY <1>2, MoverKnows DEF Consistent

LEMMA EnvironmentStep ==
  ASSUME TypeOK, Consistent, req' = req, RowsGrow, RunsConsistent',
         \A p \in Invocations : req[p].kind = "submit"
           => status'[req[p].run] \in {"created", "cancelled"} /\ claimer'[req[p].run] = None,
         \A p \in Invocations : Won(p) /\ req[p].step # "reply"
           => task'[req[p].run] = task[req[p].run]
  PROVE  Consistent'
<1>1. \A p \in Invocations : RequestKnows(p)'
  BY OthersKnow
<1> QED
  BY <1>1 DEF Consistent, RequestsConsistent, OneSubmit, OneWinner, Won

LEMMA KnowsRun ==
  ASSUME TypeOK, Consistent, NEW q \in Invocations
  PROVE  RequestKnows(q) /\ Shaped(req[q]) /\ req[q] \in Request
BY DEF Consistent, RequestsConsistent, TypeOK, RequestsOK

\* Creating a run.
LEMMA InsertConsistent ==
  ASSUME TypeOK, Consistent, NEW q \in Invocations, NEW r \in Runs,
         NEW pin \in Runners \cup {None}, InsertRun(q, r, pin)
  PROVE  Consistent'
<1>1. /\ Others(q) /\ req'[q].kind = "submit" /\ req'[q].run = r
  <2>1. CallWith(q, "submit", "queue", r, None, None, "none")
    BY DEF InsertRun, Call
  <2> QED
    BY <2>1 DEF CallWith, Others, RequestsOK, TypeOK
<1>2. /\ status[r] = "absent" /\ claimer[r] = None
      /\ status' = [status EXCEPT ![r] = "created"]
      /\ target' = [target EXCEPT ![r] = pin]
      /\ UNCHANGED <<claimer, task, registered, job, granted>>
  BY DEF InsertRun, Consistent, RunsConsistent, ClaimMatchesStatus, runnerVars, history
<1>3. RowsGrow
  BY <1>2 DEF RowsGrow
<1>4. ASSUME NEW p \in Invocations, req[p].kind = "submit"
      PROVE  /\ req[p].run \in Runs /\ req[p].run # r
             /\ status'[req[p].run] \in {"created", "cancelled"}
             /\ claimer'[req[p].run] = None
  BY <1>2, <1>4, KnowsRun DEF RequestKnows, Shaped, TypeOK, RowsOK
<1>5. RequestKnows(q)'
  BY <1>1, <1>2 DEF RequestKnows, Won, TypeOK, RowsOK
<1>6. RunsConsistent'
  BY <1>2 DEF Consistent, RunsConsistent, ClaimMatchesStatus, JobIsClaimed, ClaimExclusive,
              ClaimerRegistered, PinRespected, TypeOK, RowsOK
<1> QED
  BY <1>1, <1>2, <1>3, <1>4, <1>5, <1>6, RowStep DEF Won

LEMMA QueueConsistent ==
  ASSUME TypeOK, Consistent, NEW q \in Invocations, QueueRun(q)
  PROVE  Consistent'
<1> DEFINE r == req[q].run
<1>1. /\ Others(q) /\ req'[q].kind = "none"
  BY ReturnFacts DEF QueueRun, TypeOK
<1>2. /\ r \in Runs /\ claimer[r] = None /\ req[q].kind = "submit"
      /\ status' = [status EXCEPT ![r] = "queued"]
      /\ UNCHANGED <<claimer, target, task, registered, job, granted>>
  BY KnowsRun DEF QueueRun, At, RequestKnows, Shaped, runnerVars, history
<1>3. RowsGrow
  BY <1>2 DEF RowsGrow
<1>4. ASSUME NEW p \in Invocations, p # q, req[p].kind = "submit"
      PROVE  /\ status'[req[p].run] \in {"created", "cancelled"}
             /\ claimer'[req[p].run] = None
  <2>1. req[p].run # r /\ req[p].run \in Runs
    BY <1>2, <1>4, KnowsRun DEF Consistent, RequestsConsistent, OneSubmit, Shaped
  <2> QED
    BY <1>2, <1>4, <2>1, KnowsRun DEF RequestKnows, TypeOK, RowsOK
<1>5. RequestKnows(q)'
  BY <1>1 DEF RequestKnows, Won
<1>6. RunsConsistent'
  BY <1>2 DEF Consistent, RunsConsistent, ClaimMatchesStatus, JobIsClaimed, ClaimExclusive,
              ClaimerRegistered, PinRespected, TypeOK, RowsOK
<1> QED
  BY <1>1, <1>2, <1>3, <1>4, <1>5, <1>6, RowStep DEF Won

\* The steps of a claim.
LEMMA ClaimConsistent ==
  ASSUME TypeOK, Consistent, NEW q \in Invocations, ClaimRun(q)
  PROVE  Consistent'
<1> DEFINE r == req[q].run  w == req[q].runner
<1>1. /\ r \in Runs /\ w \in Runners /\ req[q].kind = "claim" /\ req[q].step = "cas"
  BY KnowsRun DEF ClaimRun, At, Shaped
<1>2. CASE ~Claimable(r, w)
  <2>1. /\ Others(q) /\ req'[q].kind = "none"
        /\ UNCHANGED <<status, claimer, target, task, registered, job, granted>>
    BY <1>2, ReturnFacts DEF ClaimRun, TypeOK, runnerVars
  <2> QED
    BY <2>1, QuietStep DEF RequestKnows, Won
<1>3. CASE Claimable(r, w)
  <2>1. /\ Goto(q, "busy")
        /\ status' = [status EXCEPT ![r] = "running"]
        /\ claimer' = [claimer EXCEPT ![r] = w]
        /\ UNCHANGED <<target, task, registered, job, granted>>
    BY <1>3 DEF ClaimRun, runnerVars
  <2>2. /\ Others(q) /\ req'[q].kind = "claim" /\ req'[q].step = "busy"
        /\ req'[q].run = r /\ req'[q].runner = w
    BY <1>1, <2>1, GotoFacts DEF TypeOK, Steps
  <2>3. /\ status[r] = "queued" /\ target[r] \in {None, w} /\ w \in registered
        /\ claimer[r] = None /\ \A t \in Tasks : task[r][t] = "absent"
    BY <1>1, <1>3 DEF Claimable, Consistent, RunsConsistent, ClaimMatchesStatus
  <2>4. RowsGrow
    BY <1>1, <2>1, <2>3 DEF RowsGrow, TypeOK, RowsOK
  <2>5. ASSUME NEW p \in Invocations, p # q, req[p].kind = "submit"
        PROVE  /\ status'[req[p].run] \in {"created", "cancelled"}
               /\ claimer'[req[p].run] = None
    BY <1>1, <2>1, <2>3, <2>5, KnowsRun DEF RequestKnows, TypeOK, RowsOK, Shaped
  <2>6. ASSUME NEW p \in Invocations, p # q, Won(p)
        PROVE  req[p].run # r
    BY <2>3, <2>6, KnowsRun DEF RequestKnows, Shaped, Won
  <2>7. RequestKnows(q)'
    BY <1>1, <2>1, <2>2, <2>3 DEF RequestKnows, Won, TypeOK, RowsOK
  <2>8. RunsConsistent'
    <3> USE <1>1, <2>1, <2>3 DEF Consistent, RunsConsistent, TypeOK, RowsOK
    <3>1. ClaimMatchesStatus'
      BY DEF ClaimMatchesStatus
    <3>2. JobIsClaimed' /\ ClaimExclusive'
      BY DEF JobIsClaimed, ClaimExclusive
    <3>3. ClaimerRegistered' /\ PinRespected'
      BY DEF ClaimerRegistered, PinRespected
    <3> QED
      BY <3>1, <3>2, <3>3
  <2> QED
    BY <2>1, <2>2, <2>4, <2>5, <2>6, <2>7, <2>8, RowStep
<1> QED
  BY <1>2, <1>3

LEMMA WonFacts ==
  ASSUME TypeOK, Consistent, NEW q \in Invocations, Won(q)
  PROVE  /\ req[q].run \in Runs /\ req[q].runner \in Runners
         /\ claimer[req[q].run] = req[q].runner
         /\ req[q].step # "reply" => \A t \in Tasks : task[req[q].run][t] = "absent"
         /\ \A p \in Invocations : p # q /\ Won(p) => req[p].run # req[q].run
BY KnowsRun DEF RequestKnows, Won, Shaped, Consistent, RequestsConsistent, OneWinner

LEMMA WinnerConsistent ==
  ASSUME TypeOK, Consistent, NEW q \in Invocations,
         MarkBusy(q) \/ InsertTasks(q) \/ ReplyClaim(q)
  PROVE  Consistent'
<1> DEFINE r == req[q].run  w == req[q].runner
<1>1. Won(q)
  BY DEF MarkBusy, InsertTasks, ReplyClaim, At, Won
<1>2. /\ r \in Runs /\ w \in Runners /\ claimer[r] = w /\ w # None
      /\ req[q].step # "reply" => \A t \in Tasks : task[r][t] = "absent"
      /\ \A p \in Invocations : p # q /\ Won(p) => req[p].run # r
  BY <1>1, WonFacts
<1>3. UNCHANGED <<status, claimer, target, registered>>
  BY DEF MarkBusy, InsertTasks, ReplyClaim, runVars, runnerVars
<1>4. \A p \in Invocations : req[p].kind = "submit"
        => status'[req[p].run] \in {"created", "cancelled"} /\ claimer'[req[p].run] = None
  BY <1>3, KnowsRun DEF RequestKnows
<1>5. CASE MarkBusy(q)
  <2>1. /\ Others(q) /\ req'[q].kind = "claim" /\ req'[q].step = "tasks"
        /\ req'[q].run = r /\ req'[q].runner = w /\ req[q].step = "busy"
    BY <1>5, GotoFacts DEF MarkBusy, TypeOK, Steps, At
  <2>2. job' = [job EXCEPT ![w] = r] /\ UNCHANGED <<task, granted>>
    BY <1>5 DEF MarkBusy, history
  <2>3. RowsGrow /\ RequestKnows(q)'
    BY <1>2, <1>3, <2>1, <2>2 DEF RowsGrow, RequestKnows, Won
  <2>4. RunsConsistent'
    BY <1>2, <1>3, <2>2 DEF Consistent, RunsConsistent, ClaimMatchesStatus, JobIsClaimed,
         ClaimExclusive, ClaimerRegistered, PinRespected, TypeOK, RowsOK
  <2> QED
    BY <1>2, <1>4, <2>1, <2>2, <2>3, <2>4, RowStep
<1>6. CASE InsertTasks(q)
  <2>1. /\ Others(q) /\ req'[q].kind = "claim" /\ req'[q].step = "reply"
        /\ req'[q].run = r /\ req'[q].runner = w /\ req[q].step = "tasks"
    BY <1>6, GotoFacts DEF InsertTasks, TypeOK, Steps, At
  <2>2. /\ task' = [task EXCEPT ![r] = [t \in Tasks |-> "pending"]]
        /\ UNCHANGED <<job, granted>>
    BY <1>6 DEF InsertTasks, history, runnerVars
  <2>3. RowsGrow /\ RequestKnows(q)'
    BY <1>2, <1>3, <2>1, <2>2 DEF RowsGrow, RequestKnows, Won, TypeOK, RowsOK
  <2>4. \A p \in Invocations : p # q /\ Won(p) => task'[req[p].run] = task[req[p].run]
    BY <1>2, <2>2, WonFacts DEF TypeOK, RowsOK
  <2>5. RunsConsistent'
    BY <1>2, <1>3, <2>2 DEF Consistent, RunsConsistent, ClaimMatchesStatus, JobIsClaimed,
         ClaimExclusive, ClaimerRegistered, PinRespected, TypeOK, RowsOK
  <2> QED
    BY <1>2, <1>4, <2>1, <2>2, <2>3, <2>4, <2>5, RowStep
<1>7. CASE ReplyClaim(q)
  <2>1. /\ Others(q) /\ req'[q].kind = "none"
    BY <1>7, ReturnFacts DEF ReplyClaim, TypeOK
  <2>2. granted' \in {granted, granted \cup {<<w, r>>}} /\ UNCHANGED <<task, job>>
    BY <1>7 DEF ReplyClaim, runnerVars
  <2>3. RowsGrow /\ RequestKnows(q)'
    BY <1>3, <2>1, <2>2 DEF RowsGrow, RequestKnows, Won
  <2>4. RunsConsistent'
    BY <1>2, <1>3, <2>2 DEF Consistent, RunsConsistent, ClaimMatchesStatus, JobIsClaimed,
         ClaimExclusive, ClaimerRegistered, PinRespected, TypeOK, RowsOK
  <2> QED
    BY <1>4, <2>1, <2>2, <2>3, <2>4, RowStep DEF Won
<1> QED
  BY <1>5, <1>6, <1>7

\* Reports.
LEMMA ReportConsistent ==
  ASSUME TypeOK, Consistent, NEW q \in Invocations,
         ReadRunStatus(q) \/ WriteRunStatus(q) \/ ReleaseReporter(q)
  PROVE  Consistent'
<1> DEFINE r == req[q].run  w == req[q].runner
<1>1. /\ r \in Runs /\ w \in Runners /\ req[q].kind = "report"
      /\ req[q].to \in {"success", "failed"}
      /\ req[q].step # "read" => claimer[r] = w
  BY KnowsRun DEF ReadRunStatus, WriteRunStatus, ReleaseReporter, At, Shaped, RequestKnows,
                  ReportedRunStatuses
<1>2. UNCHANGED <<claimer, target, task, registered, granted>>
  BY DEF ReadRunStatus, WriteRunStatus, ReleaseReporter, runVars, runnerVars, history
<1>3. CASE ReadRunStatus(q)
  <2>1. UNCHANGED <<status, job>>
    BY <1>3 DEF ReadRunStatus, runVars, runnerVars
  <2>2. Others(q) /\ RequestKnows(q)' /\ req'[q].kind \in {"report", "none"}
    <3>1. CASE Return(q)
      BY <3>1, ReturnFacts DEF TypeOK, RequestKnows, Won
    <3>2. CASE Goto(q, "write") /\ claimer[r] = w
      BY <1>1, <1>2, <3>2, GotoFacts DEF TypeOK, RequestKnows, Won, Steps
    <3> QED
      BY <1>3, <3>1, <3>2 DEF ReadRunStatus
  <2> QED
    BY <1>2, <2>1, <2>2, QuietStep DEF Won
<1>4. CASE WriteRunStatus(q)
  <2>1. Others(q) /\ RequestKnows(q)' /\ req'[q].kind \in {"report", "none"}
    <3>1. CASE Return(q)
      BY <3>1, ReturnFacts DEF TypeOK, RequestKnows, Won
    <3>2. CASE Goto(q, "release")
      BY <1>1, <1>2, <1>4, <3>2, GotoFacts
         DEF TypeOK, RequestKnows, Won, Steps, WriteRunStatus, At
    <3> QED
      BY <1>4, <3>1, <3>2 DEF WriteRunStatus
  <2>2. /\ claimer[r] = w /\ w # None /\ job' = job
        /\ status' = [status EXCEPT ![r] = req[q].to]
    BY <1>1, <1>4 DEF WriteRunStatus, At, runnerVars
  <2>3. RowsGrow
    BY <1>2 DEF RowsGrow
  <2>4. ASSUME NEW p \in Invocations, req[p].kind = "submit"
        PROVE  /\ status'[req[p].run] \in {"created", "cancelled"}
               /\ claimer'[req[p].run] = None
    BY <1>2, <2>2, <2>4, KnowsRun DEF RequestKnows, Shaped, TypeOK, RowsOK
  <2>5. RunsConsistent'
    BY <1>1, <1>2, <2>2 DEF Consistent, RunsConsistent, ClaimMatchesStatus, JobIsClaimed,
         ClaimExclusive, ClaimerRegistered, PinRespected, TypeOK, RowsOK
  <2> QED
    BY <1>2, <2>1, <2>3, <2>4, <2>5, RowStep DEF Won
<1>5. CASE ReleaseReporter(q)
  <2>1. Others(q) /\ req'[q].kind = "none"
    BY <1>5, ReturnFacts DEF ReleaseReporter, TypeOK
  <2>2. job' = [job EXCEPT ![w] = None] /\ status' = status
    BY <1>5 DEF ReleaseReporter, runVars
  <2>3. RowsGrow /\ RequestKnows(q)'
    BY <1>2, <2>1 DEF RowsGrow, RequestKnows, Won
  <2>4. ASSUME NEW p \in Invocations, req[p].kind = "submit"
        PROVE  /\ status'[req[p].run] \in {"created", "cancelled"}
               /\ claimer'[req[p].run] = None
    BY <1>2, <2>2, <2>4, KnowsRun DEF RequestKnows
  <2>5. RunsConsistent'
    BY <1>1, <1>2, <2>2 DEF Consistent, RunsConsistent, ClaimMatchesStatus, JobIsClaimed,
         ClaimExclusive, ClaimerRegistered, PinRespected, TypeOK, RowsOK
  <2> QED
    BY <1>2, <2>1, <2>3, <2>4, <2>5, RowStep DEF Won
<1> QED
  BY <1>3, <1>4, <1>5

LEMMA TaskReportConsistent ==
  ASSUME TypeOK, Consistent, NEW q \in Invocations,
         ReadTaskStatus(q) \/ WriteTaskStatus(q)
  PROVE  Consistent'
<1> DEFINE r == req[q].run  t == req[q].task
<1>1. /\ r \in Runs /\ t \in Tasks /\ req[q].kind = "taskReport"
      /\ req[q].to \in ReportedTaskStatuses
      /\ req[q].step # "read" => task[r][t] # "absent"
  BY KnowsRun DEF ReadTaskStatus, WriteTaskStatus, At, Shaped, RequestKnows
<1>2. UNCHANGED <<status, claimer, target, registered, job, granted>>
  BY DEF ReadTaskStatus, WriteTaskStatus, runVars, runnerVars, history
<1>3. CASE ReadTaskStatus(q)
  <2>1. task' = task
    BY <1>3 DEF ReadTaskStatus
  <2>2. Others(q) /\ RequestKnows(q)' /\ req'[q].kind \in {"taskReport", "none"}
    <3>1. CASE Return(q)
      BY <3>1, ReturnFacts DEF TypeOK, RequestKnows, Won
    <3>2. CASE Goto(q, "write") /\ task[r][t] # "absent"
      BY <1>1, <2>1, <3>2, GotoFacts DEF TypeOK, RequestKnows, Won, Steps
    <3> QED
      BY <1>3, <3>1, <3>2 DEF ReadTaskStatus
  <2> QED
    BY <1>2, <2>1, <2>2, QuietStep DEF Won
<1>4. CASE WriteTaskStatus(q)
  <2>1. Others(q) /\ req'[q].kind = "none"
    BY <1>4, ReturnFacts DEF WriteTaskStatus, TypeOK
  <2>2. /\ task[r][t] # "absent" /\ req[q].to # "absent"
        /\ task' = [task EXCEPT ![r][t] = req[q].to]
    BY <1>1, <1>4 DEF WriteTaskStatus, At, ReportedTaskStatuses
  <2>3. RowsGrow /\ RequestKnows(q)'
    BY <1>1, <1>2, <2>1, <2>2 DEF RowsGrow, RequestKnows, Won, TypeOK, RowsOK
  <2>4. ASSUME NEW p \in Invocations, Won(p), req[p].step # "reply"
        PROVE  task'[req[p].run] = task[req[p].run]
    BY <1>1, <2>2, <2>4, WonFacts DEF TypeOK, RowsOK
  <2>5. ASSUME NEW p \in Invocations, req[p].kind = "submit"
        PROVE  /\ status'[req[p].run] \in {"created", "cancelled"}
               /\ claimer'[req[p].run] = None
    BY <1>2, <2>5, KnowsRun DEF RequestKnows
  <2>6. RunsConsistent'
    BY <1>1, <1>2, <2>2 DEF Consistent, RunsConsistent, ClaimMatchesStatus, JobIsClaimed,
         ClaimExclusive, ClaimerRegistered, PinRespected, TypeOK, RowsOK
  <2> QED
    BY <2>1, <2>3, <2>4, <2>5, <2>6, RowStep DEF Won
<1> QED
  BY <1>3, <1>4

\* Cancellation.
LEMMA CancelConsistent ==
  ASSUME TypeOK, Consistent, NEW q \in Invocations,
         ReadBeforeCancel(q) \/ CancelRun(q) \/ CancelTasks(q) \/ ReleaseClaimer(q)
  PROVE  Consistent'
<1> DEFINE r == req[q].run
<1>1. r \in Runs /\ req[q].kind = "cancel"
  BY KnowsRun DEF ReadBeforeCancel, CancelRun, CancelTasks, ReleaseClaimer, At, Shaped
<1>2. UNCHANGED <<claimer, target, registered, granted>>
  BY DEF ReadBeforeCancel, CancelRun, CancelTasks, ReleaseClaimer, runVars, runnerVars, history
<1>3. Others(q) /\ RequestKnows(q)' /\ req'[q].kind \in {"cancel", "none"}
  <2>1. CASE Return(q)
    BY <2>1, ReturnFacts DEF TypeOK, RequestKnows, Won
  <2>2. CASE \E step \in {"write", "tasks", "release"} : Goto(q, step)
    BY <1>1, <2>2, GotoFacts DEF TypeOK, RequestKnows, Won, Steps
  <2> QED
    BY <2>1, <2>2 DEF ReadBeforeCancel, CancelRun, CancelTasks, ReleaseClaimer
<1>4. CASE ReadBeforeCancel(q)
  <2>1. UNCHANGED <<status, task, job>>
    BY <1>4 DEF ReadBeforeCancel, runVars, runnerVars
  <2> QED
    BY <1>2, <1>3, <2>1, QuietStep DEF Won
<1>5. CASE CancelRun(q)
  <2>1. status' = [status EXCEPT ![r] = "cancelled"] /\ UNCHANGED <<task, job>>
    BY <1>5 DEF CancelRun, runnerVars
  <2>2. ASSUME NEW p \in Invocations, req[p].kind = "submit"
        PROVE  /\ status'[req[p].run] \in {"created", "cancelled"}
               /\ claimer'[req[p].run] = None
    BY <1>2, <2>1, <2>2, KnowsRun DEF RequestKnows, Shaped, TypeOK, RowsOK
  <2>3. RunsConsistent'
    BY <1>1, <1>2, <2>1 DEF Consistent, RunsConsistent, ClaimMatchesStatus, JobIsClaimed,
         ClaimExclusive, ClaimerRegistered, PinRespected, TypeOK, RowsOK
  <2>4. RowsGrow
    BY <1>2, <2>1 DEF RowsGrow
  <2> QED
    BY <1>3, <2>1, <2>2, <2>3, <2>4, RowStep DEF Won
<1>6. CASE CancelTasks(q)
  <2>1. /\ task' = [task EXCEPT ![r] =
                [t \in Tasks |-> IF task[r][t] \in TERMINAL_STATUSES \cup {"absent"}
                                 THEN task[r][t] ELSE "cancelled"]]
        /\ UNCHANGED <<status, job>>
    BY <1>6 DEF CancelTasks, runVars, runnerVars
  <2>2. \A s \in Runs, t \in Tasks : task'[s][t] = "absent" <=> task[s][t] = "absent"
    BY <1>1, <2>1 DEF TypeOK, RowsOK
  <2>3. RowsGrow
    BY <1>2, <2>2 DEF RowsGrow
  <2>4. ASSUME NEW p \in Invocations, Won(p), req[p].step # "reply"
        PROVE  task'[req[p].run] = task[req[p].run]
    BY <1>1, <2>1, <2>4, WonFacts DEF TypeOK, RowsOK
  <2>5. ASSUME NEW p \in Invocations, req[p].kind = "submit"
        PROVE  /\ status'[req[p].run] \in {"created", "cancelled"}
               /\ claimer'[req[p].run] = None
    BY <1>2, <2>1, <2>5, KnowsRun DEF RequestKnows
  <2>6. RunsConsistent'
    BY <1>2, <2>1, <2>2 DEF Consistent, RunsConsistent, ClaimMatchesStatus, JobIsClaimed,
         ClaimExclusive, ClaimerRegistered, PinRespected
  <2> QED
    BY <1>3, <2>3, <2>4, <2>5, <2>6, RowStep DEF Won
<1>7. CASE ReleaseClaimer(q)
  <2>1. /\ job' \in {job, [job EXCEPT ![claimer[r]] = None]}
        /\ UNCHANGED <<status, task>>
    BY <1>7 DEF ReleaseClaimer, runVars
  <2>2. RowsGrow
    BY <1>2, <2>1 DEF RowsGrow
  <2>3. ASSUME NEW p \in Invocations, req[p].kind = "submit"
        PROVE  /\ status'[req[p].run] \in {"created", "cancelled"}
               /\ claimer'[req[p].run] = None
    BY <1>2, <2>1, <2>3, KnowsRun DEF RequestKnows
  <2>4. RunsConsistent'
    BY <1>2, <2>1 DEF Consistent, RunsConsistent, ClaimMatchesStatus, JobIsClaimed,
         ClaimExclusive, ClaimerRegistered, PinRespected, TypeOK, RowsOK
  <2> QED
    BY <1>3, <2>1, <2>2, <2>3, <2>4, RowStep DEF Won
<1> QED
  BY <1>4, <1>5, <1>6, <1>7

\* Heartbeats and the deletion of a runner.
LEMMA RunnerConsistent ==
  ASSUME TypeOK, Consistent, NEW q \in Invocations, WriteHeartbeat(q) \/ DeleteRunner(q)
  PROVE  Consistent'
<1>1. Others(q) /\ req'[q].kind = "none"
  BY ReturnFacts DEF WriteHeartbeat, DeleteRunner, TypeOK
<1>2. RequestKnows(q)'
  BY <1>1 DEF RequestKnows, Won
<1>3. UNCHANGED <<status, claimer, task, job, granted>>
  BY DEF WriteHeartbeat, DeleteRunner, runVars, history
<1>4. CASE UNCHANGED <<registered, target>>
  BY <1>1, <1>2, <1>3, <1>4, QuietStep DEF Won
<1>5. CASE ~UNCHANGED <<registered, target>>
  <2> DEFINE w == req[q].runner
  <2>1. /\ \A r \in Runs : claimer[r] # w
        /\ registered' = registered \ {w}
        /\ target' = [r \in Runs |-> IF target[r] = w THEN None ELSE target[r]]
    BY <1>5 DEF WriteHeartbeat, DeleteRunner, runVars
  <2>2. RunsConsistent'
    BY <1>3, <2>1 DEF Consistent, RunsConsistent, ClaimMatchesStatus, JobIsClaimed,
         ClaimExclusive, ClaimerRegistered, PinRespected, TypeOK, RowsOK
  <2>3. RowsGrow
    BY <1>3 DEF RowsGrow
  <2>4. ASSUME NEW p \in Invocations, req[p].kind = "submit"
        PROVE  /\ status'[req[p].run] \in {"created", "cancelled"}
               /\ claimer'[req[p].run] = None
    BY <1>3, <2>4, KnowsRun DEF RequestKnows
  <2> QED
    BY <1>1, <1>2, <1>3, <2>2, <2>3, <2>4, RowStep DEF Won
<1> QED
  BY <1>4, <1>5

LEMMA HandlerConsistent ==
  ASSUME TypeOK, Consistent, NEW q \in Requests, HandlerStep(q)
  PROVE  Consistent'
<1>1. q \in Invocations
  BY DEF Invocations
<1> QED
  BY <1>1, QueueConsistent, ClaimConsistent, WinnerConsistent, ReportConsistent,
     TaskReportConsistent, CancelConsistent, RunnerConsistent DEF HandlerStep

\* New calls: only the creation of a run writes a row.
LEMMA CallConsistent ==
  ASSUME TypeOK, Consistent, NEW q \in Requests, DashboardCall(q) \/ RunnerCall(q)
  PROVE  Consistent'
<1>1. q \in Invocations
  BY DEF Invocations
<1>2. ASSUME NEW kind, NEW step, NEW r, NEW w, NEW t, NEW to,
             CallWith(q, kind, step, r, w, t, to),
             kind \in {"claim", "report", "taskReport", "cancel", "heartbeat", "revoke"},
             kind = "claim" => step = "cas",
             kind \in {"report", "taskReport"} => step = "read",
             UNCHANGED <<runVars, task, runnerVars, history>>
      PROVE  Consistent'
  <2>1. Others(q) /\ req'[q].kind = kind /\ req'[q].step = step
    BY <1>1, <1>2 DEF CallWith, Others, TypeOK, RequestsOK
  <2>2. RequestKnows(q)'
    BY <1>2, <2>1 DEF RequestKnows, Won
  <2> QED
    BY <1>1, <1>2, <2>1, <2>2, QuietStep DEF Won, runVars, runnerVars, history
<1>3. ASSUME NEW r \in Runs,
             ReceivePush(q, r) \/ TriggerPipelineRun(q, r) \/ RerunPipelineRun(q, r)
      PROVE  Consistent'
  BY <1>1, <1>3, InsertConsistent DEF ReceivePush, TriggerPipelineRun, RerunPipelineRun, TypeOK, RowsOK
<1>4. ASSUME NEW r \in Runs, CallCancel(q, r) PROVE Consistent'
  BY <1>2, <1>4 DEF CallCancel, Call
<1>5. ASSUME NEW w \in Runners, NEW force \in BOOLEAN, CallRevoke(q, w, force) PROVE Consistent'
  BY <1>2, <1>5 DEF CallRevoke, Call
<1>6. ASSUME NEW w \in Runners, CallHeartbeat(q, w) PROVE Consistent'
  BY <1>2, <1>6 DEF CallHeartbeat
<1>7. ASSUME NEW w \in Runners, NEW r \in Runs, CallClaim(q, w, r) PROVE Consistent'
  BY <1>2, <1>7 DEF CallClaim, Call
<1>8. ASSUME NEW w \in Runners, NEW r \in Runs, NEW to, CallReport(q, w, r, to) PROVE Consistent'
  BY <1>2, <1>8 DEF CallReport
<1>9. ASSUME NEW w \in Runners, NEW r \in Runs, NEW t, NEW to, CallTaskReport(q, w, r, t, to)
      PROVE  Consistent'
  BY <1>2, <1>9 DEF CallTaskReport
<1> QED
  BY <1>3, <1>4, <1>5, <1>6, <1>7, <1>8, <1>9 DEF DashboardCall, RunnerCall

\* The reaper.
LEMMA ReaperConsistent ==
  ASSUME TypeOK, Consistent, NEW q \in Reapers,
         (\E r \in Runs : ScanRun(q, r)) \/ ReaperStep(q)
  PROVE  Consistent'
<1>1. q \in Invocations
  BY DEF Invocations
<1>2. ASSUME NEW r \in Runs, ScanRun(q, r)
      PROVE  Consistent'
  <2>1. CallWith(q, "reap", "lookup", r, claimer[r], None, "none") /\ status[r] = "running"
    BY <1>2 DEF ScanRun, Call
  <2>2. Others(q) /\ req'[q].kind = "reap" /\ req'[q].run = r /\ req'[q].runner = claimer[r]
    BY <1>1, <2>1 DEF CallWith, Others, TypeOK, RequestsOK
  <2>3. claimer[r] \in Runners
    BY <2>1 DEF Consistent, RunsConsistent, ClaimMatchesStatus, TypeOK, RowsOK
  <2>4. UNCHANGED <<status, claimer, target, task, registered, job, granted>>
    BY <1>2 DEF ScanRun, runVars, runnerVars, history
  <2>5. RequestKnows(q)'
    BY <2>2, <2>3, <2>4 DEF RequestKnows, Won
  <2> QED
    BY <1>1, <2>2, <2>4, <2>5, QuietStep DEF Won
<1> SUFFICES ASSUME ReaperStep(q) PROVE Consistent'
  BY <1>2
<1> DEFINE r == req[q].run  w == req[q].runner
<1>3. r \in Runs /\ w \in Runners /\ req[q].kind = "reap" /\ claimer[r] = w /\ w # None
  <2>1. req[q].kind = "reap"
    BY DEF ReaperStep, LookupRunner, TimeOutRun, TidyTasks, TidyJob, At
  <2>2. RequestKnows(q) /\ Shaped(req[q])
    BY <1>1, KnowsRun
  <2>3. r \in Runs
    BY <2>1, <2>2 DEF Shaped
  <2>4. claimer[r] = w /\ w \in Runners
    BY <2>1, <2>2 DEF RequestKnows
  <2> QED BY <2>1, <2>3, <2>4
<1>4. UNCHANGED <<claimer, target, registered, granted>>
  BY DEF ReaperStep, LookupRunner, TimeOutRun, TidyTasks, TidyJob, AfterTidy, runVars, runnerVars, history
<1>5. Others(q) /\ RequestKnows(q)' /\ req'[q].kind \in {"reap", "none"}
  <2>1. CASE Return(q)
    BY <1>1, <2>1, ReturnFacts DEF TypeOK, RequestKnows, Won
  <2>2. CASE \E step \in {"cas", "tidy", "tidyTasks", "tidyJob"} : Goto(q, step)
    BY <1>1, <1>3, <1>4, <2>2, GotoFacts DEF TypeOK, RequestKnows, Won, Steps
  <2> QED
    BY <2>1, <2>2 DEF ReaperStep, LookupRunner, TimeOutRun, TidyTasks, TidyJob, AfterTidy
<1>6. CASE LookupRunner(q)
  <2>1. UNCHANGED <<status, task, job>>
    BY <1>6 DEF LookupRunner, runVars, runnerVars
  <2> QED
    BY <1>1, <1>4, <1>5, <2>1, QuietStep DEF Won
<1>7. CASE TimeOutRun(q)
  <2>1. status' \in {status, [status EXCEPT ![r] = "timed_out"]} /\ UNCHANGED <<task, job>>
    BY <1>7 DEF TimeOutRun, runnerVars
  <2>2. ASSUME NEW p \in Invocations, req[p].kind = "submit"
        PROVE  /\ status'[req[p].run] \in {"created", "cancelled"}
               /\ claimer'[req[p].run] = None
    BY <1>3, <1>4, <2>1, <2>2, KnowsRun DEF RequestKnows, Shaped, TypeOK, RowsOK
  <2>3. RunsConsistent'
    BY <1>3, <1>4, <2>1 DEF Consistent, RunsConsistent, ClaimMatchesStatus, JobIsClaimed,
         ClaimExclusive, ClaimerRegistered, PinRespected, TypeOK, RowsOK
  <2>4. RowsGrow
    BY <1>4, <2>1 DEF RowsGrow
  <2> QED
    BY <1>1, <1>5, <2>1, <2>2, <2>3, <2>4, RowStep DEF Won
<1>8. CASE TidyTasks(q)
  <2>1. /\ task' = [task EXCEPT ![r] =
                [t \in Tasks |->
                   IF task[r][t] \in {"pending", "running", "awaiting_approval"}
                   THEN "cancelled" ELSE task[r][t]]]
        /\ UNCHANGED <<status, job>>
    BY <1>8 DEF TidyTasks, runVars, runnerVars
  <2>2. \A s \in Runs, t \in Tasks : task'[s][t] = "absent" <=> task[s][t] = "absent"
    BY <1>3, <2>1 DEF TypeOK, RowsOK
  <2>3. RowsGrow
    BY <1>4, <2>2 DEF RowsGrow
  <2>4. ASSUME NEW p \in Invocations, Won(p), req[p].step # "reply"
        PROVE  task'[req[p].run] = task[req[p].run]
    <3> DEFINE s == req[p].run
    <3>1. s \in Runs /\ \A t \in Tasks : task[s][t] = "absent"
      BY <2>4, WonFacts
    <3>2. task[s] = [t \in Tasks |-> "absent"]
      BY <3>1 DEF TypeOK, RowsOK
    <3>3. task'[s] \in [Tasks -> TaskRowStatuses \cup {"cancelled"}]
      BY <1>3, <2>1, <3>1 DEF TypeOK, RowsOK
    <3>4. \A t \in Tasks : task'[s][t] = "absent"
      BY <2>2, <3>1
    <3> QED
      BY <3>2, <3>3, <3>4
  <2>5. ASSUME NEW p \in Invocations, req[p].kind = "submit"
        PROVE  /\ status'[req[p].run] \in {"created", "cancelled"}
               /\ claimer'[req[p].run] = None
    BY <1>4, <2>1, <2>5, KnowsRun DEF RequestKnows
  <2>6. RunsConsistent'
    BY <1>4, <2>1, <2>2 DEF Consistent, RunsConsistent, ClaimMatchesStatus, JobIsClaimed,
         ClaimExclusive, ClaimerRegistered, PinRespected
  <2> QED
    BY <1>1, <1>5, <2>3, <2>4, <2>5, <2>6, RowStep DEF Won
<1>9. CASE TidyJob(q)
  <2>1. job' \in {job, [job EXCEPT ![w] = None]} /\ UNCHANGED <<status, task>>
    BY <1>9 DEF TidyJob, runVars
  <2>2. RowsGrow
    BY <1>4, <2>1 DEF RowsGrow
  <2>3. ASSUME NEW p \in Invocations, req[p].kind = "submit"
        PROVE  /\ status'[req[p].run] \in {"created", "cancelled"}
               /\ claimer'[req[p].run] = None
    BY <1>4, <2>1, <2>3, KnowsRun DEF RequestKnows
  <2>4. RunsConsistent'
    BY <1>4, <2>1 DEF Consistent, RunsConsistent, ClaimMatchesStatus, JobIsClaimed,
         ClaimExclusive, ClaimerRegistered, PinRespected, TypeOK, RowsOK
  <2> QED
    BY <1>1, <1>5, <2>1, <2>2, <2>3, <2>4, RowStep DEF Won
<1> QED
  BY <1>6, <1>7, <1>8, <1>9 DEF ReaperStep

\* A failing database call: the invocation gives up, or skips one write.
LEMMA FailureConsistent ==
  ASSUME TypeOK, Consistent, NEW q \in Invocations, CallFails(q)
  PROVE  Consistent'
<1>1. UNCHANGED <<status, claimer, target, task, registered, job, granted>>
  BY DEF CallFails, runVars, runnerVars, history
<1>2. CASE Return(q)
  <2>1. Others(q) /\ req'[q].kind = "none"
    BY <1>2, ReturnFacts DEF TypeOK
  <2> QED
    BY <1>1, <2>1, QuietStep DEF Won, RequestKnows
<1>3. CASE \E step \in AfterIgnoredError(req[q].kind, req[q].step) : Goto(q, step)
  <2>1. \/ Won(q) /\ req[q].step # "reply" /\ \E step \in {"tasks", "reply"} : Goto(q, step)
        \/ req[q].kind = "cancel" /\ Goto(q, "release")
        \/ req[q].kind = "reap" /\ \E step \in {"tidyTasks", "tidyJob"} : Goto(q, step)
    BY <1>3 DEF AfterIgnoredError, Won
  <2>2. RequestKnows(q)
    BY KnowsRun
  <2>3. Others(q) /\ RequestKnows(q)' /\ req'[q].kind = req[q].kind
        /\ req'[q].run = req[q].run /\ (Won(q)' => Won(q))
    BY <1>1, <2>1, <2>2, GotoFacts DEF TypeOK, RequestKnows, Won, Steps
  <2> QED
    BY <1>1, <2>1, <2>3, QuietStep DEF Won
<1> QED
  BY <1>2, <1>3 DEF CallFails

\* The schedules and the passing of time.
LEMMA EnvironmentConsistent ==
  ASSUME TypeOK, Consistent,
         \/ \E r \in Runs : DispatchSchedule(r) \/ GoIdle(r)
         \/ \E w \in Runners : Age(w)
         \/ MarkStaleOffline
  PROVE  Consistent'
<1>1. /\ UNCHANGED <<claimer, target, task, registered, job, req, granted>>
      /\ \/ status' = status
         \/ \E r \in Runs : status[r] = "absent" /\ status' = [status EXCEPT ![r] = "queued"]
  BY DEF DispatchSchedule, GoIdle, Age, MarkStaleOffline, runVars, runnerVars, history
<1>2. RowsGrow
  BY <1>1 DEF RowsGrow
<1>3. ASSUME NEW p \in Invocations, req[p].kind = "submit"
      PROVE  /\ status'[req[p].run] \in {"created", "cancelled"}
             /\ claimer'[req[p].run] = None
  BY <1>1, <1>3, KnowsRun DEF RequestKnows, Shaped, TypeOK, RowsOK
<1>4. RunsConsistent'
  BY <1>1 DEF Consistent, RunsConsistent, ClaimMatchesStatus, JobIsClaimed,
       ClaimExclusive, ClaimerRegistered, PinRespected, TypeOK, RowsOK
<1> QED
  BY <1>1, <1>2, <1>3, <1>4, EnvironmentStep

LEMMA InitConsistent == Init => Consistent
BY DEF Init, Consistent, RunsConsistent, RequestsConsistent, ClaimMatchesStatus, JobIsClaimed,
       ClaimExclusive, ClaimerRegistered, PinRespected, OneSubmit, OneWinner, RequestKnows,
       Won, NoRequest

LEMMA NextConsistent == TypeOK /\ Consistent /\ [Next]_vars => Consistent'
<1> SUFFICES ASSUME TypeOK, Consistent, [Next]_vars PROVE Consistent'
  OBVIOUS
<1>1. CASE \E q \in Requests : DashboardCall(q) \/ RunnerCall(q) \/ HandlerStep(q)
  BY <1>1, CallConsistent, HandlerConsistent
<1>2. CASE \E q \in Reapers : (\E r \in Runs : ScanRun(q, r)) \/ ReaperStep(q)
  BY <1>2, ReaperConsistent
<1>3. CASE \E q \in Invocations : CallFails(q)
  BY <1>3, FailureConsistent
<1>4. CASE \/ \E r \in Runs : DispatchSchedule(r) \/ GoIdle(r)
           \/ \E w \in Runners : Age(w)
           \/ MarkStaleOffline
  BY <1>4, EnvironmentConsistent
<1>5. CASE UNCHANGED vars
  <2>1. UNCHANGED <<status, claimer, target, task, registered, job, req, granted>>
    BY <1>5 DEF vars, runVars, runnerVars, history
  <2>2. RunsConsistent'
    BY <2>1 DEF Consistent, RunsConsistent, ClaimMatchesStatus, JobIsClaimed,
       ClaimExclusive, ClaimerRegistered, PinRespected
  <2>3. RowsGrow
    BY <2>1 DEF RowsGrow
  <2>4. \A p \in Invocations : req[p].kind = "submit"
          => status'[req[p].run] \in {"created", "cancelled"} /\ claimer'[req[p].run] = None
    BY <2>1, KnowsRun DEF RequestKnows
  <2> QED
    BY <2>1, <2>2, <2>3, <2>4, EnvironmentStep
<1> QED
  BY <1>1, <1>2, <1>3, <1>4, <1>5 DEF Next

\* The inductive invariant.
THEOREM Consistency == Spec => []Consistent
BY TypeCorrect, InitConsistent, NextConsistent, PTL DEF Spec

\* Two runners are never both told that they hold the same run.
THEOREM ClaimsAreExclusive == Spec => []ClaimExclusive
<1>1. Consistent => ClaimExclusive
  BY DEF Consistent, RunsConsistent
<1> QED
  BY <1>1, Consistency, PTL

\* A run pinned to a runner is claimed by no other.
THEOREM PinsAreRespected == Spec => []PinRespected
<1>1. Consistent => PinRespected
  BY DEF Consistent, RunsConsistent
<1> QED
  BY <1>1, Consistency, PTL

\* current_job_id names a run of this runner, and runner_id a registered runner.
THEOREM LinksAreSound == Spec => [](JobIsClaimed /\ ClaimerRegistered)
<1>1. Consistent => JobIsClaimed /\ ClaimerRegistered
  BY DEF Consistent, RunsConsistent
<1> QED
  BY <1>1, Consistency, PTL

\* A claim inserts task rows where there are none.
THEOREM TasksAreInsertedOnce == Spec => []TasksInsertedOnce
<1>1. TypeOK /\ Consistent => TasksInsertedOnce
  BY WonFacts DEF TasksInsertedOnce, At, Won, Invocations
<1> QED
  BY <1>1, TypeCorrect, Consistency, PTL

\* No step takes the runner of a run away.
LEMMA ClaimedRunStep ==
  ASSUME TypeOK, Consistent, [Next]_vars, NEW r \in Runs, claimer[r] # None
  PROVE  claimer'[r] = claimer[r]
<1>1. status[r] \notin {"absent", "created", "queued"}
  BY DEF Consistent, RunsConsistent, ClaimMatchesStatus
<1>2. ASSUME NEW q \in Requests, DashboardCall(q)
      PROVE  claimer'[r] = claimer[r]
  BY <1>1, <1>2 DEF DashboardCall, ReceivePush, TriggerPipelineRun, RerunPipelineRun, InsertRun, CallCancel,
                    CallRevoke, runVars, TypeOK, RowsOK
<1>3. ASSUME NEW q \in Requests, RunnerCall(q)
      PROVE  claimer'[r] = claimer[r]
  BY <1>3 DEF RunnerCall, CallHeartbeat, CallClaim, CallReport, CallTaskReport, runVars
<1>4. ASSUME NEW q \in Requests, HandlerStep(q)
      PROVE  claimer'[r] = claimer[r]
  <2>1. CASE ClaimRun(q)
    <3>1. CASE Claimable(req[q].run, req[q].runner)
      BY <1>1, <2>1, <3>1 DEF ClaimRun, Claimable, TypeOK, RowsOK
    <3>2. CASE ~Claimable(req[q].run, req[q].runner)
      BY <2>1, <3>2 DEF ClaimRun
    <3> QED
      BY <3>1, <3>2
  <2>2. CASE ~ClaimRun(q)
    BY <1>4, <2>2 DEF HandlerStep, QueueRun, MarkBusy, InsertTasks, ReplyClaim, ReadRunStatus,
         WriteRunStatus, ReleaseReporter, ReadTaskStatus, WriteTaskStatus, ReadBeforeCancel,
         CancelRun, CancelTasks, ReleaseClaimer, WriteHeartbeat, DeleteRunner, runVars
  <2> QED
    BY <2>1, <2>2
<1>5. ASSUME NEW q \in Reapers, (\E s \in Runs : ScanRun(q, s)) \/ ReaperStep(q)
      PROVE  claimer'[r] = claimer[r]
  BY <1>5 DEF ScanRun, ReaperStep, LookupRunner, TimeOutRun, TidyTasks, TidyJob, runVars
<1>6. ASSUME \/ \E q \in Invocations : CallFails(q)
             \/ \E s \in Runs : DispatchSchedule(s) \/ GoIdle(s)
             \/ \E w \in Runners : Age(w)
             \/ MarkStaleOffline
             \/ UNCHANGED vars
      PROVE  claimer'[r] = claimer[r]
  BY <1>1, <1>6 DEF CallFails, DispatchSchedule, GoIdle, Age, MarkStaleOffline, vars, runVars,
                    TypeOK, RowsOK
<1> QED
  BY <1>2, <1>3, <1>4, <1>5, <1>6 DEF Next

\* runner_id is written once.
THEOREM ClaimsArePermanent == Spec => ClaimedOnce
<1>1. TypeOK /\ Consistent /\ [Next]_vars
        => [\A r \in Runs : claimer[r] # None => claimer'[r] = claimer[r]]_vars
  BY ClaimedRunStep
<1> QED
  BY <1>1, TypeCorrect, Consistency, PTL DEF Spec, ClaimedOnce

\* An invocation changes its own local state only.
LEMMA RequestsMoveAlone ==
  ASSUME TypeOK, NEW q \in Invocations, DashboardCall(q) \/ RunnerCall(q) \/ HandlerStep(q)
  PROVE  Others(q)
<1>1. CASE DashboardCall(q) \/ RunnerCall(q)
  <2>1. \E kind, step, r, w, t, to : CallWith(q, kind, step, r, w, t, to)
    BY <1>1 DEF DashboardCall, RunnerCall, ReceivePush, TriggerPipelineRun, RerunPipelineRun, InsertRun,
       CallCancel, CallRevoke, CallHeartbeat, CallClaim, CallReport, CallTaskReport, Call
  <2> QED
    BY <2>1 DEF CallWith, Others, TypeOK, RequestsOK
<1>2. CASE HandlerStep(q)
  <2>1. CASE Return(q)
    BY <2>1, ReturnFacts DEF TypeOK
  <2>2. CASE \E step \in Steps : Goto(q, step)
    BY <2>2, GotoFacts DEF TypeOK
  <2>3. Return(q) \/ \E step \in Steps : Goto(q, step)
    BY <1>2 DEF HandlerStep, QueueRun, ClaimRun, MarkBusy, InsertTasks, ReplyClaim, ReadRunStatus,
         WriteRunStatus, ReleaseReporter, ReadTaskStatus, WriteTaskStatus, ReadBeforeCancel,
         CancelRun, CancelTasks, ReleaseClaimer, WriteHeartbeat, DeleteRunner, Steps
  <2> QED
    BY <2>1, <2>2, <2>3
<1> QED
  BY <1>1, <1>2

LEMMA ReapersMoveAlone ==
  ASSUME TypeOK, NEW q \in Invocations,
         (\E r \in Runs : ScanRun(q, r)) \/ ReaperStep(q) \/ CallFails(q)
  PROVE  Others(q)
<1>1. CASE \E r \in Runs : ScanRun(q, r)
  BY <1>1 DEF ScanRun, Call, CallWith, Others, TypeOK, RequestsOK
<1>2. CASE Return(q)
  BY <1>2, ReturnFacts DEF TypeOK
<1>3. CASE \E step \in Steps : Goto(q, step)
  BY <1>3, GotoFacts DEF TypeOK
<1> QED
  BY <1>1, <1>2, <1>3 DEF ReaperStep, LookupRunner, TimeOutRun, TidyTasks, TidyJob, AfterTidy,
     CallFails, AfterIgnoredError, Steps

\* What a step of the reaper leaves alone.
Careful(q) ==
  /\ \A r \in Runs : status'[r] # status[r]
                      => status[r] = "running" /\ r = req[q].run /\ At(q, "reap", "cas")
  /\ \A r \in Runs, t \in Tasks :
       task[r][t] \in TASK_RUN_TERMINAL_STATES => task'[r][t] = task[r][t]
  /\ \A w \in Runners : job[w] # req[q].run => job'[w] = job[w]

LEMMA ReaperIsCareful ==
  ASSUME TypeOK, NEW q \in Invocations,
         (\E r \in Runs : ScanRun(q, r)) \/ ReaperStep(q) \/ CallFails(q)
  PROVE  Careful(q)
<1> USE DEF Careful, TypeOK, RowsOK, isPipelineTerminal, PIPELINE_RUN_TERMINAL_STATES,
            TASK_RUN_TERMINAL_STATES
<1>1. CASE (\E r \in Runs : ScanRun(q, r)) \/ LookupRunner(q) \/ CallFails(q)
  BY <1>1 DEF ScanRun, LookupRunner, CallFails, runVars, runnerVars
<1>2. CASE TimeOutRun(q)
  BY <1>2 DEF TimeOutRun, runnerVars
<1>3. CASE TidyTasks(q)
  BY <1>3 DEF TidyTasks, runVars, runnerVars
<1>4. CASE TidyJob(q)
  BY <1>4 DEF TidyJob, runVars
<1> QED
  BY <1>1, <1>2, <1>3, <1>4 DEF ReaperStep

-----------------------------------------------------------------------------
(* What the reaper concluded is true, if its read of the runners is        *)
(* reliable.                                                               *)

\* The history only grows, and a step that neither writes a status nor ages a
\* heartbeat nor moves a reaper keeps OrphanKnown.
LEMMA OrphanFrame ==
  ASSUME TypeOK, OrphanKnown, UNCHANGED <<claimer, hbAge, wasSilent>>,
         \A r \in Runs : status'[r] = "timed_out" => status[r] = "timed_out",
         \A q \in Reapers : At(q, "reap", "cas")' => At(q, "reap", "cas") /\ req'[q].run = req[q].run
  PROVE  OrphanKnown'
BY DEF OrphanKnown, TimedOutWasOrphaned

\* The invocations of users and runners do not move a reaper.
LEMMA ReapersWait ==
  ASSUME TypeOK, NEW q \in Requests, Others(q)
  PROVE  \A p \in Reapers : req'[p] = req[p]
BY DEF Others, Invocations

LEMMA HandlerOrphan ==
  ASSUME TypeOK, Consistent, OrphanKnown, NEW q \in Requests, HandlerStep(q)
  PROVE  OrphanKnown'
<1>0. q \in Invocations
  BY DEF Invocations
<1>1. Others(q)
  <2>1. CASE Return(q)
    BY <1>0, <2>1, ReturnFacts DEF TypeOK
  <2>2. CASE \E step \in Steps : Goto(q, step)
    BY <1>0, <2>2, GotoFacts DEF TypeOK
  <2>3. Return(q) \/ \E step \in Steps : Goto(q, step)
    BY DEF HandlerStep, QueueRun, ClaimRun, MarkBusy, InsertTasks, ReplyClaim, ReadRunStatus,
         WriteRunStatus, ReleaseReporter, ReadTaskStatus, WriteTaskStatus, ReadBeforeCancel,
         CancelRun, CancelTasks, ReleaseClaimer, WriteHeartbeat, DeleteRunner, Steps
  <2> QED
    BY <2>1, <2>2, <2>3
<1>2. \A p \in Reapers : At(p, "reap", "cas")' => At(p, "reap", "cas") /\ req'[p].run = req[p].run
  BY <1>1, ReapersWait DEF At
<1>3. CASE QueueRun(q)
  BY <1>2, <1>3, OrphanFrame DEF QueueRun, TypeOK, RowsOK, runnerVars, history
<1>4. CASE WriteRunStatus(q)
  <2>1. req[q].to # "timed_out"
    BY <1>0, <1>4, KnowsRun DEF WriteRunStatus, At, Shaped, ReportedRunStatuses
  <2> QED
    BY <1>2, <1>4, <2>1, OrphanFrame DEF WriteRunStatus, TypeOK, RowsOK, runnerVars, history
<1>5. CASE CancelRun(q)
  BY <1>2, <1>5, OrphanFrame DEF CancelRun, TypeOK, RowsOK, runnerVars, history
<1>6. CASE \/ MarkBusy(q) \/ InsertTasks(q) \/ ReplyClaim(q) \/ ReadRunStatus(q)
           \/ ReleaseReporter(q) \/ ReadTaskStatus(q) \/ WriteTaskStatus(q)
           \/ ReadBeforeCancel(q) \/ CancelTasks(q) \/ ReleaseClaimer(q) \/ DeleteRunner(q)
  <2>1. UNCHANGED <<status, claimer, hbAge, wasSilent>>
    BY <1>6 DEF MarkBusy, InsertTasks, ReplyClaim, ReadRunStatus, ReleaseReporter,
         ReadTaskStatus, WriteTaskStatus, ReadBeforeCancel, CancelTasks, ReleaseClaimer,
         DeleteRunner, runVars, runnerVars, history
  <2> QED
    BY <1>2, <2>1, OrphanFrame
<1>7. CASE ClaimRun(q)
  <2> DEFINE r == req[q].run  w == req[q].runner
  <2>1. r \in Runs /\ w \in Runners
    BY <1>0, <1>7, KnowsRun DEF ClaimRun, At, Shaped
  <2>2. CASE ~Claimable(r, w)
    BY <1>2, <1>7, <2>2, OrphanFrame DEF ClaimRun, runnerVars
  <2>3. CASE Claimable(r, w)
    <3>1. /\ status' = [status EXCEPT ![r] = "running"]
          /\ claimer' = [claimer EXCEPT ![r] = w] /\ hbAge' = hbAge
          /\ wasSilent' = IF hbAge[w] = 2 THEN wasSilent \cup {r} ELSE wasSilent
      BY <1>7, <2>3 DEF ClaimRun, runnerVars
    <3> QED
      BY <1>2, <2>1, <3>1 DEF OrphanKnown, TimedOutWasOrphaned, TypeOK, RowsOK
  <2> QED
    BY <2>2, <2>3
<1>8. CASE WriteHeartbeat(q)
  <2>1. /\ UNCHANGED <<status, claimer, wasSilent>>
        /\ hbAge' \in {hbAge, [hbAge EXCEPT ![req[q].runner] = 0]}
    BY <1>8 DEF WriteHeartbeat, runVars, history
  <2> QED
    BY <1>2, <2>1 DEF OrphanKnown, TimedOutWasOrphaned, TypeOK, RowsOK
<1> QED
  BY <1>3, <1>4, <1>5, <1>6, <1>7, <1>8 DEF HandlerStep

LEMMA ReaperOrphan ==
  ASSUME TypeOK, Consistent, OrphanKnown, LookupFaults = FALSE, NEW q \in Reapers,
         (\E r \in Runs : ScanRun(q, r)) \/ ReaperStep(q)
  PROVE  OrphanKnown'
<1>0. q \in Invocations
  BY DEF Invocations
<1>1. UNCHANGED <<claimer, hbAge, wasSilent>>
  BY DEF ReaperStep, ScanRun, LookupRunner, TimeOutRun, TidyTasks, TidyJob, AfterTidy, runVars, runnerVars, history
<1>2. ASSUME Others(q), ~At(q, "reap", "cas")'
      PROVE  \A p \in Reapers : At(p, "reap", "cas")'
               => At(p, "reap", "cas") /\ req'[p].run = req[p].run
  BY <1>2 DEF Others, Invocations, At
<1>3. ASSUME NEW r \in Runs, ScanRun(q, r)
      PROVE  OrphanKnown'
  <2>1. CallWith(q, "reap", "lookup", r, claimer[r], None, "none") /\ status' = status
    BY <1>3 DEF ScanRun, Call, runVars
  <2>2. Others(q) /\ req'[q].step = "lookup"
    BY <1>0, <2>1 DEF CallWith, Others, TypeOK, RequestsOK
  <2> QED
    BY <1>1, <1>2, <2>1, <2>2, OrphanFrame DEF At
<1> DEFINE r == req[q].run  w == req[q].runner
<1>4. CASE LookupRunner(q)
  <2>1. r \in Runs /\ w \in Runners /\ claimer[r] = w /\ w # None
    BY <1>0, <1>4, KnowsRun DEF LookupRunner, At, Shaped, RequestKnows
  <2>2. w \in registered
    BY <2>1 DEF Consistent, RunsConsistent, ClaimerRegistered
  <2>3. CASE Return(q)
    <3>1. Others(q) /\ req'[q].kind = "none" /\ status' = status
      BY <1>0, <1>4, <2>3, ReturnFacts DEF TypeOK, LookupRunner, runVars
    <3> QED
      BY <1>1, <1>2, <3>1, OrphanFrame DEF At
  <2>4. CASE Goto(q, "cas") /\ hbAge[w] = 2
    <3>1. Others(q) /\ req'[q].run = r /\ status' = status
      BY <1>0, <1>4, <2>4, GotoFacts DEF TypeOK, LookupRunner, runVars, Steps
    <3>2. r \in wasSilent
      BY <2>1, <2>4 DEF OrphanKnown
    <3> QED
      BY <1>1, <3>1, <3>2 DEF OrphanKnown, TimedOutWasOrphaned, At, Others, Invocations
  <2> QED
    BY <1>4, <2>2, <2>3, <2>4 DEF LookupRunner
<1>5. CASE TimeOutRun(q)
  <2>1. At(q, "reap", "cas") /\ r \in wasSilent
    BY <1>5 DEF TimeOutRun, OrphanKnown
  <2>2. Others(q) /\ ~At(q, "reap", "cas")'
    <3>1. CASE Return(q)
      BY <1>0, <3>1, ReturnFacts DEF TypeOK, At
    <3>2. CASE Goto(q, "tidy")
      BY <1>0, <3>2, GotoFacts DEF TypeOK, At, Steps
    <3> QED
      BY <1>5, <3>1, <3>2 DEF TimeOutRun
  <2>3. \A s \in Runs : s # r => status'[s] = status[s]
    BY <1>5 DEF TimeOutRun, TypeOK, RowsOK
  <2> QED
    BY <1>1, <1>2, <2>1, <2>2, <2>3 DEF OrphanKnown, TimedOutWasOrphaned
<1>6. CASE TidyTasks(q) \/ TidyJob(q)
  <2>1. status' = status
    BY <1>6 DEF TidyTasks, TidyJob, runVars
  <2>2. Others(q) /\ ~At(q, "reap", "cas")'
    <3>1. CASE Return(q)
      BY <1>0, <3>1, ReturnFacts DEF TypeOK, At
    <3>2. CASE \E step \in {"tidyTasks", "tidyJob"} : Goto(q, step)
      BY <1>0, <3>2, GotoFacts DEF TypeOK, At, Steps
    <3> QED
      BY <1>6, <3>1, <3>2 DEF TidyTasks, TidyJob, AfterTidy
  <2> QED
    BY <1>1, <1>2, <2>1, <2>2, OrphanFrame
<1> QED
  BY <1>3, <1>4, <1>5, <1>6 DEF ReaperStep

LEMMA CallOrphan ==
  ASSUME TypeOK, OrphanKnown, NEW q \in Requests, DashboardCall(q) \/ RunnerCall(q)
  PROVE  OrphanKnown'
<1>0. q \in Invocations
  BY DEF Invocations
<1>1. \E kind, step, r, w, t, to : CallWith(q, kind, step, r, w, t, to)
  BY DEF DashboardCall, RunnerCall, ReceivePush, TriggerPipelineRun, RerunPipelineRun, InsertRun, CallCancel,
       CallRevoke, CallHeartbeat, CallClaim, CallReport, CallTaskReport, Call
<1>2. Others(q)
  BY <1>0, <1>1 DEF CallWith, Others, TypeOK, RequestsOK
<1>3. \A p \in Reapers : At(p, "reap", "cas")' => At(p, "reap", "cas") /\ req'[p].run = req[p].run
  BY <1>2, ReapersWait DEF At
<1>4. UNCHANGED <<claimer, hbAge, wasSilent>>
  BY DEF DashboardCall, RunnerCall, ReceivePush, TriggerPipelineRun, RerunPipelineRun, InsertRun, CallCancel,
       CallRevoke, CallHeartbeat, CallClaim, CallReport, CallTaskReport, runVars, runnerVars, history
<1>5. \A r \in Runs : status'[r] = "timed_out" => status[r] = "timed_out"
  BY DEF DashboardCall, RunnerCall, ReceivePush, TriggerPipelineRun, RerunPipelineRun, InsertRun, CallCancel,
       CallRevoke, CallHeartbeat, CallClaim, CallReport, CallTaskReport, runVars, TypeOK, RowsOK
<1> QED
  BY <1>3, <1>4, <1>5, OrphanFrame

LEMMA EnvironmentOrphan ==
  ASSUME TypeOK, OrphanKnown,
         \/ \E r \in Runs : DispatchSchedule(r) \/ GoIdle(r)
         \/ \E w \in Runners : Age(w)
         \/ MarkStaleOffline
  PROVE  OrphanKnown'
<1>1. ASSUME NEW r \in Runs, DispatchSchedule(r) PROVE OrphanKnown'
  BY <1>1, OrphanFrame DEF DispatchSchedule, At, TypeOK, RowsOK, runnerVars, history
<1>2. ASSUME NEW r \in Runs, GoIdle(r) PROVE OrphanKnown'
  BY <1>2, OrphanFrame DEF GoIdle, At, runnerVars, history
<1>3. ASSUME MarkStaleOffline PROVE OrphanKnown'
  BY <1>3, OrphanFrame DEF MarkStaleOffline, At, runVars, history
<1>4. ASSUME NEW w \in Runners, Age(w) PROVE OrphanKnown'
  <2>1. /\ UNCHANGED <<status, claimer, req>>
        /\ hbAge[w] < 2 /\ hbAge' = [hbAge EXCEPT ![w] = hbAge[w] + 1]
        /\ wasSilent' = IF hbAge[w] = 1
                        THEN wasSilent \cup {r \in Runs : claimer[r] = w} ELSE wasSilent
    BY <1>4 DEF Age, runVars
  <2>2. hbAge[w] \in 0..2 /\ \A v \in Runners : v # w => hbAge'[v] = hbAge[v]
    BY <2>1 DEF TypeOK, RowsOK
  <2>3. hbAge'[w] = 2 => hbAge[w] = 1
    BY <2>1, <2>2 DEF TypeOK, RowsOK
  <2>4. wasSilent \subseteq wasSilent'
    BY <2>1
  <2>5. \A r \in Runs : claimer[r] # None /\ hbAge'[claimer[r]] = 2 => r \in wasSilent'
    BY <2>1, <2>2, <2>3, <2>4 DEF OrphanKnown, TypeOK, RowsOK
  <2> QED
    BY <2>1, <2>4, <2>5 DEF OrphanKnown, TimedOutWasOrphaned, At
<1> QED
  BY <1>1, <1>2, <1>3, <1>4

LEMMA FailureOrphan ==
  ASSUME TypeOK, OrphanKnown, NEW q \in Invocations, CallFails(q)
  PROVE  OrphanKnown'
<1>1. UNCHANGED <<status, claimer, hbAge, wasSilent>>
  BY DEF CallFails, runVars, runnerVars, history
<1>2. Others(q) /\ ~At(q, "reap", "cas")'
  <2>1. CASE Return(q)
    BY <2>1, ReturnFacts DEF TypeOK, At
  <2>2. CASE \E step \in {"tasks", "reply", "release", "tidyTasks", "tidyJob"} : Goto(q, step)
    BY <2>2, GotoFacts DEF TypeOK, At, Steps
  <2> QED
    BY <2>1, <2>2 DEF CallFails, AfterIgnoredError
<1>3. \A p \in Reapers : At(p, "reap", "cas")' => At(p, "reap", "cas") /\ req'[p].run = req[p].run
  BY <1>2 DEF Others, At, Invocations
<1> QED
  BY <1>1, <1>3, OrphanFrame

\* The reads of the reaper are true as long as its read of the runners cannot
\* fail.
LEMMA OrphansAreKnown == Spec => []ReaperKnows
<1>1. Init => ReaperKnows
  BY DEF Init, ReaperKnows, OrphanKnown, TimedOutWasOrphaned, At, NoRequest, Invocations
<1>2. TypeOK /\ Consistent /\ ReaperKnows /\ [Next]_vars => ReaperKnows'
  <2> SUFFICES ASSUME TypeOK, Consistent, OrphanKnown, LookupFaults = FALSE, [Next]_vars
               PROVE  OrphanKnown'
    BY RunLifecycleAssumption DEF ReaperKnows
  <2>1. CASE UNCHANGED vars
    BY <2>1, OrphanFrame DEF vars, runVars, runnerVars, history, At
  <2> QED
    BY <2>1, CallOrphan, HandlerOrphan, ReaperOrphan, FailureOrphan, EnvironmentOrphan DEF Next
<1> QED
  BY <1>1, <1>2, TypeCorrect, Consistency, PTL DEF Spec

\* A run is timed out only if its runner's heartbeats were missing for longer
\* than the grace period since the claim, when the read of the runners cannot
\* fail: an error of that read is ignored, and every candidate looks orphaned.
THEOREM OnlyOrphansTimeOut ==
  ASSUME LookupFaults = FALSE
  PROVE  Spec => []TimedOutWasOrphaned
<1>1. ReaperKnows => TimedOutWasOrphaned
  BY DEF ReaperKnows, OrphanKnown
<1> QED
  BY <1>1, OrphansAreKnown, PTL

\* "Every write is conditional on the state we read" (reap-orphans.ts): however
\* long ago the reaper looked, the only run it changes is a running one whose
\* runner was silent since the claim, unless the read of the runners failed; it
\* changes no finished task, and no job but that of the run it times out.
THEOREM ReaperTakesOnlyOrphans == Spec => OnlyOrphansAreReaped
<1> DEFINE A(q) ==
      /\ \A r \in Runs : status'[r] # status[r]
                          => status[r] = "running" /\ (LookupFaults \/ r \in wasSilent)
      /\ \A r \in Runs, t \in Tasks :
           task[r][t] \in TASK_RUN_TERMINAL_STATES => task'[r][t] = task[r][t]
      /\ \A w \in Runners : job[w] # req[q].run => job'[w] = job[w]
<1>1. ASSUME TypeOK, ReaperKnows, [Next]_vars
      PROVE  [\A q \in Reapers : req'[q] # req[q] => A(q)]_vars
  <2> SUFFICES ASSUME NEW q \in Reapers, req'[q] # req[q] PROVE A(q)
    OBVIOUS
  <2>0. Reapers \cap Requests = {} /\ Reapers \subseteq Invocations /\ Requests \subseteq Invocations
    BY RunLifecycleAssumption DEF Invocations
  <2>1. ASSUME NEW p \in Requests, DashboardCall(p) \/ RunnerCall(p) \/ HandlerStep(p) PROVE FALSE
    <3>1. Others(p)
      BY <1>1, <2>0, <2>1, RequestsMoveAlone
    <3> QED
      BY <1>1, <2>0, <3>1 DEF Others
  <2>2. ASSUME NEW p \in Invocations,
               (\E r \in Runs : ScanRun(p, r)) \/ ReaperStep(p) \/ CallFails(p)
        PROVE  A(q)
    <3>1. Careful(p)
      BY <1>1, <2>2, ReaperIsCareful
    <3>2. p = q
      BY <1>1, <2>0, <2>2, ReapersMoveAlone DEF Others
    <3>3. At(q, "reap", "cas") => LookupFaults \/ req[q].run \in wasSilent
      BY <1>1 DEF ReaperKnows, OrphanKnown
    <3> QED BY <3>1, <3>2, <3>3 DEF Careful
  <2>3. CASE UNCHANGED req
    BY <2>3
  <2> QED
    BY <1>1, <2>0, <2>1, <2>2, <2>3 DEF Next, DispatchSchedule, GoIdle, Age, MarkStaleOffline, vars
<1> QED
  BY <1>1, TypeCorrect, OrphansAreKnown, PTL DEF Spec, OnlyOrphansAreReaped
=============================================================================
