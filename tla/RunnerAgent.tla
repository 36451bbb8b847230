----------------------------- MODULE RunnerAgent -----------------------------
(***************************************************************************)
(* The process `deployx-runner start` (apps/runner/src/commands/start.ts): *)
(* a timer that polls for a job every five seconds, the flags              *)
(* isShuttingDown and isExecutingJob, the execution of the job and the     *)
(* reports about it, the shutdown on SIGINT and SIGTERM, crashes and       *)
(* restarts.  Several of them share one control plane, whose handlers (see *)
(* RunLifecycle for their steps) are atomic here, and from which a request *)
(* or its answer may get lost.                                             *)
(*                                                                         *)
(* JavaScript runs a callback up to its next await, so one action is what  *)
(* a callback does between two awaits.  A poll that takes longer than the  *)
(* interval overlaps with the next: several callbacks of one agent may be  *)
(* in flight, poll[a][p] is where p stands.                                *)
(***************************************************************************)
EXTENDS RunStates, FiniteSets, Naturals

CONSTANTS
  Agents, \* runner processes
  Polls,  \* poll callbacks of an agent that may be in flight together, numbered
  Runs,   \* pipeline runs, numbered in the order of created_at
  Pins,   \* the runners a run may be pinned to (None: to none), per run
  None,
  Slow,   \* agents whose polls may take longer than RUNNER_POLL_INTERVAL_MS
  Lossy,  \* agents that may lose a request, or the answer to one
  Brisk   \* agents that may be restarted before the reaper saw them silent

ASSUME AgentAssumption ==
  /\ Runs \subseteq Nat /\ None \notin Agents \cup Runs
  /\ Pins \in [Runs -> SUBSET (Agents \cup {None})]
  /\ Slow \subseteq Agents /\ Lossy \subseteq Agents /\ Brisk \subseteq Agents

VARIABLES
  status,         \* pipeline_runs.status, "absent" before the row exists
  claimer,        \* pipeline_runs.runner_id
  target,         \* pipeline_runs.target_runner_id
  mode,           \* where each process stands between its start and its exit
  isExecutingJob, \* the flag of each process
  poll,           \* the poll callbacks
  verdict,        \* history: what the execution of each run came to
  doubled         \* history: <<agent, run>> refused to one callback, granted to another

rows    == <<status, claimer, target>>
history == <<verdict, doubled>>
vars    == <<rows, mode, isExecutingJob, poll, history>>

\* leaving: the signal found no job.  finishing: the job has been waited for.
Modes == {"polling", "waiting", "leaving", "finishing", "down"}
Places == {"idle", "asked", "answered", "claiming", "executing",
           "reporting", "regretting", "failing"}
AtWork == Places \ {"idle", "asked", "answered"}  \* isExecutingJob has been set
NoPoll == [at |-> "idle", run |-> None]

Executes(a, p, r) == poll[a][p].at = "executing" /\ poll[a][p].run = r
Holds(a, r) == claimer[r] = a /\ status[r] = "running"

TypeOK ==
  /\ status \in [Runs -> PipelineStatuses \cup {"absent"}]
  /\ claimer \in [Runs -> Agents \cup {None}]
  /\ target \in [Runs -> Agents \cup {None}]
  /\ mode \in [Agents -> Modes]
  /\ isExecutingJob \in [Agents -> BOOLEAN]
  /\ poll \in [Agents -> [Polls -> [at : Places, run : Runs \cup {None}]]]
  /\ verdict \in [Runs -> {"none", "success", "failed"}]
  /\ doubled \subseteq Agents \X Runs
  /\ \A a \in Agents, p \in Polls :
       poll[a][p].at \in AtWork => poll[a][p].run # None

Init ==
  /\ status = [r \in Runs |-> "absent"]
  /\ claimer = [r \in Runs |-> None]
  /\ target = [r \in Runs |-> None]
  /\ mode = [a \in Agents |-> "polling"]
  /\ isExecutingJob = [a \in Agents |-> FALSE]
  /\ poll = [a \in Agents |-> [p \in Polls |-> NoPoll]]
  /\ verdict = [r \in Runs |-> "none"]
  /\ doubled = {}

-----------------------------------------------------------------------------
(* The control plane. *)

\* A run is created, pinned to a runner or not.
Submit(r) ==
  /\ status[r] = "absent"
  /\ \A s \in Runs : s < r => status[s] # "absent"
  /\ status' = [status EXCEPT ![r] = "queued"]
  /\ \E t \in Pins[r] : target' = [target EXCEPT ![r] = t]
  /\ UNCHANGED <<claimer, mode, isExecutingJob, poll, history>>

CancelRun(r) ==
  /\ status[r] \in {"queued", "running"}
  /\ status' = [status EXCEPT ![r] = "cancelled"]
  /\ UNCHANGED <<claimer, target, mode, isExecutingJob, poll, history>>

\* The reaper ends the runs of a runner that is silent.  It knows the age of
\* the last heartbeat only: the runner may be down, or it may be up and at work
\* with its heartbeats lost (a network hiccup), and is then not told.
Reap(r) ==
  /\ status[r] = "running"
  /\ mode[claimer[r]] = "down" \/ claimer[r] \in Lossy
  /\ status' = [status EXCEPT ![r] = "timed_out"]
  /\ UNCHANGED <<claimer, target, mode, isExecutingJob, poll, history>>

\* The queued runs that agent a may take.
Queued(a) == {r \in Runs : status[r] = "queued" /\ target[r] \in {a, None}}

\* Mutant of Accepted: any runner may report on any run.
Accepted_AnyRunner(a, r, s) == validatePipelineTransition(status[r], s)

\* A report "the run ended with s" reaches the server: only the runner that
\* claimed the run is heard, and only for a valid transition.
Accepted(a, r, s) ==
  /\ claimer[r] = a
  /\ validatePipelineTransition(status[r], s)

\* A report of a about r that is accepted or not, with the answer arriving
\* (ok) or not: a refusal, a lost request and a lost answer all throw.
Report(a, r, s, ok) ==
  \/ /\ Accepted(a, r, s)
     /\ status' = [status EXCEPT ![r] = s]
     /\ ok \/ a \in Lossy
  \/ /\ ~ok
     /\ ~Accepted(a, r, s) \/ a \in Lossy
     /\ UNCHANGED status

-----------------------------------------------------------------------------
(* The poll callbacks. *)

At(a, p, place) == mode[a] # "down" /\ poll[a][p].at = place

To(a, p, place) == poll' = [poll EXCEPT ![a][p].at = place]

\* The callback returns with the flag as it is; the finally block resets it.
Return(a, p) ==
  poll' = [poll EXCEPT ![a][p] = NoPoll] /\ UNCHANGED isExecutingJob
Finally(a, p) ==
  /\ poll' = [poll EXCEPT ![a][p] = NoPoll]
  /\ isExecutingJob' = [isExecutingJob EXCEPT ![a] = FALSE]

\* The timer fires.  An agent that is not slow has its last answer by then.
Tick(a, p) ==
  /\ mode[a] = "polling" /\ ~isExecutingJob[a]
  /\ poll[a][p].at = "idle" /\ \A q \in Polls : q < p => poll[a][q].at # "idle"
  /\ a \in Slow \/ \A q \in Polls : poll[a][q].at \notin {"asked", "answered"}
  /\ To(a, p, "asked")
  /\ UNCHANGED <<rows, mode, isExecutingJob, history>>

\* The server answers with the oldest queued run, if there is one.
Answer(a, p) ==
  /\ At(a, p, "asked")
  /\ \E r \in Queued(a) \cup {None} :
       /\ r = None <=> Queued(a) = {}
       /\ \A s \in Queued(a) : r <= s
       /\ poll' = [poll EXCEPT ![a][p] = [at |-> "answered", run |-> r]]
  /\ UNCHANGED <<rows, mode, isExecutingJob, history>>

LosePoll(a, p) ==
  /\ At(a, p, "asked") /\ a \in Lossy
  /\ Return(a, p)
  /\ UNCHANGED <<rows, mode, history>>

\* The answer is here: nothing to do, or a job to claim.  Nothing tells a
\* callback that another one is at work, on the same run even.
Resume(a, p) ==
  /\ At(a, p, "answered")
  /\ \/ poll[a][p].run = None /\ Return(a, p)
     \/ /\ poll[a][p].run # None
        /\ isExecutingJob' = [isExecutingJob EXCEPT ![a] = TRUE]
        /\ To(a, p, "claiming")
  /\ UNCHANGED <<rows, mode, history>>

\* Two callbacks of an agent went for one run: one was granted it, the other
\* refused.  place is where the other one is when the later of them learns.
Doubles(a, p, place) ==
  doubled' = IF \E q \in Polls : poll[a][q] = [at |-> place, run |-> poll[a][p].run]
             THEN doubled \cup {<<a, poll[a][p].run>>} ELSE doubled

Claimable(a, r) == status[r] = "queued" /\ target[r] \in {a, None}

\* Mutant of Claim: the execution is not awaited; the finally block comes first.
Claim_NotAwaited(a, p) ==
  LET r == poll[a][p].run IN
  /\ At(a, p, "claiming") /\ Claimable(a, r)
  /\ status' = [status EXCEPT ![r] = "running"]
  /\ claimer' = [claimer EXCEPT ![r] = a]
  /\ To(a, p, "executing") /\ Doubles(a, p, "failing")
  /\ isExecutingJob' = [isExecutingJob EXCEPT ![a] = FALSE]
  /\ UNCHANGED <<target, mode, verdict>>

\* The claim: granted to one runner, by one conditional update.
Claim(a, p) ==
  LET r == poll[a][p].run IN
  /\ At(a, p, "claiming") /\ Claimable(a, r)
  /\ status' = [status EXCEPT ![r] = "running"]
  /\ claimer' = [claimer EXCEPT ![r] = a]
  /\ To(a, p, "executing") \/ (a \in Lossy /\ To(a, p, "failing"))
  /\ Doubles(a, p, "failing")
  /\ UNCHANGED <<target, mode, isExecutingJob, verdict>>

ClaimFails(a, p) ==
  /\ At(a, p, "claiming")
  /\ ~Claimable(a, poll[a][p].run) \/ a \in Lossy
  /\ To(a, p, "failing") /\ Doubles(a, p, "executing")
  /\ UNCHANGED <<rows, mode, isExecutingJob, verdict>>

\* executePipeline comes to a verdict and reports it, or throws before.
EndPipeline(a, p) ==
  /\ At(a, p, "executing")
  /\ \E v \in {"success", "failed"} :
       /\ verdict' = [verdict EXCEPT ![poll[a][p].run] = v]
       /\ To(a, p, "reporting") \/ (v = "failed" /\ To(a, p, "regretting"))
  /\ UNCHANGED <<rows, mode, isExecutingJob, doubled>>

\* It was told that the run is cancelled, and leaves its status alone.
EndCancelled(a, p) ==
  /\ At(a, p, "executing") /\ status[poll[a][p].run] = "cancelled"
  /\ Finally(a, p)
  /\ UNCHANGED <<rows, mode, history>>

\* Mutant of ReportVerdict: the outcomes of the tasks are not looked at.
ReportVerdict_Success(a, p) ==
  /\ At(a, p, "reporting")
  /\ \/ Report(a, poll[a][p].run, "success", TRUE) /\ Finally(a, p)
     \/ /\ Report(a, poll[a][p].run, "success", FALSE) /\ To(a, p, "regretting")
        /\ UNCHANGED isExecutingJob
  /\ UNCHANGED <<claimer, target, mode, history>>

ReportVerdict(a, p) ==
  LET r == poll[a][p].run IN
  /\ At(a, p, "reporting")
  /\ \/ Report(a, r, verdict[r], TRUE) /\ Finally(a, p)
     \/ /\ Report(a, r, verdict[r], FALSE) /\ To(a, p, "regretting")
        /\ UNCHANGED isExecutingJob
  /\ UNCHANGED <<claimer, target, mode, history>>

\* The catch block of executePipeline reports "failed", and throws on.
ReportFailed(a, p) ==
  LET r == poll[a][p].run IN
  /\ At(a, p, "regretting")
  /\ \/ \E ok \in BOOLEAN : Report(a, r, "failed", ok)
     \/ status[r] = "cancelled" /\ UNCHANGED status
  /\ To(a, p, "failing")
  /\ UNCHANGED <<claimer, target, mode, isExecutingJob, history>>

\* Mutant of ReportJobFailed: the flag is not reset in a finally block.
ReportJobFailed_KeepsFlag(a, p) ==
  /\ At(a, p, "failing")
  /\ \E ok \in BOOLEAN : Report(a, poll[a][p].run, "failed", ok)
  /\ Return(a, p)
  /\ UNCHANGED <<claimer, target, mode, history>>

\* So does the catch block around the claim and the execution.
ReportJobFailed(a, p) ==
  /\ At(a, p, "failing")
  /\ \E ok \in BOOLEAN : Report(a, poll[a][p].run, "failed", ok)
  /\ Finally(a, p)
  /\ UNCHANGED <<claimer, target, mode, history>>

-----------------------------------------------------------------------------
(* The process. *)

Become(a, m) == mode' = [mode EXCEPT ![a] = m]

\* SIGINT or SIGTERM: the timers are cleared; a job is waited for.
Shutdown(a) ==
  /\ mode[a] = "polling"
  /\ Become(a, IF isExecutingJob[a] THEN "waiting" ELSE "leaving")
  /\ UNCHANGED <<rows, isExecutingJob, poll, history>>

WaitForJob(a) ==
  /\ mode[a] = "waiting" /\ ~isExecutingJob[a]
  /\ Become(a, "finishing")
  /\ UNCHANGED <<rows, isExecutingJob, poll, history>>

\* The process is gone, with every callback of it.
Gone(a) ==
  /\ Become(a, "down")
  /\ poll' = [poll EXCEPT ![a] = [p \in Polls |-> NoPoll]]
  /\ isExecutingJob' = [isExecutingJob EXCEPT ![a] = FALSE]
  /\ UNCHANGED <<rows, history>>

\* After the last heartbeat, and after 30 seconds of waiting for a job.
Exit(a) == mode[a] \in {"leaving", "finishing"} /\ Gone(a)
ExitOnTimeout(a) == mode[a] = "waiting" /\ Gone(a)

Crash(a) == mode[a] # "down" /\ Gone(a)

Restart(a) ==
  /\ mode[a] = "down"
  /\ a \in Brisk \/ \A r \in Runs : ~Holds(a, r)
  /\ Become(a, "polling")
  /\ UNCHANGED <<rows, isExecutingJob, poll, history>>

-----------------------------------------------------------------------------
Requested(a, p) ==
  Answer(a, p) \/ LosePoll(a, p) \/ Resume(a, p) \/ Claim(a, p) \/ ClaimFails(a, p)
Reported(a, p) == ReportVerdict(a, p) \/ ReportFailed(a, p) \/ ReportJobFailed(a, p)
Stopping(a) == WaitForJob(a) \/ Exit(a) \/ ExitOnTimeout(a)

ControlPlane == \E r \in Runs : Submit(r) \/ CancelRun(r) \/ Reap(r)

Callback(a, p) ==
  \/ Tick(a, p) \/ Requested(a, p)
  \/ EndPipeline(a, p) \/ EndCancelled(a, p) \/ Reported(a, p)

Process(a) == Shutdown(a) \/ Stopping(a) \/ Crash(a) \/ Restart(a)

Next ==
  \/ ControlPlane
  \/ \E a \in Agents : Process(a)
  \/ \E a \in Agents, p \in Polls : Callback(a, p)

Spec == Init /\ [][Next]_vars

(***************************************************************************)
(* A request ends (fetch gives up on a server that says nothing) and the   *)
(* timer fires.  That an execution ends is assumed only by the property    *)
(* that says so, and nothing makes a lossy agent's request arrive.         *)
(***************************************************************************)
Fairness ==
  \A a \in Agents :
    /\ WF_vars(\E p \in Polls : Tick(a, p))
    /\ \A p \in Polls : WF_vars(Requested(a, p)) /\ WF_vars(Reported(a, p))

LiveSpec == Spec /\ Fairness

-----------------------------------------------------------------------------
(* Properties. *)

\* A run is not shown as ended while its runner is executing it, not even when
\* other runners, told of the same run, were refused it and reported that.  Two
\* things the code does not prevent are excepted: two overlapping polls of a
\* slow agent may go for the same run, and the refusal of the second is reported
\* as the failure of the run that the first executes; and the reaper may take an
\* agent at work whose heartbeats are lost for dead.
NotFailedWhileExecuting ==
  \A a \in Agents, p \in Polls, r \in Runs :
    Executes(a, p, r) /\ (a \in Slow => <<a, r>> \notin doubled)
      => \/ status[r] \in {"running", "cancelled"}
         \/ a \in Lossy /\ status[r] = "timed_out"

\* What a run is shown to have come to is what its execution came to: a
\* success always, a failure of an agent that loses no call and is not slow.
StatusIsHonest ==
  \A r \in Runs :
    /\ status[r] = "success" => verdict[r] = "success"
    /\ status[r] = "failed" /\ claimer[r] \notin Slow \cup Lossy
         => verdict[r] = "failed"

\* An agent that waited for its job leaves no run behind that nobody executes.
LeavesNothing ==
  \A a \in Agents \ (Slow \cup Lossy \cup Brisk) :
    mode[a] = "finishing" => \A r \in Runs : ~Holds(a, r)

JobsEnd(a) == \A p \in Polls : []<>(poll[a][p].at # "executing")

\* A queued run is taken by an agent that keeps polling and may take it.
QueueIsServed ==
  \A a \in Agents \ Lossy, r \in Runs :
    JobsEnd(a) /\ <>[](mode[a] = "polling") => (r \in Queued(a) ~> status[r] # "queued")
=============================================================================
