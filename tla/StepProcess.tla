----------------------------- MODULE StepProcess -----------------------------
(***************************************************************************)
(* One step of a task on the runner's host (executor/step-executor.ts and  *)
(* step-termination.ts): the shell it runs in, what the shell starts, the  *)
(* container of a step that names an image, and the timers and signals     *)
(* that end a step which is cancelled or takes too long.                   *)
(*                                                                         *)
(* The processes form one group.  A process may ignore SIGTERM, and may    *)
(* have given up the pipes to the runner; none leaves the group.  Signals  *)
(* are delivered at once.  execa, Docker and the processes are external.   *)
(***************************************************************************)
EXTENDS Integers, FiniteSets

CONSTANT Kids \* what the shell starts

VARIABLES
  step,     \* "idle", "running", "success", "failed" or "cancelled"
  limited,  \* has the step a timeout_seconds?
  alive,    \* the processes of the group
  ignores,  \* the processes that ignore SIGTERM
  quiet,    \* those that do not hold the pipes
  exit,     \* how the shell ended: "none" (it has not), "zero", "nonzero", "signal"
  box,      \* the container: "none" (no image), "absent", "asked", "running", "gone"
  removing, \* is a docker rm -f on its way?
  aborted,  \* the AbortSignal of the run
  isCanceled, \* execa: the signal came before the shell ended
  timedOut, \* execa: its timeout came before the shell ended
  fired,    \* the runner's own timeout
  forceKill,\* execa's timer that kills the shell
  kills     \* the terminator's timers that kill the group

execaVars == <<isCanceled, timedOut, forceKill>>
boxVars == <<box, removing>>
stepVars == <<step, limited, alive, ignores, quiet, exit, boxVars, aborted, execaVars, fired,
              kills>>

Procs == {"sh"} \cup Kids

StepTypeOK ==
  /\ step \in {"idle", "running", "success", "failed", "cancelled"}
  /\ limited \in BOOLEAN
  /\ alive \subseteq Procs /\ ignores \subseteq Procs /\ quiet \subseteq Kids
  /\ exit \in {"none", "zero", "nonzero", "signal"}
  /\ box \in {"none", "absent", "asked", "running", "gone"} /\ removing \in BOOLEAN
  /\ {aborted, isCanceled, timedOut, fired, forceKill} \subseteq BOOLEAN
  /\ kills \in 0 .. 2

StepInit ==
  /\ step = "idle" /\ limited \in BOOLEAN
  /\ alive = {} /\ ignores \in SUBSET Procs /\ quiet \in SUBSET Kids
  /\ exit = "none"
  /\ box \in {"none", "absent"} /\ removing = FALSE
  /\ aborted = FALSE /\ isCanceled = FALSE /\ timedOut = FALSE /\ fired = FALSE
  /\ forceKill = FALSE /\ kills = 0

\* The processes outside of `survivors` end.
Kill(survivors) ==
  /\ alive' = alive \cap survivors
  /\ exit' = IF "sh" \in alive \ survivors THEN "signal" ELSE exit

-----------------------------------------------------------------------------
(* executeStep and runShellCommand. *)

\* An image name may be refused; a run that is cancelled starts no step.
ExecuteStep ==
  /\ step = "idle"
  /\ \/ /\ ~aborted
        /\ step' = "running" /\ alive' = {"sh"}
     \/ /\ IF aborted THEN step' = "cancelled" ELSE box # "none" /\ step' = "failed"
        /\ UNCHANGED alive
  /\ UNCHANGED <<limited, ignores, quiet, exit, boxVars, aborted, execaVars, fired, kills>>

\* Mutant of Terminate: SIGTERM is all that is sent.
Terminate_TermOnly == kills' = kills /\ removing' = (box # "none")

\* terminate: SIGTERM to the group, with a timer for SIGKILL, and docker rm -f.
Terminate == kills' = kills + 1 /\ removing' = (box # "none")

\* onAbort: the watcher saw that the run is cancelled.  execa signals the
\* shell and arms its own timer.
Abort ==
  /\ ~aborted
  /\ aborted' = TRUE
  /\ IF step = "running"
     THEN /\ Terminate /\ Kill(ignores)
          /\ isCanceled' = ("sh" \in alive \/ isCanceled)
          /\ forceKill' = ("sh" \in alive)
     ELSE UNCHANGED <<kills, removing, alive, exit, isCanceled, forceKill>>
  /\ UNCHANGED <<step, limited, ignores, quiet, box, timedOut, fired>>

\* armTimeout.
Timeout ==
  /\ step = "running" /\ limited /\ ~fired
  /\ fired' = TRUE
  /\ Terminate /\ Kill(ignores)
  /\ UNCHANGED <<step, limited, ignores, quiet, box, aborted, execaVars>>

\* execa's own timeout only signals the shell.
ExecaTimeout ==
  /\ step = "running" /\ limited /\ ~timedOut /\ "sh" \in alive
  /\ timedOut' = TRUE /\ forceKill' = TRUE
  /\ Kill(ignores \cup Kids)
  /\ UNCHANGED <<step, limited, ignores, quiet, boxVars, aborted, isCanceled, fired, kills>>

ForceKill ==
  /\ forceKill /\ forceKill' = FALSE
  /\ Kill(Kids)
  /\ UNCHANGED <<step, limited, ignores, quiet, boxVars, aborted, isCanceled, timedOut, fired, kills>>

\* signalGroup of SIGKILL, when STEP_CANCEL_GRACE_MS are over.
KillGroup ==
  /\ kills > 0 /\ kills' = kills - 1
  /\ Kill({})
  /\ UNCHANGED <<step, limited, ignores, quiet, boxVars, aborted, execaVars, fired>>

RemoveBox ==
  /\ removing /\ removing' = FALSE
  /\ box' \in IF box = "running" THEN {"gone", "running"} ELSE {box}
  /\ UNCHANGED <<step, limited, alive, ignores, quiet, exit, aborted, execaVars, fired, kills>>

\* dispose clears the timer that was set last: of two, the other goes off
\* later, whatever group has the number then.
Dispose == kills' = IF kills > 0 THEN kills - 1 ELSE 0

\* StepResult, and what executeStepWithReporting makes of it.
Outcome ==
  IF isCanceled \/ (aborted /\ exit # "zero") THEN "cancelled"
  ELSE IF timedOut \/ fired \/ exit # "zero" THEN "failed" ELSE "success"

\* The shell has ended and both pipes are closed.
Settle ==
  /\ step = "running" /\ "sh" \notin alive /\ alive \subseteq quiet
  /\ step' = Outcome
  /\ Dispose /\ forceKill' = FALSE
  /\ UNCHANGED <<limited, alive, ignores, quiet, exit, boxVars, aborted, isCanceled, timedOut, fired>>

\* The exit hook of trackProcessGroup kills the groups of the steps in
\* progress; the runner reports nothing more.
RunnerExits ==
  /\ step = "running"
  /\ step' = "failed" /\ kills' = 0 /\ removing' = FALSE /\ forceKill' = FALSE
  /\ Kill({})
  /\ UNCHANGED <<limited, ignores, quiet, box, aborted, isCanceled, timedOut, fired>>

-----------------------------------------------------------------------------
(* The processes and Docker. *)

Fork(kid) ==
  /\ "sh" \in alive /\ box = "none"
  /\ alive' = alive \cup {kid}
  /\ UNCHANGED <<step, limited, ignores, quiet, exit, boxVars, aborted, execaVars, fired, kills>>

\* docker run: the daemon may be asked for a container and start it later.
BoxChanges(from, to) ==
  /\ box = from /\ box' = to
  /\ <<from, to>> \in {<<"absent", "asked">>, <<"asked", "running">>, <<"running", "gone">>}
  /\ from = "absent" => "sh" \in alive
  /\ UNCHANGED <<step, limited, alive, ignores, quiet, exit, removing, aborted, execaVars, fired, kills>>

Exits(proc, code) ==
  /\ proc \in alive
  /\ proc = "sh" => box \in {"none", "gone"} \/ code = "nonzero"
  /\ alive' = alive \ {proc}
  /\ exit' = IF proc = "sh" THEN code ELSE exit
  /\ UNCHANGED <<step, limited, ignores, quiet, boxVars, aborted, execaVars, fired, kills>>

Step ==
  \/ ExecuteStep \/ Abort \/ Timeout \/ ExecaTimeout \/ ForceKill \/ KillGroup \/ RemoveBox
  \/ Settle \/ RunnerExits
  \/ \E kid \in Kids : Fork(kid)
  \/ \E from, to \in {"absent", "asked", "running", "gone"} : BoxChanges(from, to)
  \/ \E proc \in Procs, code \in {"zero", "nonzero"} : Exits(proc, code)

\* Timers go off, and the runner notices that a step is over.
StepFairness ==
  WF_stepVars(Timeout) /\ WF_stepVars(KillGroup) /\ WF_stepVars(ForceKill) /\ WF_stepVars(Settle)

StepSpec == StepInit /\ [][Step]_stepVars /\ StepFairness

-----------------------------------------------------------------------------
(* Properties. *)

\* "Also kill the process group ... so a timed-out step can't keep running"
\* (step-executor.ts): a step that is cancelled, or has a timeout, ends,
\* whatever its processes ignore.
StepEnds == step = "running" /\ (limited \/ aborted) ~> step # "running"
=============================================================================
