----------------------------- MODULE RunStates -----------------------------
(***************************************************************************)
(* The transition tables of packages/shared/src/constants.ts and the       *)
(* predicates of packages/pipeline-engine/src/state-machine.ts that every  *)
(* handler of the control plane validates a status change with.  A table   *)
(* is a function from a status to the set of statuses it may change to.    *)
(***************************************************************************)

PipelineStatuses ==
  {"created", "queued", "running", "success", "failed", "cancelled", "timed_out"}

TaskStatuses ==
  {"pending", "running", "awaiting_approval", "success", "failed", "cancelled", "skipped"}

StepStatuses ==
  {"pending", "running", "success", "failed", "cancelled", "skipped"}

DeploymentStatuses ==
  {"pending", "deploying", "active", "draining", "stopped", "rolled_back", "failed"}

VALID_PIPELINE_RUN_TRANSITIONS ==
  [s \in PipelineStatuses |->
     CASE s = "created" -> {"queued"}
       [] s = "queued"  -> {"running", "cancelled"}
       [] s = "running" -> {"success", "failed", "cancelled", "timed_out"}
       [] OTHER         -> {}]

VALID_TASK_RUN_TRANSITIONS ==
  [s \in TaskStatuses |->
     CASE s = "pending"           -> {"running", "awaiting_approval", "cancelled", "skipped"}
       [] s = "running"           -> {"success", "failed", "cancelled"}
       [] s = "awaiting_approval" -> {"running", "failed", "cancelled"}
       [] OTHER                   -> {}]

VALID_STEP_RUN_TRANSITIONS ==
  [s \in StepStatuses |->
     CASE s = "pending" -> {"running", "cancelled", "skipped"}
       [] s = "running" -> {"success", "failed", "cancelled"}
       [] OTHER         -> {}]

VALID_DEPLOYMENT_TRANSITIONS ==
  [s \in DeploymentStatuses |->
     CASE s = "pending"   -> {"deploying", "failed"}
       [] s = "deploying" -> {"active", "failed"}
       [] s = "active"    -> {"draining", "stopped", "rolled_back"}
       [] s = "draining"  -> {"active", "stopped", "rolled_back"}
       [] OTHER           -> {}]

PIPELINE_RUN_TERMINAL_STATES == {"success", "failed", "cancelled", "timed_out"}
TASK_RUN_TERMINAL_STATES     == {"success", "failed", "cancelled", "skipped"}
STEP_RUN_TERMINAL_STATES     == {"success", "failed", "cancelled", "skipped"}
DEPLOYMENT_TERMINAL_STATES   == {"stopped", "rolled_back", "failed"}

validatePipelineTransition(from, to)   == to \in VALID_PIPELINE_RUN_TRANSITIONS[from]
validateTaskTransition(from, to)       == to \in VALID_TASK_RUN_TRANSITIONS[from]
validateStepTransition(from, to)       == to \in VALID_STEP_RUN_TRANSITIONS[from]
validateDeploymentTransition(from, to) == to \in VALID_DEPLOYMENT_TRANSITIONS[from]

isPipelineTerminal(s) == s \in PIPELINE_RUN_TERMINAL_STATES
=============================================================================
