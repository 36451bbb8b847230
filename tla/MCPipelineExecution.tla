------------------------ MODULE MCPipelineExecution ------------------------
(* An instance of PipelineExecution for TLC: a chain of three tasks, gated *)
(* at its end, with a fourth, gated, beside its first.                     *)
EXTENDS PipelineExecution, TLC

CONSTANTS build, lint, test, deploy

ChainTasks == {build, lint, test, deploy}
ChainDeps == build :> {} @@ lint :> {} @@ test :> {build} @@ deploy :> {test}
ChainGroups == <<{build, lint}, {test}, {deploy}>>
ChainSteps == build :> 1 @@ lint :> 1 @@ test :> 2 @@ deploy :> 1
=============================================================================
