--------------------------- MODULE BlueGreenDeployer ---------------------------
(***************************************************************************)
(* apps/runner/src/deployers/docker-local-deployer.ts: start the other     *)
(* colour, check it, switch the proxy, drain and remove the old colour.    *)
(***************************************************************************)
EXTENDS Deployer

getCurrentColor ==
  CASE isContainerRunning(blue) -> blue
    [] ~isContainerRunning(blue) /\ isContainerRunning(green) -> green
    [] OTHER -> None

\* Mutant of getOppositeColor: always green, which may be the current one.
getOppositeColor_Green(current) == green

getOppositeColor(current) == IF current = blue THEN green ELSE blue

ChooseColors ==
  /\ GoTo("bg_choose", "bg_clear")
  /\ job' = [job EXCEPT !.old = getCurrentColor, !.new = getOppositeColor(getCurrentColor)]
  /\ UNCHANGED host

\* removeContainerIfExists(newContainerName), then the old one is inspected
\* (an outgoing container that is gone by then has no image).
ClearNewColor ==
  /\ GoTo("bg_clear", "bg_run")
  /\ removeContainerIfExists(job.new)
  /\ job' = [job EXCEPT !.previous = IF job.old = None \/ box[job.old].image = None
                                       THEN None
                                       ELSE resolvePreviousImage(box[job.old], job.image)]

RunNewColor == RunThen("bg_run", job.new, job.image, job.previous, "bg_check")

CheckNewColor == CheckThen("bg_check", job.new, "bg_switch", "bg_abandon")

AbandonNewColor == Return("bg_abandon", "failure") /\ removeContainerIfExists(job.new)

SwitchProxy == RouteThen("bg_switch", {job.new}, "bg_drain")

DrainOldColor ==
  /\ Return("bg_drain", "success")
  /\ IF job.old # None /\ isContainerRunning(job.old)
       THEN removeContainerIfExists(job.old)
       ELSE UNCHANGED host

BlueGreenStep ==
  \/ ChooseColors \/ ClearNewColor \/ RunNewColor \/ CheckNewColor
  \/ AbandonNewColor \/ SwitchProxy \/ DrainOldColor

\* The container a call of this driver creates or removes, and the upstreams
\* it loads, by the call.
BlueGreenTouches(p, n) ==
  \/ p \in {"bg_clear", "bg_run", "bg_abandon"} /\ n = job.new
  \/ p = "bg_drain" /\ n = job.old

BlueGreenLoads(p, names) == p = "bg_switch" /\ names = {job.new}
================================================================================
