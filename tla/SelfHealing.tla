------------------------------ MODULE SelfHealing ------------------------------
(***************************************************************************)
(* The runner's health monitor (health-monitor.ts, sliding-window.ts) and  *)
(* the remediation it triggers (remediation-engine.ts): every tick probes  *)
(* what runs, restarts what is unhealthy and, when restarts are exhausted, *)
(* puts the previous image back.  It runs beside the deployers, on the     *)
(* same containers, in the same process.                                   *)
(***************************************************************************)
EXTENDS DockerHost, Sequences

CONSTANTS
  HEALTH_CHECK_WINDOW_SIZE,
  MAX_RESTART_ATTEMPTS

ASSUME MonitorAssumption ==
  HEALTH_CHECK_WINDOW_SIZE \in Nat \ {0} /\ MAX_RESTART_ATTEMPTS \in Nat

VARIABLES
  monitored,  \* the map from deployment ids to what is known of each
  step,       \* what the tick does next; "idle" between ticks
  todo,       \* deployments this tick has still to check
  cur,        \* the one it is checking
  told        \* deployments reported to the control plane as rolled_back

monitor == <<monitored, step, todo, cur, told>>

MonitorInit == monitored = <<>> /\ step = "idle" /\ todo = {} /\ cur = None /\ told = {}

------------------------------- \* sliding-window.ts

pushEntry(window, passed) ==
  LET updated == Append(window, passed)
  IN IF Len(updated) > HEALTH_CHECK_WINDOW_SIZE THEN Tail(updated) ELSE updated

Passes(window) == Cardinality({i \in DOMAIN window : window[i]})

\* Healthy from 80% of passes, degraded from 50%; no entry is healthy.
computeHealth(window) ==
  CASE 10 * Passes(window) >= 8 * Len(window) -> "healthy"
    [] 10 * Passes(window) < 8 * Len(window) /\ 2 * Passes(window) >= Len(window) -> "degraded"
    [] OTHER -> "unhealthy"

------------------------------- \* health-monitor.ts

\* Containers that are up, by the deployment their label names.
Of(id) == {n \in Running : box[n].deployment = id}

Discovered == {box[n].deployment : n \in Running} \ {None}

StrategyOf(n) == IF n \in {blue, green} THEN "blue_green" ELSE "other"

\* The map has one entry for a deployment, the container listed last.  What a
\* deployment that is still there has accumulated is kept.
reconcile(chosen) ==
  [id \in Discovered |->
     LET n == chosen[id]
         kept == IF id \in DOMAIN monitored
                   THEN monitored[id]
                   ELSE [window |-> <<>>, restarts |-> 0, waits |-> 0, strategy |-> StrategyOf(n)]
     IN [window |-> kept.window, restarts |-> kept.restarts, waits |-> kept.waits,
         strategy |-> kept.strategy, container |-> n,
         image |-> box[n].image, previous |-> box[n].previous]]

Tick ==
  /\ step = "idle"
  /\ \E chosen \in [Discovered -> Running] :
       /\ \A id \in Discovered : chosen[id] \in Of(id)
       /\ monitored' = reconcile(chosen)
  /\ todo' = Discovered
  /\ step' = IF Discovered = {} THEN "idle" ELSE "check"
  /\ UNCHANGED <<cur, told, host>>

ref == monitored[cur]

NextCheck(left) == IF left = {} THEN "idle" ELSE "check"

\* checkOne: probe, push, compute, and decide what remediate does.  The
\* backoff of 5, 10 and 20 seconds has elapsed after two ticks of 15.
CheckOne(id, passed, elapsed) ==
  LET m == monitored[id]
      window == pushEntry(m.window, passed)
      health == computeHealth(window)
      act == health = "unhealthy" /\ elapsed
      next == CASE ~act -> NextCheck(todo \ {id})
                [] act /\ m.restarts < MAX_RESTART_ATTEMPTS -> "restart"
                [] act /\ m.restarts >= MAX_RESTART_ATTEMPTS /\ m.previous = None
                     -> NextCheck(todo \ {id})
                [] OTHER -> IF m.strategy = "blue_green" THEN "rb_clear" ELSE "ip_remove"
  IN /\ monitored' = [monitored EXCEPT
          ![id].window = window,
          ![id].restarts = IF health = "healthy" THEN 0 ELSE @,
          ![id].waits = IF elapsed THEN @ ELSE @ + 1]
     /\ step' = next

Check ==
  /\ step = "check"
  /\ \E id \in todo, passed \in BOOLEAN, elapsed \in BOOLEAN :
       /\ ~elapsed => monitored[id].restarts > 0 /\ monitored[id].waits < 2
       /\ checkHealthViaDocker(monitored[id].container, passed)
       /\ CheckOne(id, passed, elapsed)
       /\ cur' = id
       /\ todo' = todo \ {id}
  /\ UNCHANGED told

------------------------------- \* remediation-engine.ts

Remediated == step' = NextCheck(todo) /\ UNCHANGED <<todo, cur>>

\* A failed call is caught, reported as an event, and the tick goes on.
GiveUp(s) == step = s /\ Remediated /\ UNCHANGED <<monitored, told>>

\* Mutant of Restart: restarts are not counted.
Restart_NotCounted ==
  /\ step = "restart"
  /\ monitored' = [monitored EXCEPT ![cur].waits = 0]
  /\ \/ restartContainer(ref.container)
     \/ box[ref.container].state = "absent" /\ UNCHANGED host
  /\ Remediated
  /\ UNCHANGED told

\* attemptRestart counts, whether docker restart succeeded or not.
Restart ==
  /\ step = "restart"
  /\ monitored' = [monitored EXCEPT ![cur].restarts = @ + 1, ![cur].waits = 0]
  /\ \/ restartContainer(ref.container)
     \/ box[ref.container].state = "absent" /\ UNCHANGED host
  /\ Remediated
  /\ UNCHANGED told

Moves(s, t) == step = s /\ step' = t /\ UNCHANGED <<monitored, todo, cur, told>>

Opposite == IF ref.container = blue THEN green ELSE blue

\* attemptRollback: the blue/green swap.
ClearRollbackSlot == Moves("rb_clear", "rb_run") /\ removeContainerIfExists(Opposite)

RunRollback ==
  \/ Moves("rb_run", "rb_check") /\ runContainer(Opposite, ref.previous, None, cur)
  \/ GiveUp("rb_run") /\ box[Opposite].state # "absent" /\ UNCHANGED host

\* Mutants of CheckRollback: the broken container goes before the switch; an
\* unhealthy rollback is switched to.
CheckRollback_DropsFirst ==
  \E passed \in BOOLEAN :
    /\ Moves("rb_check", IF passed THEN "rb_drop" ELSE "rb_undo")
    /\ checkHealthViaDocker(Opposite, passed)

CheckRollback_Ignored ==
  \E passed \in BOOLEAN :
    Moves("rb_check", "rb_switch") /\ checkHealthViaDocker(Opposite, passed)

CheckRollback ==
  \E passed \in BOOLEAN :
    /\ Moves("rb_check", IF passed THEN "rb_switch" ELSE "rb_undo")
    /\ checkHealthViaDocker(Opposite, passed)

UndoRollback == GiveUp("rb_undo") /\ removeContainerIfExists(Opposite)

SwitchToRollback ==
  \/ Moves("rb_switch", "rb_drop") /\ proxy /\ writeAndReloadNginx({Opposite})
  \/ GiveUp("rb_switch") /\ proxy /\ ReloadRefused({Opposite})
  \/ GiveUp("rb_switch") /\ ~proxy /\ UNCHANGED host

DropBroken ==
  /\ step = "rb_drop"
  /\ removeContainerIfExists(ref.container)
  /\ told' = told \cup {cur}
  /\ Remediated
  /\ UNCHANGED monitored

\* attemptInPlaceRollback: the same name, the previous image.
RemoveInPlace == Moves("ip_remove", "ip_run") /\ removeContainerIfExists(ref.container)

RunInPlace ==
  \/ Moves("ip_run", "ip_check") /\ runContainer(ref.container, ref.previous, None, cur)
  \/ GiveUp("ip_run") /\ box[ref.container].state # "absent" /\ UNCHANGED host

CheckInPlace ==
  \/ Moves("ip_check", "ip_reload") /\ checkHealthViaDocker(ref.container, TRUE)
  \/ GiveUp("ip_check") /\ checkHealthViaDocker(ref.container, FALSE)

\* reloadNginx with the configuration that is on disk.
ReloadInPlace ==
  \/ /\ step = "ip_reload" /\ proxy
     /\ writeAndReloadNginx(conf)
     /\ told' = told \cup {cur}
     /\ Remediated
     /\ UNCHANGED monitored
  \/ GiveUp("ip_reload") /\ ~ (proxy /\ conf \subseteq Running) /\ UNCHANGED host

MonitorStep ==
  \/ Tick \/ Check \/ Restart
  \/ ClearRollbackSlot \/ RunRollback \/ CheckRollback \/ UndoRollback
  \/ SwitchToRollback \/ DropBroken
  \/ RemoveInPlace \/ RunInPlace \/ CheckInPlace \/ ReloadInPlace
================================================================================
