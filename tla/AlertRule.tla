------------------------------ MODULE AlertRule ------------------------------
(***************************************************************************)
(* One alert rule, the evaluations of the cron job (evaluate-alerts.ts)    *)
(* and the dashboard's edits (alerts/actions.ts); rules do not affect each *)
(* other.                                                                  *)
(*                                                                         *)
(* An evaluation has the time its tick began at.  It reads the rule,       *)
(* computes the metric by calls that may take long, and stamps the rule by *)
(* an update that only succeeds if the rule still has the stamp that was   *)
(* read.  Evaluations may overlap and end after any call.                  *)
(***************************************************************************)
EXTENDS Integers, Sequences

CONSTANTS
  Evaluations, \* invocations of the cron job that may be in flight together
  MaxTime,     \* bound on the clock
  Cooldowns,   \* the values of cooldown_minutes
  MaxBells     \* bound on the notifications

\* The validator of alerts wants a minute at least.
ASSUME AlertAssumption ==
  MaxTime \in Nat \ {0} /\ Cooldowns \subseteq Nat \ {0} /\ Cooldowns # {}

VARIABLES
  time,
  rule,        \* alert_rules: exists, active, cooldown, last_triggered_at (0 for null)
  evaluation,  \* the evaluations: their time, and the stamp they read
  flip,        \* a toggle that has read whether the rule is active
  bells        \* history: the times of the notifications, with the cooldown in force

alertVars == <<time, rule, evaluation, flip, bells>>

NoEvaluation == [pc |-> "idle", now |-> 0, last |-> 0, cooldown |-> 0]

AlertTypeOK ==
  /\ time \in 1 .. MaxTime
  /\ rule \in [exists : BOOLEAN, active : BOOLEAN, cooldown : Cooldowns, last : 0 .. MaxTime]
  /\ evaluation \in [Evaluations -> [pc : {"idle", "fetch", "claim", "notify"},
                                     now : 0 .. MaxTime, last : 0 .. MaxTime,
                                     cooldown : Cooldowns \cup {0}]]
  /\ flip \in {"none", "on", "off"}
  /\ bells \in Seq([now : 1 .. MaxTime, last : 0 .. MaxTime, cooldown : Cooldowns])

AlertInit ==
  /\ time = 1
  /\ rule = [exists |-> TRUE, active |-> TRUE, cooldown |-> CHOOSE c \in Cooldowns : TRUE, last |-> 0]
  /\ evaluation = [e \in Evaluations |-> NoEvaluation]
  /\ flip = "none"
  /\ bells = <<>>

Pass ==
  /\ time < MaxTime
  /\ time' = time + 1
  /\ UNCHANGED <<rule, evaluation, flip, bells>>

-----------------------------------------------------------------------------
StartEvaluation(e) ==
  /\ evaluation[e] = NoEvaluation
  /\ evaluation' = [evaluation EXCEPT ![e].pc = "fetch", ![e].now = time]
  /\ UNCHANGED <<time, rule, flip, bells>>

EndEvaluation(e) == evaluation' = [evaluation EXCEPT ![e] = NoEvaluation]

isInCooldown(last, cooldown, now) == last # 0 /\ now - last < cooldown

\* evaluateAlerts: an active rule that is not in its cooldown ...
FetchRule(e) ==
  /\ evaluation[e].pc = "fetch"
  /\ IF rule.exists /\ rule.active /\ ~isInCooldown(rule.last, rule.cooldown, evaluation[e].now)
     THEN evaluation' = [evaluation EXCEPT ![e].pc = "claim", ![e].last = rule.last,
                                           ![e].cooldown = rule.cooldown]
     ELSE EndEvaluation(e)
  /\ UNCHANGED <<time, rule, flip, bells>>

\* Mutant of ClaimRule: last_triggered_at is not compared.
ClaimRule_Unconditional(e) ==
  /\ evaluation[e].pc = "claim" /\ rule.exists
  /\ rule' = [rule EXCEPT !.last = evaluation[e].now]
  /\ evaluation' = [evaluation EXCEPT ![e].pc = "notify"]
  /\ UNCHANGED <<time, flip, bells>>

\* ... and whose condition holds is stamped, unless it was meanwhile, ...
ClaimRule(e) ==
  /\ evaluation[e].pc = "claim"
  /\ IF rule.exists /\ rule.last = evaluation[e].last
     THEN /\ rule' = [rule EXCEPT !.last = evaluation[e].now]
          /\ evaluation' = [evaluation EXCEPT ![e].pc = "notify"]
     ELSE EndEvaluation(e) /\ UNCHANGED rule
  /\ UNCHANGED <<time, flip, bells>>

\* ... and the members of its organisation are told.
Notify(e) ==
  /\ evaluation[e].pc = "notify" /\ Len(bells) < MaxBells
  /\ EndEvaluation(e)
  /\ bells' = Append(bells, [now |-> evaluation[e].now, last |-> evaluation[e].last,
                             cooldown |-> evaluation[e].cooldown])
  /\ UNCHANGED <<time, rule, flip>>

\* The condition does not hold, a call fails, or the process dies.
EndEarly(e) ==
  /\ evaluation[e].pc \in {"claim", "notify"}
  /\ EndEvaluation(e)
  /\ UNCHANGED <<time, rule, flip, bells>>

-----------------------------------------------------------------------------
\* updateAlertRule, as far as the evaluations tell.
UpdateRule(cooldown) ==
  /\ rule.exists /\ cooldown # rule.cooldown
  /\ rule' = [rule EXCEPT !.cooldown = cooldown]
  /\ UNCHANGED <<time, evaluation, flip, bells>>

\* toggleAlertRule reads is_active ...
ReadToggle ==
  /\ flip = "none" /\ rule.exists
  /\ flip' = IF rule.active THEN "off" ELSE "on"
  /\ UNCHANGED <<time, rule, evaluation, bells>>

\* ... and writes its negation.
WriteToggle ==
  /\ flip # "none"
  /\ flip' = "none"
  /\ rule' = IF rule.exists THEN [rule EXCEPT !.active = (flip = "on")] ELSE rule
  /\ UNCHANGED <<time, evaluation, bells>>

DeleteRule ==
  /\ rule.exists
  /\ rule' = [rule EXCEPT !.exists = FALSE]
  /\ UNCHANGED <<time, evaluation, flip, bells>>

Evaluating(e) ==
  StartEvaluation(e) \/ FetchRule(e) \/ ClaimRule(e) \/ Notify(e) \/ EndEarly(e)

Alert ==
  \/ Pass \/ \E e \in Evaluations : Evaluating(e)
  \/ \E cooldown \in Cooldowns : UpdateRule(cooldown)
  \/ ReadToggle \/ WriteToggle \/ DeleteRule

AlertSpec == AlertInit /\ [][Alert]_alertVars

-----------------------------------------------------------------------------
(* Properties. *)

\* "Concurrent ticks can't double-notify" (comment in evaluate-alerts.ts): two
\* notifications of a rule are apart by the cooldown that held when the later
\* was decided on, whatever order they are sent in.
CooldownKept ==
  \A i, j \in DOMAIN bells :
    i # j => \/ bells[i].now - bells[j].now >= bells[i].cooldown
             \/ bells[j].now - bells[i].now >= bells[j].cooldown
=============================================================================
