-------------------------- MODULE RunnerAgentProofs --------------------------
(***************************************************************************)
(* Proofs about RunnerAgent for any number of agents, overlapping polls    *)
(* and runs, whichever agents are slow, lossy or restarted at once.        *)
(***************************************************************************)
EXTENDS RunnerAgent, TLAPS

\* A callback that is at work on a run: it has set isExecutingJob.
Working == {"claiming", "executing", "reporting", "regretting", "failing"}

\* A callback that was granted its run, and has not been heard to the end.
Granted == {"executing", "reporting", "regretting"}

Idle(a, p) == poll[a][p].at = "idle"
Works(a, p) == poll[a][p].at \in Working
Owns(a, p, r) == poll[a][p].at \in Granted /\ poll[a][p].run = r

-----------------------------------------------------------------------------
(* The inductive invariant.                                                *)

PollTyped == poll \in [Agents -> [Polls -> [at : Places, run : Runs \cup {None}]]]

\* The types, and that a callback at work has a run.
Typed ==
  /\ status \in [Runs -> PipelineStatuses \cup {"absent"}]
  /\ claimer \in [Runs -> Agents \cup {None}]
  /\ target \in [Runs -> Agents \cup {None}]
  /\ mode \in [Agents -> Modes]
  /\ isExecutingJob \in [Agents -> BOOLEAN]
  /\ PollTyped
  /\ verdict \in [Runs -> {"none", "success", "failed"}]
  /\ \A a \in Agents, p \in Polls : Works(a, p) => poll[a][p].run # None

\* A run has a runner when its status says that it was claimed.
ClaimedByStatus ==
  \A r \in Runs :
    /\ status[r] # "created"
    /\ status[r] \in {"absent", "queued"} => claimer[r] = None
    /\ status[r] \in {"running", "success", "failed", "timed_out"} => claimer[r] # None

\* A granted run is the agent's, and one callback's.
GrantsAreExclusive ==
  /\ \A a \in Agents, p \in Polls, r \in Runs : Owns(a, p, r) => claimer[r] = a
  /\ \A a \in Agents, p, q \in Polls, r \in Runs : Owns(a, p, r) /\ Owns(a, q, r) => p = q

\* A success has been come to; what is executed has not.
VerdictFirst ==
  /\ \A r \in Runs : status[r] = "success" => verdict[r] = "success"
  /\ \A a \in Agents, p \in Polls, r \in Runs :
       /\ Executes(a, p, r) => status[r] # "success"
       /\ Owns(a, p, r) /\ ~Executes(a, p, r) => verdict[r] # "none"

\* Nothing of a process that is down is left.
DownIsEmpty ==
  \A a \in Agents : mode[a] = "down" => ~isExecutingJob[a] /\ \A p \in Polls : Idle(a, p)

\* An agent whose polls are answered before the timer fires again has one
\* callback at a time, and its flag tells whether that is at work.
OneCallback ==
  \A a \in Agents \ Slow :
    /\ \A p, q \in Polls : Idle(a, p) \/ Idle(a, q) \/ p = q
    /\ isExecutingJob[a] <=> \E p \in Polls : Works(a, p)
    /\ mode[a] = "waiting" => \A p \in Polls : Idle(a, p) \/ Works(a, p)
    /\ mode[a] = "finishing" => \A p \in Polls : Idle(a, p)

\* What the run that agent a executes may be shown as.
Shown(a, r) == status[r] \in {"running", "cancelled"} \/ (a \in Lossy /\ status[r] = "timed_out")

\* What its callback knows of the run it is about: a run it asks for is not
\* its own yet; one it executes is shown running or cancelled (or timed out, if
\* its heartbeats may be lost); if none of its calls is lost, a run of its own
\* that it regrets has failed or has ended.
CallbackKnows ==
  \A a \in Agents \ Slow, p \in Polls, r \in Runs :
    poll[a][p].run = r =>
      /\ poll[a][p].at \in {"answered", "claiming"} => claimer[r] # a
      /\ poll[a][p].at = "executing" => Shown(a, r)
      /\ poll[a][p].at \in {"regretting", "failing"} /\ a \notin Lossy
           => claimer[r] # a \/ verdict[r] = "failed" \/ isPipelineTerminal(status[r])

\* A failure of an agent that is neither slow nor lossy has been come to.
FailureFirst ==
  \A r \in Runs : status[r] = "failed" /\ claimer[r] \notin Slow \cup Lossy
                    => verdict[r] = "failed"

\* A run that an agent which is never restarted at once, either, holds while
\* it is up is in its hands.
InHand(a, r) == \E p \in Polls : poll[a][p].run = r /\ Works(a, p) /\ poll[a][p].at # "claiming"

HeldIsInHand ==
  \A a \in Agents \ (Slow \cup Lossy \cup Brisk), r \in Runs :
    mode[a] # "down" /\ Holds(a, r) => InHand(a, r)

IInv ==
  /\ Typed
  /\ ClaimedByStatus /\ GrantsAreExclusive /\ VerdictFirst /\ DownIsEmpty
  /\ OneCallback /\ CallbackKnows /\ FailureFirst /\ HeldIsInHand

-----------------------------------------------------------------------------
(* How the callbacks and the flags change.                                 *)

\* The callback p of a goes to a place, about run r; all others stay.
Moves(a, p, place, r) ==
  /\ poll'[a][p] = [at |-> place, run |-> r]
  /\ \A b \in Agents, q \in Polls : b # a \/ q # p => poll'[b][q] = poll[b][q]

\* The flag of a becomes v; all others stay.
Flags(a, v) == \A b \in Agents : isExecutingJob'[b] <=> IF b = a THEN v ELSE isExecutingJob[b]

LEMMA PollMoves ==
  ASSUME PollTyped, NEW a \in Agents, NEW p \in Polls,
         NEW place \in Places, NEW r \in Runs \cup {None},
         poll' = [poll EXCEPT ![a][p] = [at |-> place, run |-> r]]
  PROVE  PollTyped' /\ Moves(a, p, place, r)
  BY DEF PollTyped, Moves

LEMMA ToMoves ==
  ASSUME PollTyped, NEW a \in Agents, NEW p \in Polls, NEW place \in Places, To(a, p, place)
  PROVE  PollTyped' /\ Moves(a, p, place, poll[a][p].run)
<1>1. [poll[a][p] EXCEPT !.at = place] = [at |-> place, run |-> poll[a][p].run]
  <2>1. poll[a][p] \in [at : Places, run : Runs \cup {None}]
    BY DEF PollTyped
  <2> QED  BY <2>1
<1>3. poll' = [poll EXCEPT ![a][p] = [poll[a][p] EXCEPT !.at = place]]
  BY DEF To
<1>2. poll[a][p].run \in Runs \cup {None}
  BY DEF PollTyped
<1> QED  BY <1>1, <1>2, <1>3, PollMoves

LEMMA NoPollMoves ==
  ASSUME PollTyped, NEW a \in Agents, NEW p \in Polls, poll' = [poll EXCEPT ![a][p] = NoPoll]
  PROVE  PollTyped' /\ Moves(a, p, "idle", None)
  BY PollMoves DEF NoPoll, Places

LEMMA FlagsMove ==
  ASSUME isExecutingJob \in [Agents -> BOOLEAN], NEW a \in Agents, NEW v \in BOOLEAN,
         isExecutingJob' = [isExecutingJob EXCEPT ![a] = v]
  PROVE  isExecutingJob' \in [Agents -> BOOLEAN] /\ Flags(a, v)
<1>1. isExecutingJob' \in [Agents -> BOOLEAN]
  OBVIOUS
<1>2. ASSUME NEW b \in Agents
      PROVE isExecutingJob'[b] <=> IF b = a THEN v ELSE isExecutingJob[b]
  <2>1. isExecutingJob'[b] = IF b = a THEN v ELSE isExecutingJob[b]
    BY Zenon
  <2> QED  BY <2>1
<1> QED  BY <1>1, <1>2 DEF Flags

LEMMA TypedImpliesTypeOK == Typed /\ doubled \subseteq Agents \X Runs => TypeOK
<1>1. ASSUME PollTyped, NEW a \in Agents, NEW p \in Polls
      PROVE poll[a][p].at \in AtWork => Works(a, p)
  BY <1>1 DEF PollTyped, Works, Working, Places, AtWork
<1> QED  BY <1>1 DEF TypeOK, Typed, PollTyped

-----------------------------------------------------------------------------
(* The callbacks keep the invariant.                                       *)

LEMMA TickKeeps == ASSUME IInv, NEW a \in Agents, NEW p \in Polls, Tick(a, p) PROVE IInv'
<1> USE DEF IInv
<1>1. PollTyped /\ isExecutingJob \in [Agents -> BOOLEAN]
      /\ \A b \in Agents, q \in Polls : Works(b, q) => poll[b][q].run # None
  BY DEF Typed
<1>2. PollTyped' /\ Moves(a, p, "asked", poll[a][p].run)
  BY <1>1, ToMoves DEF Tick, Places
<1>3. UNCHANGED <<status, claimer, target, mode, isExecutingJob, verdict>> /\ Idle(a, p)
  BY DEF Tick, rows, history, Idle
<1>4. \A b \in Agents, q \in Polls :
        IF b = a /\ q = p THEN ~Works(b, q) /\ ~Works(b, q)' /\ Idle(b, q) /\ ~Idle(b, q)'
        ELSE poll'[b][q] = poll[b][q]
  BY <1>2, <1>3 DEF Moves, Idle, Works, Working
<1>5. Typed'
  <2>1. \A b \in Agents, q \in Polls : Works(b, q)' => poll'[b][q].run # None
    BY <1>1, <1>4 DEF Works
  <2> QED  BY <1>2, <1>3, <2>1 DEF Typed
<1>6. ClaimedByStatus' /\ FailureFirst'
  BY <1>3 DEF ClaimedByStatus, FailureFirst
<1>7. GrantsAreExclusive' /\ VerdictFirst'
  BY <1>2, <1>3 DEF GrantsAreExclusive, VerdictFirst, Moves, Owns, Executes, Granted
<1>8. DownIsEmpty'
  BY <1>2, <1>3 DEF DownIsEmpty, Tick, Moves, Idle
<1>9. OneCallback'
  <2>1. ASSUME NEW b \in Agents \ Slow PROVE \A q \in Polls : q = p \/ b # a \/ Idle(b, q)
    BY <1>1, <2>1 DEF Tick, PollTyped, Places, Idle, Works, Working, OneCallback
  <2>2. mode[a] = "polling" /\ ~isExecutingJob[a]
    BY DEF Tick
  <2> QED  BY <1>3, <1>4, <2>1, <2>2 DEF OneCallback, Idle, Works
<1>10. CallbackKnows'
  BY <1>2, <1>3 DEF CallbackKnows, Shown, Moves
<1>11. HeldIsInHand'
  <2>1. \A b \in Agents, r \in Runs : InHand(b, r) => InHand(b, r)'
    BY <1>4 DEF InHand, Works
  <2> QED  BY <1>3, <2>1 DEF HeldIsInHand, Holds
<1> QED  BY <1>5, <1>6, <1>7, <1>8, <1>9, <1>10, <1>11

LEMMA AnswerKeeps == ASSUME IInv, NEW a \in Agents, NEW p \in Polls, Answer(a, p) PROVE IInv'
<1> USE DEF IInv
<1>1. PICK r \in Runs \cup {None} :
        /\ r # None => status[r] = "queued"
        /\ poll' = [poll EXCEPT ![a][p] = [at |-> "answered", run |-> r]]
  BY AgentAssumption DEF Answer, Queued
<1>2. PollTyped' /\ Moves(a, p, "answered", r)
  BY <1>1, PollMoves DEF Typed, Places
<1>3. UNCHANGED <<status, claimer, target, mode, isExecutingJob, verdict>>
      /\ mode[a] # "down" /\ poll[a][p].at = "asked"
  BY DEF Answer, rows, history, At
<1>4. \A b \in Agents, q \in Polls :
        IF b = a /\ q = p THEN ~Works(b, q) /\ ~Works(b, q)' /\ ~Idle(b, q) /\ ~Idle(b, q)'
        ELSE poll'[b][q] = poll[b][q]
  BY <1>2, <1>3 DEF Moves, Idle, Works, Working
<1>5. Typed'
  <2>1. \A b \in Agents, q \in Polls : Works(b, q)' => poll'[b][q].run # None
    BY <1>4 DEF Works, Typed
  <2> QED  BY <1>2, <1>3, <2>1 DEF Typed
<1>6. ClaimedByStatus' /\ FailureFirst'
  BY <1>3 DEF ClaimedByStatus, FailureFirst
<1>7. GrantsAreExclusive' /\ VerdictFirst'
  BY <1>2, <1>3 DEF GrantsAreExclusive, VerdictFirst, Moves, Owns, Executes, Granted
<1>8. DownIsEmpty'
  BY <1>2, <1>3 DEF DownIsEmpty, Moves, Idle
<1>9. OneCallback'
  BY <1>3, <1>4 DEF OneCallback, Idle, Works
<1>10. CallbackKnows'
  <2>1. r \in Runs => claimer[r] # a
    BY <1>1, AgentAssumption DEF ClaimedByStatus
  <2> QED  BY <1>2, <1>3, <2>1 DEF CallbackKnows, Shown, Moves
<1>11. HeldIsInHand'
  <2>1. \A b \in Agents, r_1 \in Runs : InHand(b, r_1) => InHand(b, r_1)'
    BY <1>4 DEF InHand, Works
  <2> QED  BY <1>3, <2>1 DEF HeldIsInHand, Holds
<1> QED  BY <1>5, <1>6, <1>7, <1>8, <1>9, <1>10, <1>11

\* A poll that was lost, or answered that there is nothing to do.
LEMMA NothingKeeps ==
  ASSUME IInv, NEW a \in Agents, NEW p \in Polls,
         poll[a][p].at \in {"asked", "answered"}, Return(a, p), UNCHANGED <<rows, mode, verdict>>
  PROVE  IInv'
<1> USE DEF IInv
<1>2. PollTyped' /\ Moves(a, p, "idle", None)
  BY NoPollMoves DEF Return, Typed
<1>3. UNCHANGED <<status, claimer, target, mode, isExecutingJob, verdict>>
  BY DEF Return, rows, history
<1>4. \A b \in Agents, q \in Polls :
        IF b = a /\ q = p THEN ~Works(b, q) /\ ~Works(b, q)' /\ Idle(b, q)'
        ELSE poll'[b][q] = poll[b][q]
  BY <1>2, <1>3 DEF Moves, Idle, Works, Working
<1>5. Typed'
  <2>1. \A b \in Agents, q \in Polls : Works(b, q)' => poll'[b][q].run # None
    BY <1>4 DEF Works, Typed
  <2> QED  BY <1>2, <1>3, <2>1 DEF Typed
<1>6. ClaimedByStatus' /\ FailureFirst'
  BY <1>3 DEF ClaimedByStatus, FailureFirst
<1>7. GrantsAreExclusive' /\ VerdictFirst'
  BY <1>2, <1>3 DEF GrantsAreExclusive, VerdictFirst, Moves, Owns, Executes, Granted
<1>8. DownIsEmpty'
  BY <1>2, <1>3 DEF DownIsEmpty, Moves, Idle
<1>9. OneCallback'
  BY <1>3, <1>4 DEF OneCallback, Idle, Works
<1>10. CallbackKnows'
  BY <1>2, <1>3 DEF CallbackKnows, Shown, Moves
<1>11. HeldIsInHand'
  <2>1. \A b \in Agents, r \in Runs : InHand(b, r) => InHand(b, r)'
    BY <1>4 DEF InHand, Works
  <2> QED  BY <1>3, <2>1 DEF HeldIsInHand, Holds
<1> QED  BY <1>5, <1>6, <1>7, <1>8, <1>9, <1>10, <1>11

LEMMA ResumeKeeps == ASSUME IInv, NEW a \in Agents, NEW p \in Polls, Resume(a, p) PROVE IInv'
<1> USE DEF IInv
<1>a. CASE Return(a, p)
  BY <1>a, NothingKeeps DEF Resume, At, history
<1>b. CASE /\ poll[a][p].run # None
           /\ isExecutingJob' = [isExecutingJob EXCEPT ![a] = TRUE]
           /\ To(a, p, "claiming")
  <2>1. /\ isExecutingJob' \in [Agents -> BOOLEAN] /\ Flags(a, TRUE)
        /\ PollTyped' /\ Moves(a, p, "claiming", poll[a][p].run)
    BY <1>b, FlagsMove, ToMoves DEF Typed, Places
  <2>2. UNCHANGED <<status, claimer, target, mode, verdict>>
        /\ mode[a] # "down" /\ poll[a][p].at = "answered"
    BY DEF Resume, rows, history, At
  <2>3. \A b \in Agents, q \in Polls :
          IF b = a /\ q = p THEN ~Works(b, q) /\ Works(b, q)' /\ ~Idle(b, q) /\ ~Idle(b, q)'
          ELSE poll'[b][q] = poll[b][q]
    BY <2>1, <2>2 DEF Moves, Idle, Works, Working
  <2>4. Typed'
    <3>1. \A b \in Agents, q \in Polls : Works(b, q)' => poll'[b][q].run # None
      BY <1>b, <2>1, <2>3 DEF Works, Typed, Moves
    <3> QED  BY <2>1, <2>2, <3>1 DEF Typed
  <2>5. ClaimedByStatus' /\ FailureFirst'
    BY <2>2 DEF ClaimedByStatus, FailureFirst
  <2>6. GrantsAreExclusive' /\ VerdictFirst'
    BY <2>1, <2>2 DEF GrantsAreExclusive, VerdictFirst, Moves, Owns, Executes, Granted
  <2>7. DownIsEmpty'
    BY <2>1, <2>2 DEF DownIsEmpty, Moves, Idle, Flags
  <2>8. OneCallback'
    <3>1. a \notin Slow => mode[a] \notin {"waiting", "finishing"}
      BY <2>3, AgentAssumption DEF OneCallback
    <3> QED  BY <2>1, <2>2, <2>3, <3>1 DEF OneCallback, Idle, Works, Flags
  <2>9. CallbackKnows'
    BY <2>1, <2>2 DEF CallbackKnows, Shown, Moves
  <2>10. HeldIsInHand'
    <3>1. \A b \in Agents, r \in Runs : InHand(b, r) => InHand(b, r)'
      BY <2>3 DEF InHand, Works
    <3> QED  BY <2>2, <3>1 DEF HeldIsInHand, Holds
  <2> QED  BY <2>4, <2>5, <2>6, <2>7, <2>8, <2>9, <2>10
<1> QED  BY <1>a, <1>b DEF Resume

LEMMA ClaimKeeps == ASSUME IInv, NEW a \in Agents, NEW p \in Polls, Claim(a, p) PROVE IInv'
<1> USE DEF IInv
<1>0. poll[a][p].at = "claiming" /\ mode[a] # "down"
  BY DEF Claim, At
<1>2. PICK r \in Runs : poll[a][p].run = r
  BY <1>0 DEF Typed, PollTyped, Works, Working
<1>1. poll[a][p].at = "claiming" /\ Claimable(a, r) /\ mode[a] # "down"
  BY <1>0, <1>2 DEF Claim
<1>3. /\ status' = [status EXCEPT ![r] = "running"] /\ claimer' = [claimer EXCEPT ![r] = a]
      /\ UNCHANGED <<target, mode, isExecutingJob, verdict>>
  BY <1>2 DEF Claim
<1>4. PICK place \in {"executing", "failing"} :
        PollTyped' /\ Moves(a, p, place, r) /\ (place = "failing" => a \in Lossy)
  BY <1>2, ToMoves DEF Claim, Places, Typed
<1>5. \A x \in Runs : IF x = r THEN status[x] = "queued" /\ claimer[x] = None
                                    /\ status'[x] = "running" /\ claimer'[x] = a
                      ELSE status'[x] = status[x] /\ claimer'[x] = claimer[x]
  BY <1>1, <1>2, <1>3 DEF Claimable, Typed, ClaimedByStatus
<1>6. \A b \in Agents, q \in Polls :
        IF b = a /\ q = p
        THEN Works(b, q) /\ Works(b, q)' /\ ~Idle(b, q) /\ ~Idle(b, q)' /\ poll'[b][q].run = r
        ELSE poll'[b][q] = poll[b][q]
  BY <1>1, <1>4 DEF Moves, Idle, Works, Working
<1>16. \A b \in Agents, q \in Polls : ~Owns(b, q, r)
  BY <1>5, AgentAssumption DEF GrantsAreExclusive
<1>7. Typed'
  <2>1. \A b \in Agents, q \in Polls : Works(b, q)' => poll'[b][q].run # None
    BY <1>2, <1>6, AgentAssumption DEF Works, Typed
  <2>2. status' \in [Runs -> PipelineStatuses \cup {"absent"}]
        /\ claimer' \in [Runs -> Agents \cup {None}]
    BY <1>3 DEF Typed, PipelineStatuses
  <2> QED  BY <1>3, <1>4, <2>1, <2>2 DEF Typed
<1>8. ClaimedByStatus'
  BY <1>5, AgentAssumption DEF ClaimedByStatus
<1>9. GrantsAreExclusive'
  BY <1>4, <1>5, <1>6, <1>16 DEF GrantsAreExclusive, Moves, Owns, Granted
<1>10. VerdictFirst'
  BY <1>3, <1>4, <1>5 DEF VerdictFirst, Moves, Owns, Executes, Granted
<1>11. DownIsEmpty'
  BY <1>1, <1>3, <1>6 DEF DownIsEmpty, Idle
<1>12. OneCallback'
  BY <1>3, <1>6 DEF OneCallback, Idle, Works
<1>13. CallbackKnows'
  <2> SUFFICES ASSUME NEW b \in Agents \ Slow, NEW q \in Polls, NEW x \in Runs,
                      poll'[b][q].run = x
               PROVE  /\ poll'[b][q].at \in {"answered", "claiming"} => claimer'[x] # b
                      /\ poll'[b][q].at = "executing" => Shown(b, x)'
                      /\ poll'[b][q].at \in {"regretting", "failing"} /\ b \notin Lossy
                           => claimer'[x] # b \/ verdict'[x] = "failed" \/ isPipelineTerminal(status'[x])
    BY DEF CallbackKnows, Shown
  <2>1. CASE b = a /\ q = p
    BY <2>1, <1>4, <1>5 DEF Moves, Shown
  <2>2. CASE b = a /\ q # p
    BY <2>2, <1>1, <1>6 DEF OneCallback, Idle
  <2>3. CASE b # a
    <3>1. poll'[b][q] = poll[b][q] /\ verdict' = verdict
      BY <2>3, <1>3, <1>6
    <3>2. CASE x = r
      BY <2>3, <3>1, <3>2, <1>5, <1>16 DEF Owns, Granted
    <3>3. CASE x # r
      BY <3>1, <3>3, <1>5 DEF CallbackKnows, Shown
    <3> QED  BY <3>2, <3>3
  <2> QED  BY <2>1, <2>2, <2>3
<1>14. FailureFirst'
  BY <1>3, <1>5 DEF FailureFirst
<1>15. HeldIsInHand'
  <2>1. InHand(a, r)'
    BY <1>4 DEF InHand, Works, Working, Moves
  <2>2. \A b \in Agents, x \in Runs : InHand(b, x) => InHand(b, x)'
    BY <1>1, <1>6 DEF InHand, Works
  <2>3. \A b \in Agents, x \in Runs : Holds(b, x)' => Holds(b, x) \/ (b = a /\ x = r)
    BY <1>5 DEF Holds
  <2> QED  BY <1>3, <2>1, <2>2, <2>3 DEF HeldIsInHand
<1> QED  BY <1>7, <1>8, <1>9, <1>10, <1>11, <1>12, <1>13, <1>14, <1>15

LEMMA ClaimFailsKeeps ==
  ASSUME IInv, NEW a \in Agents, NEW p \in Polls, ClaimFails(a, p) PROVE IInv'
<1> USE DEF IInv
<1>1. PollTyped' /\ Moves(a, p, "failing", poll[a][p].run)
  BY ToMoves DEF ClaimFails, Places, Typed
<1>2. UNCHANGED <<status, claimer, target, mode, isExecutingJob, verdict>>
      /\ mode[a] # "down" /\ poll[a][p].at = "claiming"
  BY DEF ClaimFails, rows, history, At
<1>3. \A b \in Agents, q \in Polls :
        IF b = a /\ q = p
        THEN Works(b, q) /\ Works(b, q)' /\ ~Idle(b, q) /\ ~Idle(b, q)' /\ poll'[b][q].run = poll[b][q].run
        ELSE poll'[b][q] = poll[b][q]
  BY <1>1, <1>2 DEF Moves, Idle, Works, Working
<1>4. Typed'
  <2>1. \A b \in Agents, q \in Polls : Works(b, q)' => poll'[b][q].run # None
    BY <1>3 DEF Works, Typed
  <2> QED  BY <1>1, <1>2, <2>1 DEF Typed
<1>5. ClaimedByStatus' /\ FailureFirst'
  BY <1>2 DEF ClaimedByStatus, FailureFirst
<1>6. GrantsAreExclusive' /\ VerdictFirst'
  BY <1>1, <1>2 DEF GrantsAreExclusive, VerdictFirst, Moves, Owns, Executes, Granted
<1>7. DownIsEmpty'
  BY <1>2, <1>3 DEF DownIsEmpty, Idle
<1>8. OneCallback'
  BY <1>2, <1>3 DEF OneCallback, Idle, Works
<1>9. CallbackKnows'
  BY <1>1, <1>2 DEF CallbackKnows, Shown, Moves
<1>10. HeldIsInHand'
  <2>1. \A b \in Agents, r \in Runs : InHand(b, r) => InHand(b, r)'
    BY <1>2, <1>3 DEF InHand, Works
  <2> QED  BY <1>2, <2>1 DEF HeldIsInHand, Holds
<1> QED  BY <1>4, <1>5, <1>6, <1>7, <1>8, <1>9, <1>10

LEMMA EndPipelineKeeps ==
  ASSUME IInv, NEW a \in Agents, NEW p \in Polls, EndPipeline(a, p) PROVE IInv'
<1> USE DEF IInv
<1> DEFINE r == poll[a][p].run
<1>1. poll[a][p].at = "executing" /\ mode[a] # "down" /\ r \in Runs
  BY DEF EndPipeline, At, Typed, PollTyped, Works, Working
<1>2. UNCHANGED <<status, claimer, target, mode, isExecutingJob>>
  BY DEF EndPipeline, rows, history
<1>3. PICK v \in {"success", "failed"}, place \in {"reporting", "regretting"} :
        /\ verdict' = [verdict EXCEPT ![r] = v]
        /\ To(a, p, place) /\ (place = "regretting" => v = "failed")
  BY DEF EndPipeline
<1>4. PollTyped' /\ Moves(a, p, place, r)
  BY <1>3, ToMoves DEF Places, Typed
<1>5. \A b \in Agents, q \in Polls :
        IF b = a /\ q = p
        THEN Works(b, q) /\ Works(b, q)' /\ ~Idle(b, q) /\ ~Idle(b, q)'
             /\ poll'[b][q].run = r /\ poll'[b][q].at # "claiming" /\ Owns(b, q, r)
        ELSE poll'[b][q] = poll[b][q]
  BY <1>1, <1>4 DEF Moves, Idle, Works, Working, Owns, Granted
<1>6. \A x \in Runs : verdict'[x] = IF x = r THEN v ELSE verdict[x]
  BY <1>1, <1>3 DEF Typed
<1>7. Typed'
  <2>1. \A b \in Agents, q \in Polls : Works(b, q)' => poll'[b][q].run # None
    BY <1>1, <1>5, AgentAssumption DEF Works, Typed
  <2>2. verdict' \in [Runs -> {"none", "success", "failed"}]
    BY <1>3 DEF Typed
  <2> QED  BY <1>2, <1>4, <2>1, <2>2 DEF Typed
<1>8. ClaimedByStatus'
  BY <1>2 DEF ClaimedByStatus
<1>9. GrantsAreExclusive'
  BY <1>1, <1>2, <1>4 DEF GrantsAreExclusive, Moves, Owns, Granted
<1>10. VerdictFirst'
  <2>1. status[r] # "success"
    BY <1>1 DEF VerdictFirst, Executes
  <2> QED  BY <1>1, <1>2, <1>4, <1>6, <2>1 DEF VerdictFirst, Moves, Owns, Executes, Granted
<1>11. DownIsEmpty'
  BY <1>1, <1>2, <1>5 DEF DownIsEmpty, Idle
<1>12. OneCallback'
  BY <1>2, <1>5 DEF OneCallback, Idle, Works
<1>13. claimer[r] = a
  BY <1>1, <1>5 DEF GrantsAreExclusive
<1>14. CallbackKnows'
  <2> SUFFICES ASSUME NEW b \in Agents \ Slow, NEW q \in Polls, NEW x \in Runs,
                      poll'[b][q].run = x
               PROVE  /\ poll'[b][q].at \in {"answered", "claiming"} => claimer'[x] # b
                      /\ poll'[b][q].at = "executing" => Shown(b, x)'
                      /\ poll'[b][q].at \in {"regretting", "failing"} /\ b \notin Lossy
                           => claimer'[x] # b \/ verdict'[x] = "failed" \/ isPipelineTerminal(status'[x])
    BY DEF CallbackKnows, Shown
  <2>1. CASE b = a /\ q = p
    BY <2>1, <1>3, <1>4, <1>6 DEF Moves
  <2>2. CASE b = a /\ q # p
    BY <2>2, <1>1, <1>5 DEF OneCallback, Idle
  <2>3. CASE b # a
    <3>1. poll'[b][q] = poll[b][q]
      BY <2>3, <1>5
    <3> QED  BY <2>3, <3>1, <1>2, <1>6, <1>13 DEF CallbackKnows, Shown
  <2> QED  BY <2>1, <2>2, <2>3
<1>15. FailureFirst'
  <2>1. status[r] = "failed" => a \in Slow
    BY <1>1 DEF CallbackKnows, Shown
  <2> QED  BY <1>2, <1>6, <1>13, <2>1 DEF FailureFirst
<1>16. HeldIsInHand'
  <2>1. \A b \in Agents, x \in Runs : InHand(b, x) => InHand(b, x)'
    BY <1>5 DEF InHand, Works
  <2> QED  BY <1>2, <2>1 DEF HeldIsInHand, Holds
<1> QED  BY <1>7, <1>8, <1>9, <1>10, <1>11, <1>12, <1>14, <1>15, <1>16

-----------------------------------------------------------------------------
(* A callback that has reported, or has nothing to report, goes on: it     *)
(* ends, with the flag reset, or goes to the catch block around it.        *)

\* The status of r changes to s, if it does, as the run of a that was running.
Heard(a, r, s) ==
  /\ status' \in [Runs -> PipelineStatuses \cup {"absent"}]
  /\ \A x \in Runs : \/ status'[x] = status[x]
                     \/ x = r /\ status[x] = "running" /\ claimer[x] = a /\ status'[x] = s
  /\ UNCHANGED <<claimer, target, mode, verdict>>

\* A run of its own has ended for an agent that loses nothing.
Told(a, r) == a \notin Lossy /\ claimer[r] = a => isPipelineTerminal(status'[r])

LEMMA AcceptedWhileRunning ==
  ASSUME Typed, ClaimedByStatus, NEW a \in Agents, NEW r \in Runs, NEW s \in {"success", "failed"}
  PROVE  Accepted(a, r, s) <=> claimer[r] = a /\ status[r] = "running"
<1>1. CASE claimer[r] # a
  BY <1>1 DEF Accepted
<1>2. CASE claimer[r] = a
  <2>1. status[r] \in PipelineStatuses /\ status[r] # "queued" /\ status[r] # "created"
    BY <1>2, AgentAssumption DEF Typed, ClaimedByStatus, PipelineStatuses
  <2> QED  BY <1>2, <2>1 DEF Accepted, validatePipelineTransition,
             VALID_PIPELINE_RUN_TRANSITIONS, PipelineStatuses
<1> QED  BY <1>1, <1>2

LEMMA ReportHeard ==
  ASSUME Typed, ClaimedByStatus, NEW a \in Agents, NEW r \in Runs,
         NEW s \in {"success", "failed"}, NEW ok \in BOOLEAN, Report(a, r, s, ok),
         UNCHANGED <<claimer, target, mode, verdict>>
  PROVE  Heard(a, r, s) /\ Told(a, r)
<1>1. Accepted(a, r, s) <=> claimer[r] = a /\ status[r] = "running"
  BY AcceptedWhileRunning
<1>2. CASE Accepted(a, r, s) /\ status' = [status EXCEPT ![r] = s]
  BY <1>1, <1>2
     DEF Heard, Told, Typed, PipelineStatuses, isPipelineTerminal, PIPELINE_RUN_TERMINAL_STATES
<1>3. CASE (~Accepted(a, r, s) \/ a \in Lossy) /\ status' = status
  <2>1. claimer[r] = a => status[r] = "running" \/ isPipelineTerminal(status[r])
    BY AgentAssumption DEF Typed, ClaimedByStatus, PipelineStatuses, isPipelineTerminal,
                           PIPELINE_RUN_TERMINAL_STATES
  <2> QED  BY <1>1, <1>3, <2>1 DEF Heard, Told, Typed
<1> QED  BY <1>2, <1>3 DEF Report

LEMMA ReportingKeeps ==
  ASSUME IInv, NEW a \in Agents, NEW p \in Polls, NEW r \in Runs,
         NEW s \in {"success", "failed"}, NEW place \in {"idle", "regretting", "failing"}, NEW run,
         mode[a] # "down", Works(a, p), poll[a][p].at # "claiming", poll[a][p].run = r,
         Heard(a, r, s), Told(a, r),
         s = "success" => poll[a][p].at = "reporting" /\ verdict[r] = "success",
         a \notin Slow \cup Lossy /\ claimer[r] = a /\ status[r] = "running" /\ s = "failed"
           => verdict[r] = "failed",
         PollTyped', Moves(a, p, place, run), isExecutingJob' \in [Agents -> BOOLEAN],
         place = "regretting" => poll[a][p].at = "reporting",
         place = "idle" => Flags(a, FALSE),
         place # "idle" => run = r /\ isExecutingJob' = isExecutingJob
  PROVE  IInv'
<1> USE DEF IInv
<1>1. \A x \in Runs : \/ status'[x] = status[x]
                      \/ x = r /\ status[x] = "running" /\ claimer[x] = a /\ status'[x] = s
  BY DEF Heard
<1>2. UNCHANGED <<claimer, target, mode, verdict>>
  BY DEF Heard
<1>3. /\ poll'[a][p].at = place /\ (place # "idle" => poll'[a][p].run = r)
      /\ (Idle(a, p)' <=> place = "idle") /\ ~Idle(a, p)
      /\ (Works(a, p)' <=> place # "idle")
  <2>1. poll'[a][p].at = place /\ (place # "idle" => poll'[a][p].run = r)
    BY DEF Moves
  <2>2. ~Idle(a, p)
    BY DEF Idle, Works, Working
  <2> QED  BY <2>1, <2>2 DEF Idle, Works, Working
<1>4. \A b \in Agents, q \in Polls : (b = a /\ q = p) \/ poll'[b][q] = poll[b][q]
  BY DEF Moves
<1>5. Typed'
  <2>1. \A b \in Agents, q \in Polls : Works(b, q)' => poll'[b][q].run # None
    BY <1>3, <1>4, AgentAssumption DEF Works, Typed
  <2> QED  BY <1>2, <2>1 DEF Typed, Heard
<1>6. ClaimedByStatus'
  BY <1>1, <1>2, AgentAssumption DEF ClaimedByStatus
<1>7. GrantsAreExclusive'
  BY <1>2, <1>3, <1>4 DEF GrantsAreExclusive, Owns, Granted
<1>8. VerdictFirst'
  <2>1. \A x \in Runs : status'[x] = "success" => verdict'[x] = "success"
    BY <1>1, <1>2 DEF VerdictFirst
  <2>2. ASSUME NEW b \in Agents, NEW q \in Polls, NEW x \in Runs, Executes(b, q, x)'
        PROVE  status'[x] # "success"
    <3>1. (b # a \/ q # p) /\ Executes(b, q, x)
      BY <1>3, <1>4, <2>2 DEF Executes
    <3>2. CASE x = r /\ s = "success" /\ claimer[r] = a
      <4>1. Owns(a, p, r) /\ Owns(b, q, r)
        BY <3>1, <3>2 DEF Owns, Executes, Granted
      <4> QED  BY <3>1, <3>2, <4>1 DEF GrantsAreExclusive
    <3> QED  BY <1>1, <3>1, <3>2 DEF VerdictFirst
  <2>3. ASSUME NEW b \in Agents, NEW q \in Polls, NEW x \in Runs,
               Owns(b, q, x)', ~Executes(b, q, x)'
        PROVE  verdict'[x] # "none"
    BY <1>2, <1>3, <1>4, <2>3 DEF VerdictFirst, Owns, Executes, Granted
  <2> QED  BY <2>1, <2>2, <2>3 DEF VerdictFirst
<1>9. DownIsEmpty'
  BY <1>2, <1>4 DEF DownIsEmpty, Idle, Flags
<1>10. OneCallback'
  <2> SUFFICES ASSUME NEW b \in Agents \ Slow
               PROVE  /\ \A q1, q2 \in Polls : Idle(b, q1)' \/ Idle(b, q2)' \/ q1 = q2
                      /\ isExecutingJob'[b] <=> \E q \in Polls : Works(b, q)'
                      /\ mode'[b] = "waiting" => \A q \in Polls : Idle(b, q)' \/ Works(b, q)'
                      /\ mode'[b] = "finishing" => \A q \in Polls : Idle(b, q)'
    BY DEF OneCallback
  <2>1. CASE b = a
    <3>1. \A q \in Polls : q = p \/ (Idle(a, q) /\ Idle(a, q)' /\ ~Works(a, q)')
      BY <1>3, <1>4, <2>1 DEF OneCallback, Idle, Works, Working
    <3>2. mode[a] # "finishing" /\ isExecutingJob[a]
      BY <1>3, <2>1 DEF OneCallback
    <3>3. isExecutingJob'[a] <=> place # "idle"
      BY <3>2 DEF Flags
    <3> QED  BY <1>2, <1>3, <2>1, <3>1, <3>2, <3>3
  <2>2. CASE b # a
    <3>1. (isExecutingJob'[b] <=> isExecutingJob[b]) /\ mode'[b] = mode[b]
          /\ \A q \in Polls : Idle(b, q)' = Idle(b, q) /\ Works(b, q)' = Works(b, q)
      BY <1>2, <1>4, <2>2 DEF Idle, Works, Flags
    <3> QED  BY <3>1 DEF OneCallback
  <2> QED  BY <2>1, <2>2
<1>11. CallbackKnows'
  <2> SUFFICES ASSUME NEW b \in Agents \ Slow, NEW q \in Polls, NEW x \in Runs,
                      poll'[b][q].run = x
               PROVE  /\ poll'[b][q].at \in {"answered", "claiming"} => claimer'[x] # b
                      /\ poll'[b][q].at = "executing" => Shown(b, x)'
                      /\ poll'[b][q].at \in {"regretting", "failing"} /\ b \notin Lossy
                           => claimer'[x] # b \/ verdict'[x] = "failed" \/ isPipelineTerminal(status'[x])
    BY DEF CallbackKnows, Shown
  <2>1. CASE b = a /\ q = p
    BY <2>1, <1>2, <1>3 DEF Told
  <2>2. CASE b = a /\ q # p
    BY <2>2, <1>3, <1>4 DEF OneCallback, Idle
  <2>3. CASE b # a
    <3>1. poll'[b][q] = poll[b][q]
      BY <2>3, <1>4
    <3>2. isPipelineTerminal(status[x]) => isPipelineTerminal(status'[x])
      BY <1>1 DEF isPipelineTerminal, PIPELINE_RUN_TERMINAL_STATES
    <3>3. poll[b][q].at = "executing" => claimer[x] = b
      BY <2>3, <3>1 DEF GrantsAreExclusive, Owns, Granted
    <3> QED  BY <2>3, <1>1, <1>2, <3>1, <3>2, <3>3 DEF CallbackKnows, Shown
  <2> QED  BY <2>1, <2>2, <2>3
<1>12. FailureFirst'
  BY <1>1, <1>2 DEF FailureFirst
<1>13. HeldIsInHand'
  <2> SUFFICES ASSUME NEW b \in Agents \ (Slow \cup Lossy \cup Brisk), NEW x \in Runs,
                      mode'[b] # "down", Holds(b, x)'
               PROVE  InHand(b, x)'
    BY DEF HeldIsInHand
  <2>1. InHand(b, x) /\ Holds(b, x)
    BY <1>1, <1>2 DEF HeldIsInHand, Holds
  <2>2. ~ (b = a /\ x = r)
    BY <1>2 DEF Holds, Told, isPipelineTerminal, PIPELINE_RUN_TERMINAL_STATES
  <2> QED  BY <2>1, <2>2, <1>4 DEF InHand, Works
<1> QED  BY <1>5, <1>6, <1>7, <1>8, <1>9, <1>10, <1>11, <1>12, <1>13

LEMMA FinallyMoves ==
  ASSUME Typed, NEW a \in Agents, NEW p \in Polls, Finally(a, p)
  PROVE  PollTyped' /\ Moves(a, p, "idle", None)
         /\ isExecutingJob' \in [Agents -> BOOLEAN] /\ Flags(a, FALSE)
  BY NoPollMoves, FlagsMove DEF Finally, Typed

LEMMA EndCancelledKeeps ==
  ASSUME IInv, NEW a \in Agents, NEW p \in Polls, EndCancelled(a, p) PROVE IInv'
<1> USE DEF IInv
<1>1. poll[a][p].at = "executing" /\ mode[a] # "down" /\ Finally(a, p)
      /\ UNCHANGED <<status, claimer, target, mode, verdict>>
  BY DEF EndCancelled, At, rows, history
<1>2. PICK r \in Runs : poll[a][p].run = r /\ status[r] = "cancelled" /\ Works(a, p)
  BY <1>1 DEF EndCancelled, Typed, PollTyped, Works, Working
<1>3. Heard(a, r, "failed") /\ Told(a, r)
  BY <1>1, <1>2 DEF Heard, Told, Typed, isPipelineTerminal, PIPELINE_RUN_TERMINAL_STATES
<1> QED  BY <1>1, <1>2, <1>3, FinallyMoves, ReportingKeeps

LEMMA ReportVerdictKeeps ==
  ASSUME IInv, NEW a \in Agents, NEW p \in Polls, ReportVerdict(a, p) PROVE IInv'
<1> USE DEF IInv
<1>1. poll[a][p].at = "reporting" /\ mode[a] # "down"
      /\ UNCHANGED <<claimer, target, mode, verdict>>
  BY DEF ReportVerdict, At, history
<1>2. PICK r \in Runs : poll[a][p].run = r /\ Works(a, p) /\ Owns(a, p, r) /\ ~Executes(a, p, r)
  BY <1>1 DEF Typed, PollTyped, Works, Working, Owns, Granted, Executes
<1>3. verdict[r] \in {"success", "failed"}
  BY <1>2 DEF VerdictFirst, Typed
<1>4. CASE Report(a, r, verdict[r], TRUE) /\ Finally(a, p)
  <2>1. Heard(a, r, verdict[r]) /\ Told(a, r)
    BY <1>1, <1>3, <1>4, ReportHeard
  <2> QED  BY <1>1, <1>2, <1>3, <1>4, <2>1, FinallyMoves, ReportingKeeps
<1>5. CASE Report(a, r, verdict[r], FALSE) /\ To(a, p, "regretting") /\ UNCHANGED isExecutingJob
  <2>1. Heard(a, r, verdict[r]) /\ Told(a, r)
    BY <1>1, <1>3, <1>5, ReportHeard
  <2>2. PollTyped' /\ Moves(a, p, "regretting", r)
    BY <1>2, <1>5, ToMoves DEF Typed, Places
  <2>3. isExecutingJob' \in [Agents -> BOOLEAN] /\ isExecutingJob' = isExecutingJob
    BY <1>5 DEF Typed
  <2> QED  BY <1>1, <1>2, <1>3, <2>1, <2>2, <2>3, ReportingKeeps
<1> QED  BY <1>2, <1>4, <1>5 DEF ReportVerdict

\* The catch blocks report what has failed already, or has ended.
LEMMA RegretsKnow ==
  ASSUME IInv, NEW a \in Agents, NEW p \in Polls, NEW r \in Runs, poll[a][p].run = r,
         poll[a][p].at \in {"regretting", "failing"},
         a \notin Slow \cup Lossy, claimer[r] = a, status[r] = "running"
  PROVE  verdict[r] = "failed"
  BY DEF IInv, CallbackKnows, Shown, isPipelineTerminal, PIPELINE_RUN_TERMINAL_STATES

LEMMA ReportFailedKeeps ==
  ASSUME IInv, NEW a \in Agents, NEW p \in Polls, ReportFailed(a, p) PROVE IInv'
<1> USE DEF IInv
<1>1. poll[a][p].at = "regretting" /\ mode[a] # "down" /\ To(a, p, "failing")
      /\ UNCHANGED <<claimer, target, mode, isExecutingJob, verdict>>
  BY DEF ReportFailed, At, history
<1>2. PICK r \in Runs : poll[a][p].run = r /\ Works(a, p)
  BY <1>1 DEF Typed, PollTyped, Works, Working
<1>3. Heard(a, r, "failed") /\ Told(a, r)
  <2>1. CASE \E ok \in BOOLEAN : Report(a, r, "failed", ok)
    BY <1>1, <2>1, ReportHeard
  <2>2. CASE status[r] = "cancelled" /\ UNCHANGED status
    BY <1>1, <2>2 DEF Heard, Told, Typed, isPipelineTerminal, PIPELINE_RUN_TERMINAL_STATES
  <2> QED  BY <1>2, <2>1, <2>2 DEF ReportFailed
<1>4. PollTyped' /\ Moves(a, p, "failing", r)
  BY <1>1, <1>2, ToMoves DEF Typed, Places
<1>5. isExecutingJob' \in [Agents -> BOOLEAN] /\ isExecutingJob' = isExecutingJob
  BY <1>1 DEF Typed
<1> QED  BY <1>1, <1>2, <1>3, <1>4, <1>5, RegretsKnow, ReportingKeeps

LEMMA ReportJobFailedKeeps ==
  ASSUME IInv, NEW a \in Agents, NEW p \in Polls, ReportJobFailed(a, p) PROVE IInv'
<1> USE DEF IInv
<1>1. poll[a][p].at = "failing" /\ mode[a] # "down" /\ Finally(a, p)
      /\ UNCHANGED <<claimer, target, mode, verdict>>
  BY DEF ReportJobFailed, At, history
<1>2. PICK r \in Runs : poll[a][p].run = r /\ Works(a, p)
  BY <1>1 DEF Typed, PollTyped, Works, Working
<1>3. Heard(a, r, "failed") /\ Told(a, r)
  BY <1>1, <1>2, ReportHeard DEF ReportJobFailed
<1> QED  BY <1>1, <1>2, <1>3, FinallyMoves, RegretsKnow, ReportingKeeps

LEMMA CallbackKeeps ==
  ASSUME IInv, NEW a \in Agents, NEW p \in Polls, Callback(a, p) PROVE IInv'
<1>1. CASE LosePoll(a, p)
  BY <1>1, NothingKeeps DEF LosePoll, At, history
<1> QED
  BY <1>1, TickKeeps, AnswerKeeps, ResumeKeeps, ClaimKeeps, ClaimFailsKeeps, EndPipelineKeeps,
     EndCancelledKeeps, ReportVerdictKeeps, ReportFailedKeeps, ReportJobFailedKeeps
  DEF Callback, Requested, Reported

-----------------------------------------------------------------------------
(* The process and the control plane keep it, too.                         *)

\* A process that is gone: its callbacks, its flag, and nothing else.
LEMMA GoneKeeps == ASSUME IInv, NEW a \in Agents, Gone(a) PROVE IInv'
<1> USE DEF IInv
<1>1. UNCHANGED <<status, claimer, target, verdict>>
  BY DEF Gone, rows, history
<1>2. isExecutingJob' \in [Agents -> BOOLEAN] /\ Flags(a, FALSE)
  BY FlagsMove DEF Gone, Typed
<1>3. mode' \in [Agents -> Modes]
      /\ \A b \in Agents : mode'[b] = IF b = a THEN "down" ELSE mode[b]
  BY DEF Gone, Become, Typed, Modes
<1>4. PollTyped' /\ \A b \in Agents, q \in Polls : poll'[b][q] = IF b = a THEN NoPoll ELSE poll[b][q]
  BY DEF Gone, Typed, PollTyped, NoPoll, Places
<1>5. \A q \in Polls : Idle(a, q)' /\ ~Works(a, q)'
  BY <1>4 DEF Idle, Works, Working, NoPoll
<1>6. \A b \in Agents \ {a}, q \in Polls : Idle(b, q)' = Idle(b, q) /\ Works(b, q)' = Works(b, q)
  BY <1>4 DEF Idle, Works
<1>7. Typed'
  <2>1. \A b \in Agents, q \in Polls : Works(b, q)' => poll'[b][q].run # None
    BY <1>4, <1>5 DEF Works, Typed
  <2> QED  BY <1>1, <1>2, <1>3, <1>4, <2>1 DEF Typed
<1>8. ClaimedByStatus' /\ FailureFirst'
  BY <1>1 DEF ClaimedByStatus, FailureFirst
<1>9. GrantsAreExclusive' /\ VerdictFirst'
  BY <1>1, <1>4 DEF GrantsAreExclusive, VerdictFirst, Owns, Executes, Granted, NoPoll
<1>10. DownIsEmpty'
  BY <1>2, <1>3, <1>5, <1>6 DEF DownIsEmpty, Flags
<1>11. OneCallback'
  BY <1>2, <1>3, <1>5, <1>6 DEF OneCallback, Flags
<1>12. CallbackKnows'
  BY <1>1, <1>4 DEF CallbackKnows, Shown, NoPoll
<1>13. HeldIsInHand'
  <2>1. \A b \in Agents \ {a}, r \in Runs : InHand(b, r) => InHand(b, r)'
    BY <1>4 DEF InHand, Works
  <2> QED  BY <1>1, <1>3, <2>1 DEF HeldIsInHand, Holds
<1> QED  BY <1>7, <1>8, <1>9, <1>10, <1>11, <1>12, <1>13

LEMMA ProcessKeeps == ASSUME IInv, NEW a \in Agents, Process(a) PROVE IInv'
<1> USE DEF IInv
<1>1. CASE Exit(a) \/ ExitOnTimeout(a) \/ Crash(a)
  BY <1>1, GoneKeeps DEF Exit, ExitOnTimeout, Crash
<1>2. CASE Shutdown(a) \/ WaitForJob(a) \/ Restart(a)
  <2>1. UNCHANGED <<status, claimer, target, verdict, isExecutingJob, poll>>
    BY <1>2 DEF Shutdown, WaitForJob, Restart, rows, history
  <2>2. PICK m \in Modes \ {"down"} : mode' = [mode EXCEPT ![a] = m]
    BY <1>2 DEF Shutdown, WaitForJob, Restart, Become, Modes
  <2>3. \A b \in Agents : mode'[b] = IF b = a THEN m ELSE mode[b]
    BY <2>2 DEF Typed
  <2>4. Typed'
    BY <2>1, <2>2 DEF Typed, PollTyped, Works
  <2>5. ClaimedByStatus' /\ FailureFirst' /\ GrantsAreExclusive' /\ VerdictFirst' /\ CallbackKnows'
    BY <2>1 DEF ClaimedByStatus, FailureFirst, GrantsAreExclusive, VerdictFirst, CallbackKnows, Shown,
                Owns, Executes
  <2>6. DownIsEmpty'
    BY <2>1, <2>3 DEF DownIsEmpty, Idle
  <2>7. OneCallback'
    <3>1. m = "waiting" => isExecutingJob[a]
      BY <1>2, <2>2, <2>3 DEF Shutdown, WaitForJob, Restart, Become, Typed, Modes
    <3>2. m = "finishing" => mode[a] = "waiting" /\ ~isExecutingJob[a]
      BY <1>2, <2>2, <2>3 DEF Shutdown, WaitForJob, Restart, Become, Typed, Modes
    <3>3. ASSUME m = "waiting", a \notin Slow, NEW q \in Polls PROVE Idle(a, q) \/ Works(a, q)
      BY <3>1, <3>3 DEF OneCallback, Works, Idle, Working
    <3>4. ASSUME m = "finishing", a \notin Slow, NEW q \in Polls PROVE Idle(a, q)
      BY <3>2, <3>4 DEF OneCallback
    <3> QED  BY <2>1, <2>3, <3>3, <3>4 DEF OneCallback, Idle, Works
  <2>8. HeldIsInHand'
    <3>1. \A r \in Runs : a \notin Brisk /\ mode[a] = "down" => ~Holds(a, r)
      BY <1>2 DEF Shutdown, WaitForJob, Restart
    <3>2. \A b \in Agents, r \in Runs : InHand(b, r)' = InHand(b, r) /\ Holds(b, r)' = Holds(b, r)
      BY <2>1 DEF InHand, Holds, Works
    <3> QED  BY <2>3, <3>1, <3>2 DEF HeldIsInHand
  <2> QED  BY <2>4, <2>5, <2>6, <2>7, <2>8
<1> QED  BY <1>1, <1>2 DEF Process, Stopping

LEMMA ControlPlaneKeeps == ASSUME IInv, ControlPlane PROVE IInv'
<1> USE DEF IInv
<1>1. UNCHANGED <<claimer, mode, isExecutingJob, poll, verdict>>
  BY DEF ControlPlane, Submit, CancelRun, Reap, history
<1>2. PICK r \in Runs :
        /\ target' \in [Runs -> Agents \cup {None}]
        /\ \/ status[r] = "absent" /\ status' = [status EXCEPT ![r] = "queued"]
           \/ status[r] \in {"queued", "running"} /\ status' = [status EXCEPT ![r] = "cancelled"]
           \/ /\ status[r] = "running" /\ (mode[claimer[r]] = "down" \/ claimer[r] \in Lossy)
              /\ status' = [status EXCEPT ![r] = "timed_out"]
  <2>1. ASSUME NEW r \in Runs, Submit(r) PROVE target' \in [Runs -> Agents \cup {None}]
    <3>1. PICK t \in Pins[r] : target' = [target EXCEPT ![r] = t]
      BY <2>1 DEF Submit
    <3>2. t \in Agents \cup {None}
      BY <3>1, AgentAssumption
    <3> QED  BY <3>1, <3>2 DEF Typed
  <2> QED  BY <2>1 DEF ControlPlane, Submit, CancelRun, Reap, Typed
<1>3. \A x \in Runs :
        \/ status'[x] = status[x]
        \/ status[x] = "absent" /\ status'[x] = "queued"
        \/ status[x] \in {"queued", "running"} /\ status'[x] = "cancelled"
        \/ /\ status[x] = "running" /\ (mode[claimer[x]] = "down" \/ claimer[x] \in Lossy)
           /\ status'[x] = "timed_out"
  BY <1>2 DEF Typed
<1>4. Typed'
  <2>1. status' \in [Runs -> PipelineStatuses \cup {"absent"}]
    BY <1>2 DEF Typed, PipelineStatuses
  <2> QED  BY <1>1, <1>2, <2>1 DEF Typed, PollTyped, Works
<1>5. ClaimedByStatus' /\ FailureFirst'
  BY <1>1, <1>3 DEF ClaimedByStatus, FailureFirst
<1>6. GrantsAreExclusive' /\ DownIsEmpty' /\ OneCallback'
  BY <1>1 DEF GrantsAreExclusive, DownIsEmpty, OneCallback, Owns, Idle, Works
<1>7. VerdictFirst'
  BY <1>1, <1>3 DEF VerdictFirst, Owns, Executes
<1>8. CallbackKnows'
  <2>1. ASSUME NEW a \in Agents, NEW p \in Polls, NEW x \in Runs, poll[a][p].run = x,
               poll[a][p].at = "executing"
        PROVE  claimer[x] = a /\ mode[a] # "down"
    BY <2>1 DEF GrantsAreExclusive, DownIsEmpty, Owns, Granted, Idle
  <2>2. \A x \in Runs : isPipelineTerminal(status[x]) => isPipelineTerminal(status'[x])
    BY <1>3 DEF isPipelineTerminal, PIPELINE_RUN_TERMINAL_STATES
  <2> QED  BY <1>1, <1>3, <2>1, <2>2 DEF CallbackKnows, Shown
<1>9. HeldIsInHand'
  BY <1>1, <1>3 DEF HeldIsInHand, Holds, InHand, Works
<1> QED  BY <1>4, <1>5, <1>6, <1>7, <1>8, <1>9

-----------------------------------------------------------------------------
LEMMA InitInvariant == Init => IInv
<1> SUFFICES ASSUME Init PROVE IInv
  OBVIOUS
<1>1. Typed
  BY AgentAssumption DEF Init, Typed, PollTyped, NoPoll, Places, Modes, Works, Working
<1>2. \A a \in Agents, p \in Polls : poll[a][p] = NoPoll /\ Idle(a, p) /\ ~Works(a, p)
  BY DEF Init, NoPoll, Idle, Works, Working
<1>3. ClaimedByStatus /\ GrantsAreExclusive /\ VerdictFirst /\ FailureFirst /\ HeldIsInHand
  BY <1>2 DEF Init, ClaimedByStatus, GrantsAreExclusive, VerdictFirst, FailureFirst, HeldIsInHand,
              Owns, Executes, Holds, Granted, NoPoll
<1>4. DownIsEmpty /\ OneCallback /\ CallbackKnows
  BY <1>2 DEF Init, DownIsEmpty, OneCallback, CallbackKnows, Shown, NoPoll
<1> QED  BY <1>1, <1>3, <1>4 DEF IInv

LEMMA Invariant == Spec => []IInv
<1>1. IInv /\ UNCHANGED vars => IInv'
  BY DEF vars, rows, history, IInv, Typed, PollTyped, ClaimedByStatus, GrantsAreExclusive, VerdictFirst,
         DownIsEmpty, OneCallback, CallbackKnows, Shown, FailureFirst, HeldIsInHand, InHand, Holds,
         Owns, Executes, Idle, Works
<1>2. IInv /\ [Next]_vars => IInv'
  BY <1>1, ControlPlaneKeeps, ProcessKeeps, CallbackKeeps DEF Next
<1> QED  BY InitInvariant, <1>2, PTL DEF Spec

-----------------------------------------------------------------------------
(* The agents whose callbacks overlap.  A run that one callback executes is *)
(* shown as ended before that only if another callback of the agent was     *)
(* refused it, which doubled remembers.                                     *)

RefusalKnown ==
  /\ doubled \subseteq Agents \X Runs
  /\ \A a \in Agents, p \in Polls, r \in Runs :
       Executes(a, p, r) /\ <<a, r>> \notin doubled
         => /\ Shown(a, r)
            /\ \A q \in Polls : ~(poll[a][q].at = "failing" /\ poll[a][q].run = r)

\* The callback p of a goes to a place other than the execution of a run.
LEMMA RefusalFrame ==
  ASSUME RefusalKnown, NEW a \in Agents, NEW p \in Polls, NEW place \in Places \ {"executing"},
         NEW run, Moves(a, p, place, run),
         doubled \subseteq doubled', doubled' \subseteq Agents \X Runs,
         \A b \in Agents, q \in Polls, x \in Runs :
           Executes(b, q, x) /\ <<b, x>> \notin doubled' /\ (b # a \/ q # p)
             => status'[x] = status[x] /\ ~(b = a /\ place = "failing" /\ run = x)
  PROVE  RefusalKnown'
<1> SUFFICES ASSUME NEW b \in Agents, NEW q \in Polls, NEW x \in Runs,
                    Executes(b, q, x)', <<b, x>> \notin doubled'
             PROVE  /\ Shown(b, x)'
                    /\ \A k \in Polls : ~(poll'[b][k].at = "failing" /\ poll'[b][k].run = x)
  BY DEF RefusalKnown
<1>1. (b # a \/ q # p) /\ Executes(b, q, x) /\ <<b, x>> \notin doubled
  BY DEF Moves, Executes
<1>2. status'[x] = status[x] /\ ~(b = a /\ place = "failing" /\ run = x) /\ Shown(b, x)
  BY <1>1 DEF RefusalKnown
<1>3. ASSUME NEW k \in Polls, poll'[b][k].at = "failing", poll'[b][k].run = x PROVE FALSE
  <2>1. CASE b = a /\ k = p
    BY <1>2, <1>3, <2>1 DEF Moves
  <2>2. CASE b # a \/ k # p
    BY <1>1, <1>3, <2>2 DEF Moves, RefusalKnown
  <2> QED  BY <2>1, <2>2
<1> QED  BY <1>2, <1>3 DEF Shown

LEMMA DoublesKnown ==
  ASSUME PollTyped, doubled \subseteq Agents \X Runs, NEW a \in Agents, NEW p \in Polls,
         NEW place, poll[a][p].run \in Runs, Doubles(a, p, place)
  PROVE  /\ doubled \subseteq doubled' /\ doubled' \subseteq Agents \X Runs
         /\ \A q \in Polls : poll[a][q].at = place /\ poll[a][q].run = poll[a][p].run
                              => <<a, poll[a][p].run>> \in doubled'
<1>1. ASSUME NEW q \in Polls, poll[a][q].at = place, poll[a][q].run = poll[a][p].run
      PROVE  poll[a][q] = [at |-> place, run |-> poll[a][p].run]
  <2>1. poll[a][q] \in [at : Places, run : Runs \cup {None}]
    BY DEF PollTyped
  <2> QED  BY <1>1, <2>1
<1> QED  BY <1>1 DEF Doubles

LEMMA ClaimRefusal ==
  ASSUME IInv, RefusalKnown, NEW a \in Agents, NEW p \in Polls, Claim(a, p)
  PROVE  RefusalKnown'
<1>0. poll[a][p].at = "claiming" /\ PollTyped
  BY DEF Claim, At, IInv, Typed
<1>1. PICK r \in Runs : poll[a][p].run = r
  BY <1>0 DEF IInv, Typed, PollTyped, Works, Working
<1>2. /\ doubled \subseteq doubled' /\ doubled' \subseteq Agents \X Runs
      /\ \A q \in Polls : poll[a][q].at = "failing" /\ poll[a][q].run = r => <<a, r>> \in doubled'
  BY <1>0, <1>1, DoublesKnown DEF Claim, RefusalKnown
<1>3. PICK place \in {"executing", "failing"} : Moves(a, p, place, r)
  BY <1>0, <1>1, ToMoves DEF Claim, Places
<1>4. status[r] = "queued" /\ claimer[r] = None
  BY <1>1 DEF Claim, Claimable, IInv, ClaimedByStatus
<1>5. status'[r] = "running" /\ \A x \in Runs : x # r => status'[x] = status[x]
  BY <1>1 DEF Claim, IInv, Typed
<1>6. \A b \in Agents, q \in Polls : ~Executes(b, q, r)
  BY <1>4, AgentAssumption DEF IInv, GrantsAreExclusive, Owns, Executes, Granted
<1>7. CASE place = "failing"
  <2>1. place \in Places \ {"executing"}
    BY <1>7 DEF Places
  <2> QED  BY <1>2, <1>3, <1>5, <1>6, <2>1, RefusalFrame
<1>8. CASE place = "executing"
  <2> SUFFICES ASSUME NEW b \in Agents, NEW q \in Polls, NEW x \in Runs,
                      Executes(b, q, x)', <<b, x>> \notin doubled'
               PROVE  /\ Shown(b, x)'
                      /\ \A k \in Polls : ~(poll'[b][k].at = "failing" /\ poll'[b][k].run = x)
    BY <1>2 DEF RefusalKnown
  <2>1. CASE b = a /\ q = p
    <3>1. x = r /\ Shown(b, x)'
      BY <1>3, <1>5, <2>1 DEF Moves, Executes, Shown
    <3> QED  BY <1>2, <1>3, <1>8, <2>1, <3>1 DEF Moves
  <2>2. CASE b # a \/ q # p
    <3>1. Executes(b, q, x) /\ x # r
      BY <1>3, <1>6, <2>2 DEF Moves, Executes
    <3>2. Shown(b, x) /\ \A k \in Polls : ~(poll[b][k].at = "failing" /\ poll[b][k].run = x)
      BY <1>2, <3>1 DEF RefusalKnown
    <3> QED  BY <1>3, <1>5, <1>8, <3>1, <3>2 DEF Moves, Shown
  <2> QED  BY <2>1, <2>2
<1> QED  BY <1>3, <1>7, <1>8

LEMMA ClaimFailsRefusal ==
  ASSUME IInv, RefusalKnown, NEW a \in Agents, NEW p \in Polls, ClaimFails(a, p)
  PROVE  RefusalKnown'
<1>0. poll[a][p].at = "claiming" /\ PollTyped /\ UNCHANGED status
  BY DEF ClaimFails, At, IInv, Typed, rows
<1>1. PICK r \in Runs : poll[a][p].run = r
  BY <1>0 DEF IInv, Typed, PollTyped, Works, Working
<1>2. /\ doubled \subseteq doubled' /\ doubled' \subseteq Agents \X Runs
      /\ \A q \in Polls : poll[a][q].at = "executing" /\ poll[a][q].run = r => <<a, r>> \in doubled'
  BY <1>0, <1>1, DoublesKnown DEF ClaimFails, RefusalKnown
<1>3. Moves(a, p, "failing", r) /\ "failing" \in Places \ {"executing"}
  BY <1>0, <1>1, ToMoves DEF ClaimFails, Places
<1> QED  BY <1>0, <1>2, <1>3, RefusalFrame DEF Executes

\* The other callbacks refuse nothing, and what they report is about a run that
\* they own, or that they were refused.
LEMMA CallbackRefusal ==
  ASSUME IInv, RefusalKnown, NEW a \in Agents, NEW p \in Polls, Callback(a, p)
  PROVE  RefusalKnown'
<1> DEFINE r == poll[a][p].run
<1>0. PollTyped /\ r \in Runs \cup {None} /\ doubled \subseteq Agents \X Runs
  BY DEF IInv, Typed, PollTyped, RefusalKnown
<1>1. CASE Tick(a, p) \/ Answer(a, p) \/ LosePoll(a, p) \/ Resume(a, p)
           \/ EndPipeline(a, p) \/ EndCancelled(a, p)
  <2>1. UNCHANGED <<status, doubled>>
    BY <1>1 DEF Tick, Answer, LosePoll, Resume, EndPipeline, EndCancelled, rows, history
  <2>2. \E place \in Places \ {"executing", "failing"}, run \in Runs \cup {None} : Moves(a, p, place, run)
    <3>1. CASE Tick(a, p) \/ EndPipeline(a, p) \/ (Resume(a, p) /\ To(a, p, "claiming"))
      <4>1. PICK place \in {"asked", "reporting", "regretting", "claiming"} : To(a, p, place)
        BY <3>1 DEF Tick, EndPipeline
      <4> QED  BY <1>0, <4>1, ToMoves DEF Places
    <3>2. CASE Answer(a, p)
      <4>1. PICK run \in Runs \cup {None} :
              poll' = [poll EXCEPT ![a][p] = [at |-> "answered", run |-> run]]
        BY <3>2 DEF Answer, Queued
      <4> QED  BY <1>0, <4>1, PollMoves DEF Places
    <3>3. CASE poll' = [poll EXCEPT ![a][p] = NoPoll]
      BY <1>0, <3>3, NoPollMoves DEF Places
    <3> QED  BY <1>1, <3>1, <3>2, <3>3 DEF LosePoll, Resume, EndCancelled, Return, Finally
  <2> QED  BY <1>0, <2>1, <2>2, RefusalFrame
<1>2. CASE Reported(a, p)
  <2>0. poll[a][p].at \in {"reporting", "regretting", "failing"} /\ UNCHANGED <<claimer, target, mode, verdict, doubled>>
    BY <1>2 DEF Reported, ReportVerdict, ReportFailed, ReportJobFailed, At, history
  <2>1. r \in Runs
    BY <1>0, <2>0 DEF IInv, Typed, Works, Working
  <2>2. \E place \in Places \ {"executing"} :
          /\ Moves(a, p, place, r) \/ Moves(a, p, place, None)
          /\ place = "failing" => poll[a][p].at = "regretting"
    <3>1. CASE Finally(a, p)
      <4>1. Moves(a, p, "idle", None) /\ "idle" \in Places \ {"executing"}
        BY <1>0, <3>1, NoPollMoves DEF Finally, Places
      <4> QED  BY <4>1
    <3>2. CASE \/ ReportVerdict(a, p) /\ To(a, p, "regretting")
               \/ ReportFailed(a, p) /\ To(a, p, "failing")
      BY <1>0, <3>2, ToMoves DEF ReportFailed, At, Places
    <3> QED  BY <1>2, <3>1, <3>2 DEF Reported, ReportVerdict, ReportFailed, ReportJobFailed
  <2>3. \A x \in Runs : status'[x] = status[x] \/ (x = r /\ claimer[r] = a)
    <3>1. UNCHANGED status \/ \E s \in {"success", "failed"}, ok \in BOOLEAN : Report(a, r, s, ok)
      <4>1. poll[a][p].at = "reporting" => verdict[r] \in {"success", "failed"}
        BY <2>1 DEF IInv, Typed, VerdictFirst, Owns, Executes, Granted
      <4> QED  BY <1>2, <4>1 DEF Reported, ReportVerdict, ReportFailed, ReportJobFailed, At
    <3>2. ASSUME NEW s \in {"success", "failed"}, NEW ok \in BOOLEAN, Report(a, r, s, ok)
          PROVE  \A x \in Runs : status'[x] = status[x] \/ (x = r /\ claimer[r] = a)
      BY <2>0, <2>1, <3>2, ReportHeard DEF IInv, Heard
    <3> QED  BY <3>1, <3>2
  <2>4. ASSUME NEW b \in Agents, NEW q \in Polls, NEW x \in Runs,
               Executes(b, q, x), <<b, x>> \notin doubled, b # a \/ q # p
        PROVE  x # r \/ (claimer[r] # a /\ b # a)
    <3>1. claimer[x] = b
      BY <2>4 DEF IInv, GrantsAreExclusive, Owns, Executes, Granted
    <3>2. ASSUME x = r, b = a PROVE FALSE
      <4>1. poll[a][p].at # "failing"
        BY <2>4, <3>2 DEF RefusalKnown
      <4>2. Owns(a, p, r) /\ Owns(a, q, r)
        BY <2>0, <2>4, <3>2, <4>1 DEF Owns, Executes, Granted
      <4> QED  BY <2>1, <2>4, <3>2, <4>2 DEF IInv, GrantsAreExclusive
    <3> QED  BY <3>1, <3>2
  <2>5. \A b \in Agents, q \in Polls, x \in Runs :
          Executes(b, q, x) /\ <<b, x>> \notin doubled' /\ (b # a \/ q # p)
            => status'[x] = status[x] /\ ~(b = a /\ (r = x \/ None = x))
    BY <2>0, <2>3, <2>4, AgentAssumption
  <2>6. doubled \subseteq doubled' /\ doubled' \subseteq Agents \X Runs
    BY <1>0, <2>0
  <2>7. PICK place \in Places \ {"executing"} : Moves(a, p, place, r) \/ Moves(a, p, place, None)
    BY <2>2
  <2>8. CASE Moves(a, p, place, r)
    BY <2>5, <2>6, <2>8, RefusalFrame
  <2>9. CASE Moves(a, p, place, None)
    BY <2>5, <2>6, <2>9, RefusalFrame
  <2> QED  BY <2>7, <2>8, <2>9
<1> QED
  BY <1>1, <1>2, ClaimRefusal, ClaimFailsRefusal DEF Callback, Requested

LEMMA ControlPlaneRefusal == ASSUME IInv, RefusalKnown, ControlPlane PROVE RefusalKnown'
<1>1. UNCHANGED <<claimer, mode, poll, doubled>>
  BY DEF ControlPlane, Submit, CancelRun, Reap, history
<1>2. \A x \in Runs :
        \/ status'[x] = status[x]
        \/ status[x] = "absent"
        \/ status'[x] = "cancelled"
        \/ (mode[claimer[x]] = "down" \/ claimer[x] \in Lossy) /\ status'[x] = "timed_out"
  BY DEF ControlPlane, Submit, CancelRun, Reap, IInv, Typed
<1>3. ASSUME NEW a \in Agents, NEW p \in Polls, NEW x \in Runs, Executes(a, p, x)
      PROVE  claimer[x] = a /\ mode[a] # "down" /\ status[x] # "absent"
  BY <1>3, AgentAssumption DEF IInv, GrantsAreExclusive, ClaimedByStatus, DownIsEmpty, Owns, Executes, Granted, Idle
<1> QED  BY <1>1, <1>2, <1>3 DEF RefusalKnown, Executes, Shown

LEMMA ProcessRefusal == ASSUME RefusalKnown, NEW a \in Agents, IInv, Process(a) PROVE RefusalKnown'
<1>1. UNCHANGED <<status, doubled>>
  BY DEF Process, Stopping, Shutdown, WaitForJob, Exit, ExitOnTimeout, Crash, Restart, Gone, rows, history
<1>2. \A b \in Agents, q \in Polls : poll'[b][q] \in {poll[b][q], NoPoll}
  <2>1. poll \in [Agents -> [Polls -> [at : Places, run : Runs \cup {None}]]]
    BY DEF IInv, Typed, PollTyped
  <2>2. UNCHANGED poll \/ poll' = [poll EXCEPT ![a] = [p \in Polls |-> NoPoll]]
    BY DEF Process, Stopping, Shutdown, WaitForJob, Exit, ExitOnTimeout, Crash, Restart, Gone
  <2> QED  BY <2>1, <2>2
<1> QED  BY <1>1, <1>2 DEF RefusalKnown, Executes, Shown, NoPoll

LEMMA Refusals == Spec => []RefusalKnown
<1>1. Init => RefusalKnown
  BY DEF Init, RefusalKnown, Executes, NoPoll
<1>2. IInv /\ RefusalKnown /\ UNCHANGED vars => RefusalKnown'
  BY DEF vars, rows, history, RefusalKnown, Executes, Shown
<1>3. IInv /\ RefusalKnown /\ [Next]_vars => RefusalKnown'
  BY <1>2, ControlPlaneRefusal, ProcessRefusal, CallbackRefusal DEF Next
<1> QED  BY <1>1, <1>3, Invariant, PTL DEF Spec

(* Every row, process and callback is well formed, and a callback that is at *)
(* work has a run.                                                           *)
THEOREM TypeCorrect == Spec => []TypeOK
<1>1. IInv /\ RefusalKnown => TypeOK
  BY TypedImpliesTypeOK DEF IInv, RefusalKnown
<1> QED  BY <1>1, Invariant, Refusals, PTL

(* While an agent executes a run, whatever it loses and whatever other agents *)
(* report, the run is shown as running or cancelled, or as timed out if its    *)
(* heartbeats may be lost; if its polls overlap, unless one was refused it.    *)
THEOREM NoFalseFailure == Spec => []NotFailedWhileExecuting
<1>1. IInv /\ RefusalKnown => NotFailedWhileExecuting
  BY DEF IInv, RefusalKnown, CallbackKnows, Shown, NotFailedWhileExecuting, Executes
<1> QED  BY <1>1, Invariant, Refusals, PTL

(* A run is shown as a success only if its execution came to one, by any     *)
(* agent; as failed, if the agent is neither slow nor lossy, likewise.       *)
THEOREM StatusesAreHonest == Spec => []StatusIsHonest
<1>1. IInv => StatusIsHonest
  BY DEF IInv, VerdictFirst, FailureFirst, StatusIsHonest
<1> QED  BY <1>1, Invariant, PTL

(* A shutdown that waited for the job leaves no run behind as running.       *)
THEOREM ShutdownLeavesNothing == Spec => []LeavesNothing
<1>1. IInv => LeavesNothing
  BY DEF IInv, HeldIsInHand, OneCallback, LeavesNothing, InHand, Works, Working, Idle
<1> QED  BY <1>1, Invariant, PTL
==============================================================================
