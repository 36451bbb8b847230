---------------------- MODULE PipelineExecutionProofs ----------------------
(***************************************************************************)
(* Proofs about PipelineExecution for every pipeline whose groups are what *)
(* resolveDAG promises (PipelineAssumption).  The invariant adds to TypeOK *)
(* how far the walk through the groups has come: groups not yet reached    *)
(* are untouched, groups left behind have an outcome for every task, and   *)
(* an outcome says how its task ended.                                     *)
(***************************************************************************)
EXTENDS PipelineExecution, TLAPS

USE PipelineAssumption

Untouched == {"cloning", "preparing", "check"}
Walking == Untouched \cup {"skip", "run"}
Over == {"catch", "again", "ended"}

\* Where the walk is.
Position == /\ pc \in {"skip", "run"} => group <= Len(Groups)
            /\ pc = "report" => group > Len(Groups)
            /\ pc \in {"cloning", "preparing"} => group = 1
            /\ pc = "cancelRest" => aborted
            /\ aborted => run = "cancelled"

\* The groups ahead are as they were at the start.
Ahead ==
    \A i \in DOMAIN Groups : \A t \in Groups[i] :
       /\ i > group \/ (i = group /\ pc \in Untouched \cup {"skip"}) => at[t] = "idle"
       /\ pc \in Walking /\ (i > group \/ (i = group /\ pc \in Untouched)) => outcome[t] = "none"
       /\ pc \in Walking /\ i = group => outcome[t] \in {"none", "skipped"}

\* The groups behind have outcomes.
Behind == /\ \A i \in DOMAIN Groups : i < group => \A t \in Groups[i] : outcome[t] # "none"
          /\ pc = "run" => \A t \in Groups[group] : Blocked(t) => outcome[t] = "skipped"

\* What an outcome and a place tell.
Results ==
    \A t \in Tasks :
       /\ at[t] \in {"launching", "stepping"} => left[t] > 0
       /\ at[t] \in {"deploying", "succeeding", "success"} => left[t] = 0
       /\ at[t] \in {"cancelling", "cancelled"} => aborted
       /\ outcome[t] = "success" => at[t] = "success"
       /\ outcome[t] = "cancelled" => aborted
       /\ outcome[t] = "skipped" => \E u \in Tasks : outcome[u] \in {"failed", "cancelled"}

\* What is known of the verdict once it has been tried.
Verdicts ==
    /\ run \notin {"running", "cancelled"} => pc \in Over
    /\ pc \in {"catch", "again"} /\ run = "running" /\ ~lost => \A t \in Tasks : outcome[t] = "none"

Inv == TypeOK /\ Position /\ Ahead /\ Behind /\ Results /\ Verdicts
       /\ DependenciesFirst /\ HonestVerdict

-----------------------------------------------------------------------------
\* The group a task is in, and the groups of what it depends on.
LEMMA GroupFacts ==
    /\ Len(Groups) \in Nat /\ DOMAIN Groups = 1..Len(Groups)
    /\ \A i \in DOMAIN Groups : Groups[i] \subseteq Tasks
    /\ \A t \in Tasks : \E i \in DOMAIN Groups : t \in Groups[i]
    /\ \A i, j \in DOMAIN Groups : \A t \in Groups[i] \cap Groups[j] : i = j
    /\ \A i \in DOMAIN Groups : \A t \in Groups[i] : \A d \in Deps[t] :
          d \in Tasks /\ \E j \in DOMAIN Groups : j < i /\ d \in Groups[j]
<1>1. Len(Groups) \in Nat /\ DOMAIN Groups = 1..Len(Groups)
  OBVIOUS
<1>2. \A i \in DOMAIN Groups : Groups[i] \subseteq Tasks
  OBVIOUS
<1>3. \A t \in Tasks : \E i \in DOMAIN Groups : t \in Groups[i]
  OBVIOUS
<1>4. \A i, j \in DOMAIN Groups : \A t \in Groups[i] \cap Groups[j] : i = j
  OBVIOUS
<1>5. ASSUME NEW i \in DOMAIN Groups, NEW t \in Groups[i], NEW d \in Deps[t]
      PROVE  d \in Tasks /\ \E j \in DOMAIN Groups : j < i /\ d \in Groups[j]
  <2>1. d \in UNION {Groups[j] : j \in 1..(i - 1)}
    OBVIOUS
  <2>2. PICK j \in 1..(i - 1) : d \in Groups[j]
    BY <2>1
  <2>3. j \in DOMAIN Groups /\ j < i
    BY <1>1
  <2> QED BY <1>2, <2>2, <2>3
<1> QED
  BY <1>1, <1>2, <1>3, <1>4, <1>5

\* A report leaves the rows what they are, rows of statuses.
LEMMA ReportKeepsRows ==
    ASSUME TypeOK, NEW t \in Tasks, NEW s \in TaskStatuses, ReportTask(t, s)
    PROVE  row' \in [Tasks -> TaskStatuses] /\ run' = run /\ sweep' = sweep /\ lost' \in BOOLEAN /\ (lost => lost')
<1>1. row' = row \/ row' = [row EXCEPT ![t] = IF validateTaskTransition(row[t], s)
                                              THEN s ELSE row[t]]
  BY DEF ReportTask
<1>2. ASSUME NEW x \in TaskStatuses PROVE [row EXCEPT ![t] = x] \in [Tasks -> TaskStatuses]
  BY DEF TypeOK
<1>3. row[t] \in TaskStatuses /\ row \in [Tasks -> TaskStatuses]
  BY DEF TypeOK
<1>4. row' \in [Tasks -> TaskStatuses]
  <2>1. CASE row' = row
    BY <1>3, <2>1
  <2>2. CASE row' = [row EXCEPT ![t] = IF validateTaskTransition(row[t], s)
                                       THEN s ELSE row[t]]
    BY <1>2, <1>3, <2>2
  <2> QED BY <1>1, <2>1, <2>2
<1> QED
  BY <1>4 DEF ReportTask, TypeOK

\* A step of one task that has started and not returned.
LEMMA TaskMoves ==
    ASSUME Inv, NEW t \in Tasks, NEW p \in Places,
           at[t] \notin Returned \cup {"idle"}, p # "idle",
           at' = [at EXCEPT ![t] = p], TaskOnly,
           run' = run, sweep' = sweep, lost' \in BOOLEAN, lost => lost', row' \in [Tasks -> TaskStatuses],
           left' \in [Tasks -> Nat], \A u \in Tasks \ {t} : left'[u] = left[u],
           p \in {"launching", "stepping"} => left'[t] > 0,
           p \in {"deploying", "succeeding", "success"} => left'[t] = 0,
           p \in {"cancelling", "cancelled"} => aborted
    PROVE  Inv'
<1>1. TypeOK'
  BY DEF Inv, TypeOK, TaskOnly
<1>2. /\ \A u \in Tasks : at'[u] = IF u = t THEN p ELSE at[u]
      /\ \A u \in Tasks : at'[u] = "idle" <=> at[u] = "idle"
  BY DEF Inv, TypeOK
<1>3. Position'
  BY DEF Inv, Position, TaskOnly
<1>4. Ahead'
  BY <1>2, GroupFacts DEF Inv, Ahead, TaskOnly
<1>5. Behind'
  BY DEF Inv, Behind, TaskOnly, Blocked
<1>6. Results'
  <2> DEFINE Told(u) == /\ at[u] \in {"launching", "stepping"} => left[u] > 0
                        /\ at[u] \in {"deploying", "succeeding", "success"} => left[u] = 0
                        /\ at[u] \in {"cancelling", "cancelled"} => aborted
                        /\ outcome[u] = "success" => at[u] = "success"
                        /\ outcome[u] = "cancelled" => aborted
                        /\ outcome[u] = "skipped" =>
                             \E v \in Tasks : outcome[v] \in {"failed", "cancelled"}
  <2>1. outcome' = outcome /\ aborted' = aborted
    BY DEF TaskOnly
  <2>2. \A u \in Tasks : Told(u)
    BY DEF Inv, Results
  <2>3. ASSUME NEW u \in Tasks, u # t PROVE Told(u)'
    <3>1. at'[u] = at[u] /\ left'[u] = left[u]
      BY <1>2, <2>3
    <3>2. Told(u)
      BY <2>2
    <3> QED
      BY <2>1, <3>1, <3>2
  <2>4. Told(t)'
    <3>1. at'[t] = p
      BY <1>2
    <3>2. Told(t) /\ outcome[t] # "success"
      BY <2>2 DEF Returned
    <3> QED
      BY <2>1, <3>1, <3>2
  <2>5. \A u \in Tasks : Told(u)'
    BY <2>3, <2>4
  <2> QED
    BY <2>5 DEF Results
<1>7. Verdicts'
  BY DEF Inv, Verdicts, TaskOnly
<1>8. DependenciesFirst'
  BY <1>2 DEF Inv, DependenciesFirst, TaskOnly
<1>9. HonestVerdict'
  <2>1. outcome[t] # "success"
    BY DEF Inv, Results, Returned
  <2> QED
    BY <2>1 DEF Inv, HonestVerdict, TaskOnly
<1> QED
  BY <1>1, <1>3, <1>4, <1>5, <1>6, <1>7, <1>8, <1>9 DEF Inv

LEMMA TaskInv ==
    ASSUME Inv, NEW t \in Tasks,
           TaskStep(t) \/ PassGate(t) \/ StepSucceeds(t) \/ StepFails(t)
    PROVE  Inv'
<1> USE DEF Go, Quiet, server
<1>0. TypeOK /\ left[t] \in Nat
  BY DEF Inv, TypeOK
<1>1. CASE AwaitApproval(t)
  <2>1. row' \in [Tasks -> TaskStatuses] /\ run' = run /\ sweep' = sweep /\ lost' \in BOOLEAN /\ (lost => lost')
    BY <1>0, <1>1, ReportKeepsRows DEF AwaitApproval, TaskStatuses
  <2> QED
    BY <1>0, <1>1, <2>1, TaskMoves DEF AwaitApproval, Places, Returned, TypeOK
<1>2. CASE StartTask(t)
  <2>1. row' \in [Tasks -> TaskStatuses] /\ run' = run /\ sweep' = sweep /\ lost' \in BOOLEAN /\ (lost => lost')
    BY <1>0, <1>2, ReportKeepsRows DEF StartTask, TaskStatuses
  <2> QED
    BY <1>0, <1>2, <2>1, TaskMoves DEF StartTask, Places, Returned, TypeOK
<1>3. CASE ReturnTask(t)
  <2>1. PICK o \in Returned :
          /\ at[t] = CASE o = "success" -> "succeeding"
                       [] o = "failed" -> "failing"
                       [] o = "cancelled" -> "cancelling"
          /\ ReportTask(t, o)
          /\ Go(t, o)
    BY <1>3 DEF ReturnTask
  <2>2. row' \in [Tasks -> TaskStatuses] /\ run' = run /\ sweep' = sweep /\ lost' \in BOOLEAN /\ (lost => lost')
    BY <1>0, <2>1, ReportKeepsRows DEF Returned, TaskStatuses
  <2>3. /\ o = "success" => left[t] = 0
        /\ o = "cancelled" => aborted
        /\ at[t] \notin Returned \cup {"idle"}
    BY <2>1 DEF Inv, Results, Returned
  <2> QED
    BY <1>0, <1>3, <2>1, <2>2, <2>3, TaskMoves DEF ReturnTask, Places, Returned, TypeOK
<1>4. CASE LeaveGate(t)
  BY <1>0, <1>4, TaskMoves DEF LeaveGate, Places, Returned, TypeOK
<1>5. CASE NextStep(t)
  BY <1>0, <1>5, TaskMoves DEF NextStep, Places, Returned, TypeOK
<1>6. CASE Launch(t)
  <2>1. left[t] > 0
    BY <1>6 DEF Launch, Inv, Results
  <2>2. CASE aborted /\ Go(t, "cancelling")
    BY <1>0, <1>6, <2>2, TaskMoves DEF Launch, Places, Returned, TypeOK
  <2>3. CASE Go(t, "stepping")
    BY <1>0, <1>6, <2>1, <2>3, TaskMoves DEF Launch, Places, Returned, TypeOK
  <2>4. CASE Go(t, "failing")
    BY <1>0, <1>6, <2>4, TaskMoves DEF Launch, Places, Returned, TypeOK
  <2> QED BY <1>6, <2>2, <2>3, <2>4 DEF Launch
<1>7. CASE KillStep(t)
  BY <1>0, <1>7, TaskMoves DEF KillStep, Places, Returned, TypeOK
<1>8. CASE FinishTask(t)
  BY <1>0, <1>8, TaskMoves DEF FinishTask, Places, Returned, TypeOK
<1>9. CASE Deploy(t)
  <2>1. left[t] = 0
    BY <1>9 DEF Deploy, Inv, Results
  <2> QED
    BY <1>0, <1>9, <2>1, TaskMoves DEF Deploy, Places, Returned, TypeOK
<1>10. CASE PassGate(t)
  BY <1>0, <1>10, TaskMoves DEF PassGate, Places, Returned, TypeOK
<1>11. CASE StepSucceeds(t)
  <2>1. left[t] > 0
    BY <1>11 DEF StepSucceeds, Inv, Results
  <2>2. left' \in [Tasks -> Nat] /\ \A u \in Tasks \ {t} : left'[u] = left[u]
    <3>1. left \in [Tasks -> Nat] /\ t \in Tasks
      BY <1>0 DEF TypeOK
    <3>2. left' = [left EXCEPT ![t] = left[t] - 1]
      BY <1>11 DEF StepSucceeds
    <3>3. left[t] - 1 \in Nat
      BY ONLY <2>1, <3>1
    <3> QED BY ONLY <3>1, <3>2, <3>3
  <2>3. /\ at[t] \notin Returned \cup {"idle"} /\ "between" \in Places
        /\ at' = [at EXCEPT ![t] = "between"] /\ TaskOnly /\ UNCHANGED server
    BY <1>11 DEF StepSucceeds, Places, Returned
  <2>4. lost' \in BOOLEAN /\ (lost => lost') /\ row' \in [Tasks -> TaskStatuses]
    BY <1>0, <2>3 DEF TypeOK
  <2> QED
    BY <2>2, <2>3, <2>4, TaskMoves
<1>12. CASE StepFails(t)
  BY <1>0, <1>12, TaskMoves DEF StepFails, Places, Returned, TypeOK
<1> QED
  BY <1>1, <1>2, <1>3, <1>4, <1>5, <1>6, <1>7, <1>8, <1>9, <1>10, <1>11, <1>12 DEF TaskStep

LEMMA InitInv == Init => Inv
<1> SUFFICES ASSUME Init PROVE Inv
  OBVIOUS
<1> USE GroupFacts DEF Init
<1>1. TypeOK
  <2>1. 1 \in 1..(Len(Groups) + 1)
    OBVIOUS
  <2> QED
    BY <2>1 DEF TypeOK, PipelineStatuses, TaskStatuses, Places, Outcomes
<1>2. Position /\ Verdicts /\ DependenciesFirst
  BY DEF Position, Verdicts, DependenciesFirst
<1>3. Ahead
  BY DEF Ahead, Walking, Untouched
<1>4. Behind /\ Results
  BY DEF Behind, Results
<1>5. HonestVerdict
  BY DEF HonestVerdict
<1> QED
  BY <1>1, <1>2, <1>3, <1>4, <1>5 DEF Inv

\* The steps of the watcher, of the user, and those of executePipeline before
\* its groups: no outcome and no place changes.
LEMMA WatchInv ==
    ASSUME Inv, CancelRun \/ CancelRows \/ Poll \/ CloneWorkspace \/ Prepare \/ BeginGroup \/ EndGroups
    PROVE  Inv'
<1> USE DEF server, runner, Checked
<1>0. /\ at' = at /\ left' = left /\ outcome' = outcome /\ group' = group /\ lost' = lost
      /\ aborted => aborted'
      /\ run' \in {run, "cancelled"} /\ (run # "running" => run' = run)
      /\ aborted' => aborted \/ run = "cancelled"
  <2>1. CASE BeginGroup
    <3>1. aborted' = aborted \/ aborted' = (run = "cancelled")
      BY <2>1 DEF BeginGroup
    <3>2. aborted => run = "cancelled"
      BY DEF Inv, Position
    <3>3. UNCHANGED <<run, lost, group, at, left, outcome>>
      BY <2>1 DEF BeginGroup
    <3>4. CASE aborted' = aborted
      BY <3>3, <3>4
    <3>5. CASE aborted' = (run = "cancelled")
      <4>1. aborted => aborted'
        BY <3>2, <3>5, Zenon
      <4>2. aborted' => run = "cancelled"
        BY <3>5, Zenon
      <4> QED BY <3>3, <4>1, <4>2
    <3> QED BY <3>1, <3>4, <3>5
  <2>2. CASE ~BeginGroup
    BY <2>2 DEF CancelRun, CancelRows, Poll, CloneWorkspace, Prepare, EndGroups
  <2> QED BY <2>1, <2>2
<1>1. TypeOK'
  <2>1. row' \in [Tasks -> TaskStatuses] /\ sweep' \in BOOLEAN
    BY DEF CancelRun, CancelRows, Poll, CloneWorkspace, Prepare, BeginGroup, EndGroups,
           Inv, TypeOK, TaskStatuses
  <2>2. pc' \in {"cloning", "preparing", "check", "skip", "run", "cancelRest",
                 "report", "catch", "again", "ended"} /\ watching' \in BOOLEAN /\ aborted' \in BOOLEAN
    BY DEF CancelRun, CancelRows, Poll, CloneWorkspace, Prepare, BeginGroup, EndGroups, Inv, TypeOK
  <2> QED
    BY <1>0, <2>1, <2>2 DEF Inv, TypeOK, PipelineStatuses
<1>2. Position'
  BY <1>0, GroupFacts DEF CancelRun, CancelRows, Poll, CloneWorkspace, Prepare, BeginGroup, EndGroups,
           Inv, Position, TypeOK
<1>3. Ahead'
  <2>1. /\ pc' \in Walking => pc \in Walking
        /\ pc' \in Untouched => pc \in Untouched
        /\ pc' \in Untouched \cup {"skip"} => pc \in Untouched \cup {"skip"}
    BY DEF CancelRun, CancelRows, Poll, CloneWorkspace, Prepare, BeginGroup, EndGroups,
           Walking, Untouched
  <2> QED
    BY <1>0, <2>1, GroupFacts DEF Inv, Ahead
<1>4. Behind'
  <2>1. pc' = "run" => pc = "run"
    BY DEF CancelRun, CancelRows, Poll, CloneWorkspace, Prepare, BeginGroup, EndGroups
  <2> QED
    BY <1>0, <2>1 DEF Inv, Behind, Blocked
<1>5. Results'
  BY <1>0 DEF Inv, Results
<1>6. Verdicts'
  <2>1. pc \in Over => pc' = pc
    BY DEF CancelRun, CancelRows, Poll, CloneWorkspace, Prepare, BeginGroup, EndGroups, Over
  <2>2. pc' \in {"catch", "again"} => pc \in {"catch", "again"} \/ \A t \in Tasks : outcome[t] = "none"
    <3>1. CASE CloneWorkspace \/ Prepare
      <4>1. pc \in {"cloning", "preparing"} /\ group = 1
        BY <3>1 DEF CloneWorkspace, Prepare, Inv, Position
      <4>2. ASSUME NEW t \in Tasks PROVE outcome[t] = "none"
        BY <4>1, GroupFacts DEF Inv, Ahead, Walking, Untouched
      <4> QED BY <4>2
    <3>2. CASE ~(CloneWorkspace \/ Prepare)
      BY <3>2 DEF CancelRun, CancelRows, Poll, BeginGroup, EndGroups
    <3> QED BY <3>1, <3>2
  <2> QED
    BY <1>0, <2>1, <2>2 DEF Inv, Verdicts, Over
<1>7. DependenciesFirst' /\ HonestVerdict'
  BY <1>0 DEF Inv, DependenciesFirst, HonestVerdict
<1> QED
  BY <1>1, <1>2, <1>3, <1>4, <1>5, <1>6, <1>7 DEF Inv

LEMMA SkipTaskInv == Inv /\ SkipTask => Inv'
<1> SUFFICES ASSUME Inv, SkipTask PROVE Inv'
  OBVIOUS
<1> USE GroupFacts
<1>1. group \in DOMAIN Groups /\ pc = "skip" /\ pc' = "skip"
  BY DEF Inv, Position, TypeOK, SkipTask
<1>2. PICK t \in Groups[group] : /\ Blocked(t) /\ outcome[t] = "none"
                                 /\ ReportTask(t, "skipped")
                                 /\ outcome' = [outcome EXCEPT ![t] = "skipped"]
  BY DEF SkipTask
<1>3. t \in Tasks /\ UNCHANGED <<pc, group, at, left, watching, aborted>>
  BY <1>1 DEF SkipTask
<1>4. row' \in [Tasks -> TaskStatuses] /\ run' = run /\ sweep' = sweep /\ lost' \in BOOLEAN /\ (lost => lost')
  BY <1>2, <1>3, ReportKeepsRows DEF Inv, TaskStatuses
<1>5. \A u \in Tasks : outcome'[u] = IF u = t THEN "skipped" ELSE outcome[u]
  BY <1>2, <1>3 DEF Inv, TypeOK
<1>6. TypeOK'
  BY <1>2, <1>3, <1>4 DEF Inv, TypeOK, Outcomes
<1>7. Position' /\ Verdicts'
  BY <1>1, <1>3, <1>4 DEF Inv, Position, Verdicts, Over
<1>8. Ahead'
  BY <1>1, <1>2, <1>3, <1>5 DEF Inv, Ahead, Walking, Untouched
<1>9. Behind'
  BY <1>1, <1>3, <1>5 DEF Inv, Behind
<1>10. Results'
  <2>1. PICK d \in Deps[t] : outcome[d] \notin {"none", "success"}
    BY <1>2 DEF Blocked
  <2>2. d \in Tasks /\ outcome[d] \in {"failed", "cancelled", "skipped"}
    BY <1>1, <1>3, <2>1 DEF Inv, TypeOK, Outcomes
  <2>3. PICK w \in Tasks : outcome[w] \in {"failed", "cancelled"}
    BY <2>2 DEF Inv, Results
  <2>4. outcome'[w] \in {"failed", "cancelled"}
    BY <1>2, <1>5, <2>3
  <2> QED
    BY <1>3, <1>5, <2>3, <2>4 DEF Inv, Results
<1>11. DependenciesFirst'
  <2>1. \A d \in Tasks : outcome[d] = "success" => outcome'[d] = "success"
    BY <1>2, <1>5
  <2>2. \A u \in Tasks : Deps[u] \subseteq Tasks
    BY PipelineAssumption
  <2>3. \A u \in Tasks : at[u] # "idle" => \A d \in Deps[u] : outcome[d] = "success"
    BY DEF Inv, DependenciesFirst
  <2>4. at' = at
    BY <1>3
  <2>5. \A u \in Tasks : at'[u] # "idle" => \A d \in Deps[u] : outcome'[d] = "success"
    BY ONLY <2>1, <2>2, <2>3, <2>4
  <2> QED BY ONLY <2>5 DEF DependenciesFirst
<1>12. HonestVerdict'
  BY <1>1, <1>4 DEF Inv, Verdicts, HonestVerdict, Over
<1> QED
  BY <1>6, <1>7, <1>8, <1>9, <1>10, <1>11, <1>12 DEF Inv

LEMMA StartGroupInv == Inv /\ StartGroup => Inv'
<1> SUFFICES ASSUME Inv, StartGroup PROVE Inv'
  OBVIOUS
<1> USE GroupFacts
<1>1. /\ group \in DOMAIN Groups /\ pc = "skip" /\ pc' = "run"
      /\ UNCHANGED <<server, group, left, outcome, watching, aborted>>
  BY DEF Inv, Position, TypeOK, StartGroup
<1>2. \A t \in Tasks : at'[t] = IF Runnable(t) THEN First(t) ELSE at[t]
  BY DEF StartGroup
<1>3. \A t \in Tasks : Runnable(t) => at[t] = "idle"
  BY <1>1 DEF Runnable, Inv, Ahead
<1>4. TypeOK'
  BY <1>1 DEF StartGroup, Inv, TypeOK, First, Places, server
<1>5. Position' /\ Verdicts'
  BY <1>1 DEF Inv, Position, Verdicts, Over, server
<1>6. Ahead'
  <2>1. ASSUME NEW i \in DOMAIN Groups, i > group, NEW t \in Groups[i] PROVE at'[t] = at[t]
    <3>1. t \in Tasks /\ group # i /\ i \in DOMAIN Groups
      BY <1>1, <2>1 DEF Inv, TypeOK
    <3>2. ~Runnable(t)
      BY <1>1, <3>1 DEF Runnable
    <3> QED
      BY <1>2, <3>1, <3>2
  <2> QED
    BY <1>1, <2>1 DEF Inv, Ahead, Walking, Untouched
<1>7. Behind'
  BY <1>1 DEF Inv, Behind, StartGroup, Blocked
<1>8. Results'
  BY <1>1, <1>2, <1>3 DEF Inv, Results, First
<1>9. DependenciesFirst'
  <2>1. ASSUME NEW t \in Tasks, Runnable(t), NEW d \in Deps[t] PROVE outcome[d] = "success"
    <3>1. PICK j \in DOMAIN Groups : j < group /\ d \in Groups[j]
      BY <1>1, <2>1 DEF Runnable
    <3>2. outcome[d] # "none"
      BY <3>1 DEF Inv, Behind
    <3> QED
      BY <2>1, <3>2 DEF Runnable, Blocked
  <2> QED
    BY <1>1, <1>2, <2>1 DEF Inv, DependenciesFirst
<1>10. HonestVerdict'
  BY <1>1 DEF Inv, HonestVerdict, server
<1> QED
  BY <1>4, <1>5, <1>6, <1>7, <1>8, <1>9, <1>10 DEF Inv

LEMMA EndGroupInv == Inv /\ EndGroup => Inv'
<1> SUFFICES ASSUME Inv, EndGroup PROVE Inv'
  OBVIOUS
<1> USE GroupFacts
<1>1. /\ group \in DOMAIN Groups /\ pc = "run" /\ pc' = "check" /\ group' = group + 1
      /\ UNCHANGED <<server, at, left, watching, aborted>>
  BY DEF Inv, Position, TypeOK, EndGroup
<1>2. \A t \in Tasks : outcome'[t] = IF Runnable(t) THEN at[t] ELSE outcome[t]
  BY DEF EndGroup
<1>3. \A t \in Tasks : Runnable(t) => at[t] \in Returned /\ outcome[t] \in {"none", "skipped"}
  BY <1>1 DEF EndGroup, Runnable, Inv, Ahead, Walking
<1>4. TypeOK'
  <2>1. outcome' \in [Tasks -> Outcomes \cup {"none"}]
    BY <1>3 DEF EndGroup, Inv, TypeOK, Outcomes, Returned
  <2>2. group' \in 1..(Len(Groups) + 1)
    BY <1>1
  <2> QED
    BY <1>1, <2>1, <2>2 DEF Inv, TypeOK, server
<1>5. Position' /\ Verdicts'
  BY <1>1 DEF Inv, Position, Verdicts, Over, server
<1>6. Ahead'
  <2>1. ASSUME NEW i \in DOMAIN Groups, i > group, NEW t \in Groups[i]
        PROVE  at'[t] = "idle" /\ outcome'[t] = "none"
    <3>1. t \in Tasks /\ ~Runnable(t)
      BY <1>1, <2>1 DEF Runnable
    <3> QED
      BY <1>1, <1>2, <2>1, <3>1 DEF Inv, Ahead, Walking
  <2> QED
    BY <1>1, <2>1 DEF Ahead
<1>7. Behind'
  <2>1. ASSUME NEW i \in DOMAIN Groups, i < group + 1, NEW t \in Groups[i]
        PROVE  outcome'[t] # "none"
    <3>1. CASE i < group
      BY <1>2, <1>3, <3>1 DEF Inv, Behind, Returned
    <3>2. CASE i = group
      BY <1>1, <1>2, <1>3, <3>2 DEF Inv, Behind, Runnable, Returned
    <3> QED
      BY <1>1, <2>1, <3>1, <3>2
  <2> QED
    BY <1>1, <2>1 DEF Behind
<1>8. Results'
  <2>1. ASSUME NEW u \in Tasks, outcome[u] \in {"failed", "cancelled"}
        PROVE  outcome'[u] \in {"failed", "cancelled"}
    BY <1>2, <1>3, <2>1
  <2>2. ASSUME NEW u \in Tasks, Runnable(u)
        PROVE  /\ outcome'[u] = at[u] /\ at[u] \in Returned
    BY <1>2, <1>3, <2>2
  <2>3. ASSUME NEW u \in Tasks, ~Runnable(u) PROVE outcome'[u] = outcome[u]
    BY <1>2, <2>3
  <2>4. ASSUME NEW u \in Tasks
        PROVE  /\ outcome'[u] = "success" => at[u] = "success"
               /\ outcome'[u] = "cancelled" => aborted
               /\ outcome'[u] = "skipped" => outcome[u] = "skipped"
    BY <2>2, <2>3 DEF Inv, Results, Returned
  <2> QED
    BY <1>1, <2>1, <2>4 DEF Inv, Results
<1>9. DependenciesFirst'
  <2>1. ASSUME NEW u \in Tasks, outcome[u] = "success" PROVE outcome'[u] = "success"
    BY <1>2, <1>3, <2>1
  <2> QED
    BY <1>1, <2>1 DEF Inv, DependenciesFirst
<1>10. HonestVerdict'
  BY <1>1 DEF Inv, Verdicts, HonestVerdict, Over, server
<1> QED
  BY <1>4, <1>5, <1>6, <1>7, <1>8, <1>9, <1>10 DEF Inv

LEMMA CancelUnstartedInv == Inv /\ CancelUnstarted => Inv'
<1> SUFFICES ASSUME Inv, CancelUnstarted PROVE Inv'
  OBVIOUS
<1> USE GroupFacts
<1>1. PICK t \in Tasks : /\ outcome[t] = "none"
                         /\ ReportTask(t, "cancelled")
                         /\ outcome' = [outcome EXCEPT ![t] = "cancelled"]
  BY DEF CancelUnstarted
<1>2. pc = "cancelRest" /\ aborted /\ UNCHANGED <<pc, group, at, left, watching, aborted>>
  BY DEF CancelUnstarted, Inv, Position
<1>3. row' \in [Tasks -> TaskStatuses] /\ run' = run /\ sweep' = sweep /\ lost' \in BOOLEAN /\ (lost => lost')
  BY <1>1, ReportKeepsRows DEF Inv, TaskStatuses
<1>4. \A u \in Tasks : outcome'[u] = IF u = t THEN "cancelled" ELSE outcome[u]
  BY <1>1 DEF Inv, TypeOK
<1>5. TypeOK'
  BY <1>1, <1>2, <1>3 DEF Inv, TypeOK, Outcomes
<1>6. Position' /\ Verdicts'
  BY <1>2, <1>3 DEF Inv, Position, Verdicts, Over
<1>7. Ahead'
  BY <1>2 DEF Inv, Ahead, Walking, Untouched
<1>8. Behind'
  BY <1>2, <1>4 DEF Inv, Behind
<1>9. Results'
  <2>1. ASSUME NEW u \in Tasks, outcome[u] # "none" PROVE outcome'[u] = outcome[u]
    BY <1>1, <1>4, <2>1
  <2>2. ASSUME NEW u \in Tasks, outcome[u] = "none" PROVE outcome'[u] \in {"none", "cancelled"}
    BY <1>4, <2>2
  <2>3. aborted' /\ at' = at /\ left' = left
    BY <1>2
  <2>4. ASSUME NEW u \in Tasks, outcome'[u] = "skipped"
        PROVE  \E w \in Tasks : outcome'[w] \in {"failed", "cancelled"}
    <3>1. outcome[u] = "skipped"
      BY <2>1, <2>2, <2>4
    <3>2. PICK w \in Tasks : outcome[w] \in {"failed", "cancelled"}
      BY <3>1 DEF Inv, Results
    <3> QED BY <2>1, <3>2
  <2>5. ASSUME NEW u \in Tasks
        PROVE  /\ at'[u] \in {"launching", "stepping"} => left'[u] > 0
               /\ at'[u] \in {"deploying", "succeeding", "success"} => left'[u] = 0
               /\ outcome'[u] = "success" => at'[u] = "success"
    BY <2>1, <2>2, <2>3 DEF Inv, Results
  <2> QED
    BY <2>3, <2>4, <2>5 DEF Results
<1>10. DependenciesFirst'
  <2>1. \A d \in Tasks : outcome[d] = "success" => outcome'[d] = "success"
    BY <1>1, <1>4
  <2>2. \A u \in Tasks : Deps[u] \subseteq Tasks
    BY PipelineAssumption
  <2>3. \A u \in Tasks : at[u] # "idle" => \A d \in Deps[u] : outcome[d] = "success"
    BY DEF Inv, DependenciesFirst
  <2>4. at' = at
    BY <1>2
  <2>5. \A u \in Tasks : at'[u] # "idle" => \A d \in Deps[u] : outcome'[d] = "success"
    BY ONLY <2>1, <2>2, <2>3, <2>4
  <2> QED BY ONLY <2>5 DEF DependenciesFirst
<1>11. HonestVerdict'
  BY <1>2, <1>3 DEF Inv, Verdicts, HonestVerdict, Over
<1> QED
  BY <1>5, <1>6, <1>7, <1>8, <1>9, <1>10, <1>11 DEF Inv

\* From here on neither a place nor an outcome changes.
LEMMA EndInv ==
    ASSUME Inv, LeaveCancelled \/ ReportVerdict \/ Catch \/ ReportAgain
    PROVE  Inv'
<1> USE GroupFacts
<1>1. /\ UNCHANGED <<row, sweep, group, at, left, outcome, aborted>>
      /\ pc' \in Over
      /\ pc \notin Walking
  BY DEF LeaveCancelled, ReportVerdict, Catch, ReportAgain, ReportRun, server, Over, Walking, Untouched
<1>2. /\ run' \in {run, "success", "failed"}
      /\ run # "running" => run' = run
      /\ lost' \in BOOLEAN /\ (lost => lost')
  BY DEF LeaveCancelled, ReportVerdict, Catch, ReportAgain, ReportRun, server, Verdict, Inv, TypeOK
<1>3. TypeOK'
  <2>1. watching' \in BOOLEAN
    BY DEF LeaveCancelled, ReportVerdict, Catch, ReportAgain, Inv, TypeOK
  <2> QED
    BY <1>1, <1>2, <2>1 DEF Inv, TypeOK, PipelineStatuses, Over
<1>4. Position'
  BY <1>1, <1>2 DEF Inv, Position, Over
<1>5. Ahead' /\ Behind'
  <2>1. pc' \notin Walking \cup {"skip"}
    BY <1>1 DEF Over, Walking, Untouched
  <2> QED
    BY <1>1, <2>1 DEF Inv, Ahead, Behind, Walking
<1>6. Results' /\ DependenciesFirst'
  BY <1>1 DEF Inv, Results, DependenciesFirst
<1>7. Verdicts'
  <2>1. pc' \in {"catch", "again"} /\ run' = "running" /\ ~lost' => pc \in {"catch", "again"}
    BY DEF LeaveCancelled, ReportVerdict, Catch, ReportAgain, ReportRun, server
  <2> QED
    BY <1>1, <1>2, <2>1 DEF Inv, Verdicts
<1>8. HonestVerdict'
  <2>1. CASE run' = run
    BY <1>1, <1>2, <2>1 DEF Inv, HonestVerdict
  <2>2. CASE run' # run /\ ReportVerdict
    <3>1. /\ pc = "report" /\ ~aborted /\ run' = Verdict
      BY <2>2 DEF ReportVerdict, ReportRun, server
    <3>2. ASSUME NEW t \in Tasks PROVE outcome[t] \in Outcomes
      <4>1. PICK i \in DOMAIN Groups : t \in Groups[i]
        OBVIOUS
      <4>2. i < group
        BY <3>1 DEF Inv, Position, TypeOK
      <4>3. outcome[t] # "none"
        BY <4>1, <4>2 DEF Inv, Behind
      <4>4. outcome[t] \in Outcomes \cup {"none"}
        BY DEF Inv, TypeOK
      <4> QED BY <4>3, <4>4
    <3>3. \A t \in Tasks : outcome[t] # "cancelled"
      BY <3>1 DEF Inv, Results
    <3>4. (\E t \in Tasks : outcome[t] # "success") => \E t \in Tasks : outcome[t] = "failed"
      BY <3>2, <3>3 DEF Inv, Results, Outcomes
    <3>5. (\A t \in Tasks : outcome[t] = "success") => \A t \in Tasks : left[t] = 0
      BY DEF Inv, Results
    <3> QED
      BY <1>1, <3>1, <3>4, <3>5 DEF Verdict, HonestVerdict
  <2>3. CASE run' # run /\ (Catch \/ ReportAgain)
    <3>1. run = "running" /\ run' = "failed" /\ pc \in {"catch", "again"}
      BY <2>3 DEF Catch, ReportAgain, ReportRun, server
    <3> QED
      BY <1>1, <1>2, <3>1 DEF Inv, Verdicts, HonestVerdict
  <2> QED
    BY <2>1, <2>2, <2>3 DEF LeaveCancelled, server
<1> QED
  BY <1>3, <1>4, <1>5, <1>6, <1>7, <1>8 DEF Inv

LEMMA InvStep == Inv /\ [Next]_vars => Inv'
<1> SUFFICES ASSUME Inv, [Next]_vars PROVE Inv'
  OBVIOUS
<1>1. CASE \E t \in Tasks : TaskStep(t) \/ PassGate(t) \/ StepSucceeds(t) \/ StepFails(t)
  BY <1>1, TaskInv
<1>2. CASE CancelRun \/ CancelRows \/ Poll \/ CloneWorkspace \/ Prepare \/ BeginGroup \/ EndGroups
  BY <1>2, WatchInv
<1>3. CASE SkipTask \/ StartGroup \/ EndGroup \/ CancelUnstarted
  BY <1>3, SkipTaskInv, StartGroupInv, EndGroupInv, CancelUnstartedInv
<1>4. CASE LeaveCancelled \/ ReportVerdict \/ Catch \/ ReportAgain
  BY <1>4, EndInv
<1>5. CASE UNCHANGED vars
  <2> USE <1>5 DEF vars, server, runner, Inv
  <2>1. TypeOK' /\ Position' /\ Verdicts'
    BY DEF TypeOK, Position, Verdicts
  <2>2. Ahead' /\ Results'
    BY DEF Ahead, Results
  <2>3. Behind'
    BY DEF Behind, Blocked
  <2>4. DependenciesFirst' /\ HonestVerdict'
    BY DEF DependenciesFirst, HonestVerdict
  <2> QED BY <2>1, <2>2, <2>3, <2>4
<1> QED
  BY <1>1, <1>2, <1>3, <1>4, <1>5 DEF Next, RunnerStep

LEMMA Invariance == Spec => []Inv
<1> QED
  BY InitInv, InvStep, PTL DEF Spec
-----------------------------------------------------------------------------
\* A skipped task never begins, and only blocked ones are skipped; what has
\* no outcome when the execution is cancelled never began; and when it is over
\* either no task has an outcome or every task has.  Only gated tasks are gated.
Skipping == /\ \A t \in Tasks : at[t] \in {"gate", "waiting"} => t \in Gated
            /\ \A t \in Tasks : outcome[t] = "skipped" => at[t] = "idle"
            /\ pc \in {"skip", "run"} =>
                  \A t \in Groups[group] : outcome[t] = "skipped" => Blocked(t)
            /\ pc = "cancelRest" => \A t \in Tasks : outcome[t] = "none" => at[t] = "idle"
            /\ pc = "report" => \A t \in Tasks : outcome[t] # "none"
            /\ pc \in Over => \/ \A t \in Tasks : outcome[t] = "none"
                              \/ \A t \in Tasks : outcome[t] # "none"

LEMMA SkippingInit == Init => Skipping
BY DEF Init, Skipping, Over

\* Between groups, everything behind has an outcome and everything ahead is
\* idle.
LEMMA BetweenGroups ==
    ASSUME Inv, pc = "check", NEW t \in Tasks
    PROVE  /\ outcome[t] = "none" => at[t] = "idle"
           /\ group > Len(Groups) => outcome[t] # "none"
<1>1. PICK i \in DOMAIN Groups : t \in Groups[i]
  BY GroupFacts
<1>2. i < group \/ i = group \/ i > group
  BY GroupFacts DEF Inv, TypeOK
<1>3. CASE i < group
  BY <1>1, <1>3 DEF Inv, Behind
<1>4. CASE i = group \/ i > group
  <2>1. ~(group > Len(Groups))
    BY <1>4, GroupFacts DEF Inv, TypeOK
  <2>2. at[t] = "idle"
    BY <1>1, <1>4 DEF Inv, Ahead, Untouched
  <2> QED BY <2>1, <2>2
<1> QED BY <1>2, <1>3, <1>4

\* Before the first group no task has an outcome.
LEMMA BeforeGroups ==
    ASSUME Inv, pc \in {"cloning", "preparing"}, NEW t \in Tasks
    PROVE  outcome[t] = "none"
<1>1. PICK i \in DOMAIN Groups : t \in Groups[i]
  BY GroupFacts
<1>2. group = 1 /\ i \in 1..Len(Groups)
  BY GroupFacts DEF Inv, Position
<1>3. i > group \/ i = group
  BY <1>2
<1> QED
  BY <1>1, <1>2, <1>3 DEF Inv, Ahead, Walking, Untouched

LEMMA SkippingStep == Inv /\ Skipping /\ [Next]_vars => Skipping'
<1> SUFFICES ASSUME Inv, Skipping, [Next]_vars PROVE Skipping'
  OBVIOUS
<1> USE GroupFacts
<1>1. CASE \E t \in Tasks : TaskStep(t) \/ PassGate(t) \/ StepSucceeds(t) \/ StepFails(t)
  <2>1. PICK t \in Tasks : TaskStep(t) \/ PassGate(t) \/ StepSucceeds(t) \/ StepFails(t)
    BY <1>1
  <2>2. /\ UNCHANGED <<outcome, pc, group>> /\ at[t] # "idle"
        /\ \A u \in Tasks : u # t => at'[u] = at[u]
        /\ at'[t] \in {"gate", "waiting"} => at[t] = "gate"
    BY <2>1 DEF Inv, TypeOK, TaskStep, PassGate, StepSucceeds, StepFails, AwaitApproval, LeaveGate,
       StartTask, NextStep, Launch, KillStep, FinishTask, Deploy, ReturnTask, Go, Returned, Quiet, TaskOnly
  <2> QED
    BY <2>2 DEF Skipping, Blocked
<1>2. CASE SkipTask
  <2>1. group \in DOMAIN Groups /\ UNCHANGED <<pc, group, at>> /\ pc = "skip"
    BY <1>2 DEF SkipTask, Inv, Position, TypeOK
  <2>2. PICK t \in Groups[group] : /\ Blocked(t) /\ outcome[t] = "none"
                                   /\ outcome' = [outcome EXCEPT ![t] = "skipped"]
    BY <1>2 DEF SkipTask
  <2>3. t \in Tasks /\ at[t] = "idle"
    BY <2>1 DEF Inv, Ahead
  <2>4. \A u \in Tasks : outcome'[u] = IF u = t THEN "skipped" ELSE outcome[u]
    BY <2>2, <2>3 DEF Inv, TypeOK
  <2>5. ASSUME NEW u \in Groups[group], Blocked(u) PROVE Blocked(u)'
    <3>1. PICK d \in Deps[u] : outcome[d] \notin {"none", "success"}
      BY <2>5 DEF Blocked
    <3>2. d \in Tasks /\ outcome'[d] \notin {"none", "success"}
      BY <2>1, <2>4, <3>1
    <3> QED
      BY <3>2, <3>1 DEF Blocked
  <2> QED
    BY <2>1, <2>2, <2>3, <2>4, <2>5 DEF Skipping, Over
<1>3. CASE StartGroup
  <2>1. /\ group \in DOMAIN Groups /\ pc = "skip" /\ pc' = "run" /\ UNCHANGED <<group, outcome>>
        /\ at' = [t \in Tasks |-> IF Runnable(t) THEN First(t) ELSE at[t]]
    BY <1>3 DEF StartGroup, Inv, Position, TypeOK
  <2> QED
    BY <2>1 DEF Skipping, Runnable, Blocked, Over, First
<1>4. CASE EndGroup
  <2>1. pc' = "check" /\ at' = at
    BY <1>4 DEF EndGroup
  <2>2. ASSUME NEW t \in Tasks, outcome'[t] = "skipped" PROVE at'[t] = "idle"
    <3>1. outcome'[t] = IF Runnable(t) THEN at[t] ELSE outcome[t]
      BY <1>4 DEF EndGroup
    <3>2. Runnable(t) => at[t] # "skipped"
      BY <1>4 DEF EndGroup, Runnable, Returned
    <3> QED
      BY <2>1, <2>2, <3>1, <3>2 DEF Skipping
  <2> QED
    BY <2>1, <2>2 DEF Skipping, Over
<1>5. CASE CancelUnstarted
  BY <1>5 DEF CancelUnstarted, Skipping, Inv, TypeOK, Over
<1>6. CASE BeginGroup
  <2>1. /\ group \in DOMAIN Groups /\ pc = "check" /\ UNCHANGED <<at, outcome, group>>
        /\ pc' \in {"cancelRest", "skip"}
    BY <1>6 DEF BeginGroup, Inv, TypeOK
  <2>2. \A t \in Groups[group] : outcome[t] = "none"
    BY <2>1 DEF Inv, Ahead, Walking, Untouched
  <2> QED
    BY <2>1, <2>2, BetweenGroups DEF Skipping, Over
<1>7. CASE EndGroups
  <2>1. /\ pc = "check" /\ group > Len(Groups) /\ UNCHANGED <<at, outcome, group>>
        /\ pc' \in {"cancelRest", "report"}
    BY <1>7 DEF EndGroups
  <2> QED
    BY <2>1, BetweenGroups DEF Skipping, Over
<1>8. CASE CloneWorkspace \/ Prepare
  <2>1. /\ pc \in {"cloning", "preparing"} /\ UNCHANGED <<at, outcome>>
        /\ pc' \in {"preparing", "check"} \cup Over
    BY <1>8 DEF CloneWorkspace, Prepare, Over
  <2> QED
    BY <2>1, BeforeGroups DEF Skipping, Over
<1>9. CASE LeaveCancelled
  BY <1>9 DEF LeaveCancelled, Skipping, Over
<1>10. CASE ReportVerdict \/ Catch \/ ReportAgain
  <2>1. UNCHANGED <<at, outcome>> /\ pc' \in Over /\ pc \in Over \cup {"report"}
    BY <1>10 DEF ReportVerdict, Catch, ReportAgain, ReportRun, server, Over
  <2> QED
    BY <2>1 DEF Skipping, Over
<1>11. CASE CancelRun \/ CancelRows \/ Poll \/ UNCHANGED vars
  <2>1. UNCHANGED <<at, outcome, pc, group>>
    BY <1>11 DEF CancelRun, CancelRows, Poll, vars, runner
  <2> QED
    BY <2>1 DEF Skipping, Blocked
<1> QED
  BY <1>1, <1>2, <1>3, <1>4, <1>5, <1>6, <1>7, <1>8, <1>9, <1>10, <1>11 DEF Next, RunnerStep

\* Unless a report was lost, the row of a task is the one its place gives it or
\* was cancelled with the run, and a task with an outcome has a final row.
RowIsTold(t) == /\ row[t] \in Shown(t) \/ (run = "cancelled" /\ row[t] = "cancelled")
                /\ outcome[t] # "none" => row[t] \in TASK_RUN_TERMINAL_STATES

Rows == ~lost => \A t \in Tasks : RowIsTold(t)

LEMMA RowsInit == Init => Rows
BY DEF Init, Rows, RowIsTold, Shown, Returned

\* What the tables allow of the reports the runner makes.
LEMMA TaskTable ==
    /\ \A s \in TaskStatuses : ~validateTaskTransition("cancelled", s)
    /\ \A s \in {"awaiting_approval", "running", "skipped", "cancelled"} :
          validateTaskTransition("pending", s)
    /\ \A s \in {"running", "failed", "cancelled"} : validateTaskTransition("awaiting_approval", s)
    /\ \A s \in {"success", "failed", "cancelled"} : validateTaskTransition("running", s)
BY DEF validateTaskTransition, VALID_TASK_RUN_TRANSITIONS, TaskStatuses

\* The row of a task whose place and outcome stay, when its report is not the
\* one being made.
LEMMA RowStays ==
    ASSUME NEW u \in Tasks, RowIsTold(u), row'[u] = row[u], at'[u] = at[u],
           outcome'[u] = outcome[u], run = "cancelled" => run' = "cancelled"
    PROVE  RowIsTold(u)'
BY DEF RowIsTold, Shown

\* A report that is not lost changes the one row, if the tables let it.
LEMMA ReportLands ==
    ASSUME TypeOK, NEW t \in Tasks, NEW s \in TaskStatuses, ReportTask(t, s), ~lost'
    PROVE  /\ ~lost /\ run' = run
           /\ row'[t] = IF validateTaskTransition(row[t], s) THEN s ELSE row[t]
           /\ \A u \in Tasks \ {t} : row'[u] = row[u]
BY DEF ReportTask, TypeOK

\* A task that returns was running, or at its gate if it did not succeed, and
\* the tables let such a row take the outcome.
LEMMA ReturnIsTold ==
    ASSUME TypeOK, NEW t \in Tasks, ReturnTask(t), ~lost', RowIsTold(t), outcome[t] # "skipped"
    PROVE  RowIsTold(t)'
<1>1. PICK o \in Returned : /\ at[t] = CASE o = "success" -> "succeeding"
                                         [] o = "failed" -> "failing"
                                         [] o = "cancelled" -> "cancelling"
                            /\ ReportTask(t, o)
                            /\ Go(t, o)
  BY DEF ReturnTask
<1>2. o \in TaskStatuses /\ o \in TASK_RUN_TERMINAL_STATES
  BY DEF Returned, TaskStatuses, TASK_RUN_TERMINAL_STATES
<1>3. /\ row'[t] = IF validateTaskTransition(row[t], o) THEN o ELSE row[t]
      /\ run' = run
  BY <1>1, <1>2, ReportLands
<1>4. at'[t] = o /\ outcome' = outcome
  BY <1>1 DEF Go, ReturnTask, TaskOnly, TypeOK
<1>5. \/ row[t] = "running"
      \/ row[t] = "awaiting_approval" /\ o \in {"failed", "cancelled"}
      \/ row[t] = "cancelled" /\ run = "cancelled"
  <2>1. CASE o = "success"
    <3>1. at[t] = "succeeding"
      BY <1>1, <2>1
    <3> QED
      BY <3>1 DEF RowIsTold, Shown, Returned
  <2>2. CASE o = "failed"
    <3>1. at[t] = "failing"
      BY <1>1, <2>2
    <3> QED
      BY <2>2, <3>1 DEF RowIsTold, Shown, Returned
  <2>3. CASE o = "cancelled"
    <3>1. at[t] = "cancelling"
      BY <1>1, <2>3
    <3> QED
      BY <2>3, <3>1 DEF RowIsTold, Shown, Returned
  <2> QED
    BY <2>1, <2>2, <2>3 DEF Returned
<1>6. \/ row'[t] = o
      \/ row'[t] = "cancelled" /\ run = "cancelled"
  <2>1. CASE row[t] = "running"
    BY <1>3, <2>1, TaskTable DEF Returned
  <2>2. CASE row[t] = "awaiting_approval" /\ o \in {"failed", "cancelled"}
    BY <1>3, <2>2, TaskTable
  <2>3. CASE row[t] = "cancelled" /\ run = "cancelled"
    BY <1>2, <1>3, <2>3, TaskTable
  <2> QED
    BY <1>5, <2>1, <2>2, <2>3
<1>7. row'[t] \in TASK_RUN_TERMINAL_STATES
  BY <1>2, <1>6 DEF TASK_RUN_TERMINAL_STATES
<1>8. Shown(t)' = {o}
  BY <1>1, <1>4 DEF Shown, Returned
<1> QED
  BY <1>3, <1>4, <1>6, <1>7, <1>8 DEF RowIsTold

LEMMA RowsTask ==
    ASSUME Inv, Skipping, Rows, ~lost', NEW t \in Tasks,
           TaskStep(t) \/ PassGate(t) \/ StepSucceeds(t) \/ StepFails(t)
    PROVE  \A u \in Tasks : RowIsTold(u)'
<1>1. /\ outcome' = outcome /\ run' = run /\ at[t] # "idle"
      /\ \A u \in Tasks \ {t} : at'[u] = at[u] /\ row'[u] = row[u]
      /\ ~lost
  BY DEF Inv, TypeOK, TaskStep, PassGate, StepSucceeds, StepFails, AwaitApproval, LeaveGate,
     StartTask, NextStep, Launch, KillStep, FinishTask, Deploy, ReturnTask, Go, Returned, Quiet,
     TaskOnly, ReportTask, server
<1>2. ASSUME NEW u \in Tasks \ {t} PROVE RowIsTold(u)'
  BY <1>1, <1>2, RowStays DEF Rows
<1>3. outcome[t] # "skipped"
  BY <1>1 DEF Skipping
<1>4. RowIsTold(t) /\ at \in [Tasks -> Places] /\ row[t] \in TaskStatuses
  BY <1>1 DEF Rows, Inv, TypeOK
<1>5. CASE ReturnTask(t)
  <2>1. RowIsTold(t)'
    BY <1>1, <1>3, <1>4, <1>5, ReturnIsTold DEF Inv
  <2> QED
    BY <1>2, <2>1
<1>6. ASSUME ~ReturnTask(t) PROVE RowIsTold(t)'
  <2> USE <1>1, <1>3, <1>4, <1>6 DEF RowIsTold, Shown, Returned, Go
  <2>1. CASE AwaitApproval(t)
    <3>1. row'[t] = IF validateTaskTransition(row[t], "awaiting_approval")
                    THEN "awaiting_approval" ELSE row[t]
      BY <2>1, ReportLands DEF AwaitApproval, TaskStatuses, Inv
    <3>2. at[t] = "gate" /\ at'[t] = "waiting"
      BY <2>1 DEF AwaitApproval
    <3>3. row[t] = "pending" \/ (row[t] = "cancelled" /\ run = "cancelled")
      BY <3>2
    <3>4. \/ row'[t] = "awaiting_approval"
          \/ row'[t] = "cancelled" /\ run = "cancelled"
      BY <3>1, <3>3, TaskTable DEF TaskStatuses
    <3>5. outcome[t] = "none" \/ row[t] \in TASK_RUN_TERMINAL_STATES
      OBVIOUS
    <3>6. outcome[t] # "none" => row'[t] = "cancelled"
      BY <3>1, <3>3, <3>5, TaskTable DEF TASK_RUN_TERMINAL_STATES, TaskStatuses
    <3> QED
      BY <3>2, <3>4, <3>6 DEF TASK_RUN_TERMINAL_STATES
  <2>2. CASE StartTask(t)
    <3>1. row'[t] = IF validateTaskTransition(row[t], "running") THEN "running" ELSE row[t]
      BY <2>2, ReportLands DEF StartTask, TaskStatuses, Inv
    <3>2. at[t] = "start" /\ at'[t] = "between"
      BY <2>2 DEF StartTask
    <3>3. row[t] \in {"pending", "awaiting_approval"} \/ (row[t] = "cancelled" /\ run = "cancelled")
      BY <3>2
    <3>4. \/ row'[t] = "running"
          \/ row'[t] = "cancelled" /\ run = "cancelled"
      BY <3>1, <3>3, TaskTable DEF TaskStatuses
    <3>5. outcome[t] # "none" => row'[t] = "cancelled"
      BY <3>1, <3>3, TaskTable DEF TASK_RUN_TERMINAL_STATES, TaskStatuses
    <3> QED
      BY <3>2, <3>4, <3>5 DEF TASK_RUN_TERMINAL_STATES
  <2>3. CASE row'[t] = row[t] /\ ~StartTask(t) /\ ~AwaitApproval(t)
    <3>1. \/ at[t] = "waiting" /\ at'[t] \in {"start", "failing", "cancelling"} /\ t \in Gated
          \/ at[t] \notin Returned
             /\ at[t] \notin {"idle", "gate", "waiting", "start", "failing", "cancelling"}
             /\ at'[t] \notin Returned /\ at'[t] \notin {"idle", "gate", "waiting", "start"}
      <4>1. \/ at[t] = "waiting" /\ \E p \in {"start", "failing", "cancelling"} : Go(t, p)
            \/ /\ at[t] \in {"between", "launching", "stepping", "deploying"}
               /\ \E p \in {"between", "launching", "stepping", "deploying", "succeeding", "failing",
                            "cancelling"} : Go(t, p)
        BY ONLY TaskStep(t) \/ PassGate(t) \/ StepSucceeds(t) \/ StepFails(t), <1>6, <2>3
           DEF TaskStep, PassGate, StepSucceeds, StepFails, LeaveGate, NextStep, Launch, KillStep,
               FinishTask, Deploy
      <4>2. \A p : Go(t, p) => at'[t] = p
        BY ONLY <1>4 DEF Go
      <4>3. at[t] = "waiting" => t \in Gated
        BY DEF Skipping
      <4> QED BY ONLY <4>1, <4>2, <4>3 DEF Returned
    <3>2. Shown(t) \subseteq Shown(t)'
      <4>1. CASE at[t] = "waiting"
        BY <3>1, <4>1
      <4>2. CASE at[t] # "waiting"
        <5>1. Shown(t) = {"running"}
          BY <3>1, <4>2
        <5>2. "running" \in Shown(t)'
          BY <3>1, <4>2
        <5> QED
          BY <5>1, <5>2
      <4> QED
        BY <4>1, <4>2
    <3> QED
      BY <2>3, <3>2
  <2> QED
    BY <2>1, <2>2, <2>3 DEF TaskStep, PassGate, StepSucceeds, StepFails, LeaveGate, NextStep,
       Launch, KillStep, FinishTask, Deploy, Quiet, TaskOnly, server
<1> QED
  BY <1>2, <1>5, <1>6

LEMMA RowsStep == Inv /\ Skipping /\ Rows /\ [Next]_vars => Rows'
<1> SUFFICES ASSUME Inv, Skipping, Rows, [Next]_vars, ~lost' PROVE \A u \in Tasks : RowIsTold(u)'
  BY DEF Rows
<1> USE GroupFacts
<1>0. TypeOK
  BY DEF Inv
<1>1. CASE \E t \in Tasks : TaskStep(t) \/ PassGate(t) \/ StepSucceeds(t) \/ StepFails(t)
  BY <1>1, RowsTask
<1>2. CASE SkipTask
  <2>1. PICK t \in Groups[group] : /\ Blocked(t) /\ outcome[t] = "none"
                                   /\ ReportTask(t, "skipped")
                                   /\ outcome' = [outcome EXCEPT ![t] = "skipped"]
    BY <1>2 DEF SkipTask
  <2>2. group \in DOMAIN Groups /\ at' = at /\ pc = "skip" /\ t \in Tasks
    BY <1>2, <2>1 DEF SkipTask, Inv, Position, TypeOK
  <2>3. /\ at[t] = "idle" /\ outcome'[t] = "skipped"
        /\ \A u \in Tasks \ {t} : outcome'[u] = outcome[u]
    BY <2>1, <2>2 DEF Inv, Ahead, TypeOK
  <2>4. /\ ~lost /\ run' = run /\ \A u \in Tasks \ {t} : row'[u] = row[u]
        /\ row'[t] = IF validateTaskTransition(row[t], "skipped") THEN "skipped" ELSE row[t]
    BY <2>1, <2>2, <1>0, ReportLands DEF TaskStatuses
  <2>5. RowIsTold(t)'
    <3>1. row[t] = "pending" \/ (row[t] = "cancelled" /\ run = "cancelled")
      BY <2>1, <2>2, <2>3, <2>4 DEF Rows, RowIsTold, Shown, Returned
    <3>2. \/ row'[t] = "skipped"
          \/ row'[t] = "cancelled" /\ run = "cancelled"
      BY <2>4, <3>1, TaskTable DEF TaskStatuses
    <3> QED
      BY <2>3, <2>4, <3>2 DEF RowIsTold, Shown, TASK_RUN_TERMINAL_STATES
  <2>6. ASSUME NEW u \in Tasks \ {t} PROVE RowIsTold(u)'
    BY <2>2, <2>3, <2>4, <2>6, RowStays DEF Rows
  <2> QED
    BY <2>5, <2>6
<1>3. CASE CancelUnstarted
  <2>1. PICK t \in Tasks : /\ outcome[t] = "none"
                           /\ ReportTask(t, "cancelled")
                           /\ outcome' = [outcome EXCEPT ![t] = "cancelled"]
    BY <1>3 DEF CancelUnstarted
  <2>2. at' = at /\ at[t] = "idle" /\ run = "cancelled"
    BY <1>3, <2>1 DEF CancelUnstarted, Skipping, Inv, Position
  <2>3. /\ outcome'[t] = "cancelled"
        /\ \A u \in Tasks \ {t} : outcome'[u] = outcome[u]
    BY <2>1 DEF Inv, TypeOK
  <2>4. /\ ~lost /\ run' = run /\ \A u \in Tasks \ {t} : row'[u] = row[u]
        /\ row'[t] = IF validateTaskTransition(row[t], "cancelled") THEN "cancelled" ELSE row[t]
    BY <2>1, <1>0, ReportLands DEF TaskStatuses
  <2>5. RowIsTold(t)'
    <3>1. row[t] \in {"pending", "cancelled"}
      <4>1. RowIsTold(t)
        BY <1>0, <2>1, <2>4 DEF Rows
      <4> QED BY <2>1, <2>2, <4>1 DEF RowIsTold, Shown, Returned
    <3>2. row'[t] = "cancelled"
      BY <2>4, <3>1, TaskTable DEF TaskStatuses
    <3> QED BY <2>2, <2>4, <3>2 DEF RowIsTold, TASK_RUN_TERMINAL_STATES
  <2>6. ASSUME NEW u \in Tasks \ {t} PROVE RowIsTold(u)'
    BY <2>2, <2>3, <2>4, <2>6, RowStays DEF Rows
  <2> QED
    BY <2>5, <2>6
<1>4. CASE StartGroup
  <2>1. /\ group \in DOMAIN Groups /\ pc = "skip" /\ UNCHANGED <<run, row, lost, outcome>>
        /\ at' = [t \in Tasks |-> IF Runnable(t) THEN First(t) ELSE at[t]]
    BY <1>4 DEF StartGroup, Inv, Position, TypeOK, server
  <2>2. ASSUME NEW u \in Tasks, Runnable(u) PROVE RowIsTold(u)'
    <3>1. at[u] = "idle" /\ outcome[u] # "skipped"
      BY <2>1, <2>2 DEF Runnable, Inv, Ahead, Skipping
    <3>2. at'[u] \in {"gate", "start"}
      BY <2>1, <2>2 DEF First
    <3> QED
      BY <2>1, <3>1, <3>2 DEF Rows, RowIsTold, Shown, Returned
  <2>3. ASSUME NEW u \in Tasks, ~Runnable(u) PROVE RowIsTold(u)'
    BY <2>1, <2>3, RowStays DEF Rows
  <2> QED
    BY <2>2, <2>3
<1>5. CASE EndGroup
  <2>1. UNCHANGED <<run, row, lost, at>>
    BY <1>5 DEF EndGroup, server
  <2>2. ASSUME NEW u \in Tasks, Runnable(u) PROVE RowIsTold(u)'
    <3>1. outcome'[u] = at[u] /\ at[u] \in Returned
      BY <1>5, <2>2 DEF EndGroup, Runnable
    <3>2. outcome[u] # "skipped"
      BY <3>1 DEF Skipping, Returned
    <3> QED
      BY <2>1, <3>1, <3>2 DEF Rows, RowIsTold, Shown, Returned, TASK_RUN_TERMINAL_STATES
  <2>3. ASSUME NEW u \in Tasks, ~Runnable(u) PROVE RowIsTold(u)'
    <3>1. outcome'[u] = outcome[u]
      BY <1>5, <2>3 DEF EndGroup
    <3> QED
      BY <2>1, <2>3, <3>1, RowStays DEF Rows
  <2> QED
    BY <2>2, <2>3
<1>6. CASE CancelRows
  <2>1. /\ run = "cancelled" /\ UNCHANGED <<run, lost, at, outcome>>
        /\ row' = [t \in Tasks |-> IF row[t] \in {"success", "failed", "cancelled"}
                                   THEN row[t] ELSE "cancelled"]
    BY <1>6 DEF CancelRows, runner
  <2> QED
    BY <2>1 DEF Rows, RowIsTold, Shown, TASK_RUN_TERMINAL_STATES
<1>7. CASE \/ CancelRun \/ Poll \/ CloneWorkspace \/ Prepare \/ BeginGroup \/ EndGroups \/ LeaveCancelled
           \/ ReportVerdict \/ Catch \/ ReportAgain \/ UNCHANGED vars
  <2>1. UNCHANGED <<row, at, outcome>> /\ (run = "cancelled" => run' = "cancelled") /\ ~lost
    BY <1>7, <1>0 DEF CancelRun, Poll, CloneWorkspace, Prepare, BeginGroup, EndGroups, LeaveCancelled,
       ReportVerdict, Catch, ReportAgain, ReportRun, vars, server, runner
  <2>2. ASSUME NEW u \in Tasks PROVE RowIsTold(u)'
    BY <2>1, RowStays DEF Rows
  <2> QED
    BY <2>2
<1> QED
  BY <1>1, <1>2, <1>3, <1>4, <1>5, <1>6, <1>7 DEF Next, RunnerStep

LEMMA RowsInvariance == Spec => [](Skipping /\ Rows)
<1> QED
  BY SkippingInit, SkippingStep, RowsInit, RowsStep, Invariance, PTL DEF Spec

\* Every variable of the execution keeps its type, for every pipeline.
THEOREM TypeCorrect == Spec => []TypeOK
<1>1. Inv => TypeOK
  BY DEF Inv
<1> QED
  BY <1>1, Invariance, PTL

\* executeGroups begins no task before everything the task depends on has
\* succeeded, for every pipeline with the groups of resolveDAG, whatever fails
\* and whenever the run is cancelled.
THEOREM DependenciesRespected == Spec => []DependenciesFirst
<1>1. Inv => DependenciesFirst
  BY DEF Inv
<1> QED
  BY <1>1, Invariance, PTL

\* The status executePipeline and its callers report is the tasks' own: success
\* for a run all of whose steps ran, and failed, when no call is lost, for one
\* with a failed task or none begun.
THEOREM VerdictIsHonest == Spec => []HonestVerdict
<1>1. Inv => HonestVerdict
  BY DEF Inv
<1> QED
  BY <1>1, Invariance, PTL

\* An abort seen by the CancellationWatcher lets no process and no deployment
\* start any more.
THEOREM NothingLaunchedAfterAbort == Spec => NoLaunchAfterAbort
<1> DEFINE Safe == \A t \in Tasks : aborted /\ at'[t] \in {"stepping", "deploying"} => at'[t] = at[t]
<1>1. ASSUME Inv, [Next]_vars PROVE [Safe]_vars
  <2> SUFFICES ASSUME NEW u \in Tasks, aborted, at'[u] \in {"stepping", "deploying"}
               PROVE  at'[u] = at[u]
    OBVIOUS
  <2> USE DEF Inv, TypeOK
  <2>1. ASSUME NEW t \in Tasks, TaskStep(t) \/ PassGate(t) \/ StepSucceeds(t) \/ StepFails(t)
        PROVE  at'[u] = at[u]
    <3>1. \E p \in Places \ {"stepping", "deploying"} : at' = [at EXCEPT ![t] = p]
      BY <2>1 DEF TaskStep, PassGate, StepSucceeds, StepFails, AwaitApproval, LeaveGate, StartTask,
         NextStep, Launch, KillStep, FinishTask, Deploy, ReturnTask, Go, Returned, Places
    <3> QED
      BY <3>1
  <2>2. CASE StartGroup
    BY <2>2 DEF StartGroup, First
  <2>3. CASE UNCHANGED at
    BY <2>3
  <2> QED
    BY <1>1, <2>1, <2>2, <2>3 DEF Next, RunnerStep, CancelRun, CancelRows, Poll, CloneWorkspace,
       Prepare, BeginGroup, SkipTask, EndGroup, EndGroups, CancelUnstarted, LeaveCancelled,
       ReportVerdict, Catch, ReportAgain, runner, vars
<1> QED
  BY <1>1, Invariance, PTL DEF Spec, NoLaunchAfterAbort
\* The dashboard shows every task where it is: no report of the runner is
\* refused by the transition tables, for every pipeline, unless one was lost or
\* the user cancels.
THEOREM RowsAlwaysFollow == Spec => []RowsFollow
<1>1. Rows => RowsFollow
  BY DEF Rows, RowIsTold, RowsFollow
<1> QED
  BY <1>1, RowsInvariance, PTL

\* When executePipeline has ended, it leaves no task's row pending or running
\* behind, cancelled or not, unless a report was lost.
THEOREM RowsAlwaysSettle == Spec => []RowsSettle
<1>1. Skipping /\ Rows => RowsSettle
  BY DEF Skipping, Over, Rows, RowIsTold, RowsSettle
<1> QED
  BY <1>1, RowsInvariance, PTL
=============================================================================
