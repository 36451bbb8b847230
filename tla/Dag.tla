-------------------------------- MODULE Dag --------------------------------
(***************************************************************************)
(* resolveDAG: Kahn's algorithm run twice over a pipeline's tasks, once by *)
(* validateDAG to look for cycles and once to group the tasks that may run *)
(* in parallel.  One action per iteration of the two loops; within a group *)
(* the order of names, which the code sorts, is not modelled.              *)
(***************************************************************************)
EXTENDS Integers, Sequences, FiniteSets

CONSTANTS Tasks,     \* names of the pipeline's tasks
          Strangers, \* names that depends_on may hold and that are no task's
          MaxDeps    \* bound on the length of a depends_on list

ASSUME TasksAssumption == IsFiniteSet(Tasks)
ASSUME MaxDepsAssumption == MaxDeps \in Nat

Names == Tasks \cup Strangers

VARIABLES dependsOn, \* the depends_on list of every task
          phase,     \* "references", "cycles", "resolve", "done" or "rejected"
          why,       \* what validateDAG objected to, or "net" for resolveDAG
          inDegree,  \* the inDegree map of the loop at work
          queue,     \* validateDAG's queue; resolveDAG's currentGroup
          processed, \* the tasks validateDAG took from its queue
          groups,    \* the groups so far
          ordered    \* order.length

vars == <<dependsOn, phase, why, inDegree, queue, processed, groups, ordered>>

\* A list may name a task twice: the schema lets it.
Lists == UNION {[1..n -> Names] : n \in 0..MaxDeps}

\* The entries of t's list that name a task in S.
EntriesIn(t, S) == {i \in DOMAIN dependsOn[t] : dependsOn[t][i] \in S}

\* Names with an underscore are plausible mistakes: the definition they are
\* named after, got wrong.  Only the mutation runs use them.

Zeros(degree) == {t \in Tasks : degree[t] = 0}
Lengths == [t \in Tasks |-> Len(dependsOn[t])]
Grouped == UNION {groups[i] : i \in DOMAIN groups}

Init == /\ dependsOn \in [Tasks -> Lists]
        /\ phase = "references"
        /\ why = "nothing"
        /\ inDegree = [t \in Tasks |-> 0]
        /\ queue = {} /\ processed = {}
        /\ groups = <<>> /\ ordered = 0
-----------------------------------------------------------------------------
(* validateDAG                                                             *)

BadReference == \E t \in Tasks : EntriesIn(t, Strangers \cup {t}) # {}

CheckReferences ==
    /\ phase = "references"
    /\ IF BadReference
       THEN phase' = "rejected" /\ why' = "reference" /\ UNCHANGED <<inDegree, queue>>
       ELSE phase' = "cycles" /\ inDegree' = Lengths /\ queue' = Zeros(Lengths)
              /\ UNCHANGED why
    /\ UNCHANGED <<dependsOn, processed, groups, ordered>>

\* A list that includes the current task gives up one degree for it.
Dependents(current) == {t \in Tasks : EntriesIn(t, {current}) # {}}

VisitTask ==
    /\ phase = "cycles"
    /\ \E current \in queue :
          /\ processed' = processed \cup {current}
          /\ inDegree' = [t \in Tasks |-> IF t \in Dependents(current)
                                          THEN inDegree[t] - 1 ELSE inDegree[t]]
          /\ queue' = (queue \ {current}) \cup {t \in Dependents(current) : inDegree[t] = 1}
    /\ UNCHANGED <<dependsOn, phase, why, groups, ordered>>

\* resolveDAG throws the error, or builds its own maps and seeds its group.
EndValidation ==
    /\ phase = "cycles" /\ queue = {}
    /\ IF processed # Tasks
       THEN phase' = "rejected" /\ why' = "cycle" /\ UNCHANGED <<inDegree, queue>>
       ELSE phase' = "resolve" /\ inDegree' = Lengths /\ queue' = Zeros(Lengths)
              /\ UNCHANGED why
    /\ UNCHANGED <<dependsOn, processed, groups, ordered>>
-----------------------------------------------------------------------------
(* resolveDAG                                                              *)

NextGroup_AnyDependent(group) == {t \in Tasks : EntriesIn(t, group) # {}}

\* Every entry gives up one degree: the loop pushes a dependent when its
\* degree reaches zero on the way down.
NextGroup(group) ==
    {t \in Tasks : inDegree[t] \in 1..Cardinality(EntriesIn(t, group))}

EmitGroup == /\ phase = "resolve" /\ queue # {}
             /\ groups' = Append(groups, queue)
             /\ ordered' = ordered + Cardinality(queue)
             /\ inDegree' = [t \in Tasks |-> inDegree[t] - Cardinality(EntriesIn(t, queue))]
             /\ queue' = NextGroup(queue)
             /\ UNCHANGED <<dependsOn, phase, why, processed>>

Finish == /\ phase = "resolve" /\ queue = {}
          /\ IF ordered # Cardinality(Tasks)
             THEN phase' = "rejected" /\ why' = "net"
             ELSE phase' = "done" /\ UNCHANGED why
          /\ UNCHANGED <<dependsOn, inDegree, queue, processed, groups, ordered>>
-----------------------------------------------------------------------------
Next == CheckReferences \/ VisitTask \/ EndValidation \/ EmitGroup \/ Finish

Spec == Init /\ [][Next]_vars
-----------------------------------------------------------------------------
TypeOK == /\ dependsOn \in [Tasks -> Lists]
          /\ phase \in {"references", "cycles", "resolve", "done", "rejected"}
          /\ why \in {"nothing", "reference", "cycle", "net"}
          /\ inDegree \in [Tasks -> Nat]
          /\ queue \subseteq Tasks
          /\ processed \subseteq Tasks
          /\ groups \in Seq(SUBSET Tasks)
          /\ ordered \in Nat

\* Groups run one after the other, so a task's dependencies must all be in
\* earlier groups than its own, however the list is written.
GroupsRespectDependencies ==
    \A i \in DOMAIN groups : \A t \in groups[i] : \A k \in DOMAIN dependsOn[t] :
        \E j \in 1..(i - 1) : dependsOn[t][k] \in groups[j]

\* No task waits for a group it does not need: one of its dependencies is in
\* the group just before its own.
GroupsAreEarliest ==
    \A i \in DOMAIN groups : i > 1 =>
        \A t \in groups[i] : EntriesIn(t, groups[i - 1]) # {}

\* A task runs once.
GroupsAreDisjoint ==
    \A i, j \in DOMAIN groups : i # j => groups[i] \cap groups[j] = {}

\* Some tasks wait for one another.
HasCycle == \E S \in (SUBSET Tasks) \ {{}} : \A t \in S : EntriesIn(t, S) # {}

\* What validateDAG lets through has neither a cycle nor an unknown name, and
\* resolveDAG's own check for a cycle, the "safety net", never fires.
AcceptedIsAcyclic == /\ phase \in {"resolve", "done"} => ~HasCycle /\ ~BadReference
                     /\ why # "net"
                     /\ phase = "done" => Grouped = Tasks

\* A pipeline rejected for a cycle has one, or a list that names a dependency
\* twice (which the schema allows); and nothing else.
Repeats(t) == \E j, k \in DOMAIN dependsOn[t] : j # k /\ dependsOn[t][j] = dependsOn[t][k]
CycleErrorIsExplained == why = "cycle" => HasCycle \/ \E t \in Tasks : Repeats(t)
=============================================================================
