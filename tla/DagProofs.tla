------------------------------ MODULE DagProofs ------------------------------
(***************************************************************************)
(* Proofs about resolveDAG for any pipeline.  Both loops keep an in-degree *)
(* that counts the entries of a list whose task has not been taken yet:    *)
(* exactly in resolveDAG, and at least in validateDAG, which takes one off *)
(* for a dependency however often it is listed.  So a task with a degree   *)
(* of zero has nothing left to wait for, and a task on a cycle, which has  *)
(* always an entry left, is never taken.                                   *)
(***************************************************************************)
EXTENDS Dag, FiniteSetTheorems, SequenceTheorems, TLAPS

USE TasksAssumption, MaxDepsAssumption

\* The entries of t's list that name no task of done.
Left(t, done) == DOMAIN dependsOn[t] \ EntriesIn(t, done)

\* Every list is a sequence, whose entries can be counted.
LEMMA ListsAreSequences ==
    ASSUME NEW s \in Lists
    PROVE  /\ s \in Seq(Names)
           /\ Len(s) \in Nat
           /\ IsFiniteSet(DOMAIN s)
           /\ Cardinality(DOMAIN s) = Len(s)
           /\ \A i \in DOMAIN s : s[i] \in Names
<1>1. PICK n \in 0..MaxDeps : s \in [1..n -> Names]
  BY DEF Lists
<1>2. n \in Nat
  BY <1>1
<1>3. s \in Seq(Names)
  BY <1>1, <1>2
<1>4. Len(s) \in Nat /\ DOMAIN s = 1..Len(s) /\ s \in [1..Len(s) -> Names]
  BY <1>3, LenProperties
<1>5. IsFiniteSet(DOMAIN s) /\ Cardinality(DOMAIN s) = Len(s)
  BY <1>4, FS_Interval
<1> QED
  BY <1>1, <1>3, <1>4, <1>5

LEMMA EntriesAreFinite ==
    ASSUME dependsOn \in [Tasks -> Lists], NEW t \in Tasks, NEW S
    PROVE  /\ IsFiniteSet(EntriesIn(t, S)) /\ Cardinality(EntriesIn(t, S)) \in Nat
           /\ IsFiniteSet(Left(t, S)) /\ Cardinality(Left(t, S)) \in Nat
           /\ Cardinality(Left(t, S)) = 0 <=> Left(t, S) = {}
           /\ Cardinality(EntriesIn(t, S)) = 0 <=> EntriesIn(t, S) = {}
<1>1. IsFiniteSet(DOMAIN dependsOn[t])
  BY ListsAreSequences
<1>2. EntriesIn(t, S) \subseteq DOMAIN dependsOn[t] /\ Left(t, S) \subseteq DOMAIN dependsOn[t]
  BY DEF EntriesIn, Left
<1>3. IsFiniteSet(EntriesIn(t, S)) /\ IsFiniteSet(Left(t, S))
  BY <1>1, <1>2, FS_Subset
<1> QED
  BY <1>3, FS_CardinalityType, FS_EmptySet

\* Taking the tasks of S away from a list takes away the entries that name
\* them, and they were all still there if done and S have nothing in common.
LEMMA TakingEntries ==
    ASSUME dependsOn \in [Tasks -> Lists], NEW t \in Tasks, NEW S, NEW done, S \cap done = {}
    PROVE  Cardinality(Left(t, done \cup S)) =
             Cardinality(Left(t, done)) - Cardinality(EntriesIn(t, S))
<1>1. Left(t, done \cup S) = Left(t, done) \ EntriesIn(t, S)
  BY DEF Left, EntriesIn
<1>2. Left(t, done) \cap EntriesIn(t, S) = EntriesIn(t, S)
  BY DEF Left, EntriesIn
<1>3. IsFiniteSet(Left(t, done))
  BY EntriesAreFinite
<1>4. Cardinality(Left(t, done) \ EntriesIn(t, S)) =
        Cardinality(Left(t, done)) - Cardinality(Left(t, done) \cap EntriesIn(t, S))
  BY <1>3, FS_Difference
<1> QED
  BY <1>1, <1>2, <1>4

LEMMA NothingTaken ==
    ASSUME dependsOn \in [Tasks -> Lists], NEW t \in Tasks
    PROVE  Cardinality(Left(t, {})) = Lengths[t] /\ Lengths[t] \in Nat
<1>1. Left(t, {}) = DOMAIN dependsOn[t]
  BY DEF Left, EntriesIn
<1> QED
  BY <1>1, ListsAreSequences DEF Lengths
-----------------------------------------------------------------------------
Cyclic(S) == \A t \in S : EntriesIn(t, S) # {}

\* Before its loop, a function has taken nothing.
NothingYet == /\ phase \in {"references", "cycles"} => groups = <<>> /\ ordered = 0
              /\ phase = "references" => processed = {} /\ why = "nothing"
              /\ phase = "cycles" => why = "nothing"

ValidatorKnows ==
    phase = "cycles" =>
        /\ ~BadReference
        /\ queue \cap processed = {}
        /\ \A t \in Tasks : /\ inDegree[t] >= Cardinality(Left(t, processed))
                            /\ inDegree[t] = 0 <=> t \in queue \cup processed
        /\ \A S \in SUBSET Tasks : Cyclic(S) => S \cap processed = {}

Accepted == phase \in {"resolve", "done"} => ~HasCycle /\ ~BadReference /\ why = "nothing"

ResolverKnows ==
    phase = "resolve" =>
        /\ Grouped \subseteq Tasks /\ Grouped \cap queue = {}
        /\ ordered = Cardinality(Grouped)
        /\ \A t \in Tasks : /\ inDegree[t] = Cardinality(Left(t, Grouped))
                            /\ inDegree[t] = 0 <=> t \in queue \cup Grouped
        /\ groups # <<>> => \A t \in queue : EntriesIn(t, groups[Len(groups)]) # {}

NetUnused == why # "net" /\ (phase = "done" => Grouped = Tasks)

Inv == /\ TypeOK
       /\ NothingYet
       /\ ValidatorKnows
       /\ Accepted
       /\ ResolverKnows
       /\ NetUnused
       /\ GroupsRespectDependencies /\ GroupsAreEarliest /\ GroupsAreDisjoint
-----------------------------------------------------------------------------
LEMMA InitInv == Init => Inv
<1> SUFFICES ASSUME Init PROVE Inv
  OBVIOUS
<1>1. dependsOn \in [Tasks -> Lists] /\ groups = <<>>
  BY DEF Init
<1>2. TypeOK
  BY <1>1 DEF Init, TypeOK
<1>3. GroupsRespectDependencies /\ GroupsAreEarliest /\ GroupsAreDisjoint
  BY <1>1 DEF GroupsRespectDependencies, GroupsAreEarliest, GroupsAreDisjoint
<1> QED
  BY <1>1, <1>2, <1>3 DEF Init, Inv, NothingYet, ValidatorKnows, Accepted, ResolverKnows, NetUnused

LEMMA CheckReferencesInv == Inv /\ CheckReferences => Inv'
<1> SUFFICES ASSUME Inv, CheckReferences PROVE Inv'
  OBVIOUS
<1>u. UNCHANGED <<dependsOn, processed, groups, ordered>> /\ phase = "references"
  BY DEF CheckReferences
<1>t. TypeOK
  BY DEF Inv
<1>g. (GroupsRespectDependencies /\ GroupsAreEarliest /\ GroupsAreDisjoint)'
  BY <1>u DEF Inv, GroupsRespectDependencies, GroupsAreEarliest, GroupsAreDisjoint, EntriesIn
<1>1. CASE BadReference
  <2>1. phase' = "rejected" /\ why' = "reference" /\ UNCHANGED <<inDegree, queue>>
    BY <1>1 DEF CheckReferences
  <2> QED
    BY <1>u, <1>t, <1>g, <2>1 DEF Inv, TypeOK, NothingYet, ValidatorKnows, Accepted,
       ResolverKnows, NetUnused
<1>2. CASE ~BadReference
  <2>1. /\ phase' = "cycles" /\ why' = why
        /\ inDegree' = Lengths /\ queue' = Zeros(Lengths)
    BY <1>2 DEF CheckReferences
  <2>2. TypeOK'
    BY <1>t, <1>u, <2>1, NothingTaken DEF TypeOK, Lengths, Zeros
  <2>3. /\ processed' = {} /\ groups' = <<>> /\ ordered' = 0 /\ why' = "nothing"
    BY <1>u, <2>1 DEF Inv, NothingYet
  <2>4. ValidatorKnows'
    <3>1. BadReference' = BadReference
      BY <1>u DEF BadReference, EntriesIn
    <3>2. ASSUME NEW t \in Tasks
          PROVE  /\ inDegree'[t] >= Cardinality(Left(t, processed)')
                 /\ inDegree'[t] = 0 <=> t \in queue' \cup processed'
      <4>1. Left(t, processed)' = Left(t, {})
        BY <1>u, <2>3 DEF Left, EntriesIn
      <4>2. inDegree'[t] = Lengths[t]
        BY <2>1
      <4> QED
        BY <1>t, <2>1, <2>3, <4>1, <4>2, NothingTaken DEF Zeros, TypeOK
    <3> QED
      BY <1>2, <2>3, <3>1, <3>2 DEF ValidatorKnows
  <2> QED
    BY <1>u, <1>g, <2>1, <2>2, <2>3, <2>4 DEF Inv, NothingYet, Accepted, ResolverKnows, NetUnused
<1> QED
  BY <1>1, <1>2

LEMMA VisitTaskInv == Inv /\ VisitTask => Inv'
<1> SUFFICES ASSUME Inv, VisitTask PROVE Inv'
  OBVIOUS
<1>t. TypeOK /\ ValidatorKnows /\ phase = "cycles"
  BY DEF Inv, VisitTask
<1>u. UNCHANGED <<dependsOn, phase, why, groups, ordered>>
  BY DEF VisitTask
<1>1. PICK current \in queue :
         /\ processed' = processed \cup {current}
         /\ inDegree' = [t \in Tasks |-> IF t \in Dependents(current)
                                         THEN inDegree[t] - 1 ELSE inDegree[t]]
         /\ queue' = (queue \ {current}) \cup {t \in Dependents(current) : inDegree[t] = 1}
  BY DEF VisitTask
<1>2. current \in Tasks /\ current \notin processed
  BY <1>t DEF TypeOK, ValidatorKnows
<1>3. \A S \in SUBSET Tasks : Cyclic(S) => S \cap (queue \cup processed) = {}
  <2> SUFFICES ASSUME NEW S \in SUBSET Tasks, Cyclic(S), NEW t \in S
               PROVE  t \notin queue \cup processed
    OBVIOUS
  <2>1. S \cap processed = {}
    BY <1>t DEF ValidatorKnows
  <2>2. PICK k \in EntriesIn(t, S) : TRUE
    BY DEF Cyclic
  <2>3. k \in Left(t, processed)
    BY <2>1, <2>2 DEF Left, EntriesIn
  <2>4. Cardinality(Left(t, processed)) \in Nat \ {0}
    BY <1>t, <2>3, EntriesAreFinite DEF TypeOK
  <2> QED
    BY <1>t, <2>4 DEF ValidatorKnows, TypeOK
<1>4. ASSUME NEW t \in Tasks
      PROVE  /\ inDegree'[t] \in Nat
             /\ inDegree'[t] >= Cardinality(Left(t, processed)')
             /\ inDegree'[t] = 0 <=> t \in queue' \cup processed'
             /\ t \in queue' => t \notin processed'
  <2>1. Left(t, processed)' = Left(t, processed \cup {current})
    BY <1>u, <1>1 DEF Left, EntriesIn
  <2>2. Cardinality(Left(t, processed)') =
          Cardinality(Left(t, processed)) - Cardinality(EntriesIn(t, {current}))
    BY <1>t, <1>2, <2>1, TakingEntries DEF TypeOK
  <2>3. /\ Cardinality(Left(t, processed)) \in Nat
        /\ Cardinality(EntriesIn(t, {current})) \in Nat
        /\ Cardinality(Left(t, processed \cup {current})) \in Nat
        /\ t \in Dependents(current) <=> Cardinality(EntriesIn(t, {current})) # 0
    BY <1>t, EntriesAreFinite DEF TypeOK, Dependents
  <2>4. /\ inDegree[t] \in Nat
        /\ inDegree[t] >= Cardinality(Left(t, processed))
        /\ inDegree[t] = 0 <=> t \in queue \cup processed
        /\ t \in queue => t \notin processed
    BY <1>t DEF ValidatorKnows, TypeOK
  <2>5. inDegree'[t] = IF t \in Dependents(current) THEN inDegree[t] - 1 ELSE inDegree[t]
    BY <1>1
  <2>6. t \in queue' <=>
          (t \in queue /\ t # current) \/ (t \in Dependents(current) /\ inDegree[t] = 1)
    BY <1>1
  <2>7. t \in processed' <=> t \in processed \/ t = current
    BY <1>1
  <2>8. t \in Dependents(current) => inDegree[t] > 0
    <3>1. Cardinality(Left(t, processed)) - Cardinality(EntriesIn(t, {current})) \in Nat
      BY <2>1, <2>2, <2>3
    <3> QED
      BY <2>3, <2>4, <3>1
  <2>9. inDegree[t] = 1 => t # current
    BY <1>1, <2>4
  <2>10. t = current => inDegree[t] = 0 /\ t \notin Dependents(current)
    BY <1>1, <2>4, <2>8
  <2>11. inDegree'[t] \in Nat /\ inDegree'[t] >= Cardinality(Left(t, processed)')
    BY <2>2, <2>3, <2>4, <2>5, <2>8
  <2>12. inDegree'[t] = 0 <=> t \in queue' \cup processed'
    BY <1>1, <2>4, <2>5, <2>6, <2>7, <2>8, <2>9, <2>10
  <2> QED
    BY <2>11, <2>12, <2>2, <2>3, <2>4, <2>5, <2>6, <2>7, <2>8, <2>9
<1>5. TypeOK'
  <2>1. inDegree' \in [Tasks -> Nat]
    BY <1>1, <1>4
  <2>2. queue' \subseteq Tasks /\ processed' \subseteq Tasks
    BY <1>t, <1>1 DEF TypeOK, Dependents
  <2> QED
    BY <1>t, <1>u, <2>1, <2>2 DEF TypeOK
<1>6. ValidatorKnows'
  <2>1. BadReference' = BadReference
    BY <1>u DEF BadReference, EntriesIn
  <2>2. ASSUME NEW S \in SUBSET Tasks, Cyclic(S)' PROVE S \cap processed' = {}
    <3>1. Cyclic(S)
      BY <1>u, <2>2 DEF Cyclic, EntriesIn
    <3> QED
      BY <1>1, <1>3, <3>1
  <2>3. queue' \cap processed' = {}
    BY <1>4, <1>5 DEF TypeOK
  <2> QED
    BY <1>t, <1>u, <1>4, <2>1, <2>2, <2>3 DEF ValidatorKnows
<1> QED
  BY <1>t, <1>u, <1>5, <1>6 DEF Inv, NothingYet, Accepted, ResolverKnows, NetUnused,
     GroupsRespectDependencies, GroupsAreEarliest, GroupsAreDisjoint, EntriesIn

LEMMA EndValidationInv == Inv /\ EndValidation => Inv'
<1> SUFFICES ASSUME Inv, EndValidation PROVE Inv'
  OBVIOUS
<1>t. TypeOK /\ ValidatorKnows /\ phase = "cycles" /\ groups = <<>> /\ ordered = 0
  BY DEF Inv, EndValidation, NothingYet
<1>u. UNCHANGED <<dependsOn, processed, groups, ordered>>
  BY DEF EndValidation
<1>g. (GroupsRespectDependencies /\ GroupsAreEarliest /\ GroupsAreDisjoint)'
  BY <1>u DEF Inv, GroupsRespectDependencies, GroupsAreEarliest, GroupsAreDisjoint, EntriesIn
<1>1. CASE processed # Tasks
  <2>1. phase' = "rejected" /\ why' = "cycle" /\ UNCHANGED <<inDegree, queue>>
    BY <1>1 DEF EndValidation
  <2> QED
    BY <1>u, <1>t, <1>g, <2>1 DEF Inv, TypeOK, NothingYet, ValidatorKnows, Accepted,
       ResolverKnows, NetUnused
<1>2. CASE processed = Tasks
  <2>1. /\ phase' = "resolve" /\ why' = why
        /\ inDegree' = Lengths /\ queue' = Zeros(Lengths)
    BY <1>2 DEF EndValidation
  <2>2. TypeOK'
    BY <1>t, <1>u, <2>1, NothingTaken DEF TypeOK, Lengths, Zeros
  <2>3. Accepted'
    <3>1. ~HasCycle
      <4> SUFFICES ASSUME NEW S \in SUBSET Tasks, S # {}, Cyclic(S) PROVE FALSE
        BY DEF HasCycle, Cyclic
      <4> QED
        BY <1>2, <1>t DEF ValidatorKnows
    <3>2. HasCycle' = HasCycle /\ BadReference' = BadReference
      BY <1>u DEF HasCycle, BadReference, EntriesIn
    <3> QED
      BY <1>t, <2>1, <3>1, <3>2 DEF Accepted, ValidatorKnows, Inv, NothingYet
  <2>4. ResolverKnows'
    <3>1. Grouped' = {}
      BY <1>t, <1>u DEF Grouped
    <3>2. ASSUME NEW t \in Tasks
          PROVE  /\ inDegree'[t] = Cardinality(Left(t, Grouped)')
                 /\ inDegree'[t] = 0 <=> t \in queue' \cup Grouped'
      <4>1. Left(t, Grouped)' = Left(t, {})
        BY <1>u, <3>1 DEF Left, EntriesIn
      <4>2. inDegree'[t] = Lengths[t]
        BY <2>1
      <4> QED
        BY <1>t, <2>1, <3>1, <4>1, <4>2, NothingTaken DEF Zeros, TypeOK
    <3> QED
      BY <1>t, <1>u, <3>1, <3>2, FS_EmptySet DEF ResolverKnows
  <2> QED
    BY <1>u, <1>t, <1>g, <2>1, <2>2, <2>3, <2>4 DEF Inv, NothingYet, ValidatorKnows, NetUnused
<1> QED
  BY <1>1, <1>2
-----------------------------------------------------------------------------
\* What EmitGroup makes of the groups: the old ones and, last, the queue.
LEMMA GroupAppended ==
    ASSUME TypeOK, EmitGroup
    PROVE  /\ Len(groups) \in Nat /\ Len(groups') = Len(groups) + 1
           /\ DOMAIN groups = 1..Len(groups) /\ DOMAIN groups' = 1..Len(groups')
           /\ \A i \in 1..Len(groups) : groups'[i] = groups[i]
           /\ groups'[Len(groups')] = queue
           /\ groups' # <<>> /\ groups' \in Seq(SUBSET Tasks)
           /\ Grouped' = Grouped \cup queue
<1>1. groups \in Seq(SUBSET Tasks) /\ queue \in SUBSET Tasks /\ groups' = Append(groups, queue)
  BY DEF TypeOK, EmitGroup
<1>2. /\ Len(groups) \in Nat /\ Len(groups') = Len(groups) + 1
      /\ \A i \in 1..Len(groups) : groups'[i] = groups[i]
      /\ groups'[Len(groups')] = queue
      /\ groups' # <<>> /\ groups' \in Seq(SUBSET Tasks)
  BY <1>1, AppendProperties, LenProperties
<1>3. DOMAIN groups = 1..Len(groups) /\ DOMAIN groups' = 1..Len(groups')
  BY <1>1, <1>2, LenProperties
<1>4. Grouped' = Grouped \cup queue
  <2>1. \A i \in DOMAIN groups' : groups'[i] = queue \/ (i \in DOMAIN groups /\ groups'[i] = groups[i])
    BY <1>2, <1>3
  <2>2. \A i \in DOMAIN groups : i \in DOMAIN groups' /\ groups'[i] = groups[i]
    BY <1>2, <1>3
  <2>3. Len(groups') \in DOMAIN groups' /\ groups'[Len(groups')] = queue
    BY <1>2, <1>3
  <2> QED
    BY <2>1, <2>2, <2>3 DEF Grouped
<1> QED
  BY <1>2, <1>3, <1>4

LEMMA EmitGroupInv == Inv /\ EmitGroup => Inv'
<1> SUFFICES ASSUME Inv, EmitGroup PROVE Inv'
  OBVIOUS
<1>t. TypeOK /\ ResolverKnows /\ phase = "resolve"
  BY DEF Inv, EmitGroup
<1>u. UNCHANGED <<dependsOn, phase, why, processed>>
  BY DEF EmitGroup
<1>1. /\ Len(groups) \in Nat /\ Len(groups') = Len(groups) + 1
      /\ DOMAIN groups = 1..Len(groups) /\ DOMAIN groups' = 1..Len(groups')
      /\ \A i \in 1..Len(groups) : groups'[i] = groups[i]
      /\ groups'[Len(groups')] = queue
      /\ groups' # <<>> /\ groups' \in Seq(SUBSET Tasks)
      /\ Grouped' = Grouped \cup queue
  BY <1>t, GroupAppended
<1>2. Grouped \subseteq Tasks /\ queue \subseteq Tasks /\ Grouped \cap queue = {}
  BY <1>t DEF TypeOK, ResolverKnows
<1>3. ASSUME NEW t \in Tasks
      PROVE  /\ inDegree'[t] \in Nat
             /\ inDegree'[t] = Cardinality(Left(t, Grouped)')
             /\ inDegree'[t] = 0 <=> t \in queue' \cup Grouped'
             /\ t \in queue' => t \notin Grouped' /\ EntriesIn(t, queue) # {}
  <2>1. Left(t, Grouped)' = Left(t, Grouped \cup queue)
    BY <1>u, <1>1 DEF Left, EntriesIn
  <2>2. Cardinality(Left(t, Grouped)') =
          Cardinality(Left(t, Grouped)) - Cardinality(EntriesIn(t, queue))
    BY <1>t, <1>2, <2>1, TakingEntries DEF TypeOK
  <2>3. /\ Cardinality(Left(t, Grouped)) \in Nat
        /\ Cardinality(EntriesIn(t, queue)) \in Nat
        /\ Cardinality(Left(t, Grouped \cup queue)) \in Nat
        /\ Cardinality(EntriesIn(t, queue)) = 0 <=> EntriesIn(t, queue) = {}
    BY <1>t, EntriesAreFinite DEF TypeOK
  <2>4. inDegree[t] = Cardinality(Left(t, Grouped)) /\ (inDegree[t] = 0 <=> t \in queue \cup Grouped)
    BY <1>t DEF ResolverKnows
  <2>5. inDegree'[t] = inDegree[t] - Cardinality(EntriesIn(t, queue))
    BY DEF EmitGroup
  <2>6. inDegree'[t] \in Nat /\ inDegree'[t] = Cardinality(Left(t, Grouped)')
    BY <2>1, <2>2, <2>3, <2>4, <2>5
  <2>7. t \in queue' <=> inDegree[t] \in 1..Cardinality(EntriesIn(t, queue))
    BY DEF EmitGroup, NextGroup
  <2>8. t \in queue' <=> inDegree[t] # 0 /\ inDegree'[t] = 0
    BY <2>3, <2>4, <2>5, <2>6, <2>7
  <2>9. inDegree'[t] = 0 <=> t \in queue' \cup Grouped'
    <3>1. inDegree[t] = 0 => inDegree'[t] = 0
      BY <2>3, <2>4, <2>5, <2>6
    <3> QED
      BY <1>1, <2>4, <2>8, <3>1
  <2>10. t \in queue' => t \notin Grouped' /\ EntriesIn(t, queue) # {}
    BY <1>1, <2>3, <2>4, <2>5, <2>8
  <2> QED
    BY <2>6, <2>9, <2>10
<1>4. ordered' = Cardinality(Grouped') /\ ordered' \in Nat
  <2>1. IsFiniteSet(Grouped) /\ IsFiniteSet(queue)
    BY <1>2, FS_Subset
  <2>2. Cardinality(Grouped \cup queue) =
          Cardinality(Grouped) + Cardinality(queue) - Cardinality(Grouped \cap queue)
    BY <2>1, FS_Union
  <2>3. Cardinality(Grouped) \in Nat /\ Cardinality(queue) \in Nat
    BY <2>1, FS_CardinalityType
  <2>4. Cardinality(Grouped \cap queue) = 0
    BY <1>2, FS_EmptySet
  <2>5. ordered = Cardinality(Grouped) /\ ordered' = ordered + Cardinality(queue)
    BY <1>t DEF ResolverKnows, EmitGroup
  <2> QED
    BY <1>1, <2>2, <2>3, <2>4, <2>5
<1>5. TypeOK'
  <2>1. inDegree' = [t \in Tasks |-> inDegree[t] - Cardinality(EntriesIn(t, queue))]
    BY DEF EmitGroup
  <2>2. inDegree' \in [Tasks -> Nat]
    BY <1>3, <2>1
  <2>3. queue' \subseteq Tasks
    BY DEF EmitGroup, NextGroup
  <2> QED
    BY <1>t, <1>u, <1>1, <1>4, <2>2, <2>3 DEF TypeOK
<1>6. ResolverKnows'
  <2>1. Grouped' \subseteq Tasks /\ Grouped' \cap queue' = {}
    BY <1>1, <1>2, <1>3, <1>5 DEF TypeOK
  <2>2. \A t \in queue' : EntriesIn(t, groups[Len(groups)])' # {}
    <3> SUFFICES ASSUME NEW t \in queue' PROVE EntriesIn(t, groups[Len(groups)])' # {}
      OBVIOUS
    <3>1. EntriesIn(t, groups[Len(groups)])' = EntriesIn(t, queue)
      BY <1>u, <1>1 DEF EntriesIn
    <3> QED
      BY <1>3, <1>5, <3>1 DEF TypeOK
  <2> QED
    BY <1>3, <1>4, <2>1, <2>2 DEF ResolverKnows
<1>7. GroupsRespectDependencies'
  <2> SUFFICES ASSUME NEW i \in 1..Len(groups'), NEW t \in groups'[i], NEW k \in DOMAIN dependsOn[t]
               PROVE  \E j \in 1..(i - 1) : dependsOn[t][k] \in groups'[j]
    BY <1>u, <1>1 DEF GroupsRespectDependencies
  <2>1. CASE i \in 1..Len(groups)
    <3>1. PICK j \in 1..(i - 1) : dependsOn[t][k] \in groups[j]
      BY <1>1, <2>1 DEF Inv, GroupsRespectDependencies
    <3>2. groups'[j] = groups[j]
      BY <1>1, <2>1
    <3> QED
      BY <3>1, <3>2
  <2>2. CASE i = Len(groups')
    <3>1. t \in queue /\ t \in Tasks
      BY <1>1, <1>2, <2>2
    <3>2. Left(t, Grouped) = {}
      BY <1>t, <3>1, EntriesAreFinite DEF ResolverKnows, TypeOK
    <3>3. dependsOn[t][k] \in Grouped
      BY <3>2 DEF Left, EntriesIn
    <3>4. PICK j \in DOMAIN groups : dependsOn[t][k] \in groups[j]
      BY <3>3 DEF Grouped
    <3>5. j \in 1..(i - 1) /\ groups'[j] = groups[j]
      BY <1>1, <2>2
    <3> QED
      BY <3>4, <3>5
  <2> QED
    BY <1>1, <2>1, <2>2
<1>8. GroupsAreEarliest'
  <2> SUFFICES ASSUME NEW i \in 1..Len(groups'), i > 1, NEW t \in groups'[i]
               PROVE  EntriesIn(t, groups[i - 1])' # {}
    BY <1>1 DEF GroupsAreEarliest, EntriesIn
  <2>0. EntriesIn(t, groups[i - 1])' = EntriesIn(t, groups[i - 1])
    <3>1. groups'[i - 1] = groups[i - 1]
      BY <1>1
    <3> QED
      BY <1>u, <3>1 DEF EntriesIn
  <2>1. CASE i \in 1..Len(groups)
    BY <1>1, <2>0, <2>1 DEF Inv, GroupsAreEarliest
  <2>2. CASE i = Len(groups')
    BY <1>t, <1>1, <2>0, <2>2 DEF ResolverKnows
  <2> QED
    BY <1>1, <2>1, <2>2
<1>9. GroupsAreDisjoint'
  <2>1. \A i \in 1..Len(groups) : groups[i] \cap queue = {}
    BY <1>1, <1>2 DEF Grouped
  <2>2. \A i, j \in 1..Len(groups) : i # j => groups[i] \cap groups[j] = {}
    BY <1>1 DEF Inv, GroupsAreDisjoint
  <2>3. \A i \in 1..Len(groups') : i \in 1..Len(groups) \/ (groups'[i] = queue /\ i = Len(groups'))
    BY <1>1
  <2> QED
    BY <1>1, <2>1, <2>2, <2>3 DEF GroupsAreDisjoint
<1> QED
  <2>1. HasCycle' = HasCycle /\ BadReference' = BadReference
    BY <1>u DEF HasCycle, BadReference, EntriesIn
  <2> QED
    BY <1>t, <1>u, <1>5, <1>6, <1>7, <1>8, <1>9, <2>1
       DEF Inv, NothingYet, ValidatorKnows, Accepted, NetUnused

LEMMA FinishInv == Inv /\ Finish => Inv'
<1> SUFFICES ASSUME Inv, Finish PROVE Inv'
  OBVIOUS
<1>t. TypeOK /\ ResolverKnows /\ Accepted /\ phase = "resolve" /\ queue = {}
  BY DEF Inv, Finish
<1>u. UNCHANGED <<dependsOn, inDegree, queue, processed, groups, ordered>>
  BY DEF Finish
<1>1. Grouped = Tasks
  <2> DEFINE rest == Tasks \ Grouped
  <2>1. Cyclic(rest)
    <3> SUFFICES ASSUME NEW t \in rest PROVE EntriesIn(t, rest) # {}
      BY DEF Cyclic
    <3>1. Left(t, Grouped) # {}
      BY <1>t, EntriesAreFinite DEF ResolverKnows, TypeOK
    <3>2. PICK k \in DOMAIN dependsOn[t] : dependsOn[t][k] \notin Grouped
      BY <3>1 DEF Left, EntriesIn
    <3>3. dependsOn[t][k] \in Tasks
      <4>1. dependsOn[t][k] \in Names
        BY <1>t, ListsAreSequences DEF TypeOK
      <4>2. k \notin EntriesIn(t, Strangers \cup {t})
        BY <1>t DEF Accepted, BadReference
      <4> QED
        BY <4>1, <4>2 DEF Names, EntriesIn
    <3> QED
      BY <3>2, <3>3 DEF EntriesIn
  <2>2. rest = {}
    BY <1>t, <2>1 DEF Accepted, HasCycle, Cyclic
  <2> QED
    BY <1>t, <2>2 DEF ResolverKnows
<1>2. phase' = "done" /\ why' = why
  BY <1>t, <1>1 DEF Finish, ResolverKnows
<1>3. /\ Grouped' = Grouped /\ HasCycle' = HasCycle /\ BadReference' = BadReference
      /\ (GroupsRespectDependencies /\ GroupsAreEarliest /\ GroupsAreDisjoint)'
  BY <1>u DEF Inv, Grouped, HasCycle, BadReference, GroupsRespectDependencies,
     GroupsAreEarliest, GroupsAreDisjoint, EntriesIn
<1>4. TypeOK'
  BY <1>t, <1>u, <1>2 DEF TypeOK
<1> QED
  BY <1>t, <1>u, <1>1, <1>2, <1>3, <1>4
     DEF Inv, NothingYet, ValidatorKnows, Accepted, ResolverKnows, NetUnused

LEMMA InvStep == Inv /\ [Next]_vars => Inv'
<1> SUFFICES ASSUME Inv, [Next]_vars PROVE Inv'
  OBVIOUS
<1>1. CASE UNCHANGED vars
  <2> USE <1>1 DEF vars, Inv
  <2>1. TypeOK' /\ NothingYet'
    BY DEF TypeOK, NothingYet
  <2>0. /\ BadReference' = BadReference /\ HasCycle' = HasCycle
        /\ \A S \in SUBSET Tasks : Cyclic(S)' = Cyclic(S)
        /\ \A t \in Tasks : Left(t, processed)' = Left(t, processed)
    BY DEF BadReference, HasCycle, Cyclic, Left, EntriesIn
  <2>2. ValidatorKnows'
    BY <2>0 DEF ValidatorKnows
  <2>3. Accepted'
    BY <2>0 DEF Accepted
  <2>4. ResolverKnows' /\ NetUnused'
    BY DEF ResolverKnows, NetUnused, Grouped, Left, EntriesIn
  <2>5. (GroupsRespectDependencies /\ GroupsAreEarliest /\ GroupsAreDisjoint)'
    BY DEF GroupsRespectDependencies, GroupsAreEarliest, GroupsAreDisjoint, EntriesIn
  <2> QED
    BY <2>1, <2>2, <2>3, <2>4, <2>5
<1> QED
  BY <1>1, CheckReferencesInv, VisitTaskInv, EndValidationInv, EmitGroupInv, FinishInv DEF Next

LEMMA Invariance == Spec => []Inv
<1> QED
  BY InitInv, InvStep, PTL DEF Spec
-----------------------------------------------------------------------------
\* The maps and lists of both loops are well formed; in particular no
\* in-degree ever falls below zero, although lists may repeat a name.
THEOREM TypeCorrect == Spec => []TypeOK
<1>1. Inv => TypeOK
  BY DEF Inv
<1> QED
  BY <1>1, Invariance, PTL

\* For every pipeline: a task's group comes after the groups of everything it
\* depends on, never later than it has to, and once.
THEOREM GroupsAreSound ==
    Spec => [](GroupsRespectDependencies /\ GroupsAreEarliest /\ GroupsAreDisjoint)
<1>1. Inv => GroupsRespectDependencies /\ GroupsAreEarliest /\ GroupsAreDisjoint
  BY DEF Inv
<1> QED
  BY <1>1, Invariance, PTL

\* For every pipeline: validateDAG lets no cycle through, so resolveDAG puts
\* every task in a group and the error it keeps as a safety net is never
\* thrown.
THEOREM SafetyNetIsUnused == Spec => []AcceptedIsAcyclic
<1>1. Inv => AcceptedIsAcyclic
  BY DEF Inv, Accepted, NetUnused, AcceptedIsAcyclic
<1> QED
  BY <1>1, Invariance, PTL
-----------------------------------------------------------------------------
(* validateDAG's count is exact when no list repeats a name, so what it then *)
(* leaves in its map waits for itself.                                       *)

NoneRepeats == \A t \in Tasks : ~Repeats(t)

CountIsExact == phase = "cycles" /\ NoneRepeats =>
                    \A t \in Tasks : inDegree[t] = Cardinality(Left(t, processed))

\* A list without repetitions names a task in one entry or in none.
LEMMA OneEntry ==
    ASSUME dependsOn \in [Tasks -> Lists], NEW t \in Tasks, ~Repeats(t), NEW c
    PROVE  Cardinality(EntriesIn(t, {c})) = IF EntriesIn(t, {c}) = {} THEN 0 ELSE 1
<1>1. CASE EntriesIn(t, {c}) = {}
  BY <1>1, FS_EmptySet
<1>2. CASE EntriesIn(t, {c}) # {}
  <2>1. PICK i \in DOMAIN dependsOn[t] : dependsOn[t][i] = c
    BY <1>2 DEF EntriesIn
  <2>2. EntriesIn(t, {c}) = {i}
    BY <2>1 DEF EntriesIn, Repeats
  <2> QED
    BY <1>2, <2>2, FS_Singleton
<1> QED
  BY <1>1, <1>2

LEMMA VisitTaskCounts == Inv /\ CountIsExact /\ VisitTask => CountIsExact'
<1> SUFFICES ASSUME Inv, CountIsExact, VisitTask, NoneRepeats', NEW t \in Tasks
             PROVE  inDegree'[t] = Cardinality(Left(t, processed)')
  BY DEF CountIsExact
<1>t. TypeOK /\ ValidatorKnows /\ phase = "cycles" /\ dependsOn' = dependsOn
  BY DEF Inv, VisitTask
<1>1. PICK current \in queue :
        /\ processed' = processed \cup {current}
        /\ inDegree' = [u \in Tasks |-> IF u \in Dependents(current)
                                        THEN inDegree[u] - 1 ELSE inDegree[u]]
  BY DEF VisitTask
<1>2. NoneRepeats
  BY <1>t DEF NoneRepeats, Repeats
<1>3. current \notin processed
  BY <1>t DEF ValidatorKnows
<1>4. Left(t, processed)' = Left(t, processed \cup {current})
  BY <1>t, <1>1 DEF Left, EntriesIn
<1>5. Cardinality(Left(t, processed \cup {current})) =
        Cardinality(Left(t, processed)) - Cardinality(EntriesIn(t, {current}))
  BY <1>t, <1>3, TakingEntries DEF TypeOK
<1>6. Cardinality(EntriesIn(t, {current})) = IF t \in Dependents(current) THEN 1 ELSE 0
  BY <1>t, <1>2, OneEntry DEF TypeOK, NoneRepeats, Dependents
<1>7. inDegree[t] = Cardinality(Left(t, processed)) /\ Cardinality(Left(t, processed)) \in Nat
  BY <1>t, <1>2, EntriesAreFinite DEF CountIsExact, TypeOK
<1> QED
  BY <1>1, <1>4, <1>5, <1>6, <1>7

\* The tasks an exact count leaves over, when the queue is empty, wait for
\* one another: the error is thrown for a cycle, or the count was not exact.
LEMMA LeftoversAreExplained ==
    ASSUME Inv, CountIsExact, EndValidation
    PROVE  processed # Tasks => HasCycle \/ \E t \in Tasks : Repeats(t)
<1> SUFFICES ASSUME processed # Tasks, NoneRepeats PROVE HasCycle
  BY DEF NoneRepeats
<1> DEFINE rest == Tasks \ processed
<1>t. TypeOK /\ ValidatorKnows /\ phase = "cycles" /\ queue = {}
  BY DEF Inv, EndValidation
<1>1. rest # {} /\ rest \in SUBSET Tasks
  BY <1>t DEF TypeOK
<1>2. ASSUME NEW t \in rest PROVE EntriesIn(t, rest) # {}
  <2>1. inDegree[t] # 0 /\ inDegree[t] = Cardinality(Left(t, processed))
    BY <1>t DEF ValidatorKnows, CountIsExact
  <2>2. Left(t, processed) # {}
    BY <1>t, <2>1, EntriesAreFinite DEF TypeOK
  <2>3. PICK k \in DOMAIN dependsOn[t] : dependsOn[t][k] \notin processed
    BY <2>2 DEF Left, EntriesIn
  <2>4. dependsOn[t][k] \in Names
    BY <1>t, ListsAreSequences DEF TypeOK
  <2>5. k \notin EntriesIn(t, Strangers \cup {t})
    BY <1>t DEF ValidatorKnows, BadReference
  <2> QED
    BY <2>3, <2>4, <2>5 DEF Names, EntriesIn
<1> QED
  BY <1>1, <1>2 DEF HasCycle

LEMMA ExplainedStep ==
    Inv /\ CountIsExact /\ CycleErrorIsExplained /\ [Next]_vars
      => CountIsExact' /\ CycleErrorIsExplained'
<1> SUFFICES ASSUME Inv, CountIsExact, CycleErrorIsExplained, [Next]_vars
             PROVE  CountIsExact' /\ CycleErrorIsExplained'
  OBVIOUS
<1>1. HasCycle' = HasCycle /\ \A t \in Tasks : Repeats(t)' = Repeats(t)
  <2>1. dependsOn' = dependsOn
    BY DEF Next, vars, CheckReferences, VisitTask, EndValidation, EmitGroup, Finish
  <2> QED
    BY <2>1 DEF HasCycle, EntriesIn, Repeats
<1>2. CASE CheckReferences
  <2>1. why' # "cycle" /\ processed' = {} /\ dependsOn' = dependsOn
    BY <1>2 DEF CheckReferences, Inv, NothingYet
  <2>2. CountIsExact'
    <3> SUFFICES ASSUME phase' = "cycles", NEW t \in Tasks
                 PROVE  inDegree'[t] = Cardinality(Left(t, processed)')
      BY DEF CountIsExact
    <3>1. inDegree'[t] = Lengths[t]
      BY <1>2 DEF CheckReferences
    <3>2. Left(t, processed)' = Left(t, {})
      BY <2>1 DEF Left, EntriesIn
    <3> QED
      BY <3>1, <3>2, NothingTaken DEF Inv, TypeOK
  <2> QED
    BY <2>1, <2>2 DEF CycleErrorIsExplained
<1>3. CASE VisitTask
  BY <1>1, <1>3, VisitTaskCounts DEF VisitTask, CycleErrorIsExplained
<1>4. CASE EndValidation
  BY <1>1, <1>4, LeftoversAreExplained
     DEF EndValidation, CycleErrorIsExplained, CountIsExact, Inv, NothingYet
<1>5. CASE EmitGroup \/ Finish
  BY <1>1, <1>5 DEF EmitGroup, Finish, CycleErrorIsExplained, CountIsExact
<1>6. CASE UNCHANGED vars
  <2>1. \A t \in Tasks : Left(t, processed)' = Left(t, processed)
    BY <1>6 DEF vars, Left, EntriesIn
  <2> QED
    BY <1>1, <1>6, <2>1 DEF vars, CycleErrorIsExplained, CountIsExact, NoneRepeats
<1> QED
  BY <1>2, <1>3, <1>4, <1>5, <1>6 DEF Next

\* For every pipeline: validateDAG reports a cycle only if there is one, or if
\* some task lists a dependency twice.
THEOREM CycleErrorsAreExplained == Spec => []CycleErrorIsExplained
<1>1. Init => CountIsExact /\ CycleErrorIsExplained
  BY DEF Init, CountIsExact, CycleErrorIsExplained
<1> QED
  BY <1>1, Invariance, ExplainedStep, PTL DEF Spec
=============================================================================
