--------------------------- MODULE DeployerProofs ---------------------------
(***************************************************************************)
(* Proofs about the deployers: deployments to the local Docker host by the *)
(* drivers of the three strategies, the same with the health monitor that  *)
(* works on their containers, and deployments to a cloud.  Each part       *)
(* states the inductive invariant of its component, one lemma per          *)
(* operation of the code, and the theorems they give.                      *)
(***************************************************************************)
EXTENDS SelfHealedDeploy, CloudDeploy, FiniteSetTheorems, WellFoundedInduction, TLAPS
-----------------------------------------------------------------------------
(* Deployments to the local Docker host.                                   *)

\* The calls of the three drivers.
BlueGreenPcs == {"bg_choose", "bg_clear", "bg_run", "bg_check", "bg_abandon", "bg_switch", "bg_drain"}
CanaryPcs == {"cn_start", "cn_first", "cn_first_check", "cn_first_abandon", "cn_first_route",
              "cn_clear", "cn_run", "cn_check", "cn_abandon", "cn_stage", "cn_observe", "cn_back",
              "cn_promote", "cn_drop_stable", "cn_run_stable", "cn_check_stable", "cn_keep_canary",
              "cn_settle", "cn_drop_canary"}
FirstPcs == {"rl_first", "rl_first_run", "rl_first_check", "rl_first_clean", "rl_first_route"}
UpdatePcs == {"rl_exclude", "rl_drop", "rl_run", "rl_check", "rl_rejoin"}
UndoPcs == {"rl_undo", "rl_redo", "rl_next", "rl_refresh"}
RollingPcs == {"rl_start"} \cup FirstPcs \cup UpdatePcs \cup UndoPcs

Jobs == [strategy : Strategies \cup {None}, image : Images \cup {None}, deployment : Nat,
         before : SUBSET Images, old : {blue, green, None}, new : {blue, green, None},
         previous : Images \cup {None}, carried : Images \cup {None}, count : Nat \ {0},
         batch : Nat \ {0}, size : Nat, base : Nat, at : Nat, cursor : Nat, stage : Nat]

\* What every state of the host and of a deployment satisfies.
HostTyped == HostOK /\ (\A n \in Running : box[n].image \in Images) /\ IsFiniteSet(RunningInstances)

DeployTyped ==
  /\ HostTyped
  /\ job \in Jobs
  /\ verdict \in Verdicts /\ mishap \in BOOLEAN
  /\ job.deployment <= MaxDeployments

\* Where a deployment is, and by which driver.
Driven ==
  /\ pc \in {"idle", "done"} \cup BlueGreenPcs \cup CanaryPcs \cup RollingPcs
  /\ pc # "idle" => job.image \in Images /\ job.deployment # 0
  /\ pc \in BlueGreenPcs => job.strategy = "blue_green"
  /\ pc \in CanaryPcs => job.strategy = "canary"
  /\ pc \in RollingPcs => job.strategy = "rolling" /\ 0 .. job.count - 1 \subseteq Ordinals
  /\ pc = "done" => job.strategy # "blue_green"
  /\ IF job.deployment = 0 THEN Running = {} ELSE job.strategy \in Strategies

\* The container n runs, and this deployment created it.
IsNew(n) == isContainerRunning(n) /\ box[n].deployment = job.deployment

\* Everything served is of this deployment, but for instances beyond its count.
ServesNew == \A n \in loaded : box[n].deployment = job.deployment \/ (n \in Ordinals /\ n >= job.count)

Delivered == pc \in {"done", "bg_drain", "cn_drop_canary"} => ServesNew

BlueGreenOK ==
  /\ pc \in BlueGreenPcs \ {"bg_choose"} =>
       job.new \in {blue, green} /\ job.old \in {blue, green, None} \ {job.new}
  /\ pc = "bg_run" => box[job.new].state = "absent"
  /\ pc \in {"bg_check", "bg_abandon", "bg_switch", "bg_drain"} => IsNew(job.new)
  /\ pc = "bg_drain" => loaded = {job.new}

CanaryOK ==
  /\ pc \in {"cn_first_check", "cn_first_route", "cn_check_stable", "cn_settle", "cn_drop_canary"} => IsNew(stable)
  /\ pc = "cn_drop_canary" => loaded = {stable}
  /\ pc \in {"cn_observe", "cn_back", "cn_promote", "cn_drop_stable", "cn_run_stable", "cn_check_stable",
             "cn_keep_canary", "cn_settle", "cn_drop_canary"} => job.stage >= 1

\* The instances below job.at are of this deployment.
RollingOK ==
  /\ pc = "rl_start" => job.at = 0 /\ job.base = 0 /\ job.cursor = 0
  /\ pc \in {"rl_first", "rl_first_run", "rl_first_check", "rl_first_route"} => job.cursor = 0
  /\ pc \in UndoPcs \cup (FirstPcs \ {"rl_first_route"}) => job.cursor <= job.at /\ job.at < job.count
  /\ pc = "rl_first_route" => job.at = job.count
  /\ pc \in UpdatePcs \cup (FirstPcs \ {"rl_first_clean"}) => \A o \in 0 .. job.at - 1 : IsNew(o)
  /\ pc \in {"rl_check", "rl_first_check"} => IsNew(job.at)
  /\ pc = "rl_first_run" => box[job.at].state = "absent"
  /\ pc \in UpdatePcs => job.base < job.count /\ job.size >= 1
  /\ pc \in {"rl_exclude", "rl_drop"} => job.at = job.base
  /\ pc = "rl_exclude" => job.cursor = job.base
  /\ pc = "rl_drop" => job.cursor \in Batch
  /\ pc \in {"rl_run", "rl_check"} => job.at \in Batch
  /\ pc = "rl_rejoin" => job.at <= job.base + job.batch /\ job.at \in {job.base + job.batch, job.count}
  /\ pc = "rl_redo" => box[job.cursor].state = "absent"
  /\ pc \in {"rl_undo", "rl_redo", "rl_next"} => job.previous # None
  /\ pc = "rl_next" => job.cursor < job.at
  /\ pc = "rl_refresh" /\ job.previous # None => job.cursor = job.at

\* Traffic stays on what was served before the deployment until it is moved.
Kept ==
  \/ pc \in BlueGreenPcs \ {"bg_drain"}
  \/ pc \in CanaryPcs /\ job.stage = 0
  \/ pc \in {"rl_start"} \cup FirstPcs

ServesOld == Kept => ServedImages \subseteq job.before

\* What holds until a call fails: each driver finds its containers as its last
\* deployment left them.
NoneExited == \A n \in Names : box[n].state # "exited"

BlueGreenClean ==
  /\ pc \notin BlueGreenPcs \ {"bg_choose"} => ~(isContainerRunning(blue) /\ isContainerRunning(green))
  /\ pc \in BlueGreenPcs \ {"bg_choose"} =>
       \A n \in {blue, green} \ {job.new} : isContainerRunning(n) => n = job.old
  /\ pc \in {"bg_clear", "bg_run"} => ~isContainerRunning(job.new)
  /\ pc \in {"bg_check", "bg_abandon", "bg_switch"} => job.new \notin loaded

CanaryClean ==
  /\ pc \notin CanaryPcs \ {"cn_start"} => ~(isContainerRunning(stable) /\ canary \in loaded)
  /\ pc \in {"cn_first", "cn_run_stable"} => ~isContainerRunning(stable)
  /\ pc \in {"cn_first_check", "cn_first_abandon", "cn_first_route"} => stable \notin loaded
  /\ pc \in {"cn_clear", "cn_run", "cn_check", "cn_stage", "cn_observe", "cn_back", "cn_abandon", "cn_promote",
             "cn_drop_stable", "cn_settle"} => isContainerRunning(stable)
  /\ pc \in {"cn_check", "cn_stage", "cn_observe", "cn_back", "cn_promote"} => isContainerRunning(canary)
  /\ pc \in {"cn_clear", "cn_run", "cn_check", "cn_abandon"} => canary \notin loaded
  /\ pc = "cn_run" => ~isContainerRunning(canary)
  /\ pc \in {"cn_drop_stable", "cn_run_stable", "cn_check_stable", "cn_keep_canary", "cn_settle"} =>
       loaded = {canary}

RollingClean ==
  /\ pc \in FirstPcs => loaded \cap Ordinals = {}
  /\ pc = "rl_drop" => \A o \in Batch : o < job.cursor => ~isContainerRunning(o)
  /\ pc = "rl_run" => \A o \in Batch : o >= job.at => ~isContainerRunning(o)
  /\ pc = "rl_check" => \A o \in Batch : o > job.at => ~isContainerRunning(o)

\* How many instances a rolling update found, and has taken out of rotation.
CapacityClean ==
  /\ pc \in UpdatePcs => job.size <= Cardinality(RunningInstances \cup Batch)
  /\ pc = "rl_exclude" => job.size <= Cardinality(RunningInstances)
  /\ pc \in UpdatePcs \ {"rl_exclude"} => job.batch >= job.size \/ loaded = RunningInstances \ Batch

Clean == ~mishap => NoneExited /\ BlueGreenClean /\ CanaryClean /\ RollingClean /\ CapacityClean

\* A project that was only ever deployed by rolling updates serves its
\* instances, and an update that has to go back knows an image served before.
OldAmong(S) == \A o \in RunningInstances \cap S : box[o].image \in job.before

RollingServes ==
  /\ Running \subseteq Ordinals
  /\ pc \in {"idle", "done", "rl_start"} => loaded = Running
  /\ pc = "rl_start" => ServedImages = job.before
  /\ pc \in FirstPcs => loaded = {}
  /\ pc \in {"rl_first", "rl_first_run"} => \A o \in RunningInstances : o < job.at
  /\ pc = "rl_first_check" => \A o \in RunningInstances : o <= job.at
  /\ pc = "rl_first_clean" => \A o \in RunningInstances : job.cursor <= o /\ o <= job.at
  /\ pc = "rl_first_route" => RunningInstances \subseteq FirstInstances

RollingReturns ==
  /\ pc \in UpdatePcs \cup UndoPcs => job.previous \in job.before
  /\ pc \in UpdatePcs \ {"rl_check"} => OldAmong({o \in Ordinals : o >= job.at})
  /\ pc = "rl_check" => OldAmong({o \in Ordinals : o > job.at})
  /\ pc = "rl_undo" => OldAmong({o \in Ordinals : o < job.cursor \/ o > job.at})
  /\ pc \in {"rl_redo", "rl_next"} => OldAmong({o \in Ordinals : o <= job.cursor \/ o > job.at})
  /\ pc = "rl_refresh" => OldAmong(Ordinals)

OnlyRolling == ~Switching /\ ~mishap /\ (job.deployment = 0 \/ job.strategy = "rolling")

Rolled == OnlyRolling => RollingServes /\ (job.image \notin job.before => RollingReturns)

Reported == SuccessIsServed /\ (~Switching => FailureIsNotServed)

LocalInv ==
  /\ DeployTyped /\ Driven /\ BlueGreenOK /\ CanaryOK /\ RollingOK
  /\ Delivered /\ ServesOld /\ Clean /\ Rolled /\ Reported

-----------------------------------------------------------------------------
\* The fixed names are four, and none of them is an ordinal.
LEMMA NamesDiffer ==
    /\ blue # green /\ blue # stable /\ blue # canary
    /\ green # stable /\ green # canary /\ stable # canary
    /\ {blue, green, stable, canary} \cap Nat = {}
    /\ Ordinals \subseteq Nat /\ Ordinals \subseteq Names /\ None \notin Images /\ None \notin Names
<1>1. ASSUME NEW a, NEW b, NEW c PROVE IsFiniteSet({a, b, c}) /\ Cardinality({a, b, c}) <= 3
  <2>1. IsFiniteSet({a}) /\ Cardinality({a}) = 1
    BY FS_Singleton
  <2>2. IsFiniteSet({a} \cup {b}) /\ Cardinality({a} \cup {b}) <= 2
    BY <2>1, FS_AddElement
  <2>3. IsFiniteSet({a, b}) /\ Cardinality({a, b}) \in Nat /\ Cardinality({a, b}) <= 2
    <3>1. {a, b} = {a} \cup {b}
      OBVIOUS
    <3> QED BY <2>2, <3>1, FS_CardinalityType
  <2>4. IsFiniteSet({a, b} \cup {c}) /\ Cardinality({a, b} \cup {c}) <= 3
    BY <2>3, FS_AddElement
  <2>5. {a, b, c} = {a, b} \cup {c}
    OBVIOUS
  <2> QED BY <2>4, <2>5
<1>2. Cardinality({blue, green, stable, canary}) = 4
  BY NamesAssumption
<1>3. ASSUME NEW a, NEW b, NEW c, {blue, green, stable, canary} = {a, b, c} PROVE FALSE
  <2>1. IsFiniteSet({a, b, c}) /\ Cardinality({a, b, c}) <= 3 /\ Cardinality({a, b, c}) = 4
    BY <1>1, <1>2, <1>3
  <2> QED BY <2>1
<1>4. blue # green
  <2>1. blue = green => {blue, green, stable, canary} = {green, stable, canary}
    OBVIOUS
  <2> QED BY <1>3, <2>1
<1>5. blue # stable
  <2>1. blue = stable => {blue, green, stable, canary} = {green, stable, canary}
    OBVIOUS
  <2> QED BY <1>3, <2>1
<1>6. blue # canary
  <2>1. blue = canary => {blue, green, stable, canary} = {green, stable, canary}
    OBVIOUS
  <2> QED BY <1>3, <2>1
<1>7. green # stable
  <2>1. green = stable => {blue, green, stable, canary} = {blue, stable, canary}
    OBVIOUS
  <2> QED BY <1>3, <2>1
<1>8. green # canary
  <2>1. green = canary => {blue, green, stable, canary} = {blue, stable, canary}
    OBVIOUS
  <2> QED BY <1>3, <2>1
<1>9. stable # canary
  <2>1. stable = canary => {blue, green, stable, canary} = {blue, green, canary}
    OBVIOUS
  <2> QED BY <1>3, <2>1
<1> QED BY <1>4, <1>5, <1>6, <1>7, <1>8, <1>9, NamesAssumption DEF Names

Boxes == [state : ContainerStates, image : Images \cup {None}, previous : Images \cup {None},
          deployment : Nat \cup {None}, check : Checks]

\* The invariant of the host, from what becomes of each container.
LEMMA HostFrom ==
    ASSUME box' \in [Names -> Boxes], proxy' \in BOOLEAN, conf' \subseteq Names, broken' = broken, HostTyped,
           loaded' \subseteq Running', ~proxy' => loaded' = {},
           \A n \in Running' : box'[n].image \in Images,
           NEW n \in Names, Running' \subseteq Running \cup {n}
    PROVE  HostTyped'
<1>1. HostOK'
  BY DEF HostOK, HostTyped, Boxes
<1>2. IsFiniteSet(RunningInstances')
  <2>1. IsFiniteSet(RunningInstances \cup {n})
    BY FS_AddElement DEF HostTyped
  <2>2. RunningInstances' \subseteq RunningInstances \cup {n}
    BY DEF RunningInstances
  <2> QED BY <2>1, <2>2, FS_Subset
<1> QED BY <1>1, <1>2 DEF HostTyped

LEMMA BoxOf ==
    ASSUME HostTyped
    PROVE  /\ box \in [Names -> Boxes] /\ loaded \subseteq Running /\ Running \subseteq Names
           /\ \A n \in Names : /\ box[n] \in Boxes
                               /\ n \in Running <=> box[n].state = "running"
                               /\ n \in Running <=> isContainerRunning(n)
           /\ proxy \in BOOLEAN /\ conf \subseteq Names /\ (~proxy => loaded = {})
           /\ \A n \in Running : box[n].image \in Images
BY DEF HostTyped, HostOK, Boxes, Running, isContainerRunning

\* The other containers are as they were.
OthersStay(n) == \A m \in Names \ {n} : box'[m] = box[m]

LEMMA RunEffect ==
    ASSUME HostTyped, NEW n \in Names, NEW image \in Images, NEW previous \in Images \cup {None},
           NEW num \in Nat, runContainer(n, image, previous, num)
    PROVE  /\ HostTyped' /\ n \notin Running /\ Running' = Running \cup {n} /\ loaded' = loaded
           /\ n \notin loaded /\ OthersStay(n) /\ proxy' = proxy
           /\ box'[n].state = "running" /\ box'[n].image = image /\ box'[n].deployment = num
<1> DEFINE b == [state |-> "running", image |-> image, previous |-> previous,
                 deployment |-> num, check |-> "none"]
<1>1. /\ box[n].state = "absent" /\ box' = [box EXCEPT ![n] = b]
      /\ UNCHANGED <<proxy, conf, loaded, broken>>
  BY DEF runContainer
<1>2. b \in Boxes
  BY DEF Boxes, ContainerStates, Checks
<1>3. box' \in [Names -> Boxes] /\ box'[n] = b /\ OthersStay(n)
  BY <1>1, <1>2, BoxOf DEF OthersStay
<1>4. n \notin Running /\ Running' = Running \cup {n}
  BY <1>1, <1>3, BoxOf DEF Running, isContainerRunning, OthersStay
<1>5. \A m \in Running' : box'[m].image \in Images
  BY <1>3, <1>4, BoxOf DEF OthersStay
<1>6. n \notin loaded /\ loaded' \subseteq Running'
  BY <1>1, <1>4, BoxOf
<1>7. HostTyped'
  BY <1>1, <1>3, <1>4, <1>5, <1>6, BoxOf, HostFrom
<1> QED BY <1>1, <1>3, <1>4, <1>6, <1>7

LEMMA RemoveEffect ==
    ASSUME HostTyped, NEW n \in Names, removeContainerIfExists(n)
    PROVE  /\ HostTyped' /\ Running' = Running \ {n} /\ loaded' = loaded \ {n} /\ OthersStay(n)
           /\ box'[n].state = "absent" /\ proxy' = proxy
<1>1. /\ box' = [box EXCEPT ![n] = Absent] /\ loaded' = loaded \ {n}
      /\ UNCHANGED <<proxy, conf, broken>>
  BY DEF removeContainerIfExists
<1>2. Absent \in Boxes /\ Absent.state = "absent"
  BY DEF Boxes, ContainerStates, Checks, Absent
<1>3. box' \in [Names -> Boxes] /\ box'[n].state = "absent" /\ OthersStay(n)
  BY <1>1, <1>2, BoxOf DEF OthersStay
<1>4. Running' = Running \ {n}
  BY <1>3, BoxOf DEF Running, isContainerRunning, OthersStay
<1>5. \A m \in Running' : box'[m].image \in Images
  BY <1>3, <1>4, BoxOf DEF OthersStay
<1>6. HostTyped'
  BY <1>1, <1>3, <1>4, <1>5, BoxOf, HostFrom
<1> QED BY <1>1, <1>3, <1>4, <1>6

\* What a check leaves of a container.
Looks(n) == /\ box'[n].state = box[n].state /\ box'[n].image = box[n].image
            /\ box'[n].previous = box[n].previous /\ box'[n].deployment = box[n].deployment

LEMMA CheckEffect ==
    ASSUME HostTyped, NEW n \in Names, NEW passed \in BOOLEAN, checkHealthViaDocker(n, passed)
    PROVE  /\ HostTyped' /\ Running' = Running /\ loaded' = loaded /\ proxy' = proxy
           /\ \A m \in Names : Looks(m)
           /\ passed => n \in Running
<1>1. /\ passed => isContainerRunning(n)
      /\ box' = IF isContainerRunning(n)
                  THEN [box EXCEPT ![n].check = IF passed THEN "passed" ELSE "failed"] ELSE box
      /\ UNCHANGED <<proxy, conf, loaded, broken>>
  BY DEF checkHealthViaDocker
<1>2. \A m \in Names \ {n} : box'[m] = box[m]
  BY <1>1, BoxOf
<1>3. box'[n] \in Boxes /\ Looks(n)
  <2>1. box[n] \in Boxes
    BY BoxOf
  <2>2. [box[n] EXCEPT !.check = "passed"] \in Boxes /\ [box[n] EXCEPT !.check = "failed"] \in Boxes
    BY <2>1 DEF Boxes, Checks
  <2>3. box'[n] \in {box[n], [box[n] EXCEPT !.check = "passed"], [box[n] EXCEPT !.check = "failed"]}
    BY <1>1, BoxOf
  <2> QED BY <2>1, <2>2, <2>3 DEF Boxes, Looks
<1>4. box' \in [Names -> Boxes]
  <2>1. DOMAIN box' = Names /\ box' = [m \in Names |-> box'[m]]
    BY <1>1, BoxOf
  <2> QED BY <1>2, <1>3, <2>1, BoxOf
<1>5. \A m \in Names : Looks(m)
  BY <1>2, <1>3 DEF Looks
<1>6. Running' = Running
  BY <1>5 DEF Running, isContainerRunning, Looks
<1>7. \A m \in Running' : box'[m].image \in Images
  BY <1>5, <1>6, BoxOf DEF Looks
<1>8. HostTyped'
  BY <1>1, <1>4, <1>6, <1>7, BoxOf, HostFrom
<1> QED BY <1>1, <1>5, <1>6, <1>8, BoxOf

LEMMA RouteEffect ==
    ASSUME HostTyped, NEW names, writeAndReloadNginx(names)
    PROVE  /\ HostTyped' /\ box' = box /\ Running' = Running /\ loaded' = names /\ names \subseteq Running /\ proxy'
<1>1. names \subseteq Running /\ proxy' = TRUE /\ conf' = names /\ loaded' = names /\ UNCHANGED <<box, broken>>
  BY DEF writeAndReloadNginx
<1>2. Running' = Running
  BY <1>1 DEF Running, isContainerRunning
<1>3. HostTyped'
  BY <1>1, <1>2, BoxOf, HostFrom, NamesDiffer DEF Names
<1> QED BY <1>1, <1>2, <1>3

LEMMA RefuseEffect ==
    ASSUME HostTyped, NEW names \in SUBSET Names, ReloadRefused(names) \/ HalfLoaded(names)
    PROVE  /\ HostTyped' /\ box' = box /\ Running' = Running /\ loaded' = loaded /\ proxy'
           /\ ReloadRefused(names) => ~(names \subseteq Running)
<1>1. /\ ReloadRefused(names) => ~(names \subseteq Running)
      /\ proxy' = TRUE /\ conf' = names /\ UNCHANGED <<box, loaded, broken>>
  BY DEF ReloadRefused, HalfLoaded
<1>2. Running' = Running
  BY <1>1 DEF Running, isContainerRunning
<1>3. HostTyped'
  BY <1>1, <1>2, BoxOf, HostFrom, NamesDiffer DEF Names
<1> QED BY <1>1, <1>2, <1>3

LEMMA NoEffect ==
    ASSUME HostTyped, UNCHANGED <<box, conf, loaded, broken>>, proxy' = proxy \/ proxy' = TRUE
    PROVE  HostTyped' /\ box' = box /\ Running' = Running /\ loaded' = loaded /\ (proxy => proxy')
<1>1. Running' = Running
  BY DEF Running, isContainerRunning
<1>2. proxy' \in BOOLEAN /\ (~proxy' => loaded' = {}) /\ (proxy => proxy')
  <2>1. proxy \in BOOLEAN /\ (~proxy => loaded = {}) /\ loaded' = loaded
    BY BoxOf
  <2>2. CASE proxy' = proxy
    BY <2>1, <2>2
  <2>3. CASE proxy' = TRUE
    BY <2>3
  <2> QED BY <2>2, <2>3
<1>3. HostTyped'
  BY <1>1, <1>2, BoxOf, HostFrom, NamesDiffer DEF Names
<1> QED BY <1>1, <1>2, <1>3

-----------------------------------------------------------------------------
\* A step of a driver does not change what it was asked for.
Onward ==
  /\ HostTyped' /\ job' \in Jobs /\ verdict' \in Verdicts /\ mishap' = mishap
  /\ job'.strategy = job.strategy /\ job'.image = job.image /\ job'.deployment = job.deployment
  /\ job'.before = job.before /\ job'.count = job.count /\ job'.batch = job.batch

LEMMA OnwardSame ==
    ASSUME DeployTyped, HostTyped', job' = job, verdict' \in Verdicts, mishap' = mishap PROVE Onward
BY DEF DeployTyped, Onward

\* The traffic may lose containers; what stays has the images it had.
Fades == loaded' \subseteq loaded /\ \A n \in loaded' : box'[n].image = box[n].image

LEMMA FadesServed == ASSUME Fades PROVE ServedImages' \subseteq ServedImages
BY DEF Fades, ServedImages

LEMMA JobOf ==
    ASSUME DeployTyped
    PROVE  /\ job.strategy \in Strategies \cup {None} /\ job.image \in Images \cup {None} /\ job.deployment \in Nat
           /\ job.before \subseteq Images /\ job.previous \in Images \cup {None} /\ job.carried \in Images \cup {None}
           /\ job.count \in Nat \ {0} /\ job.batch \in Nat \ {0} /\ job.size \in Nat /\ job.base \in Nat
           /\ job.at \in Nat /\ job.cursor \in Nat /\ job.stage \in Nat
BY DEF DeployTyped, Jobs

\* What is typed, and where a deployment is, from its driver's next call.
LEMMA DrivenFrom ==
    ASSUME DeployTyped, Driven, Onward, pc # "idle",
           \/ pc' = "idle"
           \/ pc \in BlueGreenPcs /\ pc' \in BlueGreenPcs
           \/ pc \in CanaryPcs /\ pc' \in CanaryPcs \cup {"done"}
           \/ pc \in RollingPcs /\ pc' \in RollingPcs \cup {"done"}
    PROVE  DeployTyped' /\ Driven'
<1>1. DeployTyped'
  BY DEF DeployTyped, Onward
<1>2. /\ pc' \in {"idle", "done"} \cup BlueGreenPcs \cup CanaryPcs \cup RollingPcs
      /\ pc' \in BlueGreenPcs => job.strategy = "blue_green"
      /\ pc' \in CanaryPcs => job.strategy = "canary"
      /\ pc' \in RollingPcs => job.strategy = "rolling" /\ 0 .. job.count - 1 \subseteq Ordinals
      /\ pc' = "done" => job.strategy # "blue_green"
  BY DEF Driven, BlueGreenPcs, CanaryPcs, RollingPcs, FirstPcs, UpdatePcs, UndoPcs
<1>3. job.deployment # 0 /\ job.strategy \in Strategies /\ job.image \in Images
  BY DEF Driven
<1> QED BY <1>1, <1>2, <1>3 DEF Driven, Onward

\* A step of the blue-green driver leaves the other drivers' containers alone.
LEMMA BlueGreenFrame ==
    ASSUME LocalInv, Onward, pc \in BlueGreenPcs, pc' \in BlueGreenPcs \cup {"idle"},
           \A n \in Names \ {blue, green} : Looks(n), loaded' \subseteq loaded \cup {blue, green},
           BlueGreenOK', ~mishap => NoneExited' /\ BlueGreenClean', ServesOld', Delivered', Reported'
    PROVE  LocalInv'
<1>1. DeployTyped' /\ Driven'
  <2>1. pc # "idle"
    BY DEF BlueGreenPcs
  <2> QED BY <2>1, DrivenFrom DEF LocalInv
<1>2. pc' \notin CanaryPcs \cup RollingPcs \cup {"done"} /\ pc \notin CanaryPcs
  BY DEF BlueGreenPcs, CanaryPcs, RollingPcs, FirstPcs, UpdatePcs, UndoPcs
<1>3. CanaryOK' /\ RollingOK'
  <2>1. CanaryOK'
    BY <1>2 DEF CanaryOK, CanaryPcs
  <2>2. RollingOK'
    BY <1>2 DEF RollingOK, RollingPcs, FirstPcs, UpdatePcs, UndoPcs
  <2> QED BY <2>1, <2>2
<1>4. ~mishap => CanaryClean'
  <2>1. ~mishap => ~(isContainerRunning(stable) /\ canary \in loaded)
    BY <1>2 DEF LocalInv, Clean, CanaryClean
  <2>2. Looks(stable) /\ (canary \in loaded' => canary \in loaded)
    BY NamesDiffer DEF Names
  <2>3. ~mishap => ~(isContainerRunning(stable) /\ canary \in loaded)'
    BY <2>1, <2>2 DEF Looks, isContainerRunning
  <2> QED BY <1>2, <2>3 DEF CanaryClean, CanaryPcs
<1>5. RollingClean' /\ CapacityClean'
  BY <1>2 DEF RollingClean, CapacityClean, RollingPcs, FirstPcs, UpdatePcs, UndoPcs
<1>6. ~OnlyRolling'
  <2>1. job.deployment # 0 /\ job.strategy = "blue_green"
    BY <1>2 DEF LocalInv, Driven, BlueGreenPcs
  <2> QED BY <2>1 DEF OnlyRolling, Onward
<1>7. Clean' /\ Rolled'
  BY <1>4, <1>5, <1>6 DEF Clean, Rolled, Onward
<1> QED BY <1>1, <1>3, <1>7 DEF LocalInv

\* What of the invariant a step of the driver needs.
LEMMA BlueGreenHas ==
    ASSUME LocalInv, pc \in BlueGreenPcs
    PROVE  /\ DeployTyped /\ HostTyped /\ job.image \in Images /\ job.deployment \in Nat
           /\ job.previous \in Images \cup {None}
           /\ BlueGreenOK /\ (~mishap => NoneExited /\ BlueGreenClean)
           /\ pc # "bg_drain" => ServedImages \subseteq job.before
           /\ pc # "bg_choose" => job.new \in Names /\ job.new \in {blue, green}
                                  /\ job.old \in {blue, green, None} \ {job.new}
<1>1. DeployTyped /\ HostTyped /\ job.image \in Images /\ BlueGreenOK /\ (~mishap => NoneExited /\ BlueGreenClean)
  BY DEF LocalInv, DeployTyped, Driven, BlueGreenPcs, Clean
<1>2. pc # "bg_drain" => ServedImages \subseteq job.before
  BY DEF LocalInv, ServesOld, Kept
<1>3. pc # "bg_choose" => job.new \in {blue, green} /\ job.old \in {blue, green, None} \ {job.new}
  BY <1>1 DEF BlueGreenOK
<1> QED BY <1>1, <1>2, <1>3, JobOf, NamesDiffer DEF Names

LEMMA ChooseColorsKeeps == ASSUME LocalInv, ChooseColors PROVE LocalInv'
<1>1. pc = "bg_choose" /\ pc' = "bg_clear" /\ UNCHANGED <<verdict, mishap, host>>
  BY DEF ChooseColors, GoTo
<1>2. pc \in BlueGreenPcs /\ pc' \in BlueGreenPcs
  BY <1>1 DEF BlueGreenPcs
<1> DEFINE old == getCurrentColor
           new == getOppositeColor(getCurrentColor)
<1>3. old \in {blue, green, None} \ {new} /\ new \in {blue, green}
  BY NamesDiffer DEF getCurrentColor, getOppositeColor, Names
<1>4. job' = [job EXCEPT !.old = old, !.new = new]
  BY DEF ChooseColors
<1>5. HostTyped' /\ box' = box /\ Running' = Running /\ loaded' = loaded
  BY <1>1, <1>2, BlueGreenHas, NoEffect DEF host
<1>6. ~mishap => /\ ~isContainerRunning(new)
                 /\ \A n \in {blue, green} \ {new} : isContainerRunning(n) => n = old
  <2>1. ~mishap => ~(isContainerRunning(blue) /\ isContainerRunning(green))
    BY <1>1, <1>2, BlueGreenHas DEF BlueGreenClean
  <2> QED BY <2>1, NamesDiffer DEF getCurrentColor, getOppositeColor, Names
<1> HIDE DEF old, new
<1>7. Onward /\ job'.old = old /\ job'.new = new /\ job'.before = job.before
  BY <1>1, <1>2, <1>3, <1>4, <1>5, BlueGreenHas DEF Onward, DeployTyped, Jobs
<1>8. BlueGreenOK'
  BY <1>1, <1>3, <1>7 DEF BlueGreenOK
<1>9. ~mishap => NoneExited' /\ BlueGreenClean'
  <2>1. ~mishap => NoneExited'
    BY <1>2, <1>5, BlueGreenHas DEF NoneExited
  <2>2. ~mishap => BlueGreenClean'
    BY <1>1, <1>5, <1>6, <1>7 DEF BlueGreenClean, BlueGreenPcs, isContainerRunning
  <2> QED BY <2>1, <2>2
<1>10. ServesOld'
  <2>1. ServedImages' = ServedImages
    BY <1>5 DEF ServedImages
  <2> QED BY <1>1, <1>2, <1>7, <2>1, BlueGreenHas DEF ServesOld
<1>11. Delivered' /\ Reported'
  BY <1>1 DEF Delivered, Reported, SuccessIsServed, FailureIsNotServed
<1>12. \A n \in Names : Looks(n)
  BY <1>5 DEF Looks
<1> QED BY <1>2, <1>5, <1>7, <1>8, <1>9, <1>10, <1>11, <1>12, BlueGreenFrame

LEMMA ClearNewColorKeeps == ASSUME LocalInv, ClearNewColor PROVE LocalInv'
<1> DEFINE previous == IF job.old = None \/ box[job.old].image = None
                         THEN None ELSE resolvePreviousImage(box[job.old], job.image)
<1>1. /\ pc = "bg_clear" /\ pc' = "bg_run" /\ UNCHANGED <<verdict, mishap>> /\ removeContainerIfExists(job.new)
      /\ job' = [job EXCEPT !.previous = previous]
  BY DEF ClearNewColor, GoTo
<1>2. pc \in BlueGreenPcs /\ pc' \in BlueGreenPcs
  BY <1>1 DEF BlueGreenPcs
<1>3. job.new \in Names /\ job.new \in {blue, green} /\ job.old \in {blue, green, None} \ {job.new}
  BY <1>1, <1>2, BlueGreenHas
<1>4. /\ HostTyped' /\ Running' = Running \ {job.new} /\ loaded' = loaded \ {job.new}
      /\ OthersStay(job.new) /\ box'[job.new].state = "absent"
  BY <1>1, <1>2, <1>3, BlueGreenHas, RemoveEffect
<1>5. previous \in Images \cup {None}
  <2>1. job.old # None => box[job.old] \in Boxes
    BY <1>2, <1>3, BlueGreenHas, BoxOf, NamesDiffer DEF Names
  <2> QED BY <2>1, <1>2, BlueGreenHas DEF Boxes, resolvePreviousImage
<1> HIDE DEF previous
<1>6. /\ Onward /\ job'.old = job.old /\ job'.new = job.new
  BY <1>1, <1>2, <1>4, <1>5, BlueGreenHas DEF Onward, DeployTyped, Jobs
<1>7. BlueGreenOK'
  BY <1>1, <1>3, <1>4, <1>6 DEF BlueGreenOK
<1>8. ~mishap => NoneExited' /\ BlueGreenClean'
  <2>1. ~mishap => NoneExited'
    BY <1>2, <1>4, BlueGreenHas DEF NoneExited, OthersStay
  <2>2. ~mishap => \A n \in {blue, green} \ {job.new} : isContainerRunning(n) => n = job.old
    BY <1>1, <1>2, BlueGreenHas DEF BlueGreenClean
  <2>3. ~isContainerRunning(job.new)' /\ \A n \in {blue, green} \ {job.new} : box'[n] = box[n]
    BY <1>4, <1>6, NamesDiffer DEF isContainerRunning, OthersStay, Names
  <2>4. ~mishap => BlueGreenClean'
    BY <1>1, <1>3, <1>6, <2>2, <2>3 DEF BlueGreenClean, BlueGreenPcs, isContainerRunning
  <2> QED BY <2>1, <2>4
<1>9. ServesOld'
  <2>1. Fades
    BY <1>2, <1>4, BlueGreenHas, BoxOf DEF Fades, OthersStay
  <2> QED BY <1>1, <1>2, <1>6, <2>1, BlueGreenHas, FadesServed DEF ServesOld, Onward
<1>10. Delivered' /\ Reported'
  BY <1>1 DEF Delivered, Reported, SuccessIsServed, FailureIsNotServed
<1>11. \A n \in Names \ {blue, green} : Looks(n)
  BY <1>3, <1>4 DEF Looks, OthersStay
<1> QED BY <1>2, <1>4, <1>6, <1>7, <1>8, <1>9, <1>10, <1>11, BlueGreenFrame

LEMMA RunNewColorKeeps == ASSUME LocalInv, RunNewColor PROVE LocalInv'
<1>1. pc = "bg_run"
  BY DEF RunNewColor, RunThen, Step, GoTo, Return
<1>2. pc \in BlueGreenPcs
  BY <1>1 DEF BlueGreenPcs
<1>3. box[job.new].state = "absent"
  BY <1>1, <1>2, BlueGreenHas DEF BlueGreenOK
<1>4. /\ pc' = "bg_check" /\ UNCHANGED <<job, verdict, mishap>>
      /\ runContainer(job.new, job.image, job.previous, job.deployment)
  BY <1>3 DEF RunNewColor, RunThen, Step, GoTo
<1>5. job.new \in Names /\ job.new \in {blue, green} /\ job.old \in {blue, green, None} \ {job.new}
  BY <1>1, <1>2, BlueGreenHas
<1>6. /\ HostTyped' /\ Running' = Running \cup {job.new} /\ loaded' = loaded /\ job.new \notin loaded
      /\ OthersStay(job.new) /\ box'[job.new].state = "running" /\ box'[job.new].deployment = job.deployment
  BY <1>2, <1>4, <1>5, BlueGreenHas, RunEffect
<1>7. Onward /\ pc' \in BlueGreenPcs
  BY <1>2, <1>4, <1>6, BlueGreenHas, OnwardSame DEF BlueGreenPcs, DeployTyped
<1>8. BlueGreenOK'
  BY <1>4, <1>5, <1>6 DEF BlueGreenOK, IsNew, isContainerRunning
<1>9. ~mishap => NoneExited' /\ BlueGreenClean'
  <2>1. ~mishap => NoneExited'
    BY <1>2, <1>6, BlueGreenHas DEF NoneExited, OthersStay
  <2>2. ~mishap => \A n \in {blue, green} \ {job.new} : isContainerRunning(n) => n = job.old
    BY <1>1, <1>2, BlueGreenHas DEF BlueGreenClean
  <2>3. \A n \in {blue, green} \ {job.new} : box'[n] = box[n]
    BY <1>6, NamesDiffer DEF OthersStay, Names
  <2>4. ~mishap => BlueGreenClean'
    BY <1>4, <1>6, <2>2, <2>3 DEF BlueGreenClean, BlueGreenPcs, isContainerRunning
  <2> QED BY <2>1, <2>4
<1>10. ServesOld'
  <2>1. Fades
    BY <1>2, <1>6, BlueGreenHas, BoxOf DEF Fades, OthersStay
  <2> QED BY <1>1, <1>2, <1>4, <2>1, BlueGreenHas, FadesServed DEF ServesOld
<1>11. Delivered' /\ Reported'
  BY <1>4 DEF Delivered, Reported, SuccessIsServed, FailureIsNotServed
<1>12. \A n \in Names \ {blue, green} : Looks(n)
  BY <1>5, <1>6 DEF Looks, OthersStay
<1> QED BY <1>2, <1>6, <1>7, <1>8, <1>9, <1>10, <1>11, <1>12, BlueGreenFrame

LEMMA CheckNewColorKeeps == ASSUME LocalInv, CheckNewColor PROVE LocalInv'
<1>1. PICK passed \in BOOLEAN : /\ pc = "bg_check" /\ pc' = (IF passed THEN "bg_switch" ELSE "bg_abandon")
                                /\ UNCHANGED <<job, verdict, mishap>> /\ checkHealthViaDocker(job.new, passed)
  BY DEF CheckNewColor, CheckThen, Step, GoTo
<1>2. pc = "bg_check" /\ pc' \in {"bg_switch", "bg_abandon"} /\ pc \in BlueGreenPcs /\ pc' \in BlueGreenPcs
  BY <1>1 DEF BlueGreenPcs
<1>3. /\ job.new \in Names /\ job.new \in {blue, green} /\ job.old \in {blue, green, None} \ {job.new}
      /\ IsNew(job.new)
  BY <1>2, BlueGreenHas DEF BlueGreenOK
<1>4. HostTyped' /\ Running' = Running /\ loaded' = loaded /\ \A n \in Names : Looks(n)
  BY <1>1, <1>2, <1>3, BlueGreenHas, CheckEffect
<1>5. Onward
  BY <1>1, <1>2, <1>4, BlueGreenHas, OnwardSame DEF DeployTyped
<1>6. BlueGreenOK'
  BY <1>1, <1>2, <1>3, <1>4 DEF BlueGreenOK, IsNew, isContainerRunning, Looks
<1>7. ~mishap => NoneExited' /\ BlueGreenClean'
  <2>1. ~mishap => NoneExited'
    BY <1>2, <1>4, BlueGreenHas DEF NoneExited, Looks
  <2>2. ~mishap => /\ \A n \in {blue, green} \ {job.new} : isContainerRunning(n) => n = job.old
                   /\ job.new \notin loaded
    BY <1>2, BlueGreenHas DEF BlueGreenClean
  <2>3. \A n \in {blue, green} : box'[n].state = box[n].state
    BY <1>4, NamesDiffer DEF Looks, Names
  <2>4. ~mishap => BlueGreenClean'
    BY <1>1, <1>2, <1>4, <2>2, <2>3 DEF BlueGreenClean, isContainerRunning
  <2> QED BY <2>1, <2>4
<1>8. ServesOld'
  <2>1. Fades
    BY <1>2, <1>4, BlueGreenHas, BoxOf DEF Fades, Looks
  <2> QED BY <1>1, <1>2, <2>1, BlueGreenHas, FadesServed DEF ServesOld
<1>9. Delivered' /\ Reported'
  BY <1>2 DEF Delivered, Reported, SuccessIsServed, FailureIsNotServed
<1> QED BY <1>2, <1>4, <1>5, <1>6, <1>7, <1>8, <1>9, BlueGreenFrame

LEMMA AbandonNewColorKeeps == ASSUME LocalInv, AbandonNewColor PROVE LocalInv'
<1>1. /\ pc = "bg_abandon" /\ pc' = "idle" /\ verdict' = "failure" /\ UNCHANGED <<job, mishap>>
      /\ removeContainerIfExists(job.new)
  BY DEF AbandonNewColor, Return
<1>2. pc \in BlueGreenPcs
  BY <1>1 DEF BlueGreenPcs
<1>3. job.new \in Names /\ job.new \in {blue, green}
  BY <1>1, <1>2, BlueGreenHas
<1>4. /\ HostTyped' /\ Running' = Running \ {job.new} /\ loaded' = loaded \ {job.new}
      /\ OthersStay(job.new) /\ box'[job.new].state = "absent"
  BY <1>1, <1>2, <1>3, BlueGreenHas, RemoveEffect
<1>5. Onward
  BY <1>1, <1>2, <1>4, BlueGreenHas, OnwardSame DEF Verdicts
<1>6. BlueGreenOK'
  BY <1>1 DEF BlueGreenOK, BlueGreenPcs
<1>7. ~mishap => NoneExited' /\ BlueGreenClean'
  <2>1. ~mishap => NoneExited'
    BY <1>2, <1>4, BlueGreenHas DEF NoneExited, OthersStay
  <2>2. ~mishap => BlueGreenClean'
    BY <1>1, <1>3, <1>4 DEF BlueGreenClean, BlueGreenPcs, isContainerRunning
  <2> QED BY <2>1, <2>2
<1>8. ServedImages' \subseteq job'.before
  <2>1. Fades
    BY <1>2, <1>4, BlueGreenHas, BoxOf DEF Fades, OthersStay
  <2> QED BY <1>1, <1>2, <2>1, BlueGreenHas, FadesServed
<1>9. ServesOld' /\ Delivered' /\ Reported'
  BY <1>1, <1>8 DEF ServesOld, Delivered, Reported, SuccessIsServed, FailureIsNotServed
<1>10. \A n \in Names \ {blue, green} : Looks(n)
  BY <1>3, <1>4 DEF Looks, OthersStay
<1> QED BY <1>1, <1>2, <1>4, <1>5, <1>6, <1>7, <1>9, <1>10, BlueGreenFrame

LEMMA SwitchProxyKeeps == ASSUME LocalInv, SwitchProxy PROVE LocalInv'
<1>1. pc = "bg_switch"
  BY DEF SwitchProxy, RouteThen, Step, GoTo, Return
<1>2. pc \in BlueGreenPcs
  BY <1>1 DEF BlueGreenPcs
<1>3. /\ job.new \in Names /\ job.new \in {blue, green} /\ job.old \in {blue, green, None} \ {job.new}
      /\ IsNew(job.new)
  BY <1>1, <1>2, BlueGreenHas DEF BlueGreenOK
<1>4. {job.new} \subseteq Running
  BY <1>3 DEF Running, IsNew
<1>5. pc' = "bg_drain" /\ UNCHANGED <<job, verdict, mishap>> /\ writeAndReloadNginx({job.new})
  BY <1>4 DEF SwitchProxy, RouteThen, Step, GoTo
<1>6. HostTyped' /\ box' = box /\ Running' = Running /\ loaded' = {job.new}
  BY <1>2, <1>5, BlueGreenHas, RouteEffect
<1>7. Onward /\ pc' \in BlueGreenPcs
  BY <1>2, <1>5, <1>6, BlueGreenHas, OnwardSame DEF DeployTyped, BlueGreenPcs
<1>8. BlueGreenOK'
  BY <1>3, <1>5, <1>6 DEF BlueGreenOK, IsNew, isContainerRunning
<1>9. ~mishap => NoneExited' /\ BlueGreenClean'
  <2>1. ~mishap => NoneExited'
    BY <1>2, <1>6, BlueGreenHas DEF NoneExited
  <2>2. ~mishap => \A n \in {blue, green} \ {job.new} : isContainerRunning(n) => n = job.old
    BY <1>1, <1>2, BlueGreenHas DEF BlueGreenClean
  <2>3. ~mishap => BlueGreenClean'
    BY <1>5, <1>6, <2>2 DEF BlueGreenClean, BlueGreenPcs, isContainerRunning
  <2> QED BY <2>1, <2>3
<1>10. ServesOld'
  BY <1>5 DEF ServesOld, Kept, BlueGreenPcs, CanaryPcs, FirstPcs
<1>11. Delivered' /\ Reported'
  BY <1>3, <1>5, <1>6 DEF Delivered, ServesNew, IsNew, Reported, SuccessIsServed, FailureIsNotServed
<1>12. \A n \in Names : Looks(n)
  BY <1>6 DEF Looks
<1> QED BY <1>2, <1>3, <1>6, <1>7, <1>8, <1>9, <1>10, <1>11, <1>12, BlueGreenFrame

LEMMA DrainOldColorKeeps == ASSUME LocalInv, DrainOldColor PROVE LocalInv'
<1> DEFINE drains == job.old # None /\ isContainerRunning(job.old)
<1>1. /\ pc = "bg_drain" /\ pc' = "idle" /\ verdict' = "success" /\ UNCHANGED <<job, mishap>>
      /\ IF drains THEN removeContainerIfExists(job.old) ELSE UNCHANGED host
  BY DEF DrainOldColor, Return
<1>2. pc \in BlueGreenPcs
  BY <1>1 DEF BlueGreenPcs
<1>3. /\ job.new \in {blue, green} /\ job.old \in {blue, green, None} \ {job.new}
      /\ loaded = {job.new} /\ IsNew(job.new)
  BY <1>1, <1>2, BlueGreenHas DEF BlueGreenOK
<1>4. /\ HostTyped' /\ loaded' = loaded
      /\ \A n \in Names \ {job.old} : box'[n] = box[n]
      /\ drains => box'[job.old].state = "absent"
      /\ ~drains => box' = box
  <2>1. CASE drains
    <3>1. job.old \in Names /\ job.old # job.new /\ removeContainerIfExists(job.old)
      BY <1>1, <1>3, <2>1 DEF Names
    <3> QED BY <1>2, <1>3, <2>1, <3>1, RemoveEffect, BlueGreenHas DEF OthersStay
  <2>2. CASE ~drains
    BY <1>1, <1>2, <2>2, NoEffect, BlueGreenHas DEF host
  <2> QED BY <2>1, <2>2
<1>5. Onward
  BY <1>1, <1>2, <1>4, BlueGreenHas, OnwardSame DEF Verdicts
<1>6. BlueGreenOK'
  BY <1>1 DEF BlueGreenOK, BlueGreenPcs
<1>7. ~mishap => NoneExited' /\ BlueGreenClean'
  <2>1. ~mishap => NoneExited'
    BY <1>2, <1>4, BlueGreenHas DEF NoneExited
  <2>2. ~mishap => \A n \in {blue, green} \ {job.new} : isContainerRunning(n) => n = job.old
    BY <1>1, <1>2, BlueGreenHas DEF BlueGreenClean
  <2>3. ~mishap => ~(isContainerRunning(blue) /\ isContainerRunning(green))'
    <3>1. PICK c \in {blue, green} : c # job.new
      BY <1>3, NamesDiffer
    <3>2. c \in Names
      BY DEF Names
    <3>3. CASE c = job.old
      BY <1>4, <3>1, <3>3, NamesDiffer DEF isContainerRunning, Names
    <3>4. CASE c # job.old
      BY <1>4, <2>2, <3>1, <3>2, <3>4 DEF isContainerRunning
    <3> QED BY <3>3, <3>4
  <2>4. ~mishap => BlueGreenClean'
    BY <1>1, <2>3 DEF BlueGreenClean, BlueGreenPcs
  <2> QED BY <2>1, <2>4
<1>8. ServesOld' /\ Delivered'
  BY <1>1 DEF ServesOld, Kept, Delivered, BlueGreenPcs, CanaryPcs, FirstPcs
<1>9. Reported'
  <2>1. job.new \in Names /\ job.new # job.old
    BY <1>3 DEF Names
  <2> QED BY <1>1, <1>3, <1>4, <2>1 DEF Reported, SuccessIsServed, FailureIsNotServed, IsNew
<1>10. \A n \in Names \ {blue, green} : Looks(n)
  BY <1>3, <1>4, NamesDiffer DEF Looks
<1> QED BY <1>1, <1>2, <1>4, <1>5, <1>6, <1>7, <1>8, <1>9, <1>10, BlueGreenFrame

-----------------------------------------------------------------------------
\* A step of the canary driver leaves the other drivers' containers alone.
LEMMA CanaryFrame ==
    ASSUME LocalInv, Onward, pc \in CanaryPcs, pc' \in CanaryPcs \cup {"idle", "done"},
           \A n \in Names \ {stable, canary} : Looks(n), loaded' \subseteq loaded \cup {stable, canary},
           \A n \in {stable, canary} : box'[n].state \in {box[n].state, "absent", "running"},
           CanaryOK', ~mishap => CanaryClean',
           job'.stage = 0 /\ pc' # "done" => ServedImages' \subseteq job.before,
           pc' \in {"done", "cn_drop_canary"} \/ (pc' = "idle" /\ verdict' = "success") => ServesNew'
    PROVE  LocalInv'
<1>1. DeployTyped' /\ Driven'
  <2>1. pc # "idle"
    BY DEF CanaryPcs
  <2> QED BY <2>1, DrivenFrom DEF LocalInv
<1>2. pc' \notin BlueGreenPcs \cup RollingPcs /\ pc \notin BlueGreenPcs
  BY DEF BlueGreenPcs, CanaryPcs, RollingPcs, FirstPcs, UpdatePcs, UndoPcs
<1>3. BlueGreenOK' /\ RollingOK'
  <2>1. BlueGreenOK'
    BY <1>2 DEF BlueGreenOK, BlueGreenPcs
  <2>2. RollingOK'
    BY <1>2 DEF RollingOK, RollingPcs, FirstPcs, UpdatePcs, UndoPcs
  <2> QED BY <2>1, <2>2
<1>4. ~mishap => BlueGreenClean'
  <2>1. ~mishap => ~(isContainerRunning(blue) /\ isContainerRunning(green))
    BY <1>2 DEF LocalInv, Clean, BlueGreenClean
  <2>2. Looks(blue) /\ Looks(green)
    BY NamesDiffer DEF Names
  <2> QED BY <1>2, <2>1, <2>2 DEF BlueGreenClean, BlueGreenPcs, Looks, isContainerRunning
<1>5. ~mishap => NoneExited'
  BY DEF LocalInv, Clean, NoneExited, Looks
<1>6. RollingClean' /\ CapacityClean'
  BY <1>2 DEF RollingClean, CapacityClean, RollingPcs, FirstPcs, UpdatePcs, UndoPcs
<1>7. ~OnlyRolling'
  <2>1. job.deployment # 0 /\ job.strategy = "canary"
    BY DEF LocalInv, Driven, CanaryPcs
  <2> QED BY <2>1 DEF OnlyRolling, Onward
<1>8. Clean' /\ Rolled'
  BY <1>4, <1>5, <1>6, <1>7 DEF Clean, Rolled, Onward
<1>9. ServesOld' /\ Delivered'
  <2>1. Kept' => job'.stage = 0 /\ pc' # "done"
    BY <1>2 DEF Kept, BlueGreenPcs, CanaryPcs, RollingPcs
  <2>2. pc' # "bg_drain"
    BY <1>2 DEF BlueGreenPcs
  <2> QED BY <2>1, <2>2 DEF ServesOld, Delivered, Onward
<1>10. Reported'
  BY DEF Reported, SuccessIsServed, FailureIsNotServed, ServesNew, Onward
<1> QED BY <1>1, <1>3, <1>8, <1>9, <1>10 DEF LocalInv

LEMMA CanaryHas ==
    ASSUME LocalInv, pc \in CanaryPcs
    PROVE  /\ DeployTyped /\ HostTyped /\ job.image \in Images /\ job.deployment \in Nat /\ job.stage \in Nat
           /\ job.previous \in Images \cup {None}
           /\ CanaryOK /\ (~mishap => NoneExited /\ CanaryClean)
           /\ job.stage = 0 => ServedImages \subseteq job.before
           /\ stable \in Names /\ canary \in Names /\ stable # canary
<1>1. DeployTyped /\ HostTyped /\ job.image \in Images /\ CanaryOK /\ (~mishap => NoneExited /\ CanaryClean)
  BY DEF LocalInv, DeployTyped, Driven, CanaryPcs, Clean
<1>2. job.stage = 0 => ServedImages \subseteq job.before
  BY DEF LocalInv, ServesOld, Kept
<1> QED BY <1>1, <1>2, JobOf, NamesDiffer DEF Names

\* A call that takes nothing into the traffic, in a step that goes on or fails.
LEMMA CanaryFades ==
    ASSUME LocalInv, Onward, pc \in CanaryPcs, NEW n \in {stable, canary},
           pc' \in CanaryPcs \ {"cn_drop_canary"} \/ (pc' = "idle" /\ verdict' = "failure"),
           \A m \in Names \ {n} : Looks(m), box'[n].state \in {box[n].state, "absent", "running"},
           n \in loaded' => Looks(n), loaded' \subseteq loaded, job'.stage = job.stage,
           CanaryOK', ~mishap => CanaryClean'
    PROVE  LocalInv'
<1>1. Fades
  BY CanaryHas, BoxOf DEF Fades, Looks
<1>2. job'.stage = 0 => ServedImages' \subseteq job.before
  BY <1>1, FadesServed, CanaryHas
<1>3. \A m \in {stable, canary} : box'[m].state \in {box[m].state, "absent", "running"}
  BY CanaryHas DEF Looks
<1>4. pc' \in CanaryPcs \cup {"idle", "done"} /\ pc' \notin {"done", "cn_drop_canary"}
      /\ ~(pc' = "idle" /\ verdict' = "success")
  BY DEF CanaryPcs
<1> QED BY <1>2, <1>3, <1>4, CanaryFrame

LEMMA LookForStableKeeps == ASSUME LocalInv, LookForStable PROVE LocalInv'
<1>1. /\ pc = "cn_start" /\ pc' = (IF isContainerRunning(stable) THEN "cn_clear" ELSE "cn_first")
      /\ UNCHANGED <<verdict, mishap, job, host>>
  BY DEF LookForStable, Step, GoTo
<1>2. pc \in CanaryPcs /\ pc' \in CanaryPcs \ {"cn_drop_canary"}
  BY <1>1 DEF CanaryPcs
<1>3. HostTyped' /\ box' = box /\ loaded' = loaded
  BY <1>1, <1>2, CanaryHas, NoEffect DEF host
<1>4. Onward
  BY <1>1, <1>2, <1>3, CanaryHas, OnwardSame DEF DeployTyped
<1>5. CanaryOK'
  BY <1>1 DEF CanaryOK
<1>6. ~mishap => CanaryClean'
  <2>1. ~mishap => ~(isContainerRunning(stable) /\ canary \in loaded) \/ pc = "cn_start"
    BY <1>1
  <2>2. ~mishap => (isContainerRunning(stable) => canary \notin loaded)
    BY <1>1, <1>2, CanaryHas DEF CanaryClean
  <2> QED BY <1>1, <1>3, <2>2 DEF CanaryClean, isContainerRunning, CanaryPcs
<1> QED BY <1>1, <1>2, <1>3, <1>4, <1>5, <1>6, CanaryFades DEF Looks

LEMMA RunFirstKeeps == ASSUME LocalInv, RunFirst PROVE LocalInv'
<1>1. pc = "cn_first" /\ UNCHANGED <<job, mishap>>
  BY DEF RunFirst, RunThen, Step, GoTo, Return
<1>2. /\ pc \in CanaryPcs /\ CanaryOK /\ (~mishap => CanaryClean)
      /\ stable # canary /\ stable \in Names /\ canary \in Names
  BY <1>1, CanaryHas DEF CanaryPcs
<1>3. CASE /\ pc' = "cn_first_check" /\ verdict' = verdict
           /\ runContainer(stable, job.image, None, job.deployment)
  <2>1. /\ HostTyped' /\ loaded' = loaded /\ stable \notin loaded /\ OthersStay(stable)
        /\ box'[stable].state = "running" /\ box'[stable].deployment = job.deployment
    BY <1>2, <1>3, CanaryHas, RunEffect
  <2>2. Onward
    BY <1>1, <1>2, <1>3, <2>1, CanaryHas, OnwardSame DEF DeployTyped
  <2>3. CanaryOK'
    BY <1>1, <1>2, <1>3, <2>1 DEF CanaryOK, IsNew, isContainerRunning
  <2>4. ~mishap => CanaryClean'
    BY <1>1, <1>2, <1>3, <2>1 DEF CanaryClean, OthersStay, isContainerRunning, CanaryPcs
  <2>5. \A m \in Names \ {stable} : Looks(m)
    BY <2>1 DEF Looks, OthersStay
  <2>6. pc' \in CanaryPcs \ {"cn_drop_canary"}
    BY <1>3 DEF CanaryPcs
  <2> QED BY <1>1, <1>2, <2>1, <2>2, <2>3, <2>4, <2>5, <2>6, CanaryFades
<1>4. CASE pc' = "idle" /\ verdict' = "failure" /\ UNCHANGED host
  <2>1. HostTyped' /\ box' = box /\ loaded' = loaded
    BY <1>2, <1>4, CanaryHas, NoEffect DEF host
  <2>2. Onward
    BY <1>1, <1>2, <1>4, <2>1, CanaryHas, OnwardSame DEF Verdicts
  <2>3. CanaryOK'
    BY <1>4 DEF CanaryOK
  <2>4. ~mishap => CanaryClean'
    BY <1>1, <1>2, <1>4, <2>1 DEF CanaryClean, isContainerRunning, CanaryPcs
  <2> QED BY <1>1, <1>2, <1>4, <2>1, <2>2, <2>3, <2>4, CanaryFades DEF Looks
<1> QED BY <1>3, <1>4 DEF RunFirst, RunThen, Step, GoTo, Return

LEMMA CheckFirstKeeps == ASSUME LocalInv, CheckFirst PROVE LocalInv'
<1>1. PICK passed \in BOOLEAN : /\ pc = "cn_first_check" /\ pc' \in {"cn_first_route", "cn_first_abandon"} /\ UNCHANGED <<job, verdict, mishap>>
                                /\ checkHealthViaDocker(stable, passed)
  BY DEF CheckFirst, CheckThen, Step, GoTo
<1>2. /\ pc \in CanaryPcs /\ pc' \in CanaryPcs \ {"cn_drop_canary"} /\ CanaryOK /\ (~mishap => CanaryClean)
      /\ stable \in Names /\ canary \in Names
  BY <1>1, CanaryHas DEF CanaryPcs
<1>3. HostTyped' /\ loaded' = loaded /\ \A m \in Names : Looks(m)
  BY <1>1, <1>2, CanaryHas, CheckEffect
<1>4. Onward
  BY <1>1, <1>2, <1>3, CanaryHas, OnwardSame DEF DeployTyped
<1>5. CanaryOK'
  <2>1. Looks(stable)
    BY <1>2, <1>3
  <2> QED BY <1>1, <1>2, <2>1 DEF CanaryOK, IsNew, isContainerRunning, Looks
<1>6. ~mishap => CanaryClean'
  <2>1. Looks(stable) /\ Looks(canary)
    BY <1>2, <1>3
  <2> QED BY <1>1, <1>2, <1>3, <2>1 DEF CanaryClean, CanaryOK, IsNew, isContainerRunning, Looks, CanaryPcs
<1> QED BY <1>1, <1>2, <1>3, <1>4, <1>5, <1>6, CanaryFades DEF Looks

LEMMA AbandonFirstKeeps == ASSUME LocalInv, AbandonFirst PROVE LocalInv'
<1>1. pc = "cn_first_abandon" /\ pc' = "idle" /\ verdict' = "failure" /\ UNCHANGED <<job, mishap>> /\ removeContainerIfExists(stable)
  BY DEF AbandonFirst, Return
<1>2. pc \in CanaryPcs /\ (pc' = "idle" \/ pc' \in CanaryPcs \ {"cn_drop_canary"})
  BY <1>1 DEF CanaryPcs
<1>3. /\ HostTyped' /\ loaded' = loaded \ {stable} /\ OthersStay(stable) /\ box'[stable].state = "absent"
      /\ stable # canary /\ stable \in Names /\ canary \in Names
  BY <1>1, <1>2, CanaryHas, RemoveEffect
<1>4. Onward
  BY <1>1, <1>2, <1>3, CanaryHas, OnwardSame DEF Verdicts, DeployTyped
<1>5. CanaryOK'
  BY <1>1, <1>2, <1>3, CanaryHas DEF CanaryOK
<1>6. ~mishap => CanaryClean'
  <2>1. ~mishap => CanaryClean
    BY <1>2, CanaryHas
  <2> QED BY <1>1, <1>3, <2>1 DEF CanaryClean, OthersStay, isContainerRunning, CanaryPcs
<1>7. \A m \in Names \ {stable} : Looks(m)
  BY <1>3 DEF Looks, OthersStay
<1> QED BY <1>1, <1>2, <1>3, <1>4, <1>5, <1>6, <1>7, CanaryFades

LEMMA RouteFirstKeeps == ASSUME LocalInv, RouteFirst PROVE LocalInv'
<1>1. pc = "cn_first_route" /\ UNCHANGED <<job, mishap>>
  BY DEF RouteFirst, RouteThen, Step, GoTo, Return
<1>2. /\ pc \in CanaryPcs /\ CanaryOK /\ (~mishap => CanaryClean)
      /\ stable # canary /\ stable \in Names /\ canary \in Names
  BY <1>1, CanaryHas DEF CanaryPcs
<1>3. CASE pc' = "done" /\ verdict' = verdict /\ writeAndReloadNginx({stable})
  <2>1. HostTyped' /\ box' = box /\ loaded' = {stable}
    BY <1>2, <1>3, CanaryHas, RouteEffect
  <2>2. Onward
    BY <1>1, <1>2, <1>3, <2>1, CanaryHas, OnwardSame DEF DeployTyped
  <2>3. CanaryOK'
    BY <1>1, <1>2, <1>3, <2>1 DEF CanaryOK, IsNew, isContainerRunning
  <2>4. ~mishap => CanaryClean'
    BY <1>1, <1>2, <1>3, <2>1 DEF CanaryClean, CanaryOK, IsNew, isContainerRunning, CanaryPcs
  <2>5. pc' \in CanaryPcs \cup {"done"} /\ \A m \in Names : Looks(m)
    BY <1>3, <2>1 DEF CanaryPcs, Looks
  <2>6. ServesNew'
    BY <1>1, <1>2, <1>3, <2>1 DEF CanaryOK, ServesNew, IsNew
  <2> QED BY <1>1, <1>2, <1>3, <2>1, <2>2, <2>3, <2>4, <2>5, <2>6, CanaryFrame DEF Looks
<1>4. CASE pc' = "idle" /\ verdict' = "failure" /\ ReloadRefused({stable})
  <2>1. HostTyped' /\ box' = box /\ loaded' = loaded /\ ~({stable} \subseteq Running)
    BY <1>2, <1>4, CanaryHas, RefuseEffect
  <2>2. Onward
    BY <1>1, <1>2, <1>4, <2>1, CanaryHas, OnwardSame DEF Verdicts
  <2>3. CanaryOK'
    BY <1>4 DEF CanaryOK
  <2>4. ~mishap => CanaryClean'
    BY <1>1, <1>2, <2>1, CanaryHas, BoxOf DEF CanaryClean, CanaryOK, IsNew
  <2> QED BY <1>1, <1>2, <1>4, <2>1, <2>2, <2>3, <2>4, CanaryFades DEF Looks
<1> QED BY <1>3, <1>4 DEF RouteFirst, RouteThen, Step, GoTo, Return

LEMMA RunCanaryKeeps == ASSUME LocalInv, RunCanary PROVE LocalInv'
<1>1. pc = "cn_run" /\ UNCHANGED <<job, mishap>>
  BY DEF RunCanary, RunThen, Step, GoTo, Return
<1>2. /\ pc \in CanaryPcs /\ CanaryOK /\ (~mishap => CanaryClean)
      /\ stable # canary /\ stable \in Names /\ canary \in Names
  BY <1>1, CanaryHas DEF CanaryPcs
<1>3. CASE /\ pc' = "cn_check" /\ verdict' = verdict
           /\ runContainer(canary, job.image, job.previous, job.deployment)
  <2>1. /\ HostTyped' /\ loaded' = loaded /\ canary \notin loaded /\ OthersStay(canary)
        /\ box'[canary].state = "running" /\ box'[canary].deployment = job.deployment
    BY <1>2, <1>3, CanaryHas, RunEffect
  <2>2. Onward
    BY <1>1, <1>2, <1>3, <2>1, CanaryHas, OnwardSame DEF DeployTyped
  <2>3. CanaryOK'
    BY <1>1, <1>2, <1>3, <2>1 DEF CanaryOK, IsNew, isContainerRunning
  <2>4. ~mishap => CanaryClean'
    BY <1>1, <1>2, <1>3, <2>1 DEF CanaryClean, OthersStay, isContainerRunning, CanaryPcs
  <2>5. \A m \in Names \ {canary} : Looks(m)
    BY <2>1 DEF Looks, OthersStay
  <2>6. pc' \in CanaryPcs \ {"cn_drop_canary"}
    BY <1>3 DEF CanaryPcs
  <2> QED BY <1>1, <1>2, <2>1, <2>2, <2>3, <2>4, <2>5, <2>6, CanaryFades
<1>4. CASE pc' = "idle" /\ verdict' = "failure" /\ UNCHANGED host
  <2>1. HostTyped' /\ box' = box /\ loaded' = loaded
    BY <1>2, <1>4, CanaryHas, NoEffect DEF host
  <2>2. Onward
    BY <1>1, <1>2, <1>4, <2>1, CanaryHas, OnwardSame DEF Verdicts
  <2>3. CanaryOK'
    BY <1>4 DEF CanaryOK
  <2>4. ~mishap => CanaryClean'
    BY <1>1, <1>2, <1>4, <2>1 DEF CanaryClean, isContainerRunning, CanaryPcs
  <2> QED BY <1>1, <1>2, <1>4, <2>1, <2>2, <2>3, <2>4, CanaryFades DEF Looks
<1> QED BY <1>3, <1>4 DEF RunCanary, RunThen, Step, GoTo, Return

LEMMA CheckCanaryKeeps == ASSUME LocalInv, CheckCanary PROVE LocalInv'
<1>1. PICK passed \in BOOLEAN : /\ pc = "cn_check" /\ pc' \in {"cn_stage", "cn_abandon"} /\ UNCHANGED <<job, verdict, mishap>>
                                /\ checkHealthViaDocker(canary, passed)
  BY DEF CheckCanary, CheckThen, Step, GoTo
<1>2. /\ pc \in CanaryPcs /\ pc' \in CanaryPcs \ {"cn_drop_canary"} /\ CanaryOK /\ (~mishap => CanaryClean)
      /\ stable \in Names /\ canary \in Names
  BY <1>1, CanaryHas DEF CanaryPcs
<1>3. HostTyped' /\ loaded' = loaded /\ \A m \in Names : Looks(m)
  BY <1>1, <1>2, CanaryHas, CheckEffect
<1>4. Onward
  BY <1>1, <1>2, <1>3, CanaryHas, OnwardSame DEF DeployTyped
<1>5. CanaryOK'
  <2>1. Looks(stable)
    BY <1>2, <1>3
  <2> QED BY <1>1, <1>2, <2>1 DEF CanaryOK, IsNew, isContainerRunning, Looks
<1>6. ~mishap => CanaryClean'
  <2>1. Looks(stable) /\ Looks(canary)
    BY <1>2, <1>3
  <2> QED BY <1>1, <1>2, <1>3, <2>1 DEF CanaryClean, CanaryOK, IsNew, isContainerRunning, Looks, CanaryPcs
<1> QED BY <1>1, <1>2, <1>3, <1>4, <1>5, <1>6, CanaryFades DEF Looks

LEMMA AbandonCanaryKeeps == ASSUME LocalInv, AbandonCanary PROVE LocalInv'
<1>1. pc = "cn_abandon" /\ pc' = "idle" /\ verdict' = "failure" /\ UNCHANGED <<job, mishap>> /\ removeContainerIfExists(canary)
  BY DEF AbandonCanary, Return
<1>2. pc \in CanaryPcs /\ (pc' = "idle" \/ pc' \in CanaryPcs \ {"cn_drop_canary"})
  BY <1>1 DEF CanaryPcs
<1>3. /\ HostTyped' /\ loaded' = loaded \ {canary} /\ OthersStay(canary) /\ box'[canary].state = "absent"
      /\ stable # canary /\ stable \in Names /\ canary \in Names
  BY <1>1, <1>2, CanaryHas, RemoveEffect
<1>4. Onward
  BY <1>1, <1>2, <1>3, CanaryHas, OnwardSame DEF Verdicts, DeployTyped
<1>5. CanaryOK'
  BY <1>1, <1>2, <1>3, CanaryHas DEF CanaryOK
<1>6. ~mishap => CanaryClean'
  <2>1. ~mishap => CanaryClean
    BY <1>2, CanaryHas
  <2> QED BY <1>1, <1>3, <2>1 DEF CanaryClean, OthersStay, isContainerRunning, CanaryPcs
<1>7. \A m \in Names \ {canary} : Looks(m)
  BY <1>3 DEF Looks, OthersStay
<1> QED BY <1>1, <1>2, <1>3, <1>4, <1>5, <1>6, <1>7, CanaryFades

LEMMA ObserveKeeps == ASSUME LocalInv, Observe PROVE LocalInv'
<1>1. PICK passed \in BOOLEAN : /\ pc = "cn_observe" /\ pc' \in {"cn_stage", "cn_back", "cn_promote"} /\ UNCHANGED <<job, verdict, mishap>>
                                /\ checkHealthViaDocker(canary, passed)
  BY DEF Observe, CheckThen, Step, GoTo
<1>2. /\ pc \in CanaryPcs /\ pc' \in CanaryPcs \ {"cn_drop_canary"} /\ CanaryOK /\ (~mishap => CanaryClean)
      /\ stable \in Names /\ canary \in Names
  BY <1>1, CanaryHas DEF CanaryPcs
<1>3. HostTyped' /\ loaded' = loaded /\ \A m \in Names : Looks(m)
  BY <1>1, <1>2, CanaryHas, CheckEffect
<1>4. Onward
  BY <1>1, <1>2, <1>3, CanaryHas, OnwardSame DEF DeployTyped
<1>5. CanaryOK'
  <2>1. Looks(stable)
    BY <1>2, <1>3
  <2> QED BY <1>1, <1>2, <2>1 DEF CanaryOK, IsNew, isContainerRunning, Looks
<1>6. ~mishap => CanaryClean'
  <2>1. Looks(stable) /\ Looks(canary)
    BY <1>2, <1>3
  <2> QED BY <1>1, <1>2, <1>3, <2>1 DEF CanaryClean, CanaryOK, IsNew, isContainerRunning, Looks, CanaryPcs
<1> QED BY <1>1, <1>2, <1>3, <1>4, <1>5, <1>6, CanaryFades DEF Looks

LEMMA RouteBackKeeps == ASSUME LocalInv, RouteBack PROVE LocalInv'
<1>1. pc = "cn_back" /\ UNCHANGED <<job, mishap>>
  BY DEF RouteBack, RouteThen, Step, GoTo, Return
<1>2. /\ pc \in CanaryPcs /\ CanaryOK /\ (~mishap => CanaryClean)
      /\ stable # canary /\ stable \in Names /\ canary \in Names
  BY <1>1, CanaryHas DEF CanaryPcs
<1>3. CASE pc' = "cn_abandon" /\ verdict' = verdict /\ writeAndReloadNginx({stable})
  <2>1. HostTyped' /\ box' = box /\ loaded' = {stable}
    BY <1>2, <1>3, CanaryHas, RouteEffect
  <2>2. Onward
    BY <1>1, <1>2, <1>3, <2>1, CanaryHas, OnwardSame DEF DeployTyped
  <2>3. CanaryOK'
    BY <1>1, <1>2, <1>3, <2>1 DEF CanaryOK, IsNew, isContainerRunning
  <2>4. ~mishap => CanaryClean'
    BY <1>1, <1>2, <1>3, <2>1 DEF CanaryClean, CanaryOK, IsNew, isContainerRunning, CanaryPcs
  <2>5. pc' \in CanaryPcs \cup {"done"} /\ \A m \in Names : Looks(m)
    BY <1>3, <2>1 DEF CanaryPcs, Looks
  <2>6. job.stage >= 1 /\ pc' \notin {"done", "cn_drop_canary", "idle"}
    BY <1>1, <1>2, <1>3, <2>1 DEF CanaryOK, ServesNew, IsNew
  <2> QED BY <1>1, <1>2, <1>3, <2>1, <2>2, <2>3, <2>4, <2>5, <2>6, CanaryFrame DEF Looks
<1>4. CASE pc' = "idle" /\ verdict' = "failure" /\ ReloadRefused({stable})
  <2>1. HostTyped' /\ box' = box /\ loaded' = loaded /\ ~({stable} \subseteq Running)
    BY <1>2, <1>4, CanaryHas, RefuseEffect
  <2>2. Onward
    BY <1>1, <1>2, <1>4, <2>1, CanaryHas, OnwardSame DEF Verdicts
  <2>3. CanaryOK'
    BY <1>4 DEF CanaryOK
  <2>4. ~mishap => CanaryClean'
    BY <1>1, <1>2, <2>1, CanaryHas, BoxOf DEF CanaryClean, CanaryOK, IsNew
  <2> QED BY <1>1, <1>2, <1>4, <2>1, <2>2, <2>3, <2>4, CanaryFades DEF Looks
<1> QED BY <1>3, <1>4 DEF RouteBack, RouteThen, Step, GoTo, Return

LEMMA RouteToCanaryKeeps == ASSUME LocalInv, RouteToCanary PROVE LocalInv'
<1>1. pc = "cn_promote" /\ UNCHANGED <<job, mishap>>
  BY DEF RouteToCanary, RouteThen, Step, GoTo, Return
<1>2. /\ pc \in CanaryPcs /\ CanaryOK /\ (~mishap => CanaryClean)
      /\ stable # canary /\ stable \in Names /\ canary \in Names
  BY <1>1, CanaryHas DEF CanaryPcs
<1>3. CASE pc' = "cn_drop_stable" /\ verdict' = verdict /\ writeAndReloadNginx({canary})
  <2>1. HostTyped' /\ box' = box /\ loaded' = {canary}
    BY <1>2, <1>3, CanaryHas, RouteEffect
  <2>2. Onward
    BY <1>1, <1>2, <1>3, <2>1, CanaryHas, OnwardSame DEF DeployTyped
  <2>3. CanaryOK'
    BY <1>1, <1>2, <1>3, <2>1 DEF CanaryOK, IsNew, isContainerRunning
  <2>4. ~mishap => CanaryClean'
    BY <1>1, <1>2, <1>3, <2>1 DEF CanaryClean, CanaryOK, IsNew, isContainerRunning, CanaryPcs
  <2>5. pc' \in CanaryPcs \cup {"done"} /\ \A m \in Names : Looks(m)
    BY <1>3, <2>1 DEF CanaryPcs, Looks
  <2>6. job.stage >= 1 /\ pc' \notin {"done", "cn_drop_canary", "idle"}
    BY <1>1, <1>2, <1>3, <2>1 DEF CanaryOK, ServesNew, IsNew
  <2> QED BY <1>1, <1>2, <1>3, <2>1, <2>2, <2>3, <2>4, <2>5, <2>6, CanaryFrame DEF Looks
<1>4. CASE pc' = "idle" /\ verdict' = "failure" /\ ReloadRefused({canary})
  <2>1. HostTyped' /\ box' = box /\ loaded' = loaded /\ ~({canary} \subseteq Running)
    BY <1>2, <1>4, CanaryHas, RefuseEffect
  <2>2. Onward
    BY <1>1, <1>2, <1>4, <2>1, CanaryHas, OnwardSame DEF Verdicts
  <2>3. CanaryOK'
    BY <1>4 DEF CanaryOK
  <2>4. ~mishap => CanaryClean'
    BY <1>1, <1>2, <2>1, CanaryHas, BoxOf DEF CanaryClean, CanaryOK, IsNew
  <2> QED BY <1>1, <1>2, <1>4, <2>1, <2>2, <2>3, <2>4, CanaryFades DEF Looks
<1> QED BY <1>3, <1>4 DEF RouteToCanary, RouteThen, Step, GoTo, Return

LEMMA DropStableKeeps == ASSUME LocalInv, DropStable PROVE LocalInv'
<1>1. pc = "cn_drop_stable" /\ pc' = "cn_run_stable" /\ UNCHANGED <<job, verdict, mishap>> /\ removeContainerIfExists(stable)
  BY DEF DropStable, Step, GoTo
<1>2. pc \in CanaryPcs /\ (pc' = "idle" \/ pc' \in CanaryPcs \ {"cn_drop_canary"})
  BY <1>1 DEF CanaryPcs
<1>3. /\ HostTyped' /\ loaded' = loaded \ {stable} /\ OthersStay(stable) /\ box'[stable].state = "absent"
      /\ stable # canary /\ stable \in Names /\ canary \in Names
  BY <1>1, <1>2, CanaryHas, RemoveEffect
<1>4. Onward
  BY <1>1, <1>2, <1>3, CanaryHas, OnwardSame DEF Verdicts, DeployTyped
<1>5. CanaryOK'
  BY <1>1, <1>2, <1>3, CanaryHas DEF CanaryOK
<1>6. ~mishap => CanaryClean'
  <2>1. ~mishap => CanaryClean
    BY <1>2, CanaryHas
  <2> QED BY <1>1, <1>3, <2>1 DEF CanaryClean, OthersStay, isContainerRunning, CanaryPcs
<1>7. \A m \in Names \ {stable} : Looks(m)
  BY <1>3 DEF Looks, OthersStay
<1> QED BY <1>1, <1>2, <1>3, <1>4, <1>5, <1>6, <1>7, CanaryFades

LEMMA RunStableKeeps == ASSUME LocalInv, RunStable PROVE LocalInv'
<1>1. pc = "cn_run_stable" /\ UNCHANGED <<job, mishap>>
  BY DEF RunStable, RunThen, Step, GoTo, Return
<1>2. /\ pc \in CanaryPcs /\ CanaryOK /\ (~mishap => CanaryClean)
      /\ stable # canary /\ stable \in Names /\ canary \in Names
  BY <1>1, CanaryHas DEF CanaryPcs
<1>3. CASE /\ pc' = "cn_check_stable" /\ verdict' = verdict
           /\ runContainer(stable, job.image, job.previous, job.deployment)
  <2>1. /\ HostTyped' /\ loaded' = loaded /\ stable \notin loaded /\ OthersStay(stable)
        /\ box'[stable].state = "running" /\ box'[stable].deployment = job.deployment
    BY <1>2, <1>3, CanaryHas, RunEffect
  <2>2. Onward
    BY <1>1, <1>2, <1>3, <2>1, CanaryHas, OnwardSame DEF DeployTyped
  <2>3. CanaryOK'
    BY <1>1, <1>2, <1>3, <2>1 DEF CanaryOK, IsNew, isContainerRunning
  <2>4. ~mishap => CanaryClean'
    BY <1>1, <1>2, <1>3, <2>1 DEF CanaryClean, OthersStay, isContainerRunning, CanaryPcs
  <2>5. \A m \in Names \ {stable} : Looks(m)
    BY <2>1 DEF Looks, OthersStay
  <2>6. pc' \in CanaryPcs \ {"cn_drop_canary"}
    BY <1>3 DEF CanaryPcs
  <2> QED BY <1>1, <1>2, <2>1, <2>2, <2>3, <2>4, <2>5, <2>6, CanaryFades
<1>4. CASE pc' = "idle" /\ verdict' = "failure" /\ UNCHANGED host
  <2>1. HostTyped' /\ box' = box /\ loaded' = loaded
    BY <1>2, <1>4, CanaryHas, NoEffect DEF host
  <2>2. Onward
    BY <1>1, <1>2, <1>4, <2>1, CanaryHas, OnwardSame DEF Verdicts
  <2>3. CanaryOK'
    BY <1>4 DEF CanaryOK
  <2>4. ~mishap => CanaryClean'
    BY <1>1, <1>2, <1>4, <2>1 DEF CanaryClean, isContainerRunning, CanaryPcs
  <2> QED BY <1>1, <1>2, <1>4, <2>1, <2>2, <2>3, <2>4, CanaryFades DEF Looks
<1> QED BY <1>3, <1>4 DEF RunStable, RunThen, Step, GoTo, Return

LEMMA CheckStableKeeps == ASSUME LocalInv, CheckStable PROVE LocalInv'
<1>1. PICK passed \in BOOLEAN : /\ pc = "cn_check_stable" /\ pc' \in {"cn_settle", "cn_keep_canary"} /\ UNCHANGED <<job, verdict, mishap>>
                                /\ checkHealthViaDocker(stable, passed)
  BY DEF CheckStable, CheckThen, Step, GoTo
<1>2. /\ pc \in CanaryPcs /\ pc' \in CanaryPcs \ {"cn_drop_canary"} /\ CanaryOK /\ (~mishap => CanaryClean)
      /\ stable \in Names /\ canary \in Names
  BY <1>1, CanaryHas DEF CanaryPcs
<1>3. HostTyped' /\ loaded' = loaded /\ \A m \in Names : Looks(m)
  BY <1>1, <1>2, CanaryHas, CheckEffect
<1>4. Onward
  BY <1>1, <1>2, <1>3, CanaryHas, OnwardSame DEF DeployTyped
<1>5. CanaryOK'
  <2>1. Looks(stable)
    BY <1>2, <1>3
  <2> QED BY <1>1, <1>2, <2>1 DEF CanaryOK, IsNew, isContainerRunning, Looks
<1>6. ~mishap => CanaryClean'
  <2>1. Looks(stable) /\ Looks(canary)
    BY <1>2, <1>3
  <2> QED BY <1>1, <1>2, <1>3, <2>1 DEF CanaryClean, CanaryOK, IsNew, isContainerRunning, Looks, CanaryPcs
<1> QED BY <1>1, <1>2, <1>3, <1>4, <1>5, <1>6, CanaryFades DEF Looks

LEMMA KeepCanaryKeeps == ASSUME LocalInv, KeepCanary PROVE LocalInv'
<1>1. pc = "cn_keep_canary" /\ pc' = "idle" /\ verdict' = "failure" /\ UNCHANGED <<job, mishap>> /\ removeContainerIfExists(stable)
  BY DEF KeepCanary, Return
<1>2. pc \in CanaryPcs /\ (pc' = "idle" \/ pc' \in CanaryPcs \ {"cn_drop_canary"})
  BY <1>1 DEF CanaryPcs
<1>3. /\ HostTyped' /\ loaded' = loaded \ {stable} /\ OthersStay(stable) /\ box'[stable].state = "absent"
      /\ stable # canary /\ stable \in Names /\ canary \in Names
  BY <1>1, <1>2, CanaryHas, RemoveEffect
<1>4. Onward
  BY <1>1, <1>2, <1>3, CanaryHas, OnwardSame DEF Verdicts, DeployTyped
<1>5. CanaryOK'
  BY <1>1, <1>2, <1>3, CanaryHas DEF CanaryOK
<1>6. ~mishap => CanaryClean'
  <2>1. ~mishap => CanaryClean
    BY <1>2, CanaryHas
  <2> QED BY <1>1, <1>3, <2>1 DEF CanaryClean, OthersStay, isContainerRunning, CanaryPcs
<1>7. \A m \in Names \ {stable} : Looks(m)
  BY <1>3 DEF Looks, OthersStay
<1> QED BY <1>1, <1>2, <1>3, <1>4, <1>5, <1>6, <1>7, CanaryFades

LEMMA RouteToStableKeeps == ASSUME LocalInv, RouteToStable PROVE LocalInv'
<1>1. pc = "cn_settle" /\ UNCHANGED <<job, mishap>>
  BY DEF RouteToStable, RouteThen, Step, GoTo, Return
<1>2. /\ pc \in CanaryPcs /\ CanaryOK /\ (~mishap => CanaryClean)
      /\ stable # canary /\ stable \in Names /\ canary \in Names
  BY <1>1, CanaryHas DEF CanaryPcs
<1>3. CASE pc' = "cn_drop_canary" /\ verdict' = verdict /\ writeAndReloadNginx({stable})
  <2>1. HostTyped' /\ box' = box /\ loaded' = {stable}
    BY <1>2, <1>3, CanaryHas, RouteEffect
  <2>2. Onward
    BY <1>1, <1>2, <1>3, <2>1, CanaryHas, OnwardSame DEF DeployTyped
  <2>3. CanaryOK'
    BY <1>1, <1>2, <1>3, <2>1 DEF CanaryOK, IsNew, isContainerRunning
  <2>4. ~mishap => CanaryClean'
    BY <1>1, <1>2, <1>3, <2>1 DEF CanaryClean, CanaryOK, IsNew, isContainerRunning, CanaryPcs
  <2>5. pc' \in CanaryPcs \cup {"done"} /\ \A m \in Names : Looks(m)
    BY <1>3, <2>1 DEF CanaryPcs, Looks
  <2>6. job.stage >= 1 /\ ServesNew'
    BY <1>1, <1>2, <1>3, <2>1 DEF CanaryOK, ServesNew, IsNew
  <2> QED BY <1>1, <1>2, <1>3, <2>1, <2>2, <2>3, <2>4, <2>5, <2>6, CanaryFrame DEF Looks
<1>4. CASE pc' = "idle" /\ verdict' = "failure" /\ ReloadRefused({stable})
  <2>1. HostTyped' /\ box' = box /\ loaded' = loaded /\ ~({stable} \subseteq Running)
    BY <1>2, <1>4, CanaryHas, RefuseEffect
  <2>2. Onward
    BY <1>1, <1>2, <1>4, <2>1, CanaryHas, OnwardSame DEF Verdicts
  <2>3. CanaryOK'
    BY <1>4 DEF CanaryOK
  <2>4. ~mishap => CanaryClean'
    BY <1>1, <1>2, <2>1, CanaryHas, BoxOf DEF CanaryClean, CanaryOK, IsNew
  <2> QED BY <1>1, <1>2, <1>4, <2>1, <2>2, <2>3, <2>4, CanaryFades DEF Looks
<1> QED BY <1>3, <1>4 DEF RouteToStable, RouteThen, Step, GoTo, Return

LEMMA ClearCanaryKeeps == ASSUME LocalInv, ClearCanary PROVE LocalInv'
<1> DEFINE previous == IF box[stable].image = None THEN None ELSE resolvePreviousImage(box[stable], job.image)
<1>1. /\ pc = "cn_clear" /\ pc' = "cn_run" /\ UNCHANGED <<verdict, mishap>> /\ removeContainerIfExists(canary)
      /\ job' = [job EXCEPT !.previous = previous]
  BY DEF ClearCanary, GoTo
<1>2. /\ pc \in CanaryPcs /\ pc' \in CanaryPcs \ {"cn_drop_canary"} /\ CanaryOK /\ (~mishap => CanaryClean)
      /\ stable # canary /\ stable \in Names /\ canary \in Names
  BY <1>1, CanaryHas DEF CanaryPcs
<1>3. HostTyped' /\ loaded' = loaded \ {canary} /\ OthersStay(canary) /\ box'[canary].state = "absent"
  BY <1>1, <1>2, CanaryHas, RemoveEffect
<1>4. previous \in Images \cup {None}
  BY <1>2, CanaryHas, BoxOf DEF Boxes, resolvePreviousImage
<1> HIDE DEF previous
<1>5. Onward /\ job'.stage = job.stage
  BY <1>1, <1>2, <1>3, <1>4, CanaryHas DEF Onward, DeployTyped, Jobs
<1>6. CanaryOK'
  BY <1>1 DEF CanaryOK
<1>7. ~mishap => CanaryClean'
  BY <1>1, <1>2, <1>3 DEF CanaryClean, OthersStay, isContainerRunning, CanaryPcs
<1>8. \A m \in Names \ {canary} : Looks(m)
  BY <1>3 DEF Looks, OthersStay
<1> QED BY <1>1, <1>2, <1>3, <1>5, <1>6, <1>7, <1>8, CanaryFades

LEMMA ShiftTrafficKeeps == ASSUME LocalInv, ShiftTraffic PROVE LocalInv'
<1>1. PICK whole \in BOOLEAN :
        \/ /\ GoTo("cn_stage", "cn_observe")
           /\ job' = [job EXCEPT !.stage = @ + 1]
           /\ writeAndReloadNginx(StageTargets(whole))
        \/ Return("cn_stage", "failure") /\ ReloadRefused(StageTargets(whole))
  BY DEF ShiftTraffic
<1>2. pc = "cn_stage" /\ mishap' = mishap
  BY <1>1 DEF GoTo, Return
<1>3. /\ pc \in CanaryPcs /\ CanaryOK /\ (~mishap => CanaryClean)
      /\ stable # canary /\ stable \in Names /\ canary \in Names /\ StageTargets(whole) \subseteq {stable, canary}
  BY <1>2, CanaryHas DEF CanaryPcs, StageTargets
<1>4. CASE /\ pc' = "cn_observe" /\ verdict' = verdict /\ job' = [job EXCEPT !.stage = @ + 1]
           /\ writeAndReloadNginx(StageTargets(whole))
  <2>1. HostTyped' /\ box' = box /\ loaded' \subseteq {stable, canary}
    BY <1>3, <1>4, CanaryHas, RouteEffect
  <2>2. Onward /\ job'.stage >= 1
    BY <1>2, <1>3, <1>4, <2>1, CanaryHas DEF Onward, DeployTyped, Jobs
  <2>3. CanaryOK'
    BY <1>4, <2>2 DEF CanaryOK
  <2>4. ~mishap => CanaryClean'
    BY <1>2, <1>3, <1>4, <2>1 DEF CanaryClean, isContainerRunning, CanaryPcs
  <2>5. pc' \in CanaryPcs /\ pc' \notin {"cn_drop_canary", "done", "idle"} /\ \A m \in Names : Looks(m)
    BY <1>4, <2>1 DEF CanaryPcs, Looks
  <2> QED BY <1>3, <2>1, <2>2, <2>3, <2>4, <2>5, CanaryFrame DEF Looks
<1>5. CASE pc' = "idle" /\ verdict' = "failure" /\ job' = job /\ ReloadRefused(StageTargets(whole))
  <2>1. HostTyped' /\ box' = box /\ loaded' = loaded /\ ~(StageTargets(whole) \subseteq Running)
    BY <1>3, <1>5, CanaryHas, RefuseEffect
  <2>2. Onward
    BY <1>2, <1>3, <1>5, <2>1, CanaryHas, OnwardSame DEF Verdicts
  <2>3. CanaryOK'
    BY <1>5 DEF CanaryOK
  <2>4. ~mishap => CanaryClean'
    BY <1>2, <1>3, <2>1, CanaryHas, BoxOf DEF CanaryClean
  <2> QED BY <1>2, <1>3, <1>5, <2>1, <2>2, <2>3, <2>4, CanaryFades DEF Looks
<1> QED BY <1>1, <1>4, <1>5 DEF GoTo, Return

LEMMA DropCanaryKeeps == ASSUME LocalInv, DropCanary PROVE LocalInv'
<1>1. /\ pc = "cn_drop_canary" /\ pc' = "idle" /\ verdict' = "success" /\ UNCHANGED <<job, mishap>>
      /\ removeContainerIfExists(canary)
  BY DEF DropCanary, Return
<1>2. /\ pc \in CanaryPcs /\ CanaryOK /\ (~mishap => CanaryClean)
      /\ stable # canary /\ stable \in Names /\ canary \in Names
  BY <1>1, CanaryHas DEF CanaryPcs
<1>3. HostTyped' /\ loaded' = loaded \ {canary} /\ OthersStay(canary) /\ box'[canary].state = "absent"
  BY <1>1, <1>2, CanaryHas, RemoveEffect
<1>4. Onward
  BY <1>1, <1>2, <1>3, CanaryHas, OnwardSame DEF Verdicts
<1>5. CanaryOK' /\ job.stage >= 1
  BY <1>1, <1>2 DEF CanaryOK
<1>6. ~mishap => CanaryClean'
  BY <1>1, <1>2, <1>3 DEF CanaryClean, OthersStay, isContainerRunning, CanaryPcs
<1>7. \A m \in Names \ {canary} : Looks(m)
  BY <1>3 DEF Looks, OthersStay
<1>8. ServesNew'
  BY <1>1, <1>2, <1>3 DEF ServesNew, CanaryOK, IsNew, OthersStay
<1> QED BY <1>1, <1>2, <1>3, <1>4, <1>5, <1>6, <1>7, <1>8, CanaryFrame DEF Looks

LEMMA CanaryStepKeeps == ASSUME LocalInv, CanaryStep PROVE LocalInv'
BY LookForStableKeeps, RunFirstKeeps, CheckFirstKeeps, AbandonFirstKeeps, RouteFirstKeeps,
   ClearCanaryKeeps, RunCanaryKeeps, CheckCanaryKeeps, AbandonCanaryKeeps, ShiftTrafficKeeps, ObserveKeeps,
   RouteBackKeeps, RouteToCanaryKeeps, DropStableKeeps, RunStableKeeps, CheckStableKeeps,
   KeepCanaryKeeps, RouteToStableKeeps, DropCanaryKeeps DEF CanaryStep

LEMMA BlueGreenStepKeeps == ASSUME LocalInv, BlueGreenStep PROVE LocalInv'
BY ChooseColorsKeeps, ClearNewColorKeeps, RunNewColorKeeps, CheckNewColorKeeps, AbandonNewColorKeeps,
   SwitchProxyKeeps, DrainOldColorKeeps DEF BlueGreenStep

-----------------------------------------------------------------------------
\* A step of the rolling driver leaves the other drivers' containers alone.
LEMMA RollingFrame ==
    ASSUME LocalInv, Onward, pc \in RollingPcs, pc' \in RollingPcs \cup {"idle", "done"},
           \A n \in Names \ Ordinals : Looks(n), loaded' \subseteq loaded \cup Ordinals,
           \A n \in Names : box'[n].state \in {box[n].state, "absent", "running"},
           RollingOK', ~mishap => RollingClean' /\ CapacityClean',
           OnlyRolling => RollingServes' /\ (job.image \notin job.before => RollingReturns'),
           pc' \in {"rl_start"} \cup FirstPcs => ServedImages' \subseteq job.before,
           pc' = "done" => ServesNew',
           pc' = "idle" => /\ verdict' = "failure"
                           /\ OnlyRolling /\ job.image \notin job.before => ServedImages' \subseteq job.before
    PROVE  LocalInv'
<1>1. DeployTyped' /\ Driven'
  <2>1. pc # "idle"
    BY DEF RollingPcs, FirstPcs, UpdatePcs, UndoPcs
  <2> QED BY <2>1, DrivenFrom DEF LocalInv
<1>2. pc' \notin BlueGreenPcs \cup CanaryPcs /\ pc \notin BlueGreenPcs \cup CanaryPcs
  BY DEF BlueGreenPcs, CanaryPcs, RollingPcs, FirstPcs, UpdatePcs, UndoPcs
<1>3. BlueGreenOK' /\ CanaryOK'
  <2>1. BlueGreenOK'
    BY <1>2 DEF BlueGreenOK, BlueGreenPcs
  <2>2. CanaryOK'
    BY <1>2 DEF CanaryOK, CanaryPcs
  <2> QED BY <2>1, <2>2
<1>4. \A n \in {blue, green, stable, canary} : Looks(n) /\ n \notin Ordinals
  BY NamesDiffer DEF Names
<1>5. ~mishap => BlueGreenClean' /\ CanaryClean'
  <2>1. ~mishap => /\ ~(isContainerRunning(blue) /\ isContainerRunning(green))
                   /\ ~(isContainerRunning(stable) /\ canary \in loaded)
    BY <1>2 DEF LocalInv, Clean, BlueGreenClean, CanaryClean
  <2>2. ~mishap => BlueGreenClean'
    BY <1>2, <1>4, <2>1 DEF BlueGreenClean, BlueGreenPcs, Looks, isContainerRunning
  <2>3. ~mishap => CanaryClean'
    BY <1>2, <1>4, <2>1 DEF CanaryClean, CanaryPcs, Looks, isContainerRunning
  <2> QED BY <2>2, <2>3
<1>6. ~mishap => NoneExited'
  BY DEF LocalInv, Clean, NoneExited
<1>7. job.strategy = "rolling"
  BY DEF LocalInv, Driven
<1>8. Clean' /\ Rolled'
  <2>1. Clean'
    BY <1>5, <1>6 DEF Clean, Onward
  <2>2. OnlyRolling' => OnlyRolling
    BY <1>7 DEF OnlyRolling, Onward
  <2> QED BY <2>1, <2>2 DEF Rolled, Onward
<1>9. ServesOld' /\ Delivered'
  <2>1. Kept' => pc' \in {"rl_start"} \cup FirstPcs
    BY <1>2 DEF Kept
  <2>2. pc' \notin {"bg_drain", "cn_drop_canary"}
    BY <1>2 DEF BlueGreenPcs, CanaryPcs
  <2> QED BY <2>1, <2>2 DEF ServesOld, Delivered, Onward
<1>10. Reported'
  BY <1>7 DEF Reported, SuccessIsServed, FailureIsNotServed, OnlyRolling, Onward
<1> QED BY <1>1, <1>3, <1>8, <1>9, <1>10 DEF LocalInv

\* What of the invariant a step of the driver needs.
LEMMA RollingHas ==
    ASSUME LocalInv, pc \in RollingPcs
    PROVE  /\ DeployTyped /\ HostTyped /\ job.image \in Images /\ job.deployment \in Nat
           /\ job.previous \in Images \cup {None} /\ job.carried \in Images \cup {None} /\ job.before \subseteq Images
           /\ job.count \in Nat /\ job.batch \in Nat /\ job.batch >= 1 /\ job.count >= 1 /\ job.size \in Nat
           /\ job.base \in Nat /\ job.at \in Nat /\ job.cursor \in Nat
           /\ 0 .. job.count - 1 \subseteq Ordinals
           /\ RollingOK /\ (~mishap => NoneExited /\ RollingClean /\ CapacityClean)
           /\ OnlyRolling => RollingServes /\ ~mishap
           /\ OnlyRolling /\ job.image \notin job.before => RollingReturns
           /\ pc \in {"rl_start"} \cup FirstPcs => ServedImages \subseteq job.before
<1>1. /\ DeployTyped /\ HostTyped /\ job.image \in Images /\ RollingOK /\ 0 .. job.count - 1 \subseteq Ordinals
      /\ ~mishap => NoneExited /\ RollingClean /\ CapacityClean
  BY DEF LocalInv, DeployTyped, Driven, RollingPcs, FirstPcs, UpdatePcs, UndoPcs, Clean
<1>2. pc \in {"rl_start"} \cup FirstPcs => ServedImages \subseteq job.before
  BY DEF LocalInv, ServesOld, Kept
<1>3. /\ OnlyRolling => RollingServes /\ ~mishap
      /\ OnlyRolling /\ job.image \notin job.before => RollingReturns
  BY DEF LocalInv, Rolled, OnlyRolling
<1> QED BY <1>1, <1>2, <1>3, JobOf

\* The ordinals of a batch.
LEMMA BatchOf ==
    ASSUME job.base \in Nat, job.batch \in Nat, job.batch >= 1, job.count \in Nat,
           0 .. job.count - 1 \subseteq Ordinals
    PROVE  /\ \A o : o \in Batch <=> o \in Nat /\ job.base <= o /\ o < job.base + job.batch /\ o < job.count
           /\ Batch \subseteq Ordinals
           /\ IsFiniteSet(Batch) /\ Cardinality(Batch) <= job.batch
<1>1. /\ \A o : o \in Batch <=> o \in Nat /\ job.base <= o /\ o < job.base + job.batch /\ o < job.count
      /\ Batch \subseteq Ordinals
  <2>1. \A o \in Nat : o < job.count => o \in Ordinals
    OBVIOUS
  <2>2. Ordinals \subseteq Nat
    BY NamesDiffer
  <2> QED BY <2>1, <2>2 DEF Batch
<1>2. IsFiniteSet(job.base .. job.base + job.batch - 1) /\ Cardinality(job.base .. job.base + job.batch - 1) = job.batch
  <2>1. job.base \in Int /\ job.base + job.batch - 1 \in Int /\ job.base <= job.base + job.batch - 1
    OBVIOUS
  <2> DEFINE top == job.base + job.batch - 1
  <2>2. top \in Int /\ job.base <= top /\ top - job.base + 1 = job.batch
    BY <2>1
  <2> HIDE DEF top
  <2>3. IsFiniteSet(job.base .. top) /\ Cardinality(job.base .. top) = top - job.base + 1
    <3>1. job.base > top <=> FALSE
      BY <2>1, <2>2
    <3> QED BY <2>1, <2>2, <3>1, FS_Interval
  <2> QED BY <2>2, <2>3 DEF top
<1>3. Batch \subseteq job.base .. job.base + job.batch - 1
  BY <1>1
<1> QED BY <1>1, <1>2, <1>3, FS_Subset

LEMMA NewStays == ASSUME Onward, NEW o \in Names, IsNew(o), Looks(o) PROVE IsNew(o)'
BY DEF Onward, IsNew, Looks, isContainerRunning

\* The proxy is given every running instance but the excluded ones, if any.
LEMMA UpdateEffect ==
    ASSUME HostTyped, NEW S, updateNginxForRunningInstances(S)
    PROVE  /\ HostTyped' /\ box' = box /\ Running' = Running
           /\ RunningInstances \subseteq S => loaded' = loaded /\ proxy' = proxy
           /\ ~(RunningInstances \subseteq S) => loaded' = RunningInstances \ S /\ proxy'
<1>1. CASE RunningInstances \ S = {}
  <2>1. UNCHANGED host /\ RunningInstances \subseteq S
    BY <1>1 DEF updateNginxForRunningInstances
  <2> QED BY <2>1, NoEffect DEF host
<1>2. CASE RunningInstances \ S # {}
  <2>1. writeAndReloadNginx(RunningInstances \ S) /\ ~(RunningInstances \subseteq S)
    BY <1>2 DEF updateNginxForRunningInstances
  <2> QED BY <2>1, RouteEffect
<1> QED BY <1>1, <1>2

LEMMA ExcludeBatchKeeps == ASSUME LocalInv, ExcludeBatch PROVE LocalInv'
<1>1. /\ pc = "rl_exclude" /\ pc' = "rl_drop" /\ UNCHANGED <<job, verdict, mishap>>
      /\ updateNginxForRunningInstances(Batch)
  BY DEF ExcludeBatch, Step, GoTo
<1>2. pc \in RollingPcs /\ pc' \in RollingPcs /\ pc' \notin FirstPcs \cup {"rl_start", "done", "idle"}
  BY <1>1 DEF RollingPcs, FirstPcs, UpdatePcs, UndoPcs
<1>3. /\ HostTyped' /\ box' = box /\ Running' = Running /\ loaded' \subseteq loaded \cup Ordinals
      /\ RunningInstances \subseteq Batch \/ loaded' = RunningInstances \ Batch
  BY <1>1, <1>2, RollingHas, UpdateEffect DEF RunningInstances
<1>4. Onward
  BY <1>1, <1>2, <1>3, RollingHas, OnwardSame DEF DeployTyped
<1>5. /\ job.cursor = job.base /\ job.at = job.base /\ job.base < job.count /\ job.size >= 1
      /\ \A o \in 0 .. job.at - 1 : IsNew(o)
  BY <1>1, <1>2, RollingHas DEF RollingOK, UpdatePcs, FirstPcs
<1>6. Batch' = Batch /\ RunningInstances' = RunningInstances
  BY <1>1, <1>3 DEF Batch, RunningInstances
<1>7. RollingOK'
  <2>1. job.cursor \in Batch
    BY <1>2, <1>5, RollingHas, BatchOf
  <2>2. \A o \in 0 .. job.at - 1 : IsNew(o)'
    BY <1>1, <1>3, <1>5 DEF IsNew, isContainerRunning
  <2> QED BY <1>1, <1>5, <1>6, <2>1, <2>2 DEF RollingOK, UpdatePcs, FirstPcs, UndoPcs
<1>8. ~mishap => RollingClean' /\ CapacityClean'
  <2>1. ~mishap => RollingClean'
    <3>1. \A o \in Batch : ~(o < job.cursor)
      BY <1>2, <1>5, RollingHas, BatchOf
    <3> QED BY <1>1, <1>6, <3>1 DEF RollingClean, FirstPcs
  <2>2. ~mishap => job.size <= Cardinality(RunningInstances \cup Batch) /\ job.size <= Cardinality(RunningInstances)
    BY <1>1, <1>2, RollingHas DEF CapacityClean, UpdatePcs
  <2>3. ~mishap /\ RunningInstances \subseteq Batch => job.batch >= job.size
    <3>1. IsFiniteSet(Batch) /\ Cardinality(Batch) <= job.batch
      BY <1>2, RollingHas, BatchOf
    <3>2. RunningInstances \subseteq Batch => Cardinality(RunningInstances) <= Cardinality(Batch)
      BY <3>1, FS_Subset
    <3>3. IsFiniteSet(RunningInstances)
      BY <1>2, RollingHas DEF HostTyped
    <3>4. Cardinality(Batch) \in Nat /\ Cardinality(RunningInstances) \in Nat
      BY <3>1, <3>3, FS_CardinalityType
    <3> QED BY <1>2, <2>2, <3>1, <3>2, <3>4, RollingHas
  <2>4. ~mishap => CapacityClean'
    BY <1>1, <1>3, <1>6, <2>2, <2>3 DEF CapacityClean, UpdatePcs
  <2> QED BY <2>1, <2>4
<1>9. OnlyRolling => RollingServes' /\ (job.image \notin job.before => RollingReturns')
  <2>1. OnlyRolling => RollingServes'
    BY <1>1, <1>2, <1>3, RollingHas DEF RollingServes, FirstPcs
  <2>2. OnlyRolling /\ job.image \notin job.before => RollingReturns'
    <3>1. OnlyRolling /\ job.image \notin job.before =>
            job.previous \in job.before /\ OldAmong({o \in Ordinals : o >= job.at})
      BY <1>1, <1>2, RollingHas DEF RollingReturns, UpdatePcs
    <3> QED BY <1>1, <1>3, <1>6, <3>1 DEF RollingReturns, OldAmong, UpdatePcs, UndoPcs
  <2> QED BY <2>1, <2>2
<1>10. \A n \in Names : Looks(n)
  BY <1>3 DEF Looks
<1> QED BY <1>2, <1>3, <1>4, <1>7, <1>8, <1>9, <1>10, RollingFrame DEF Looks

LEMMA DropInstanceKeeps == ASSUME LocalInv, DropInstance PROVE LocalInv'
<1>1. /\ pc = "rl_drop" /\ pc' = (IF job.cursor + 1 \in Batch THEN "rl_drop" ELSE "rl_run")
      /\ UNCHANGED <<verdict, mishap>> /\ job' = [job EXCEPT !.cursor = @ + 1]
      /\ IF isContainerRunning(job.cursor) THEN removeContainerIfExists(job.cursor) ELSE UNCHANGED host
  BY DEF DropInstance, GoTo
<1>2. /\ pc \in RollingPcs /\ pc' \in RollingPcs /\ pc' \notin FirstPcs \cup {"rl_start", "done", "idle"}
      /\ pc' \in {"rl_drop", "rl_run"}
  BY <1>1 DEF RollingPcs, FirstPcs, UpdatePcs, UndoPcs
<1>3. /\ job.cursor \in Batch /\ job.at = job.base /\ job.base < job.count /\ job.size >= 1
      /\ \A o \in 0 .. job.at - 1 : IsNew(o)
  BY <1>1, <1>2, RollingHas DEF RollingOK, UpdatePcs, FirstPcs
<1> DEFINE InBatch(o) == o \in Nat /\ job.base <= o /\ o < job.base + job.batch /\ o < job.count
<1>4. (\A o : o \in Batch <=> InBatch(o)) /\ Batch \subseteq Ordinals /\ Batch \subseteq Names
  BY <1>2, RollingHas, BatchOf, NamesDiffer
<1>5. /\ HostTyped' /\ Running' = Running \ {job.cursor} /\ loaded' = loaded \ {job.cursor}
      /\ OthersStay(job.cursor) /\ box'[job.cursor].state \in {box[job.cursor].state, "absent"}
  <2>1. CASE isContainerRunning(job.cursor)
    BY <1>1, <1>2, <1>3, <1>4, <2>1, RollingHas, RemoveEffect
  <2>2. CASE ~isContainerRunning(job.cursor)
    <3>1. HostTyped' /\ box' = box /\ Running' = Running /\ loaded' = loaded
      BY <1>1, <1>2, <2>2, RollingHas, NoEffect DEF host
    <3>2. job.cursor \notin Running /\ loaded \subseteq Running
      BY <1>2, <2>2, RollingHas, BoxOf DEF Running
    <3> QED BY <3>1, <3>2 DEF OthersStay
  <2> QED BY <2>1, <2>2
<1>6. /\ Onward /\ job'.cursor = job.cursor + 1 /\ job'.at = job.at /\ job'.base = job.base /\ job'.size = job.size
      /\ job'.previous = job.previous
  BY <1>1, <1>2, <1>5, RollingHas DEF Onward, DeployTyped, Jobs
<1>7. Batch' = Batch /\ RunningInstances' = RunningInstances \ {job.cursor}
  BY <1>5, <1>6 DEF Batch, RunningInstances, Onward
<1>8. RollingOK'
  <2>1. \A o \in 0 .. job.at - 1 : IsNew(o)'
    <3>1. \A o \in 0 .. job.at - 1 : o \in Names \ {job.cursor}
      <4>1. \A o \in 0 .. job.at - 1 : o \in 0 .. job.count - 1 /\ o # job.cursor
        BY <1>2, <1>3, <1>4, RollingHas
      <4> QED BY <1>2, <4>1, RollingHas, NamesDiffer
    <3> QED BY <1>3, <1>5, <1>6, <3>1, NewStays DEF OthersStay, Looks
  <2>2. job.at \in Batch
    BY <1>2, <1>3, <1>4, RollingHas
  <2> QED BY <1>1, <1>2, <1>3, <1>6, <1>7, <2>1, <2>2 DEF RollingOK, UpdatePcs, FirstPcs, UndoPcs, Onward
<1>9. ~mishap => RollingClean' /\ CapacityClean'
  <2>1. ~mishap => \A o \in Batch : o <= job.cursor => o \notin Running'
    <3>1. ~mishap => \A o \in Batch : o < job.cursor => ~isContainerRunning(o)
      BY <1>1, <1>2, RollingHas DEF RollingClean
    <3>2. \A o \in Batch : o <= job.cursor => o < job.cursor \/ o = job.cursor
      BY <1>3, <1>4
    <3> QED BY <1>5, <3>1, <3>2 DEF Running
  <2>2. ~mishap => RollingClean'
    <3>1. pc' = "rl_run" => \A o \in Batch : o <= job.cursor
      BY <1>1, <1>2, <1>3, <1>4, RollingHas
    <3>2. \A o \in Batch : o < job.cursor + 1 => o <= job.cursor
      BY <1>3, <1>4
    <3>3. \A o \in Batch : o \notin Running' => ~isContainerRunning(o)'
      BY <1>4, <1>5, BoxOf DEF Running
    <3> QED BY <1>2, <1>6, <1>7, <2>1, <3>1, <3>2, <3>3 DEF RollingClean, FirstPcs, isContainerRunning
  <2>3. RunningInstances' \cup Batch = RunningInstances \cup Batch /\ RunningInstances' \ Batch = RunningInstances \ Batch
    BY <1>3, <1>7
  <2>4. ~mishap => /\ job.size <= Cardinality(RunningInstances \cup Batch)
                   /\ job.batch >= job.size \/ loaded = RunningInstances \ Batch
    BY <1>1, <1>2, RollingHas DEF CapacityClean, UpdatePcs
  <2>5. ~mishap => CapacityClean'
    BY <1>2, <1>3, <1>5, <1>6, <1>7, <2>3, <2>4 DEF CapacityClean, UpdatePcs, Onward
  <2> QED BY <2>2, <2>5
<1>10. OnlyRolling => RollingServes' /\ (job.image \notin job.before => RollingReturns')
  <2>1. OnlyRolling => RollingServes'
    BY <1>2, <1>5, RollingHas DEF RollingServes, FirstPcs
  <2>2. OnlyRolling /\ job.image \notin job.before => RollingReturns'
    <3>1. OnlyRolling /\ job.image \notin job.before =>
            job.previous \in job.before /\ OldAmong({o \in Ordinals : o >= job.at})
      BY <1>1, <1>2, RollingHas DEF RollingReturns, UpdatePcs
    <3>2. \A o \in RunningInstances' : o \in RunningInstances /\ box'[o] = box[o]
      BY <1>7, NamesDiffer, <1>5 DEF OthersStay, RunningInstances
    <3> QED BY <1>2, <1>6, <3>1, <3>2 DEF RollingReturns, OldAmong, UpdatePcs, UndoPcs, Onward
  <2> QED BY <2>1, <2>2
<1>11. \A n \in Names \ {job.cursor} : Looks(n)
  BY <1>5 DEF Looks, OthersStay
<1> QED BY <1>2, <1>3, <1>4, <1>5, <1>6, <1>8, <1>9, <1>10, <1>11, RollingFrame DEF Looks

\* docker run fails here only after a mishap, and then the deployment ends.
LEMMA RollingRunFails ==
    ASSUME LocalInv, pc \in RollingPcs, pc' = "idle", verdict' = "failure", UNCHANGED <<job, mishap, host>>, mishap
    PROVE  LocalInv'
<1>1. HostTyped' /\ box' = box /\ loaded' = loaded
  BY RollingHas, NoEffect DEF host
<1>2. Onward
  BY <1>1, RollingHas, OnwardSame DEF Verdicts
<1>3. RollingOK'
  BY DEF RollingOK, UpdatePcs, FirstPcs, UndoPcs
<1>4. ~OnlyRolling /\ pc' \notin {"rl_start"} \cup FirstPcs /\ \A n \in Names : Looks(n)
  BY <1>1 DEF OnlyRolling, FirstPcs, Looks
<1> QED BY <1>1, <1>2, <1>3, <1>4, RollingFrame DEF Looks

LEMMA RunInstanceKeeps == ASSUME LocalInv, RunInstance PROVE LocalInv'
<1>1. pc = "rl_run" /\ UNCHANGED <<job, mishap>>
  BY DEF RunInstance, RunThen, Step, GoTo, Return
<1>2. pc \in RollingPcs
  BY <1>1 DEF RollingPcs, UpdatePcs
<1>3. /\ job.at \in Batch /\ job.base < job.count /\ job.size >= 1
      /\ \A o \in 0 .. job.at - 1 : IsNew(o)
  BY <1>1, <1>2, RollingHas DEF RollingOK, UpdatePcs, FirstPcs
<1>4. Batch \subseteq Ordinals /\ Batch \subseteq Names /\ Batch' = Batch
  BY <1>1, <1>2, RollingHas, BatchOf, NamesDiffer DEF Batch
<1>5. CASE /\ pc' = "rl_check" /\ verdict' = verdict
           /\ runContainer(job.at, job.image, job.previous, job.deployment)
  <2>1. /\ HostTyped' /\ Running' = Running \cup {job.at} /\ loaded' = loaded /\ OthersStay(job.at)
        /\ box'[job.at].state = "running" /\ box'[job.at].deployment = job.deployment
    BY <1>2, <1>3, <1>4, <1>5, RollingHas, RunEffect
  <2>2. Onward
    BY <1>1, <1>2, <1>5, <2>1, RollingHas, OnwardSame DEF DeployTyped
  <2>3. RunningInstances' = RunningInstances \cup {job.at}
    BY <1>3, <1>4, <2>1 DEF RunningInstances
  <2>4. RollingOK'
    <3>1. \A o \in 0 .. job.at - 1 : IsNew(o)'
      <4>1. \A o \in 0 .. job.at - 1 : o \in 0 .. job.count - 1 /\ o # job.at
        BY <1>2, <1>3, RollingHas, BatchOf
      <4>2. \A o \in 0 .. job.at - 1 : o \in Names \ {job.at}
        BY <1>2, <4>1, RollingHas, NamesDiffer
      <4> QED BY <1>3, <2>1, <2>2, <4>2, NewStays DEF OthersStay, Looks
    <3>2. IsNew(job.at)'
      BY <1>1, <2>1 DEF IsNew, isContainerRunning
    <3> QED BY <1>1, <1>3, <1>4, <1>5, <3>1, <3>2 DEF RollingOK, UpdatePcs, FirstPcs, UndoPcs
  <2>5. ~mishap => RollingClean'
    <3>1. ~mishap => \A o \in Batch : o > job.at => ~isContainerRunning(o)
      BY <1>1, <1>2, <1>3, RollingHas, BatchOf DEF RollingClean
    <3>2. \A o \in Batch : o > job.at => box'[o] = box[o]
      BY <1>2, <1>3, <1>4, <2>1, RollingHas, BatchOf DEF OthersStay
    <3> QED BY <1>1, <1>4, <1>5, <3>1, <3>2 DEF RollingClean, FirstPcs, isContainerRunning
  <2>6. ~mishap => CapacityClean'
    <3>1. RunningInstances' \cup Batch = RunningInstances \cup Batch /\ RunningInstances' \ Batch = RunningInstances \ Batch
      BY <1>3, <2>3
    <3>2. ~mishap => /\ job.size <= Cardinality(RunningInstances \cup Batch)
                     /\ job.batch >= job.size \/ loaded = RunningInstances \ Batch
      BY <1>1, <1>2, RollingHas DEF CapacityClean, UpdatePcs
    <3> QED BY <1>1, <1>4, <1>5, <2>1, <3>1, <3>2 DEF CapacityClean, UpdatePcs
  <2>7. OnlyRolling => RollingServes'
    BY <1>2, <1>3, <1>4, <1>5, <2>1, RollingHas DEF RollingServes, FirstPcs
  <2>8. OnlyRolling /\ job.image \notin job.before => RollingReturns'
    <3>1. OnlyRolling /\ job.image \notin job.before =>
            job.previous \in job.before /\ OldAmong({o \in Ordinals : o >= job.at})
      BY <1>1, <1>2, RollingHas DEF RollingReturns, UpdatePcs
    <3>2. \A o \in RunningInstances' : o > job.at => o \in RunningInstances /\ box'[o] = box[o] /\ o >= job.at
      <4> TAKE o \in RunningInstances'
      <4> HAVE o > job.at
      <4>1. o \in Ordinals /\ o \in Nat /\ o \in Names /\ job.at \in Nat
        BY <1>2, RollingHas, NamesDiffer DEF RunningInstances
      <4>2. o # job.at /\ o >= job.at
        BY <4>1
      <4> QED BY <2>1, <2>3, <4>1, <4>2 DEF OthersStay
    <3> QED BY <1>1, <1>5, <3>1, <3>2 DEF RollingReturns, OldAmong, UpdatePcs, UndoPcs
  <2>9. /\ \A n \in Names \ {job.at} : Looks(n)
        /\ pc' \in RollingPcs /\ pc' \notin FirstPcs \cup {"rl_start", "done", "idle"}
    BY <1>5, <2>1 DEF Looks, OthersStay, RollingPcs, UpdatePcs, FirstPcs
  <2> QED BY <1>2, <1>3, <1>4, <2>1, <2>2, <2>4, <2>5, <2>6, <2>7, <2>8, <2>9, RollingFrame DEF Looks
<1>6. CASE pc' = "idle" /\ verdict' = "failure" /\ box[job.at].state # "absent" /\ UNCHANGED host
  <2>1. mishap
    <3>1. ~mishap => ~isContainerRunning(job.at) /\ box[job.at].state # "exited"
      BY <1>1, <1>2, <1>3, <1>4, RollingHas, BatchOf DEF RollingClean, NoneExited
    <3>2. box[job.at] \in Boxes
      BY <1>2, <1>3, <1>4, RollingHas, BoxOf
    <3> QED BY <1>1, <1>6, <3>1, <3>2, RollingHas, <1>2 DEF Boxes, ContainerStates, isContainerRunning, DeployTyped
  <2> QED BY <1>1, <1>2, <1>6, <2>1, RollingRunFails
<1> QED BY <1>5, <1>6 DEF RunInstance, RunThen, Step, GoTo, Return

LEMMA InstanceHealthyKeeps == ASSUME LocalInv, InstanceHealthy PROVE LocalInv'
<1>1. /\ pc = "rl_check" /\ pc' = (IF job.at + 1 \in Batch THEN "rl_run" ELSE "rl_rejoin")
      /\ UNCHANGED <<verdict, mishap>> /\ job' = [job EXCEPT !.at = @ + 1] /\ checkHealthViaDocker(job.at, TRUE)
  BY DEF InstanceHealthy, GoTo
<1>2. /\ pc \in RollingPcs /\ pc' \in RollingPcs /\ pc' \notin FirstPcs \cup {"rl_start", "done", "idle"}
      /\ pc' \in {"rl_run", "rl_rejoin"}
  BY <1>1 DEF RollingPcs, FirstPcs, UpdatePcs, UndoPcs
<1>3. /\ job.at \in Batch /\ job.base < job.count /\ job.size >= 1
      /\ IsNew(job.at) /\ \A o \in 0 .. job.at - 1 : IsNew(o)
  BY <1>1, <1>2, RollingHas DEF RollingOK, UpdatePcs, FirstPcs
<1> DEFINE InBatch(o) == o \in Nat /\ job.base <= o /\ o < job.base + job.batch /\ o < job.count
<1>4. (\A o : o \in Batch <=> InBatch(o)) /\ Batch \subseteq Ordinals /\ Batch \subseteq Names
  BY <1>2, RollingHas, BatchOf, NamesDiffer
<1>5. HostTyped' /\ Running' = Running /\ loaded' = loaded /\ \A n \in Names : Looks(n)
  BY <1>1, <1>2, <1>3, <1>4, RollingHas, CheckEffect
<1>6. /\ Onward /\ job'.cursor = job.cursor /\ job'.at = job.at + 1 /\ job'.base = job.base /\ job'.size = job.size
      /\ job'.previous = job.previous
  BY <1>1, <1>2, <1>5, RollingHas DEF Onward, DeployTyped, Jobs
<1>7. Batch' = Batch /\ RunningInstances' = RunningInstances
  BY <1>5, <1>6 DEF Batch, RunningInstances, Onward
<1>8. RollingOK'
  <2>1. \A o \in 0 .. job'.at - 1 : IsNew(o)'
    <3>1. \A o \in 0 .. job'.at - 1 : IsNew(o) /\ o \in 0 .. job.count - 1
      <4>1. \A o \in 0 .. job'.at - 1 : o \in 0 .. job.at - 1 \/ o = job.at
        BY <1>2, <1>6, RollingHas
      <4>2. \A o \in 0 .. job'.at - 1 : o \in 0 .. job.count - 1
        BY <1>2, <1>3, <1>4, <1>6, RollingHas
      <4> QED BY <1>3, <4>1, <4>2
    <3>2. \A o \in 0 .. job'.at - 1 : o \in Names
      BY <1>2, <3>1, RollingHas, NamesDiffer
    <3> QED BY <1>5, <1>6, <3>1, <3>2, NewStays
  <2>2. pc' = "rl_run" => job'.at \in Batch
    BY <1>1, <1>6
  <2>3. pc' = "rl_rejoin" => job'.at <= job.base + job.batch /\ job'.at \in {job.base + job.batch, job.count}
    BY <1>1, <1>2, <1>3, <1>4, <1>6, RollingHas
  <2> QED BY <1>2, <1>3, <1>6, <1>7, <2>1, <2>2, <2>3 DEF RollingOK, UpdatePcs, FirstPcs, UndoPcs, Onward
<1>9. ~mishap => RollingClean' /\ CapacityClean'
  <2>1. ~mishap => RollingClean'
    <3>1. ~mishap => \A o \in Batch : o > job.at => ~isContainerRunning(o)
      BY <1>1, <1>2, RollingHas DEF RollingClean
    <3>2. \A o \in Batch : o >= job.at + 1 => o > job.at
      BY <1>3, <1>4
    <3>3. \A o \in Batch : isContainerRunning(o)' = isContainerRunning(o)
      BY <1>4, <1>5 DEF Looks, isContainerRunning
    <3> QED BY <1>2, <1>6, <1>7, <3>1, <3>2, <3>3 DEF RollingClean, FirstPcs
  <2>2. ~mishap => CapacityClean'
    BY <1>1, <1>2, <1>5, <1>6, <1>7, RollingHas DEF CapacityClean, UpdatePcs, Onward
  <2> QED BY <2>1, <2>2
<1>10. OnlyRolling => RollingServes' /\ (job.image \notin job.before => RollingReturns')
  <2>1. OnlyRolling => RollingServes'
    BY <1>2, <1>5, RollingHas DEF RollingServes, FirstPcs
  <2>2. OnlyRolling /\ job.image \notin job.before => RollingReturns'
    <3>1. OnlyRolling /\ job.image \notin job.before =>
            job.previous \in job.before /\ OldAmong({o \in Ordinals : o > job.at})
      BY <1>1, <1>2, RollingHas DEF RollingReturns, UpdatePcs
    <3>2. \A o \in Ordinals : o >= job.at + 1 => o > job.at
      BY <1>2, RollingHas, NamesDiffer
    <3>3. \A o \in RunningInstances : box'[o].image = box[o].image
      BY <1>5, NamesDiffer DEF Looks, RunningInstances
    <3> QED BY <1>2, <1>6, <1>7, <3>1, <3>2, <3>3 DEF RollingReturns, OldAmong, UpdatePcs, UndoPcs, Onward
  <2> QED BY <2>1, <2>2
<1> QED BY <1>2, <1>5, <1>6, <1>8, <1>9, <1>10, RollingFrame DEF Looks

LEMMA InstanceUnhealthyKeeps == ASSUME LocalInv, InstanceUnhealthy PROVE LocalInv'
<1>1. /\ pc = "rl_check" /\ pc' = (IF job.previous = None THEN "rl_refresh" ELSE "rl_undo")
      /\ UNCHANGED <<verdict, mishap>> /\ job' = [job EXCEPT !.cursor = 0] /\ checkHealthViaDocker(job.at, FALSE)
  BY DEF InstanceUnhealthy, GoTo
<1>2. /\ pc \in RollingPcs /\ pc' \in RollingPcs /\ pc' \notin FirstPcs \cup UpdatePcs \cup {"rl_start", "done", "idle"}
      /\ pc' \in {"rl_refresh", "rl_undo"}
  BY <1>1 DEF RollingPcs, FirstPcs, UpdatePcs, UndoPcs
<1>3. job.at \in Batch /\ job.at \in Names /\ job.at < job.count
  BY <1>1, <1>2, RollingHas, BatchOf, NamesDiffer DEF RollingOK, UpdatePcs
<1>4. HostTyped' /\ Running' = Running /\ loaded' = loaded /\ \A n \in Names : Looks(n)
  BY <1>1, <1>2, <1>3, RollingHas, CheckEffect
<1>5. /\ Onward /\ job'.cursor = 0 /\ job'.at = job.at /\ job'.previous = job.previous
  BY <1>1, <1>2, <1>4, RollingHas DEF Onward, DeployTyped, Jobs
<1>6. RunningInstances' = RunningInstances
  BY <1>4 DEF RunningInstances
<1>7. RollingOK'
  <2>1. job'.cursor <= job'.at /\ job'.at < job'.count
    BY <1>2, <1>3, <1>5, RollingHas DEF Onward
  <2> QED BY <1>1, <1>2, <1>5, <2>1 DEF RollingOK, UpdatePcs, FirstPcs, UndoPcs
<1>8. RollingClean' /\ CapacityClean'
  BY <1>2 DEF RollingClean, CapacityClean, FirstPcs, UpdatePcs
<1>9. OnlyRolling => RollingServes' /\ (job.image \notin job.before => RollingReturns')
  <2>1. OnlyRolling => RollingServes'
    BY <1>2, <1>4, RollingHas DEF RollingServes, FirstPcs
  <2>2. OnlyRolling /\ job.image \notin job.before => RollingReturns'
    <3>1. OnlyRolling /\ job.image \notin job.before =>
            job.previous \in job.before /\ OldAmong({o \in Ordinals : o > job.at})
      BY <1>1, <1>2, RollingHas DEF RollingReturns, UpdatePcs
    <3>2. job.previous \in job.before => pc' = "rl_undo"
      BY <1>1, <1>2, RollingHas, NamesDiffer
    <3>3. \A o \in Ordinals : ~(o < 0)
      BY NamesDiffer
    <3>4. \A o \in RunningInstances : box'[o].image = box[o].image
      BY <1>4, NamesDiffer DEF Looks, RunningInstances
    <3> QED BY <1>2, <1>5, <1>6, <3>1, <3>2, <3>3, <3>4 DEF RollingReturns, OldAmong, UpdatePcs, UndoPcs, Onward
  <2> QED BY <2>1, <2>2
<1> QED BY <1>2, <1>4, <1>5, <1>7, <1>8, <1>9, RollingFrame DEF Looks

LEMMA RemoveUpdatedKeeps == ASSUME LocalInv, RemoveUpdated PROVE LocalInv'
<1>1. /\ pc = "rl_undo" /\ pc' = "rl_redo" /\ UNCHANGED <<job, verdict, mishap>>
      /\ removeContainerIfExists(job.cursor)
  BY DEF RemoveUpdated, Step, GoTo
<1>2. pc \in RollingPcs /\ pc' \in RollingPcs /\ pc' \notin FirstPcs \cup UpdatePcs \cup {"rl_start", "done", "idle"}
  BY <1>1 DEF RollingPcs, FirstPcs, UpdatePcs, UndoPcs
<1>3. job.cursor <= job.at /\ job.at < job.count /\ job.previous # None
  BY <1>1, <1>2, RollingHas DEF RollingOK, UndoPcs
<1>4. job.cursor \in Ordinals /\ job.cursor \in Names
  <2>1. job.cursor \in 0 .. job.count - 1
    BY <1>2, <1>3, RollingHas
  <2> QED BY <1>2, <2>1, RollingHas, NamesDiffer
<1>5. /\ HostTyped' /\ Running' = Running \ {job.cursor} /\ loaded' = loaded \ {job.cursor}
      /\ OthersStay(job.cursor) /\ box'[job.cursor].state = "absent"
  BY <1>1, <1>2, <1>4, RollingHas, RemoveEffect
<1>6. Onward
  BY <1>1, <1>2, <1>5, RollingHas, OnwardSame DEF DeployTyped
<1>7. RollingOK'
  BY <1>1, <1>3, <1>5 DEF RollingOK, UpdatePcs, FirstPcs, UndoPcs
<1>8. RollingClean' /\ CapacityClean'
  BY <1>1 DEF RollingClean, CapacityClean, FirstPcs, UpdatePcs
<1>9. OnlyRolling => RollingServes' /\ (job.image \notin job.before => RollingReturns')
  <2>1. OnlyRolling => RollingServes'
    BY <1>1, <1>2, <1>5, RollingHas DEF RollingServes, FirstPcs
  <2>2. OnlyRolling /\ job.image \notin job.before => RollingReturns'
    <3>1. OnlyRolling /\ job.image \notin job.before =>
            job.previous \in job.before /\ OldAmong({o \in Ordinals : o < job.cursor \/ o > job.at})
      BY <1>1, <1>2, RollingHas DEF RollingReturns, UndoPcs
    <3>2. \A o \in RunningInstances' : /\ o \in RunningInstances /\ box'[o] = box[o]
                                       /\ o <= job.cursor => o < job.cursor
      <4> TAKE o \in RunningInstances'
      <4>1. o \in Nat /\ o \in Names /\ job.cursor \in Nat /\ o # job.cursor /\ o \in RunningInstances
        BY <1>2, <1>5, RollingHas, NamesDiffer DEF RunningInstances
      <4> QED BY <1>5, <4>1 DEF OthersStay
    <3> QED BY <1>1, <3>1, <3>2 DEF RollingReturns, OldAmong, UpdatePcs, UndoPcs
  <2> QED BY <2>1, <2>2
<1>10. \A n \in Names \ {job.cursor} : Looks(n)
  BY <1>5 DEF Looks, OthersStay
<1> QED BY <1>2, <1>4, <1>5, <1>6, <1>7, <1>8, <1>9, <1>10, RollingFrame DEF Looks

LEMMA RestoreInstanceKeeps == ASSUME LocalInv, RestoreInstance PROVE LocalInv'
<1>1. pc = "rl_redo" /\ UNCHANGED <<job, mishap>>
  BY DEF RestoreInstance, RunThen, Step, GoTo, Return
<1>2. pc \in RollingPcs
  BY <1>1 DEF RollingPcs, UndoPcs
<1>3. /\ job.cursor <= job.at /\ job.at < job.count /\ job.previous # None
      /\ box[job.cursor].state = "absent"
  BY <1>1, <1>2, RollingHas DEF RollingOK, UndoPcs
<1>4. job.cursor \in Ordinals /\ job.cursor \in Names
  <2>1. job.cursor \in 0 .. job.count - 1
    BY <1>2, <1>3, RollingHas
  <2> QED BY <1>2, <2>1, RollingHas, NamesDiffer
<1>5. /\ pc' = (IF job.cursor < job.at THEN "rl_next" ELSE "rl_refresh") /\ verdict' = verdict
      /\ runContainer(job.cursor, job.previous, job.carried, job.deployment)
  BY <1>3 DEF RestoreInstance, RunThen, Step, GoTo
<1>6. pc' \in {"rl_next", "rl_refresh"} /\ (pc' = "rl_next" <=> job.cursor < job.at)
  BY <1>5
<1>7. pc' \in RollingPcs /\ pc' \notin FirstPcs \cup UpdatePcs \cup {"rl_start", "done", "idle"}
  BY <1>6 DEF RollingPcs, FirstPcs, UpdatePcs, UndoPcs
<1>8. /\ HostTyped' /\ Running' = Running \cup {job.cursor} /\ loaded' = loaded
      /\ OthersStay(job.cursor) /\ box'[job.cursor].state = "running" /\ box'[job.cursor].image = job.previous
  BY <1>2, <1>3, <1>4, <1>5, RollingHas, RunEffect
<1>9. Onward
  BY <1>1, <1>2, <1>5, <1>8, RollingHas, OnwardSame DEF DeployTyped
<1>10. RollingOK'
  <2>1. pc' = "rl_refresh" => job.cursor = job.at
    BY <1>2, <1>3, <1>6, RollingHas
  <2> QED BY <1>1, <1>3, <1>6, <2>1 DEF RollingOK, UpdatePcs, FirstPcs, UndoPcs
<1>11. RollingClean' /\ CapacityClean'
  BY <1>6 DEF RollingClean, CapacityClean, FirstPcs, UpdatePcs
<1>12. OnlyRolling => RollingServes' /\ (job.image \notin job.before => RollingReturns')
  <2>1. OnlyRolling => RollingServes'
    BY <1>2, <1>4, <1>6, <1>8, RollingHas DEF RollingServes, FirstPcs
  <2>2. OnlyRolling /\ job.image \notin job.before => RollingReturns'
    <3>1. OnlyRolling /\ job.image \notin job.before =>
            job.previous \in job.before /\ OldAmong({o \in Ordinals : o <= job.cursor \/ o > job.at})
      BY <1>1, <1>2, RollingHas DEF RollingReturns, UndoPcs
    <3>2. \A o \in RunningInstances' : \/ box'[o].image = job.previous
                                       \/ o \in RunningInstances /\ box'[o] = box[o]
      BY <1>8, NamesDiffer DEF RunningInstances, OthersStay
    <3>3. pc' = "rl_refresh" => \A o \in Ordinals : o <= job.cursor \/ o > job.at
      BY <1>2, <1>3, <1>6, RollingHas, NamesDiffer
    <3> QED BY <1>1, <1>6, <3>1, <3>2, <3>3 DEF RollingReturns, OldAmong, UpdatePcs, UndoPcs, RunningInstances
  <2> QED BY <2>1, <2>2
<1>13. \A n \in Names \ {job.cursor} : Looks(n)
  BY <1>8 DEF Looks, OthersStay
<1> QED BY <1>2, <1>4, <1>7, <1>8, <1>9, <1>10, <1>11, <1>12, <1>13, RollingFrame DEF Looks

LEMMA NextToRestoreKeeps == ASSUME LocalInv, NextToRestore PROVE LocalInv'
<1>1. /\ pc = "rl_next" /\ pc' = "rl_undo" /\ UNCHANGED <<verdict, mishap, host>>
      /\ job' = [job EXCEPT !.cursor = @ + 1]
  BY DEF NextToRestore, GoTo
<1>2. pc \in RollingPcs /\ pc' \in RollingPcs /\ pc' \notin FirstPcs \cup UpdatePcs \cup {"rl_start", "done", "idle"}
  BY <1>1 DEF RollingPcs, FirstPcs, UpdatePcs, UndoPcs
<1>3. job.cursor < job.at /\ job.at < job.count /\ job.previous # None
  BY <1>1, <1>2, RollingHas DEF RollingOK, UndoPcs
<1>4. HostTyped' /\ box' = box /\ Running' = Running /\ loaded' = loaded
  BY <1>1, <1>2, RollingHas, NoEffect DEF host
<1>5. /\ Onward /\ job'.cursor = job.cursor + 1 /\ job'.at = job.at /\ job'.previous = job.previous
  BY <1>1, <1>2, <1>4, RollingHas DEF Onward, DeployTyped, Jobs
<1>6. RunningInstances' = RunningInstances
  BY <1>4 DEF RunningInstances
<1>7. RollingOK'
  <2>1. job'.cursor <= job'.at /\ job'.at < job'.count
    BY <1>2, <1>3, <1>5, RollingHas DEF Onward
  <2> QED BY <1>1, <1>3, <1>5, <2>1 DEF RollingOK, UpdatePcs, FirstPcs, UndoPcs
<1>8. RollingClean' /\ CapacityClean'
  BY <1>1 DEF RollingClean, CapacityClean, FirstPcs, UpdatePcs
<1>9. OnlyRolling => RollingServes' /\ (job.image \notin job.before => RollingReturns')
  <2>1. OnlyRolling => RollingServes'
    BY <1>1, <1>2, <1>4, RollingHas DEF RollingServes, FirstPcs
  <2>2. OnlyRolling /\ job.image \notin job.before => RollingReturns'
    <3>1. OnlyRolling /\ job.image \notin job.before =>
            job.previous \in job.before /\ OldAmong({o \in Ordinals : o <= job.cursor \/ o > job.at})
      BY <1>1, <1>2, RollingHas DEF RollingReturns, UndoPcs
    <3>2. \A o \in Ordinals : o < job.cursor + 1 => o <= job.cursor
      BY <1>2, RollingHas, NamesDiffer
    <3> QED BY <1>1, <1>4, <1>5, <1>6, <3>1, <3>2 DEF RollingReturns, OldAmong, UpdatePcs, UndoPcs, Onward
  <2> QED BY <2>1, <2>2
<1>10. \A n \in Names : Looks(n)
  BY <1>4 DEF Looks
<1> QED BY <1>2, <1>4, <1>5, <1>7, <1>8, <1>9, <1>10, RollingFrame DEF Looks

LEMMA RefreshAfterRollbackKeeps == ASSUME LocalInv, RefreshAfterRollback PROVE LocalInv'
<1>1. /\ pc = "rl_refresh" /\ pc' = "idle" /\ verdict' = "failure" /\ UNCHANGED <<job, mishap>>
      /\ updateNginxForRunningInstances({})
  BY DEF RefreshAfterRollback, Return
<1>2. pc \in RollingPcs
  BY <1>1 DEF RollingPcs, UndoPcs
<1>3. /\ HostTyped' /\ box' = box /\ Running' = Running /\ loaded' \subseteq loaded \cup Ordinals
      /\ loaded' = RunningInstances \/ (RunningInstances = {} /\ loaded' = loaded)
  BY <1>1, <1>2, RollingHas, UpdateEffect DEF RunningInstances
<1>4. Onward
  BY <1>1, <1>2, <1>3, RollingHas, OnwardSame DEF Verdicts
<1>5. RollingOK'
  BY <1>1 DEF RollingOK, UpdatePcs, FirstPcs, UndoPcs
<1>6. RollingClean' /\ CapacityClean'
  BY <1>1 DEF RollingClean, CapacityClean, FirstPcs, UpdatePcs
<1>7. OnlyRolling => Running \subseteq Ordinals /\ Running = RunningInstances /\ loaded' = Running
  BY <1>2, <1>3, RollingHas, BoxOf DEF RollingServes, RunningInstances
<1>8. OnlyRolling => RollingServes' /\ (job.image \notin job.before => RollingReturns')
  BY <1>1, <1>3, <1>7 DEF RollingServes, RollingReturns, FirstPcs, UpdatePcs, UndoPcs
<1>9. OnlyRolling /\ job.image \notin job.before => ServedImages' \subseteq job.before
  <2>1. OnlyRolling /\ job.image \notin job.before => OldAmong(Ordinals)
    BY <1>1, <1>2, RollingHas DEF RollingReturns
  <2> QED BY <1>3, <1>7, <2>1 DEF OldAmong, ServedImages, RunningInstances
<1>10. \A n \in Names : Looks(n)
  BY <1>3 DEF Looks
<1>11. pc' \notin {"rl_start"} \cup FirstPcs
  BY <1>1 DEF FirstPcs
<1> QED BY <1>1, <1>2, <1>3, <1>4, <1>5, <1>6, <1>8, <1>9, <1>10, <1>11, RollingFrame DEF Looks

LEMMA FiniteBelow == ASSUME NEW S, S \subseteq Ordinals, NEW c \in Nat, \A o \in S : o < c PROVE IsFiniteSet(S)
<1>1. 0 \in Int /\ c - 1 \in Int /\ Ordinals \subseteq Nat
  BY NamesDiffer
<1>2. S \subseteq 0 .. c - 1
  BY <1>1
<1>3. IsFiniteSet(0 .. c - 1)
  BY <1>1, FS_Interval
<1> QED BY <1>2, <1>3, FS_Subset

LEMMA RejoinBatchKeeps == ASSUME LocalInv, RejoinBatch PROVE LocalInv'
<1>1. /\ pc = "rl_rejoin" /\ pc' = (IF job.base + job.batch < job.count THEN "rl_exclude" ELSE "done")
      /\ UNCHANGED <<verdict, mishap>> /\ updateNginxForRunningInstances({})
      /\ job' = [job EXCEPT !.base = @ + job.batch, !.cursor = job.base + job.batch]
  BY DEF RejoinBatch, GoTo
<1>2. /\ pc \in RollingPcs /\ pc' \in RollingPcs \cup {"done"} /\ pc' \notin FirstPcs \cup {"rl_start", "idle"}
      /\ pc' \in {"rl_exclude", "done"}
  BY <1>1 DEF RollingPcs, FirstPcs, UpdatePcs, UndoPcs
<1>3. /\ job.at <= job.base + job.batch /\ job.at \in {job.base + job.batch, job.count}
      /\ job.base < job.count /\ job.size >= 1 /\ \A o \in 0 .. job.at - 1 : IsNew(o)
  BY <1>1, <1>2, RollingHas DEF RollingOK, UpdatePcs, FirstPcs
<1>4. job.at >= 1 /\ 0 \in Ordinals /\ 0 \in RunningInstances
  <2>1. job.at >= 1 /\ 0 \in 0 .. job.at - 1 /\ 0 \in 0 .. job.count - 1
    BY <1>2, <1>3, RollingHas
  <2> QED BY <1>2, <1>3, <2>1, RollingHas, NamesDiffer DEF IsNew, RunningInstances, Running
<1>5. HostTyped' /\ box' = box /\ Running' = Running /\ loaded' = RunningInstances
  BY <1>1, <1>2, <1>4, RollingHas, UpdateEffect
<1>6. /\ Onward /\ job'.cursor = job.base + job.batch /\ job'.base = job.base + job.batch
      /\ job'.at = job.at /\ job'.size = job.size /\ job'.previous = job.previous
  <2> DEFINE next == job.base + job.batch
  <2>1. next \in Nat
    BY <1>2, RollingHas
  <2>2. job' = [job EXCEPT !.base = next, !.cursor = next]
    BY <1>1, <1>2, RollingHas DEF DeployTyped, Jobs
  <2> HIDE DEF next
  <2>3. job \in Jobs /\ verdict \in Verdicts
    BY <1>2, RollingHas DEF DeployTyped
  <2>4. /\ job' \in Jobs /\ job'.strategy = job.strategy /\ job'.image = job.image
        /\ job'.deployment = job.deployment /\ job'.before = job.before /\ job'.count = job.count
        /\ job'.batch = job.batch /\ job'.at = job.at /\ job'.size = job.size /\ job'.previous = job.previous
        /\ job'.cursor = next /\ job'.base = next
    BY <2>1, <2>2, <2>3 DEF Jobs
  <2>5. Onward
    BY <1>1, <1>5, <2>3, <2>4 DEF Onward
  <2> QED BY <2>4, <2>5 DEF next
<1>7. RunningInstances' = RunningInstances
  BY <1>5 DEF RunningInstances
<1>8. \A o \in 0 .. job.at - 1 : IsNew(o)'
  BY <1>3, <1>5, <1>6 DEF IsNew, isContainerRunning, Onward
<1>9. RollingOK'
  <2>1. pc' = "rl_exclude" => job.base + job.batch < job.count /\ job.at = job.base + job.batch
    BY <1>1, <1>2, <1>3, RollingHas
  <2> QED BY <1>2, <1>3, <1>6, <1>8, <2>1 DEF RollingOK, UpdatePcs, FirstPcs, UndoPcs, Onward
<1>10. ~mishap => RollingClean' /\ CapacityClean'
  <2>1. RollingClean'
    BY <1>2 DEF RollingClean, FirstPcs
  <2>2. ~mishap => job.size <= Cardinality(RunningInstances)
    <3>1. ~mishap => job.size <= Cardinality(RunningInstances \cup Batch)
      BY <1>1, <1>2, RollingHas DEF CapacityClean, UpdatePcs
    <3>2. Batch \subseteq RunningInstances
      <4>1. \A o \in Batch : o \in 0 .. job.at - 1 /\ o \in Ordinals /\ o \in Names
        BY <1>2, <1>3, RollingHas, BatchOf, NamesDiffer
      <4> QED BY <1>3, <4>1 DEF IsNew, RunningInstances, Running
    <3>3. RunningInstances \cup Batch = RunningInstances
      BY <3>2
    <3> QED BY <3>1, <3>3
  <2>3. pc' = "rl_exclude" => Batch' \subseteq Ordinals /\ IsFiniteSet(RunningInstances' \cup Batch')
    <3>1. IsFiniteSet(Batch') /\ Batch' \subseteq Ordinals
      <4>1. Batch' \subseteq Ordinals /\ \A o \in Batch' : o < job'.count
        BY DEF Batch
      <4>2. job'.count \in Nat
        BY <1>2, <1>6, RollingHas DEF Onward
      <4> QED BY <4>1, <4>2, FiniteBelow
    <3>2. IsFiniteSet(RunningInstances')
      BY <1>2, <1>7, RollingHas DEF HostTyped
    <3> QED BY <3>1, <3>2, FS_Union
  <2>4. ~mishap /\ pc' = "rl_exclude" => job.size <= Cardinality(RunningInstances' \cup Batch')
    <3>1. pc' = "rl_exclude" => Cardinality(RunningInstances') <= Cardinality(RunningInstances' \cup Batch')
      BY <2>3, FS_Subset
    <3>2. IsFiniteSet(RunningInstances')
      BY <1>2, <1>7, RollingHas DEF HostTyped
    <3>3. Cardinality(RunningInstances') \in Nat /\ (pc' = "rl_exclude" => Cardinality(RunningInstances' \cup Batch') \in Nat)
      BY <2>3, <3>2, FS_CardinalityType
    <3> QED BY <1>2, <1>7, <2>2, <3>1, <3>3, RollingHas
  <2>5. ~mishap => CapacityClean'
    BY <1>2, <1>6, <1>7, <2>2, <2>4 DEF CapacityClean, UpdatePcs
  <2> QED BY <2>1, <2>5
<1>11. OnlyRolling => RollingServes' /\ (job.image \notin job.before => RollingReturns')
  <2>1. OnlyRolling => RollingServes'
    BY <1>2, <1>5, RollingHas DEF RollingServes, FirstPcs, RunningInstances
  <2>2. OnlyRolling /\ job.image \notin job.before => RollingReturns'
    <3>1. OnlyRolling /\ job.image \notin job.before =>
            job.previous \in job.before /\ OldAmong({o \in Ordinals : o >= job.at})
      BY <1>1, <1>2, RollingHas DEF RollingReturns, UpdatePcs
    <3> QED BY <1>2, <1>5, <1>6, <1>7, <3>1 DEF RollingReturns, OldAmong, UpdatePcs, UndoPcs, Onward
  <2> QED BY <2>1, <2>2
<1>12. pc' = "done" => ServesNew'
  <2>1. pc' = "done" => \A o \in RunningInstances : o \in 0 .. job.at - 1 \/ o >= job.count
    <3>1. pc' = "done" => job.at >= job.count
      BY <1>1, <1>2, <1>3, RollingHas
    <3>2. ASSUME NEW o \in RunningInstances, pc' = "done" PROVE o \in 0 .. job.at - 1 \/ o >= job.count
      <4>1. o \in Nat /\ job.at \in Nat /\ job.count \in Nat /\ job.at >= job.count
        BY <1>2, <3>1, <3>2, RollingHas, NamesDiffer DEF RunningInstances
      <4> QED BY <4>1
    <3> QED BY <3>2
  <2> QED BY <1>5, <1>6, <1>8, <2>1 DEF ServesNew, IsNew, RunningInstances, Onward
<1>13. (\A n \in Names : Looks(n)) /\ loaded' \subseteq loaded \cup Ordinals
  BY <1>5 DEF Looks, RunningInstances
<1> QED BY <1>2, <1>5, <1>6, <1>9, <1>10, <1>11, <1>12, <1>13, RollingFrame DEF Looks

\* The instance that an update looks at first.
LEMMA LowestInstance ==
    ASSUME RunningInstances # {}
    PROVE  \E o \in RunningInstances : Outgoing = box[o]
<1>1. RunningInstances \subseteq Nat
  BY NamesDiffer DEF RunningInstances
<1>2. PICK n \in RunningInstances : \A m \in RunningInstances : ~(<<m, n>> \in OpToRel(<, Nat))
  BY <1>1, WFMin, NatLessThanWellFounded
<1>3. ASSUME NEW m \in RunningInstances PROVE n <= m
  <2>1. m \in Nat /\ n \in Nat
    BY <1>1
  <2>2. m < n => <<m, n>> \in OpToRel(<, Nat)
    BY <2>1 DEF OpToRel
  <2>3. ~(m < n)
    BY <1>2, <2>2, Zenon
  <2> QED BY <2>1, <2>3
<1> QED BY <1>3 DEF Outgoing

LEMMA DiscoverInstancesKeeps == ASSUME LocalInv, DiscoverInstances PROVE LocalInv'
<1>1. pc = "rl_start" /\ UNCHANGED <<verdict, mishap, box, conf, loaded, broken>>
  BY DEF DiscoverInstances, Step, GoTo, host
<1>2. pc \in RollingPcs
  BY <1>1 DEF RollingPcs
<1>3. job.at = 0 /\ job.base = 0 /\ job.cursor = 0
  BY <1>1, <1>2, RollingHas DEF RollingOK
<1>4. HostTyped' /\ box' = box /\ Running' = Running /\ loaded' = loaded /\ RunningInstances' = RunningInstances
  <2>1. proxy' = proxy \/ proxy' = TRUE
    BY DEF DiscoverInstances, host
  <2> QED BY <1>1, <1>2, <2>1, RollingHas, NoEffect DEF RunningInstances
<1>5. (\A n \in Names : Looks(n)) /\ ServedImages' = ServedImages
  BY <1>4 DEF Looks, ServedImages
<1>6. CASE RunningInstances = {} /\ pc' = "rl_first" /\ job' = job
  <2>1. Onward
    BY <1>1, <1>2, <1>4, <1>6, RollingHas, OnwardSame DEF DeployTyped
  <2>2. pc' \in RollingPcs /\ pc' \in FirstPcs
    BY <1>6 DEF RollingPcs, FirstPcs
  <2>3. RollingOK'
    BY <1>2, <1>3, <1>6, RollingHas DEF RollingOK, UpdatePcs, FirstPcs, UndoPcs
  <2>4. RollingClean' /\ CapacityClean'
    <3>1. loaded \cap Ordinals = {}
      BY <1>2, <1>6, RollingHas, BoxOf DEF RunningInstances
    <3> QED BY <1>4, <1>6, <3>1 DEF RollingClean, CapacityClean, FirstPcs, UpdatePcs
  <2>5. OnlyRolling => RollingServes' /\ (job.image \notin job.before => RollingReturns')
    BY <1>1, <1>2, <1>4, <1>6, RollingHas DEF RollingServes, RollingReturns, FirstPcs, UpdatePcs, UndoPcs, RunningInstances
  <2> QED BY <1>1, <1>2, <1>4, <1>5, <1>6, <2>1, <2>2, <2>3, <2>4, <2>5, RollingHas, RollingFrame DEF Looks
<1>7. CASE /\ RunningInstances # {} /\ pc' = "rl_exclude"
           /\ job' = [job EXCEPT !.previous = resolvePreviousImage(Outgoing, job.image),
                                 !.carried = Outgoing.previous, !.size = Cardinality(RunningInstances)]
  <2>1. PICK lowest \in RunningInstances : Outgoing = box[lowest]
    BY <1>7, LowestInstance
  <2>2. Outgoing \in Boxes /\ Outgoing.image \in Images
    BY <1>2, <2>1, RollingHas, BoxOf DEF RunningInstances
  <2> DEFINE previous == resolvePreviousImage(Outgoing, job.image)
  <2>3. previous \in Images \cup {None} /\ Outgoing.previous \in Images \cup {None}
    BY <2>2 DEF Boxes, resolvePreviousImage
  <2>4. Outgoing.image \in job.before /\ job.image \notin job.before => previous \in job.before
    BY DEF resolvePreviousImage
  <2>5. IsFiniteSet(RunningInstances) /\ Cardinality(RunningInstances) \in Nat /\ Cardinality(RunningInstances) >= 1
    <3>1. IsFiniteSet(RunningInstances)
      BY <1>2, RollingHas DEF HostTyped
    <3>2. Cardinality(RunningInstances) \in Nat /\ Cardinality(RunningInstances) # 0
      BY <1>7, <3>1, FS_CardinalityType, FS_EmptySet
    <3> QED BY <3>1, <3>2
  <2> HIDE DEF previous
  <2> DEFINE size == Cardinality(RunningInstances)
             carried == Outgoing.previous
  <2>6. size \in Nat /\ size >= 1 /\ carried \in Images \cup {None}
    BY <2>3, <2>5
  <2>7. job' = [job EXCEPT !.previous = previous, !.carried = carried, !.size = size]
    BY <1>7 DEF previous
  <2> HIDE DEF size, carried
  <2>8. /\ Onward /\ job'.cursor = 0 /\ job'.base = 0 /\ job'.at = 0 /\ job'.size = size /\ job'.previous = previous
    BY <1>1, <1>2, <1>3, <1>4, <2>3, <2>6, <2>7, RollingHas DEF Onward, DeployTyped, Jobs
  <2>9. pc' \in RollingPcs /\ pc' \notin FirstPcs \cup {"rl_start", "done", "idle"}
    BY <1>7 DEF RollingPcs, FirstPcs, UpdatePcs
  <2>10. RollingOK'
    <3>1. job'.count >= 1 /\ job'.count \in Nat
      BY <1>2, <2>8, RollingHas DEF Onward
    <3> QED BY <1>7, <2>6, <2>8, <3>1 DEF RollingOK, UpdatePcs, FirstPcs, UndoPcs
  <2>11. RollingClean' /\ CapacityClean'
    <3>1. size <= Cardinality(RunningInstances' \cup Batch')
      <4>1. IsFiniteSet(Batch')
        <5>1. Batch' \subseteq Ordinals /\ \A o \in Batch' : o < job'.count
          BY DEF Batch
        <5>2. job'.count \in Nat
          BY <1>2, <2>8, RollingHas DEF Onward
        <5> QED BY <5>1, <5>2, FiniteBelow
      <4>2. IsFiniteSet(RunningInstances \cup Batch')
        BY <2>5, <4>1, FS_Union
      <4>3. /\ Cardinality(RunningInstances) <= Cardinality(RunningInstances \cup Batch')
        BY <4>2, FS_Subset
      <4> QED BY <1>4, <4>3 DEF size
    <3>2. size <= Cardinality(RunningInstances')
      BY <1>4, <2>6 DEF size
    <3>3. RollingClean'
      BY <1>7 DEF RollingClean, FirstPcs
    <3>4. CapacityClean'
      BY <1>7, <2>8, <3>1, <3>2 DEF CapacityClean, UpdatePcs
    <3> QED BY <3>3, <3>4
  <2>12. OnlyRolling => RollingServes'
    BY <1>2, <1>4, <1>7, RollingHas DEF RollingServes, FirstPcs
  <2>13. OnlyRolling => \A n \in RunningInstances : box[n].image \in job.before
    BY <1>1, <1>2, RollingHas DEF RollingServes, ServedImages, RunningInstances
  <2>14. OnlyRolling /\ job.image \notin job.before => RollingReturns'
    BY <1>4, <1>7, <2>1, <2>4, <2>8, <2>13 DEF RollingReturns, OldAmong, UpdatePcs, UndoPcs, Onward
  <2> QED BY <1>1, <1>2, <1>4, <1>5, <2>8, <2>9, <2>10, <2>11, <2>12, <2>14, RollingFrame DEF Looks
<1> QED BY <1>6, <1>7 DEF DiscoverInstances, Step, GoTo

\* The first deployment: what each of its steps finds.
LEMMA FirstHas ==
    ASSUME LocalInv, pc \in FirstPcs
    PROVE  /\ pc \in RollingPcs /\ pc # "idle"
           /\ pc # "rl_first_route" =>
                job.cursor <= job.at /\ job.at < job.count /\ job.at \in Ordinals /\ job.at \in Names
           /\ pc # "rl_first_clean" => (\A o \in 0 .. job.at - 1 : IsNew(o)) /\ job.cursor = 0
           /\ ~mishap => loaded \cap Ordinals = {}
           /\ OnlyRolling => Running \subseteq Ordinals /\ Running = RunningInstances /\ loaded = {}
<1>1. pc \in RollingPcs /\ pc # "idle"
  BY DEF RollingPcs, FirstPcs
<1>2. pc # "rl_first_route" => job.cursor <= job.at /\ job.at < job.count
  BY <1>1, RollingHas DEF RollingOK
<1>3. pc # "rl_first_route" => job.at \in Ordinals /\ job.at \in Names
  <2>1. pc # "rl_first_route" => job.at \in 0 .. job.count - 1
    BY <1>1, <1>2, RollingHas
  <2> QED BY <1>1, <2>1, RollingHas, NamesDiffer
<1>4. pc # "rl_first_clean" => (\A o \in 0 .. job.at - 1 : IsNew(o)) /\ job.cursor = 0
  BY <1>1, RollingHas DEF RollingOK, FirstPcs
<1>5. ~mishap => loaded \cap Ordinals = {}
  BY <1>1, RollingHas DEF RollingClean
<1>6. OnlyRolling => Running \subseteq Ordinals /\ Running = RunningInstances /\ loaded = {}
  BY <1>1, RollingHas DEF RollingServes, RunningInstances
<1> QED BY <1>1, <1>2, <1>3, <1>4, <1>5, <1>6

\* The instances before the one that a step works on are of this deployment.
LEMMA EarlierStay ==
    ASSUME LocalInv, pc \in FirstPcs \ {"rl_first_clean", "rl_first_route"}, Onward,
           OthersStay(job.at) \/ (\A n \in Names : Looks(n))
    PROVE  \A o \in 0 .. job.at - 1 : IsNew(o)'
<1>1. pc \in RollingPcs /\ job.at < job.count /\ \A o \in 0 .. job.at - 1 : IsNew(o)
  BY FirstHas
<1>2. \A o \in 0 .. job.at - 1 : o \in 0 .. job.count - 1 /\ o # job.at
  BY <1>1, RollingHas
<1>3. \A o \in 0 .. job.at - 1 : o \in Names \ {job.at}
  BY <1>1, <1>2, RollingHas, NamesDiffer
<1> QED BY <1>1, <1>3, NewStays DEF OthersStay, Looks

\* The frame of the steps that go on with a first deployment.
LEMMA FirstFrame ==
    ASSUME LocalInv, Onward, pc \in FirstPcs, pc' \in FirstPcs,
           \A n \in Names \ Ordinals : Looks(n), loaded' \subseteq loaded, Fades,
           \A n \in Names : box'[n].state \in {box[n].state, "absent", "running"},
           RollingOK', OnlyRolling => RollingServes'
    PROVE  LocalInv'
<1>1. pc' \in RollingPcs /\ pc' \notin {"idle", "done"} /\ pc' \notin UpdatePcs \cup UndoPcs
      /\ pc' \notin {"rl_drop", "rl_run", "rl_check", "rl_exclude"}
  BY DEF RollingPcs, FirstPcs, UpdatePcs, UndoPcs
<1>2. ~mishap => RollingClean' /\ CapacityClean'
  <2>1. ~mishap => loaded' \cap Ordinals = {}
    BY FirstHas
  <2> QED BY <1>1, <2>1 DEF RollingClean, CapacityClean, UpdatePcs
<1>3. RollingReturns'
  BY <1>1 DEF RollingReturns, UpdatePcs, UndoPcs
<1>4. ServedImages' \subseteq job.before
  BY FirstHas, RollingHas, FadesServed
<1>5. pc \in RollingPcs
  BY FirstHas
<1> QED BY <1>1, <1>2, <1>3, <1>4, <1>5, RollingFrame

LEMMA ClearFirstInstanceKeeps == ASSUME LocalInv, ClearFirstInstance PROVE LocalInv'
<1>1. pc = "rl_first" /\ pc' = "rl_first_run" /\ UNCHANGED <<job, verdict, mishap>> /\ removeContainerIfExists(job.at)
  BY DEF ClearFirstInstance, Step, GoTo
<1>2. pc \in FirstPcs /\ pc' \in FirstPcs /\ pc \in RollingPcs
  BY <1>1 DEF FirstPcs, RollingPcs
<1>3. job.cursor <= job.at /\ job.at < job.count /\ job.at \in Ordinals /\ job.at \in Names /\ job.cursor = 0
  BY <1>1, <1>2, FirstHas
<1>4. /\ HostTyped' /\ Running' = Running \ {job.at} /\ loaded' = loaded \ {job.at}
      /\ OthersStay(job.at) /\ box'[job.at].state = "absent"
  BY <1>1, <1>2, <1>3, RollingHas, RemoveEffect
<1>5. Onward
  BY <1>1, <1>2, <1>4, RollingHas, OnwardSame DEF DeployTyped
<1>6. RollingOK'
  <2>1. \A o \in 0 .. job.at - 1 : IsNew(o)'
    BY <1>1, <1>2, <1>4, <1>5, EarlierStay
  <2> QED BY <1>1, <1>3, <1>4, <2>1 DEF RollingOK, UpdatePcs, FirstPcs, UndoPcs
<1>7. OnlyRolling => RollingServes'
  <2>1. OnlyRolling => \A o \in RunningInstances : o < job.at
    BY <1>1, <1>2, RollingHas DEF RollingServes
  <2> QED BY <1>1, <1>2, <1>4, <2>1, FirstHas DEF RollingServes, RunningInstances
<1>8. /\ Fades /\ (\A n \in Names \ {job.at} : Looks(n))
      /\ \A n \in Names : box'[n].state \in {box[n].state, "absent", "running"}
  <2>1. loaded \subseteq Names
    BY <1>2, RollingHas, BoxOf
  <2> QED BY <1>4, <2>1 DEF Fades, Looks, OthersStay
<1> QED BY <1>2, <1>3, <1>4, <1>5, <1>6, <1>7, <1>8, FirstFrame

LEMMA RunFirstInstanceKeeps == ASSUME LocalInv, RunFirstInstance PROVE LocalInv'
<1>1. pc = "rl_first_run" /\ UNCHANGED <<job, mishap>>
  BY DEF RunFirstInstance, RunThen, Step, GoTo, Return
<1>2. pc \in FirstPcs /\ pc \in RollingPcs
  BY <1>1 DEF FirstPcs, RollingPcs
<1>3. /\ job.cursor <= job.at /\ job.at < job.count /\ job.at \in Ordinals /\ job.at \in Names /\ job.cursor = 0
      /\ box[job.at].state = "absent"
  BY <1>1, <1>2, FirstHas, RollingHas DEF RollingOK
<1>4. pc' = "rl_first_check" /\ verdict' = verdict /\ runContainer(job.at, job.image, None, job.deployment)
  BY <1>3 DEF RunFirstInstance, RunThen, Step, GoTo
<1>5. /\ HostTyped' /\ Running' = Running \cup {job.at} /\ loaded' = loaded /\ job.at \notin loaded
      /\ OthersStay(job.at) /\ box'[job.at].state = "running" /\ box'[job.at].deployment = job.deployment
  <2>1. /\ HostTyped /\ job.at \in Names /\ job.image \in Images /\ None \in Images \cup {None}
        /\ job.deployment \in Nat /\ runContainer(job.at, job.image, None, job.deployment)
    BY <1>2, <1>3, <1>4, RollingHas
  <2>2. /\ HostTyped' /\ Running' = Running \cup {job.at} /\ loaded' = loaded /\ job.at \notin loaded
        /\ OthersStay(job.at) /\ box'[job.at].state = "running" /\ box'[job.at].deployment = job.deployment
    BY ONLY <2>1, RunEffect
  <2> QED BY ONLY <2>2
<1>6. Onward /\ pc' \in FirstPcs
  BY <1>1, <1>2, <1>4, <1>5, RollingHas, OnwardSame DEF DeployTyped, FirstPcs
<1>7. RollingOK'
  <2>1. \A o \in 0 .. job.at - 1 : IsNew(o)'
    BY <1>1, <1>2, <1>5, <1>6, EarlierStay
  <2>2. IsNew(job.at)'
    BY <1>1, <1>5 DEF IsNew, isContainerRunning
  <2> QED BY <1>1, <1>3, <1>4, <2>1, <2>2 DEF RollingOK, UpdatePcs, FirstPcs, UndoPcs
<1>8. OnlyRolling => RollingServes'
  <2>1. OnlyRolling => \A o \in RunningInstances : o < job.at
    BY <1>1, <1>2, RollingHas DEF RollingServes
  <2>2. OnlyRolling => \A o \in RunningInstances' : o <= job.at
    <3> SUFFICES ASSUME OnlyRolling, NEW o \in RunningInstances' PROVE o <= job.at
      OBVIOUS
    <3>1. o \in Nat /\ job.at \in Nat /\ (o \in RunningInstances \/ o = job.at)
      BY <1>2, <1>5, RollingHas, NamesDiffer DEF RunningInstances
    <3>2. o \in RunningInstances => o < job.at
      BY <2>1
    <3> QED BY <3>1, <3>2
  <2>3. OnlyRolling => Running' \subseteq Ordinals /\ loaded' = {}
    BY <1>2, <1>3, <1>5, FirstHas
  <2>4. job' = job
    BY <1>1
  <2> QED BY <1>4, <2>2, <2>3, <2>4 DEF RollingServes
<1>9. /\ Fades /\ (\A n \in Names \ {job.at} : Looks(n))
      /\ \A n \in Names : box'[n].state \in {box[n].state, "absent", "running"}
  <2>1. loaded \subseteq Names
    BY <1>2, RollingHas, BoxOf
  <2> QED BY <1>5, <2>1 DEF Fades, Looks, OthersStay
<1> QED BY <1>2, <1>3, <1>5, <1>6, <1>7, <1>8, <1>9, FirstFrame

LEMMA FirstInstanceHealthyKeeps == ASSUME LocalInv, FirstInstanceHealthy PROVE LocalInv'
<1>1. /\ pc = "rl_first_check" /\ pc' = (IF job.at + 1 < job.count THEN "rl_first" ELSE "rl_first_route")
      /\ UNCHANGED <<verdict, mishap>> /\ job' = [job EXCEPT !.at = @ + 1] /\ checkHealthViaDocker(job.at, TRUE)
  BY DEF FirstInstanceHealthy, GoTo
<1>2. pc \in FirstPcs /\ pc' \in FirstPcs /\ pc \in RollingPcs /\ pc' \in {"rl_first", "rl_first_route"}
  BY <1>1 DEF FirstPcs, RollingPcs
<1>3. /\ job.at < job.count /\ job.at \in Ordinals /\ job.at \in Names /\ job.cursor = 0 /\ IsNew(job.at)
      /\ job.at \in Nat /\ job.count \in Nat
  BY <1>1, <1>2, FirstHas, RollingHas DEF RollingOK
<1>4. HostTyped' /\ Running' = Running /\ loaded' = loaded /\ \A n \in Names : Looks(n)
  BY <1>1, <1>2, <1>3, RollingHas, CheckEffect
<1>5. Onward /\ job'.cursor = 0 /\ job'.at = job.at + 1
  BY <1>1, <1>2, <1>3, <1>4, RollingHas DEF Onward, DeployTyped, Jobs
<1>6. RollingOK'
  <2>1. \A o \in 0 .. job.at - 1 : IsNew(o)'
    BY <1>1, <1>2, <1>4, <1>5, EarlierStay
  <2>2. ASSUME NEW o \in Names, o = job.at PROVE IsNew(o)'
    <3>1. IsNew(o) /\ Looks(o)
      BY <1>3, <1>4, <2>2
    <3> QED BY <1>5, <3>1, NewStays
  <2>3. \A o \in 0 .. job'.at - 1 : o \in 0 .. job.at - 1 \/ o = job.at
    BY <1>3, <1>5
  <2>4. \A o \in 0 .. job'.at - 1 : IsNew(o)'
    BY <1>3, <2>1, <2>2, <2>3
  <2>5. /\ pc' = "rl_first" => job'.at < job'.count /\ 0 <= job'.at
        /\ pc' = "rl_first_route" => job'.at = job'.count
    BY <1>1, <1>2, <1>3, <1>5 DEF Onward
  <2> QED BY <1>2, <1>5, <2>4, <2>5 DEF RollingOK, UpdatePcs, FirstPcs, UndoPcs
<1>7. OnlyRolling => RollingServes'
  <2>1. OnlyRolling => \A o \in RunningInstances : o <= job.at
    BY <1>1, <1>2, RollingHas DEF RollingServes
  <2>2. RunningInstances' = RunningInstances /\ RunningInstances \subseteq Nat /\ RunningInstances \subseteq Ordinals
    BY <1>4, NamesDiffer DEF RunningInstances
  <2>3. OnlyRolling => \A o \in RunningInstances : o < job'.at /\ o < job'.count
    <3> SUFFICES ASSUME OnlyRolling, NEW o \in RunningInstances PROVE o < job'.at /\ o < job'.count
      OBVIOUS
    <3>1. o \in Nat /\ o <= job.at /\ job'.count = job.count
      BY <1>5, <2>1, <2>2 DEF Onward
    <3> QED BY <1>3, <1>5, <3>1
  <2>4. OnlyRolling => RunningInstances' \subseteq FirstInstances'
    BY <2>2, <2>3 DEF FirstInstances
  <2> QED BY <1>2, <1>4, <2>2, <2>3, <2>4, FirstHas DEF RollingServes
<1>8. /\ Fades
      /\ \A n \in Names : box'[n].state \in {box[n].state, "absent", "running"}
  <2>1. loaded \subseteq Names
    BY <1>2, RollingHas, BoxOf
  <2> QED BY <1>4, <2>1 DEF Fades, Looks
<1> QED BY <1>2, <1>4, <1>5, <1>6, <1>7, <1>8, FirstFrame

LEMMA FirstInstanceUnhealthyKeeps == ASSUME LocalInv, FirstInstanceUnhealthy PROVE LocalInv'
<1>1. /\ pc = "rl_first_check" /\ pc' = "rl_first_clean"
      /\ UNCHANGED <<job, verdict, mishap>> /\ checkHealthViaDocker(job.at, FALSE)
  BY DEF FirstInstanceUnhealthy, Step, GoTo
<1>2. pc \in FirstPcs /\ pc' \in FirstPcs /\ pc \in RollingPcs
  BY <1>1 DEF FirstPcs, RollingPcs
<1>3. job.cursor <= job.at /\ job.at < job.count /\ job.at \in Names /\ job.cursor = 0
  BY <1>1, <1>2, FirstHas
<1>4. HostTyped' /\ Running' = Running /\ loaded' = loaded /\ \A n \in Names : Looks(n)
  BY <1>1, <1>2, <1>3, RollingHas, CheckEffect
<1>5. Onward
  BY <1>1, <1>2, <1>4, RollingHas, OnwardSame DEF DeployTyped
<1>6. RollingOK'
  BY <1>1, <1>3 DEF RollingOK, UpdatePcs, FirstPcs, UndoPcs
<1>7. OnlyRolling => RollingServes'
  <2>1. OnlyRolling => \A o \in RunningInstances : o <= job.at
    BY <1>1, <1>2, RollingHas DEF RollingServes
  <2>2. RunningInstances' = RunningInstances /\ \A o \in RunningInstances : 0 <= o
    <3>1. RunningInstances \subseteq Nat
      BY NamesDiffer DEF RunningInstances
    <3> QED BY <1>4, <3>1 DEF RunningInstances
  <2> QED BY <1>1, <1>2, <1>3, <1>4, <2>1, <2>2, FirstHas DEF RollingServes
<1>8. /\ Fades
      /\ \A n \in Names : box'[n].state \in {box[n].state, "absent", "running"}
  <2>1. loaded \subseteq Names
    BY <1>2, RollingHas, BoxOf
  <2> QED BY <1>4, <2>1 DEF Fades, Looks
<1> QED BY <1>2, <1>4, <1>5, <1>6, <1>7, <1>8, FirstFrame

LEMMA CleanFirstKeeps == ASSUME LocalInv, CleanFirst PROVE LocalInv'
<1>1. pc = "rl_first_clean" /\ mishap' = mishap /\ removeContainerIfExists(job.cursor)
  BY DEF CleanFirst, GoTo, Return
<1>2. pc \in FirstPcs /\ pc \in RollingPcs
  BY <1>1 DEF FirstPcs, RollingPcs
<1>3. job.cursor <= job.at /\ job.at < job.count /\ job.cursor \in Nat /\ job.at \in Nat /\ job.count \in Nat
  BY <1>1, <1>2, FirstHas, RollingHas
<1>4. job.cursor \in Ordinals /\ job.cursor \in Names
  <2>1. job.cursor \in 0 .. job.count - 1
    BY <1>3
  <2> QED BY <1>2, <2>1, RollingHas, NamesDiffer
<1>5. /\ HostTyped' /\ Running' = Running \ {job.cursor} /\ loaded' = loaded \ {job.cursor}
      /\ OthersStay(job.cursor) /\ box'[job.cursor].state = "absent"
  BY <1>1, <1>2, <1>4, RollingHas, RemoveEffect
<1>6. /\ Fades /\ (\A n \in Names \ {job.cursor} : Looks(n))
      /\ \A n \in Names : box'[n].state \in {box[n].state, "absent", "running"}
  <2>1. loaded \subseteq Names
    BY <1>2, RollingHas, BoxOf
  <2> QED BY <1>5, <2>1 DEF Fades, Looks, OthersStay
<1>7. OnlyRolling => \A o \in RunningInstances : job.cursor <= o /\ o <= job.at
  BY <1>1, <1>2, RollingHas DEF RollingServes
<1>8. \A o \in RunningInstances' : o \in RunningInstances /\ o # job.cursor /\ o \in Nat
  BY <1>5, NamesDiffer DEF RunningInstances
<1>9. CASE job.cursor < job.at /\ pc' = "rl_first_clean" /\ verdict' = verdict /\ job' = [job EXCEPT !.cursor = @ + 1]
  <2>1. Onward /\ job'.cursor = job.cursor + 1 /\ job'.at = job.at
    BY <1>1, <1>2, <1>5, <1>9, RollingHas DEF Onward, DeployTyped, Jobs
  <2>2. RollingOK'
    <3>1. job'.cursor <= job'.at /\ job'.at < job'.count
      BY <1>3, <1>9, <2>1 DEF Onward
    <3> QED BY <1>9, <3>1 DEF RollingOK, UpdatePcs, FirstPcs, UndoPcs
  <2>3. OnlyRolling => RollingServes'
    <3>1. OnlyRolling => \A o \in RunningInstances' : job.cursor + 1 <= o /\ o <= job.at
      BY <1>3, <1>7, <1>8
    <3> QED BY <1>2, <1>5, <1>9, <2>1, <3>1, FirstHas DEF RollingServes
  <2> QED BY <1>1, <1>2, <1>4, <1>5, <1>6, <1>9, <2>1, <2>2, <2>3, FirstFrame
<1>10. CASE ~(job.cursor < job.at) /\ pc' = "idle" /\ verdict' = "failure" /\ job' = job
  <2>1. Onward
    BY <1>1, <1>2, <1>5, <1>10, RollingHas, OnwardSame DEF Verdicts
  <2>2. RollingOK' /\ RollingClean' /\ CapacityClean'
    BY <1>10 DEF RollingOK, RollingClean, CapacityClean, UpdatePcs, FirstPcs, UndoPcs
  <2>3. OnlyRolling => Running' = {} /\ loaded' = {}
    <3>1. OnlyRolling => Running' = RunningInstances'
      BY <1>2, <1>5, FirstHas DEF RunningInstances
    <3>2. OnlyRolling => RunningInstances' = {}
      BY <1>3, <1>7, <1>8, <1>10
    <3> QED BY <1>2, <1>5, <3>1, <3>2, FirstHas
  <2>4. OnlyRolling => RollingServes' /\ (job.image \notin job.before => RollingReturns')
    BY <1>10, <2>3 DEF RollingServes, RollingReturns, FirstPcs, UpdatePcs, UndoPcs
  <2>5. ServedImages' \subseteq job.before
    BY <1>2, <1>6, FadesServed, RollingHas
  <2>6. pc' \notin {"rl_start"} \cup FirstPcs
    BY <1>10 DEF FirstPcs
  <2> QED BY <1>2, <1>4, <1>5, <1>6, <1>10, <2>1, <2>2, <2>4, <2>5, <2>6, RollingFrame
<1> QED BY <1>9, <1>10 DEF CleanFirst, GoTo, Return

LEMMA RouteFirstInstancesKeeps == ASSUME LocalInv, RouteFirstInstances PROVE LocalInv'
<1>1. pc = "rl_first_route"
  BY DEF RouteFirstInstances, RouteThen, Step, GoTo, Return
<1>2. pc \in FirstPcs /\ pc \in RollingPcs
  BY <1>1 DEF FirstPcs, RollingPcs
<1>3. job.at = job.count /\ \A o \in 0 .. job.at - 1 : IsNew(o)
  BY <1>1, <1>2, FirstHas, RollingHas DEF RollingOK
<1>4. \A o \in FirstInstances : o \in Ordinals /\ o \in Names /\ IsNew(o)
  <2>1. \A o \in FirstInstances : o \in 0 .. job.at - 1 /\ o \in Ordinals
    BY <1>2, <1>3, RollingHas, NamesDiffer DEF FirstInstances
  <2> QED BY <1>3, <2>1, NamesDiffer
<1>5. FirstInstances \subseteq Running
  BY <1>4 DEF Running, IsNew
<1>6. pc' = "done" /\ UNCHANGED <<job, verdict, mishap>> /\ writeAndReloadNginx(FirstInstances)
  BY <1>5 DEF RouteFirstInstances, RouteThen, Step, GoTo
<1>7. HostTyped' /\ box' = box /\ Running' = Running /\ loaded' = FirstInstances
  BY <1>2, <1>6, RollingHas, RouteEffect
<1>8. Onward
  BY <1>2, <1>6, <1>7, RollingHas, OnwardSame DEF DeployTyped
<1>9. RollingOK' /\ RollingClean' /\ CapacityClean'
  BY <1>6 DEF RollingOK, RollingClean, CapacityClean, UpdatePcs, FirstPcs, UndoPcs
<1>10. OnlyRolling => RollingServes' /\ (job.image \notin job.before => RollingReturns')
  <2>1. OnlyRolling => RunningInstances \subseteq FirstInstances
    BY <1>1, <1>2, RollingHas DEF RollingServes
  <2>2. OnlyRolling => Running \subseteq Ordinals /\ Running = FirstInstances
    BY <1>2, <1>5, <2>1, FirstHas
  <2> QED BY <1>6, <1>7, <2>2 DEF RollingServes, RollingReturns, FirstPcs, UpdatePcs, UndoPcs
<1>11. ServesNew'
  BY <1>4, <1>6, <1>7 DEF ServesNew, IsNew
<1>12. /\ \A n \in Names : Looks(n)
       /\ pc' \in RollingPcs \cup {"idle", "done"} /\ pc' \notin {"rl_start", "idle"} \cup FirstPcs
  BY <1>6, <1>7 DEF Looks, FirstPcs
<1> QED BY <1>2, <1>4, <1>7, <1>8, <1>9, <1>10, <1>11, <1>12, RollingFrame DEF Looks

LEMMA RollingStepKeeps == ASSUME LocalInv, RollingStep PROVE LocalInv'
BY DiscoverInstancesKeeps, ExcludeBatchKeeps, DropInstanceKeeps, RunInstanceKeeps, InstanceHealthyKeeps,
   InstanceUnhealthyKeeps, RemoveUpdatedKeeps, RestoreInstanceKeeps, NextToRestoreKeeps, RefreshAfterRollbackKeeps,
   RejoinBatchKeeps, ClearFirstInstanceKeeps, RunFirstInstanceKeeps, FirstInstanceHealthyKeeps,
   FirstInstanceUnhealthyKeeps, CleanFirstKeeps, RouteFirstInstancesKeeps DEF RollingStep

-----------------------------------------------------------------------------
\* The states between two deployments owe nothing to a driver.
LEMMA IdleOwesNothing ==
    ASSUME pc' = "idle" PROVE BlueGreenOK' /\ CanaryOK' /\ RollingOK' /\ Delivered' /\ ServesOld'
<1>1. pc' \notin BlueGreenPcs \cup CanaryPcs \cup RollingPcs
  BY DEF BlueGreenPcs, CanaryPcs, RollingPcs, FirstPcs, UpdatePcs, UndoPcs
<1>2. BlueGreenOK' /\ CanaryOK'
  BY <1>1 DEF BlueGreenOK, CanaryOK, BlueGreenPcs, CanaryPcs
<1>3. RollingOK'
  BY <1>1 DEF RollingOK, RollingPcs, FirstPcs, UpdatePcs, UndoPcs
<1>4. Delivered' /\ ServesOld'
  BY <1>1 DEF Delivered, ServesOld, Kept, RollingPcs
<1> QED BY <1>2, <1>3, <1>4

LEMMA FinishKeeps == ASSUME LocalInv, Finish PROVE LocalInv'
<1>1. pc = "done" /\ pc' = "idle" /\ verdict' = "success" /\ UNCHANGED <<job, mishap, host>>
  BY DEF Finish, Return
<1>2. DeployTyped /\ Driven /\ ServesNew /\ Clean /\ Rolled
  BY <1>1 DEF LocalInv, Delivered
<1>3. HostTyped' /\ box' = box /\ Running' = Running /\ loaded' = loaded
  BY <1>1, <1>2, NoEffect DEF host, DeployTyped
<1>4. Onward
  BY <1>1, <1>2, <1>3, OnwardSame DEF Verdicts
<1>5. DeployTyped' /\ Driven'
  BY <1>1, <1>2, <1>4, DrivenFrom
<1>6. /\ pc \notin BlueGreenPcs \cup CanaryPcs \cup RollingPcs /\ pc' \notin BlueGreenPcs \cup CanaryPcs \cup RollingPcs
      /\ pc \notin FirstPcs \cup UpdatePcs \cup UndoPcs /\ pc' \notin FirstPcs \cup UpdatePcs \cup UndoPcs
  BY <1>1 DEF BlueGreenPcs, CanaryPcs, RollingPcs, FirstPcs, UpdatePcs, UndoPcs
<1>7. Clean'
  <2>1. ~mishap => NoneExited' /\ BlueGreenClean'
    BY <1>1, <1>2, <1>3, <1>6 DEF Clean, NoneExited, BlueGreenClean, BlueGreenPcs, isContainerRunning
  <2>2. ~mishap => CanaryClean'
    BY <1>1, <1>2, <1>3, <1>6 DEF Clean, CanaryClean, CanaryPcs, isContainerRunning
  <2>3. RollingClean' /\ CapacityClean'
    BY <1>1, <1>6 DEF RollingClean, CapacityClean
  <2> QED BY <1>1, <2>1, <2>2, <2>3 DEF Clean
<1>8. Rolled'
  <2>1. OnlyRolling' = OnlyRolling
    BY <1>1 DEF OnlyRolling
  <2>2. OnlyRolling => RollingServes'
    BY <1>1, <1>2, <1>3, <1>6 DEF Rolled, RollingServes
  <2>3. RollingReturns'
    BY <1>1, <1>6 DEF RollingReturns, UndoPcs
  <2> QED BY <2>1, <2>2, <2>3 DEF Rolled
<1>9. Reported'
  BY <1>1, <1>2, <1>3 DEF Reported, SuccessIsServed, FailureIsNotServed, ServesNew
<1> QED BY <1>1, <1>5, <1>7, <1>8, <1>9, IdleOwesNothing DEF LocalInv

\* What a failed or interrupted call leaves is a state of the host.
LEMMA MishapEffect ==
    ASSUME LocalInv, pc # "idle",
           \/ UNCHANGED host
           \/ \E n \in Names : HalfRemoved(n) \/ HalfCreated(n, job.image)
           \/ \E names \in SUBSET Names : HalfLoaded(names)
    PROVE  HostTyped'
<1>1. HostTyped /\ job.image \in Images
  BY DEF LocalInv, DeployTyped, Driven
<1>2. CASE UNCHANGED host
  BY <1>1, <1>2, NoEffect DEF host
<1>3. ASSUME NEW names \in SUBSET Names, HalfLoaded(names) PROVE HostTyped'
  BY <1>1, <1>3, RefuseEffect
<1>4. ASSUME NEW n \in Names, HalfRemoved(n) PROVE HostTyped'
  <2>1. /\ box' = [box EXCEPT ![n].state = "exited"] /\ loaded' = loaded \ {n} /\ UNCHANGED <<proxy, conf, broken>>
    BY <1>4 DEF HalfRemoved
  <2>2. box \in [Names -> Boxes] /\ box[n] \in Boxes
    BY <1>1, BoxOf
  <2>3. box' \in [Names -> Boxes] /\ box'[n].state = "exited" /\ \A m \in Names \ {n} : box'[m] = box[m]
    BY <2>1, <2>2 DEF Boxes, ContainerStates
  <2>4. Running' = Running \ {n}
    BY <2>3 DEF Running, isContainerRunning
  <2>5. \A m \in Running' : box'[m].image \in Images
    BY <1>1, <2>3, <2>4, BoxOf
  <2> QED BY <1>1, <2>1, <2>3, <2>4, <2>5, BoxOf, HostFrom
<1>5. ASSUME NEW n \in Names, HalfCreated(n, job.image) PROVE HostTyped'
  <2> DEFINE b == [Absent EXCEPT !.state = "exited", !.image = job.image]
  <2>1. /\ box[n].state = "absent" /\ box' = [box EXCEPT ![n] = b] /\ UNCHANGED <<proxy, conf, loaded, broken>>
    BY <1>5 DEF HalfCreated
  <2>2. b \in Boxes /\ b.state = "exited"
    BY <1>1 DEF Absent, Boxes, ContainerStates, Checks
  <2>3. box' \in [Names -> Boxes] /\ box'[n].state = "exited" /\ \A m \in Names \ {n} : box'[m] = box[m]
    BY <1>1, <2>1, <2>2, BoxOf
  <2>4. Running' = Running
    BY <2>1, <2>3 DEF Running, isContainerRunning
  <2>5. \A m \in Running' : m # n /\ box'[m].image \in Images
    BY <1>1, <2>1, <2>3, <2>4, BoxOf
  <2> QED BY <1>1, <2>1, <2>3, <2>4, <2>5, BoxOf, HostFrom
<1> QED BY <1>2, <1>3, <1>4, <1>5

LEMMA MishapKeeps == ASSUME LocalInv, Mishap PROVE LocalInv'
<1>1. pc # "idle" /\ pc' = "idle" /\ verdict' = "failure" /\ mishap' = TRUE /\ UNCHANGED job
  BY DEF Mishap
<1>2. HostTyped'
  <2>1. \/ UNCHANGED host
        \/ \E n \in Names : HalfRemoved(n) \/ HalfCreated(n, job.image)
        \/ \E names \in SUBSET Names : HalfLoaded(names)
    BY DEF Mishap
  <2> QED BY <1>1, <2>1, MishapEffect
<1>3. DeployTyped' /\ Driven'
  <2>1. DeployTyped'
    BY <1>1, <1>2 DEF LocalInv, DeployTyped, Verdicts
  <2>2. Driven'
    BY <1>1 DEF LocalInv, Driven, BlueGreenPcs, CanaryPcs, RollingPcs, FirstPcs, UpdatePcs, UndoPcs
  <2> QED BY <2>1, <2>2
<1>4. Clean' /\ Rolled' /\ Reported'
  BY <1>1 DEF Clean, Rolled, OnlyRolling, Reported, SuccessIsServed, FailureIsNotServed
<1> QED BY <1>1, <1>3, <1>4, IdleOwesNothing DEF LocalInv

\* deploy() is called on the host as the last deployment left it.
LEMMA BeginKeeps ==
    ASSUME LocalInv, NEW strategy \in Strategies, NEW image \in Images, NEW count \in Nat \ {0}, NEW batch \in Nat \ {0},
           Switching \/ job.strategy \in {None, strategy}, NEW first,
           <<strategy, first>> \in {<<"blue_green", "bg_choose">>, <<"canary", "cn_start">>, <<"rolling", "rl_start">>},
           strategy = "rolling" => 0 .. count - 1 \subseteq Ordinals,
           Begin(strategy, first, image, count, batch)
    PROVE  LocalInv'
<1>1. /\ pc = "idle" /\ pc' = first /\ job.deployment < MaxDeployments
      /\ job' = [NoJob EXCEPT !.strategy = strategy, !.image = image, !.deployment = job.deployment + 1,
                              !.before = ServedImages, !.count = count, !.batch = batch]
      /\ UNCHANGED <<verdict, mishap, host>>
  BY DEF Begin
<1>2. DeployTyped /\ Driven /\ Clean /\ Rolled /\ job.deployment \in Nat
  BY JobOf DEF LocalInv
<1>3. HostTyped' /\ box' = box /\ Running' = Running /\ loaded' = loaded /\ ServedImages' = ServedImages
  BY <1>1, <1>2, NoEffect DEF host, DeployTyped, ServedImages
<1>4. ServedImages \subseteq Images
  <2>1. HostTyped
    BY <1>2 DEF DeployTyped
  <2> QED BY <2>1, BoxOf DEF ServedImages
<1>5. /\ job' \in Jobs /\ job'.strategy = strategy /\ job'.image = image /\ job'.deployment = job.deployment + 1
      /\ job'.before = ServedImages /\ job'.count = count /\ job'.at = 0 /\ job'.base = 0 /\ job'.cursor = 0
  <2> DEFINE next == job.deployment + 1
             served == ServedImages
  <2>1. next \in Nat /\ served \subseteq Images
    BY <1>2, <1>4
  <2>2. job' = [NoJob EXCEPT !.strategy = strategy, !.image = image, !.deployment = next,
                             !.before = served, !.count = count, !.batch = batch]
    BY <1>1
  <2> HIDE DEF next, served
  <2>3. /\ job' \in Jobs /\ job'.strategy = strategy /\ job'.image = image /\ job'.deployment = next
        /\ job'.before = served /\ job'.count = count /\ job'.at = 0 /\ job'.base = 0 /\ job'.cursor = 0
    BY <2>1, <2>2 DEF NoJob, Jobs
  <2> QED BY <2>3 DEF next, served
<1>6. first \in {"bg_choose", "cn_start", "rl_start"}
  OBVIOUS
<1>7. DeployTyped' /\ Driven'
  <2>1. DeployTyped'
    <3>1. MaxDeployments \in Nat
      BY DeployAssumption
    <3>2. job'.deployment <= MaxDeployments
      BY <1>1, <1>2, <1>5, <3>1
    <3> QED BY <1>1, <1>2, <1>3, <1>5, <3>2 DEF DeployTyped
  <2>2. Driven'
    <3>1. job'.deployment # 0
      BY <1>2, <1>5
    <3>2. \/ pc' = "bg_choose" /\ strategy = "blue_green"
          \/ pc' = "cn_start" /\ strategy = "canary"
          \/ pc' = "rl_start" /\ strategy = "rolling"
      BY <1>1
    <3> QED BY <1>5, <3>1, <3>2 DEF Driven, BlueGreenPcs, CanaryPcs, RollingPcs, FirstPcs, UpdatePcs, UndoPcs
  <2> QED BY <2>1, <2>2
<1>8. BlueGreenOK' /\ CanaryOK' /\ RollingOK'
  <2>1. BlueGreenOK' /\ CanaryOK'
    BY <1>1, <1>6 DEF BlueGreenOK, CanaryOK, BlueGreenPcs
  <2>2. RollingOK'
    BY <1>1, <1>5, <1>6 DEF RollingOK, UpdatePcs, FirstPcs, UndoPcs
  <2> QED BY <2>1, <2>2
<1>9. Delivered' /\ ServesOld' /\ Reported'
  <2>1. Delivered' /\ Reported'
    BY <1>1, <1>6 DEF Delivered, Reported, SuccessIsServed, FailureIsNotServed
  <2> QED BY <1>3, <1>5, <2>1 DEF ServesOld
<1>10. Clean'
  <2>1. ~mishap => NoneExited' /\ BlueGreenClean'
    BY <1>1, <1>2, <1>3, <1>6 DEF Clean, NoneExited, BlueGreenClean, BlueGreenPcs, isContainerRunning
  <2>2. ~mishap => CanaryClean'
    BY <1>1, <1>2, <1>3, <1>6 DEF Clean, CanaryClean, CanaryPcs, isContainerRunning
  <2>3. RollingClean' /\ CapacityClean'
    BY <1>1, <1>6 DEF RollingClean, CapacityClean, FirstPcs, UpdatePcs
  <2> QED BY <1>1, <2>1, <2>2, <2>3 DEF Clean
<1>11. Rolled'
  <2>1. OnlyRolling' => OnlyRolling /\ pc' = "rl_start"
    <3>1. OnlyRolling' => ~Switching /\ ~mishap /\ strategy = "rolling"
      BY <1>1, <1>2, <1>5 DEF OnlyRolling
    <3>2. OnlyRolling' => job.strategy = None \/ job.strategy = "rolling"
      BY <3>1
    <3>3. job.strategy = None => job.deployment = 0
      BY <1>2, DeployAssumption DEF Driven
    <3> QED BY <1>1, <3>1, <3>2, <3>3 DEF OnlyRolling
  <2>2. OnlyRolling /\ pc' = "rl_start" => RollingServes'
    BY <1>1, <1>2, <1>3, <1>5 DEF Rolled, RollingServes, FirstPcs
  <2>3. pc' = "rl_start" => RollingReturns'
    BY DEF RollingReturns, UpdatePcs, UndoPcs
  <2> QED BY <2>1, <2>2, <2>3 DEF Rolled
<1> QED BY <1>7, <1>8, <1>9, <1>10, <1>11 DEF LocalInv

LEMMA createDeployerKeeps == ASSUME LocalInv, createDeployer PROVE LocalInv'
<1>1. PICK image \in Images, strategy \in Strategies :
        /\ Switching \/ job.strategy \in {None, strategy}
        /\ CASE strategy = "blue_green" -> Begin(strategy, "bg_choose", image, 1, 1)
             [] strategy = "canary" -> Begin(strategy, "cn_start", image, 1, 1)
             [] strategy = "rolling" ->
                  \E count \in Counts, batch \in Batches :
                    Begin(strategy, "rl_start", image, count, IF batch < count THEN batch ELSE count)
  BY DEF createDeployer
<1>2. strategy \in {"blue_green", "canary", "rolling"}
  BY DeployAssumption
<1>3. CASE strategy = "blue_green"
  <2> DEFINE first == "bg_choose"
  <2>1. Begin(strategy, first, image, 1, 1) /\ (Switching \/ job.strategy \in {None, strategy})
    BY <1>1, <1>3
  <2>2. /\ <<strategy, first>> \in {<<"blue_green", "bg_choose">>, <<"canary", "cn_start">>, <<"rolling", "rl_start">>}
        /\ 1 \in Nat \ {0} /\ strategy # "rolling"
    BY <1>3
  <2> HIDE DEF first
  <2> QED BY <2>1, <2>2, BeginKeeps
<1>4. CASE strategy = "canary"
  <2> DEFINE first == "cn_start"
  <2>1. Begin(strategy, first, image, 1, 1) /\ (Switching \/ job.strategy \in {None, strategy})
    BY <1>1, <1>4
  <2>2. /\ <<strategy, first>> \in {<<"blue_green", "bg_choose">>, <<"canary", "cn_start">>, <<"rolling", "rl_start">>}
        /\ 1 \in Nat \ {0} /\ strategy # "rolling"
    BY <1>4
  <2> HIDE DEF first
  <2> QED BY <2>1, <2>2, BeginKeeps
<1>5. CASE strategy = "rolling"
  <2>1. PICK count \in Counts, batch \in Batches :
          Begin(strategy, "rl_start", image, count, IF batch < count THEN batch ELSE count)
    BY <1>1, <1>5
  <2> DEFINE width == IF batch < count THEN batch ELSE count
  <2>2. count \in Nat \ {0} /\ width \in Nat \ {0} /\ 0 .. count - 1 \subseteq Ordinals
    BY DeployAssumption
  <2>3. Begin(strategy, "rl_start", image, count, width)
    BY <2>1
  <2> HIDE DEF width
  <2> QED BY <1>1, <1>5, <2>2, <2>3, BeginKeeps
<1> QED BY <1>2, <1>3, <1>4, <1>5

LEMMA InitiallyLocal == ASSUME Init PROVE LocalInv
<1>1. /\ box = [n \in Names |-> Absent] /\ proxy = FALSE /\ conf = {} /\ loaded = {} /\ broken = {}
      /\ pc = "idle" /\ job = NoJob /\ verdict = "none" /\ mishap = FALSE
  BY DEF Init, HostInit, DeployerInit
<1>2. Absent \in Boxes /\ Absent.state = "absent"
  BY DEF Absent, Boxes, ContainerStates, Checks
<1>3. Running = {} /\ \A n \in Names : box[n].state = "absent"
  BY <1>1, <1>2 DEF Running, isContainerRunning
<1>4. DeployTyped
  <2>1. HostOK
    BY <1>1, <1>2 DEF HostOK, Boxes
  <2>2. HostTyped
    BY <1>3, <2>1, FS_EmptySet DEF HostTyped, RunningInstances
  <2>3. NoJob \in Jobs /\ NoJob.deployment = 0
    BY DEF NoJob, Jobs
  <2>4. job.deployment <= MaxDeployments
    BY <1>1, <2>3, DeployAssumption
  <2>5. verdict \in Verdicts /\ mishap \in BOOLEAN
    BY <1>1 DEF Verdicts
  <2> QED BY <1>1, <2>2, <2>3, <2>4, <2>5 DEF DeployTyped
<1>5. Driven
  BY <1>1, <1>3 DEF Driven, NoJob, BlueGreenPcs, CanaryPcs, RollingPcs, FirstPcs, UpdatePcs, UndoPcs
<1>6. BlueGreenOK /\ CanaryOK /\ RollingOK
  BY <1>1 DEF BlueGreenOK, CanaryOK, RollingOK, BlueGreenPcs, UpdatePcs, FirstPcs, UndoPcs
<1>7. Delivered /\ ServesOld /\ Reported
  BY <1>1 DEF Delivered, ServesOld, Kept, BlueGreenPcs, CanaryPcs, FirstPcs, Reported, SuccessIsServed, FailureIsNotServed
<1>8. Clean
  <2>1. NoneExited /\ BlueGreenClean
    BY <1>1, <1>3, NamesDiffer DEF NoneExited, BlueGreenClean, BlueGreenPcs, isContainerRunning, Names
  <2>2. CanaryClean
    BY <1>1 DEF CanaryClean
  <2>3. RollingClean /\ CapacityClean
    BY <1>1 DEF RollingClean, CapacityClean, FirstPcs, UpdatePcs
  <2> QED BY <2>1, <2>2, <2>3 DEF Clean
<1>9. Rolled
  BY <1>1, <1>3 DEF Rolled, RollingServes, RollingReturns, RunningInstances, FirstPcs, UpdatePcs, UndoPcs
<1> QED BY <1>4, <1>5, <1>6, <1>7, <1>8, <1>9 DEF LocalInv

LEMMA StutterKeepsLocal == ASSUME LocalInv, UNCHANGED vars PROVE LocalInv'
<1>1. UNCHANGED <<box, proxy, conf, loaded, broken, pc, job, verdict, mishap>>
  BY DEF vars, host, deployer
<1>2. /\ Running' = Running /\ RunningInstances' = RunningInstances /\ ServedImages' = ServedImages /\ Batch' = Batch
      /\ \A n : isContainerRunning(n)' = isContainerRunning(n) /\ IsNew(n)' = IsNew(n)
  BY <1>1 DEF Running, RunningInstances, ServedImages, Batch, isContainerRunning, IsNew
<1>3. DeployTyped' /\ Driven'
  BY <1>1, <1>2 DEF LocalInv, DeployTyped, HostTyped, HostOK, Driven
<1>4. BlueGreenOK' /\ CanaryOK' /\ RollingOK'
  <2>1. BlueGreenOK' /\ CanaryOK'
    BY <1>1, <1>2 DEF LocalInv, BlueGreenOK, CanaryOK
  <2>2. RollingOK'
    BY <1>1, <1>2 DEF LocalInv, RollingOK
  <2> QED BY <2>1, <2>2
<1>5. Delivered' /\ ServesOld' /\ Reported'
  BY <1>1, <1>2 DEF LocalInv, Delivered, ServesNew, ServesOld, Kept, Reported, SuccessIsServed, FailureIsNotServed
<1>6. Clean'
  BY <1>1, <1>2 DEF LocalInv, Clean, NoneExited, BlueGreenClean, CanaryClean, RollingClean, CapacityClean
<1>7. Rolled'
  BY <1>1, <1>2 DEF LocalInv, Rolled, OnlyRolling, RollingServes, RollingReturns, OldAmong, FirstInstances
<1> QED BY <1>3, <1>4, <1>5, <1>6, <1>7 DEF LocalInv

(* The invariant that the properties of the local drivers rest on: where a   *)
(* deployment is tells which containers run, which of them are its own and   *)
(* which are in the traffic, and until a call fails each driver finds them   *)
(* as its last deployment left them.                                         *)
THEOREM LocalDeployInvariant == Spec => []LocalInv
<1>1. Init => LocalInv
  BY InitiallyLocal
<1>2. LocalInv /\ [Next]_vars => LocalInv'
  <2> SUFFICES ASSUME LocalInv, [Next]_vars PROVE LocalInv'
    OBVIOUS
  <2>1. CASE createDeployer
    BY <2>1, createDeployerKeeps
  <2>2. CASE BlueGreenStep
    BY <2>2, BlueGreenStepKeeps
  <2>3. CASE CanaryStep
    BY <2>3, CanaryStepKeeps
  <2>4. CASE RollingStep
    BY <2>4, RollingStepKeeps
  <2>5. CASE Finish
    BY <2>5, FinishKeeps
  <2>6. CASE Mishap
    BY <2>6, MishapKeeps
  <2>7. CASE UNCHANGED vars
    BY <2>7, StutterKeepsLocal
  <2> QED BY <2>1, <2>2, <2>3, <2>4, <2>5, <2>6, <2>7 DEF Next, DeployerStep
<1> QED BY <1>1, <1>2, PTL DEF Spec

(* The containers, the proxy and the verdict of the local drivers stay of    *)
(* their types, and nginx never sends traffic to a container that does not   *)
(* run (docker-local-deployer.ts, docker-local-canary-deployer.ts and        *)
(* docker-local-rolling-deployer.ts, deploy()).                              *)
THEOREM LocalDeployTypeOK == Spec => []TypeOK
<1>1. LocalInv => TypeOK
  BY DEF LocalInv, DeployTyped, HostTyped, TypeOK
<1> QED BY <1>1, LocalDeployInvariant, PTL

(* A deployment that returned success serves its own containers, after any   *)
(* history of failed calls, restarts and changes of strategy.                *)
THEOREM LocalSuccessIsServed == Spec => []SuccessIsServed
<1>1. LocalInv => SuccessIsServed
  BY DEF LocalInv, Reported
<1> QED BY <1>1, LocalDeployInvariant, PTL

(* A deployment that returned failure, with no call that failed, leaves the  *)
(* traffic on images that were served before it, for a project that keeps    *)
(* its strategy (with another one, containers of the earlier strategy that   *)
(* nginx does not serve are what rollbackInstances goes back to).            *)
THEOREM LocalFailureIsNotServed == ASSUME ~Switching PROVE Spec => []FailureIsNotServed
<1>1. LocalInv => FailureIsNotServed
  BY DEF LocalInv, Reported
<1> QED BY <1>1, LocalDeployInvariant, PTL

LEMMA CapacityFromLocal == LocalInv => CapacityKept
<1> SUFFICES ASSUME LocalInv, ~mishap, pc \in {"rl_drop", "rl_run", "rl_check", "rl_rejoin"}
             PROVE  Cardinality(loaded) + job.batch >= job.size
  BY DEF CapacityKept
<1>1. pc \in RollingPcs /\ pc \in UpdatePcs \ {"rl_exclude"}
  BY DEF RollingPcs, UpdatePcs
<1>2. /\ job.size <= Cardinality(RunningInstances \cup Batch)
      /\ job.batch >= job.size \/ loaded = RunningInstances \ Batch
  BY <1>1, RollingHas DEF CapacityClean
<1>3. IsFiniteSet(Batch) /\ Cardinality(Batch) <= job.batch /\ IsFiniteSet(RunningInstances)
  BY <1>1, RollingHas, BatchOf DEF HostTyped
<1>4. IsFiniteSet(loaded)
  <2>1. /\ IsFiniteSet(RunningInstances \cup {blue}) /\ IsFiniteSet((RunningInstances \cup {blue}) \cup {green})
        /\ IsFiniteSet(((RunningInstances \cup {blue}) \cup {green}) \cup {stable})
        /\ IsFiniteSet((((RunningInstances \cup {blue}) \cup {green}) \cup {stable}) \cup {canary})
    BY <1>3, FS_AddElement
  <2>2. loaded \subseteq (((RunningInstances \cup {blue}) \cup {green}) \cup {stable}) \cup {canary}
    BY <1>1, RollingHas, BoxOf DEF RunningInstances, Names
  <2> QED BY <2>1, <2>2, FS_Subset
<1>5. Cardinality(loaded) \in Nat /\ Cardinality(Batch) \in Nat /\ job.batch \in Nat /\ job.size \in Nat
  BY <1>1, <1>3, <1>4, RollingHas, FS_CardinalityType
<1>6. CASE job.batch >= job.size
  BY <1>5, <1>6
<1>7. CASE loaded = RunningInstances \ Batch
  <2>1. RunningInstances \cup Batch = loaded \cup Batch
    BY <1>7
  <2>2. Cardinality(loaded \cup Batch) = Cardinality(loaded) + Cardinality(Batch) - Cardinality(loaded \cap Batch)
    BY <1>3, <1>4, FS_Union
  <2>3. Cardinality(loaded \cap Batch) = 0
    <3>1. loaded \cap Batch = {}
      BY <1>7
    <3> QED BY <3>1, FS_EmptySet
  <2>4. Cardinality(RunningInstances \cup Batch) = Cardinality(loaded) + Cardinality(Batch) - 0
    BY <2>1, <2>2, <2>3
  <2>5. job.size <= Cardinality(loaded) + Cardinality(Batch) - 0
    BY <1>2, <2>4
  <2> QED BY <1>3, <1>5, <2>5
<1> QED BY <1>2, <1>6, <1>7

(* While a rolling update replaces instances, at most max_unavailable of     *)
(* those it found are out of rotation, for every number of instances and     *)
(* every batch (docker-local-rolling-deployer.ts, deploy()).                 *)
THEOREM LocalCapacityKept == Spec => []CapacityKept
BY CapacityFromLocal, LocalDeployInvariant, PTL

-----------------------------------------------------------------------------
\* The calls that cannot take the last container out of the traffic.
LEMMA KeepsServing ==
    ASSUME Serving,
           \/ UNCHANGED host
           \/ \E n \in Names : \E image, previous, num : runContainer(n, image, previous, num)
           \/ \E n \in Names, passed \in BOOLEAN : checkHealthViaDocker(n, passed)
           \/ \E names : names # {} /\ writeAndReloadNginx(names)
           \/ \E names : ReloadRefused(names)
           \/ \E n \in Names : removeContainerIfExists(n) /\ loaded \ {n} # {}
    PROVE  Serving'
<1>1. CASE UNCHANGED host
  BY <1>1 DEF Serving, host
<1>2. ASSUME NEW n \in Names, NEW image, NEW previous, NEW num, runContainer(n, image, previous, num) PROVE Serving'
  BY <1>2 DEF Serving, runContainer
<1>3. ASSUME NEW n \in Names, NEW passed \in BOOLEAN, checkHealthViaDocker(n, passed) PROVE Serving'
  BY <1>3 DEF Serving, checkHealthViaDocker
<1>4. ASSUME NEW names, names # {}, writeAndReloadNginx(names) PROVE Serving'
  BY <1>4 DEF Serving, writeAndReloadNginx
<1>5. ASSUME NEW names, ReloadRefused(names) PROVE Serving'
  BY <1>5 DEF Serving, ReloadRefused
<1>6. ASSUME NEW n \in Names, removeContainerIfExists(n), loaded \ {n} # {} PROVE Serving'
  BY <1>6 DEF Serving, removeContainerIfExists
<1> QED BY <1>1, <1>2, <1>3, <1>4, <1>5, <1>6

LEMMA RunThenServes ==
    ASSUME Serving, NEW p, NEW n \in Names, NEW image, NEW previous, NEW q, RunThen(p, n, image, previous, q)
    PROVE  Serving'
<1>1. runContainer(n, image, previous, job.deployment) \/ UNCHANGED host
  BY DEF RunThen
<1> QED BY <1>1, KeepsServing

LEMMA CheckThenServes ==
    ASSUME Serving, NEW p, NEW n \in Names, NEW q, NEW r, CheckThen(p, n, q, r) PROVE Serving'
<1>1. \E passed \in BOOLEAN : checkHealthViaDocker(n, passed)
  BY DEF CheckThen
<1> QED BY <1>1, KeepsServing

LEMMA RouteThenServes ==
    ASSUME Serving, NEW p, NEW names, names # {}, NEW q, RouteThen(p, names, q) PROVE Serving'
<1>1. writeAndReloadNginx(names) \/ ReloadRefused(names)
  BY DEF RouteThen
<1> QED BY <1>1, KeepsServing

LEMMA UpdateServes == ASSUME Serving, NEW S, updateNginxForRunningInstances(S) PROVE Serving'
<1> DEFINE names == RunningInstances \ S
<1>1. UNCHANGED host \/ (names # {} /\ writeAndReloadNginx(names))
  BY DEF updateNginxForRunningInstances
<1> HIDE DEF names
<1> QED BY <1>1, KeepsServing

LEMMA RemovalServes ==
    ASSUME Serving, NEW n \in Names, removeContainerIfExists(n), n \notin loaded PROVE Serving'
<1>1. loaded \ {n} # {}
  BY DEF Serving
<1> QED BY <1>1, KeepsServing

LEMMA BlueGreenServes == ASSUME LocalInv, ~mishap, Serving, BlueGreenStep PROVE Serving'
<1>1. CASE ChooseColors
  BY <1>1, KeepsServing DEF ChooseColors
<1>2. CASE ClearNewColor
  <2>1. pc = "bg_clear" /\ removeContainerIfExists(job.new)
    BY <1>2 DEF ClearNewColor, GoTo
  <2>2. pc \in BlueGreenPcs
    BY <2>1 DEF BlueGreenPcs
  <2>3. HostTyped /\ job.new \in Names /\ ~isContainerRunning(job.new)
    BY <2>1, <2>2, BlueGreenHas DEF BlueGreenClean
  <2>4. job.new \notin loaded
    BY <2>3, BoxOf
  <2> QED BY <2>1, <2>3, <2>4, RemovalServes
<1>3. CASE RunNewColor
  <2>1. pc = "bg_run"
    BY <1>3 DEF RunNewColor, RunThen, Step, GoTo, Return
  <2>2. job.new \in Names
    BY <2>1, BlueGreenHas DEF BlueGreenPcs
  <2> QED BY <1>3, <2>2, RunThenServes DEF RunNewColor
<1>4. CASE CheckNewColor
  <2>1. pc = "bg_check"
    BY <1>4 DEF CheckNewColor, CheckThen, Step, GoTo
  <2>2. job.new \in Names
    BY <2>1, BlueGreenHas DEF BlueGreenPcs
  <2> QED BY <1>4, <2>2, CheckThenServes DEF CheckNewColor
<1>5. CASE AbandonNewColor
  <2>1. pc = "bg_abandon" /\ removeContainerIfExists(job.new)
    BY <1>5 DEF AbandonNewColor, Return
  <2>2. pc \in BlueGreenPcs
    BY <2>1 DEF BlueGreenPcs
  <2>3. job.new \in Names /\ job.new \notin loaded
    BY <2>1, <2>2, BlueGreenHas DEF BlueGreenClean
  <2> QED BY <2>1, <2>3, RemovalServes
<1>6. CASE SwitchProxy
  BY <1>6, RouteThenServes DEF SwitchProxy
<1>7. CASE DrainOldColor
  <2>1. /\ pc = "bg_drain"
        /\ IF job.old # None /\ isContainerRunning(job.old) THEN removeContainerIfExists(job.old) ELSE UNCHANGED host
    BY <1>7 DEF DrainOldColor, Return
  <2>2. pc \in BlueGreenPcs
    BY <2>1 DEF BlueGreenPcs
  <2>3. job.old \in {blue, green, None} \ {job.new} /\ loaded = {job.new}
    BY <2>1, <2>2, BlueGreenHas DEF BlueGreenOK
  <2>4. UNCHANGED host \/ (job.old \in Names /\ removeContainerIfExists(job.old) /\ job.old \notin loaded)
    BY <2>1, <2>3 DEF Names
  <2>5. CASE UNCHANGED host
    BY <2>5, KeepsServing
  <2>6. CASE job.old \in Names /\ removeContainerIfExists(job.old) /\ job.old \notin loaded
    BY <2>6, RemovalServes
  <2> QED BY <2>4, <2>5, <2>6
<1> QED BY <1>1, <1>2, <1>3, <1>4, <1>5, <1>6, <1>7 DEF BlueGreenStep

LEMMA CanaryServes == ASSUME LocalInv, ~mishap, Serving, CanaryStep PROVE Serving'
<1>1. stable \in Names /\ canary \in Names /\ stable # canary
  BY NamesDiffer DEF Names
<1>2. ASSUME NEW n \in Names, removeContainerIfExists(n), n \notin loaded PROVE Serving'
  BY <1>2, RemovalServes
<1>3. CASE LookForStable
  BY <1>3, KeepsServing DEF LookForStable
<1>4. CASE RunFirst \/ RunCanary \/ RunStable
  BY <1>1, <1>4, RunThenServes DEF RunFirst, RunCanary, RunStable
<1>5. CASE CheckFirst \/ CheckCanary \/ CheckStable \/ Observe
  BY <1>1, <1>5, CheckThenServes DEF CheckFirst, CheckCanary, CheckStable, Observe
<1>6. CASE RouteFirst \/ RouteBack \/ RouteToCanary \/ RouteToStable
  <2>1. {stable} # {} /\ {canary} # {}
    OBVIOUS
  <2> QED BY <1>6, <2>1, RouteThenServes DEF RouteFirst, RouteBack, RouteToCanary, RouteToStable
<1>7. CASE ShiftTraffic
  <2>1. PICK whole \in BOOLEAN : writeAndReloadNginx(StageTargets(whole)) \/ ReloadRefused(StageTargets(whole))
    BY <1>7 DEF ShiftTraffic
  <2>2. StageTargets(whole) # {}
    BY DEF StageTargets
  <2> QED BY <2>1, <2>2, KeepsServing
<1>8. CASE AbandonFirst
  <2>1. pc = "cn_first_abandon" /\ removeContainerIfExists(stable)
    BY <1>8 DEF AbandonFirst, Return
  <2>2. stable \notin loaded
    BY <2>1, CanaryHas DEF CanaryPcs, CanaryClean
  <2> QED BY <1>1, <1>2, <2>1, <2>2
<1>9. CASE ClearCanary
  <2>1. pc = "cn_clear" /\ removeContainerIfExists(canary)
    BY <1>9 DEF ClearCanary, GoTo
  <2>2. canary \notin loaded
    BY <2>1, CanaryHas DEF CanaryPcs, CanaryClean
  <2> QED BY <1>1, <1>2, <2>1, <2>2
<1>10. CASE AbandonCanary
  <2>1. pc = "cn_abandon" /\ removeContainerIfExists(canary)
    BY <1>10 DEF AbandonCanary, Return
  <2>2. canary \notin loaded
    BY <2>1, CanaryHas DEF CanaryPcs, CanaryClean
  <2> QED BY <1>1, <1>2, <2>1, <2>2
<1>11. CASE DropStable \/ KeepCanary
  <2>1. pc \in {"cn_drop_stable", "cn_keep_canary"} /\ removeContainerIfExists(stable)
    BY <1>11 DEF DropStable, KeepCanary, Step, GoTo, Return
  <2>2. loaded = {canary}
    BY <2>1, CanaryHas DEF CanaryPcs, CanaryClean
  <2> QED BY <1>1, <1>2, <2>1, <2>2
<1>12. CASE DropCanary
  <2>1. pc = "cn_drop_canary" /\ removeContainerIfExists(canary)
    BY <1>12 DEF DropCanary, Return
  <2>2. loaded = {stable}
    BY <2>1, CanaryHas DEF CanaryPcs, CanaryOK
  <2> QED BY <1>1, <1>2, <2>1, <2>2
<1> QED BY <1>3, <1>4, <1>5, <1>6, <1>7, <1>8, <1>9, <1>10, <1>11, <1>12 DEF CanaryStep

LEMMA RollingStepServes == ASSUME LocalInv, ~mishap, Serving, ~Restoring, ~AllAtOnce, RollingStep PROVE Serving'
<1>1. ASSUME NEW n \in Names, removeContainerIfExists(n), n \notin loaded PROVE Serving'
  BY <1>1, RemovalServes
<1>2. CASE DiscoverInstances
  BY <1>2 DEF DiscoverInstances, Serving, host
<1>3. CASE ExcludeBatch \/ RejoinBatch
  <2>1. PICK S : updateNginxForRunningInstances(S)
    BY <1>3 DEF ExcludeBatch, RejoinBatch
  <2> QED BY <2>1, UpdateServes
<1>4. CASE DropInstance
  <2>1. /\ pc = "rl_drop"
        /\ IF isContainerRunning(job.cursor) THEN removeContainerIfExists(job.cursor) ELSE UNCHANGED host
    BY <1>4 DEF DropInstance, GoTo
  <2>2. pc \in RollingPcs
    BY <2>1 DEF RollingPcs, UpdatePcs
  <2>3. job.cursor \in Batch /\ job.size >= 1
    BY <2>1, <2>2, RollingHas DEF RollingOK, UpdatePcs
  <2>4. job.batch >= job.size \/ loaded = RunningInstances \ Batch
    BY <2>1, <2>2, RollingHas DEF CapacityClean, UpdatePcs
  <2>5. job.cursor \notin loaded
    <3>1. ~(job.batch >= job.size)
      BY <2>2, <2>3, RollingHas DEF AllAtOnce
    <3> QED BY <2>3, <2>4, <3>1
  <2>6. job.cursor \in Names
    BY <2>2, <2>3, RollingHas, BatchOf, NamesDiffer
  <2>7. CASE UNCHANGED host
    BY <2>7, KeepsServing
  <2>8. CASE removeContainerIfExists(job.cursor)
    BY <1>1, <2>5, <2>6, <2>8
  <2> QED BY <2>1, <2>7, <2>8
<1>5. CASE RunInstance \/ InstanceHealthy \/ InstanceUnhealthy
  <2>1. pc \in {"rl_run", "rl_check"}
    BY <1>5 DEF RunInstance, InstanceHealthy, InstanceUnhealthy, RunThen, Step, GoTo, Return
  <2>2. pc \in RollingPcs
    BY <2>1 DEF RollingPcs, UpdatePcs
  <2>3. job.at \in Names
    BY <2>1, <2>2, RollingHas, BatchOf, NamesDiffer DEF RollingOK
  <2>4. CASE RunInstance
    BY <2>3, <2>4, RunThenServes DEF RunInstance
  <2>5. CASE InstanceHealthy \/ InstanceUnhealthy
    <3>1. \E passed \in BOOLEAN : checkHealthViaDocker(job.at, passed)
      BY <2>5 DEF InstanceHealthy, InstanceUnhealthy
    <3> QED BY <2>3, <3>1, KeepsServing
  <2> QED BY <1>5, <2>4, <2>5
<1>6. CASE RemoveUpdated \/ RestoreInstance \/ NextToRestore \/ RefreshAfterRollback
  <2>1. Restoring
    BY <1>6 DEF RemoveUpdated, RestoreInstance, NextToRestore, RefreshAfterRollback, RunThen, Step, GoTo, Return, Restoring
  <2> QED BY <2>1
<1>7. CASE ClearFirstInstance
  <2>1. pc = "rl_first" /\ removeContainerIfExists(job.at)
    BY <1>7 DEF ClearFirstInstance, Step, GoTo
  <2>2. job.at \in Names /\ job.at \notin loaded
    BY <2>1, FirstHas DEF FirstPcs
  <2> QED BY <1>1, <2>1, <2>2
<1>8. CASE RunFirstInstance \/ FirstInstanceHealthy \/ FirstInstanceUnhealthy
  <2>1. pc \in {"rl_first_run", "rl_first_check"}
    BY <1>8 DEF RunFirstInstance, FirstInstanceHealthy, FirstInstanceUnhealthy, RunThen, Step, GoTo, Return
  <2>2. job.at \in Names
    BY <2>1, FirstHas DEF FirstPcs
  <2>3. CASE RunFirstInstance
    BY <2>2, <2>3, RunThenServes DEF RunFirstInstance
  <2>4. CASE FirstInstanceHealthy \/ FirstInstanceUnhealthy
    <3>1. \E passed \in BOOLEAN : checkHealthViaDocker(job.at, passed)
      BY <2>4 DEF FirstInstanceHealthy, FirstInstanceUnhealthy
    <3> QED BY <2>2, <3>1, KeepsServing
  <2> QED BY <1>8, <2>3, <2>4
<1>9. CASE CleanFirst
  <2>1. pc = "rl_first_clean" /\ removeContainerIfExists(job.cursor)
    BY <1>9 DEF CleanFirst, GoTo, Return
  <2>2. pc \in FirstPcs /\ pc \in RollingPcs
    BY <2>1 DEF FirstPcs, RollingPcs
  <2>3. job.cursor \in 0 .. job.count - 1
    BY <2>1, <2>2, FirstHas, RollingHas
  <2>4. job.cursor \in Names /\ job.cursor \notin loaded
    BY <2>2, <2>3, FirstHas, RollingHas, NamesDiffer
  <2> QED BY <1>1, <2>1, <2>4
<1>10. CASE RouteFirstInstances
  <2>1. pc = "rl_first_route"
    BY <1>10 DEF RouteFirstInstances, RouteThen, Step, GoTo, Return
  <2>2. FirstInstances # {}
    <3>1. 0 \in 0 .. job.count - 1 /\ 0 < job.count /\ 0 .. job.count - 1 \subseteq Ordinals
      BY <2>1, RollingHas DEF RollingPcs, FirstPcs
    <3> QED BY <3>1 DEF FirstInstances
  <2> QED BY <1>10, <2>2, RouteThenServes DEF RouteFirstInstances
<1> QED BY <1>2, <1>3, <1>4, <1>5, <1>6, <1>7, <1>8, <1>9, <1>10 DEF RollingStep

LEMMA StepServes ==
    ASSUME LocalInv, [Next]_vars, Serving, ~mishap', ~Restoring, ~AllAtOnce PROVE Serving'
<1>1. CASE createDeployer
  <2>1. UNCHANGED host
    BY <1>1, DeployAssumption DEF createDeployer, Begin
  <2> QED BY <2>1, KeepsServing
<1>2. CASE DeployerStep
  <2>1. mishap' = mishap
    BY <1>2 DEF DeployerStep, Finish, Return,
      BlueGreenStep, ChooseColors, ClearNewColor, RunNewColor, CheckNewColor, AbandonNewColor, SwitchProxy, DrainOldColor,
      CanaryStep, LookForStable, RunFirst, CheckFirst, AbandonFirst, RouteFirst, ClearCanary, RunCanary, CheckCanary,
      AbandonCanary, ShiftTraffic, Observe, RouteBack, RouteToCanary, DropStable, RunStable, CheckStable, KeepCanary,
      RouteToStable, DropCanary,
      RollingStep, DiscoverInstances, ExcludeBatch, DropInstance, RunInstance, InstanceHealthy, InstanceUnhealthy,
      RemoveUpdated, RestoreInstance, NextToRestore, RefreshAfterRollback, RejoinBatch, ClearFirstInstance,
      RunFirstInstance, FirstInstanceHealthy, FirstInstanceUnhealthy, CleanFirst, RouteFirstInstances,
      RunThen, CheckThen, RouteThen, Step, GoTo
  <2>2. CASE Finish
    BY <2>2, KeepsServing DEF Finish
  <2> QED BY <1>2, <2>1, <2>2, BlueGreenServes, CanaryServes, RollingStepServes DEF DeployerStep
<1>3. CASE Mishap
  BY <1>3 DEF Mishap
<1>4. CASE UNCHANGED vars
  BY <1>4, KeepsServing DEF vars
<1> QED BY <1>1, <1>2, <1>3, <1>4 DEF Next

(* Zero downtime: once the project is served, no step of a deployment leaves *)
(* its proxy without a container it can reach, but for the two cases that    *)
(* the property names (docker-local-deployer.ts,                             *)
(* docker-local-canary-deployer.ts, docker-local-rolling-deployer.ts).       *)
THEOREM LocalUninterrupted == Spec => Uninterrupted
<1>1. LocalInv /\ [Next]_vars => [Serving /\ ~mishap' /\ ~Restoring /\ ~AllAtOnce => Serving']_vars
  BY StepServes
<1> QED BY <1>1, LocalDeployInvariant, PTL DEF Spec, Uninterrupted
-----------------------------------------------------------------------------
(* Deployments to the local Docker host, and the health monitor beside     *)
(* them.                                                                   *)

\* The calls of the monitor: the swap of the colours, the exchange in place, and
\* where two colours may run between deployments.
RollbackSteps == {"rb_clear", "rb_run", "rb_check", "rb_undo", "rb_switch", "rb_drop"}
InPlaceSteps == {"ip_remove", "ip_run", "ip_check", "ip_reload"}
BesideSteps == {"rb_check", "rb_undo", "rb_switch", "rb_drop"}

\* The project is deployed with two colours, with instances, or with canaries.
HasColours == job.deployment # 0 /\ job.strategy = "blue_green"
HasInstances == job.deployment # 0 /\ job.strategy = "rolling"
HasCanary == job.deployment # 0 /\ job.strategy = "canary"

\* What a project keeps of its first deployment on, whatever overlaps.
JobNamed ==
  /\ DOMAIN job = DOMAIN NoJob /\ job.deployment \in Nat
  /\ IF job.deployment = 0 THEN job.strategy = None ELSE job.strategy \in Strategies

\* Neither of the two has acted beside the other, and there is no canary.
Regular == ~overlapped /\ ~HasCanary

\* Where the blue-green driver is, which colours run; between deployments one.
ColoursApart == HasColours =>
  /\ Running \subseteq {blue, green}
  /\ IF pc \in BlueGreenPcs \ {"bg_choose"}
       THEN /\ job.new \in {blue, green} /\ job.old # job.new
            /\ Running \subseteq {job.old, job.new}
            /\ Running \subseteq {job.new} \/ proxy
       ELSE /\ Running = {} \/ proxy
            /\ step \in BesideSteps \/ ~({blue, green} \subseteq Running)
  /\ pc = "bg_run" => job.new \notin Running
  /\ pc \in {"bg_check", "bg_abandon", "bg_switch", "bg_drain"} => job.new \in Running
  /\ pc = "bg_drain" => proxy

\* Where the rolling driver is, which instances run; between deployments all
\* of them are upstreams in the configuration.
InstancesAt ==
  /\ Running \subseteq Ordinals
  /\ pc \in {"idle", "done"} => Running \subseteq conf
  /\ pc = "rl_start" => job.at = 0 /\ job.base = 0 /\ job.cursor = 0
  /\ pc \in UndoPcs \cup (FirstPcs \ {"rl_first_route"}) => job.cursor <= job.at /\ job.at < job.count
  /\ pc \in FirstPcs \ {"rl_first_clean"} => job.cursor = 0
  /\ pc \in {"rl_first", "rl_first_run"} => \A o \in Running : o < job.at
  /\ pc = "rl_first_check" => \A o \in Running : o <= job.at
  /\ pc = "rl_first_clean" => \A o \in Running : job.cursor <= o /\ o <= job.at
  /\ pc = "rl_first_route" => Running \subseteq FirstInstances
  /\ pc \in UpdatePcs => job.base < job.count
  /\ pc \in {"rl_exclude", "rl_drop"} => job.at = job.base
  /\ pc = "rl_exclude" => job.cursor = job.base
  /\ pc = "rl_drop" => job.cursor \in Batch /\ \A o \in Batch : o < job.cursor => o \notin Running
  /\ pc \in {"rl_run", "rl_check"} => job.at \in Batch
  /\ pc = "rl_run" => \A o \in Batch : o >= job.at => o \notin Running
  /\ pc = "rl_check" => \A o \in Batch : o > job.at => o \notin Running
  /\ pc = "rl_rejoin" => job.at \in {job.base + job.batch, job.count} /\ job.at <= job.base + job.batch
  /\ pc \in {"rl_undo", "rl_redo", "rl_next"} => job.previous # None
  /\ pc = "rl_redo" => job.cursor \notin Running
  /\ pc = "rl_next" => job.cursor < job.at

InstancesKnown == HasInstances => InstancesAt

\* What the monitor keeps of a deployment.
EntryTyped(id) ==
  /\ DOMAIN monitored[id] = {"window", "restarts", "waits", "strategy", "container", "image", "previous"}
  /\ monitored[id].restarts \in Nat
  /\ monitored[id].previous \in Images \cup {None}
  /\ monitored[id].strategy = IF HasColours THEN "blue_green" ELSE "other"

\* The container that a step is about can be remedied: it is one colour and
\* runs, or an instance that nginx is configured with.
Remedied(id) ==
  /\ id \in DOMAIN monitored /\ id \in Nat
  /\ HasColours => monitored[id].container \in {blue, green}
  /\ HasInstances => monitored[id].container \in Ordinals \cap conf

MonitorTyped ==
  /\ step \in {"idle", "check", "restart"} \cup RollbackSteps \cup InPlaceSteps
  /\ step # "idle" => pc = "idle" /\ job.deployment # 0
  /\ job.deployment = 0 => DOMAIN monitored = {}
  /\ \A id \in DOMAIN monitored : EntryTyped(id)
  /\ step # "idle" => \A id \in todo : Remedied(id)
  /\ step \notin {"idle", "check"} => Remedied(cur)
  /\ HasColours => /\ step \notin InPlaceSteps
                   /\ step = "check" => \A i, j \in todo : i = j
                   /\ step \notin {"idle", "check"} => todo = {}
                   /\ step = "check" => \A id \in todo : monitored[id].container \in Running
  /\ HasInstances => step \notin RollbackSteps

\* What the monitor has made sure of at each step of a rollback.
RolledTo(n) == n \in Running /\ box[n].image = ref.previous

RollbackKnows ==
  /\ step \in {"rb_clear", "rb_run", "ip_remove", "ip_run"} => ref.previous # None
  /\ step \in {"restart", "rb_clear", "rb_run"} /\ HasColours => ref.container \in Running
  /\ step = "rb_run" => Opposite \notin Running
  /\ step \in BesideSteps => RolledTo(Opposite) /\ proxy
  /\ step \in {"rb_check", "rb_undo"} => Opposite \notin loaded
  /\ step \in {"rb_switch", "rb_drop"} => box[Opposite].check = "passed"
  /\ step = "rb_drop" => loaded = {Opposite}
  /\ step = "ip_run" => ref.container \notin Running
  /\ step \in {"ip_check", "ip_reload"} => RolledTo(ref.container)
  /\ step = "ip_reload" => box[ref.container].check = "passed"

Healed ==
  /\ DeployTyped /\ Driven /\ ~mishap /\ NoneExited
  /\ ColoursApart /\ InstancesKnown /\ MonitorTyped /\ RollbackKnows

HealInv == JobNamed /\ (Regular => Healed)

-----------------------------------------------------------------------------
\* Without switching, a project keeps its strategy from its first deployment on.
LEMMA BeginKeepsJob ==
    ASSUME ~Switching, JobNamed, createDeployer PROVE JobNamed' /\ (HasCanary => HasCanary')
<1>0. PICK image \in Images, strategy \in Strategies :
        /\ job.strategy \in {None, strategy}
        /\ CASE strategy = "blue_green" -> Begin(strategy, "bg_choose", image, 1, 1)
             [] strategy = "canary" -> Begin(strategy, "cn_start", image, 1, 1)
             [] strategy = "rolling" ->
                  \E count \in Counts, batch \in Batches :
                    Begin(strategy, "rl_start", image, count, IF batch < count THEN batch ELSE count)
  BY DEF createDeployer
<1>1. \E first, count, batch : Begin(strategy, first, image, count, batch)
  <2>1. strategy \in {"blue_green", "canary", "rolling"}
    BY DeployAssumption
  <2> QED BY <1>0, <2>1
<1>2. PICK first, count, batch : Begin(strategy, first, image, count, batch)
  BY <1>1
<1>3. DOMAIN job' = DOMAIN NoJob /\ job'.strategy = strategy /\ job'.deployment = job.deployment + 1
  BY <1>2 DEF Begin, NoJob
<1>4. job'.deployment \in Nat /\ job'.deployment # 0
  BY <1>3 DEF JobNamed
<1>5. HasCanary => strategy = "canary"
  BY <1>0, DeployAssumption DEF HasCanary, JobNamed
<1> QED BY <1>3, <1>4, <1>5 DEF JobNamed, HasCanary

JobStays == job'.strategy = job.strategy /\ job'.deployment = job.deployment /\ DOMAIN job' = DOMAIN job

LEMMA StepKeepsJob == ASSUME JobNamed, DeployerStep PROVE JobStays
<1>1. "strategy" \in DOMAIN job /\ "deployment" \in DOMAIN job
  BY DEF JobNamed, NoJob
<1>2. CASE BlueGreenStep
  BY <1>1, <1>2 DEF BlueGreenStep, ChooseColors, ClearNewColor, RunNewColor, CheckNewColor, AbandonNewColor, SwitchProxy,
     DrainOldColor, RunThen, CheckThen, RouteThen, Return, Step, GoTo, JobStays
<1>3. CASE CanaryStep
  <2>1. CASE ClearCanary \/ ShiftTraffic
    BY <1>1, <2>1 DEF ClearCanary, ShiftTraffic, Return, GoTo, JobStays
  <2>2. CASE ~(ClearCanary \/ ShiftTraffic)
    <3>1. UNCHANGED job
      BY <1>3, <2>2 DEF CanaryStep, LookForStable, RunFirst, CheckFirst, AbandonFirst, RouteFirst, RunCanary, CheckCanary,
         AbandonCanary, Observe, RouteBack, RouteToCanary, DropStable, RunStable, CheckStable, KeepCanary,
         RouteToStable, DropCanary, RunThen, CheckThen, RouteThen, Return, Step
    <3> QED BY <3>1 DEF JobStays
  <2> QED BY <2>1, <2>2
<1>4. CASE RollingStep
  BY <1>1, <1>4 DEF RollingStep, DiscoverInstances, ExcludeBatch, DropInstance, RunInstance, InstanceHealthy,
     InstanceUnhealthy, RemoveUpdated, RestoreInstance, NextToRestore, RefreshAfterRollback, RejoinBatch,
     ClearFirstInstance, RunFirstInstance, FirstInstanceHealthy, FirstInstanceUnhealthy, CleanFirst,
     RouteFirstInstances, RunThen, CheckThen, RouteThen, Return, Step, GoTo, JobStays
<1>5. CASE Finish
  BY <1>5 DEF Finish, Return, JobStays
<1> QED BY <1>2, <1>3, <1>4, <1>5 DEF DeployerStep

\* A step of a driver leaves the monitor between its ticks.
LEMMA DriverFrame ==
    ASSUME Healed, UNCHANGED monitor, Onward, pc # "idle",
           \/ pc' = "idle"
           \/ pc \in BlueGreenPcs /\ pc' \in BlueGreenPcs
           \/ pc \in RollingPcs /\ pc' \in RollingPcs \cup {"done"},
           \A n \in Names : box'[n].state \in {box[n].state, "absent", "running"},
           ColoursApart', InstancesKnown'
    PROVE  Healed'
<1>1. DeployTyped' /\ Driven'
  BY DrivenFrom DEF Healed
<1>2. ~mishap' /\ NoneExited'
  BY DEF Healed, Onward, NoneExited
<1>3. /\ step = "idle" /\ step' = "idle" /\ monitored' = monitored
      /\ (HasColours' <=> HasColours) /\ job'.deployment = job.deployment
  BY DEF Healed, MonitorTyped, monitor, Onward, HasColours
<1>4. MonitorTyped'
  <2>1. \A id \in DOMAIN monitored' : EntryTyped(id)'
    BY <1>3 DEF Healed, MonitorTyped, EntryTyped
  <2> QED BY <1>3, <2>1 DEF Healed, MonitorTyped, RollbackSteps, InPlaceSteps
<1>5. RollbackKnows'
  BY <1>3 DEF RollbackKnows, BesideSteps
<1> QED BY <1>1, <1>2, <1>4, <1>5 DEF Healed

LEMMA BlueGreenSees ==
    ASSUME Healed, pc \in BlueGreenPcs
    PROVE  /\ HasColours /\ ~HasInstances /\ pc # "idle" /\ step = "idle"
           /\ DeployTyped /\ HostTyped /\ NoneExited /\ job.image \in Images /\ job.deployment \in Nat
           /\ job.previous \in Images \cup {None} /\ Running \subseteq {blue, green}
           /\ pc = "bg_choose" => ~({blue, green} \subseteq Running) /\ (Running = {} \/ proxy)
           /\ pc # "bg_choose" =>
                /\ job.new \in Names /\ job.new \in {blue, green} /\ job.old \in {blue, green, None} \ {job.new}
                /\ Running \subseteq {job.old, job.new} /\ (Running \subseteq {job.new} \/ proxy)
<1>1. HasColours /\ ~HasInstances /\ pc # "idle" /\ step = "idle" /\ job.image \in Images
  BY DEF Healed, Driven, HasColours, HasInstances, MonitorTyped, BlueGreenPcs
<1>2. DeployTyped /\ HostTyped /\ NoneExited /\ ColoursApart
  BY DEF Healed, DeployTyped
<1>3. job.old \in {blue, green, None}
  BY <1>2 DEF DeployTyped, Jobs
<1>4. Running \subseteq {blue, green}
  BY <1>1, <1>2 DEF ColoursApart
<1>5. pc = "bg_choose" => ~({blue, green} \subseteq Running) /\ (Running = {} \/ proxy)
  BY <1>1, <1>2 DEF ColoursApart, BesideSteps
<1>6. pc # "bg_choose" => /\ job.new \in {blue, green} /\ job.old # job.new
                          /\ Running \subseteq {job.old, job.new} /\ (Running \subseteq {job.new} \/ proxy)
  BY <1>1, <1>2 DEF ColoursApart
<1> QED BY <1>1, <1>2, <1>3, <1>4, <1>5, <1>6, JobOf DEF Names

\* The blue-green driver goes on.
LEMMA ColoursGoOn ==
    ASSUME Healed, UNCHANGED monitor, Onward, pc \in BlueGreenPcs, pc' \in BlueGreenPcs \ {"bg_choose"},
           \A n \in Names : box'[n].state \in {box[n].state, "absent", "running"},
           job'.new \in {blue, green}, job'.old # job'.new, Running' \subseteq {job'.old, job'.new},
           Running' \subseteq {job'.new} \/ proxy',
           pc' = "bg_run" => job'.new \notin Running',
           pc' \in {"bg_check", "bg_abandon", "bg_switch", "bg_drain"} => job'.new \in Running',
           pc' = "bg_drain" => proxy'
    PROVE  Healed'
<1>1. ~HasInstances' /\ pc # "idle"
  BY BlueGreenSees DEF HasInstances, HasColours, Onward
<1>2. Running' \subseteq {blue, green}
  <2>1. Running' \subseteq Names /\ job'.old \in {blue, green, None}
    BY DEF Running, Onward, Jobs
  <2> QED BY <2>1, NamesDiffer
<1>3. ColoursApart'
  BY <1>2 DEF ColoursApart
<1> QED BY <1>1, <1>3, DriverFrame DEF InstancesKnown

\* The blue-green driver returns.
LEMMA ColoursReturn ==
    ASSUME Healed, UNCHANGED monitor, Onward, pc \in BlueGreenPcs, pc' = "idle",
           \A n \in Names : box'[n].state \in {box[n].state, "absent", "running"},
           Running' \subseteq {blue, green}, ~({blue, green} \subseteq Running'), Running' = {} \/ proxy'
    PROVE  Healed'
<1>1. ~HasInstances' /\ pc # "idle"
  BY BlueGreenSees DEF HasInstances, HasColours, Onward
<1>2. ColoursApart'
  BY DEF ColoursApart, BlueGreenPcs
<1> QED BY <1>1, <1>2, DriverFrame DEF InstancesKnown

LEMMA ChooseColorsHeals == ASSUME Healed, UNCHANGED monitor, ChooseColors PROVE Healed'
<1>1. pc = "bg_choose" /\ pc' = "bg_clear" /\ UNCHANGED <<verdict, mishap, host>>
  BY DEF ChooseColors, GoTo
<1>2. pc \in BlueGreenPcs /\ pc' \in BlueGreenPcs \ {"bg_choose"}
  BY <1>1 DEF BlueGreenPcs
<1> DEFINE old == getCurrentColor
           new == getOppositeColor(getCurrentColor)
<1>3. old \in {blue, green, None} \ {new} /\ new \in {blue, green}
  BY NamesDiffer DEF getCurrentColor, getOppositeColor, Names
<1>4. job' = [job EXCEPT !.old = old, !.new = new]
  BY DEF ChooseColors
<1>5. HostTyped' /\ box' = box /\ Running' = Running /\ proxy' = proxy
  BY <1>1, <1>2, BlueGreenSees, NoEffect DEF host
<1>6. Running \subseteq {old}
  <2>1. /\ Running \subseteq {blue, green} /\ ~({blue, green} \subseteq Running)
        /\ \A n \in {blue, green} : n \in Running <=> isContainerRunning(n)
    BY <1>1, <1>2, BlueGreenSees DEF Running, Names
  <2> QED BY <2>1 DEF getCurrentColor
<1> HIDE DEF old, new
<1>7. Onward /\ job'.old = old /\ job'.new = new
  BY <1>1, <1>2, <1>3, <1>4, <1>5, BlueGreenSees DEF Onward, DeployTyped, Jobs
<1> QED BY <1>1, <1>2, <1>3, <1>5, <1>6, <1>7, BlueGreenSees, ColoursGoOn

LEMMA ClearNewColorHeals == ASSUME Healed, UNCHANGED monitor, ClearNewColor PROVE Healed'
<1> DEFINE previous == IF job.old = None \/ box[job.old].image = None
                         THEN None ELSE resolvePreviousImage(box[job.old], job.image)
<1>1. /\ pc = "bg_clear" /\ pc' = "bg_run" /\ UNCHANGED <<verdict, mishap>> /\ removeContainerIfExists(job.new)
      /\ job' = [job EXCEPT !.previous = previous]
  BY DEF ClearNewColor, GoTo
<1>2. pc \in BlueGreenPcs /\ pc' \in BlueGreenPcs \ {"bg_choose"}
  BY <1>1 DEF BlueGreenPcs
<1>3. /\ job.new \in Names /\ job.new \in {blue, green} /\ job.old \in {blue, green, None} \ {job.new}
      /\ Running \subseteq {job.old, job.new} /\ (Running \subseteq {job.new} \/ proxy)
  BY <1>1, <1>2, BlueGreenSees
<1>4. /\ HostTyped' /\ Running' = Running \ {job.new}
      /\ OthersStay(job.new) /\ box'[job.new].state = "absent" /\ proxy' = proxy
  BY <1>1, <1>2, <1>3, BlueGreenSees, RemoveEffect
<1>5. previous \in Images \cup {None}
  <2>1. job.old # None => box[job.old] \in Boxes
    BY <1>2, <1>3, BlueGreenSees, BoxOf, NamesDiffer DEF Names
  <2> QED BY <2>1, <1>2, BlueGreenSees DEF Boxes, resolvePreviousImage
<1> HIDE DEF previous
<1>6. Onward /\ job'.old = job.old /\ job'.new = job.new
  BY <1>1, <1>2, <1>4, <1>5, BlueGreenSees DEF Onward, DeployTyped, Jobs
<1>7. \A n \in Names : box'[n].state \in {box[n].state, "absent", "running"}
  BY <1>4 DEF OthersStay
<1> QED BY <1>1, <1>2, <1>3, <1>4, <1>6, <1>7, ColoursGoOn

LEMMA RunNewColorHeals == ASSUME Healed, UNCHANGED monitor, RunNewColor PROVE Healed'
<1>1. pc = "bg_run"
  BY DEF RunNewColor, RunThen, Step, GoTo, Return
<1>2. pc \in BlueGreenPcs
  BY <1>1 DEF BlueGreenPcs
<1>3. /\ job.new \in Names /\ job.new \in {blue, green} /\ job.old \in {blue, green, None} \ {job.new}
      /\ Running \subseteq {job.old, job.new} /\ (Running \subseteq {job.new} \/ proxy)
      /\ job.new \notin Running
  BY <1>1, <1>2, BlueGreenSees DEF Healed, ColoursApart
<1>4. box[job.new].state = "absent"
  BY <1>2, <1>3, BlueGreenSees, BoxOf DEF NoneExited, Boxes, ContainerStates
<1>5. /\ pc' = "bg_check" /\ UNCHANGED <<job, verdict, mishap>>
      /\ runContainer(job.new, job.image, job.previous, job.deployment)
  BY <1>4 DEF RunNewColor, RunThen, Step, GoTo
<1>6. /\ HostTyped' /\ Running' = Running \cup {job.new}
      /\ OthersStay(job.new) /\ box'[job.new].state = "running" /\ proxy' = proxy
  BY <1>2, <1>3, <1>5, BlueGreenSees, RunEffect
<1>7. Onward /\ pc' \in BlueGreenPcs \ {"bg_choose"}
  BY <1>2, <1>5, <1>6, BlueGreenSees, OnwardSame DEF BlueGreenPcs, DeployTyped
<1>8. \A n \in Names : box'[n].state \in {box[n].state, "absent", "running"}
  BY <1>6 DEF OthersStay
<1> QED BY <1>2, <1>3, <1>5, <1>6, <1>7, <1>8, ColoursGoOn

LEMMA CheckNewColorHeals == ASSUME Healed, UNCHANGED monitor, CheckNewColor PROVE Healed'
<1>1. PICK passed \in BOOLEAN : /\ pc = "bg_check" /\ pc' = (IF passed THEN "bg_switch" ELSE "bg_abandon")
                                /\ UNCHANGED <<job, verdict, mishap>> /\ checkHealthViaDocker(job.new, passed)
  BY DEF CheckNewColor, CheckThen, Step, GoTo
<1>2. /\ pc = "bg_check" /\ pc' \in {"bg_switch", "bg_abandon"} /\ pc \in BlueGreenPcs
      /\ pc' \in BlueGreenPcs \ {"bg_choose"}
  BY <1>1 DEF BlueGreenPcs
<1>3. /\ job.new \in Names /\ job.new \in {blue, green} /\ job.old \in {blue, green, None} \ {job.new}
      /\ Running \subseteq {job.old, job.new} /\ (Running \subseteq {job.new} \/ proxy)
      /\ job.new \in Running
  BY <1>2, BlueGreenSees DEF Healed, ColoursApart
<1>4. HostTyped' /\ Running' = Running /\ proxy' = proxy /\ \A n \in Names : Looks(n)
  BY <1>1, <1>2, <1>3, BlueGreenSees, CheckEffect
<1>5. Onward
  BY <1>1, <1>2, <1>4, BlueGreenSees, OnwardSame DEF DeployTyped
<1> QED BY <1>1, <1>2, <1>3, <1>4, <1>5, ColoursGoOn DEF Looks

LEMMA AbandonNewColorHeals == ASSUME Healed, UNCHANGED monitor, AbandonNewColor PROVE Healed'
<1>1. /\ pc = "bg_abandon" /\ pc' = "idle" /\ verdict' = "failure" /\ UNCHANGED <<job, mishap>>
      /\ removeContainerIfExists(job.new)
  BY DEF AbandonNewColor, Return
<1>2. pc \in BlueGreenPcs
  BY <1>1 DEF BlueGreenPcs
<1>3. /\ job.new \in Names /\ job.new \in {blue, green} /\ job.old \in {blue, green, None} \ {job.new}
      /\ Running \subseteq {job.old, job.new} /\ (Running \subseteq {job.new} \/ proxy)
      /\ Running \subseteq {blue, green}
  BY <1>1, <1>2, BlueGreenSees
<1>4. /\ HostTyped' /\ Running' = Running \ {job.new} /\ proxy' = proxy
      /\ OthersStay(job.new) /\ box'[job.new].state = "absent"
  BY <1>1, <1>2, <1>3, BlueGreenSees, RemoveEffect
<1>5. Onward
  BY <1>1, <1>2, <1>4, BlueGreenSees, OnwardSame DEF Verdicts
<1>6. \A n \in Names : box'[n].state \in {box[n].state, "absent", "running"}
  BY <1>4 DEF OthersStay
<1>7. Running' \subseteq {blue, green} /\ ~({blue, green} \subseteq Running') /\ (Running' = {} \/ proxy')
  BY <1>3, <1>4
<1> QED BY <1>1, <1>2, <1>5, <1>6, <1>7, ColoursReturn

LEMMA SwitchProxyHeals == ASSUME Healed, UNCHANGED monitor, SwitchProxy PROVE Healed'
<1>1. pc = "bg_switch"
  BY DEF SwitchProxy, RouteThen, Step, GoTo, Return
<1>2. pc \in BlueGreenPcs
  BY <1>1 DEF BlueGreenPcs
<1>3. /\ job.new \in Names /\ job.new \in {blue, green} /\ job.old \in {blue, green, None} \ {job.new}
      /\ Running \subseteq {job.old, job.new} /\ job.new \in Running
  BY <1>1, <1>2, BlueGreenSees DEF Healed, ColoursApart
<1>4. pc' = "bg_drain" /\ UNCHANGED <<job, verdict, mishap>> /\ writeAndReloadNginx({job.new})
  BY <1>3 DEF SwitchProxy, RouteThen, Step, GoTo
<1>5. HostTyped' /\ box' = box /\ Running' = Running /\ proxy'
  BY <1>2, <1>4, BlueGreenSees, RouteEffect
<1>6. Onward /\ pc' \in BlueGreenPcs \ {"bg_choose"}
  BY <1>2, <1>4, <1>5, BlueGreenSees, OnwardSame DEF DeployTyped, BlueGreenPcs
<1> QED BY <1>2, <1>3, <1>4, <1>5, <1>6, ColoursGoOn

LEMMA DrainOldColorHeals == ASSUME Healed, UNCHANGED monitor, DrainOldColor PROVE Healed'
<1> DEFINE drains == job.old # None /\ isContainerRunning(job.old)
<1>1. /\ pc = "bg_drain" /\ pc' = "idle" /\ verdict' = "success" /\ UNCHANGED <<job, mishap>>
      /\ IF drains THEN removeContainerIfExists(job.old) ELSE UNCHANGED host
  BY DEF DrainOldColor, Return
<1>2. pc \in BlueGreenPcs
  BY <1>1 DEF BlueGreenPcs
<1>3. /\ job.new \in {blue, green} /\ job.old \in {blue, green, None} \ {job.new}
      /\ Running \subseteq {job.old, job.new} /\ proxy
  BY <1>1, <1>2, BlueGreenSees DEF Healed, ColoursApart
<1>4. /\ HostTyped' /\ Running' \subseteq {job.new} /\ proxy'
      /\ \A n \in Names : box'[n].state \in {box[n].state, "absent", "running"}
  <2>1. CASE drains
    <3>1. job.old \in Names /\ removeContainerIfExists(job.old)
      BY <1>1, <1>3, <2>1 DEF Names
    <3>2. /\ HostTyped' /\ Running' = Running \ {job.old} /\ proxy' = proxy
          /\ OthersStay(job.old) /\ box'[job.old].state = "absent"
      BY <1>2, <3>1, RemoveEffect, BlueGreenSees
    <3> QED BY <1>3, <3>2 DEF OthersStay
  <2>2. CASE ~drains
    <3>1. HostTyped' /\ box' = box /\ Running' = Running /\ proxy'
      BY <1>1, <1>2, <1>3, <2>2, NoEffect, BlueGreenSees DEF host
    <3>2. job.old \notin Running
      BY <2>2, NamesDiffer DEF Running
    <3> QED BY <1>3, <3>1, <3>2
  <2> QED BY <2>1, <2>2
<1>5. Onward
  BY <1>1, <1>2, <1>4, BlueGreenSees, OnwardSame DEF Verdicts
<1>6. Running' \subseteq {blue, green} /\ ~({blue, green} \subseteq Running')
  BY <1>3, <1>4, NamesDiffer
<1> QED BY <1>1, <1>2, <1>4, <1>5, <1>6, ColoursReturn

\* What of the invariant a step of the rolling driver needs.
LEMMA RollingSees ==
    ASSUME Healed, pc \in RollingPcs
    PROVE  /\ HasInstances /\ pc # "idle" /\ InstancesAt /\ NoneExited
           /\ DeployTyped /\ HostTyped /\ job.image \in Images /\ job.deployment \in Nat
           /\ job.previous \in Images \cup {None} /\ job.carried \in Images \cup {None}
           /\ job.count \in Nat /\ job.count >= 1 /\ job.batch \in Nat /\ job.batch >= 1
           /\ job.base \in Nat /\ job.at \in Nat /\ job.cursor \in Nat
           /\ 0 .. job.count - 1 \subseteq Ordinals
           /\ Running \subseteq Ordinals /\ Running = RunningInstances
<1>1. HasInstances /\ pc # "idle" /\ job.image \in Images /\ 0 .. job.count - 1 \subseteq Ordinals
  BY DEF Healed, Driven, HasInstances, RollingPcs, FirstPcs, UpdatePcs, UndoPcs
<1>2. DeployTyped /\ HostTyped /\ NoneExited /\ InstancesAt
  BY <1>1 DEF Healed, DeployTyped, InstancesKnown
<1>3. Running \subseteq Ordinals /\ Running = RunningInstances
  BY <1>2 DEF InstancesAt, RunningInstances
<1> QED BY <1>1, <1>2, <1>3, JobOf

LEMMA InstancesGoOn ==
    ASSUME Healed, UNCHANGED monitor, Onward, pc \in RollingPcs, pc' \in RollingPcs \cup {"idle", "done"},
           \A n \in Names : box'[n].state \in {box[n].state, "absent", "running"}, InstancesAt'
    PROVE  Healed'
<1>1. ~HasColours' /\ pc # "idle"
  BY RollingSees DEF HasInstances, HasColours, Onward
<1> QED BY <1>1, DriverFrame DEF InstancesKnown, ColoursApart

LEMMA DiscoverInstancesHeals == ASSUME Healed, UNCHANGED monitor, DiscoverInstances PROVE Healed'
<1>1. pc = "rl_start" /\ UNCHANGED <<verdict, mishap, box, conf, loaded, broken>>
  BY DEF DiscoverInstances, Step, GoTo, host
<1>2. pc \in RollingPcs
  BY <1>1 DEF RollingPcs
<1>3. job.at = 0 /\ job.base = 0 /\ job.cursor = 0
  BY <1>1, <1>2, RollingSees DEF InstancesAt
<1>4. HostTyped' /\ box' = box /\ Running' = Running
  <2>1. proxy' = proxy \/ proxy' = TRUE
    BY DEF DiscoverInstances, host
  <2> QED BY <1>1, <1>2, <2>1, RollingSees, NoEffect
<1>5. CASE RunningInstances = {} /\ pc' = "rl_first" /\ job' = job
  <2>1. Onward
    BY <1>1, <1>2, <1>4, <1>5, RollingSees, OnwardSame DEF DeployTyped
  <2>2. pc' \in RollingPcs
    BY <1>5 DEF RollingPcs, FirstPcs
  <2>3. Running' = {}
    BY <1>2, <1>4, <1>5, RollingSees
  <2>4. InstancesAt'
    BY <1>2, <1>3, <1>5, <2>3, RollingSees DEF InstancesAt, UpdatePcs, FirstPcs, UndoPcs
  <2> QED BY <1>2, <1>4, <2>1, <2>2, <2>4, InstancesGoOn
<1>6. CASE /\ RunningInstances # {} /\ pc' = "rl_exclude"
           /\ job' = [job EXCEPT !.previous = resolvePreviousImage(Outgoing, job.image),
                                 !.carried = Outgoing.previous, !.size = Cardinality(RunningInstances)]
  <2>1. PICK lowest \in RunningInstances : Outgoing = box[lowest]
    BY <1>6, LowestInstance
  <2>2. Outgoing \in Boxes /\ Outgoing.image \in Images
    BY <1>2, <2>1, RollingSees, BoxOf DEF RunningInstances
  <2> DEFINE previous == resolvePreviousImage(Outgoing, job.image)
             size == Cardinality(RunningInstances)
             carried == Outgoing.previous
  <2>3. previous \in Images \cup {None} /\ carried \in Images \cup {None}
    BY <2>2 DEF Boxes, resolvePreviousImage
  <2>4. size \in Nat
    BY <1>2, RollingSees, FS_CardinalityType DEF HostTyped
  <2>5. job' = [job EXCEPT !.previous = previous, !.carried = carried, !.size = size]
    BY <1>6
  <2> HIDE DEF previous, size, carried
  <2>6. /\ Onward /\ job'.cursor = 0 /\ job'.base = 0 /\ job'.at = 0
    BY <1>1, <1>2, <1>3, <1>4, <2>3, <2>4, <2>5, RollingSees DEF Onward, DeployTyped, Jobs
  <2>7. pc' \in RollingPcs
    BY <1>6 DEF RollingPcs, UpdatePcs
  <2>8. InstancesAt'
    <3>1. job'.count >= 1 /\ job'.count \in Nat /\ Running' \subseteq Ordinals
      BY <1>2, <1>4, <2>6, RollingSees DEF Onward
    <3> QED BY <1>6, <2>6, <3>1 DEF InstancesAt, UpdatePcs, FirstPcs, UndoPcs
  <2> QED BY <1>2, <1>4, <2>6, <2>7, <2>8, InstancesGoOn
<1> QED BY <1>5, <1>6 DEF DiscoverInstances, Step, GoTo

LEMMA ExcludeBatchHeals == ASSUME Healed, UNCHANGED monitor, ExcludeBatch PROVE Healed'
<1>1. /\ pc = "rl_exclude" /\ pc' = "rl_drop" /\ UNCHANGED <<job, verdict, mishap>>
      /\ updateNginxForRunningInstances(Batch)
  BY DEF ExcludeBatch, Step, GoTo
<1>2. pc \in RollingPcs /\ pc' \in RollingPcs
  BY <1>1 DEF RollingPcs, UpdatePcs
<1>3. HostTyped' /\ box' = box /\ Running' = Running
  BY <1>1, <1>2, RollingSees, UpdateEffect
<1>4. Onward
  BY <1>1, <1>2, <1>3, RollingSees, OnwardSame DEF DeployTyped
<1>5. job.cursor = job.base /\ job.at = job.base /\ job.base < job.count /\ Running \subseteq Ordinals
  BY <1>1, <1>2, RollingSees DEF InstancesAt, UpdatePcs
<1>6. Batch' = Batch
  BY <1>1 DEF Batch
<1>7. job.cursor \in Batch /\ \A o \in Batch : ~(o < job.cursor)
  BY <1>2, <1>5, RollingSees, BatchOf
<1>8. InstancesAt'
  BY <1>1, <1>3, <1>5, <1>6, <1>7 DEF InstancesAt, UpdatePcs, FirstPcs, UndoPcs
<1> QED BY <1>2, <1>3, <1>4, <1>8, InstancesGoOn

LEMMA DropInstanceHeals == ASSUME Healed, UNCHANGED monitor, DropInstance PROVE Healed'
<1>1. /\ pc = "rl_drop" /\ pc' = (IF job.cursor + 1 \in Batch THEN "rl_drop" ELSE "rl_run")
      /\ UNCHANGED <<verdict, mishap>> /\ job' = [job EXCEPT !.cursor = @ + 1]
      /\ IF isContainerRunning(job.cursor) THEN removeContainerIfExists(job.cursor) ELSE UNCHANGED host
  BY DEF DropInstance, GoTo
<1>2. pc \in RollingPcs /\ pc' \in RollingPcs /\ pc' \in {"rl_drop", "rl_run"}
  BY <1>1 DEF RollingPcs, UpdatePcs
<1>3. /\ job.cursor \in Batch /\ job.at = job.base /\ job.base < job.count
      /\ \A o \in Batch : o < job.cursor => o \notin Running
  BY <1>1, <1>2, RollingSees DEF InstancesAt, UpdatePcs
<1> DEFINE InBatch(o) == o \in Nat /\ job.base <= o /\ o < job.base + job.batch /\ o < job.count
<1>4. (\A o : o \in Batch <=> InBatch(o)) /\ Batch \subseteq Ordinals /\ Batch \subseteq Names
  BY <1>2, RollingSees, BatchOf, NamesDiffer
<1>5. /\ HostTyped' /\ Running' = Running \ {job.cursor}
      /\ \A n \in Names : box'[n].state \in {box[n].state, "absent", "running"}
  <2>1. CASE isContainerRunning(job.cursor)
    <3>1. /\ HostTyped' /\ Running' = Running \ {job.cursor} /\ OthersStay(job.cursor)
          /\ box'[job.cursor].state = "absent"
      BY <1>1, <1>2, <1>3, <1>4, <2>1, RollingSees, RemoveEffect
    <3> QED BY <3>1 DEF OthersStay
  <2>2. CASE ~isContainerRunning(job.cursor)
    <3>1. HostTyped' /\ box' = box /\ Running' = Running
      BY <1>1, <1>2, <2>2, RollingSees, NoEffect DEF host
    <3>2. job.cursor \notin Running
      BY <2>2 DEF Running
    <3> QED BY <3>1, <3>2
  <2> QED BY <2>1, <2>2
<1>6. Onward /\ job'.cursor = job.cursor + 1 /\ job'.at = job.at /\ job'.base = job.base
  BY <1>1, <1>2, <1>5, RollingSees DEF Onward, DeployTyped, Jobs
<1>7. Batch' = Batch
  BY <1>6 DEF Batch, Onward
<1>8. InstancesAt'
  <2>1. \A o \in Batch : o < job.cursor + 1 => o \notin Running'
    <3> SUFFICES ASSUME NEW o \in Batch, o < job.cursor + 1 PROVE o \notin Running'
      OBVIOUS
    <3>1. o < job.cursor \/ o = job.cursor
      BY <1>3, <1>4
    <3> QED BY <1>3, <1>5, <3>1
  <2>2. pc' = "rl_run" => \A o \in Batch : o < job.cursor + 1
    BY <1>1, <1>2, <1>3, <1>4, RollingSees
  <2>3. job.at \in Batch /\ Running' \subseteq Ordinals
    BY <1>2, <1>3, <1>4, <1>5, RollingSees
  <2>4. pc' = "rl_drop" => job.cursor + 1 \in Batch
    BY <1>1
  <2> HIDE DEF InBatch
  <2> QED BY <1>2, <1>3, <1>6, <1>7, <2>1, <2>2, <2>3, <2>4 DEF InstancesAt, UpdatePcs, FirstPcs, UndoPcs, Onward
<1> QED BY <1>2, <1>5, <1>6, <1>8, InstancesGoOn

LEMMA RunInstanceHeals == ASSUME Healed, UNCHANGED monitor, RunInstance PROVE Healed'
<1>1. pc = "rl_run" /\ UNCHANGED <<job, mishap>>
  BY DEF RunInstance, RunThen, Step, GoTo, Return
<1>2. pc \in RollingPcs
  BY <1>1 DEF RollingPcs, UpdatePcs
<1>3. /\ job.at \in Batch /\ job.base < job.count /\ Running \subseteq Ordinals
      /\ \A o \in Batch : o >= job.at => o \notin Running
  BY <1>1, <1>2, RollingSees DEF InstancesAt, UpdatePcs
<1>4. Batch \subseteq Nat /\ job.at \in Nat /\ job.at \in Ordinals /\ job.at \in Names /\ Batch' = Batch
  BY <1>1, <1>2, <1>3, RollingSees, BatchOf, NamesDiffer DEF Batch
<1>5. box[job.at].state = "absent"
  <2>1. job.at >= job.at
    BY <1>4
  <2>2. job.at \notin Running
    BY <1>3, <2>1
  <2> QED BY <1>2, <1>4, <2>2, RollingSees, BoxOf DEF NoneExited, Boxes, ContainerStates
<1>6. pc' = "rl_check" /\ verdict' = verdict /\ runContainer(job.at, job.image, job.previous, job.deployment)
  BY <1>5 DEF RunInstance, RunThen, Step, GoTo
<1>7. /\ HostTyped' /\ Running' = Running \cup {job.at} /\ OthersStay(job.at) /\ box'[job.at].state = "running"
  BY <1>2, <1>4, <1>6, RollingSees, RunEffect
<1>8. Onward /\ pc' \in RollingPcs
  BY <1>1, <1>2, <1>6, <1>7, RollingSees, OnwardSame DEF DeployTyped, RollingPcs, UpdatePcs
<1>9. InstancesAt'
  <2>1. \A o \in Batch : o > job.at => o >= job.at /\ o # job.at
    <3> SUFFICES ASSUME NEW o \in Batch, o > job.at PROVE o >= job.at /\ o # job.at
      OBVIOUS
    <3>1. o \in Nat /\ job.at \in Nat
      BY <1>4
    <3> QED BY <3>1
  <2>2. \A o \in Batch : o > job.at => o \notin Running'
    BY <1>3, <1>7, <2>1
  <2>3. Running' \subseteq Ordinals
    BY <1>3, <1>4, <1>7
  <2> QED BY <1>1, <1>3, <1>4, <1>6, <2>2, <2>3 DEF InstancesAt, UpdatePcs, FirstPcs, UndoPcs
<1>10. \A n \in Names : box'[n].state \in {box[n].state, "absent", "running"}
  BY <1>7 DEF OthersStay
<1> QED BY <1>2, <1>8, <1>9, <1>10, InstancesGoOn

LEMMA InstanceHealthyHeals == ASSUME Healed, UNCHANGED monitor, InstanceHealthy PROVE Healed'
<1>1. /\ pc = "rl_check" /\ pc' = (IF job.at + 1 \in Batch THEN "rl_run" ELSE "rl_rejoin")
      /\ UNCHANGED <<verdict, mishap>> /\ job' = [job EXCEPT !.at = @ + 1] /\ checkHealthViaDocker(job.at, TRUE)
  BY DEF InstanceHealthy, GoTo
<1>2. pc \in RollingPcs /\ pc' \in RollingPcs /\ pc' \in {"rl_run", "rl_rejoin"}
  BY <1>1 DEF RollingPcs, UpdatePcs
<1>3. /\ job.at \in Batch /\ job.base < job.count /\ Running \subseteq Ordinals
      /\ \A o \in Batch : o > job.at => o \notin Running
  BY <1>1, <1>2, RollingSees DEF InstancesAt, UpdatePcs
<1>4. /\ \A o : o \in Batch <=> o \in Nat /\ job.base <= o /\ o < job.base + job.batch /\ o < job.count
      /\ job.at \in Names
  BY <1>2, <1>3, RollingSees, BatchOf, NamesDiffer
<1>5. HostTyped' /\ Running' = Running /\ \A n \in Names : Looks(n)
  BY <1>1, <1>2, <1>4, RollingSees, CheckEffect
<1>6. Onward /\ job'.at = job.at + 1 /\ job'.base = job.base /\ job'.count = job.count /\ job'.batch = job.batch
  BY <1>1, <1>2, <1>5, RollingSees DEF Onward, DeployTyped, Jobs
<1>7. Batch' = Batch
  BY <1>6 DEF Batch
<1>8. InstancesAt'
  <2>1. \A o \in Batch : o >= job.at + 1 => o \notin Running
    BY <1>2, <1>3, <1>4, RollingSees
  <2>2. pc' = "rl_rejoin" => /\ job.at + 1 \in {job.base + job.batch, job.count}
                             /\ job.at + 1 <= job.base + job.batch
    BY <1>1, <1>2, <1>3, <1>4, RollingSees
  <2>3. pc' = "rl_run" => job.at + 1 \in Batch
    BY <1>1
  <2> QED BY <1>2, <1>3, <1>5, <1>6, <1>7, <2>1, <2>2, <2>3 DEF InstancesAt, UpdatePcs, FirstPcs, UndoPcs
<1> QED BY <1>2, <1>5, <1>6, <1>8, InstancesGoOn DEF Looks

LEMMA InstanceUnhealthyHeals == ASSUME Healed, UNCHANGED monitor, InstanceUnhealthy PROVE Healed'
<1>1. /\ pc = "rl_check" /\ pc' = (IF job.previous = None THEN "rl_refresh" ELSE "rl_undo")
      /\ UNCHANGED <<verdict, mishap>> /\ job' = [job EXCEPT !.cursor = 0] /\ checkHealthViaDocker(job.at, FALSE)
  BY DEF InstanceUnhealthy, GoTo
<1>2. pc \in RollingPcs /\ pc' \in RollingPcs /\ pc' \in {"rl_refresh", "rl_undo"}
  BY <1>1 DEF RollingPcs, UpdatePcs, UndoPcs
<1>3. job.at \in Batch /\ Running \subseteq Ordinals
  BY <1>1, <1>2, RollingSees DEF InstancesAt, UpdatePcs
<1>4. job.at < job.count /\ job.at \in Names
  BY <1>2, <1>3, RollingSees, BatchOf, NamesDiffer
<1>5. HostTyped' /\ Running' = Running /\ \A n \in Names : Looks(n)
  BY <1>1, <1>2, <1>4, RollingSees, CheckEffect
<1>6. Onward /\ job'.cursor = 0 /\ job'.at = job.at /\ job'.count = job.count /\ job'.previous = job.previous
  BY <1>1, <1>2, <1>5, RollingSees DEF Onward, DeployTyped, Jobs
<1>7. InstancesAt'
  <2>1. 0 <= job.at /\ (pc' = "rl_undo" => job.previous # None)
    BY <1>1, <1>2, RollingSees
  <2> QED BY <1>2, <1>3, <1>4, <1>5, <1>6, <2>1 DEF InstancesAt, UpdatePcs, FirstPcs, UndoPcs
<1> QED BY <1>2, <1>5, <1>6, <1>7, InstancesGoOn DEF Looks

\* Where the undoing of an update is.
LEMMA UndoSees ==
    ASSUME Healed, pc \in UndoPcs
    PROVE  /\ pc \in RollingPcs /\ job.cursor <= job.at /\ job.at < job.count /\ job.cursor \in Ordinals
           /\ job.cursor \in Names /\ Running \subseteq Ordinals
           /\ pc # "rl_refresh" => job.previous # None
<1>1. pc \in RollingPcs
  BY DEF RollingPcs
<1>2. /\ job.cursor <= job.at /\ job.at < job.count /\ Running \subseteq Ordinals
      /\ pc # "rl_refresh" => job.previous # None
  BY <1>1, RollingSees DEF InstancesAt, UndoPcs
<1>3. job.cursor \in 0 .. job.count - 1
  BY <1>1, <1>2, RollingSees
<1> QED BY <1>1, <1>2, <1>3, RollingSees, NamesDiffer

LEMMA RemoveUpdatedHeals == ASSUME Healed, UNCHANGED monitor, RemoveUpdated PROVE Healed'
<1>1. pc = "rl_undo" /\ pc' = "rl_redo" /\ UNCHANGED <<job, verdict, mishap>> /\ removeContainerIfExists(job.cursor)
  BY DEF RemoveUpdated, Step, GoTo
<1>2. pc \in UndoPcs /\ pc' \in RollingPcs
  BY <1>1 DEF UndoPcs, RollingPcs
<1>3. /\ HostTyped' /\ Running' = Running \ {job.cursor} /\ OthersStay(job.cursor)
      /\ box'[job.cursor].state = "absent"
  BY <1>1, <1>2, UndoSees, RollingSees, RemoveEffect
<1>4. Onward
  BY <1>1, <1>2, <1>3, UndoSees, RollingSees, OnwardSame DEF DeployTyped
<1>5. InstancesAt'
  BY <1>1, <1>2, <1>3, UndoSees DEF InstancesAt, UpdatePcs, FirstPcs, UndoPcs
<1>6. \A n \in Names : box'[n].state \in {box[n].state, "absent", "running"}
  BY <1>3 DEF OthersStay
<1> QED BY <1>2, <1>4, <1>5, <1>6, UndoSees, InstancesGoOn

LEMMA RestoreInstanceHeals == ASSUME Healed, UNCHANGED monitor, RestoreInstance PROVE Healed'
<1>1. pc = "rl_redo" /\ UNCHANGED <<job, mishap>>
  BY DEF RestoreInstance, RunThen, Step, GoTo, Return
<1>2. pc \in UndoPcs /\ pc \in RollingPcs
  BY <1>1 DEF UndoPcs, RollingPcs
<1>3. job.cursor \notin Running /\ job.previous \in Images
  BY <1>1, <1>2, RollingSees, UndoSees DEF InstancesAt
<1>4. box[job.cursor].state = "absent"
  BY <1>2, <1>3, UndoSees, RollingSees, BoxOf DEF NoneExited, Boxes, ContainerStates
<1>5. /\ pc' = (IF job.cursor < job.at THEN "rl_next" ELSE "rl_refresh") /\ verdict' = verdict
      /\ runContainer(job.cursor, job.previous, job.carried, job.deployment)
  BY <1>4 DEF RestoreInstance, RunThen, Step, GoTo
<1>6. /\ HostTyped' /\ Running' = Running \cup {job.cursor} /\ OthersStay(job.cursor)
      /\ box'[job.cursor].state = "running"
  BY <1>2, <1>3, <1>5, UndoSees, RollingSees, RunEffect
<1>7. Onward /\ pc' \in RollingPcs /\ pc' \in {"rl_next", "rl_refresh"}
  BY <1>1, <1>2, <1>5, <1>6, RollingSees, OnwardSame DEF DeployTyped, RollingPcs, UndoPcs
<1>8. InstancesAt'
  BY <1>1, <1>2, <1>5, <1>6, <1>7, UndoSees DEF InstancesAt, UpdatePcs, FirstPcs, UndoPcs
<1>9. \A n \in Names : box'[n].state \in {box[n].state, "absent", "running"}
  BY <1>6 DEF OthersStay
<1> QED BY <1>2, <1>7, <1>8, <1>9, InstancesGoOn

LEMMA NextToRestoreHeals == ASSUME Healed, UNCHANGED monitor, NextToRestore PROVE Healed'
<1>1. /\ pc = "rl_next" /\ pc' = "rl_undo" /\ UNCHANGED <<verdict, mishap, host>>
      /\ job' = [job EXCEPT !.cursor = @ + 1]
  BY DEF NextToRestore, GoTo
<1>2. pc \in UndoPcs /\ pc \in RollingPcs /\ pc' \in RollingPcs
  BY <1>1 DEF UndoPcs, RollingPcs
<1>3. job.cursor < job.at /\ job.at < job.count /\ job.previous # None
  BY <1>1, <1>2, RollingSees, UndoSees DEF InstancesAt
<1>4. HostTyped' /\ box' = box /\ Running' = Running
  BY <1>1, <1>2, RollingSees, NoEffect DEF host
<1>5. /\ Onward /\ job'.cursor = job.cursor + 1 /\ job'.at = job.at /\ job'.count = job.count
      /\ job'.previous = job.previous
  BY <1>1, <1>2, <1>4, RollingSees DEF Onward, DeployTyped, Jobs
<1>6. InstancesAt'
  <2>1. job.cursor + 1 <= job.at
    BY <1>2, <1>3, RollingSees
  <2> QED BY <1>1, <1>2, <1>3, <1>4, <1>5, <2>1, UndoSees DEF InstancesAt, UpdatePcs, FirstPcs, UndoPcs
<1> QED BY <1>2, <1>4, <1>5, <1>6, InstancesGoOn

\* What runs is configured once the proxy was pointed at every instance.
LEMMA UpdateConfigures ==
    ASSUME updateNginxForRunningInstances({}), Running \subseteq Ordinals PROVE Running \subseteq conf'
<1>1. CASE RunningInstances = {}
  BY <1>1 DEF RunningInstances
<1>2. CASE RunningInstances # {}
  <2>1. writeAndReloadNginx(RunningInstances \ {})
    BY <1>2 DEF updateNginxForRunningInstances
  <2> QED BY <2>1 DEF writeAndReloadNginx, RunningInstances
<1> QED BY <1>1, <1>2

LEMMA RefreshAfterRollbackHeals == ASSUME Healed, UNCHANGED monitor, RefreshAfterRollback PROVE Healed'
<1>1. /\ pc = "rl_refresh" /\ pc' = "idle" /\ verdict' = "failure" /\ UNCHANGED <<job, mishap>>
      /\ updateNginxForRunningInstances({})
  BY DEF RefreshAfterRollback, Return
<1>2. pc \in UndoPcs /\ pc \in RollingPcs
  BY <1>1 DEF UndoPcs, RollingPcs
<1>3. HostTyped' /\ box' = box /\ Running' = Running /\ Running \subseteq conf'
  BY <1>1, <1>2, RollingSees, UpdateEffect, UpdateConfigures
<1>4. Onward
  BY <1>1, <1>2, <1>3, RollingSees, OnwardSame DEF Verdicts
<1>5. InstancesAt'
  BY <1>1, <1>2, <1>3, UndoSees DEF InstancesAt, UpdatePcs, FirstPcs, UndoPcs
<1> QED BY <1>1, <1>2, <1>3, <1>4, <1>5, InstancesGoOn

LEMMA RejoinBatchHeals == ASSUME Healed, UNCHANGED monitor, RejoinBatch PROVE Healed'
<1>1. /\ pc = "rl_rejoin" /\ pc' = (IF job.base + job.batch < job.count THEN "rl_exclude" ELSE "done")
      /\ UNCHANGED <<verdict, mishap>> /\ updateNginxForRunningInstances({})
      /\ job' = [job EXCEPT !.base = @ + job.batch, !.cursor = job.base + job.batch]
  BY DEF RejoinBatch, GoTo
<1>2. pc \in RollingPcs /\ pc' \in RollingPcs \cup {"done"} /\ pc' \in {"rl_exclude", "done"}
  BY <1>1 DEF RollingPcs, UpdatePcs
<1>3. /\ job.at <= job.base + job.batch /\ job.at \in {job.base + job.batch, job.count}
      /\ Running \subseteq Ordinals
  BY <1>1, <1>2, RollingSees DEF InstancesAt
<1>4. HostTyped' /\ box' = box /\ Running' = Running /\ Running \subseteq conf'
  BY <1>1, <1>2, <1>3, RollingSees, UpdateEffect, UpdateConfigures
<1> DEFINE next == job.base + job.batch
<1>5. next \in Nat
  BY <1>2, RollingSees
<1>6. job' = [job EXCEPT !.base = next, !.cursor = next]
  BY <1>1, <1>2, RollingSees DEF DeployTyped, Jobs
<1>7. pc' = "rl_exclude" => next < job.count /\ job.at = next
  BY <1>1, <1>2, <1>3, RollingSees
<1> HIDE DEF next
<1>8. Onward /\ job'.cursor = next /\ job'.base = next /\ job'.at = job.at /\ job'.count = job.count
  BY <1>1, <1>2, <1>4, <1>5, <1>6, RollingSees DEF Onward, DeployTyped, Jobs
<1>9. InstancesAt'
  BY <1>2, <1>3, <1>4, <1>7, <1>8 DEF InstancesAt, UpdatePcs, FirstPcs, UndoPcs
<1> QED BY <1>2, <1>4, <1>8, <1>9, InstancesGoOn

\* Where a first deployment is.
LEMMA FirstSees ==
    ASSUME Healed, pc \in FirstPcs
    PROVE  /\ pc \in RollingPcs /\ Running \subseteq Ordinals /\ Running \subseteq Nat
           /\ pc # "rl_first_route" =>
                /\ job.cursor <= job.at /\ job.at < job.count /\ job.at \in Ordinals /\ job.at \in Names
                /\ job.cursor \in Ordinals /\ job.cursor \in Names
           /\ pc # "rl_first_clean" => job.cursor = 0
<1>1. pc \in RollingPcs
  BY DEF RollingPcs
<1>2. /\ Running \subseteq Ordinals
      /\ pc # "rl_first_route" => job.cursor <= job.at /\ job.at < job.count
      /\ pc # "rl_first_clean" => job.cursor = 0
  BY <1>1, RollingSees DEF InstancesAt
<1>3. pc # "rl_first_route" => job.at \in 0 .. job.count - 1 /\ job.cursor \in 0 .. job.count - 1
  BY <1>1, <1>2, RollingSees
<1> QED BY <1>1, <1>2, <1>3, RollingSees, NamesDiffer

LEMMA ClearFirstInstanceHeals == ASSUME Healed, UNCHANGED monitor, ClearFirstInstance PROVE Healed'
<1>1. pc = "rl_first" /\ pc' = "rl_first_run" /\ UNCHANGED <<job, verdict, mishap>> /\ removeContainerIfExists(job.at)
  BY DEF ClearFirstInstance, Step, GoTo
<1>2. pc \in FirstPcs /\ pc \in RollingPcs /\ pc' \in RollingPcs
  BY <1>1 DEF FirstPcs, RollingPcs
<1>3. HostTyped' /\ Running' = Running \ {job.at} /\ OthersStay(job.at) /\ box'[job.at].state = "absent"
  BY <1>1, <1>2, FirstSees, RollingSees, RemoveEffect
<1>4. Onward
  BY <1>1, <1>2, <1>3, RollingSees, OnwardSame DEF DeployTyped
<1>5. InstancesAt'
  <2>1. \A o \in Running : o < job.at
    BY <1>1, <1>2, RollingSees DEF InstancesAt
  <2> QED BY <1>1, <1>2, <1>3, <2>1, FirstSees DEF InstancesAt, UpdatePcs, FirstPcs, UndoPcs
<1>6. \A n \in Names : box'[n].state \in {box[n].state, "absent", "running"}
  BY <1>3 DEF OthersStay
<1> QED BY <1>2, <1>4, <1>5, <1>6, InstancesGoOn

LEMMA RunFirstInstanceHeals == ASSUME Healed, UNCHANGED monitor, RunFirstInstance PROVE Healed'
<1>1. pc = "rl_first_run" /\ UNCHANGED <<job, mishap>>
  BY DEF RunFirstInstance, RunThen, Step, GoTo, Return
<1>2. pc \in FirstPcs /\ pc \in RollingPcs
  BY <1>1 DEF FirstPcs, RollingPcs
<1>3. \A o \in Running : o < job.at
  BY <1>1, <1>2, RollingSees DEF InstancesAt
<1>4. box[job.at].state = "absent"
  <2>1. job.at \notin Running
    BY <1>2, <1>3, RollingSees
  <2>2. job.at \in Names
    BY <1>1, <1>2, FirstSees
  <2> QED BY <1>2, <2>1, <2>2, RollingSees, BoxOf DEF NoneExited, Boxes, ContainerStates
<1>5. pc' = "rl_first_check" /\ verdict' = verdict /\ runContainer(job.at, job.image, None, job.deployment)
  BY <1>4 DEF RunFirstInstance, RunThen, Step, GoTo
<1>6. /\ HostTyped' /\ Running' = Running \cup {job.at} /\ OthersStay(job.at) /\ box'[job.at].state = "running"
  <2>1. /\ HostTyped /\ job.at \in Names /\ job.image \in Images /\ None \in Images \cup {None}
        /\ job.deployment \in Nat /\ runContainer(job.at, job.image, None, job.deployment)
    BY <1>1, <1>2, <1>5, RollingSees, FirstSees
  <2>2. /\ HostTyped' /\ Running' = Running \cup {job.at} /\ OthersStay(job.at) /\ box'[job.at].state = "running"
    BY ONLY <2>1, RunEffect
  <2> QED BY ONLY <2>2
<1>7. Onward /\ pc' \in RollingPcs
  BY <1>1, <1>2, <1>5, <1>6, RollingSees, OnwardSame DEF DeployTyped, FirstPcs, RollingPcs
<1>8. InstancesAt'
  <2>1. \A o \in Running' : o <= job.at
    <3> SUFFICES ASSUME NEW o \in Running' PROVE o <= job.at
      OBVIOUS
    <3>1. o = job.at \/ (o \in Running /\ o \in Nat /\ o < job.at)
      BY <1>2, <1>3, <1>6, FirstSees
    <3> QED BY <1>2, <3>1, RollingSees
  <2>2. Running' \subseteq Ordinals /\ job.cursor = 0 /\ job.cursor <= job.at /\ job.at < job.count
    BY <1>1, <1>2, <1>6, FirstSees
  <2> QED BY <1>1, <1>5, <2>1, <2>2 DEF InstancesAt, UpdatePcs, FirstPcs, UndoPcs
<1>9. \A n \in Names : box'[n].state \in {box[n].state, "absent", "running"}
  BY <1>6 DEF OthersStay
<1> QED BY <1>2, <1>7, <1>8, <1>9, InstancesGoOn

LEMMA FirstInstanceHealthyHeals == ASSUME Healed, UNCHANGED monitor, FirstInstanceHealthy PROVE Healed'
<1>1. /\ pc = "rl_first_check" /\ pc' = (IF job.at + 1 < job.count THEN "rl_first" ELSE "rl_first_route")
      /\ UNCHANGED <<verdict, mishap>> /\ job' = [job EXCEPT !.at = @ + 1] /\ checkHealthViaDocker(job.at, TRUE)
  BY DEF FirstInstanceHealthy, GoTo
<1>2. pc \in FirstPcs /\ pc \in RollingPcs /\ pc' \in RollingPcs /\ pc' \in {"rl_first", "rl_first_route"}
  BY <1>1 DEF FirstPcs, RollingPcs
<1>3. /\ \A o \in Running : o <= job.at
      /\ job.cursor = 0 /\ job.at < job.count /\ job.at \in Names
  BY <1>1, <1>2, RollingSees, FirstSees DEF InstancesAt
<1>4. HostTyped' /\ Running' = Running /\ \A n \in Names : Looks(n)
  BY <1>1, <1>2, <1>3, RollingSees, CheckEffect
<1>5. Onward /\ job'.cursor = 0 /\ job'.at = job.at + 1 /\ job'.count = job.count
  BY <1>1, <1>2, <1>3, <1>4, RollingSees DEF Onward, DeployTyped, Jobs
<1>6. InstancesAt'
  <2>1. \A o \in Running' : o < job.at + 1 /\ o < job.count
    <3> SUFFICES ASSUME NEW o \in Running' PROVE o < job.at + 1 /\ o < job.count
      OBVIOUS
    <3>1. o \in Nat /\ o <= job.at
      BY <1>2, <1>3, <1>4, FirstSees
    <3> QED BY <1>2, <1>3, <3>1, RollingSees
  <2>2. Running' \subseteq Ordinals
    BY <1>2, <1>4, FirstSees
  <2>3. Running' \subseteq FirstInstances'
    BY <1>5, <2>1, <2>2 DEF FirstInstances
  <2>4. 0 <= job.at + 1 /\ (pc' = "rl_first" => job.at + 1 < job.count)
    BY <1>1, <1>2, RollingSees
  <2> QED BY <1>2, <1>5, <2>1, <2>2, <2>3, <2>4 DEF InstancesAt, UpdatePcs, FirstPcs, UndoPcs
<1> QED BY <1>2, <1>4, <1>5, <1>6, InstancesGoOn DEF Looks

LEMMA FirstInstanceUnhealthyHeals == ASSUME Healed, UNCHANGED monitor, FirstInstanceUnhealthy PROVE Healed'
<1>1. /\ pc = "rl_first_check" /\ pc' = "rl_first_clean"
      /\ UNCHANGED <<job, verdict, mishap>> /\ checkHealthViaDocker(job.at, FALSE)
  BY DEF FirstInstanceUnhealthy, Step, GoTo
<1>2. pc \in FirstPcs /\ pc \in RollingPcs /\ pc' \in RollingPcs
  BY <1>1 DEF FirstPcs, RollingPcs
<1>3. /\ \A o \in Running : o <= job.at
      /\ job.cursor = 0 /\ job.at < job.count /\ job.at \in Names
  BY <1>1, <1>2, RollingSees, FirstSees DEF InstancesAt
<1>4. HostTyped' /\ Running' = Running /\ \A n \in Names : Looks(n)
  BY <1>1, <1>2, <1>3, RollingSees, CheckEffect
<1>5. Onward
  BY <1>1, <1>2, <1>4, RollingSees, OnwardSame DEF DeployTyped
<1>6. InstancesAt'
  <2>1. Running' \subseteq Ordinals /\ \A o \in Running' : job.cursor <= o /\ o <= job.at
    BY <1>2, <1>3, <1>4, FirstSees
  <2> QED BY <1>1, <1>2, <1>3, <2>1, FirstSees DEF InstancesAt, UpdatePcs, FirstPcs, UndoPcs
<1> QED BY <1>2, <1>4, <1>5, <1>6, InstancesGoOn DEF Looks

LEMMA CleanFirstHeals == ASSUME Healed, UNCHANGED monitor, CleanFirst PROVE Healed'
<1>1. pc = "rl_first_clean" /\ mishap' = mishap /\ removeContainerIfExists(job.cursor)
  BY DEF CleanFirst, GoTo, Return
<1>2. pc \in FirstPcs /\ pc \in RollingPcs
  BY <1>1 DEF FirstPcs, RollingPcs
<1>3. /\ job.cursor <= job.at /\ job.at < job.count /\ job.cursor \in Names
      /\ \A o \in Running : job.cursor <= o /\ o <= job.at
  BY <1>1, <1>2, FirstSees, RollingSees DEF InstancesAt
<1>4. /\ HostTyped' /\ Running' = Running \ {job.cursor} /\ OthersStay(job.cursor)
      /\ box'[job.cursor].state = "absent"
  BY <1>1, <1>2, <1>3, RollingSees, RemoveEffect
<1>5. \A n \in Names : box'[n].state \in {box[n].state, "absent", "running"}
  BY <1>4 DEF OthersStay
<1>6. \A o \in Running' : o \in Ordinals /\ job.cursor + 1 <= o /\ o <= job.at
  <2> SUFFICES ASSUME NEW o \in Running' PROVE o \in Ordinals /\ job.cursor + 1 <= o /\ o <= job.at
    OBVIOUS
  <2>1. o \in Nat /\ o \in Ordinals /\ o # job.cursor /\ job.cursor <= o /\ o <= job.at
    BY <1>2, <1>3, <1>4, FirstSees
  <2> QED BY <1>2, <2>1, RollingSees
<1>7. CASE job.cursor < job.at /\ pc' = "rl_first_clean" /\ verdict' = verdict /\ job' = [job EXCEPT !.cursor = @ + 1]
  <2>1. Onward /\ job'.cursor = job.cursor + 1 /\ job'.at = job.at /\ job'.count = job.count
    BY <1>1, <1>2, <1>4, <1>7, RollingSees DEF Onward, DeployTyped, Jobs
  <2>2. InstancesAt'
    <3>1. job.cursor + 1 <= job.at
      BY <1>2, <1>7, RollingSees
    <3>2. \A o \in Running' : o \in Ordinals /\ job'.cursor <= o /\ o <= job'.at
      BY <1>6, <2>1
    <3> QED BY <1>3, <1>7, <2>1, <3>1, <3>2 DEF InstancesAt, UpdatePcs, FirstPcs, UndoPcs
  <2> QED BY <1>1, <1>2, <1>5, <1>7, <2>1, <2>2, InstancesGoOn
<1>8. CASE ~(job.cursor < job.at) /\ pc' = "idle" /\ verdict' = "failure" /\ job' = job
  <2>1. Onward
    BY <1>1, <1>2, <1>4, <1>8, RollingSees, OnwardSame DEF Verdicts
  <2>2. Running' = {}
    <3> SUFFICES ASSUME NEW o \in Running' PROVE FALSE
      OBVIOUS
    <3>1. o \in Nat /\ job.cursor + 1 <= o /\ o <= job.at
      BY <1>6, NamesDiffer
    <3> QED BY <1>2, <1>8, <3>1, RollingSees
  <2>3. InstancesAt'
    BY <1>8, <2>2 DEF InstancesAt, UpdatePcs, FirstPcs, UndoPcs
  <2> QED BY <1>2, <1>5, <1>8, <2>1, <2>3, InstancesGoOn
<1> QED BY <1>7, <1>8 DEF CleanFirst, GoTo, Return

LEMMA RouteFirstInstancesHeals == ASSUME Healed, UNCHANGED monitor, RouteFirstInstances PROVE Healed'
<1>1. /\ pc = "rl_first_route" /\ UNCHANGED <<job, mishap>>
      /\ \/ pc' = "done" /\ verdict' = verdict /\ writeAndReloadNginx(FirstInstances)
         \/ pc' = "idle" /\ verdict' = "failure" /\ ReloadRefused(FirstInstances)
  BY DEF RouteFirstInstances, RouteThen, Step, GoTo, Return
<1>2. pc \in FirstPcs /\ pc \in RollingPcs
  BY <1>1 DEF FirstPcs, RollingPcs
<1>3. FirstInstances \in SUBSET Names
  BY NamesDiffer DEF FirstInstances
<1>4. HostTyped' /\ box' = box /\ Running' = Running /\ conf' = FirstInstances
  <2>1. conf' = FirstInstances
    BY <1>1 DEF writeAndReloadNginx, ReloadRefused
  <2>2. CASE writeAndReloadNginx(FirstInstances)
    BY <1>2, <2>1, <2>2, RollingSees, RouteEffect
  <2>3. CASE ReloadRefused(FirstInstances)
    BY <1>2, <1>3, <2>1, <2>3, RollingSees, RefuseEffect
  <2> QED BY <1>1, <2>2, <2>3
<1>5. Onward
  BY <1>1, <1>2, <1>4, RollingSees, OnwardSame DEF DeployTyped, Verdicts
<1>6. InstancesAt'
  <2>1. Running' \subseteq FirstInstances /\ Running' \subseteq Ordinals
    BY <1>1, <1>2, <1>4, RollingSees, FirstSees DEF InstancesAt
  <2> QED BY <1>1, <1>4, <2>1 DEF InstancesAt, UpdatePcs, FirstPcs, UndoPcs
<1> QED BY <1>1, <1>2, <1>4, <1>5, <1>6, InstancesGoOn

LEMMA FinishHeals == ASSUME Healed, UNCHANGED monitor, Finish PROVE Healed'
<1>1. pc = "done" /\ pc' = "idle" /\ verdict' = "success" /\ UNCHANGED <<job, mishap, host>>
  BY DEF Finish, Return
<1>2. DeployTyped /\ HostTyped /\ ~HasColours /\ InstancesKnown
  BY <1>1 DEF Healed, DeployTyped, Driven, HasColours
<1>3. HostTyped' /\ box' = box /\ Running' = Running /\ conf' = conf
  BY <1>1, <1>2, NoEffect DEF host
<1>4. Onward
  BY <1>1, <1>2, <1>3, OnwardSame DEF Verdicts
<1>5. InstancesKnown' /\ ColoursApart'
  BY <1>1, <1>2, <1>3 DEF InstancesKnown, InstancesAt, ColoursApart, HasColours, HasInstances, UpdatePcs, FirstPcs, UndoPcs
<1> QED BY <1>1, <1>3, <1>4, <1>5, DriverFrame

\* Without canaries, every call of a driver keeps the invariant.
LEMMA DriverHeals == ASSUME Healed, ~HasCanary, UNCHANGED monitor, DeployerStep PROVE Healed'
<1>1. CASE BlueGreenStep
  BY <1>1, ChooseColorsHeals, ClearNewColorHeals, RunNewColorHeals, CheckNewColorHeals, AbandonNewColorHeals,
     SwitchProxyHeals, DrainOldColorHeals DEF BlueGreenStep
<1>2. CASE RollingStep
  BY <1>2, DiscoverInstancesHeals, ExcludeBatchHeals, DropInstanceHeals, RunInstanceHeals, InstanceHealthyHeals,
     InstanceUnhealthyHeals, RemoveUpdatedHeals, RestoreInstanceHeals, NextToRestoreHeals, RefreshAfterRollbackHeals,
     RejoinBatchHeals, ClearFirstInstanceHeals, RunFirstInstanceHeals, FirstInstanceHealthyHeals,
     FirstInstanceUnhealthyHeals, CleanFirstHeals, RouteFirstInstancesHeals DEF RollingStep
<1>3. CASE CanaryStep
  <2>1. pc \in CanaryPcs
    BY <1>3 DEF CanaryStep, CanaryPcs, LookForStable, RunFirst, CheckFirst, AbandonFirst, RouteFirst, ClearCanary, RunCanary,
       CheckCanary, AbandonCanary, ShiftTraffic, Observe, RouteBack, RouteToCanary, DropStable, RunStable,
       CheckStable, KeepCanary, RouteToStable, DropCanary, RunThen, CheckThen, RouteThen, Return, Step, GoTo
  <2>2. job.strategy = "canary" /\ job.deployment # 0
    BY <2>1 DEF Healed, Driven, CanaryPcs
  <2> QED BY <2>2 DEF HasCanary
<1> QED BY <1>1, <1>2, <1>3, FinishHeals DEF DeployerStep

-----------------------------------------------------------------------------
\* A deployment begins on what the one before it left.
LEMMA BeginHeals ==
    ASSUME ~Switching, JobNamed, Healed, step = "idle", UNCHANGED monitor,
           NEW strategy \in Strategies, NEW image \in Images, NEW count \in Nat \ {0}, NEW batch \in Nat \ {0},
           job.strategy \in {None, strategy}, NEW first,
           <<strategy, first>> \in {<<"blue_green", "bg_choose">>, <<"rolling", "rl_start">>},
           strategy = "rolling" => 0 .. count - 1 \subseteq Ordinals,
           Begin(strategy, first, image, count, batch)
    PROVE  Healed'
<1>1. /\ pc = "idle" /\ pc' = first /\ job.deployment < MaxDeployments
      /\ job' = [NoJob EXCEPT !.strategy = strategy, !.image = image, !.deployment = job.deployment + 1,
                              !.before = ServedImages, !.count = count, !.batch = batch]
      /\ UNCHANGED <<verdict, mishap, host>>
  BY DEF Begin
<1>2. DeployTyped /\ Driven /\ job.deployment \in Nat /\ HostTyped
  BY JobOf DEF Healed, DeployTyped
<1>3. HostTyped' /\ box' = box /\ Running' = Running /\ proxy' = proxy /\ conf' = conf
  BY <1>1, <1>2, NoEffect DEF host
<1>4. ServedImages \subseteq Images
  BY <1>2, BoxOf DEF ServedImages
<1>5. /\ job' \in Jobs /\ job'.strategy = strategy /\ job'.image = image /\ job'.deployment = job.deployment + 1
      /\ job'.count = count /\ job'.at = 0 /\ job'.base = 0 /\ job'.cursor = 0
  <2> DEFINE next == job.deployment + 1
             served == ServedImages
  <2>1. next \in Nat /\ served \subseteq Images
    BY <1>2, <1>4
  <2>2. job' = [NoJob EXCEPT !.strategy = strategy, !.image = image, !.deployment = next,
                             !.before = served, !.count = count, !.batch = batch]
    BY <1>1
  <2> HIDE DEF next, served
  <2>3. /\ job' \in Jobs /\ job'.strategy = strategy /\ job'.image = image /\ job'.deployment = next
        /\ job'.count = count /\ job'.at = 0 /\ job'.base = 0 /\ job'.cursor = 0
    BY <2>1, <2>2 DEF NoJob, Jobs
  <2> QED BY <2>3 DEF next, served
<1>6. job'.deployment # 0
  BY <1>2, <1>5
<1>7. \/ pc' = "bg_choose" /\ strategy = "blue_green"
      \/ pc' = "rl_start" /\ strategy = "rolling"
  BY <1>1
<1>8. DeployTyped' /\ Driven'
  <2>1. job'.deployment <= MaxDeployments
    BY <1>1, <1>2, <1>5, DeployAssumption
  <2>2. DeployTyped'
    BY <1>1, <1>2, <1>3, <1>5, <2>1 DEF DeployTyped
  <2>3. Driven'
    BY <1>5, <1>6, <1>7 DEF Driven, BlueGreenPcs, CanaryPcs, RollingPcs, FirstPcs, UpdatePcs, UndoPcs
  <2> QED BY <2>2, <2>3
<1>9. ~mishap' /\ NoneExited'
  BY <1>1, <1>3 DEF Healed, NoneExited
\* The project was deployed with this strategy before, or never.
<1>10. job.deployment = 0 \/ job.strategy = strategy
  BY DeployAssumption DEF JobNamed
<1>11. job.deployment = 0 => Running = {} /\ DOMAIN monitored = {}
  BY <1>2 DEF Driven, Healed, MonitorTyped
<1>12. ColoursApart'
  <2>1. HasColours' => pc' = "bg_choose" /\ strategy = "blue_green"
    BY <1>5, <1>7 DEF HasColours
  <2>2. strategy = "blue_green" =>
          /\ Running \subseteq {blue, green} /\ (Running = {} \/ proxy) /\ ~({blue, green} \subseteq Running)
    <3>1. job.deployment = 0 => /\ Running \subseteq {blue, green} /\ Running = {} /\ ~({blue, green} \subseteq Running)
      BY <1>11
    <3>2. job.deployment # 0 /\ strategy = "blue_green" => HasColours
      BY <1>10 DEF HasColours
    <3>3. pc \notin BlueGreenPcs /\ step \notin BesideSteps
      BY <1>1 DEF BlueGreenPcs, BesideSteps
    <3>4. HasColours =>
          /\ Running \subseteq {blue, green} /\ (Running = {} \/ proxy) /\ ~({blue, green} \subseteq Running)
      BY <3>3 DEF Healed, ColoursApart
    <3> QED BY <3>1, <3>2, <3>4
  <2> QED BY <1>3, <2>1, <2>2 DEF ColoursApart
<1>13. InstancesKnown'
  <2>1. HasInstances' => pc' = "rl_start" /\ strategy = "rolling"
    BY <1>5, <1>7 DEF HasInstances
  <2>2. strategy = "rolling" => Running \subseteq Ordinals
    <3>1. job.deployment # 0 /\ strategy = "rolling" => HasInstances
      BY <1>10 DEF HasInstances
    <3>2. HasInstances => Running \subseteq Ordinals
      BY DEF Healed, InstancesKnown, InstancesAt
    <3> QED BY <1>11, <3>1, <3>2
  <2> QED BY <1>3, <1>5, <2>1, <2>2 DEF InstancesKnown, InstancesAt, UpdatePcs, FirstPcs, UndoPcs
<1>14. MonitorTyped'
  <2>1. step' = "idle" /\ monitored' = monitored
    BY DEF monitor
  <2>2. DOMAIN monitored # {} => (HasColours' <=> HasColours)
    BY <1>5, <1>6, <1>10, <1>11 DEF HasColours
  <2>3. \A id \in DOMAIN monitored' : EntryTyped(id)'
    BY <2>1, <2>2 DEF Healed, MonitorTyped, EntryTyped
  <2> QED BY <1>6, <2>1, <2>3 DEF MonitorTyped, RollbackSteps, InPlaceSteps
<1>15. RollbackKnows'
  BY DEF monitor, RollbackKnows, BesideSteps
<1> QED BY <1>8, <1>9, <1>12, <1>13, <1>14, <1>15 DEF Healed

LEMMA createDeployerHeals ==
    ASSUME ~Switching, JobNamed, Healed, step = "idle", UNCHANGED monitor, createDeployer, ~HasCanary'
    PROVE  Healed'
<1>1. PICK image \in Images, strategy \in Strategies :
        /\ Switching \/ job.strategy \in {None, strategy}
        /\ CASE strategy = "blue_green" -> Begin(strategy, "bg_choose", image, 1, 1)
             [] strategy = "canary" -> Begin(strategy, "cn_start", image, 1, 1)
             [] strategy = "rolling" ->
                  \E count \in Counts, batch \in Batches :
                    Begin(strategy, "rl_start", image, count, IF batch < count THEN batch ELSE count)
  BY DEF createDeployer
<1>2. strategy \in {"blue_green", "canary", "rolling"}
  BY DeployAssumption
<1>3. job.strategy \in {None, strategy}
  BY <1>1
<1>4. CASE strategy = "blue_green"
  <2> DEFINE first == "bg_choose"
  <2>1. Begin(strategy, first, image, 1, 1)
    BY <1>1, <1>4
  <2>2. /\ <<strategy, first>> \in {<<"blue_green", "bg_choose">>, <<"rolling", "rl_start">>}
        /\ 1 \in Nat \ {0} /\ strategy # "rolling"
    BY <1>4
  <2> HIDE DEF first
  <2> QED BY <1>3, <2>1, <2>2, BeginHeals
<1>5. CASE strategy = "canary"
  <2>1. Begin(strategy, "cn_start", image, 1, 1)
    BY <1>1, <1>5
  <2>2. job'.strategy = "canary" /\ job'.deployment = job.deployment + 1
    BY <1>5, <2>1 DEF Begin, NoJob
  <2>3. job'.deployment # 0
    BY <2>2 DEF JobNamed
  <2> QED BY <2>2, <2>3 DEF HasCanary
<1>6. CASE strategy = "rolling"
  <2>1. PICK count \in Counts, batch \in Batches :
          Begin(strategy, "rl_start", image, count, IF batch < count THEN batch ELSE count)
    BY <1>1, <1>6
  <2> DEFINE width == IF batch < count THEN batch ELSE count
             first == "rl_start"
  <2>2. count \in Nat \ {0} /\ width \in Nat \ {0} /\ 0 .. count - 1 \subseteq Ordinals
    BY DeployAssumption
  <2>3. Begin(strategy, first, image, count, width)
    BY <2>1
  <2>4. <<strategy, first>> \in {<<"blue_green", "bg_choose">>, <<"rolling", "rl_start">>}
    BY <1>6
  <2> HIDE DEF width, first
  <2> QED BY <1>3, <2>2, <2>3, <2>4, BeginHeals
<1> QED BY <1>2, <1>4, <1>5, <1>6

\* A host without containers is healed.
LEMMA InitiallyHealed == ASSUME SystemInit PROVE HealInv
<1>1. /\ pc = "idle" /\ job = NoJob /\ mishap = FALSE /\ step = "idle" /\ monitored = <<>> /\ Init
  BY DEF SystemInit, Init, DeployerInit, MonitorInit
<1>2. DOMAIN job = DOMAIN NoJob /\ job.deployment = 0 /\ job.strategy = None
  BY <1>1 DEF NoJob
<1>3. JobNamed
  BY <1>2 DEF JobNamed
<1>4. DeployTyped /\ Driven /\ NoneExited
  BY <1>1, InitiallyLocal DEF LocalInv, Clean
<1>5. ColoursApart /\ InstancesKnown
  BY <1>2 DEF ColoursApart, InstancesKnown, HasColours, HasInstances
<1>6. DOMAIN monitored = {}
  BY <1>1
<1>7. MonitorTyped /\ RollbackKnows
  BY <1>1, <1>2, <1>6 DEF MonitorTyped, RollbackKnows, BesideSteps, HasColours, HasInstances
<1> QED BY <1>1, <1>3, <1>4, <1>5, <1>7 DEF HealInv, Healed

-----------------------------------------------------------------------------
\* What a step of the monitor finds while no deployment is under way.
LEMMA MonitorSees ==
    ASSUME Healed, pc = "idle"
    PROVE  /\ HostTyped /\ NoneExited /\ job.deployment \in Nat
           /\ HasColours => /\ Running \subseteq {blue, green} /\ (Running = {} \/ proxy)
                            /\ step \in BesideSteps \/ ~({blue, green} \subseteq Running)
           /\ HasInstances => Running \subseteq Ordinals /\ Running \subseteq conf
           /\ HasColours => ~HasInstances
<1>1. HostTyped /\ NoneExited /\ job.deployment \in Nat
  BY JobOf DEF Healed, DeployTyped
<1>2. pc \notin BlueGreenPcs
  BY DEF BlueGreenPcs
<1>3. HasColours => /\ Running \subseteq {blue, green} /\ (Running = {} \/ proxy)
                    /\ step \in BesideSteps \/ ~({blue, green} \subseteq Running)
  BY <1>2 DEF Healed, ColoursApart
<1>4. HasInstances => Running \subseteq Ordinals /\ Running \subseteq conf
  BY DEF Healed, InstancesKnown, InstancesAt
<1> QED BY <1>1, <1>3, <1>4 DEF HasColours, HasInstances

\* What a step of the monitor leaves to the deployers.
LEMMA MonitorFrame ==
    ASSUME Healed, pc = "idle", UNCHANGED deployer, HostTyped', NoneExited',
           job.deployment = 0 => Running' = {},
           HasColours => /\ Running' \subseteq {blue, green} /\ (Running' = {} \/ proxy')
                         /\ step' \in BesideSteps \/ ~({blue, green} \subseteq Running'),
           HasInstances => Running' \subseteq Ordinals /\ Running' \subseteq conf',
           MonitorTyped', RollbackKnows'
    PROVE  Healed'
<1>1. /\ pc' = "idle" /\ job' = job /\ verdict' = verdict /\ mishap' = mishap
      /\ (HasColours' <=> HasColours) /\ (HasInstances' <=> HasInstances)
  BY DEF deployer, HasColours, HasInstances
<1>2. DeployTyped' /\ Driven'
  BY <1>1 DEF Healed, DeployTyped, Driven, BlueGreenPcs, CanaryPcs, RollingPcs, FirstPcs, UpdatePcs, UndoPcs
<1>3. ColoursApart'
  BY <1>1 DEF ColoursApart, BlueGreenPcs
<1>4. InstancesKnown'
  BY <1>1 DEF InstancesKnown, InstancesAt, FirstPcs, UpdatePcs, UndoPcs
<1> QED BY <1>1, <1>2, <1>3, <1>4 DEF Healed

\* The tick reads a map in which every entry is of a container that runs.
LEMMA TickHeals == ASSUME Healed, ~HasCanary, pc = "idle", UNCHANGED deployer, Tick PROVE Healed'
<1>1. PICK chosen \in [Discovered -> Running] :
        /\ \A id \in Discovered : chosen[id] \in Of(id)
        /\ monitored' = reconcile(chosen)
  BY DEF Tick
<1>2. /\ step = "idle" /\ todo' = Discovered /\ step' = (IF Discovered = {} THEN "idle" ELSE "check")
      /\ UNCHANGED <<cur, told, host>>
  BY DEF Tick
<1>3. /\ HostTyped' /\ box' = box /\ Running' = Running /\ proxy' = proxy /\ conf' = conf /\ NoneExited'
  BY <1>2, MonitorSees, NoEffect DEF host, NoneExited
<1>4. job' = job /\ pc' = pc /\ (HasColours' <=> HasColours) /\ (HasInstances' <=> HasInstances)
  BY DEF deployer, HasColours, HasInstances
<1>5. \A id \in Discovered : /\ chosen[id] \in Running /\ box[chosen[id]] \in Boxes /\ box[chosen[id]].deployment = id
                             /\ id # None /\ id \in Nat /\ box[chosen[id]].previous \in Images \cup {None}
  <2> SUFFICES ASSUME NEW id \in Discovered
               PROVE  /\ chosen[id] \in Running /\ box[chosen[id]] \in Boxes /\ box[chosen[id]].deployment = id
                      /\ id # None /\ id \in Nat /\ box[chosen[id]].previous \in Images \cup {None}
    OBVIOUS
  <2>1. chosen[id] \in Running /\ box[chosen[id]].deployment = id /\ id # None
    BY <1>1 DEF Of, Discovered
  <2>2. box[chosen[id]] \in Boxes
    BY <2>1, MonitorSees, BoxOf
  <2> QED BY <2>1, <2>2 DEF Boxes
<1>6. job.deployment = 0 => Running = {} /\ Discovered = {}
  BY DEF Healed, Driven, Discovered
<1>7. Discovered # {} => HasColours \/ HasInstances
  BY <1>6, DeployAssumption DEF Healed, Driven, HasColours, HasInstances, HasCanary
<1>8. /\ DOMAIN monitored' = Discovered
      /\ \A id \in Discovered : EntryTyped(id)' /\ monitored'[id].container = chosen[id]
  <2> SUFFICES ASSUME NEW id \in Discovered PROVE EntryTyped(id)' /\ monitored'[id].container = chosen[id]
    BY <1>1 DEF reconcile
  <2> DEFINE n == chosen[id]
             kept == IF id \in DOMAIN monitored
                       THEN monitored[id]
                       ELSE [window |-> <<>>, restarts |-> 0, waits |-> 0, strategy |-> StrategyOf(n)]
  <2>1. monitored'[id] = [window |-> kept.window, restarts |-> kept.restarts, waits |-> kept.waits,
                          strategy |-> kept.strategy, container |-> n,
                          image |-> box[n].image, previous |-> box[n].previous]
    BY <1>1 DEF reconcile
  <2>2. n \in Running /\ box[n].previous \in Images \cup {None}
    BY <1>5
  <2>3. StrategyOf(n) = IF HasColours THEN "blue_green" ELSE "other"
    <3>1. HasColours => n \in {blue, green}
      BY <2>2, MonitorSees
    <3>2. HasInstances => n \notin {blue, green}
      BY <2>2, MonitorSees, NamesDiffer
    <3> QED BY <1>7, <3>1, <3>2, MonitorSees DEF StrategyOf
  <2>4. kept.restarts \in Nat /\ kept.strategy = IF HasColours THEN "blue_green" ELSE "other"
    <3>1. CASE id \in DOMAIN monitored
      BY <3>1 DEF Healed, MonitorTyped, EntryTyped
    <3>2. CASE id \notin DOMAIN monitored
      BY <2>3, <3>2
    <3> QED BY <3>1, <3>2
  <2> HIDE DEF kept, n
  <2>5. EntryTyped(id)' /\ monitored'[id].container = n
    BY <1>4, <2>1, <2>2, <2>4 DEF EntryTyped
  <2> QED BY <2>5 DEF n
<1>9. \A id \in Discovered : Remedied(id)'
  <2> SUFFICES ASSUME NEW id \in Discovered PROVE Remedied(id)'
    OBVIOUS
  <2>1. monitored'[id].container \in Running /\ id \in DOMAIN monitored' /\ id \in Nat
    BY <1>5, <1>8
  <2> QED BY <1>3, <1>4, <2>1, MonitorSees DEF Remedied
<1>10. HasColours => \A i, j \in Discovered : i = j
  <2>1. step \notin BesideSteps
    BY <1>2 DEF BesideSteps
  <2>2. HasColours => \A m, n \in Running : m = n
    BY <2>1, MonitorSees
  <2> QED BY <2>2, <1>5
<1>11. MonitorTyped'
  <2>1. step' \in {"idle", "check"} /\ (step' = "check" => Discovered # {})
    BY <1>2
  <2>2. \A id \in todo' : monitored'[id].container \in Running'
    BY <1>2, <1>3, <1>5, <1>8
  <2> QED BY <1>2, <1>4, <1>6, <1>8, <1>9, <1>10, <2>1, <2>2 DEF MonitorTyped, RollbackSteps, InPlaceSteps
<1>12. RollbackKnows'
  BY <1>2 DEF RollbackKnows, BesideSteps
<1>13. step \notin BesideSteps
  BY <1>2 DEF BesideSteps
<1> QED BY <1>3, <1>6, <1>11, <1>12, <1>13, MonitorSees, MonitorFrame

\* What a check finds out: it runs in the container, and marks it.
LEMMA CheckMarks ==
    ASSUME HostTyped, NEW n \in Names, checkHealthViaDocker(n, TRUE) PROVE box'[n].check = "passed"
BY BoxOf DEF checkHealthViaDocker

\* A check of one deployment, and what remediate decides.
LEMMA CheckHeals == ASSUME Healed, ~HasCanary, pc = "idle", UNCHANGED deployer, Check PROVE Healed'
<1>1. PICK id \in todo, passed \in BOOLEAN, elapsed \in BOOLEAN :
        /\ ~elapsed => monitored[id].restarts > 0 /\ monitored[id].waits < 2
        /\ checkHealthViaDocker(monitored[id].container, passed)
        /\ CheckOne(id, passed, elapsed)
        /\ cur' = id
        /\ todo' = todo \ {id}
  BY DEF Check
<1>2. step = "check" /\ MonitorTyped
  BY DEF Check, Healed
<1>3. job' = job /\ pc' = pc /\ (HasColours' <=> HasColours) /\ (HasInstances' <=> HasInstances)
  BY DEF deployer, HasColours, HasInstances
<1>4. job.deployment # 0 /\ (HasColours \/ HasInstances) /\ (\A i \in todo : Remedied(i)) /\ Remedied(id)
  BY <1>1, <1>2, DeployAssumption DEF MonitorTyped, Healed, Driven, HasColours, HasInstances, HasCanary
<1>5. id \in DOMAIN monitored /\ EntryTyped(id) /\ monitored[id].container \in Names
  BY <1>2, <1>4 DEF MonitorTyped, Remedied, Names
<1>6. /\ HostTyped' /\ Running' = Running /\ proxy' = proxy /\ conf' = conf /\ NoneExited'
  <2>1. HostTyped' /\ Running' = Running /\ proxy' = proxy /\ \A n \in Names : Looks(n)
    BY <1>1, <1>5, MonitorSees, CheckEffect
  <2>2. conf' = conf
    BY <1>1 DEF checkHealthViaDocker
  <2>3. NoneExited'
    BY <2>1, MonitorSees DEF NoneExited, Looks
  <2> QED BY <2>1, <2>2, <2>3
<1> DEFINE m == monitored[id]
           window == pushEntry(m.window, passed)
           health == computeHealth(window)
           act == health = "unhealthy" /\ elapsed
           restarts == IF health = "healthy" THEN 0 ELSE m.restarts
           waits == IF elapsed THEN m.waits ELSE m.waits + 1
<1>7. /\ monitored' = [monitored EXCEPT ![id] = [m EXCEPT !.window = window, !.restarts = restarts, !.waits = waits]]
      /\ step' = CASE ~act -> NextCheck(todo \ {id})
                   [] act /\ m.restarts < MAX_RESTART_ATTEMPTS -> "restart"
                   [] act /\ m.restarts >= MAX_RESTART_ATTEMPTS /\ m.previous = None -> NextCheck(todo \ {id})
                   [] OTHER -> IF m.strategy = "blue_green" THEN "rb_clear" ELSE "ip_remove"
  BY <1>1, <1>5 DEF CheckOne, EntryTyped
<1>8. restarts \in Nat /\ m.restarts \in Nat /\ MAX_RESTART_ATTEMPTS \in Nat
      /\ m.strategy = IF HasColours THEN "blue_green" ELSE "other"
  BY <1>5, MonitorAssumption DEF EntryTyped
<1>9. \/ step' \in {NextCheck(todo \ {id}), "restart"}
      \/ m.previous # None /\ step' = IF HasColours THEN "rb_clear" ELSE "ip_remove"
  <2>1. CASE ~act
    BY <1>7, <2>1
  <2>2. CASE act /\ m.restarts < MAX_RESTART_ATTEMPTS
    BY <1>7, <2>2
  <2>3. CASE act /\ ~(m.restarts < MAX_RESTART_ATTEMPTS)
    <3>1. m.restarts >= MAX_RESTART_ATTEMPTS
      BY <1>8, <2>3
    <3>2. CASE m.previous = None
      BY <1>7, <2>3, <3>1, <3>2
    <3>3. CASE m.previous # None
      BY <1>7, <1>8, <2>3, <3>1, <3>3
    <3> QED BY <3>2, <3>3
  <2> QED BY <2>1, <2>2, <2>3
<1> HIDE DEF m, window, health, act, restarts, waits
<1>10. /\ DOMAIN monitored' = DOMAIN monitored
       /\ \A i \in DOMAIN monitored \ {id} : monitored'[i] = monitored[i]
       /\ \A i \in DOMAIN monitored : EntryTyped(i)' /\ monitored'[i].container = monitored[i].container
                                      /\ monitored'[i].previous = monitored[i].previous
  <2>1. DOMAIN monitored' = DOMAIN monitored /\ \A i \in DOMAIN monitored \ {id} : monitored'[i] = monitored[i]
    BY <1>7
  <2>2. monitored'[id] = [m EXCEPT !.window = window, !.restarts = restarts, !.waits = waits]
    BY <1>5, <1>7
  <2>3. EntryTyped(id)' /\ monitored'[id].container = m.container /\ monitored'[id].previous = m.previous
    <3>1. /\ DOMAIN m = {"window", "restarts", "waits", "strategy", "container", "image", "previous"}
          /\ m.previous \in Images \cup {None} /\ m.strategy = IF HasColours THEN "blue_green" ELSE "other"
      BY <1>5 DEF EntryTyped, m
    <3> QED BY <1>3, <1>8, <2>2, <3>1 DEF EntryTyped
  <2>4. \A i \in DOMAIN monitored \ {id} : EntryTyped(i)'
    BY <1>2, <1>3, <2>1 DEF MonitorTyped, EntryTyped
  <2> QED BY <2>1, <2>3, <2>4 DEF m
<1>11. \A i \in todo' \cup {cur'} : Remedied(i)'
  BY <1>1, <1>3, <1>4, <1>6, <1>10 DEF Remedied
<1>12. HasColours => todo' = {} /\ monitored[id].container \in Running
  <2>1. HasColours => \A i, j \in todo : i = j
    BY <1>2 DEF MonitorTyped
  <2>2. HasColours => monitored[id].container \in Running
    BY <1>1, <1>2 DEF MonitorTyped
  <2> QED BY <1>1, <2>1, <2>2
<1>13. step' \in {"idle", "check", "restart"} \/ step' = IF HasColours THEN "rb_clear" ELSE "ip_remove"
  BY <1>9 DEF NextCheck
<1>14. HasColours => step' \in {"idle", "restart", "rb_clear"}
  BY <1>1, <1>9, <1>12 DEF NextCheck
<1>15. HasInstances => step' \in {"idle", "check", "restart", "ip_remove"}
  BY <1>13, MonitorSees
<1>16. MonitorTyped'
  <2>1. \A i \in DOMAIN monitored' : EntryTyped(i)'
    BY <1>10
  <2>2. step' \in {"idle", "check", "restart"} \cup RollbackSteps \cup InPlaceSteps
    BY <1>13 DEF RollbackSteps, InPlaceSteps
  <2>3. HasColours => step' \notin InPlaceSteps /\ step' # "check"
    BY <1>14 DEF InPlaceSteps
  <2>4. HasInstances => step' \notin RollbackSteps
    BY <1>15 DEF RollbackSteps
  <2>5. (step' # "idle" => \A i \in todo' : Remedied(i)') /\ (step' \notin {"idle", "check"} => Remedied(cur)')
    BY <1>11
  <2>6. pc' = "idle" /\ job'.deployment # 0
    BY <1>3, <1>4
  <2>7. HasColours' => step' \notin InPlaceSteps /\ step' # "check" /\ todo' = {}
    BY <1>3, <1>12, <2>3
  <2>8. HasInstances' => step' \notin RollbackSteps
    BY <1>3, <2>4
  <2> QED BY <2>1, <2>2, <2>5, <2>6, <2>7, <2>8 DEF MonitorTyped
<1>17. RollbackKnows'
  <2>1. step' \in {"rb_clear", "ip_remove"} => monitored'[cur'].previous # None
    BY <1>1, <1>5, <1>9, <1>10 DEF NextCheck, m
  <2>2. HasColours => monitored'[cur'].container \in Running'
    BY <1>1, <1>5, <1>6, <1>10, <1>12
  <2>3. step' \in {"idle", "check", "restart", "rb_clear", "ip_remove"}
    BY <1>13
  <2> QED BY <1>3, <2>1, <2>2, <2>3 DEF RollbackKnows, BesideSteps, ref
<1>18. step \notin BesideSteps
  BY <1>2 DEF BesideSteps
<1> QED BY <1>4, <1>6, <1>16, <1>17, <1>18, MonitorSees, MonitorFrame

-----------------------------------------------------------------------------
\* What the steps of a remediation find: of a colour, and of an instance.
LEMMA ColourSees ==
    ASSUME Healed, ~HasCanary, pc = "idle", step \in RollbackSteps \/ (step = "restart" /\ HasColours)
    PROVE  /\ HasColours /\ ~HasInstances /\ job.deployment # 0 /\ MonitorTyped /\ RollbackKnows
           /\ ref.container \in {blue, green} /\ ref.container \in Names
           /\ Opposite \in {blue, green} /\ Opposite # ref.container /\ Opposite \in Names
           /\ cur \in DOMAIN monitored /\ cur \in Nat /\ EntryTyped(cur) /\ todo = {}
<1>1. MonitorTyped /\ RollbackKnows /\ step \notin {"idle", "check"}
  BY DEF Healed, RollbackSteps
<1>2. Remedied(cur) /\ job.deployment # 0
  BY <1>1 DEF MonitorTyped
<1>3. HasColours
  BY <1>1, <1>2, DeployAssumption DEF MonitorTyped, Healed, Driven, HasColours, HasInstances, HasCanary
<1>4. ref.container \in {blue, green} /\ cur \in DOMAIN monitored /\ cur \in Nat
  BY <1>2, <1>3 DEF Remedied, ref
<1>5. EntryTyped(cur) /\ todo = {}
  BY <1>1, <1>3, <1>4 DEF MonitorTyped
<1> QED BY <1>1, <1>2, <1>3, <1>4, <1>5, NamesDiffer, MonitorSees DEF Opposite, Names

LEMMA InstanceSees ==
    ASSUME Healed, ~HasCanary, pc = "idle", step \in InPlaceSteps \/ (step = "restart" /\ ~HasColours)
    PROVE  /\ HasInstances /\ ~HasColours /\ job.deployment # 0 /\ MonitorTyped /\ RollbackKnows
           /\ ref.container \in Ordinals /\ ref.container \in conf /\ ref.container \in Names
           /\ cur \in DOMAIN monitored /\ cur \in Nat /\ EntryTyped(cur)
<1>1. MonitorTyped /\ RollbackKnows /\ step \notin {"idle", "check"}
  BY DEF Healed, InPlaceSteps
<1>2. Remedied(cur) /\ job.deployment # 0
  BY <1>1 DEF MonitorTyped
<1>3. HasInstances /\ ~HasColours
  BY <1>1, <1>2, DeployAssumption DEF MonitorTyped, Healed, Driven, HasColours, HasInstances, HasCanary
<1>4. ref.container \in Ordinals /\ ref.container \in conf /\ cur \in DOMAIN monitored /\ cur \in Nat
  BY <1>2, <1>3 DEF Remedied, ref
<1>5. EntryTyped(cur)
  BY <1>1, <1>4 DEF MonitorTyped
<1> QED BY <1>1, <1>2, <1>3, <1>4, <1>5, NamesDiffer DEF Names

\* A step of the swap of the colours: the tick ends with it, or goes on with it.
LEMMA SwapFrame ==
    ASSUME Healed, ~HasCanary, pc = "idle", UNCHANGED deployer, step \in RollbackSteps,
           UNCHANGED <<monitored, todo, cur>>, step' \in RollbackSteps \/ step' = NextCheck(todo),
           HostTyped', NoneExited', Running' \subseteq {blue, green}, Running' = {} \/ proxy',
           step' \in BesideSteps \/ ~({blue, green} \subseteq Running'),
           step' \in RollbackSteps => RollbackKnows'
    PROVE  Healed'
<1>1. HasColours /\ ~HasInstances /\ job.deployment # 0 /\ MonitorTyped /\ todo = {}
  BY ColourSees
<1>2. job' = job /\ pc' = pc /\ (HasColours' <=> HasColours) /\ (HasInstances' <=> HasInstances)
  BY DEF deployer, HasColours, HasInstances
<1>3. step' \in {"idle"} \cup RollbackSteps
  BY <1>1 DEF NextCheck
<1>4. RollbackKnows'
  BY <1>3 DEF RollbackKnows, BesideSteps
<1>5. \A id \in DOMAIN monitored : EntryTyped(id)'
  BY <1>1, <1>2 DEF MonitorTyped, EntryTyped
<1>6. Remedied(cur)'
  <2>1. Remedied(cur)
    BY <1>1 DEF MonitorTyped, RollbackSteps
  <2> QED BY <1>1, <1>2, <2>1 DEF Remedied
<1>7. MonitorTyped'
  <2>1. step' \notin InPlaceSteps /\ step' # "check" /\ step' \in {"idle", "check", "restart"} \cup RollbackSteps \cup InPlaceSteps
    BY <1>3 DEF InPlaceSteps, RollbackSteps
  <2> QED BY <1>1, <1>2, <1>5, <1>6, <2>1 DEF MonitorTyped
<1> QED BY <1>1, <1>4, <1>7, MonitorFrame

\* A step of the exchange in place: the tick goes on with it, or with a check.
LEMMA InPlaceFrame ==
    ASSUME Healed, ~HasCanary, pc = "idle", UNCHANGED deployer, step \in InPlaceSteps,
           UNCHANGED <<monitored, todo, cur>>, step' \in InPlaceSteps \/ step' = NextCheck(todo),
           HostTyped', NoneExited', Running' \subseteq Ordinals, Running' \subseteq conf', conf' = conf,
           step' \in InPlaceSteps => RollbackKnows'
    PROVE  Healed'
<1>1. HasInstances /\ ~HasColours /\ job.deployment # 0 /\ MonitorTyped
  BY InstanceSees
<1>2. job' = job /\ pc' = pc /\ (HasColours' <=> HasColours) /\ (HasInstances' <=> HasInstances)
  BY DEF deployer, HasColours, HasInstances
<1>3. step' \in {"idle", "check"} \cup InPlaceSteps
  BY DEF NextCheck
<1>4. RollbackKnows'
  BY <1>3 DEF RollbackKnows, BesideSteps
<1>5. \A id \in DOMAIN monitored : EntryTyped(id)'
  BY <1>1, <1>2 DEF MonitorTyped, EntryTyped
<1>6. \A id \in todo \cup {cur} : Remedied(id)'
  <2>1. \A id \in todo \cup {cur} : Remedied(id)
    BY <1>1 DEF MonitorTyped, InPlaceSteps
  <2> QED BY <1>1, <1>2, <2>1 DEF Remedied
<1>7. MonitorTyped'
  <2>1. step' \notin RollbackSteps /\ step' \in {"idle", "check", "restart"} \cup RollbackSteps \cup InPlaceSteps
    BY <1>3 DEF InPlaceSteps, RollbackSteps
  <2> QED BY <1>1, <1>2, <1>5, <1>6, <2>1 DEF MonitorTyped
<1> QED BY <1>1, <1>4, <1>7, MonitorFrame

\* A call of the monitor does not give up.
LEMMA GivesUpNot ==
    ASSUME Healed, NEW n \in Names, n \notin Running PROVE box[n].state = "absent"
BY BoxOf DEF Healed, DeployTyped, NoneExited, Boxes, ContainerStates

LEMMA RestartEffect ==
    ASSUME HostTyped, NoneExited, NEW n \in Names, restartContainer(n)
    PROVE  HostTyped' /\ Running' = Running /\ NoneExited' /\ conf' = conf /\ loaded' = loaded /\ proxy' = proxy
<1>1. /\ box[n].state # "absent" /\ box' = [box EXCEPT ![n].state = "running", ![n].check = "none"]
      /\ UNCHANGED <<proxy, conf, loaded, broken>>
  BY DEF restartContainer
<1>2. box[n] \in Boxes /\ box[n].state = "running" /\ n \in Running
  BY <1>1, BoxOf DEF NoneExited, Boxes, ContainerStates
<1>3. box' = [box EXCEPT ![n] = [box[n] EXCEPT !.state = "running", !.check = "none"]]
  BY <1>1, <1>2, BoxOf DEF Boxes
<1> DEFINE b == [box[n] EXCEPT !.state = "running", !.check = "none"]
<1>4. b \in Boxes /\ b.state = "running" /\ b.image = box[n].image
  BY <1>2 DEF Boxes, ContainerStates, Checks
<1> HIDE DEF b
<1>5. box' \in [Names -> Boxes] /\ box'[n] = b /\ \A m \in Names \ {n} : box'[m] = box[m]
  BY <1>3, <1>4, BoxOf DEF b
<1>6. Running' = Running
  BY <1>2, <1>4, <1>5, BoxOf DEF Running, isContainerRunning
<1>7. \A m \in Running' : box'[m].image \in Images
  BY <1>4, <1>5, <1>6, BoxOf
<1>8. HostTyped'
  BY <1>1, <1>5, <1>6, <1>7, BoxOf, HostFrom
<1>9. NoneExited'
  BY <1>4, <1>5 DEF NoneExited
<1> QED BY <1>1, <1>6, <1>8, <1>9

LEMMA RestartHeals == ASSUME Healed, ~HasCanary, pc = "idle", UNCHANGED deployer, Restart PROVE Healed'
<1>1. /\ step = "restart" /\ step' = NextCheck(todo) /\ UNCHANGED <<todo, cur, told>>
      /\ monitored' = [monitored EXCEPT ![cur].restarts = @ + 1, ![cur].waits = 0]
      /\ restartContainer(ref.container) \/ UNCHANGED host
  BY DEF Restart, Remediated
<1>2. /\ ref.container \in Names /\ job.deployment # 0 /\ MonitorTyped /\ (HasColours \/ HasInstances)
      /\ cur \in DOMAIN monitored /\ EntryTyped(cur) /\ (HasColours => todo = {})
  BY <1>1, ColourSees, InstanceSees
<1>3. job' = job /\ pc' = pc /\ (HasColours' <=> HasColours) /\ (HasInstances' <=> HasInstances)
  BY DEF deployer, HasColours, HasInstances
<1>4. HostTyped' /\ Running' = Running /\ NoneExited' /\ conf' = conf /\ proxy' = proxy
  <2>1. CASE restartContainer(ref.container)
    BY <1>2, <2>1, MonitorSees, RestartEffect
  <2>2. CASE UNCHANGED host
    BY <2>2, MonitorSees, NoEffect DEF host, NoneExited
  <2> QED BY <1>1, <2>1, <2>2
<1> DEFINE m == monitored[cur]
           restarts == m.restarts + 1
<1>5. /\ DOMAIN m = {"window", "restarts", "waits", "strategy", "container", "image", "previous"}
      /\ m.previous \in Images \cup {None} /\ m.strategy = (IF HasColours THEN "blue_green" ELSE "other")
      /\ restarts \in Nat
  BY <1>2 DEF EntryTyped
<1>6. monitored' = [monitored EXCEPT ![cur] = [m EXCEPT !.restarts = restarts, !.waits = 0]]
  BY <1>1, <1>2, <1>5
<1> HIDE DEF m, restarts
<1>7. /\ DOMAIN monitored' = DOMAIN monitored
      /\ \A i \in DOMAIN monitored : EntryTyped(i)' /\ monitored'[i].container = monitored[i].container
  <2>1. DOMAIN monitored' = DOMAIN monitored /\ \A i \in DOMAIN monitored \ {cur} : monitored'[i] = monitored[i]
    BY <1>6
  <2>2. monitored'[cur] = [m EXCEPT !.restarts = restarts, !.waits = 0]
    BY <1>2, <1>6
  <2>3. EntryTyped(cur)' /\ monitored'[cur].container = m.container
    <3>1. /\ DOMAIN monitored'[cur] = {"window", "restarts", "waits", "strategy", "container", "image", "previous"}
          /\ monitored'[cur].restarts \in Nat /\ monitored'[cur].previous \in Images \cup {None}
          /\ monitored'[cur].strategy = (IF HasColours THEN "blue_green" ELSE "other")
          /\ monitored'[cur].container = m.container
      BY <1>5, <2>2
    <3>2. cur' = cur
      BY <1>1
    <3> QED BY <1>3, <3>1, <3>2 DEF EntryTyped
  <2>4. \A i \in DOMAIN monitored \ {cur} : EntryTyped(i)'
    BY <1>2, <1>3, <2>1 DEF MonitorTyped, EntryTyped
  <2> QED BY <1>1, <2>1, <2>3, <2>4 DEF m
<1>8. \A i \in todo : Remedied(i)'
  <2>1. \A i \in todo : Remedied(i)
    BY <1>1, <1>2 DEF MonitorTyped
  <2> QED BY <1>3, <1>4, <1>7, <2>1 DEF Remedied
<1>9. step' \in {"idle", "check"} /\ (HasColours => step' = "idle")
  BY <1>1, <1>2 DEF NextCheck
<1>10. MonitorTyped'
  <2>1. \A i \in DOMAIN monitored' : EntryTyped(i)'
    BY <1>7
  <2> QED BY <1>1, <1>2, <1>3, <1>8, <1>9, <2>1 DEF MonitorTyped, RollbackSteps, InPlaceSteps
<1>11. RollbackKnows'
  BY <1>9 DEF RollbackKnows, BesideSteps
<1>12. step \notin BesideSteps
  BY <1>1 DEF BesideSteps
<1> QED BY <1>2, <1>4, <1>10, <1>11, <1>12, MonitorSees, MonitorFrame

-----------------------------------------------------------------------------
\* The swap of the colours: the broken container keeps the traffic until the
\* switch, and the other has it from the switch on.
LEMMA ClearRollbackSlotHeals ==
    ASSUME Healed, ~HasCanary, pc = "idle", UNCHANGED deployer, ClearRollbackSlot
    PROVE  Healed' /\ loaded' = loaded /\ proxy' = proxy
<1>1. /\ step = "rb_clear" /\ step' = "rb_run" /\ UNCHANGED <<monitored, todo, cur, told>>
      /\ removeContainerIfExists(Opposite)
  BY DEF ClearRollbackSlot, Moves
<1>2. step \in RollbackSteps /\ step' \in RollbackSteps /\ step \notin BesideSteps
  BY <1>1 DEF RollbackSteps, BesideSteps
<1>3. /\ ref.previous # None /\ ref.container \in Running /\ Running \subseteq {blue, green}
      /\ Opposite \notin Running /\ proxy
  <2>1. ref.previous # None /\ ref.container \in Running
    BY <1>1, <1>2, ColourSees DEF RollbackKnows
  <2> QED BY <1>2, <2>1, ColourSees, MonitorSees
<1>4. /\ HostTyped' /\ Running' = Running \ {Opposite} /\ loaded' = loaded \ {Opposite}
      /\ OthersStay(Opposite) /\ box'[Opposite].state = "absent" /\ proxy' = proxy
  BY <1>1, <1>2, ColourSees, MonitorSees, RemoveEffect
<1>5. loaded' = loaded
  BY <1>3, <1>4, MonitorSees, BoxOf
<1>6. NoneExited'
  BY <1>4, MonitorSees DEF NoneExited, OthersStay
<1>7. ref' = ref /\ Opposite' = Opposite
  BY <1>1 DEF ref, Opposite
<1>8. RollbackKnows'
  BY <1>1, <1>2, <1>3, <1>4, <1>7, ColourSees DEF RollbackKnows, BesideSteps
<1>9. Running' \subseteq {blue, green} /\ (Running' = {} \/ proxy') /\ ~({blue, green} \subseteq Running')
  BY <1>2, <1>3, <1>4, ColourSees
<1> QED BY <1>1, <1>2, <1>4, <1>5, <1>6, <1>8, <1>9, SwapFrame

LEMMA RunRollbackHeals ==
    ASSUME Healed, ~HasCanary, pc = "idle", UNCHANGED deployer, RunRollback
    PROVE  Healed' /\ loaded' = loaded /\ proxy' = proxy
<1>1. step = "rb_run"
  BY DEF RunRollback, Moves, GiveUp
<1>2. step \in RollbackSteps /\ step \notin BesideSteps
  BY <1>1 DEF RollbackSteps, BesideSteps
<1>3. /\ ref.previous # None /\ ref.container \in Running /\ Opposite \notin Running
      /\ Running \subseteq {blue, green} /\ proxy
  <2>1. ref.previous # None /\ ref.container \in Running /\ Opposite \notin Running
    BY <1>1, <1>2, ColourSees DEF RollbackKnows
  <2> QED BY <1>2, <2>1, ColourSees, MonitorSees
<1>4. box[Opposite].state = "absent"
  BY <1>2, <1>3, ColourSees, GivesUpNot
<1>5. /\ step' = "rb_check" /\ UNCHANGED <<monitored, todo, cur, told>>
      /\ runContainer(Opposite, ref.previous, None, cur)
  BY <1>4 DEF RunRollback, Moves, GiveUp
<1>6. step' \in RollbackSteps
  BY <1>5 DEF RollbackSteps
<1>7. /\ HostTyped' /\ Running' = Running \cup {Opposite} /\ loaded' = loaded /\ Opposite \notin loaded
      /\ OthersStay(Opposite) /\ proxy' = proxy
      /\ box'[Opposite].state = "running" /\ box'[Opposite].image = ref.previous
  <2> DEFINE n == Opposite
             image == ref.previous
             num == cur
  <2>1. HostTyped /\ n \in Names /\ image \in Images /\ None \in Images \cup {None} /\ num \in Nat
    BY <1>2, <1>3, ColourSees, MonitorSees DEF EntryTyped, ref
  <2>2. runContainer(n, image, None, num)
    BY <1>5
  <2> HIDE DEF n, image, num
  <2>3. /\ HostTyped' /\ Running' = Running \cup {n} /\ loaded' = loaded /\ n \notin loaded
        /\ OthersStay(n) /\ proxy' = proxy /\ box'[n].state = "running" /\ box'[n].image = image
    BY ONLY <2>1, <2>2, RunEffect
  <2> QED BY <2>3 DEF n, image
<1>8. NoneExited'
  BY <1>7, MonitorSees DEF NoneExited, OthersStay
<1>9. ref' = ref /\ Opposite' = Opposite
  BY <1>5 DEF ref, Opposite
<1>10. RollbackKnows'
  <2>1. RolledTo(Opposite)'
    BY <1>7, <1>9 DEF RolledTo
  <2> QED BY <1>3, <1>5, <1>7, <1>9, <2>1 DEF RollbackKnows, BesideSteps
<1>11. Running' \subseteq {blue, green} /\ proxy' /\ step' \in BesideSteps
  BY <1>2, <1>3, <1>5, <1>7, ColourSees DEF BesideSteps
<1> QED BY <1>2, <1>5, <1>6, <1>7, <1>8, <1>10, <1>11, SwapFrame

\* What the swap knows while both colours run.
LEMMA BesideSees ==
    ASSUME Healed, ~HasCanary, pc = "idle", step \in BesideSteps
    PROVE  /\ step \in RollbackSteps /\ RolledTo(Opposite) /\ Opposite \in Running /\ proxy
           /\ Running \subseteq {blue, green}
<1>1. step \in RollbackSteps
  BY DEF BesideSteps, RollbackSteps
<1>2. RolledTo(Opposite) /\ proxy
  BY <1>1, ColourSees DEF RollbackKnows
<1> QED BY <1>1, <1>2, ColourSees, MonitorSees DEF RolledTo

LEMMA CheckRollbackHeals ==
    ASSUME Healed, ~HasCanary, pc = "idle", UNCHANGED deployer, CheckRollback
    PROVE  Healed' /\ loaded' = loaded /\ proxy' = proxy
<1>1. PICK passed \in BOOLEAN :
        /\ Moves("rb_check", IF passed THEN "rb_switch" ELSE "rb_undo")
        /\ checkHealthViaDocker(Opposite, passed)
  BY DEF CheckRollback
<1>2. /\ step = "rb_check" /\ step' = (IF passed THEN "rb_switch" ELSE "rb_undo")
      /\ UNCHANGED <<monitored, todo, cur, told>>
  BY <1>1 DEF Moves
<1>3. step \in BesideSteps /\ step' \in BesideSteps /\ step' \in RollbackSteps
  BY <1>2 DEF BesideSteps, RollbackSteps
<1>4. /\ HostTyped' /\ Running' = Running /\ loaded' = loaded /\ proxy' = proxy /\ \A n \in Names : Looks(n)
  BY <1>1, <1>3, BesideSees, ColourSees, MonitorSees, CheckEffect
<1>5. NoneExited'
  BY <1>4, MonitorSees DEF NoneExited, Looks
<1>6. ref' = ref /\ Opposite' = Opposite
  BY <1>2 DEF ref, Opposite
<1>7. Opposite \notin loaded
  BY <1>2, <1>3, BesideSees, ColourSees DEF RollbackKnows
<1>8. step' = "rb_switch" => box'[Opposite].check = "passed"
  BY <1>1, <1>2, <1>3, BesideSees, ColourSees, MonitorSees, CheckMarks
<1>9. RolledTo(Opposite)'
  BY <1>3, <1>4, <1>6, BesideSees, ColourSees DEF RolledTo, Looks
<1>10. RollbackKnows'
  BY <1>2, <1>3, <1>4, <1>6, <1>7, <1>8, <1>9, BesideSees DEF RollbackKnows, BesideSteps
<1> QED BY <1>2, <1>3, <1>4, <1>5, <1>10, BesideSees, SwapFrame

LEMMA UndoRollbackHeals ==
    ASSUME Healed, ~HasCanary, pc = "idle", UNCHANGED deployer, UndoRollback
    PROVE  Healed' /\ loaded' = loaded /\ proxy' = proxy
<1>1. /\ step = "rb_undo" /\ step' = NextCheck(todo) /\ UNCHANGED <<monitored, todo, cur, told>>
      /\ removeContainerIfExists(Opposite)
  BY DEF UndoRollback, GiveUp, Remediated
<1>2. step \in BesideSteps /\ step \in RollbackSteps
  BY <1>1 DEF BesideSteps, RollbackSteps
<1>3. /\ HostTyped' /\ Running' = Running \ {Opposite} /\ loaded' = loaded \ {Opposite}
      /\ OthersStay(Opposite) /\ box'[Opposite].state = "absent" /\ proxy' = proxy
  BY <1>1, <1>2, ColourSees, MonitorSees, RemoveEffect
<1>4. loaded' = loaded
  <2>1. Opposite \notin loaded
    BY <1>1, <1>2, ColourSees DEF RollbackKnows
  <2> QED BY <1>3, <2>1
<1>5. NoneExited'
  BY <1>3, MonitorSees DEF NoneExited, OthersStay
<1>6. step' \notin RollbackSteps
  BY <1>1 DEF NextCheck, RollbackSteps
<1> QED BY <1>1, <1>2, <1>3, <1>4, <1>5, <1>6, BesideSees, ColourSees, SwapFrame

LEMMA SwitchToRollbackHeals ==
    ASSUME Healed, ~HasCanary, pc = "idle", UNCHANGED deployer, SwitchToRollback
    PROVE  Healed' /\ loaded' # {} /\ proxy' /\ told' = told
<1>1. step = "rb_switch"
  BY DEF SwitchToRollback, Moves, GiveUp
<1>2. step \in BesideSteps /\ step \in RollbackSteps
  BY <1>1 DEF BesideSteps, RollbackSteps
<1>3. /\ step' = "rb_drop" /\ UNCHANGED <<monitored, todo, cur, told>> /\ writeAndReloadNginx({Opposite})
  BY <1>2, BesideSees DEF SwitchToRollback, Moves, GiveUp, ReloadRefused
<1>4. step' \in BesideSteps /\ step' \in RollbackSteps
  BY <1>3 DEF BesideSteps, RollbackSteps
<1>5. /\ HostTyped' /\ box' = box /\ Running' = Running /\ loaded' = {Opposite} /\ proxy'
  BY <1>3, MonitorSees, RouteEffect
<1>6. NoneExited'
  BY <1>5, MonitorSees DEF NoneExited
<1>7. ref' = ref /\ Opposite' = Opposite
  BY <1>3 DEF ref, Opposite
<1>8. RollbackKnows'
  <2>1. box[Opposite].check = "passed"
    BY <1>1, <1>2, ColourSees DEF RollbackKnows
  <2>2. RolledTo(Opposite)'
    BY <1>2, <1>5, <1>7, BesideSees DEF RolledTo
  <2> QED BY <1>3, <1>5, <1>7, <2>1, <2>2 DEF RollbackKnows, BesideSteps
<1> QED BY <1>2, <1>3, <1>4, <1>5, <1>6, <1>8, BesideSees, SwapFrame

LEMMA DropBrokenHeals ==
    ASSUME Healed, ~HasCanary, pc = "idle", UNCHANGED deployer, DropBroken
    PROVE  /\ Healed' /\ loaded' = loaded /\ loaded # {} /\ proxy'
           /\ told' = told \cup {cur}
           /\ \A n \in loaded : box'[n].image = ref.previous /\ box'[n].check = "passed"
<1>1. /\ step = "rb_drop" /\ step' = NextCheck(todo) /\ UNCHANGED <<monitored, todo, cur>>
      /\ told' = told \cup {cur} /\ removeContainerIfExists(ref.container)
  BY DEF DropBroken, Remediated
<1>2. step \in BesideSteps /\ step \in RollbackSteps
  BY <1>1 DEF BesideSteps, RollbackSteps
<1>3. /\ HostTyped' /\ Running' = Running \ {ref.container} /\ loaded' = loaded \ {ref.container}
      /\ OthersStay(ref.container) /\ box'[ref.container].state = "absent" /\ proxy' = proxy
  BY <1>1, <1>2, ColourSees, MonitorSees, RemoveEffect
<1>4. loaded = {Opposite} /\ box[Opposite].check = "passed" /\ RolledTo(Opposite)
  BY <1>1, <1>2, ColourSees, BesideSees DEF RollbackKnows
<1>5. loaded' = loaded /\ box'[Opposite] = box[Opposite]
  BY <1>2, <1>3, <1>4, ColourSees DEF OthersStay
<1>6. NoneExited'
  BY <1>3, MonitorSees DEF NoneExited, OthersStay
<1>7. step' \notin RollbackSteps
  BY <1>1 DEF NextCheck, RollbackSteps
<1>8. Healed'
  BY <1>1, <1>2, <1>3, <1>6, <1>7, BesideSees, ColourSees, SwapFrame
<1> QED BY <1>1, <1>2, <1>3, <1>4, <1>5, <1>8, BesideSees DEF RolledTo

\* The exchange of an instance in place.
LEMMA RemoveInPlaceHeals ==
    ASSUME Healed, ~HasCanary, pc = "idle", UNCHANGED deployer, RemoveInPlace PROVE Healed' /\ told' = told
<1>1. /\ step = "ip_remove" /\ step' = "ip_run" /\ UNCHANGED <<monitored, todo, cur, told>>
      /\ removeContainerIfExists(ref.container)
  BY DEF RemoveInPlace, Moves
<1>2. step \in InPlaceSteps /\ step' \in InPlaceSteps
  BY <1>1 DEF InPlaceSteps
<1>3. ref.previous # None /\ Running \subseteq Ordinals /\ Running \subseteq conf
  BY <1>1, <1>2, InstanceSees, MonitorSees DEF RollbackKnows
<1>4. /\ HostTyped' /\ Running' = Running \ {ref.container}
      /\ OthersStay(ref.container) /\ box'[ref.container].state = "absent" /\ conf' = conf
  <2>1. conf' = conf
    BY <1>1 DEF removeContainerIfExists
  <2> QED BY <1>1, <1>2, <2>1, InstanceSees, MonitorSees, RemoveEffect
<1>5. NoneExited'
  BY <1>4, MonitorSees DEF NoneExited, OthersStay
<1>6. ref' = ref
  BY <1>1 DEF ref
<1>7. RollbackKnows'
  BY <1>1, <1>3, <1>4, <1>6 DEF RollbackKnows, BesideSteps
<1> QED BY <1>1, <1>2, <1>3, <1>4, <1>5, <1>7, InPlaceFrame

LEMMA RunInPlaceHeals ==
    ASSUME Healed, ~HasCanary, pc = "idle", UNCHANGED deployer, RunInPlace PROVE Healed' /\ told' = told
<1>1. step = "ip_run"
  BY DEF RunInPlace, Moves, GiveUp
<1>2. step \in InPlaceSteps
  BY <1>1 DEF InPlaceSteps
<1>3. /\ ref.previous # None /\ ref.container \notin Running /\ Running \subseteq Ordinals /\ Running \subseteq conf
  BY <1>1, <1>2, InstanceSees, MonitorSees DEF RollbackKnows
<1>4. box[ref.container].state = "absent"
  BY <1>2, <1>3, InstanceSees, GivesUpNot
<1>5. /\ step' = "ip_check" /\ UNCHANGED <<monitored, todo, cur, told>>
      /\ runContainer(ref.container, ref.previous, None, cur)
  BY <1>4 DEF RunInPlace, Moves, GiveUp
<1>6. step' \in InPlaceSteps
  BY <1>5 DEF InPlaceSteps
<1>7. /\ HostTyped' /\ Running' = Running \cup {ref.container} /\ OthersStay(ref.container) /\ conf' = conf
      /\ box'[ref.container].state = "running" /\ box'[ref.container].image = ref.previous
  <2> DEFINE n == ref.container
             image == ref.previous
             num == cur
  <2>1. HostTyped /\ n \in Names /\ image \in Images /\ None \in Images \cup {None} /\ num \in Nat
    BY <1>2, <1>3, InstanceSees, MonitorSees DEF EntryTyped, ref
  <2>2. runContainer(n, image, None, num) /\ conf' = conf
    BY <1>5 DEF runContainer
  <2> HIDE DEF n, image, num
  <2>3. /\ HostTyped' /\ Running' = Running \cup {n} /\ OthersStay(n)
        /\ box'[n].state = "running" /\ box'[n].image = image
    BY ONLY <2>1, <2>2, RunEffect
  <2> QED BY <2>2, <2>3 DEF n, image
<1>8. NoneExited'
  BY <1>7, MonitorSees DEF NoneExited, OthersStay
<1>9. ref' = ref
  BY <1>5 DEF ref
<1>10. RolledTo(ref.container)'
  BY <1>7, <1>9 DEF RolledTo
<1>11. RollbackKnows'
  BY <1>5, <1>10 DEF RollbackKnows, BesideSteps
<1>12. Running' \subseteq Ordinals /\ Running' \subseteq conf'
  BY <1>2, <1>3, <1>7, InstanceSees
<1> QED BY <1>2, <1>5, <1>6, <1>7, <1>8, <1>11, <1>12, InPlaceFrame

LEMMA CheckInPlaceHeals ==
    ASSUME Healed, ~HasCanary, pc = "idle", UNCHANGED deployer, CheckInPlace PROVE Healed' /\ told' = told
<1>1. /\ step = "ip_check" /\ UNCHANGED <<monitored, todo, cur, told>>
      /\ \/ step' = "ip_reload" /\ checkHealthViaDocker(ref.container, TRUE)
         \/ step' = NextCheck(todo) /\ checkHealthViaDocker(ref.container, FALSE)
  BY DEF CheckInPlace, Moves, GiveUp, Remediated
<1>2. step \in InPlaceSteps /\ (step' \in InPlaceSteps => step' = "ip_reload")
  BY <1>1 DEF InPlaceSteps, NextCheck
<1>3. Running \subseteq Ordinals /\ Running \subseteq conf /\ RolledTo(ref.container)
  BY <1>1, <1>2, InstanceSees, MonitorSees DEF RollbackKnows
<1>4. PICK passed \in BOOLEAN : /\ checkHealthViaDocker(ref.container, passed)
                                /\ step' = IF passed THEN "ip_reload" ELSE NextCheck(todo)
  BY <1>1
<1>5. HostTyped' /\ Running' = Running /\ conf' = conf /\ \A n \in Names : Looks(n)
  <2>1. conf' = conf
    BY <1>4 DEF checkHealthViaDocker
  <2> QED BY <1>2, <1>4, <2>1, InstanceSees, MonitorSees, CheckEffect
<1>6. NoneExited'
  BY <1>5, MonitorSees DEF NoneExited, Looks
<1>7. ref' = ref
  BY <1>1 DEF ref
<1>8. RolledTo(ref.container)'
  BY <1>2, <1>3, <1>5, <1>7, InstanceSees DEF RolledTo, Looks
<1>9. step' = "ip_reload" => box'[ref.container].check = "passed"
  <2>1. CASE checkHealthViaDocker(ref.container, TRUE)
    BY <1>2, <2>1, InstanceSees, MonitorSees, CheckMarks
  <2>2. CASE step' = NextCheck(todo)
    BY <2>2 DEF NextCheck
  <2> QED BY <1>1, <2>1, <2>2
<1>10. step' \in InPlaceSteps => RollbackKnows'
  BY <1>2, <1>7, <1>8, <1>9 DEF RollbackKnows, BesideSteps
<1>11. step' \in InPlaceSteps \/ step' = NextCheck(todo)
  BY <1>1 DEF InPlaceSteps
<1> QED BY <1>1, <1>2, <1>3, <1>5, <1>6, <1>10, <1>11, InPlaceFrame

LEMMA ReloadInPlaceHeals ==
    ASSUME Healed, ~HasCanary, pc = "idle", UNCHANGED deployer, ReloadInPlace
    PROVE  /\ Healed' /\ monitored' = monitored
           /\ \/ told' = told
              \/ /\ told' = told \cup {cur} /\ ref.container \in loaded' /\ box' = box
                 /\ box[ref.container].image = ref.previous /\ box[ref.container].check = "passed"
<1>1. /\ step = "ip_reload" /\ step' = NextCheck(todo) /\ UNCHANGED <<monitored, todo, cur>>
      /\ \/ writeAndReloadNginx(conf) /\ told' = told \cup {cur}
         \/ UNCHANGED host /\ told' = told
  BY DEF ReloadInPlace, GiveUp, Remediated
<1>2. step \in InPlaceSteps /\ step' \notin InPlaceSteps
  BY <1>1 DEF InPlaceSteps, NextCheck
<1>3. /\ Running \subseteq Ordinals /\ Running \subseteq conf /\ ref.container \in conf
      /\ box[ref.container].image = ref.previous /\ box[ref.container].check = "passed"
  BY <1>1, <1>2, InstanceSees, MonitorSees DEF RollbackKnows, RolledTo
<1>4. HostTyped' /\ box' = box /\ Running' = Running /\ conf' = conf
  <2>1. CASE writeAndReloadNginx(conf)
    <3>1. conf' = conf
      BY <2>1 DEF writeAndReloadNginx
    <3> QED BY <2>1, <3>1, MonitorSees, RouteEffect
  <2>2. CASE UNCHANGED host
    BY <2>2, MonitorSees, NoEffect DEF host
  <2> QED BY <1>1, <2>1, <2>2
<1>5. NoneExited'
  BY <1>4, MonitorSees DEF NoneExited
<1>6. Healed'
  BY <1>1, <1>2, <1>3, <1>4, <1>5, InPlaceFrame
<1>7. writeAndReloadNginx(conf) => ref.container \in loaded'
  BY <1>3 DEF writeAndReloadNginx
<1> QED BY <1>1, <1>3, <1>4, <1>6, <1>7

-----------------------------------------------------------------------------
\* Every step of the monitor keeps the invariant between deployments.
LEMMA MonitorHeals == ASSUME Healed, ~HasCanary, pc = "idle", UNCHANGED deployer, MonitorStep PROVE Healed'
<1>1. CASE Tick \/ Check \/ Restart
  BY <1>1, TickHeals, CheckHeals, RestartHeals
<1>2. CASE ClearRollbackSlot \/ RunRollback \/ CheckRollback \/ UndoRollback \/ SwitchToRollback \/ DropBroken
  BY <1>2, ClearRollbackSlotHeals, RunRollbackHeals, CheckRollbackHeals, UndoRollbackHeals, SwitchToRollbackHeals,
     DropBrokenHeals
<1>3. CASE RemoveInPlace \/ RunInPlace \/ CheckInPlace \/ ReloadInPlace
  BY <1>3, RemoveInPlaceHeals, RunInPlaceHeals, CheckInPlaceHeals, ReloadInPlaceHeals
<1> QED BY <1>1, <1>2, <1>3 DEF MonitorStep

\* An application that stops answering is for the monitor's checks to find.
LEMMA BreakHeals ==
    ASSUME Healed, UNCHANGED <<box, proxy, conf, loaded, deployer, monitor>>, broken' \subseteq Images
    PROVE  Healed'
<1>1. /\ UNCHANGED <<pc, job, verdict, mishap, monitored, step, todo, cur, told>>
      /\ Running' = Running /\ RunningInstances' = RunningInstances /\ Batch' = Batch
      /\ FirstInstances' = FirstInstances /\ ref' = ref /\ Opposite' = Opposite
      /\ (HasColours' <=> HasColours) /\ (HasInstances' <=> HasInstances)
  BY DEF deployer, monitor, Running, isContainerRunning, RunningInstances, Batch, FirstInstances, ref, Opposite,
     HasColours, HasInstances
<1>2. HostTyped'
  BY <1>1 DEF Healed, DeployTyped, HostTyped, HostOK
<1>3. DeployTyped' /\ Driven' /\ ~mishap' /\ NoneExited'
  BY <1>1, <1>2 DEF Healed, DeployTyped, Driven, NoneExited
<1>4. ColoursApart'
  BY <1>1 DEF Healed, ColoursApart
<1>5. InstancesKnown'
  BY <1>1 DEF Healed, InstancesKnown, InstancesAt
<1>6. MonitorTyped'
  <2>1. (\A id : EntryTyped(id)' <=> EntryTyped(id)) /\ (\A id : Remedied(id)' <=> Remedied(id))
    BY <1>1 DEF EntryTyped, Remedied
  <2> QED BY <1>1, <2>1 DEF Healed, MonitorTyped
<1>7. RollbackKnows'
  <2>1. \A n : RolledTo(n)' <=> RolledTo(n)
    BY <1>1 DEF RolledTo
  <2> QED BY <1>1, <2>1 DEF Healed, RollbackKnows
<1> QED BY <1>3, <1>4, <1>5, <1>6, <1>7 DEF Healed

LEMMA HealKeeps ==
    ASSUME ~Faults, ~Switching, HealInv, [SystemNext]_allVars PROVE HealInv'
<1>1. CASE Deploying
  <2>1. UNCHANGED monitor /\ (~overlapped' => ~overlapped /\ step = "idle")
    BY <1>1 DEF Deploying
  <2>2. CASE createDeployer
    <3>1. JobNamed' /\ (HasCanary => HasCanary')
      BY <2>2, BeginKeepsJob DEF HealInv
    <3>2. Regular' => Healed'
      BY <2>1, <2>2, <3>1, createDeployerHeals DEF HealInv, Regular
    <3> QED BY <3>1, <3>2 DEF HealInv
  <2>3. CASE DeployerStep
    <3>1. JobStays
      BY <2>3, StepKeepsJob DEF HealInv
    <3>2. JobNamed' /\ (HasCanary' <=> HasCanary)
      BY <3>1 DEF HealInv, JobNamed, JobStays, HasCanary
    <3>3. Regular' => Healed'
      BY <2>1, <2>3, <3>2, DriverHeals DEF HealInv, Regular
    <3> QED BY <3>2, <3>3 DEF HealInv
  <2> QED BY <1>1, <2>2, <2>3 DEF Deploying, Next, Mishap
<1>2. CASE Healing
  <2>1. UNCHANGED deployer /\ MonitorStep /\ (~overlapped' => ~overlapped /\ pc = "idle")
    BY <1>2 DEF Healing
  <2>2. JobNamed' /\ (HasCanary' <=> HasCanary)
    BY <2>1 DEF HealInv, JobNamed, HasCanary, deployer
  <2>3. Regular' => Healed'
    BY <2>1, <2>2, MonitorHeals DEF HealInv, Regular
  <2> QED BY <2>2, <2>3 DEF HealInv
<1>3. CASE (\E image \in Images : Break(image)) \/ UNCHANGED allVars
  <2>1. /\ UNCHANGED <<box, proxy, conf, loaded, deployer, monitor, overlapped>>
        /\ \/ \E image \in Images : broken' = broken \cup {image}
           \/ broken' = broken
    BY <1>3 DEF Break, allVars, host
  <2>2. JobNamed' /\ (Regular' <=> Regular)
    BY <2>1 DEF HealInv, JobNamed, Regular, HasCanary, deployer
  <2>3. Healed => broken' \subseteq Images
    BY <2>1 DEF Healed, DeployTyped, HostTyped, HostOK
  <2>4. Healed => Healed'
    BY <2>1, <2>3, BreakHeals
  <2> QED BY <2>2, <2>4 DEF HealInv
<1> QED BY <1>1, <1>2, <1>3 DEF SystemNext

LEMMA HealInvariant == ASSUME ~Faults, ~Switching PROVE System => []HealInv
<1>1. SystemInit => HealInv
  BY InitiallyHealed
<1>2. HealInv /\ [SystemNext]_allVars => HealInv'
  BY HealKeeps
<1> QED BY <1>1, <1>2, PTL DEF System

\* What a step of the monitor alone, between deployments, does to the traffic of
\* two colours.
LEMMA HealingServes ==
    ASSUME HealInv, Healing, ~overlapped', job.strategy = "blue_green", Serving PROVE Serving'
<1>1. UNCHANGED deployer /\ MonitorStep /\ ~overlapped /\ pc = "idle"
  BY DEF Healing
<1>2. Healed /\ ~HasCanary
  BY <1>1 DEF HealInv, Regular, HasCanary
<1>3. loaded # {} /\ proxy
  BY DEF Serving
<1>4. HasColours
  <2>1. Running # {}
    BY <1>1, <1>2, <1>3, MonitorSees, BoxOf
  <2> QED BY <1>2, <2>1 DEF Healed, Driven, HasColours
<1>5. step \notin InPlaceSteps
  BY <1>2, <1>4 DEF Healed, MonitorTyped
<1>6. CASE Tick \/ Check \/ Restart
  <2>1. loaded' = loaded /\ proxy' = proxy
    BY <1>6 DEF Tick, Check, Restart, checkHealthViaDocker, restartContainer, host
  <2> QED BY <1>3, <2>1 DEF Serving
<1>7. CASE ClearRollbackSlot \/ RunRollback \/ CheckRollback \/ UndoRollback
  <2>1. loaded' = loaded /\ proxy' = proxy
    BY <1>1, <1>2, <1>7, ClearRollbackSlotHeals, RunRollbackHeals, CheckRollbackHeals, UndoRollbackHeals
  <2> QED BY <1>3, <2>1 DEF Serving
<1>8. CASE SwitchToRollback
  BY <1>1, <1>2, <1>8, SwitchToRollbackHeals DEF Serving
<1>9. CASE DropBroken
  BY <1>1, <1>2, <1>9, DropBrokenHeals DEF Serving
<1>10. CASE RemoveInPlace \/ RunInPlace \/ CheckInPlace \/ ReloadInPlace
  BY <1>5, <1>10 DEF RemoveInPlace, RunInPlace, CheckInPlace, ReloadInPlace, Moves, GiveUp, InPlaceSteps
<1> QED BY <1>1, <1>6, <1>7, <1>8, <1>9, <1>10 DEF MonitorStep

\* What a step has reported as rolled back.
LEMMA RolledBack ==
    ASSUME HealInv, [SystemNext]_allVars, ~overlapped', ~HasCanary, NEW id \in told' \ told
    PROVE  \E n \in loaded' : box'[n].image = monitored[id].previous /\ box'[n].check = "passed"
<1>1. told' # told
  OBVIOUS
<1>2. Healing
  BY <1>1 DEF SystemNext, Deploying, Break, allVars, monitor
<1>3. UNCHANGED deployer /\ MonitorStep /\ ~overlapped /\ pc = "idle"
  BY <1>2 DEF Healing
<1>4. Healed
  BY <1>3 DEF HealInv, Regular
<1>5. DropBroken \/ ReloadInPlace
  BY <1>1, <1>3 DEF MonitorStep, Tick, Check, Restart, ClearRollbackSlot, RunRollback, CheckRollback, UndoRollback,
     SwitchToRollback, RemoveInPlace, RunInPlace, CheckInPlace, Moves, GiveUp
<1>6. CASE DropBroken
  <2>1. /\ told' = told \cup {cur} /\ loaded' = loaded /\ loaded # {}
        /\ \A n \in loaded : box'[n].image = ref.previous /\ box'[n].check = "passed"
    BY <1>3, <1>4, <1>6, DropBrokenHeals
  <2>2. id = cur
    BY <2>1
  <2> QED BY <2>1, <2>2 DEF ref
<1>7. CASE ReloadInPlace
  <2>1. /\ told' = told \cup {cur} /\ ref.container \in loaded' /\ box' = box
        /\ box[ref.container].image = ref.previous /\ box[ref.container].check = "passed"
    BY <1>1, <1>3, <1>4, <1>7, ReloadInPlaceHeals
  <2>2. id = cur
    BY <2>1
  <2> QED BY <2>1, <2>2 DEF ref
<1> QED BY <1>5, <1>6, <1>7

(* While no deployment is under way, self-healing does not cost a blue/green *)
(* project its traffic, whatever breaks and whichever step of the remedy     *)
(* fails (remediation-engine.ts, attemptRollback): of a project whose        *)
(* strategy stays and whose deployments were not cut short.                  *)
THEOREM HealingKeepsServing == ASSUME ~Faults, ~Switching PROVE System => HealingKeepsTraffic
<1>1. HealInv => (Healing /\ ~overlapped' /\ job.strategy = "blue_green" /\ Serving => Serving')
  BY HealingServes
<1>2. System => []HealInv
  BY HealInvariant
<1> QED BY <1>1, <1>2, PTL DEF HealingKeepsTraffic

(* What is reported to the control plane as rolled back is served: traffic   *)
(* goes to the previous image, in a container whose check passed             *)
(* (remediation-engine.ts, attemptRollback and attemptInPlaceRollback), for  *)
(* a project without canaries whose strategy stays and whose deployments     *)
(* were not cut short.                                                       *)
THEOREM RolledBackServes ==
    ASSUME ~Faults, ~Switching, "canary" \notin Strategies PROVE System => RolledBackIsServed
<1>1. HealInv => ~HasCanary
  BY DEF HealInv, JobNamed, HasCanary
<1>2. HealInv /\ [SystemNext]_allVars =>
        [~overlapped' => \A id \in told' \ told : \E n \in loaded' :
            /\ box'[n].image = monitored[id].previous
            /\ box'[n].check = "passed"]_allVars
  BY <1>1, RolledBack
<1>3. System => []HealInv
  BY HealInvariant
<1>4. System => [][SystemNext]_allVars
  BY DEF System
<1> QED BY <1>2, <1>3, <1>4, PTL DEF RolledBackIsServed
-----------------------------------------------------------------------------
(* Deployments to a cloud.                                                 *)

Has(d, pcs, target) == task[d].pc \in pcs /\ task[d].target = target

\* What a task is at work on exists.
UnitsOf(d) ==
  /\ task[d].pc \in {"find", "put", "launch", "wait", "check"} => task[d].target \in Clouds
  /\ task[d].pc = "launch" => task[d].target = "railway"
  /\ task[d].ok => task[d].pc \in {"report", "done"} /\ task[d].target \in Clouds
  /\ At(d, "put", "fly_io") => task[d].unit \in 0 .. Len(machine)
  /\ At(d, "wait", "fly_io") => task[d].unit \in 1 .. Len(machine)
  /\ At(d, "put", "railway") => task[d].unit \in 0 .. Len(service)
  /\ Has(d, {"launch", "wait"}, "railway") => task[d].unit \in 1 .. Len(service)

UnitsExist ==
  /\ Len(machine) <= MaxUnits /\ Len(service) <= MaxUnits
  /\ \A d \in Deploys : UnitsOf(d)

Asked(d) == \E i \in DOMAIN asked : asked[i] = d

\* A task that has asked a cloud is the last one that did, until it is over.
AskedOf(d) ==
  /\ Asked(d) => task[d].pc # "idle"
  /\ task[d].ok => Asked(d)
  /\ task[d].pc \in {"launch", "wait", "check"} => asked # <<>> /\ asked[Len(asked)] = d

AskedLast == \A d \in Deploys : AskedOf(d)

Alone == \A d, e \in UsingCloud : d = e

Alive(i) == i \in DOMAIN machine /\ machine[i].state # "failed"

\* The Fly app has one machine that has not failed: the one a task found, or
\* waits for; ...
MachineOf(d) ==
  /\ At(d, "put", "fly_io") =>
       IF task[d].unit = 0 THEN \A i \in DOMAIN machine : ~Alive(i)
                           ELSE machine[task[d].unit].state \in {"started", "stopped"}
  /\ At(d, "wait", "fly_io") =>
       /\ machine[task[d].unit].image = d
       /\ \A i \in DOMAIN machine : Alive(i) => i = task[d].unit

\* ... and none is on its way that no task waits for.
Awaited ==
  \A i \in DOMAIN machine : machine[i].state \in {"starting", "replacing"} =>
    \E d \in Deploys : At(d, "wait", "fly_io") /\ task[d].unit = i

OneMachine ==
  /\ \A i, j \in DOMAIN machine : Alive(i) /\ Alive(j) => i = j
  /\ Awaited
  /\ \A d \in Deploys : MachineOf(d)

\* The Railway project has one service of the name, and one deployment of it
\* that is served; none is on its way that no task waits for.
ServiceOf(d) ==
  /\ At(d, "put", "railway") /\ task[d].unit = 0 => service = <<>>
  /\ At(d, "launch", "railway") => service[1] = d
  /\ launch[d].status # "none" => launch[d].unit = 1 /\ launch[d].image = d
  /\ launch[d].status = "BUILDING" => At(d, "wait", "railway")

OneService ==
  /\ Len(service) <= 1
  /\ \A d \in Deploys : ServiceOf(d)
  /\ \A d, e \in Deploys : launch[d].status = "SUCCESS" /\ launch[e].status = "SUCCESS" => d = e

\* A task is told that its image runs.
Told(d) == task[d].pc = "check" \/ task[d].ok

\* ... and nobody has asked the same cloud since.
Latest(d) == ~\E e \in Since(d) \ {d} : task[e].target = task[d].target

ServedOf(d) == Told(d) /\ Latest(d) => d \in Served(task[d].target)

LatestIsServed == \A d \in Deploys : ServedOf(d)

NoDoubt == Alone /\ AskedLast /\ OneMachine /\ OneService /\ LatestIsServed

CloudInv == CloudTypeOK /\ UnitsExist /\ (doubts = 0 => NoDoubt)

LEMMA CloudConstants == MaxUnits \in Nat \ {0} /\ MaxDoubts \in Nat
BY CloudAssumption

LEMMA LeastOf == ASSUME NEW S \in SUBSET Nat, S # {} PROVE \E n \in S : \A m \in S : n <= m
<1>1. PICK n \in S : \A m \in S : ~(<<m, n>> \in OpToRel(<, Nat))
  BY WFMin, NatLessThanWellFounded
<1>2. ASSUME NEW m \in S PROVE n <= m
  <2>1. m \in Nat /\ n \in Nat
    OBVIOUS
  <2>2. m < n => <<m, n>> \in OpToRel(<, Nat)
    BY <2>1 DEF OpToRel
  <2>3. ~(m < n)
    BY <1>1, <2>2, Zenon
  <2> QED BY <2>1, <2>3
<1> QED BY <1>2

\* The machine that FlyDeployer takes: one that is started or stopped, or none.
LEMMA ActiveMachineIs ==
    ASSUME machine \in Seq([state : {"starting", "replacing", "started", "stopped", "failed"},
                            image : Deploys])
    PROVE  /\ ActiveMachine \in 0 .. Len(machine)
           /\ IF ActiveMachine = 0
              THEN \A i \in DOMAIN machine : machine[i].state \notin {"started", "stopped"}
              ELSE machine[ActiveMachine].state \in {"started", "stopped"}
<1> DEFINE I == {i \in 1 .. Len(machine) : machine[i].state \in {"started", "stopped"}}
<1>1. ActiveMachine = IF I # {} THEN Min(I) ELSE 0
  BY DEF ActiveMachine, SelectInSeq
<1>2. CASE I = {}
  BY <1>1, <1>2
<1>3. CASE I # {}
  <2>1. I \in SUBSET Nat /\ I # {}
    BY <1>3
  <2>2. \E n \in I : \A m \in I : n <= m
    BY <2>1, LeastOf
  <2>3. Min(I) \in I
    BY <2>2 DEF Min
  <2>4. Min(I) # 0
    BY <2>3
  <2> QED BY <1>1, <1>3, <2>3, <2>4
<1> QED BY <1>2, <1>3

\* What a task finds before its first call.
LEMMA OutcomesAre ==
    ASSUME NEW outcome \in Outcomes
    PROVE  /\ outcome.target \in Clouds \cup {"none"}
           /\ outcome.can \in {"refused", "throws", "deploy", "fail"}
           /\ outcome.can # "refused" => outcome.target \in Clouds
<1>1. PICK request \in Requests : outcome = Prepared(request)
  BY DEF Outcomes
<1> QED BY <1>1 DEF Prepared

\* The records of the tasks.
TaskPcs == {"idle", "deploy", "find", "put", "launch", "wait", "check", "report", "done"}
TaskRecords == [pc : TaskPcs, target : Clouds \cup {"none"}, unit : 0 .. MaxUnits, ok : BOOLEAN]

LEMMA TaskTyped == CloudTypeOK => task \in [Deploys -> TaskRecords]
BY DEF CloudTypeOK, TaskRecords, TaskPcs

LEMMA CloudStarts == CloudInit => CloudInv
<1> SUFFICES ASSUME CloudInit PROVE CloudInv
  OBVIOUS
<1>1. CloudTypeOK
  <2>1. NoTask \in TaskRecords
    BY CloudConstants DEF NoTask, TaskRecords, TaskPcs
  <2>2. task \in [Deploys -> TaskRecords]
    BY <2>1 DEF CloudInit
  <2>3. launch \in [Deploys -> [status : {"none", "BUILDING", "SUCCESS", "FAILED", "REMOVED"},
                                image : Deploys, unit : 0 .. MaxUnits]]
    BY CloudConstants DEF CloudInit
  <2>4. /\ deployments \in [Deploys -> {"none", "deploying", "active", "draining", "stopped", "failed"}]
        /\ created \in Seq(Deploys) /\ service \in Seq(Deploys) /\ asked \in Seq(Deploys)
        /\ machine \in Seq([state : {"starting", "replacing", "started", "stopped", "failed"},
                            image : Deploys])
        /\ doubts \in 0 .. MaxDoubts
    BY CloudConstants DEF CloudInit
  <2> QED BY <2>2, <2>3, <2>4 DEF CloudTypeOK, TaskRecords, TaskPcs
<1>2. \A d \in Deploys : task[d].pc = "idle" /\ ~task[d].ok /\ launch[d].status = "none"
  BY DEF CloudInit, NoTask
<1>3. Len(machine) = 0 /\ Len(service) = 0 /\ DOMAIN machine = {} /\ DOMAIN asked = {}
  BY DEF CloudInit
<1>4. UnitsExist
  BY <1>2, <1>3, CloudConstants DEF UnitsExist, UnitsOf, At, Has
<1>5. Alone /\ AskedLast /\ OneMachine /\ OneService /\ LatestIsServed
  <2>1. Alone /\ AskedLast /\ LatestIsServed
    BY <1>2, <1>3 DEF Alone, UsingCloud, AskedLast, AskedOf, Asked, LatestIsServed, ServedOf, Told
  <2>2. OneMachine
    BY <1>2, <1>3 DEF OneMachine, MachineOf, Awaited, At
  <2>3. OneService
    BY <1>2, <1>3 DEF OneService, ServiceOf, At
  <2> QED BY <2>1, <2>2, <2>3
<1> QED BY <1>1, <1>4, <1>5 DEF CloudInv, NoDoubt

\* What is served by Fly comes from its one machine, and by Railway from its
\* one successful deployment.
LEMMA ServedIsOne ==
    ASSUME CloudTypeOK, OneMachine, OneService, NEW d \in Deploys, NEW target \in Clouds,
           d \in Served(target)
    PROVE  Served(target) = {d}
<1>1. CASE target = "fly_io"
  <2>1. PICK i \in DOMAIN machine : machine[i].state \in {"started", "stopped"} /\ machine[i].image = d
    BY <1>1 DEF Served
  <2>2. \A j \in DOMAIN machine : machine[j].state \in {"started", "stopped"} => j = i
    BY <2>1 DEF OneMachine, Alive
  <2> QED BY <1>1, <2>1, <2>2 DEF Served
<1>2. CASE target # "fly_io"
  <2>1. d \in {launch[e].image : e \in {e \in Deploys : launch[e].status = "SUCCESS"}}
    BY <1>2 DEF Served
  <2>2. \A e, f \in Deploys : launch[e].status = "SUCCESS" /\ launch[f].status = "SUCCESS" => e = f
    BY DEF OneService
  <2> QED BY <1>2, <2>1, <2>2 DEF Served
<1> QED BY <1>1, <1>2

LEMMA OneImageFollows == CloudInv => OneImageServed
<1> SUFFICES ASSUME CloudInv, doubts = 0, NEW d \in Deploys, task[d].pc = "done", task[d].ok,
                    ~\E e \in Since(d) \ {d} : task[e].target = task[d].target
             PROVE  Served(task[d].target) = {d}
  BY DEF OneImageServed
<1>1. d \in Served(task[d].target) /\ CloudTypeOK /\ OneMachine /\ OneService
  BY DEF CloudInv, NoDoubt, LatestIsServed, ServedOf, Told, Latest
<1>2. task[d].target \in Clouds
  BY DEF CloudInv, UnitsExist, UnitsOf
<1> QED BY <1>1, <1>2, ServedIsOne

-----------------------------------------------------------------------------

\* Nobody who has asked is forgotten, and who asks now has asked since all others.
LEMMA SinceGrows ==
    ASSUME CloudTypeOK, NEW e \in Deploys, asked' = Append(asked, e)
    PROVE  /\ \A d \in Deploys : Since(d) \subseteq Since(d)' /\ (Asked(d) => e \in Since(d)')
           /\ \A d \in Deploys : Asked(d)' <=> Asked(d) \/ d = e
           /\ asked' # <<>> /\ asked'[Len(asked')] = e /\ asked' \in Seq(Deploys)
<1>1. asked \in Seq(Deploys)
  BY DEF CloudTypeOK
<1>2. /\ asked' \in Seq(Deploys) /\ Len(asked) \in Nat /\ Len(asked') = Len(asked) + 1
      /\ \A i \in 1 .. Len(asked) : asked'[i] = asked[i]
      /\ asked'[Len(asked) + 1] = e /\ asked' # <<>>
      /\ DOMAIN asked = 1 .. Len(asked) /\ DOMAIN asked' = 1 .. Len(asked) + 1
  BY <1>1
<1>3. ASSUME NEW d \in Deploys PROVE Since(d) \subseteq Since(d)' /\ (Asked(d) => e \in Since(d)')
  <2>1. ASSUME NEW j \in DOMAIN asked, NEW i \in 1 .. j, asked[i] = d PROVE asked[j] \in Since(d)'
    <3>1. i \in 1 .. Len(asked) /\ j \in 1 .. Len(asked) /\ j \in DOMAIN asked'
      BY <1>2
    <3>2. asked'[i] = d /\ asked'[j] = asked[j]
      BY <1>2, <2>1, <3>1
    <3> QED BY <3>1, <3>2 DEF Since
  <2>2. ASSUME NEW i \in DOMAIN asked, asked[i] = d PROVE e \in Since(d)'
    <3>1. i \in 1 .. Len(asked) + 1 /\ asked'[i] = d /\ Len(asked) + 1 \in DOMAIN asked'
      BY <1>2, <2>2
    <3> QED BY <1>2, <3>1 DEF Since
  <2> QED BY <2>1, <2>2 DEF Since, Asked
<1>4. ASSUME NEW d \in Deploys PROVE Asked(d)' <=> Asked(d) \/ d = e
  BY <1>2 DEF Asked
<1> QED BY <1>2, <1>3, <1>4

\* ... also as long as it is the last that asked.
LEMMA LastIsSince ==
    ASSUME CloudTypeOK, NEW d \in Deploys, Asked(d), asked # <<>>
    PROVE  asked[Len(asked)] \in Since(d)
<1>1. Len(asked) \in Nat /\ DOMAIN asked = 1 .. Len(asked)
  BY DEF CloudTypeOK
<1>2. PICK i \in DOMAIN asked : asked[i] = d
  BY DEF Asked
<1> QED BY <1>1, <1>2 DEF Since

\* The images that Fly serves, and those that Railway serves.
LEMMA ServedBy ==
  /\ \A d : d \in Served("fly_io") <=>
       \E i \in DOMAIN machine : machine[i].state \in {"started", "stopped"} /\ machine[i].image = d
  /\ \A d : d \in Served("railway") <=>
       \E e \in Deploys : launch[e].status = "SUCCESS" /\ launch[e].image = d
BY DEF Served

\* A step of one task that changes nothing at a cloud.
LEMMA TaskMoves ==
    ASSUME CloudInv, NEW d \in Deploys, NEW r \in TaskRecords, task' = [task EXCEPT ![d] = r],
           UNCHANGED <<clouds, asked>>, created' \in Seq(Deploys),
           deployments' \in [Deploys -> {"none", "deploying", "active", "draining", "stopped", "failed"}],
           doubts' \in 0 .. MaxDoubts, doubts' = 0 => doubts = 0,
           task[d].pc # "idle" => r.target = task[d].target, r.pc # "idle", UnitsOf(d)',
           doubts' = 0 =>
             /\ d \in UsingCloud \/ UsingCloud = {}
             /\ At(d, "wait", "fly_io") => machine[task[d].unit].state \notin {"starting", "replacing"}
             /\ AskedOf(d)' /\ MachineOf(d)' /\ ServiceOf(d)' /\ ServedOf(d)'
    PROVE  CloudInv'
<1>1. /\ task \in [Deploys -> TaskRecords] /\ task' \in [Deploys -> TaskRecords] /\ task'[d] = r
      /\ \A e \in Deploys : e # d => task'[e] = task[e]
  BY TaskTyped DEF CloudInv
<1>2. UNCHANGED <<machine, service, launch>>
  BY DEF clouds
<1>3. CloudTypeOK'
  BY <1>1, <1>2 DEF CloudInv, CloudTypeOK, TaskRecords, TaskPcs
<1>4. UnitsExist'
  <2>1. ASSUME NEW e \in Deploys, e # d PROVE UnitsOf(e)'
    BY <1>1, <1>2, <2>1 DEF CloudInv, UnitsExist, UnitsOf, At, Has
  <2> QED BY <1>2, <2>1 DEF CloudInv, UnitsExist
<1>5. ASSUME doubts' = 0 PROVE NoDoubt'
  <2>1. /\ Alone /\ AskedLast /\ OneMachine /\ OneService /\ LatestIsServed
        /\ d \in UsingCloud \/ UsingCloud = {}
    BY <1>5 DEF CloudInv, NoDoubt
  <2>2. Alone'
    <3>1. ASSUME NEW e \in Deploys, e \in UsingCloud' PROVE e = d \/ e \in UsingCloud
      BY <1>1, <3>1 DEF UsingCloud
    <3> QED BY <2>1, <3>1 DEF Alone, UsingCloud
  <2>3. ASSUME NEW e \in Deploys, e # d
        PROVE  AskedOf(e)' /\ MachineOf(e)' /\ ServiceOf(e)' /\ ServedOf(e)'
    <3>1. AskedOf(e)' /\ MachineOf(e)' /\ ServiceOf(e)'
      BY <1>1, <1>2, <2>1, <2>3
      DEF AskedLast, AskedOf, Asked, OneMachine, MachineOf, OneService, ServiceOf, At, Alive
    <3>2. Told(e)' /\ Latest(e)' => Told(e) /\ Latest(e)
      <4>1. ASSUME NEW x \in Since(e), x # e, task[x].target = task[e].target
            PROVE  x \in Since(e)' /\ task'[x].target = task'[e].target
        <5>1. x \in Deploys /\ Asked(x)
          BY <4>1 DEF Since, Asked, CloudInv, CloudTypeOK
        <5>2. task[x].pc # "idle"
          BY <2>1, <5>1 DEF AskedLast, AskedOf
        <5> QED BY <1>1, <2>3, <4>1, <5>1, <5>2 DEF Since
      <4> QED BY <1>1, <2>3, <4>1 DEF Told, Latest
    <3>3. Served(task[e].target)' = Served(task[e].target)
      BY <1>1, <1>2, <2>3 DEF Served
    <3> QED BY <2>1, <3>1, <3>2, <3>3 DEF ServedOf, LatestIsServed
  <2>4. OneMachine'
    <3>1. Awaited'
      <4> SUFFICES ASSUME NEW i \in DOMAIN machine, machine[i].state \in {"starting", "replacing"}
                   PROVE  \E e \in Deploys : At(e, "wait", "fly_io")' /\ task'[e].unit = i
        BY <1>2 DEF Awaited
      <4>1. PICK e \in Deploys : At(e, "wait", "fly_io") /\ task[e].unit = i
        BY <2>1 DEF OneMachine, Awaited
      <4>2. e # d
        BY <1>5, <4>1
      <4> QED BY <1>1, <4>1, <4>2 DEF At
    <3>2. \A i, j \in DOMAIN machine' : Alive(i)' /\ Alive(j)' => i = j
      BY <1>2, <2>1 DEF OneMachine, Alive
    <3> QED BY <1>5, <2>3, <3>1, <3>2 DEF OneMachine
  <2>5. OneService'
    BY <1>2, <1>5, <2>1, <2>3 DEF OneService
  <2> QED BY <1>5, <2>2, <2>3, <2>4, <2>5 DEF NoDoubt, AskedLast, LatestIsServed
<1> QED BY <1>3, <1>4, <1>5 DEF CloudInv

-----------------------------------------------------------------------------
(* The steps of a task.                                                    *)

LEMMA TaskOf ==
    ASSUME CloudInv, NEW d \in Deploys
    PROVE  /\ task[d] \in TaskRecords /\ UnitsOf(d) /\ doubts \in 0 .. MaxDoubts
           /\ machine \in Seq([state : {"starting", "replacing", "started", "stopped", "failed"},
                               image : Deploys])
           /\ service \in Seq(Deploys) /\ Len(machine) <= MaxUnits /\ Len(service) <= MaxUnits
           /\ created \in Seq(Deploys)
           /\ deployments \in [Deploys -> {"none", "deploying", "active", "draining", "stopped", "failed"}]
           /\ doubts = 0 =>
                /\ Alone /\ OneMachine /\ OneService /\ Awaited
                /\ AskedOf(d) /\ MachineOf(d) /\ ServiceOf(d) /\ ServedOf(d)
BY TaskTyped DEF CloudInv, UnitsExist, CloudTypeOK, NoDoubt, AskedLast, OneMachine, OneService, LatestIsServed

LEMMA Doubts == ASSUME CloudInv, Doubtful PROVE doubts' \in 0 .. MaxDoubts /\ doubts' # 0
BY CloudConstants DEF CloudInv, CloudTypeOK, Doubtful

LEMMA ListMachinesKeeps == ASSUME CloudInv, NEW d \in Deploys, ListMachines(d) PROVE CloudInv'
<1> DEFINE r == [task[d] EXCEPT !.pc = "put", !.unit = ActiveMachine]
<1>1. /\ task[d].pc = "find" /\ task[d].target = "fly_io"
      /\ UNCHANGED <<deployments, created, machine, service, launch, asked, doubts>>
  BY DEF ListMachines, At, records, clouds
<1>2. task[d] \in TaskRecords /\ UnitsOf(d) /\ ~task[d].ok
  BY <1>1, TaskOf DEF UnitsOf
<1>3. /\ ActiveMachine \in 0 .. Len(machine) /\ ActiveMachine \in 0 .. MaxUnits
      /\ IF ActiveMachine = 0 THEN \A i \in DOMAIN machine : machine[i].state \notin {"started", "stopped"}
                              ELSE machine[ActiveMachine].state \in {"started", "stopped"}
  <2>1. Len(machine) \in Nat /\ Len(machine) <= MaxUnits /\ MaxUnits \in Nat
    BY TaskOf, CloudConstants
  <2>2. machine \in Seq([state : {"starting", "replacing", "started", "stopped", "failed"},
                          image : Deploys])
    BY TaskOf
  <2>3. /\ ActiveMachine \in 0 .. Len(machine)
        /\ IF ActiveMachine = 0 THEN \A i \in DOMAIN machine : machine[i].state \notin {"started", "stopped"}
                                ELSE machine[ActiveMachine].state \in {"started", "stopped"}
    BY <2>2, ActiveMachineIs
  <2> QED BY <2>1, <2>3
<1> HIDE DEF ActiveMachine
<1>4. /\ r \in TaskRecords /\ r.pc = "put" /\ r.target = "fly_io" /\ r.unit = ActiveMachine /\ ~r.ok
      /\ task' = [task EXCEPT ![d] = r] /\ task'[d] = r
  BY <1>1, <1>2, <1>3, TaskTyped DEF ListMachines, Uses, TaskRecords, TaskPcs, CloudInv
<1> HIDE DEF r
<1>5. UnitsOf(d)'
  BY <1>1, <1>3, <1>4 DEF UnitsOf, At, Has, Clouds
<1>6. ASSUME doubts = 0
      PROVE  d \in UsingCloud /\ AskedOf(d)' /\ MachineOf(d)' /\ ServiceOf(d)' /\ ServedOf(d)'
  <2>1. d \in UsingCloud
    BY <1>1 DEF UsingCloud
  <2>2. \A i \in DOMAIN machine : machine[i].state \notin {"starting", "replacing"}
    <3>1. Alone /\ Awaited
      BY <1>6, TaskOf
    <3> SUFFICES ASSUME NEW i \in DOMAIN machine, machine[i].state \in {"starting", "replacing"}
                 PROVE  FALSE
      OBVIOUS
    <3>2. PICK e \in Deploys : At(e, "wait", "fly_io")
      BY <3>1 DEF Awaited
    <3>3. e \in UsingCloud
      BY <3>2 DEF At, UsingCloud
    <3>4. e = d
      BY <2>1, <3>1, <3>3 DEF Alone
    <3> QED BY <1>1, <3>2, <3>4 DEF At
  <2>3. MachineOf(d)'
    <3>1. ActiveMachine = 0 => \A i \in DOMAIN machine : machine[i].state = "failed"
      <4>1. \A i \in DOMAIN machine :
              machine[i].state \in {"starting", "replacing", "started", "stopped", "failed"}
        <5>1. machine \in Seq([state : {"starting", "replacing", "started", "stopped", "failed"},
                                image : Deploys])
          BY TaskOf
        <5>2. \A S : machine \in Seq(S) => \A i \in DOMAIN machine : machine[i] \in S
          OBVIOUS
        <5>3. \A i \in DOMAIN machine :
                machine[i] \in [state : {"starting", "replacing", "started", "stopped", "failed"},
                                image : Deploys]
          BY <5>1, <5>2
        <5> QED BY <5>3
      <4> QED BY <1>3, <2>2, <4>1
    <3> QED BY <1>1, <1>3, <1>4, <3>1 DEF MachineOf, At, Alive
  <2>4. ServiceOf(d)'
    BY <1>1, <1>4, <1>6, TaskOf DEF ServiceOf, At
  <2>5. AskedOf(d)' /\ ServedOf(d)'
    BY <1>4 DEF AskedOf, ServedOf, Told
  <2> QED BY <2>1, <2>3, <2>4, <2>5
<1> QED BY <1>1, <1>4, <1>5, <1>6, TaskMoves, TaskOf DEF At, clouds

LEMMA GetProjectKeeps == ASSUME CloudInv, NEW d \in Deploys, GetProject(d) PROVE CloudInv'
<1> DEFINE u == IF service = <<>> THEN 0 ELSE 1
           r == [task[d] EXCEPT !.pc = "put", !.unit = u]
<1>1. /\ task[d].pc = "find" /\ task[d].target = "railway"
      /\ UNCHANGED <<deployments, created, machine, service, launch, asked, doubts>>
  BY DEF GetProject, At, records, clouds
<1>2. task[d] \in TaskRecords /\ UnitsOf(d) /\ ~task[d].ok
  BY <1>1, TaskOf DEF UnitsOf
<1>3. u \in 0 .. Len(service) /\ u \in 0 .. MaxUnits /\ (u = 0 => service = <<>>)
  BY TaskOf, CloudConstants
<1>4. task' = [task EXCEPT ![d].pc = "put", ![d].unit = u]
  BY DEF GetProject, Uses
<1> HIDE DEF u
<1>5. /\ r \in TaskRecords /\ r.pc = "put" /\ r.target = "railway" /\ r.unit = u /\ ~r.ok
      /\ task' = [task EXCEPT ![d] = r] /\ task'[d] = r
  BY <1>1, <1>2, <1>3, <1>4, TaskTyped DEF TaskRecords, TaskPcs, CloudInv
<1> HIDE DEF r
<1>6. UnitsOf(d)'
  BY <1>1, <1>3, <1>5 DEF UnitsOf, At, Has, Clouds
<1>7. ASSUME doubts = 0
      PROVE  d \in UsingCloud /\ AskedOf(d)' /\ MachineOf(d)' /\ ServiceOf(d)' /\ ServedOf(d)'
  <2>1. d \in UsingCloud
    BY <1>1 DEF UsingCloud
  <2>2. MachineOf(d)' /\ AskedOf(d)' /\ ServedOf(d)'
    BY <1>5 DEF MachineOf, At, AskedOf, ServedOf, Told
  <2>3. ServiceOf(d)'
    BY <1>1, <1>3, <1>5, <1>7, TaskOf DEF ServiceOf, At
  <2> QED BY <2>1, <2>2, <2>3
<1> QED BY <1>1, <1>5, <1>6, <1>7, TaskMoves, TaskOf DEF At, clouds

\* A task that ends, or is over, and whose deployment is not on its way.
LEMMA TaskEnds ==
    ASSUME CloudInv, NEW d \in Deploys, NEW place \in {"report", "done"}, NEW ok \in BOOLEAN,
           task' = [task EXCEPT ![d].pc = place, ![d].ok = ok], d \in UsingCloud,
           UNCHANGED <<clouds, asked>>, created' \in Seq(Deploys),
           deployments' \in [Deploys -> {"none", "deploying", "active", "draining", "stopped", "failed"}],
           doubts' \in 0 .. MaxDoubts, doubts' = 0 => doubts = 0, ok => task[d].target \in Clouds,
           doubts' = 0 =>
             /\ At(d, "wait", "fly_io") => machine[task[d].unit].state \notin {"starting", "replacing"}
             /\ launch[d].status # "BUILDING"
             /\ ok => Asked(d) /\ (Latest(d) => d \in Served(task[d].target))
    PROVE  CloudInv'
<1> DEFINE r == [task[d] EXCEPT !.pc = place, !.ok = ok]
<1>1. /\ r \in TaskRecords /\ r.pc = place /\ r.target = task[d].target /\ r.ok = ok
      /\ task' = [task EXCEPT ![d] = r] /\ task'[d] = r
  BY TaskTyped, TaskOf DEF TaskRecords, TaskPcs, CloudInv
<1> HIDE DEF r
<1>2. UNCHANGED <<machine, service, launch>>
  BY DEF clouds
<1>3. UnitsOf(d)'
  BY <1>1, <1>2 DEF UnitsOf, At, Has
<1>4. ASSUME doubts' = 0 PROVE AskedOf(d)' /\ MachineOf(d)' /\ ServiceOf(d)' /\ ServedOf(d)'
  <2>1. Asked(d)' <=> Asked(d)
    BY DEF Asked
  <2>2. AskedOf(d)' /\ MachineOf(d)'
    BY <1>1, <1>4, <2>1 DEF AskedOf, MachineOf, At
  <2>3. ServiceOf(d)'
    BY <1>1, <1>2, <1>4, TaskOf DEF ServiceOf, At
  <2>4. ServedOf(d)'
    <3>1. Latest(d)' => Latest(d)
      <4>1. ASSUME NEW x \in Since(d), x # d, task[x].target = task[d].target
            PROVE  x \in Since(d)' /\ task'[x].target = task'[d].target
        <5>1. x \in Deploys
          BY DEF Since, CloudInv, CloudTypeOK
        <5> QED BY <1>1, <4>1, <5>1, TaskTyped DEF Since, CloudInv
      <4> QED BY <4>1 DEF Latest
    <3>2. Served(task[d].target)' = Served(task[d].target)
      BY <1>1, <1>2 DEF Served
    <3> QED BY <1>1, <1>4, <3>1, <3>2 DEF ServedOf, Told
  <2> QED BY <2>2, <2>3, <2>4
<1> QED BY <1>1, <1>3, <1>4, TaskMoves

LEMMA FailCallKeeps == ASSUME CloudInv, NEW d \in Deploys, FailCall(d) PROVE CloudInv'
<1>1. /\ task[d].pc \in {"find", "put", "launch", "wait"}
      /\ IF task[d].pc = "wait" THEN Doubtful ELSE UNCHANGED doubts
      /\ task' = [task EXCEPT ![d].pc = "report", ![d].ok = FALSE]
      /\ UNCHANGED <<deployments, created>> /\ UNCHANGED <<clouds, asked>>
  BY DEF FailCall, Ends, records
<1>2. d \in UsingCloud /\ doubts' \in 0 .. MaxDoubts /\ (doubts' = 0 => doubts = 0 /\ task[d].pc # "wait")
  BY <1>1, TaskOf, Doubts DEF UsingCloud
<1>3. doubts' = 0 => ~At(d, "wait", "fly_io") /\ launch[d].status # "BUILDING"
  BY <1>2, TaskOf DEF ServiceOf, At
<1> QED BY <1>1, <1>2, <1>3, TaskOf, TaskEnds

LEMMA CheckHealthKeeps ==
    ASSUME CloudInv, NEW d \in Deploys, NEW passed \in BOOLEAN, CheckHealth(d, passed) PROVE CloudInv'
<1>1. /\ task[d].pc = "check" /\ task' = [task EXCEPT ![d].pc = "report", ![d].ok = passed]
      /\ UNCHANGED <<deployments, created, doubts>> /\ UNCHANGED <<clouds, asked>>
  BY DEF CheckHealth, Ends, records
<1>2. d \in UsingCloud /\ task[d].target \in Clouds
  BY <1>1, TaskOf DEF UsingCloud, UnitsOf
<1>3. doubts = 0 => launch[d].status # "BUILDING" /\ ~At(d, "wait", "fly_io")
  BY <1>1, TaskOf DEF ServiceOf, At
<1>4. doubts = 0 => Asked(d) /\ (Latest(d) => d \in Served(task[d].target))
  <2>1. asked # <<>> /\ asked \in Seq(Deploys) => Len(asked) \in DOMAIN asked
    OBVIOUS
  <2> QED BY <1>1, <2>1, TaskOf DEF AskedOf, Asked, ServedOf, Told, CloudInv, CloudTypeOK
<1> QED BY <1>1, <1>2, <1>3, <1>4, TaskOf, TaskEnds

\* Who has asked last has asked.
LEMMA LastHasAsked ==
    ASSUME CloudInv, NEW d \in Deploys, doubts = 0, task[d].pc \in {"launch", "wait", "check"}
    PROVE  Asked(d) /\ asked # <<>> /\ asked[Len(asked)] = d
<1>1. asked # <<>> /\ asked \in Seq(Deploys) /\ asked[Len(asked)] = d
  BY TaskOf DEF AskedOf, CloudInv, CloudTypeOK
<1>2. Len(asked) \in DOMAIN asked
  BY <1>1
<1> QED BY <1>1, <1>2 DEF Asked

\* A task that is told its image runs, and goes on to check that.
LEMMA TaskChecks ==
    ASSUME CloudInv, NEW d \in Deploys, task' = [task EXCEPT ![d].pc = "check"], task[d].pc = "wait",
           UNCHANGED <<records, clouds, asked, doubts>>,
           doubts = 0 =>
             /\ At(d, "wait", "fly_io") => machine[task[d].unit].state \notin {"starting", "replacing"}
             /\ launch[d].status # "BUILDING" /\ d \in Served(task[d].target)
    PROVE  CloudInv'
<1> DEFINE r == [task[d] EXCEPT !.pc = "check"]
<1>1. /\ r \in TaskRecords /\ r.pc = "check" /\ r.target = task[d].target /\ r.ok = task[d].ok
      /\ task' = [task EXCEPT ![d] = r] /\ task'[d] = r
  BY TaskTyped, TaskOf DEF TaskRecords, TaskPcs, CloudInv
<1> HIDE DEF r
<1>2. UNCHANGED <<machine, service, launch, created, deployments>>
  BY DEF clouds, records
<1>3. UnitsOf(d)'
  BY <1>1, <1>2, TaskOf DEF UnitsOf, At, Has
<1>4. ASSUME doubts = 0
      PROVE  d \in UsingCloud /\ AskedOf(d)' /\ MachineOf(d)' /\ ServiceOf(d)' /\ ServedOf(d)'
  <2>1. d \in UsingCloud
    BY DEF UsingCloud
  <2>2. AskedOf(d)'
    BY <1>1, <1>4, LastHasAsked DEF AskedOf, Asked
  <2>3. MachineOf(d)' /\ ServiceOf(d)'
    BY <1>1, <1>2, <1>4, TaskOf DEF MachineOf, ServiceOf, At
  <2>4. ServedOf(d)'
    <3>1. Served(task[d].target)' = Served(task[d].target)
      BY <1>1, <1>2 DEF Served
    <3> QED BY <1>1, <1>4, <3>1 DEF ServedOf
  <2> QED BY <2>1, <2>2, <2>3, <2>4
<1> QED BY <1>1, <1>2, <1>3, <1>4, TaskMoves, TaskOf

LEMMA WaitForMachineKeeps == ASSUME CloudInv, NEW d \in Deploys, WaitForMachineState(d) PROVE CloudInv'
<1>1. /\ task[d].pc = "wait" /\ task[d].target = "fly_io" /\ UNCHANGED <<records, clouds, asked, doubts>>
      /\ \/ machine[task[d].unit].state = "started" /\ Go(d, "check")
         \/ machine[task[d].unit].state = "failed" /\ Ends(d, FALSE)
  BY DEF WaitForMachineState, At
<1>2. UNCHANGED <<clouds, asked>> /\ UNCHANGED <<deployments, created, doubts>>
  BY <1>1 DEF records
<1>3. d \in UsingCloud
  BY <1>1 DEF UsingCloud
<1>4. doubts = 0 => launch[d].status # "BUILDING"
  BY <1>1, TaskOf DEF ServiceOf, At
<1>5. CASE machine[task[d].unit].state = "started" /\ Go(d, "check")
  <2>1. doubts = 0 => d \in Served(task[d].target)
    <3>1. task[d].unit \in DOMAIN machine
      BY <1>1, TaskOf DEF UnitsOf, At
    <3>2. doubts = 0 => machine[task[d].unit].image = d
      BY <1>1, TaskOf DEF MachineOf, At
    <3> QED BY <1>1, <1>5, <3>1, <3>2, ServedBy
  <2> QED BY <1>1, <1>4, <1>5, <2>1, TaskChecks DEF Go
<1>6. CASE machine[task[d].unit].state = "failed" /\ Ends(d, FALSE)
  BY <1>2, <1>3, <1>4, <1>6, TaskEnds, TaskOf DEF Ends
<1> QED BY <1>1, <1>5, <1>6

LEMMA WaitForDeploymentKeeps == ASSUME CloudInv, NEW d \in Deploys, WaitForDeployment(d) PROVE CloudInv'
<1>1. /\ task[d].pc = "wait" /\ task[d].target = "railway" /\ UNCHANGED <<records, clouds, asked, doubts>>
      /\ \/ launch[d].status = "SUCCESS" /\ (Go(d, "check") \/ Ends(d, TRUE))
         \/ launch[d].status \in {"FAILED", "REMOVED"} /\ Ends(d, FALSE)
  BY DEF WaitForDeployment, At
<1>2. UNCHANGED <<clouds, asked>> /\ UNCHANGED <<deployments, created, doubts>>
  BY <1>1 DEF records
<1>3. d \in UsingCloud /\ ~At(d, "wait", "fly_io") /\ task[d].target \in Clouds
  BY <1>1 DEF UsingCloud, At, Clouds
<1>4. doubts = 0 /\ launch[d].status = "SUCCESS" => d \in Served(task[d].target)
  BY <1>1, TaskOf, ServedBy DEF ServiceOf
<1>5. CASE launch[d].status = "SUCCESS" /\ Go(d, "check")
  BY <1>1, <1>3, <1>4, <1>5, TaskChecks DEF Go
<1>6. CASE launch[d].status = "SUCCESS" /\ Ends(d, TRUE)
  <2>1. doubts = 0 => Asked(d)
    BY <1>1, LastHasAsked
  <2> QED BY <1>2, <1>3, <1>4, <1>6, <2>1, TaskEnds, TaskOf DEF Ends
<1>7. CASE launch[d].status \in {"FAILED", "REMOVED"} /\ Ends(d, FALSE)
  BY <1>2, <1>3, <1>7, TaskEnds, TaskOf DEF Ends
<1> QED BY <1>1, <1>5, <1>6, <1>7

LEMMA ReportKeeps == ASSUME CloudInv, NEW d \in Deploys, Report(d) PROVE CloudInv'
<1>1. /\ task[d].pc = "report" /\ Go(d, "done") /\ UNCHANGED <<clouds, asked>>
      /\ UNCHANGED <<created, doubts>>
      /\ deployments' = Settled(d, task[d].ok) \/ UNCHANGED deployments
  BY DEF Report
<1>2. deployments' \in [Deploys -> {"none", "deploying", "active", "draining", "stopped", "failed"}]
  BY <1>1, TaskOf DEF Settled
<1>3. d \in UsingCloud /\ ~At(d, "wait", "fly_io") /\ task[d].ok \in BOOLEAN
      /\ (task[d].ok => task[d].target \in Clouds)
  BY <1>1, TaskOf DEF UsingCloud, At, UnitsOf, TaskRecords
<1>4. doubts = 0 => /\ launch[d].status # "BUILDING"
                    /\ task[d].ok => Asked(d) /\ (Latest(d) => d \in Served(task[d].target))
  BY <1>1, TaskOf DEF ServiceOf, At, AskedOf, ServedOf, Told
<1>5. task' = [task EXCEPT ![d].pc = "done", ![d].ok = task[d].ok]
  BY <1>1, TaskTyped, TaskOf DEF Go, TaskRecords, CloudInv
<1> QED BY <1>1, <1>2, <1>3, <1>4, <1>5, TaskEnds, TaskOf

LEMMA CrashKeeps == ASSUME CloudInv, NEW d \in Deploys, Crash(d) PROVE CloudInv'
<1>1. /\ d \in UsingCloud /\ Doubtful /\ task' = [task EXCEPT ![d].pc = "done", ![d].ok = FALSE]
      /\ UNCHANGED <<deployments, created>> /\ UNCHANGED <<clouds, asked>>
  BY DEF Crash, records
<1> QED BY <1>1, Doubts, TaskEnds, TaskOf

LEMMA StartTaskKeeps ==
    ASSUME CloudInv, NEW d \in Deploys, NEW outcome \in Outcomes, StartTask(d, outcome) PROVE CloudInv'
<1> DEFINE place == CASE outcome.can = "deploy" -> "find"
                   [] outcome.can = "fail" -> "report"
                   [] OTHER -> "done"
           r == [task[d] EXCEPT !.target = outcome.target, !.pc = place]
<1>1. /\ task[d].pc = "idle" /\ UNCHANGED <<clouds, asked>>
      /\ IF UsingCloud = {} THEN UNCHANGED doubts ELSE Doubtful
      /\ task' = [task EXCEPT ![d].target = outcome.target, ![d].pc = place]
  BY DEF StartTask
<1>2. /\ created' \in Seq(Deploys)
      /\ deployments' \in [Deploys -> {"none", "deploying", "active", "draining", "stopped", "failed"}]
  <2>1. CASE outcome.can = "refused"
    BY <2>1, TaskOf DEF StartTask, records
  <2>2. CASE outcome.can # "refused"
    <3>1. /\ created' = Append(created, d)
          /\ deployments' = [e \in Deploys |->
               IF e = d THEN "deploying"
               ELSE IF deployments[e] = "active" THEN "draining" ELSE deployments[e]]
      BY <2>2 DEF StartTask
    <3>2. created \in Seq(Deploys)
      BY TaskOf
    <3>3. created' \in Seq(Deploys)
      BY <3>1, <3>2
    <3>4. deployments \in [Deploys -> {"none", "deploying", "active", "draining", "stopped", "failed"}]
      BY TaskOf
    <3> QED BY <3>1, <3>3, <3>4
  <2> QED BY <2>1, <2>2
<1>3. place \in {"find", "report", "done"} /\ (place = "find" => outcome.target \in Clouds)
      /\ outcome.target \in Clouds \cup {"none"}
  BY OutcomesAre
<1> HIDE DEF place
<1>4. task[d] \in TaskRecords /\ ~task[d].ok
  BY <1>1, TaskOf DEF UnitsOf
<1>5. /\ r \in TaskRecords /\ r.pc = place /\ r.target = outcome.target /\ ~r.ok
      /\ task' = [task EXCEPT ![d] = r] /\ task'[d] = r
  BY <1>1, <1>3, <1>4, TaskTyped DEF TaskRecords, TaskPcs, CloudInv
<1> HIDE DEF r
<1>6. UnitsOf(d)'
  BY <1>3, <1>5 DEF UnitsOf, At, Has
<1>7. doubts' \in 0 .. MaxDoubts /\ (doubts' = 0 => doubts = 0 /\ UsingCloud = {})
  BY <1>1, Doubts, TaskOf
<1>8. ~At(d, "wait", "fly_io") /\ UNCHANGED <<service, launch>>
  BY <1>1 DEF At, clouds
<1>9. ASSUME doubts = 0 PROVE AskedOf(d)' /\ MachineOf(d)' /\ ServiceOf(d)' /\ ServedOf(d)'
  <2>1. AskedOf(d)' /\ MachineOf(d)' /\ ServedOf(d)'
    BY <1>3, <1>5 DEF AskedOf, MachineOf, ServedOf, Told, At
  <2>2. ServiceOf(d)'
    BY <1>1, <1>3, <1>5, <1>8, <1>9, TaskOf DEF ServiceOf, At
  <2> QED BY <2>1, <2>2
<1> QED BY <1>1, <1>2, <1>3, <1>5, <1>6, <1>7, <1>8, <1>9, TaskMoves

-----------------------------------------------------------------------------
(* The steps that ask a cloud for something.                               *)

\* After such a call a task waits, or has not got its reply and gives up.
LEMMA RepliedIs ==
    ASSUME CloudInv, NEW d \in Deploys, NEW place \in {"launch", "wait"}, NEW u \in 0 .. MaxUnits,
           Replied(d, place, u), task[d].pc \in {"put", "launch"}
    PROVE  /\ task' \in [Deploys -> TaskRecords]
           /\ \A e \in Deploys : e # d => task'[e] = task[e]
           /\ task'[d].target = task[d].target /\ ~task'[d].ok
           /\ doubts' \in 0 .. MaxDoubts
           /\ task'[d].pc = "report" \/ (task'[d].pc = place /\ task'[d].unit = u)
           /\ doubts' = 0 => doubts = 0 /\ task'[d].pc = place /\ task'[d].unit = u
<1>1. task[d] \in TaskRecords /\ ~task[d].ok /\ task \in [Deploys -> TaskRecords]
  BY TaskOf, TaskTyped DEF UnitsOf, CloudInv
<1>2. CASE Uses(d, place, u) /\ UNCHANGED doubts
  <2> DEFINE r == [task[d] EXCEPT !.pc = place, !.unit = u]
  <2>1. task' = [task EXCEPT ![d] = r]
    BY <1>1, <1>2 DEF Uses
  <2>2. r \in TaskRecords /\ r.pc = place /\ r.unit = u /\ r.target = task[d].target /\ r.ok = task[d].ok
    BY <1>1 DEF TaskRecords, TaskPcs
  <2> HIDE DEF r
  <2> QED BY <1>1, <1>2, <2>1, <2>2, TaskOf
<1>3. CASE Ends(d, FALSE) /\ Doubtful
  <2> DEFINE r == [task[d] EXCEPT !.pc = "report", !.ok = FALSE]
  <2>1. task' = [task EXCEPT ![d] = r]
    BY <1>1, <1>3 DEF Ends
  <2>2. r \in TaskRecords /\ r.pc = "report" /\ r.target = task[d].target /\ ~r.ok
    BY <1>1 DEF TaskRecords, TaskPcs
  <2> HIDE DEF r
  <2> QED BY <1>1, <1>3, <2>1, <2>2, Doubts
<1> QED BY <1>2, <1>3 DEF Replied

\* When a task without doubts asks a cloud, nobody else is at work, and those
\* that are over have had it ask since.
LEMMA AskingKeeps ==
    ASSUME CloudInv, doubts = 0, NEW d \in Deploys, task[d].pc = "put", Asks(d),
           task' \in [Deploys -> TaskRecords], \A e \in Deploys : e # d => task'[e] = task[e],
           task'[d].target = task[d].target, ~task'[d].ok, task'[d].pc \in {"launch", "wait"}
    PROVE  /\ Alone' /\ AskedLast'
           /\ \A e \in Deploys : e # d => task[e].pc \in {"idle", "done"}
           /\ \A e \in Deploys : Told(e)' /\ Latest(e)' =>
                e # d /\ Told(e) /\ Latest(e) /\ task[e].target # task[d].target
<1>1. Alone /\ AskedLast /\ LatestIsServed /\ CloudTypeOK
  BY DEF CloudInv, NoDoubt
<1>2. d \in UsingCloud /\ \A e \in Deploys : e # d => task[e].pc \in {"idle", "done"}
  BY <1>1 DEF UsingCloud, Alone
<1>3. Alone'
  BY <1>2 DEF Alone, UsingCloud
<1>4. /\ \A e \in Deploys : Since(e) \subseteq Since(e)' /\ (Asked(e) => d \in Since(e)')
      /\ \A e \in Deploys : Asked(e)' <=> Asked(e) \/ e = d
      /\ asked' # <<>> /\ asked'[Len(asked')] = d
  BY <1>1, SinceGrows DEF Asks
<1>5. AskedLast'
  <2> SUFFICES ASSUME NEW e \in Deploys PROVE AskedOf(e)'
    BY DEF AskedLast
  <2>1. CASE e = d
    BY <1>4, <2>1 DEF AskedOf
  <2>2. CASE e # d
    BY <1>1, <1>2, <1>4, <2>2 DEF AskedLast, AskedOf
  <2> QED BY <2>1, <2>2
<1>6. ASSUME NEW e \in Deploys, Told(e)', Latest(e)'
      PROVE  e # d /\ Told(e) /\ Latest(e) /\ task[e].target # task[d].target
  <2>1. e # d
    BY <1>6 DEF Told
  <2>2. Told(e) /\ task'[e] = task[e] /\ Asked(e)
    BY <1>1, <1>2, <1>6, <2>1 DEF Told, AskedLast, AskedOf
  <2>3. d \in Since(e)'
    BY <1>4, <2>2
  <2>4. task[e].target # task[d].target
    BY <1>6, <2>1, <2>2, <2>3 DEF Latest
  <2>5. Latest(e)
    <3>1. ASSUME NEW x \in Since(e), x # e, task[x].target = task[e].target
          PROVE  x \in Since(e)' /\ task'[x].target = task'[e].target
      <4>1. x \in Deploys
        BY <1>1 DEF Since, CloudTypeOK
      <4> QED BY <1>4, <2>1, <2>2, <3>1, <4>1
    <3> QED BY <1>6, <3>1 DEF Latest
  <2> QED BY <2>1, <2>2, <2>4, <2>5
<1> QED BY <1>2, <1>3, <1>5, <1>6

MachineRecords == [state : {"starting", "replacing", "started", "stopped", "failed"}, image : Deploys]

\* A task asks Fly for its one machine, an old or a new one.
LEMMA FlyAsks ==
    ASSUME CloudInv, NEW d \in Deploys, NEW u \in 1 .. MaxUnits, At(d, "put", "fly_io"),
           machine' \in Seq(MachineRecords), Len(machine') <= MaxUnits, Len(machine) <= Len(machine'),
           u \in DOMAIN machine', machine'[u].image = d, machine'[u].state \in {"replacing", "starting"},
           \A i \in DOMAIN machine' : i # u => i \in DOMAIN machine /\ machine'[i] = machine[i],
           doubts = 0 => \A i \in DOMAIN machine : Alive(i) => i = u,
           Asks(d), Replied(d, "wait", u), UNCHANGED <<records, service, launch>>
    PROVE  CloudInv'
<1>1. task[d].pc = "put" /\ task[d].target = "fly_io" /\ u \in 0 .. MaxUnits
  BY CloudConstants DEF At
<1>2. /\ task' \in [Deploys -> TaskRecords]
      /\ \A e \in Deploys : e # d => task'[e] = task[e]
      /\ task'[d].target = "fly_io" /\ ~task'[d].ok
      /\ doubts' \in 0 .. MaxDoubts
      /\ task'[d].pc = "report" \/ (task'[d].pc = "wait" /\ task'[d].unit = u)
      /\ doubts' = 0 => doubts = 0 /\ task'[d].pc = "wait" /\ task'[d].unit = u
  BY <1>1, RepliedIs
<1>3. CloudTypeOK'
  <2>1. asked' \in Seq(Deploys)
    BY SinceGrows DEF Asks, CloudInv
  <2> QED BY <1>2, <2>1 DEF CloudInv, CloudTypeOK, TaskRecords, TaskPcs, MachineRecords, records
<1>4. UnitsExist'
  <2>1. Len(machine) \in Nat /\ Len(machine') \in Nat /\ u \in 1 .. Len(machine')
    BY TaskOf
  <2>2. ASSUME NEW e \in Deploys PROVE UnitsOf(e)'
    <3>1. CASE e = d
      BY <1>2, <2>1, <3>1 DEF UnitsOf, At, Has, Clouds
    <3>2. CASE e # d
      BY <1>2, <2>1, <3>2, TaskOf DEF UnitsOf, At, Has
    <3> QED BY <3>1, <3>2
  <2> QED BY <2>2, TaskOf DEF UnitsExist
<1>5. ASSUME doubts' = 0 PROVE NoDoubt'
  <2>0. doubts = 0 /\ task'[d].pc = "wait" /\ task'[d].unit = u
    BY <1>2, <1>5
  <2>1. /\ Alone' /\ AskedLast'
        /\ \A e \in Deploys : e # d => task[e].pc \in {"idle", "done"}
        /\ \A e \in Deploys : Told(e)' /\ Latest(e)' =>
             e # d /\ Told(e) /\ Latest(e) /\ task[e].target # "fly_io"
    BY <1>1, <1>2, <2>0, AskingKeeps
  <2>2. \A i \in DOMAIN machine' : Alive(i)' => i = u
    BY <2>0 DEF Alive
  <2>3. OneMachine'
    <3>1. Awaited'
      <4>1. At(d, "wait", "fly_io")' /\ task'[d].unit = u
        BY <1>2, <2>0 DEF At
      <4> QED BY <2>2, <4>1 DEF Awaited, Alive
    <3>2. ASSUME NEW e \in Deploys PROVE MachineOf(e)'
      <4>1. CASE e = d
        BY <1>2, <2>0, <2>2, <4>1 DEF MachineOf, At
      <4>2. CASE e # d
        BY <1>2, <2>1, <4>2 DEF MachineOf, At
      <4> QED BY <4>1, <4>2
    <3>3. \A i, j \in DOMAIN machine' : Alive(i)' /\ Alive(j)' => i = j
      BY <2>2
    <3> QED BY <3>1, <3>2, <3>3 DEF OneMachine
  <2>4. OneService'
    <3>1. ASSUME NEW e \in Deploys PROVE ServiceOf(e)'
      <4>1. ServiceOf(e)
        BY <2>0, TaskOf
      <4>2. CASE e = d
        BY <1>1, <1>2, <4>1, <4>2 DEF ServiceOf, At
      <4>3. CASE e # d
        BY <1>2, <4>1, <4>3 DEF ServiceOf, At
      <4> QED BY <4>2, <4>3
    <3> QED BY <2>0, <3>1 DEF OneService, CloudInv, NoDoubt
  <2>5. ASSUME NEW e \in Deploys, Told(e)', Latest(e)' PROVE e \in Served(task[e].target)'
    <3>1. e # d /\ Told(e) /\ Latest(e) /\ task[e].target # "fly_io" /\ task'[e] = task[e]
      BY <1>2, <2>1, <2>5
    <3>2. e \in Served(task[e].target)
      BY <2>0, <3>1, TaskOf DEF ServedOf
    <3> QED BY <3>1, <3>2 DEF Served
  <2> QED BY <2>1, <2>3, <2>4, <2>5 DEF NoDoubt, LatestIsServed, ServedOf
<1> QED BY <1>3, <1>4, <1>5 DEF CloudInv

LEMMA UpdateMachineKeeps == ASSUME CloudInv, NEW d \in Deploys, UpdateMachine(d) PROVE CloudInv'
<1> DEFINE u == task[d].unit
           m == [state |-> "replacing", image |-> d]
<1>1. /\ At(d, "put", "fly_io") /\ u # 0 /\ machine' = [machine EXCEPT ![u] = m]
      /\ Asks(d) /\ Replied(d, "wait", u) /\ UNCHANGED <<records, service, launch>>
  BY DEF UpdateMachine
<1>2. /\ machine \in Seq(MachineRecords) /\ Len(machine) <= MaxUnits /\ MaxUnits \in Nat
      /\ u \in 0 .. Len(machine)
  BY <1>1, TaskOf, CloudConstants DEF UnitsOf, MachineRecords
<1>3. Len(machine) \in Nat /\ DOMAIN machine = 1 .. Len(machine)
  BY <1>2
<1>4. u \in 1 .. MaxUnits /\ u \in DOMAIN machine
  BY <1>1, <1>2, <1>3
<1>5. m \in MachineRecords /\ m.state = "replacing" /\ m.image = d
  BY DEF MachineRecords
<1>6. doubts = 0 => \A i \in DOMAIN machine : Alive(i) => i = u
  <2>1. doubts = 0 => machine[u].state \in {"started", "stopped"}
    BY <1>1, TaskOf DEF MachineOf
  <2>2. doubts = 0 => Alive(u)
    BY <1>4, <2>1 DEF Alive
  <2> QED BY <1>4, <2>2, TaskOf DEF OneMachine
<1> HIDE DEF u, m
<1>7. /\ machine' \in Seq(MachineRecords) /\ Len(machine') = Len(machine) /\ DOMAIN machine' = DOMAIN machine
      /\ machine'[u] = m /\ \A i \in DOMAIN machine' : i # u => machine'[i] = machine[i]
  BY <1>1, <1>2, <1>4, <1>5
<1> QED BY <1>1, <1>2, <1>3, <1>4, <1>5, <1>6, <1>7, FlyAsks

LEMMA CreateMachineKeeps == ASSUME CloudInv, NEW d \in Deploys, CreateMachine(d) PROVE CloudInv'
<1> DEFINE u == Len(machine) + 1
           m == [state |-> "starting", image |-> d]
<1>1. /\ At(d, "put", "fly_io") /\ task[d].unit = 0 /\ Len(machine) < MaxUnits
      /\ machine' = Append(machine, m)
      /\ Asks(d) /\ Replied(d, "wait", u) /\ UNCHANGED <<records, service, launch>>
  BY DEF CreateMachine
<1>2. machine \in Seq(MachineRecords) /\ MaxUnits \in Nat /\ Len(machine) \in Nat
  <2>1. machine \in Seq(MachineRecords)
    BY DEF CloudInv, CloudTypeOK, MachineRecords
  <2> QED BY <2>1, CloudConstants
<1>3. u \in 1 .. MaxUnits
  BY <1>1, <1>2
<1>4. m \in MachineRecords /\ m.state = "starting" /\ m.image = d
  BY DEF MachineRecords
<1>5. doubts = 0 => \A i \in DOMAIN machine : Alive(i) => i = u
  BY <1>1, TaskOf DEF MachineOf
<1> HIDE DEF m
<1>6. /\ machine' \in Seq(MachineRecords) /\ Len(machine') = u /\ DOMAIN machine' = 1 .. u
      /\ DOMAIN machine = 1 .. Len(machine)
      /\ machine'[u] = m /\ \A i \in DOMAIN machine' : i # u => i \in DOMAIN machine /\ machine'[i] = machine[i]
  BY <1>1, <1>2, <1>4
<1>7. Len(machine') <= MaxUnits /\ Len(machine) <= Len(machine') /\ u \in DOMAIN machine'
  BY <1>1, <1>2, <1>3, <1>6
<1> HIDE DEF u
<1> QED BY <1>1, <1>3, <1>4, <1>5, <1>6, <1>7, FlyAsks

\* ... and those they serve after a step.
LEMMA ServedThen ==
  /\ \A d : d \in Served("fly_io")' <=>
       \E i \in DOMAIN machine' : machine'[i].state \in {"started", "stopped"} /\ machine'[i].image = d
  /\ \A d : d \in Served("railway")' <=>
       \E e \in Deploys : launch'[e].status = "SUCCESS" /\ launch'[e].image = d
  /\ \A target : Served(target)' = IF target = "fly_io" THEN Served("fly_io")' ELSE Served("railway")'
BY DEF Served

\* A step of a cloud: nothing is at stake for the tasks but what is served.
LEMMA CloudMoves ==
    ASSUME CloudInv, CloudTypeOK', Len(machine') = Len(machine),
           UNCHANGED <<task, records, service, asked, doubts>>,
           doubts = 0 =>
             /\ OneMachine' /\ OneService'
             /\ \A e \in Deploys : Told(e) /\ Latest(e) => e \in Served(task[e].target)'
    PROVE  CloudInv'
<1>1. UnitsExist'
  BY DEF CloudInv, UnitsExist, UnitsOf, At, Has
<1>2. ASSUME doubts = 0 PROVE NoDoubt'
  <2>1. Alone' /\ AskedLast'
    BY <1>2 DEF CloudInv, NoDoubt, Alone, UsingCloud, AskedLast, AskedOf, Asked
  <2>2. LatestIsServed'
    BY <1>2 DEF LatestIsServed, ServedOf, Told, Latest, Since
  <2> QED BY <1>2, <2>1, <2>2 DEF NoDoubt
<1> QED BY <1>1, <1>2 DEF CloudInv

LEMMA MachineChangesKeeps ==
    ASSUME CloudInv, NEW i \in DOMAIN machine, NEW state \in {"started", "stopped", "failed"},
           MachineChanges(i, state)
    PROVE  CloudInv'
<1>1. /\ UNCHANGED <<task, records, service, launch, asked, doubts>>
      /\ machine' = [machine EXCEPT ![i].state = state]
      /\ \/ machine[i].state \in {"starting", "replacing"} /\ state \in {"started", "failed"}
         \/ machine[i].state \in {"started", "stopped"} /\ state \in {"started", "stopped"}
  BY DEF MachineChanges
<1>2. machine \in Seq(MachineRecords)
  BY DEF CloudInv, CloudTypeOK, MachineRecords
<1>3. /\ machine' \in Seq(MachineRecords) /\ Len(machine') = Len(machine) /\ DOMAIN machine' = DOMAIN machine
      /\ machine'[i].state = state /\ machine'[i].image = machine[i].image
      /\ \A j \in DOMAIN machine : j # i => machine'[j] = machine[j]
  <2> DEFINE m == [machine[i] EXCEPT !.state = state]
  <2>1. machine[i] \in MachineRecords
    BY <1>2
  <2>2. m \in MachineRecords /\ m.state = state /\ m.image = machine[i].image
    BY <2>1 DEF MachineRecords
  <2>3. machine' = [machine EXCEPT ![i] = m]
    BY <1>1
  <2> HIDE DEF m
  <2> QED BY <1>2, <2>2, <2>3
<1>4. CloudTypeOK'
  BY <1>1, <1>3 DEF CloudInv, CloudTypeOK, MachineRecords, records
<1>5. ASSUME doubts = 0 PROVE OneMachine' /\ OneService'
  <2>1. OneMachine /\ OneService
    BY <1>5 DEF CloudInv, NoDoubt
  <2>2. Alive(i) /\ \A j \in DOMAIN machine : Alive(j) => j = i
    BY <1>1, <2>1 DEF Alive, OneMachine
  <2>3. \A j \in DOMAIN machine' : Alive(j)' => j = i
    BY <1>3, <2>2 DEF Alive
  <2>4. Awaited'
    BY <1>1, <1>3, <2>1 DEF Awaited, OneMachine, At
  <2>5. ASSUME NEW e \in Deploys PROVE MachineOf(e)'
    <3>1. MachineOf(e) /\ UnitsOf(e)
      BY <2>1 DEF OneMachine, CloudInv, UnitsExist
    <3>2. ASSUME At(e, "put", "fly_io")
          PROVE  task[e].unit # 0 /\ machine'[task[e].unit].state \in {"started", "stopped"}
      <4>1. task[e].unit # 0 /\ machine[task[e].unit].state \in {"started", "stopped"}
        BY <2>2, <3>1, <3>2 DEF MachineOf
      <4>2. task[e].unit \in DOMAIN machine
        BY <1>2, <3>1, <3>2, <4>1 DEF UnitsOf
      <4>3. task[e].unit = i
        BY <2>2, <4>1, <4>2 DEF Alive
      <4> QED BY <1>1, <1>3, <4>1, <4>3
    <3>3. ASSUME At(e, "wait", "fly_io")
          PROVE  machine'[task[e].unit].image = e /\ task[e].unit = i
      <4>1. machine[task[e].unit].image = e /\ task[e].unit = i
        BY <2>2, <3>1, <3>3 DEF MachineOf
      <4> QED BY <1>3, <4>1
    <3> QED BY <1>1, <2>3, <3>2, <3>3 DEF MachineOf, At
  <2>6. OneMachine'
    BY <2>3, <2>4, <2>5, <1>1 DEF OneMachine
  <2>7. OneService'
    BY <1>1, <2>1 DEF OneService, ServiceOf, At
  <2> QED BY <2>6, <2>7
<1>6. ASSUME doubts = 0, NEW e \in Deploys, Told(e), Latest(e) PROVE e \in Served(task[e].target)'
  <2>1. e \in Served(task[e].target) /\ OneMachine /\ task[e].target \in Clouds
    BY <1>6, TaskOf DEF ServedOf, UnitsOf, Told
  <2>2. CASE task[e].target = "fly_io"
    <3>1. PICK j \in DOMAIN machine : machine[j].state \in {"started", "stopped"} /\ machine[j].image = e
      BY <2>1, <2>2, ServedBy
    <3>2. j = i
      BY <1>1, <2>1, <3>1 DEF OneMachine, Alive
    <3>3. machine'[i].state \in {"started", "stopped"} /\ machine'[i].image = e /\ i \in DOMAIN machine'
      BY <1>1, <1>3, <3>1, <3>2
    <3>4. task'[e].target = "fly_io"
      BY <1>1, <2>2
    <3>5. Served(task[e].target)' = Served("fly_io")'
      BY <3>4 DEF Served
    <3> QED BY <3>3, <3>5, ServedThen
  <2>3. CASE task[e].target # "fly_io"
    BY <1>1, <2>1, <2>3 DEF Served
  <2> QED BY <2>2, <2>3
<1> QED BY <1>1, <1>3, <1>4, <1>5, <1>6, CloudMoves

\* A task asks Railway for its one service, an old or a new one.
LEMMA RailwayAsks ==
    ASSUME CloudInv, NEW d \in Deploys, NEW u \in 1 .. MaxUnits, At(d, "put", "railway"),
           service' \in Seq(Deploys), Len(service') <= MaxUnits, Len(service) <= Len(service'),
           u \in DOMAIN service', service'[u] = d, doubts = 0 => Len(service') <= 1,
           Asks(d), Replied(d, "launch", u), UNCHANGED <<records, machine, launch>>
    PROVE  CloudInv'
<1>1. task[d].pc = "put" /\ task[d].target = "railway" /\ u \in 0 .. MaxUnits
  BY CloudConstants DEF At
<1>2. /\ task' \in [Deploys -> TaskRecords]
      /\ \A e \in Deploys : e # d => task'[e] = task[e]
      /\ task'[d].target = "railway" /\ ~task'[d].ok
      /\ doubts' \in 0 .. MaxDoubts
      /\ task'[d].pc = "report" \/ (task'[d].pc = "launch" /\ task'[d].unit = u)
      /\ doubts' = 0 => doubts = 0 /\ task'[d].pc = "launch" /\ task'[d].unit = u
  BY <1>1, RepliedIs
<1>3. CloudTypeOK'
  <2>1. asked' \in Seq(Deploys)
    BY SinceGrows DEF Asks, CloudInv
  <2> QED BY <1>2, <2>1 DEF CloudInv, CloudTypeOK, TaskRecords, TaskPcs, records
<1>4. UnitsExist'
  <2>1. Len(service) \in Nat /\ Len(service') \in Nat /\ u \in 1 .. Len(service')
    BY TaskOf
  <2>2. ASSUME NEW e \in Deploys PROVE UnitsOf(e)'
    <3>1. CASE e = d
      BY <1>2, <2>1, <3>1 DEF UnitsOf, At, Has, Clouds
    <3>2. CASE e # d
      <4>1. UnitsOf(e) /\ task'[e] = task[e] /\ machine' = machine
        BY <1>2, <3>2, TaskOf
      <4> QED BY <2>1, <4>1 DEF UnitsOf, At, Has
    <3> QED BY <3>1, <3>2
  <2> QED BY <2>2, TaskOf DEF UnitsExist
<1>5. ASSUME doubts' = 0 PROVE NoDoubt'
  <2>0. doubts = 0 /\ task'[d].pc = "launch" /\ task'[d].unit = u
    BY <1>2, <1>5
  <2>1. /\ Alone' /\ AskedLast'
        /\ \A e \in Deploys : e # d => task[e].pc \in {"idle", "done"}
        /\ \A e \in Deploys : Told(e)' /\ Latest(e)' =>
             e # d /\ Told(e) /\ Latest(e) /\ task[e].target # "railway"
    BY <1>1, <1>2, <2>0, AskingKeeps
  <2>2. OneMachine'
    <3>1. Awaited'
      BY <1>1, <2>0, <2>1, TaskOf DEF Awaited, At
    <3>2. ASSUME NEW e \in Deploys PROVE MachineOf(e)'
      <4>1. CASE e = d
        BY <1>2, <4>1 DEF MachineOf, At
      <4>2. CASE e # d
        BY <1>2, <2>1, <4>2 DEF MachineOf, At
      <4> QED BY <4>1, <4>2
    <3>3. \A i, j \in DOMAIN machine' : Alive(i)' /\ Alive(j)' => i = j
      BY <2>0, TaskOf DEF OneMachine, Alive
    <3> QED BY <3>1, <3>2, <3>3 DEF OneMachine
  <2>3. OneService'
    <3>1. service'[1] = d /\ Len(service') <= 1
      <4>1. Len(service') \in Nat /\ DOMAIN service' = 1 .. Len(service') /\ Len(service') <= 1
        BY <2>0
      <4> QED BY <4>1
    <3>2. ASSUME NEW e \in Deploys PROVE ServiceOf(e)'
      <4>1. ServiceOf(e)
        BY <2>0, TaskOf
      <4>2. CASE e = d
        BY <1>1, <1>2, <2>0, <3>1, <4>1, <4>2 DEF ServiceOf, At
      <4>3. CASE e # d
        BY <1>2, <2>1, <4>1, <4>3 DEF ServiceOf, At
      <4> QED BY <4>2, <4>3
    <3> QED BY <2>0, <3>1, <3>2, TaskOf DEF OneService
  <2>4. ASSUME NEW e \in Deploys, Told(e)', Latest(e)' PROVE e \in Served(task[e].target)'
    <3>1. e # d /\ Told(e) /\ Latest(e) /\ task[e].target # "railway" /\ task'[e] = task[e]
      BY <1>2, <2>1, <2>4
    <3>2. e \in Served(task[e].target) /\ task[e].target \in Clouds
      BY <2>0, <3>1, TaskOf DEF ServedOf, UnitsOf, Told
    <3> QED BY <3>1, <3>2 DEF Served
  <2> QED BY <2>1, <2>2, <2>3, <2>4 DEF NoDoubt, LatestIsServed, ServedOf
<1> QED BY <1>3, <1>4, <1>5 DEF CloudInv

LEMMA PrepareServiceKeeps == ASSUME CloudInv, NEW d \in Deploys, PrepareService(d) PROVE CloudInv'
<1>1. At(d, "put", "railway") /\ Asks(d) /\ UNCHANGED <<records, machine, launch>>
  BY DEF PrepareService
<1>2. service \in Seq(Deploys) /\ Len(service) <= MaxUnits /\ MaxUnits \in Nat /\ Len(service) \in Nat
  <2>1. service \in Seq(Deploys)
    BY DEF CloudInv, CloudTypeOK
  <2> QED BY <2>1, CloudConstants, TaskOf
<1>3. CASE task[d].unit = 0
  <2> DEFINE u == Len(service) + 1
  <2>1. Len(service) < MaxUnits /\ service' = Append(service, d) /\ Replied(d, "launch", u)
    BY <1>3 DEF PrepareService
  <2>2. service' \in Seq(Deploys) /\ Len(service') = u /\ service'[u] = d /\ DOMAIN service' = 1 .. u
    BY <1>2, <2>1
  <2>3. /\ u \in 1 .. MaxUnits /\ Len(service') <= MaxUnits
        /\ Len(service) <= Len(service') /\ u \in DOMAIN service'
    BY <1>2, <2>1, <2>2
  <2>4. doubts = 0 => Len(service') <= 1
    <3>1. doubts = 0 => service = <<>>
      BY <1>1, <1>3, TaskOf DEF ServiceOf
    <3> QED BY <2>2, <3>1
  <2> HIDE DEF u
  <2> QED BY <1>1, <2>1, <2>2, <2>3, <2>4, RailwayAsks
<1>4. CASE task[d].unit # 0
  <2> DEFINE u == task[d].unit
  <2>1. service' = [service EXCEPT ![u] = d] /\ Replied(d, "launch", u)
    BY <1>4 DEF PrepareService
  <2>2. u \in 1 .. Len(service)
    BY <1>1, <1>2, <1>4, TaskOf DEF UnitsOf
  <2> HIDE DEF u
  <2>3. /\ service' \in Seq(Deploys) /\ Len(service') = Len(service) /\ service'[u] = d
        /\ u \in DOMAIN service' /\ u \in 1 .. MaxUnits
    BY <1>2, <2>1, <2>2
  <2>4. doubts = 0 => Len(service') <= 1
    BY <2>3, TaskOf DEF OneService
  <2> QED BY <1>1, <1>2, <2>1, <2>3, <2>4, RailwayAsks
<1> QED BY <1>3, <1>4

LaunchRecords ==
  [status : {"none", "BUILDING", "SUCCESS", "FAILED", "REMOVED"}, image : Deploys, unit : 0 .. MaxUnits]

\* While a task is at work, those that have asked its cloud before it are not
\* the latest.
LEMMA OthersAreNotLatest ==
    ASSUME CloudInv, doubts = 0, NEW d \in Deploys, task[d].pc \in {"launch", "wait", "check"},
           NEW e \in Deploys, e # d, Told(e), task[e].target = task[d].target
    PROVE  ~Latest(e)
<1>1. e \notin UsingCloud /\ d \in UsingCloud
  <2>1. d \in UsingCloud
    BY DEF UsingCloud
  <2> QED BY <2>1, TaskOf DEF Alone
<1>2. Asked(e)
  BY <1>1, TaskOf DEF Told, UsingCloud, AskedOf
<1>3. d \in Since(e)
  BY <1>2, LastHasAsked, LastIsSince DEF CloudInv
<1> QED BY <1>3 DEF Latest

LEMMA DeployInstanceKeeps ==
    ASSUME CloudInv, NEW d \in Deploys, DeployServiceInstance(d) PROVE CloudInv'
<1> DEFINE u == task[d].unit
           l == [status |-> "BUILDING", image |-> service[u], unit |-> u]
<1>1. /\ task[d].pc = "launch" /\ task[d].target = "railway" /\ launch' = [launch EXCEPT ![d] = l]
      /\ Replied(d, "wait", u) /\ UNCHANGED <<records, machine, service, asked>>
  BY DEF DeployServiceInstance, At
<1>2. u \in 1 .. Len(service) /\ Len(service) \in Nat /\ u \in 0 .. MaxUnits /\ service[u] \in Deploys
  <2>1. u \in 1 .. Len(service)
    BY <1>1, TaskOf DEF UnitsOf, Has
  <2>2. service \in Seq(Deploys) /\ u \in 0 .. MaxUnits
    BY TaskOf DEF TaskRecords
  <2> QED BY <2>1, <2>2
<1>3. launch \in [Deploys -> LaunchRecords] /\ l \in LaunchRecords
  BY <1>2 DEF CloudInv, CloudTypeOK, LaunchRecords
<1>4. l.status = "BUILDING" /\ l.image = service[u] /\ l.unit = u
  OBVIOUS
<1> HIDE DEF u, l
<1>5. /\ launch' \in [Deploys -> LaunchRecords] /\ launch'[d] = l
      /\ \A e \in Deploys : e # d => launch'[e] = launch[e]
  BY <1>1, <1>3
<1>6. /\ task' \in [Deploys -> TaskRecords]
      /\ \A e \in Deploys : e # d => task'[e] = task[e]
      /\ task'[d].target = "railway" /\ ~task'[d].ok
      /\ doubts' \in 0 .. MaxDoubts
      /\ task'[d].pc = "report" \/ (task'[d].pc = "wait" /\ task'[d].unit = u)
      /\ doubts' = 0 => doubts = 0 /\ task'[d].pc = "wait" /\ task'[d].unit = u
  BY <1>1, <1>2, RepliedIs
<1>7. CloudTypeOK'
  BY <1>1, <1>5, <1>6 DEF CloudInv, CloudTypeOK, TaskRecords, TaskPcs, LaunchRecords, records
<1>8. UnitsExist'
  <2>1. ASSUME NEW e \in Deploys PROVE UnitsOf(e)'
    <3>1. CASE e = d
      BY <1>1, <1>2, <1>6, <3>1 DEF UnitsOf, At, Has, Clouds
    <3>2. CASE e # d
      BY <1>1, <1>6, <3>2, TaskOf DEF UnitsOf, At, Has
    <3> QED BY <3>1, <3>2
  <2> QED BY <1>1, <2>1, TaskOf DEF UnitsExist
<1>9. ASSUME doubts' = 0 PROVE NoDoubt'
  <2>0. doubts = 0 /\ task'[d].pc = "wait" /\ task'[d].unit = u /\ Alone /\ OneMachine /\ OneService
        /\ AskedLast
    BY <1>6, <1>9 DEF CloudInv, NoDoubt
  <2>1. \A e \in Deploys : e # d => task[e].pc \in {"idle", "done"}
    BY <1>1, <2>0 DEF Alone, UsingCloud
  <2>2. Alone'
    BY <1>6, <2>1 DEF Alone, UsingCloud
  <2>3. AskedLast'
    <3>1. ASSUME NEW e \in Deploys PROVE AskedOf(e)'
      <4>1. CASE e = d
        BY <1>1, <1>6, <2>0, <4>1, LastHasAsked DEF AskedOf, Asked
      <4>2. CASE e # d
        BY <1>1, <1>6, <2>0, <4>2 DEF AskedLast, AskedOf, Asked
      <4> QED BY <4>1, <4>2
    <3> QED BY <3>1 DEF AskedLast
  <2>4. OneMachine'
    <3>1. Awaited'
      BY <1>1, <2>0, <2>1 DEF OneMachine, Awaited, At
    <3>2. ASSUME NEW e \in Deploys PROVE MachineOf(e)'
      <4>1. CASE e = d
        BY <1>6, <4>1 DEF MachineOf, At
      <4>2. CASE e # d
        BY <1>6, <2>1, <4>2 DEF MachineOf, At
      <4> QED BY <4>1, <4>2
    <3>3. \A i, j \in DOMAIN machine' : Alive(i)' /\ Alive(j)' => i = j
      BY <1>1, <2>0 DEF OneMachine, Alive
    <3> QED BY <3>1, <3>2, <3>3 DEF OneMachine
  <2>5. OneService'
    <3>1. u = 1 /\ service[1] = d /\ Len(service) <= 1
      <4>1. Len(service) <= 1 /\ service[1] = d
        BY <1>1, <2>0 DEF OneService, ServiceOf, At
      <4> QED BY <1>2, <4>1
    <3>2. ASSUME NEW e \in Deploys PROVE ServiceOf(e)'
      <4>1. ServiceOf(e)
        BY <2>0 DEF OneService
      <4>2. CASE e = d
        BY <1>4, <1>5, <1>6, <2>0, <3>1, <4>2 DEF ServiceOf, At
      <4>3. CASE e # d
        BY <1>5, <1>6, <2>1, <4>1, <4>3 DEF ServiceOf, At
      <4> QED BY <4>2, <4>3
    <3>3. \A e, f \in Deploys : launch'[e].status = "SUCCESS" /\ launch'[f].status = "SUCCESS" => e = f
      BY <1>4, <1>5, <2>0 DEF OneService
    <3> QED BY <1>1, <3>1, <3>2, <3>3 DEF OneService
  <2>6. ASSUME NEW e \in Deploys, Told(e)', Latest(e)' PROVE e \in Served(task[e].target)'
    <3>1. e # d /\ task'[e] = task[e] /\ Told(e)
      BY <1>6, <2>0, <2>6 DEF Told
    <3>2. Latest(e)
      <4>1. ASSUME NEW x \in Since(e), x # e, task[x].target = task[e].target
            PROVE  x \in Since(e)' /\ task'[x].target = task'[e].target
        <5>1. x \in Deploys
          BY DEF Since, CloudInv, CloudTypeOK
        <5> QED BY <1>1, <1>6, <3>1, <4>1, <5>1 DEF Since
      <4> QED BY <2>6, <4>1 DEF Latest
    <3>3. task[e].target # "railway" /\ task[e].target \in Clouds
      BY <1>1, <2>0, <3>1, <3>2, OthersAreNotLatest, TaskOf DEF UnitsOf, Told
    <3>4. e \in Served(task[e].target)
      BY <2>0, <3>1, <3>2, TaskOf DEF ServedOf
    <3> QED BY <1>1, <3>1, <3>3, <3>4 DEF Served, Clouds
  <2> QED BY <2>2, <2>3, <2>4, <2>5, <2>6 DEF NoDoubt, LatestIsServed, ServedOf
<1> QED BY <1>7, <1>8, <1>9 DEF CloudInv

LEMMA LaunchEndsKeeps ==
    ASSUME CloudInv, NEW d \in Deploys, NEW status \in {"SUCCESS", "FAILED"}, LaunchEnds(d, status)
    PROVE  CloudInv'
<1> DEFINE l(e) == IF e = d THEN [launch[d] EXCEPT !.status = status]
                   ELSE IF status = "SUCCESS" /\ launch[e].status = "SUCCESS" /\ launch[e].unit = launch[d].unit
                   THEN [launch[e] EXCEPT !.status = "REMOVED"]
                   ELSE launch[e]
<1>1. /\ launch[d].status = "BUILDING" /\ launch' = [e \in Deploys |-> l(e)]
      /\ UNCHANGED <<task, records, machine, service, asked, doubts>>
  BY DEF LaunchEnds
<1>2. launch \in [Deploys -> LaunchRecords]
  BY DEF CloudInv, CloudTypeOK, LaunchRecords
<1>3. ASSUME NEW e \in Deploys
      PROVE  /\ l(e) \in LaunchRecords /\ l(e).image = launch[e].image /\ l(e).unit = launch[e].unit
             /\ launch[e].status = "none" => l(e).status = "none"
             /\ e = d => l(e).status = status
             /\ e # d => /\ l(e).status = "BUILDING" => launch[e].status = "BUILDING"
                         /\ l(e).status = "SUCCESS" <=>
                              /\ launch[e].status = "SUCCESS"
                              /\ ~(status = "SUCCESS" /\ launch[e].unit = launch[d].unit)
  <2>1. launch[e] \in LaunchRecords
    BY <1>2
  <2>2. ASSUME NEW s \in {"SUCCESS", "FAILED", "REMOVED"}
        PROVE  /\ [launch[e] EXCEPT !.status = s] \in LaunchRecords
               /\ [launch[e] EXCEPT !.status = s].image = launch[e].image
               /\ [launch[e] EXCEPT !.status = s].unit = launch[e].unit
               /\ [launch[e] EXCEPT !.status = s].status = s
    BY <2>1 DEF LaunchRecords
  <2>3. CASE e = d
    BY <1>1, <2>2, <2>3
  <2>4. CASE e # d /\ status = "SUCCESS" /\ launch[e].status = "SUCCESS" /\ launch[e].unit = launch[d].unit
    BY <2>2, <2>4
  <2>5. CASE e # d /\ ~(status = "SUCCESS" /\ launch[e].status = "SUCCESS" /\ launch[e].unit = launch[d].unit)
    BY <2>1, <2>5
  <2> QED BY <2>3, <2>4, <2>5
<1> HIDE DEF l
<1>4. /\ launch' \in [Deploys -> LaunchRecords] /\ \A e \in Deploys : launch'[e] = l(e)
  BY <1>1, <1>3
<1>5. CloudTypeOK'
  BY <1>1, <1>4 DEF CloudInv, CloudTypeOK, LaunchRecords, records
<1>6. ASSUME doubts = 0
      PROVE  /\ At(d, "wait", "railway") /\ launch[d].image = d /\ OneMachine /\ OneService
             /\ \A e \in Deploys : launch[e].status # "none" => launch[e].unit = launch[d].unit
  <2>1. OneMachine /\ OneService
    BY <1>6 DEF CloudInv, NoDoubt
  <2>2. \A e \in Deploys : ServiceOf(e)
    BY <2>1 DEF OneService
  <2> QED BY <1>1, <2>1, <2>2 DEF ServiceOf
<1>7. ASSUME doubts = 0 PROVE OneMachine' /\ OneService'
  <2>1. OneMachine'
    BY <1>1, <1>6, <1>7 DEF OneMachine, MachineOf, Awaited, Alive, At
  <2>2. ASSUME NEW e \in Deploys PROVE ServiceOf(e)'
    <3>1. ServiceOf(e)
      BY <1>6, <1>7 DEF OneService
    <3> QED BY <1>1, <1>3, <1>4, <3>1 DEF ServiceOf, At
  <2>3. ASSUME NEW e \in Deploys, NEW f \in Deploys,
               launch'[e].status = "SUCCESS", launch'[f].status = "SUCCESS"
        PROVE  e = f
    <3>1. CASE status = "SUCCESS"
      BY <1>3, <1>4, <1>6, <1>7, <2>3, <3>1
    <3>2. CASE status # "SUCCESS"
      BY <1>3, <1>4, <1>6, <1>7, <2>3, <3>2 DEF OneService
    <3> QED BY <3>1, <3>2
  <2> QED BY <1>1, <1>6, <1>7, <2>1, <2>2, <2>3 DEF OneService
<1>8. ASSUME doubts = 0, NEW e \in Deploys, Told(e), Latest(e) PROVE e \in Served(task[e].target)'
  <2>1. task[d].pc = "wait" /\ task[d].target = "railway" /\ ~task[d].ok
    BY <1>6, <1>8, TaskOf DEF At, UnitsOf
  <2>2. e # d /\ e \in Served(task[e].target) /\ task[e].target \in Clouds
    BY <1>8, <2>1, TaskOf DEF ServedOf, Told, UnitsOf
  <2>3. task[e].target = "fly_io"
    BY <1>8, <2>1, <2>2, OthersAreNotLatest DEF Clouds
  <2> QED BY <1>1, <2>2, <2>3 DEF Served
<1> QED BY <1>1, <1>5, <1>7, <1>8, CloudMoves

LEMMA CloudKeeps == CloudInv /\ [Cloud]_cloudVars => CloudInv'
<1> SUFFICES ASSUME CloudInv, [Cloud]_cloudVars PROVE CloudInv'
  OBVIOUS
<1>1. CASE UNCHANGED cloudVars
  <2>1. UNCHANGED <<task, deployments, created, machine, service, launch, asked, doubts>>
    BY <1>1 DEF cloudVars, records, clouds
  <2>2. CloudTypeOK'
    BY <2>1 DEF CloudTypeOK, CloudInv
  <2>3. doubts = 0 => OneMachine' /\ OneService'
    BY <2>1
    DEF CloudInv, NoDoubt, OneMachine, MachineOf, Awaited, Alive, At, OneService, ServiceOf
  <2>4. \A e \in Deploys : doubts = 0 /\ Told(e) /\ Latest(e) => e \in Served(task[e].target)'
    BY <2>1, TaskOf DEF ServedOf, Served
  <2> QED BY <2>1, <2>2, <2>3, <2>4, CloudMoves DEF records
<1>2. ASSUME NEW d \in Deploys, NEW outcome \in Outcomes, StartTask(d, outcome) PROVE CloudInv'
  BY <1>2, StartTaskKeeps
<1>3. ASSUME NEW d \in Deploys, Fly(d) PROVE CloudInv'
  BY <1>3, ListMachinesKeeps, UpdateMachineKeeps, CreateMachineKeeps, WaitForMachineKeeps DEF Fly
<1>4. ASSUME NEW d \in Deploys, Railway(d) PROVE CloudInv'
  BY <1>4, GetProjectKeeps, PrepareServiceKeeps, DeployInstanceKeeps, WaitForDeploymentKeeps DEF Railway
<1>5. ASSUME NEW d \in Deploys, NEW passed \in BOOLEAN, CheckHealth(d, passed) PROVE CloudInv'
  BY <1>5, CheckHealthKeeps
<1>6. ASSUME NEW d \in Deploys, FailCall(d) \/ Report(d) \/ Crash(d) PROVE CloudInv'
  BY <1>6, FailCallKeeps, ReportKeeps, CrashKeeps
<1>7. ASSUME NEW i \in DOMAIN machine, NEW state \in {"started", "stopped", "failed"},
             MachineChanges(i, state)
      PROVE  CloudInv'
  BY <1>7, MachineChangesKeeps
<1>8. ASSUME NEW d \in Deploys, NEW status \in {"SUCCESS", "FAILED"}, LaunchEnds(d, status)
      PROVE  CloudInv'
  BY <1>8, LaunchEndsKeeps
<1> QED BY <1>1, <1>2, <1>3, <1>4, <1>5, <1>6, <1>7, <1>8 DEF Cloud

LEMMA CloudInvariant == CloudSpec => []CloudInv
BY CloudStarts, CloudKeeps, PTL DEF CloudSpec

\* Deployments to a cloud keep their types: no task, machine, service or row is
\* in a state the deployers do not know, whatever fails between two calls.
THEOREM CloudTypeCorrect == CloudSpec => []CloudTypeOK
<1>1. CloudInv => CloudTypeOK
  BY DEF CloudInv
<1> QED BY <1>1, CloudInvariant, PTL

\* If the deployments of a project did not overlap and none ended in doubt, a
\* cloud serves one image, however many of them failed: the deployer updates
\* the machine or service it finds, and creates one only where there is none
\* (FlyDeployer.deploy, RailwayDeployer.prepareService).
THEOREM CloudServesOneImage == CloudSpec => []OneImageServed
BY CloudInvariant, OneImageFollows, PTL
=============================================================================
