----------------------------- MODULE CloudDeploy -----------------------------
(***************************************************************************)
(* Deployments of one project to Fly.io and Railway: executeDeployment and *)
(* the deployers it calls for driver fly_io, railway and auto, with their  *)
(* API clients.  Every call of a cloud's API is one step; it may fail, and *)
(* the reply to one that changed something may be lost (the clients abort  *)
(* after 30 s).  The process of a runner may die between any two calls.    *)
(*                                                                         *)
(* The clouds are external.  A Fly app is the sequence of its machines, a  *)
(* Railway project that of the services with the name the deployer uses;   *)
(* an image is named by the deployment that asks for it.  The rows of the  *)
(* control plane change in one step here: DeploymentRows has their calls.  *)
(***************************************************************************)
EXTENDS Integers, Sequences, FiniteSets, SequencesExt

CONSTANTS
  Deploys,   \* the deployments, one task each
  MaxUnits,  \* bound on machines, and on services
  MaxDoubts  \* bound on overlaps, lost replies, waits given up and crashes

ASSUME CloudAssumption == MaxUnits \in Nat \ {0} /\ MaxDoubts \in Nat

VARIABLES
  task,      \* the tasks that deploy
  deployments, \* the rows: their status
  created,   \* the deployments that have a row, by created_at
  machine,   \* the machines of the Fly app: state and image
  service,   \* the services of the Railway project: the image each points at
  launch,    \* the Railway deployments, by the deployment that triggered them
  asked,     \* history: whose image a cloud was asked to run, in order
  doubts     \* history: overlaps, lost replies, waits given up, crashes

clouds == <<machine, service, launch>>
records == <<deployments, created>>
cloudVars == <<task, records, clouds, asked, doubts>>

Clouds == {"fly_io", "railway"}
NoTask == [pc |-> "idle", target |-> "none", unit |-> 0, ok |-> FALSE]

CloudTypeOK ==
  /\ task \in [Deploys -> [pc : {"idle", "deploy", "find", "put", "launch", "wait", "check",
                                 "report", "done"},
                           target : Clouds \cup {"none"}, unit : 0 .. MaxUnits, ok : BOOLEAN]]
  /\ deployments \in [Deploys -> {"none", "deploying", "active", "draining", "stopped", "failed"}]
  /\ created \in Seq(Deploys)
  /\ machine \in Seq([state : {"starting", "replacing", "started", "stopped", "failed"},
                      image : Deploys])
  /\ service \in Seq(Deploys)
  /\ launch \in [Deploys -> [status : {"none", "BUILDING", "SUCCESS", "FAILED", "REMOVED"},
                             image : Deploys, unit : 0 .. MaxUnits]]
  /\ asked \in Seq(Deploys)
  /\ doubts \in 0 .. MaxDoubts

CloudInit ==
  /\ task = [d \in Deploys |-> NoTask]
  /\ deployments = [d \in Deploys |-> "none"]
  /\ created = <<>>
  /\ machine = <<>> /\ service = <<>>
  /\ launch = [d \in Deploys |-> [status |-> "none", image |-> d, unit |-> 0]]
  /\ asked = <<>>
  /\ doubts = 0

-----------------------------------------------------------------------------
(* What is deployed where. *)

\* chooseDeployTarget: the first target the runner can use.
chooseDeployTarget(prefer, docker, secrets) ==
  LET usable == (IF docker THEN {"docker_local"} ELSE {}) \cup secrets
      first == SelectInSeq(prefer, LAMBDA target : target \in usable)
  IN IF first = 0 THEN "none" ELSE prefer[first]

resolveBrokeredTarget(request) ==
  IF request.driver # "auto" THEN request.driver
  ELSE chooseDeployTarget(request.prefer, request.docker, request.secrets)

\* createExternalDeployer takes blue_green only, which the broker sees to.
Strategy(request) ==
  IF request.driver = "auto" /\ resolveBrokeredTarget(request) \in Clouds
  THEN "blue_green" ELSE request.strategy

\* resolveDeployImage: the configured image, or one built and pushed.
HasImage(request) ==
  request.image # "none" \/ (request.docker /\ request.registry /\ request.pushed)

\* passesSecurityScan: with Docker, a scan that fails counts as findings.
Blocked(request) == request.docker /\ request.scan = "blocks" /\ request.findings

\* Can deploy() begin?  It wants a token, and an image with a registry.
Usable(request) == request.image # "local" /\ resolveBrokeredTarget(request) \in request.secrets

Requests ==
  [driver : {"auto", "fly_io", "railway"}, strategy : {"blue_green", "canary"},
   prefer : {<<"docker_local", "railway", "fly_io">>, <<"fly_io", "railway">>},
   docker : BOOLEAN, secrets : SUBSET Clouds, image : {"none", "local", "pushed"},
   registry : BOOLEAN, pushed : BOOLEAN, scan : {"off", "blocks"}, findings : BOOLEAN]

\* What executeDeployment may find before its first call, by target: no
\* deployment record is created for "refused".
Prepared(request) ==
  LET target == resolveBrokeredTarget(request) IN
  IF target \notin Clouds \/ ~HasImage(request) \/ Blocked(request)
  THEN [target |-> "none", can |-> "refused"]
  ELSE [target |-> target,
        can |-> IF Strategy(request) # "blue_green" THEN "throws"
                ELSE IF Usable(request) THEN "deploy" ELSE "fail"]

Outcomes == {Prepared(request) : request \in Requests}

-----------------------------------------------------------------------------
(* executeDeployment. *)

At(d, pc, target) == task[d].pc = pc /\ task[d].target = target

Go(d, pc) == task' = [task EXCEPT ![d].pc = pc]
Uses(d, pc, unit) == task' = [task EXCEPT ![d].pc = pc, ![d].unit = unit]
Ends(d, ok) == task' = [task EXCEPT ![d].pc = "report", ![d].ok = ok]

Doubtful == doubts < MaxDoubts /\ doubts' = doubts + 1

\* The images a cloud runs, or starts again when they are asked for.
Served(target) ==
  IF target = "fly_io"
  THEN {machine[i].image : i \in {i \in DOMAIN machine : machine[i].state \in {"started", "stopped"}}}
  ELSE {launch[e].image : e \in {e \in Deploys : launch[e].status = "SUCCESS"}}

UsingCloud == {d \in Deploys : task[d].pc \notin {"idle", "done"}}

\* The record is created, and the active one drains; createDeployer may throw
\* then, and nothing is reported.
StartTask(d, outcome) ==
  /\ task[d].pc = "idle"
  /\ IF UsingCloud = {} THEN UNCHANGED doubts ELSE Doubtful
  /\ task' = [task EXCEPT ![d].target = outcome.target,
                          ![d].pc = CASE outcome.can = "deploy" -> "find"
                                      [] outcome.can = "fail" -> "report"
                                      [] OTHER -> "done"]
  /\ IF outcome.can = "refused"
     THEN UNCHANGED records
     ELSE /\ created' = Append(created, d)
          /\ deployments' = [e \in Deploys |->
               IF e = d THEN "deploying"
               ELSE IF deployments[e] = "active" THEN "draining" ELSE deployments[e]]
  /\ UNCHANGED <<clouds, asked>>

\* A call fails and has changed nothing; waiting ends so when time is up.
FailCall(d) ==
  /\ task[d].pc \in {"find", "put", "launch", "wait"}
  /\ IF task[d].pc = "wait" THEN Doubtful ELSE UNCHANGED doubts
  /\ Ends(d, FALSE)
  /\ UNCHANGED <<records, clouds, asked>>

\* The reply arrives, or is lost although the call was carried out.
Replied(d, pc, unit) ==
  \/ Uses(d, pc, unit) /\ UNCHANGED doubts
  \/ Ends(d, FALSE) /\ Doubtful

\* checkHealth asks the public URL, whichever machine answers there.
CheckHealth(d, passed) ==
  /\ task[d].pc = "check"
  /\ passed => Served(task[d].target) # {}
  /\ Ends(d, passed)
  /\ UNCHANGED <<records, clouds, asked, doubts>>

\* settlePreviousDeployments: the draining ones are stopped, or the most
\* recent of them is active again.
Draining == {e \in Deploys : deployments[e] = "draining"}

Previous ==
  LET last == SelectLastInSeq(created, LAMBDA e : e \in Draining)
  IN IF last = 0 THEN {} ELSE {created[last]}

Settled(d, ok) ==
  [e \in Deploys |-> CASE e = d -> IF ok THEN "active" ELSE "failed"
                       [] ok /\ e \in Draining -> "stopped"
                       [] ~ok /\ e \in Previous -> "active"
                       [] OTHER -> deployments[e]]

\* updateDeploymentStatus, whose failure is only logged.
Report(d) ==
  /\ task[d].pc = "report"
  /\ Go(d, "done")
  /\ deployments' = Settled(d, task[d].ok) \/ UNCHANGED deployments
  /\ UNCHANGED <<created, clouds, asked, doubts>>

Crash(d) ==
  /\ d \in UsingCloud
  /\ Doubtful
  /\ task' = [task EXCEPT ![d].pc = "done", ![d].ok = FALSE]
  /\ UNCHANGED <<records, clouds, asked>>
-----------------------------------------------------------------------------
(* FlyDeployer.deploy. *)

Asks(d) == asked' = Append(asked, d)

\* Mutant of ActiveMachine: a machine that Fly has stopped does not count.
ActiveMachine_Started == SelectInSeq(machine, LAMBDA m : m.state = "started")

ActiveMachine == SelectInSeq(machine, LAMBDA m : m.state \in {"started", "stopped"})

ListMachines(d) ==
  /\ At(d, "find", "fly_io")
  /\ Uses(d, "put", ActiveMachine)
  /\ UNCHANGED <<records, clouds, asked, doubts>>

UpdateMachine(d) ==
  /\ At(d, "put", "fly_io") /\ task[d].unit # 0
  /\ machine' = [machine EXCEPT ![task[d].unit] = [state |-> "replacing", image |-> d]]
  /\ Asks(d)
  /\ Replied(d, "wait", task[d].unit)
  /\ UNCHANGED <<records, service, launch>>

CreateMachine(d) ==
  /\ At(d, "put", "fly_io") /\ task[d].unit = 0
  /\ Len(machine) < MaxUnits
  /\ machine' = Append(machine, [state |-> "starting", image |-> d])
  /\ Asks(d)
  /\ Replied(d, "wait", Len(machine) + 1)
  /\ UNCHANGED <<records, service, launch>>

\* waitForMachineState polls the machine until it is started, or has failed.
WaitForMachineState(d) ==
  /\ At(d, "wait", "fly_io")
  /\ \/ machine[task[d].unit].state = "started" /\ Go(d, "check")
     \/ machine[task[d].unit].state = "failed" /\ Ends(d, FALSE)
  /\ UNCHANGED <<records, clouds, asked, doubts>>

\* Fly starts what it was asked to run, or fails to; it stops a machine
\* nobody uses, and starts it again.
MachineChanges(i, state) ==
  /\ <<machine[i].state, state>> \in
       ({"starting", "replacing"} \X {"started", "failed"})
         \cup {<<"started", "stopped">>, <<"stopped", "started">>}
  /\ machine' = [machine EXCEPT ![i].state = state]
  /\ UNCHANGED <<task, records, service, launch, asked, doubts>>

Fly(d) ==
  ListMachines(d) \/ UpdateMachine(d) \/ CreateMachine(d) \/ WaitForMachineState(d)

-----------------------------------------------------------------------------
(* RailwayDeployer.deploy. *)

\* prepareService: the first service of the name, if the project has one, ...
GetProject(d) ==
  /\ At(d, "find", "railway")
  /\ Uses(d, "put", IF service = <<>> THEN 0 ELSE 1)
  /\ UNCHANGED <<records, clouds, asked, doubts>>

\* ... is pointed at the image, or one is created; its variables and region
\* may fail to be set.
PrepareService(d) ==
  /\ At(d, "put", "railway")
  /\ IF task[d].unit = 0
     THEN /\ Len(service) < MaxUnits
          /\ service' = Append(service, d)
          /\ Replied(d, "launch", Len(service) + 1)
     ELSE /\ service' = [service EXCEPT ![task[d].unit] = d]
          /\ Replied(d, "launch", task[d].unit)
  /\ Asks(d)
  /\ UNCHANGED <<records, machine, launch>>

\* deployServiceInstance: what the service points at then is deployed.
DeployServiceInstance(d) ==
  /\ At(d, "launch", "railway")
  /\ launch' = [launch EXCEPT ![d] = [status |-> "BUILDING", image |-> service[task[d].unit],
                                      unit |-> task[d].unit]]
  /\ Replied(d, "wait", task[d].unit)
  /\ UNCHANGED <<records, machine, service, asked>>

\* waitForDeployment polls until a terminal status, verifyDeployment checks
\* the URL if Railway assigned one.
WaitForDeployment(d) ==
  /\ At(d, "wait", "railway")
  /\ \/ launch[d].status = "SUCCESS" /\ (Go(d, "check") \/ Ends(d, TRUE))
     \/ launch[d].status \in {"FAILED", "REMOVED"} /\ Ends(d, FALSE)
  /\ UNCHANGED <<records, clouds, asked, doubts>>

\* Railway deploys, or fails to; a deployment that succeeds replaces that of
\* its service.
LaunchEnds(d, status) ==
  /\ launch[d].status = "BUILDING" /\ status \in {"SUCCESS", "FAILED"}
  /\ launch' = [e \in Deploys |->
       IF e = d THEN [launch[d] EXCEPT !.status = status]
       ELSE IF status = "SUCCESS" /\ launch[e].status = "SUCCESS" /\ launch[e].unit = launch[d].unit
       THEN [launch[e] EXCEPT !.status = "REMOVED"]
       ELSE launch[e]]
  /\ UNCHANGED <<task, records, machine, service, asked, doubts>>

Railway(d) ==
  GetProject(d) \/ PrepareService(d) \/ DeployServiceInstance(d) \/ WaitForDeployment(d)

-----------------------------------------------------------------------------

Cloud ==
  \/ \E d \in Deploys :
       \/ \E outcome \in Outcomes : StartTask(d, outcome)
       \/ Fly(d) \/ Railway(d)
       \/ \E passed \in BOOLEAN : CheckHealth(d, passed)
       \/ FailCall(d) \/ Report(d) \/ Crash(d)
  \/ \E i \in DOMAIN machine, state \in {"started", "stopped", "failed"} : MachineChanges(i, state)
  \/ \E d \in Deploys, status \in {"SUCCESS", "FAILED"} : LaunchEnds(d, status)

CloudSpec == CloudInit /\ [][Cloud]_cloudVars

-----------------------------------------------------------------------------
(* Properties. *)

\* The deployments that asked a cloud for their image no earlier than d did.
Since(d) == {asked[j] : j \in {j \in DOMAIN asked : \E i \in 1 .. j : asked[i] = d}}


\* "Update first found or create new" (docs/context/17-external-deployers.md):
\* if deployments of a project did not overlap, and none ended in doubt, a
\* cloud serves one image, however many deployments failed before: that of
\* the last deployment that asked, once it has reported success.
OneImageServed ==
  doubts = 0 =>
    \A d \in Deploys :
      task[d].pc = "done" /\ task[d].ok
        => \/ Served(task[d].target) = {d}
           \/ \E e \in Since(d) \ {d} : task[e].target = task[d].target

\* "The deployer never cut over, so the most recent draining deployment is
\* still serving and goes back to active" (settle-previous-deployments.ts): an
\* active deployment is served once no task is at work and nothing is in doubt.
ActiveIsServedByCloud ==
  UsingCloud = {} /\ doubts = 0 =>
    \A d \in Deploys : deployments[d] = "active" => d \in Served(task[d].target)
=============================================================================
