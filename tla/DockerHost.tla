------------------------------ MODULE DockerHost ------------------------------
(***************************************************************************)
(* The Docker host of a runner, as the deployers and the self-healing      *)
(* engine of apps/runner/src/deployers see it: the application containers  *)
(* of one project and the nginx proxy in front of them.                    *)
(*                                                                         *)
(* nginx resolves the upstream names of its configuration when it loads    *)
(* it.  loaded holds the names whose present container is the one nginx    *)
(* resolved: a container that is recreated has a new address, which nginx  *)
(* does not know before the next reload (rolling deployer, lines 229-231). *)
(***************************************************************************)
EXTENDS Naturals, FiniteSets

CONSTANTS
  blue, green, stable, canary,   \* the fixed names of application containers
  Ordinals,                      \* instances are named by their ordinal
  Images,                        \* image tags
  None,                          \* no image, no name, no deployment
  Flaky                          \* may an image that is not broken fail a check?

Names == {blue, green, stable, canary} \cup Ordinals

ASSUME NamesAssumption ==
  /\ Ordinals \subseteq Nat
  /\ Cardinality({blue, green, stable, canary}) = 4
  /\ {blue, green, stable, canary} \cap Nat = {}
  /\ None \notin Images \cup Names \cup Nat
  /\ Flaky \in BOOLEAN

VARIABLES
  box,        \* box[n]: the container called n, or Absent
  proxy,      \* does the proxy container run?
  conf,       \* upstream names in the proxy's default.conf
  loaded,     \* names whose present container nginx sends traffic to
  broken      \* images whose application has stopped answering

host == <<box, proxy, conf, loaded, broken>>

ContainerStates == {"absent", "exited", "running"}

\* check is history, not docker's state: the container's last health check.
Checks == {"none", "passed", "failed"}

Absent == [state |-> "absent", image |-> None, previous |-> None,
           deployment |-> None, check |-> "none"]

HostInit ==
  /\ box = [n \in Names |-> Absent]
  /\ proxy = FALSE
  /\ conf = {}
  /\ loaded = {}
  /\ broken = {}

isContainerRunning(n) == box[n].state = "running"

Running == {n \in Names : isContainerRunning(n)}

Serving == proxy /\ loaded # {}

ServedImages == {box[n].image : n \in loaded}

\* The image a container with this image replaces, for its rollback label.
resolvePreviousImage(outgoing, image) ==
  IF outgoing.image # image THEN outgoing.image ELSE outgoing.previous

\* docker run: refused while the name is taken.
runContainer(n, image, previous, deployment) ==
  /\ box[n].state = "absent"
  /\ box' = [box EXCEPT ![n] = [state |-> "running", image |-> image,
                                previous |-> previous,
                                deployment |-> deployment, check |-> "none"]]
  /\ UNCHANGED <<proxy, conf, loaded, broken>>

\* docker stop and docker rm -f of a container, if there is one.
removeContainerIfExists(n) ==
  /\ box' = [box EXCEPT ![n] = Absent]
  /\ loaded' = loaded \ {n}
  /\ UNCHANGED <<proxy, conf, broken>>

\* A container outlives docker restart with its name, labels and address.
restartContainer(n) ==
  /\ box[n].state # "absent"
  /\ box' = [box EXCEPT ![n].state = "running", ![n].check = "none"]
  /\ UNCHANGED <<proxy, conf, loaded, broken>>

\* The probe runs inside the container: it cannot pass unless that runs.
checkHealthViaDocker(n, passed) ==
  /\ passed => isContainerRunning(n) /\ box[n].image \notin broken
  /\ ~passed => ~isContainerRunning(n) \/ box[n].image \in broken \/ Flaky
  /\ box' = IF isContainerRunning(n)
              THEN [box EXCEPT ![n].check = IF passed THEN "passed" ELSE "failed"]
              ELSE box
  /\ UNCHANGED <<proxy, conf, loaded, broken>>

\* The first of these starts the proxy (ensureProxyContainer); then the
\* configuration is written, tested (every name must resolve) and loaded.
writeAndReloadNginx(names) ==
  /\ names \subseteq Running
  /\ proxy' = TRUE
  /\ conf' = names
  /\ loaded' = names
  /\ UNCHANGED <<box, broken>>

\* nginx -t fails: the new file stays on disk, the old one stays in force.
ReloadRefused(names) ==
  /\ ~ (names \subseteq Running)
  /\ proxy' = TRUE
  /\ conf' = names
  /\ UNCHANGED <<box, loaded, broken>>

\* What a failed or interrupted call leaves: a container that was stopped and
\* not removed, one that was created and did not start, or a configuration
\* that was written and not loaded.
HalfRemoved(n) ==
  /\ isContainerRunning(n)
  /\ box' = [box EXCEPT ![n].state = "exited"]
  /\ loaded' = loaded \ {n}
  /\ UNCHANGED <<proxy, conf, broken>>

HalfCreated(n, image) ==
  /\ box[n].state = "absent"
  /\ box' = [box EXCEPT ![n] = [Absent EXCEPT !.state = "exited", !.image = image]]
  /\ UNCHANGED <<proxy, conf, loaded, broken>>

HalfLoaded(names) ==
  /\ proxy' = TRUE
  /\ conf' = names
  /\ UNCHANGED <<box, loaded, broken>>

HostOK ==
  /\ box \in [Names -> [state : ContainerStates, image : Images \cup {None},
                        previous : Images \cup {None},
                        deployment : Nat \cup {None}, check : Checks]]
  /\ proxy \in BOOLEAN
  /\ conf \subseteq Names
  /\ loaded \subseteq Running
  /\ ~proxy => loaded = {}
  /\ broken \subseteq Images
===============================================================================
