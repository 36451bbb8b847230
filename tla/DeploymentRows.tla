---------------------------- MODULE DeploymentRows ----------------------------
(***************************************************************************)
(* The deployments of one project as the control plane records them: the   *)
(* rows a runner creates and patches, the rows that are settled with them, *)
(* the user's stop and rollback, the report of a self-healing rollback and *)
(* the cron job that clears expired links.  Every handler is a sequence of *)
(* calls to the database, and handlers interleave.                         *)
(*                                                                         *)
(* The runner's side of it is the traffic (whose containers have it) and   *)
(* the project's Cloudflare quick tunnel: a container of one name, which   *)
(* every deployment and the reaper of expired tunnels read and remove, one *)
(* docker command at a time.  A cloudflared that exits by itself is left   *)
(* out: "The URL only works while this machine and Docker are up."         *)
(***************************************************************************)
EXTENDS Naturals, FiniteSets, RunStates

CONSTANTS
  Calls,          \* handlers in progress at a time
  Kinds,          \* the calls made: "deploy", "heal", "stop", "rollback"
  MaxRows,        \* bound on deployments
  MaxTunnels,     \* bound on tunnels
  MaxOverlaps,    \* bound on calls that begin while another is in progress
  MaxFaults       \* bound on calls to the database that fail

ASSUME RowsAssumption ==
  /\ MaxRows \in Nat /\ MaxTunnels \in Nat
  /\ MaxOverlaps \in Nat /\ MaxFaults \in Nat

VARIABLES
  created,        \* rows 1..created exist, in the order of created_at
  status,         \* status[d] of row d
  rev,            \* status of row d's current revision, or "none"
  url,            \* the link row d shows
  tunnel,         \* the last tunnel started
  running,        \* the tunnel whose container is there, or 0
  lapsed,         \* the tunnels that are past their expiry
  reaper,         \* what reapExpiredTunnels is doing
  served,         \* the deployment whose containers have the traffic, or 0
  call,           \* call[c]: what handler c is doing
  overlaps,       \* history: calls begun while another was in progress
  faults,         \* history: calls to the database that failed
  stray,          \* history: a deployer that did not succeed moved the traffic last
  thrown,         \* history: deployments whose deployer threw, and were not reported
  crossed,        \* history: two began to handle the tunnel at a time
  unread          \* history: the address of a good tunnel was not found in its log

rows == <<created, status, rev, url>>
links == <<tunnel, running, lapsed>>
tunnels == <<links, reaper, crossed, unread>>
traffic == <<served, stray, thrown>>
vars == <<rows, tunnels, traffic, call, overlaps, faults>>

Ids == 1..MaxRows
Rows == 1..created

\* The address of tunnel `at`, with the expiry of tunnel `until`.
Links == [at : 0..MaxTunnels, until : 0..MaxTunnels]
NoLink == [at |-> 0, until |-> 0]
Expired(link) == link.until \in lapsed

Idle == [pc |-> "idle", id |-> 0, want |-> "none", found |-> 0, link |-> NoLink]

Init ==
  /\ created = 0
  /\ status = [d \in Ids |-> "none"]
  /\ rev = [d \in Ids |-> "none"]
  /\ url = [d \in Ids |-> NoLink]
  /\ tunnel = 0 /\ running = 0 /\ lapsed = {} /\ reaper = "idle"
  /\ served = 0
  /\ call = [c \in Calls |-> Idle]
  /\ overlaps = 0 /\ faults = 0
  /\ stray = FALSE /\ thrown = {}
  /\ crossed = FALSE /\ unread = FALSE

Busy == {c \in Calls : call[c].pc # "idle"}

\* A handler starts, about deployment d (0: one that does not exist yet).
Begin(c, kind, p, d, want) ==
  /\ kind \in Kinds
  /\ call[c].pc = "idle"
  /\ call' = [call EXCEPT ![c] = [pc |-> p, id |-> d, want |-> want, found |-> 0, link |-> NoLink]]
  /\ overlaps' = IF Busy = {} THEN overlaps ELSE overlaps + 1
  /\ overlaps' <= MaxOverlaps
  /\ UNCHANGED <<rows, tunnels, traffic, faults>>

\* The next statement of a handler; or its end.
To(c, p, q) == call[c].pc = p /\ call' = [call EXCEPT ![c].pc = q] /\ UNCHANGED overlaps

End(c, p) == call[c].pc = p /\ call' = [call EXCEPT ![c] = Idle] /\ UNCHANGED overlaps

Fault == faults < MaxFaults /\ faults' = faults + 1

\* A failed database call that the handler answers with an error.
Refused(c, p) ==
  End(c, p) /\ Fault /\ UNCHANGED <<rows, tunnels, traffic>>

\* A failed database call whose error is not looked at.
Ignored(c, p, q) ==
  To(c, p, q) /\ Fault /\ UNCHANGED <<rows, tunnels, traffic>>

------------------------------- \* POST .../deployments and executeDeployment

StartDeploy(c) ==
  created < MaxRows /\ Begin(c, "deploy", "drain", 0, "none")

\* Mutant of DrainActive: the active deployment is left as it is.
DrainActive_Nothing(c) ==
  To(c, "drain", "insert") /\ UNCHANGED <<rows, tunnels, traffic, faults>>

DrainActive(c) ==
  \/ /\ To(c, "drain", "insert")
     /\ status' = [d \in Ids |-> IF status[d] = "active" THEN "draining" ELSE status[d]]
     /\ UNCHANGED <<created, rev, url, tunnels, traffic, faults>>
  \/ Ignored(c, "drain", "insert")

InsertDeployment(c) ==
  \/ /\ call[c].pc = "insert"
     /\ created < MaxRows
     /\ created' = created + 1
     /\ status' = [status EXCEPT ![created + 1] = "deploying"]
     /\ call' = [call EXCEPT ![c].pc = "revision", ![c].id = created + 1]
     /\ UNCHANGED <<rev, url, tunnels, traffic, overlaps, faults>>
  \/ Refused(c, "insert")

InsertRevision(c) ==
  \/ To(c, "revision", "point") /\ UNCHANGED <<rows, tunnels, traffic, faults>>
  \/ Refused(c, "revision")

PointAtRevision(c) ==
  \/ /\ To(c, "point", "run")
     /\ rev' = [rev EXCEPT ![call[c].id] = "deploying"]
     /\ UNCHANGED <<created, status, url, tunnels, traffic, faults>>
  \/ Ignored(c, "point", "run")

\* createDeployer and deployer.deploy.  A success has moved the traffic, and a
\* public link is opened unless the target or the configuration has none.  A
\* failure is reported; it has left the traffic, or not: a canary whose new
\* stable container fails stays in charge, and a docker command may fail after
\* the switch or halfway.  What is thrown (a cloud has no canary) is logged, and
\* no more is heard of the deployment.
RunDeployer(c) ==
  LET d == call[c].id IN
  /\ call[c].pc = "run"
  /\ \/ /\ served' = d /\ stray' = FALSE
        /\ \E next \in {"tunnel", "read"} :
             call' = [call EXCEPT ![c].pc = next, ![c].want = "active"]
        /\ UNCHANGED thrown
     \/ /\ served' \in {served, 0, d} /\ stray' = (stray \/ served' # served)
        /\ \/ /\ call' = [call EXCEPT ![c].pc = "read", ![c].want = "failed"]
              /\ UNCHANGED thrown
           \/ /\ call' = [call EXCEPT ![c] = Idle]
              /\ thrown' = thrown \cup {d}
  /\ UNCHANGED <<rows, tunnels, overlaps, faults>>

------------------------------- \* ensurePublicTunnel and reapExpiredTunnels

Tunneling == {c \in Calls : call[c].pc \in {"logs", "clear", "start", "wait", "undo"}}

\* Someone else is between two of its docker commands about the tunnel.
Cross == crossed' = (crossed \/ Tunneling # {} \/ reaper # "idle")

Unexpired == running # 0 /\ running \notin lapsed

LinkTo(c, p, q, link) ==
  /\ call[c].pc = p
  /\ call' = [call EXCEPT ![c].pc = q, ![c].link = link]
  /\ UNCHANGED <<rows, traffic, overlaps, faults>>

\* The container, if there is one, is removed; docker rm may fail.
Remove == running' \in {0, running} /\ UNCHANGED <<tunnel, lapsed>>

\* Mutant of FindTunnel: every deployment starts a tunnel of its own.
FindTunnel_Anew(c) ==
  /\ LinkTo(c, "tunnel", "clear", NoLink)
  /\ Cross /\ UNCHANGED <<links, reaper, unread>>

\* Is it running, and what does its label say of its expiry?
FindTunnel(c) ==
  /\ IF Unexpired THEN LinkTo(c, "tunnel", "logs", [at |-> 0, until |-> running])
             ELSE LinkTo(c, "tunnel", "clear", NoLink)
  /\ Cross /\ UNCHANGED <<links, reaper, unread>>

\* Its address, if that is among the last 200 lines of its log: it is reused.
ReadLog(c) ==
  /\ \/ /\ running # 0
        /\ LinkTo(c, "logs", "read", [call[c].link EXCEPT !.at = running])
        /\ UNCHANGED unread
     \/ /\ LinkTo(c, "logs", "clear", NoLink)
        /\ unread' = (unread \/ running # 0)
  /\ UNCHANGED <<links, reaper, crossed>>

\* Else whatever has its name is removed first.
ClearTunnel(c) ==
  /\ Remove
  /\ \/ running' = 0 /\ LinkTo(c, "clear", "start", NoLink)
     \/ LinkTo(c, "clear", "read", NoLink)
  /\ UNCHANGED <<reaper, crossed, unread>>

\* docker run fails if the name is in use, or for reasons of its own.
StartTunnel(c) ==
  /\ \/ /\ running = 0 /\ tunnel < MaxTunnels
        /\ tunnel' = tunnel + 1 /\ running' = tunnel + 1
        /\ LinkTo(c, "start", "wait", [at |-> 0, until |-> tunnel + 1])
        /\ UNCHANGED lapsed
     \/ LinkTo(c, "start", "read", NoLink) /\ UNCHANGED links
  /\ UNCHANGED <<reaper, crossed, unread>>

\* waitForUrl: an address in the log of the container of that name, in time.
AwaitUrl(c) ==
  /\ \/ /\ running # 0
        /\ LinkTo(c, "wait", "read", [call[c].link EXCEPT !.at = running])
     \/ LinkTo(c, "wait", "undo", NoLink)
  /\ UNCHANGED tunnels

GiveUpTunnel(c) ==
  /\ Remove
  /\ LinkTo(c, "undo", "read", NoLink)
  /\ UNCHANGED <<reaper, crossed, unread>>

Tunnel(c) ==
  \/ FindTunnel(c) \/ ReadLog(c) \/ ClearTunnel(c)
  \/ StartTunnel(c) \/ AwaitUrl(c) \/ GiveUpTunnel(c)

\* The health monitor's tick lists the tunnels, reads the label of each, and
\* removes by its name one that has expired (or has no label any more).
ListTunnels ==
  /\ reaper = "idle" /\ running # 0
  /\ reaper' = "listed"
  /\ crossed' = (crossed \/ Tunneling # {})
  /\ UNCHANGED <<rows, links, unread, traffic, call, overlaps, faults>>

ReadTunnelLabel ==
  /\ reaper = "listed"
  /\ reaper' = IF Unexpired THEN "idle" ELSE "armed"
  /\ UNCHANGED <<rows, links, crossed, unread, traffic, call, overlaps, faults>>

ReapTunnel ==
  /\ reaper = "armed"
  /\ reaper' = "idle"
  /\ Remove
  /\ UNCHANGED <<rows, crossed, unread, traffic, call, overlaps, faults>>

------------------------------- \* PATCH .../deployments/[deploymentId]

\* markRolledBack: the monitor put the previous image back, under the same
\* deployment label.
StartHeal(c) ==
  /\ served # 0
  /\ Begin(c, "heal", "read", served, "rolled_back")

ReadRow(c) ==
  LET allowed == validateDeploymentTransition(status[call[c].id], call[c].want) IN
  \/ /\ To(c, "read", "update") /\ allowed
     /\ UNCHANGED <<rows, tunnels, traffic, faults>>
  \/ /\ End(c, "read") /\ ~allowed
     /\ UNCHANGED <<rows, tunnels, traffic, faults>>
  \/ Refused(c, "read")

UpdateRow(c) ==
  LET d == call[c].id IN
  \/ /\ To(c, "update", "revise")
     /\ status' = [status EXCEPT ![d] = call[c].want]
     /\ url' = [url EXCEPT ![d] =
                  CASE call[c].want \in {"failed", "rolled_back"} -> NoLink
                    [] call[c].want = "active" /\ call[c].link # NoLink -> call[c].link
                    [] OTHER -> @]
     /\ UNCHANGED <<created, rev, tunnels, traffic, faults>>
  \/ Refused(c, "update")

\* Mutant of ReviseRow: the two ways to settle earlier deployments are mixed up.
ReviseRow_Swapped(c) ==
  /\ To(c, "revise", IF call[c].want = "active" THEN "lookup" ELSE "settle")
  /\ rev' = [rev EXCEPT ![call[c].id] = IF @ = "none" THEN @ ELSE call[c].want]
  /\ UNCHANGED <<created, status, url, tunnels, traffic, faults>>

ReviseRow(c) ==
  LET d == call[c].id
      settle == IF call[c].want = "active" THEN "settle" ELSE "lookup"
  IN \/ /\ To(c, "revise", settle)
        /\ rev' = [rev EXCEPT ![d] = IF @ = "none" THEN @ ELSE call[c].want]
        /\ UNCHANGED <<created, status, url, tunnels, traffic, faults>>
     \/ Ignored(c, "revise", settle)

Draining(d) == {o \in Rows \ {d} : status[o] = "draining"}

\* settlePreviousDeployments, new one active: the draining rows are stopped.
StopDraining(c) ==
  LET old == Draining(call[c].id) IN
  \/ /\ End(c, "settle")
     /\ status' = [o \in Ids |-> IF o \in old THEN "stopped" ELSE status[o]]
     /\ url' = [o \in Ids |-> IF o \in old THEN NoLink ELSE url[o]]
     /\ UNCHANGED <<created, rev, tunnels, traffic, faults>>
  \/ Refused(c, "settle")

\* New one failed or rolled back: the newest draining row is looked up ...
LookupPrevious(c) ==
  LET old == Draining(call[c].id) IN
  \/ /\ old = {} /\ End(c, "lookup")
     /\ UNCHANGED <<rows, tunnels, traffic, faults>>
  \/ /\ call[c].pc = "lookup"
     /\ \E newest \in old :
          /\ \A o \in old : o <= newest
          /\ call' = [call EXCEPT ![c].pc = "restore", ![c].found = newest]
     /\ UNCHANGED <<rows, tunnels, traffic, overlaps, faults>>
  \/ Refused(c, "lookup")

\* ... and put back to active, whatever it is by now.
RestorePrevious(c) ==
  \/ /\ End(c, "restore")
     /\ status' = [status EXCEPT ![call[c].found] = "active"]
     /\ UNCHANGED <<created, rev, url, tunnels, traffic, faults>>
  \/ Refused(c, "restore")

------------------------------- \* deployments/actions.ts

StartStop(c) ==
  \E d \in Rows :
    /\ status[d] \notin {"stopped", "rolled_back", "failed"}
    /\ Begin(c, "stop", "stop", d, "none")

StopRow(c) ==
  LET d == call[c].id IN
  \/ /\ To(c, "stop", "stop_revisions")
     /\ status' = [status EXCEPT ![d] = "stopped"]
     /\ url' = [url EXCEPT ![d] = NoLink]
     /\ UNCHANGED <<created, rev, tunnels, traffic, faults>>
  \/ Refused(c, "stop")

StopRevisions(c) ==
  LET d == call[c].id IN
  \/ /\ End(c, "stop_revisions")
     /\ rev' = [rev EXCEPT ![d] = IF @ \in {"none", "rolled_back"} THEN @ ELSE "stopped"]
     /\ UNCHANGED <<created, status, url, tunnels, traffic, faults>>
  \/ Refused(c, "stop_revisions")

\* The target is this deployment's one revision: its rows have no other.
StartRollback(c) ==
  \E d \in Rows :
    /\ status[d] \in {"active", "draining"}
    /\ rev[d] # "none"
    /\ Begin(c, "rollback", "roll_revisions", d, "none")

RollRevisions(c) ==
  LET d == call[c].id IN
  \/ /\ To(c, "roll_revisions", "roll")
     /\ rev' = [rev EXCEPT ![d] = IF @ = "active" THEN "rolled_back" ELSE @]
     /\ UNCHANGED <<created, status, url, tunnels, traffic, faults>>
  \/ Ignored(c, "roll_revisions", "roll")

RollRow(c) ==
  \/ /\ End(c, "roll")
     /\ status' = [status EXCEPT ![call[c].id] = "rolled_back"]
     /\ UNCHANGED <<created, rev, url, tunnels, traffic, faults>>
  \/ Refused(c, "roll")

------------------------------- \* time and the background jobs

\* The expiry of a tunnel passes.
Lapse ==
  /\ \E t \in 1..tunnel : t \notin lapsed /\ lapsed' = lapsed \cup {t}
  /\ UNCHANGED <<rows, tunnel, running, reaper, crossed, unread, traffic, call, overlaps, faults>>

\* expirePublicUrls, in the cron tick.
ExpireUrls ==
  /\ \E d \in Rows : Expired(url[d])
  /\ url' = [d \in Ids |-> IF Expired(url[d]) THEN NoLink ELSE url[d]]
  /\ UNCHANGED <<created, status, rev, tunnels, traffic, call, overlaps, faults>>

Deploy(c) ==
  \/ DrainActive(c) \/ InsertDeployment(c) \/ InsertRevision(c) \/ PointAtRevision(c)
  \/ RunDeployer(c) \/ Tunnel(c)

Patch(c) ==
  \/ ReadRow(c) \/ UpdateRow(c) \/ ReviseRow(c)
  \/ StopDraining(c) \/ LookupPrevious(c) \/ RestorePrevious(c)

UserAction(c) == StopRow(c) \/ StopRevisions(c) \/ RollRevisions(c) \/ RollRow(c)

Start(c) == StartDeploy(c) \/ StartHeal(c) \/ StartStop(c) \/ StartRollback(c)

Background == Lapse \/ ListTunnels \/ ReadTunnelLabel \/ ReapTunnel \/ ExpireUrls

Next ==
  \/ \E c \in Calls : Start(c) \/ Deploy(c) \/ Patch(c) \/ UserAction(c)
  \/ Background

Spec == Init /\ [][Next]_vars

-------------------------------------------------------------------------------

DeploymentRow == DeploymentStatuses \cup {"none"}

TypeOK ==
  /\ created \in 0..MaxRows
  /\ status \in [Ids -> DeploymentRow]
  /\ rev \in [Ids -> DeploymentRow]
  /\ url \in [Ids -> Links]
  /\ tunnel \in 0..MaxTunnels /\ running \in 0..tunnel /\ lapsed \subseteq 1..tunnel
  /\ reaper \in {"idle", "listed", "armed"}
  /\ served \in 0..created
  /\ overlaps \in 0..MaxOverlaps /\ faults \in 0..MaxFaults
  /\ stray \in BOOLEAN /\ thrown \subseteq Rows
  /\ crossed \in BOOLEAN /\ unread \in BOOLEAN

Undisturbed == overlaps = 0 /\ faults = 0
AtRest == Undisturbed /\ Busy = {}

(* A project has at most one active deployment.                              *)
OneActive ==
  Undisturbed => Cardinality({d \in Rows : status[d] = "active"}) <= 1

(* Between calls the active deployment is the one whose containers have the  *)
(* traffic, unless the deployer that moved it last did not succeed.          *)
ActiveIsServed ==
  AtRest /\ ~stray => \A d \in Rows : status[d] = "active" => served = d

(* Between calls the only rows left deploying are those whose deployer threw, *)
(* and a row is left draining only if that happened to the last deployment.  *)
OutcomesAreSettled ==
  AtRest => \A d \in Rows : /\ status[d] = "deploying" => d \in thrown
                            /\ status[d] = "draining" => created \in thrown

(* No deployment comes back from the state it ended in.                      *)
EndedStaysEnded ==
  [][Undisturbed' => \A d \in Rows :
       status[d] \in DEPLOYMENT_TERMINAL_STATES => status'[d] = status[d]]_vars

(* A deployment that stopped or failed shows no public link, in every        *)
(* interleaving and with every failure.                                      *)
StoppedHasNoUrl == \A d \in Rows : status[d] \in {"stopped", "failed"} => url[d] = NoLink

(* A link that is shown and has not expired works, however the handlers      *)
(* interleave and fail, if no two of them handle the tunnel at a time and    *)
(* the address of every good tunnel is found in its log.  Should it not be,  *)
(* the tunnel is replaced, and the link of the active deployment still works *)
(* when the handlers that did not overlap or fail have ended.                *)
Works(link) == link # NoLink /\ ~Expired(link) => link.at = running

UrlWorks ==
  ~crossed => /\ ~unread => \A d \in Rows : Works(url[d])
              /\ AtRest => \A d \in Rows : status[d] = "active" => Works(url[d])

===============================================================================
