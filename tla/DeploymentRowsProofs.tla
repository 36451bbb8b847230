------------------------ MODULE DeploymentRowsProofs ------------------------
(***************************************************************************)
(* Proofs about what a run delivers and what of it is seen: the records of *)
(* deployments, the images of runs, and the live views of both.  Each part *)
(* states the inductive invariant of its component, one lemma per          *)
(* operation of the code, and the theorems they give.                      *)
(***************************************************************************)
EXTENDS DeploymentRows, ImageBuilds, LiveView, FiniteSetTheorems, WellFoundedInduction, TLAPS
-----------------------------------------------------------------------------
(* Deployment records, for any number of deployments, tunnels, handlers in *)
(* progress, overlaps and failures.  Besides TypeOK the invariant says     *)
(* what each handler in progress knows: the row it is about, what it wants *)
(* to make of it and the link it will write there.                         *)

Steps ==
  {"idle", "drain", "insert", "revision", "point", "run", "tunnel",
   "logs", "clear", "start", "wait", "undo",
   "read", "update", "revise", "settle", "lookup", "restore",
   "stop", "stop_revisions", "roll_revisions", "roll"}

\* Between two docker commands of ensurePublicTunnel.
TunnelSteps == {"logs", "clear", "start", "wait", "undo"}

Outcomes == {"active", "failed", "rolled_back"}

CallTyped ==
  call \in [Calls -> [pc : Steps, id : 0..created, want : Outcomes \cup {"none"},
                      found : 0..created, link : Links]]

CallKnows(c) ==
  /\ call[c].pc \notin {"idle", "drain", "insert"} => call[c].id \in Rows
  /\ call[c].pc \in {"tunnel", "logs", "clear", "start", "wait", "undo", "read", "update", "revise", "settle", "lookup", "restore"}
       => call[c].want \in Outcomes
  /\ call[c].pc = "restore" => call[c].found \in Rows

Typed == TypeOK /\ CallTyped /\ \A c \in Calls : CallKnows(c)

LEMMA LinkNone == NoLink \in Links
  BY RowsAssumption DEF NoLink, Links

LEMMA InitTyped == Init => Typed
<1> SUFFICES ASSUME Init PROVE Typed
  OBVIOUS
<1>1. TypeOK
  <2>1. /\ status \in [Ids -> DeploymentRow] /\ rev \in [Ids -> DeploymentRow]
        /\ url \in [Ids -> Links]
    BY LinkNone DEF Init, DeploymentRow
  <2>2. /\ created \in 0..MaxRows /\ served \in 0..created
        /\ tunnel \in 0..MaxTunnels /\ running \in 0..tunnel
        /\ overlaps \in 0..MaxOverlaps /\ faults \in 0..MaxFaults
    BY RowsAssumption DEF Init
  <2>3. /\ lapsed \subseteq 1..tunnel /\ thrown \subseteq Rows /\ reaper \in {"idle", "listed", "armed"}
        /\ stray \in BOOLEAN /\ crossed \in BOOLEAN /\ unread \in BOOLEAN
    BY DEF Init
  <2> QED  BY <2>1, <2>2, <2>3 DEF TypeOK
<1>2. CallTyped
  BY RowsAssumption, LinkNone DEF Init, CallTyped, Idle, Steps
<1>3. \A c \in Calls : CallKnows(c)
  BY DEF Init, CallKnows, Idle
<1> QED  BY <1>1, <1>2, <1>3 DEF Typed

(* The statuses the handlers write.                                          *)
LEMMA RowStatuses ==
  {"none", "deploying", "active", "draining", "stopped", "failed", "rolled_back"}
    \subseteq DeploymentRow
  BY DEF DeploymentRow, DeploymentStatuses

(* A step of ensurePublicTunnel is one of a successful deployment, and       *)
(* changes its place and its link only.                                      *)
LEMMA LinkToStep ==
  ASSUME CallTyped, NEW c \in Calls, NEW p, NEW q \in Steps, NEW l \in Links, LinkTo(c, p, q, l)
  PROVE  /\ call' = [call EXCEPT ![c].pc = q, ![c].link = l]
         /\ call[c].pc = p /\ call'[c].pc = q /\ call'[c].link = l
         /\ call'[c].id = call[c].id /\ call'[c].want = call[c].want
         /\ call'[c].found = call[c].found
         /\ \A b \in Calls \ {c} : call'[b] = call[b]
         /\ UNCHANGED <<rows, traffic, overlaps, faults>>
  BY DEF LinkTo, CallTyped

LEMMA TunnelStep ==
  ASSUME Typed, NEW c \in Calls, Tunnel(c)
  PROVE  /\ UNCHANGED <<rows, traffic, overlaps, faults, lapsed, reaper>>
         /\ \E q \in Steps, l \in Links : call' = [call EXCEPT ![c].pc = q, ![c].link = l]
         /\ call[c].pc \in TunnelSteps \cup {"tunnel"}
         /\ call'[c].pc \in TunnelSteps \cup {"read"}
         /\ call'[c].id = call[c].id /\ call'[c].want = call[c].want
         /\ call'[c].found = call[c].found
         /\ \A b \in Calls \ {c} : call'[b] = call[b]
<1>0. CallTyped /\ running \in 0..MaxTunnels /\ tunnel \in 0..MaxTunnels /\ call[c].link \in Links
      /\ NoLink \in Links
  BY RowsAssumption, LinkNone DEF Typed, TypeOK, CallTyped
<1>1. PICK p \in TunnelSteps \cup {"tunnel"}, q \in TunnelSteps \cup {"read"}, l \in Links :
        LinkTo(c, p, q, l)
  <2>1. CASE FindTunnel(c)
    <3>1. [at |-> 0, until |-> running] \in Links
      BY <1>0, RowsAssumption DEF Links
    <3> QED  BY <1>0, <2>1, <3>1 DEF FindTunnel, TunnelSteps
  <2>2. CASE ReadLog(c)
    <3>1. [call[c].link EXCEPT !.at = running] \in Links
      BY <1>0 DEF Links
    <3> QED  BY <1>0, <2>2, <3>1 DEF ReadLog, TunnelSteps
  <2>3. CASE ClearTunnel(c)
    BY <1>0, <2>3 DEF ClearTunnel, TunnelSteps
  <2>4. CASE StartTunnel(c)
    <3>1. tunnel < MaxTunnels => [at |-> 0, until |-> tunnel + 1] \in Links
      BY <1>0, RowsAssumption DEF Links
    <3> QED  BY <1>0, <2>4, <3>1 DEF StartTunnel, TunnelSteps
  <2>5. CASE AwaitUrl(c)
    <3>1. [call[c].link EXCEPT !.at = running] \in Links
      BY <1>0 DEF Links
    <3> QED  BY <1>0, <2>5, <3>1 DEF AwaitUrl, TunnelSteps
  <2>6. CASE GiveUpTunnel(c)
    BY <1>0, <2>6 DEF GiveUpTunnel, TunnelSteps
  <2> QED  BY <2>1, <2>2, <2>3, <2>4, <2>5, <2>6 DEF Tunnel
<1>2. q \in Steps
  BY DEF TunnelSteps, Steps
<1>3. UNCHANGED <<lapsed, reaper>>
  BY DEF Tunnel, FindTunnel, ReadLog, ClearTunnel, StartTunnel, AwaitUrl, GiveUpTunnel, Remove,
         tunnels, links
<1>4. LinkTo(c, p, q, l) => /\ call' = [call EXCEPT ![c].pc = q, ![c].link = l]
                            /\ call[c].pc = p /\ call'[c].pc = q
                            /\ call'[c].id = call[c].id /\ call'[c].want = call[c].want
                            /\ call'[c].found = call[c].found
                            /\ \A b \in Calls \ {c} : call'[b] = call[b]
                            /\ UNCHANGED <<rows, traffic, overlaps, faults>>
  BY <1>0, <1>2, LinkToStep
<1> QED  BY <1>1, <1>2, <1>3, <1>4

(* A step about the rows alone.                                              *)
LEMMA RowsTyped ==
  ASSUME TypeOK, UNCHANGED <<created, tunnels, traffic, overlaps>>, faults' \in 0..MaxFaults,
         status' \in [Ids -> DeploymentRow], rev' \in [Ids -> DeploymentRow],
         url' \in [Ids -> Links]
  PROVE  TypeOK'
  BY DEF TypeOK, Rows, tunnels, links, traffic

(* A step keeps the rows, the tunnels and the history in their types.        *)
LEMMA StepTypeOK == ASSUME Typed, [Next]_vars PROVE TypeOK'
<1>0. TypeOK /\ NoLink \in Links  BY LinkNone DEF Typed
<1> USE <1>0
<1>1. ASSUME NEW c \in Calls, StartDeploy(c) PROVE TypeOK'
  BY <1>1, RowsAssumption, RowStatuses DEF StartDeploy, Begin, TypeOK, Rows, rows,
     tunnels, links, traffic
<1>2. ASSUME NEW c \in Calls, DrainActive(c) PROVE TypeOK'
  BY <1>2, RowsAssumption, RowStatuses
     DEF DrainActive, To, Ignored, Fault, TypeOK, Rows, rows, tunnels, links, traffic
<1>3. ASSUME NEW c \in Calls, InsertDeployment(c) PROVE TypeOK'
  <2>1. CASE Refused(c, "insert")
    BY <2>1, RowsAssumption DEF Refused, End, Fault, TypeOK, Rows, rows, tunnels, links, traffic
  <2>2. CASE ~Refused(c, "insert")
    <3>1. created + 1 \in Ids /\ created + 1 \in 0..MaxRows /\ 0..created \subseteq 0..(created + 1)
      BY <1>3, <2>2, RowsAssumption DEF InsertDeployment, TypeOK, Ids
    <3>2. status' = [status EXCEPT ![created + 1] = "deploying"] /\ created' = created + 1
      BY <1>3, <2>2 DEF InsertDeployment
    <3>3. UNCHANGED <<rev, url, tunnels, traffic, overlaps, faults>>
      BY <1>3, <2>2 DEF InsertDeployment, tunnels, links, traffic
    <3> QED  BY <3>1, <3>2, <3>3, RowStatuses DEF TypeOK, Rows, tunnels, links, traffic
  <2> QED  BY <2>1, <2>2
<1>4. ASSUME NEW c \in Calls, InsertRevision(c) PROVE TypeOK'
  BY <1>4, RowsAssumption, RowStatuses DEF InsertRevision, To, Refused, End,
     Fault, TypeOK, Rows, rows, tunnels, links, traffic
<1>5. ASSUME NEW c \in Calls, PointAtRevision(c) PROVE TypeOK'
  BY <1>5, RowsAssumption, RowStatuses DEF PointAtRevision, To, Ignored,
     Fault, TypeOK, Rows, rows, tunnels, links, traffic
<1>6. ASSUME NEW c \in Calls, RunDeployer(c) PROVE TypeOK'
  <2>1. call[c].id \in Rows /\ Rows \subseteq 0..created /\ 0 \in 0..created
    BY <1>6, RowsAssumption DEF RunDeployer, Typed, CallKnows, TypeOK, Rows
  <2>2. /\ served' \in {served, 0, call[c].id} /\ thrown' \subseteq thrown \cup {call[c].id}
        /\ UNCHANGED <<rows, tunnels, overlaps, faults>>
    BY <1>6 DEF RunDeployer
  <2>3. stray' \in BOOLEAN
    BY <1>6 DEF RunDeployer, TypeOK
  <2> QED  BY <2>1, <2>2, <2>3 DEF TypeOK, Rows, rows, tunnels, links
<1>7. ASSUME NEW c \in Calls, Tunnel(c) PROVE TypeOK'
  <2>1. UNCHANGED <<rows, traffic, overlaps, faults, lapsed, reaper>>
    BY <1>7, TunnelStep
  <2>2. tunnel' \in 0..MaxTunnels /\ running' \in 0..tunnel' /\ 1..tunnel \subseteq 1..tunnel'
    BY <1>7, RowsAssumption DEF Tunnel, FindTunnel, ReadLog, ClearTunnel, StartTunnel, AwaitUrl,
       GiveUpTunnel, Remove, TypeOK, tunnels, links
  <2>3. crossed' \in BOOLEAN /\ unread' \in BOOLEAN
    BY <1>7, Zenon DEF Tunnel, FindTunnel, ReadLog, ClearTunnel, StartTunnel, AwaitUrl,
       GiveUpTunnel, Cross, TypeOK, tunnels
  <2> QED  BY <2>1, <2>2, <2>3 DEF TypeOK, Rows, rows, traffic
<1>8. ASSUME NEW c \in Calls, StartHeal(c) PROVE TypeOK'
  BY <1>8, RowsAssumption, RowStatuses DEF StartHeal, Begin, TypeOK, Rows, rows,
     tunnels, links, traffic
<1>9. ASSUME NEW c \in Calls, ReadRow(c) PROVE TypeOK'
  BY <1>9, RowsAssumption, RowStatuses DEF ReadRow, To, End, Refused, Fault,
     TypeOK, Rows, rows, tunnels, links, traffic
<1>10. ASSUME NEW c \in Calls, UpdateRow(c) PROVE TypeOK'
  <2>1. CASE Refused(c, "update")
    BY <2>1, RowsAssumption DEF Refused, End, Fault, TypeOK, Rows, rows, tunnels, links, traffic
  <2>2. CASE ~Refused(c, "update")
    <3>1. call[c].want \in DeploymentRow /\ call[c].link \in Links
      BY <1>10, <2>2, RowStatuses, RowsAssumption
         DEF UpdateRow, To, Typed, CallTyped, CallKnows, TypeOK, Outcomes
    <3> QED
      BY <1>10, <2>2, <3>1, RowsAssumption DEF UpdateRow, To, TypeOK, Rows, tunnels, links, traffic
  <2> QED  BY <2>1, <2>2
<1>11. ASSUME NEW c \in Calls, ReviseRow(c) PROVE TypeOK'
  <2>1. call[c].want \in DeploymentRow
    BY <1>11, RowStatuses
       DEF ReviseRow, To, Ignored, Typed, CallTyped, CallKnows, Outcomes
  <2> QED
    BY <1>11, <2>1, RowsAssumption DEF ReviseRow, To, Ignored, Fault, TypeOK, Rows, rows, tunnels, links, traffic
<1>12. ASSUME NEW c \in Calls, StopDraining(c) PROVE TypeOK'
  <2>1. UNCHANGED <<created, tunnels, traffic, overlaps>> /\ faults' \in 0..MaxFaults
    BY <1>12, RowsAssumption DEF StopDraining, End, Refused, Fault, Draining, TypeOK, rows
  <2>2. /\ status' \in [Ids -> DeploymentRow] /\ rev' \in [Ids -> DeploymentRow]
        /\ url' \in [Ids -> Links]
    BY <1>12, RowStatuses DEF StopDraining, Refused, TypeOK, rows
  <2> QED  BY <2>1, <2>2, RowsTyped
<1>13. ASSUME NEW c \in Calls, LookupPrevious(c) PROVE TypeOK'
  <2>1. UNCHANGED <<created, tunnels, traffic, overlaps>> /\ faults' \in 0..MaxFaults
    BY <1>13, RowsAssumption DEF LookupPrevious, End, Refused, Fault, TypeOK, rows
  <2>2. /\ status' \in [Ids -> DeploymentRow] /\ rev' \in [Ids -> DeploymentRow]
        /\ url' \in [Ids -> Links]
    BY <1>13, RowStatuses DEF LookupPrevious, Refused, TypeOK, rows
  <2> QED  BY <2>1, <2>2, RowsTyped
<1>14. ASSUME NEW c \in Calls, RestorePrevious(c) PROVE TypeOK'
  <2>1. UNCHANGED <<created, tunnels, traffic, overlaps>> /\ faults' \in 0..MaxFaults
    BY <1>14, RowsAssumption DEF RestorePrevious, End, Refused, Fault, TypeOK, rows
  <2>2. /\ status' \in [Ids -> DeploymentRow] /\ rev' \in [Ids -> DeploymentRow]
        /\ url' \in [Ids -> Links]
    BY <1>14, RowStatuses DEF RestorePrevious, Refused, TypeOK, rows
  <2> QED  BY <2>1, <2>2, RowsTyped
<1>15. ASSUME NEW c \in Calls, StartStop(c) PROVE TypeOK'
  BY <1>15, RowsAssumption, RowStatuses DEF StartStop, Begin, TypeOK, Rows, rows,
     tunnels, links, traffic
<1>16. ASSUME NEW c \in Calls, StopRow(c) PROVE TypeOK'
  <2>1. UNCHANGED <<created, tunnels, traffic, overlaps>> /\ faults' \in 0..MaxFaults
    BY <1>16, RowsAssumption DEF StopRow, To, Refused, End, Fault, TypeOK, rows
  <2>2. /\ status' \in [Ids -> DeploymentRow] /\ rev' \in [Ids -> DeploymentRow]
        /\ url' \in [Ids -> Links]
    BY <1>16, RowStatuses DEF StopRow, Refused, TypeOK, rows
  <2> QED  BY <2>1, <2>2, RowsTyped
<1>17. ASSUME NEW c \in Calls, StopRevisions(c) PROVE TypeOK'
  <2>1. UNCHANGED <<created, tunnels, traffic, overlaps>> /\ faults' \in 0..MaxFaults
    BY <1>17, RowsAssumption DEF StopRevisions, End, Refused, Fault, TypeOK, rows
  <2>2. /\ status' \in [Ids -> DeploymentRow] /\ rev' \in [Ids -> DeploymentRow]
        /\ url' \in [Ids -> Links]
    BY <1>17, RowStatuses DEF StopRevisions, Refused, TypeOK, rows
  <2> QED  BY <2>1, <2>2, RowsTyped
<1>18. ASSUME NEW c \in Calls, StartRollback(c) PROVE TypeOK'
  BY <1>18, RowsAssumption, RowStatuses DEF StartRollback, Begin, TypeOK, Rows,
     rows, tunnels, links, traffic
<1>19. ASSUME NEW c \in Calls, RollRevisions(c) PROVE TypeOK'
  BY <1>19, RowsAssumption, RowStatuses DEF RollRevisions, To, Ignored,
     Fault, TypeOK, Rows, rows, tunnels, links, traffic
<1>20. ASSUME NEW c \in Calls, RollRow(c) PROVE TypeOK'
  <2>1. UNCHANGED <<created, tunnels, traffic, overlaps>> /\ faults' \in 0..MaxFaults
    BY <1>20, RowsAssumption DEF RollRow, End, Refused, Fault, TypeOK, rows
  <2>2. /\ status' \in [Ids -> DeploymentRow] /\ rev' \in [Ids -> DeploymentRow]
        /\ url' \in [Ids -> Links]
    BY <1>20, RowStatuses DEF RollRow, Refused, TypeOK, rows
  <2> QED  BY <2>1, <2>2, RowsTyped
<1>21. CASE Lapse
  BY <1>21, RowsAssumption, RowStatuses DEF Lapse, TypeOK, Rows, rows, tunnels, links, traffic
<1>22. CASE ListTunnels \/ ReadTunnelLabel \/ ReapTunnel
  <2>1. running' \in {0, running} /\ UNCHANGED <<rows, tunnel, lapsed, unread, traffic, overlaps, faults>>
    BY <1>22 DEF ListTunnels, ReadTunnelLabel, ReapTunnel, Remove, links
  <2>2. reaper' \in {"idle", "listed", "armed"} /\ crossed' \in BOOLEAN
    BY <1>22 DEF ListTunnels, ReadTunnelLabel, ReapTunnel, TypeOK
  <2> QED  BY <2>1, <2>2, RowsAssumption DEF TypeOK, Rows, rows, traffic
<1>23. CASE ExpireUrls
  BY <1>23, RowsAssumption, RowStatuses DEF ExpireUrls, TypeOK, Rows, rows, tunnels, links, traffic
<1>24. CASE UNCHANGED vars
  BY <1>24, RowsAssumption, RowStatuses DEF vars, TypeOK, Rows, rows, tunnels, links, traffic
<1> QED
  BY <1>1, <1>2, <1>3, <1>4, <1>5, <1>6, <1>7, <1>8, <1>9, <1>10, <1>11,
     <1>12, <1>13, <1>14, <1>15, <1>16, <1>17, <1>18, <1>19, <1>20, <1>21,
     <1>22, <1>23, <1>24 DEF Next, Start, Deploy, Patch, UserAction,
     Background

(* The three ways a handler goes on keep the records in their types.         *)
LEMMA ToTyped ==
  ASSUME CallTyped, created \in Nat, tunnel \in Nat, NEW c \in Calls, NEW p, NEW q \in Steps,
         To(c, p, q), UNCHANGED <<created, tunnel>>
  PROVE  CallTyped'
  BY DEF CallTyped, To

LEMMA EndTyped ==
  ASSUME CallTyped, created \in Nat, tunnel \in Nat, NEW c \in Calls, NEW p,
         End(c, p), UNCHANGED <<created, tunnel>>
  PROVE  CallTyped'
  BY LinkNone DEF CallTyped, End, Idle, Steps

LEMMA FoundTyped ==
  ASSUME CallTyped, created \in Nat, tunnel \in Nat, NEW c \in Calls, NEW d \in 0..created,
         call' = [call EXCEPT ![c].pc = "restore", ![c].found = d],
         UNCHANGED <<created, tunnel>>
  PROVE  CallTyped'
<1>1. [call[c] EXCEPT !.pc = "restore", !.found = d]
        \in [pc : Steps, id : 0..created, want : Outcomes \cup {"none"},
             found : 0..created, link : Links]
  BY DEF CallTyped, Steps
<1>2. call' = [call EXCEPT ![c] = [call[c] EXCEPT !.pc = "restore", !.found = d]]
  OBVIOUS
<1> QED  BY <1>1, <1>2 DEF CallTyped

LEMMA BeginTyped ==
  ASSUME CallTyped, created \in Nat, tunnel \in Nat, NEW c \in Calls, NEW k, NEW p \in Steps,
         NEW d \in 0..created, NEW w \in Outcomes \cup {"none"},
         Begin(c, k, p, d, w)
  PROVE  CallTyped'
  BY LinkNone DEF CallTyped, Begin, rows, tunnels, links, traffic

(* A step keeps the handlers' records in their types.                        *)
LEMMA StepCallTyped == ASSUME Typed, [Next]_vars PROVE CallTyped'
<1>0. TypeOK /\ CallTyped /\ created \in Nat /\ tunnel \in Nat
  BY RowsAssumption DEF Typed, TypeOK
<1> USE <1>0
<1>1. ASSUME NEW c \in Calls, StartDeploy(c) PROVE CallTyped'
  BY <1>1, BeginTyped DEF StartDeploy, Steps
<1>2. ASSUME NEW c \in Calls, DrainActive(c) PROVE CallTyped'
  BY <1>2, ToTyped DEF DrainActive, Ignored, Steps, rows, tunnels, links, traffic
<1>3. ASSUME NEW c \in Calls, InsertDeployment(c) PROVE CallTyped'
  <2>1. CASE Refused(c, "insert")
    BY <2>1, EndTyped DEF Refused, rows, tunnels, links, traffic
  <2>2. CASE ~Refused(c, "insert")
    BY <1>3, <2>2 DEF InsertDeployment, CallTyped, Steps, tunnels, links, traffic
  <2> QED  BY <2>1, <2>2
<1>4. ASSUME NEW c \in Calls, InsertRevision(c) PROVE CallTyped'
  BY <1>4, ToTyped, EndTyped DEF InsertRevision, Refused, Steps, rows, tunnels, links, traffic
<1>5. ASSUME NEW c \in Calls, PointAtRevision(c) PROVE CallTyped'
  BY <1>5, ToTyped DEF PointAtRevision, Ignored, Steps, rows, tunnels, links, traffic
<1>6. ASSUME NEW c \in Calls, RunDeployer(c) PROVE CallTyped'
  <2>1. Idle \in [pc : Steps, id : 0..created, want : Outcomes \cup {"none"},
                  found : 0..created, link : Links]
    BY <1>0, LinkNone DEF Idle, Steps
  <2>2. created' = created /\ (call' = [call EXCEPT ![c] = Idle] \/
          \E q \in {"tunnel", "read"}, w \in {"active", "failed"} :
               call' = [call EXCEPT ![c] = [call[c] EXCEPT !.pc = q, !.want = w]])
    BY <1>6 DEF RunDeployer, rows
  <2>3. \A q \in {"tunnel", "read"}, w \in {"active", "failed"} :
          [call[c] EXCEPT !.pc = q, !.want = w]
            \in [pc : Steps, id : 0..created, want : Outcomes \cup {"none"},
                 found : 0..created, link : Links]
    BY <1>0 DEF CallTyped, Steps, Outcomes
  <2>4. CASE call' = [call EXCEPT ![c] = Idle]
    BY <1>0, <2>1, <2>2, <2>4 DEF CallTyped
  <2>5. ASSUME NEW q \in {"tunnel", "read"}, NEW w \in {"active", "failed"},
               call' = [call EXCEPT ![c] = [call[c] EXCEPT !.pc = q, !.want = w]]
        PROVE  CallTyped'
    BY <1>0, <2>2, <2>3, <2>5 DEF CallTyped
  <2> QED  BY <2>2, <2>4, <2>5
<1>7. ASSUME NEW c \in Calls, Tunnel(c) PROVE CallTyped'
  <2>1. PICK q \in Steps, l \in Links : call' = [call EXCEPT ![c].pc = q, ![c].link = l]
    BY <1>7, TunnelStep
  <2>2. [call[c] EXCEPT !.pc = q, !.link = l]
            \in [pc : Steps, id : 0..created, want : Outcomes \cup {"none"},
                 found : 0..created, link : Links]
    BY <1>0 DEF CallTyped
  <2>3. created' = created
    BY <1>7, TunnelStep DEF rows
  <2> QED  BY <1>0, <2>1, <2>2, <2>3 DEF CallTyped
<1>8. ASSUME NEW c \in Calls, StartHeal(c) PROVE CallTyped'
  <2>1. served \in 0..created
    BY DEF TypeOK
  <2> QED  BY <1>8, <2>1, BeginTyped DEF StartHeal, Steps, Outcomes
<1>9. ASSUME NEW c \in Calls, ReadRow(c) PROVE CallTyped'
  BY <1>9, ToTyped, EndTyped DEF ReadRow, Refused, Steps, rows, tunnels, links, traffic
<1>10. ASSUME NEW c \in Calls, UpdateRow(c) PROVE CallTyped'
  BY <1>10, ToTyped, EndTyped DEF UpdateRow, Refused, Steps, rows, tunnels, links, traffic
<1>11. ASSUME NEW c \in Calls, ReviseRow(c) PROVE CallTyped'
  BY <1>11, ToTyped DEF ReviseRow, Ignored, Steps, rows, tunnels, links, traffic
<1>12. ASSUME NEW c \in Calls, StopDraining(c) PROVE CallTyped'
  BY <1>12, EndTyped DEF StopDraining, Refused, Steps, rows, tunnels, links, traffic
<1>13. ASSUME NEW c \in Calls, LookupPrevious(c) PROVE CallTyped'
  <2>1. CASE End(c, "lookup") /\ UNCHANGED <<created, tunnel>>
    BY <2>1, EndTyped
  <2>2. CASE ~(End(c, "lookup") /\ UNCHANGED <<created, tunnel>>)
    <3>1. PICK newest \in Draining(call[c].id) :
            call' = [call EXCEPT ![c].pc = "restore", ![c].found = newest]
      BY <1>13, <2>2 DEF LookupPrevious, Refused, rows, tunnels, links, traffic
    <3>2. newest \in 0..created /\ UNCHANGED <<created, tunnel>>
      BY <1>13, <2>2, <3>1 DEF LookupPrevious, Refused, Draining, Rows, rows, tunnels, links, traffic
    <3> QED  BY <3>1, <3>2, FoundTyped
  <2> QED  BY <2>1, <2>2
<1>14. ASSUME NEW c \in Calls, RestorePrevious(c) PROVE CallTyped'
  BY <1>14, EndTyped DEF RestorePrevious, Refused, Steps, rows, tunnels, links, traffic
<1>15. ASSUME NEW c \in Calls, StartStop(c) PROVE CallTyped'
  BY <1>15, BeginTyped DEF StartStop, Steps, Rows
<1>16. ASSUME NEW c \in Calls, StopRow(c) PROVE CallTyped'
  BY <1>16, ToTyped, EndTyped DEF StopRow, Refused, Steps, rows, tunnels, links, traffic
<1>17. ASSUME NEW c \in Calls, StopRevisions(c) PROVE CallTyped'
  BY <1>17, EndTyped DEF StopRevisions, Refused, Steps, rows, tunnels, links, traffic
<1>18. ASSUME NEW c \in Calls, StartRollback(c) PROVE CallTyped'
  <2>1. PICK d \in Rows : Begin(c, "rollback", "roll_revisions", d, "none")
    BY <1>18 DEF StartRollback
  <2>2. d \in 0..created /\ "roll_revisions" \in Steps
    BY DEF Rows, Steps
  <2> QED  BY <2>1, <2>2, BeginTyped
<1>19. ASSUME NEW c \in Calls, RollRevisions(c) PROVE CallTyped'
  BY <1>19, ToTyped DEF RollRevisions, Ignored, Steps, rows, tunnels, links, traffic
<1>20. ASSUME NEW c \in Calls, RollRow(c) PROVE CallTyped'
  BY <1>20, EndTyped DEF RollRow, Refused, Steps, rows, tunnels, links, traffic
<1>21. CASE Lapse
  BY <1>21 DEF Lapse, rows, tunnels, links, traffic, CallTyped
<1>22. CASE ListTunnels \/ ReadTunnelLabel \/ ReapTunnel
  BY <1>22 DEF ListTunnels, ReadTunnelLabel, ReapTunnel, rows, tunnels, links, traffic, CallTyped
<1>23. CASE ExpireUrls
  BY <1>23 DEF ExpireUrls, rows, tunnels, links, traffic, CallTyped
<1>24. CASE UNCHANGED vars
  BY <1>24 DEF vars, rows, CallTyped
<1> QED
  BY <1>1, <1>2, <1>3, <1>4, <1>5, <1>6, <1>7, <1>8, <1>9, <1>10, <1>11,
     <1>12, <1>13, <1>14, <1>15, <1>16, <1>17, <1>18, <1>19, <1>20, <1>21,
     <1>22, <1>23, <1>24 DEF Next, Start, Deploy, Patch, UserAction,
     Background

(* A step keeps what every handler knows about the row it works on.          *)
LEMMA StepCallKnows == ASSUME Typed, NEW h \in Calls, [Next]_vars PROVE CallKnows(h)'
<1>0. TypeOK /\ CallTyped /\ CallKnows(h) /\ created \in Nat
  BY RowsAssumption DEF Typed, TypeOK
<1> USE <1>0
<1>1. ASSUME NEW c \in Calls, StartDeploy(c) PROVE CallKnows(h)'
  BY <1>1 DEF StartDeploy, Begin, CallTyped, CallKnows, Rows, rows, tunnels, links, traffic
<1>2. ASSUME NEW c \in Calls, DrainActive(c) PROVE CallKnows(h)'
  BY <1>2 DEF DrainActive, To, Ignored, CallTyped, CallKnows, Rows, rows,
     tunnels, links, traffic
<1>3. ASSUME NEW c \in Calls, InsertDeployment(c) PROVE CallKnows(h)'
  BY <1>3 DEF InsertDeployment, Refused, End, Idle, CallTyped, CallKnows,
     Rows, rows, tunnels, links, traffic
<1>4. ASSUME NEW c \in Calls, InsertRevision(c) PROVE CallKnows(h)'
  BY <1>4 DEF InsertRevision, To, Refused, End, Idle, CallTyped, CallKnows,
     Rows, rows, tunnels, links, traffic
<1>5. ASSUME NEW c \in Calls, PointAtRevision(c) PROVE CallKnows(h)'
  BY <1>5 DEF PointAtRevision, To, Ignored, CallTyped, CallKnows, Rows,
     rows, tunnels, links, traffic
<1>6. ASSUME NEW c \in Calls, RunDeployer(c) PROVE CallKnows(h)'
  BY <1>6 DEF RunDeployer, Idle, CallTyped, CallKnows, Outcomes, Rows, rows
<1>7. ASSUME NEW c \in Calls, Tunnel(c) PROVE CallKnows(h)'
  <2>1. /\ call[c].pc \in TunnelSteps \cup {"tunnel"} /\ call'[c].pc \in TunnelSteps \cup {"read"}
        /\ call'[c].id = call[c].id /\ call'[c].want = call[c].want
        /\ \A b \in Calls \ {c} : call'[b] = call[b]
        /\ created' = created /\ CallKnows(c)
    BY <1>7, TunnelStep DEF rows, Typed
  <2>2. CASE h = c
    BY <2>1, <2>2 DEF CallKnows, Rows, TunnelSteps
  <2>3. CASE h # c
    BY <2>1, <2>3 DEF CallKnows, Rows
  <2> QED  BY <2>2, <2>3
<1>8. ASSUME NEW c \in Calls, StartHeal(c) PROVE CallKnows(h)'
  BY <1>8 DEF StartHeal, Begin, TypeOK, CallTyped, CallKnows, Outcomes, Rows, rows
<1>9. ASSUME NEW c \in Calls, ReadRow(c) PROVE CallKnows(h)'
  BY <1>9 DEF ReadRow, To, End, Refused, Idle, CallTyped, CallKnows, Rows,
     rows, tunnels, links, traffic
<1>10. ASSUME NEW c \in Calls, UpdateRow(c) PROVE CallKnows(h)'
  BY <1>10 DEF UpdateRow, To, Refused, End, Idle, CallTyped, CallKnows,
     Rows, rows, tunnels, links, traffic
<1>11. ASSUME NEW c \in Calls, ReviseRow(c) PROVE CallKnows(h)'
  BY <1>11 DEF ReviseRow, To, Ignored, CallTyped, CallKnows, Rows, rows,
     tunnels, links, traffic
<1>12. ASSUME NEW c \in Calls, StopDraining(c) PROVE CallKnows(h)'
  BY <1>12 DEF StopDraining, End, Refused, Idle, CallTyped, CallKnows, Rows,
     rows, tunnels, links, traffic
<1>13. ASSUME NEW c \in Calls, LookupPrevious(c) PROVE CallKnows(h)'
  BY <1>13 DEF LookupPrevious, Draining, Refused, End, Idle, CallTyped, CallKnows, Rows, rows
<1>14. ASSUME NEW c \in Calls, RestorePrevious(c) PROVE CallKnows(h)'
  BY <1>14 DEF RestorePrevious, End, Refused, Idle, CallTyped, CallKnows,
     Rows, rows, tunnels, links, traffic
<1>15. ASSUME NEW c \in Calls, StartStop(c) PROVE CallKnows(h)'
  BY <1>15 DEF StartStop, Begin, CallTyped, CallKnows, Rows, rows, tunnels, links, traffic
<1>16. ASSUME NEW c \in Calls, StopRow(c) PROVE CallKnows(h)'
  BY <1>16 DEF StopRow, To, Refused, End, Idle, CallTyped, CallKnows, Rows,
     rows, tunnels, links, traffic
<1>17. ASSUME NEW c \in Calls, StopRevisions(c) PROVE CallKnows(h)'
  BY <1>17 DEF StopRevisions, End, Refused, Idle, CallTyped, CallKnows,
     Rows, rows, tunnels, links, traffic
<1>18. ASSUME NEW c \in Calls, StartRollback(c) PROVE CallKnows(h)'
  BY <1>18 DEF StartRollback, Begin, CallTyped, CallKnows, Rows, rows, tunnels, links, traffic
<1>19. ASSUME NEW c \in Calls, RollRevisions(c) PROVE CallKnows(h)'
  BY <1>19 DEF RollRevisions, To, Ignored, CallTyped, CallKnows, Rows, rows,
     tunnels, links, traffic
<1>20. ASSUME NEW c \in Calls, RollRow(c) PROVE CallKnows(h)'
  BY <1>20 DEF RollRow, End, Refused, Idle, CallTyped, CallKnows, Rows,
     rows, tunnels, links, traffic
<1>21. CASE Lapse
  BY <1>21 DEF Lapse, rows, tunnels, links, traffic, CallKnows, Rows
<1>22. CASE ListTunnels \/ ReadTunnelLabel \/ ReapTunnel
  BY <1>22 DEF ListTunnels, ReadTunnelLabel, ReapTunnel, rows, tunnels, links, traffic, CallKnows, Rows
<1>23. CASE ExpireUrls
  BY <1>23 DEF ExpireUrls, rows, tunnels, links, traffic, CallKnows, Rows
<1>24. CASE UNCHANGED vars
  BY <1>24 DEF vars, rows, CallKnows, Rows
<1> QED
  BY <1>1, <1>2, <1>3, <1>4, <1>5, <1>6, <1>7, <1>8, <1>9, <1>10, <1>11,
     <1>12, <1>13, <1>14, <1>15, <1>16, <1>17, <1>18, <1>19, <1>20, <1>21,
     <1>22, <1>23, <1>24 DEF Next, Start, Deploy, Patch, UserAction,
     Background

LEMMA AlwaysTyped == Spec => []Typed
<1>1. ASSUME Typed, [Next]_vars PROVE Typed'
  BY <1>1, StepTypeOK, StepCallTyped, StepCallKnows DEF Typed
<1> QED  BY <1>1, InitTyped, PTL DEF Spec

(* The rows, the tunnels and the history always have their types.            *)
THEOREM TypeCorrect == Spec => []TypeOK
<1>1. Typed => TypeOK  BY DEF Typed
<1> QED  BY <1>1, AlwaysTyped, PTL

-----------------------------------------------------------------------------
(* One handler at a time, no failures: what a handler finds when it gets to  *)
(* each of its statements.                                                   *)

Ended(d) == status[d] \in DEPLOYMENT_TERMINAL_STATES

\* What becomes of every deployment but one: it ended, or its deployer threw.
Left(d) == Ended(d) \/ (status[d] = "deploying" /\ d \in thrown)
OneIsLeft(n) == \A d, e \in Rows \ {n} : Left(d) \/ Left(e) \/ d = e

\* Deployment d has the traffic, unless a deployer that failed has moved it.
Holds(d) == served = d \/ stray

\* At rest one deployment is active, or was to be replaced by one that threw.
Settled ==
  /\ OneIsLeft(0)
  /\ \A d \in Rows : \/ Left(d)
                     \/ status[d] = "active" /\ Holds(d)
                     \/ status[d] = "draining" /\ Holds(d) /\ created \in thrown

\* Deployment n is to replace the draining one, which still has the traffic ...
Waiting(n) ==
  /\ OneIsLeft(n)
  /\ \A d \in Rows \ {n} : Left(d) \/ (status[d] = "draining" /\ Holds(d))

\* ... and n has taken the traffic.
Replaced(n) ==
  served = n /\ ~stray /\ \A d \in Rows \ {n} : Left(d) \/ status[d] = "draining"

Expected(c) ==
  LET p == call[c].pc
      d == call[c].id
      want == call[c].want
  IN /\ p \in {"idle", "drain", "stop", "stop_revisions", "roll_revisions", "roll"} => Settled
     /\ p \in {"stop", "roll_revisions", "roll"} => ~Ended(d)
     /\ p = "insert" => Waiting(0)
     /\ p \in {"revision", "point", "run"} =>
          status[d] = "deploying" /\ Waiting(d) /\ d = created
     /\ p \in TunnelSteps \cup {"tunnel"} => want = "active"
     /\ p \in TunnelSteps \cup {"tunnel", "read", "update"} =>
          /\ want = "active" => status[d] = "deploying" /\ Replaced(d)
          /\ want = "failed" => status[d] = "deploying" /\ Waiting(d)
          /\ want = "rolled_back" => Settled /\ (p = "update" => ~Ended(d))
     /\ p \in {"revise", "settle", "lookup"} =>
          /\ status[d] = want
          /\ want = "active" => Replaced(d)
          /\ want = "failed" => Waiting(d)
          /\ want = "rolled_back" => Settled
     /\ p = "settle" => want = "active"
     /\ p = "lookup" => want # "active"
     /\ p = "restore" =>
          /\ status[call[c].found] = "draining" /\ Holds(call[c].found)
          /\ \A o \in Rows \ {call[c].found} : Left(o)

Serial ==
  Undisturbed =>
    /\ \A b, c \in Busy : b = c
    /\ \A c \in Busy : Expected(c)
    /\ Busy = {} => Settled

LEMMA Transitions ==
  /\ validateDeploymentTransition("deploying", "active")
  /\ validateDeploymentTransition("deploying", "failed")
  /\ \A s \in DEPLOYMENT_TERMINAL_STATES : ~validateDeploymentTransition(s, "rolled_back")
  BY DEF validateDeploymentTransition, VALID_DEPLOYMENT_TRANSITIONS, DeploymentStatuses,
         DEPLOYMENT_TERMINAL_STATES

LEMMA NoFault == ASSUME faults \in Nat, faults' = 0 PROVE ~Fault
  BY DEF Fault
LEMMA Moved == ASSUME CallTyped, NEW c \in Calls, NEW p, NEW q, To(c, p, q)
  PROVE /\ call[c].pc = p /\ call'[c].pc = q /\ call'[c].id = call[c].id
        /\ call'[c].want = call[c].want /\ call'[c].found = call[c].found
  BY DEF To, CallTyped
LEMMA Over == ASSUME CallTyped, NEW c \in Calls, NEW p, End(c, p)
  PROVE call[c].pc = p /\ call'[c].pc = "idle"
  BY DEF End, CallTyped, Idle

(* The rows stay settled, or waiting, while rows end and others stay.        *)
LEMMA MoreLeft ==
  ASSUME created' = created, thrown \subseteq thrown',
         \A o \in Rows : Left(o) => Left(o)',
         \A o \in Rows : Holds(o) => Holds(o)',
         \A o \in Rows : Left(o)' \/ status'[o] = status[o]
  PROVE  (Settled => Settled') /\ \A n : Waiting(n) => Waiting(n)'
<1>1. Rows' = Rows
  BY DEF Rows
<1>2. ASSUME NEW n, OneIsLeft(n) PROVE OneIsLeft(n)'
  BY <1>1, <1>2 DEF OneIsLeft
<1>3. ASSUME Settled PROVE Settled'
  <2>1. OneIsLeft(0)'
    BY <1>2, <1>3 DEF Settled
  <2>2. ASSUME NEW d \in Rows
        PROVE  (\/ Left(d)
                \/ status[d] = "active" /\ Holds(d)
                \/ status[d] = "draining" /\ Holds(d) /\ created \in thrown)'
    BY <1>3, <2>2 DEF Settled
  <2> QED  BY <1>1, <2>1, <2>2 DEF Settled
<1>4. ASSUME NEW n, Waiting(n) PROVE Waiting(n)'
  <2>1. OneIsLeft(n)'
    BY <1>2, <1>4 DEF Waiting
  <2>2. ASSUME NEW d \in Rows \ {n}
        PROVE  (Left(d) \/ (status[d] = "draining" /\ Holds(d)))'
    BY <1>4, <2>2 DEF Waiting
  <2> QED  BY <1>1, <2>1, <2>2 DEF Waiting
<1> QED  BY <1>3, <1>4

LEMMA SameRows ==
  ASSUME UNCHANGED <<created, status, traffic>>
  PROVE  /\ Settled => Settled'
         /\ \A n : (Waiting(n) => Waiting(n)') /\ (Replaced(n) => Replaced(n)')
         /\ \A n : (Ended(n)' <=> Ended(n)) /\ (Left(n)' <=> Left(n)) /\ (Holds(n)' <=> Holds(n))
<1>1. \A n : (Ended(n)' <=> Ended(n)) /\ (Left(n)' <=> Left(n)) /\ (Holds(n)' <=> Holds(n))
  BY DEF Left, Ended, Holds, traffic
<1>2. thrown' = thrown /\ served' = served /\ stray' = stray
  BY DEF traffic
<1>3. (Settled => Settled') /\ \A n : Waiting(n) => Waiting(n)'
  BY <1>1, <1>2, MoreLeft
<1>4. \A n : Replaced(n) => Replaced(n)'
  BY <1>1, <1>2 DEF Replaced, Rows
<1> QED  BY <1>1, <1>3, <1>4

LEMMA Ending ==
  ASSUME status \in [Ids -> DeploymentRow], Rows \subseteq Ids, NEW d \in Ids,
         NEW s \in DEPLOYMENT_TERMINAL_STATES, status' = [status EXCEPT ![d] = s],
         UNCHANGED <<created, traffic>>
  PROVE  Ended(d)' /\ (Settled => Settled') /\ \A n : Waiting(n) => Waiting(n)'
<1>1. thrown' = thrown /\ served' = served /\ stray' = stray
  BY DEF traffic
<1>2. status'[d] = s /\ \A o \in Rows \ {d} : status'[o] = status[o]
  OBVIOUS
<1>3. Ended(d)' /\ \A o \in Rows \ {d} : Ended(o)' <=> Ended(o)
  BY <1>2 DEF Ended
<1>4. /\ \A o \in Rows : Left(o) => Left(o)'
      /\ \A o \in Rows : Holds(o) => Holds(o)'
      /\ \A o \in Rows : Left(o)' \/ status'[o] = status[o]
  BY <1>1, <1>2, <1>3 DEF Left, Holds
<1> QED  BY <1>1, <1>3, <1>4, MoreLeft

(* A handler that runs alone finds at each statement what it expects.        *)
LEMMA StepExpected ==
  ASSUME Typed, NEW c \in Calls, Expected(c), faults' = 0,
         Deploy(c) \/ Patch(c) \/ UserAction(c)
  PROVE  Expected(c)'
<1>0. /\ CallTyped /\ CallKnows(c) /\ created \in Nat /\ faults \in Nat
      /\ status \in [Ids -> DeploymentRow] /\ Rows \subseteq Ids /\ thrown \subseteq Rows
  BY RowsAssumption DEF Typed, TypeOK, Ids, Rows
<1>1. ASSUME DrainActive(c) PROVE Expected(c)'
  <2>1. /\ To(c, "drain", "insert") /\ UNCHANGED <<created, traffic>>
        /\ status' = [d \in Ids |-> IF status[d] = "active" THEN "draining" ELSE status[d]]
    BY <1>1, <1>0, NoFault DEF DrainActive, Ignored
  <2>2. Settled
    BY <2>1, <1>0, Moved DEF Expected
  <2>3. /\ \A d \in Rows : Left(d) => Left(d)'
        /\ \A d \in Rows : Holds(d) => Holds(d)'
        /\ \A d \in Rows : status[d] \in {"active", "draining"} => status'[d] = "draining"
        /\ Rows' = Rows
    BY <2>1, <1>0 DEF Left, Ended, Holds, Rows, traffic, DEPLOYMENT_TERMINAL_STATES
  <2>4. Waiting(0)'
    BY <2>2, <2>3 DEF Settled, Waiting, OneIsLeft
  <2> QED
    BY <2>1, <2>4, <1>0, Moved DEF Expected, TunnelSteps
<1>2. ASSUME InsertDeployment(c) PROVE Expected(c)'
  <2>1. /\ call[c].pc = "insert" /\ call'[c].pc = "revision" /\ call'[c].id = created + 1
        /\ created' = created + 1 /\ UNCHANGED traffic
        /\ status' = [status EXCEPT ![created + 1] = "deploying"]
        /\ created + 1 \in Ids
    BY <1>2, <1>0, NoFault, RowsAssumption DEF InsertDeployment, Refused, CallTyped, Ids
  <2>2. Waiting(0)
    BY <2>1 DEF Expected
  <2>3. /\ \A d \in Rows' \ {created + 1} : d \in Rows \ {0} /\ status'[d] = status[d]
        /\ status'[created + 1] = "deploying"
    BY <2>1, <1>0 DEF Rows
  <2>4. \A d \in Rows' \ {created + 1} : (Left(d) => Left(d)') /\ (Holds(d) => Holds(d)')
    BY <2>1, <2>3 DEF Left, Ended, Holds, traffic
  <2>5. ASSUME NEW n, n = created + 1 PROVE Waiting(n)'
    BY <2>2, <2>3, <2>4, <2>5 DEF Waiting, OneIsLeft
  <2>6. Waiting(call[c].id)'
    BY <2>1, <2>5
  <2> QED
    BY <2>1, <2>3, <2>6 DEF Expected, TunnelSteps
<1>3. ASSUME InsertRevision(c) PROVE Expected(c)'
  <2>1. To(c, "revision", "point") /\ UNCHANGED <<created, status, traffic>>
    BY <1>3, <1>0, NoFault DEF InsertRevision, Refused, rows
  <2> QED  BY <2>1, <1>0, Moved, SameRows DEF Expected, TunnelSteps
<1>4. ASSUME PointAtRevision(c) PROVE Expected(c)'
  <2>1. To(c, "point", "run") /\ UNCHANGED <<created, status, traffic>>
    BY <1>4, <1>0, NoFault DEF PointAtRevision, Ignored
  <2> QED  BY <2>1, <1>0, Moved, SameRows DEF Expected, TunnelSteps
<1>5. ASSUME RunDeployer(c) PROVE Expected(c)'
  <2>1. call[c].pc = "run" /\ UNCHANGED <<created, status>>
    BY <1>5 DEF RunDeployer, rows
  <2>2. PICK d \in Rows : d = call[c].id /\ status[d] = "deploying" /\ Waiting(d) /\ d = created
    BY <2>1, <1>0 DEF Expected, CallKnows
  <2>3. \/ /\ served' = d /\ stray' = FALSE /\ thrown' = thrown
           /\ call'[c].pc \in {"tunnel", "read"} /\ call'[c].want = "active" /\ call'[c].id = d
        \/ /\ stray' = (stray \/ served' # served)
           /\ thrown' = thrown /\ call'[c].pc = "read" /\ call'[c].want = "failed" /\ call'[c].id = d
        \/ /\ stray' = (stray \/ served' # served)
           /\ thrown' = thrown \cup {d} /\ call'[c].pc = "idle"
    <3>1. CASE /\ served' = d /\ stray' = FALSE /\ UNCHANGED thrown
               /\ \E next \in {"tunnel", "read"} :
                    call' = [call EXCEPT ![c].pc = next, ![c].want = "active"]
      BY <1>0, <2>2, <3>1 DEF CallTyped
    <3>2. CASE /\ stray' = (stray \/ served' # served) /\ UNCHANGED thrown
               /\ call' = [call EXCEPT ![c].pc = "read", ![c].want = "failed"]
      BY <1>0, <2>2, <3>2 DEF CallTyped
    <3>3. CASE /\ stray' = (stray \/ served' # served) /\ thrown' = thrown \cup {d}
               /\ call' = [call EXCEPT ![c] = Idle]
      BY <1>0, <2>2, <3>3 DEF CallTyped, Idle
    <3> QED  BY <1>5, <2>2, <3>1, <3>2, <3>3 DEF RunDeployer
  <2>4. CASE /\ served' = d /\ stray' = FALSE /\ thrown' = thrown
             /\ call'[c].pc \in {"tunnel", "read"} /\ call'[c].want = "active" /\ call'[c].id = d
    <3>1. Rows' = Rows /\ \A o \in Rows : Left(o) => Left(o)'
      BY <2>1, <2>4 DEF Left, Ended, Rows
    <3>2. Replaced(d)'
      BY <2>1, <2>2, <2>4, <3>1 DEF Waiting, Replaced
    <3>3. Replaced(call[c].id)' /\ status'[call'[c].id] = "deploying"
      BY <2>1, <2>2, <2>4, <3>2
    <3> QED  BY <2>4, <3>3 DEF Expected, TunnelSteps
  <2>5. ASSUME stray' = (stray \/ served' # served), thrown \subseteq thrown'
        PROVE  Waiting(d)'
    <3>1. \A o \in Rows : Left(o) => Left(o)'
      BY <2>1, <2>5 DEF Left, Ended
    <3>2. \A o \in Rows : Holds(o) => Holds(o)'
      BY <2>5 DEF Holds
    <3> QED  BY <2>1, <2>2, <2>5, <3>1, <3>2, MoreLeft
  <2>6. CASE /\ stray' = (stray \/ served' # served)
             /\ thrown' = thrown /\ call'[c].pc = "read" /\ call'[c].want = "failed" /\ call'[c].id = d
    <3>1. Waiting(d)'
      BY <2>5, <2>6
    <3>2. status'[call'[c].id] = "deploying" /\ Waiting(call[c].id)'
      BY <2>1, <2>2, <2>6, <3>1
    <3> QED  BY <2>6, <3>2 DEF Expected, TunnelSteps
  <2>7. CASE /\ stray' = (stray \/ served' # served)
             /\ thrown' = thrown \cup {d} /\ call'[c].pc = "idle"
    <3>1. Waiting(d)'
      BY <2>5, <2>7
    <3>2. Left(d)' /\ created' \in thrown'
      BY <2>1, <2>2, <2>7 DEF Left
    <3>3. Settled'
      BY <3>1, <3>2 DEF Settled, Waiting, OneIsLeft
    <3> QED  BY <2>7, <3>3 DEF Expected, TunnelSteps
  <2> QED  BY <2>3, <2>4, <2>6, <2>7
<1>6. ASSUME Tunnel(c) PROVE Expected(c)'
  <2>1. /\ call[c].pc \in TunnelSteps \cup {"tunnel"} /\ UNCHANGED <<created, status, traffic>>
        /\ call'[c].pc \in TunnelSteps \cup {"read"}
        /\ call'[c].id = call[c].id /\ call'[c].want = call[c].want
    BY <1>6, TunnelStep DEF rows
  <2> QED  BY <2>1, SameRows DEF Expected, TunnelSteps
<1>7. ASSUME ReadRow(c) PROVE Expected(c)'
  <2> DEFINE d == call[c].id
             allowed == validateDeploymentTransition(status[d], call[c].want)
  <2>1. /\ (To(c, "read", "update") /\ allowed) \/ (End(c, "read") /\ ~allowed)
        /\ UNCHANGED <<created, status, traffic>>
    BY <1>7, <1>0, NoFault DEF ReadRow, Refused, rows
  <2>2. call[c].pc = "read" /\ call[c].want \in Outcomes /\ d \in Rows
    BY <2>1, <1>0, Moved, Over DEF CallKnows
  <2>3. CASE call[c].want \in {"active", "failed"}
    <3>1. status[d] = "deploying"
      BY <2>2, <2>3 DEF Expected
    <3>2. To(c, "read", "update")
      BY <2>1, <2>3, <3>1, Transitions
    <3> QED  BY <2>1, <2>2, <2>3, <3>1, <3>2, <1>0, Moved, SameRows DEF Expected, TunnelSteps
  <2>4. CASE call[c].want = "rolled_back"
    <3>1. Settled
      BY <2>2, <2>4 DEF Expected
    <3>2. Settled'
      BY <2>1, <3>1, SameRows
    <3>3. CASE ~allowed
      <4>1. call'[c].pc = "idle"
        BY <2>1, <3>3, <1>0, Over
      <4> QED  BY <3>2, <4>1 DEF Expected, TunnelSteps
    <3>4. CASE allowed
      <4>1. ~Ended(d)
        BY <2>4, <3>4, Transitions DEF Ended
      <4>2. To(c, "read", "update")
        BY <2>1, <3>4
      <4>3. call'[c].pc = "update" /\ call'[c].id = d /\ call'[c].want = "rolled_back"
        BY <2>4, <4>2, <1>0, Moved
      <4>4. ~Ended(call[c].id)'
        BY <2>1, <4>1, <4>3 DEF Ended
      <4> QED  BY <3>2, <4>3, <4>4 DEF Expected, TunnelSteps
    <3> QED  BY <3>3, <3>4
  <2> QED  BY <2>2, <2>3, <2>4 DEF Outcomes
<1>8. ASSUME UpdateRow(c) PROVE Expected(c)'
  <2>1. /\ To(c, "update", "revise") /\ UNCHANGED <<created, traffic>>
        /\ status' = [status EXCEPT ![call[c].id] = call[c].want]
    BY <1>8, <1>0, NoFault DEF UpdateRow, Refused
  <2>2. /\ call[c].pc = "update" /\ call'[c].pc = "revise"
        /\ call'[c].id = call[c].id /\ call'[c].want = call[c].want
        /\ call[c].want \in Outcomes /\ call[c].id \in Rows
    BY <2>1, <1>0, Moved DEF CallKnows
  <2>3. PICK d \in Ids : d = call[c].id
    BY <1>0, <2>2
  <2>4. status'[d] = call[c].want
    BY <2>1, <2>3, <1>0
  <2>5. CASE call[c].want = "active"
    <3>1. Replaced(d)
      BY <2>2, <2>3, <2>5 DEF Expected
    <3>2. \A o \in Rows \ {d} : status'[o] = status[o]
      BY <2>1, <2>3, <1>0
    <3>3. Replaced(d)'
      BY <2>1, <3>1, <3>2 DEF Replaced, Left, Ended, Rows, traffic
    <3>4. Replaced(call[c].id)'
      BY <2>2, <2>3, <3>3
    <3> QED  BY <2>2, <2>3, <2>4, <2>5, <3>4 DEF Expected, TunnelSteps
  <2>6. CASE call[c].want \in {"failed", "rolled_back"}
    <3>1. call[c].want \in DEPLOYMENT_TERMINAL_STATES
      BY <2>6 DEF DEPLOYMENT_TERMINAL_STATES
    <3>2. (Settled => Settled') /\ (Waiting(d) => Waiting(d)')
      BY <1>0, <2>1, <2>3, <3>1, Ending
    <3>3. Waiting(d) => Waiting(call[c].id)'
      BY <2>2, <2>3, <3>2
    <3> QED  BY <2>2, <2>3, <2>4, <2>6, <3>2, <3>3 DEF Expected, TunnelSteps
  <2> QED  BY <2>2, <2>5, <2>6 DEF Outcomes
<1>9. ASSUME ReviseRow(c) PROVE Expected(c)'
  <2>1. /\ To(c, "revise", IF call[c].want = "active" THEN "settle" ELSE "lookup")
        /\ UNCHANGED <<created, status, traffic>>
    BY <1>9, <1>0, NoFault DEF ReviseRow, Ignored
  <2> QED  BY <2>1, <1>0, Moved, SameRows DEF Expected, TunnelSteps
<1>10. ASSUME StopDraining(c) PROVE Expected(c)'
  <2> DEFINE d == call[c].id
  <2>1. /\ End(c, "settle") /\ UNCHANGED <<created, traffic>>
        /\ status' = [o \in Ids |-> IF o \in Draining(d) THEN "stopped" ELSE status[o]]
    BY <1>10, <1>0, NoFault DEF StopDraining, Refused
  <2>2. status[d] = "active" /\ Replaced(d) /\ d \in Rows
    BY <2>1, <1>0, Over DEF Expected, CallKnows
  <2>3. Rows' = Rows /\ \A o \in Rows : (Left(o) => Left(o)') /\ (Holds(o) => Holds(o)')
    BY <2>1, <1>0
       DEF Left, Ended, Holds, Draining, Rows, traffic, DEPLOYMENT_TERMINAL_STATES
  <2>4. \A o \in Rows : o # d => Left(o)'
    BY <2>1, <2>2, <2>3, <1>0 DEF Replaced, Left, Ended, Draining, DEPLOYMENT_TERMINAL_STATES
  <2>5. status'[d] = "active" /\ \A o \in Rows : o = d => Holds(o)'
    BY <2>1, <2>2, <1>0 DEF Replaced, Holds, Draining, traffic
  <2>6. Settled'
    BY <2>2, <2>3, <2>4, <2>5 DEF Settled, OneIsLeft
  <2>7. call'[c].pc = "idle"
    BY <2>1, <1>0, Over
  <2> QED  BY <2>6, <2>7 DEF Expected, TunnelSteps
<1>11. ASSUME LookupPrevious(c) PROVE Expected(c)'
  <2> DEFINE d == call[c].id
  <2>1. /\ call[c].pc = "lookup" /\ UNCHANGED <<created, status, traffic>>
        /\ \/ End(c, "lookup") /\ Draining(d) = {}
           \/ \E newest \in Draining(d) :
                call' = [call EXCEPT ![c].pc = "restore", ![c].found = newest]
    BY <1>11, <1>0, NoFault, Over DEF LookupPrevious, Refused, rows
  <2>2. call[c].want \in {"failed", "rolled_back"} /\ status[d] = call[c].want /\ Ended(d)
    <3>1. call[c].want \in Outcomes
      BY <2>1, <1>0 DEF CallKnows
    <3>2. status[d] = call[c].want /\ call[c].want # "active"
      BY <2>1 DEF Expected
    <3> QED  BY <3>1, <3>2 DEF Outcomes, Ended, DEPLOYMENT_TERMINAL_STATES
  <2>3. Waiting(d) \/ Settled
    BY <2>1, <2>2 DEF Expected
  <2>4. Left(d)
    BY <2>2 DEF Left
  <2>5. OneIsLeft(0)
    BY <2>3, <2>4 DEF Settled, Waiting, OneIsLeft
  <2>6. CASE End(c, "lookup") /\ Draining(d) = {}
    <3>1. \A o \in Rows \ {d} : status[o] # "draining"
      BY <2>6 DEF Draining
    <3>2. Settled
      BY <2>3, <2>4, <2>5, <3>1 DEF Settled, Waiting
    <3>3. Settled' /\ call'[c].pc = "idle"
      BY <2>1, <2>6, <3>2, <1>0, Over, SameRows
    <3> QED  BY <3>3 DEF Expected, TunnelSteps
  <2>7. ASSUME NEW newest \in Draining(d),
               call' = [call EXCEPT ![c].pc = "restore", ![c].found = newest]
        PROVE  Expected(c)'
    <3>1. call'[c].pc = "restore" /\ call'[c].found = newest
      BY <2>7, <1>0 DEF CallTyped
    <3>2. newest \in Rows /\ status[newest] = "draining" /\ newest # d
      BY DEF Draining
    <3>3. ~Left(newest)
      BY <3>2 DEF Left, Ended, DEPLOYMENT_TERMINAL_STATES
    <3>4. Holds(newest) /\ \A o \in Rows \ {newest} : Left(o)
      <4>1. Holds(newest)
        BY <2>3, <3>2, <3>3 DEF Settled, Waiting
      <4>2. \A o \in Rows \ {newest} : Left(o)
        BY <1>0, <2>5, <3>2, <3>3 DEF OneIsLeft, Rows
      <4> QED  BY <4>1, <4>2
    <3>5. /\ status'[call'[c].found] = "draining" /\ Holds(call[c].found)'
          /\ Rows' = Rows /\ \A o \in Rows \ {newest} : Left(o)'
      BY <2>1, <3>1, <3>2, <3>4, SameRows DEF Rows, Holds, traffic
    <3> QED  BY <3>1, <3>5 DEF Expected, TunnelSteps
  <2> QED  BY <2>1, <2>6, <2>7
<1>12. ASSUME RestorePrevious(c) PROVE Expected(c)'
  <2> DEFINE d == call[c].found
  <2>1. /\ End(c, "restore") /\ UNCHANGED <<created, traffic>>
        /\ status' = [status EXCEPT ![d] = "active"]
    BY <1>12, <1>0, NoFault DEF RestorePrevious, Refused
  <2>2. Holds(d) /\ d \in Rows /\ \A o \in Rows \ {d} : Left(o)
    BY <2>1, <1>0, Over DEF Expected, CallKnows
  <2>3. Rows' = Rows /\ \A o \in Rows \ {d} : Left(o)'
    BY <2>1, <2>2, <1>0 DEF Left, Ended, Rows, traffic
  <2>4. status'[d] = "active" /\ \A o \in Rows : o = d => Holds(o)'
    BY <2>1, <2>2, <1>0 DEF Holds, traffic
  <2>5. Settled'
    BY <2>3, <2>4 DEF Settled, OneIsLeft
  <2>6. call'[c].pc = "idle"
    BY <2>1, <1>0, Over
  <2> QED  BY <2>5, <2>6 DEF Expected, TunnelSteps
<1>13. ASSUME StopRow(c) PROVE Expected(c)'
  <2>1. /\ To(c, "stop", "stop_revisions") /\ UNCHANGED <<created, traffic>>
        /\ status' = [status EXCEPT ![call[c].id] = "stopped"]
    BY <1>13, <1>0, NoFault DEF StopRow, Refused
  <2>2. Settled /\ call[c].id \in Rows /\ call'[c].pc = "stop_revisions"
    BY <2>1, <1>0, Moved DEF Expected, CallKnows
  <2>3. "stopped" \in DEPLOYMENT_TERMINAL_STATES
    BY DEF DEPLOYMENT_TERMINAL_STATES
  <2>4. Settled'
    BY <2>1, <2>2, <2>3, <1>0, Ending
  <2> QED  BY <2>2, <2>4 DEF Expected, TunnelSteps
<1>14. ASSUME StopRevisions(c) PROVE Expected(c)'
  <2>1. End(c, "stop_revisions") /\ UNCHANGED <<created, status, traffic>>
    BY <1>14, <1>0, NoFault DEF StopRevisions, Refused
  <2>2. Settled /\ call'[c].pc = "idle"
    BY <2>1, <1>0, Over DEF Expected
  <2> QED  BY <2>1, <2>2, SameRows DEF Expected, TunnelSteps
<1>15. ASSUME RollRevisions(c) PROVE Expected(c)'
  <2>1. To(c, "roll_revisions", "roll") /\ UNCHANGED <<created, status, traffic>>
    BY <1>15, <1>0, NoFault DEF RollRevisions, Ignored
  <2> QED  BY <2>1, <1>0, Moved, SameRows DEF Expected, TunnelSteps
<1>16. ASSUME RollRow(c) PROVE Expected(c)'
  <2>1. /\ End(c, "roll") /\ UNCHANGED <<created, traffic>>
        /\ status' = [status EXCEPT ![call[c].id] = "rolled_back"]
    BY <1>16, <1>0, NoFault DEF RollRow, Refused
  <2>2. Settled /\ call[c].id \in Rows /\ call'[c].pc = "idle"
    BY <2>1, <1>0, Over DEF Expected, CallKnows
  <2>3. "rolled_back" \in DEPLOYMENT_TERMINAL_STATES
    BY DEF DEPLOYMENT_TERMINAL_STATES
  <2>4. Settled'
    BY <2>1, <2>2, <2>3, <1>0, Ending
  <2> QED  BY <2>2, <2>4 DEF Expected, TunnelSteps
<1> QED
  BY <1>1, <1>2, <1>3, <1>4, <1>5, <1>6, <1>7, <1>8, <1>9, <1>10, <1>11,
     <1>12, <1>13, <1>14, <1>15, <1>16 DEF Deploy, Patch, UserAction

(* A statement of handler c is c's own, and c was in progress.               *)
LEMMA OwnStep ==
  ASSUME Typed, NEW c \in Calls, Deploy(c) \/ Patch(c) \/ UserAction(c)
  PROVE  /\ call[c].pc # "idle" /\ overlaps' = overlaps /\ faults' >= faults
         /\ \A b \in Calls \ {c} : call'[b] = call[b]
<1>0. CallTyped /\ faults \in Nat
  BY RowsAssumption DEF Typed, TypeOK
<1>1. ASSUME Deploy(c)
      PROVE  /\ call[c].pc # "idle" /\ overlaps' = overlaps /\ faults' >= faults
             /\ \A b \in Calls \ {c} : call'[b] = call[b]
  <2>1. CASE Tunnel(c)
    <3>1. /\ call[c].pc # "idle" /\ overlaps' = overlaps /\ faults' = faults
          /\ \A b \in Calls \ {c} : call'[b] = call[b]
      BY <2>1, TunnelStep DEF TunnelSteps
    <3> QED  BY <1>0, <3>1
  <2>2. CASE ~Tunnel(c)
    BY <1>0, <1>1, <2>2 DEF Deploy, DrainActive, InsertDeployment, InsertRevision, PointAtRevision,
       RunDeployer, To, End, Refused, Ignored, Fault, CallTyped, Idle
  <2> QED  BY <2>1, <2>2
<1>2. ASSUME Patch(c)
      PROVE  /\ call[c].pc # "idle" /\ overlaps' = overlaps /\ faults' >= faults
             /\ \A b \in Calls \ {c} : call'[b] = call[b]
  BY <1>0, <1>2 DEF Patch, ReadRow, UpdateRow, ReviseRow, StopDraining, LookupPrevious, RestorePrevious,
              To, End, Refused, Ignored, Fault, CallTyped
<1>3. ASSUME UserAction(c)
      PROVE  /\ call[c].pc # "idle" /\ overlaps' = overlaps /\ faults' >= faults
             /\ \A b \in Calls \ {c} : call'[b] = call[b]
  BY <1>0, <1>3 DEF UserAction, StopRow, StopRevisions, RollRevisions, RollRow,
              To, End, Refused, Ignored, Fault, CallTyped
<1> QED  BY <1>1, <1>2, <1>3

(* A handler that begins alone finds the rows settled.                       *)
LEMMA StartExpected ==
  ASSUME Typed, Serial, NEW c \in Calls, Start(c), Undisturbed'
  PROVE  Undisturbed /\ Busy = {} /\ Busy' = {c} /\ Expected(c)'
<1>0. CallTyped /\ overlaps \in Nat
  BY RowsAssumption DEF Typed, TypeOK
<1>1. PICK k, p, d, w : Begin(c, k, p, d, w)
  BY DEF Start, StartDeploy, StartHeal, StartStop, StartRollback
<1>2. Undisturbed /\ Busy = {} /\ UNCHANGED <<created, status, traffic>>
  BY <1>0, <1>1 DEF Begin, Undisturbed, rows
<1>3. Settled
  BY <1>2 DEF Serial
<1>4. \A b \in Calls : call[b].pc = "idle"
  BY <1>2 DEF Busy
<1>5. /\ call'[c].pc \in {"drain", "read", "stop", "roll_revisions"}
      /\ call'[c].pc = "read" => call'[c].want = "rolled_back"
      /\ call'[c].pc \in {"stop", "roll_revisions"} => ~Ended(call'[c].id)
  <2>1. CASE StartDeploy(c)
    BY <2>1, <1>0 DEF StartDeploy, Begin, CallTyped
  <2>2. CASE StartHeal(c)
    BY <2>2, <1>0 DEF StartHeal, Begin, CallTyped
  <2>3. CASE StartStop(c)
    BY <2>3, <1>0 DEF StartStop, Begin, CallTyped, Ended, DEPLOYMENT_TERMINAL_STATES
  <2>4. CASE StartRollback(c)
    BY <2>4, <1>0 DEF StartRollback, Begin, CallTyped, Ended, DEPLOYMENT_TERMINAL_STATES
  <2> QED  BY <2>1, <2>2, <2>3, <2>4 DEF Start
<1>6. \A b \in Calls \ {c} : call'[b] = call[b]
  BY <1>0, <1>1 DEF Begin, CallTyped
<1>7. Busy' = {c}
  BY <1>4, <1>5, <1>6 DEF Busy
<1>8. Settled' /\ (call'[c].pc \in {"stop", "roll_revisions"} => ~Ended(call[c].id)')
  BY <1>2, <1>3, <1>5, SameRows DEF Ended
<1>9. Expected(c)'
  BY <1>5, <1>8 DEF Expected, TunnelSteps
<1> QED  BY <1>2, <1>7, <1>9

LEMMA SerialStep == ASSUME Typed, Serial, [Next]_vars PROVE Serial'
<1>0. CallTyped /\ overlaps \in Nat /\ faults \in Nat
  BY RowsAssumption DEF Typed, TypeOK
<1> SUFFICES ASSUME Undisturbed'
             PROVE  /\ \A b, c \in Busy' : b = c
                    /\ \A c \in Busy' : Expected(c)'
                    /\ Busy' = {} => Settled'
  BY DEF Serial
<1>1. ASSUME NEW c \in Calls, Start(c)
      PROVE  Busy' = {c} /\ Expected(c)'
  BY <1>1, StartExpected
<1>2. ASSUME NEW c \in Calls, Deploy(c) \/ Patch(c) \/ UserAction(c)
      PROVE  Busy' \subseteq {c} /\ Expected(c)' /\ (Busy' = {} => Settled')
  <2>1. /\ call[c].pc # "idle" /\ overlaps' = overlaps /\ faults' >= faults
        /\ \A b \in Calls \ {c} : call'[b] = call[b]
    BY <1>2, OwnStep
  <2>2. Undisturbed /\ faults' = 0
    BY <1>0, <2>1 DEF Undisturbed
  <2>3. Busy = {c} /\ Expected(c)
    BY <2>1, <2>2 DEF Serial, Busy
  <2>4. Expected(c)'
    BY <1>2, <2>2, <2>3, StepExpected
  <2>5. Busy' \subseteq {c}
    BY <2>1, <2>3 DEF Busy
  <2>6. Busy' = {} => call'[c].pc = "idle"
    BY DEF Busy
  <2> QED  BY <2>4, <2>5, <2>6 DEF Expected
<1>3. CASE Background \/ UNCHANGED vars
  <2>1. UNCHANGED <<created, status, traffic, call, overlaps, faults>>
    BY <1>3 DEF Background, Lapse, ListTunnels, ReadTunnelLabel, ReapTunnel, ExpireUrls, vars, rows
  <2>2. Undisturbed /\ Busy' = Busy
    BY <2>1 DEF Undisturbed, Busy
  <2>3. \A c \in Busy : Expected(c)'
    <3> SUFFICES ASSUME NEW c \in Busy PROVE Expected(c)'
      OBVIOUS
    <3>1. Expected(c) /\ call'[c] = call[c]
      BY <2>1, <2>2 DEF Serial
    <3>2. /\ Settled => Settled'
          /\ Waiting(0) => Waiting(0)'
          /\ Waiting(call[c].id) => Waiting(call[c].id)'
          /\ Replaced(call[c].id) => Replaced(call[c].id)'
          /\ Ended(call[c].id)' <=> Ended(call[c].id)
          /\ Holds(call[c].found)' <=> Holds(call[c].found)
      BY <2>1, SameRows
    <3>3. (\A o \in Rows \ {call[c].found} : Left(o)) =>
             (\A o \in Rows \ {call[c].found} : Left(o))'
      BY <2>1, SameRows DEF Rows
    <3> QED  BY <2>1, <3>1, <3>2, <3>3 DEF Expected, TunnelSteps
  <2>4. Busy = {} => Settled'
    BY <2>1, <2>2, SameRows DEF Serial
  <2> QED  BY <2>2, <2>3, <2>4 DEF Serial
<1> QED  BY <1>1, <1>2, <1>3 DEF Next

LEMMA AlwaysSerial == Spec => []Serial
<1>1. Init => Serial
  BY DEF Init, Serial, Busy, Idle, Settled, OneIsLeft, Rows
<1> QED  BY <1>1, SerialStep, AlwaysTyped, PTL DEF Spec

(* Handlers that never overlap and never fail leave one active deployment,   *)
(* whoever runs them and in whatever order.                                  *)
THEOREM OneActiveDeployment == Spec => []OneActive
<1>1. Typed /\ Serial => OneActive
  <2> SUFFICES ASSUME Typed, Serial, Undisturbed
               PROVE  Cardinality({d \in Rows : status[d] = "active"}) <= 1
    BY DEF OneActive
  <2> DEFINE A == {d \in Rows : status[d] = "active"}
  <2>0. /\ \A d \in A : d \in Rows /\ ~Left(d)
        /\ Settled => \E x : A \subseteq {x}
    <3>1. \A d \in A : d \in Rows /\ ~Left(d)
      BY DEF Left, Ended, DEPLOYMENT_TERMINAL_STATES
    <3>2. 0 \notin Rows
      BY DEF Rows
    <3>3. Settled => \A d, e \in A : d = e
      BY <3>1, <3>2 DEF Settled, OneIsLeft
    <3>4. (\A d, e \in A : d = e) => \E x : A \subseteq {x}
      <4>1. CASE A = {}
        BY <4>1
      <4>2. ASSUME NEW e \in A, \A x, y \in A : x = y PROVE A \subseteq {e}
        BY <4>2
      <4> QED  BY <4>1, <4>2
    <3> QED  BY <3>1, <3>3, <3>4
  <2>1. \E x : A \subseteq {x}
    <3>1. CASE Busy = {}
      BY <2>0, <3>1 DEF Serial
    <3>2. ASSUME NEW c \in Busy PROVE \E x : A \subseteq {x}
      <4>1. Expected(c) /\ CallTyped
        BY DEF Serial, Typed
      <4>2. CASE \E n : Waiting(n)
        BY <2>0, <4>2 DEF Waiting
      <4>3. CASE \E n : Replaced(n)
        BY <2>0, <4>3 DEF Replaced
      <4>4. CASE Settled
        BY <2>0, <4>4
      <4>5. CASE \A o \in Rows \ {call[c].found} : Left(o)
        BY <2>0, <4>5
      <4>6. \/ \E n : Waiting(n)
            \/ \E n : Replaced(n)
            \/ Settled
            \/ \A o \in Rows \ {call[c].found} : Left(o)
        <5>1. call[c].pc \in Steps /\ CallKnows(c)
          BY <4>1 DEF CallTyped, Typed, Busy
        <5> QED  BY <4>1, <5>1 DEF Expected, Steps, TunnelSteps, CallKnows, Outcomes
      <4> QED  BY <4>2, <4>3, <4>4, <4>5, <4>6
    <3> QED  BY <3>1, <3>2
  <2>2. PICK x : A \subseteq {x}
    BY <2>1
  <2>3. Cardinality({x}) = 1 /\ IsFiniteSet({x})
    BY FS_Singleton
  <2>4. Cardinality(A) <= Cardinality({x})
    BY <2>2, <2>3, FS_Subset
  <2> QED  BY <2>3, <2>4
<1> QED  BY <1>1, AlwaysTyped, AlwaysSerial, PTL

(* ... and between them the active deployment is the one that is served,     *)
(* whatever the deployers that failed or threw have done to the traffic      *)
(* before the last that succeeded.                                           *)
THEOREM ActiveDeploymentIsServed == Spec => []ActiveIsServed
<1>1. Serial => ActiveIsServed
  <2> SUFFICES ASSUME Serial, AtRest, ~stray, NEW d \in Rows, status[d] = "active"
               PROVE  served = d
    BY DEF ActiveIsServed
  <2>1. Settled /\ ~Left(d)
    BY DEF Serial, AtRest, Left, Ended, DEPLOYMENT_TERMINAL_STATES
  <2> QED  BY <2>1 DEF Settled, Holds
<1> QED  BY <1>1, AlwaysSerial, PTL

(* ... and none is left half way, but by a deployer that threw.              *)
THEOREM NothingHalfWay == Spec => []OutcomesAreSettled
<1>1. Serial => OutcomesAreSettled
  <2> SUFFICES ASSUME Serial, AtRest, NEW d \in Rows
               PROVE  /\ status[d] = "deploying" => d \in thrown
                      /\ status[d] = "draining" => created \in thrown
    BY DEF OutcomesAreSettled
  <2>1. Settled
    BY DEF Serial, AtRest
  <2>2. \/ Left(d)
        \/ status[d] = "active"
        \/ status[d] = "draining" /\ created \in thrown
    BY <2>1 DEF Settled
  <2> QED  BY <2>2 DEF Left, Ended, DEPLOYMENT_TERMINAL_STATES
<1> QED  BY <1>1, AlwaysSerial, PTL

(* With one handler at a time no deployment comes back from its end.         *)
THEOREM EndedDeploymentsStayEnded == Spec => EndedStaysEnded
<1> DEFINE Stays == \A d \in Rows : Ended(d) => status'[d] = status[d]
<1>1. ASSUME Typed, Serial, [Next]_vars, Undisturbed'
      PROVE  Stays
  <2>0. CallTyped /\ faults \in Nat /\ created \in Nat /\ status \in [Ids -> DeploymentRow]
        /\ Rows \subseteq Ids
    BY <1>1, RowsAssumption DEF Typed, TypeOK, Ids, Rows
  <2>1. ASSUME NEW c \in Calls, Start(c) PROVE Stays
    BY <2>1 DEF Start, StartDeploy, StartHeal, StartStop, StartRollback, Begin, rows
  <2>2. ASSUME NEW c \in Calls, Deploy(c) \/ Patch(c) \/ UserAction(c) PROVE Stays
    <3>1. Expected(c) /\ faults' = 0
      BY <1>1, <2>0, <2>2, OwnStep DEF Serial, Undisturbed, Busy
    <3>2. ~Fault
      BY <2>0, <3>1, NoFault
    <3>3. CASE DrainActive(c)
      BY <3>3, <3>2, <2>0 DEF DrainActive, Ignored, Ended, DEPLOYMENT_TERMINAL_STATES
    <3>4. CASE InsertDeployment(c)
      BY <3>4, <3>2, <2>0 DEF InsertDeployment, Refused, Rows
    <3>5. CASE UpdateRow(c)
      <4>1. /\ call[c].pc = "update"
            /\ status' = [status EXCEPT ![call[c].id] = call[c].want]
        BY <3>5, <3>2, <2>0, Moved DEF UpdateRow, Refused
      <4>2. call[c].want \in Outcomes
        BY <1>1, <4>1 DEF Typed, CallKnows
      <4>3. ~Ended(call[c].id)
        BY <3>1, <4>1, <4>2 DEF Expected, Outcomes, Ended, DEPLOYMENT_TERMINAL_STATES
      <4> QED  BY <4>1, <4>3, <2>0
    <3>6. CASE StopDraining(c)
      BY <3>6, <3>2, <2>0 DEF StopDraining, Refused, Draining, Ended, DEPLOYMENT_TERMINAL_STATES
    <3>7. CASE RestorePrevious(c)
      <4>1. /\ call[c].pc = "restore"
            /\ status' = [status EXCEPT ![call[c].found] = "active"]
        BY <3>7, <3>2, <2>0, Over DEF RestorePrevious, Refused
      <4>2. ~Ended(call[c].found)
        BY <3>1, <4>1 DEF Expected, Ended, DEPLOYMENT_TERMINAL_STATES
      <4> QED  BY <4>1, <4>2, <2>0
    <3>8. CASE StopRow(c) \/ RollRow(c)
      <4>1. /\ call[c].pc \in {"stop", "roll"}
            /\ \E s : status' = [status EXCEPT ![call[c].id] = s]
        BY <3>8, <3>2, <2>0, Moved, Over DEF StopRow, RollRow, Refused
      <4>2. ~Ended(call[c].id)
        BY <3>1, <4>1 DEF Expected, Ended, DEPLOYMENT_TERMINAL_STATES
      <4> QED  BY <4>1, <4>2, <2>0
    <3>9. CASE \/ InsertRevision(c) \/ PointAtRevision(c) \/ RunDeployer(c)
               \/ ReadRow(c) \/ ReviseRow(c) \/ LookupPrevious(c)
               \/ StopRevisions(c) \/ RollRevisions(c)
      BY <3>9 DEF InsertRevision, PointAtRevision, RunDeployer, ReadRow, ReviseRow,
                  LookupPrevious, StopRevisions, RollRevisions, Refused, Ignored, rows
    <3>10. CASE Tunnel(c)
      BY <3>10, TunnelStep, <1>1 DEF rows
    <3> QED
      BY <3>10, <2>2, <3>3, <3>4, <3>5, <3>6, <3>7, <3>8, <3>9 DEF Deploy, Patch, UserAction
  <2>3. CASE Background \/ UNCHANGED vars
    BY <2>3 DEF Background, Lapse, ListTunnels, ReadTunnelLabel, ReapTunnel, ExpireUrls, vars, rows
  <2> QED  BY <1>1, <2>1, <2>2, <2>3 DEF Next
<1>2. Typed /\ Serial /\ [Next]_vars =>
        [Undisturbed' => \A d \in Rows :
            status[d] \in DEPLOYMENT_TERMINAL_STATES => status'[d] = status[d]]_vars
  BY <1>1 DEF Left, Ended, OneIsLeft, Holds, traffic
<1> QED  BY <1>2, AlwaysTyped, AlwaysSerial, PTL DEF Spec, EndedStaysEnded

-----------------------------------------------------------------------------
(* Links.  While nobody handles the tunnel in the middle of another, the     *)
(* handler that does knows what is running, whatever the others do.          *)

\* A link is the address of a tunnel, with the expiry of that tunnel.
Sound(l) == l = NoLink \/ (l.at = l.until /\ l.at # 0)
Spent(l) == l = NoLink \/ Expired(l)

\* The links that are shown, and those that handlers bring.
AllSound == (\A d \in Ids : Sound(url[d])) /\ \A c \in Calls \ Tunneling : Sound(call[c].link)
AllWork  == (\A d \in Ids : Works(url[d])) /\ \A c \in Calls \ Tunneling : Works(call[c].link)
AllSpent == (\A d \in Ids : Spent(url[d])) /\ \A c \in Calls \ Tunneling : Spent(call[c].link)

InTunnel(c) ==
  /\ call[c].pc \in {"logs", "wait"} => running # 0 /\ call[c].link = [at |-> 0, until |-> running]
  /\ call[c].pc = "start" => running = 0

Orderly ==
  ~crossed =>
    /\ \A b, c \in Tunneling : b = c
    /\ reaper # "idle" => Tunneling = {}
    /\ reaper = "armed" => running = 0 \/ running \in lapsed
    /\ AllSound
    /\ \A c \in Calls : InTunnel(c)

\* Where no address was overlooked, a tunnel is only removed when no link that
\* anyone has is of use any more.
Useful ==
  ~crossed /\ ~unread =>
    /\ AllWork
    /\ \A c \in Calls : call[c].pc = "clear" => running = 0 \/ running \in lapsed
    /\ \A c \in Calls : call[c].pc \in {"start", "wait", "undo"} =>
         AllSpent

(* What is not a step of ensurePublicTunnel or of the reaper takes no tunnel  *)
(* away, and brings no link that was not there.                              *)
Outside ==
  /\ UNCHANGED <<tunnel, running, reaper, crossed, unread>> /\ lapsed \subseteq lapsed'
  /\ Tunneling' = Tunneling
  /\ \A c \in Tunneling : call'[c] = call[c]
  /\ \A c \in Calls \ Tunneling : call'[c].link \in {NoLink, call[c].link}
  /\ \A d \in Ids : \/ url'[d] \in {NoLink, url[d]}
                    \/ \E c \in Calls \ Tunneling : url'[d] = call[c].link

LEMMA OutsideStart == ASSUME Typed, NEW c \in Calls, Start(c) PROVE Outside
<1>0. CallTyped
  BY DEF Typed
<1>1. PICK k, p, d, w : Begin(c, k, p, d, w) /\ p \in {"drain", "read", "stop", "roll_revisions"}
  BY DEF Start, StartDeploy, StartHeal, StartStop, StartRollback
<1>2. /\ call[c].pc = "idle" /\ call'[c].pc = p /\ call'[c].link = NoLink
      /\ \A b \in Calls \ {c} : call'[b] = call[b]
      /\ UNCHANGED <<tunnels, url>>
  BY <1>0, <1>1 DEF Begin, CallTyped, rows
<1> QED  BY <1>1, <1>2 DEF Outside, Tunneling, tunnels, links

LEMMA OutsideHandler ==
  ASSUME Typed, NEW c \in Calls, Deploy(c) \/ Patch(c) \/ UserAction(c), ~Tunnel(c)
  PROVE  Outside
<1>0. CallTyped /\ url \in [Ids -> Links] /\ Rows \subseteq Ids
  BY RowsAssumption DEF Typed, TypeOK, Ids, Rows
<1>1. /\ UNCHANGED tunnels
      /\ call[c].pc \notin TunnelSteps /\ call'[c].pc \notin TunnelSteps
      /\ call'[c].link \in {NoLink, call[c].link}
      /\ \A b \in Calls \ {c} : call'[b] = call[b]
  <2>1. CASE Deploy(c)
    BY <1>0, <2>1 DEF Deploy, DrainActive, InsertDeployment, InsertRevision, PointAtRevision,
       RunDeployer, To, End, Refused, Ignored, Idle, CallTyped, TunnelSteps
  <2>2. CASE Patch(c)
    BY <1>0, <2>2 DEF Patch, ReadRow, UpdateRow, ReviseRow, StopDraining, LookupPrevious,
       RestorePrevious, To, End, Refused, Ignored, Idle, CallTyped, TunnelSteps
  <2>3. CASE UserAction(c)
    BY <1>0, <2>3 DEF UserAction, StopRow, StopRevisions, RollRevisions, RollRow,
       To, End, Refused, Ignored, Idle, CallTyped, TunnelSteps
  <2> QED  BY <2>1, <2>2, <2>3
<1>2. \A d \in Ids : url'[d] \in {NoLink, url[d], call[c].link}
  <2>1. CASE UpdateRow(c)
    BY <1>0, <2>1 DEF UpdateRow, Refused, rows
  <2>2. CASE StopDraining(c) \/ StopRow(c)
    BY <1>0, <2>2 DEF StopDraining, StopRow, Refused, rows
  <2>3. CASE ~UpdateRow(c) /\ ~StopDraining(c) /\ ~StopRow(c)
    <3>1. url' = url
      BY <2>3 DEF Deploy, Patch, UserAction, DrainActive, InsertDeployment, InsertRevision,
         PointAtRevision, RunDeployer, ReadRow, ReviseRow, LookupPrevious, RestorePrevious,
         StopRevisions, RollRevisions, RollRow, Refused, Ignored, rows
    <3> QED  BY <3>1
  <2> QED  BY <2>1, <2>2, <2>3
<1>3. Tunneling' = Tunneling /\ c \in Calls \ Tunneling /\ \A b \in Tunneling : b # c
  BY <1>1 DEF Tunneling, TunnelSteps
<1>4. UNCHANGED <<tunnel, running, reaper, crossed, unread, lapsed>>
  BY <1>1 DEF tunnels, links
<1>5. /\ \A b \in Tunneling : call'[b] = call[b]
      /\ \A b \in Calls \ Tunneling : call'[b].link \in {NoLink, call[b].link}
  BY <1>1, <1>3 DEF Tunneling
<1>6. \A d \in Ids : \/ url'[d] \in {NoLink, url[d]}
                    \/ \E b \in Calls \ Tunneling : url'[d] = call[b].link
  BY <1>2, <1>3
<1> QED  BY <1>3, <1>4, <1>5, <1>6 DEF Outside

LEMMA OutsideClock == ASSUME Typed, Lapse \/ ExpireUrls \/ UNCHANGED vars PROVE Outside
<1>0. url \in [Ids -> Links]
  BY DEF Typed, TypeOK
<1>1. CASE Lapse
  BY <1>1 DEF Lapse, Outside, Tunneling, rows
<1>2. CASE ExpireUrls
  BY <1>0, <1>2 DEF ExpireUrls, Outside, Tunneling, tunnels, links
<1>3. CASE UNCHANGED vars
  BY <1>3 DEF vars, Outside, Tunneling, tunnels, links, rows
<1> QED  BY <1>1, <1>2, <1>3

(* Every link was there before.                                              *)
LEMMA NoNewLink ==
  ASSUME Outside
  PROVE  (AllSound => AllSound') /\ (AllWork => AllWork') /\ (AllSpent => AllSpent')
<1>1. running' = running /\ lapsed \subseteq lapsed' /\ Tunneling' = Tunneling
  BY DEF Outside
<1>2. \A l : Works(l) => (l # NoLink /\ l.until \notin lapsed' => l.at = running')
  BY <1>1 DEF Works, Expired
<1>3. \A l : Spent(l) => l = NoLink \/ l.until \in lapsed'
  BY <1>1 DEF Spent, Expired
<1>4. AllSound => AllSound'
  BY <1>1 DEF Outside, AllSound, Sound
<1>5. AllWork => AllWork'
  <2>1. Works(NoLink)
    BY DEF Works
  <2> QED  BY <1>1, <1>2, <2>1 DEF Outside, AllWork, Works, Expired
<1>6. AllSpent => AllSpent'
  BY <1>1, <1>3 DEF Outside, AllSpent, Spent, Expired
<1> QED  BY <1>4, <1>5, <1>6

LEMMA OutsideLinks ==
  ASSUME Outside
  PROVE  (Orderly => Orderly') /\ (Useful => Useful')
<1>1. /\ running' = running /\ reaper' = reaper /\ crossed' = crossed /\ unread' = unread
      /\ lapsed \subseteq lapsed' /\ Tunneling' = Tunneling
      /\ \A c \in Tunneling : call'[c] = call[c]
  BY DEF Outside
<1>2. \A c \in Calls : call'[c].pc \in TunnelSteps => call[c].pc \in TunnelSteps /\ call'[c] = call[c]
  BY <1>1 DEF Tunneling, TunnelSteps
<1>3. \A c \in Calls : InTunnel(c) => InTunnel(c)'
  BY <1>1, <1>2 DEF InTunnel, TunnelSteps
<1>4. ASSUME Orderly PROVE Orderly'
  <2> SUFFICES ASSUME ~crossed
               PROVE  /\ \A b, c \in Tunneling' : b = c
                      /\ reaper' # "idle" => Tunneling' = {}
                      /\ reaper' = "armed" => running' = 0 \/ running' \in lapsed'
                      /\ AllSound'
                      /\ \A c \in Calls : InTunnel(c)'
    BY <1>1 DEF Orderly
  <2>1. /\ \A b, c \in Tunneling : b = c
        /\ reaper # "idle" => Tunneling = {}
        /\ reaper = "armed" => running = 0 \/ running \in lapsed
        /\ AllSound
        /\ \A c \in Calls : InTunnel(c)
    BY <1>4 DEF Orderly
  <2>2. AllSound'
    BY <2>1, NoNewLink
  <2> QED  BY <1>1, <1>3, <2>1, <2>2
<1>5. ASSUME Useful PROVE Useful'
  <2> SUFFICES ASSUME ~crossed, ~unread
               PROVE  /\ AllWork'
                      /\ \A c \in Calls : call'[c].pc = "clear" => running' = 0 \/ running' \in lapsed'
                      /\ \A c \in Calls : call'[c].pc \in {"start", "wait", "undo"} =>
                           AllSpent'
    BY <1>1 DEF Useful
  <2>1. /\ AllWork
        /\ \A c \in Calls : call[c].pc = "clear" => running = 0 \/ running \in lapsed
        /\ \A c \in Calls : call[c].pc \in {"start", "wait", "undo"} =>
             AllSpent
    BY <1>5 DEF Useful
  <2>2. AllWork'
    BY <2>1, NoNewLink
  <2>3. ASSUME NEW c \in Calls, call'[c].pc \in {"start", "wait", "undo"}
        PROVE  AllSpent'
    <3>1. call[c].pc \in {"start", "wait", "undo"}
      BY <1>2, <2>3 DEF TunnelSteps
    <3> QED  BY <2>1, <3>1, NoNewLink
  <2>4. \A c \in Calls : call'[c].pc = "clear" => running' = 0 \/ running' \in lapsed'
    BY <1>1, <1>2, <2>1 DEF TunnelSteps
  <2> QED  BY <2>2, <2>3, <2>4
<1> QED  BY <1>4, <1>5

LEMMA SpentWorks == \A l : Spent(l) => Works(l)
  BY DEF Spent, Works

(* What is past its expiry, or gone, can be removed: no link is of use.      *)
LEMMA NothingLeft ==
  ASSUME AllSound, AllWork, running = 0 \/ running \in lapsed
  PROVE  AllSpent
<1>1. ASSUME NEW l, Sound(l), Works(l) PROVE Spent(l)
  BY <1>1 DEF Sound, Works, Spent, Expired
<1> QED  BY <1>1 DEF AllSound, AllWork, AllSpent

(* A step of ensurePublicTunnel that crosses nobody's is alone.              *)
LEMMA Alone ==
  ASSUME Typed, Orderly, NEW c \in Calls, Tunnel(c), ~crossed'
  PROVE  /\ ~crossed /\ reaper = "idle" /\ reaper' = "idle"
         /\ url' = url /\ lapsed' = lapsed
         /\ \A b \in Calls \ {c} : call'[b] = call[b] /\ b \notin Tunneling /\ b \notin Tunneling'
         /\ c \in Tunneling' <=> call'[c].pc # "read"
<1>1. /\ call[c].pc \in TunnelSteps \cup {"tunnel"} /\ call'[c].pc \in TunnelSteps \cup {"read"}
      /\ \A b \in Calls \ {c} : call'[b] = call[b]
      /\ url' = url /\ lapsed' = lapsed /\ reaper' = reaper
  BY TunnelStep DEF rows
<1>2. CASE call[c].pc = "tunnel"
  <2>1. FindTunnel(c)
    BY <1>2 DEF Tunnel, ReadLog, ClearTunnel, StartTunnel, AwaitUrl, GiveUpTunnel, LinkTo
  <2>2. ~crossed /\ Tunneling = {} /\ reaper = "idle"
    BY <2>1 DEF FindTunnel, Cross
  <2> QED  BY <1>1, <2>2 DEF Tunneling, TunnelSteps
<1>3. CASE call[c].pc # "tunnel"
  <2>1. crossed' = crossed
    BY <1>3 DEF Tunnel, FindTunnel, ReadLog, ClearTunnel, StartTunnel, AwaitUrl, GiveUpTunnel,
       LinkTo, tunnels
  <2>2. c \in Tunneling
    BY <1>1, <1>3 DEF Tunneling, TunnelSteps
  <2>3. reaper = "idle" /\ \A b \in Calls \ {c} : b \notin Tunneling
    BY <2>1, <2>2 DEF Orderly
  <2> QED  BY <1>1, <2>1, <2>3 DEF Tunneling, TunnelSteps
<1> QED  BY <1>2, <1>3

(* What it has to see to.                                                    *)
LEMMA AloneLinks ==
  ASSUME Typed, Orderly, NEW c \in Calls, Tunnel(c), ~crossed'
  PROVE  /\ InTunnel(c)' /\ (call'[c].pc = "read" => Sound(call'[c].link)) => Orderly'
         /\ AllSpent /\ (call'[c].pc = "read" => Spent(call'[c].link)) => AllSpent'
         /\ AllSpent /\ (call'[c].pc = "read" => Works(call[c].link)') => AllWork'
         /\ AllWork /\ running' = running /\ (call'[c].pc = "read" => Works(call[c].link)') => AllWork'
<1>1. /\ ~crossed /\ reaper = "idle" /\ reaper' = "idle"
      /\ url' = url /\ lapsed' = lapsed
      /\ \A b \in Calls \ {c} : call'[b] = call[b] /\ b \notin Tunneling /\ b \notin Tunneling'
      /\ c \in Tunneling' <=> call'[c].pc # "read"
  BY Alone
<1>2. AllSound /\ \A b \in Calls : InTunnel(b)
  BY <1>1 DEF Orderly
<1>3. ASSUME InTunnel(c)', call'[c].pc = "read" => Sound(call'[c].link)
      PROVE  Orderly'
  <2>1. AllSound'
    BY <1>1, <1>2, <1>3 DEF AllSound, Sound
  <2>2. \A b \in Calls \ {c} : InTunnel(b)'
    BY <1>1 DEF InTunnel, Tunneling
  <2>3. \A a, b \in Tunneling' : a = b
    BY <1>1 DEF Tunneling
  <2> QED  BY <1>1, <1>3, <2>1, <2>2, <2>3 DEF Orderly
<1>4. ASSUME AllSpent, call'[c].pc = "read" => Spent(call'[c].link)
      PROVE  AllSpent'
  BY <1>1, <1>4 DEF AllSpent, Spent, Expired
<1>5. ASSUME AllSpent, call'[c].pc = "read" => Works(call[c].link)'
      PROVE  AllWork'
  BY <1>1, <1>5 DEF AllSpent, AllWork, Spent, Works, Expired
<1>6. ASSUME AllWork, running' = running, call'[c].pc = "read" => Works(call[c].link)'
      PROVE  AllWork'
  BY <1>1, <1>6 DEF AllWork, Works, Expired
<1> QED  BY <1>3, <1>4, <1>5, <1>6

(* Whatever it returns works.                                                *)
LEMMA TunnelLinks ==
  ASSUME Typed, Orderly, Useful, NEW c \in Calls, Tunnel(c)
  PROVE  /\ Orderly' /\ Useful'
         /\ ~crossed' /\ call'[c].pc = "read" => Works(call[c].link)'
<1> SUFFICES ASSUME ~crossed'
             PROVE  /\ Orderly' /\ Useful'
                    /\ call'[c].pc = "read" => Works(call[c].link)'
  BY DEF Orderly, Useful
<1>0. CallTyped /\ tunnel \in Nat /\ NoLink \in Links
  BY RowsAssumption, LinkNone DEF Typed, TypeOK
<1>1. /\ ~crossed /\ InTunnel(c) /\ AllSound
      /\ \A b \in Calls \ {c} : call'[b] = call[b] /\ b \notin Tunneling /\ b \notin Tunneling'
  BY Alone DEF Orderly
<1>2. /\ InTunnel(c)' /\ (call'[c].pc = "read" => Sound(call'[c].link)) => Orderly'
      /\ AllSpent /\ (call'[c].pc = "read" => Spent(call'[c].link)) => AllSpent'
      /\ AllSpent /\ (call'[c].pc = "read" => Works(call[c].link)') => AllWork'
      /\ AllWork /\ running' = running /\ (call'[c].pc = "read" => Works(call[c].link)') => AllWork'
  BY Alone, AloneLinks
<1>3. ASSUME ~unread
      PROVE  /\ AllWork
             /\ call[c].pc = "clear" => AllSpent
             /\ call[c].pc \in {"start", "wait", "undo"} => AllSpent
  BY <1>1, <1>3, NothingLeft DEF Useful
<1>4. ASSUME ~unread' =>
               /\ AllWork'
               /\ call'[c].pc = "clear" => running' = 0 \/ running' \in lapsed'
               /\ call'[c].pc \in {"start", "wait", "undo"} => AllSpent'
      PROVE  Useful'
  BY <1>1, <1>4 DEF Useful, Tunneling
<1>5. Sound(NoLink) /\ Spent(NoLink) /\ \A l : l = NoLink => (Works(l)' /\ Works(l))
  BY DEF Sound, Spent, Works
<1>6. CASE FindTunnel(c)
  <2>1. running' = running /\ lapsed' = lapsed /\ unread' = unread
    BY <1>6 DEF FindTunnel, links
  <2>2. \/ /\ Unexpired /\ call'[c].pc = "logs" /\ call'[c].link = [at |-> 0, until |-> running]
        \/ /\ ~Unexpired /\ call'[c].pc = "clear"
    BY <1>0, <1>6 DEF FindTunnel, LinkTo, CallTyped
  <2>3. InTunnel(c)' /\ (call'[c].pc = "clear" => running' = 0 \/ running' \in lapsed')
    BY <2>1, <2>2 DEF InTunnel, Unexpired
  <2> QED  BY <1>2, <1>3, <1>4, <2>1, <2>2, <2>3
<1>7. CASE ReadLog(c)
  <2>1. call[c].pc = "logs" /\ running' = running /\ lapsed' = lapsed
    BY <1>7 DEF ReadLog, LinkTo, links
  <2>2. running # 0 /\ call[c].link = [at |-> 0, until |-> running]
    BY <1>1, <2>1 DEF InTunnel
  <2>3. CASE call'[c].pc = "read" /\ call'[c].link = [at |-> running, until |-> running] /\ unread' = unread
    <3>1. Works(call[c].link)' /\ Sound(call'[c].link) /\ InTunnel(c)'
      BY <2>1, <2>2, <2>3 DEF Works, Sound, InTunnel
    <3> QED  BY <1>2, <1>3, <1>4, <2>1, <2>3, <3>1
  <2>4. CASE call'[c].pc = "clear" /\ unread'
    <3>1. InTunnel(c)'
      BY <2>4 DEF InTunnel
    <3> QED  BY <1>2, <1>4, <2>4, <3>1
  <2>5. \/ call'[c].pc = "read" /\ call'[c].link = [at |-> running, until |-> running] /\ unread' = unread
        \/ call'[c].pc = "clear" /\ unread'
    <3>1. \/ /\ LinkTo(c, "logs", "read", [call[c].link EXCEPT !.at = running])
             /\ unread' = unread
          \/ LinkTo(c, "logs", "clear", NoLink) /\ unread'
      BY <1>7, <2>2, Zenon DEF ReadLog
    <3> QED  BY <1>0, <2>2, <3>1 DEF LinkTo, CallTyped
  <2> QED  BY <2>3, <2>4, <2>5
<1>8. CASE ClearTunnel(c)
  <2>1. /\ call[c].pc = "clear" /\ unread' = unread /\ call'[c].link = NoLink
        /\ \/ call'[c].pc = "start" /\ running' = 0
           \/ call'[c].pc = "read"
    BY <1>0, <1>8 DEF ClearTunnel, LinkTo, CallTyped
  <2>2. InTunnel(c)' /\ Sound(call'[c].link) /\ Works(call[c].link)' /\ Spent(call'[c].link)
    BY <1>5, <2>1 DEF InTunnel
  <2> QED  BY <1>2, <1>3, <1>4, <2>1, <2>2
<1>9. CASE StartTunnel(c)
  <2>1. /\ call[c].pc = "start" /\ unread' = unread
        /\ \/ /\ call'[c].pc = "wait" /\ running' = tunnel + 1
              /\ call'[c].link = [at |-> 0, until |-> tunnel + 1]
           \/ call'[c].pc = "read" /\ call'[c].link = NoLink
    BY <1>0, <1>9 DEF StartTunnel, LinkTo, CallTyped
  <2>2. InTunnel(c)' /\ (call'[c].pc = "read" => Sound(call'[c].link) /\ Works(call[c].link)' /\ Spent(call'[c].link))
    BY <1>0, <1>5, <2>1 DEF InTunnel
  <2> QED  BY <1>2, <1>3, <1>4, <2>1, <2>2
<1>10. CASE AwaitUrl(c)
  <2>1. /\ call[c].pc = "wait" /\ unread' = unread /\ running' = running /\ lapsed' = lapsed
        /\ \/ call'[c].pc = "read" /\ call'[c].link = [call[c].link EXCEPT !.at = running]
           \/ call'[c].pc = "undo"
    BY <1>0, <1>10 DEF AwaitUrl, LinkTo, CallTyped, tunnels, links
  <2>2. running # 0 /\ call[c].link = [at |-> 0, until |-> running]
    BY <1>1, <2>1 DEF InTunnel
  <2>3. InTunnel(c)' /\ (call'[c].pc = "read" => Sound(call'[c].link) /\ Works(call[c].link)')
    BY <2>1, <2>2 DEF InTunnel, Sound, Works
  <2> QED  BY <1>2, <1>3, <1>4, <2>1, <2>3
<1>11. CASE GiveUpTunnel(c)
  <2>1. /\ call[c].pc = "undo" /\ unread' = unread /\ call'[c].link = NoLink /\ call'[c].pc = "read"
    BY <1>0, <1>11 DEF GiveUpTunnel, LinkTo, CallTyped
  <2>2. InTunnel(c)' /\ Sound(call'[c].link) /\ Works(call[c].link)'
    BY <1>5, <2>1 DEF InTunnel
  <2> QED  BY <1>2, <1>3, <1>4, <2>1, <2>2
<1> QED  BY <1>6, <1>7, <1>8, <1>9, <1>10, <1>11 DEF Tunnel

(* The reaper, when it crosses nobody, removes what is of no use.            *)
LEMMA ReaperLinks ==
  ASSUME Typed, Orderly, Useful, ListTunnels \/ ReadTunnelLabel \/ ReapTunnel
  PROVE  /\ Orderly' /\ Useful'
         /\ ~crossed' => \A l : Sound(l) /\ Works(l) => Works(l)'
<1> SUFFICES ASSUME ~crossed'
             PROVE  /\ Orderly' /\ Useful'
                    /\ \A l : Sound(l) /\ Works(l) => Works(l)'
  BY DEF Orderly, Useful
<1>1. /\ ~crossed /\ unread' = unread /\ lapsed' = lapsed /\ running' \in {0, running}
      /\ url' = url /\ call' = call /\ Tunneling' = Tunneling
  <2>1. /\ unread' = unread /\ lapsed' = lapsed /\ running' \in {0, running}
        /\ url' = url /\ call' = call
    BY DEF ListTunnels, ReadTunnelLabel, ReapTunnel, Remove, rows, links
  <2>2. ~crossed
    BY DEF ListTunnels, ReadTunnelLabel, ReapTunnel
  <2> QED  BY <2>1, <2>2 DEF Tunneling
<1>2. Tunneling = {}
  BY <1>1 DEF ListTunnels, ReadTunnelLabel, ReapTunnel, Orderly
<1>3. running' # running => running = 0 \/ running \in lapsed
  BY <1>1 DEF ListTunnels, ReadTunnelLabel, ReapTunnel, links, Orderly
<1>4. \A l : Sound(l) /\ Works(l) => Works(l)'
  BY <1>1, <1>3 DEF Sound, Works, Expired
<1>5. AllSound'
  BY <1>1 DEF Orderly, AllSound, Sound
<1>6. reaper' = "armed" => running' = 0 \/ running' \in lapsed'
  BY <1>1 DEF ListTunnels, ReadTunnelLabel, ReapTunnel, Unexpired, links
<1>7. \A c \in Calls : call'[c].pc \notin TunnelSteps
  BY <1>1, <1>2 DEF Tunneling, TunnelSteps
<1>8. Orderly'
  BY <1>1, <1>2, <1>5, <1>6, <1>7 DEF Orderly, InTunnel, TunnelSteps
<1>9. ~unread => AllWork'
  BY <1>1, <1>4 DEF Useful, Orderly, AllSound, AllWork
<1>10. Useful'
  BY <1>1, <1>7, <1>9 DEF Useful, TunnelSteps
<1> QED  BY <1>4, <1>8, <1>10

LEMMA AlwaysLinks == Spec => [](Orderly /\ Useful)
<1>1. Init => Orderly /\ Useful
  <2> SUFFICES ASSUME Init PROVE Orderly /\ Useful
    OBVIOUS
  <2>1. Tunneling = {} /\ (\A c \in Calls : call[c].pc = "idle" /\ call[c].link = NoLink)
        /\ \A d \in Ids : url[d] = NoLink
    BY DEF Init, Idle, Tunneling
  <2>2. AllSound /\ AllWork
    BY <2>1 DEF AllSound, AllWork, Sound, Works
  <2> QED  BY <2>1, <2>2 DEF Init, Orderly, Useful, InTunnel
<1>2. ASSUME Typed, Orderly, Useful, [Next]_vars PROVE Orderly' /\ Useful'
  <2>1. ASSUME NEW c \in Calls, Tunnel(c) PROVE Orderly' /\ Useful'
    BY <1>2, <2>1, TunnelLinks
  <2>2. ASSUME NEW c \in Calls, Start(c) PROVE Orderly' /\ Useful'
    BY <1>2, <2>2, OutsideStart, OutsideLinks
  <2>3. ASSUME NEW c \in Calls, Deploy(c) \/ Patch(c) \/ UserAction(c), ~Tunnel(c)
        PROVE  Orderly' /\ Useful'
    BY <1>2, <2>3, OutsideHandler, OutsideLinks
  <2>4. CASE Lapse \/ ExpireUrls \/ UNCHANGED vars
    BY <1>2, <2>4, OutsideClock, OutsideLinks
  <2>5. CASE ListTunnels \/ ReadTunnelLabel \/ ReapTunnel
    BY <1>2, <2>5, ReaperLinks
  <2> QED  BY <1>2, <2>1, <2>2, <2>3, <2>4, <2>5 DEF Next, Background
<1> QED  BY <1>1, <1>2, AlwaysTyped, PTL DEF Spec

(* A deployment that is not there yet, is under way, stopped or failed shows *)
(* no public link, in every interleaving and with every failure.             *)
Linkless(d) == d \notin Rows \/ status[d] \in {"deploying", "stopped", "failed"}
NoneLinked == \A d \in Ids : Linkless(d) => url[d] = NoLink

LEMMA LinklessStep == ASSUME Typed, NoneLinked, [Next]_vars PROVE NoneLinked'
<1>0. /\ CallTyped /\ created \in Nat /\ status \in [Ids -> DeploymentRow]
      /\ url \in [Ids -> Links] /\ Rows \subseteq Ids
  BY RowsAssumption DEF Typed, TypeOK, Ids, Rows
<1> SUFFICES ASSUME NEW d \in Ids, Linkless(d)' PROVE url'[d] = NoLink
  BY DEF NoneLinked
<1>1. CASE UNCHANGED <<created, status, url>>
  BY <1>1 DEF NoneLinked, Linkless, Rows
<1>2. ASSUME NEW c \in Calls, InsertDeployment(c) PROVE url'[d] = NoLink
  <2>1. CASE Refused(c, "insert")
    BY <1>1, <2>1 DEF Refused, rows
  <2>2. CASE ~Refused(c, "insert")
    <3>1. /\ created' = created + 1 /\ url' = url
          /\ status' = [status EXCEPT ![created + 1] = "deploying"]
      BY <1>2, <2>2 DEF InsertDeployment
    <3>2. created + 1 \notin Rows
      BY <1>0 DEF Rows
    <3> QED  BY <1>0, <3>1, <3>2 DEF NoneLinked, Linkless, Rows
  <2> QED  BY <2>1, <2>2
<1>3. ASSUME NEW c \in Calls, UpdateRow(c) PROVE url'[d] = NoLink
  <2>1. CASE Refused(c, "update")
    BY <1>1, <2>1 DEF Refused, rows
  <2>2. CASE ~Refused(c, "update")
    <3>1. call[c].pc = "update" /\ call[c].want \in Outcomes /\ call[c].id \in Rows
      BY <1>3, <2>2 DEF UpdateRow, To, Typed, CallKnows
    <3> QED  BY <1>0, <1>3, <2>2, <3>1 DEF Outcomes, UpdateRow, NoneLinked, Linkless, Rows
  <2> QED  BY <2>1, <2>2
<1>4. ASSUME NEW c \in Calls, StopDraining(c) \/ StopRow(c) PROVE url'[d] = NoLink
  <2>1. CASE UNCHANGED rows
    BY <1>1, <2>1 DEF rows
  <2>2. CASE ~UNCHANGED rows
    BY <1>0, <1>4, <2>2 DEF StopDraining, StopRow, Refused, NoneLinked, Linkless, Rows
  <2> QED  BY <2>1, <2>2
<1>5. ASSUME NEW c \in Calls, DrainActive(c) \/ RestorePrevious(c) \/ RollRow(c)
      PROVE  url'[d] = NoLink
  BY <1>0, <1>5 DEF DrainActive, RestorePrevious, RollRow, Refused, Ignored,
     NoneLinked, Linkless, Rows, rows
<1>6. ASSUME NEW c \in Calls,
             \/ Start(c) \/ InsertRevision(c) \/ PointAtRevision(c) \/ RunDeployer(c)
             \/ ReadRow(c) \/ ReviseRow(c) \/ LookupPrevious(c)
             \/ StopRevisions(c) \/ RollRevisions(c)
      PROVE  UNCHANGED <<created, status, url>>
  BY <1>6 DEF Start, StartDeploy, StartHeal, StartStop, StartRollback, Begin, InsertRevision,
       PointAtRevision, RunDeployer, ReadRow, ReviseRow, LookupPrevious,
       StopRevisions, RollRevisions, Refused, Ignored, rows
<1>7. ASSUME NEW c \in Calls, Tunnel(c) PROVE UNCHANGED <<created, status, url>>
  BY <1>7, TunnelStep DEF rows
<1>8. CASE ExpireUrls
  BY <1>0, <1>8 DEF ExpireUrls, NoneLinked, Linkless, Rows
<1>9. (Background /\ ~ExpireUrls) \/ UNCHANGED vars => UNCHANGED <<created, status, url>>
  BY DEF Background, Lapse, ListTunnels, ReadTunnelLabel, ReapTunnel, vars, rows
<1> QED
  BY <1>1, <1>2, <1>3, <1>4, <1>5, <1>6, <1>7, <1>8, <1>9 DEF Next, Deploy, Patch, UserAction

LEMMA AlwaysLinkless == Spec => []NoneLinked
<1>1. Init => NoneLinked
  BY DEF Init, NoneLinked
<1> QED  BY <1>1, LinklessStep, AlwaysTyped, PTL DEF Spec

(* A deployment that stopped or failed shows no public link.                 *)
THEOREM NoUrlWhenStopped == Spec => []StoppedHasNoUrl
<1>1. Typed /\ NoneLinked => StoppedHasNoUrl
  BY RowsAssumption DEF Typed, TypeOK, NoneLinked, Linkless, StoppedHasNoUrl, Rows, Ids
<1> QED  BY <1>1, AlwaysTyped, AlwaysLinkless, PTL

(* One handler at a time, no failures: the links of what is, or was, active  *)
(* work, and so does the one that the handler brings.                        *)
Alive(d) == status[d] \in {"active", "draining"}
RowsWork == \A d \in Rows : Alive(d) => Works(url[d])

Untaken == {"drain", "insert", "revision", "point", "run"}
Elsewhere == {"idle", "stop", "stop_revisions", "roll_revisions", "roll", "lookup", "restore"}

LinkFits(c) ==
  LET p == call[c].pc IN
  /\ p \in Untaken \cup Elsewhere \/ call[c].want # "active" => RowsWork
  /\ p \in Untaken => call[c].link = NoLink
  /\ p \in {"read", "update"} /\ call[c].want = "active" => Works(call[c].link)
  /\ p \in {"revise", "settle"} /\ call[c].want = "active" => Works(url[call[c].id])

Linked ==
  Undisturbed /\ ~crossed => (\A c \in Busy : LinkFits(c)) /\ (Busy = {} => RowsWork)

LEMMA KeepRowsWork ==
  ASSUME \A l : Works(l) => Works(l)',
         \A d \in Rows' : Alive(d)' => d \in Rows /\ Alive(d) /\ url'[d] = url[d]
  PROVE  RowsWork => RowsWork'
  BY DEF RowsWork

LEMMA OutsideWorks == ASSUME Outside PROVE \A l : Works(l) => Works(l)'
  BY DEF Outside, Works, Expired

LEMMA StepFits ==
  ASSUME Typed, NoneLinked, Orderly, Useful, NEW c \in Calls, Expected(c), LinkFits(c),
         faults' = 0, ~crossed', Deploy(c) \/ Patch(c) \/ UserAction(c)
  PROVE  LinkFits(c)'
<1>0. /\ CallTyped /\ CallKnows(c) /\ created \in Nat /\ faults \in Nat
      /\ status \in [Ids -> DeploymentRow] /\ url \in [Ids -> Links] /\ Rows \subseteq Ids
      /\ call[c].id \in 0..created
  BY RowsAssumption DEF Typed, TypeOK, CallTyped, Ids, Rows
<1>1. ASSUME Tunnel(c) PROVE LinkFits(c)'
  <2>1. /\ call[c].want = "active" /\ call'[c].want = "active"
        /\ call'[c].pc \in TunnelSteps \cup {"read"}
    BY <1>1, TunnelStep DEF Expected
  <2>2. call'[c].pc = "read" => Works(call[c].link)'
    BY <1>1, TunnelLinks
  <2> QED  BY <2>1, <2>2 DEF LinkFits, TunnelSteps, Untaken, Elsewhere
<1> SUFFICES ASSUME ~Tunnel(c) PROVE LinkFits(c)'
  BY <1>1
<1>2. \A l : Works(l) => Works(l)'
  BY OutsideHandler, OutsideWorks
<1>3. Works(NoLink)
  BY DEF Works
<1>4. ASSUME UNCHANGED <<created, status, url>> PROVE RowsWork => RowsWork'
  BY <1>2, <1>4, KeepRowsWork DEF Alive, Rows
<1>5. ASSUME DrainActive(c) PROVE LinkFits(c)'
  <2>1. /\ To(c, "drain", "insert") /\ UNCHANGED <<created, url>>
        /\ status' = [d \in Ids |-> IF status[d] = "active" THEN "draining" ELSE status[d]]
    BY <1>5, <1>0, NoFault DEF DrainActive, Ignored
  <2>2. /\ call[c].pc = "drain" /\ call'[c].pc = "insert" /\ call'[c].link = call[c].link
    BY <2>1, <1>0 DEF To, CallTyped
  <2>3. RowsWork'
    BY <2>1, <2>2, <1>0, <1>2, KeepRowsWork DEF LinkFits, Untaken, Alive, Rows
  <2> QED  BY <2>2, <2>3 DEF LinkFits, Untaken
<1>6. ASSUME InsertDeployment(c) PROVE LinkFits(c)'
  <2>1. /\ call[c].pc = "insert" /\ call'[c].pc = "revision" /\ call'[c].link = call[c].link
        /\ created' = created + 1 /\ url' = url
        /\ status' = [status EXCEPT ![created + 1] = "deploying"]
        /\ created + 1 \in Ids
    BY <1>6, <1>0, NoFault, RowsAssumption DEF InsertDeployment, Refused, CallTyped, Ids
  <2>2. \A d \in Rows' : Alive(d)' => d \in Rows /\ Alive(d)
    BY <2>1, <1>0 DEF Alive, Rows
  <2>3. RowsWork'
    BY <2>1, <2>2, <1>2, KeepRowsWork DEF LinkFits, Untaken
  <2> QED  BY <2>1, <2>3 DEF LinkFits, Untaken
<1>7. ASSUME InsertRevision(c) \/ PointAtRevision(c) PROVE LinkFits(c)'
  <2>1. UNCHANGED <<created, status, url>>
        /\ (To(c, "revision", "point") \/ To(c, "point", "run"))
    BY <1>7, <1>0, NoFault DEF InsertRevision, PointAtRevision, Refused, Ignored, rows
  <2>2. /\ call[c].pc \in Untaken /\ call'[c].pc \in Untaken /\ call'[c].link = call[c].link
    BY <2>1, <1>0 DEF To, CallTyped, Untaken
  <2> QED  BY <2>1, <2>2, <1>4 DEF LinkFits, Untaken
<1>8. ASSUME RunDeployer(c) PROVE LinkFits(c)'
  <2>1. /\ call[c].pc = "run" /\ UNCHANGED <<created, status, url>>
        /\ \/ /\ call'[c].pc \in {"tunnel", "read"} /\ call'[c].link = call[c].link
           \/ call'[c].pc = "idle"
    BY <1>8, <1>0 DEF RunDeployer, CallTyped, Idle, rows
  <2>2. call[c].link = NoLink /\ RowsWork'
    BY <2>1, <1>4 DEF LinkFits, Untaken
  <2> QED  BY <2>1, <2>2, <1>2, <1>3 DEF LinkFits, Untaken
<1>9. ASSUME ReadRow(c) PROVE LinkFits(c)'
  <2>1. /\ \/ To(c, "read", "update")
           \/ End(c, "read") /\ ~validateDeploymentTransition(status[call[c].id], call[c].want)
        /\ UNCHANGED <<created, status, url>>
    BY <1>9, <1>0, NoFault DEF ReadRow, Refused, rows
  <2>2. CASE To(c, "read", "update")
    <3>1. /\ call[c].pc = "read" /\ call'[c].pc = "update" /\ call'[c].link = call[c].link
          /\ call'[c].want = call[c].want
      BY <2>2, <1>0 DEF To, CallTyped
    <3> QED  BY <2>1, <3>1, <1>2, <1>4 DEF LinkFits, Untaken, Elsewhere
  <2>3. CASE End(c, "read") /\ ~validateDeploymentTransition(status[call[c].id], call[c].want)
    <3>1. call[c].pc = "read" /\ call'[c].pc = "idle"
      BY <2>3, <1>0, Over
    <3>2. call[c].want # "active"
      BY <2>3, <3>1, Transitions DEF Expected
    <3> QED  BY <2>1, <3>1, <3>2, <1>4 DEF LinkFits, Untaken, Elsewhere
  <2> QED  BY <2>1, <2>2, <2>3
<1>10. ASSUME UpdateRow(c) PROVE LinkFits(c)'
  <2>1. /\ To(c, "update", "revise") /\ created' = created
        /\ status' = [status EXCEPT ![call[c].id] = call[c].want]
        /\ url' = [url EXCEPT ![call[c].id] =
             CASE call[c].want \in {"failed", "rolled_back"} -> NoLink
               [] call[c].want = "active" /\ call[c].link # NoLink -> call[c].link
               [] OTHER -> @]
    BY <1>10, <1>0, NoFault DEF UpdateRow, Refused
  <2>2. /\ call[c].pc = "update" /\ call'[c].pc = "revise"
        /\ call'[c].id = call[c].id /\ call'[c].want = call[c].want
        /\ call[c].want \in Outcomes /\ call[c].id \in Rows
    BY <2>1, <1>0, Moved DEF CallKnows
  <2>3. CASE call[c].want = "active"
    <3>1. status[call[c].id] = "deploying" /\ Works(call[c].link)
      BY <2>2, <2>3 DEF Expected, LinkFits
    <3>2. url[call[c].id] = NoLink
      BY <2>2, <3>1, <1>0 DEF NoneLinked, Linkless
    <3>3. url'[call[c].id] = call[c].link
      BY <2>1, <2>2, <2>3, <3>2, <1>0
    <3>4. Works(url[call[c].id])'
      BY <2>2, <3>1, <3>3, <1>2
    <3> QED  BY <2>2, <2>3, <3>4 DEF LinkFits, Untaken, Elsewhere
  <2>4. CASE call[c].want \in {"failed", "rolled_back"}
    <3>1. \A d \in Rows' : Alive(d)' => d \in Rows /\ Alive(d) /\ url'[d] = url[d]
      BY <2>1, <2>2, <2>4, <1>0 DEF Alive, Rows
    <3>2. RowsWork
      BY <2>4 DEF LinkFits
    <3>3. RowsWork'
      BY <3>1, <3>2, <1>2, KeepRowsWork
    <3> QED  BY <2>2, <2>4, <3>3 DEF LinkFits, Untaken, Elsewhere
  <2> QED  BY <2>2, <2>3, <2>4 DEF Outcomes
<1>11. ASSUME ReviseRow(c) PROVE LinkFits(c)'
  <2>1. /\ To(c, "revise", IF call[c].want = "active" THEN "settle" ELSE "lookup")
        /\ UNCHANGED <<created, status, url>>
    BY <1>11, <1>0, NoFault DEF ReviseRow, Ignored
  <2>2. /\ call[c].pc = "revise" /\ call'[c].id = call[c].id /\ call'[c].want = call[c].want
        /\ call'[c].pc = IF call[c].want = "active" THEN "settle" ELSE "lookup"
    BY <2>1, <1>0, Moved
  <2>3. Works(url[call[c].id]) => Works(url[call[c].id])'
    BY <2>1, <2>2, <1>2
  <2> QED  BY <2>1, <2>2, <2>3, <1>4 DEF LinkFits, Untaken, Elsewhere
<1>12. ASSUME StopDraining(c) PROVE LinkFits(c)'
  <2>1. /\ End(c, "settle") /\ created' = created
        /\ status' = [o \in Ids |-> IF o \in Draining(call[c].id) THEN "stopped" ELSE status[o]]
        /\ url' = [o \in Ids |-> IF o \in Draining(call[c].id) THEN NoLink ELSE url[o]]
    BY <1>12, <1>0, NoFault DEF StopDraining, Refused
  <2>2. call[c].pc = "settle" /\ call'[c].pc = "idle"
    BY <2>1, <1>0, Over
  <2>3. /\ call[c].want = "active" /\ Replaced(call[c].id) /\ Works(url[call[c].id])
    BY <2>2 DEF Expected, LinkFits
  <2>4. \A d \in Rows' : Alive(d)' => d = call[c].id /\ url'[d] = url[d]
    BY <2>1, <2>3, <1>0 DEF Alive, Rows, Replaced, Left, Ended, Draining, DEPLOYMENT_TERMINAL_STATES
  <2>5. RowsWork'
    BY <2>3, <2>4, <1>2 DEF RowsWork
  <2> QED  BY <2>2, <2>5 DEF LinkFits, Untaken
<1>13. ASSUME LookupPrevious(c) PROVE LinkFits(c)'
  <2>1. /\ call[c].pc = "lookup" /\ UNCHANGED <<created, status, url>>
        /\ call'[c].pc \in {"idle", "restore"}
    BY <1>13, <1>0, NoFault, Over DEF LookupPrevious, Refused, rows, CallTyped
  <2> QED  BY <2>1, <1>4 DEF LinkFits, Untaken, Elsewhere
<1>14. ASSUME RestorePrevious(c) PROVE LinkFits(c)'
  <2>1. /\ End(c, "restore") /\ UNCHANGED <<created, url>>
        /\ status' = [status EXCEPT ![call[c].found] = "active"]
    BY <1>14, <1>0, NoFault DEF RestorePrevious, Refused
  <2>2. call[c].pc = "restore" /\ call'[c].pc = "idle"
    BY <2>1, <1>0, Over
  <2>3. call[c].found \in Rows /\ Alive(call[c].found)
    BY <2>2, <1>0 DEF Expected, CallKnows, Alive
  <2>4. \A d \in Rows' : Alive(d)' => d \in Rows /\ Alive(d) /\ url'[d] = url[d]
    BY <2>1, <2>3, <1>0 DEF Alive, Rows
  <2>5. RowsWork'
    BY <2>2, <2>4, <1>2, KeepRowsWork DEF LinkFits, Elsewhere
  <2> QED  BY <2>2, <2>5 DEF LinkFits, Untaken
<1>15. ASSUME UserAction(c) PROVE LinkFits(c)'
  <2>1. /\ call[c].pc \in Elsewhere /\ call'[c].pc \in Elsewhere
        /\ \A d \in Rows' : Alive(d)' => d \in Rows /\ Alive(d) /\ url'[d] = url[d]
    <3>1. CASE StopRow(c)
      <4>1. To(c, "stop", "stop_revisions") /\ created' = created
            /\ status' = [status EXCEPT ![call[c].id] = "stopped"]
            /\ url' = [url EXCEPT ![call[c].id] = NoLink]
        BY <3>1, <1>0, NoFault DEF StopRow, Refused
      <4> QED  BY <4>1, <1>0, Moved DEF Elsewhere, Alive, Rows
    <3>2. CASE RollRow(c)
      <4>1. End(c, "roll") /\ UNCHANGED <<created, url>>
            /\ status' = [status EXCEPT ![call[c].id] = "rolled_back"]
        BY <3>2, <1>0, NoFault DEF RollRow, Refused
      <4> QED  BY <4>1, <1>0, Over DEF Elsewhere, Alive, Rows
    <3>3. CASE StopRevisions(c)
      <4>1. End(c, "stop_revisions") /\ UNCHANGED <<created, status, url>>
        BY <3>3, <1>0, NoFault DEF StopRevisions, Refused
      <4> QED  BY <4>1, <1>0, Over DEF Elsewhere, Alive, Rows
    <3>4. CASE RollRevisions(c)
      <4>1. To(c, "roll_revisions", "roll") /\ UNCHANGED <<created, status, url>>
        BY <3>4, <1>0, NoFault DEF RollRevisions, Ignored
      <4> QED  BY <4>1, <1>0, Moved DEF Elsewhere, Alive, Rows
    <3> QED  BY <1>15, <3>1, <3>2, <3>3, <3>4 DEF UserAction
  <2>2. RowsWork'
    BY <2>1, <1>2, KeepRowsWork DEF LinkFits
  <2> QED  BY <2>1, <2>2 DEF LinkFits, Untaken, Elsewhere
<1> QED
  BY <1>5, <1>6, <1>7, <1>8, <1>9, <1>10, <1>11, <1>12, <1>13, <1>14, <1>15
     DEF Deploy, Patch

LEMMA LinkedStep ==
  ASSUME Typed, Serial, NoneLinked, Orderly, Useful, Linked, [Next]_vars
  PROVE  Linked'
<1>0. CallTyped /\ overlaps \in Nat /\ faults \in Nat
  BY RowsAssumption DEF Typed, TypeOK
<1> SUFFICES ASSUME Undisturbed', ~crossed'
             PROVE  (\A c \in Busy' : LinkFits(c)') /\ (Busy' = {} => RowsWork')
  BY DEF Linked
<1>1. ASSUME NEW c \in Calls, Start(c)
      PROVE  Busy' = {c} /\ LinkFits(c)'
  <2>1. Undisturbed /\ Busy = {} /\ Busy' = {c}
    BY <1>1, StartExpected
  <2>2. PICK k, p, d, w : Begin(c, k, p, d, w)
                          /\ (w = "active" => FALSE) /\ p \in {"drain", "read", "stop", "roll_revisions"}
    BY <1>1 DEF Start, StartDeploy, StartHeal, StartStop, StartRollback
  <2>3. /\ call'[c].pc = p /\ call'[c].want = w /\ call'[c].link = NoLink
        /\ UNCHANGED <<created, status, url, tunnels>>
    BY <1>0, <2>2 DEF Begin, CallTyped, rows
  <2>4. crossed' = crossed /\ RowsWork
    BY <2>1, <2>3 DEF Linked, tunnels
  <2>5. \A l : Works(l) => Works(l)'
    BY <1>1, OutsideStart, OutsideWorks
  <2>6. RowsWork'
    BY <2>3, <2>4, <2>5, KeepRowsWork DEF Alive, Rows
  <2> QED  BY <2>1, <2>2, <2>3, <2>6 DEF LinkFits, Untaken, Elsewhere
<1>2. ASSUME NEW c \in Calls, Deploy(c) \/ Patch(c) \/ UserAction(c)
      PROVE  Busy' \subseteq {c} /\ LinkFits(c)' /\ (Busy' = {} => RowsWork')
  <2>1. /\ call[c].pc # "idle" /\ overlaps' = overlaps /\ faults' >= faults
        /\ \A b \in Calls \ {c} : call'[b] = call[b]
    BY <1>2, OwnStep
  <2>2. Undisturbed /\ faults' = 0
    BY <1>0, <2>1 DEF Undisturbed
  <2>3. ~crossed
    <3>1. CASE Tunnel(c)
      BY <3>1, Alone
    <3>2. CASE ~Tunnel(c)
      BY <1>2, <3>2, OutsideHandler DEF Outside
    <3> QED  BY <3>1, <3>2
  <2>4. Busy = {c} /\ Expected(c) /\ LinkFits(c)
    BY <2>1, <2>2, <2>3 DEF Serial, Linked, Busy
  <2>5. LinkFits(c)'
    BY <1>2, <2>2, <2>4, StepFits
  <2>6. Busy' \subseteq {c}
    BY <2>1, <2>4 DEF Busy
  <2>7. Busy' = {} => call'[c].pc = "idle"
    BY DEF Busy
  <2> QED  BY <2>5, <2>6, <2>7 DEF LinkFits, Elsewhere
<1>3. CASE Background \/ UNCHANGED vars
  <2>1. UNCHANGED <<created, status, call, overlaps, faults>> /\ Busy' = Busy
        /\ \A d \in Ids : url'[d] \in {NoLink, url[d]}
    <3>1. UNCHANGED <<created, status, call, overlaps, faults>>
      BY <1>3 DEF Background, Lapse, ListTunnels, ReadTunnelLabel, ReapTunnel, ExpireUrls, vars, rows
    <3>2. url \in [Ids -> Links]
      BY DEF Typed, TypeOK
    <3>3. \A d \in Ids : url'[d] \in {NoLink, url[d]}
      BY <1>3, <3>2 DEF Background, Lapse, ListTunnels, ReadTunnelLabel, ReapTunnel, ExpireUrls, vars, rows
    <3> QED  BY <3>1, <3>3 DEF Busy
  <2>2. ~crossed /\ AllSound /\ \A l : Sound(l) /\ Works(l) => Works(l)'
    <3>1. CASE ListTunnels \/ ReadTunnelLabel \/ ReapTunnel
      <4>1. ~crossed
        BY <3>1 DEF ListTunnels, ReadTunnelLabel, ReapTunnel
      <4> QED  BY <3>1, <4>1, ReaperLinks DEF Orderly
    <3>2. CASE Lapse \/ ExpireUrls \/ UNCHANGED vars
      <4>1. Outside
        BY <3>2, OutsideClock
      <4>2. ~crossed
        BY <4>1 DEF Outside
      <4> QED  BY <4>1, <4>2, OutsideWorks DEF Orderly
    <3> QED  BY <1>3, <3>1, <3>2 DEF Background
  <2>3. Undisturbed /\ Works(NoLink)
    BY <2>1 DEF Undisturbed, Works
  <2>4. \A d \in Ids : Works(url[d]) => Works(url[d])'
    BY <2>1, <2>2 DEF AllSound, Works
  <2>5. Rows \subseteq Ids
    BY RowsAssumption DEF Typed, TypeOK, Ids, Rows
  <2>6. RowsWork => RowsWork'
    BY <2>1, <2>4, <2>5 DEF RowsWork, Alive, Rows
  <2>7. ASSUME NEW c \in Busy PROVE LinkFits(c)'
    <3>1. LinkFits(c) /\ Expected(c) /\ c \in Calls /\ call'[c] = call[c]
      BY <2>1, <2>2, <2>3 DEF Linked, Serial, Busy
    <3>2. call[c].pc \in {"read", "update"} => c \in Calls \ Tunneling
      BY <3>1 DEF Tunneling
    <3>3. call[c].pc \in {"revise", "settle"} => call[c].id \in Ids
      BY <2>5, <3>1 DEF Typed, CallKnows
    <3>4. call[c].pc \in {"read", "update"} /\ Works(call[c].link) => Works(call[c].link)'
      BY <2>2, <3>1, <3>2 DEF AllSound
    <3>5. call[c].pc \in {"revise", "settle"} /\ Works(url[call[c].id]) => Works(url[call[c].id])'
      BY <2>4, <3>1, <3>3
    <3> QED  BY <2>6, <3>1, <3>4, <3>5 DEF LinkFits
  <2> QED  BY <2>1, <2>2, <2>3, <2>6, <2>7 DEF Linked
<1> QED  BY <1>1, <1>2, <1>3 DEF Next

(* A link that is shown and has not expired works, unless two have handled   *)
(* the tunnel at a time; when the address of a good tunnel was overlooked,   *)
(* that of the active deployment does, once the handlers have ended.         *)
THEOREM UrlsWork == Spec => []UrlWorks
<1>1. Init => Linked
  BY DEF Init, Linked, Busy, Idle, RowsWork, Rows
<1>2. Spec => []Linked
  BY <1>1, LinkedStep, AlwaysTyped, AlwaysSerial, AlwaysLinkless, AlwaysLinks, PTL DEF Spec
<1>3. Typed /\ Useful /\ Linked => UrlWorks
  <2> SUFFICES ASSUME Typed, Useful, Linked, ~crossed
               PROVE  /\ ~unread => \A d \in Rows : Works(url[d])
                      /\ AtRest => \A d \in Rows : status[d] = "active" => Works(url[d])
    BY DEF UrlWorks
  <2>1. Rows \subseteq Ids
    BY RowsAssumption DEF Typed, TypeOK, Ids, Rows
  <2>2. ~unread => \A d \in Rows : Works(url[d])
    BY <2>1 DEF Useful, AllWork
  <2>3. AtRest => \A d \in Rows : status[d] = "active" => Works(url[d])
    BY DEF Linked, AtRest, RowsWork, Alive
  <2> QED  BY <2>2, <2>3
<1> QED  BY <1>2, <1>3, AlwaysTyped, AlwaysLinks, PTL

-----------------------------------------------------------------------------
(* Images.                                                                 *)

BuildPcs == {"idle", "given", "failed", "building", "built", "pushing", "pushed", "refused",
             "recording", "deploying", "done"}
MaybeBuild == Builds \cup {NoBuild}
BuildRecords == [pc : BuildPcs, source : Sources \cup {NoBuild}, next : 0 .. 3,
                 digest : MaybeBuild, pushed : MaybeBuild, image : MaybeBuild]

ImageTyped ==
  /\ build \in [Builds -> BuildRecords]
  /\ \A j \in Builds : build[j].pc # "idle" => build[j].source \in Sources
  /\ local \in [DockerHosts -> [ImageTags -> MaybeBuild]]
  /\ registry \in [ImageTags -> MaybeBuild]
  /\ container_images \subseteq [run : Builds, tag : Commits, digest : MaybeBuild]

\* A build of that commit, which has resolved what it deploys: its source no
\* longer changes.
BuiltFrom(b, commit) == b # NoBuild => build[b].pc # "idle" /\ CommitOf(b) = commit

\* The tags with a commit in them name builds of it: every one, unlike those
\* with a branch, or "latest", which move.
TagsAreHonest ==
  \A c \in Commits :
    /\ \A h \in DockerHosts : BuiltFrom(local[h][ShaTag(c)], c) /\ BuiltFrom(local[h][LocalTag(c)], c)
    /\ BuiltFrom(registry[ShaTag(c)], c)

RowsAreHonest == \A row \in container_images : BuiltFrom(row.digest, row.tag)

\* What a run has read, or started, is of its commit.
ReadsAreHonest(j) ==
  /\ build[j].pc \in {"idle", "building", "built"} => build[j].pushed = NoBuild
  /\ IF build[j].pc = "idle" THEN build[j].digest = NoBuild /\ build[j].image = NoBuild
     ELSE /\ BuiltFrom(build[j].digest, CommitOf(j)) /\ BuiltFrom(build[j].pushed, CommitOf(j))
          /\ BuiltFrom(build[j].image, CommitOf(j))

AfterBuild == {"built", "pushing", "pushed", "refused", "recording", "deploying"}

\* A run that has built finds its tags on its host; one that pushed the first
\* of them finds it in the registry; one for a cloud has pushed it.
TagsAreThere(j) ==
  LET source == build[j].source IN
  /\ build[j].pc \in AfterBuild => \A k \in 1 .. Len(Tagged(source)) : Here(j)[Tag(j, k)] # NoBuild
  /\ build[j].pc \in {"pushing", "pushed", "refused"} => source.pushes /\ build[j].next \in 1 .. 3
  /\ build[j].pc = "pushed" /\ build[j].next = 1 => registry[Tag(j, 1)] # NoBuild
  /\ build[j].pc \in AfterBuild /\ build[j].pushed # NoBuild => registry[Tag(j, 1)] # NoBuild
  /\ build[j].pc \in AfterBuild \cup {"building"} /\ source.cloud => source.pushes
  /\ build[j].pc \in {"recording", "deploying"} /\ source.cloud => build[j].pushed # NoBuild

DoneHasImage(j) == build[j].pc = "done" => build[j].image # NoBuild

RunIsHonest(j) == ReadsAreHonest(j) /\ TagsAreThere(j) /\ DoneHasImage(j)

ImageInv ==
  /\ ImageTyped /\ TagsAreHonest /\ RowsAreHonest
  /\ \A j \in Builds : RunIsHonest(j)

LEMMA ImageTypes == ImageTyped => ImageTypeOK
BY DEF ImageTyped, ImageTypeOK, BuildRecords, MaybeBuild, BuildPcs

LEMMA CommitIsDeployed == ImageInv => DeployedIsCommit
<1> SUFFICES ASSUME ImageInv PROVE DeployedIsCommit
  OBVIOUS
<1>1. ASSUME NEW j \in Builds, build[j].pc = "done"
      PROVE  build[j].image # NoBuild /\ CommitOf(build[j].image) = CommitOf(j)
  BY <1>1 DEF ImageInv, RunIsHonest, ReadsAreHonest, DoneHasImage, BuiltFrom
<1>2. ASSUME NEW row \in container_images, row.digest # NoBuild PROVE CommitOf(row.digest) = row.tag
  BY <1>2 DEF ImageInv, RowsAreHonest, BuiltFrom
<1> QED BY <1>1, <1>2 DEF DeployedIsCommit

\* Tags of different kinds, and of different commits, are different.
LEMMA TagsDiffer ==
    ASSUME NEW c \in Commits, NEW d \in Commits
    PROVE  /\ ShaTag(c) \in ImageTags /\ LocalTag(c) \in ImageTags
           /\ ShaTag(c) # LocalTag(d) /\ (c # d => ShaTag(c) # ShaTag(d) /\ LocalTag(c) # LocalTag(d))
           /\ \A b \in Branches : ShaTag(c) # <<"branch", b>> /\ LocalTag(c) # <<"branch", b>>
           /\ ShaTag(c) # <<"latest", 0>> /\ LocalTag(c) # <<"latest", 0>>
BY DEF ShaTag, LocalTag, ImageTags

LEMMA ImageStarts == ImageInit => ImageInv
<1> SUFFICES ASSUME ImageInit PROVE ImageInv
  OBVIOUS
<1>1. ImageTyped
  BY DEF ImageInit, ImageTyped, BuildRecords, MaybeBuild, BuildPcs
<1>2. TagsAreHonest
  BY TagsDiffer DEF ImageInit, TagsAreHonest, BuiltFrom
<1>3. RowsAreHonest
  BY DEF ImageInit, RowsAreHonest
<1>4. ASSUME NEW j \in Builds PROVE RunIsHonest(j)
  BY DEF ImageInit, RunIsHonest, ReadsAreHonest, TagsAreThere, DoneHasImage, AfterBuild
<1> QED BY <1>1, <1>2, <1>3, <1>4 DEF ImageInv

LEMMA TagsOfSource ==
    ASSUME NEW source \in Sources
    PROVE  /\ Len(Tagged(source)) = IF source.pushes THEN 3 ELSE 1
           /\ \A k \in 1 .. Len(Tagged(source)) : Tagged(source)[k] \in ImageTags
           /\ Tagged(source)[1] = IF source.pushes THEN ShaTag(source.commit) ELSE LocalTag(source.commit)
           /\ \A k \in 2 .. Len(Tagged(source)) :
                Tagged(source)[k] \in {<<"branch", source.branch>>, <<"latest", 0>>}
BY DEF Sources, Tagged, generateTags, ImageTags

\* A run that has resolved what it deploys goes on deploying it, and all that
\* is said of the builds is kept.
LEMMA SourceStays ==
    ASSUME ImageInv, NEW j \in Builds, NEW r \in BuildRecords, build' = [build EXCEPT ![j] = r],
           r.pc # "idle", build[j].pc # "idle" => r.source = build[j].source
    PROVE  \A b \in MaybeBuild : \A c : BuiltFrom(b, c) => BuiltFrom(b, c)'
BY DEF ImageInv, ImageTyped, BuiltFrom, MaybeBuild, CommitOf

\* A step of one run keeps the invariant if what it writes is honest, and no
\* tag goes.
LEMMA RunKeeps ==
    ASSUME ImageInv, NEW j \in Builds, NEW r \in BuildRecords, build' = [build EXCEPT ![j] = r],
           r.pc # "idle", r.source \in Sources, build[j].pc # "idle" => r.source = build[j].source,
           local' \in [DockerHosts -> [ImageTags -> MaybeBuild]],
           registry' \in [ImageTags -> MaybeBuild],
           \A h \in DockerHosts, t \in ImageTags : local[h][t] # NoBuild => local'[h][t] # NoBuild,
           \A t \in ImageTags : registry[t] # NoBuild => registry'[t] # NoBuild,
           container_images' \subseteq [run : Builds, tag : Commits, digest : MaybeBuild],
           TagsAreHonest', RowsAreHonest', RunIsHonest(j)'
    PROVE  ImageInv'
<1>1. ImageTyped'
  BY DEF ImageInv, ImageTyped
<1>2. ASSUME NEW i \in Builds, i # j PROVE RunIsHonest(i)'
  <2>1. build'[i] = build[i] /\ build[i] \in BuildRecords
    BY <1>2 DEF ImageInv, ImageTyped
  <2>2. RunIsHonest(i) /\ (build[i].pc # "idle" => build[i].source \in Sources)
    BY DEF ImageInv, ImageTyped
  <2>3. CommitOf(i)' = CommitOf(i) /\ {build[i].digest, build[i].pushed, build[i].image} \subseteq MaybeBuild
    BY <2>1 DEF CommitOf, BuildRecords
  <2>4. ReadsAreHonest(i)'
    BY <2>1, <2>2, <2>3, SourceStays DEF RunIsHonest, ReadsAreHonest
  <2>5. TagsAreThere(i)'
    <3>1. CASE build[i].pc \in AfterBuild
      <4>1. build[i].source \in Sources /\ build[i].source.host \in DockerHosts
        BY <2>2, <3>1 DEF AfterBuild, Sources
      <4>2. \A k \in 1 .. Len(Tagged(build[i].source)) :
              /\ Tag(i, k)' = Tag(i, k) /\ Tag(i, k) \in ImageTags
              /\ Here(i)[Tag(i, k)] # NoBuild => Here(i)'[Tag(i, k)] # NoBuild
        BY <2>1, <4>1, TagsOfSource DEF Tag, Here
      <4>3. 1 \in 1 .. Len(Tagged(build[i].source))
        BY <4>1, TagsOfSource
      <4> QED BY <2>1, <2>2, <4>2, <4>3 DEF RunIsHonest, TagsAreThere
    <3>2. CASE build[i].pc \notin AfterBuild
      BY <2>1, <2>2, <3>2 DEF RunIsHonest, TagsAreThere, AfterBuild
    <3> QED BY <3>1, <3>2
  <2>6. DoneHasImage(i)'
    BY <2>1, <2>2 DEF RunIsHonest, DoneHasImage
  <2> QED BY <2>4, <2>5, <2>6 DEF RunIsHonest
<1> QED BY <1>1, <1>2 DEF ImageInv

\* ... what was honest is, if nothing but the run has changed.
LEMMA HonestStays ==
    ASSUME ImageInv, NEW j \in Builds, NEW r \in BuildRecords, build' = [build EXCEPT ![j] = r],
           r.pc # "idle", build[j].pc # "idle" => r.source = build[j].source
    PROVE  /\ UNCHANGED <<local, registry>> => TagsAreHonest'
           /\ UNCHANGED container_images => RowsAreHonest'
<1>1. \A b \in MaybeBuild : \A c : BuiltFrom(b, c) => BuiltFrom(b, c)'
  BY SourceStays
<1>2. ASSUME UNCHANGED <<local, registry>> PROVE TagsAreHonest'
  <2>1. ASSUME NEW c \in Commits, NEW h \in DockerHosts
        PROVE  BuiltFrom(local[h][ShaTag(c)], c)' /\ BuiltFrom(local[h][LocalTag(c)], c)'
               /\ BuiltFrom(registry[ShaTag(c)], c)'
    <3>1. {local[h][ShaTag(c)], local[h][LocalTag(c)], registry[ShaTag(c)]} \subseteq MaybeBuild
      BY TagsDiffer DEF ImageInv, ImageTyped
    <3> QED BY <1>1, <1>2, <3>1 DEF ImageInv, TagsAreHonest, BuiltFrom, ShaTag, LocalTag
  <2>2. ASSUME NEW c \in Commits PROVE BuiltFrom(registry[ShaTag(c)], c)'
    <3>1. registry[ShaTag(c)] \in MaybeBuild
      BY TagsDiffer DEF ImageInv, ImageTyped
    <3> QED BY <1>1, <1>2, <3>1 DEF ImageInv, TagsAreHonest, BuiltFrom, ShaTag
  <2> QED BY <2>1, <2>2 DEF TagsAreHonest
<1>3. ASSUME UNCHANGED container_images PROVE RowsAreHonest'
  BY <1>1, <1>3 DEF ImageInv, ImageTyped, RowsAreHonest, BuiltFrom
<1> QED BY <1>2, <1>3

-----------------------------------------------------------------------------

\* The record of a run, and what the invariant says of it.
LEMMA RunOf ==
    ASSUME ImageInv, NEW j \in Builds
    PROVE  /\ build[j] \in BuildRecords /\ RunIsHonest(j)
           /\ build[j].pc # "idle" =>
                /\ build[j].source \in Sources /\ build[j].source.host \in DockerHosts
                /\ build[j].source.commit \in Commits
                /\ Tagged(build[j].source)[1] \in ImageTags
                /\ 1 \in 1 .. Len(Tagged(build[j].source))
BY TagsOfSource DEF ImageInv, ImageTyped, Sources

LEMMA ResolveKeeps ==
    ASSUME ImageInv, NEW j \in Builds, NEW source \in Sources, resolveDeployImage(j, source) PROVE ImageInv'
<1>1. PICK pc \in {"failed", "given", "building"} :
        /\ build' = [build EXCEPT ![j].pc = pc, ![j].source = source]
        /\ pc = "building" => (source.cloud => source.pushes)
  BY DEF resolveDeployImage
<1>2. build[j].pc = "idle" /\ UNCHANGED <<local, registry, container_images>>
  BY DEF resolveDeployImage
<1> DEFINE r == [build[j] EXCEPT !.pc = pc, !.source = source]
<1>3. build' = [build EXCEPT ![j] = r] /\ r.pc = pc /\ r.source = source
  BY <1>1, RunOf DEF BuildRecords
<1>4. r \in BuildRecords /\ build'[j] = r
  BY <1>3, RunOf DEF BuildRecords, BuildPcs, ImageInv, ImageTyped
<1>5. r.digest = NoBuild /\ r.pushed = NoBuild /\ r.image = NoBuild
  BY <1>2, RunOf DEF RunIsHonest, ReadsAreHonest, BuildRecords
<1>6. RunIsHonest(j)'
  BY <1>1, <1>3, <1>4, <1>5
  DEF RunIsHonest, ReadsAreHonest, TagsAreThere, DoneHasImage, BuiltFrom, AfterBuild
<1> HIDE DEF r
<1> QED BY <1>2, <1>3, <1>4, <1>6, RunKeeps, HonestStays DEF ImageInv, ImageTyped

LEMMA BuildImageKeeps == ASSUME ImageInv, NEW j \in Builds, buildImage(j) PROVE ImageInv'
<1> DEFINE source == build[j].source
           h == source.host
           named == {Tag(j, k) : k \in 1 .. Len(Tagged(source))}
           r == [build[j] EXCEPT !.pc = "built"]
<1>1. /\ build[j].pc = "building" /\ UNCHANGED <<registry, container_images>>
      /\ build' = [build EXCEPT ![j] = r] /\ r.pc = "built" /\ r.source = source
  BY RunOf DEF buildImage, BuildRecords
<1>2. r \in BuildRecords /\ source \in Sources /\ h \in DockerHosts /\ build'[j] = r
  BY <1>1, RunOf DEF BuildRecords, BuildPcs, ImageInv, ImageTyped
<1>3. local' = [local EXCEPT ![h] = [t \in ImageTags |-> IF t \in named THEN j ELSE local[h][t]]]
  BY <1>2 DEF buildImage, ImageInv, ImageTyped
<1>4. /\ local' \in [DockerHosts -> [ImageTags -> MaybeBuild]]
      /\ \A g \in DockerHosts, t \in ImageTags :
           local'[g][t] = IF g = h /\ t \in named THEN j ELSE local[g][t]
  BY <1>2, <1>3 DEF ImageInv, ImageTyped, MaybeBuild
<1>5. \A b \in MaybeBuild : \A c : BuiltFrom(b, c) => BuiltFrom(b, c)'
  BY <1>1, <1>2, SourceStays
<1>6. build'[j].pc # "idle" /\ build'[j].source.commit = source.commit
  BY <1>1, <1>2
<1>7. \A c \in Commits : ShaTag(c) \in named \/ LocalTag(c) \in named => c = source.commit
  <2>1. source.commit \in Commits /\ source.branch \in Branches
    BY <1>2 DEF Sources
  <2>2. \A t \in named : t \in {ShaTag(source.commit), LocalTag(source.commit),
                                <<"branch", source.branch>>, <<"latest", 0>>}
    <3> SUFFICES ASSUME NEW k \in 1 .. Len(Tagged(source))
                 PROVE  Tag(j, k) \in {ShaTag(source.commit), LocalTag(source.commit),
                                       <<"branch", source.branch>>, <<"latest", 0>>}
      OBVIOUS
    <3>1. k = 1 \/ k \in 2 .. Len(Tagged(source))
      BY <1>2, TagsOfSource
    <3> QED BY <1>2, <3>1, TagsOfSource DEF Tag
  <2> QED BY <2>1, <2>2, TagsDiffer
<1>8. TagsAreHonest'
  <2>1. ASSUME NEW c \in Commits, NEW g \in DockerHosts, NEW t \in {ShaTag(c), LocalTag(c)}
        PROVE  BuiltFrom(local[g][t], c)'
    <3>1. t \in ImageTags /\ local[g][t] \in MaybeBuild /\ BuiltFrom(local[g][t], c)
      BY TagsDiffer DEF ImageInv, ImageTyped, TagsAreHonest
    <3>2. CASE g = h /\ t \in named
      <4>1. local'[g][t] = j /\ c = source.commit
        BY <1>4, <1>7, <3>1, <3>2
      <4> QED BY <1>6, <4>1 DEF BuiltFrom, CommitOf
    <3>3. CASE ~(g = h /\ t \in named)
      <4>1. local'[g][t] = local[g][t]
        BY <1>4, <3>1, <3>3
      <4> QED BY <1>5, <3>1, <4>1 DEF BuiltFrom
    <3> QED BY <3>2, <3>3
  <2>2. ASSUME NEW c \in Commits PROVE BuiltFrom(registry[ShaTag(c)], c)'
    <3>1. registry[ShaTag(c)] \in MaybeBuild /\ BuiltFrom(registry[ShaTag(c)], c)
      BY TagsDiffer DEF ImageInv, ImageTyped, TagsAreHonest
    <3> QED BY <1>1, <1>5, <3>1 DEF BuiltFrom
  <2>3. ASSUME NEW c \in Commits, NEW g \in DockerHosts
        PROVE  BuiltFrom(local[g][ShaTag(c)], c)' /\ BuiltFrom(local[g][LocalTag(c)], c)'
    BY <2>1 DEF BuiltFrom, ShaTag, LocalTag
  <2> QED BY <2>2, <2>3 DEF TagsAreHonest
<1>9. RunIsHonest(j)'
  <2>1. r.pushed = NoBuild /\ r.digest \in MaybeBuild /\ r.image \in MaybeBuild
        /\ BuiltFrom(r.digest, source.commit) /\ BuiltFrom(r.image, source.commit)
    BY <1>1, RunOf DEF RunIsHonest, ReadsAreHonest, BuildRecords, CommitOf
  <2>2. ReadsAreHonest(j)'
    BY <1>1, <1>2, <1>5, <2>1 DEF ReadsAreHonest, BuiltFrom, CommitOf
  <2>3. \A k \in 1 .. Len(Tagged(source)) : Here(j)'[Tag(j, k)'] # NoBuild
    <3>1. \A k \in 1 .. Len(Tagged(source)) : Tag(j, k)' = Tag(j, k) /\ Tag(j, k) \in ImageTags
      BY <1>1, <1>2, TagsOfSource DEF Tag
    <3>2. Here(j)' = local'[h]
      BY <1>1, <1>2 DEF Here
    <3> QED BY <1>2, <1>4, <3>1, <3>2, BuildsAssumption
  <2>4. TagsAreThere(j)'
    BY <1>1, <1>2, <2>1, <2>3, RunOf DEF TagsAreThere, RunIsHonest, AfterBuild
  <2> QED BY <1>1, <1>2, <2>2, <2>4 DEF RunIsHonest, DoneHasImage
<1>10. \A g \in DockerHosts, t \in ImageTags : local[g][t] # NoBuild => local'[g][t] # NoBuild
  BY <1>4, BuildsAssumption
<1>11. RowsAreHonest' /\ container_images' \subseteq [run : Builds, tag : Commits, digest : MaybeBuild]
       /\ registry' \in [ImageTags -> MaybeBuild]
  BY <1>1, <1>2, HonestStays DEF ImageInv, ImageTyped
<1> HIDE DEF r, named
<1> QED BY <1>1, <1>2, <1>4, <1>8, <1>9, <1>10, <1>11, RunKeeps

\* A step of a run that leaves the tags alone.
LEMMA TagsStayKeeps ==
    ASSUME ImageInv, NEW j \in Builds, NEW r \in BuildRecords, build' = [build EXCEPT ![j] = r],
           r.pc # "idle", build[j].pc # "idle", r.source = build[j].source,
           UNCHANGED <<local, registry, container_images>>, RunIsHonest(j)'
    PROVE  ImageInv'
<1>1. r.source \in Sources
  BY RunOf
<1> QED BY <1>1, RunKeeps, HonestStays DEF ImageInv, ImageTyped

LEMMA FailBuildKeeps == ASSUME ImageInv, NEW j \in Builds, FailBuild(j) PROVE ImageInv'
<1> DEFINE r == [build[j] EXCEPT !.pc = "failed"]
<1>1. /\ build[j].pc = "building" /\ UNCHANGED <<local, registry, container_images>>
      /\ build' = [build EXCEPT ![j] = r] /\ r.pc = "failed" /\ r.source = build[j].source
  BY RunOf DEF FailBuild, BuildRecords
<1>2. r \in BuildRecords /\ build'[j] = r
  BY <1>1, RunOf DEF BuildRecords, BuildPcs, ImageInv, ImageTyped
<1>3. \A b \in MaybeBuild : \A c : BuiltFrom(b, c) => BuiltFrom(b, c)'
  BY <1>1, <1>2, SourceStays
<1>4. ReadsAreHonest(j)'
  BY <1>1, <1>2, <1>3, RunOf DEF RunIsHonest, ReadsAreHonest, BuildRecords, CommitOf, BuiltFrom
<1>5. TagsAreThere(j)' /\ DoneHasImage(j)'
  BY <1>1, <1>2 DEF TagsAreThere, DoneHasImage, AfterBuild
<1> HIDE DEF r
<1> QED BY <1>1, <1>2, <1>4, <1>5, TagsStayKeeps DEF RunIsHonest

\* The tag that is deployed is one with the commit in it: what a host, or the
\* registry, has under it is of the commit.
LEMMA FirstTagIsHonest ==
    ASSUME ImageInv, NEW j \in Builds, build[j].pc # "idle"
    PROVE  /\ Tag(j, 1) \in ImageTags /\ Here(j)[Tag(j, 1)] \in MaybeBuild
           /\ registry[Tag(j, 1)] \in MaybeBuild
           /\ BuiltFrom(Here(j)[Tag(j, 1)], CommitOf(j))
           /\ build[j].source.pushes => BuiltFrom(registry[Tag(j, 1)], CommitOf(j))
<1>1. /\ build[j].source \in Sources /\ build[j].source.host \in DockerHosts
      /\ build[j].source.commit \in Commits /\ Tag(j, 1) \in ImageTags
  BY RunOf DEF Tag
<1>2. Tag(j, 1) = IF build[j].source.pushes THEN ShaTag(CommitOf(j)) ELSE LocalTag(CommitOf(j))
  BY <1>1, TagsOfSource DEF Tag, CommitOf
<1> QED BY <1>1, <1>2 DEF ImageInv, ImageTyped, TagsAreHonest, Here, CommitOf

LEMMA InspectBuildKeeps == ASSUME ImageInv, NEW j \in Builds, InspectBuild(j) PROVE ImageInv'
<1>1. /\ build[j].pc = "built" /\ UNCHANGED <<local, registry, container_images>>
      /\ build[j] \in BuildRecords /\ build[j].source \in Sources /\ RunIsHonest(j)
  BY RunOf DEF InspectBuild
<1>2. PICK digest \in getImageDigest(j, 1) :
        build' = [build EXCEPT ![j].digest = digest, ![j].next = 1,
                    ![j].pc = IF build[j].source.pushes THEN "pushing" ELSE "recording"]
  BY DEF InspectBuild
<1> DEFINE pc == IF build[j].source.pushes THEN "pushing" ELSE "recording"
           r == [build[j] EXCEPT !.digest = digest, !.next = 1, !.pc = pc]
<1>3. digest \in MaybeBuild /\ BuiltFrom(digest, CommitOf(j))
  BY <1>1, FirstTagIsHonest DEF getImageDigest, MaybeBuild, BuiltFrom
<1>4. /\ build' = [build EXCEPT ![j] = r] /\ r.source = build[j].source /\ r.digest = digest
      /\ r.pushed = build[j].pushed /\ r.image = build[j].image /\ r.next = 1
      /\ r.pc = IF build[j].source.pushes THEN "pushing" ELSE "recording"
  BY <1>1, <1>2 DEF BuildRecords
<1>5. r \in BuildRecords /\ build'[j] = r
  <2>1. pc \in BuildPcs /\ 1 \in 0 .. 3
    BY DEF BuildPcs
  <2> HIDE DEF pc
  <2> QED BY <1>1, <1>3, <1>4, <2>1 DEF BuildRecords, ImageInv, ImageTyped
<1> HIDE DEF r
<1>6. \A b \in MaybeBuild : \A c : BuiltFrom(b, c) => BuiltFrom(b, c)'
  BY <1>1, <1>4, <1>5, SourceStays
<1>7. r.pushed = NoBuild /\ r.image \in MaybeBuild /\ BuiltFrom(r.image, CommitOf(j))
  BY <1>1, <1>4 DEF RunIsHonest, ReadsAreHonest, BuildRecords
<1>8. ReadsAreHonest(j)'
  BY <1>3, <1>4, <1>5, <1>6, <1>7 DEF ReadsAreHonest, BuiltFrom, CommitOf
<1>9. TagsAreThere(j)'
  <2>1. \A k \in 1 .. Len(Tagged(build[j].source)) : Here(j)[Tag(j, k)] # NoBuild
    BY <1>1 DEF RunIsHonest, TagsAreThere, AfterBuild
  <2>2. Here(j)' = Here(j) /\ \A k : Tag(j, k)' = Tag(j, k)
    BY <1>1, <1>4, <1>5 DEF Here, Tag
  <2> QED BY <1>1, <1>4, <1>5, <1>7, <2>1, <2>2 DEF RunIsHonest, TagsAreThere, AfterBuild
<1> QED BY <1>1, <1>4, <1>5, <1>8, <1>9, TagsStayKeeps DEF RunIsHonest, DoneHasImage

LEMMA PushKeeps == ASSUME ImageInv, NEW j \in Builds, NEW ok \in BOOLEAN, pushImage(j, ok) PROVE ImageInv'
<1> DEFINE t == Tag(j, build[j].next)
           pc == IF ok THEN "pushed" ELSE "refused"
           r == [build[j] EXCEPT !.pc = pc]
<1>1. /\ build[j].pc = "pushing" /\ UNCHANGED <<local, container_images>>
      /\ build[j] \in BuildRecords /\ build[j].source \in Sources /\ RunIsHonest(j)
  BY RunOf DEF pushImage
<1>2. /\ build' = [build EXCEPT ![j] = r] /\ r.source = build[j].source /\ r.digest = build[j].digest
      /\ r.pushed = build[j].pushed /\ r.image = build[j].image /\ r.next = build[j].next
      /\ r.pc = pc /\ r.pc # "idle"
  BY <1>1 DEF pushImage, BuildRecords
<1>3. r \in BuildRecords /\ build'[j] = r
  <2>1. pc \in BuildPcs
    BY DEF BuildPcs
  <2> HIDE DEF pc
  <2> QED BY <1>1, <1>2, <2>1 DEF BuildRecords, ImageInv, ImageTyped
<1>4. registry' = [registry EXCEPT ![t] = Here(j)[t]] \/ (~ok /\ UNCHANGED registry)
  BY DEF pushImage
<1>5. build[j].source.pushes /\ build[j].next \in 1 .. 3 /\ build[j].source.commit \in Commits
      /\ build[j].source.host \in DockerHosts /\ build[j].source.branch \in Branches
  BY <1>1 DEF RunIsHonest, TagsAreThere, Sources
<1>6. /\ t \in ImageTags /\ Here(j)[t] \in MaybeBuild /\ Here(j)[t] # NoBuild
      /\ build[j].next = 1 => t = ShaTag(CommitOf(j))
      /\ build[j].next # 1 => t \in {<<"branch", build[j].source.branch>>, <<"latest", 0>>}
  <2>1. build[j].next \in 1 .. Len(Tagged(build[j].source))
    BY <1>1, <1>5, TagsOfSource
  <2>2. t \in ImageTags /\ Here(j)[t] # NoBuild
    BY <1>1, <2>1, TagsOfSource DEF Tag, RunIsHonest, TagsAreThere, AfterBuild
  <2>3. Here(j)[t] \in MaybeBuild
    BY <1>5, <2>2 DEF Here, ImageInv, ImageTyped
  <2>4. build[j].next = 1 \/ build[j].next \in 2 .. Len(Tagged(build[j].source))
    BY <2>1, <1>5
  <2> QED BY <1>1, <1>5, <2>2, <2>3, <2>4, TagsOfSource DEF Tag, CommitOf
<1>7. \A b \in MaybeBuild : \A c : BuiltFrom(b, c) => BuiltFrom(b, c)'
  BY <1>1, <1>2, <1>3, SourceStays
<1> HIDE DEF r, t
<1>8. /\ registry' \in [ImageTags -> MaybeBuild]
      /\ \A u \in ImageTags : registry'[u] = registry[u] \/ (u = t /\ registry'[u] = Here(j)[t])
      /\ \A u \in ImageTags : registry[u] # NoBuild => registry'[u] # NoBuild
      /\ ok => registry'[t] = Here(j)[t]
  BY <1>4, <1>6 DEF ImageInv, ImageTyped
<1>9. TagsAreHonest'
  <2>1. ASSUME NEW c \in Commits PROVE BuiltFrom(registry[ShaTag(c)], c)'
    <3>1. /\ ShaTag(c) \in ImageTags /\ registry[ShaTag(c)] \in MaybeBuild
          /\ BuiltFrom(registry[ShaTag(c)], c)
      BY TagsDiffer DEF ImageInv, ImageTyped, TagsAreHonest
    <3>2. CASE registry'[ShaTag(c)] = registry[ShaTag(c)]
      BY <1>7, <3>1, <3>2 DEF BuiltFrom, ShaTag
    <3>3. CASE ShaTag(c) = t /\ registry'[ShaTag(c)] = Here(j)[t]
      <4>1. build[j].next = 1 /\ c = CommitOf(j)
        BY <1>5, <1>6, <3>3, TagsDiffer DEF CommitOf
      <4>2. BuiltFrom(Here(j)[t], c)
        <5>1. t = Tag(j, 1)
          BY <1>5, <1>1, <4>1, TagsOfSource DEF t
        <5> QED BY <1>1, <4>1, <5>1, FirstTagIsHonest
      <4> QED BY <1>6, <1>7, <3>3, <4>2 DEF BuiltFrom, ShaTag
    <3> QED BY <1>8, <3>1, <3>2, <3>3
  <2>2. ASSUME NEW c \in Commits, NEW h \in DockerHosts
        PROVE  BuiltFrom(local[h][ShaTag(c)], c)' /\ BuiltFrom(local[h][LocalTag(c)], c)'
    <3>1. /\ {local[h][ShaTag(c)], local[h][LocalTag(c)]} \subseteq MaybeBuild
          /\ BuiltFrom(local[h][ShaTag(c)], c) /\ BuiltFrom(local[h][LocalTag(c)], c)
      BY TagsDiffer DEF ImageInv, ImageTyped, TagsAreHonest
    <3> QED BY <1>1, <1>7, <3>1 DEF BuiltFrom, ShaTag, LocalTag
  <2> QED BY <2>1, <2>2 DEF TagsAreHonest
<1>10. ReadsAreHonest(j)'
  <2>1. /\ {r.digest, r.pushed, r.image} \subseteq MaybeBuild
        /\ BuiltFrom(r.digest, CommitOf(j)) /\ BuiltFrom(r.pushed, CommitOf(j))
        /\ BuiltFrom(r.image, CommitOf(j))
    BY <1>1, <1>2 DEF RunIsHonest, ReadsAreHonest, BuildRecords
  <2> QED BY <1>2, <1>3, <1>7, <2>1 DEF ReadsAreHonest, BuiltFrom, CommitOf
<1>11. TagsAreThere(j)'
  <2>1. \A k \in 1 .. Len(Tagged(build[j].source)) : Here(j)[Tag(j, k)] # NoBuild
    BY <1>1 DEF RunIsHonest, TagsAreThere, AfterBuild
  <2>2. Here(j)' = Here(j) /\ \A k : Tag(j, k)' = Tag(j, k)
    BY <1>1, <1>2, <1>3 DEF Here, Tag
  <2>3. Tag(j, 1) \in ImageTags
    BY <1>1, FirstTagIsHonest
  <2>4. r.pc = "pushed" /\ r.next = 1 => registry'[Tag(j, 1)] # NoBuild
    BY <1>2, <1>6, <1>8 DEF t
  <2>5. r.pushed # NoBuild => registry'[Tag(j, 1)] # NoBuild
    BY <1>1, <1>2, <1>8, <2>3 DEF RunIsHonest, TagsAreThere, AfterBuild
  <2> QED BY <1>1, <1>2, <1>3, <1>5, <2>1, <2>2, <2>4, <2>5
      DEF RunIsHonest, TagsAreThere, AfterBuild
<1>12. DoneHasImage(j)'
  BY <1>2, <1>3 DEF DoneHasImage
<1>13. RowsAreHonest' /\ container_images' \subseteq [run : Builds, tag : Commits, digest : MaybeBuild]
       /\ local' \in [DockerHosts -> [ImageTags -> MaybeBuild]]
       /\ \A h \in DockerHosts, u \in ImageTags : local[h][u] # NoBuild => local'[h][u] # NoBuild
  BY <1>1, <1>2, <1>3, HonestStays DEF ImageInv, ImageTyped
<1> QED BY <1>1, <1>2, <1>3, <1>8, <1>9, <1>10, <1>11, <1>12, <1>13, RunKeeps DEF RunIsHonest

LEMMA PushTagsKeeps == ASSUME ImageInv, NEW j \in Builds, pushTags(j) PROVE ImageInv'
<1> DEFINE k == build[j].next
           last == k = Len(Tagged(build[j].source))
<1>1. /\ build[j].pc \in {"pushed", "refused"} /\ UNCHANGED <<local, registry, container_images>>
      /\ build[j] \in BuildRecords /\ build[j].source \in Sources /\ RunIsHonest(j)
  BY RunOf DEF pushTags
<1>2. PICK digest \in (IF build[j].pc = "pushed" THEN getImageDigest(j, k) ELSE {NoBuild}) :
        LET first == IF k = 1 THEN digest ELSE build[j].pushed IN
          build' = [build EXCEPT
            ![j].pushed = first,
            ![j].next = IF last THEN k ELSE k + 1,
            ![j].pc = IF ~last THEN "pushing"
                      ELSE IF build[j].source.cloud /\ first = NoBuild THEN "failed"
                      ELSE "recording"]
  BY DEF pushTags
<1> DEFINE first == IF k = 1 THEN digest ELSE build[j].pushed
           next == IF last THEN k ELSE k + 1
           pc == IF ~last THEN "pushing"
                 ELSE IF build[j].source.cloud /\ first = NoBuild THEN "failed" ELSE "recording"
           r == [build[j] EXCEPT !.pushed = first, !.next = next, !.pc = pc]
<1>3. build[j].source.pushes /\ k \in 1 .. 3 /\ Len(Tagged(build[j].source)) = 3
  BY <1>1, TagsOfSource DEF RunIsHonest, TagsAreThere
<1>4. pc \in BuildPcs /\ pc # "idle" /\ next \in 0 .. 3 /\ (~last => next \in 1 .. 3)
  BY <1>3 DEF BuildPcs
<1>5. digest # NoBuild /\ k = 1 => build[j].pc = "pushed" /\ digest = Here(j)[Tag(j, 1)]
  BY <1>2 DEF getImageDigest
<1>6. first \in MaybeBuild /\ BuiltFrom(first, CommitOf(j))
  BY <1>1, <1>2, <1>5, FirstTagIsHonest
  DEF RunIsHonest, ReadsAreHonest, BuildRecords, MaybeBuild, BuiltFrom
<1>7. first # NoBuild => registry[Tag(j, 1)] # NoBuild
  BY <1>1, <1>5 DEF RunIsHonest, TagsAreThere, AfterBuild
<1>8. build' = [build EXCEPT ![j] = r]
  BY <1>1, <1>2 DEF BuildRecords
<1> HIDE DEF first, next, pc
<1>9. /\ r.source = build[j].source /\ r.digest = build[j].digest /\ r.pushed = first
      /\ r.image = build[j].image /\ r.next = next /\ r.pc = pc
  BY <1>1 DEF BuildRecords
<1>10. r \in BuildRecords /\ build'[j] = r
  BY <1>1, <1>4, <1>6, <1>8 DEF BuildRecords, ImageInv, ImageTyped
<1> HIDE DEF r
<1>11. \A b \in MaybeBuild : \A c : BuiltFrom(b, c) => BuiltFrom(b, c)'
  BY <1>1, <1>4, <1>8, <1>9, <1>10, SourceStays
<1>12. ReadsAreHonest(j)'
  <2>1. /\ {r.digest, r.image} \subseteq MaybeBuild
        /\ BuiltFrom(r.digest, CommitOf(j)) /\ BuiltFrom(r.image, CommitOf(j))
    BY <1>1, <1>9 DEF RunIsHonest, ReadsAreHonest, BuildRecords
  <2>2. pc \notin {"idle", "building", "built"}
    BY DEF pc
  <2>3. CommitOf(j)' = CommitOf(j)
    BY <1>9, <1>10 DEF CommitOf
  <2>4. ASSUME NEW b \in MaybeBuild, BuiltFrom(b, CommitOf(j))
        PROVE  b # NoBuild => build'[b].pc # "idle" /\ build'[b].source.commit = CommitOf(j)
    <3>1. PICK c : c = CommitOf(j)
      OBVIOUS
    <3>2. BuiltFrom(b, c)'
      BY <1>11, <2>4, <3>1
    <3> QED BY <3>1, <3>2 DEF BuiltFrom, CommitOf
  <2>5. /\ build'[j].digest = r.digest /\ build'[j].image = r.image /\ build'[j].pushed = first
        /\ build'[j].pc = pc
    BY <1>9, <1>10
  <2>6. /\ {build'[j].digest, build'[j].image, build'[j].pushed} \subseteq MaybeBuild
        /\ BuiltFrom(build'[j].digest, CommitOf(j)) /\ BuiltFrom(build'[j].image, CommitOf(j))
        /\ BuiltFrom(build'[j].pushed, CommitOf(j))
    BY <1>6, <2>1, <2>5
  <2>7. \A b \in {build'[j].digest, build'[j].image, build'[j].pushed} :
          b # NoBuild => build'[b].pc # "idle" /\ build'[b].source.commit = CommitOf(j)
    BY <2>4, <2>6
  <2>8. build'[j].source.commit = CommitOf(j)
    BY <2>3 DEF CommitOf
  <2>9. build'[j].pc \notin {"idle", "building", "built"}
    BY <2>2, <2>5
  <2> QED BY <2>7, <2>8, <2>9 DEF ReadsAreHonest, BuiltFrom, CommitOf
<1>13. TagsAreThere(j)'
  <2>1. \A i \in 1 .. Len(Tagged(build[j].source)) : Here(j)[Tag(j, i)] # NoBuild
    BY <1>1 DEF RunIsHonest, TagsAreThere, AfterBuild
  <2>2. Here(j)' = Here(j) /\ \A i : Tag(j, i)' = Tag(j, i)
    BY <1>1, <1>9, <1>10 DEF Here, Tag
  <2>3. pc \in {"pushing", "failed", "recording"} /\ (pc = "pushing" => ~last)
        /\ (pc = "recording" /\ build[j].source.cloud => first # NoBuild)
    BY DEF pc
  <2> QED BY <1>1, <1>3, <1>4, <1>7, <1>9, <1>10, <2>1, <2>2, <2>3
      DEF RunIsHonest, TagsAreThere, AfterBuild
<1>14. DoneHasImage(j)'
  <2>1. pc # "done"
    BY DEF pc
  <2> QED BY <1>9, <1>10, <2>1 DEF DoneHasImage
<1> QED BY <1>1, <1>4, <1>8, <1>9, <1>10, <1>12, <1>13, <1>14, TagsStayKeeps DEF RunIsHonest

LEMMA RecordKeeps == ASSUME ImageInv, NEW j \in Builds, recordBuiltImage(j) PROVE ImageInv'
<1> DEFINE r == [build[j] EXCEPT !.pc = "deploying"]
           row == [run |-> j, tag |-> build[j].source.commit, digest |-> Digest(j)]
<1>1. /\ build[j].pc = "recording" /\ UNCHANGED <<local, registry>>
      /\ build' = [build EXCEPT ![j] = r] /\ r.pc = "deploying"
      /\ r.source = build[j].source /\ r.digest = build[j].digest /\ r.pushed = build[j].pushed
      /\ r.image = build[j].image
      /\ build[j] \in BuildRecords /\ build[j].source \in Sources /\ RunIsHonest(j)
  BY RunOf DEF recordBuiltImage, BuildRecords
<1>2. r \in BuildRecords /\ build'[j] = r
  BY <1>1 DEF BuildRecords, BuildPcs, ImageInv, ImageTyped
<1>3. Digest(j) \in MaybeBuild /\ BuiltFrom(Digest(j), build[j].source.commit)
      /\ build[j].source.commit \in Commits
  BY <1>1 DEF Digest, RunIsHonest, ReadsAreHonest, BuildRecords, CommitOf, Sources
<1>4. container_images' \subseteq container_images \cup {row}
  BY DEF recordBuiltImage
<1> HIDE DEF r
<1>5. \A b \in MaybeBuild : \A c : BuiltFrom(b, c) => BuiltFrom(b, c)'
  BY <1>1, <1>2, SourceStays
<1>6. container_images' \subseteq [run : Builds, tag : Commits, digest : MaybeBuild]
  BY <1>3, <1>4 DEF ImageInv, ImageTyped
<1>7. RowsAreHonest'
  <2>1. row.digest = Digest(j) /\ row.tag = build[j].source.commit
    OBVIOUS
  <2>2. ASSUME NEW image \in container_images \cup {row} PROVE BuiltFrom(image.digest, image.tag)
    BY <1>3, <2>1 DEF ImageInv, RowsAreHonest
  <2>3. \A image \in container_images \cup {row} : image.digest \in MaybeBuild
    BY <1>3, <2>1 DEF ImageInv, ImageTyped
  <2> HIDE DEF row
  <2> QED BY <1>4, <1>5, <2>2, <2>3 DEF RowsAreHonest, BuiltFrom
<1>8. RunIsHonest(j)'
  <2>1. ReadsAreHonest(j)'
    BY <1>1, <1>2, <1>5 DEF RunIsHonest, ReadsAreHonest, BuildRecords, CommitOf, BuiltFrom
  <2>2. Here(j)' = Here(j) /\ \A i : Tag(j, i)' = Tag(j, i)
    BY <1>1, <1>2 DEF Here, Tag
  <2>3. TagsAreThere(j)'
    BY <1>1, <1>2, <2>2 DEF RunIsHonest, TagsAreThere, AfterBuild
  <2> QED BY <1>1, <1>2, <2>1, <2>3 DEF RunIsHonest, DoneHasImage
<1>9. TagsAreHonest'
  BY <1>1, <1>2, HonestStays
<1> QED BY <1>1, <1>2, <1>6, <1>7, <1>8, <1>9, RunKeeps DEF ImageInv, ImageTyped

LEMMA StartImageKeeps == ASSUME ImageInv, NEW j \in Builds, StartImage(j) PROVE ImageInv'
<1> DEFINE image == IF build[j].source.cloud THEN registry[Tag(j, 1)] ELSE Here(j)[Tag(j, 1)]
           r == [build[j] EXCEPT !.pc = "done", !.image = image]
<1>1. /\ build[j].pc = "deploying" /\ UNCHANGED <<local, registry, container_images>>
      /\ build' = [build EXCEPT ![j] = r] /\ r.pc = "done" /\ r.image = image
      /\ r.source = build[j].source /\ r.digest = build[j].digest /\ r.pushed = build[j].pushed
      /\ build[j] \in BuildRecords /\ build[j].source \in Sources /\ RunIsHonest(j)
  BY RunOf DEF StartImage, BuildRecords
<1>2. image \in MaybeBuild /\ BuiltFrom(image, CommitOf(j)) /\ image # NoBuild
  <2>1. build[j].source.cloud => build[j].source.pushes /\ registry[Tag(j, 1)] # NoBuild
    BY <1>1 DEF RunIsHonest, TagsAreThere, AfterBuild
  <2>2. Here(j)[Tag(j, 1)] # NoBuild
    BY <1>1, RunOf DEF RunIsHonest, TagsAreThere, AfterBuild
  <2> QED BY <1>1, <2>1, <2>2, FirstTagIsHonest
<1>3. r \in BuildRecords /\ build'[j] = r
  BY <1>1, <1>2 DEF BuildRecords, BuildPcs, ImageInv, ImageTyped
<1> HIDE DEF r, image
<1>4. \A b \in MaybeBuild : \A c : BuiltFrom(b, c) => BuiltFrom(b, c)'
  BY <1>1, <1>3, SourceStays
<1>5. ReadsAreHonest(j)'
  BY <1>1, <1>2, <1>3, <1>4 DEF RunIsHonest, ReadsAreHonest, BuildRecords, CommitOf, BuiltFrom
<1>6. TagsAreThere(j)' /\ DoneHasImage(j)'
  BY <1>1, <1>2, <1>3 DEF TagsAreThere, DoneHasImage, AfterBuild
<1> QED BY <1>1, <1>3, <1>5, <1>6, TagsStayKeeps DEF RunIsHonest

LEMMA ImageKeeps == ImageInv /\ [Imaging]_imageVars => ImageInv'
<1> SUFFICES ASSUME ImageInv, [Imaging]_imageVars PROVE ImageInv'
  OBVIOUS
<1>1. CASE Imaging
  BY <1>1, ResolveKeeps, BuildImageKeeps, FailBuildKeeps, InspectBuildKeeps, PushKeeps, PushTagsKeeps,
     RecordKeeps, StartImageKeeps DEF Imaging, buildDeployImage
<1>2. CASE UNCHANGED imageVars
  <2>1. build' = build /\ local' = local /\ registry' = registry /\ container_images' = container_images
    BY <1>2 DEF imageVars
  <2>2. ImageTyped' /\ TagsAreHonest' /\ RowsAreHonest'
    BY <2>1 DEF ImageInv, ImageTyped, TagsAreHonest, RowsAreHonest, BuiltFrom, CommitOf
  <2>3. ASSUME NEW j \in Builds PROVE RunIsHonest(j)'
    <3>1. ReadsAreHonest(j) /\ TagsAreThere(j) /\ DoneHasImage(j)
      BY DEF ImageInv, RunIsHonest
    <3>2. ReadsAreHonest(j)' /\ DoneHasImage(j)'
      BY <2>1, <3>1 DEF ReadsAreHonest, DoneHasImage, BuiltFrom, CommitOf
    <3>3. TagsAreThere(j)'
      BY <2>1, <3>1 DEF TagsAreThere, AfterBuild, Here, Tag
    <3> QED BY <3>2, <3>3 DEF RunIsHonest
  <2> QED BY <2>2, <2>3 DEF ImageInv
<1> QED BY <1>1, <1>2

\* The runs, the tags and the rows of images are well formed (buildDeployImage).
THEOREM ImageTypeCorrect == ImageSpec => []ImageTypeOK
BY ImageStarts, ImageKeeps, ImageTypes, PTL DEF ImageSpec, ImageInv

\* A run starts an image that was built from its commit, and so was the one
\* that is recorded with the commit, however the runs that share the tags
\* interleave their builds, pushes and inspections.
THEOREM ImagesAreOfTheirCommit == ImageSpec => []DeployedIsCommit
BY ImageStarts, ImageKeeps, CommitIsDeployed, PTL DEF ImageSpec

-----------------------------------------------------------------------------
(* Live views.                                                             *)

Count == 0 .. MaxVersion + MaxEvents
Counts == [Channels -> Count]

LiveTyped ==
  /\ hook \in {"run", "deployment"}
  /\ db \in Counts /\ atEnd \in Counts /\ view \in Counts /\ due \in Counts
  /\ db["main"] \in 0 .. 1
  /\ loaded \in 0 .. 4
  /\ page \in {"loading", "open", "closing", "closed"}
  /\ joined \subseteq Channels
  /\ events \in [Channels -> Seq(1 .. MaxVersion + MaxEvents)]
  /\ missed \in BOOLEAN /\ dropped \in BOOLEAN /\ refreshed \in BOOLEAN

HasRead(c) == \E i \in 1 .. loaded : Tables[i] = c

\* The tables only grow, and main's end came when they were as atEnd says.
EndWasReached ==
  IF db["main"] = 0 THEN atEnd = Nothing ELSE \A c \in Channels : atEnd[c] <= db[c]

\* A channel delivers the last writes of its table, in order.
EventsFollow ==
  \A c \in Channels :
    /\ Len(events[c]) <= db[c]
    /\ \A i \in 1 .. Len(events[c]) : events[c][i] = db[c] - Len(events[c]) + i
    /\ c \notin joined => events[c] = <<>>

\* A page that is not open yet has joined nothing; it opens when every table
\* is read.
PageLoads ==
  /\ page = "loading" <=> loaded < 4
  /\ page \in {"loading", "closed"} => joined = {}
  /\ page = "loading" => \A c \in Channels : ~HasRead(c) => view[c] = 0
  /\ page = "open" => ~IsOver(view)
  /\ page = "closing" => IsOver(view) /\ hook = "run"
  /\ view["main"] <= db["main"]

Excused(c) == c = "children" /\ dropped

\* What a page that missed nothing shows of a table it has read, with what
\* its channel has still to deliver, is all of it.
NothingIsLost ==
  ~missed => \A c \in Channels :
    /\ page = "loading" /\ HasRead(c) /\ ~IsOver(view) => view[c] = db[c]
    /\ page = "open" /\ c \notin joined => view[c] = db[c]
    /\ page \in {"open", "closing"} /\ c \in joined =>
         view[c] + Len(events[c]) = db[c] \/ Excused(c)

\* The end that a page shows: while it loads, and while it waits for the last
\* events.
EndIsComing ==
  ~missed => \A c \in Channels \ {"main"} :
    /\ page = "loading" /\ IsOver(view) /\ HasRead(c) => view[c] >= atEnd[c]
    /\ page = "closing" => view[c] + due[c] >= atEnd[c] \/ Excused(c)
    /\ page = "closing" /\ c \notin joined => view[c] >= atEnd[c] \/ Excused(c)
    /\ page = "closing" => due[c] <= Len(events[c])

LiveInv ==
  /\ LiveTyped /\ EndWasReached /\ EventsFollow /\ PageLoads /\ NothingIsLost /\ EndIsComing
  /\ ViewIsFinal

LEMMA LiveTypes == LiveTyped => LiveTypeOK
BY DEF LiveTyped, Counts, Count, LiveTypeOK

LEMMA BoundIsPositive == MaxVersion + MaxEvents \in Nat /\ 1 \in Count /\ 0 \in Count
                         /\ MaxVersion \in Nat /\ MaxEvents \in Nat
                         /\ MaxVersion <= MaxVersion + MaxEvents /\ MaxEvents <= MaxVersion + MaxEvents
                         /\ 1 <= MaxVersion
BY LiveAssumption DEF Count

LEMMA LiveStarts == LiveInit => LiveInv
<1> SUFFICES ASSUME LiveInit PROVE LiveInv
  OBVIOUS
<1>1. LiveTyped
  <2>1. Nothing \in Counts /\ Nothing["main"] = 0
    BY BoundIsPositive DEF Counts, Nothing, Channels
  <2>2. [c \in Channels |-> <<>>] \in [Channels -> Seq(1 .. MaxVersion + MaxEvents)]
    OBVIOUS
  <2>3. missed \in BOOLEAN /\ dropped \in BOOLEAN /\ refreshed \in BOOLEAN
    BY DEF LiveInit
  <2>4. /\ hook \in {"run", "deployment"}
        /\ db \in Counts /\ atEnd \in Counts /\ view \in Counts /\ due \in Counts
        /\ db["main"] \in 0 .. 1 /\ loaded \in 0 .. 4 /\ joined \subseteq Channels
        /\ page \in {"loading", "open", "closing", "closed"}
        /\ events \in [Channels -> Seq(1 .. MaxVersion + MaxEvents)]
    BY <2>1, <2>2 DEF LiveInit
  <2> QED BY <2>3, <2>4 DEF LiveTyped
<1>2. ~IsOver(view) /\ \A c \in Channels : ~HasRead(c) /\ view[c] = 0 /\ db[c] = 0 /\ events[c] = <<>>
  BY DEF LiveInit, IsOver, Nothing, Channels, HasRead
<1> QED BY <1>1, <1>2 DEF LiveInit, LiveInv, EndWasReached, EventsFollow, PageLoads, NothingIsLost,
        EndIsComing, ViewIsFinal, Nothing, Channels

\* What every later step of this proof knows of one table.
LEMMA TableTyped ==
    ASSUME LiveInv, NEW c \in Channels
    PROVE  /\ db[c] \in Nat /\ atEnd[c] \in Nat /\ view[c] \in Nat /\ due[c] \in Nat
           /\ Len(events[c]) \in Nat /\ events[c] \in Seq(1 .. MaxVersion + MaxEvents)
           /\ db[c] <= MaxVersion + MaxEvents /\ Len(events[c]) <= db[c]
BY BoundIsPositive DEF LiveInv, LiveTyped, Counts, Count, EventsFollow

LEMMA WriteKeeps == ASSUME LiveInv, NEW c \in Channels, Write(c) PROVE LiveInv'
<1>1. /\ UNCHANGED <<hook, view, loaded, page, joined, due, dropped, refreshed>>
      /\ db' = [db EXCEPT ![c] = db[c] + 1]
      /\ atEnd' = IF c = "main" THEN db ELSE atEnd
      /\ missed' = (missed \/ Unseen(c))
  BY DEF Write, LiveInv, LiveTyped, Counts
<1>2. db[c] + 1 \in Count /\ (c = "main" => db[c] = 0)
  BY BoundIsPositive, TableTyped DEF Write, Count, LiveInv, LiveTyped
<1>3. /\ db' \in Counts /\ db'["main"] \in 0 .. 1
      /\ \A x \in Channels : db'[x] = IF x = c THEN db[c] + 1 ELSE db[x]
  BY <1>1, <1>2 DEF LiveInv, LiveTyped, Counts, Channels
<1>4. /\ events' \in [Channels -> Seq(1 .. MaxVersion + MaxEvents)]
      /\ \A x \in Channels : events'[x] = IF x = c /\ c \in joined THEN Append(events[c], db[c] + 1)
                                                                   ELSE events[x]
  <2>1. db[c] + 1 \in 1 .. MaxVersion + MaxEvents
    BY <1>2, TableTyped, BoundIsPositive DEF Count
  <2>2. events \in [Channels -> Seq(1 .. MaxVersion + MaxEvents)]
    BY DEF LiveInv, LiveTyped
  <2>3. Append(events[c], db[c] + 1) \in Seq(1 .. MaxVersion + MaxEvents)
    BY <2>1, <2>2
  <2>4. events' = IF c \in joined THEN [events EXCEPT ![c] = Append(events[c], db[c] + 1)] ELSE events
    BY <2>2 DEF Write
  <2> QED BY <2>2, <2>3, <2>4
<1>5. LiveTyped'
  <2>1. atEnd' \in Counts
    BY <1>1 DEF LiveInv, LiveTyped
  <2>2. missed' \in BOOLEAN
    BY <1>1, Zenon DEF LiveInv, LiveTyped, Unseen
  <2> QED BY <1>1, <1>3, <1>4, <2>1, <2>2 DEF LiveInv, LiveTyped
<1>6. EndWasReached'
  <2>0. \A x \in Channels : db[x] \in Nat /\ db'[x] >= db[x] /\ (c # "main" => atEnd' = atEnd)
    BY <1>1, <1>3, TableTyped
  <2>1. CASE c = "main"
    <3>1. db'["main"] # 0 /\ atEnd' = db
      BY <1>1, <1>2, <1>3, <2>1
    <3> QED BY <2>0, <3>1 DEF EndWasReached
  <2>2. CASE c # "main"
    <3>1. db'["main"] = db["main"] /\ atEnd' = atEnd /\ EndWasReached
      BY <1>1, <1>3, <2>2 DEF LiveInv, Channels
    <3>2. \A x \in Channels : atEnd[x] \in Nat /\ db[x] \in Nat /\ db'[x] \in Nat
      BY <1>3, TableTyped
    <3> QED BY <2>0, <3>1, <3>2 DEF EndWasReached
  <2> QED BY <2>1, <2>2
<1>7. EventsFollow'
  <2> SUFFICES ASSUME NEW x \in Channels
               PROVE  /\ Len(events'[x]) <= db'[x]
                      /\ \A i \in 1 .. Len(events'[x]) : events'[x][i] = db'[x] - Len(events'[x]) + i
                      /\ x \notin joined' => events'[x] = <<>>
    BY DEF EventsFollow
  <2>1. /\ Len(events[x]) <= db[x]
        /\ \A i \in 1 .. Len(events[x]) : events[x][i] = db[x] - Len(events[x]) + i
        /\ x \notin joined => events[x] = <<>>
    BY DEF LiveInv, EventsFollow
  <2>2. CASE x = c /\ c \in joined
    <3>1. /\ Len(events'[x]) = Len(events[x]) + 1
          /\ \A i \in 1 .. Len(events[x]) : events'[x][i] = events[x][i]
          /\ events'[x][Len(events[x]) + 1] = db[x] + 1
      <4>1. events[x] \in Seq(1 .. MaxVersion + MaxEvents) /\ events'[x] = Append(events[x], db[x] + 1)
        BY <1>4, <2>2, TableTyped
      <4> QED BY <4>1
    <3>2. db[x] \in Nat /\ Len(events[x]) \in Nat /\ db'[x] = db[x] + 1
      BY <1>3, <2>2, TableTyped
    <3>3. x \in joined'
      BY <1>1, <2>2
    <3>4. ASSUME NEW i \in 1 .. Len(events'[x]) PROVE events'[x][i] = db'[x] - Len(events'[x]) + i
      <4>1. i \in 1 .. Len(events[x]) \/ i = Len(events[x]) + 1
        BY <3>1, <3>2
      <4>2. CASE i \in 1 .. Len(events[x])
        <5>1. events'[x][i] = db[x] - Len(events[x]) + i
          BY <2>1, <3>1, <4>2
        <5> QED BY <3>1, <3>2, <4>2, <5>1
      <4>3. CASE i = Len(events[x]) + 1
        BY <3>1, <3>2, <4>3
      <4> QED BY <4>1, <4>2, <4>3
    <3> QED BY <2>1, <3>1, <3>2, <3>3, <3>4
  <2>3. CASE x = c /\ c \notin joined
    BY <1>1, <1>3, <1>4, <2>1, <2>3, TableTyped
  <2>4. CASE x # c
    BY <1>1, <1>3, <1>4, <2>1, <2>4
  <2> QED BY <2>2, <2>3, <2>4
<1>8. PageLoads'
  <2>1. view["main"] <= db'["main"]
    BY <1>1, <1>3, TableTyped DEF LiveInv, PageLoads, Channels
  <2> QED BY <1>1, <2>1 DEF LiveInv, PageLoads, HasRead, IsOver
<1>9. ASSUME ~missed' PROVE ~missed /\ ~Unseen(c)
  BY <1>1, <1>9
<1>10. NothingIsLost'
  <2> SUFFICES ASSUME ~missed', NEW x \in Channels
               PROVE  /\ page = "loading" /\ HasRead(x) /\ ~IsOver(view) => view[x] = db'[x]
                      /\ page = "open" /\ x \notin joined => view[x] = db'[x]
                      /\ page \in {"open", "closing"} /\ x \in joined =>
                           view[x] + Len(events'[x]) = db'[x] \/ Excused(x)
    BY <1>1 DEF NothingIsLost, HasRead, IsOver, Excused
  <2>1. /\ page = "loading" /\ HasRead(x) /\ ~IsOver(view) => view[x] = db[x]
        /\ page = "open" /\ x \notin joined => view[x] = db[x]
        /\ page \in {"open", "closing"} /\ x \in joined =>
             view[x] + Len(events[x]) = db[x] \/ Excused(x)
    BY <1>9 DEF LiveInv, NothingIsLost
  <2>2. CASE x = c
    <3>1. page = "open" => HasRead(x) /\ ~IsOver(view)
      BY DEF LiveInv, PageLoads, LiveTyped, HasRead, Tables, Channels
    <3>2. x \notin joined => ~(page = "open") /\ ~(page = "loading" /\ HasRead(x) /\ ~IsOver(view))
      BY <1>9, <2>2, <3>1 DEF Unseen, HasRead
    <3>3. page = "loading" => x \notin joined
      BY DEF LiveInv, PageLoads
    <3>4. x \in joined => Len(events'[x]) = Len(events[x]) + 1
      BY <1>4, <2>2, TableTyped
    <3>5. /\ db[x] \in Nat /\ view[x] \in Nat /\ Len(events[x]) \in Nat /\ db'[x] = db[x] + 1
      BY <1>3, <2>2, TableTyped
    <3>6. CASE x \in joined
      BY <2>1, <3>3, <3>4, <3>5, <3>6 DEF LiveInv, PageLoads
    <3>7. CASE x \notin joined
      BY <3>2, <3>7
    <3> QED BY <3>6, <3>7
  <2>3. CASE x # c
    BY <1>3, <1>4, <2>1, <2>3
  <2> QED BY <2>2, <2>3
<1>11. IsOver(view) => c # "main" /\ atEnd' = atEnd
  BY <1>1, <1>2 DEF IsOver, LiveInv, PageLoads
<1>12. EndIsComing'
  <2> SUFFICES ASSUME ~missed', NEW x \in Channels \ {"main"}
               PROVE  /\ page = "loading" /\ IsOver(view) /\ HasRead(x) => view[x] >= atEnd'[x]
                      /\ page = "closing" => view[x] + due[x] >= atEnd'[x] \/ Excused(x)
                      /\ page = "closing" /\ x \notin joined => view[x] >= atEnd'[x] \/ Excused(x)
                      /\ page = "closing" => due[x] <= Len(events'[x])
    BY <1>1 DEF EndIsComing, HasRead, IsOver, Excused
  <2>1. /\ page = "loading" /\ IsOver(view) /\ HasRead(x) => view[x] >= atEnd[x]
        /\ page = "closing" => view[x] + due[x] >= atEnd[x] \/ Excused(x)
        /\ page = "closing" /\ x \notin joined => view[x] >= atEnd[x] \/ Excused(x)
        /\ page = "closing" => due[x] <= Len(events[x])
    BY <1>9 DEF LiveInv, EndIsComing
  <2>2. page = "closing" => IsOver(view)
    BY DEF LiveInv, PageLoads
  <2>3. Len(events'[x]) >= Len(events[x])
    BY <1>4, TableTyped
  <2> QED BY <1>11, <2>1, <2>2, <2>3, TableTyped
<1>13. ViewIsFinal'
  <2> SUFFICES ASSUME page = "closed", ~missed', ~refreshed
               PROVE  /\ IsOver(view)
                      /\ hook = "run" =>
                           \A x \in Channels \ {"main"} :
                             view[x] >= atEnd'[x] \/ (x = "children" /\ dropped)
    BY <1>1 DEF ViewIsFinal, IsOver
  <2> QED BY <1>9, <1>11 DEF LiveInv, ViewIsFinal
<1> QED BY <1>5, <1>6, <1>7, <1>8, <1>10, <1>12, <1>13 DEF LiveInv

LEMMA ReadKeeps == ASSUME LiveInv, ReadTable PROVE LiveInv'
<1> DEFINE c == Tables[loaded + 1]
<1>1. /\ page = "loading" /\ loaded \in 0 .. 3 /\ loaded' = loaded + 1 /\ c \in Channels
      /\ UNCHANGED <<hook, db, atEnd, events, joined, due, missed, dropped, refreshed>>
  BY DEF ReadTable, LiveInv, LiveTyped, PageLoads, Tables, Channels
<1>2. \A x \in Channels : HasRead(x)' <=> HasRead(x) \/ x = c
  BY <1>1 DEF HasRead
<1>3. ~HasRead(c) /\ (c = "main" <=> loaded = 0) /\ (loaded # 0 => HasRead("main"))
  BY <1>1 DEF HasRead, Tables
<1>4. view' = [view EXCEPT ![c] = db[c]]
  BY DEF ReadTable
<1> HIDE DEF c
<1>5. /\ view' \in Counts
      /\ \A x \in Channels : view'[x] = IF x = c THEN db[c] ELSE view[x]
  BY <1>1, <1>4 DEF LiveInv, LiveTyped, Counts
<1>6. /\ page' \in {"loading", "open", "closed"}
      /\ page' = "loading" <=> loaded' < 4
      /\ page' = "closed" => IsOver(view')
      /\ page' = "open" => ~IsOver(view')
  BY <1>1 DEF ReadTable, Tables
<1>7. joined = {} /\ view["main"] \in Nat /\ db["main"] \in 0 .. 1
      /\ (~HasRead("main") => view["main"] = 0)
  BY <1>1, TableTyped DEF LiveInv, LiveTyped, PageLoads, Channels
<1>8. loaded = 0 => ~HasRead("main") /\ \A x \in Channels : ~HasRead(x)
  BY DEF HasRead, Channels
<1>9. IsOver(view') => db["main"] = 1
  BY <1>1, <1>3, <1>5 DEF IsOver, LiveInv, PageLoads, LiveTyped, Channels
<1>10. LiveTyped'
  BY <1>1, <1>5, <1>6 DEF LiveInv, LiveTyped
<1>11. EndWasReached' /\ EventsFollow'
  BY <1>1 DEF LiveInv, EndWasReached, EventsFollow
<1>12. PageLoads'
  <2>1. view'["main"] <= db["main"]
    BY <1>5, <1>7 DEF LiveInv, PageLoads, Channels
  <2>2. ASSUME NEW x \in Channels, ~HasRead(x)' PROVE view'[x] = 0
    BY <1>1, <1>2, <1>5, <2>2 DEF LiveInv, PageLoads
  <2> QED BY <1>1, <1>6, <1>7, <2>1, <2>2 DEF PageLoads, HasRead
<1>13. ASSUME ~missed, NEW x \in Channels, HasRead(x)', ~IsOver(view') PROVE view'[x] = db[x]
  <2>1. CASE x = c
    BY <1>5, <2>1
  <2>2. CASE x # c
    <3>1. ~IsOver(view)
      BY <1>3, <1>5, <1>7, <1>13, <1>2, <2>2, <1>8 DEF IsOver, Channels
    <3> QED BY <1>1, <1>2, <1>5, <1>13, <2>2, <3>1 DEF LiveInv, NothingIsLost
  <2> QED BY <2>1, <2>2
<1>14. ASSUME ~missed, NEW x \in Channels \ {"main"}, HasRead(x)', IsOver(view') PROVE view'[x] >= atEnd[x]
  <2>0. db[x] \in Nat /\ atEnd[x] \in Nat /\ atEnd[x] <= db[x]
    BY <1>9, <1>14, TableTyped DEF LiveInv, EndWasReached
  <2>1. CASE x = c
    BY <1>5, <2>0, <2>1
  <2>2. CASE x # c
    <3>1. loaded # 0
      BY <1>2, <1>8, <1>14, <2>2
    <3>2. IsOver(view)
      BY <1>3, <1>5, <1>14, <3>1 DEF IsOver, Channels
    <3> QED BY <1>1, <1>2, <1>5, <1>14, <2>2, <3>2 DEF LiveInv, EndIsComing
  <2> QED BY <2>1, <2>2
<1>15. \A x \in Channels : page' # "loading" => HasRead(x)'
  BY <1>1, <1>6 DEF HasRead, Tables, Channels
<1>16. NothingIsLost'
  BY <1>1, <1>6, <1>7, <1>13, <1>15 DEF NothingIsLost
<1>17. EndIsComing'
  BY <1>1, <1>6, <1>14 DEF EndIsComing
<1>18. ViewIsFinal'
  BY <1>1, <1>6, <1>14, <1>15 DEF ViewIsFinal
<1> QED BY <1>10, <1>11, <1>12, <1>16, <1>17, <1>18 DEF LiveInv

LEMMA JoinKeeps == ASSUME LiveInv, NEW c \in Channels, Join(c) PROVE LiveInv'
<1>1. /\ page = "open" /\ c \notin joined /\ joined' = joined \cup {c}
      /\ UNCHANGED <<hook, db, atEnd, events, view, loaded, page, due, missed, dropped, refreshed>>
  BY DEF Join
<1>2. Len(events[c]) = 0
  BY <1>1 DEF LiveInv, EventsFollow
<1>3. LiveTyped' /\ EndWasReached' /\ EventsFollow' /\ PageLoads' /\ ViewIsFinal' /\ EndIsComing'
  BY <1>1 DEF LiveInv, LiveTyped, EndWasReached, EventsFollow, PageLoads, IsOver, HasRead, ViewIsFinal,
              EndIsComing, Excused
<1>4. NothingIsLost'
  <2> SUFFICES ASSUME ~missed, NEW x \in Channels
               PROVE  /\ x \notin joined' => view[x] = db[x]
                      /\ x \in joined' => view[x] + Len(events[x]) = db[x] \/ Excused(x)
    BY <1>1 DEF NothingIsLost, IsOver, HasRead, Excused
  <2>1. /\ x \notin joined => view[x] = db[x]
        /\ x \in joined => view[x] + Len(events[x]) = db[x] \/ Excused(x)
    BY <1>1 DEF LiveInv, NothingIsLost
  <2> QED BY <1>1, <1>2, <2>1, TableTyped
<1> QED BY <1>3, <1>4 DEF LiveInv

\* The page closes its channels.
LEMMA ClosingKeeps ==
    ASSUME LiveInv, page # "loading", CloseChannels, UNCHANGED <<hook, db, atEnd, loaded, missed>>,
           view' \in Counts, view'["main"] <= db["main"],
           dropped' \in BOOLEAN, refreshed' \in BOOLEAN, ViewIsFinal'
    PROVE  LiveInv'
<1>1. /\ page' = "closed" /\ joined' = {} /\ \A x \in Channels : events'[x] = <<>>
      /\ due' \in Counts /\ events' \in [Channels -> Seq(1 .. MaxVersion + MaxEvents)]
  BY BoundIsPositive DEF CloseChannels, Nothing, Counts
<1>2. LiveTyped'
  BY <1>1 DEF LiveInv, LiveTyped
<1>3. EndWasReached' /\ PageLoads' /\ NothingIsLost' /\ EndIsComing'
  BY <1>1 DEF LiveInv, EndWasReached, PageLoads, NothingIsLost, EndIsComing, HasRead, IsOver
<1>4. EventsFollow'
  BY <1>1, TableTyped DEF EventsFollow
<1> QED BY <1>2, <1>3, <1>4 DEF LiveInv

LEMMA TimerKeeps == ASSUME LiveInv, CloseTimer PROVE LiveInv'
<1>1. /\ page = "closing" /\ due = Nothing /\ CloseChannels /\ page' = "closed"
      /\ UNCHANGED <<hook, db, atEnd, view, loaded, missed, dropped, refreshed>>
  BY DEF CloseTimer, CloseChannels
<1>2. ASSUME ~missed, NEW x \in Channels \ {"main"} PROVE view[x] >= atEnd[x] \/ Excused(x)
  <2>1. due[x] = 0 /\ view[x] \in Nat
    BY <1>1, TableTyped DEF Nothing
  <2> QED BY <1>1, <1>2, <2>1 DEF LiveInv, EndIsComing
<1>3. ViewIsFinal'
  BY <1>1, <1>2 DEF ViewIsFinal, Excused, LiveInv, PageLoads, IsOver
<1> QED BY <1>1, <1>3, ClosingKeeps DEF LiveInv, LiveTyped, PageLoads

LEMMA RefreshKeeps == ASSUME LiveInv, Refresh PROVE LiveInv'
<1>1. /\ page # "loading" /\ CloseChannels /\ refreshed' = TRUE
      /\ UNCHANGED <<hook, db, atEnd, view, loaded, missed, dropped>>
  BY DEF Refresh
<1> QED BY <1>1, ClosingKeeps DEF LiveInv, LiveTyped, PageLoads, ViewIsFinal

LEMMA FirstAndRest ==
    ASSUME NEW S, NEW s \in Seq(S), Len(s) # 0 \/ s # <<>>
    PROVE  /\ Len(s) \in Nat \ {0} /\ Head(s) = s[1] /\ Head(s) \in S
           /\ Tail(s) \in Seq(S) /\ Len(Tail(s)) = Len(s) - 1
           /\ \A i \in 1 .. Len(s) - 1 : Tail(s)[i] = s[i + 1]
<1>1. Len(s) \in Nat /\ Len(s) # 0
  OBVIOUS
<1>2. 1 \in 1 .. Len(s) /\ s[1] \in S /\ Head(s) = s[1]
  BY <1>1
<1> QED BY <1>1, <1>2

\* An event that arrives is the oldest write that its channel has not delivered.
LEMMA EventIsNext ==
    ASSUME LiveInv, NEW c \in Channels, Received(c)
    PROVE  /\ page \in {"open", "closing"} /\ c \in joined /\ Len(events[c]) \in Nat \ {0}
           /\ Head(events[c]) = db[c] - Len(events[c]) + 1 /\ Head(events[c]) \in Count
           /\ view' = (IF Applies(c) THEN [view EXCEPT ![c] = Head(events[c])] ELSE view)
           /\ view' \in Counts /\ dropped' \in BOOLEAN
           /\ (dropped => dropped') /\ (~Applies(c) => c = "children" /\ dropped')
           /\ (c # "children" => dropped' = dropped)
           /\ UNCHANGED <<hook, db, atEnd, loaded, missed, refreshed>>
<1>1. /\ page \in {"open", "closing"} /\ events[c] # <<>>
      /\ view' = (IF Applies(c) THEN [view EXCEPT ![c] = Head(events[c])] ELSE view)
      /\ dropped' = (dropped \/ ~Applies(c))
      /\ UNCHANGED <<hook, db, atEnd, loaded, missed, refreshed>>
  BY DEF Received
<1>2. events[c] \in Seq(1 .. MaxVersion + MaxEvents)
  BY TableTyped
<1>3. Len(events[c]) \in Nat \ {0} /\ Head(events[c]) = events[c][1]
      /\ Head(events[c]) \in 1 .. MaxVersion + MaxEvents
  BY <1>1, <1>2, FirstAndRest
<1>4. Head(events[c]) = db[c] - Len(events[c]) + 1 /\ c \in joined
  BY <1>1, <1>3 DEF LiveInv, EventsFollow
<1>5. Head(events[c]) \in Count
  BY <1>3, BoundIsPositive DEF Count
<1>6. view' \in Counts
  BY <1>1, <1>5 DEF LiveInv, LiveTyped, Counts
<1>7. dropped' \in BOOLEAN /\ (dropped => dropped') /\ (~Applies(c) => c = "children" /\ dropped')
      /\ (c # "children" => dropped' = dropped)
  BY <1>1 DEF Applies, LiveInv, LiveTyped
<1> QED BY <1>1, <1>3, <1>4, <1>5, <1>6, <1>7

LEMMA DeliverKeeps == ASSUME LiveInv, NEW c \in Channels, Deliver(c) PROVE LiveInv'
<1> DEFINE n == Len(events[c])
<1>1. /\ c # "main" /\ Received(c) /\ events' = [events EXCEPT ![c] = Tail(events[c])]
      /\ due' = [due EXCEPT ![c] = IF due[c] > 0 THEN due[c] - 1 ELSE 0]
      /\ UNCHANGED <<page, joined>>
  BY DEF Deliver, Taken, LiveInv, LiveTyped, Counts
<1>2. /\ page \in {"open", "closing"} /\ c \in joined /\ n \in Nat \ {0}
      /\ Head(events[c]) = db[c] - n + 1
      /\ view' = (IF Applies(c) THEN [view EXCEPT ![c] = Head(events[c])] ELSE view)
      /\ view' \in Counts /\ dropped' \in BOOLEAN
      /\ (dropped => dropped') /\ (~Applies(c) => c = "children" /\ dropped')
      /\ UNCHANGED <<hook, db, atEnd, loaded, missed, refreshed>>
  BY <1>1, EventIsNext
<1>3. /\ events' \in [Channels -> Seq(1 .. MaxVersion + MaxEvents)]
      /\ \A x \in Channels : x # c => events'[x] = events[x]
      /\ Len(events'[c]) = n - 1 /\ \A i \in 1 .. n - 1 : events'[c][i] = events[c][i + 1]
  <2>1. events[c] \in Seq(1 .. MaxVersion + MaxEvents) /\ Len(events[c]) # 0
    BY <1>2, TableTyped
  <2>2. /\ Tail(events[c]) \in Seq(1 .. MaxVersion + MaxEvents) /\ Len(Tail(events[c])) = n - 1
        /\ \A i \in 1 .. n - 1 : Tail(events[c])[i] = events[c][i + 1]
    BY <2>1, FirstAndRest
  <2> QED BY <1>1, <2>2 DEF LiveInv, LiveTyped
<1>4. /\ due' \in Counts /\ \A x \in Channels : x # c => due'[x] = due[x]
      /\ due'[c] = IF due[c] > 0 THEN due[c] - 1 ELSE 0
  <2>1. (IF due[c] > 0 THEN due[c] - 1 ELSE 0) \in Count
    BY TableTyped, BoundIsPositive DEF Count, LiveInv, LiveTyped, Counts
  <2> QED BY <1>1, <2>1 DEF LiveInv, LiveTyped, Counts
<1>5. /\ \A x \in Channels : x # c => view'[x] = view[x]
      /\ Applies(c) => view'[c] = db[c] - n + 1
      /\ ~Applies(c) => view'[c] = view[c]
  BY <1>2 DEF LiveInv, LiveTyped, Counts
<1>6. IsOver(view') <=> IsOver(view)
  BY <1>1, <1>5 DEF IsOver, Channels
<1>7. LiveTyped'
  BY <1>1, <1>2, <1>3, <1>4 DEF LiveInv, LiveTyped
<1>8. EndWasReached'
  BY <1>2 DEF LiveInv, EndWasReached
<1>9. EventsFollow'
  <2> SUFFICES ASSUME NEW x \in Channels
               PROVE  /\ Len(events'[x]) <= db[x]
                      /\ \A i \in 1 .. Len(events'[x]) : events'[x][i] = db[x] - Len(events'[x]) + i
                      /\ x \notin joined => events'[x] = <<>>
    BY <1>1, <1>2 DEF EventsFollow
  <2>1. /\ Len(events[x]) <= db[x]
        /\ \A i \in 1 .. Len(events[x]) : events[x][i] = db[x] - Len(events[x]) + i
        /\ x \notin joined => events[x] = <<>>
    BY DEF LiveInv, EventsFollow
  <2>2. CASE x # c
    BY <1>3, <2>1, <2>2
  <2>3. CASE x = c
    <3>1. db[c] \in Nat
      BY TableTyped
    <3>2. ASSUME NEW i \in 1 .. n - 1 PROVE events'[c][i] = db[c] - (n - 1) + i
      <4>1. i + 1 \in 1 .. n /\ events'[c][i] = events[c][i + 1]
        BY <1>2, <1>3
      <4>2. events[c][i + 1] = db[c] - n + (i + 1)
        BY <2>1, <2>3, <4>1
      <4>3. n \in Nat /\ i \in Nat /\ db[c] \in Nat
        BY <1>2, <3>1
      <4>4. events'[c][i] = db[c] - n + (i + 1)
        BY <4>1, <4>2
      <4> HIDE DEF n
      <4> QED BY <4>3, <4>4
    <3>3. Len(events'[x]) = n - 1 /\ n <= db[x] /\ n \in Nat /\ x \in joined
      BY <1>2, <1>3, <2>1, <2>3
    <3> HIDE DEF n
    <3> QED BY <2>3, <3>1, <3>2, <3>3
  <2> QED BY <2>2, <2>3
<1>10. PageLoads'
  BY <1>1, <1>2, <1>5, <1>6 DEF LiveInv, PageLoads, HasRead, Channels
<1>11. NothingIsLost'
  <2> SUFFICES ASSUME ~missed, NEW x \in Channels
               PROVE  /\ page = "open" /\ x \notin joined => view'[x] = db[x]
                      /\ x \in joined => view'[x] + Len(events'[x]) = db[x] \/ Excused(x)'
    BY <1>1, <1>2 DEF NothingIsLost
  <2>1. /\ page = "open" /\ x \notin joined => view[x] = db[x]
        /\ x \in joined => view[x] + Len(events[x]) = db[x] \/ Excused(x)
        /\ Excused(x) => Excused(x)'
    BY <1>2 DEF LiveInv, NothingIsLost, Excused
  <2>2. CASE x # c
    BY <1>3, <1>5, <2>1, <2>2
  <2>3. CASE x = c /\ Applies(c)
    <3>1. view'[c] = db[c] - n + 1 /\ Len(events'[c]) = n - 1 /\ n \in Nat /\ db[c] \in Nat
      BY <1>2, <1>3, <1>5, <2>3, TableTyped
    <3> HIDE DEF n
    <3> QED BY <1>2, <2>3, <3>1
  <2>4. CASE x = c /\ ~Applies(c)
    BY <1>2, <2>4 DEF Excused
  <2> QED BY <2>2, <2>3, <2>4
<1>12. EndIsComing'
  <2> SUFFICES ASSUME ~missed, page = "closing", NEW x \in Channels \ {"main"}
               PROVE  /\ view'[x] + due'[x] >= atEnd[x] \/ Excused(x)'
                      /\ x \notin joined => view'[x] >= atEnd[x] \/ Excused(x)'
                      /\ due'[x] <= Len(events'[x])
    BY <1>1, <1>2 DEF EndIsComing
  <2>1. /\ view[x] + due[x] >= atEnd[x] \/ Excused(x)
        /\ x \notin joined => view[x] >= atEnd[x] \/ Excused(x)
        /\ due[x] <= Len(events[x])
        /\ x \in joined => view[x] + Len(events[x]) = db[x] \/ Excused(x)
        /\ Excused(x) => Excused(x)'
    BY <1>2 DEF LiveInv, EndIsComing, NothingIsLost, Excused
  <2>2. CASE x # c
    BY <1>3, <1>4, <1>5, <2>1, <2>2
  <2>3. CASE x = c
    <3>1. /\ db[c] \in Nat /\ view[c] \in Nat /\ due[c] \in Nat /\ atEnd[c] \in Nat
      BY TableTyped
    <3>2. due'[c] <= Len(events'[c])
      <4>1. due[c] <= n /\ n \in Nat \ {0}
        BY <1>2, <2>1, <2>3
      <4>2. due'[c] = (IF due[c] > 0 THEN due[c] - 1 ELSE 0) /\ Len(events'[c]) = n - 1
        BY <1>3, <1>4
      <4> HIDE DEF n
      <4> QED BY ONLY <3>1, <4>1, <4>2
    <3>3. ASSUME ~Excused(x)' PROVE view'[c] + due'[c] >= atEnd[c]
      <4>1. Applies(c) /\ view[c] + n = db[c] /\ view[c] + due[c] >= atEnd[c]
        BY <1>2, <2>1, <2>3, <3>3 DEF Excused
      <4>2. view'[c] = view[c] + 1
        BY <1>2, <1>5, <3>1, <4>1
      <4> QED BY <1>4, <3>1, <4>1, <4>2
    <3> QED BY <1>2, <2>3, <3>2, <3>3
  <2> QED BY <2>2, <2>3
<1>13. ViewIsFinal'
  BY <1>1, <1>2 DEF ViewIsFinal
<1> QED BY <1>7, <1>8, <1>9, <1>10, <1>11, <1>12, <1>13 DEF LiveInv

LEMMA DeliverEndKeeps == ASSUME LiveInv, DeliverEnd PROVE LiveInv'
<1>0. "main" \in Channels /\ Received("main")
  BY DEF DeliverEnd, Channels
<1>1. /\ page \in {"open", "closing"} /\ "main" \in joined /\ Len(events["main"]) \in Nat \ {0}
      /\ Head(events["main"]) = db["main"] - Len(events["main"]) + 1
      /\ view' = (IF Applies("main") THEN [view EXCEPT !["main"] = Head(events["main"])] ELSE view)
      /\ view' \in Counts /\ dropped' = dropped
      /\ UNCHANGED <<hook, db, atEnd, loaded, missed, refreshed>>
  BY <1>0, EventIsNext
<1>2. db["main"] = 1 /\ Len(events["main"]) = 1
  <2>1. db["main"] \in 0 .. 1 /\ Len(events["main"]) <= db["main"]
    BY <1>0, TableTyped DEF LiveInv, LiveTyped
  <2>2. \A a \in 0 .. 1, b \in Nat \ {0} : b <= a => a = 1 /\ b = 1
    OBVIOUS
  <2> QED BY <1>1, <2>1, <2>2, Zenon
<1>3. view'["main"] = 1 /\ \A x \in Channels \ {"main"} : view'[x] = view[x]
  BY <1>1, <1>2 DEF Applies, LiveInv, LiveTyped, Counts, Channels
<1>4. CASE hook = "deployment"
  <2>1. CloseChannels
    BY <1>4 DEF DeliverEnd
  <2>2. ViewIsFinal'
    BY <1>1, <1>3, <1>4 DEF ViewIsFinal, IsOver
  <2> QED BY <1>1, <1>2, <1>3, <2>1, <2>2, ClosingKeeps DEF LiveInv, LiveTyped
<1>5. CASE hook = "run"
  <2>1. /\ page' = "closing" /\ joined' = joined
        /\ events' = [events EXCEPT !["main"] = Tail(events["main"])]
        /\ due' = [x \in Channels |-> IF x = "main" THEN 0 ELSE Len(events[x])]
    BY <1>5 DEF DeliverEnd, Taken
  <2>2. /\ events' \in [Channels -> Seq(1 .. MaxVersion + MaxEvents)]
        /\ \A x \in Channels \ {"main"} : events'[x] = events[x]
        /\ Len(events'["main"]) = 0
    <3>1. events["main"] \in Seq(1 .. MaxVersion + MaxEvents) /\ Len(events["main"]) # 0
      BY <1>0, <1>2, TableTyped
    <3>2. Tail(events["main"]) \in Seq(1 .. MaxVersion + MaxEvents) /\ Len(Tail(events["main"])) = 0
      <4>1. ASSUME NEW s \in Seq(1 .. MaxVersion + MaxEvents), Len(s) = 1
            PROVE  Tail(s) \in Seq(1 .. MaxVersion + MaxEvents) /\ Len(Tail(s)) = 0
        <5>1. Tail(s) \in Seq(1 .. MaxVersion + MaxEvents) /\ Len(Tail(s)) = Len(s) - 1
          BY ONLY <4>1, FirstAndRest
        <5> QED BY <4>1, <5>1
      <4> QED BY <1>2, <3>1, <4>1
    <3>3. events \in [Channels -> Seq(1 .. MaxVersion + MaxEvents)]
      BY <1>0 DEF LiveInv, LiveTyped
    <3> QED BY ONLY <2>1, <3>2, <3>3 DEF Channels
  <2>3. /\ due' \in Counts /\ due'["main"] = 0
        /\ \A x \in Channels \ {"main"} : due'[x] = Len(events[x])
    <3>1. \A x \in Channels : Len(events[x]) \in Count
      BY TableTyped, BoundIsPositive DEF Count
    <3> QED BY <1>0, <2>1, <3>1, BoundIsPositive DEF Counts
  <2>4. LiveTyped' /\ EndWasReached'
    BY <1>1, <2>1, <2>2, <2>3 DEF LiveInv, LiveTyped, EndWasReached
  <2>5. EventsFollow'
    <3> SUFFICES ASSUME NEW x \in Channels
                 PROVE  /\ Len(events'[x]) <= db[x]
                        /\ \A i \in 1 .. Len(events'[x]) : events'[x][i] = db[x] - Len(events'[x]) + i
                        /\ x \notin joined => events'[x] = <<>>
      BY <1>1, <2>1 DEF EventsFollow
    <3>1. CASE x = "main"
      BY <1>1, <1>2, <2>2, <3>1
    <3>2. CASE x # "main"
      BY <2>2, <3>2 DEF LiveInv, EventsFollow
    <3> QED BY <3>1, <3>2
  <2>6. PageLoads'
    BY <1>1, <1>2, <1>3, <1>5, <2>1 DEF LiveInv, PageLoads, IsOver
  <2>7. NothingIsLost'
    <3> SUFFICES ASSUME ~missed, NEW x \in Channels, x \in joined
                 PROVE  view'[x] + Len(events'[x]) = db[x] \/ Excused(x)
      BY <1>1, <2>1 DEF NothingIsLost, Excused
    <3>1. CASE x = "main"
      BY <1>2, <1>3, <2>2, <3>1
    <3>2. CASE x # "main"
      BY <1>1, <1>3, <2>2, <3>2 DEF LiveInv, NothingIsLost
    <3> QED BY <3>1, <3>2
  <2>8. EndIsComing'
    <3> SUFFICES ASSUME ~missed, NEW x \in Channels \ {"main"}
                 PROVE  /\ view[x] + Len(events[x]) >= atEnd[x] \/ Excused(x)
                        /\ x \notin joined => view[x] >= atEnd[x] \/ Excused(x)
      BY <1>1, <1>3, <2>1, <2>2, <2>3, TableTyped DEF EndIsComing, Excused
    <3>1. atEnd[x] <= db[x]
      BY <1>2 DEF LiveInv, EndWasReached
    <3>2. /\ db[x] \in Nat /\ view[x] \in Nat /\ atEnd[x] \in Nat /\ Len(events[x]) \in Nat
      BY TableTyped
    <3>3. CASE x \in joined
      BY <1>1, <3>1, <3>2, <3>3 DEF LiveInv, NothingIsLost
    <3>4. CASE x \notin joined /\ page = "open"
      BY <3>1, <3>2, <3>4 DEF LiveInv, NothingIsLost
    <3>5. CASE x \notin joined /\ page = "closing"
      BY <3>2, <3>5 DEF LiveInv, EndIsComing
    <3> QED BY <1>1, <3>3, <3>4, <3>5
  <2>9. ViewIsFinal'
    BY <2>1 DEF ViewIsFinal
  <2> QED BY <2>4, <2>5, <2>6, <2>7, <2>8, <2>9 DEF LiveInv
<1> QED BY <1>4, <1>5 DEF LiveInv, LiveTyped

LEMMA LiveKeeps == LiveInv /\ [Live]_liveVars => LiveInv'
<1> SUFFICES ASSUME LiveInv, [Live]_liveVars PROVE LiveInv'
  OBVIOUS
<1>1. CASE Live
  BY <1>1, WriteKeeps, JoinKeeps, DeliverKeeps, ReadKeeps, DeliverEndKeeps, TimerKeeps, RefreshKeeps
  DEF Live
<1>2. CASE UNCHANGED liveVars
  BY <1>2 DEF liveVars, pageVars, LiveInv, LiveTyped, EndWasReached, EventsFollow, PageLoads, HasRead,
     IsOver, NothingIsLost, EndIsComing, Excused, ViewIsFinal
<1> QED BY <1>1, <1>2

\* The page, the tables and the channels are well formed (useRealtimeRun,
\* useRealtimeDeployment).
THEOREM LiveTypeCorrect == LiveSpec => []LiveTypeOK
BY LiveStarts, LiveKeeps, LiveTypes, PTL DEF LiveSpec, LiveInv

\* A page that no longer follows a run shows its end and all that had been
\* written by then, in whatever order the channels deliver, and a
\* deployment's shows its end: unless it missed a write before it joined, was
\* refreshed, or dropped a step whose task it did not know.
THEOREM ViewsAreFinal == LiveSpec => []ViewIsFinal
BY LiveStarts, LiveKeeps, PTL DEF LiveSpec, LiveInv
==============================================================================
