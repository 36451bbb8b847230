------------------------------ MODULE MCConsole ------------------------------
(* Ten components that share nothing, in one run: `part` says which moves. *)
EXTENDS ProjectDocuments, Membership, ScheduleDispatch, AlertRule, LogStreamer, Dag, CloudDeploy,
  PipelineVersions, ProjectSetup, Notifications, TLC
CONSTANTS h1, h2, u1, u2, u3, i1, i2

Symmetry == Permutations(Handlers) \cup Permutations({u2, u3}) \cup Permutations(Invites)

VARIABLE part
console == <<webVars, orgVars, scheduleVars, alertVars, logVars, vars, cloudVars, versionVars,
             setupVars, noteVars, part>>

Parts == {"documents", "members", "schedule", "alerts", "logs", "graph", "clouds", "versions",
          "setup", "bell"}

ConsoleInit ==
  /\ WebInit /\ OrgInit /\ ScheduleInit /\ AlertInit /\ LogInit /\ Init
  /\ CloudInit /\ VersionInit /\ SetupInit /\ NoteInit
  /\ part \in IF \A t \in Tasks : dependsOn[t] = <<>> THEN Parts ELSE {"graph"}

ConsoleNext ==
  /\ UNCHANGED part
  /\ \/ part = "documents" /\ Web
     \/ part # "documents" /\ UNCHANGED webVars
  /\ \/ part = "members" /\ Org
     \/ part # "members" /\ UNCHANGED orgVars
  /\ \/ part = "schedule" /\ Schedule
     \/ part # "schedule" /\ UNCHANGED scheduleVars
  /\ \/ part = "alerts" /\ Alert
     \/ part # "alerts" /\ UNCHANGED alertVars
  /\ \/ part = "logs" /\ Logging
     \/ part # "logs" /\ UNCHANGED logVars
  /\ \/ part = "graph" /\ Next
     \/ part # "graph" /\ UNCHANGED vars
  /\ \/ part = "clouds" /\ Cloud
     \/ part # "clouds" /\ UNCHANGED cloudVars
  /\ \/ part = "versions" /\ Version
     \/ part # "versions" /\ UNCHANGED versionVars
  /\ \/ part = "setup" /\ Setup
     \/ part # "setup" /\ UNCHANGED setupVars
  /\ \/ part = "bell" /\ Notifying
     \/ part # "bell" /\ UNCHANGED noteVars

Console == ConsoleInit /\ [][ConsoleNext]_console
=============================================================================
