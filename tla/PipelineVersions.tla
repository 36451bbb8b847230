-------------------------- MODULE PipelineVersions --------------------------
(***************************************************************************)
(* The versions of one pipeline (pipelines/actions.ts): its creation,      *)
(* edits and restores, server actions that overlap.  Every call of the     *)
(* database is one step and may fail; a handler that dies looks the same.  *)
(* A definition and its current version are written by different calls.    *)
(***************************************************************************)
EXTENDS Integers, FiniteSets, FiniteSetsExt

CONSTANTS Saves, NoSave \* the handlers that save a version

ASSUME SavesAssumption == IsFiniteSet(Saves) /\ NoSave \notin Saves

VARIABLES
  save,               \* a handler: what it does, where it is, its version number
  definition,         \* is there a row in pipeline_definitions?
  current_version_id, \* the number of the version it names, 0 for null
  versions,           \* pipeline_definition_versions: who saved each number
  overBefore          \* history: the handlers that were over when one began

versionVars == <<save, definition, current_version_id, versions, overBefore>>

Numbers == 1 .. Cardinality(Saves)
Idle == [kind |-> "none", pc |-> "idle", version |-> 0, source |-> 0]

VersionTypeOK ==
  /\ save \in [Saves -> [kind : {"none", "create", "update", "restore"},
                         pc : {"idle", "insert", "current", "done", "failed"},
                         version : 0 .. Cardinality(Saves), source : 0 .. Cardinality(Saves)]]
  /\ definition \in BOOLEAN
  /\ current_version_id \in {0} \cup Numbers
  /\ versions \in [Numbers -> Saves \cup {NoSave}]
  /\ overBefore \in [Saves -> SUBSET Saves]

VersionInit ==
  /\ save = [s \in Saves |-> Idle]
  /\ definition = FALSE /\ current_version_id = 0
  /\ versions = [n \in Numbers |-> NoSave]
  /\ overBefore = [s \in Saves |-> {}]

SavedNumbers == {n \in Numbers : versions[n] # NoSave}
latestVersion == IF SavedNumbers = {} THEN 0 ELSE Max(SavedNumbers)

Over == {s \in Saves : save[s].pc \in {"done", "failed"}}

Begin(s, kind, number, source) ==
  /\ save[s].pc = "idle"
  /\ save' = [save EXCEPT ![s] = [kind |-> kind, pc |-> "insert", version |-> number,
                                  source |-> source]]
  /\ overBefore' = [overBefore EXCEPT ![s] = Over]

\* createPipelineDefinition: a second one finds the name taken.
CreatePipelineDefinition(s) ==
  /\ ~definition /\ definition' = TRUE
  /\ Begin(s, "create", 1, 0)
  /\ UNCHANGED <<current_version_id, versions>>

\* updatePipelineDefinitionVersion and restorePipelineVersion read the latest
\* number; what a restore copies does not change.
ReadLatest(s) ==
  /\ definition
  /\ \/ Begin(s, "update", latestVersion + 1, 0)
     \/ \E source \in SavedNumbers : Begin(s, "restore", latestVersion + 1, source)
  /\ UNCHANGED <<definition, current_version_id, versions>>

Goto(s, pc) == save' = [save EXCEPT ![s].pc = pc]

\* (pipeline_definition_id, version) is unique.
InsertVersion(s) ==
  /\ save[s].pc = "insert"
  /\ IF versions[save[s].version] = NoSave
     THEN versions' = [versions EXCEPT ![save[s].version] = s] /\ Goto(s, "current")
     ELSE UNCHANGED versions /\ Goto(s, "failed")
  /\ UNCHANGED <<definition, current_version_id, overBefore>>

\* Mutant of SetCurrent: a restore names the version it copied.
SetCurrent_Source(s) ==
  /\ save[s].pc = "current"
  /\ current_version_id' = IF save[s].kind = "restore" THEN save[s].source ELSE save[s].version
  /\ Goto(s, "done")
  /\ UNCHANGED <<definition, versions, overBefore>>

SetCurrent(s) ==
  /\ save[s].pc = "current"
  /\ current_version_id' = save[s].version
  /\ Goto(s, "done")
  /\ UNCHANGED <<definition, versions, overBefore>>

\* A creation does not look whether its last call failed.
FailSave(s) ==
  /\ save[s].pc \in {"insert", "current"}
  /\ Goto(s, IF save[s].kind = "create" /\ save[s].pc = "current" THEN "done" ELSE "failed")
  /\ UNCHANGED <<definition, current_version_id, versions, overBefore>>

Version ==
  \E s \in Saves :
    CreatePipelineDefinition(s) \/ ReadLatest(s) \/ InsertVersion(s) \/ SetCurrent(s) \/ FailSave(s)

VersionSpec == VersionInit /\ [][Version]_versionVars

-----------------------------------------------------------------------------
(* Property. *)

\* "Increments the version number and makes the new version current": once an
\* edit or a restore has reported success, the current version is never one
\* that a handler saved which was over when the edit began.  Of overlapping
\* ones the current version may be the older.
SavedIsCurrent ==
  \A s \in Saves :
    save[s].pc = "done" /\ save[s].kind # "create"
      => current_version_id # 0 /\ versions[current_version_id] \notin overBefore[s]
=============================================================================
