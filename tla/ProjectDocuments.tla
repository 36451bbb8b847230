-------------------------- MODULE ProjectDocuments --------------------------
(***************************************************************************)
(* The documents of a project in the control plane: the versions of one    *)
(* path in the table project_documents, their objects in Supabase Storage, *)
(* and the handlers that write both (documents/actions.ts, the cron job    *)
(* expire-documents.ts and the edge function verify-document).  Paths do   *)
(* not affect each other.                                                  *)
(*                                                                         *)
(* A handler is a sequence of calls to the database and to the storage;    *)
(* each is one step, and several handlers may be in flight.  Between two   *)
(* calls a handler may die.  A browser puts the bytes of a version with    *)
(* the signed URL it was given, at any time.                               *)
(***************************************************************************)
EXTENDS Integers, FiniteSets, FiniteSetsExt

CONSTANTS
  Docs,        \* ids of versions, numbered in the order they are created in
  MaxVersions, \* DOCUMENT_MAX_VERSIONS
  Handlers,    \* handler invocations that may be in flight together
  MaxRaces,    \* bound: how often a handler starts while another is at work
  Corrupt,     \* may a browser put other bytes of the declared size?
  NoDoc

ASSUME DocumentsAssumption ==
  /\ Docs \subseteq Nat \ {0} /\ NoDoc \notin Docs
  /\ MaxVersions \in Nat \ {0}
  /\ MaxRaces \in Nat /\ Corrupt \in BOOLEAN

VARIABLES
  doc,     \* the rows: status ("none", "pending", "ready", "gone"), version, public
  current, \* the row with is_current; the unique index allows one per path
  lapsed,  \* the rows whose expires_at is over
  object,  \* the stored bytes: "none", "declared" (by size and SHA-256) or "other"
  signed,  \* versions a browser holds an upload URL for
  call,    \* the handlers
  races,   \* history: handlers started while another was at work
  late     \* history: objects put after, or outliving, the removal of their row

rows == <<doc, current, lapsed>>
past == <<races, late>>
webVars == <<rows, object, signed, call, past>>

NoCall == [pc |-> "idle", id |-> NoDoc, version |-> 0, ids |-> {}]

Steps == {"idle", "insert", "sign", "check", "ready", "promote", "prunable", "restore",
          "pruneObjects", "pruneRows", "deleteObjects", "deletePath", "expireObjects",
          "expireRows"}

There(d) == doc[d].status \in {"pending", "ready"}
Path == {d \in Docs : There(d)}

WebTypeOK ==
  /\ doc \in [Docs -> [status : {"none", "pending", "ready", "gone"},
                       version : 0 .. Cardinality(Docs), public : BOOLEAN]]
  /\ current \in Docs \cup {NoDoc}
  /\ lapsed \subseteq Docs /\ signed \subseteq Docs /\ late \subseteq Docs
  /\ object \in [Docs -> {"none", "declared", "other"}]
  /\ call \in [Handlers -> [pc : Steps, id : Docs \cup {NoDoc},
                            version : 0 .. Cardinality(Docs), ids : SUBSET Docs]]
  /\ races \in 0 .. MaxRaces
  /\ \A d, e \in Path : doc[d].version = doc[e].version => d = e

WebInit ==
  /\ doc = [d \in Docs |-> [status |-> "none", version |-> 0, public |-> FALSE]]
  /\ current = NoDoc
  /\ lapsed = {} /\ signed = {} /\ late = {}
  /\ object = [d \in Docs |-> "none"]
  /\ call = [h \in Handlers |-> NoCall]
  /\ races = 0

-----------------------------------------------------------------------------
(* How a handler starts, goes on and ends. *)

Start(h, fields) ==
  /\ call[h] = NoCall
  /\ call' = [call EXCEPT ![h] = fields]
  /\ races' = IF \A g \in Handlers : call[g] = NoCall THEN races ELSE races + 1
  /\ races' <= MaxRaces

To(h, pc) == call' = [call EXCEPT ![h].pc = pc] /\ UNCHANGED races
End(h) == call' = [call EXCEPT ![h] = NoCall] /\ UNCHANGED races

\* A handler dies, or a call of it fails and it returns an error.
Abandon(h) ==
  /\ call[h] # NoCall
  /\ End(h)
  /\ UNCHANGED <<rows, object, signed, late>>

\* Rows are deleted; is_current and expires_at go with them.
DeleteDocs(ds) ==
  /\ doc' = [d \in Docs |-> IF d \in ds /\ There(d) THEN [doc[d] EXCEPT !.status = "gone"]
                                                   ELSE doc[d]]
  /\ current' = IF current \in ds THEN NoDoc ELSE current
  /\ lapsed' = lapsed \ ds

RemoveObjects(ds) == object' = [d \in Docs |-> IF d \in ds THEN "none" ELSE object[d]]

-----------------------------------------------------------------------------
(* Uploads. *)

\* createDocumentUpload reads the latest version ...
StartUpload(h) ==
  /\ Start(h, [NoCall EXCEPT !.pc = "insert",
                             !.version = Max({doc[d].version : d \in Path} \cup {0}) + 1])
  /\ \E d \in Docs : doc[d].status = "none"
  /\ UNCHANGED <<rows, object, signed, late>>

\* ... inserts the next one, unless another upload did ...
InsertDocument(h) ==
  /\ call[h].pc = "insert"
  /\ \/ /\ \E d \in Path : doc[d].version = call[h].version
        /\ End(h)
        /\ UNCHANGED doc
     \/ /\ \A d \in Path : doc[d].version # call[h].version
        /\ \E d \in Docs, public \in BOOLEAN :
             /\ doc[d].status = "none" /\ \A e \in Docs : e < d => doc[e].status # "none"
             /\ doc' = [doc EXCEPT ![d] = [status |-> "pending", version |-> call[h].version,
                                           public |-> public]]
             /\ call' = [call EXCEPT ![h].pc = "sign", ![h].id = d]
        /\ UNCHANGED races
  /\ UNCHANGED <<current, lapsed, object, signed, late>>

\* ... and returns a signed URL, or deletes the row it cannot sign one for.
SignUpload(h) ==
  /\ call[h].pc = "sign"
  /\ End(h)
  /\ \/ signed' = signed \cup {call[h].id} /\ UNCHANGED rows
     \/ DeleteDocs({call[h].id}) /\ UNCHANGED signed
  /\ UNCHANGED <<object, late>>

\* The browser puts the file, once.
PutObject(d) ==
  /\ d \in signed /\ object[d] = "none"
  /\ signed' = signed \ {d}
  /\ \E bytes \in {"declared"} \cup (IF Corrupt THEN {"other"} ELSE {}) :
       object' = [object EXCEPT ![d] = bytes]
  /\ late' = IF There(d) /\ \A h \in Handlers : d \notin call[h].ids
               THEN late ELSE late \cup {d}
  /\ UNCHANGED <<rows, call, races>>

\* finalizeDocumentUpload: the row is there and not ready yet, ...
StartFinalize(h, d) ==
  /\ doc[d].status = "pending"
  /\ Start(h, [NoCall EXCEPT !.pc = "check", !.id = d])
  /\ UNCHANGED <<rows, object, signed, late>>

\* ... its object has the declared size, ...
CheckObject(h) ==
  /\ call[h].pc = "check"
  /\ IF object[call[h].id] = "none" THEN End(h) ELSE To(h, "ready")
  /\ UNCHANGED <<rows, object, signed, late>>

\* ... it becomes ready (an update of no row is no error), ...
MarkReady(h) ==
  /\ call[h].pc = "ready"
  /\ To(h, "promote")
  /\ doc' = IF There(call[h].id) THEN [doc EXCEPT ![call[h].id].status = "ready"] ELSE doc
  /\ UNCHANGED <<current, lapsed, object, signed, late>>

\* ... and current, by promote_project_document, in one transaction.
Promote(h) ==
  /\ call[h].pc \in {"promote", "restore"}
  /\ IF doc[call[h].id].status # "ready"
     THEN End(h) /\ UNCHANGED current
     ELSE /\ current' = call[h].id
          /\ IF call[h].pc = "promote" THEN To(h, "prunable") ELSE End(h)
  /\ UNCHANGED <<doc, lapsed, object, signed, late>>

\* Mutant of versionsToPrune: the newest are kept, current or not.
versionsToPrune_Newest(ds) ==
  {d \in ds : Cardinality({e \in ds : doc[e].version > doc[d].version}) >= MaxVersions}

\* versionsToPrune: all but the current and the newest others, MaxVersions in all.
versionsToPrune(ds) ==
  LET others == ds \ {current}
      slots == MaxVersions - Cardinality(ds \cap {current})
  IN  {d \in others : Cardinality({e \in others : doc[e].version > doc[d].version}) >= slots}

\* pruneOldVersions: the ready versions are read, ...
ReadPrunable(h) ==
  LET prune == versionsToPrune({d \in Path : doc[d].status = "ready"}) IN
  /\ call[h].pc = "prunable"
  /\ IF prune = {}
     THEN End(h)
     ELSE /\ call' = [call EXCEPT ![h].pc = "pruneObjects", ![h].ids = prune]
          /\ UNCHANGED races
  /\ UNCHANGED <<rows, object, signed, late>>

\* ... their objects removed, whether that fails or not, ...
PruneObjects(h) ==
  /\ call[h].pc = "pruneObjects"
  /\ To(h, "pruneRows")
  /\ \/ RemoveObjects(call[h].ids) /\ UNCHANGED late
     \/ late' = late \cup call[h].ids /\ UNCHANGED object
  /\ UNCHANGED <<rows, signed>>

\* ... and their rows deleted.
PruneRows(h) ==
  /\ call[h].pc = "pruneRows"
  /\ End(h)
  /\ DeleteDocs(call[h].ids)
  /\ UNCHANGED <<object, signed, late>>

-----------------------------------------------------------------------------
(* Deletion, restoring, visibility, expiry. *)

\* deleteDocument reads the versions of the path, ...
StartDelete(h) ==
  /\ Path # {}
  /\ Start(h, [NoCall EXCEPT !.pc = "deleteObjects", !.ids = Path])
  /\ UNCHANGED <<rows, object, signed, late>>

\* Mutant of DeleteObjects: the rows are deleted first.
DeleteObjects_RowsFirst(h) ==
  /\ \/ call[h].pc = "deleteObjects" /\ To(h, "deletePath")
     \/ call[h].pc = "expireObjects" /\ To(h, "expireRows")
  /\ DeleteDocs(call[h].ids)
  /\ UNCHANGED <<object, signed, late>>

\* ... removes their objects ...
DeleteObjects(h) ==
  /\ \/ call[h].pc = "deleteObjects" /\ To(h, "deletePath")
     \/ call[h].pc = "expireObjects" /\ To(h, "expireRows")
  /\ RemoveObjects(call[h].ids)
  /\ UNCHANGED <<rows, signed, late>>

\* ... and deletes every row the path has by now.
DeletePath(h) ==
  /\ call[h].pc = "deletePath"
  /\ End(h)
  /\ DeleteDocs(Path)
  /\ UNCHANGED <<object, signed, late>>

StartRestore(h, d) ==
  /\ doc[d].status = "ready"
  /\ Start(h, [NoCall EXCEPT !.pc = "restore", !.id = d])
  /\ UNCHANGED <<rows, object, signed, late>>

\* setDocumentVisibility: all versions of the path, in one update.
SetVisibility(public) ==
  /\ Path # {}
  /\ doc' = [d \in Docs |-> IF There(d) THEN [doc[d] EXCEPT !.public = public] ELSE doc[d]]
  /\ UNCHANGED <<current, lapsed, object, signed, call, past>>

Lapse(d) ==
  /\ There(d) /\ d \notin lapsed
  /\ lapsed' = lapsed \cup {d}
  /\ UNCHANGED <<doc, current, object, signed, call, past>>

\* expireDocuments: a path whose current version is over, with all versions,
\* and uploads that were not finalized (their URLs are no longer valid).
StartExpire(h) ==
  /\ \/ /\ current \in lapsed
        /\ Start(h, [NoCall EXCEPT !.pc = "expireObjects", !.ids = Path])
        /\ UNCHANGED signed
     \/ \E d \in Docs :
          /\ doc[d].status = "pending"
          /\ Start(h, [NoCall EXCEPT !.pc = "expireObjects", !.ids = {d}])
          /\ signed' = signed \ {d}
  /\ UNCHANGED <<rows, object, late>>

\* ... whose rows are deleted by id.
ExpireRows(h) ==
  /\ call[h].pc = "expireRows"
  /\ End(h)
  /\ DeleteDocs(call[h].ids)
  /\ UNCHANGED <<object, signed, late>>

\* verify-document: a version whose bytes are not the declared ones turns private.
VerifyDocument(d) ==
  /\ doc[d].status = "ready" /\ object[d] # "declared"
  /\ doc' = [doc EXCEPT ![d].public = FALSE]
  /\ UNCHANGED <<current, lapsed, object, signed, call, past>>

-----------------------------------------------------------------------------
Upload(h) ==
  \/ StartUpload(h) \/ InsertDocument(h) \/ SignUpload(h)
  \/ \E d \in Docs : StartFinalize(h, d)
  \/ CheckObject(h) \/ MarkReady(h) \/ Promote(h)
  \/ ReadPrunable(h) \/ PruneObjects(h) \/ PruneRows(h)

Manage(h) ==
  \/ StartDelete(h) \/ DeleteObjects(h) \/ DeletePath(h)
  \/ \E d \in Docs : StartRestore(h, d)
  \/ StartExpire(h) \/ ExpireRows(h)
  \/ Abandon(h)

Web ==
  \/ \E h \in Handlers : Upload(h) \/ Manage(h)
  \/ \E d \in Docs : PutObject(d) \/ Lapse(d) \/ VerifyDocument(d)
  \/ \E public \in BOOLEAN : SetVisibility(public)

\* The manifest of a deployment's runner: the version it is to serve, if any.
\* No URL can be signed for an object that is not there.
Manifest ==
  IF /\ current # NoDoc
     /\ doc[current].status = "ready" /\ doc[current].public
     /\ current \notin lapsed /\ object[current] # "none"
  THEN current ELSE NoDoc

WebSpec == WebInit /\ [][Web]_webVars

-----------------------------------------------------------------------------
(* Properties. *)

\* No object stays in the storage without a row: an object is removed before
\* its row (comment in expire-documents.ts), so a handler that dies leaves a
\* row without an object at worst.  Excepted are a file put while its row was
\* being removed, or later, a prune whose failure to remove it was ignored, and races.
NothingLeaks ==
  races = 0 => \A d \in Docs : object[d] # "none" => There(d) \/ d \in late

\* "The current version is never pruned": it takes a handler beside the one
\* that prunes to make a version current that is about to be deleted.
CurrentIsKept ==
  [][\A h \in Handlers :
       call[h].pc \in {"pruneObjects", "pruneRows"} /\ call'[h] # call[h] /\ races = 0
         => current' = current /\ object'[current] = object[current]]_webVars
=============================================================================
