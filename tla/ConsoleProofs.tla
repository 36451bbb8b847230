---------------------------- MODULE ConsoleProofs ----------------------------
(***************************************************************************)
(* The parts of the console proved one by one: the documents of a project,  *)
(* organisations, schedules, alert rules, logs, versions of a pipeline,     *)
(* project creation and notifications; and the mirror of a project's        *)
(* documents on a runner. Each section states the inductive invariant of    *)
(* its component, one lemma per operation of the code, and the theorems     *)
(* they give.                                                               *)
(***************************************************************************)
EXTENDS ProjectDocuments, Membership, ScheduleDispatch, AlertRule, LogStreamer,
        PipelineVersions, ProjectSetup, Notifications, DocumentMirror,
        FiniteSetTheorems, TLAPS
-----------------------------------------------------------------------------
(* Documents of a project. *)

DocStatuses == {"none", "pending", "ready", "gone"}
DocFields == {"status", "version", "public"}
CallFields == {"pc", "id", "version", "ids"}

\* A handler that is at work is about a row that its step needs.
CallTyped(c) ==
  /\ DOMAIN c = CallFields /\ c.pc \in Steps
  /\ c.id \in Docs \cup {NoDoc} /\ c.ids \subseteq Docs
  /\ c.pc = "idle" => c = NoCall
  /\ c.pc \in {"sign", "check", "ready", "promote", "restore"} => c.id \in Docs

\* The rows and the handlers, but for the numbers of the versions.
WebTyped ==
  /\ DOMAIN doc = Docs
  /\ \A d \in Docs : DOMAIN doc[d] = DocFields /\ doc[d].status \in DocStatuses
  /\ current \in Docs \cup {NoDoc}
  /\ object \in [Docs -> {"none", "declared", "other"}]
  /\ signed \subseteq Docs /\ late \subseteq Docs
  /\ DOMAIN call = Handlers
  /\ \A h \in Handlers : CallTyped(call[h])
  /\ races \in Nat

\* Without races one handler is at work at a time.
Undisturbed ==
  races = 0 => \A g, h \in Handlers : call[g].pc # "idle" /\ call[h].pc # "idle" => g = h

\* A row that is not there yet has no object, nor can one be put.
UnbornIsEmpty ==
  \A d \in Docs : doc[d].status = "none" => object[d] = "none" /\ d \notin signed

\* Rows whose deletion no longer leaves an object behind, or is excepted.
Emptied(ds) == \A d \in ds : object[d] = "none" \/ d \in late

\* What a handler at work has made sure of: the row whose URL is being signed has
\* no object; what is about to be deleted has lost its object; a path that is
\* being deleted holds no row that was not read; and what is being pruned is not
\* the current version, which there is.
HandlersKnow ==
  \A h \in Handlers :
    /\ call[h].pc \in {"pruneRows", "deletePath", "expireRows"} => Emptied(call[h].ids)
    /\ call[h].pc = "sign" => doc[call[h].id].status # "none"
    /\ races = 0 =>
         /\ call[h].pc = "sign" => object[call[h].id] = "none" /\ call[h].id \notin signed
         /\ call[h].pc \in {"deleteObjects", "deletePath"} => Path \subseteq call[h].ids
         /\ call[h].pc \in {"prunable", "pruneObjects", "pruneRows"} => current \in Docs
         /\ call[h].pc \in {"pruneObjects", "pruneRows"} => current \notin call[h].ids

WebInv == WebTyped /\ Undisturbed /\ UnbornIsEmpty /\ HandlersKnow /\ NothingLeaks

LEMMA NoCallTyped == CallTyped(NoCall) /\ NoCall.pc = "idle" /\ NoCall.id = NoDoc /\ NoCall.ids = {}
BY DEF CallTyped, NoCall, CallFields, Steps

LEMMA WebStarts == WebInit => WebInv
<1> SUFFICES ASSUME WebInit PROVE WebInv
  OBVIOUS
<1>1. WebTyped
  BY NoCallTyped DEF WebInit, WebTyped, DocFields, DocStatuses
<1>2. \A h \in Handlers : call[h].pc = "idle"
  BY NoCallTyped DEF WebInit
<1>3. \A d \in Docs : object[d] = "none" /\ d \notin signed
  BY DEF WebInit
<1> QED BY <1>1, <1>2, <1>3 DEF WebInv, Undisturbed, UnbornIsEmpty, HandlersKnow, NothingLeaks

\* A step of one handler, which alone is at work if there were no races.
LEMMA HandlerStep ==
    ASSUME WebInv, NEW h \in Handlers, WebTyped', UnbornIsEmpty', NothingLeaks',
           \A g \in Handlers \ {h} : call'[g] = call[g],
           races' = 0 => races = 0 /\ \A g \in Handlers \ {h} : call[g].pc = "idle",
           late \subseteq late', \A d \in Docs : object[d] = "none" => object'[d] = "none",
           \A d \in Docs : doc[d].status # "none" => doc'[d].status # "none",
           call'[h].pc \in {"pruneRows", "deletePath", "expireRows"} => Emptied(call[h].ids)',
           call'[h].pc = "sign" => doc'[call'[h].id].status # "none",
           races' = 0 =>
             /\ call'[h].pc = "sign" => object'[call'[h].id] = "none" /\ call'[h].id \notin signed'
             /\ call'[h].pc \in {"deleteObjects", "deletePath"} => Path' \subseteq call'[h].ids
             /\ call'[h].pc \in {"prunable", "pruneObjects", "pruneRows"} => current' \in Docs
             /\ call'[h].pc \in {"pruneObjects", "pruneRows"} => current' \notin call'[h].ids
    PROVE  WebInv'
<1>1. Undisturbed'
  BY DEF WebInv, Undisturbed
<1>2. ASSUME NEW g \in Handlers \ {h}
      PROVE  /\ call'[g].pc \in {"pruneRows", "deletePath", "expireRows"} => Emptied(call[g].ids)'
             /\ call'[g].pc = "sign" => doc'[call'[g].id].status # "none"
             /\ races' = 0 => call'[g].pc = "idle"
  <2>1. call'[g] = call[g] /\ call[g].ids \subseteq Docs /\ (call[g].pc = "sign" => call[g].id \in Docs)
    BY DEF WebInv, WebTyped, CallTyped
  <2>2. call[g].pc \in {"pruneRows", "deletePath", "expireRows"} => Emptied(call[g].ids)
    BY DEF WebInv, HandlersKnow
  <2>3. Emptied(call[g].ids) => Emptied(call[g].ids)'
    BY <2>1 DEF Emptied
  <2> QED BY <2>1, <2>2, <2>3 DEF WebInv, HandlersKnow
<1>3. HandlersKnow'
  BY <1>2 DEF HandlersKnow
<1> QED BY <1>1, <1>3 DEF WebInv

\* A handler at work is the only one, if there were no races.
LEMMA AtWorkAlone ==
    ASSUME WebInv, NEW h \in Handlers, call[h].pc # "idle"
    PROVE  races = 0 => \A g \in Handlers \ {h} : call[g].pc = "idle"
BY DEF WebInv, Undisturbed

\* How a handler starts, goes on and ends.
LEMMA StartMoves ==
    ASSUME WebInv, NEW h \in Handlers, NEW c, CallTyped(c), Start(h, c)
    PROVE  /\ DOMAIN call' = Handlers /\ \A g \in Handlers : CallTyped(call'[g])
           /\ races' \in Nat /\ call'[h] = c
           /\ \A g \in Handlers \ {h} : call'[g] = call[g]
           /\ races' = 0 => races = 0 /\ \A g \in Handlers \ {h} : call[g].pc = "idle"
<1>1. /\ call' = [call EXCEPT ![h] = c] /\ races \in Nat /\ DOMAIN call = Handlers
      /\ races' = IF \A g \in Handlers : call[g] = NoCall THEN races ELSE races + 1
  BY DEF Start, WebInv, WebTyped
<1>2. races' \in Nat /\ (races' = 0 => races = 0 /\ \A g \in Handlers : call[g] = NoCall)
  BY <1>1
<1> QED BY <1>1, <1>2, NoCallTyped DEF WebInv, WebTyped

LEMMA CallMovesTo ==
    ASSUME WebInv, NEW h \in Handlers, NEW c, CallTyped(c), call' = [call EXCEPT ![h] = c],
           UNCHANGED races, call[h].pc # "idle"
    PROVE  /\ DOMAIN call' = Handlers /\ \A g \in Handlers : CallTyped(call'[g])
           /\ races' \in Nat /\ call'[h] = c
           /\ \A g \in Handlers \ {h} : call'[g] = call[g]
           /\ races' = 0 => races = 0 /\ \A g \in Handlers \ {h} : call[g].pc = "idle"
BY AtWorkAlone DEF WebInv, WebTyped

\* A step that leaves rows, objects and URLs alone.
LEMMA CallsOnlyStep ==
    ASSUME WebInv, NEW h \in Handlers,
           DOMAIN call' = Handlers /\ \A g \in Handlers : CallTyped(call'[g]),
           races' \in Nat, \A g \in Handlers \ {h} : call'[g] = call[g],
           races' = 0 => races = 0 /\ \A g \in Handlers \ {h} : call[g].pc = "idle",
           UNCHANGED <<rows, object, late>>, signed' \subseteq signed,
           call'[h].pc \in {"pruneRows", "deletePath", "expireRows"} => Emptied(call[h].ids)',
           call'[h].pc # "sign",
           races' = 0 =>
             /\ call'[h].pc \in {"deleteObjects", "deletePath"} => Path \subseteq call'[h].ids
             /\ call'[h].pc \in {"prunable", "pruneObjects", "pruneRows"} => current \in Docs
             /\ call'[h].pc \in {"pruneObjects", "pruneRows"} => current \notin call'[h].ids
    PROVE  WebInv'
<1>1. UNCHANGED <<doc, current>> /\ Path' = Path
  BY DEF rows, Path, There
<1>2. WebTyped' /\ UnbornIsEmpty' /\ NothingLeaks'
  BY <1>1 DEF WebInv, WebTyped, UnbornIsEmpty, NothingLeaks, There
<1> QED BY <1>1, <1>2, HandlerStep

LEMMA EndKeeps ==
    ASSUME WebInv, NEW h \in Handlers, call[h].pc # "idle", End(h), UNCHANGED <<rows, object, signed, late>>
    PROVE  WebInv'
<1>1. call' = [call EXCEPT ![h] = NoCall] /\ UNCHANGED races
  BY DEF End
<1> QED BY <1>1, NoCallTyped, CallMovesTo, CallsOnlyStep

LEMMA StartKeeps ==
    ASSUME WebInv, NEW h \in Handlers, NEW c, CallTyped(c), Start(h, c),
           UNCHANGED <<rows, object, late>>, signed' \subseteq signed,
           c.pc \in {"insert", "check", "deleteObjects", "restore", "expireObjects"},
           c.pc = "deleteObjects" => Path \subseteq c.ids
    PROVE  WebInv'
BY StartMoves, CallsOnlyStep

\* Going on by To changes the step alone.
LEMMA ToMoves ==
    ASSUME WebInv, NEW h \in Handlers, call[h].pc # "idle", NEW pc \in Steps \ {"idle"}, To(h, pc),
           pc \in {"sign", "check", "ready", "promote", "restore"} => call[h].id \in Docs
    PROVE  /\ DOMAIN call' = Handlers /\ \A g \in Handlers : CallTyped(call'[g])
           /\ races' \in Nat /\ \A g \in Handlers \ {h} : call'[g] = call[g]
           /\ races' = 0 => races = 0 /\ \A g \in Handlers \ {h} : call[g].pc = "idle"
           /\ call'[h].pc = pc /\ call'[h].id = call[h].id /\ call'[h].ids = call[h].ids
<1> DEFINE c == [call[h] EXCEPT !.pc = pc]
<1>1. CallTyped(call[h])
  BY DEF WebInv, WebTyped
<1>2. CallTyped(c) /\ c.pc = pc /\ c.id = call[h].id /\ c.ids = call[h].ids
  BY <1>1 DEF CallTyped, CallFields
<1>3. call' = [call EXCEPT ![h] = c] /\ UNCHANGED races
  BY DEF To
<1> HIDE DEF c
<1> QED BY <1>2, <1>3, CallMovesTo

\* What a step of one handler leaves of the others, in one word.
Moves(h) ==
  /\ DOMAIN call' = Handlers /\ \A g \in Handlers : CallTyped(call'[g])
  /\ races' \in Nat /\ \A g \in Handlers \ {h} : call'[g] = call[g]
  /\ races' = 0 => races = 0 /\ \A g \in Handlers \ {h} : call[g].pc = "idle"

\* Rows are deleted that have no object, or are excepted, by a handler that ends.
LEMMA DeleteKeeps ==
    ASSUME WebInv, NEW h \in Handlers, call[h].pc # "idle", End(h),
           NEW ds \in SUBSET Docs, DeleteDocs(ds), UNCHANGED <<object, signed, late>>,
           races = 0 => Emptied(ds)
    PROVE  WebInv'
<1>1. Moves(h) /\ call'[h] = NoCall /\ UNCHANGED races
  BY CallMovesTo, NoCallTyped DEF End, Moves
<1>2. /\ DOMAIN doc' = Docs
      /\ \A d \in Docs : DOMAIN doc'[d] = DocFields
                         /\ doc'[d].status = IF d \in ds /\ There(d) THEN "gone" ELSE doc[d].status
  BY DEF DeleteDocs, WebInv, WebTyped, DocFields
<1>3. current' \in Docs \cup {NoDoc}
  BY DEF DeleteDocs, WebInv, WebTyped
<1>4. WebTyped'
  BY <1>1, <1>2, <1>3 DEF WebInv, WebTyped, DocStatuses, Moves
<1>5. \A d \in Docs : /\ doc'[d].status = "none" <=> doc[d].status = "none"
                      /\ d \notin ds => (There(d)' <=> There(d))
  BY <1>2 DEF There
<1>6. UnbornIsEmpty' /\ NothingLeaks'
  BY <1>1, <1>5 DEF WebInv, UnbornIsEmpty, NothingLeaks, Emptied
<1> QED BY <1>1, <1>4, <1>5, <1>6, NoCallTyped, HandlerStep DEF Moves

-----------------------------------------------------------------------------
LEMMA StartUploadKeeps == ASSUME WebInv, NEW h \in Handlers, StartUpload(h) PROVE WebInv'
<1> DEFINE c == [NoCall EXCEPT !.pc = "insert",
                               !.version = Max({doc[d].version : d \in Path} \cup {0}) + 1]
<1>1. CallTyped(c) /\ c.pc = "insert"
  BY DEF CallTyped, NoCall, CallFields, Steps
<1>2. Start(h, c) /\ UNCHANGED <<rows, object, signed, late>>
  BY DEF StartUpload
<1> HIDE DEF c
<1> QED BY <1>1, <1>2, StartKeeps

LEMMA InsertDocumentKeeps == ASSUME WebInv, NEW h \in Handlers, InsertDocument(h) PROVE WebInv'
<1>0. /\ call[h].pc # "idle" /\ UNCHANGED <<current, lapsed, object, signed, late>>
      /\ CallTyped(call[h])
  BY DEF InsertDocument, WebInv, WebTyped
<1>1. CASE End(h) /\ UNCHANGED doc
  BY <1>0, <1>1, EndKeeps DEF rows
<1>2. ASSUME NEW d \in Docs, NEW public \in BOOLEAN, doc[d].status = "none", UNCHANGED races,
             doc' = [doc EXCEPT ![d] = [status |-> "pending", version |-> call[h].version,
                                        public |-> public]],
             call' = [call EXCEPT ![h].pc = "sign", ![h].id = d]
      PROVE  WebInv'
  <2> DEFINE c == [call[h] EXCEPT !.pc = "sign", !.id = d]
             r == [status |-> "pending", version |-> call[h].version, public |-> public]
  <2>1. CallTyped(c) /\ c.pc = "sign" /\ c.id = d
    BY <1>0 DEF CallTyped, CallFields, Steps
  <2>2. call' = [call EXCEPT ![h] = c]
    BY <1>2 DEF WebInv, WebTyped
  <2>3. DOMAIN r = DocFields /\ r.status = "pending" /\ doc' = [doc EXCEPT ![d] = r]
    BY <1>2 DEF DocFields
  <2> HIDE DEF c, r
  <2>4. Moves(h) /\ call'[h] = c
    BY <1>0, <1>2, <2>1, <2>2, CallMovesTo DEF Moves
  <2>5. DOMAIN doc' = Docs /\ \A e \in Docs : doc'[e] = IF e = d THEN r ELSE doc[e]
    BY <2>3 DEF WebInv, WebTyped
  <2>6. WebTyped'
    BY <1>0, <2>3, <2>4, <2>5 DEF WebInv, WebTyped, DocStatuses, Moves
  <2>7. UnbornIsEmpty'
    BY <1>0, <2>3, <2>5 DEF WebInv, UnbornIsEmpty
  <2>8. NothingLeaks'
    BY <1>0, <1>2, <2>3, <2>5 DEF WebInv, NothingLeaks, There
  <2>9. object[d] = "none" /\ d \notin signed
    BY <1>2 DEF WebInv, UnbornIsEmpty
  <2> QED BY <1>0, <2>1, <2>3, <2>4, <2>5, <2>6, <2>7, <2>8, <2>9, HandlerStep DEF Moves
<1> QED BY <1>1, <1>2 DEF InsertDocument

LEMMA SignUploadKeeps == ASSUME WebInv, NEW h \in Handlers, SignUpload(h) PROVE WebInv'
<1> DEFINE d == call[h].id
<1>0. /\ call[h].pc = "sign" /\ End(h) /\ UNCHANGED <<object, late>> /\ d \in Docs
      /\ doc[d].status # "none" /\ (races = 0 => object[d] = "none")
  BY DEF SignUpload, WebInv, WebTyped, CallTyped, HandlersKnow
<1>1. CASE DeleteDocs({d}) /\ UNCHANGED signed
  <2>1. races = 0 => Emptied({d})
    BY <1>0 DEF Emptied
  <2> QED BY <1>0, <1>1, <2>1, DeleteKeeps
<1>2. CASE signed' = signed \cup {d} /\ UNCHANGED rows
  <2>1. Moves(h) /\ call'[h] = NoCall /\ UNCHANGED races
    BY <1>0, CallMovesTo, NoCallTyped DEF End, Moves
  <2>2. UNCHANGED <<doc, current>>
    BY <1>2 DEF rows
  <2>3. WebTyped' /\ UnbornIsEmpty' /\ NothingLeaks'
    BY <1>0, <1>2, <2>1, <2>2 DEF WebInv, WebTyped, UnbornIsEmpty, NothingLeaks, There, Moves
  <2> QED BY <1>0, <2>1, <2>2, <2>3, NoCallTyped, HandlerStep DEF Moves
<1> QED BY <1>0, <1>1, <1>2 DEF SignUpload

\* A file that is put while its row is being deleted, or later, is excepted.
LEMMA PutObjectKeeps == ASSUME WebInv, NEW d \in Docs, PutObject(d) PROVE WebInv'
<1>0. /\ d \in signed /\ signed' = signed \ {d} /\ UNCHANGED <<doc, current, call, races>>
      /\ late' = IF There(d) /\ \A h \in Handlers : d \notin call[h].ids
                   THEN late ELSE late \cup {d}
  BY DEF PutObject, rows
<1>1. PICK bytes \in {"declared", "other"} : object' = [object EXCEPT ![d] = bytes]
  BY DEF PutObject
<1>2. \A e \in Docs : e # d => object'[e] = object[e]
  BY <1>1 DEF WebInv, WebTyped
<1>3. late \subseteq late' /\ (There(d) \/ d \in late') /\ \A h \in Handlers : d \in call[h].ids => d \in late'
  BY <1>0
<1>4. WebTyped'
  BY <1>0, <1>1 DEF WebInv, WebTyped
<1>5. UnbornIsEmpty'
  BY <1>0, <1>2 DEF WebInv, UnbornIsEmpty
<1>6. NothingLeaks'
  BY <1>0, <1>2, <1>3 DEF WebInv, NothingLeaks, There
<1>7. ASSUME NEW h \in Handlers, Emptied(call[h].ids) PROVE Emptied(call[h].ids)'
  <2>1. call[h].ids \subseteq Docs
    BY DEF WebInv, WebTyped, CallTyped
  <2> QED BY <1>0, <1>2, <1>3, <1>7, <2>1 DEF Emptied
<1>8. ASSUME NEW h \in Handlers, call[h].pc = "sign", races = 0
      PROVE  object'[call[h].id] = "none" /\ call[h].id \notin signed'
  <2>1. object[call[h].id] = "none" /\ call[h].id \notin signed /\ call[h].id \in Docs
    BY <1>8 DEF WebInv, WebTyped, CallTyped, HandlersKnow
  <2> QED BY <1>0, <1>2, <2>1
<1>9. Path' = Path
  BY <1>0 DEF Path, There
<1>10. HandlersKnow'
  BY <1>0, <1>7, <1>8, <1>9 DEF WebInv, HandlersKnow
<1>11. Undisturbed'
  BY <1>0 DEF WebInv, Undisturbed
<1> QED BY <1>4, <1>5, <1>6, <1>10, <1>11 DEF WebInv

LEMMA StartFinalizeKeeps ==
    ASSUME WebInv, NEW h \in Handlers, NEW d \in Docs, StartFinalize(h, d) \/ StartRestore(h, d)
    PROVE  WebInv'
<1>1. ASSUME NEW pc \in {"check", "restore"}, Start(h, [NoCall EXCEPT !.pc = pc, !.id = d])
      PROVE  WebInv'
  <2> DEFINE c == [NoCall EXCEPT !.pc = pc, !.id = d]
  <2>1. CallTyped(c) /\ c.pc = pc
    BY DEF CallTyped, NoCall, CallFields, Steps
  <2>2. Start(h, c) /\ UNCHANGED <<rows, object, signed, late>>
    BY <1>1 DEF StartFinalize, StartRestore
  <2> HIDE DEF c
  <2> QED BY <2>1, <2>2, StartKeeps
<1> QED BY <1>1 DEF StartFinalize, StartRestore

LEMMA CheckObjectKeeps == ASSUME WebInv, NEW h \in Handlers, CheckObject(h) PROVE WebInv'
<1>0. /\ call[h].pc = "check" /\ UNCHANGED <<rows, object, signed, late>> /\ call[h].id \in Docs
  BY DEF CheckObject, WebInv, WebTyped, CallTyped
<1>1. CASE End(h)
  BY <1>0, <1>1, EndKeeps
<1>2. CASE To(h, "ready")
  <2>1. "ready" \in Steps \ {"idle"}
    BY DEF Steps
  <2>2. Moves(h) /\ call'[h].pc = "ready"
    BY <1>0, <1>2, <2>1, ToMoves DEF Moves
  <2> QED BY <1>0, <2>2, CallsOnlyStep DEF Moves
<1> QED BY <1>1, <1>2 DEF CheckObject

LEMMA MarkReadyKeeps == ASSUME WebInv, NEW h \in Handlers, MarkReady(h) PROVE WebInv'
<1> DEFINE d == call[h].id
<1>0. /\ call[h].pc = "ready" /\ To(h, "promote") /\ d \in Docs /\ "promote" \in Steps \ {"idle"}
      /\ UNCHANGED <<current, lapsed, object, signed, late>>
      /\ doc' = IF There(d) THEN [doc EXCEPT ![d].status = "ready"] ELSE doc
  BY DEF MarkReady, WebInv, WebTyped, CallTyped, Steps
<1>1. Moves(h) /\ call'[h].pc = "promote"
  BY <1>0, ToMoves DEF Moves
<1> HIDE DEF d
<1>2. /\ DOMAIN doc' = Docs
      /\ \A e \in Docs : /\ DOMAIN doc'[e] = DocFields
                         /\ doc'[e].status = IF e = d /\ There(d) THEN "ready" ELSE doc[e].status
  BY <1>0 DEF WebInv, WebTyped, DocFields
<1>3. WebTyped'
  BY <1>0, <1>1, <1>2 DEF WebInv, WebTyped, DocStatuses, Moves
<1>4. \A e \in Docs : (There(e)' <=> There(e)) /\ (doc'[e].status = "none" <=> doc[e].status = "none")
  BY <1>2 DEF There
<1>5. UnbornIsEmpty' /\ NothingLeaks'
  BY <1>0, <1>1, <1>4 DEF WebInv, UnbornIsEmpty, NothingLeaks, Moves
<1> QED BY <1>0, <1>1, <1>3, <1>4, <1>5, HandlerStep DEF Moves

LEMMA PromoteKeeps == ASSUME WebInv, NEW h \in Handlers, Promote(h) PROVE WebInv'
<1> DEFINE d == call[h].id
<1>0. /\ call[h].pc \in {"promote", "restore"} /\ d \in Docs
      /\ UNCHANGED <<doc, lapsed, object, signed, late>>
  BY DEF Promote, WebInv, WebTyped, CallTyped
<1>1. CASE End(h) /\ UNCHANGED current
  BY <1>0, <1>1, EndKeeps DEF rows
<1>2. ASSUME current' = d, Moves(h), call'[h].pc \in {"prunable", "idle"} PROVE WebInv'
  <2>1. Path' = Path /\ \A e \in Docs : (There(e)' <=> There(e))
    BY <1>0 DEF Path, There
  <2>2. WebTyped' /\ UnbornIsEmpty' /\ NothingLeaks'
    BY <1>0, <1>2, <2>1 DEF WebInv, WebTyped, UnbornIsEmpty, NothingLeaks, Moves
  <2> QED BY <1>0, <1>2, <2>1, <2>2, HandlerStep DEF Moves
<1>3. CASE current' = d /\ End(h)
  BY <1>0, <1>2, <1>3, CallMovesTo, NoCallTyped DEF End, Moves
<1>4. CASE current' = d /\ To(h, "prunable")
  <2>1. "prunable" \in Steps \ {"idle"}
    BY DEF Steps
  <2> QED BY <1>0, <1>2, <1>4, <2>1, ToMoves DEF Moves
<1> QED BY <1>1, <1>3, <1>4 DEF Promote

\* What is pruned are other versions than the current one.
LEMMA ReadPrunableKeeps == ASSUME WebInv, NEW h \in Handlers, ReadPrunable(h) PROVE WebInv'
<1> DEFINE prune == versionsToPrune({d \in Path : doc[d].status = "ready"})
<1>0. /\ call[h].pc = "prunable" /\ UNCHANGED <<rows, object, signed, late>> /\ CallTyped(call[h])
      /\ races = 0 => current \in Docs
  BY DEF ReadPrunable, WebInv, WebTyped, HandlersKnow
<1>1. prune \subseteq Docs /\ current \notin prune
  BY DEF versionsToPrune, Path
<1>2. CASE End(h)
  BY <1>0, <1>2, EndKeeps
<1>3. CASE call' = [call EXCEPT ![h].pc = "pruneObjects", ![h].ids = prune] /\ UNCHANGED races
  <2> DEFINE c == [call[h] EXCEPT !.pc = "pruneObjects", !.ids = prune]
  <2> HIDE DEF prune
  <2>1. CallTyped(c) /\ c.pc = "pruneObjects" /\ c.ids = prune
    BY <1>0, <1>1 DEF CallTyped, CallFields, Steps
  <2>2. call' = [call EXCEPT ![h] = c]
    BY <1>3 DEF WebInv, WebTyped
  <2> HIDE DEF c
  <2>3. Moves(h) /\ call'[h] = c /\ UNCHANGED races
    BY <1>0, <1>3, <2>1, <2>2, CallMovesTo DEF Moves
  <2> QED BY <1>0, <1>1, <2>1, <2>3, CallsOnlyStep DEF Moves
<1> QED BY <1>2, <1>3 DEF ReadPrunable

LEMMA PruneObjectsKeeps == ASSUME WebInv, NEW h \in Handlers, PruneObjects(h) PROVE WebInv'
<1> DEFINE ids == call[h].ids
<1>0. /\ call[h].pc = "pruneObjects" /\ To(h, "pruneRows") /\ UNCHANGED <<doc, current, signed>>
      /\ ids \subseteq Docs /\ "pruneRows" \in Steps \ {"idle"}
      /\ races = 0 => current \in Docs /\ current \notin ids
  BY DEF PruneObjects, WebInv, WebTyped, CallTyped, HandlersKnow, Steps, rows
<1>1. Moves(h) /\ call'[h].pc = "pruneRows" /\ call'[h].ids = ids
  BY <1>0, ToMoves DEF Moves
<1>2. /\ object' \in [Docs -> {"none", "declared", "other"}] /\ late' \subseteq Docs
      /\ late \subseteq late' /\ \A d \in Docs : object[d] = "none" => object'[d] = "none"
      /\ \A d \in ids : object'[d] = "none" \/ d \in late'
      /\ \A d \in Docs : object'[d] # "none" => object[d] # "none"
  BY <1>0 DEF PruneObjects, RemoveObjects, WebInv, WebTyped
<1> HIDE DEF ids
<1>3. Emptied(call[h].ids)'
  BY <1>1, <1>2 DEF Emptied
<1>4. WebTyped' /\ UnbornIsEmpty' /\ NothingLeaks'
  BY <1>0, <1>1, <1>2 DEF WebInv, WebTyped, UnbornIsEmpty, NothingLeaks, There, Moves
<1> QED BY <1>0, <1>1, <1>2, <1>3, <1>4, HandlerStep DEF Moves

LEMMA DeleteObjectsKeeps == ASSUME WebInv, NEW h \in Handlers, DeleteObjects(h) PROVE WebInv'
<1> DEFINE ids == call[h].ids
<1>0. PICK pc \in {"deletePath", "expireRows"} :
        /\ To(h, pc) /\ call[h].pc \in {"deleteObjects", "expireObjects"}
        /\ pc = "deletePath" => call[h].pc = "deleteObjects"
  BY DEF DeleteObjects
<1>1. /\ RemoveObjects(ids) /\ UNCHANGED <<doc, current, signed, late>> /\ ids \subseteq Docs
      /\ pc \in Steps \ {"idle"} /\ (races = 0 /\ pc = "deletePath" => Path \subseteq ids)
  BY <1>0 DEF DeleteObjects, WebInv, WebTyped, CallTyped, HandlersKnow, Steps, rows
<1>2. Moves(h) /\ call'[h].pc = pc /\ call'[h].ids = ids
  BY <1>0, <1>1, ToMoves DEF Moves
<1> HIDE DEF ids
<1>3. /\ object' \in [Docs -> {"none", "declared", "other"}]
      /\ \A d \in Docs : object'[d] = IF d \in ids THEN "none" ELSE object[d]
  BY <1>1 DEF RemoveObjects, WebInv, WebTyped
<1>4. Emptied(call[h].ids)' /\ Path' = Path
  BY <1>1, <1>2, <1>3 DEF Emptied, Path, There
<1>5. WebTyped' /\ UnbornIsEmpty' /\ NothingLeaks'
  BY <1>1, <1>2, <1>3 DEF WebInv, WebTyped, UnbornIsEmpty, NothingLeaks, There, Moves
<1> QED BY <1>1, <1>2, <1>3, <1>4, <1>5, HandlerStep DEF Moves

\* The rows of a pruning, a deletion and an expiry.
LEMMA RowsGo ==
    ASSUME WebInv, NEW h \in Handlers, PruneRows(h) \/ DeletePath(h) \/ ExpireRows(h) PROVE WebInv'
<1>0. /\ call[h].pc \in {"pruneRows", "deletePath", "expireRows"} /\ End(h)
      /\ UNCHANGED <<object, signed, late>> /\ call[h].ids \in SUBSET Docs /\ Path \in SUBSET Docs
      /\ Emptied(call[h].ids)
  BY DEF PruneRows, DeletePath, ExpireRows, WebInv, WebTyped, CallTyped, HandlersKnow, Path
<1>1. CASE DeleteDocs(call[h].ids)
  BY <1>0, <1>1, DeleteKeeps
<1>2. CASE DeletePath(h)
  <2>1. DeleteDocs(Path) /\ (races = 0 => Path \subseteq call[h].ids)
    BY <1>2 DEF DeletePath, WebInv, HandlersKnow
  <2>2. races = 0 => Emptied(Path)
    BY <1>0, <2>1 DEF Emptied
  <2> QED BY <1>0, <2>1, <2>2, DeleteKeeps
<1> QED BY <1>1, <1>2 DEF PruneRows, ExpireRows

LEMMA StartDeleteKeeps == ASSUME WebInv, NEW h \in Handlers, StartDelete(h) \/ StartExpire(h) PROVE WebInv'
<1>1. ASSUME NEW pc \in {"deleteObjects", "expireObjects"}, NEW ds \in SUBSET Docs, pc = "deleteObjects" => ds = Path,
             Start(h, [NoCall EXCEPT !.pc = pc, !.ids = ds]), signed' \subseteq signed,
             UNCHANGED <<rows, object, late>>
      PROVE  WebInv'
  <2> DEFINE c == [NoCall EXCEPT !.pc = pc, !.ids = ds]
  <2>1. CallTyped(c) /\ c.pc = pc /\ c.ids = ds
    BY DEF CallTyped, NoCall, CallFields, Steps
  <2>2. Start(h, c)
    BY <1>1
  <2> HIDE DEF c
  <2> QED BY <1>1, <2>1, <2>2, StartKeeps
<1>2. Path \in SUBSET Docs
  BY DEF Path
<1>3. CASE StartDelete(h)
  BY <1>1, <1>2, <1>3 DEF StartDelete
<1>4. CASE StartExpire(h)
  BY <1>1, <1>2, <1>4 DEF StartExpire
<1> QED BY <1>3, <1>4

\* Steps on which neither a row nor an object comes or goes.
LEMMA StatusStays ==
    ASSUME WebInv, UNCHANGED <<current, object, signed, call, races, late>>, DOMAIN doc' = Docs,
           \A d \in Docs : DOMAIN doc'[d] = DocFields /\ doc'[d].status = doc[d].status
    PROVE  WebInv'
<1>1. Path' = Path /\ \A d \in Docs : (There(d)' <=> There(d))
  BY DEF Path, There
<1>2. WebTyped' /\ UnbornIsEmpty' /\ NothingLeaks' /\ Undisturbed'
  BY <1>1 DEF WebInv, WebTyped, UnbornIsEmpty, NothingLeaks, Undisturbed
<1>3. \A h \in Handlers : (call[h].pc = "sign" => call[h].id \in Docs) /\ (Emptied(call[h].ids)' <=> Emptied(call[h].ids))
  BY DEF WebInv, WebTyped, CallTyped, Emptied
<1>4. HandlersKnow'
  BY <1>1, <1>3 DEF WebInv, HandlersKnow
<1> QED BY <1>2, <1>4 DEF WebInv

LEMMA WebKeeps == WebInv /\ [Web]_webVars => WebInv'
<1> SUFFICES ASSUME WebInv, [Web]_webVars PROVE WebInv'
  OBVIOUS
<1>1. ASSUME NEW h \in Handlers, Upload(h) PROVE WebInv'
  BY <1>1, StartUploadKeeps, InsertDocumentKeeps, SignUploadKeeps, StartFinalizeKeeps, CheckObjectKeeps,
     MarkReadyKeeps, PromoteKeeps, ReadPrunableKeeps, PruneObjectsKeeps, RowsGo DEF Upload
<1>2. ASSUME NEW h \in Handlers, Abandon(h) PROVE WebInv'
  <2>1. call[h].pc # "idle"
    BY <1>2 DEF Abandon, WebInv, WebTyped, CallTyped
  <2> QED BY <1>2, <2>1, EndKeeps DEF Abandon
<1>3. ASSUME NEW h \in Handlers, Manage(h) PROVE WebInv'
  BY <1>2, <1>3, StartDeleteKeeps, DeleteObjectsKeeps, RowsGo, StartFinalizeKeeps DEF Manage
<1>4. ASSUME NEW d \in Docs, Lapse(d) PROVE WebInv'
  BY <1>4, StatusStays DEF Lapse, past, WebInv, WebTyped
<1>5. ASSUME NEW d \in Docs, VerifyDocument(d) PROVE WebInv'
  BY <1>5, StatusStays DEF VerifyDocument, past, WebInv, WebTyped, DocFields
<1>6. ASSUME NEW public \in BOOLEAN, SetVisibility(public) PROVE WebInv'
  BY <1>6, StatusStays DEF SetVisibility, past, WebInv, WebTyped, DocFields
<1>7. CASE UNCHANGED webVars
  BY <1>7, StatusStays DEF webVars, rows, past, WebInv, WebTyped
<1> QED BY <1>1, <1>3, <1>4, <1>5, <1>6, <1>7, PutObjectKeeps DEF Web

\* No object outlives its row unless it was put too late or handlers overlapped,
\* for any number of versions and of handlers that die between two calls.
THEOREM NoObjectLeaks == WebSpec => []NothingLeaks
BY WebStarts, WebKeeps, PTL DEF WebSpec, WebInv

\* A pruning never takes the current version away, nor its object, while
\* handlers do not overlap, for any number of versions that are kept.
THEOREM PruningKeepsCurrent == WebSpec => CurrentIsKept
<1>1. ASSUME WebInv, [Web]_webVars
      PROVE  [\A h \in Handlers :
                call[h].pc \in {"pruneObjects", "pruneRows"} /\ call'[h] # call[h] /\ races = 0
                  => current' = current /\ object'[current] = object[current]]_webVars
  <2> SUFFICES ASSUME Web, NEW h \in Handlers, call[h].pc \in {"pruneObjects", "pruneRows"},
                      call'[h] # call[h], races = 0
               PROVE  current' = current /\ object'[current] = object[current]
    BY <1>1
  <2>1. /\ current \in Docs /\ current \notin call[h].ids /\ call[h] # NoCall /\ h \in DOMAIN call
        /\ object \in [Docs -> {"none", "declared", "other"}] /\ DOMAIN call = Handlers
    BY <1>1, NoCallTyped DEF WebInv, WebTyped, HandlersKnow
  <2>2. CASE PruneObjects(h)
    BY <2>1, <2>2 DEF PruneObjects, RemoveObjects, rows
  <2>3. CASE PruneRows(h)
    BY <2>1, <2>3 DEF PruneRows, DeleteDocs
  <2>4. CASE Abandon(h)
    BY <2>4 DEF Abandon, rows
  \* The other steps are another handler's, which leave this one where it is, or
  \* begin or go on at another step.
  <2>5. ASSUME NEW g \in Handlers, g # h, Upload(g) \/ Manage(g) PROVE FALSE
    <3>1. call[g].pc = "idle" /\ call[g] = NoCall
      BY <1>1, <2>5, AtWorkAlone DEF WebInv, WebTyped, CallTyped
    <3>2. call'[h] = call[h]
      BY <2>1, <2>5, <3>1 DEF Upload, Manage, StartUpload, StartFinalize, StartDelete, StartRestore, StartExpire, Start,
         InsertDocument, SignUpload, CheckObject, MarkReady, Promote, ReadPrunable, PruneObjects, PruneRows,
         DeleteObjects, DeletePath, ExpireRows, Abandon
    <3> QED BY <3>2
  <2>6. ASSUME Upload(h) \/ Manage(h) PROVE PruneObjects(h) \/ PruneRows(h) \/ Abandon(h)
    BY <2>1, <2>6 DEF Upload, Manage, StartUpload, StartFinalize, StartDelete, StartRestore, StartExpire, Start,
         InsertDocument, SignUpload, CheckObject, MarkReady, Promote, ReadPrunable,
         DeleteObjects, DeletePath, ExpireRows
  <2>7. ASSUME (\E d \in Docs : PutObject(d) \/ Lapse(d) \/ VerifyDocument(d))
                 \/ (\E public \in BOOLEAN : SetVisibility(public))
        PROVE  FALSE
    BY <2>7 DEF PutObject, Lapse, VerifyDocument, SetVisibility
  <2> QED BY <2>2, <2>3, <2>4, <2>5, <2>6, <2>7 DEF Web
<1> QED BY <1>1, WebStarts, WebKeeps, PTL DEF WebSpec, CurrentIsKept

-----------------------------------------------------------------------------
(* Organisations. *)

\* What an action in flight is about and may grant.  An invitation to become an
\* admin is only on its way under the founder's name; a call about to write to a
\* member is not about the founder, and grants "admin" only if it read "owner".
CallsAreAllowed ==
  \A a \in Actions :
    LET c == action[a] IN
    /\ c.pc \in {"check", "insert", "replace"} => c.grant \in Roles
    /\ c.pc \in {"check", "insert", "replace"} /\ c.grant = "admin" => c.by = Founder
    /\ c.pc \in {"target", "update", "remove"} => c.role \in {"admin", "owner"}
    /\ c.pc \in {"update", "remove"} => c.target # Founder
    /\ c.pc \in {"update", "remove"} /\ c.grant = "admin" => c.role = "owner"

\* A stored invitation is one of an organisation that is still there, and one to
\* become an admin was sent by the founder.
InvitesAreAllowed ==
  \A i \in Invites :
    invite[i] # NoInvite => /\ member[Founder] = "owner"
                            /\ invite[i].role = "admin" => invite[i].by = Founder

Ranked == {"none", "viewer", "developer", "admin", "owner"}
Rows == [status : {"none", "pending", "accepted"}, email : Users, role : Roles, by : Users]
CallsOf(pcs) == [pc : pcs, by : Users, role : Ranked, target : Users,
                 grant : Roles \cup {"none"}, id : Invites \cup {0}]
CallPcs == {"idle", "check", "insert", "replace", "target", "update", "remove"}

OrgTyped == /\ member \in [Users -> Ranked] /\ invite \in [Invites -> Rows]
            /\ action \in [Actions -> CallsOf(CallPcs)] /\ knighted \subseteq Users

OrgInv == OrgTyped /\ RanksComeFromOwner /\ CallsAreAllowed /\ InvitesAreAllowed

\* The constants and the type invariant in these words.
LEMMA OrgConstants ==
  /\ Roles \subseteq {"viewer", "developer", "admin"} /\ Founder \in Users
  /\ NoInvite \in Rows /\ NoInvite.status = "none"
  /\ NoAction \in CallsOf(CallPcs) /\ NoAction.pc = "idle"
BY OrgAssumption DEF NoInvite, NoAction, Ranked, Rows, CallsOf, CallPcs

LEMMA OrgTypes == OrgTyped => OrgTypeOK
BY DEF OrgTyped, OrgTypeOK, Ranked, Rows, CallsOf, CallPcs, ROLE_HIERARCHY

\* What the ranks allow: only the owner and the admins reach "admin".
LEMMA Ranks ==
    ASSUME NEW role \in Ranked
    PROVE  hasMinRole(role, "admin") <=> role \in {"admin", "owner"}
BY DEF hasMinRole, ROLE_HIERARCHY, Ranked

\* A call begins: what is known of its caller.
LEMMA CallBegins ==
    ASSUME OrgInv, NEW a \in Actions, NEW u \in Users,
           NEW fields \in CallsOf({"check", "replace", "target"}), Call(a, u, fields),
           fields.pc # "target" => fields.grant \in Roles /\ ~OnlyOwners(member[u], fields.grant),
           UNCHANGED <<member, invite, knighted>>
    PROVE  OrgInv'
<1>1. member[u] \in {"admin", "owner"}
  BY Ranks DEF OrgInv, OrgTyped, Call
<1>2. member[u] = "owner" => u = Founder
  BY DEF OrgInv, RanksComeFromOwner
<1> DEFINE c == [fields EXCEPT !.by = u, !.role = member[u]]
<1>3. /\ c \in CallsOf({"check", "replace", "target"})
      /\ c.pc = fields.pc /\ c.by = u /\ c.role = member[u] /\ c.grant = fields.grant
  BY <1>1 DEF Ranked, CallsOf
<1>4. action' = [action EXCEPT ![a] = c]
  BY DEF Call
<1>5. c.pc \in {"check", "replace", "target"} /\ c \in CallsOf(CallPcs)
  BY <1>3 DEF CallsOf, CallPcs
<1> HIDE DEF c
<1>6. /\ member' \in [Users -> Ranked] /\ invite' \in [Invites -> Rows]
      /\ action' \in [Actions -> CallsOf(CallPcs)] /\ knighted' \subseteq Users
  BY <1>4, <1>5 DEF OrgInv, OrgTyped
<1>7. \A b \in Actions : action'[b] = IF b = a THEN c ELSE action[b]
  BY <1>4 DEF OrgInv, OrgTyped
<1>8. CallsAreAllowed'
  <2>1. c.pc \in {"check", "replace"} /\ c.grant = "admin" => c.by = Founder
    BY <1>1, <1>2, <1>3 DEF OnlyOwners
  <2> QED BY <1>1, <1>3, <1>5, <1>7, <2>1 DEF OrgInv, CallsAreAllowed
<1>9. RanksComeFromOwner' /\ InvitesAreAllowed'
  BY DEF OrgInv, RanksComeFromOwner, InvitesAreAllowed, NoInvite
<1> QED BY <1>6, <1>8, <1>9 DEF OrgInv, OrgTyped

\* A call goes on to another step, within what it may do ...
LEMMA CallGoesOn ==
    ASSUME OrgInv, NEW a \in Actions, NEW c \in CallsOf({"insert", "update", "remove"}),
           action' = [action EXCEPT ![a] = c],
           c.by = action[a].by /\ c.role = action[a].role /\ c.grant = action[a].grant,
           c.target = action[a].target,
           IF c.pc = "insert" THEN action[a].pc \in {"check", "replace"}
           ELSE action[a].pc = "target" /\ c.target # Founder /\ ~OnlyOwners(c.role, c.grant)
    PROVE  action' \in [Actions -> CallsOf(CallPcs)] /\ CallsAreAllowed'
<1>1. c.pc \in {"insert", "update", "remove"} /\ c \in CallsOf(CallPcs)
  BY DEF CallsOf, CallPcs
<1>2. \A b \in Actions : action'[b] = IF b = a THEN c ELSE action[b]
  BY DEF OrgInv, OrgTyped
<1>3. CallsAreAllowed'
  BY <1>1, <1>2 DEF OrgInv, CallsAreAllowed, OnlyOwners
<1> QED BY <1>1, <1>3 DEF OrgInv, OrgTyped

\* ... or returns.
LEMMA CallReturns ==
    ASSUME OrgInv, NEW a \in Actions, Returns(a)
    PROVE  action' \in [Actions -> CallsOf(CallPcs)] /\ CallsAreAllowed'
<1>1. \A b \in Actions : action'[b] = IF b = a THEN NoAction ELSE action[b]
  BY DEF OrgInv, OrgTyped, Returns
<1>2. CallsAreAllowed'
  BY <1>1, OrgConstants DEF OrgInv, CallsAreAllowed
<1> QED BY <1>2, OrgConstants DEF OrgInv, OrgTyped, Returns

LEMMA InviteMemberKeeps ==
    ASSUME OrgInv, NEW a \in Actions, NEW u \in Users, NEW email \in Users, NEW role \in Roles,
           InviteMember(a, u, email, role)
    PROVE  OrgInv'
<1> DEFINE f == [NoAction EXCEPT !.pc = "check", !.target = email, !.grant = role]
<1>1. f \in CallsOf({"check", "replace", "target"}) /\ f.pc = "check" /\ f.grant = role
  BY OrgConstants DEF CallsOf
<1>2. /\ Call(a, u, f) /\ ~OnlyOwners(member[u], role)
      /\ UNCHANGED <<member, invite, knighted>>
  BY DEF InviteMember
<1> HIDE DEF f
<1> QED BY <1>1, <1>2, CallBegins

LEMMA ResendInviteKeeps ==
    ASSUME OrgInv, NEW a \in Actions, NEW u \in Users, NEW i \in Invites, ResendInvite(a, u, i)
    PROVE  OrgInv'
<1> DEFINE f == [NoAction EXCEPT !.pc = "replace", !.id = i, !.target = invite[i].email,
                                 !.grant = invite[i].role]
<1>0. invite[i] \in Rows /\ invite[i].role \in Roles
  BY DEF OrgInv, OrgTyped, Rows
<1>1. f \in CallsOf({"check", "replace", "target"}) /\ f.pc = "replace" /\ f.grant = invite[i].role
  BY <1>0, OrgConstants DEF CallsOf, Rows
<1>2. /\ Call(a, u, f) /\ ~OnlyOwners(member[u], invite[i].role)
      /\ UNCHANGED <<member, invite, knighted>>
  BY DEF ResendInvite
<1> HIDE DEF f
<1> QED BY <1>0, <1>1, <1>2, CallBegins

LEMMA ManageMemberKeeps ==
    ASSUME OrgInv, NEW a \in Actions, NEW u \in Users, NEW target \in Users,
           NEW grant \in Roles \cup {"none"}, ManageMember(a, u, target, grant)
    PROVE  OrgInv'
<1> DEFINE f == [NoAction EXCEPT !.pc = "target", !.target = target, !.grant = grant]
<1>1. f \in CallsOf({"check", "replace", "target"}) /\ f.pc = "target"
  BY OrgConstants DEF CallsOf
<1>2. Call(a, u, f) /\ UNCHANGED <<member, invite, knighted>>
  BY DEF ManageMember
<1> HIDE DEF f
<1> QED BY <1>1, <1>2, CallBegins

\* A step that leaves members and invitations alone keeps what is said of them.
LEMMA CallsOnly ==
    ASSUME OrgInv, action' \in [Actions -> CallsOf(CallPcs)] /\ CallsAreAllowed',
           UNCHANGED <<member, invite, knighted>>
    PROVE  OrgInv'
BY DEF OrgInv, OrgTyped, RanksComeFromOwner, InvitesAreAllowed, NoInvite

\* A call that goes on by Goes differs in its step alone.
LEMMA GoesOn ==
    ASSUME OrgInv, NEW a \in Actions, NEW pc \in {"insert", "update", "remove"}, Goes(a, pc),
           IF pc = "insert" THEN action[a].pc = "check"
           ELSE /\ action[a].pc = "target" /\ action[a].target # Founder
                /\ ~OnlyOwners(action[a].role, action[a].grant)
    PROVE  action' \in [Actions -> CallsOf(CallPcs)] /\ CallsAreAllowed'
<1> DEFINE c == [action[a] EXCEPT !.pc = pc]
<1>1. action[a] \in CallsOf(CallPcs)
  BY DEF OrgInv, OrgTyped
<1>2. /\ c \in CallsOf({"insert", "update", "remove"})
      /\ c.pc = pc /\ c.by = action[a].by /\ c.role = action[a].role /\ c.grant = action[a].grant
      /\ c.target = action[a].target
  BY <1>1 DEF CallsOf
<1>3. action' = [action EXCEPT ![a] = c]
  BY DEF Goes
<1> HIDE DEF c
<1> QED BY <1>2, <1>3, CallGoesOn

LEMMA CheckMemberKeeps == ASSUME OrgInv, NEW a \in Actions, CheckMember(a) PROVE OrgInv'
<1>1. CASE member[action[a].target] # "none"
  BY <1>1, CallReturns, CallsOnly DEF CheckMember
<1>2. CASE ~(member[action[a].target] # "none")
  <2>1. Goes(a, "insert") /\ action[a].pc = "check"
    BY <1>2 DEF CheckMember
  <2>2. action' \in [Actions -> CallsOf(CallPcs)] /\ CallsAreAllowed'
    BY <2>1, GoesOn
  <2> QED BY <2>2, CallsOnly DEF CheckMember
<1> QED BY <1>1, <1>2

\* The founder never is anything but the owner, or gone; and nobody else is the owner.
LEMMA ReadTargetKeeps == ASSUME OrgInv, NEW a \in Actions, ReadTarget(a) PROVE OrgInv'
<1> DEFINE c == action[a]
           role == member[c.target]
<1>0. c \in CallsOf(CallPcs) /\ c.target \in Users
  BY DEF OrgInv, OrgTyped, CallsOf
<1>1. CASE role \in {"none", "owner"} \/ OnlyOwners(c.role, role) \/ OnlyOwners(c.role, c.grant)
  BY <1>1, CallReturns, CallsOnly DEF ReadTarget
<1>2. CASE ~(role \in {"none", "owner"} \/ OnlyOwners(c.role, role) \/ OnlyOwners(c.role, c.grant))
  <2>1. c.target # Founder
    BY <1>0, <1>2 DEF OrgInv, RanksComeFromOwner
  <2> DEFINE pc == IF c.grant = "none" THEN "remove" ELSE "update"
  <2>2. Goes(a, pc) /\ c.pc = "target"
    BY <1>2 DEF ReadTarget
  <2>3. pc \in {"insert", "update", "remove"} /\ pc # "insert"
    OBVIOUS
  <2>4. ~OnlyOwners(c.role, c.grant)
    BY <1>2
  <2> HIDE DEF pc
  <2>5. action' \in [Actions -> CallsOf(CallPcs)] /\ CallsAreAllowed'
    BY <2>1, <2>2, <2>3, <2>4, GoesOn
  <2> QED BY <2>5, CallsOnly DEF ReadTarget
<1> QED BY <1>1, <1>2

\* Whoever may write is a member of an organisation that is still there.
LEMMA WritersRank ==
    ASSUME OrgInv, NEW u \in Users, MayWrite(u)
    PROVE  member[u] \in {"admin", "owner"} /\ member[Founder] = "owner"
BY Ranks DEF MayWrite, OrgInv, OrgTyped, RanksComeFromOwner

LEMMA InsertInviteKeeps == ASSUME OrgInv, NEW a \in Actions, InsertInvite(a) PROVE OrgInv'
<1> DEFINE c == action[a]
<1>0. c \in CallsOf(CallPcs) /\ c.by \in Users /\ c.target \in Users
  BY DEF OrgInv, OrgTyped, CallsOf
<1>1. action' \in [Actions -> CallsOf(CallPcs)] /\ CallsAreAllowed'
  BY CallReturns DEF InsertInvite
<1>2. CASE UNCHANGED invite
  BY <1>1, <1>2, CallsOnly DEF InsertInvite
<1>3. ASSUME MayWrite(c.by), NEW i \in Invites,
             invite' = [invite EXCEPT ![i] = [status |-> "pending", email |-> c.target,
                                              role |-> c.grant, by |-> c.by]]
      PROVE  OrgInv'
  \* InsertInvite may be reached from "insert" only, whose grant the call checked.
  <2>1. c.pc = "insert" /\ UNCHANGED <<member, knighted>>
    BY DEF InsertInvite
  <2>2. c.grant \in Roles /\ (c.grant = "admin" => c.by = Founder)
    BY <2>1 DEF OrgInv, CallsAreAllowed
  <2>3. member[Founder] = "owner"
    BY <1>0, <1>3, WritersRank
  <2> DEFINE new == [status |-> "pending", email |-> c.target, role |-> c.grant, by |-> c.by]
  <2>4. new \in Rows /\ new.role = c.grant /\ new.by = c.by
    BY <1>0, <2>2 DEF Rows
  <2>5. invite' = [invite EXCEPT ![i] = new]
    BY <1>3
  <2> HIDE DEF new, c
  <2>6. OrgTyped'
    BY <1>1, <2>1, <2>4, <2>5 DEF OrgInv, OrgTyped
  <2>7. \A j \in Invites : invite'[j] = IF j = i THEN new ELSE invite[j]
    BY <2>5 DEF OrgInv, OrgTyped
  <2>8. InvitesAreAllowed'
    BY <2>1, <2>2, <2>3, <2>4, <2>7 DEF OrgInv, InvitesAreAllowed, NoInvite
  <2>9. RanksComeFromOwner'
    BY <2>1 DEF OrgInv, RanksComeFromOwner
  <2> QED BY <1>1, <2>6, <2>8, <2>9 DEF OrgInv
<1> QED BY <1>2, <1>3 DEF InsertInvite

\* An invitation is taken from the table.
LEMMA InviteGoes ==
    ASSUME OrgInv, NEW i \in Invites, invite' = [invite EXCEPT ![i] = NoInvite],
           UNCHANGED <<member, knighted>>
    PROVE  invite' \in [Invites -> Rows] /\ RanksComeFromOwner' /\ InvitesAreAllowed'
<1>1. \A j \in Invites : invite'[j] = IF j = i THEN NoInvite ELSE invite[j]
  BY DEF OrgInv, OrgTyped
<1>2. InvitesAreAllowed'
  BY <1>1 DEF OrgInv, InvitesAreAllowed, NoInvite
<1> QED BY <1>2, OrgConstants DEF OrgInv, OrgTyped, RanksComeFromOwner

LEMMA DeleteReplacedKeeps == ASSUME OrgInv, NEW a \in Actions, DeleteReplaced(a) PROVE OrgInv'
<1> DEFINE c == action[a]
           d == [c EXCEPT !.pc = "insert", !.id = 0]
<1>0. c \in CallsOf(CallPcs) /\ c.pc = "replace"
  BY DEF OrgInv, OrgTyped, DeleteReplaced
<1>1. CASE ~(MayWrite(c.by) /\ Pending(c.id))
  <2>1. Returns(a) /\ UNCHANGED <<member, invite, knighted>>
    BY <1>1 DEF DeleteReplaced
  <2> QED BY <2>1, CallReturns, CallsOnly
<1>2. CASE MayWrite(c.by) /\ Pending(c.id)
  <2>1. /\ invite' = [invite EXCEPT ![c.id] = NoInvite] /\ action' = [action EXCEPT ![a] = d]
        /\ UNCHANGED <<member, knighted>>
    BY <1>2 DEF DeleteReplaced
  <2>2. /\ d \in CallsOf({"insert", "update", "remove"}) /\ d.pc = "insert"
        /\ d.by = c.by /\ d.role = c.role /\ d.grant = c.grant /\ d.target = c.target
    BY <1>0 DEF CallsOf
  <2> HIDE DEF d
  <2>3. action' \in [Actions -> CallsOf(CallPcs)] /\ CallsAreAllowed'
    BY <1>0, <2>1, <2>2, CallGoesOn
  <2>4. CASE c.id \in Invites
    BY <2>1, <2>3, <2>4, InviteGoes DEF OrgInv, OrgTyped
  <2>5. CASE c.id \notin Invites
    <3>1. UNCHANGED invite
      BY <2>1, <2>5 DEF OrgInv, OrgTyped
    <3> QED BY <2>1, <2>3, <3>1, CallsOnly
  <2> QED BY <2>4, <2>5
<1> QED BY <1>1, <1>2

LEMMA CancelInviteKeeps ==
    ASSUME OrgInv, NEW i \in Invites, invite' = [invite EXCEPT ![i] = NoInvite],
           UNCHANGED <<member, action, knighted>>
    PROVE  OrgInv'
BY InviteGoes DEF OrgInv, OrgTyped, CallsAreAllowed

\* The write of a role: the target is not the founder, and "admin" is the owner's grant.
LEMMA WriteMemberKeeps == ASSUME OrgInv, NEW a \in Actions, WriteMember(a) PROVE OrgInv'
<1> DEFINE c == action[a]
<1>0. c \in CallsOf(CallPcs) /\ c.by \in Users /\ c.target \in Users /\ c.pc \in {"update", "remove"}
  BY DEF OrgInv, OrgTyped, CallsOf, WriteMember
<1>1. action' \in [Actions -> CallsOf(CallPcs)] /\ CallsAreAllowed'
  BY CallReturns DEF WriteMember
<1>2. CASE ~(MayWrite(c.by) /\ member[c.target] # "none")
  BY <1>1, <1>2, CallsOnly DEF WriteMember
<1>3. CASE MayWrite(c.by) /\ member[c.target] # "none"
  <2>1. /\ member' = [member EXCEPT ![c.target] = c.grant] /\ UNCHANGED invite
        /\ knighted' = IF c.role = "owner" /\ c.grant = "admin"
                       THEN knighted \cup {c.target} ELSE knighted \ {c.target}
    BY <1>3 DEF WriteMember
  <2>2. c.target # Founder /\ (c.grant = "admin" => c.role = "owner")
    BY <1>0 DEF OrgInv, CallsAreAllowed
  <2>3. c.grant \in Ranked /\ c.grant # "owner"
    BY <1>0, OrgConstants DEF CallsOf, Ranked
  <2>4. member[Founder] = "owner"
    BY <1>0, <1>3, WritersRank
  <2> HIDE DEF c
  <2>5. \A u \in Users : member'[u] = IF u = c.target THEN c.grant ELSE member[u]
    BY <2>1 DEF OrgInv, OrgTyped
  <2>6. \A u \in Users : u # c.target => (u \in knighted' <=> u \in knighted)
    BY <2>1
  <2>7. c.grant = "admin" => c.target \in knighted'
    BY <2>1, <2>2
  <2>8. RanksComeFromOwner'
    BY <2>2, <2>3, <2>4, <2>5, <2>6, <2>7, OrgConstants DEF OrgInv, RanksComeFromOwner
  <2>9. InvitesAreAllowed'
    BY <2>1, <2>2, <2>5, OrgConstants DEF OrgInv, InvitesAreAllowed, NoInvite
  <2>10. OrgTyped'
    BY <1>0, <1>1, <2>1, <2>3 DEF OrgInv, OrgTyped
  <2> QED BY <1>1, <2>8, <2>9, <2>10 DEF OrgInv
<1> QED BY <1>2, <1>3

\* An invitation to become an admin is the founder's, who is the owner still.
LEMMA RedeemInviteKeeps ==
    ASSUME OrgInv, NEW u \in Users, NEW i \in Invites, RedeemInvite(u, i) PROVE OrgInv'
<1>1. /\ invite[i] \in Rows /\ invite[i] # NoInvite
      /\ invite' = [invite EXCEPT ![i] = [invite[i] EXCEPT !.status = "accepted"]]
      /\ UNCHANGED action
  BY OrgConstants DEF OrgInv, OrgTyped, RedeemInvite, Pending
<1> DEFINE new == [invite[i] EXCEPT !.status = "accepted"]
<1>2. new \in Rows /\ new.role = invite[i].role /\ new.by = invite[i].by
  BY <1>1 DEF Rows
<1>3. member[Founder] = "owner" /\ (invite[i].role = "admin" => invite[i].by = Founder)
  BY <1>1 DEF OrgInv, InvitesAreAllowed
<1>4. invite[i].role \in Ranked /\ invite[i].role \notin {"none", "owner"}
  BY <1>1, OrgConstants DEF Rows, Ranked
<1>5. invite' = [invite EXCEPT ![i] = new]
  BY <1>1
<1> HIDE DEF new
<1>6. \A j \in Invites : invite'[j] = IF j = i THEN new ELSE invite[j]
  BY <1>5 DEF OrgInv, OrgTyped
<1>7. CallsAreAllowed'
  BY <1>1 DEF OrgInv, CallsAreAllowed
<1>8. CASE member[u] # "none"
  <2>1. UNCHANGED <<member, knighted>>
    BY <1>8 DEF RedeemInvite
  <2>2. InvitesAreAllowed'
    BY <1>1, <1>2, <1>3, <1>6, <2>1 DEF OrgInv, InvitesAreAllowed, NoInvite
  <2>3. OrgTyped' /\ RanksComeFromOwner'
    BY <1>1, <1>2, <1>5, <2>1 DEF OrgInv, OrgTyped, RanksComeFromOwner
  <2> QED BY <1>7, <2>2, <2>3 DEF OrgInv
<1>9. CASE member[u] = "none"
  <2>1. /\ member' = [member EXCEPT ![u] = invite[i].role]
        /\ knighted' = IF member[invite[i].by] = "owner" /\ invite[i].role = "admin"
                       THEN knighted \cup {u} ELSE knighted
    BY <1>9 DEF RedeemInvite
  <2>2. \A v \in Users : member'[v] = IF v = u THEN invite[i].role ELSE member[v]
    BY <2>1 DEF OrgInv, OrgTyped
  <2>3. u # Founder
    BY <1>3, <1>9
  <2>4. knighted \subseteq knighted' /\ (invite[i].role = "admin" => u \in knighted')
    BY <1>3, <2>1
  <2>5. RanksComeFromOwner'
    BY <1>3, <1>4, <2>2, <2>3, <2>4, OrgConstants DEF OrgInv, RanksComeFromOwner
  <2>6. InvitesAreAllowed'
    BY <1>1, <1>2, <1>3, <1>6, <2>2, <2>3, OrgConstants DEF OrgInv, InvitesAreAllowed, NoInvite
  <2>7. OrgTyped'
    BY <1>1, <1>2, <1>4, <1>5, <2>1 DEF OrgInv, OrgTyped
  <2> QED BY <1>7, <2>5, <2>6, <2>7 DEF OrgInv
<1> QED BY <1>8, <1>9

LEMMA DeleteOrganizationKeeps == ASSUME OrgInv, NEW u \in Users, DeleteOrganization(u) PROVE OrgInv'
BY OrgConstants
DEF OrgInv, OrgTyped, RanksComeFromOwner, CallsAreAllowed, InvitesAreAllowed, DeleteOrganization,
    Ranked, NoInvite

LEMMA OrgStarts == OrgInit => OrgInv
BY OrgConstants
DEF OrgInit, OrgInv, OrgTyped, RanksComeFromOwner, CallsAreAllowed, InvitesAreAllowed, Ranked, NoInvite

LEMMA OrgKeeps == OrgInv /\ [Org]_orgVars => OrgInv'
<1> SUFFICES ASSUME OrgInv, [Org]_orgVars PROVE OrgInv'
  OBVIOUS
<1>1. CASE Invitation
  <2>1. ASSUME NEW u \in Users, NEW i \in Invites, CancelInvite(u, i) PROVE OrgInv'
    BY <2>1, CancelInviteKeeps DEF CancelInvite
  <2>2. ASSUME NEW i \in Invites, DeclineInvite(i) PROVE OrgInv'
    BY <2>2, CancelInviteKeeps DEF DeclineInvite
  <2> QED BY <1>1, <2>1, <2>2, InviteMemberKeeps, ResendInviteKeeps, CheckMemberKeeps,
             InsertInviteKeeps, DeleteReplacedKeeps, RedeemInviteKeeps DEF Invitation
<1>2. CASE Management
  BY <1>2, ManageMemberKeeps, ReadTargetKeeps, WriteMemberKeeps, DeleteOrganizationKeeps DEF Management
<1>3. CASE UNCHANGED orgVars
  BY <1>3 DEF orgVars, OrgInv, OrgTyped, RanksComeFromOwner, CallsAreAllowed, InvitesAreAllowed, NoInvite
<1> QED BY <1>1, <1>2, <1>3 DEF Org

\* The rows and the calls of an organisation have their types.
THEOREM OrgTypeCorrect == OrgSpec => []OrgTypeOK
BY OrgStarts, OrgKeeps, OrgTypes, PTL DEF OrgSpec, OrgInv

\* While an organisation has members its founder is its one owner, and whoever is
\* an admin was made one by the owner, for any accounts, invitations and overlap.
THEOREM RanksAreGranted == OrgSpec => []RanksComeFromOwner
BY OrgStarts, OrgKeeps, PTL DEF OrgSpec, OrgInv

-----------------------------------------------------------------------------
(* Schedules. *)

\* The next slot is one strictly after the time it is computed for.
LEMMA NextIsLater ==
    ASSUME NEW period \in Nat \ {0}, NEW after \in Nat
    PROVE  getNextCronRun(period, after) \in Nat /\ getNextCronRun(period, after) > after
<1>1. /\ after = period * (after \div period) + (after % period)
      /\ after % period < period /\ after \div period \in Nat /\ after % period \in Nat
  OBVIOUS
<1>2. (after \div period + 1) * period = period * (after \div period) + period
  BY <1>1
<1> QED BY <1>1, <1>2 DEF getNextCronRun

LEMMA SlotsAreTimes ==
  /\ Slots \subseteq Nat
  /\ \A period \in Periods, now \in 1 .. LastMinute :
       getNextCronRun(period, now) \in Slots /\ getNextCronRun(period, now) > now
BY NextIsLater, ScheduleAssumption DEF Slots

LEMMA SlotTimes == \A s \in Slots : s \in Nat
BY SlotsAreTimes

\* A row has a period, and so has an edit that will write one.
RowsHavePeriods ==
  /\ schedule.exists # "none" => schedule.period \in Periods
  /\ edit # NoEdit => edit.period \in Periods /\ edit.value \in Slots
  /\ edit.kind \in {"none", "create"} \/ schedule.exists # "none"

\* A dispatch has the time of its tick, and claims a slot that was due by then
\* with the expression it read.
ClaimsAreDue ==
  \A d \in Dispatches :
    /\ dispatch[d].pc # "idle" => dispatch[d].now \in 1 .. LastMinute
    /\ dispatch[d].pc = "claim" => /\ dispatch[d].seen <= dispatch[d].now
                                   /\ dispatch[d].period \in Periods

\* The schedule is beyond every slot that was claimed, if no edit put it back.
NextIsBeyond ==
  \A s \in Slots : fired[s] > 0 /\ s \notin rewound => schedule.next > s

DispatchRecords ==
  [pc : {"idle", "fetch", "claim", "insert"}, now : 0 .. LastMinute, seen : Slots \cup {0},
   period : Periods \cup {0}]

ScheduleInv == ScheduleTypeOK /\ RowsHavePeriods /\ ClaimsAreDue /\ NextIsBeyond /\ SlotFiresOnce

LEMMA ScheduleStarts == ScheduleInit => ScheduleInv
BY SlotsAreTimes, ScheduleAssumption
DEF ScheduleInit, ScheduleInv, ScheduleTypeOK, RowsHavePeriods, ClaimsAreDue, NextIsBeyond,
    SlotFiresOnce, NoDispatch, NoEdit

LEMMA MinuteKeeps == ASSUME ScheduleInv, Minute PROVE ScheduleInv'
BY ScheduleAssumption DEF Minute, ScheduleInv, ScheduleTypeOK, RowsHavePeriods, ClaimsAreDue, NextIsBeyond,
    SlotFiresOnce, NoEdit

\* A step of a dispatch that claims nothing.
LEMMA DispatchOnly ==
    ASSUME ScheduleInv, NEW d \in Dispatches, UNCHANGED <<minute, schedule, edit, fired, rewound>>,
           NEW r \in DispatchRecords,
           dispatch' = [dispatch EXCEPT ![d] = r],
           r.pc # "idle" => r.now \in 1 .. LastMinute, r.pc = "claim" => r.seen <= r.now /\ r.period \in Periods
    PROVE  ScheduleInv'
<1>1. \A e \in Dispatches : dispatch'[e] = IF e = d THEN r ELSE dispatch[e]
  BY DEF ScheduleInv, ScheduleTypeOK
<1>2. ScheduleTypeOK'
  BY DEF ScheduleInv, ScheduleTypeOK, DispatchRecords
<1>3. ClaimsAreDue'
  BY <1>1 DEF ScheduleInv, ClaimsAreDue
<1> QED BY <1>2, <1>3 DEF ScheduleInv, RowsHavePeriods, NextIsBeyond, SlotFiresOnce, NoEdit

LEMMA NoDispatchTyped ==
  NoDispatch \in DispatchRecords /\ NoDispatch.pc = "idle"
BY ScheduleAssumption DEF NoDispatch, DispatchRecords

LEMMA DispatchEnds ==
    ASSUME ScheduleInv, NEW d \in Dispatches, EndDispatch(d),
           UNCHANGED <<minute, schedule, edit, fired, rewound>>
    PROVE  ScheduleInv'
BY DispatchOnly, NoDispatchTyped DEF EndDispatch

LEMMA StartDispatchKeeps ==
    ASSUME ScheduleInv, NEW d \in Dispatches, StartDispatch(d) PROVE ScheduleInv'
<1> DEFINE r == [NoDispatch EXCEPT !.pc = "fetch", !.now = minute]
<1>1. r \in DispatchRecords
      /\ r.pc = "fetch" /\ r.now = minute /\ minute \in 1 .. LastMinute
  <2>1. minute \in 1 .. LastMinute /\ minute \in 0 .. LastMinute
    BY ScheduleAssumption DEF ScheduleInv, ScheduleTypeOK
  <2> QED BY <2>1, NoDispatchTyped DEF DispatchRecords
<1>2. dispatch' = [dispatch EXCEPT ![d] = r] /\ UNCHANGED <<minute, schedule, edit, fired, rewound>>
  BY DEF StartDispatch
<1> HIDE DEF r
<1> QED BY <1>1, <1>2, DispatchOnly

LEMMA FetchDueKeeps ==
    ASSUME ScheduleInv, NEW d \in Dispatches, FetchDue(d) PROVE ScheduleInv'
<1>1. CASE schedule.exists = "row" /\ schedule.active /\ schedule.next <= dispatch[d].now
  <2> DEFINE r == [dispatch[d] EXCEPT !.pc = "claim", !.seen = schedule.next,
                                      !.period = schedule.period]
  <2>1. dispatch[d].now \in 1 .. LastMinute /\ schedule.period \in Periods
    BY <1>1 DEF ScheduleInv, ClaimsAreDue, RowsHavePeriods, FetchDue
  <2>2. /\ r \in DispatchRecords /\ r.pc = "claim" /\ r.now = dispatch[d].now
        /\ r.seen = schedule.next /\ r.period = schedule.period
    BY DEF ScheduleInv, ScheduleTypeOK, DispatchRecords
  <2>3. dispatch' = [dispatch EXCEPT ![d] = r] /\ UNCHANGED <<minute, schedule, edit, fired, rewound>>
    BY <1>1 DEF FetchDue
  <2> HIDE DEF r
  <2> QED BY <1>1, <2>1, <2>2, <2>3, DispatchOnly
<1>2. CASE ~(schedule.exists = "row" /\ schedule.active /\ schedule.next <= dispatch[d].now)
  BY <1>2, DispatchEnds DEF FetchDue
<1> QED BY <1>1, <1>2

\* The slot that is claimed was due, and the schedule moves beyond it: it was
\* not claimed before, or an edit put the schedule back.
LEMMA ClaimSlotKeeps ==
    ASSUME ScheduleInv, NEW d \in Dispatches, ClaimSlot(d) PROVE ScheduleInv'
<1>1. CASE ~(schedule.exists = "row" /\ schedule.next = dispatch[d].seen)
  BY <1>1, DispatchEnds DEF ClaimSlot
<1>2. CASE schedule.exists = "row" /\ schedule.next = dispatch[d].seen
  <2> DEFINE next == getNextCronRun(dispatch[d].period, dispatch[d].now)
             seen == dispatch[d].seen
             r == [dispatch[d] EXCEPT !.pc = "insert"]
  <2>1. /\ schedule' = [schedule EXCEPT !.next = next] /\ fired' = [fired EXCEPT ![seen] = @ + 1]
        /\ dispatch' = [dispatch EXCEPT ![d] = r] /\ UNCHANGED <<minute, edit, rewound>>
    BY <1>2 DEF ClaimSlot
  <2>2. /\ dispatch[d].now \in 1 .. LastMinute /\ seen <= dispatch[d].now
        /\ dispatch[d].period \in Periods
    BY DEF ScheduleInv, ClaimsAreDue, ClaimSlot
  <2>3. next \in Slots /\ next > dispatch[d].now
    BY <2>2, SlotsAreTimes
  <2>4. next > seen /\ seen \in Slots \cup {0} /\ seen = schedule.next
    <3>1. seen \in Slots \cup {0}
      BY DEF ScheduleInv, ScheduleTypeOK
    <3> HIDE DEF seen, next
    <3>2. seen \in Nat /\ next \in Nat /\ dispatch[d].now \in Nat
      BY <2>2, <2>3, <3>1, SlotsAreTimes
    <3>3. next > seen
      BY <2>2, <2>3, <3>2
    <3> QED BY <1>2, <3>1, <3>3 DEF seen
  <2>5. /\ schedule'.next = next /\ schedule'.exists = schedule.exists /\ schedule'.period = schedule.period
        /\ schedule' \in [exists : {"none", "row", "gone"}, active : BOOLEAN, period : Periods \cup {0},
                   next : Slots \cup {0}]
    BY <2>1, <2>3 DEF ScheduleInv, ScheduleTypeOK
  <2>6. r \in DispatchRecords /\ r.pc = "insert" /\ r.now = dispatch[d].now
    BY DEF ScheduleInv, ScheduleTypeOK, DispatchRecords
  <2> HIDE DEF next, seen, r
  <2>7. \A s \in Slots : fired'[s] = IF s = seen THEN fired[s] + 1 ELSE fired[s]
    BY <2>1 DEF ScheduleInv, ScheduleTypeOK
  <2>8. \A s \in Slots : fired[s] \in Nat /\ s \in Nat /\ next \in Nat /\ seen \in Nat
    BY <2>3, <2>4, SlotsAreTimes DEF ScheduleInv, ScheduleTypeOK
  <2>9. NextIsBeyond'
    BY <2>1, <2>4, <2>5, <2>7, <2>8 DEF ScheduleInv, NextIsBeyond
  <2>10. SlotFiresOnce'
    BY <2>1, <2>4, <2>7, <2>8 DEF ScheduleInv, SlotFiresOnce, NextIsBeyond
  <2>11. \A e \in Dispatches : dispatch'[e] = IF e = d THEN r ELSE dispatch[e]
    BY <2>1 DEF ScheduleInv, ScheduleTypeOK
  <2>12. ClaimsAreDue'
    BY <2>2, <2>6, <2>11 DEF ScheduleInv, ClaimsAreDue
  <2>13. RowsHavePeriods'
    BY <2>1, <2>5 DEF ScheduleInv, RowsHavePeriods, NoEdit
  <2>14. ScheduleTypeOK'
    <3>1. fired' \in [Slots -> Nat]
      <4>1. CASE seen \in Slots
        BY <2>1, <2>8, <4>1 DEF ScheduleInv, ScheduleTypeOK
      <4>2. CASE seen \notin Slots
        BY <2>1, <4>2 DEF ScheduleInv, ScheduleTypeOK
      <4> QED BY <4>1, <4>2
    <3>2. dispatch' \in [Dispatches -> DispatchRecords]
      BY <2>1, <2>6 DEF ScheduleInv, ScheduleTypeOK, DispatchRecords
    <3> QED BY <2>1, <2>5, <3>1, <3>2 DEF ScheduleInv, ScheduleTypeOK, DispatchRecords
  <2> QED BY <2>9, <2>10, <2>12, <2>13, <2>14 DEF ScheduleInv
<1> QED BY <1>1, <1>2

LEMMA StartEditKeeps ==
    ASSUME ScheduleInv, NEW kind \in {"create", "update", "activate"}, NEW period \in Periods,
           StartEdit(kind, period)
    PROVE  ScheduleInv'
<1>1. getNextCronRun(period, minute) \in Slots
  BY SlotsAreTimes DEF ScheduleInv, ScheduleTypeOK
<1>2. ScheduleTypeOK'
  BY <1>1 DEF ScheduleInv, ScheduleTypeOK, StartEdit
<1>3. RowsHavePeriods'
  BY <1>1 DEF ScheduleInv, RowsHavePeriods, StartEdit
<1> QED BY <1>2, <1>3 DEF ScheduleInv, ClaimsAreDue, NextIsBeyond, SlotFiresOnce, StartEdit

LEMMA WriteEditKeeps == ASSUME ScheduleInv, WriteEdit PROVE ScheduleInv'
<1>0. /\ edit' = NoEdit /\ UNCHANGED <<minute, dispatch, fired>> /\ NoEdit.kind = "none"
      /\ NoEdit \in [kind : {"none", "create", "update", "activate"}, period : Periods \cup {0},
               value : Slots \cup {0}]
      /\ edit.value \in Slots /\ edit.period \in Periods
  BY DEF WriteEdit, NoEdit, ScheduleInv, RowsHavePeriods
<1>1. CASE edit.kind # "create" /\ schedule.exists # "row"
  <2>1. UNCHANGED <<schedule, rewound>>
    BY <1>1 DEF WriteEdit
  <2> QED BY <1>0, <2>1 DEF ScheduleInv, ScheduleTypeOK, RowsHavePeriods, ClaimsAreDue, NextIsBeyond, SlotFiresOnce
<1>2. CASE ~(edit.kind # "create" /\ schedule.exists # "row")
  <2>1. /\ schedule' = [exists |-> "row", next |-> edit.value,
                          active |-> schedule.active \/ edit.kind # "update",
                          period |-> IF edit.kind = "activate" THEN schedule.period
                                                               ELSE edit.period]
        /\ rewound' = rewound \cup {s \in Slots : s >= edit.value /\ fired[s] > 0}
    BY <1>2 DEF WriteEdit
  <2>2. edit.kind = "activate" => schedule.period \in Periods
    BY <1>2 DEF ScheduleInv, RowsHavePeriods
  <2>3. schedule'.next = edit.value /\ schedule'.exists = "row" /\ schedule'.period \in Periods
    BY <1>0, <2>1, <2>2
  <2>4. ScheduleTypeOK'
    <3> DEFINE on == schedule.active \/ edit.kind # "update"
    <3>1. on \in BOOLEAN /\ schedule' = [exists |-> "row", next |-> edit.value, active |-> on,
                                         period |-> schedule'.period]
      BY <2>1
    <3> HIDE DEF on
    <3>2. schedule' \in [exists : {"none", "row", "gone"}, active : BOOLEAN, period : Periods \cup {0},
                         next : Slots \cup {0}]
      BY <1>0, <2>3, <3>1
    <3> QED BY <1>0, <2>1, <3>2 DEF ScheduleInv, ScheduleTypeOK
  <2>5. NextIsBeyond'
    <3>1. \A s \in Slots : fired[s] > 0 /\ s \notin rewound' => ~(s >= edit.value)
      BY <2>1
    <3>2. \A s \in Slots : ~(s >= edit.value) => edit.value > s
      BY <1>0, SlotTimes
    <3> QED BY <1>0, <2>3, <3>1, <3>2 DEF NextIsBeyond
  <2>6. SlotFiresOnce' /\ ClaimsAreDue'
    BY <1>0, <2>1 DEF SlotFiresOnce, ClaimsAreDue, ScheduleInv
  <2>7. RowsHavePeriods'
    BY <1>0, <2>3 DEF RowsHavePeriods
  <2> QED BY <2>4, <2>5, <2>6, <2>7 DEF ScheduleInv
<1> QED BY <1>1, <1>2

LEMMA RowChanges ==
    ASSUME ScheduleInv, schedule.exists = "row", NEW exists \in {"row", "gone"}, NEW active \in BOOLEAN,
           schedule' = [schedule EXCEPT !.exists = exists, !.active = active],
           UNCHANGED <<minute, dispatch, edit, fired, rewound>>
    PROVE  ScheduleInv'
BY DEF ScheduleInv, ScheduleTypeOK, RowsHavePeriods, ClaimsAreDue, NextIsBeyond, SlotFiresOnce, NoEdit

LEMMA ScheduleKeeps == ScheduleInv /\ [Schedule]_scheduleVars => ScheduleInv'
<1> SUFFICES ASSUME ScheduleInv, [Schedule]_scheduleVars PROVE ScheduleInv'
  OBVIOUS
<1>1. ASSUME NEW d \in Dispatches, Dispatching(d) PROVE ScheduleInv'
  BY <1>1, StartDispatchKeeps, FetchDueKeeps, ClaimSlotKeeps, DispatchEnds
  DEF Dispatching, InsertScheduledRun, FailDispatch
<1>2. CASE Deactivate
  BY <1>2, RowChanges DEF Deactivate, ScheduleInv, ScheduleTypeOK
<1>3. CASE DeleteSchedule
  BY <1>3, RowChanges DEF DeleteSchedule, ScheduleInv, ScheduleTypeOK
<1>4. CASE UNCHANGED scheduleVars
  BY <1>4 DEF scheduleVars, ScheduleInv, ScheduleTypeOK, RowsHavePeriods, ClaimsAreDue, NextIsBeyond,
              SlotFiresOnce, NoEdit
<1> QED BY <1>1, <1>2, <1>3, <1>4, MinuteKeeps, StartEditKeeps, WriteEditKeeps DEF Schedule, Editing

\* A schedule, the dispatches and the edits have their types.
THEOREM ScheduleTypeCorrect == ScheduleSpec => []ScheduleTypeOK
BY ScheduleStarts, ScheduleKeeps, PTL DEF ScheduleSpec, ScheduleInv

\* No slot of a schedule is claimed twice that no edit put it back to, for any
\* cron expressions and any number of dispatches that overlap or die, and the
\* edits that change the expression between a fetch and its claim.
THEOREM NoSlotTwice == ScheduleSpec => []SlotFiresOnce
BY ScheduleStarts, ScheduleKeeps, PTL DEF ScheduleSpec, ScheduleInv

-----------------------------------------------------------------------------
(* Alert rules. *)

Evaluated == [pc : {"idle", "fetch", "claim", "notify"}, now : 0 .. MaxTime, last : 0 .. MaxTime,
              cooldown : Cooldowns \cup {0}]
Bells == [now : 1 .. MaxTime, last : 0 .. MaxTime, cooldown : Cooldowns]
RuleRows == [exists : BOOLEAN, active : BOOLEAN, cooldown : Cooldowns, last : 0 .. MaxTime]

AlertTyped ==
  /\ time \in 1 .. MaxTime /\ rule \in RuleRows
  /\ evaluation \in [Evaluations -> Evaluated]
  /\ flip \in {"none", "on", "off"}
  /\ bells \in Seq(Bells)

\* A decision to notify: its time is past the stamp it read by the cooldown.
Decided(c) ==
  /\ c.now >= 1 /\ c.last < c.now
  /\ c.last # 0 => c.now - c.last >= c.cooldown

\* Of two decisions one read a stamp that the other had made, or a later one.
Apart(c, d) == c.now <= d.last \/ d.now <= c.last

\* An evaluation that is past the condition has decided, and one that has
\* claimed the rule has stamped it.
EvaluationsDecided ==
  \A e \in Evaluations :
    /\ evaluation[e].pc = "fetch" => evaluation[e].now >= 1
    /\ evaluation[e].pc \in {"claim", "notify"}
         => Decided(evaluation[e]) /\ evaluation[e].cooldown \in Cooldowns
    /\ evaluation[e].pc = "notify" => evaluation[e].now <= rule.last

BellsDecided == \A i \in 1 .. Len(bells) : Decided(bells[i]) /\ bells[i].now <= rule.last

\* The decisions that were stamped are pairwise apart.
StampsApart ==
  /\ \A i, j \in 1 .. Len(bells) : i # j => Apart(bells[i], bells[j])
  /\ \A i \in 1 .. Len(bells), e \in Evaluations :
       evaluation[e].pc = "notify" => Apart(bells[i], evaluation[e])
  /\ \A e, f \in Evaluations :
       e # f /\ evaluation[e].pc = "notify" /\ evaluation[f].pc = "notify"
         => Apart(evaluation[e], evaluation[f])

AlertInv == AlertTyped /\ EvaluationsDecided /\ BellsDecided /\ StampsApart

LEMMA AlertTypes == AlertTyped => AlertTypeOK
BY DEF AlertTyped, AlertTypeOK, Evaluated, Bells, RuleRows

LEMMA AlertConstants ==
  /\ MaxTime \in Nat \ {0} /\ Cooldowns \subseteq Nat \ {0}
  /\ NoEvaluation \in Evaluated /\ NoEvaluation.pc = "idle"
BY AlertAssumption DEF NoEvaluation, Evaluated

\* What is compared are numbers.
LEMMA Stamps ==
  /\ \A v \in Evaluated : v.now \in Nat /\ v.last \in Nat
  /\ \A b \in Bells : b.now \in Nat /\ b.last \in Nat /\ b.cooldown \in Nat \ {0}
  /\ \A r \in RuleRows : r.last \in Nat /\ r.cooldown \in Nat \ {0}
<1>1. MaxTime \in Nat /\ \A c \in Cooldowns : c \in Nat \ {0}
  BY AlertAssumption
<1>2. \A n \in 0 .. MaxTime : n \in Nat
  BY <1>1
<1>3. \A n \in 1 .. MaxTime : n \in Nat
  BY <1>1
<1>4. \A v \in Evaluated : v.now \in Nat /\ v.last \in Nat
  BY <1>2 DEF Evaluated
<1>5. \A b \in Bells : b.now \in Nat /\ b.last \in Nat /\ b.cooldown \in Nat \ {0}
  BY <1>1, <1>2, <1>3 DEF Bells
<1>6. \A r \in RuleRows : r.last \in Nat /\ r.cooldown \in Nat \ {0}
  BY <1>1, <1>2 DEF RuleRows
<1> QED BY <1>4, <1>5, <1>6

\* Decisions that are apart are apart by a cooldown.
LEMMA ApartByCooldown ==
    ASSUME NEW c \in Bells, NEW d \in Bells, Decided(c), Decided(d), Apart(c, d)
    PROVE  c.now - d.now >= c.cooldown \/ d.now - c.now >= d.cooldown
BY Stamps DEF Decided, Apart

LEMMA CooldownFollows == AlertInv => CooldownKept
<1> SUFFICES ASSUME AlertInv, NEW i \in DOMAIN bells, NEW j \in DOMAIN bells, i # j
             PROVE  \/ bells[i].now - bells[j].now >= bells[i].cooldown
                    \/ bells[j].now - bells[i].now >= bells[j].cooldown
  BY DEF CooldownKept
<1>1. i \in 1 .. Len(bells) /\ j \in 1 .. Len(bells) /\ bells[i] \in Bells /\ bells[j] \in Bells
  BY DEF AlertInv, AlertTyped
<1> QED BY <1>1, ApartByCooldown DEF AlertInv, BellsDecided, StampsApart

LEMMA AlertStarts == AlertInit => AlertInv
BY AlertAssumption, AlertConstants
DEF AlertInit, AlertInv, AlertTyped, EvaluationsDecided, BellsDecided, StampsApart, RuleRows

\* A step that stamps nothing and tells nobody keeps what was decided.
LEMMA EvaluationOnly ==
    ASSUME AlertInv, NEW e \in Evaluations, NEW r \in Evaluated,
           evaluation' = [evaluation EXCEPT ![e] = r], UNCHANGED <<time, rule, flip, bells>>,
           r.pc # "notify", r.pc = "fetch" => r.now >= 1,
           r.pc = "claim" => Decided(r) /\ r.cooldown \in Cooldowns
    PROVE  AlertInv'
<1>1. \A f \in Evaluations : evaluation'[f] = IF f = e THEN r ELSE evaluation[f]
  BY DEF AlertInv, AlertTyped
<1>2. AlertTyped'
  BY DEF AlertInv, AlertTyped
<1>3. EvaluationsDecided' /\ BellsDecided'
  BY <1>1 DEF AlertInv, EvaluationsDecided, BellsDecided
<1>4. StampsApart'
  BY <1>1 DEF AlertInv, StampsApart
<1> QED BY <1>2, <1>3, <1>4 DEF AlertInv

LEMMA EvaluationEnds ==
    ASSUME AlertInv, NEW e \in Evaluations, EndEvaluation(e), UNCHANGED <<time, rule, flip, bells>>
    PROVE  AlertInv'
BY EvaluationOnly, AlertConstants DEF EndEvaluation

LEMMA StartEvaluationKeeps ==
    ASSUME AlertInv, NEW e \in Evaluations, StartEvaluation(e) PROVE AlertInv'
<1> DEFINE r == [NoEvaluation EXCEPT !.pc = "fetch", !.now = time]
<1>1. r \in Evaluated /\ r.pc = "fetch" /\ r.now >= 1
  <2>1. time \in 0 .. MaxTime /\ time >= 1
    BY AlertAssumption DEF AlertInv, AlertTyped
  <2> QED BY <2>1, AlertConstants DEF Evaluated
<1>2. evaluation' = [evaluation EXCEPT ![e] = r] /\ UNCHANGED <<time, rule, flip, bells>>
  BY DEF StartEvaluation
<1> HIDE DEF r
<1> QED BY <1>1, <1>2, EvaluationOnly

LEMMA FetchRuleKeeps ==
    ASSUME AlertInv, NEW e \in Evaluations, FetchRule(e) PROVE AlertInv'
<1> DEFINE now == evaluation[e].now
<1>1. CASE rule.exists /\ rule.active /\ ~isInCooldown(rule.last, rule.cooldown, now)
  <2> DEFINE r == [evaluation[e] EXCEPT !.pc = "claim", !.last = rule.last, !.cooldown = rule.cooldown]
  <2>1. evaluation[e] \in Evaluated /\ rule \in RuleRows /\ now >= 1
    BY DEF AlertInv, AlertTyped, EvaluationsDecided, FetchRule
  <2>2. /\ r \in Evaluated /\ r.pc = "claim" /\ r.now = now /\ r.last = rule.last
        /\ r.cooldown = rule.cooldown /\ r.cooldown \in Cooldowns
    BY <2>1 DEF Evaluated, RuleRows
  <2>3. evaluation' = [evaluation EXCEPT ![e] = r] /\ UNCHANGED <<time, rule, flip, bells>>
    BY <1>1 DEF FetchRule
  <2>4. now \in Nat /\ rule.last \in Nat /\ rule.cooldown \in Nat \ {0}
    BY <2>1, Stamps
  <2>5. Decided(r)
    <3>1. rule.last # 0 => now - rule.last >= rule.cooldown
      BY <1>1, <2>4 DEF isInCooldown
    <3> HIDE DEF r, now
    <3> QED BY <2>1, <2>2, <2>4, <3>1 DEF Decided
  <2> HIDE DEF r
  <2> QED BY <2>2, <2>3, <2>5, EvaluationOnly
<1>2. CASE ~(rule.exists /\ rule.active /\ ~isInCooldown(rule.last, rule.cooldown, now))
  BY <1>2, EvaluationEnds DEF FetchRule
<1> QED BY <1>1, <1>2

\* The stamp that is made is past the one that was read, which is still there,
\* and every earlier decision is no later than that.
LEMMA ClaimRuleKeeps ==
    ASSUME AlertInv, NEW e \in Evaluations, ClaimRule(e) PROVE AlertInv'
<1>1. CASE ~(rule.exists /\ rule.last = evaluation[e].last)
  BY <1>1, EvaluationEnds DEF ClaimRule
<1>2. CASE rule.exists /\ rule.last = evaluation[e].last
  <2> DEFINE now == evaluation[e].now
             r == [evaluation[e] EXCEPT !.pc = "notify"]
  <2>1. /\ rule' = [rule EXCEPT !.last = now] /\ evaluation' = [evaluation EXCEPT ![e] = r]
        /\ UNCHANGED <<time, flip, bells>>
    BY <1>2 DEF ClaimRule
  <2>2. /\ evaluation[e] \in Evaluated /\ rule \in RuleRows /\ Decided(evaluation[e])
        /\ evaluation[e].cooldown \in Cooldowns
    BY DEF AlertInv, AlertTyped, EvaluationsDecided, ClaimRule
  <2>3. /\ r \in Evaluated /\ r.pc = "notify" /\ r.now = now /\ r.last = rule.last
        /\ r.cooldown = evaluation[e].cooldown
    BY <1>2, <2>2 DEF Evaluated
  <2>4. rule' \in RuleRows /\ rule'.last = now
    BY <2>1, <2>2 DEF Evaluated, RuleRows
  <2>5. Decided(r) /\ rule.last < now
    BY <1>2, <2>2, <2>3 DEF Decided
  <2>6. now \in Nat /\ rule.last \in Nat
    BY <2>2, Stamps
  <2> HIDE DEF r, now
  <2>7. \A f \in Evaluations : evaluation'[f] = IF f = e THEN r ELSE evaluation[f]
    BY <2>1 DEF AlertInv, AlertTyped
  <2>8. AlertTyped'
    BY <2>1, <2>3, <2>4 DEF AlertInv, AlertTyped
  <2>9. /\ \A f \in Evaluations : evaluation[f].now \in Nat
        /\ \A i \in 1 .. Len(bells) : bells[i].now \in Nat
    BY Stamps DEF AlertInv, AlertTyped
  <2>10. EvaluationsDecided' /\ BellsDecided'
    BY <2>1, <2>2, <2>3, <2>4, <2>5, <2>6, <2>7, <2>9 DEF AlertInv, EvaluationsDecided, BellsDecided
  <2>11. /\ \A f \in Evaluations : evaluation[f].pc = "notify" => Apart(evaluation[f], r) /\ Apart(r, evaluation[f])
         /\ \A i \in 1 .. Len(bells) : Apart(bells[i], r)
    BY <2>3 DEF AlertInv, EvaluationsDecided, BellsDecided, Apart
  <2>12. StampsApart'
    BY <2>1, <2>7, <2>11 DEF AlertInv, StampsApart
  <2> QED BY <2>8, <2>10, <2>12 DEF AlertInv
<1> QED BY <1>1, <1>2

LEMMA NotifyKeeps == ASSUME AlertInv, NEW e \in Evaluations, Notify(e) PROVE AlertInv'
<1> DEFINE v == evaluation[e]
           b == [now |-> v.now, last |-> v.last, cooldown |-> v.cooldown]
<1>1. /\ v \in Evaluated /\ v.pc = "notify" /\ Decided(v) /\ v.cooldown \in Cooldowns /\ v.now <= rule.last
  BY DEF AlertInv, AlertTyped, EvaluationsDecided, Notify
<1>2. b \in Bells /\ b.now = v.now /\ b.last = v.last /\ b.cooldown = v.cooldown
  BY <1>1, AlertConstants DEF Evaluated, Bells, Decided
<1>3. /\ evaluation' = [evaluation EXCEPT ![e] = NoEvaluation] /\ bells' = Append(bells, b)
      /\ UNCHANGED <<time, rule, flip>>
  BY DEF Notify, EndEvaluation
<1>4. Decided(b) /\ b.now <= rule.last
  BY <1>1, <1>2 DEF Decided
<1> HIDE DEF b
<1>5. \A f \in Evaluations : evaluation'[f] = IF f = e THEN NoEvaluation ELSE evaluation[f]
  BY <1>3 DEF AlertInv, AlertTyped
<1>6. /\ Len(bells') = Len(bells) + 1 /\ Len(bells) \in Nat
      /\ \A i \in 1 .. Len(bells) : bells'[i] = bells[i]
      /\ bells'[Len(bells) + 1] = b
      /\ bells' \in Seq(Bells)
  BY <1>2, <1>3 DEF AlertInv, AlertTyped
<1>7. \A i \in 1 .. Len(bells') : i \in 1 .. Len(bells) \/ (i = Len(bells) + 1 /\ i \notin 1 .. Len(bells))
  BY <1>6
<1>8. AlertTyped'
  BY <1>3, <1>6, AlertConstants DEF AlertInv, AlertTyped
<1>9. EvaluationsDecided'
  BY <1>3, <1>5, AlertConstants DEF AlertInv, EvaluationsDecided
<1>10. BellsDecided'
  BY <1>3, <1>4, <1>6, <1>7 DEF AlertInv, BellsDecided
<1>11. /\ \A i \in 1 .. Len(bells) : Apart(bells[i], b) /\ Apart(b, bells[i])
       /\ \A f \in Evaluations : f # e /\ evaluation[f].pc = "notify" => Apart(b, evaluation[f])
  BY <1>1, <1>2 DEF AlertInv, StampsApart, Apart
<1>12. StampsApart'
  <2>1. \A i, j \in 1 .. Len(bells') : i # j => Apart(bells'[i], bells'[j])
    BY <1>6, <1>7, <1>11 DEF AlertInv, StampsApart
  <2>2. \A i \in 1 .. Len(bells'), f \in Evaluations :
          evaluation'[f].pc = "notify" => Apart(bells'[i], evaluation'[f])
    BY <1>5, <1>6, <1>7, <1>11, AlertConstants DEF AlertInv, StampsApart
  <2>3. \A f, g \in Evaluations :
          f # g /\ evaluation'[f].pc = "notify" /\ evaluation'[g].pc = "notify"
            => Apart(evaluation'[f], evaluation'[g])
    BY <1>5, AlertConstants DEF AlertInv, StampsApart
  <2> QED BY <2>1, <2>2, <2>3 DEF StampsApart
<1> QED BY <1>8, <1>9, <1>10, <1>12 DEF AlertInv

\* The clock and the dashboard's edits leave the stamp as it is.
LEMMA StampStays ==
    ASSUME AlertInv, UNCHANGED <<evaluation, bells>>, time' \in 1 .. MaxTime, rule' \in RuleRows,
           rule'.last = rule.last, flip' \in {"none", "on", "off"}
    PROVE  AlertInv'
BY DEF AlertInv, AlertTyped, EvaluationsDecided, BellsDecided, StampsApart

LEMMA EditsKeep ==
    ASSUME AlertInv, \/ Pass \/ \E cooldown \in Cooldowns : UpdateRule(cooldown)
                     \/ ReadToggle \/ WriteToggle \/ DeleteRule
    PROVE  AlertInv'
<1>0. rule \in RuleRows /\ time \in 1 .. MaxTime /\ flip \in {"none", "on", "off"}
  BY DEF AlertInv, AlertTyped
<1>1. CASE Pass
  BY <1>0, <1>1, StampStays, AlertConstants DEF Pass
<1>2. ASSUME NEW cooldown \in Cooldowns, UpdateRule(cooldown) PROVE AlertInv'
  BY <1>0, <1>2, StampStays DEF UpdateRule, RuleRows
<1>3. CASE ReadToggle
  BY <1>0, <1>3, StampStays DEF ReadToggle
<1>4. CASE WriteToggle
  BY <1>0, <1>4, StampStays DEF WriteToggle, RuleRows
<1>5. CASE DeleteRule
  BY <1>0, <1>5, StampStays DEF DeleteRule, RuleRows
<1> QED BY <1>1, <1>2, <1>3, <1>4, <1>5

LEMMA AlertKeeps == AlertInv /\ [Alert]_alertVars => AlertInv'
<1> SUFFICES ASSUME AlertInv, [Alert]_alertVars PROVE AlertInv'
  OBVIOUS
<1>1. ASSUME NEW e \in Evaluations, Evaluating(e) PROVE AlertInv'
  BY <1>1, StartEvaluationKeeps, FetchRuleKeeps, ClaimRuleKeeps, NotifyKeeps, EvaluationEnds
  DEF Evaluating, EndEarly
<1>2. CASE UNCHANGED alertVars
  BY <1>2 DEF alertVars, AlertInv, AlertTyped, EvaluationsDecided, BellsDecided, StampsApart
<1> QED BY <1>1, <1>2, EditsKeep DEF Alert

\* An alert rule, its evaluations and its notifications have their types.
THEOREM AlertTypeCorrect == AlertSpec => []AlertTypeOK
BY AlertStarts, AlertKeeps, AlertTypes, PTL DEF AlertSpec, AlertInv

\* Two notifications of a rule are apart by the cooldown, for any cooldowns,
\* edits of them and number of evaluations that overlap or die.
THEOREM NotifiedOnce == AlertSpec => []CooldownKept
BY AlertStarts, AlertKeeps, CooldownFollows, PTL DEF AlertSpec

-----------------------------------------------------------------------------
(* Logs of a run. *)

Increasing(s) == \A i, j \in 1 .. Len(s) : i < j => s[i] < s[j]
Ordered(s) ==
  \A i, j \in 1 .. Len(s) : i < j => s[i] < s[j] \/ (s[j] < s[i] /\ s[j] \in overdue)
Distinct(s, t) == \A i \in 1 .. Len(s), j \in 1 .. Len(t) : s[i] # t[j]
AllBefore(s, t) == \A i \in 1 .. Len(s), j \in 1 .. Len(t) : s[i] < t[j]
UpTo(s, n) == \A i \in 1 .. Len(s) : s[i] <= n

LogTyped ==
  /\ pushed \in 0 .. MaxLines
  /\ buffer \in Seq(1 .. MaxLines) /\ run_logs \in Seq(1 .. MaxLines)
  /\ sending \in SUBSET Seq(1 .. MaxLines) /\ adrift \in SUBSET Seq(1 .. MaxLines)
  /\ overdue \subseteq 1 .. MaxLines
  /\ isFlushing \in BOOLEAN /\ ticking \in BOOLEAN
  /\ executor \in {"running", "closing", "closed"}

\* One batch at most is on its way, while a flush is under way.
OneBatch ==
  /\ ~isFlushing => sending = {}
  /\ \A b, c \in sending : b = c

\* A batch whose call failed is of overdue lines that are not stored.
Adrift ==
  \A l \in adrift :
    /\ Range(l) \subseteq overdue /\ Distinct(run_logs, l)
    /\ \A b \in sending : AllBefore(l, b)
    /\ \A m \in adrift : l = m \/ Distinct(l, m)

\* What is on its way and what is buffered follow what is stored, in order, and
\* nothing is past the last line that was pushed.
InSequence ==
  /\ Ordered(run_logs) /\ Increasing(buffer)
  /\ AllBefore(run_logs, buffer)
  /\ \A b \in sending : AllBefore(run_logs, b)
  /\ \A b \in sending \cup adrift : Increasing(b) /\ AllBefore(b, buffer) /\ UpTo(b, pushed)
  /\ UpTo(run_logs, pushed) /\ UpTo(buffer, pushed)

LogInv == LogTyped /\ OneBatch /\ Adrift /\ InSequence

LEMMA LogTypes == LogTyped => LogTypeOK
BY DEF LogTyped, LogTypeOK

LEMMA LinesFollow == LogInv => LogsInOrder
BY DEF LogInv, LogTyped, InSequence, Ordered, LogsInOrder

LEMMA LogStarts == LogInit => LogInv
<1> SUFFICES ASSUME LogInit PROVE LogInv
  OBVIOUS
<1>1. Increasing(<<>>) /\ Ordered(<<>>) /\ AllBefore(<<>>, <<>>) /\ UpTo(<<>>, 0)
  BY DEF Increasing, Ordered, AllBefore, UpTo
<1>2. LogTyped
  <2>1. /\ pushed \in 0 .. MaxLines /\ buffer \in Seq(1 .. MaxLines) /\ run_logs \in Seq(1 .. MaxLines)
        /\ sending \in SUBSET Seq(1 .. MaxLines) /\ executor \in {"running", "closing", "closed"}
        /\ adrift \in SUBSET Seq(1 .. MaxLines) /\ overdue \subseteq 1 .. MaxLines
    BY LinesAssumption DEF LogInit
  <2>2. isFlushing \in BOOLEAN /\ ticking \in BOOLEAN
    BY DEF LogInit
  <2> QED BY <2>1, <2>2 DEF LogTyped
<1> QED BY <1>1, <1>2 DEF LogInit, LogInv, OneBatch, Adrift, InSequence

\* The buffer with the line that is pushed.
LEMMA LineFollows ==
    ASSUME LogInv, pushed < MaxLines
    PROVE  /\ Line \in Seq(1 .. MaxLines) /\ Increasing(Line) /\ UpTo(Line, pushed + 1)
           /\ AllBefore(run_logs, Line) /\ \A b \in sending \cup adrift : AllBefore(b, Line)
           /\ pushed + 1 \in 0 .. MaxLines
<1>0. pushed \in Nat /\ pushed + 1 \in 1 .. MaxLines /\ pushed + 1 \in 0 .. MaxLines
  BY LinesAssumption DEF LogInv, LogTyped
<1>1. /\ Line \in Seq(1 .. MaxLines) /\ Len(Line) = Len(buffer) + 1 /\ Len(buffer) \in Nat
      /\ \A i \in 1 .. Len(buffer) : Line[i] = buffer[i]
      /\ Line[Len(buffer) + 1] = pushed + 1
  BY <1>0 DEF LogInv, LogTyped, Line
<1>2. \A i \in 1 .. Len(Line) : i \in 1 .. Len(buffer) \/ i = Len(buffer) + 1
  BY <1>1
<1>3. /\ \A i \in 1 .. Len(buffer) : buffer[i] \in Nat
      /\ \A i \in 1 .. Len(run_logs) : run_logs[i] \in Nat
      /\ \A b \in sending \cup adrift : \A i \in 1 .. Len(b) : b[i] \in Nat
  BY LinesAssumption DEF LogInv, LogTyped
<1>4. Increasing(Line)
  <2>1. /\ \A i, k \in 1 .. Len(buffer) : i < k => buffer[i] < buffer[k]
        /\ \A i \in 1 .. Len(buffer) : buffer[i] <= pushed
    BY DEF LogInv, InSequence, Increasing, UpTo
  <2>2. ASSUME NEW i \in 1 .. Len(Line), NEW k \in 1 .. Len(Line), i < k
        PROVE  Line[i] < Line[k]
    <3>1. i \in 1 .. Len(buffer)
      BY <1>1, <2>2
    <3>2. CASE k \in 1 .. Len(buffer)
      BY <1>1, <2>1, <2>2, <3>1, <3>2
    <3>3. CASE k = Len(buffer) + 1
      BY <1>0, <1>1, <1>3, <2>1, <3>1, <3>3
    <3> QED BY <1>2, <3>2, <3>3
  <2> QED BY <2>2 DEF Increasing
<1>5. UpTo(Line, pushed + 1)
  BY <1>0, <1>1, <1>2, <1>3 DEF LogInv, InSequence, UpTo
<1>6. AllBefore(run_logs, Line)
  BY <1>0, <1>1, <1>2, <1>3 DEF LogInv, InSequence, AllBefore, UpTo
<1>7. ASSUME NEW b \in sending \cup adrift
      PROVE  AllBefore(b, Line)
  <2>1. AllBefore(b, buffer) /\ UpTo(b, pushed)
    BY DEF LogInv, InSequence
  <2>2. \A i \in 1 .. Len(b) : b[i] \in Nat /\ b[i] <= pushed
    BY <1>3, <2>1 DEF UpTo
  <2>3. \A i \in 1 .. Len(b) : \A k \in 1 .. Len(buffer) : b[i] < buffer[k]
    BY <2>1 DEF AllBefore
  <2> QED BY <1>0, <1>1, <1>2, <2>2, <2>3 DEF AllBefore
<1> QED BY <1>0, <1>1, <1>4, <1>5, <1>6, <1>7

\* What was up to the last line is up to the next one.
LEMMA UpToNext ==
    ASSUME NEW s \in Seq(1 .. MaxLines), NEW n \in Nat, NEW m \in Nat, n <= m, UpTo(s, n) PROVE UpTo(s, m)
<1>1. \A i \in 1 .. Len(s) : s[i] \in Nat
  BY LinesAssumption
<1> QED BY <1>1 DEF UpTo

\* A flush leaves the lines in the buffer, or sends all of them when none are on
\* their way.
LEMMA FlushKeeps ==
    ASSUME LogInv, NEW lines \in Seq(1 .. MaxLines), Flush(lines) \/ (buffer' = lines /\ UNCHANGED <<sending, isFlushing>>),
           UNCHANGED table, pushed' \in 0 .. MaxLines, pushed <= pushed',
           Increasing(lines), UpTo(lines, pushed'), AllBefore(run_logs, lines),
           \A b \in sending \cup adrift : AllBefore(b, lines),
           ticking' \in BOOLEAN, executor' \in {"running", "closing", "closed"}
    PROVE  LogInv'
<1>0. pushed \in Nat /\ pushed' \in Nat
  BY LinesAssumption DEF LogInv, LogTyped
<1>1. /\ UpTo(run_logs, pushed') /\ \A b \in sending \cup adrift : UpTo(b, pushed')
      /\ run_logs' = run_logs /\ adrift' = adrift /\ overdue' = overdue
  BY <1>0, UpToNext DEF LogInv, LogTyped, InSequence, table
<1>2. CASE buffer' = lines /\ UNCHANGED <<sending, isFlushing>>
  <2>1. LogTyped' /\ OneBatch' /\ Adrift'
    BY <1>1, <1>2 DEF LogInv, LogTyped, OneBatch, Adrift
  <2>2. InSequence'
    BY <1>1, <1>2 DEF LogInv, InSequence, Ordered
  <2> QED BY <2>1, <2>2 DEF LogInv
<1>3. CASE ~isFlushing /\ buffer' = <<>> /\ sending' = sending \cup {lines} /\ isFlushing' = TRUE
  <2>1. sending' = {lines}
    BY <1>3 DEF LogInv, OneBatch
  <2>2. LogTyped' /\ OneBatch'
    BY <1>1, <1>3, <2>1 DEF LogInv, LogTyped, OneBatch
  <2>3. Increasing(<<>>) /\ UpTo(<<>>, pushed') /\ \A s : AllBefore(s, <<>>)
    BY DEF Increasing, UpTo, AllBefore
  <2>4. InSequence'
    BY <1>1, <1>3, <2>1, <2>3 DEF LogInv, InSequence, Ordered
  <2>5. \A l \in adrift : AllBefore(l, lines)
    OBVIOUS
  <2>6. Adrift'
    BY <1>1, <2>1, <2>5 DEF LogInv, Adrift
  <2> QED BY <2>2, <2>4, <2>6 DEF LogInv
<1> QED BY <1>2, <1>3 DEF Flush

LEMMA BufferFollows ==
    ASSUME LogInv
    PROVE  /\ buffer \in Seq(1 .. MaxLines) /\ Increasing(buffer) /\ UpTo(buffer, pushed)
           /\ AllBefore(run_logs, buffer) /\ \A b \in sending \cup adrift : AllBefore(b, buffer)
           /\ pushed \in 0 .. MaxLines /\ pushed <= pushed
           /\ ticking \in BOOLEAN /\ executor \in {"running", "closing", "closed"}
BY LinesAssumption DEF LogInv, LogTyped, InSequence

LEMMA PushKeeps == ASSUME LogInv, Push PROVE LogInv'
<1>1. /\ pushed < MaxLines /\ pushed' = pushed + 1 /\ UNCHANGED <<ticking, executor, table>>
      /\ Flush(Line) \/ (buffer' = Line /\ UNCHANGED <<sending, isFlushing>>)
  BY DEF Push
<1>2. pushed <= pushed'
  BY <1>1, LinesAssumption DEF LogInv, LogTyped
<1> QED BY <1>1, <1>2, LineFollows, BufferFollows, FlushKeeps

LEMMA IntervalKeeps == ASSUME LogInv, Interval PROVE LogInv'
BY BufferFollows, FlushKeeps DEF Interval

LEMMA CloseKeeps == ASSUME LogInv, Close PROVE LogInv'
<1>1. ticking' \in BOOLEAN /\ executor' \in {"running", "closing", "closed"}
  BY DEF Close, Shutdown
<1> QED BY <1>1, BufferFollows, FlushKeeps DEF Close, Shutdown

LEMMA CloseAgainKeeps == ASSUME LogInv, CloseAgain PROVE LogInv'
<1>1. ticking' \in BOOLEAN /\ executor' \in {"running", "closing", "closed"}
  BY DEF CloseAgain, Shutdown
<1>2. /\ pushed < MaxLines /\ pushed' = pushed + 1 /\ UNCHANGED table /\ Flush(Line)
  BY DEF CloseAgain, Shutdown
<1>3. pushed <= pushed'
  BY <1>2, LinesAssumption DEF LogInv, LogTyped
<1> QED BY <1>1, <1>2, <1>3, LineFollows, FlushKeeps

LEMMA RangeOfBatch ==
    ASSUME NEW b \in Seq(1 .. MaxLines)
    PROVE  Range(b) \subseteq 1 .. MaxLines /\ \A i \in 1 .. Len(b) : b[i] \in Range(b)
<1>1. DOMAIN b = 1 .. Len(b)
  OBVIOUS
<1>2. \A i \in 1 .. Len(b) : b[i] \in 1 .. MaxLines
  BY LinesAssumption
<1>3. Range(b) = {b[i] : i \in 1 .. Len(b)}
  BY ONLY <1>1 DEF Range
<1> QED BY ONLY <1>2, <1>3

\* A batch is put behind what is stored, which it follows or is distinct from.
LEMMA StoredBehind ==
    ASSUME NEW s \in Seq(1 .. MaxLines), NEW b \in Seq(1 .. MaxLines)
    PROVE  /\ s \o b \in Seq(1 .. MaxLines)
           /\ Ordered(s) /\ Increasing(b) /\ (AllBefore(s, b) \/ (Distinct(s, b) /\ Range(b) \subseteq overdue))
                => Ordered(s \o b)
           /\ \A t : AllBefore(s, t) /\ AllBefore(b, t) => AllBefore(s \o b, t)
           /\ \A t : Distinct(s, t) /\ Distinct(b, t) => Distinct(s \o b, t)
           /\ \A n : UpTo(s, n) /\ UpTo(b, n) => UpTo(s \o b, n)
<1>0. \A q \in {s, b} : /\ Range(q) \subseteq 1 .. MaxLines
                         /\ \A k \in 1 .. Len(q) : q[k] \in Range(q)
  BY RangeOfBatch
<1>1. /\ s \o b \in Seq(1 .. MaxLines) /\ Len(s \o b) = Len(s) + Len(b)
      /\ Len(s) \in Nat /\ Len(b) \in Nat
      /\ \A i \in 1 .. Len(s) + Len(b) : (s \o b)[i] = IF i <= Len(s) THEN s[i] ELSE b[i - Len(s)]
  OBVIOUS
<1>2. \A i \in 1 .. Len(s) + Len(b) :
        i \in 1 .. Len(s) \/ (i > Len(s) /\ i - Len(s) \in 1 .. Len(b))
  BY <1>1
<1> DEFINE c == s \o b
<1>3. \A i \in 1 .. Len(c) : \/ i \in 1 .. Len(s) /\ c[i] = s[i]
                             \/ i > Len(s) /\ i - Len(s) \in 1 .. Len(b) /\ c[i] = b[i - Len(s)]
  BY <1>1, <1>2
<1> HIDE DEF c
<1>4. ASSUME Ordered(s), Increasing(b), AllBefore(s, b) \/ (Distinct(s, b) /\ Range(b) \subseteq overdue)
      PROVE  Ordered(c)
  <2> SUFFICES ASSUME NEW i \in 1 .. Len(c), NEW j \in 1 .. Len(c), i < j
               PROVE  c[i] < c[j] \/ (c[j] < c[i] /\ c[j] \in overdue)
    BY DEF Ordered
  <2>1. CASE i \in 1 .. Len(s) /\ j \in 1 .. Len(s)
    BY <1>1, <1>3, <1>4, <2>1 DEF Ordered
  <2>2. CASE i \in 1 .. Len(s) /\ j > Len(s)
    <3>1. c[i] = s[i] /\ c[j] = b[j - Len(s)] /\ j - Len(s) \in 1 .. Len(b)
      BY <1>1, <1>3, <2>2
    <3>2. s[i] \in Int /\ b[j - Len(s)] \in Int /\ b[j - Len(s)] \in Range(b)
      <4>1. s[i] \in Range(s) /\ b[j - Len(s)] \in Range(b)
        BY ONLY <1>0, <2>2, <3>1
      <4>2. s[i] \in 1 .. MaxLines /\ b[j - Len(s)] \in 1 .. MaxLines
        BY ONLY <1>0, <4>1
      <4> QED BY ONLY <4>1, <4>2, LinesAssumption
    <3>3. s[i] < b[j - Len(s)] \/ (s[i] # b[j - Len(s)] /\ b[j - Len(s)] \in overdue)
      BY <1>4, <2>2, <3>1, <3>2 DEF AllBefore, Distinct
    <3> QED BY <3>1, <3>2, <3>3
  <2>3. CASE i > Len(s)
    <3>1. i - Len(s) < j - Len(s) /\ j > Len(s)
      BY <1>1, <2>3
    <3>2. /\ i - Len(s) \in 1 .. Len(b) /\ c[i] = b[i - Len(s)]
          /\ j - Len(s) \in 1 .. Len(b) /\ c[j] = b[j - Len(s)]
      BY <1>1, <1>3, <2>3, <3>1
    <3> QED BY <1>4, <3>1, <3>2 DEF Increasing
  <2> QED BY <1>1, <1>3, <2>1, <2>2, <2>3
<1>5. \A t : AllBefore(s, t) /\ AllBefore(b, t) => AllBefore(c, t)
  BY <1>3 DEF AllBefore
<1>6. \A t : Distinct(s, t) /\ Distinct(b, t) => Distinct(c, t)
  BY <1>3 DEF Distinct
<1>7. \A n : UpTo(s, n) /\ UpTo(b, n) => UpTo(c, n)
  BY <1>3 DEF UpTo
<1> QED BY <1>1, <1>4, <1>5, <1>6, <1>7 DEF c

\* Lines that are before others are distinct from them.
LEMMA BeforeIsDistinct ==
    ASSUME NEW s \in Seq(1 .. MaxLines), NEW t \in Seq(1 .. MaxLines), AllBefore(s, t)
    PROVE  Distinct(s, t) /\ Distinct(t, s)
<1>1. /\ \A i \in 1 .. Len(s) : s[i] \in Int
      /\ \A j \in 1 .. Len(t) : t[j] \in Int
  BY LinesAssumption
<1> QED BY <1>1 DEF AllBefore, Distinct

\* The call of the one batch on its way ends: the batch is stored behind what
\* was, nothing happens, or it is adrift.
LEMMA EndSendKeeps == ASSUME LogInv, NEW batch \in sending, EndSend(batch) PROVE LogInv'
<1>0. /\ batch \in Seq(1 .. MaxLines) /\ sending' = {} /\ isFlushing' = FALSE
      /\ UNCHANGED <<pushed, buffer, ticking>>
      /\ executor' \in {"running", "closing", "closed"}
  BY DEF LogInv, LogTyped, OneBatch, EndSend
<1>1. OneBatch'
  BY <1>0 DEF OneBatch
<1>2. CASE UNCHANGED table
  BY <1>0, <1>1, <1>2 DEF LogInv, LogTyped, InSequence, Ordered, Adrift, table
<1>3. CASE run_logs' = run_logs \o batch /\ UNCHANGED <<adrift, overdue>>
  <2>1. /\ run_logs \in Seq(1 .. MaxLines) /\ buffer \in Seq(1 .. MaxLines)
        /\ Ordered(run_logs) /\ Increasing(batch) /\ AllBefore(run_logs, batch)
        /\ AllBefore(run_logs, buffer) /\ AllBefore(batch, buffer)
        /\ UpTo(run_logs, pushed) /\ UpTo(batch, pushed)
    BY DEF LogInv, LogTyped, InSequence
  <2>2. /\ run_logs' \in Seq(1 .. MaxLines) /\ Ordered(run_logs \o batch)
        /\ AllBefore(run_logs', buffer) /\ UpTo(run_logs', pushed)
    BY <1>0, <1>3, <2>1, StoredBehind
  <2>3. LogTyped' /\ Ordered(run_logs)'
    BY <1>0, <1>3, <2>2 DEF LogInv, LogTyped, Ordered
  <2>4. InSequence'
    BY <1>0, <1>3, <2>2, <2>3 DEF LogInv, InSequence
  <2>5. \A l \in adrift : Distinct(batch, l)
    BY <1>0, BeforeIsDistinct DEF LogInv, LogTyped, Adrift
  <2>6. \A l \in adrift : Distinct(run_logs', l)
    BY <1>0, <1>3, <2>1, <2>5, StoredBehind DEF LogInv, Adrift
  <2>7. Adrift'
    BY <1>0, <1>3, <2>6 DEF LogInv, Adrift
  <2> QED BY <1>1, <2>3, <2>4, <2>7 DEF LogInv
<1>4. CASE /\ adrift' = adrift \cup {batch} /\ overdue' = overdue \cup Range(batch)
           /\ UNCHANGED run_logs
  <2>1. Range(batch) \subseteq 1 .. MaxLines
    BY <1>0, RangeOfBatch
  <2>2. LogTyped'
    BY <1>0, <1>4, <2>1 DEF LogInv, LogTyped
  <2>3. InSequence'
    BY <1>0, <1>4 DEF LogInv, InSequence, Ordered
  <2>4. Distinct(run_logs, batch) /\ \A l \in adrift : Distinct(batch, l) /\ Distinct(l, batch)
    BY <1>0, BeforeIsDistinct DEF LogInv, LogTyped, InSequence, Adrift
  <2>5. Adrift'
    BY <1>0, <1>4, <2>4 DEF LogInv, Adrift
  <2> QED BY <1>1, <2>2, <2>3, <2>5 DEF LogInv
<1> QED BY <1>2, <1>3, <1>4 DEF EndSend, Insert

\* A batch that is adrift is stored: it is overdue, and distinct from what was.
LEMMA LateInsertKeeps == ASSUME LogInv, NEW batch \in adrift, LateInsert(batch) PROVE LogInv'
<1>0. /\ batch \in Seq(1 .. MaxLines) /\ run_logs' = run_logs \o batch /\ adrift' = adrift \ {batch}
      /\ UNCHANGED <<pushed, buffer, sending, isFlushing, ticking, executor, overdue>>
  BY DEF LogInv, LogTyped, LateInsert, Insert
<1>1. /\ run_logs \in Seq(1 .. MaxLines)
      /\ Ordered(run_logs) /\ Increasing(batch) /\ Distinct(run_logs, batch) /\ Range(batch) \subseteq overdue
      /\ AllBefore(run_logs, buffer) /\ AllBefore(batch, buffer)
      /\ UpTo(run_logs, pushed) /\ UpTo(batch, pushed)
      /\ \A b \in sending : AllBefore(run_logs, b) /\ AllBefore(batch, b)
  BY DEF LogInv, LogTyped, InSequence, Adrift
<1>2. /\ run_logs' \in Seq(1 .. MaxLines) /\ Ordered(run_logs \o batch)
      /\ AllBefore(run_logs', buffer) /\ UpTo(run_logs', pushed)
      /\ \A b \in sending : AllBefore(run_logs', b)
  BY <1>0, <1>1, StoredBehind
<1>3. LogTyped' /\ OneBatch' /\ Ordered(run_logs)'
  BY <1>0, <1>2 DEF LogInv, LogTyped, OneBatch, Ordered
<1>4. InSequence'
  BY <1>0, <1>2, <1>3 DEF LogInv, InSequence
<1>5. \A l \in adrift' : Distinct(run_logs', l)
  <2>1. \A l \in adrift' : Distinct(run_logs, l) /\ Distinct(batch, l)
    BY <1>0 DEF LogInv, Adrift
  <2>2. \A l : Distinct(run_logs, l) /\ Distinct(batch, l) => Distinct(run_logs \o batch, l)
    BY <1>0, <1>1, StoredBehind
  <2> QED BY <1>0, <2>1, <2>2
<1>6. Adrift'
  BY <1>0, <1>5 DEF LogInv, Adrift
<1> QED BY <1>3, <1>4, <1>6 DEF LogInv

LEMMA LogKeeps == LogInv /\ [Logging]_logVars => LogInv'
<1>1. LogInv /\ UNCHANGED logVars => LogInv'
  BY DEF logVars, table, LogInv, LogTyped, OneBatch, InSequence, Ordered, Adrift
<1> QED BY <1>1, PushKeeps, IntervalKeeps, EndSendKeeps, LateInsertKeeps, CloseKeeps,
           CloseAgainKeeps DEF Logging

\* The streamer of a run and the table have their types.
THEOREM LogTypeCorrect == LogSpec => []LogTypeOK
BY LogStarts, LogKeeps, LogTypes, PTL DEF LogSpec, LogInv

\* The lines of a run are stored in the order they were pushed in, but for those
\* of a batch whose call failed, and none twice, for any size of the batches and
\* number of lines.
THEOREM LinesAreInOrder == LogSpec => []LogsInOrder
BY LogStarts, LogKeeps, LinesFollow, PTL DEF LogSpec

-----------------------------------------------------------------------------
(* Versions of a pipeline. *)

SaveRecords == [kind : {"none", "create", "update", "restore"},
                pc : {"idle", "insert", "current", "done", "failed"},
                version : 0 .. Cardinality(Saves), source : 0 .. Cardinality(Saves)]

VersionTyped ==
  /\ save \in [Saves -> SaveRecords]
  /\ definition \in BOOLEAN
  /\ current_version_id \in {0} \cup Numbers
  /\ versions \in [Numbers -> Saves \cup {NoSave}]
  /\ overBefore \in [Saves -> SUBSET Saves]

\* A handler inserts a number that comes right after ones that are saved; one
\* that is past it has saved it under its own name.
SavesAreNumbered ==
  \A s \in Saves :
    /\ save[s].pc # "idle" => save[s].version \in Numbers
    /\ save[s].pc = "insert" => \A n \in 1 .. save[s].version - 1 : versions[n] # NoSave
    /\ save[s].pc = "current" => versions[save[s].version] = s

VersionsAreSaved ==
  \A n \in Numbers :
    versions[n] # NoSave => /\ save[versions[n]].version = n
                            /\ save[versions[n]].pc \in {"current", "done", "failed"}

\* The numbers have no gaps.
NumbersInRow == \E k \in 0 .. Cardinality(Saves) : SavedNumbers = 1 .. k

OverStays == \A s \in Saves : overBefore[s] \subseteq Over

CurrentIsSaved == current_version_id # 0 => versions[current_version_id] # NoSave

VersionInv ==
  /\ VersionTyped /\ SavesAreNumbered /\ VersionsAreSaved /\ NumbersInRow /\ OverStays
  /\ CurrentIsSaved /\ SavedIsCurrent

LEMMA VersionTypes == VersionTyped => VersionTypeOK
BY DEF VersionTyped, VersionTypeOK, SaveRecords

LEMMA SavesFinite == Cardinality(Saves) \in Nat /\ Numbers = 1 .. Cardinality(Saves) /\ NoSave \notin Saves
BY FS_CardinalityType, SavesAssumption DEF Numbers

LEMMA VersionStarts == VersionInit => VersionInv
<1> SUFFICES ASSUME VersionInit PROVE VersionInv
  OBVIOUS
<1>1. VersionTyped
  <2>1. Idle \in SaveRecords
    BY SavesFinite DEF SaveRecords, Idle
  <2> QED BY <2>1 DEF VersionInit, VersionTyped
<1>2. SavedNumbers = 1 .. 0
  BY SavesFinite DEF VersionInit, SavedNumbers
<1>3. NumbersInRow
  BY <1>2, SavesFinite DEF NumbersInRow
<1>4. SavesAreNumbered /\ VersionsAreSaved /\ OverStays /\ CurrentIsSaved /\ SavedIsCurrent
  BY DEF VersionInit, SavesAreNumbered, VersionsAreSaved, OverStays, CurrentIsSaved, SavedIsCurrent, Idle
<1> QED BY <1>1, <1>3, <1>4 DEF VersionInv

\* The latest number is how many there are, ...
LEMMA LatestOfRow == ASSUME NEW k \in Nat, SavedNumbers = 1 .. k PROVE latestVersion = k
<1>1. CASE k = 0
  BY <1>1 DEF latestVersion
<1>2. CASE k # 0
  <2>1. k \in SavedNumbers /\ \A n \in SavedNumbers : k >= n
    BY <1>2
  <2>2. Max(SavedNumbers) \in SavedNumbers /\ \A n \in SavedNumbers : Max(SavedNumbers) >= n
    BY <2>1 DEF Max
  <2>3. Max(SavedNumbers) >= k /\ Max(SavedNumbers) <= k /\ Max(SavedNumbers) \in Nat
    BY <2>1, <2>2
  <2> QED BY <2>1, <2>3 DEF latestVersion
<1> QED BY <1>1, <1>2

LEMMA CountOfInterval == ASSUME NEW k \in Nat PROVE Cardinality(1 .. k) = k
BY FS_Interval

\* ... and smaller than that of the handlers while one has not begun.
LEMMA RoomForOne ==
    ASSUME VersionInv, NEW s \in Saves, save[s].pc = "idle", NEW k \in Nat, SavedNumbers = 1 .. k
    PROVE  k + 1 \in Numbers
<1> DEFINE Others == Saves \ {s}
           f == [n \in 1 .. k |-> versions[n]]
<1>1. IsFiniteSet(Others) /\ Cardinality(Others) = Cardinality(Saves) - 1
  BY FS_RemoveElement, SavesAssumption
<1>2. \A n \in 1 .. k : /\ n \in Numbers /\ versions[n] # NoSave /\ versions[n] \in Saves
                        /\ save[versions[n]].version = n /\ versions[n] # s
  <2>1. \A n \in 1 .. k : n \in Numbers /\ versions[n] # NoSave
    BY DEF SavedNumbers
  <2> QED BY <2>1 DEF VersionInv, VersionTyped, VersionsAreSaved
<1>3. f \in Injection(1 .. k, Others)
  BY <1>2 DEF Injection, IsInjective
<1>4. Cardinality(1 .. k) <= Cardinality(Others)
  BY <1>1, <1>3, FS_Injection
<1>5. Cardinality(1 .. k) = k
  BY CountOfInterval
<1> QED BY <1>1, <1>4, <1>5, SavesFinite

\* A handler begins with the number after the latest; those that are over are before it.
LEMMA BeginKeeps ==
    ASSUME VersionInv, NEW s \in Saves, NEW kind \in {"create", "update", "restore"},
           NEW number \in Numbers, NEW source \in 0 .. Cardinality(Saves),
           Begin(s, kind, number, source), definition' \in BOOLEAN,
           \A n \in 1 .. number - 1 : versions[n] # NoSave,
           UNCHANGED <<current_version_id, versions>>
    PROVE  VersionInv'
<1> DEFINE r == [kind |-> kind, pc |-> "insert", version |-> number, source |-> source]
<1>1. r \in SaveRecords /\ r.pc = "insert" /\ r.version = number
  BY SavesFinite DEF SaveRecords
<1>2. /\ save' = [save EXCEPT ![s] = r] /\ save[s].pc = "idle"
      /\ overBefore' = [overBefore EXCEPT ![s] = Over]
  BY DEF Begin
<1> HIDE DEF r
<1>3. /\ \A t \in Saves : save'[t] = IF t = s THEN r ELSE save[t]
      /\ \A t \in Saves : overBefore'[t] = IF t = s THEN Over ELSE overBefore[t]
  BY <1>2 DEF VersionInv, VersionTyped
<1>4. Over \subseteq Saves /\ Over' = Over
  BY <1>1, <1>2, <1>3 DEF Over
<1>5. VersionTyped'
  BY <1>1, <1>2, <1>4 DEF VersionInv, VersionTyped
<1>6. SavesAreNumbered'
  BY <1>1, <1>3 DEF VersionInv, SavesAreNumbered
<1>7. VersionsAreSaved'
  BY <1>2, <1>3 DEF VersionInv, VersionsAreSaved, VersionTyped
<1>8. NumbersInRow'
  BY DEF VersionInv, NumbersInRow, SavedNumbers
<1>9. OverStays'
  BY <1>3, <1>4 DEF VersionInv, OverStays
<1>10. SavedIsCurrent' /\ CurrentIsSaved'
  BY <1>1, <1>3 DEF VersionInv, SavedIsCurrent, CurrentIsSaved
<1> QED BY <1>5, <1>6, <1>7, <1>8, <1>9, <1>10 DEF VersionInv

LEMMA CreatePipelineDefinitionKeeps ==
    ASSUME VersionInv, NEW s \in Saves, CreatePipelineDefinition(s) PROVE VersionInv'
<1>1. 1 \in Numbers /\ 0 \in 0 .. Cardinality(Saves)
  <2>1. Cardinality(Saves) # 0
    BY FS_EmptySet, SavesAssumption
  <2> QED BY <2>1, SavesFinite
<1>2. \A n \in 1 .. 1 - 1 : versions[n] # NoSave
  OBVIOUS
<1> QED BY <1>1, <1>2, BeginKeeps DEF CreatePipelineDefinition

LEMMA ReadLatestKeeps == ASSUME VersionInv, NEW s \in Saves, ReadLatest(s) PROVE VersionInv'
<1>0. PICK k \in 0 .. Cardinality(Saves) : SavedNumbers = 1 .. k
  BY DEF VersionInv, NumbersInRow
<1>1. k \in Nat /\ latestVersion = k
  BY <1>0, LatestOfRow, SavesFinite
<1>2. save[s].pc = "idle"
  BY DEF ReadLatest, Begin
<1>3. latestVersion + 1 \in Numbers
  BY <1>0, <1>1, <1>2, RoomForOne
<1>4. \A n \in 1 .. (latestVersion + 1) - 1 : versions[n] # NoSave
  <2>1. \A n \in 1 .. k : versions[n] # NoSave
    BY <1>0 DEF SavedNumbers
  <2> QED BY <1>1, <2>1
<1>5. SavedNumbers \subseteq 0 .. Cardinality(Saves) /\ 0 \in 0 .. Cardinality(Saves)
  BY SavesFinite DEF SavedNumbers
<1>6. definition' \in BOOLEAN /\ UNCHANGED <<current_version_id, versions>>
  BY DEF ReadLatest, VersionInv, VersionTyped
<1>7. CASE Begin(s, "update", latestVersion + 1, 0)
  BY <1>3, <1>4, <1>5, <1>6, <1>7, BeginKeeps
<1>8. ASSUME NEW source \in SavedNumbers, Begin(s, "restore", latestVersion + 1, source) PROVE VersionInv'
  BY <1>3, <1>4, <1>5, <1>6, <1>8, BeginKeeps
<1> QED BY <1>7, <1>8 DEF ReadLatest

\* What Goto changes: the handler's step.
LEMMA GotoMoves ==
    ASSUME VersionTyped, NEW s \in Saves, NEW pc \in {"current", "done", "failed"}, Goto(s, pc)
    PROVE  /\ save' \in [Saves -> SaveRecords]
           /\ \A t \in Saves : /\ save'[t].version = save[t].version /\ save'[t].kind = save[t].kind
                               /\ save'[t].pc = IF t = s THEN pc ELSE save[t].pc
<1> DEFINE r == [save[s] EXCEPT !.pc = pc]
<1>1. r \in SaveRecords /\ r.pc = pc /\ r.version = save[s].version /\ r.kind = save[s].kind
  BY DEF VersionTyped, SaveRecords
<1>2. save' = [save EXCEPT ![s] = r]
  BY DEF Goto
<1> HIDE DEF r
<1> QED BY <1>1, <1>2 DEF VersionTyped

LEMMA HandlerOnly ==
    ASSUME VersionInv, NEW s \in Saves, NEW pc \in {"done", "failed"}, Goto(s, pc),
           save[s].pc \in {"insert", "current"}, pc = "done" => save[s].kind = "create",
           UNCHANGED <<definition, current_version_id, versions, overBefore>>
    PROVE  VersionInv'
<1>1. /\ save' \in [Saves -> SaveRecords]
      /\ \A t \in Saves : /\ save'[t].version = save[t].version /\ save'[t].kind = save[t].kind
                          /\ save'[t].pc = IF t = s THEN pc ELSE save[t].pc
  BY GotoMoves DEF VersionInv
<1>2. VersionTyped'
  BY <1>1 DEF VersionInv, VersionTyped
<1>3. SavesAreNumbered'
  BY <1>1 DEF VersionInv, SavesAreNumbered
<1>4. VersionsAreSaved'
  BY <1>1 DEF VersionInv, VersionsAreSaved, VersionTyped
<1>5. Over \subseteq Over'
  BY <1>1 DEF Over
<1>6. NumbersInRow' /\ OverStays' /\ CurrentIsSaved'
  BY <1>5 DEF VersionInv, NumbersInRow, SavedNumbers, OverStays, CurrentIsSaved
<1>7. SavedIsCurrent'
  BY <1>1 DEF VersionInv, SavedIsCurrent
<1> QED BY <1>2, <1>3, <1>4, <1>6, <1>7 DEF VersionInv

LEMMA InsertVersionKeeps == ASSUME VersionInv, NEW s \in Saves, InsertVersion(s) PROVE VersionInv'
<1> DEFINE v == save[s].version
<1>0. /\ save[s].pc = "insert" /\ v \in Numbers /\ VersionTyped
      /\ \A n \in 1 .. v - 1 : versions[n] # NoSave
      /\ UNCHANGED <<definition, current_version_id, overBefore>>
  BY DEF InsertVersion, VersionInv, SavesAreNumbered
<1>1. CASE versions[v] = NoSave
  <2>1. versions' = [versions EXCEPT ![v] = s] /\ Goto(s, "current")
    BY <1>1 DEF InsertVersion
  <2>2. /\ save' \in [Saves -> SaveRecords]
        /\ \A t \in Saves : /\ save'[t].version = save[t].version /\ save'[t].kind = save[t].kind
                            /\ save'[t].pc = IF t = s THEN "current" ELSE save[t].pc
    BY <1>0, <2>1, GotoMoves
  <2> HIDE DEF v
  <2>3. \A n \in Numbers : versions'[n] = IF n = v THEN s ELSE versions[n]
    BY <1>0, <2>1 DEF VersionTyped
  <2>4. VersionTyped'
    BY <1>0, <2>1, <2>2 DEF VersionTyped
  <2>5. v \in Nat /\ \A t \in Saves : save[t].pc = "insert" => 1 .. save[t].version - 1 \subseteq Numbers
    BY <1>0, SavesFinite DEF VersionInv, SavesAreNumbered
  <2>6. SavesAreNumbered'
    <3>1. ASSUME NEW t \in Saves PROVE save'[t].pc # "idle" => save'[t].version \in Numbers
      BY <1>0, <2>2 DEF VersionInv, SavesAreNumbered
    <3>2. ASSUME NEW t \in Saves, save'[t].pc = "insert", NEW n \in 1 .. save'[t].version - 1
          PROVE  versions'[n] # NoSave
      BY <2>2, <2>3, <2>5, <3>2, SavesFinite DEF VersionInv, SavesAreNumbered
    <3>3. ASSUME NEW t \in Saves, save'[t].pc = "current" PROVE versions'[save'[t].version] = t
      <4>1. CASE t = s
        BY <1>0, <2>2, <2>3, <4>1 DEF v
      <4>2. CASE t # s
        BY <1>1, <2>2, <2>3, <3>3, <4>2, SavesFinite DEF VersionInv, SavesAreNumbered
      <4> QED BY <4>1, <4>2
    <3> QED BY <3>1, <3>2, <3>3 DEF SavesAreNumbered
  <2>7. VersionsAreSaved'
    BY <1>0, <2>2, <2>3 DEF VersionInv, VersionsAreSaved, VersionTyped, v
  <2>8. NumbersInRow'
    <3>0. PICK k \in 0 .. Cardinality(Saves) : SavedNumbers = 1 .. k
      BY DEF VersionInv, NumbersInRow
    <3>1. v \notin SavedNumbers /\ \A n \in 1 .. v - 1 : n \in SavedNumbers
      BY <1>0, <1>1, SavesFinite DEF SavedNumbers
    <3>2. v = k + 1
      <4>1. k \in Nat /\ v \in Nat /\ v >= 1
        BY <1>0, SavesFinite
      <4>2. ~(v <= k)
        BY <3>0, <3>1, <4>1
      <4>3. ~(v > k + 1)
        BY <3>0, <3>1, <4>1
      <4> QED BY <4>1, <4>2, <4>3
    <3>3. SavedNumbers' = SavedNumbers \cup {v}
      BY <1>0, <2>3, SavesFinite DEF SavedNumbers
    <3>4. SavedNumbers' = 1 .. v /\ v \in 0 .. Cardinality(Saves)
      BY <1>0, <3>0, <3>2, <3>3, SavesFinite
    <3> QED BY <3>4 DEF NumbersInRow
  <2>9. Over \subseteq Over' /\ s \notin Over
    BY <1>0, <2>2 DEF Over
  <2>10. OverStays'
    BY <1>0, <2>9 DEF VersionInv, OverStays
  <2>11. CurrentIsSaved'
    BY <1>0, <2>3, SavesFinite DEF VersionInv, VersionTyped, CurrentIsSaved
  <2>12. current_version_id # 0 => versions'[current_version_id] = versions[current_version_id]
    BY <1>1, <2>3 DEF VersionInv, VersionTyped, CurrentIsSaved
  <2>13. SavedIsCurrent'
    BY <1>0, <2>2, <2>12 DEF VersionInv, SavedIsCurrent
  <2> QED BY <2>4, <2>6, <2>7, <2>8, <2>10, <2>11, <2>13 DEF VersionInv
<1>2. CASE versions[v] # NoSave
  <2>1. UNCHANGED versions /\ Goto(s, "failed")
    BY <1>2 DEF InsertVersion
  <2>2. /\ save' \in [Saves -> SaveRecords]
        /\ \A t \in Saves : /\ save'[t].version = save[t].version /\ save'[t].kind = save[t].kind
                            /\ save'[t].pc = IF t = s THEN "failed" ELSE save[t].pc
    BY <1>0, <2>1, GotoMoves
  <2> QED BY <1>0, <2>1, <2>2, HandlerOnly
<1> QED BY <1>1, <1>2

\* Whoever makes its version current is not over yet: no handler that has
\* reported success, or will, found it over when it began.
LEMMA SetCurrentKeeps == ASSUME VersionInv, NEW s \in Saves, SetCurrent(s) PROVE VersionInv'
<1>0. /\ save[s].pc = "current" /\ current_version_id' = save[s].version /\ Goto(s, "done")
      /\ UNCHANGED <<definition, versions, overBefore>>
      /\ save[s].version \in Numbers /\ versions[save[s].version] = s
  BY DEF SetCurrent, VersionInv, SavesAreNumbered
<1>1. /\ save' \in [Saves -> SaveRecords]
      /\ \A t \in Saves : /\ save'[t].version = save[t].version /\ save'[t].kind = save[t].kind
                          /\ save'[t].pc = IF t = s THEN "done" ELSE save[t].pc
  BY <1>0, GotoMoves DEF VersionInv
<1>2. VersionTyped'
  BY <1>0, <1>1 DEF VersionInv, VersionTyped
<1>3. SavesAreNumbered'
  BY <1>0, <1>1 DEF VersionInv, SavesAreNumbered
<1>4. VersionsAreSaved'
  BY <1>0, <1>1 DEF VersionInv, VersionsAreSaved, VersionTyped
<1>5. Over \subseteq Over' /\ s \notin Over
  BY <1>0, <1>1 DEF Over
<1>6. NumbersInRow' /\ OverStays'
  BY <1>0, <1>5 DEF VersionInv, NumbersInRow, SavedNumbers, OverStays
<1>7. CurrentIsSaved'
  BY <1>0, SavesFinite DEF CurrentIsSaved
<1>8. \A t \in Saves : s \notin overBefore[t]
  BY <1>5 DEF VersionInv, OverStays
<1>9. SavedIsCurrent'
  BY <1>0, <1>8, SavesFinite DEF SavedIsCurrent
<1> QED BY <1>2, <1>3, <1>4, <1>6, <1>7, <1>9 DEF VersionInv

LEMMA FailSaveKeeps == ASSUME VersionInv, NEW s \in Saves, FailSave(s) PROVE VersionInv'
<1>1. CASE save[s].kind = "create" /\ save[s].pc = "current"
  BY <1>1, HandlerOnly DEF FailSave
<1>2. CASE ~(save[s].kind = "create" /\ save[s].pc = "current")
  BY <1>2, HandlerOnly DEF FailSave
<1> QED BY <1>1, <1>2

LEMMA VersionKeeps == VersionInv /\ [Version]_versionVars => VersionInv'
<1> SUFFICES ASSUME VersionInv, [Version]_versionVars PROVE VersionInv'
  OBVIOUS
<1>1. CASE UNCHANGED versionVars
  BY <1>1 DEF versionVars, VersionInv, VersionTyped, SavesAreNumbered, VersionsAreSaved, NumbersInRow,
              SavedNumbers, OverStays, Over, CurrentIsSaved, SavedIsCurrent
<1> QED BY <1>1, CreatePipelineDefinitionKeeps, ReadLatestKeeps, InsertVersionKeeps, SetCurrentKeeps,
           FailSaveKeeps DEF Version

\* The handlers and the versions they save have their types: no number is beyond
\* that of the handlers.
THEOREM VersionTypeCorrect == VersionSpec => []VersionTypeOK
BY VersionStarts, VersionKeeps, VersionTypes, PTL DEF VersionSpec, VersionInv

\* What is current once an edit has succeeded was not saved by a handler that was
\* over when it began, for any number of handlers that overlap or die.
THEOREM EditsAreCurrent == VersionSpec => []SavedIsCurrent
BY VersionStarts, VersionKeeps, PTL DEF VersionSpec, VersionInv

-----------------------------------------------------------------------------
(* Projects from a picked repository. *)

Forms == [repo : Repos \cup {NoRepo}, branches : SUBSET AllBranches, branch : AllBranches,
          name : Repos \cup {NoRepo}]

\* The form holds a branch of its repository, and lists no others.
FormHasItsBranch ==
  form.repo # NoRepo => /\ form.branches \subseteq BranchesOf(form.repo)
                        /\ form.branch \in BranchesOf(form.repo) \cup {Typed}

SetupInv == form \in Forms /\ FormHasItsBranch /\ ProjectHasItsBranch

LEMMA FormStarts == NoForm \in Forms /\ NoForm.repo = NoRepo
BY DEF NoForm, Forms, AllBranches

LEMMA BranchesKnown ==
    ASSUME NEW r \in Repos
    PROVE  BranchesOf(r) \subseteq AllBranches /\ Default(r) \in BranchesOf(r)
BY DEF AllBranches, BranchesOf

\* An answer of the branches, early or late, brings its own repository along.
LEMMA AnsweredKeeps == ASSUME SetupInv, NEW r \in Repos, Answered(r) PROVE SetupInv'
<1>1. PICK branches \in {BranchesOf(r), {}, {Default(r)}} : handleRepoSelect(r, branches)
  BY DEF Answered
<1>2. branches \subseteq BranchesOf(r)
  BY BranchesKnown
<1>3. form' = [form EXCEPT !.repo = r, !.branches = branches, !.branch = Default(r), !.name = r]
  BY <1>1 DEF handleRepoSelect
<1>4. Default(r) \in BranchesOf(r) /\ BranchesOf(r) \subseteq AllBranches
  BY BranchesKnown
<1>5. /\ form' \in Forms /\ form'.repo = r /\ form'.branches = branches
      /\ form'.branch = Default(r)
  <2>0. form \in [repo : Repos \cup {NoRepo}, branches : SUBSET AllBranches, branch : AllBranches,
          name : Repos \cup {NoRepo}]
    BY DEF SetupInv, Forms
  <2>1. branches \subseteq AllBranches /\ Default(r) \in AllBranches
    BY <1>2, <1>4
  <2> HIDE DEF Default
  <2> QED BY <1>3, <2>0, <2>1 DEF Forms
<1>6. UNCHANGED <<submitted, projects>>
  BY DEF Answered
<1> QED BY <1>2, <1>4, <1>5, <1>6 DEF SetupInv, FormHasItsBranch, ProjectHasItsBranch

LEMMA EditFormKeeps == ASSUME SetupInv, EditForm PROVE SetupInv'
<1>0. form.repo # NoRepo /\ UNCHANGED <<submitted, projects>>
  BY DEF EditForm
<1>1. ASSUME NEW b \in IF form.branches = {} THEN {Typed} ELSE form.branches,
             form' = [form EXCEPT !.branch = b]
      PROVE  SetupInv'
  <2>1. b \in BranchesOf(form.repo) \cup {Typed} /\ b \in AllBranches
    BY <1>0 DEF SetupInv, FormHasItsBranch, Forms, AllBranches
  <2>2. /\ form' \in Forms /\ form'.repo = form.repo /\ form'.branches = form.branches
        /\ form'.branch = b
    BY <1>1, <2>1 DEF SetupInv, Forms
  <2> QED BY <1>0, <2>1, <2>2 DEF SetupInv, FormHasItsBranch, ProjectHasItsBranch
<1>2. ASSUME NEW n \in Repos, form' = [form EXCEPT !.name = n] PROVE SetupInv'
  <2>1. /\ form' \in Forms /\ form'.repo = form.repo /\ form'.branches = form.branches
        /\ form'.branch = form.branch
    BY <1>2 DEF SetupInv, Forms
  <2> QED BY <1>0, <2>1 DEF SetupInv, FormHasItsBranch, ProjectHasItsBranch
<1> QED BY <1>1, <1>2 DEF EditForm

LEMMA SubmitKeeps == ASSUME SetupInv, Submit PROVE SetupInv'
<1> DEFINE p == [name |-> form.name, repo |-> form.repo, branch |-> form.branch]
<1>1. p.repo = form.repo /\ p.branch = form.branch /\ form.repo # NoRepo
  BY DEF Submit
<1>2. submitted' = {p} /\ UNCHANGED <<form, projects>>
  BY DEF Submit
<1> HIDE DEF p
<1> QED BY <1>1, <1>2 DEF SetupInv, FormHasItsBranch, ProjectHasItsBranch

LEMMA CreateProjectKeeps ==
    ASSUME SetupInv, NEW project \in submitted, createProject(project) PROVE SetupInv'
<1>1. /\ submitted' = {} /\ projects' \subseteq projects \cup submitted
      /\ form' = form \/ form' = NoForm
  BY DEF createProject
<1>2. form' \in Forms /\ FormHasItsBranch'
  BY <1>1, FormStarts DEF SetupInv, FormHasItsBranch
<1>3. ProjectHasItsBranch'
  BY <1>1 DEF SetupInv, ProjectHasItsBranch
<1> QED BY <1>2, <1>3 DEF SetupInv

\* A step that leaves the form and the rows alone, or clears the form.
LEMMA FormOnly ==
    ASSUME SetupInv, form' = form \/ form' = NoForm, UNCHANGED <<submitted, projects>> PROVE SetupInv'
BY FormStarts DEF SetupInv, FormHasItsBranch, ProjectHasItsBranch

LEMMA SetupKeeps == SetupInv /\ [Setup]_setupVars => SetupInv'
<1> SUFFICES ASSUME SetupInv, [Setup]_setupVars PROVE SetupInv'
  OBVIOUS
<1>1. CASE Picking
  <2>1. ASSUME NEW query \in Queries, Search(query) \/ fetchRepos(query) PROVE SetupInv'
    BY <2>1, FormOnly DEF Search, fetchRepos
  <2>2. CASE Debounced
    BY <2>2, FormOnly DEF Debounced
  <2>3. ASSUME NEW r \in Repos, handleSelect(r) PROVE SetupInv'
    BY <2>3, FormOnly DEF handleSelect
  <2> QED BY <1>1, <2>1, <2>2, <2>3, AnsweredKeeps DEF Picking
<1>2. CASE CheckStatus \/ SwitchTab \/ handleClearSelection
  BY <1>2, FormOnly DEF CheckStatus, SwitchTab, handleClearSelection
<1>3. ASSUME NEW project \in projects, deleteProject(project) PROVE SetupInv'
  BY <1>3 DEF deleteProject, SetupInv, FormHasItsBranch, ProjectHasItsBranch
<1>4. CASE UNCHANGED setupVars
  BY <1>4, FormOnly DEF setupVars
<1> QED BY <1>1, <1>2, <1>3, <1>4, EditFormKeeps, SubmitKeeps, CreateProjectKeeps DEF Setup

\* A project has a branch of its repository, or one typed for it, for any
\* repositories, searches and order of the answers.
THEOREM ProjectsKeepTheirBranch == SetupSpec => []ProjectHasItsBranch
<1>1. SetupInit => SetupInv
  BY FormStarts DEF SetupInit, SetupInv, FormHasItsBranch, ProjectHasItsBranch
<1> QED BY <1>1, SetupKeeps, PTL DEF SetupSpec, SetupInv

-----------------------------------------------------------------------------
(* Notifications. *)

Todos == {{}, {"page"}, {"count"}, {"page", "count"}}

\* What the counting needs: the rows that are stored are finitely many, and so is
\* whatever was read of them.
Countable ==
  /\ note \in [Notes -> {"none", "unread", "read"}] /\ IsFiniteSet(StoredNotes)
  /\ layout \in [page : SUBSET Notes, unread : SUBSET Notes, count : Nat, todo : Todos]
  /\ IsFiniteSet(layout.unread)
  /\ IsFiniteSet(fresh) /\ unreadCount \in Nat
  /\ \A ids \in marking : IsFiniteSet(ids)
  /\ torn \in BOOLEAN

\* Of a layout whose queries saw one table, a half that has answered is of what
\* the table still says, and the count covers the page once both have.
LayoutAgrees ==
  ~torn => /\ layout.todo = {"count"} => layout.unread \subseteq Unread
           /\ layout.todo = {"page"} => layout.count = Cardinality(Unread)
           /\ layout.todo = {} => layout.count >= Cardinality(layout.unread)

NoteInv == Countable /\ LayoutAgrees /\ BadgeCoversList

LEMMA HalfDone ==
  /\ Cardinality({"page"}) = 1 /\ Cardinality({"count"}) = 1
  /\ \A t \in Todos : t \ {"page"} \in Todos /\ t \ {"count"} \in Todos
  /\ {"page", "count"} \in Todos /\ IsFiniteSet({}) /\ Cardinality({}) = 0
BY FS_Singleton, FS_EmptySet DEF Todos

LEMMA UnreadFinite ==
    ASSUME Countable
    PROVE  /\ IsFiniteSet(Unread) /\ Cardinality(Unread) \in Nat
           /\ \A S : IsFiniteSet(S \cap Unread) /\ Cardinality(S \cap Unread) <= Cardinality(Unread)
           /\ Unread \subseteq Notes
<1>1. Unread \subseteq StoredNotes /\ Unread \subseteq Notes
  BY DEF Unread, StoredNotes
<1>2. IsFiniteSet(Unread)
  BY <1>1, FS_Subset DEF Countable
<1>3. ASSUME NEW S PROVE IsFiniteSet(S \cap Unread) /\ Cardinality(S \cap Unread) <= Cardinality(Unread)
  <2>1. S \cap Unread \in SUBSET Unread
    OBVIOUS
  <2> QED BY <1>2, <2>1, FS_Subset
<1> QED BY <1>1, <1>2, <1>3, FS_CardinalityType

LEMMA NoteStarts == NoteInit => NoteInv
<1> SUFFICES ASSUME NoteInit PROVE NoteInv
  OBVIOUS
<1>1. StoredNotes = {}
  BY DEF NoteInit, StoredNotes
<1>2. /\ layout.todo = {"page", "count"} /\ layout.unread = {}
      /\ layout \in [page : SUBSET Notes, unread : SUBSET Notes, count : Nat, todo : Todos]
  BY HalfDone DEF NoteInit
<1>3. Countable
  BY <1>1, <1>2, HalfDone DEF NoteInit, Countable
<1>4. layout.todo # {} /\ layout.todo # {"page"} /\ layout.todo # {"count"}
  BY <1>2
<1> QED BY <1>3, <1>4 DEF NoteInv, LayoutAgrees, BadgeCoversList

\* A step on which neither the table nor what was read of it depends.
LEMMA TableAlone ==
    ASSUME NoteInv, UNCHANGED <<note, layout>>, torn' \in BOOLEAN, torn => torn',
           IsFiniteSet(fresh'), unreadCount' \in Nat, \A ids \in marking' : IsFiniteSet(ids),
           ~torn' /\ layout.todo = {} => unreadCount' >= Cardinality(fresh')
    PROVE  NoteInv'
<1>1. StoredNotes' = StoredNotes /\ Unread' = Unread
  BY DEF StoredNotes, Unread
<1>2. Countable'
  BY <1>1 DEF NoteInv, Countable
<1>3. LayoutAgrees'
  BY <1>1 DEF NoteInv, LayoutAgrees, Newest
<1> QED BY <1>2, <1>3 DEF NoteInv, BadgeCoversList

\* The table changes: the queries of a layout that are half done are torn.
LEMMA TableChanges ==
    ASSUME NoteInv, note' \in [Notes -> {"none", "unread", "read"}], IsFiniteSet(StoredNotes'),
           UNCHANGED <<layout, fresh, unreadCount>>, \A ids \in marking' : IsFiniteSet(ids),
           torn' <=> (torn \/ Cardinality(layout.todo) = 1), torn' \in BOOLEAN
    PROVE  NoteInv'
<1>1. Countable'
  BY DEF NoteInv, Countable
<1>2. layout.todo \in {{"page"}, {"count"}} => torn'
  BY HalfDone
<1>3. LayoutAgrees'
  BY <1>2 DEF NoteInv, LayoutAgrees
<1> QED BY <1>1, <1>3 DEF NoteInv, BadgeCoversList

LEMMA CreateNotificationKeeps ==
    ASSUME NoteInv, NEW n \in Notes, NEW e \in Events, createNotification(n, e) PROVE NoteInv'
<1>0. /\ UNCHANGED <<layout, fresh, unreadCount, marking>>
      /\ \A ids \in marking' : IsFiniteSet(ids)
  BY DEF createNotification, dropdown, NoteInv, Countable
<1>1. CASE note' = [note EXCEPT ![n] = "unread"] /\ torn' = (torn \/ Cardinality(layout.todo) = 1)
  <2>1. note' \in [Notes -> {"none", "unread", "read"}]
    BY <1>1 DEF NoteInv, Countable
  <2>2. StoredNotes' \subseteq StoredNotes \cup {n}
    BY <1>1 DEF StoredNotes, NoteInv, Countable
  <2>3. IsFiniteSet(StoredNotes')
    BY <2>2, FS_AddElement, FS_Subset DEF NoteInv, Countable
  <2>4. (torn' <=> (torn \/ Cardinality(layout.todo) = 1)) /\ torn' \in BOOLEAN
    BY <1>1
  <2> QED BY <1>0, <2>1, <2>3, <2>4, TableChanges
<1>2. CASE UNCHANGED <<note, arriving, torn>>
  BY <1>0, <1>2, TableAlone DEF NoteInv, Countable, BadgeCoversList
<1> QED BY <1>1, <1>2 DEF createNotification

\* A query answers; with the second answer the page opens.
LEMMA OpensKeeps ==
    ASSUME NoteInv, Opens(layout'), UNCHANGED <<note, marking>>, torn' \in BOOLEAN,
           layout' \in [page : SUBSET Notes, unread : SUBSET Notes, count : Nat, todo : Todos],
           IsFiniteSet(layout'.unread), LayoutAgrees', layout.todo # {}
    PROVE  NoteInv'
<1>1. StoredNotes' = StoredNotes
  BY DEF StoredNotes
<1>2. CASE layout'.todo = {}
  <2>1. fresh' = layout'.unread /\ unreadCount' = layout'.count
    BY <1>2 DEF Opens
  <2>2. Countable'
    BY <1>1, <2>1 DEF NoteInv, Countable
  <2> QED BY <1>2, <2>1, <2>2 DEF NoteInv, BadgeCoversList, LayoutAgrees
<1>3. CASE layout'.todo # {}
  <2>1. UNCHANGED <<fresh, unreadCount>>
    BY <1>3 DEF Opens, dropdown
  <2>2. Countable'
    BY <1>1, <2>1 DEF NoteInv, Countable
  <2> QED BY <1>3, <2>2 DEF NoteInv, BadgeCoversList
<1> QED BY <1>2, <1>3

LEMMA QueryPageKeeps == ASSUME NoteInv, QueryPage PROVE NoteInv'
<1> PICK found \in {Newest(StoredNotes), {}} :
      Opens([layout EXCEPT !.page = found, !.unread = found \cap Unread, !.todo = @ \ {"page"}])
  BY DEF QueryPage
<1> DEFINE l == [layout EXCEPT !.page = found, !.unread = found \cap Unread, !.todo = @ \ {"page"}]
<1>0. /\ "page" \in layout.todo /\ Opens(l) /\ layout' = l /\ UNCHANGED <<note, marking, torn>>
  BY DEF QueryPage, Opens
<1>1. /\ layout \in [page : SUBSET Notes, unread : SUBSET Notes, count : Nat, todo : Todos]
      /\ layout.todo \ {"page"} \in Todos
      /\ found \subseteq Notes /\ found \cap Unread \subseteq Notes
  BY HalfDone DEF NoteInv, Countable, Newest, StoredNotes
<1>2. /\ l \in [page : SUBSET Notes, unread : SUBSET Notes, count : Nat, todo : Todos]
      /\ l.unread = found \cap Unread /\ l.count = layout.count
      /\ l.todo = layout.todo \ {"page"}
  BY <1>1
<1> HIDE DEF l
<1>3. /\ IsFiniteSet(l.unread) /\ Cardinality(l.unread) <= Cardinality(Unread)
      /\ l.unread \subseteq Unread
  BY <1>2, UnreadFinite DEF NoteInv
<1>4. Unread' = Unread
  BY <1>0 DEF Unread
<1>5. l.todo = {} => layout.todo = {"page"}
  BY <1>0, <1>1, <1>2 DEF Todos
<1>6. l.todo # {"page"}
  BY <1>2
<1>7. Cardinality(l.unread) \in Nat /\ Cardinality(Unread) \in Nat
  BY <1>3, UnreadFinite, FS_CardinalityType DEF NoteInv
<1>8. LayoutAgrees'
  BY <1>0, <1>2, <1>3, <1>4, <1>5, <1>6, <1>7 DEF NoteInv, LayoutAgrees
<1>9. torn' \in BOOLEAN /\ layout.todo # {}
  BY <1>0 DEF NoteInv, Countable
<1> QED BY <1>0, <1>2, <1>3, <1>8, <1>9, OpensKeeps

\* A count that failed makes the layout torn.
LEMMA QueryCountKeeps == ASSUME NoteInv, QueryCount PROVE NoteInv'
<1> PICK n \in {Cardinality(Unread), 0} :
      /\ Opens([layout EXCEPT !.count = n, !.todo = @ \ {"count"}])
      /\ \/ n = Cardinality(Unread) /\ UNCHANGED torn
         \/ torn' = TRUE
  BY DEF QueryCount
<1> DEFINE l == [layout EXCEPT !.count = n, !.todo = @ \ {"count"}]
<1>0. /\ "count" \in layout.todo /\ Opens(l) /\ layout' = l /\ UNCHANGED <<note, marking>>
  BY DEF QueryCount, Opens
<1>1. /\ layout \in [page : SUBSET Notes, unread : SUBSET Notes, count : Nat, todo : Todos]
      /\ layout.todo \ {"count"} \in Todos /\ n \in Nat
      /\ IsFiniteSet(layout.unread)
  <2>1. Countable
    BY DEF NoteInv
  <2>2. Cardinality(Unread) \in Nat
    BY <2>1, UnreadFinite
  <2>3. n \in Nat
    BY <2>2
  <2>4. /\ layout \in [page : SUBSET Notes, unread : SUBSET Notes, count : Nat, todo : Todos]
        /\ IsFiniteSet(layout.unread)
    BY <2>1 DEF Countable
  <2>5. layout.todo \ {"count"} \in Todos
    BY <2>4, HalfDone
  <2> QED BY <2>3, <2>4, <2>5
<1>2. /\ l \in [page : SUBSET Notes, unread : SUBSET Notes, count : Nat, todo : Todos]
      /\ l.unread = layout.unread /\ l.count = n
      /\ l.todo = layout.todo \ {"count"}
  BY <1>1
<1> HIDE DEF l
<1>4. Unread' = Unread
  BY <1>0 DEF Unread
<1>5. l.todo = {} => layout.todo = {"count"}
  BY <1>0, <1>1, <1>2 DEF Todos
<1>6. l.todo # {"count"}
  BY <1>2
<1>7. layout.unread \subseteq Unread
        => Cardinality(layout.unread) <= Cardinality(Unread) /\ Cardinality(layout.unread) \in Nat
  BY UnreadFinite, FS_Subset, FS_CardinalityType DEF NoteInv
<1>8. torn' \in BOOLEAN /\ (~torn' => ~torn /\ n = Cardinality(Unread))
  <2>1. torn \in BOOLEAN
    BY DEF NoteInv, Countable
  <2>2. CASE n = Cardinality(Unread) /\ UNCHANGED torn
    BY <2>1, <2>2
  <2>3. CASE torn' = TRUE
    BY <2>3
  <2> QED BY <2>2, <2>3
<1>9. LayoutAgrees'
  BY <1>0, <1>1, <1>2, <1>4, <1>5, <1>6, <1>7, <1>8 DEF NoteInv, LayoutAgrees
<1>10. layout.todo # {}
  BY <1>0
<1> QED BY <1>0, <1>1, <1>2, <1>8, <1>9, <1>10, OpensKeeps

LEMMA OnInsertKeeps == ASSUME NoteInv, NEW n \in Notes, onInsert(n) PROVE NoteInv'
<1>1. /\ fresh' = fresh \cup {n} /\ unreadCount' = unreadCount + 1
      /\ UNCHANGED <<note, layout, marking, torn>>
  BY DEF onInsert
<1>2. IsFiniteSet(fresh) /\ Cardinality(fresh) \in Nat /\ unreadCount \in Nat
  BY FS_CardinalityType DEF NoteInv, Countable
<1>3. IsFiniteSet(fresh') /\ Cardinality(fresh') <= Cardinality(fresh) + 1 /\ Cardinality(fresh') \in Nat
  BY <1>1, <1>2, FS_AddElement, FS_CardinalityType
<1> QED BY <1>1, <1>2, <1>3, TableAlone DEF NoteInv, Countable, BadgeCoversList

LEMMA MaxOfTwo == ASSUME NEW x \in Int PROVE Max({0, x}) \in Nat /\ Max({0, x}) >= x
<1>1. \E m \in {0, x} : \A y \in {0, x} : m >= y
  <2>1. CASE x >= 0
    BY <2>1
  <2>2. CASE ~(x >= 0)
    BY <2>2
  <2> QED BY <2>1, <2>2
<1>2. Max({0, x}) \in {0, x} /\ \A y \in {0, x} : Max({0, x}) >= y
  BY <1>1 DEF Max
<1> QED BY <1>2

\* A row that is clicked was shown as unread: one row less, and one less counted.
LEMMA ClickKeeps == ASSUME NoteInv, NEW n \in Notes, handleNotificationClick(n) PROVE NoteInv'
<1>1. /\ n \in fresh /\ fresh' = fresh \ {n} /\ unreadCount' = Max({0, unreadCount - Cardinality({n})})
      /\ marking' = marking \cup {{n}} /\ UNCHANGED <<note, layout, torn>>
  BY DEF handleNotificationClick, markAsRead
<1>2. IsFiniteSet(fresh) /\ Cardinality(fresh) \in Nat /\ unreadCount \in Nat
  BY FS_CardinalityType DEF NoteInv, Countable
<1>3. IsFiniteSet(fresh') /\ Cardinality(fresh') = Cardinality(fresh) - 1
  BY <1>1, <1>2, FS_RemoveElement
<1>4. IsFiniteSet({n}) /\ Cardinality({n}) = 1
  BY FS_Singleton
<1>5. unreadCount' \in Nat /\ unreadCount' >= unreadCount - 1
  <2> DEFINE left == unreadCount - Cardinality({n})
  <2>1. left = unreadCount - 1 /\ left \in Int
    BY <1>2, <1>4
  <2>2. unreadCount' = Max({0, left})
    BY <1>1
  <2> HIDE DEF left
  <2>3. unreadCount' \in Nat /\ unreadCount' >= left
    BY <2>1, <2>2, MaxOfTwo
  <2> QED BY <2>1, <2>3
<1>6. \A ids \in marking' : IsFiniteSet(ids)
  BY <1>1, <1>4 DEF NoteInv, Countable
<1>7. ~torn /\ layout.todo = {} => unreadCount' >= Cardinality(fresh')
  BY <1>2, <1>3, <1>5 DEF NoteInv, BadgeCoversList
<1>8. torn \in BOOLEAN
  BY DEF NoteInv, Countable
<1> QED BY <1>1, <1>3, <1>5, <1>6, <1>7, <1>8, TableAlone

LEMMA MarkAllKeeps == ASSUME NoteInv, handleMarkAllRead PROVE NoteInv'
<1>1. /\ fresh' = {} /\ unreadCount' = 0 /\ marking' = marking \cup {{}} /\ UNCHANGED <<note, layout, torn>>
  BY DEF handleMarkAllRead
<1>2. IsFiniteSet(fresh') /\ unreadCount' \in Nat /\ unreadCount' >= Cardinality(fresh')
  BY <1>1, HalfDone
<1>3. (\A ids \in marking' : IsFiniteSet(ids)) /\ torn \in BOOLEAN
  BY <1>1, HalfDone DEF NoteInv, Countable
<1> QED BY <1>1, <1>2, <1>3, TableAlone

LEMMA MarkReadKeeps == ASSUME NoteInv, NEW ids \in marking, MarkRead(ids) PROVE NoteInv'
<1>0. /\ UNCHANGED <<layout, fresh, unreadCount>> /\ marking' \subseteq marking
      /\ \A s \in marking' : IsFiniteSet(s)
  BY DEF MarkRead, dropdown, NoteInv, Countable
<1>1. PICK hit \in {{}, IF ids = {} THEN Unread ELSE ids} :
        /\ note' = [n \in Notes |-> IF n \in hit THEN "read" ELSE note[n]]
        /\ torn' = (torn \/ (Cardinality(layout.todo) = 1 /\ hit # {}))
  BY DEF MarkRead
<1>2. IsFiniteSet(hit)
  BY UnreadFinite, HalfDone DEF NoteInv, Countable
<1>3. CASE hit = {}
  <2>1. note' = note /\ (torn' <=> torn) /\ torn' \in BOOLEAN
    BY <1>1, <1>3 DEF NoteInv, Countable
  <2> QED BY <1>0, <2>1, TableAlone DEF NoteInv, Countable, BadgeCoversList
<1>4. CASE hit # {}
  <2>1. (torn' <=> (torn \/ Cardinality(layout.todo) = 1)) /\ torn' \in BOOLEAN
    BY <1>1, <1>4
  <2>2. note' \in [Notes -> {"none", "unread", "read"}]
    BY <1>1 DEF NoteInv, Countable
  <2>3. StoredNotes' \subseteq StoredNotes \cup hit
    BY <1>1 DEF StoredNotes
  <2>4. IsFiniteSet(StoredNotes')
    BY <1>2, <2>3, FS_Union, FS_Subset DEF NoteInv, Countable
  <2> QED BY <1>0, <2>1, <2>2, <2>4, TableChanges
<1> QED BY <1>3, <1>4

LEMMA NavigateKeeps == ASSUME NoteInv, Navigate PROVE NoteInv'
<1>1. /\ fresh' = layout.unread /\ unreadCount' = layout.count
      /\ UNCHANGED <<note, layout, marking, torn>>
  BY DEF Navigate, Leave
<1> QED BY <1>1, TableAlone DEF NoteInv, Countable, LayoutAgrees

LEMMA ReloadKeeps == ASSUME NoteInv, Reload PROVE NoteInv'
<1>1. /\ layout' = [layout EXCEPT !.todo = {"page", "count"}] /\ torn' = FALSE
      /\ UNCHANGED <<note, marking, fresh, unreadCount>>
  BY DEF Reload, Leave, dropdown
<1>2. /\ layout' \in [page : SUBSET Notes, unread : SUBSET Notes, count : Nat, todo : Todos]
      /\ layout'.todo = {"page", "count"} /\ layout'.unread = layout.unread
  BY <1>1, HalfDone DEF NoteInv, Countable
<1>3. StoredNotes' = StoredNotes
  BY <1>1 DEF StoredNotes
<1>4. torn' \in BOOLEAN
  BY <1>1
<1>5. Countable'
  BY <1>1, <1>2, <1>3, <1>4 DEF NoteInv, Countable
<1>6. layout'.todo # {} /\ layout'.todo # {"page"} /\ layout'.todo # {"count"}
  BY <1>2
<1> QED BY <1>5, <1>6 DEF NoteInv, LayoutAgrees, BadgeCoversList

LEMMA NoteKeeps == NoteInv /\ [Notifying]_noteVars => NoteInv'
<1> SUFFICES ASSUME NoteInv, [Notifying]_noteVars PROVE NoteInv'
  OBVIOUS
<1>1. CASE UNCHANGED noteVars \/ Subscribe
  <2>1. UNCHANGED <<note, layout, fresh, unreadCount, marking, torn>>
    BY <1>1 DEF noteVars, Subscribe, dropdown
  <2> QED BY <2>1, TableAlone DEF NoteInv, Countable, BadgeCoversList
<1> QED BY <1>1, CreateNotificationKeeps, QueryPageKeeps, QueryCountKeeps, OnInsertKeeps, ClickKeeps,
           MarkAllKeeps, MarkReadKeeps, NavigateKeeps, ReloadKeeps DEF Notifying

\* The badge covers what is shown as unread, unless the layout's queries saw
\* different tables or its count failed: for any rows, size of the page,
\* deliveries and visits.
THEOREM BadgeIsEnough == NoteSpec => []BadgeCoversList
BY NoteStarts, NoteKeeps, PTL DEF NoteSpec, NoteInv

-----------------------------------------------------------------------------
(* The mirror of a project's documents on a runner. *)

\* No more than one synchronisation is under way.
OneSync == \A s, u \in Syncs : ~At(s, "idle") /\ ~At(u, "idle") => s = u

\* Between synchronisations the state file names what the bucket holds.
StateTells == (\A s \in Syncs : ~At(s, "save")) /\ content # NoFile => content = state

\* A bucket that is not readable yet is being made so.
BareIsOpened == bucket = "bare" => \E s \in Syncs : At(s, "policy")

\* What a synchronisation has made sure of.
SyncKnows(s) ==
  /\ sync[s].pc \in {"load", "list", "download", "put", "remove", "save"} => bucket = "open"
  /\ sync[s].pc \in {"list", "download", "put", "remove"} => sync[s].known = state
  /\ At(s, "remove") => sync[s].want = NoFile
  /\ At(s, "save") => /\ ~sync[s].failed => content = sync[s].want
                      /\ content # NoFile => content = sync[s].known

MirrorInv ==
  /\ MirrorOK
  /\ Orderly => OneSync /\ StateTells /\ BareIsOpened /\ \A s \in Syncs : SyncKnows(s)

LEMMA MirrorStarts == ASSUME Init PROVE MirrorInv
<1>1. /\ published = NoFile /\ bucket = "absent" /\ content = NoFile /\ state = NoFile
      /\ sync = [s \in Syncs |-> NoSync] /\ calm = FALSE /\ overlaps = 0 /\ cut = FALSE
  BY DEF Init
<1>2. MirrorOK
  <2>1. NoSync \in [pc : SyncSteps, want : Versions, known : Versions, failed : BOOLEAN]
    BY DEF NoSync, SyncSteps, Versions
  <2>2. sync \in [Syncs -> [pc : SyncSteps, want : Versions, known : Versions, failed : BOOLEAN]]
    BY <1>1, <2>1
  <2>3. overlaps \in 0 .. MaxOverlaps /\ NoFile \in Versions
    BY <1>1, MirrorAssumption DEF Versions
  <2>4. calm \in BOOLEAN /\ cut \in BOOLEAN
    BY <1>1
  <2> QED BY <1>1, <2>2, <2>3, <2>4 DEF MirrorOK
<1>3. \A s \in Syncs : At(s, "idle")
  BY <1>1 DEF NoSync, At
<1>4. OneSync /\ StateTells /\ BareIsOpened /\ \A s \in Syncs : SyncKnows(s)
  BY <1>1, <1>3 DEF OneSync, StateTells, BareIsOpened, SyncKnows, At
<1> QED BY <1>2, <1>4 DEF MirrorInv

\* What of the invariant a step of the synchronisation s needs.
LEMMA SyncHas ==
    ASSUME MirrorInv, NEW s \in Syncs
    PROVE  /\ MirrorOK /\ sync \in [Syncs -> [pc : SyncSteps, want : Versions, known : Versions, failed : BOOLEAN]]
           /\ Orderly => /\ OneSync /\ StateTells /\ BareIsOpened /\ \A u \in Syncs : SyncKnows(u)
  BY DEF MirrorInv, MirrorOK

\* A step of the one synchronisation keeps what is said of it.
LEMMA OneSyncMoves ==
    ASSUME MirrorInv, NEW s \in Syncs, ~At(s, "idle"),
           NEW r \in [pc : SyncSteps, want : Versions, known : Versions, failed : BOOLEAN],
           sync' = [sync EXCEPT ![s] = r], published' \in Versions, overlaps' = overlaps,
           bucket' \in {"absent", "bare", "open"}, content' \in Versions, state' \in Versions,
           calm' \in BOOLEAN, cut' \in BOOLEAN, Orderly' => Orderly,
           Orderly' => SyncKnows(s)',
           Orderly' /\ bucket' = "bare" => At(s, "policy")' \/ (bucket = "bare" /\ ~At(s, "policy")),
           Orderly' /\ r.pc # "save" /\ content' # NoFile => content' = state'
    PROVE  MirrorInv'
<1>1. MirrorOK'
  BY SyncHas DEF MirrorOK
<1>2. sync'[s] = r /\ \A u \in Syncs \ {s} : sync'[u] = sync[u]
  BY SyncHas
<1> SUFFICES ASSUME Orderly' PROVE OneSync' /\ StateTells' /\ BareIsOpened' /\ \A u \in Syncs : SyncKnows(u)'
  BY <1>1 DEF MirrorInv
<1>3. Orderly /\ \A u \in Syncs \ {s} : At(u, "idle")
  BY SyncHas DEF OneSync
<1>4. \A u \in Syncs \ {s} : At(u, "idle")'
  BY <1>2, <1>3 DEF At
<1>5. OneSync'
  BY <1>4 DEF OneSync
<1>6. StateTells'
  BY <1>2 DEF StateTells, At
<1>7. BareIsOpened'
  <2>1. ASSUME bucket = "bare", ~At(s, "policy") PROVE FALSE
    BY <1>3, <2>1, SyncHas DEF BareIsOpened, At
  <2> QED BY <2>1 DEF BareIsOpened
<1>8. \A u \in Syncs : SyncKnows(u)'
  BY <1>4 DEF SyncKnows, At
<1> QED BY <1>5, <1>6, <1>7, <1>8

\* Before its last step the state file names what the bucket holds.
LEMMA StateTellsNow ==
    ASSUME MirrorInv, Orderly, NEW s \in Syncs, ~At(s, "idle"), ~At(s, "save"), content # NoFile
    PROVE  content = state
<1>1. \A u \in Syncs : ~At(u, "save")
  BY SyncHas DEF OneSync, At
<1> QED BY <1>1, SyncHas DEF StateTells

LEMMA FetchKeeps == ASSUME MirrorInv, NEW s \in Syncs, Fetch(s) PROVE MirrorInv'
<1> DEFINE r == [NoSync EXCEPT !.pc = "prepare", !.want = published]
<1>1. /\ At(s, "idle") /\ sync' = [sync EXCEPT ![s] = r] /\ overlaps' <= MaxOverlaps
      /\ overlaps' = IF \A u \in Syncs : At(u, "idle") THEN overlaps ELSE overlaps + 1
      /\ UNCHANGED <<published, calm, store, cut>>
  BY DEF Fetch
<1>2. r \in [pc : SyncSteps, want : Versions, known : Versions, failed : BOOLEAN] /\ r.pc = "prepare"
  BY SyncHas DEF MirrorOK, NoSync, SyncSteps, Versions
<1> HIDE DEF r
<1>3. overlaps \in Nat /\ overlaps' \in 0 .. MaxOverlaps
  BY <1>1, SyncHas, MirrorAssumption DEF MirrorOK
<1>4. MirrorOK'
  BY <1>1, <1>2, <1>3, SyncHas DEF MirrorOK, store
<1>5. sync'[s] = r /\ \A u \in Syncs \ {s} : sync'[u] = sync[u]
  BY <1>1, SyncHas
<1> SUFFICES ASSUME Orderly' PROVE OneSync' /\ StateTells' /\ BareIsOpened' /\ \A u \in Syncs : SyncKnows(u)'
  BY <1>4 DEF MirrorInv
<1>6. Orderly /\ \A u \in Syncs : At(u, "idle")
  BY <1>1, <1>3 DEF Orderly
<1>7. At(s, "prepare")' /\ \A u \in Syncs \ {s} : At(u, "idle")'
  BY <1>2, <1>5, <1>6 DEF At
<1>8. OneSync'
  BY <1>7 DEF OneSync
<1>9. StateTells' /\ BareIsOpened'
  BY <1>1, <1>6, <1>7, SyncHas DEF StateTells, BareIsOpened, At, store
<1>10. \A u \in Syncs : SyncKnows(u)'
  BY <1>7 DEF SyncKnows, At
<1> QED BY <1>8, <1>9, <1>10

\* A synchronisation that ends, before or after it wrote the state file.
LEMMA EndsSyncKeeps ==
    ASSUME MirrorInv, NEW s \in Syncs, ~At(s, "idle"), EndsSync(s), UNCHANGED <<published, calm, overlaps, content>>,
           bucket' = bucket, state' \in Versions, cut' \in BOOLEAN, Orderly' => Orderly,
           Orderly' => ~At(s, "policy"), Orderly' /\ content # NoFile => content = state'
    PROVE  MirrorInv'
<1>1. NoSync \in [pc : SyncSteps, want : Versions, known : Versions, failed : BOOLEAN] /\ NoSync.pc = "idle"
  BY DEF NoSync, SyncSteps, Versions
<1>2. sync' = [sync EXCEPT ![s] = NoSync] /\ sync'[s] = NoSync
  BY SyncHas DEF EndsSync
<1>3. SyncKnows(s)'
  BY <1>1, <1>2 DEF SyncKnows, At
<1>4. /\ published' \in Versions /\ bucket' \in {"absent", "bare", "open"} /\ content' \in Versions
      /\ calm' \in BOOLEAN
  BY SyncHas DEF MirrorOK
<1> HIDE DEF NoSync
<1> QED BY <1>1, <1>2, <1>3, <1>4, OneSyncMoves

LEMMA PrepareKeeps == ASSUME MirrorInv, NEW s \in Syncs, Prepare(s) PROVE MirrorInv'
<1>1. At(s, "prepare") /\ UNCHANGED <<published, calm, content, state, overlaps, cut>>
  BY DEF Prepare
<1>2. ~At(s, "idle") /\ ~At(s, "policy") /\ ~At(s, "save") /\ (Orderly' => Orderly) /\ state \in Versions /\ cut \in BOOLEAN
  BY <1>1, SyncHas DEF At, Orderly, MirrorOK
<1>3. Orderly' /\ content # NoFile => content = state
  BY <1>2, StateTellsNow
<1>4. CASE bucket = "absent" /\ sync[s].want = NoFile /\ EndsSync(s) /\ UNCHANGED bucket
  BY <1>1, <1>2, <1>3, <1>4, EndsSyncKeeps
<1>5. CASE bucket = "absent" /\ sync[s].want # NoFile /\ Proceeds(s, "policy") /\ bucket' = "bare"
  <2> DEFINE r == [sync[s] EXCEPT !.pc = "policy"]
  <2>1. sync' = [sync EXCEPT ![s] = r] /\ r.pc = "policy" /\ sync'[s] = r
        /\ r \in [pc : SyncSteps, want : Versions, known : Versions, failed : BOOLEAN]
    BY <1>5, SyncHas DEF Proceeds, SyncSteps
  <2> HIDE DEF r
  <2>2. SyncKnows(s)' /\ At(s, "policy")'
    BY <2>1 DEF SyncKnows, At
  <2>3. published' \in Versions /\ content' \in Versions /\ state' \in Versions /\ calm' \in BOOLEAN /\ cut' \in BOOLEAN
    BY <1>1, SyncHas DEF MirrorOK
  <2> QED BY <1>1, <1>2, <1>3, <1>5, <2>1, <2>2, <2>3, OneSyncMoves
<1>6. CASE bucket # "absent" /\ Proceeds(s, "load") /\ UNCHANGED bucket
  <2> DEFINE r == [sync[s] EXCEPT !.pc = "load"]
  <2>1. sync' = [sync EXCEPT ![s] = r] /\ r.pc = "load" /\ sync'[s] = r
        /\ r \in [pc : SyncSteps, want : Versions, known : Versions, failed : BOOLEAN]
    BY <1>6, SyncHas DEF Proceeds, SyncSteps
  <2> HIDE DEF r
  <2>2. Orderly => bucket = "open"
    BY <1>1, <1>6, SyncHas DEF BareIsOpened, OneSync, At, MirrorOK
  <2>3. Orderly' => SyncKnows(s)'
    BY <1>2, <1>6, <2>1, <2>2 DEF SyncKnows, At
  <2>4. published' \in Versions /\ content' \in Versions /\ state' \in Versions /\ calm' \in BOOLEAN
        /\ cut' \in BOOLEAN /\ bucket' \in {"absent", "bare", "open"}
    BY <1>1, <1>6, SyncHas DEF MirrorOK
  <2> QED BY <1>1, <1>2, <1>3, <1>6, <2>1, <2>2, <2>3, <2>4, OneSyncMoves
<1> QED BY <1>4, <1>5, <1>6 DEF Prepare

LEMMA OpenBucketKeeps == ASSUME MirrorInv, NEW s \in Syncs, OpenBucket(s) PROVE MirrorInv'
<1> DEFINE r == [sync[s] EXCEPT !.pc = "load"]
<1>1. At(s, "policy") /\ bucket' = "open" /\ UNCHANGED <<published, calm, content, state, overlaps, cut>>
      /\ Proceeds(s, "load")
  BY DEF OpenBucket
<1>2. sync' = [sync EXCEPT ![s] = r] /\ r.pc = "load" /\ sync'[s] = r
      /\ r \in [pc : SyncSteps, want : Versions, known : Versions, failed : BOOLEAN]
  BY <1>1, SyncHas DEF Proceeds, SyncSteps
<1> HIDE DEF r
<1>3. ~At(s, "idle") /\ ~At(s, "save") /\ (Orderly' => Orderly)
  BY <1>1 DEF At, Orderly
<1>4. SyncKnows(s)'
  BY <1>1, <1>2 DEF SyncKnows, At
<1>5. Orderly' /\ content' # NoFile => content' = state'
  BY <1>1, <1>3, StateTellsNow
<1>6. published' \in Versions /\ content' \in Versions /\ state' \in Versions /\ calm' \in BOOLEAN /\ cut' \in BOOLEAN
  BY <1>1, SyncHas DEF MirrorOK
<1> QED BY <1>1, <1>2, <1>3, <1>4, <1>5, <1>6, OneSyncMoves

\* A step between the opening of the bucket and the last write, which leaves
\* the bucket and the state file as they are.
LEMMA SyncGoesOn ==
    ASSUME MirrorInv, NEW s \in Syncs, sync[s].pc \in {"load", "list", "download", "put", "remove"},
           NEW r \in [pc : SyncSteps, want : Versions, known : Versions, failed : BOOLEAN],
           sync' = [sync EXCEPT ![s] = r], UNCHANGED <<published, calm, bucket, state, overlaps>>,
           content' \in Versions, cut' \in BOOLEAN, Orderly' => Orderly,
           r.pc \in {"list", "download", "put", "remove", "save"},
           Orderly' /\ r.pc # "save" =>
             content' = content /\ r.known = state /\ (r.pc = "remove" => r.want = NoFile),
           Orderly' /\ r.pc = "save" =>
             (~r.failed => content' = r.want) /\ (content' # NoFile => content' = r.known)
    PROVE  MirrorInv'
<1>1. ~At(s, "idle") /\ ~At(s, "save") /\ sync'[s] = r
  BY SyncHas DEF At
<1>2. Orderly => bucket = "open"
  BY SyncHas DEF SyncKnows
<1>3. Orderly' => SyncKnows(s)'
  BY <1>1, <1>2 DEF SyncKnows, At
<1>4. Orderly' /\ r.pc # "save" /\ content' # NoFile => content' = state'
  BY <1>1, StateTellsNow
<1>5. published' \in Versions /\ bucket' \in {"absent", "bare", "open"} /\ state' \in Versions /\ calm' \in BOOLEAN
  BY SyncHas DEF MirrorOK
<1> QED BY <1>1, <1>2, <1>3, <1>4, <1>5, OneSyncMoves

LEMMA LoadStateKeeps == ASSUME MirrorInv, NEW s \in Syncs, LoadState(s) PROVE MirrorInv'
<1> DEFINE r == [sync[s] EXCEPT !.pc = "list", !.known = state]
<1>1. /\ At(s, "load") /\ sync' = [sync EXCEPT ![s] = r] /\ r.pc = "list" /\ r.known = state
      /\ r \in [pc : SyncSteps, want : Versions, known : Versions, failed : BOOLEAN]
      /\ UNCHANGED <<published, calm, store, overlaps, cut>> /\ content \in Versions /\ cut \in BOOLEAN
  BY SyncHas DEF LoadState, SyncSteps, MirrorOK
<1> HIDE DEF r
<1> QED BY <1>1, SyncGoesOn DEF At, store, Orderly

LEMMA ListKeeps == ASSUME MirrorInv, NEW s \in Syncs, List(s) PROVE MirrorInv'
<1> DEFINE p == planDocumentSync(sync[s].want, sync[s].known)
           r == [sync[s] EXCEPT !.pc = p]
<1>1. p \in {"download", "remove", "save"} /\ (p = "remove" => sync[s].want = NoFile)
      /\ (p = "save" => IF sync[s].want # NoFile THEN content # NoFile /\ sync[s].known = sync[s].want
                                                ELSE content = NoFile)
  BY DEF planDocumentSync
<1>2. /\ At(s, "list") /\ sync' = [sync EXCEPT ![s] = r] 
      /\ UNCHANGED <<published, calm, store, overlaps, cut>> /\ content \in Versions /\ cut \in BOOLEAN
  BY SyncHas DEF List, Proceeds, MirrorOK
<1>3. r.pc = p /\ r.known = sync[s].known /\ r.want = sync[s].want
      /\ r \in [pc : SyncSteps, want : Versions, known : Versions, failed : BOOLEAN]
  BY <1>1, SyncHas DEF SyncSteps
<1> HIDE DEF r, p
<1>4. ASSUME Orderly PROVE sync[s].known = state /\ (content # NoFile => content = state)
  BY <1>2, <1>4, SyncHas, StateTellsNow DEF SyncKnows, At
<1> QED BY <1>1, <1>2, <1>3, <1>4, SyncGoesOn DEF At, store, Orderly

LEMMA DownloadKeeps == ASSUME MirrorInv, NEW s \in Syncs, Download(s) \/ DownloadFails(s) PROVE MirrorInv'
<1> DEFINE r == IF Download(s) THEN [sync[s] EXCEPT !.pc = "put"]
                               ELSE [sync[s] EXCEPT !.pc = "save", !.failed = TRUE]
<1>1. /\ At(s, "download") /\ sync' = [sync EXCEPT ![s] = r]
      /\ UNCHANGED <<published, calm, store, overlaps, cut>> /\ content \in Versions /\ cut \in BOOLEAN
  BY SyncHas DEF Download, DownloadFails, Proceeds, Fail, MirrorOK
<1>2. r.pc \in {"put", "save"} /\ r.known = sync[s].known /\ (r.pc = "save" => r.failed)
      /\ r \in [pc : SyncSteps, want : Versions, known : Versions, failed : BOOLEAN]
  BY SyncHas DEF SyncSteps
<1> HIDE DEF r
<1>3. ASSUME Orderly PROVE sync[s].known = state /\ (content # NoFile => content = state)
  BY <1>1, <1>3, SyncHas, StateTellsNow DEF SyncKnows, At
<1> QED BY <1>1, <1>2, <1>3, SyncGoesOn DEF At, store, Orderly

LEMMA PutKeeps == ASSUME MirrorInv, NEW s \in Syncs, Put(s) \/ Remove(s) PROVE MirrorInv'
<1> DEFINE d == IF Put(s) THEN sync[s].want ELSE NoFile
           r == [sync[s] EXCEPT !.pc = "save", !.known = d]
<1>1. /\ sync[s].pc \in {"put", "remove"} /\ sync' = [sync EXCEPT ![s] = r] /\ content' = d
      /\ UNCHANGED <<published, calm, bucket, state, overlaps, cut>> /\ d \in Versions /\ cut \in BOOLEAN
      /\ (At(s, "put") => d = sync[s].want) /\ (At(s, "remove") => d = NoFile)
  BY SyncHas DEF Put, Remove, Done, At, MirrorOK, Versions
<1> HIDE DEF d
<1>2. r.pc = "save" /\ r.known = d /\ r.want = sync[s].want
      /\ r \in [pc : SyncSteps, want : Versions, known : Versions, failed : BOOLEAN]
  BY <1>1, SyncHas DEF SyncSteps
<1> HIDE DEF r
<1>3. ASSUME Orderly PROVE d = sync[s].want
  BY <1>1, <1>3, SyncHas DEF SyncKnows, At
<1> QED BY <1>1, <1>2, <1>3, SyncGoesOn DEF At, Orderly

LEMMA PutFailsKeeps == ASSUME MirrorInv, NEW s \in Syncs, PutFails(s) \/ RemoveFails(s) PROVE MirrorInv'
<1> DEFINE r == [sync[s] EXCEPT !.pc = "save", !.failed = TRUE]
<1>1. /\ sync[s].pc \in {"put", "remove"} /\ sync' = [sync EXCEPT ![s] = r]
      /\ UNCHANGED <<published, calm, bucket, state, overlaps>>
      /\ \/ content' \in {content, NoFile} /\ cut' = cut
         \/ content' = sync[s].want /\ cut' = TRUE
  <2>1. CASE PutFails(s)
    BY <2>1 DEF PutFails, Fail, At
  <2>2. CASE RemoveFails(s)
    BY <2>2 DEF RemoveFails, Fail, At
  <2> QED BY <2>1, <2>2
<1>4. sync[s].want \in Versions /\ content \in Versions /\ NoFile \in Versions /\ cut \in BOOLEAN
  BY SyncHas DEF MirrorOK, Versions
<1>5. /\ content' \in Versions /\ cut' \in BOOLEAN /\ (Orderly' => Orderly)
      /\ (Orderly' => content' \in {content, NoFile})
  BY <1>1, <1>4 DEF Orderly
<1>2. r.pc = "save" /\ r.known = sync[s].known /\ r.failed
      /\ r \in [pc : SyncSteps, want : Versions, known : Versions, failed : BOOLEAN]
  BY <1>1, SyncHas DEF SyncSteps
<1> HIDE DEF r
<1>3. ASSUME Orderly PROVE sync[s].known = state /\ (content # NoFile => content = state)
  BY <1>1, <1>3, SyncHas, StateTellsNow DEF SyncKnows, At
<1> QED BY <1>1, <1>2, <1>3, <1>5, SyncGoesOn

LEMMA SaveStateKeeps == ASSUME MirrorInv, NEW s \in Syncs, SaveState(s) PROVE MirrorInv'
<1>1. /\ At(s, "save") /\ EndsSync(s) /\ state' = sync[s].known
      /\ UNCHANGED <<published, calm, bucket, content, overlaps, cut>>
  BY DEF SaveState
<1>2. state' \in Versions /\ cut' \in BOOLEAN /\ (Orderly' => Orderly) /\ ~At(s, "idle") /\ ~At(s, "policy")
  BY <1>1, SyncHas DEF MirrorOK, Orderly, At
<1>3. Orderly' /\ content # NoFile => content = state'
  BY <1>1, <1>2, SyncHas DEF SyncKnows
<1> QED BY <1>1, <1>2, <1>3, EndsSyncKeeps

LEMMA ThrowKeeps == ASSUME MirrorInv, NEW s \in Syncs, Throw(s) PROVE MirrorInv'
<1>1. /\ sync[s].pc \in {"prepare", "policy", "list"} /\ EndsSync(s)
      /\ cut' = (cut \/ At(s, "policy")) /\ UNCHANGED <<published, calm, store, overlaps>>
  BY DEF Throw
<1>2. /\ ~At(s, "idle") /\ ~At(s, "save") /\ state' \in Versions /\ cut' \in BOOLEAN
      /\ Orderly' => Orderly /\ ~At(s, "policy")
      /\ state' = state /\ bucket' = bucket /\ content' = content
  BY <1>1, SyncHas DEF At, store, MirrorOK, Orderly
<1>3. Orderly' /\ content # NoFile => content = state'
  BY <1>2, StateTellsNow
<1> QED BY <1>1, <1>2, <1>3, EndsSyncKeeps

\* A process that is killed leaves the files as they are; unless it is killed
\* where that counts as cut, they still agree.
LEMMA CrashKeeps == ASSUME MirrorInv, Crash PROVE MirrorInv'
<1>1. /\ sync' = [s \in Syncs |-> NoSync] /\ UNCHANGED <<published, calm, store, overlaps>>
      /\ cut' = (cut \/ \E s \in Syncs : At(s, "policy")
                                            \/ (At(s, "save") /\ sync[s].known \notin {state, NoFile}))
  BY DEF Crash
<1>2. MirrorOK'
  BY <1>1 DEF MirrorInv, MirrorOK, store, NoSync, SyncSteps, Versions
<1> SUFFICES ASSUME Orderly' PROVE OneSync' /\ StateTells' /\ BareIsOpened' /\ \A u \in Syncs : SyncKnows(u)'
  BY <1>2 DEF MirrorInv
<1>3. Orderly /\ \A s \in Syncs : ~At(s, "policy") /\ (At(s, "save") => sync[s].known \in {state, NoFile})
  BY <1>1 DEF Orderly
<1>4. \A s \in Syncs : At(s, "idle")'
  BY <1>1 DEF NoSync, At
<1>5. StateTells'
  <2>1. ASSUME content # NoFile, NEW s \in Syncs, At(s, "save") PROVE content = state
    BY <1>3, <2>1 DEF MirrorInv, SyncKnows
  <2> QED BY <1>1, <1>3, <2>1 DEF StateTells, store, MirrorInv
<1>6. OneSync' /\ BareIsOpened'
  BY <1>1, <1>3, <1>4 DEF OneSync, BareIsOpened, store, MirrorInv
<1>7. \A u \in Syncs : SyncKnows(u)'
  BY <1>4 DEF SyncKnows, At
<1> QED BY <1>5, <1>6, <1>7

LEMMA MirrorKeeps == MirrorInv /\ [Next]_vars => MirrorInv'
<1> SUFFICES ASSUME MirrorInv, [Next]_vars PROVE MirrorInv'
  OBVIOUS
<1>1. ASSUME NEW d \in Versions, Publish(d) PROVE MirrorInv'
  BY <1>1 DEF Publish, store, MirrorInv, MirrorOK, Orderly, OneSync, StateTells, BareIsOpened, SyncKnows, At
<1>2. ASSUME NEW s \in Syncs, Sync(s) PROVE MirrorInv'
  BY <1>2, FetchKeeps, PrepareKeeps, OpenBucketKeeps, LoadStateKeeps, ListKeeps, DownloadKeeps, PutKeeps,
     PutFailsKeeps, SaveStateKeeps, ThrowKeeps DEF Sync, Transfer
<1>3. CASE Calm
  BY <1>3 DEF Calm, store, MirrorInv, MirrorOK, Orderly, OneSync, StateTells, BareIsOpened, SyncKnows, At
<1>4. CASE UNCHANGED vars
  BY <1>4 DEF vars, store, MirrorInv, MirrorOK, Orderly, OneSync, StateTells, BareIsOpened, SyncKnows, At
<1> QED BY <1>1, <1>2, <1>3, <1>4, CrashKeeps DEF Next

\* A synchronisation without errors leaves exactly the manifest it was given,
\* for any versions and synchronisations, as long as none overlapped another
\* and none was cut off where the state file cannot be trusted after
\* (document-sync.ts, syncProjectDocuments).
THEOREM MirrorLeavesManifest == Spec => SyncedIsManifest
<1>1. MirrorInv => \A s \in Syncs : SaveState(s) /\ ~sync[s].failed /\ Orderly => Served = sync[s].want
  BY DEF MirrorInv, SaveState, SyncKnows, Served, At
<1>2. MirrorInv /\ [Next]_vars =>
        [\A s \in Syncs : SaveState(s) /\ ~sync[s].failed /\ Orderly => Served = sync[s].want]_vars
  BY <1>1
<1> QED BY <1>2, MirrorStarts, MirrorKeeps, PTL DEF Spec, SyncedIsManifest
=============================================================================
