--------------------------- MODULE DocumentMirror ---------------------------
(***************************************************************************)
(* The runner's mirror of a project's public documents                     *)
(* (apps/runner/src/documents): a synchronisation fetches the manifest,    *)
(* compares it with the bucket of the local object store and with a state  *)
(* file that says which checksum was uploaded last, uploads or removes,    *)
(* and writes the file back.  The background loop runs one at a time; a    *)
(* deployment runs its own, which may overlap.  The process may be killed  *)
(* at any point (a shutdown does not wait for a synchronisation either).   *)
(*                                                                         *)
(* One path is followed: published is the version the control plane lists  *)
(* for it, if any, which changes at any time (what ProjectDocuments calls  *)
(* Manifest).  A version stands for its bytes and their checksum.          *)
(***************************************************************************)
EXTENDS Naturals

CONSTANTS
  Files,      \* versions
  Damaged,    \* versions whose stored bytes are not those that were declared
  NoFile,
  Syncs,      \* synchronisations that may be under way together
  MaxOverlaps \* bound: how often one starts while another is under way

ASSUME MirrorAssumption ==
  Damaged \subseteq Files /\ NoFile \notin Files /\ MaxOverlaps \in Nat

VARIABLES
  published, \* the version in the manifest
  bucket,    \* "absent", "bare" (created, not yet readable) or "open"
  content,   \* the version in the bucket
  state,     \* the version in the state file
  sync,      \* the synchronisations
  calm,      \* from now on no call fails and the process is not killed
  overlaps,  \* history: synchronisations started while another was under way
  cut        \* history: a change of the bucket was not followed to its end

store == <<bucket, content, state>>
vars == <<published, store, sync, calm, overlaps, cut>>

SyncSteps == {"idle", "prepare", "policy", "load", "list", "download", "put", "remove", "save"}
Versions == Files \cup {NoFile}
NoSync == [pc |-> "idle", want |-> NoFile, known |-> NoFile, failed |-> FALSE]

\* What a visitor gets under /files/.
Served == IF bucket = "open" THEN content ELSE NoFile

MirrorOK ==
  /\ published \in Versions
  /\ bucket \in {"absent", "bare", "open"}
  /\ content \in Versions /\ state \in Versions
  /\ sync \in [Syncs -> [pc : SyncSteps, want : Versions, known : Versions, failed : BOOLEAN]]
  /\ overlaps \in 0 .. MaxOverlaps
  /\ calm \in BOOLEAN /\ cut \in BOOLEAN

Init ==
  /\ published = NoFile
  /\ bucket = "absent" /\ content = NoFile /\ state = NoFile
  /\ sync = [s \in Syncs |-> NoSync]
  /\ calm = FALSE /\ overlaps = 0 /\ cut = FALSE

-----------------------------------------------------------------------------
At(s, pc) == sync[s].pc = pc
Proceeds(s, pc) == sync' = [sync EXCEPT ![s].pc = pc]
EndsSync(s) == sync' = [sync EXCEPT ![s] = NoSync]

\* An upload, a removal or the like failed: the error is collected.
Fail(s) == sync' = [sync EXCEPT ![s].pc = "save", ![s].failed = TRUE]

\* An upload or a removal was done.
Done(s, d) == sync' = [sync EXCEPT ![s].pc = "save", ![s].known = d]

Publish(d) ==
  /\ published' = d /\ d # published
  /\ UNCHANGED <<store, sync, calm, overlaps, cut>>

\* The manifest is fetched.
Fetch(s) ==
  /\ At(s, "idle")
  /\ sync' = [sync EXCEPT ![s] = [NoSync EXCEPT !.pc = "prepare", !.want = published]]
  /\ overlaps' = IF \A u \in Syncs : At(u, "idle") THEN overlaps ELSE overlaps + 1
  /\ overlaps' <= MaxOverlaps
  /\ UNCHANGED <<published, calm, store, cut>>

\* Without documents there is nothing to do unless a bucket is there; with
\* documents one is created if it is not.
Prepare(s) ==
  /\ At(s, "prepare")
  /\ \/ bucket = "absent" /\ sync[s].want = NoFile /\ EndsSync(s) /\ UNCHANGED bucket
     \/ bucket = "absent" /\ sync[s].want # NoFile /\ Proceeds(s, "policy") /\ bucket' = "bare"
     \/ bucket # "absent" /\ Proceeds(s, "load") /\ UNCHANGED bucket
  /\ UNCHANGED <<published, calm, content, state, overlaps, cut>>

\* Versioning and anonymous reads are turned on.
OpenBucket(s) ==
  /\ At(s, "policy")
  /\ bucket' = "open"
  /\ Proceeds(s, "load")
  /\ UNCHANGED <<published, calm, content, state, overlaps, cut>>

LoadState(s) ==
  /\ At(s, "load")
  /\ sync' = [sync EXCEPT ![s].pc = "list", ![s].known = state]
  /\ UNCHANGED <<published, calm, store, overlaps, cut>>

\* Mutant of planDocumentSync: what is stored is not compared.
planDocumentSync_MissingOnly(want, known) ==
  IF want # NoFile THEN IF content = NoFile THEN "download" ELSE "save"
                   ELSE IF content # NoFile THEN "remove" ELSE "save"

\* Upload what is missing or has another checksum, remove what is not listed.
planDocumentSync(want, known) ==
  IF want # NoFile THEN IF content = NoFile \/ known # want THEN "download" ELSE "save"
                   ELSE IF content # NoFile THEN "remove" ELSE "save"

List(s) ==
  /\ At(s, "list")
  /\ Proceeds(s, planDocumentSync(sync[s].want, sync[s].known))
  /\ UNCHANGED <<published, calm, store, overlaps, cut>>


\* The bytes have the size and the checksum of the manifest.
Verified(d) == d \notin Damaged

Download(s) ==
  /\ At(s, "download")
  /\ Verified(sync[s].want) /\ Proceeds(s, "put")
  /\ UNCHANGED <<published, calm, store, overlaps, cut>>

DownloadFails(s) ==
  /\ At(s, "download")
  /\ ~Verified(sync[s].want) \/ ~calm
  /\ Fail(s)
  /\ UNCHANGED <<published, calm, store, overlaps, cut>>

Put(s) ==
  /\ At(s, "put")
  /\ content' = sync[s].want
  /\ Done(s, sync[s].want)
  /\ UNCHANGED <<published, calm, bucket, state, overlaps, cut>>

\* Mutant of PutFails: the checksum is noted before the upload.
PutFails_Noted(s) ==
  /\ At(s, "put") /\ ~calm
  /\ Done(s, sync[s].want)
  /\ UNCHANGED <<published, calm, store, overlaps, cut>>

\* The upload fails, or only its answer is lost.
PutFails(s) ==
  /\ At(s, "put") /\ ~calm
  /\ Fail(s)
  /\ \/ UNCHANGED <<content, cut>>
     \/ content' = sync[s].want /\ cut' = TRUE
  /\ UNCHANGED <<published, calm, bucket, state, overlaps>>

Remove(s) ==
  /\ At(s, "remove")
  /\ content' = NoFile
  /\ Done(s, NoFile)
  /\ UNCHANGED <<published, calm, bucket, state, overlaps, cut>>

RemoveFails(s) ==
  /\ At(s, "remove") /\ ~calm
  /\ Fail(s)
  /\ content' \in {content, NoFile}
  /\ UNCHANGED <<published, calm, bucket, state, overlaps, cut>>

SaveState(s) ==
  /\ At(s, "save")
  /\ state' = sync[s].known
  /\ EndsSync(s)
  /\ UNCHANGED <<published, calm, bucket, content, overlaps, cut>>

\* The store does not answer before or while the bucket is listed: the
\* synchronisation throws.
Throw(s) ==
  /\ sync[s].pc \in {"prepare", "policy", "list"} /\ ~calm
  /\ EndsSync(s)
  /\ cut' = (cut \/ At(s, "policy"))
  /\ UNCHANGED <<published, calm, store, overlaps>>

\* The process is killed, with its synchronisations.
Crash ==
  /\ ~calm /\ \E s \in Syncs : ~At(s, "idle")
  /\ sync' = [s \in Syncs |-> NoSync]
  /\ cut' = (cut \/ \E s \in Syncs : At(s, "policy")
                                       \/ (At(s, "save") /\ sync[s].known \notin {state, NoFile}))
  /\ UNCHANGED <<published, calm, store, overlaps>>

Calm == ~calm /\ calm' = TRUE /\ UNCHANGED <<published, store, sync, overlaps, cut>>

-----------------------------------------------------------------------------
Transfer(s) ==
  \/ Download(s) \/ DownloadFails(s) \/ Put(s) \/ PutFails(s) \/ Remove(s) \/ RemoveFails(s)

Sync(s) ==
  \/ Fetch(s) \/ Prepare(s) \/ OpenBucket(s) \/ LoadState(s) \/ List(s)
  \/ Transfer(s) \/ SaveState(s) \/ Throw(s)

Next ==
  \/ \E d \in Versions : Publish(d)
  \/ \E s \in Syncs : Sync(s)
  \/ Crash \/ Calm

Spec == Init /\ [][Next]_vars

\* The background loop starts a synchronisation every minute, and one that is
\* under way goes on.
Fairness == \A s \in Syncs : WF_vars(Sync(s))

LiveSpec == Spec /\ Fairness

-----------------------------------------------------------------------------
(* Properties. *)

\* Synchronisations that did not overlap, none of them cut off.
Orderly == overlaps = 0 /\ ~cut

\* A synchronisation without errors leaves "exactly the manifest"
\* (document-sync.ts) it was given, although it trusts its state file,
\* provided that those before it were orderly.
SyncedIsManifest ==
  [][\A s \in Syncs :
       SaveState(s) /\ ~sync[s].failed /\ Orderly => Served = sync[s].want]_vars


\* Once the published version stays, it, or nothing after it was deleted,
\* made private or expired, comes to be served and stays so once calls
\* stop failing: what failures and kills before that left is made up for.
Converges ==
  \A d \in Versions \ Damaged :
    <>[](calm /\ published = d) /\ []Orderly => <>[](Served = d)
=============================================================================
