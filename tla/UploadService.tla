---------------------------- MODULE UploadService ----------------------------
(***************************************************************************)
(* The upload and retraction routes of dtcc-upload (app.py), the version   *)
(* directories they write (storage.py), the startup recovery that every    *)
(* Uvicorn worker runs before it serves (app.py, lifespan), and the ways   *)
(* all of it can stop half-way.                                            *)
(*                                                                         *)
(* An upload is a thread of a worker.  One action is one externally        *)
(* visible step of it: a catalogue transaction or a change of the file     *)
(* system.  pc names the step that comes next.  An upload is identified    *)
(* with the version id drawn for it: its upload_id and request_id are      *)
(* fresh with it.  The data transferred is abstracted to which entries of  *)
(* its directory have been completely written: every reader of an entry    *)
(* waits for commit.ready, which is written last.                          *)
(***************************************************************************)
EXTENDS Catalog

CONSTANTS
  Requests,   \* uploads a client may send: principal, dataset, content, key
  NoKey,      \* an upload without Idempotency-Key header
  Workers,    \* the Uvicorn worker processes
  NoWorker,   \* nobody: the request has not arrived
  Mortal,     \* the workers that may be killed
  Faulty      \* the steps that may raise (database locked, disk full, EIO)

ASSUME ServiceConstants ==
  /\ NoKey \notin Keys
  /\ NoWorker \notin Workers
  /\ Requests \subseteq [principal : Principals, dataset : Datasets,
                         content : Contents, key : Keys \cup {NoKey}]
  /\ Requests # {}
  /\ Mortal \subseteq Workers

VARIABLES
  pc,         \* version id -> the step its upload is about to take
  request,    \* version id -> what was asked
  home,       \* version id -> the worker whose thread runs the upload
  flags,      \* version id -> the local booleans of upload_dataset that are True
  answer,     \* version id -> the version or the error the client is told
  incoming,   \* version id -> entries of _incoming/<upload_id>, {} if absent
  final,      \* version id -> entries of datasets/<key>/<version_id>, {} if absent
  parents,    \* the datasets whose directory under datasets/ exists
  worker,     \* worker -> where its startup is
  aged,       \* uploads whose traces are older than stale_incoming_seconds
  retraction  \* retract call -> where it is

disk == <<incoming, final, parents>>
thread == <<pc, request, home, flags, answer>>
vars == <<catalogVars, disk, thread, worker, aged, retraction>>

-----------------------------------------------------------------------------
BodySteps ==
  {"record_started", "create_staging", "write_payload", "reserve", "find", "insert",
   "get_pending", "find_again", "complete_duplicate", "insert_files", "write_ready",
   "mkdir_parent", "move", "fsync_parent", "commit", "complete", "record_committed"}

CleanupSteps ==
  {"record_aborted", "remove_final", "delete_row", "release_key", "remove_staging"}

\* "idle" has not arrived, "done" has been answered, "dead" went with its worker.
Steps == BodySteps \cup CleanupSteps \cup {"idle", "done", "dead"}

Flags == {"upload_started", "pending_inserted", "finalized", "reserved_idempotency",
          "committed", "suppress_abort_event"}

Errors == {"none", "failed", "rejected", "not_owner", "key_conflict", "key_in_progress",
           "still_pending", "over_quota"}

\* What a version consists of, and the marker that it is all there.
Payload == {"manifest"} \cup Paths
Entries == Payload \cup {"dir", "ready"}

\* A version id is a uuid and no error code, and the artifacts have a directory of
\* their own, away from the marker.
ASSUME NamesDiffer ==
  /\ VersionIds \cap Errors = {}
  /\ {"dir", "ready"} \cap Payload = {}

WorkerSteps ==
  {"down", "recover", "recover_staged", "recover_move", "recover_commit",
   "clean_incoming", "clean_stale", "clean_entries", "clean_finals", "clean_remove",
   "clean_row", "reconcile", "reconcile_write", "up"}

\* todo and current: the rows or directories still to visit and the one being
\* visited; left: the entries that rmtree has listed; seen and old:
\* the reservations reconcile has read; row: the first it is going to write, for
\* which it found the version current.
WorkerState ==
  [step : WorkerSteps, todo : SUBSET VersionIds, current : VersionIds \cup {NoVersion},
   left : SUBSET Entries, seen : SUBSET (KeyIds \X Contents),
   old : SUBSET (KeyIds \X Contents), row : SUBSET (KeyIds \X Contents)]

At(step, todo, current) ==
  [step |-> step, todo |-> todo, current |-> current, left |-> {},
   seen |-> {}, old |-> {}, row |-> {}]

RetractionState ==
  [step : {"idle", "write", "record", "done", "dead"},
   version : VersionIds \cup {NoVersion}, home : Workers \cup {NoWorker}]

UploadTypeOK ==
  /\ CatalogTypeOK
  /\ pc \in [VersionIds -> Steps]
  /\ request \in [VersionIds -> Requests]
  /\ home \in [VersionIds -> Workers \cup {NoWorker}]
  /\ flags \in [VersionIds -> SUBSET Flags]
  /\ answer \in [VersionIds -> VersionIds \cup Errors]
  /\ incoming \in [VersionIds -> SUBSET Entries]
  /\ final \in [VersionIds -> SUBSET Entries]
  /\ parents \subseteq Datasets
  /\ worker \in [Workers -> WorkerState]
  /\ aged \subseteq VersionIds
  /\ retraction \in [RetractCalls -> RetractionState]

-----------------------------------------------------------------------------
KeyOf(u) == <<request[u].principal, request[u].dataset, request[u].key>>

HasKey(u) == request[u].key # NoKey

Running(u) == pc[u] \in BodySteps \cup CleanupSteps

ReleaseForgotten(fl) == "remove_staging"                             \* mutant

\* The "finally" block visits only the steps whose flag is set.
ToRelease(fl) ==
  IF "reserved_idempotency" \in fl THEN "release_key" ELSE "remove_staging"

RowForgotten(fl) == ToRelease(fl)                                    \* mutant

ToDeleteRow(fl) == IF "pending_inserted" \in fl THEN "delete_row" ELSE ToRelease(fl)

FinalForgotten(fl) == ToDeleteRow(fl)                                \* mutant

ToRemoveFinal(fl) == IF "finalized" \in fl THEN "remove_final" ELSE ToDeleteRow(fl)

ToCleanup(fl) ==
  IF "upload_started" \in fl /\ "suppress_abort_event" \notin fl
  THEN "record_aborted" ELSE ToRemoveFinal(fl)

Go(u, step) ==
  /\ pc' = [pc EXCEPT ![u] = step]
  /\ UNCHANGED <<request, home, flags, answer>>

GoSetting(u, step, fl) ==
  /\ pc' = [pc EXCEPT ![u] = step]
  /\ flags' = [flags EXCEPT ![u] = fl]
  /\ UNCHANGED <<request, home, answer>>

CleanUpAlways(u, result, fl) ==                                      \* mutant
  /\ pc' = [pc EXCEPT ![u] = ToCleanup(fl)]
  /\ flags' = [flags EXCEPT ![u] = fl]
  /\ answer' = [answer EXCEPT ![u] = result]
  /\ UNCHANGED <<request, home>>

\* The body returns or raises: the "finally" block runs unless committed.
Leave(u, result, fl) ==
  /\ pc' = [pc EXCEPT ![u] = IF "committed" \in fl THEN "done" ELSE ToCleanup(fl)]
  /\ flags' = [flags EXCEPT ![u] = fl]
  /\ answer' = [answer EXCEPT ![u] = result]
  /\ UNCHANGED <<request, home>>

OnlyThread == UNCHANGED <<catalogVars, disk, worker, aged, retraction>>
OnlyCatalog == UNCHANGED <<disk, worker, aged, retraction>>
OnlyDisk == UNCHANGED <<catalogVars, worker, aged, retraction>>

-----------------------------------------------------------------------------
\* A request that passes validation claims its dataset.  A request that does not
\* pass leaves no trace and is not modelled.
Arrive(u, w, r) ==
  /\ pc[u] = "idle"
  /\ worker[w].step = "up"
  /\ request' = [request EXCEPT ![u] = r]
  /\ home' = [home EXCEPT ![u] = w]
  /\ \/ /\ Claim(r.dataset, r.principal)
        /\ pc' = [pc EXCEPT ![u] = "record_started"]
        /\ UNCHANGED answer
     \/ /\ ClaimConflict(r.dataset, r.principal)
        /\ pc' = [pc EXCEPT ![u] = "done"]
        /\ answer' = [answer EXCEPT ![u] = "not_owner"]
        /\ UNCHANGED catalogVars
  /\ UNCHANGED <<disk, flags, worker, aged, retraction>>

RecordStarted(u) ==
  /\ pc[u] = "record_started"
  /\ RecordEvent("upload_started", u)
  /\ GoSetting(u, "create_staging", flags[u] \cup {"upload_started"})
  /\ OnlyCatalog

CreateStaging(u) ==
  /\ pc[u] = "create_staging"
  /\ incoming' = [incoming EXCEPT ![u] = {"dir"}]
  /\ Go(u, "write_payload")
  /\ UNCHANGED <<final, parents>> /\ OnlyDisk

\* write_manifest, then write_staged_file for one artifact after the other
WritePayload(u, x) ==
  /\ pc[u] = "write_payload"
  /\ x \in Payload \ incoming[u]
  /\ x = "manifest" \/ "manifest" \in incoming[u]
  /\ incoming' = [incoming EXCEPT ![u] = @ \cup {x}]
  /\ UNCHANGED <<final, parents, thread>> /\ OnlyDisk

\* A size, digest, media type or limit that does not match ends the upload.
RejectPayload(u) ==
  /\ pc[u] = "write_payload"
  /\ \E f \in Paths : f \in incoming[u]
  /\ Leave(u, "rejected", flags[u])
  /\ OnlyThread

HashPayload(u) ==
  /\ pc[u] = "write_payload"
  /\ Payload \subseteq incoming[u]
  /\ Go(u, IF HasKey(u) THEN "reserve" ELSE "find")
  /\ OnlyThread

SameHash(id, c) == idem[id].content = c                              \* mutant

Replayable(id, c) == idem[id].content = c /\ idem[id].status = "committed"

AnswerInProgress(u) == Leave(u, "key_in_progress", flags[u])

ReserveIdempotencyKey(u) ==
  LET id == KeyOf(u)
      c == request[u].content
  IN
  /\ pc[u] = "reserve"
  /\ \/ /\ ReserveKey(id, c, u)
        /\ GoSetting(u, "find", flags[u] \cup {"reserved_idempotency"})
     \/ /\ id \in DOMAIN idem
        /\ \/ /\ idem[id].content # c
              /\ Leave(u, "key_conflict", flags[u])
           \/ /\ IsReserved(id, c)
              /\ AnswerInProgress(u)
           \/ /\ Replayable(id, c)
              /\ Leave(u, idem[id].result, flags[u] \cup {"suppress_abort_event"})
        /\ UNCHANGED catalogVars
  /\ OnlyCatalog

\* The committed duplicate is answered, once the reservation says so too.
AnswerDuplicate(u, v) ==
  IF HasKey(u)
  THEN /\ answer' = [answer EXCEPT ![u] = v]
       /\ pc' = [pc EXCEPT ![u] = "complete_duplicate"]
       /\ UNCHANGED <<request, home, flags>>
  ELSE Leave(u, v, flags[u] \cup {"suppress_abort_event"})

AnyDuplicateOf(u) ==                                                 \* mutant
  {v \in DOMAIN versions : versions[v].dataset = request[u].dataset
                             /\ versions[v].content = request[u].content}

DuplicatesOf(u) == CommittedDuplicates(request[u].dataset, request[u].content)

FindDuplicate(u) ==
  /\ pc[u] = "find"
  /\ \/ DuplicatesOf(u) = {} /\ Go(u, "insert")
     \/ \E v \in DuplicatesOf(u) : AnswerDuplicate(u, v)
  /\ OnlyThread

InsertPendingVersion(u) ==
  LET r == request[u] IN
  /\ pc[u] = "insert"
  /\ \/ /\ InsertPending(u, r.dataset, r.principal, r.content)
        /\ Go(u, "get_pending")
     \/ /\ ContentTaken(r.dataset, r.content)
        /\ Go(u, "find_again")
        /\ UNCHANGED catalogVars
  /\ OnlyCatalog

\* The row is committed to the database before get_version reads it back, and
\* only then does upload_dataset set pending_inserted.
GetPendingVersion(u) ==
  /\ pc[u] = "get_pending"
  /\ GoSetting(u, "insert_files", flags[u] \cup {"pending_inserted"})
  /\ OnlyThread

FindDuplicateAgain(u) ==
  /\ pc[u] = "find_again"
  /\ \/ DuplicatesOf(u) = {} /\ Leave(u, "still_pending", flags[u])
     \/ \E v \in DuplicatesOf(u) : AnswerDuplicate(u, v)
  /\ OnlyThread

CompleteDuplicate(u) ==
  /\ pc[u] = "complete_duplicate"
  /\ CompleteKey(KeyOf(u), request[u].content, answer[u])
  /\ Leave(u, answer[u],
           (flags[u] \ {"reserved_idempotency"}) \cup {"suppress_abort_event"})
  /\ OnlyCatalog

FilesLeft(u) == {f \in Paths : <<u, f>> \notin files}

InsertFileRecord(u, f) ==
  /\ pc[u] = "insert_files"
  /\ f \in FilesLeft(u)
  /\ InsertFile(u, f)
  /\ Go(u, IF FilesLeft(u) = {f} THEN "write_ready" ELSE pc[u])
  /\ OnlyCatalog

WriteCommitReady(u) ==
  /\ pc[u] = "write_ready"
  /\ incoming' = [incoming EXCEPT ![u] = @ \cup {"ready"}]
  /\ Go(u, "mkdir_parent")
  /\ UNCHANGED <<final, parents>> /\ OnlyDisk

\* finalize: resolve(strict=True) fails when the staging directory is gone.
MakeParent(u) ==
  /\ pc[u] = "mkdir_parent"
  /\ IF incoming[u] # {}
     THEN parents' = parents \cup {request[u].dataset} /\ Go(u, "move")
     ELSE Leave(u, "failed", flags[u]) /\ UNCHANGED parents
  /\ UNCHANGED <<incoming, final>> /\ OnlyDisk

\* os.replace fails without its source, and without the parent of its target:
\* cleanup_version_dir of another upload removes an empty parent.
MoveToFinal(u) ==
  /\ pc[u] = "move"
  /\ IF incoming[u] # {} /\ request[u].dataset \in parents
     THEN /\ final' = [final EXCEPT ![u] = incoming[u]]
          /\ incoming' = [incoming EXCEPT ![u] = {}]
          /\ Go(u, "fsync_parent")
     ELSE Leave(u, "failed", flags[u]) /\ UNCHANGED <<incoming, final>>
  /\ UNCHANGED parents /\ OnlyDisk

\* finalize still has to fsync before it returns and finalized is set.
SyncParent(u) ==
  /\ pc[u] = "fsync_parent"
  /\ GoSetting(u, "commit", flags[u] \cup {"finalized"})
  /\ OnlyThread

CommitUpload(u) ==
  /\ pc[u] = "commit"
  /\ \/ /\ CommitVersion(u)
        /\ GoSetting(u, IF HasKey(u) THEN "complete" ELSE "record_committed",
                     flags[u] \cup {"committed"})
     \/ /\ ~CanCommit(u)
        /\ Leave(u, IF HasStatus(u, "pending") THEN "over_quota" ELSE "failed", flags[u])
        /\ UNCHANGED catalogVars
  /\ OnlyCatalog

CompleteIdempotencyKey(u) ==
  /\ pc[u] = "complete"
  /\ CompleteKey(KeyOf(u), request[u].content, u)
  /\ GoSetting(u, "record_committed", flags[u] \ {"reserved_idempotency"})
  /\ OnlyCatalog

RecordCommitted(u) ==
  /\ pc[u] = "record_committed"
  /\ RecordEvent("upload_committed", u)
  /\ Leave(u, u, flags[u])
  /\ OnlyCatalog

\* An exception before the step had any effect
BodyFault(u) ==
  /\ pc[u] \in Faulty \cap BodySteps
  /\ Leave(u, "failed", flags[u])
  /\ OnlyThread

-----------------------------------------------------------------------------
\* The "finally" block of an upload that did not commit.
RecordAborted(u) ==
  /\ pc[u] = "record_aborted"
  /\ RecordEvent("upload_aborted", u)
  /\ Go(u, ToRemoveFinal(flags[u]))
  /\ OnlyCatalog

\* os.scandir gives the entries in any order; the directory itself goes last.
NextEntries(entries) == IF entries = {"dir"} THEN entries ELSE entries \ {"dir"}

\* rmdir of datasets/<key> succeeds when no version is left in it.
WithoutEmptyParent(v, d) ==
  IF \A x \in VersionIds \ {v} : request[x].dataset = d => final[x] = {}
  THEN parents \ {d} ELSE parents

\* One step of cleanup_version_dir(v): an entry, or at last the parent.
RemoveVersionDir(v) ==
  IF final[v] # {}
  THEN /\ \E x \in NextEntries(final[v]) : final' = [final EXCEPT ![v] = @ \ {x}]
       /\ UNCHANGED <<incoming, parents>>
  ELSE /\ parents' = WithoutEmptyParent(v, request[v].dataset)
       /\ UNCHANGED <<incoming, final>>

RemoveFinal(u) ==
  /\ pc[u] = "remove_final"
  /\ RemoveVersionDir(u)
  /\ Go(u, IF final[u] = {} THEN ToDeleteRow(flags[u]) ELSE pc[u])
  /\ OnlyDisk

DeleteRow(u) ==
  /\ pc[u] = "delete_row"
  /\ DeletePendingVersion(u)
  /\ Go(u, ToRelease(flags[u]))
  /\ OnlyCatalog

ReleaseIdempotencyKey(u) ==
  /\ pc[u] = "release_key"
  /\ ReleaseKey(KeyOf(u), request[u].content)
  /\ Go(u, "remove_staging")
  /\ OnlyCatalog

\* One action: a directory whose upload has no row is read by nobody.
RemoveStaging(u) ==
  /\ pc[u] = "remove_staging"
  /\ incoming' = [incoming EXCEPT ![u] = {}]
  /\ Go(u, "done")
  /\ UNCHANGED <<final, parents>> /\ OnlyDisk

\* An exception of record_event is swallowed and rmtree ignores errors; one of
\* the two deletes leaves the block.
CleanupFault(u) ==
  /\ pc[u] \in Faulty \cap CleanupSteps
  /\ Go(u, CASE pc[u] = "record_aborted" -> ToRemoveFinal(flags[u])
             [] pc[u] = "remove_final" -> ToDeleteRow(flags[u])
             [] OTHER -> "done")
  /\ OnlyThread

-----------------------------------------------------------------------------
SomeEntry(entries) == entries # {}                                   \* mutant

\* commit.ready exists and names this version and its digests.
IsReady(entries) == "ready" \in entries

Enter(w, state) == worker' = [worker EXCEPT ![w] = state]

OnlyWorker == UNCHANGED <<catalogVars, disk, thread, aged, retraction>>

\* init_schema changes nothing on a file that has the tables; recover_pending
\* lists the pending rows once.
Start(w) ==
  /\ worker[w].step = "down"
  /\ Enter(w, At("recover", PendingVersions, NoVersion))
  /\ OnlyWorker

\* The marker in the final directory decides first, and the one in the staging
\* directory is looked for afterwards.
RecoverFinal(w, v) ==
  LET todo == worker[w].todo IN
  /\ worker[w].step = "recover"
  /\ v \in todo
  /\ Enter(w, At(IF IsReady(final[v]) THEN "recover_commit" ELSE "recover_staged",
                 todo \ {v}, v))
  /\ OnlyWorker

StagedForgotten(w) ==                                                \* mutant
  /\ worker[w].step = "recover_staged"
  /\ Enter(w, At("recover", worker[w].todo, worker[w].current))
  /\ OnlyWorker

RecoverStaged(w) ==
  LET me == worker[w] IN
  /\ me.step = "recover_staged"
  /\ Enter(w, At(IF IsReady(incoming[me.current]) THEN "recover_move" ELSE "recover",
                 me.todo, me.current))
  /\ OnlyWorker

\* An exception of finalize ends the startup, and with it the process.
RecoverMove(w) ==
  LET v == worker[w].current IN
  /\ worker[w].step = "recover_move"
  /\ IF incoming[v] # {}
     THEN /\ final' = [final EXCEPT ![v] = incoming[v]]
          /\ incoming' = [incoming EXCEPT ![v] = {}]
          /\ parents' = parents \cup {request[v].dataset}
          /\ Enter(w, At("recover_commit", worker[w].todo, v))
     ELSE /\ Enter(w, At("down", {}, NoVersion))
          /\ UNCHANGED disk
  /\ UNCHANGED <<catalogVars, thread, aged, retraction>>

OverQuotaRaises(w) ==                                                \* mutant
  LET me == worker[w] IN
  /\ me.step = "recover_commit"
  /\ IF CanCommit(me.current)
     THEN CommitVersion(me.current) /\ Enter(w, At("recover", me.todo, NoVersion))
     ELSE UNCHANGED catalogVars /\ Enter(w, At("down", {}, NoVersion))
  /\ UNCHANGED <<disk, thread, aged, retraction>>

\* _commit_pending: over quota, or no longer pending, is only logged.
RecoverCommit(w) ==
  LET me == worker[w] IN
  /\ me.step = "recover_commit"
  /\ IF CanCommit(me.current) THEN CommitVersion(me.current) ELSE UNCHANGED catalogVars
  /\ Enter(w, At("recover", me.todo, NoVersion))
  /\ UNCHANGED <<disk, thread, aged, retraction>>

RecoverDone(w) ==
  /\ worker[w].step = "recover" /\ worker[w].todo = {}
  /\ Enter(w, At("clean_incoming", PendingVersions, NoVersion))
  /\ OnlyWorker

PendingLeftForLater(w) ==                                            \* mutant
  /\ worker[w].step = "clean_incoming"
  /\ Enter(w, At("clean_finals", {}, NoVersion))
  /\ OnlyWorker

\* cleanup_stale_incoming lists the directories of uploads that had no row when it
\* listed the rows.
CleanIncoming(w) ==
  /\ worker[w].step = "clean_incoming"
  /\ Enter(w, At("clean_stale", {v \in aged \ worker[w].todo : incoming[v] # {}}, NoVersion))
  /\ OnlyWorker

\* A directory that is gone by now is passed over; rmtree lists the others.
CleanStale(w, v) ==
  LET todo == worker[w].todo \ {v} IN
  /\ worker[w].step = "clean_stale"
  /\ v \in worker[w].todo
  /\ Enter(w, IF incoming[v] = {} THEN At("clean_stale", todo, NoVersion)
              ELSE [At("clean_entries", todo, v) EXCEPT !.left = incoming[v]])
  /\ OnlyWorker

\* One action, for the entries of a directory without a row are read by nobody.
\* rmtree raises when an entry it listed is gone, which ends the startup, and with
\* it the process.  Two workers may fail on each other, each at an entry that the
\* other has removed, and leave the rest.
CleanEntries(w) ==
  LET me == worker[w]
      v == me.current
      others == {x \in Workers \ {w} :
                   worker[x].step = "clean_entries" /\ worker[x].current = v}
  IN
  /\ me.step = "clean_entries"
  /\ \/ /\ incoming[v] = me.left
        /\ incoming' = [incoming EXCEPT ![v] = {}]
        /\ Enter(w, At("clean_stale", me.todo, NoVersion))
     \/ /\ incoming[v] # me.left /\ UNCHANGED incoming
        /\ Enter(w, At("down", {}, NoVersion))
     \/ /\ others # {}
        /\ \E x \in NextEntries(incoming[v]) : incoming' = [incoming EXCEPT ![v] = @ \ {x}]
        /\ Enter(w, At("down", {}, NoVersion))
  /\ UNCHANGED <<catalogVars, final, parents, thread, aged, retraction>>

\* cleanup_stale_pending_finals lists the rows again.
CleanIncomingDone(w) ==
  /\ worker[w].step = "clean_stale" /\ worker[w].todo = {}
  /\ Enter(w, At("clean_finals", PendingVersions \cap aged, NoVersion))
  /\ OnlyWorker

CleanFinals(w, v) ==
  LET todo == worker[w].todo IN
  /\ worker[w].step = "clean_finals"
  /\ v \in todo
  /\ IF final[v] # {}
     THEN /\ Enter(w, At("clean_remove", todo \ {v}, v))
          /\ UNCHANGED disk
     ELSE /\ incoming' = [incoming EXCEPT ![v] = {}]
          /\ Enter(w, At("clean_row", todo \ {v}, v))
          /\ UNCHANGED <<final, parents>>
  /\ UNCHANGED <<catalogVars, thread, aged, retraction>>

CleanRemove(w) ==
  LET me == worker[w] IN
  /\ me.step = "clean_remove"
  /\ RemoveVersionDir(me.current)
  /\ Enter(w, IF final[me.current] = {} THEN At("clean_row", me.todo, me.current) ELSE me)
  /\ UNCHANGED <<catalogVars, thread, aged, retraction>>

RowWithoutFiles(w) ==                                                \* mutant
  /\ worker[w].step = "clean_row"
  /\ versions' = Drop(versions, worker[w].current)
  /\ Enter(w, At("clean_finals", worker[w].todo, NoVersion))
  /\ UNCHANGED <<datasets, files, usage, idem, events>>
  /\ UNCHANGED <<disk, thread, aged, retraction>>

CleanRow(w) ==
  LET me == worker[w] IN
  /\ me.step = "clean_row"
  /\ DeletePendingVersion(me.current)
  /\ Enter(w, At("clean_finals", me.todo, NoVersion))
  /\ UNCHANGED <<disk, thread, aged, retraction>>

ExpiredOnly == {id \in PendingKeys : idem[id].by \in aged}            \* mutant

KeysToReconcile == PendingKeys

\* The SELECT of reconcile_idempotency_keys is not part of its transaction.
ReadReservations(w) ==
  /\ worker[w].step = "clean_finals" /\ worker[w].todo = {}
  /\ Enter(w, [At("reconcile", {}, NoVersion) EXCEPT
                 !.seen = {<<id, idem[id].content>> : id \in KeysToReconcile},
                 !.old = {<<id, idem[id].content>> :
                            id \in {k \in PendingKeys : idem[k].by \in aged}}])
  /\ OnlyWorker

\* _find_committed_version_for_request_hash
FoundFor(p) ==
  LET found == CommittedDuplicates(p[1][2], p[2]) IN
  IF found = {} THEN NoVersion ELSE CHOOSE v \in found : TRUE

NeedsWrite(me, p) == FoundFor(p) # NoVersion \/ p \in me.old

\* Nor is the search for its version part of it, up to the first reservation that
\* is written: sqlite3 opens the transaction with the first UPDATE or DELETE.
FindReserved(w, p) ==
  LET me == worker[w] IN
  /\ me.step = "reconcile"
  /\ p \in me.seen
  /\ Enter(w, IF NeedsWrite(me, p)
              THEN [me EXCEPT !.step = "reconcile_write", !.seen = @ \ {p},
                              !.old = @ \ {p}, !.row = {p}, !.current = FoundFor(p)]
              ELSE [me EXCEPT !.seen = @ \ {p}])
  /\ OnlyWorker

ReconcileKeys(w) ==
  LET me == worker[w] IN
  /\ me.step = "reconcile_write"
  /\ Reconcile([p \in me.row \cup {q \in me.seen : NeedsWrite(me, q)} |->
                  IF p \in me.row THEN me.current ELSE FoundFor(p)])
  /\ Enter(w, At("up", {}, NoVersion))
  /\ UNCHANGED <<disk, thread, aged, retraction>>

ReconcileDone(w) ==
  /\ worker[w].step = "reconcile" /\ worker[w].seen = {}
  /\ Enter(w, At("up", {}, NoVersion))
  /\ OnlyWorker

-----------------------------------------------------------------------------
\* The retract route: the SELECT of retract_version is before its transaction.
Retraction(call, step) == retraction' = [retraction EXCEPT ![call].step = step]

OnlyRetraction == UNCHANGED <<disk, thread, worker, aged>>

ReadForRetraction(call, w, v) ==
  /\ retraction[call].step = "idle"
  /\ worker[w].step = "up"
  /\ IsPublished(v)
  /\ retraction' = [retraction EXCEPT ![call] =
       [step |-> IF HasStatus(v, "retracted") THEN "record" ELSE "write",
        version |-> v, home |-> w]]
  /\ UNCHANGED catalogVars /\ OnlyRetraction

WriteRetraction(call) ==
  /\ retraction[call].step = "write"
  /\ RetractVersion(retraction[call].version, call)
  /\ Retraction(call, "record") /\ OnlyRetraction

RecordRetraction(call) ==
  /\ retraction[call].step = "record"
  /\ RecordEvent("retracted", retraction[call].version)
  /\ Retraction(call, "done") /\ OnlyRetraction

-----------------------------------------------------------------------------
\* kill -9, the OOM killer, or TimeoutStopSec: the threads go with their process.
Crash(w) ==
  /\ w \in Mortal
  /\ worker[w].step # "down"
  /\ Enter(w, At("down", {}, NoVersion))
  /\ pc' = [u \in VersionIds |-> IF Running(u) /\ home[u] = w THEN "dead" ELSE pc[u]]
  /\ retraction' = [c \in RetractCalls |->
       IF retraction[c].step \in {"write", "record"} /\ retraction[c].home = w
       THEN [retraction[c] EXCEPT !.step = "dead"] ELSE retraction[c]]
  /\ UNCHANGED <<catalogVars, disk, request, home, flags, answer, aged>>

\* More than stale_incoming_seconds pass.  No running upload lasts that long.
TimePasses ==
  /\ aged' = {u \in VersionIds : pc[u] \in {"done", "dead"}}
  /\ aged' # aged
  /\ UNCHANGED <<catalogVars, disk, thread, worker, retraction>>

-----------------------------------------------------------------------------
UploadInit ==
  /\ CatalogInit
  /\ pc = [u \in VersionIds |-> "idle"]
  /\ request = [u \in VersionIds |-> CHOOSE r \in Requests : TRUE]
  /\ home = [u \in VersionIds |-> NoWorker]
  /\ flags = [u \in VersionIds |-> {}]
  /\ answer = [u \in VersionIds |-> "none"]
  /\ incoming = [u \in VersionIds |-> {}]
  /\ final = [u \in VersionIds |-> {}]
  /\ parents = {}
  /\ worker = [w \in Workers |-> At("down", {}, NoVersion)]
  /\ aged = {}
  /\ retraction = [c \in RetractCalls |->
       [step |-> "idle", version |-> NoVersion, home |-> NoWorker]]

BodyStep(u) ==
  \/ RecordStarted(u) \/ CreateStaging(u) \/ RejectPayload(u) \/ HashPayload(u)
  \/ \E x \in Payload : WritePayload(u, x)
  \/ ReserveIdempotencyKey(u) \/ FindDuplicate(u) \/ InsertPendingVersion(u)
  \/ GetPendingVersion(u) \/ FindDuplicateAgain(u) \/ CompleteDuplicate(u)
  \/ \E f \in Paths : InsertFileRecord(u, f)
  \/ WriteCommitReady(u) \/ MakeParent(u) \/ MoveToFinal(u) \/ SyncParent(u)
  \/ CommitUpload(u) \/ CompleteIdempotencyKey(u) \/ RecordCommitted(u)
  \/ BodyFault(u)

CleanupStep(u) ==
  \/ RecordAborted(u) \/ RemoveFinal(u) \/ DeleteRow(u)
  \/ ReleaseIdempotencyKey(u) \/ RemoveStaging(u)
  \/ CleanupFault(u)

UploadStep(u) == BodyStep(u) \/ CleanupStep(u)

StartupStep(w) ==
  \/ Start(w)
  \/ \E v \in VersionIds : RecoverFinal(w, v) \/ CleanStale(w, v) \/ CleanFinals(w, v)
  \/ RecoverStaged(w) \/ RecoverMove(w) \/ RecoverCommit(w) \/ RecoverDone(w)
  \/ CleanIncoming(w) \/ CleanEntries(w) \/ CleanIncomingDone(w)
  \/ CleanRemove(w) \/ CleanRow(w)
  \/ ReadReservations(w) \/ ReconcileKeys(w) \/ ReconcileDone(w)
  \/ \E p \in worker[w].seen : FindReserved(w, p)

RetractStep(call) ==
  \/ \E w \in Workers, v \in VersionIds : ReadForRetraction(call, w, v)
  \/ WriteRetraction(call) \/ RecordRetraction(call)

UploadNext ==
  \/ \E u \in VersionIds :
       \/ \E w \in Workers, r \in Requests : Arrive(u, w, r)
       \/ UploadStep(u)
  \/ \E w \in Workers : StartupStep(w) \/ Crash(w)
  \/ \E call \in RetractCalls : RetractStep(call)
  \/ TimePasses

UploadSpec == UploadInit /\ [][UploadNext]_vars

\* The thread pool runs every request to its end, uvicorn starts a worker that is
\* down, and the clock goes on.  Nobody has to send a request, and no kill is due.
Fairness ==
  /\ \A u \in VersionIds : WF_vars(UploadStep(u))
  /\ \A w \in Workers : WF_vars(StartupStep(w))
  /\ WF_vars(TimePasses)

FairSpec == UploadSpec /\ Fairness

-----------------------------------------------------------------------------
\* Every published version has its manifest, all its artifacts and all its file
\* records: "The service preserves the original manifest/context and model bytes"
\* (README.md:6-8).
CommittedComplete ==
  \A v \in VersionIds :
    IsPublished(v) => Payload \subseteq final[v] /\ \A f \in Paths : <<v, f>> \in files

\* A client that is told a version is told one that is published, with the bytes
\* it sent, also when the answer is a duplicate's or a replay.
AnswerNamesPublished ==
  \A u \in VersionIds :
    answer[u] \in VersionIds =>
      /\ IsPublished(answer[u])
      /\ versions[answer[u]].dataset = request[u].dataset
      /\ versions[answer[u]].content = request[u].content

\* Two uploads of the same bytes to the same dataset are never told two versions,
\* however they interleave and whichever keys they carry.
SameRequestSameVersion ==
  \A u, w \in VersionIds :
    /\ answer[u] \in VersionIds /\ answer[w] \in VersionIds
    /\ request[u].dataset = request[w].dataset
    /\ request[u].content = request[w].content
    => answer[u] = answer[w]

\* A completed reservation replays a version that is published in the dataset of
\* the key, uploaded by the key's principal, with the reserved content.
KeyResultPublished ==
  \A id \in DOMAIN idem :
    idem[id].status = "committed" =>
      /\ IsPublished(idem[id].result)
      /\ versions[idem[id].result].uploader = id[1]
      /\ versions[idem[id].result].dataset = id[2]
      /\ versions[idem[id].result].content = idem[id].content

\* A reservation that answers "already in progress" belongs to an upload that is
\* still running, or that died with its worker (app.py:704).
PendingKeyIsHeld ==
  \A id \in PendingKeys : pc[idem[id].by] # "done"

\* An upload that ended without publishing leaves nothing: no row, no file record,
\* no directory, no reservation.
FailedUploadLeavesNothing ==
  \A u \in VersionIds :
    pc[u] = "done" /\ ~IsPublished(u) =>
      /\ u \notin DOMAIN versions
      /\ \A f \in Paths : <<u, f>> \notin files
      /\ incoming[u] = {} /\ final[u] = {}
      /\ \A id \in PendingKeys : idem[id].by # u

\* A version directory always has a row that recovery or a reader can find it by.
NoOrphanFinal == \A v \in VersionIds : final[v] # {} => v \in DOMAIN versions

\* The audit log does not call an upload aborted that readers can see.
AbortedNeverPublished ==
  \A v \in VersionIds : <<"upload_aborted", v>> \in events => ~IsPublished(v)

Recovered(w) == worker[w].step \notin
  {"down", "recover", "recover_staged", "recover_move", "recover_commit"}

\* Once recovery has run, an upload that died after commit.ready was written is
\* committed, or does not fit the quota.
RecoveryComplete ==
  \A w \in Workers, v \in VersionIds :
    Recovered(w) /\ pc[v] = "dead" /\ HasStatus(v, "pending")
      => "ready" \notin incoming[v] \cup final[v] \/ ~FitsQuota(v)

\* Once a worker serves, the reservation of an upload that died after its commit,
\* or that recovery committed, has the version it made.
RecoveredKeysComplete ==
  \A w \in Workers, id \in PendingKeys :
    worker[w].step = "up" /\ pc[idem[id].by] = "dead"
      => ~HasStatus(idem[id].by, "committed")

\* The retraction that a reader of the audit data sees is the first one, whoever
\* retracts again.
AuditPreserved ==
  [][\A v \in VersionIds :
       HasStatus(v, "retracted") =>
         versions'[v].retraction = versions[v].retraction]_vars

\* The answer "Duplicate upload is still pending" (app.py:750) is given while an
\* upload of the same bytes is pending.
StillPendingIsPending ==
  [][\A u \in VersionIds :
       answer'[u] = "still_pending" /\ answer[u] # "still_pending" =>
         \E v \in PendingVersions :
           /\ versions[v].dataset = request[u].dataset
           /\ versions[v].content = request[u].content]_vars

-----------------------------------------------------------------------------
\* A worker that is not killed serves in the end, although it fails to start when
\* another worker that starts beside it takes a directory it was about to move or
\* to remove: no leftover makes one startup after the other fail.
StartupsSucceed == \A w \in Workers \ Mortal : <>[](worker[w].step = "up")

\* An upload has ended, and left a published version or nothing at all.
Settled(u) ==
  /\ pc[u] \in {"done", "dead"}
  /\ ~HasStatus(u, "pending")
  /\ incoming[u] = {}
  /\ final[u] # {} => IsPublished(u)
  /\ \A id \in PendingKeys : idem[id].by # u

\* No worker starts while an upload runs in another.
StartsApart ==
  \A w \in Workers, u \in VersionIds :
    Running(u) /\ home[u] # w => worker[w].step \in {"down", "up"}

\* Every request is answered, unless its worker is killed, and in the end no trace
\* of an upload that failed or died is left, provided that some worker goes down and
\* comes up again and again, beside the startups of others, but not beside uploads.
LeftoversGo ==
  []StartsApart /\ (\E w \in Workers : []<>(worker[w].step = "down") /\ []<>(worker[w].step = "up"))
    => \A u \in VersionIds : pc[u] # "idle" ~> Settled(u)

-----------------------------------------------------------------------------
\* The refinement of Publication: what a reader can get at, and no more.
Shelf ==
  [v \in {w \in VersionIds : IsPublished(w)} |->
     [dataset |-> versions[v].dataset, content |-> versions[v].content,
      readable |-> {x \in Payload : x \in final[v] /\ (x \in Paths => <<v, x>> \in files)},
      withdrawn |-> versions[v].status = "retracted"]]

Offered == [d \in Datasets |-> IF d \in DOMAIN datasets THEN datasets[d].latest ELSE NoVersion]

P == INSTANCE Publication WITH shelf <- Shelf, latest <- Offered

\* One worker's uploads, retractions, crashes and recoveries look to readers like
\* the steps of Publication.
PublicationSpec == P!Spec

=============================================================================
