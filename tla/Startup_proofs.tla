--------------------------- MODULE Startup_proofs ---------------------------
(* Theorems about the startup recovery of UploadService when one worker runs, *)
(* whatever raises and whenever the worker is killed, in its uploads or in    *)
(* the recovery itself.  Two workers are another matter: see the run          *)
(* LiveUploadRecovered.                                                       *)
EXTENDS UploadService_proofs

\* uvicorn --workers 1
SoleWorker == \A a, b \in Workers : a = b

-----------------------------------------------------------------------------
(* What a step of one upload leaves alone *)

AllFiles(v) == \A f \in Paths : <<v, f>> \in files

\* A version that does not fit the quota will not fit it later.
LEMMA QuotaStays ==
  ASSUME CatalogTypeOK, [CatalogNext]_catalogVars, NEW x \in DOMAIN versions, Frame(x), FitsQuota(x)'
  PROVE  FitsQuota(x)
<1> DEFINE p == versions[x].uploader
           c == versions[x].content
<1>1. /\ p \in Principals /\ TotalBytes[c] \in Nat /\ usage[p] \in UsageRow
      /\ versions'[x].uploader = p /\ versions'[x].content = c
  BY CatalogConstants DEF CatalogTypeOK, IsTable, VersionRow, Frame
<1>2. CASE usage' = usage
  BY <1>1, <1>2 DEF FitsQuota
<1>3. ASSUME NEW v \in VersionIds, versions[v].uploader \in Principals,
             TotalBytes[versions[v].content] \in Nat,
             usage' = [usage EXCEPT ![versions[v].uploader] =
                         [bytes |-> @.bytes + TotalBytes[versions[v].content],
                          count |-> @.count + 1]]
      PROVE  FitsQuota(x)
  <2>1. usage'[p].bytes >= usage[p].bytes /\ usage'[p].bytes \in Nat
    BY <1>1, <1>3 DEF UsageRow, CatalogTypeOK
  <2>2. usage'[p].bytes + TotalBytes[c] <= Quota
    BY <1>1 DEF FitsQuota
  <2>3. usage[p].bytes + TotalBytes[c] <= Quota
    BY <1>1, <2>1, <2>2, CatalogConstants DEF UsageRow
  <2> QED BY <2>3 DEF FitsQuota
<1> QED BY <1>2, <1>3, UsageStep DEF catalogVars

\* No row, file record or directory of version x changes, except that it may no
\* longer fit the quota, or that it is retracted.
Kept(x) ==
  /\ incoming'[x] = incoming[x] /\ final'[x] = final[x]
  /\ x \in DOMAIN versions' <=> x \in DOMAIN versions
  /\ HasStatus(x, "pending")' <=> HasStatus(x, "pending")
  /\ IsPublished(x)' <=> IsPublished(x)
  /\ HasStatus(x, "committed")' => HasStatus(x, "committed")
  /\ x \in DOMAIN versions /\ FitsQuota(x)' => FitsQuota(x)
  /\ \A f \in Paths : <<x, f>> \in files' <=> <<x, f>> \in files

\* Nor does its thread move.
Untouched(x) == Same(x) /\ Kept(x)

\* The rows of other versions, when an upload writes to the catalogue
LEMMA OtherRows ==
  ASSUME CatalogTypeOK, NEW u \in VersionIds, ThreadWrites(u), NEW x \in VersionIds \ {u}
  PROVE  /\ x \in DOMAIN versions' <=> x \in DOMAIN versions
         /\ versions'[x] = versions[x] \/ x \notin DOMAIN versions
         /\ \A f \in Paths : <<x, f>> \in files' <=> <<x, f>> \in files
<1>1. CASE UNCHANGED <<versions, files>>
  BY <1>1
<1>2. ASSUME NEW f \in Paths, InsertFile(u, f)
      PROVE  versions' = versions /\ \A g \in Paths : <<x, g>> \in files' <=> <<x, g>> \in files
  BY <1>2 DEF InsertFile
<1>3. CASE InsertPending(u, request[u].dataset, request[u].principal, request[u].content)
  BY <1>3 DEF InsertPending, NewVersion, Put
<1>4. CASE CommitVersion(u)
  BY <1>4 DEF CommitVersion, CatalogTypeOK, IsTable
<1>5. CASE DeletePendingVersion(u)
  BY <1>5 DEF DeletePendingVersion, Drop, Restrict
<1>6. CASE \E f \in Paths : InsertFile(u, f)
  BY <1>2, <1>6
<1> QED BY <1>1, <1>3, <1>4, <1>5, <1>6 DEF ThreadWrites, catalogVars, RecordEvent, ReserveKey,
           CompleteKey, ReleaseKey

\* The directories of other versions, when an upload changes its own
LEMMA OtherDirectories ==
  ASSUME DiskTypeOK, NEW u \in VersionIds, ThreadMovesDisk(u), NEW x \in VersionIds \ {u}
  PROVE  incoming'[x] = incoming[x] /\ final'[x] = final[x]
<1>1. CASE RemoveVersionDir(u)
  BY <1>1 DEF RemoveVersionDir, DiskTypeOK
<1>2. CASE ~RemoveVersionDir(u)
  BY <1>2 DEF ThreadMovesDisk, DiskTypeOK, disk
<1> QED BY <1>1, <1>2

\* An upload does nothing to another one.
LEMMA OtherUploads ==
  ASSUME ServiceInv, NEW u \in VersionIds, UploadStep(u), NEW x \in VersionIds \ {u}
  PROVE  Untouched(x)
<1> USE DEF ServiceInv
<1>0. /\ CatalogTypeOK /\ ThreadTypeOK /\ DiskTypeOK
      /\ ThreadWrites(u) /\ [CatalogNext]_catalogVars
  BY StepWrites, ThreadWritesAllowed DEF UploadTypeOK, ThreadTypeOK, DiskTypeOK
<1>1. Same(x)
  BY <1>0, ThreadMoves DEF Moves
<1>2. incoming'[x] = incoming[x] /\ final'[x] = final[x]
  BY <1>0, StepMovesDisk, OtherDirectories
<1>3. /\ x \in DOMAIN versions' <=> x \in DOMAIN versions
      /\ versions'[x] = versions[x] \/ x \notin DOMAIN versions
      /\ \A f \in Paths : <<x, f>> \in files' <=> <<x, f>> \in files
  BY <1>0, OtherRows
<1>4. x \in DOMAIN versions /\ FitsQuota(x)' => FitsQuota(x)
  BY <1>0, <1>3, QuotaStays DEF Frame
<1> QED BY <1>1, <1>2, <1>3, <1>4 DEF Untouched, Kept, HasStatus, IsPublished

\* A version keeps all it has when the row, the usage and the directories do.
LEMMA SameKept ==
  ASSUME NEW x, UNCHANGED <<versions, files, usage>>,
         incoming'[x] = incoming[x], final'[x] = final[x]
  PROVE  Kept(x)
BY DEF Kept, HasStatus, IsPublished, FitsQuota

\* A retraction touches published versions only, and nothing of them but their
\* status.
LEMMA RetractionKeeps ==
  ASSUME ServiceInv, NEW call \in RetractCalls, RetractStep(call)
  PROVE  UNCHANGED <<worker, idem, aged>> /\ \A x \in VersionIds : Untouched(x)
<1>1. UNCHANGED <<disk, thread, worker, aged, files, usage, idem>>
  BY DEF RetractStep, ReadForRetraction, WriteRetraction, RecordRetraction, OnlyRetraction,
         catalogVars, RetractVersion, RecordEvent
<1> SUFFICES ASSUME NEW x \in VersionIds PROVE Untouched(x)
  BY <1>1
<1>2. Same(x)
  BY <1>1 DEF thread, Same
<1>3. CASE UNCHANGED versions
  BY <1>1, <1>2, <1>3, SameKept DEF disk, Untouched
<1>4. CASE WriteRetraction(call)
  <2> DEFINE v == retraction[call].version
  <2>1. v \in DOMAIN versions /\ IsPublished(v)
    BY <1>4 DEF ServiceInv, RetractionsOK, WriteRetraction, IsPublished, HasStatus
  <2>2. versions' = [versions EXCEPT ![v].status = "retracted", ![v].retraction = call]
    BY <1>4 DEF WriteRetraction, RetractVersion
  <2>3. CASE x # v
    <3>1. /\ DOMAIN versions' = DOMAIN versions
          /\ x \in DOMAIN versions => versions'[x] = versions[x]
      BY <2>2, <2>3 DEF ServiceInv, UploadTypeOK, CatalogTypeOK, IsTable
    <3> QED BY <1>1, <1>2, <3>1 DEF disk, Untouched, Kept, HasStatus, IsPublished, FitsQuota
  <2>4. CASE x = v
    <3>1. /\ DOMAIN versions' = DOMAIN versions /\ versions'[x].status = "retracted"
          /\ versions'[x].uploader = versions[x].uploader
          /\ versions'[x].content = versions[x].content
      BY <2>1, <2>2, <2>4 DEF ServiceInv, UploadTypeOK, CatalogTypeOK, IsTable, VersionRow
    <3> QED BY <1>1, <1>2, <2>1, <2>4, <3>1 DEF disk, Untouched, Kept, HasStatus, IsPublished, FitsQuota
  <2> QED BY <2>3, <2>4
<1>5. UNCHANGED versions \/ WriteRetraction(call)
  BY DEF RetractStep, ReadForRetraction, RecordRetraction, RecordEvent, catalogVars
<1> QED BY <1>3, <1>4, <1>5

-----------------------------------------------------------------------------
(* What a startup does to one version *)

StartupChange(w, x) ==
  \/ Kept(x)
  \/ /\ worker[w].step = "recover_move" /\ x = worker[w].current
     /\ final'[x] = incoming[x] /\ incoming'[x] = {} /\ UNCHANGED catalogVars
  \/ /\ worker[w].step = "recover_commit" /\ x = worker[w].current
     /\ CommitVersion(x) /\ UNCHANGED disk
  \/ /\ worker[w].step \in {"clean_entries", "clean_finals"}
     /\ final'[x] = final[x] /\ incoming'[x] = {} /\ UNCHANGED catalogVars
  \/ /\ worker[w].step = "clean_remove" /\ x = worker[w].current
     /\ final'[x] \subseteq final[x] /\ incoming'[x] = incoming[x] /\ UNCHANGED catalogVars
  \/ /\ worker[w].step = "clean_row" /\ x = worker[w].current
     /\ DeletePendingVersion(x) /\ UNCHANGED disk

\* Recovery works on one row or one directory at a time, and finishes it when no
\* other worker interferes.
LEMMA StartupChanges ==
  ASSUME SoleWorker, ServiceInv, NEW w \in Workers, StartupStep(w), NEW x \in VersionIds
  PROVE  StartupChange(w, x)
<1> USE DEF ServiceInv
<1>0. /\ CatalogTypeOK /\ DiskTypeOK
      /\ worker[w].step \in InHand => worker[w].current \in VersionIds
      /\ [CatalogNext]_catalogVars
  BY ServiceWrites DEF UploadTypeOK, DiskTypeOK, WorkersOK, UploadNext
<1>a. ASSUME UNCHANGED catalogVars, incoming'[x] = incoming[x], final'[x] = final[x]
      PROVE  Kept(x)
  BY <1>a, SameKept DEF catalogVars
<1>1. CASE UNCHANGED <<catalogVars, disk>>
  BY <1>1, <1>a DEF disk, StartupChange
<1>2. ASSUME NEW v \in VersionIds, CleanFinals(w, v) PROVE StartupChange(w, x)
  <2>1. /\ UNCHANGED catalogVars
        /\ UNCHANGED disk \/ (incoming' = [incoming EXCEPT ![v] = {}] /\ UNCHANGED final)
    BY <1>2 DEF CleanFinals
  <2>2. incoming'[x] = incoming[x] \/ incoming'[x] = {}
    BY <1>0, <2>1 DEF disk, DiskTypeOK
  <2> QED BY <1>2, <1>a, <2>1, <2>2 DEF disk, StartupChange, CleanFinals
<1>3. CASE RecoverMove(w)
  <2> DEFINE v == worker[w].current
  <2>1. v \in VersionIds /\ UNCHANGED catalogVars
    BY <1>0, <1>3 DEF RecoverMove, InHand
  <2>2. \/ UNCHANGED disk
        \/ final' = [final EXCEPT ![v] = incoming[v]] /\ incoming' = [incoming EXCEPT ![v] = {}]
    BY <1>3 DEF RecoverMove
  <2>3. CASE x = v
    BY <1>0, <1>3, <1>a, <2>1, <2>2, <2>3 DEF disk, DiskTypeOK, StartupChange, RecoverMove
  <2>4. CASE x # v
    BY <1>0, <1>a, <2>1, <2>2, <2>4 DEF disk, DiskTypeOK, StartupChange
  <2> QED BY <2>3, <2>4
<1>4. CASE CleanEntries(w)
  <2>1. UNCHANGED <<catalogVars, final>>
    BY <1>4 DEF CleanEntries
  <2>2. \/ UNCHANGED incoming
        \/ incoming' = [incoming EXCEPT ![worker[w].current] = {}]
    BY <1>4 DEF CleanEntries, SoleWorker
  <2>3. incoming'[x] = incoming[x] \/ incoming'[x] = {}
    BY <1>0, <2>2 DEF DiskTypeOK
  <2> QED BY <1>4, <1>a, <2>1, <2>3 DEF StartupChange, CleanEntries
<1>5. CASE CleanRemove(w)
  <2> DEFINE v == worker[w].current
  <2>1. v \in VersionIds /\ UNCHANGED catalogVars /\ RemoveVersionDir(v)
    BY <1>0, <1>5 DEF CleanRemove, InHand
  <2>2. incoming' = incoming
    BY <2>1 DEF RemoveVersionDir
  <2>3. final' = final \/ \E e : final' = [final EXCEPT ![v] = @ \ {e}]
    BY <2>1 DEF RemoveVersionDir
  <2>4. final'[x] = final[x] \/ (x = v /\ final'[x] \subseteq final[x])
    BY <1>0, <2>1, <2>3 DEF DiskTypeOK
  <2> QED BY <1>5, <1>a, <2>1, <2>2, <2>4 DEF StartupChange, CleanRemove
<1>6. ASSUME x \in DOMAIN versions' <=> x \in DOMAIN versions,
             versions'[x] = versions[x] \/ x \notin DOMAIN versions,
             \A f \in Paths : <<x, f>> \in files' <=> <<x, f>> \in files,
             UNCHANGED disk
      PROVE  Kept(x)
  <2>1. x \in DOMAIN versions /\ FitsQuota(x)' => FitsQuota(x)
    BY <1>0, <1>6, QuotaStays DEF Frame
  <2> QED BY <1>6, <2>1 DEF Kept, HasStatus, IsPublished, disk
<1>7. CASE RecoverCommit(w)
  <2> DEFINE v == worker[w].current
  <2>1. UNCHANGED disk /\ (UNCHANGED catalogVars \/ CommitVersion(v)) /\ worker[w].step = "recover_commit"
    BY <1>7 DEF RecoverCommit
  <2>2. CASE CommitVersion(v) /\ x # v
    <3>1. versions' = [versions EXCEPT ![v].status = "committed"] /\ files' = files
      BY <2>2 DEF CommitVersion
    <3>2. /\ DOMAIN versions' = DOMAIN versions
          /\ x \in DOMAIN versions => versions'[x] = versions[x]
      BY <1>0, <2>2, <3>1 DEF CatalogTypeOK, IsTable
    <3> QED BY <1>6, <2>1, <3>1, <3>2 DEF StartupChange
  <2> QED BY <1>1, <2>1, <2>2 DEF StartupChange
<1>8. CASE CleanRow(w)
  <2> DEFINE v == worker[w].current
  <2>1. UNCHANGED disk /\ DeletePendingVersion(v) /\ worker[w].step = "clean_row"
    BY <1>8 DEF CleanRow
  <2>2. CASE x # v
    BY <1>6, <2>1, <2>2 DEF StartupChange, DeletePendingVersion, Drop, Restrict
  <2> QED BY <2>1, <2>2 DEF StartupChange
<1>9. CASE ReconcileKeys(w)
  BY <1>9, SameKept DEF ReconcileKeys, Reconcile, Written, disk, StartupChange
<1>10. \/ UNCHANGED <<catalogVars, disk>> \/ (\E v \in VersionIds : CleanFinals(w, v))
       \/ RecoverMove(w) \/ CleanEntries(w) \/ CleanRemove(w) \/ RecoverCommit(w)
       \/ CleanRow(w) \/ ReconcileKeys(w)
  BY DEF StartupStep, Start, RecoverFinal, RecoverStaged, RecoverDone, CleanIncoming, CleanStale,
         CleanIncomingDone, ReadReservations, FindReserved, ReconcileDone, OnlyWorker
<1> QED BY <1>1, <1>2, <1>3, <1>4, <1>5, <1>7, <1>8, <1>9, <1>10

-----------------------------------------------------------------------------
(* No thread outlives its worker *)

RunsUp ==
  \A u \in VersionIds : Running(u) => home[u] \in Workers /\ worker[home[u]].step = "up"

\* Only a running thread moves, and it does not die of its own step.
LEMMA StepRuns ==
  ASSUME ThreadTypeOK, NEW u \in VersionIds, UploadStep(u)
  PROVE  Running(u) /\ pc'[u] # "dead"
<1> USE DEF ThreadTypeOK
<1>1. Running(u)
  BY DEF UploadStep, BodyStep, CleanupStep, RecordStarted, CreateStaging, RejectPayload,
         HashPayload, WritePayload, ReserveIdempotencyKey, FindDuplicate, InsertPendingVersion,
         GetPendingVersion, FindDuplicateAgain, CompleteDuplicate, InsertFileRecord,
         WriteCommitReady, MakeParent, MoveToFinal, SyncParent, CommitUpload,
         CompleteIdempotencyKey, RecordCommitted, BodyFault, RecordAborted, RemoveFinal,
         DeleteRow, ReleaseIdempotencyKey, RemoveStaging, CleanupFault,
         Running, BodySteps, CleanupSteps
<1> SUFFICES pc'[u] # "dead"
  BY <1>1
<1>2. pc[u] # "dead"
  BY <1>1 DEF Running, BodySteps, CleanupSteps
<1>3. ASSUME NEW s, Go(u, s), s # "dead" PROVE pc'[u] # "dead"
  BY <1>3 DEF Go
<1>4. ASSUME NEW s, NEW fl, GoSetting(u, s, fl), s # "dead" PROVE pc'[u] # "dead"
  BY <1>4 DEF GoSetting
<1>5. ASSUME NEW r, NEW fl, Leave(u, r, fl) PROVE pc'[u] # "dead"
  <2>1. pc'[u] = IF "committed" \in fl THEN "done" ELSE ToCleanup(fl)
    BY <1>5 DEF Leave
  <2> QED BY <2>1, CleanupBegins DEF CleanupSteps
<1>6. ASSUME NEW v, AnswerDuplicate(u, v) PROVE pc'[u] # "dead"
  BY <1>5, <1>6 DEF AnswerDuplicate
<1>7. CASE CleanupStep(u)
  <2>1. \E s \in CleanupSteps \cup {"done"} : Go(u, s)
    BY <1>7, CleanupBegins DEF CleanupStep, RecordAborted, RemoveFinal, DeleteRow, CleanupSteps,
       ReleaseIdempotencyKey, RemoveStaging, CleanupFault
  <2> QED BY <1>3, <2>1 DEF CleanupSteps
<1>8. CASE BodyStep(u)
  <2>1. CASE \E x \in Payload : WritePayload(u, x)
    BY <1>2, <2>1 DEF WritePayload, thread
  <2>2. CASE \E f \in Paths : InsertFileRecord(u, f)
    BY <1>2, <1>3, <2>2 DEF InsertFileRecord
  <2>3. CASE \/ CreateStaging(u) \/ WriteCommitReady(u) \/ HashPayload(u) \/ InsertPendingVersion(u)
    BY <1>3, <2>3 DEF CreateStaging, WriteCommitReady, HashPayload, InsertPendingVersion
  <2>4. CASE \/ RecordStarted(u) \/ GetPendingVersion(u) \/ SyncParent(u) \/ CompleteIdempotencyKey(u)
    BY <1>4, <2>4 DEF RecordStarted, GetPendingVersion, SyncParent, CompleteIdempotencyKey
  <2>5. CASE RejectPayload(u) \/ CompleteDuplicate(u) \/ RecordCommitted(u) \/ BodyFault(u)
    BY <1>5, <2>5 DEF RejectPayload, CompleteDuplicate, RecordCommitted, BodyFault
  <2>6. CASE MakeParent(u) \/ MoveToFinal(u)
    BY <1>3, <1>5, <2>6 DEF MakeParent, MoveToFinal
  <2>7. CASE ReserveIdempotencyKey(u)
    BY <1>4, <1>5, <2>7 DEF ReserveIdempotencyKey, AnswerInProgress
  <2>8. CASE FindDuplicate(u) \/ FindDuplicateAgain(u)
    BY <1>3, <1>5, <1>6, <2>8 DEF FindDuplicate, FindDuplicateAgain
  <2>9. CASE CommitUpload(u)
    BY <1>4, <1>5, <2>9 DEF CommitUpload
  <2> QED
    BY <1>8, <2>1, <2>2, <2>3, <2>4, <2>5, <2>6, <2>7, <2>8, <2>9 DEF BodyStep
<1> QED BY <1>7, <1>8 DEF UploadStep

\* Recovery is over before a worker serves.
LEMMA StartupIsNotUp ==
  ASSUME NEW w, StartupStep(w) PROVE worker[w].step # "up"
BY DEF StartupStep, Start, RecoverFinal, CleanFinals, RecoverStaged, RecoverMove, RecoverCommit,
       RecoverDone, CleanIncoming, CleanStale, CleanEntries, CleanIncomingDone, CleanRemove,
       CleanRow, ReadReservations, FindReserved, ReconcileKeys, ReconcileDone

\* Threads run in workers that are up.
LEMMA RunsUpStep ==
  ASSUME ServiceInv, RunsUp, [UploadNext]_vars
  PROVE  RunsUp'
<1> USE DEF ServiceInv
<1>0. ThreadTypeOK /\ CatalogTypeOK /\ UploadTypeOK /\ worker \in [Workers -> WorkerState]
  BY DEF UploadTypeOK, ThreadTypeOK
<1> SUFFICES ASSUME NEW x \in VersionIds, Running(x)'
             PROVE  home'[x] \in Workers /\ worker'[home'[x]].step = "up"
  BY DEF RunsUp
<1>1. ASSUME Same(x), UNCHANGED worker
      PROVE  home'[x] \in Workers /\ worker'[home'[x]].step = "up"
  BY <1>1 DEF Same, RunsUp, Running
<1>2. ASSUME NEW u \in VersionIds, UploadStep(u)
      PROVE  home'[x] \in Workers /\ worker'[home'[x]].step = "up"
  <2>1. UNCHANGED worker /\ home'[u] = home[u] /\ (x # u => Same(x))
    BY <1>0, <1>2, ThreadMoves, StepFrame DEF Moves
  <2>2. Running(u)
    BY <1>0, <1>2, StepRuns
  <2> QED BY <1>1, <2>1, <2>2 DEF RunsUp
<1>3. ASSUME NEW u \in VersionIds, NEW w \in Workers, NEW r \in Requests, Arrive(u, w, r)
      PROVE  home'[x] \in Workers /\ worker'[home'[x]].step = "up"
  <2>1. UNCHANGED worker /\ worker[w].step = "up" /\ home'[u] = w /\ (x # u => Same(x))
    BY <1>0, <1>3, ArriveMoves
  <2> QED BY <1>1, <2>1
<1>4. ASSUME NEW w \in Workers, StartupStep(w)
      PROVE  home'[x] \in Workers /\ worker'[home'[x]].step = "up"
  <2>1. UNCHANGED thread /\ \E state : worker' = [worker EXCEPT ![w] = state]
    BY <1>0, <1>4, StartupMoves
  <2>2. worker[w].step # "up"
    BY <1>4, StartupIsNotUp
  <2> QED BY <1>0, <2>1, <2>2 DEF thread, RunsUp, Running
<1>5. ASSUME NEW w \in Workers, Crash(w)
      PROVE  home'[x] \in Workers /\ worker'[home'[x]].step = "up"
  <2>1. /\ worker' = [worker EXCEPT ![w] = At("down", {}, NoVersion)]
        /\ home'[x] = home[x]
        /\ pc'[x] = IF Running(x) /\ home[x] = w THEN "dead" ELSE pc[x]
    BY <1>0, <1>5, CrashMoves
  <2>2. Running(x) /\ home[x] # w
    BY <2>1 DEF Running, BodySteps, CleanupSteps
  <2> QED BY <1>0, <2>1, <2>2 DEF RunsUp
<1>6. CASE \/ \E call \in RetractCalls : RetractStep(call)
           \/ TimePasses \/ UNCHANGED vars
  BY <1>1, <1>6, RetractionKeeps DEF TimePasses, vars, thread, Same, Untouched
<1> QED BY <1>2, <1>3, <1>4, <1>5, <1>6 DEF UploadNext

-----------------------------------------------------------------------------
(* What recovery knows of the rows *)

Visiting == {"recover", "recover_staged", "recover_move", "recover_commit"}
Listing == {"clean_stale", "clean_entries"}
Sweeping == {"clean_incoming", "clean_finals", "clean_remove", "clean_row"}
Reconciling == {"reconcile", "reconcile_write"}

\* There is nothing for recovery to commit.
Unrecoverable(v) == "ready" \notin incoming[v] \cup final[v] \/ ~FitsQuota(v)

\* The rows still to visit and the one in hand are pending, and what recovery saw
\* of the one in hand is still so.
HandOK(w) ==
  LET me == worker[w] IN
  /\ me.step \in Visiting \cup Sweeping => me.todo \subseteq PendingVersions
  /\ me.step \in InHand => me.current \in PendingVersions \ me.todo
  /\ me.step = "recover_staged" => "ready" \notin final[me.current]
  /\ me.step = "recover_move" => "ready" \in incoming[me.current]
  /\ me.step = "recover_commit" => "ready" \in final[me.current]
  /\ me.step = "clean_row" => final[me.current] = {}

\* What recovery has visited cannot be recovered, and is not later either.
RowsOK(w) ==
  LET me == worker[w] IN
  /\ me.step \in Visiting =>
       \A v \in PendingVersions \ me.todo :
         Unrecoverable(v) \/ (me.step \in InHand /\ v = me.current)
  /\ me.step \in Sweeping \cup Listing \cup Reconciling =>
       \A v \in PendingVersions : Unrecoverable(v)
  /\ me.step = "up" => \A v \in PendingVersions : pc[v] = "dead" => Unrecoverable(v)

\* The upload that made reservation id is not committed.
NotFor(id) == ~HasStatus(idem[id].by, "committed")

\* The reservations that recovery has still to look at are all that are pending and
\* have a version, and what it leaves pending has none.
KeysOK(w) ==
  LET me == worker[w] IN
  /\ me.step \in Reconciling =>
       \A id \in PendingKeys : <<id, idem[id].content>> \in me.seen \cup me.row \/ NotFor(id)
  /\ me.step = "reconcile" => me.row = {}
  /\ me.step = "up" =>
       \A id \in PendingKeys :
         pc[idem[id].by] = "dead" => NotFor(id)

RecoveryInv ==
  /\ RunsUp
  /\ \A w \in Workers : HandOK(w) /\ RowsOK(w) /\ KeysOK(w)

\* The pending rows during a startup: none is new, only the one in hand goes, and
\* what cannot be recovered stays so.
LEMMA StartupRows ==
  ASSUME SoleWorker, ServiceInv, NEW w \in Workers, StartupStep(w), NEW x \in VersionIds
  PROVE  /\ HasStatus(x, "pending")' =>
              /\ HasStatus(x, "pending")
              /\ Unrecoverable(x) =>
                   Unrecoverable(x)' \/ (worker[w].step = "recover_move" /\ x = worker[w].current)
         /\ HasStatus(x, "pending") =>
              \/ HasStatus(x, "pending")'
              \/ worker[w].step \in {"recover_commit", "clean_row"} /\ x = worker[w].current
<1> DEFINE Goal == /\ HasStatus(x, "pending")' =>
                        /\ HasStatus(x, "pending")
                        /\ Unrecoverable(x) =>
                             Unrecoverable(x)' \/ (worker[w].step = "recover_move" /\ x = worker[w].current)
                   /\ HasStatus(x, "pending") =>
                        \/ HasStatus(x, "pending")'
                        \/ worker[w].step \in {"recover_commit", "clean_row"} /\ x = worker[w].current
<1> SUFFICES Goal
  OBVIOUS
<1>1. CASE Kept(x)
  BY <1>1 DEF Kept, Unrecoverable, HasStatus
<1>2. CASE UNCHANGED catalogVars /\ \/ worker[w].step = "recover_move" /\ x = worker[w].current
                                    \/ /\ incoming'[x] \subseteq incoming[x]
                                       /\ final'[x] \subseteq final[x]
  BY <1>2 DEF catalogVars, HasStatus, FitsQuota, Unrecoverable
<1>3. CASE CommitVersion(x) /\ worker[w].step = "recover_commit" /\ x = worker[w].current
  <2>1. versions' = [versions EXCEPT ![x].status = "committed"] /\ HasStatus(x, "pending")
    BY <1>3 DEF CommitVersion, CanCommit
  <2>2. ~HasStatus(x, "pending")'
    BY <2>1 DEF ServiceInv, UploadTypeOK, CatalogTypeOK, IsTable, VersionRow, HasStatus
  <2> QED BY <1>3, <2>1, <2>2
<1>4. CASE DeletePendingVersion(x) /\ worker[w].step = "clean_row" /\ x = worker[w].current
  <2>1. ~HasStatus(x, "pending")'
    BY <1>4 DEF DeletePendingVersion, Removable, HasStatus, Drop, Restrict
  <2> QED BY <1>4, <2>1
<1> HIDE DEF Goal
<1> QED BY <1>1, <1>2, <1>3, <1>4, StartupChanges DEF StartupChange

\* Each step of a startup keeps HandOK and RowsOK.
LEMMA StartupKnows ==
  ASSUME SoleWorker, ServiceInv, NEW w \in Workers, HandOK(w), RowsOK(w), StartupStep(w)
  PROVE  HandOK(w)' /\ RowsOK(w)'
<1> DEFINE me == worker[w]
           Goal == HandOK(w)' /\ RowsOK(w)'
<1> SUFFICES Goal
  OBVIOUS
<1>0. /\ worker \in [Workers -> WorkerState] /\ PendingVersions \subseteq VersionIds
      /\ CatalogTypeOK /\ DiskTypeOK
  BY DEF ServiceInv, UploadTypeOK, CatalogTypeOK, IsTable, PendingVersions, DiskTypeOK
<1>1. /\ \A x \in PendingVersions' :
           /\ x \in PendingVersions
           /\ Unrecoverable(x) => Unrecoverable(x)' \/ (me.step = "recover_move" /\ x = me.current)
      /\ \A x \in PendingVersions :
           x \in PendingVersions' \/ (me.step \in {"recover_commit", "clean_row"} /\ x = me.current)
  <2>1. \A x : /\ HasStatus(x, "pending") <=> x \in PendingVersions
               /\ HasStatus(x, "pending")' <=> x \in PendingVersions'
    BY DEF HasStatus, PendingVersions
  <2>2. PendingVersions' \subseteq VersionIds
    BY ServiceStep DEF UploadNext, ServiceInv, UploadTypeOK, CatalogTypeOK, IsTable, PendingVersions
  <2> QED BY <1>0, <2>1, <2>2, StartupRows
<1>a. ASSUME NEW step, NEW todo, NEW current, Enter(w, At(step, todo, current)),
             step # "reconcile_write",
             /\ step \in Visiting \cup Sweeping => todo \subseteq PendingVersions'
             /\ step \in InHand => current \in PendingVersions' \ todo
             /\ step = "recover_staged" => "ready" \notin final'[current]
             /\ step = "recover_move" => "ready" \in incoming'[current]
             /\ step = "recover_commit" => "ready" \in final'[current]
             /\ step = "clean_row" => final'[current] = {},
             /\ step \in Visiting =>
                  \A v \in PendingVersions' \ todo :
                    Unrecoverable(v)' \/ (step \in InHand /\ v = current)
             /\ step \in Sweeping \cup Listing \cup {"reconcile", "up"} =>
                  \A v \in PendingVersions' : Unrecoverable(v)'
      PROVE  Goal
  <2>1. PICK now : now = worker'[w]
    OBVIOUS
  <2>2. now.step = step /\ now.todo = todo /\ now.current = current
    BY <1>0, <1>a, <2>1 DEF Enter, At
  <2> QED BY <1>a, <2>1, <2>2 DEF HandOK, RowsOK, Sweeping, Reconciling
<1> HIDE DEF Goal
<1> USE DEF HandOK, RowsOK, Visiting, Sweeping, Listing, Reconciling, InHand
<1>2. CASE Start(w)
  <2>1. PendingVersions' = PendingVersions
    BY <1>2 DEF Start, OnlyWorker, catalogVars, PendingVersions
  <2> QED BY <1>2, <1>a, <2>1 DEF Start
<1>3. ASSUME NEW v \in VersionIds, RecoverFinal(w, v) PROVE Goal
  <2>1. /\ PendingVersions' = PendingVersions /\ final' = final /\ me.step = "recover" /\ v \in me.todo
    BY <1>3 DEF RecoverFinal, OnlyWorker, catalogVars, disk, PendingVersions
  <2>2. CASE "ready" \in final[v]
    BY <1>1, <1>3, <1>a, <2>1, <2>2 DEF RecoverFinal, IsReady
  <2>3. CASE "ready" \notin final[v]
    BY <1>1, <1>3, <1>a, <2>1, <2>3 DEF RecoverFinal, IsReady
  <2> QED BY <2>2, <2>3
<1>4. CASE RecoverStaged(w)
  <2>1. /\ PendingVersions' = PendingVersions /\ final' = final /\ incoming' = incoming
        /\ me.step = "recover_staged"
    BY <1>4 DEF RecoverStaged, OnlyWorker, catalogVars, disk, PendingVersions
  <2>2. CASE "ready" \in incoming[me.current]
    BY <1>1, <1>4, <1>a, <2>1, <2>2 DEF RecoverStaged, IsReady
  <2>3. CASE "ready" \notin incoming[me.current]
    <3>1. PICK v : v = me.current
      OBVIOUS
    <3>2. Unrecoverable(v)' /\ Enter(w, At("recover", me.todo, v))
      BY <1>4, <2>1, <2>3, <3>1 DEF Unrecoverable, RecoverStaged, IsReady
    <3> QED BY <1>1, <1>a, <2>1, <3>1, <3>2
  <2> QED BY <2>2, <2>3
<1>5. CASE RecoverMove(w)
  <2>1. me.step = "recover_move" /\ "ready" \in incoming[me.current] /\ me.current \in VersionIds
    BY <1>0, <1>5 DEF RecoverMove
  <2>2. /\ final'[me.current] = incoming[me.current]
        /\ Enter(w, At("recover_commit", me.todo, me.current))
    BY <1>0, <1>5, <2>1 DEF RecoverMove, DiskTypeOK
  <2> QED BY <1>1, <1>a, <2>1, <2>2
<1>6. CASE RecoverCommit(w)
  <2>1. me.step = "recover_commit" /\ Enter(w, At("recover", me.todo, NoVersion))
    BY <1>6 DEF RecoverCommit
  <2>2. PICK v : v = me.current
    OBVIOUS
  <2>3. v \in PendingVersions' => Unrecoverable(v)'
    <3>1. CASE CanCommit(v)
      <4>1. versions' = [versions EXCEPT ![v].status = "committed"] /\ v \in DOMAIN versions
        BY <1>6, <2>2, <3>1 DEF RecoverCommit, CommitVersion, CanCommit, HasStatus
      <4> QED BY <1>0, <4>1 DEF PendingVersions, CatalogTypeOK, IsTable, VersionRow
    <3>2. CASE ~CanCommit(v)
      <4>1. UNCHANGED catalogVars
        BY <1>6, <2>2, <3>2 DEF RecoverCommit
      <4> QED BY <3>2, <4>1 DEF catalogVars, CanCommit, HasStatus, PendingVersions, Unrecoverable,
                                FitsQuota
    <3> QED BY <3>1, <3>2
  <2> QED BY <1>1, <1>a, <2>1, <2>2, <2>3
<1>7. CASE RecoverDone(w)
  <2>1. /\ PendingVersions' = PendingVersions /\ me.step = "recover" /\ me.todo = {}
        /\ Enter(w, At("clean_incoming", PendingVersions, NoVersion))
    BY <1>7 DEF RecoverDone, OnlyWorker, catalogVars, PendingVersions
  <2> QED BY <1>1, <1>a, <2>1
<1>8. CASE CleanIncoming(w)
  <2>1. me.step = "clean_incoming"
        /\ Enter(w, At("clean_stale", {v \in aged \ me.todo : incoming[v] # {}}, NoVersion))
    BY <1>8 DEF CleanIncoming
  <2> QED BY <1>1, <1>a, <2>1
<1>9. ASSUME NEW v \in VersionIds, CleanFinals(w, v) PROVE Goal
  <2>1. /\ PendingVersions' = PendingVersions /\ me.step = "clean_finals" /\ v \in me.todo
    BY <1>9 DEF CleanFinals, catalogVars, PendingVersions
  <2>2. CASE final[v] # {}
    BY <1>1, <1>9, <1>a, <2>1, <2>2 DEF CleanFinals
  <2>3. CASE final[v] = {}
    BY <1>1, <1>9, <1>a, <2>1, <2>3 DEF CleanFinals
  <2> QED BY <2>2, <2>3
<1>10. CASE CleanRemove(w)
  <2>1. /\ PendingVersions' = PendingVersions /\ me.step = "clean_remove"
    BY <1>10 DEF CleanRemove, catalogVars, PendingVersions
  <2>2. CASE final[me.current] = {}
    <3>1. /\ final' = final
          /\ Enter(w, At("clean_row", me.todo, me.current))
      BY <1>10, <2>2 DEF CleanRemove, RemoveVersionDir
    <3> QED BY <1>1, <1>a, <2>1, <2>2, <3>1
  <2>3. CASE final[me.current] # {}
    <3>1. worker'[w] = me
      BY <1>0, <1>10, <2>3 DEF CleanRemove, Enter
    <3>2. PICK now : now = worker'[w]
      OBVIOUS
    <3>3. now = me
      BY <3>1, <3>2
    <3> QED BY <1>1, <2>1, <3>2, <3>3 DEF Goal
  <2> QED BY <2>2, <2>3
<1>11. CASE CleanRow(w)
  <2>1. me.step = "clean_row" /\ Enter(w, At("clean_finals", me.todo, NoVersion))
    BY <1>11 DEF CleanRow
  <2> QED BY <1>1, <1>a, <2>1
<1>12. CASE ReadReservations(w)
  <2>1. me.step = "clean_finals" /\ worker'[w].step = "reconcile"
    BY <1>0, <1>12 DEF ReadReservations, Enter, At
  <2>2. PICK now : now = worker'[w]
    OBVIOUS
  <2> QED BY <1>1, <2>1, <2>2 DEF Goal
<1>13. CASE ReconcileKeys(w)
  <2>1. me.step = "reconcile_write" /\ Enter(w, At("up", {}, NoVersion))
    BY <1>13 DEF ReconcileKeys
  <2> QED BY <1>1, <1>a, <2>1
<1>14. CASE ReconcileDone(w)
  <2>1. me.step = "reconcile" /\ Enter(w, At("up", {}, NoVersion))
    BY <1>14 DEF ReconcileDone
  <2> QED BY <1>1, <1>a, <2>1
<1>15. ASSUME NEW p, FindReserved(w, p) PROVE Goal
  <2>1. me.step = "reconcile" /\ worker'[w].step \in Reconciling
    BY <1>0, <1>15 DEF FindReserved, Enter, WorkerState
  <2>2. PICK now : now = worker'[w]
    OBVIOUS
  <2> QED BY <1>1, <2>1, <2>2 DEF Goal
<1>16. ASSUME NEW v \in VersionIds, CleanStale(w, v) PROVE Goal
  <2>1. me.step = "clean_stale" /\ worker'[w].step \in Listing
    BY <1>0, <1>16 DEF CleanStale, Enter, At
  <2>2. PICK now : now = worker'[w]
    OBVIOUS
  <2> QED BY <1>1, <2>1, <2>2 DEF Goal
<1>17. CASE CleanEntries(w)
  <2>1. me.step = "clean_entries"
        /\ \/ Enter(w, At("clean_stale", me.todo, NoVersion))
           \/ Enter(w, At("down", {}, NoVersion))
    BY <1>17 DEF CleanEntries
  <2> QED BY <1>1, <1>a, <2>1
<1>18. CASE CleanIncomingDone(w)
  <2>1. /\ PendingVersions' = PendingVersions /\ me.step = "clean_stale"
        /\ Enter(w, At("clean_finals", PendingVersions \cap aged, NoVersion))
    BY <1>18 DEF CleanIncomingDone, OnlyWorker, catalogVars, PendingVersions
  <2> QED BY <1>1, <1>a, <2>1
<1> QED
  BY <1>2, <1>3, <1>4, <1>5, <1>6, <1>7, <1>8, <1>9, <1>10, <1>11, <1>12, <1>13, <1>14, <1>15,
     <1>16, <1>17, <1>18 DEF StartupStep

\* The startup ends with the reservations, and reads them just before.
LEMMA KeysComeLast ==
  ASSUME UploadTypeOK, NEW w \in Workers, StartupStep(w)
  PROVE  \/ worker'[w].step \notin Reconciling \cup {"up"}
         \/ worker'[w].step = "reconcile" /\ ReadReservations(w)
         \/ \E p \in worker[w].seen : FindReserved(w, p)
         \/ worker'[w].step = "up" /\ (ReconcileKeys(w) \/ ReconcileDone(w))
<1>0. worker \in [Workers -> WorkerState]
  BY DEF UploadTypeOK
<1> USE DEF Reconciling
<1>1. CASE ReadReservations(w)
  <2>1. PICK seen, old :
          worker'[w] = [At("reconcile", {}, NoVersion) EXCEPT !.seen = seen, !.old = old]
    BY <1>0, <1>1 DEF ReadReservations, Enter
  <2> QED BY <1>1, <2>1 DEF At
<1>2. CASE ReconcileKeys(w) \/ ReconcileDone(w)
  BY <1>0, <1>2 DEF ReconcileKeys, ReconcileDone, Enter, At
<1>3. CASE \E p \in worker[w].seen : FindReserved(w, p)
  BY <1>3
<1>4. CASE CleanRemove(w)
  BY <1>0, <1>4 DEF CleanRemove, Enter, At
<1>5. CASE \E v \in VersionIds : RecoverFinal(w, v) \/ CleanFinals(w, v)
  BY <1>0, <1>5 DEF RecoverFinal, CleanFinals, Enter, At
<1>6. CASE RecoverStaged(w) \/ RecoverMove(w)
  BY <1>0, <1>6 DEF RecoverStaged, RecoverMove, Enter, At
<1>7. CASE \E v \in VersionIds : CleanStale(w, v)
  BY <1>0, <1>7 DEF CleanStale, Enter, At
<1>8. CASE CleanEntries(w) \/ CleanIncomingDone(w)
  BY <1>0, <1>8 DEF CleanEntries, CleanIncomingDone, Enter, At
<1>9. CASE \/ Start(w) \/ RecoverCommit(w) \/ RecoverDone(w) \/ CleanIncoming(w) \/ CleanRow(w)
  BY <1>0, <1>9 DEF Start, RecoverCommit, RecoverDone, CleanIncoming, CleanRow, Enter, At
<1> QED BY <1>1, <1>2, <1>3, <1>4, <1>5, <1>6, <1>7, <1>8, <1>9 DEF StartupStep

\* The version of a reservation is a duplicate of what the reservation asks for.
LEMMA NoneFound ==
  ASSUME ServiceInv, NEW id \in PendingKeys, FoundFor(<<id, idem[id].content>>) = NoVersion
  PROVE  NotFor(id)
<1> DEFINE u == idem[id].by
           duplicates == CommittedDuplicates(id[2], idem[id].content)
<1> USE DEF ServiceInv
<1>1. duplicates = {}
  <2>1. duplicates \subseteq VersionIds
    BY DEF CommittedDuplicates, CommittedOf, UploadTypeOK, CatalogTypeOK, IsTable
  <2> HIDE DEF duplicates
  <2>2. FoundFor(<<id, idem[id].content>>) =
          IF duplicates = {} THEN NoVersion ELSE CHOOSE v \in duplicates : TRUE
    BY DEF FoundFor, duplicates
  <2> QED BY <2>1, <2>2, CatalogConstants
<1>2. KeyOK(id) /\ idem[id].status = "pending"
  BY DEF PendingKeys
<1>3. id[2] = request[u].dataset /\ idem[id].content = request[u].content
  BY <1>2 DEF KeyOK, KeyOf
<1> QED BY <1>1, <1>3 DEF NotFor, HasStatus, RowOK, CommittedDuplicates, CommittedOf

\* After reconcile_idempotency_keys no reservation whose upload is committed is
\* pending.
LEMMA StartupReconciles ==
  ASSUME ServiceInv, NEW w \in Workers, KeysOK(w), StartupStep(w)
  PROVE  KeysOK(w)'
<1> USE DEF ServiceInv
<1> DEFINE me == worker[w]
           Pair(id) == <<id, idem[id].content>>
<1>0. worker \in [Workers -> WorkerState] /\ UploadTypeOK
  BY DEF UploadTypeOK
<1>a. PICK now : now = worker'[w]
  OBVIOUS
<1>1. CASE now.step \notin Reconciling \cup {"up"}
  BY <1>a, <1>1 DEF KeysOK, Reconciling
<1>b. ASSUME UNCHANGED catalogVars
      PROVE  /\ PendingKeys' = PendingKeys /\ idem' = idem
             /\ \A id \in PendingKeys : NotFor(id)' <=> NotFor(id)
  BY <1>b DEF catalogVars, PendingKeys, NotFor, HasStatus
<1>2. CASE now.step = "reconcile" /\ ReadReservations(w)
  <2>1. now.seen = {Pair(id) : id \in PendingKeys} /\ now.row = {}
    BY <1>0, <1>a, <1>2 DEF ReadReservations, Enter, At, KeysToReconcile
  <2>2. UNCHANGED catalogVars
    BY <1>2 DEF ReadReservations, OnlyWorker
  <2> QED BY <1>a, <1>b, <1>2, <2>1, <2>2 DEF KeysOK, Reconciling
<1>3. ASSUME NEW p \in me.seen, FindReserved(w, p) PROVE KeysOK(w)'
  <2>1. UNCHANGED catalogVars /\ me.step = "reconcile" /\ me.row = {}
    BY <1>3 DEF FindReserved, OnlyWorker, KeysOK
  <2>2. \A id \in PendingKeys : Pair(id) \in me.seen \/ NotFor(id)
    BY <2>1 DEF KeysOK, Reconciling
  <2>3. CASE NeedsWrite(me, p)
    <3>1. now.step = "reconcile_write" /\ now.seen = me.seen \ {p} /\ now.row = {p}
      BY <1>0, <1>3, <1>a, <2>3 DEF FindReserved, Enter, WorkerState
    <3> QED BY <1>a, <1>b, <2>1, <2>2, <3>1 DEF KeysOK, Reconciling
  <2>4. CASE ~NeedsWrite(me, p)
    <3>1. now.step = "reconcile" /\ now.seen = me.seen \ {p} /\ now.row = {}
      BY <1>0, <1>3, <1>a, <2>1, <2>4 DEF FindReserved, Enter, WorkerState
    <3>2. \A id \in PendingKeys : Pair(id) = p => NotFor(id)
      BY <2>4, NoneFound DEF NeedsWrite
    <3> QED BY <1>a, <1>b, <2>1, <2>2, <3>1, <3>2 DEF KeysOK, Reconciling
  <2> QED BY <2>3, <2>4
<1>4. CASE now.step = "up" /\ ReconcileDone(w)
  <2>1. UNCHANGED catalogVars /\ me.step = "reconcile" /\ me.seen = {}
    BY <1>4 DEF ReconcileDone, OnlyWorker
  <2> QED BY <1>4, <1>a, <1>b, <2>1 DEF KeysOK, Reconciling
<1>5. CASE now.step = "up" /\ ReconcileKeys(w)
  <2> DEFINE written == me.row \cup {q \in me.seen : NeedsWrite(me, q)}
  <2>1. PICK found : /\ DOMAIN found = written
                     /\ Reconcile(found) /\ versions' = versions
    BY <1>5 DEF ReconcileKeys, Reconcile, Written
  <2>2. \A id \in PendingKeys : Pair(id) \notin written => NotFor(id)
    BY <1>5, NoneFound DEF ReconcileKeys, KeysOK, Reconciling, NeedsWrite
  <2> HIDE DEF written
  <2> DEFINE still == {id \in PendingKeys : Pair(id) \in DOMAIN found}
             gone  == {id \in still : found[Pair(id)] = NoVersion}
  <2>3. idem' = [id \in DOMAIN idem \ gone |->
                   IF id \in still THEN Completed(idem[id], found[Pair(id)]) ELSE idem[id]]
    BY <2>1 DEF Reconcile, Written
  <2>4. ASSUME NEW id \in PendingKeys' PROVE idem'[id] = idem[id] /\ NotFor(id)
    <3>1. id \in DOMAIN idem \ gone /\ idem'[id].status = "pending"
      <4> HIDE DEF gone, still
      <4> QED BY <2>3, <2>4 DEF PendingKeys
    <3>2. idem[id] \in KeyRow
      BY <3>1 DEF UploadTypeOK, CatalogTypeOK, IsTable
    <3>3. id \notin still
      <4> SUFFICES ASSUME id \in still PROVE FALSE
        OBVIOUS
      <4>1. PICK v : idem'[id] = Completed(idem[id], v)
        <5> HIDE DEF gone, still
        <5> QED BY <2>3, <3>1
      <4> QED BY <3>1, <3>2, <4>1 DEF Completed, KeyRow
    <3>4. idem'[id] = idem[id]
      <4> HIDE DEF gone, still
      <4> QED BY <2>3, <3>1, <3>3
    <3> QED BY <2>1, <2>2, <3>1, <3>3, <3>4 DEF PendingKeys
  <2>5. \A id \in PendingKeys' : NotFor(id)'
    BY <2>1, <2>4 DEF NotFor, HasStatus
  <2> QED BY <1>5, <1>a, <2>5 DEF KeysOK, Reconciling
<1> QED BY <1>0, <1>a, <1>1, <1>2, <1>3, <1>4, <1>5, KeysComeLast

\* While the worker serves, what recovery left behind is not touched.
LEMMA ServingKeepsRows ==
  ASSUME ServiceInv, NEW w \in Workers, worker[w].step = "up", UNCHANGED worker,
         RowsOK(w), KeysOK(w), [UploadNext]_vars,
         \A x \in VersionIds : pc'[x] = "dead" => Untouched(x),
         \A u \in VersionIds : UploadStep(u) => pc'[u] # "dead"
  PROVE  HandOK(w)' /\ RowsOK(w)' /\ KeysOK(w)'
<1> USE DEF ServiceInv
<1>1. PICK now : now = worker[w]
  OBVIOUS
<1>2. now.step = "up" /\ now = worker'[w]
  BY <1>1
<1>3. HandOK(w)'
  BY <1>2 DEF HandOK, Visiting, Sweeping, InHand
<1>4. CatalogTypeOK /\ CatalogTypeOK'
  BY ServiceStep DEF UploadTypeOK
<1>5. RowsOK(w)'
  <2>1. ASSUME NEW v \in PendingVersions', pc'[v] = "dead" PROVE Unrecoverable(v)'
    <3>1. v \in VersionIds /\ HasStatus(v, "pending")'
      BY <1>4, <2>1 DEF PendingVersions, HasStatus, CatalogTypeOK, IsTable
    <3>2. Untouched(v)
      BY <2>1, <3>1
    <3>3. HasStatus(v, "pending") /\ pc[v] = "dead"
      BY <2>1, <3>1, <3>2 DEF Untouched, Same, Kept
    <3>4. Unrecoverable(v)
      BY <3>3 DEF RowsOK, PendingVersions, HasStatus
    <3> QED BY <3>2, <3>3, <3>4 DEF Untouched, Kept, Unrecoverable, HasStatus
  <2> QED BY <1>2, <2>1 DEF RowsOK, Visiting, Sweeping, Listing, Reconciling
<1>6. KeysOK(w)'
  <2>1. ASSUME NEW id \in DOMAIN idem', idem'[id].status = "pending",
               NEW x, x = idem'[id].by, pc'[x] = "dead"
        PROVE  ~HasStatus(x, "committed")'
    <3>1. x \in VersionIds
      BY <1>4, <2>1 DEF CatalogTypeOK, IsTable, KeyRow
    <3>2. ~\E u \in VersionIds : UploadStep(u) /\ KeyNew(u, id)
      BY <2>1 DEF KeyNew
    <3>3. id \in DOMAIN idem /\ idem'[id] = idem[id]
      <4>1. ASSUME NEW v, id \in PendingKeys, idem'[id] = Completed(idem[id], v) PROVE FALSE
        BY <1>4, <2>1, <4>1 DEF Completed, PendingKeys, CatalogTypeOK, IsTable, KeyRow
      <4> QED BY <3>2, <4>1, KeysChange DEF KeyChange
    <3>4. Untouched(x)
      BY <2>1, <3>1
    <3>5. id \in PendingKeys /\ x = idem[id].by /\ pc[x] = "dead"
      BY <2>1, <3>1, <3>3, <3>4 DEF PendingKeys, Untouched, Same
    <3>6. ~HasStatus(x, "committed")
      BY <3>5 DEF KeysOK, NotFor
    <3> QED BY <3>4, <3>6 DEF Untouched, Kept
  <2> QED BY <1>2, <2>1 DEF KeysOK, PendingKeys, NotFor, HasStatus, Reconciling
<1> QED BY <1>3, <1>5, <1>6

\* Retractions and the clock do not concern recovery.
LEMMA QuietKeepsRows ==
  ASSUME ServiceInv, ServiceInv', NEW w \in Workers, UNCHANGED <<worker, idem>>,
         HandOK(w), RowsOK(w), KeysOK(w),
         \A x \in VersionIds : Untouched(x)
  PROVE  HandOK(w)' /\ RowsOK(w)' /\ KeysOK(w)'
<1>1. PICK now : now = worker[w]
  OBVIOUS
<1>2. now = worker'[w]
  BY <1>1
<1>3. /\ CatalogTypeOK /\ CatalogTypeOK'
      /\ now.step \in InHand => now.current \in VersionIds
  BY <1>1 DEF ServiceInv, UploadTypeOK, WorkersOK
<1>4. /\ PendingVersions \subseteq VersionIds
      /\ PendingVersions' = PendingVersions
  BY <1>3 DEF Untouched, Kept, HasStatus, PendingVersions, CatalogTypeOK, IsTable
<1>5. \A v \in VersionIds :
        /\ final'[v] = final[v] /\ incoming'[v] = incoming[v] /\ pc'[v] = pc[v]
        /\ HasStatus(v, "committed")' => HasStatus(v, "committed")
  BY DEF Untouched, Kept, Same
<1>6. \A v \in PendingVersions : Unrecoverable(v) => Unrecoverable(v)'
  BY <1>4 DEF Untouched, Kept, Unrecoverable, PendingVersions
<1>7. HandOK(w)'
  BY <1>1, <1>2, <1>3, <1>4, <1>5 DEF HandOK, InHand
<1>8. RowsOK(w)'
  BY <1>1, <1>2, <1>4, <1>5, <1>6 DEF RowsOK
<1>9. KeysOK(w)'
  <2>1. PendingKeys' = PendingKeys /\ idem' = idem
    BY DEF PendingKeys
  <2>2. \A id \in PendingKeys : idem[id].by \in VersionIds
    BY <1>3 DEF CatalogTypeOK, IsTable, KeyRow, PendingKeys
  <2>3. ASSUME NEW id \in PendingKeys, NEW x, x = idem[id].by, NotFor(id) PROVE NotFor(id)'
    <3>1. ~HasStatus(x, "committed")'
      BY <1>5, <2>2, <2>3 DEF NotFor
    <3> QED BY <2>1, <2>3, <3>1 DEF NotFor, HasStatus
  <2>4. ASSUME NEW id \in PendingKeys, now.step = "up", pc'[idem[id].by] = "dead" PROVE NotFor(id)
    BY <1>1, <1>5, <2>2, <2>4 DEF KeysOK
  <2>5. /\ now.step = "reconcile" => now.row = {}
        /\ now.step \in Reconciling =>
             \A id \in PendingKeys : <<id, idem[id].content>> \in now.seen \cup now.row \/ NotFor(id)
    BY <1>1 DEF KeysOK
  <2> QED BY <1>2, <2>1, <2>3, <2>4, <2>5 DEF KeysOK
<1> QED BY <1>7, <1>8, <1>9

\* RecoveryInv is inductive when one worker runs: nobody uploads while it starts.
LEMMA RecoveryStep ==
  ASSUME SoleWorker, ServiceInv, RecoveryInv, [UploadNext]_vars
  PROVE  RecoveryInv'
<1>0. /\ CatalogTypeOK /\ ThreadTypeOK /\ UploadTypeOK /\ ServiceInv'
      /\ worker \in [Workers -> WorkerState]
  BY ServiceStep DEF ServiceInv, UploadTypeOK, ThreadTypeOK
<1>1. RunsUp'
  BY RunsUpStep DEF RecoveryInv
<1> SUFFICES ASSUME NEW w \in Workers PROVE HandOK(w)' /\ RowsOK(w)' /\ KeysOK(w)'
  BY <1>1 DEF RecoveryInv
<1> DEFINE Goal == HandOK(w)' /\ RowsOK(w)' /\ KeysOK(w)'
<1> SUFFICES Goal
  OBVIOUS
<1>2. HandOK(w) /\ RowsOK(w) /\ KeysOK(w) /\ RunsUp
  BY DEF RecoveryInv
<1> HIDE DEF Goal
<1>3. \A u \in VersionIds : UploadStep(u) => pc'[u] # "dead"
  BY <1>0, StepRuns
<1>4. ASSUME worker[w].step = "up", UNCHANGED worker,
             \A x \in VersionIds : pc'[x] = "dead" => Untouched(x)
      PROVE  Goal
  BY <1>2, <1>3, <1>4, ServingKeepsRows DEF Goal
<1>5. ASSUME NEW u \in VersionIds, UploadStep(u) PROVE Goal
  <2>1. worker[w].step = "up"
    BY <1>0, <1>2, <1>5, StepRuns DEF RunsUp, SoleWorker
  <2>2. UNCHANGED worker
    BY <1>5, StepFrame
  <2>3. ASSUME NEW x \in VersionIds, pc'[x] = "dead" PROVE Untouched(x)
    BY <1>3, <1>5, <2>3, OtherUploads
  <2> QED BY <1>4, <2>1, <2>2, <2>3
<1>6. ASSUME NEW u \in VersionIds, NEW a \in Workers, NEW r \in Requests, Arrive(u, a, r)
      PROVE  Goal
  <2>1. /\ worker[w].step = "up" /\ pc'[u] # "dead" /\ UNCHANGED <<worker, disk>>
        /\ \A x \in VersionIds \ {u} : Same(x)
    BY <1>0, <1>6, ArriveMoves DEF SoleWorker
  <2>2. UNCHANGED <<versions, files, usage>>
    BY <1>6 DEF Arrive, Claim, catalogVars
  <2>3. ASSUME NEW x \in VersionIds, pc'[x] = "dead" PROVE Untouched(x)
    BY <2>1, <2>2, <2>3, SameKept DEF Untouched, disk
  <2> QED BY <1>4, <2>1, <2>3
<1>7. ASSUME NEW a \in Workers, StartupStep(a) PROVE Goal
  <2>1. a = w
    BY DEF SoleWorker
  <2> QED BY <1>2, <1>7, <2>1, StartupKnows, StartupReconciles DEF Goal
<1>8. ASSUME NEW a \in Workers, Crash(a) PROVE Goal
  <2>1. worker'[w] = At("down", {}, NoVersion)
    BY <1>0, <1>8, CrashMoves DEF SoleWorker
  <2>2. PICK now : now = worker'[w]
    OBVIOUS
  <2>3. now.step = "down"
    BY <2>1, <2>2 DEF At
  <2> QED BY <2>2, <2>3 DEF Goal, HandOK, RowsOK, KeysOK, Visiting, Sweeping, Listing, Reconciling,
                           InHand
<1>9. ASSUME NEW call \in RetractCalls, RetractStep(call) PROVE Goal
  <2>1. UNCHANGED <<worker, idem>> /\ \A x \in VersionIds : Untouched(x)
    BY <1>9, RetractionKeeps
  <2> QED BY <1>0, <1>2, <2>1, QuietKeepsRows DEF Goal
<1>10. CASE TimePasses \/ UNCHANGED vars
  <2>1. UNCHANGED <<catalogVars, disk, thread, worker>>
    BY <1>10 DEF TimePasses, vars
  <2>2. UNCHANGED <<worker, idem>> /\ \A x \in VersionIds : Untouched(x)
    BY <2>1, SameKept DEF catalogVars, disk, thread, Same, Untouched
  <2> QED BY <1>0, <1>2, <2>2, QuietKeepsRows DEF Goal
<1> QED BY <1>5, <1>6, <1>7, <1>8, <1>9, <1>10 DEF UploadNext

\* It holds of a new data directory.
LEMMA RecoveryInit == UploadInit => RecoveryInv
<1> SUFFICES ASSUME UploadInit PROVE RecoveryInv
  OBVIOUS
<1>1. RunsUp
  BY DEF UploadInit, RunsUp, Running, BodySteps, CleanupSteps
<1>2. ASSUME NEW w \in Workers PROVE worker[w].step = "down"
  BY DEF UploadInit, At
<1> QED BY <1>1, <1>2 DEF RecoveryInv, HandOK, RowsOK, KeysOK, Visiting, Sweeping, Listing,
                           Reconciling, InHand

\* With one worker, RecoveryInv holds in every reachable state.
THEOREM RecoveryInvariant ==
  ASSUME SoleWorker PROVE UploadSpec => []RecoveryInv
<1>1. ServiceInv /\ RecoveryInv /\ [UploadNext]_vars => RecoveryInv'
  BY RecoveryStep
<1> QED BY <1>1, RecoveryInit, ServiceInvariant, PTL DEF UploadSpec

\* Once recovery has run, an upload that died after commit.ready was written is
\* published or over quota, wherever it died and however often the startup itself
\* was killed (app.py, _recover_pending).
THEOREM RecoveryIsComplete ==
  ASSUME SoleWorker PROVE UploadSpec => []RecoveryComplete
<1>1. UploadTypeOK /\ RecoveryInv => RecoveryComplete
  <2> SUFFICES ASSUME UploadTypeOK, RecoveryInv, NEW w \in Workers, NEW v \in VersionIds,
                      Recovered(w), pc[v] = "dead", HasStatus(v, "pending")
               PROVE  Unrecoverable(v)
    BY DEF RecoveryComplete, Unrecoverable
  <2>1. v \in PendingVersions /\ RowsOK(w)
    BY DEF HasStatus, PendingVersions, RecoveryInv
  <2>2. worker[w].step \in Sweeping \cup Listing \cup Reconciling \cup {"up"}
    BY DEF Recovered, UploadTypeOK, WorkerState, WorkerSteps, Sweeping, Listing, Reconciling
  <2> QED BY <2>1, <2>2 DEF RowsOK
<1> QED BY <1>1, RecoveryInvariant, UploadTypeCorrect, PTL

\* Once the worker serves, no reservation of a dead upload is pending whose version
\* was committed, by the upload or by recovery: reconcile_idempotency_keys runs
\* after both.
THEOREM RecoveredKeysAreComplete ==
  ASSUME SoleWorker PROVE UploadSpec => []RecoveredKeysComplete
<1>1. RecoveryInv => RecoveredKeysComplete
  BY DEF RecoveryInv, KeysOK, NotFor, RecoveredKeysComplete
<1> QED BY <1>1, RecoveryInvariant, PTL

=============================================================================
