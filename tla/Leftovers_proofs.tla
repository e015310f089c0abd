--------------------------- MODULE Leftovers_proofs ---------------------------
(* Theorems about what an upload that fails leaves behind in UploadService    *)
(* when one worker runs: nothing in the catalogue or on the disk, and no      *)
(* record of an abort of a version that readers can see.                      *)
EXTENDS Disk_proofs

-----------------------------------------------------------------------------
(* An upload that failed leaves nothing *)

\* The exceptions that make the "finally" block forget or abandon something: of
\* get_version and of finalize when the row or the directory is there and its flag
\* is not set, and of the removals.
ForgetfulFaults == {"get_pending", "fsync_parent"} \cup (CleanupSteps \ {"record_aborted"})

\* "pending_inserted" tells an upload that it has a row, file records only belong
\* to rows, and the "finally" block removes what it says.
NothingOK(u) ==
  /\ pc[u] = "idle" => incoming[u] = {}
  /\ pc[u] \in WithRow \ {"get_pending"} => "pending_inserted" \in flags[u]
  /\ pc[u] \in {"record_aborted", "remove_final"} /\ u \in DOMAIN versions =>
       "pending_inserted" \in flags[u]
  /\ pc[u] \in {"release_key", "remove_staging"} => u \notin DOMAIN versions
  /\ pc[u] = "done" /\ ~IsPublished(u) => u \notin DOMAIN versions /\ incoming[u] = {}
  /\ \A f \in Paths : <<u, f>> \in files => u \in DOMAIN versions

\* A step of another upload, a request, a kill, a retraction or a recovery
LEMMA NothingRestored ==
  ASSUME RecoveryInv, NEW x \in VersionIds, DirectoryOK(x), NothingOK(x),
         \/ Untouched(x) \/ Arrives(x) \/ Dies(x)
         \/ Restarts(x) /\ pc[x] \in {"idle", "done", "dead"}
  PROVE  NothingOK(x)'
<1> USE DEF NothingOK
<1>1. CASE Untouched(x) \/ Dies(x)
  BY <1>1 DEF Untouched, Same, Dies, Kept, WithRow
<1>2. CASE Arrives(x)
  BY <1>2 DEF Arrives, Kept, DirectoryOK, BeforeRow, WithRow
<1>3. CASE Restarts(x) /\ pc[x] \in {"idle", "done", "dead"}
  <2>1. pc'[x] = pc[x] /\ pc[x] \notin WithRow \cup CleanupSteps
    BY <1>3 DEF Restarts, Same, WithRow, CleanupSteps
  <2>2. PICK w \in Workers : StartupChange(w, x) /\ HandOK(w)
    BY <1>3 DEF Restarts, RecoveryInv
  <2>3. pc[x] = "idle" => x \notin DOMAIN versions
    BY DEF DirectoryOK, BeforeRow
  <2>4. CASE Kept(x)
    BY <2>1, <2>4 DEF Kept, CleanupSteps
  <2>5. CASE UNCHANGED catalogVars /\ (incoming'[x] = {} \/ incoming'[x] = incoming[x])
    BY <2>1, <2>5 DEF catalogVars, IsPublished, HasStatus, CleanupSteps
  <2>6. CASE /\ CommitVersion(x) \/ (x \in PendingVersions /\ DeletePendingVersion(x))
             /\ UNCHANGED disk
    <3>1. HasStatus(x, "pending")
      BY <2>6 DEF CommitVersion, CanCommit, PendingVersions, HasStatus
    <3>2. pc[x] = "dead"
      BY <1>3, <2>3, <3>1 DEF HasStatus, IsPublished
    <3>3. \A f \in Paths : <<x, f>> \in files' => x \in DOMAIN versions'
      BY <2>6 DEF CommitVersion, DeletePendingVersion
    <3> QED BY <2>1, <3>2, <3>3 DEF CleanupSteps
  <2> QED BY <2>2, <2>4, <2>5, <2>6 DEF StartupChange, HandOK, InHand, disk
<1> QED BY <1>1, <1>2, <1>3

\* So does the upload itself, its "finally" block included.
LEMMA NothingForgotten ==
  ASSUME Faulty \cap ForgetfulFaults = {}, ServiceInv, DiskInv,
         NEW x \in VersionIds, NothingOK(x), UploadStep(x)
  PROVE  NothingOK(x)'
<1> DEFINE Goal == NothingOK(x)'
<1> SUFFICES Goal
  OBVIOUS
<1>0. /\ ThreadTypeOK /\ DiskTypeOK /\ CatalogTypeOK /\ DirectoryOK(x) /\ ThreadOK(x)
  BY DEF ServiceInv, DiskInv, UploadTypeOK, ThreadTypeOK, DiskTypeOK
<1>1. Effect(x)
  BY <1>0, UploadEffects DEF DirectoryOK
<1>2. pc[x] \in BeforeRow => x \notin DOMAIN versions
  BY <1>0 DEF DirectoryOK
<1> USE DEF NothingOK
<1>3. CASE Fails(x)
  <2>1. /\ Still(x) /\ pc'[x] = ToCleanup(flags'[x]) /\ pc'[x] \in CleanupSteps
        /\ "pending_inserted" \in flags'[x] <=> "pending_inserted" \in flags[x]
    BY <1>3, CleanupBegins DEF Fails, SameFlags
  <2>2. pc[x] # "get_pending"
    BY <1>3 DEF Fails, ForgetfulFaults, BeforeRow
  <2>3. x \notin DOMAIN versions \/ "pending_inserted" \in flags'[x]
    BY <1>2, <1>3, <2>1, <2>2 DEF Fails
  <2>4. "pending_inserted" \in flags'[x] => pc'[x] \notin {"release_key", "remove_staging"}
    BY <2>1 DEF ToCleanup, ToRemoveFinal, ToDeleteRow
  <2> QED BY <2>1, <2>3, <2>4 DEF Still, WithRow, CleanupSteps
<1>4. CASE Ends(x)
  BY <1>0, <1>4 DEF Ends, Still, ThreadOK, WithRow, IsPublished, HasStatus
<1>5. CASE Advances(x)
  <2>1. pc'[x] \in WithRow \ {"get_pending"} => "pending_inserted" \in flags'[x]
    BY <1>5 DEF Advances, SameFlags, WithRow, BeforeRow
  <2> QED BY <1>5, <2>1 DEF Advances, Still, BeforeRow
<1>6. CASE Stages(x)
  BY <1>6 DEF Stages, SameFlags, WithRow
<1>7. CASE Writes(x)
  <2>1. CASE /\ pc'[x] = "get_pending"
             /\ InsertPending(x, request[x].dataset, request[x].principal, request[x].content)
    BY <2>1 DEF InsertPending, NewVersion, Put
  <2>2. CASE /\ pc[x] = "insert_files" /\ pc'[x] \in {"insert_files", "write_ready"}
             /\ \E f \in FilesLeft(x) : InsertFile(x, f)
    <3>1. x \in DOMAIN versions'
      BY <2>2 DEF InsertFile
    <3> QED BY <1>7, <2>2, <3>1 DEF Writes, SameFlags, WithRow
  <2>3. CASE pc'[x] \in {"complete", "record_committed"} /\ CommitVersion(x)
    BY <2>3 DEF CommitVersion, WithRow
  <2> QED BY <1>7, <2>1, <2>2, <2>3 DEF Writes
<1>8. CASE CleansUp(x)
  <2>0. flags'[x] = flags[x] /\ pc[x] \in CleanupSteps /\ ~IsPublished(x)
    BY <1>0, <1>8 DEF CleansUp, DirectoryOK, CleanupSteps
  <2>1. CASE pc[x] = "record_aborted"
    BY <1>8, <2>0, <2>1, CleanupBegins
       DEF CleansUp, Still, WithRow, CleanupSteps, ToRemoveFinal, ToDeleteRow, ToRelease
  <2>2. CASE pc[x] = "remove_final"
    BY <1>8, <2>0, <2>2, CleanupBegins
       DEF CleansUp, Still, WithRow, CleanupSteps, ToDeleteRow, ToRelease
  <2>3. CASE pc[x] = "delete_row"
    <3>1. DeletePendingVersion(x) /\ pc'[x] \in {"release_key", "remove_staging"}
      BY <1>8, <2>3, CleanupBegins DEF CleansUp, ForgetfulFaults, CleanupSteps
    <3>2. x \in DOMAIN versions => HasStatus(x, "pending")
      BY <1>0, <2>0 DEF HasStatus, IsPublished, CatalogTypeOK, IsTable, VersionRow, Status
    <3>3. x \notin DOMAIN versions' /\ \A f \in Paths : <<x, f>> \notin files'
      BY <3>1, <3>2 DEF DeletePendingVersion, Removable, Drop, Restrict
    <3> QED BY <3>1, <3>3 DEF WithRow
  <2>4. CASE pc[x] = "release_key"
    BY <1>8, <2>4 DEF CleansUp, Still, WithRow, ForgetfulFaults, CleanupSteps
  <2>5. CASE pc[x] = "remove_staging"
    BY <1>8, <2>5 DEF CleansUp, Still, WithRow, ForgetfulFaults, CleanupSteps
  <2> QED BY <2>0, <2>1, <2>2, <2>3, <2>4, <2>5 DEF CleanupSteps
<1> HIDE DEF Goal
<1> QED BY <1>1, <1>3, <1>4, <1>5, <1>6, <1>7, <1>8 DEF Effect

NothingInv == \A u \in VersionIds : NothingOK(u)

\* With one worker and without ForgetfulFaults, it holds in every reachable state.
THEOREM NothingInvariant ==
  ASSUME SoleWorker, Faulty \cap ForgetfulFaults = {} PROVE UploadSpec => []NothingInv
<1>1. UploadInit => NothingInv
  BY DEF UploadInit, CatalogInit, NothingInv, NothingOK, WithRow
<1>2. ASSUME ServiceInv, RecoveryInv, DiskInv, NothingInv, [UploadNext]_vars
      PROVE  NothingInv'
  <2> SUFFICES ASSUME NEW x \in VersionIds PROVE NothingOK(x)'
    BY DEF NothingInv
  <2>1. /\ Untouched(x) \/ Arrives(x) \/ UploadStep(x) \/ Dies(x) \/ Restarts(x)
        /\ NothingOK(x) /\ DirectoryOK(x)
    BY <1>2, VersionChanges DEF RecoveryInv, NothingInv, DiskInv
  <2>2. ~Running(x) => pc[x] \in {"idle", "done", "dead"}
    BY <1>2 DEF ServiceInv, UploadTypeOK, Running, Steps
  <2> QED BY <1>2, <2>1, <2>2, NothingRestored, NothingForgotten DEF Restarts
<1> QED BY <1>1, <1>2, ServiceInvariant, RecoveryInvariant, DiskInvariant, PTL DEF UploadSpec

\* An upload that was answered and is not published has no row, no file record, no
\* directory and no reservation, whatever raised before: the flags of
\* upload_dataset say at every step what the "finally" block has to undo.
THEOREM NothingIsLeft ==
  ASSUME SoleWorker, Faulty \cap ForgetfulFaults = {}
  PROVE  UploadSpec => []FailedUploadLeavesNothing
<1>1. DirectoriesRemovable /\ CleanupReleasesKeys
  BY DEF ForgetfulFaults, CleanupSteps, DirectoriesRemovable, CleanupReleasesKeys
<1>2. NothingInv /\ OrphanInv /\ HeldInv => FailedUploadLeavesNothing
  BY DEF NothingInv, NothingOK, OrphanInv, OrphanOK, HeldInv, Held, Holds,
         FailedUploadLeavesNothing
<1> QED BY <1>1, <1>2, NothingInvariant, OrphanInvariant, HeldInvariant, PTL

-----------------------------------------------------------------------------
(* No abort is recorded of a published version *)

\* The event is recorded at the beginning of the "finally" block, and nothing
\* publishes the version after it.
AbortOK(u) ==
  <<"upload_aborted", u>> \in events => pc[u] \in CleanupSteps \cup {"done"} /\ ~IsPublished(u)

\* Only the "finally" block of an upload records its abort.
LEMMA AbortRecorded ==
  ASSUME ServiceInv, [UploadNext]_vars, NEW x \in VersionIds,
         <<"upload_aborted", x>> \in events' \ events
  PROVE  RecordAborted(x)
<1> USE DEF ServiceInv
<1>1. ASSUME NEW u \in VersionIds, UploadStep(u) PROVE RecordAborted(x)
  <2>1. ThreadWrites(u)
    BY <1>1, StepWrites
  <2>2. CASE RecordAborted(u)
    BY <2>2 DEF RecordAborted, RecordEvent
  <2>3. CASE ~RecordAborted(u)
    <3>1. events' \subseteq events \cup {<<"upload_started", u>>, <<"upload_committed", u>>}
      <4>1. CASE RecordStarted(u) \/ RecordCommitted(u)
        BY <4>1 DEF RecordStarted, RecordCommitted, RecordEvent
      <4>2. CASE ~(RecordStarted(u) \/ RecordCommitted(u))
        BY <1>1, <2>3, <4>2 DEF UploadStep, BodyStep, CleanupStep, CreateStaging, RejectPayload,
             HashPayload, WritePayload, ReserveIdempotencyKey, ReserveKey, FindDuplicate,
             InsertPendingVersion, InsertPending, GetPendingVersion, FindDuplicateAgain,
             CompleteDuplicate, CompleteKey, InsertFileRecord, InsertFile, WriteCommitReady,
             MakeParent, MoveToFinal, SyncParent, CommitUpload, CommitVersion,
             CompleteIdempotencyKey, BodyFault, RemoveFinal, DeleteRow, DeletePendingVersion,
             ReleaseIdempotencyKey, ReleaseKey, RemoveStaging, CleanupFault, OnlyThread, OnlyDisk,
             catalogVars
      <4> QED BY <4>1, <4>2
    <3> QED BY <3>1
  <2> QED BY <2>2, <2>3
<1>2. ASSUME NEW w \in Workers, StartupStep(w) PROVE FALSE
  <2>1. ASSUME NEW found, Reconcile(found) PROVE events' = events
    BY <2>1 DEF Reconcile, Written
  <2>2. ASSUME NEW v, CommitVersion(v) \/ DeletePendingVersion(v) PROVE events' = events
    BY <2>2 DEF CommitVersion, DeletePendingVersion
  <2> QED BY <1>2, <2>1, <2>2, StartupWrites DEF WorkerWrites, WritesFound, catalogVars, ServiceInv, WorkersOK
<1>3. ASSUME NEW call \in RetractCalls, RetractStep(call) PROVE FALSE
  <2>1. CASE \E w \in Workers, v \in VersionIds : ReadForRetraction(call, w, v)
    BY <2>1 DEF ReadForRetraction, catalogVars
  <2>2. CASE WriteRetraction(call)
    BY <2>2 DEF WriteRetraction, RetractVersion
  <2>3. CASE RecordRetraction(call)
    <3>1. events' = events \cup {<<"retracted", retraction[call].version>>}
      BY <2>3 DEF RecordRetraction, RecordEvent
    <3> QED BY <3>1
  <2> QED BY <1>3, <2>1, <2>2, <2>3 DEF RetractStep
<1>4. CASE \/ \E u \in VersionIds, w \in Workers, r \in Requests : Arrive(u, w, r)
           \/ \E w \in Workers : Crash(w)
           \/ TimePasses \/ UNCHANGED vars
  BY <1>4 DEF Arrive, Claim, Crash, TimePasses, vars, catalogVars
<1> QED BY <1>1, <1>2, <1>3, <1>4 DEF UploadNext

\* Every step keeps it, when the worker is never killed.
LEMMA AbortStep ==
  ASSUME SoleWorker, Mortal = {}, ServiceInv, RecoveryInv, DiskInv, Fresh, [UploadNext]_vars,
         NEW x \in VersionIds, AbortOK(x)
  PROVE  AbortOK(x)'
<1> SUFFICES ASSUME <<"upload_aborted", x>> \in events'
             PROVE  pc'[x] \in CleanupSteps \cup {"done"} /\ ~IsPublished(x)'
  BY DEF AbortOK
<1>0. /\ ThreadTypeOK /\ DiskTypeOK /\ CatalogTypeOK /\ WorkersOK /\ DirectoryOK(x)
      /\ Untouched(x) \/ Arrives(x) \/ UploadStep(x) \/ Dies(x) \/ Restarts(x)
  BY VersionChanges DEF ServiceInv, RecoveryInv, DiskInv, UploadTypeOK, ThreadTypeOK, DiskTypeOK
<1>1. CASE <<"upload_aborted", x>> \notin events
  <2>1. RecordAborted(x)
    BY <1>1, AbortRecorded
  <2>2. pc[x] = "record_aborted" /\ UNCHANGED versions /\ Go(x, ToRemoveFinal(flags[x]))
    BY <2>1 DEF RecordAborted, RecordEvent
  <2>3. pc'[x] = ToRemoveFinal(flags[x]) /\ ~IsPublished(x)
    BY <1>0, <2>2 DEF Go, ThreadTypeOK, DirectoryOK, CleanupSteps
  <2> QED BY <2>2, <2>3, CleanupBegins DEF IsPublished, HasStatus
<1>2. CASE <<"upload_aborted", x>> \in events
  <2>0. pc[x] \in CleanupSteps \cup {"done"} /\ ~IsPublished(x)
    BY <1>2 DEF AbortOK
  <2>1. CASE Untouched(x)
    BY <2>0, <2>1 DEF Untouched, Same, Kept
  <2>2. ~Arrives(x) /\ ~Dies(x)
    BY <2>0 DEF Arrives, Dies, CleanupSteps
  <2>3. ~Restarts(x)
    <3> SUFFICES ASSUME NEW w \in Workers, StartupStep(w) PROVE FALSE
      BY DEF Restarts
    <3>1. pc[x] = "idle"
      BY <1>0, StartupIsNotUp DEF Fresh
    <3> QED BY <2>0, <3>1 DEF CleanupSteps
  <2>4. CASE UploadStep(x)
    <3>1. CleansUp(x)
      BY <1>0, <2>0, <2>4, UploadEffects, StepRuns
         DEF DirectoryOK, Effect, Fails, Ends, Advances, Stages, Writes, BeforeRow, WithRow,
             CleanupSteps
    <3>2. pc'[x] \in CleanupSteps \cup {"done"}
      BY <3>1, CleanupBegins DEF CleansUp, CleanupSteps
    <3>3. UNCHANGED versions \/ DeletePendingVersion(x)
      BY <3>1 DEF CleansUp, Still
    <3>4. ~IsPublished(x)'
      BY <2>0, <3>3 DEF DeletePendingVersion, Drop, Restrict, IsPublished, HasStatus
    <3> QED BY <3>2, <3>4
  <2> QED BY <1>0, <2>1, <2>2, <2>3, <2>4
<1> QED BY <1>1, <1>2

\* The audit log calls no version aborted that readers can see, as long as the
\* worker is not killed: "upload_aborted" is recorded before the removals, and a
\* recovery that comes in between may still publish the version.
THEOREM AbortsAreFinal ==
  ASSUME SoleWorker, Mortal = {} PROVE UploadSpec => []AbortedNeverPublished
<1> DEFINE IInv == \A u \in VersionIds : AbortOK(u)
<1>1. CommitsAreFinal
  BY DEF CommitsAreFinal
<1>2. UploadInit => IInv
  BY DEF UploadInit, CatalogInit, AbortOK
<1>3. ServiceInv /\ RecoveryInv /\ DiskInv /\ CompleteInv /\ IInv /\ [UploadNext]_vars => IInv'
  BY AbortStep DEF CompleteInv
<1>4. IInv => AbortedNeverPublished
  BY DEF AbortOK, AbortedNeverPublished
<1> QED
  BY <1>1, <1>2, <1>3, <1>4, ServiceInvariant, RecoveryInvariant, DiskInvariant,
     CompleteInvariant, PTL DEF UploadSpec

=============================================================================
