------------------------ MODULE UploadService_proofs ------------------------
(* Theorems of UploadService that hold for any number of workers, kills and *)
(* exceptions: what the threads and the workers do is what the catalogue     *)
(* allows, and what a client is told is published.                           *)
EXTENDS UploadService, Catalog_proofs

-----------------------------------------------------------------------------
(* Threads: the local variables of upload_dataset *)

ThreadTypeOK ==
  /\ pc \in [VersionIds -> Steps]
  /\ request \in [VersionIds -> Requests]
  /\ home \in [VersionIds -> Workers \cup {NoWorker}]
  /\ flags \in [VersionIds -> SUBSET Flags]
  /\ answer \in [VersionIds -> VersionIds \cup Errors]

Same(x) ==
  /\ pc'[x] = pc[x] /\ request'[x] = request[x] /\ home'[x] = home[x]
  /\ flags'[x] = flags[x] /\ answer'[x] = answer[x]

\* A step of the thread of u, and of no other thread.
Moves(u, step, fl, result) ==
  /\ ThreadTypeOK'
  /\ pc'[u] = step /\ flags'[u] = fl /\ answer'[u] = result
  /\ request'[u] = request[u] /\ home'[u] = home[u]
  /\ \A x \in VersionIds \ {u} : Same(x)

\* The next statement, with the local variables as they are.
LEMMA GoMoves ==
  ASSUME ThreadTypeOK, NEW u \in VersionIds, NEW step \in Steps, Go(u, step)
  PROVE  Moves(u, step, flags[u], answer[u])
BY DEF ThreadTypeOK, Go, Moves, Same

\* The next statement, after an assignment to one of the booleans.
LEMMA GoSettingMoves ==
  ASSUME ThreadTypeOK, NEW u \in VersionIds, NEW step \in Steps, NEW fl \in SUBSET Flags,
         GoSetting(u, step, fl)
  PROVE  Moves(u, step, fl, answer[u])
BY DEF ThreadTypeOK, GoSetting, Moves, Same

\* Where the "finally" block begins
LEMMA CleanupBegins ==
  ASSUME NEW fl
  PROVE  /\ ToRelease(fl) \in {"release_key", "remove_staging"}
         /\ ToDeleteRow(fl) \in {"delete_row", "release_key", "remove_staging"}
         /\ ToRemoveFinal(fl) \in CleanupSteps \ {"record_aborted"}
         /\ ToCleanup(fl) \in CleanupSteps
BY DEF ToRelease, ToDeleteRow, ToRemoveFinal, ToCleanup, CleanupSteps

\* The body returns or raises.
LEMMA LeaveMoves ==
  ASSUME ThreadTypeOK, NEW u \in VersionIds, NEW result \in VersionIds \cup Errors,
         NEW fl \in SUBSET Flags, Leave(u, result, fl)
  PROVE  Moves(u, IF "committed" \in fl THEN "done" ELSE ToCleanup(fl), fl, result)
<1>1. (IF "committed" \in fl THEN "done" ELSE ToCleanup(fl)) \in Steps
  BY CleanupBegins DEF Steps
<1> QED BY <1>1 DEF ThreadTypeOK, Leave, Moves, Same

-----------------------------------------------------------------------------
(* What the catalogue promises a thread that waits *)

Claimed(p, d) == d \in DOMAIN datasets /\ datasets[d].owner = p

\* Version v is published in the dataset and with the content that u asks for.
Answers(v, u) ==
  /\ IsPublished(v)
  /\ versions[v].dataset = request[u].dataset
  /\ versions[v].content = request[u].content

\* Claims and published versions outlive every step of the catalogue.
LEMMA CatalogPersists ==
  ASSUME CatalogTypeOK, [CatalogNext]_catalogVars
  PROVE  /\ \A p, d : Claimed(p, d) => Claimed(p, d)'
         /\ \A v : IsPublished(v) => IsPublished(v)' /\ Frame(v)
<1>1. CASE UNCHANGED catalogVars
  BY <1>1 DEF catalogVars, Claimed, IsPublished, HasStatus, Frame
<1>2. CASE CatalogNext
  <2>1. ASSUME NEW p, NEW d, Claimed(p, d) PROVE Claimed(p, d)'
    BY <1>2, <2>1, OldDatasets DEF Claimed
  <2>2. ASSUME NEW v, IsPublished(v) PROVE IsPublished(v)' /\ Frame(v)
    <3>1. v \in DOMAIN versions /\ versions[v].status # "pending"
      BY <2>2 DEF IsPublished, HasStatus
    <3>2. v \in DOMAIN versions' /\ Frame(v) /\ Advance(v)
      BY <1>2, <3>1, OldRows
    <3> QED BY <2>2, <3>1, <3>2 DEF Advance, IsPublished, HasStatus
  <2> QED BY <2>1, <2>2
<1> QED BY <1>1, <1>2

-----------------------------------------------------------------------------
(* The inductive invariant *)

\* A worker that has a row in hand knows which.
InHand == {"recover_staged", "recover_move", "recover_commit", "clean_remove", "clean_row"}

\* A version that was found for the reservation p is published with its content.
Outcomes(p) == FoundOnce(p[1][2], p[2]) \cup {NoVersion}

HasFound(me) == me.step = "reconcile_write" => \A p \in me.row : me.current \in Outcomes(p)

WorkersOK ==
  \A w \in Workers :
    /\ worker[w].step \in InHand => worker[w].current \in VersionIds
    /\ HasFound(worker[w])

\* A retraction is about to be written or recorded only of a published version.
RetractionsOK ==
  \A call \in RetractCalls :
    retraction[call].step \in {"write", "record"} =>
      retraction[call].version \in VersionIds /\ IsPublished(retraction[call].version)

\* The steps that only an upload with an Idempotency-Key header reaches
KeySteps == {"reserve", "complete_duplicate", "complete", "release_key"}

ThreadOK(u) ==
  /\ pc[u] = "idle" => flags[u] = {} /\ answer[u] = "none"
  /\ pc[u] \in KeySteps \/ "reserved_idempotency" \in flags[u] => HasKey(u)
  /\ pc[u] = "complete_duplicate" => answer[u] \in VersionIds
  /\ pc[u] \in BodySteps => Claimed(request[u].principal, request[u].dataset)
  /\ pc[u] \in {"complete", "record_committed"} \/ "committed" \in flags[u] => IsPublished(u)
  /\ answer[u] \in VersionIds => Answers(answer[u], u)

\* The row of an upload says what the upload asked for, and no two rows of a
\* dataset have the same content.
RowOK(v) ==
  /\ pc[v] # "idle"
  /\ versions[v].dataset = request[v].dataset
  /\ versions[v].uploader = request[v].principal
  /\ versions[v].content = request[v].content
  /\ Claimed(versions[v].uploader, versions[v].dataset)
  /\ \A x \in DOMAIN versions :
       versions[x].dataset = versions[v].dataset /\ versions[x].content = versions[v].content
         => x = v

\* A reservation was made by an upload that asked for it, and is completed with a
\* version that answers it.
KeyOK(id) ==
  /\ Claimed(id[1], id[2])
  /\ pc[idem[id].by] # "idle"
  /\ KeyOf(idem[id].by) = id
  /\ idem[id].status = "pending" => idem[id].content = request[idem[id].by].content
  /\ idem[id].status = "committed" =>
       /\ IsPublished(idem[id].result)
       /\ versions[idem[id].result].uploader = id[1]
       /\ versions[idem[id].result].dataset = id[2]
       /\ versions[idem[id].result].content = idem[id].content

ServiceInv ==
  /\ UploadTypeOK
  /\ WorkersOK
  /\ RetractionsOK
  /\ \A u \in VersionIds : ThreadOK(u)
  /\ \A v \in DOMAIN versions : RowOK(v)
  /\ \A id \in DOMAIN idem : KeyOK(id)

-----------------------------------------------------------------------------
(* One step of a thread *)

\* What a thread may do next, given what the catalogue holds after the step
Proper(u, step, fl, result) ==
  /\ step # "idle"
  /\ step \in KeySteps \/ "reserved_idempotency" \in fl => HasKey(u)
  /\ step = "complete_duplicate" => result \in VersionIds
  /\ step \in BodySteps => pc[u] \in BodySteps
  /\ step \in {"complete", "record_committed"} \/ "committed" \in fl =>
       IsPublished(u) \/ HasStatus(u, "committed")'
  /\ result \in VersionIds => Answers(result, u)

\* Leaving the body is proper when the answer is.
LEMMA LeaveProper ==
  ASSUME ThreadTypeOK, NEW u \in VersionIds, ThreadOK(u),
         NEW fl \in SUBSET Flags, fl \ {"upload_started", "suppress_abort_event"} \subseteq flags[u],
         NEW result \in VersionIds \cup Errors, result \in VersionIds => Answers(result, u),
         Leave(u, result, fl)
  PROVE  \E s \in Steps : Moves(u, s, fl, result) /\ Proper(u, s, fl, result)
<1> DEFINE s == IF "committed" \in fl THEN "done" ELSE ToCleanup(fl)
<1>1. Moves(u, s, fl, result)
  BY LeaveMoves
<1>2. s \in Steps /\ s # "idle" /\ s \notin BodySteps /\ (s \in KeySteps => s = "release_key")
  BY CleanupBegins DEF Steps, CleanupSteps, BodySteps, KeySteps
<1>3. s = "release_key" => "reserved_idempotency" \in fl
  BY DEF ToCleanup, ToRemoveFinal, ToDeleteRow, ToRelease
<1>4. "reserved_idempotency" \in fl => HasKey(u)
  BY DEF ThreadOK
<1>5. "committed" \in fl => IsPublished(u)
  BY DEF ThreadOK
<1>6. s \notin {"complete", "record_committed", "complete_duplicate"}
  BY <1>2 DEF KeySteps, BodySteps
<1> HIDE DEF s
<1> QED BY <1>1, <1>2, <1>3, <1>4, <1>5, <1>6 DEF Proper

\* An answer that is an error is no version.
LEMMA ErrorsAreNoVersions ==
  ASSUME NEW e \in Errors PROVE e \notin VersionIds /\ e \in VersionIds \cup Errors
BY NamesDiffer

\* Leaving with an error, and with the booleans as they are
LEMMA FailsProper ==
  ASSUME ThreadTypeOK, NEW u \in VersionIds, ThreadOK(u), NEW e \in Errors,
         Leave(u, e, flags[u])
  PROVE  \E s \in Steps : Moves(u, s, flags[u], e) /\ Proper(u, s, flags[u], e)
<1>1. flags[u] \in SUBSET Flags
  BY DEF ThreadTypeOK
<1> QED BY <1>1, ErrorsAreNoVersions, LeaveProper

\* A statement that sets no boolean
LEMMA GoProper ==
  ASSUME ThreadTypeOK, NEW u \in VersionIds, ThreadOK(u), NEW s \in Steps, Go(u, s),
         s # "idle", s # "complete_duplicate", s \notin {"complete", "record_committed"},
         s \in KeySteps => HasKey(u),
         s \in BodySteps => pc[u] \in BodySteps
  PROVE  Moves(u, s, flags[u], answer[u]) /\ Proper(u, s, flags[u], answer[u])
<1>1. Moves(u, s, flags[u], answer[u])
  BY GoMoves
<1> QED BY <1>1 DEF Proper, ThreadOK

\* A statement that sets a boolean
LEMMA GoSettingProper ==
  ASSUME ThreadTypeOK, NEW u \in VersionIds, ThreadOK(u), NEW s \in BodySteps,
         s \notin KeySteps \cup {"record_committed"},
         pc[u] \in BodySteps,
         NEW fl \in SUBSET Flags,
         "reserved_idempotency" \in fl => HasKey(u),
         "committed" \in fl => "committed" \in flags[u],
         GoSetting(u, s, fl)
  PROVE  Moves(u, s, fl, answer[u]) /\ Proper(u, s, fl, answer[u])
<1>0. s \in Steps /\ s # "idle"
  BY DEF Steps, BodySteps
<1>1. Moves(u, s, fl, answer[u])
  BY <1>0, GoSettingMoves
<1> QED BY <1>0, <1>1 DEF Proper, ThreadOK, KeySteps

\* A thread that runs keeps to the rules of ThreadOK, whatever it runs into.
LEMMA ThreadMoves ==
  ASSUME CatalogTypeOK, ThreadTypeOK, NEW u \in VersionIds, ThreadOK(u),
         \A id \in DOMAIN idem : KeyOK(id),
         u \in DOMAIN versions => RowOK(u),
         UploadStep(u)
  PROVE  \E s \in Steps, fl \in SUBSET Flags, result \in VersionIds \cup Errors :
           Moves(u, s, fl, result) /\ Proper(u, s, fl, result)
<1> DEFINE Goal == \E s \in Steps, fl \in SUBSET Flags, result \in VersionIds \cup Errors :
                     Moves(u, s, fl, result) /\ Proper(u, s, fl, result)
<1> SUFFICES Goal
  OBVIOUS
<1>0. flags[u] \in SUBSET Flags /\ answer[u] \in VersionIds \cup Errors /\ pc[u] \in Steps
  BY DEF ThreadTypeOK
<1>a. ASSUME NEW s \in Steps, Go(u, s),
             s # "idle", s # "complete_duplicate", s \notin {"complete", "record_committed"},
             s \in KeySteps => HasKey(u),
             s \in BodySteps => pc[u] \in BodySteps
      PROVE  Goal
  BY <1>0, <1>a, GoProper
<1>b. ASSUME NEW s \in BodySteps,
             s \notin KeySteps \cup {"record_committed"},
             pc[u] \in BodySteps,
             NEW fl \in SUBSET Flags,
             "reserved_idempotency" \in fl => HasKey(u),
             "committed" \in fl => "committed" \in flags[u],
             GoSetting(u, s, fl)
      PROVE  Goal
  <2>1. Moves(u, s, fl, answer[u]) /\ Proper(u, s, fl, answer[u])
    BY <1>b, GoSettingProper
  <2> QED BY <1>0, <2>1 DEF Steps
<1>c. ASSUME NEW e \in Errors, Leave(u, e, flags[u])
      PROVE  Goal
  <2>1. \E s \in Steps : Moves(u, s, flags[u], e) /\ Proper(u, s, flags[u], e)
    BY <1>c, FailsProper
  <2> QED BY <1>0, <2>1
<1>d. ASSUME NEW fl \in SUBSET Flags, fl \ {"upload_started", "suppress_abort_event"} \subseteq flags[u],
             NEW v \in VersionIds, Answers(v, u), Leave(u, v, fl)
      PROVE  Goal
  <2>1. \E s \in Steps : Moves(u, s, fl, v) /\ Proper(u, s, fl, v)
    BY <1>d, LeaveProper
  <2> QED BY <1>d, <2>1
<1> HIDE DEF Goal
<1>1. CASE BodyStep(u)
  <2>1. CASE RecordStarted(u)
    <3>1. GoSetting(u, "create_staging", flags[u] \cup {"upload_started"}) /\ pc[u] \in BodySteps
      BY <2>1 DEF RecordStarted, BodySteps
    <3> QED BY <1>0, <1>b, <3>1 DEF BodySteps, KeySteps, ThreadOK, Flags
  <2>2. CASE CreateStaging(u)
    BY <1>a, <2>2 DEF CreateStaging, BodySteps, KeySteps, Steps
  <2>3. CASE RejectPayload(u)
    BY <1>c, <2>3 DEF RejectPayload, Errors
  <2>4. CASE HashPayload(u)
    BY <1>a, <2>4 DEF HashPayload, BodySteps, KeySteps, Steps
  <2>5. ASSUME NEW x \in Payload, WritePayload(u, x) PROVE Goal
    <3>1. Go(u, pc[u]) /\ pc[u] = "write_payload"
      BY <2>5 DEF WritePayload, Go, thread, ThreadTypeOK
    <3> QED BY <1>a, <3>1 DEF BodySteps, KeySteps, Steps
  <2>6. CASE ReserveIdempotencyKey(u)
    <3> DEFINE id == KeyOf(u)
               c == request[u].content
    <3>1. pc[u] = "reserve" /\ HasKey(u) /\ pc[u] \in BodySteps
      BY <2>6 DEF ReserveIdempotencyKey, KeySteps, BodySteps, ThreadOK
    <3>2. CASE GoSetting(u, "find", flags[u] \cup {"reserved_idempotency"})
      BY <1>0, <1>b, <3>1, <3>2 DEF BodySteps, KeySteps, Flags
    <3>3. CASE Leave(u, "key_conflict", flags[u]) \/ Leave(u, "key_in_progress", flags[u])
      BY <1>c, <3>3 DEF Errors
    <3>4. CASE /\ id \in DOMAIN idem /\ Replayable(id, c)
               /\ Leave(u, idem[id].result, flags[u] \cup {"suppress_abort_event"})
      <4>1. Answers(idem[id].result, u)
        BY <3>4 DEF KeyOK, Replayable, Answers, KeyOf
      <4>2. idem[id].result \in VersionIds
        BY <4>1 DEF Answers, IsPublished, HasStatus, CatalogTypeOK, IsTable
      <4>3. flags[u] \cup {"suppress_abort_event"} \in SUBSET Flags
        BY <1>0 DEF Flags
      <4> QED BY <1>d, <3>4, <4>1, <4>2, <4>3
    <3>5. \/ GoSetting(u, "find", flags[u] \cup {"reserved_idempotency"})
          \/ Leave(u, "key_conflict", flags[u]) \/ Leave(u, "key_in_progress", flags[u])
          \/ /\ id \in DOMAIN idem /\ Replayable(id, c)
             /\ Leave(u, idem[id].result, flags[u] \cup {"suppress_abort_event"})
      BY <2>6 DEF ReserveIdempotencyKey, AnswerInProgress
    <3> QED BY <3>2, <3>3, <3>4, <3>5
  <2>7. ASSUME NEW v \in DuplicatesOf(u), AnswerDuplicate(u, v), pc[u] \in BodySteps
        PROVE  Goal
    <3>1. Answers(v, u) /\ v \in VersionIds
      BY <2>7 DEF DuplicatesOf, CommittedDuplicates, CommittedOf, Answers, IsPublished, HasStatus,
                  CatalogTypeOK, IsTable
    <3>2. CASE HasKey(u)
      <4>1. Moves(u, "complete_duplicate", flags[u], v)
        BY <2>7, <3>1, <3>2 DEF AnswerDuplicate, Moves, Same, ThreadTypeOK, Steps, BodySteps
      <4>2. Proper(u, "complete_duplicate", flags[u], v)
        BY <2>7, <3>1, <3>2 DEF Proper, ThreadOK
      <4> QED BY <1>0, <3>1, <4>1, <4>2 DEF Goal, Steps, BodySteps
    <3>3. CASE ~HasKey(u)
      <4>1. Leave(u, v, flags[u] \cup {"suppress_abort_event"})
        BY <2>7, <3>3 DEF AnswerDuplicate
      <4>2. flags[u] \cup {"suppress_abort_event"} \in SUBSET Flags
        BY <1>0 DEF Flags
      <4> QED BY <1>d, <3>1, <4>1, <4>2
    <3> QED BY <3>2, <3>3
  <2>8. CASE FindDuplicate(u)
    BY <1>a, <2>7, <2>8 DEF FindDuplicate, BodySteps, KeySteps, Steps
  <2>9. CASE InsertPendingVersion(u)
    BY <1>a, <2>9 DEF InsertPendingVersion, BodySteps, KeySteps, Steps
  <2>10. CASE GetPendingVersion(u)
    <3>1. GoSetting(u, "insert_files", flags[u] \cup {"pending_inserted"}) /\ pc[u] \in BodySteps
      BY <2>10 DEF GetPendingVersion, BodySteps
    <3> QED BY <1>0, <1>b, <3>1 DEF BodySteps, KeySteps, ThreadOK, Flags
  <2>11. CASE FindDuplicateAgain(u)
    BY <1>c, <2>7, <2>11 DEF FindDuplicateAgain, BodySteps, Errors
  <2>12. CASE CompleteDuplicate(u)
    <3> DEFINE fl == (flags[u] \ {"reserved_idempotency"}) \cup {"suppress_abort_event"}
    <3>1. answer[u] \in VersionIds /\ Answers(answer[u], u) /\ Leave(u, answer[u], fl)
      BY <2>12 DEF CompleteDuplicate, ThreadOK
    <3>2. fl \in SUBSET Flags
      BY <1>0 DEF Flags
    <3> QED BY <1>d, <3>1, <3>2
  <2>13. ASSUME NEW f \in Paths, InsertFileRecord(u, f) PROVE Goal
    BY <1>a, <2>13 DEF InsertFileRecord, BodySteps, KeySteps, Steps
  <2>14. CASE WriteCommitReady(u)
    BY <1>a, <2>14 DEF WriteCommitReady, BodySteps, KeySteps, Steps
  <2>15. CASE MakeParent(u)
    BY <1>a, <1>c, <2>15 DEF MakeParent, BodySteps, KeySteps, Steps, Errors
  <2>16. CASE MoveToFinal(u)
    BY <1>a, <1>c, <2>16 DEF MoveToFinal, BodySteps, KeySteps, Steps, Errors
  <2>17. CASE SyncParent(u)
    <3>1. GoSetting(u, "commit", flags[u] \cup {"finalized"}) /\ pc[u] \in BodySteps
      BY <2>17 DEF SyncParent, BodySteps
    <3> QED BY <1>0, <1>b, <3>1 DEF BodySteps, KeySteps, ThreadOK, Flags
  <2>18. CASE CommitUpload(u)
    <3> DEFINE s == IF HasKey(u) THEN "complete" ELSE "record_committed"
               fl == flags[u] \cup {"committed"}
    <3>1. CASE CommitVersion(u) /\ GoSetting(u, s, fl)
      <4>1. HasStatus(u, "committed")'
        BY <3>1 DEF CommitVersion, CanCommit, HasStatus, CatalogTypeOK, IsTable, VersionRow
      <4>2. s \in Steps /\ fl \in SUBSET Flags /\ s \in BodySteps
        BY <1>0 DEF Steps, BodySteps, Flags
      <4>3. Moves(u, s, fl, answer[u])
        BY <3>1, <4>2, GoSettingMoves
      <4>4. Proper(u, s, fl, answer[u])
        BY <2>18, <4>1, <4>2 DEF Proper, ThreadOK, CommitUpload, KeySteps, BodySteps
      <4> QED BY <1>0, <4>2, <4>3, <4>4 DEF Goal
    <3>2. CASE Leave(u, IF HasStatus(u, "pending") THEN "over_quota" ELSE "failed", flags[u])
      BY <1>c, <3>2 DEF Errors
    <3> QED BY <2>18, <3>1, <3>2 DEF CommitUpload
  <2>19. CASE CompleteIdempotencyKey(u)
    <3> DEFINE fl == flags[u] \ {"reserved_idempotency"}
    <3>1. GoSetting(u, "record_committed", fl) /\ pc[u] = "complete"
      BY <2>19 DEF CompleteIdempotencyKey
    <3>2. "record_committed" \in Steps /\ fl \in SUBSET Flags
      BY <1>0 DEF Steps, BodySteps
    <3>3. Moves(u, "record_committed", fl, answer[u])
      BY <3>1, <3>2, GoSettingMoves
    <3>4. Proper(u, "record_committed", fl, answer[u])
      BY <3>1 DEF Proper, ThreadOK, KeySteps, BodySteps
    <3> QED BY <1>0, <3>2, <3>3, <3>4 DEF Goal
  <2>20. CASE RecordCommitted(u)
    <3>1. IsPublished(u) /\ RowOK(u) /\ Leave(u, u, flags[u])
      BY <2>20 DEF RecordCommitted, ThreadOK, IsPublished, HasStatus
    <3>2. Answers(u, u)
      BY <3>1 DEF Answers, RowOK
    <3> QED BY <1>0, <1>d, <3>1, <3>2
  <2>21. CASE BodyFault(u)
    BY <1>c, <2>21 DEF BodyFault, Errors
  <2> QED
    BY <1>1, <2>1, <2>2, <2>3, <2>4, <2>5, <2>6, <2>8, <2>9, <2>10, <2>11, <2>12, <2>13, <2>14,
       <2>15, <2>16, <2>17, <2>18, <2>19, <2>20, <2>21 DEF BodyStep
<1>2. CASE CleanupStep(u)
  <2>0. ASSUME NEW s \in CleanupSteps \cup {"done"},
               s = "release_key" => HasKey(u), Go(u, s)
        PROVE  Goal
    <3>1. s \in Steps /\ s # "idle" /\ s \notin BodySteps /\ (s \in KeySteps => HasKey(u))
      BY <2>0 DEF Steps, CleanupSteps, BodySteps, KeySteps
    <3>2. s \notin {"complete_duplicate", "complete", "record_committed"}
      BY <3>1 DEF BodySteps
    <3> QED BY <1>a, <2>0, <3>1, <3>2
  <2>1. /\ ToRelease(flags[u]) = "release_key" => HasKey(u)
        /\ ToDeleteRow(flags[u]) = "release_key" => HasKey(u)
        /\ ToRemoveFinal(flags[u]) = "release_key" => HasKey(u)
    BY DEF ThreadOK, ToRelease, ToDeleteRow, ToRemoveFinal
  <2>2. CASE RecordAborted(u)
    BY <2>0, <2>1, <2>2, CleanupBegins DEF RecordAborted
  <2>3. CASE RemoveFinal(u)
    <3>1. pc[u] = "remove_final" /\ Go(u, IF final[u] = {} THEN ToDeleteRow(flags[u]) ELSE pc[u])
      BY <2>3 DEF RemoveFinal
    <3>2. CASE final[u] = {}
      BY <2>0, <2>1, <3>1, <3>2, CleanupBegins DEF CleanupSteps
    <3>3. CASE final[u] # {}
      BY <2>0, <3>1, <3>3 DEF CleanupSteps
    <3> QED BY <3>2, <3>3
  <2>4. CASE DeleteRow(u)
    BY <2>0, <2>1, <2>4, CleanupBegins DEF DeleteRow, CleanupSteps
  <2>5. CASE ReleaseIdempotencyKey(u)
    BY <2>0, <2>5 DEF ReleaseIdempotencyKey, CleanupSteps
  <2>6. CASE RemoveStaging(u)
    BY <2>0, <2>6 DEF RemoveStaging, CleanupSteps
  <2>7. CASE CleanupFault(u)
    <3>1. \/ pc[u] = "record_aborted" /\ Go(u, ToRemoveFinal(flags[u]))
          \/ pc[u] = "remove_final" /\ Go(u, ToDeleteRow(flags[u]))
          \/ Go(u, "done")
      BY <2>7 DEF CleanupFault
    <3> QED BY <2>0, <2>1, <3>1, CleanupBegins DEF CleanupSteps
  <2> QED BY <1>2, <2>2, <2>3, <2>4, <2>5, <2>6, <2>7 DEF CleanupStep
<1> QED BY <1>1, <1>2 DEF UploadStep

-----------------------------------------------------------------------------
(* What the threads and the workers write to the catalogue *)

ThreadWrites(u) ==
  \/ UNCHANGED catalogVars
  \/ \E a \in EventActions : RecordEvent(a, u)
  \/ pc[u] = "reserve" /\ ReserveKey(KeyOf(u), request[u].content, u)
  \/ /\ pc[u] \in {"complete_duplicate", "complete"}
     /\ \E v : Answers(v, u) /\ CompleteKey(KeyOf(u), request[u].content, v)
  \/ pc[u] = "release_key" /\ ReleaseKey(KeyOf(u), request[u].content)
  \/ /\ pc[u] = "insert"
     /\ InsertPending(u, request[u].dataset, request[u].principal, request[u].content)
  \/ pc[u] = "insert_files" /\ \E f \in Paths : InsertFile(u, f)
  \/ pc[u] = "commit" /\ CommitVersion(u)
  \/ pc[u] = "delete_row" /\ DeletePendingVersion(u)

\* The transactions of an upload
LEMMA StepWrites ==
  ASSUME NEW u \in VersionIds, ThreadOK(u), u \in DOMAIN versions => RowOK(u), UploadStep(u)
  PROVE  ThreadWrites(u)
<1>1. CASE OnlyThread \/ OnlyDisk
  BY <1>1 DEF OnlyThread, OnlyDisk, ThreadWrites
<1>2. CASE RecordStarted(u) \/ RecordCommitted(u) \/ RecordAborted(u)
  BY <1>2 DEF RecordStarted, RecordCommitted, RecordAborted, ThreadWrites, EventActions
<1>3. CASE ReserveIdempotencyKey(u)
  BY <1>3 DEF ReserveIdempotencyKey, ThreadWrites
<1>4. CASE InsertPendingVersion(u)
  BY <1>4 DEF InsertPendingVersion, ThreadWrites
<1>5. CASE CompleteDuplicate(u)
  BY <1>5 DEF CompleteDuplicate, ThreadOK, ThreadWrites
<1>6. CASE \E f \in Paths : InsertFileRecord(u, f)
  BY <1>6 DEF InsertFileRecord, ThreadWrites
<1>7. CASE CommitUpload(u)
  BY <1>7 DEF CommitUpload, ThreadWrites
<1>8. CASE CompleteIdempotencyKey(u)
  <2>1. Answers(u, u)
    BY <1>8 DEF CompleteIdempotencyKey, ThreadOK, RowOK, Answers, IsPublished, HasStatus
  <2> QED BY <1>8, <2>1 DEF CompleteIdempotencyKey, ThreadWrites
<1>9. CASE DeleteRow(u) \/ ReleaseIdempotencyKey(u)
  BY <1>9 DEF DeleteRow, ReleaseIdempotencyKey, ThreadWrites
<1>10. \/ OnlyThread \/ OnlyDisk
       \/ RecordStarted(u) \/ RecordCommitted(u) \/ RecordAborted(u)
       \/ ReserveIdempotencyKey(u) \/ InsertPendingVersion(u) \/ CompleteDuplicate(u)
       \/ \E f \in Paths : InsertFileRecord(u, f)
       \/ CommitUpload(u) \/ CompleteIdempotencyKey(u)
       \/ DeleteRow(u) \/ ReleaseIdempotencyKey(u)
  BY DEF UploadStep, BodyStep, CleanupStep, CreateStaging, RejectPayload, HashPayload,
         WritePayload, FindDuplicate, GetPendingVersion, FindDuplicateAgain, WriteCommitReady,
         MakeParent, MoveToFinal, SyncParent, BodyFault, RemoveFinal, RemoveStaging, CleanupFault
<1> QED BY <1>1, <1>2, <1>3, <1>4, <1>5, <1>6, <1>7, <1>8, <1>9, <1>10

\* They are operations of the catalogue.
LEMMA ThreadWritesAllowed ==
  ASSUME CatalogTypeOK, ThreadTypeOK, NEW u \in VersionIds, ThreadOK(u), ThreadWrites(u)
  PROVE  [CatalogNext]_catalogVars
<1> DEFINE id == KeyOf(u)
           c == request[u].content
<1>0. /\ request[u].dataset \in Datasets /\ request[u].principal \in Principals
      /\ c \in Contents
      /\ pc[u] \in KeySteps => id \in KeyIds
  BY ServiceConstants DEF ThreadTypeOK, ThreadOK, HasKey, KeyOf, KeyIds
<1>1. CASE UNCHANGED catalogVars
  BY <1>1
<1>2. CASE \E a \in EventActions : RecordEvent(a, u)
  BY <1>2 DEF VersionOp, CatalogNext
<1>3. CASE pc[u] = "reserve" /\ ReserveKey(id, c, u)
  BY <1>0, <1>3 DEF KeyOp, CatalogNext, KeySteps
<1>4. CASE /\ pc[u] \in {"complete_duplicate", "complete"}
           /\ \E v : Answers(v, u) /\ CompleteKey(id, c, v)
  <2>1. \E v \in VersionIds : CompleteKey(id, c, v)
    BY <1>4 DEF Answers, IsPublished, HasStatus, CatalogTypeOK, IsTable
  <2> QED BY <1>0, <1>4, <2>1 DEF KeyOp, CatalogNext, KeySteps
<1>5. CASE pc[u] = "release_key" /\ ReleaseKey(id, c)
  BY <1>0, <1>5 DEF KeyOp, CatalogNext, KeySteps
<1>6. CASE InsertPending(u, request[u].dataset, request[u].principal, c)
  BY <1>0, <1>6 DEF PendingOp, CatalogNext
<1>7. CASE \/ \E f \in Paths : InsertFile(u, f)
           \/ CommitVersion(u)
           \/ DeletePendingVersion(u)
  BY <1>7 DEF VersionOp, CatalogNext
<1> QED BY <1>1, <1>2, <1>3, <1>4, <1>5, <1>6, <1>7 DEF ThreadWrites

\* The reservations are written with versions that were found for them.
WritesFound ==
  \E found : (\A p \in DOMAIN found : found[p] \in Outcomes(p)) /\ Reconcile(found)

\* The startup recovery commits and deletes rows and reconciles reservations.
WorkerWrites(w) ==
  \/ UNCHANGED catalogVars
  \/ worker[w].step = "recover_commit" /\ CommitVersion(worker[w].current)
  \/ worker[w].step = "clean_row" /\ DeletePendingVersion(worker[w].current)
  \/ worker[w].step = "reconcile_write" /\ WritesFound

\* What _find_committed_version_for_request_hash returns
LEMMA FoundIsOutcome == ASSUME NEW p PROVE FoundFor(p) \in Outcomes(p)
BY DEF FoundFor, Outcomes, CommittedDuplicates, CommittedOf, FoundOnce, IsPublished, HasStatus

\* The transactions of a startup
LEMMA StartupWrites ==
  ASSUME NEW w \in Workers, HasFound(worker[w]), StartupStep(w)
  PROVE  WorkerWrites(w)
<1>1. CASE ReconcileKeys(w)
  <2> DEFINE me == worker[w]
             found == [p \in me.row \cup {q \in me.seen : NeedsWrite(me, q)} |->
                         IF p \in me.row THEN me.current ELSE FoundFor(p)]
  <2>1. me.step = "reconcile_write" /\ Reconcile(found)
    BY <1>1 DEF ReconcileKeys
  <2>2. \A p \in DOMAIN found : found[p] \in Outcomes(p)
    BY <2>1, FoundIsOutcome DEF HasFound
  <2> HIDE DEF found
  <2> QED BY <2>1, <2>2 DEF WorkerWrites, WritesFound
<1>2. CASE ~ReconcileKeys(w)
  BY <1>2 DEF StartupStep, WorkerWrites, Start, RecoverFinal, CleanFinals, RecoverStaged,
       RecoverMove, RecoverCommit, RecoverDone, CleanIncoming, CleanStale, CleanEntries,
       CleanIncomingDone, CleanRemove, CleanRow, ReadReservations, FindReserved, ReconcileDone,
       OnlyWorker
<1> QED BY <1>1, <1>2

\* A reservation that has changed since it was read is left alone, so that what
\* was read outside the transaction does not matter.
LEMMA StaleReadsDoNotMatter ==
  ASSUME CatalogTypeOK, WritesFound
  PROVE  KeyOp
<1> DEFINE now  == {<<id, idem[id].content>> : id \in PendingKeys}
<1>1. PICK found : (\A p \in DOMAIN found : found[p] \in Outcomes(p)) /\ Reconcile(found)
  BY DEF WritesFound
<1> DEFINE read == DOMAIN found \cap now
           found2 == [p \in read |-> found[p]]
           Still(f) == {id \in PendingKeys : <<id, idem[id].content>> \in DOMAIN f}
           Gone(f) == {id \in Still(f) : f[<<id, idem[id].content>>] = NoVersion}
           Table(f) == [id \in DOMAIN idem \ Gone(f) |->
                          IF id \in Still(f) THEN Completed(idem[id], f[<<id, idem[id].content>>])
                          ELSE idem[id]]
<1>2. Still(found2) = Still(found)
  OBVIOUS
<1>3. \A id \in Still(found) :
        found2[<<id, idem[id].content>>] = found[<<id, idem[id].content>>]
  OBVIOUS
<1>4. Gone(found2) = Gone(found)
  <2> HIDE DEF found2
  <2> QED BY <1>2, <1>3
<1>5. Table(found2) = Table(found)
  <2> HIDE DEF found2, Still, Gone
  <2> QED BY <1>2, <1>3, <1>4
<1>6. \A f : Reconcile(f) <=>
              idem' = Table(f) /\ UNCHANGED <<datasets, versions, files, usage, events>>
  BY DEF Reconcile, Written
<1>7. Reconcile(found2)
  <2> HIDE DEF found2, Table
  <2> QED BY <1>1, <1>5, <1>6
<1>8. /\ read \in SUBSET now
      /\ \A p \in read : found2[p] \in FoundOnce(p[1][2], p[2]) \cup {NoVersion}
  BY <1>1 DEF Outcomes
<1>9. found2 \in [read -> VersionIds \cup {NoVersion}]
  BY <1>8 DEF FoundOnce, CatalogTypeOK, IsTable
<1> HIDE DEF found2, read
<1> QED BY <1>7, <1>8, <1>9 DEF KeyOp, ReconcileOp

\* They are operations of the catalogue too.
LEMMA WorkerWritesAllowed ==
  ASSUME CatalogTypeOK, WorkersOK, NEW w \in Workers, WorkerWrites(w)
  PROVE  [CatalogNext]_catalogVars
<1>1. CASE UNCHANGED catalogVars
  BY <1>1
<1>2. CASE worker[w].step \in InHand
           /\ (CommitVersion(worker[w].current) \/ DeletePendingVersion(worker[w].current))
  BY <1>2 DEF WorkersOK, VersionOp, CatalogNext
<1>3. CASE WritesFound
  BY <1>3, StaleReadsDoNotMatter DEF CatalogNext
<1> QED BY <1>1, <1>2, <1>3 DEF WorkerWrites, InHand

\* The catalogue when a request arrives
LEMMA ArriveWrites ==
  ASSUME NEW u, NEW w, NEW r \in Requests, Arrive(u, w, r)
  PROVE  [CatalogNext]_catalogVars
<1>1. r.dataset \in Datasets /\ r.principal \in Principals
  BY ServiceConstants
<1>2. Claim(r.dataset, r.principal) \/ UNCHANGED catalogVars
  BY DEF Arrive
<1> QED BY <1>1, <1>2 DEF DatasetOp, CatalogNext

\* The transactions of a retraction
LEMMA RetractWrites ==
  ASSUME RetractionsOK, NEW call \in RetractCalls, RetractStep(call)
  PROVE  [CatalogNext]_catalogVars
<1>1. CASE \E w \in Workers, v \in VersionIds : ReadForRetraction(call, w, v)
  BY <1>1 DEF ReadForRetraction
<1>2. CASE WriteRetraction(call)
  <2>1. retraction[call].version \in VersionIds /\ IsPublished(retraction[call].version)
        /\ RetractVersion(retraction[call].version, call)
    BY <1>2 DEF WriteRetraction, RetractionsOK
  <2> QED BY <2>1 DEF VersionOp, CatalogNext
<1>3. CASE RecordRetraction(call)
  <2>1. retraction[call].version \in VersionIds /\ RecordEvent("retracted", retraction[call].version)
    BY <1>3 DEF RecordRetraction, RetractionsOK
  <2> QED BY <2>1 DEF VersionOp, CatalogNext, EventActions
<1> QED BY <1>1, <1>2, <1>3 DEF RetractStep

\* Every step of the service is an operation of the catalogue, or leaves it alone.
LEMMA ServiceWrites ==
  ASSUME ServiceInv, [UploadNext]_vars
  PROVE  [CatalogNext]_catalogVars
<1> USE DEF ServiceInv
<1>0. CatalogTypeOK /\ ThreadTypeOK
  BY DEF UploadTypeOK, ThreadTypeOK
<1>1. ASSUME NEW u \in VersionIds, UploadStep(u) PROVE [CatalogNext]_catalogVars
  BY <1>0, <1>1, StepWrites, ThreadWritesAllowed
<1>2. ASSUME NEW w \in Workers, StartupStep(w) PROVE [CatalogNext]_catalogVars
  BY <1>0, <1>2, StartupWrites, WorkerWritesAllowed DEF WorkersOK
<1>3. ASSUME NEW w \in Workers, Crash(w) PROVE UNCHANGED catalogVars
  BY <1>3 DEF Crash
<1>4. ASSUME UNCHANGED vars PROVE UNCHANGED catalogVars
  BY <1>4 DEF vars
<1>5. ASSUME TimePasses PROVE UNCHANGED catalogVars
  BY <1>5 DEF TimePasses
<1> QED BY <1>1, <1>2, <1>3, <1>4, <1>5, ArriveWrites, RetractWrites DEF UploadNext

-----------------------------------------------------------------------------
(* Type correctness of the service *)

DiskTypeOK ==
  /\ incoming \in [VersionIds -> SUBSET Entries]
  /\ final \in [VersionIds -> SUBSET Entries]
  /\ parents \subseteq Datasets

\* A request that arrives
LEMMA ArriveMoves ==
  ASSUME ThreadTypeOK, NEW u \in VersionIds, NEW w \in Workers, NEW r \in Requests,
         Arrive(u, w, r)
  PROVE  /\ ThreadTypeOK'
         /\ pc[u] = "idle" /\ worker[w].step = "up"
         /\ request'[u] = r /\ home'[u] = w /\ flags'[u] = flags[u]
         /\ \/ /\ pc'[u] = "record_started" /\ answer'[u] = answer[u]
               /\ Claim(r.dataset, r.principal)
            \/ /\ pc'[u] = "done" /\ answer'[u] = "not_owner"
               /\ UNCHANGED catalogVars
         /\ \A x \in VersionIds \ {u} : Same(x)
         /\ UNCHANGED <<disk, worker, aged, retraction>>
BY DEF ThreadTypeOK, Arrive, Same, Steps, BodySteps, Errors

\* A thread leaves the workers, the clock and the retractions alone.
LEMMA StepFrame ==
  ASSUME NEW u \in VersionIds, UploadStep(u)
  PROVE  UNCHANGED <<worker, aged, retraction>>
BY DEF UploadStep, BodyStep, CleanupStep, RecordStarted, CreateStaging, RejectPayload,
       HashPayload, WritePayload, ReserveIdempotencyKey, FindDuplicate, InsertPendingVersion,
       GetPendingVersion, FindDuplicateAgain, CompleteDuplicate, InsertFileRecord,
       WriteCommitReady, MakeParent, MoveToFinal, SyncParent, CommitUpload,
       CompleteIdempotencyKey, RecordCommitted, BodyFault, RecordAborted, RemoveFinal,
       DeleteRow, ReleaseIdempotencyKey, RemoveStaging, CleanupFault,
       OnlyThread, OnlyCatalog, OnlyDisk

\* What one step of a thread does to the directories
ThreadMovesDisk(u) ==
  \/ UNCHANGED disk
  \/ /\ pc[u] = "create_staging"
     /\ incoming' = [incoming EXCEPT ![u] = {"dir"}] /\ UNCHANGED <<final, parents>>
  \/ /\ pc[u] = "write_payload"
     /\ \E x \in Payload : incoming' = [incoming EXCEPT ![u] = @ \cup {x}]
     /\ UNCHANGED <<final, parents>>
  \/ /\ pc[u] = "write_ready"
     /\ incoming' = [incoming EXCEPT ![u] = @ \cup {"ready"}] /\ UNCHANGED <<final, parents>>
  \/ /\ pc[u] = "mkdir_parent"
     /\ parents' = parents \cup {request[u].dataset} /\ UNCHANGED <<incoming, final>>
  \/ /\ pc[u] = "move"
     /\ final' = [final EXCEPT ![u] = incoming[u]]
     /\ incoming' = [incoming EXCEPT ![u] = {}]
     /\ UNCHANGED parents
  \/ /\ pc[u] = "remove_final" /\ RemoveVersionDir(u)
  \/ /\ pc[u] = "remove_staging"
     /\ incoming' = [incoming EXCEPT ![u] = {}] /\ UNCHANGED <<final, parents>>

\* The changes an upload makes to the file system
LEMMA StepMovesDisk ==
  ASSUME NEW u \in VersionIds, UploadStep(u)
  PROVE  ThreadMovesDisk(u)
<1>1. CASE OnlyThread \/ OnlyCatalog
  BY <1>1 DEF OnlyThread, OnlyCatalog, ThreadMovesDisk
<1>2. CASE \/ CreateStaging(u) \/ \E x \in Payload : WritePayload(u, x)
           \/ WriteCommitReady(u) \/ MoveToFinal(u) \/ RemoveStaging(u) \/ RemoveFinal(u)
  BY <1>2 DEF ThreadMovesDisk, CreateStaging, WritePayload, WriteCommitReady, MoveToFinal,
              RemoveStaging, RemoveFinal, disk
<1>3. CASE MakeParent(u)
  BY <1>3 DEF ThreadMovesDisk, MakeParent, disk
<1>4. \/ OnlyThread \/ OnlyCatalog
      \/ CreateStaging(u) \/ (\E x \in Payload : WritePayload(u, x))
      \/ WriteCommitReady(u) \/ MoveToFinal(u) \/ RemoveStaging(u) \/ RemoveFinal(u)
      \/ MakeParent(u)
  BY DEF UploadStep, BodyStep, CleanupStep, RecordStarted, RejectPayload,
         HashPayload, ReserveIdempotencyKey, FindDuplicate, InsertPendingVersion,
         GetPendingVersion, FindDuplicateAgain, CompleteDuplicate, InsertFileRecord,
         SyncParent, CommitUpload, CompleteIdempotencyKey, RecordCommitted, BodyFault,
         RecordAborted, DeleteRow, ReleaseIdempotencyKey, CleanupFault
<1> QED BY <1>1, <1>2, <1>3, <1>4

\* rmdir and unlink leave well-typed directories.
LEMMA RemoveVersionDirType ==
  ASSUME DiskTypeOK, NEW v, RemoveVersionDir(v) PROVE DiskTypeOK'
<1>1. CASE final[v] # {}
  <2>1. PICK x : final' = [final EXCEPT ![v] = @ \ {x}]
    BY <1>1 DEF RemoveVersionDir
  <2>2. UNCHANGED <<incoming, parents>>
    BY <1>1 DEF RemoveVersionDir
  <2> QED BY <2>1, <2>2 DEF DiskTypeOK
<1>2. CASE final[v] = {}
  BY <1>2 DEF RemoveVersionDir, WithoutEmptyParent, DiskTypeOK
<1> QED BY <1>1, <1>2

\* An upload only makes well-typed directories.
LEMMA StepDiskType ==
  ASSUME ThreadTypeOK, DiskTypeOK, NEW u \in VersionIds, UploadStep(u)
  PROVE  DiskTypeOK'
<1>1. request[u].dataset \in Datasets
  BY ServiceConstants DEF ThreadTypeOK
<1>2. CASE RemoveVersionDir(u)
  BY <1>2, RemoveVersionDirType
<1>3. CASE UNCHANGED disk
  BY <1>3 DEF DiskTypeOK, disk
<1>4. CASE ~RemoveVersionDir(u) /\ ~UNCHANGED disk
  BY <1>1, <1>4, StepMovesDisk DEF ThreadMovesDisk, DiskTypeOK, Entries
<1> QED BY <1>2, <1>3, <1>4

\* Every state a worker enters is one.
LEMMA AtType ==
  ASSUME NEW step \in WorkerSteps, NEW todo \in SUBSET VersionIds,
         NEW current \in VersionIds \cup {NoVersion}
  PROVE  At(step, todo, current) \in WorkerState
BY DEF At, WorkerState

\* A startup step moves one worker to a state of WorkerState, and to one that has
\* a row in hand only with the id of the row, or with a version found for it.
LEMMA StartupMoves ==
  ASSUME UploadTypeOK, WorkersOK, NEW w \in Workers, StartupStep(w)
  PROVE  /\ UNCHANGED <<thread, aged, retraction>>
         /\ \E state \in WorkerState :
              /\ worker' = [worker EXCEPT ![w] = state]
              /\ state.step \in InHand => state.current \in VersionIds
              /\ HasFound(state)
<1> DEFINE me == worker[w]
<1> DEFINE Goal == /\ UNCHANGED <<thread, aged, retraction>>
                   /\ \E state \in WorkerState :
                        /\ worker' = [worker EXCEPT ![w] = state]
                        /\ state.step \in InHand => state.current \in VersionIds
                        /\ HasFound(state)
<1> SUFFICES Goal
  OBVIOUS
<1>0. /\ me \in WorkerState /\ me.todo \subseteq VersionIds
      /\ me.current \in VersionIds \cup {NoVersion}
      /\ PendingVersions \subseteq VersionIds
  BY DEF UploadTypeOK, WorkerState, PendingVersions, CatalogTypeOK, IsTable
<1>a. ASSUME NEW step \in WorkerSteps, NEW todo \in SUBSET VersionIds,
             NEW current \in VersionIds \cup {NoVersion},
             step \in InHand => current \in VersionIds, step # "reconcile_write",
             Enter(w, At(step, todo, current)),
             UNCHANGED <<thread, aged, retraction>>
      PROVE  Goal
  <2>1. At(step, todo, current) \in WorkerState
    BY AtType
  <2>2. At(step, todo, current).step = step /\ At(step, todo, current).current = current
    BY DEF At
  <2> QED BY <1>a, <2>1, <2>2 DEF Enter, HasFound
<1>b. ASSUME NEW state \in WorkerState, state.step \notin InHand, HasFound(state),
             Enter(w, state), UNCHANGED <<thread, aged, retraction>>
      PROVE  Goal
  BY <1>b DEF Enter
<1> HIDE DEF Goal
<1> USE DEF WorkerSteps, InHand
<1>1. CASE Start(w)
  BY <1>0, <1>1, <1>a DEF Start, OnlyWorker
<1>2. ASSUME NEW v \in VersionIds, RecoverFinal(w, v) PROVE Goal
  BY <1>0, <1>2, <1>a DEF RecoverFinal, OnlyWorker
<1>3. ASSUME NEW v \in VersionIds, CleanFinals(w, v) PROVE Goal
  <2>1. \/ Enter(w, At("clean_remove", me.todo \ {v}, v))
        \/ Enter(w, At("clean_row", me.todo \ {v}, v))
    BY <1>3 DEF CleanFinals
  <2>2. UNCHANGED <<thread, aged, retraction>>
    BY <1>3 DEF CleanFinals
  <2> QED BY <1>0, <1>a, <2>1, <2>2
<1>4. CASE RecoverStaged(w)
  <2>1. me.current \in VersionIds
    BY <1>4 DEF RecoverStaged, WorkersOK
  <2>2. \/ Enter(w, At("recover_move", me.todo, me.current))
        \/ Enter(w, At("recover", me.todo, me.current))
    BY <1>4 DEF RecoverStaged
  <2>3. UNCHANGED <<thread, aged, retraction>>
    BY <1>4 DEF RecoverStaged, OnlyWorker
  <2> QED BY <1>0, <1>a, <2>1, <2>2, <2>3
<1>5. CASE RecoverMove(w)
  <2>1. me.current \in VersionIds
    BY <1>5 DEF RecoverMove, WorkersOK
  <2>2. \/ Enter(w, At("recover_commit", me.todo, me.current))
        \/ Enter(w, At("down", {}, NoVersion))
    BY <1>5 DEF RecoverMove
  <2>3. UNCHANGED <<thread, aged, retraction>>
    BY <1>5 DEF RecoverMove
  <2> QED BY <1>0, <1>a, <2>1, <2>2, <2>3
<1>6. CASE RecoverCommit(w)
  BY <1>0, <1>6, <1>a DEF RecoverCommit
<1>7. CASE RecoverDone(w)
  <2>1. Enter(w, At("clean_incoming", PendingVersions, NoVersion))
    BY <1>7 DEF RecoverDone
  <2>2. UNCHANGED <<thread, aged, retraction>>
    BY <1>7 DEF RecoverDone, OnlyWorker
  <2> QED BY <1>0, <1>a, <2>1, <2>2
<1>8. CASE CleanIncoming(w)
  <2>1. {v \in aged \ me.todo : incoming[v] # {}} \in SUBSET VersionIds
    BY DEF UploadTypeOK
  <2> QED BY <2>1, <1>8, <1>a DEF CleanIncoming, OnlyWorker
<1>9. CASE CleanRemove(w)
  <2>1. me.current \in VersionIds
    BY <1>9 DEF CleanRemove, WorkersOK
  <2>2. UNCHANGED <<thread, aged, retraction>>
    BY <1>9 DEF CleanRemove
  <2>3. CASE Enter(w, At("clean_row", me.todo, me.current))
    BY <1>0, <1>a, <2>1, <2>2, <2>3
  <2>4. CASE Enter(w, me)
    BY <1>0, <1>9, <2>1, <2>2, <2>4 DEF Enter, Goal, CleanRemove, HasFound
  <2> QED BY <1>9, <2>3, <2>4 DEF CleanRemove
<1>10. CASE CleanRow(w)
  BY <1>0, <1>10, <1>a DEF CleanRow
<1>11. CASE ReadReservations(w)
  <2> DEFINE seen == {<<id, idem[id].content>> : id \in KeysToReconcile}
             old  == {<<id, idem[id].content>> : id \in {k \in PendingKeys : idem[k].by \in aged}}
  <2>1. \A id \in PendingKeys : id \in KeyIds /\ idem[id].content \in Contents
    BY DEF UploadTypeOK, CatalogTypeOK, IsTable, KeyRow, PendingKeys
  <2>2. seen \in SUBSET (KeyIds \X Contents) /\ old \in SUBSET (KeyIds \X Contents)
    BY <2>1 DEF KeysToReconcile
  <2>3. PICK state : state = [At("reconcile", {}, NoVersion) EXCEPT !.seen = seen, !.old = old]
    OBVIOUS
  <2>4. At("reconcile", {}, NoVersion) \in WorkerState
    BY AtType
  <2>5. worker' = [worker EXCEPT ![w] = state]
    BY <1>11, <2>3 DEF ReadReservations, Enter
  <2>6. UNCHANGED <<thread, aged, retraction>>
    BY <1>11 DEF ReadReservations, OnlyWorker
  <2> HIDE DEF seen, old
  <2>7. state \in WorkerState
    BY <2>2, <2>3, <2>4 DEF WorkerState
  <2>8. state.step = "reconcile"
    BY <2>3 DEF At
  <2> QED BY <2>5, <2>6, <2>7, <2>8 DEF Goal, HasFound
<1>12. CASE ReconcileKeys(w)
  BY <1>0, <1>12, <1>a DEF ReconcileKeys
<1>13. CASE ReconcileDone(w)
  BY <1>0, <1>13, <1>a DEF ReconcileDone, OnlyWorker
<1>14. CASE CleanIncomingDone(w)
  <2>1. PendingVersions \cap aged \in SUBSET VersionIds
    BY <1>0
  <2> QED BY <2>1, <1>14, <1>a DEF CleanIncomingDone, OnlyWorker
<1>15. CASE CleanEntries(w)
  <2>1. \/ Enter(w, At("clean_stale", me.todo, NoVersion))
        \/ Enter(w, At("down", {}, NoVersion))
    BY <1>15 DEF CleanEntries
  <2>2. UNCHANGED <<thread, aged, retraction>>
    BY <1>15 DEF CleanEntries
  <2> QED BY <1>0, <1>a, <2>1, <2>2
<1>16. ASSUME NEW v \in VersionIds, CleanStale(w, v) PROVE Goal
  <2> DEFINE at == At("clean_entries", me.todo \ {v}, v)
  <2>1. UNCHANGED <<thread, aged, retraction>>
    BY <1>16 DEF CleanStale, OnlyWorker
  <2>2. CASE Enter(w, At("clean_stale", me.todo \ {v}, NoVersion))
    BY <1>0, <1>a, <2>1, <2>2
  <2>3. CASE Enter(w, [at EXCEPT !.left = incoming[v]])
    <3>1. at \in WorkerState /\ at.step = "clean_entries"
      BY <1>0, AtType DEF At
    <3>2. incoming[v] \in SUBSET Entries
      BY DEF UploadTypeOK
    <3> HIDE DEF at
    <3>3. PICK state : state = [at EXCEPT !.left = incoming[v]]
      OBVIOUS
    <3>4. state \in WorkerState /\ state.step = "clean_entries"
      BY <3>1, <3>2, <3>3 DEF WorkerState
    <3> QED BY <1>b, <2>1, <2>3, <3>3, <3>4 DEF HasFound
  <2> QED BY <1>16, <2>2, <2>3 DEF CleanStale
<1>17. ASSUME NEW p \in me.seen, FindReserved(w, p) PROVE Goal
  <2>1. UNCHANGED <<thread, aged, retraction>> /\ me.step = "reconcile"
    BY <1>17 DEF FindReserved, OnlyWorker
  <2>2. p \in KeyIds \X Contents
    BY <1>0 DEF WorkerState
  <2>3. PICK found : found = FoundFor(p)
    OBVIOUS
  <2>4. found \in Outcomes(p) /\ found \in VersionIds \cup {NoVersion}
    BY <2>3, FoundIsOutcome DEF Outcomes, FoundOnce, UploadTypeOK, CatalogTypeOK, IsTable
  <2>5. CASE Enter(w, [me EXCEPT !.seen = @ \ {p}])
    <3> DEFINE state == [me EXCEPT !.seen = @ \ {p}]
    <3>1. state \in WorkerState /\ state.step = "reconcile"
      BY <1>0, <2>1 DEF WorkerState
    <3> HIDE DEF state
    <3> QED BY <1>b, <2>1, <2>5, <3>1 DEF HasFound, state
  <2>6. CASE Enter(w, [me EXCEPT !.step = "reconcile_write", !.seen = @ \ {p},
                                 !.old = @ \ {p}, !.row = {p}, !.current = found])
    <3>1. PICK state : state = [me EXCEPT !.step = "reconcile_write", !.seen = @ \ {p},
                                          !.old = @ \ {p}, !.row = {p}, !.current = found]
      OBVIOUS
    <3>2. /\ state \in WorkerState /\ state.step = "reconcile_write"
          /\ state.row = {p} /\ state.current = found
      BY <1>0, <2>2, <2>4, <3>1 DEF WorkerState
    <3>3. HasFound(state)
      BY <2>4, <3>2 DEF HasFound
    <3> QED BY <1>b, <2>1, <2>6, <3>1, <3>2, <3>3
  <2> QED BY <1>17, <2>3, <2>5, <2>6 DEF FindReserved
<1> QED
  BY <1>1, <1>2, <1>3, <1>4, <1>5, <1>6, <1>7, <1>8, <1>9, <1>10, <1>11, <1>12, <1>13, <1>14,
     <1>15, <1>16, <1>17 DEF StartupStep

\* Recovery only makes well-typed directories.
LEMMA StartupDiskType ==
  ASSUME UploadTypeOK, WorkersOK, NEW w \in Workers, StartupStep(w)
  PROVE  DiskTypeOK'
<1>0. DiskTypeOK /\ \A v \in VersionIds : request[v].dataset \in Datasets
  BY ServiceConstants DEF UploadTypeOK, DiskTypeOK
<1>1. CASE UNCHANGED disk
  BY <1>0, <1>1 DEF DiskTypeOK, disk
<1>2. ASSUME NEW v \in VersionIds, CleanFinals(w, v) PROVE DiskTypeOK'
  <2>1. UNCHANGED disk \/ (incoming' = [incoming EXCEPT ![v] = {}] /\ UNCHANGED <<final, parents>>)
    BY <1>2 DEF CleanFinals
  <2> QED BY <1>0, <1>1, <2>1 DEF DiskTypeOK
<1>3. CASE RecoverMove(w)
  <2>1. worker[w].current \in VersionIds
    BY <1>3 DEF RecoverMove, WorkersOK, InHand
  <2> QED BY <1>0, <1>1, <1>3, <2>1 DEF RecoverMove, DiskTypeOK
<1>4. CASE CleanEntries(w)
  <2>1. UNCHANGED <<final, parents>>
    BY <1>4 DEF CleanEntries
  <2>2. CASE UNCHANGED incoming
    BY <1>0, <2>1, <2>2 DEF DiskTypeOK
  <2>3. CASE incoming' = [incoming EXCEPT ![worker[w].current] = {}]
    BY <1>0, <2>1, <2>3 DEF DiskTypeOK
  <2>4. CASE \E x : incoming' = [incoming EXCEPT ![worker[w].current] = @ \ {x}]
    BY <1>0, <2>1, <2>4 DEF DiskTypeOK
  <2> QED BY <1>4, <2>2, <2>3, <2>4 DEF CleanEntries
<1>5. CASE CleanRemove(w)
  BY <1>0, <1>5, RemoveVersionDirType DEF CleanRemove
<1>6. \/ UNCHANGED disk \/ (\E v \in VersionIds : CleanFinals(w, v))
      \/ RecoverMove(w) \/ CleanEntries(w) \/ CleanRemove(w)
  BY DEF StartupStep, Start, RecoverFinal, RecoverStaged, RecoverCommit, RecoverDone, CleanRow,
         CleanIncoming, CleanStale, CleanIncomingDone, ReadReservations, FindReserved,
         ReconcileKeys, ReconcileDone, OnlyWorker
<1> QED BY <1>1, <1>2, <1>3, <1>4, <1>5, <1>6

\* A kill changes nothing that is kept, and threads only to "dead".
LEMMA CrashMoves ==
  ASSUME ThreadTypeOK, NEW w \in Workers, Crash(w)
  PROVE  /\ ThreadTypeOK'
         /\ worker' = [worker EXCEPT ![w] = At("down", {}, NoVersion)]
         /\ \A u \in VersionIds :
              /\ request'[u] = request[u] /\ home'[u] = home[u]
              /\ flags'[u] = flags[u] /\ answer'[u] = answer[u]
              /\ pc'[u] = IF Running(u) /\ home[u] = w THEN "dead" ELSE pc[u]
         /\ \A c \in RetractCalls :
              retraction'[c] = IF retraction[c].step \in {"write", "record"} /\ retraction[c].home = w
                               THEN [retraction[c] EXCEPT !.step = "dead"] ELSE retraction[c]
         /\ UNCHANGED <<catalogVars, disk, aged>>
<1>1. pc' \in [VersionIds -> Steps]
  BY DEF Crash, ThreadTypeOK, Steps
<1> QED BY <1>1 DEF Crash, ThreadTypeOK, Enter

\* The catalogue stays well-typed.
LEMMA CatalogTypeStep ==
  ASSUME CatalogTypeOK, [CatalogNext]_catalogVars
  PROVE  CatalogTypeOK'
<1>1. CASE CatalogNext
  BY <1>1, DatasetOpType, PendingOpType, VersionOpType, KeyOpType DEF CatalogNext
<1>2. CASE UNCHANGED catalogVars
  BY <1>2 DEF catalogVars, CatalogTypeOK, IsTable
<1> QED BY <1>1, <1>2

\* The states of retract_version's callers stay well-typed.
LEMMA RetractionType ==
  ASSUME retraction \in [RetractCalls -> RetractionState], NEW call \in RetractCalls,
         RetractStep(call)
  PROVE  retraction' \in [RetractCalls -> RetractionState]
<1>1. ASSUME NEW w \in Workers, NEW v \in VersionIds, ReadForRetraction(call, w, v)
      PROVE  retraction' \in [RetractCalls -> RetractionState]
  BY <1>1 DEF ReadForRetraction, RetractionState
<1>2. CASE WriteRetraction(call) \/ RecordRetraction(call)
  BY <1>2 DEF WriteRetraction, RecordRetraction, Retraction, RetractionState
<1> QED BY <1>1, <1>2 DEF RetractStep

\* UploadTypeOK is preserved, given which rows the workers have in hand.
LEMMA UploadTypeStep ==
  ASSUME ServiceInv, [UploadNext]_vars
  PROVE  UploadTypeOK'
<1> USE DEF ServiceInv
<1>0. /\ ThreadTypeOK /\ DiskTypeOK /\ CatalogTypeOK /\ UploadTypeOK
  BY DEF UploadTypeOK, ThreadTypeOK, DiskTypeOK
<1>1. CatalogTypeOK'
  BY <1>0, ServiceWrites, CatalogTypeStep
<1>2. SUFFICES /\ ThreadTypeOK' /\ DiskTypeOK'
               /\ worker' \in [Workers -> WorkerState]
               /\ aged' \subseteq VersionIds
               /\ retraction' \in [RetractCalls -> RetractionState]
  BY <1>1 DEF UploadTypeOK, ThreadTypeOK, DiskTypeOK
<1>3. /\ worker \in [Workers -> WorkerState] /\ aged \subseteq VersionIds
      /\ retraction \in [RetractCalls -> RetractionState]
  BY DEF UploadTypeOK
<1>4. ASSUME NEW u \in VersionIds, UploadStep(u)
      PROVE  /\ ThreadTypeOK' /\ DiskTypeOK'
             /\ worker' \in [Workers -> WorkerState] /\ aged' \subseteq VersionIds
             /\ retraction' \in [RetractCalls -> RetractionState]
  <2>1. ThreadTypeOK'
    BY <1>0, <1>4, ThreadMoves DEF Moves
  <2>2. DiskTypeOK'
    BY <1>0, <1>4, StepDiskType
  <2> QED BY <1>3, <1>4, <2>1, <2>2, StepFrame
<1>5. ASSUME NEW u \in VersionIds, NEW w \in Workers, NEW r \in Requests, Arrive(u, w, r)
      PROVE  /\ ThreadTypeOK' /\ DiskTypeOK'
             /\ worker' \in [Workers -> WorkerState] /\ aged' \subseteq VersionIds
             /\ retraction' \in [RetractCalls -> RetractionState]
  <2>1. ThreadTypeOK' /\ UNCHANGED <<disk, worker, aged, retraction>>
    BY <1>0, <1>5, ArriveMoves
  <2> QED BY <1>0, <1>3, <2>1 DEF DiskTypeOK, disk
<1>6. ASSUME NEW w \in Workers, StartupStep(w)
      PROVE  /\ ThreadTypeOK' /\ DiskTypeOK'
             /\ worker' \in [Workers -> WorkerState] /\ aged' \subseteq VersionIds
             /\ retraction' \in [RetractCalls -> RetractionState]
  <2>1. UNCHANGED <<thread, aged, retraction>> /\ worker' \in [Workers -> WorkerState]
    BY <1>0, <1>3, <1>6, StartupMoves
  <2>2. DiskTypeOK'
    BY <1>0, <1>6, StartupDiskType
  <2> QED BY <1>0, <1>3, <2>1, <2>2 DEF ThreadTypeOK, thread
<1>7. ASSUME NEW w \in Workers, Crash(w)
      PROVE  /\ ThreadTypeOK' /\ DiskTypeOK'
             /\ worker' \in [Workers -> WorkerState] /\ aged' \subseteq VersionIds
             /\ retraction' \in [RetractCalls -> RetractionState]
  <2>1. ThreadTypeOK' /\ UNCHANGED <<disk, aged>>
        /\ worker' = [worker EXCEPT ![w] = At("down", {}, NoVersion)]
    BY <1>0, <1>7, CrashMoves
  <2>2. At("down", {}, NoVersion) \in WorkerState
    BY AtType DEF WorkerSteps
  <2>3. retraction' \in [RetractCalls -> RetractionState]
    BY <1>3, <1>7 DEF Crash, RetractionState
  <2> QED BY <1>0, <1>3, <2>1, <2>2, <2>3 DEF DiskTypeOK, disk
<1>8. ASSUME NEW call \in RetractCalls, RetractStep(call)
      PROVE  /\ ThreadTypeOK' /\ DiskTypeOK'
             /\ worker' \in [Workers -> WorkerState] /\ aged' \subseteq VersionIds
             /\ retraction' \in [RetractCalls -> RetractionState]
  <2>1. UNCHANGED <<disk, thread, worker, aged>>
    BY <1>8 DEF RetractStep, ReadForRetraction, WriteRetraction, RecordRetraction, OnlyRetraction
  <2> QED BY <1>0, <1>3, <1>8, <2>1, RetractionType DEF ThreadTypeOK, DiskTypeOK, disk, thread
<1>9. CASE TimePasses
  BY <1>0, <1>3, <1>9 DEF TimePasses, ThreadTypeOK, DiskTypeOK, disk, thread
<1>10. CASE UNCHANGED vars
  BY <1>0, <1>3, <1>10 DEF vars, ThreadTypeOK, DiskTypeOK, disk, thread
<1> QED BY <1>4, <1>5, <1>6, <1>7, <1>8, <1>9, <1>10 DEF UploadNext

-----------------------------------------------------------------------------
(* The invariant is inductive *)

\* A version that answers a request keeps answering it.
LEMMA AnswersStay ==
  ASSUME CatalogTypeOK, [CatalogNext]_catalogVars, NEW x, request'[x] = request[x],
         Answers(answer'[x], x)
  PROVE  Answers(answer[x], x)'
<1>1. PICK v : v = answer'[x]
  OBVIOUS
<1>2. Answers(v, x)
  BY <1>1
<1>3. IsPublished(v)' /\ Frame(v)
  BY <1>2, CatalogPersists DEF Answers
<1> QED BY <1>1, <1>2, <1>3 DEF Answers, Frame, IsPublished, HasStatus

\* A thread that does not move keeps its part of the invariant: claims and
\* published versions do not go away.
LEMMA OtherThreads ==
  ASSUME CatalogTypeOK, [CatalogNext]_catalogVars, NEW x, Same(x), ThreadOK(x)
  PROVE  ThreadOK(x)'
<1>1. /\ \A p, d : Claimed(p, d) => Claimed(p, d)'
      /\ \A v : IsPublished(v) => IsPublished(v)' /\ Frame(v)
  BY CatalogPersists
<1>2. pc[x] \in BodySteps => Claimed(request[x].principal, request[x].dataset)'
  BY <1>1 DEF ThreadOK, Same, Claimed
<1>3. pc[x] \in {"complete", "record_committed"} \/ "committed" \in flags[x] => IsPublished(x)'
  BY <1>1 DEF ThreadOK
<1>4. answer'[x] \in VersionIds => Answers(answer[x], x)'
  BY AnswersStay DEF ThreadOK, Same
<1> QED BY <1>2, <1>3, <1>4 DEF ThreadOK, Same, HasKey

\* A thread that moves does.
LEMMA MovingThread ==
  ASSUME CatalogTypeOK, [CatalogNext]_catalogVars, NEW u \in VersionIds, ThreadOK(u),
         NEW s, NEW fl, NEW result, Moves(u, s, fl, result), Proper(u, s, fl, result)
  PROVE  ThreadOK(u)'
<1>0. /\ pc'[u] = s /\ flags'[u] = fl /\ answer'[u] = result /\ request'[u] = request[u]
  BY DEF Moves
<1>1. /\ \A p, d : Claimed(p, d) => Claimed(p, d)'
      /\ \A v : IsPublished(v) => IsPublished(v)' /\ Frame(v)
  BY CatalogPersists
<1>2. s \in BodySteps => Claimed(request[u].principal, request[u].dataset)'
  BY <1>0, <1>1 DEF ThreadOK, Proper, Claimed
<1>3. s \in {"complete", "record_committed"} \/ "committed" \in fl => IsPublished(u)'
  BY <1>1 DEF Proper, IsPublished
<1>4. answer'[u] \in VersionIds => Answers(answer[u], u)'
  BY <1>0, AnswersStay DEF Proper
<1> QED BY <1>0, <1>2, <1>3, <1>4 DEF ThreadOK, Proper, HasKey

\* A request that arrives has a claim, or is refused.
LEMMA ArrivedThread ==
  ASSUME CatalogTypeOK, ThreadTypeOK, NEW u \in VersionIds, ThreadOK(u),
         NEW w \in Workers, NEW r \in Requests, Arrive(u, w, r)
  PROVE  ThreadOK(u)'
<1>1. /\ pc[u] = "idle" /\ request'[u] = r /\ flags'[u] = {}
      /\ \/ /\ pc'[u] = "record_started" /\ answer'[u] = "none"
            /\ Claim(r.dataset, r.principal)
         \/ pc'[u] = "done" /\ answer'[u] = "not_owner"
  BY ArriveMoves DEF ThreadOK
<1>2. Claim(r.dataset, r.principal) => Claimed(r.principal, r.dataset)'
  BY DEF Claim, ClaimConflict, Claimed, Put
<1>3. pc'[u] = "record_started" => Claimed(request[u].principal, request[u].dataset)'
  BY <1>1, <1>2 DEF Claimed
<1>4. "none" \notin VersionIds /\ "not_owner" \notin VersionIds
  BY ErrorsAreNoVersions DEF Errors
<1> QED BY <1>1, <1>3, <1>4 DEF ThreadOK, KeySteps, BodySteps

\* Whatever the service does next, every thread keeps to ThreadOK.
LEMMA ThreadsStep ==
  ASSUME ServiceInv, [UploadNext]_vars, NEW x \in VersionIds
  PROVE  ThreadOK(x)'
<1> USE DEF ServiceInv
<1>0. CatalogTypeOK /\ ThreadTypeOK /\ [CatalogNext]_catalogVars
  BY ServiceWrites DEF UploadTypeOK, ThreadTypeOK
<1>1. CASE Same(x)
  BY <1>0, <1>1, OtherThreads
<1>2. ASSUME NEW u \in VersionIds, UploadStep(u) PROVE ThreadOK(x)'
  <2>1. PICK s \in Steps, fl \in SUBSET Flags, result \in VersionIds \cup Errors :
          Moves(u, s, fl, result) /\ Proper(u, s, fl, result)
    BY <1>0, <1>2, ThreadMoves
  <2>2. CASE x = u
    BY <1>0, <2>1, <2>2, MovingThread
  <2>3. CASE x # u
    BY <1>1, <2>1, <2>3 DEF Moves
  <2> QED BY <2>2, <2>3
<1>3. ASSUME NEW u \in VersionIds, NEW w \in Workers, NEW r \in Requests, Arrive(u, w, r)
      PROVE  ThreadOK(x)'
  <2>1. CASE x = u
    BY <1>0, <1>3, <2>1, ArrivedThread
  <2>2. CASE x # u
    BY <1>0, <1>1, <1>3, <2>2, ArriveMoves
  <2> QED BY <2>1, <2>2
<1>4. CASE UNCHANGED thread
  BY <1>1, <1>4 DEF thread, Same
<1>5. ASSUME NEW w \in Workers, Crash(w) PROVE ThreadOK(x)'
  <2>1. /\ request'[x] = request[x] /\ home'[x] = home[x]
        /\ flags'[x] = flags[x] /\ answer'[x] = answer[x]
        /\ pc'[x] = "dead" \/ pc'[x] = pc[x]
        /\ Running(x) \/ pc'[x] = pc[x]
        /\ UNCHANGED catalogVars
    BY <1>0, <1>5, CrashMoves
  <2>2. CASE pc'[x] = pc[x]
    BY <1>1, <2>1, <2>2 DEF Same
  <2>3. CASE pc'[x] = "dead"
    BY <2>1, <2>3 DEF ThreadOK, KeySteps, BodySteps, HasKey, Answers, IsPublished, HasStatus,
                      catalogVars
  <2> QED BY <2>1, <2>2, <2>3
<1>6. \/ UNCHANGED thread
      \/ \E u \in VersionIds : UploadStep(u) \/ \E w \in Workers, r \in Requests : Arrive(u, w, r)
      \/ \E w \in Workers : Crash(w)
  <2>1. ASSUME NEW w \in Workers, StartupStep(w) PROVE UNCHANGED thread
    BY <2>1, StartupMoves
  <2>2. ASSUME NEW call \in RetractCalls, RetractStep(call) PROVE UNCHANGED thread
    BY <2>2 DEF RetractStep, ReadForRetraction, WriteRetraction, RecordRetraction, OnlyRetraction
  <2>3. ASSUME TimePasses \/ UNCHANGED vars PROVE UNCHANGED thread
    BY <2>3 DEF TimePasses, vars
  <2> QED BY <2>1, <2>2, <2>3 DEF UploadNext
<1> QED BY <1>2, <1>3, <1>4, <1>5, <1>6

\* What was asked does not change once it has been asked.
LEMMA RequestsStay ==
  ASSUME ServiceInv, [UploadNext]_vars, NEW x \in VersionIds, pc[x] # "idle"
  PROVE  request'[x] = request[x] /\ pc'[x] # "idle"
<1> USE DEF ServiceInv
<1>0. CatalogTypeOK /\ ThreadTypeOK
  BY DEF UploadTypeOK, ThreadTypeOK
<1>1. ASSUME NEW u \in VersionIds, UploadStep(u)
      PROVE  request'[x] = request[x] /\ pc'[x] # "idle"
  <2>1. \E s \in Steps, fl \in SUBSET Flags, result \in VersionIds \cup Errors :
          Moves(u, s, fl, result) /\ Proper(u, s, fl, result)
    BY <1>0, <1>1, ThreadMoves
  <2> QED BY <2>1 DEF Moves, Proper, Same
<1>2. ASSUME NEW u \in VersionIds, NEW w \in Workers, NEW r \in Requests, Arrive(u, w, r)
      PROVE  request'[x] = request[x] /\ pc'[x] # "idle"
  BY <1>0, <1>2, ArriveMoves DEF Same
<1>3. ASSUME NEW w \in Workers, StartupStep(w) PROVE request'[x] = request[x] /\ pc'[x] # "idle"
  BY <1>3, StartupMoves DEF thread
<1>4. ASSUME NEW w \in Workers, Crash(w) PROVE request'[x] = request[x] /\ pc'[x] # "idle"
  BY <1>0, <1>4, CrashMoves
<1>5. ASSUME NEW call \in RetractCalls, RetractStep(call)
      PROVE  request'[x] = request[x] /\ pc'[x] # "idle"
  BY <1>5 DEF RetractStep, ReadForRetraction, WriteRetraction, RecordRetraction, OnlyRetraction,
              thread
<1>6. ASSUME TimePasses \/ UNCHANGED vars PROVE request'[x] = request[x] /\ pc'[x] # "idle"
  BY <1>6 DEF TimePasses, vars, thread
<1> QED BY <1>1, <1>2, <1>3, <1>4, <1>5, <1>6 DEF UploadNext

\* Only insert_pending_version adds a row, and only the row of its upload.
LEMMA RowsAdded ==
  ASSUME ServiceInv, [UploadNext]_vars
  PROVE  \/ DOMAIN versions' \subseteq DOMAIN versions
         \/ \E u \in VersionIds :
              /\ pc[u] = "insert"
              /\ InsertPending(u, request[u].dataset, request[u].principal, request[u].content)
<1> USE DEF ServiceInv
<1>0. CatalogTypeOK
  BY DEF UploadTypeOK
<1>1. ASSUME NEW u \in VersionIds, UploadStep(u)
      PROVE  \/ DOMAIN versions' \subseteq DOMAIN versions
             \/ /\ pc[u] = "insert"
                /\ InsertPending(u, request[u].dataset, request[u].principal, request[u].content)
  <2>1. ThreadWrites(u)
    BY <1>1, StepWrites
  <2> QED BY <2>1 DEF ThreadWrites, catalogVars, RecordEvent, ReserveKey, CompleteKey, ReleaseKey,
                      InsertFile, CommitVersion, DeletePendingVersion, Drop, Restrict,
                      CatalogTypeOK, IsTable
<1>2. ASSUME NEW w \in Workers, StartupStep(w)
      PROVE  DOMAIN versions' \subseteq DOMAIN versions
  <2>1. WorkerWrites(w)
    BY <1>2, StartupWrites DEF WorkersOK
  <2> QED BY <2>1 DEF WorkerWrites, catalogVars, CommitVersion, DeletePendingVersion, WritesFound,
                      Reconcile, Written, Drop, Restrict, CatalogTypeOK, IsTable
<1>3. ASSUME NEW u, NEW w, NEW r, Arrive(u, w, r)
      PROVE  DOMAIN versions' \subseteq DOMAIN versions
  BY <1>3 DEF Arrive, Claim, catalogVars
<1>4. ASSUME NEW call, RetractStep(call)
      PROVE  DOMAIN versions' \subseteq DOMAIN versions
  BY <1>0, <1>4 DEF RetractStep, ReadForRetraction, WriteRetraction, RecordRetraction,
                    RetractVersion, RecordEvent, catalogVars, CatalogTypeOK, IsTable
<1>5. ASSUME (\E w \in Workers : Crash(w)) \/ TimePasses \/ UNCHANGED vars
      PROVE  DOMAIN versions' \subseteq DOMAIN versions
  BY <1>5 DEF Crash, TimePasses, vars, catalogVars
<1> QED BY <1>1, <1>2, <1>3, <1>4, <1>5 DEF UploadNext

\* A row that stays keeps what RowOK says of it, except for the rows beside it.
LEMMA RowStays ==
  ASSUME ServiceInv, [UploadNext]_vars, NEW v \in DOMAIN versions, v \in DOMAIN versions'
  PROVE  /\ Frame(v)
         /\ pc'[v] # "idle"
         /\ versions'[v].dataset = request'[v].dataset
         /\ versions'[v].uploader = request'[v].principal
         /\ versions'[v].content = request'[v].content
         /\ Claimed(versions[v].uploader, versions[v].dataset)'
<1> USE DEF ServiceInv
<1>0. CatalogTypeOK /\ [CatalogNext]_catalogVars /\ v \in VersionIds /\ RowOK(v)
  BY ServiceWrites DEF UploadTypeOK, CatalogTypeOK, IsTable
<1>1. Frame(v)
  BY <1>0, OldRows DEF catalogVars, Frame
<1>2. pc'[v] # "idle" /\ request'[v] = request[v]
  BY <1>0, RequestsStay DEF RowOK
<1>3. \A p, d : Claimed(p, d) => Claimed(p, d)'
  BY <1>0, CatalogPersists
<1> QED BY <1>0, <1>1, <1>2, <1>3 DEF Frame, RowOK, Claimed

\* The constraint UNIQUE (dataset_key, manifest_sha256, file_set_sha256) and the
\* arguments of insert_pending_version keep RowOK.
LEMMA RowsStep ==
  ASSUME ServiceInv, [UploadNext]_vars, NEW v \in DOMAIN versions'
  PROVE  RowOK(v)'
<1> USE DEF ServiceInv
<1>0. CatalogTypeOK /\ ThreadTypeOK /\ [CatalogNext]_catalogVars
  BY ServiceWrites DEF UploadTypeOK, ThreadTypeOK
<1>1. CASE DOMAIN versions' \subseteq DOMAIN versions
  <2>1. \A x \in DOMAIN versions' :
          versions'[x].dataset = versions'[v].dataset /\ versions'[x].content = versions'[v].content
            => x = v
    BY <1>1, RowStays DEF RowOK, Frame
  <2> QED BY <1>1, <2>1, RowStays DEF RowOK, Claimed
<1>2. ASSUME NEW u \in VersionIds, pc[u] = "insert",
             InsertPending(u, request[u].dataset, request[u].principal, request[u].content)
      PROVE  RowOK(v)'
  <2>1. /\ u \notin DOMAIN versions
        /\ DOMAIN versions' = DOMAIN versions \cup {u}
        /\ \A x \in DOMAIN versions : versions'[x] = versions[x]
        /\ versions'[u].dataset = request[u].dataset
        /\ versions'[u].uploader = request[u].principal
        /\ versions'[u].content = request[u].content
        /\ ~ContentTaken(request[u].dataset, request[u].content)
    BY <1>2 DEF InsertPending, CanInsert, NewVersion, Put
  <2>2. \A x \in DOMAIN versions' :
          versions'[x].dataset = versions'[v].dataset /\ versions'[x].content = versions'[v].content
            => x = v
    BY <2>1 DEF RowOK, ContentTaken
  <2>3. CASE v \in DOMAIN versions
    BY <2>2, <2>3, RowStays DEF RowOK, Claimed
  <2>4. CASE v = u
    <3>1. pc'[u] # "idle" /\ request'[u] = request[u]
      BY <1>2, RequestsStay
    <3>2. Claimed(request[u].principal, request[u].dataset)
      BY <1>2 DEF ThreadOK, BodySteps
    <3>3. \A p, d : Claimed(p, d) => Claimed(p, d)'
      BY <1>0, CatalogPersists
    <3> QED BY <2>1, <2>2, <2>4, <3>1, <3>2, <3>3 DEF RowOK, Claimed
  <2> QED BY <2>1, <2>3, <2>4
<1> QED BY <1>1, <1>2, RowsAdded

\* Version v has the content and the dataset of reservation id.
Fulfils(v, id) ==
  /\ IsPublished(v)
  /\ versions[v].dataset = id[2]
  /\ versions[v].content = idem[id].content

\* A reservation is as it was, or completed with a version that fulfils it.
KeyChange(id) ==
  \/ id \in DOMAIN idem /\ idem'[id] = idem[id]
  \/ /\ id \in PendingKeys
     /\ \E v \in VersionIds : Fulfils(v, id) /\ idem'[id] = Completed(idem[id], v)

\* Or it is new.
KeyNew(u, id) ==
  /\ pc[u] = "reserve" /\ id = KeyOf(u) /\ id \notin DOMAIN idem
  /\ idem'[id] = [content |-> request[u].content, status |-> "pending",
                  result |-> NoVersion, by |-> u]

\* The writes of the upload route to a reservation
LEMMA ThreadKeyChange ==
  ASSUME CatalogTypeOK, NEW u \in VersionIds, ThreadWrites(u), NEW id \in DOMAIN idem'
  PROVE  KeyChange(id) \/ KeyNew(u, id)
<1>1. CASE UNCHANGED idem
  BY <1>1 DEF KeyChange
<1>2. CASE pc[u] = "reserve" /\ ReserveKey(KeyOf(u), request[u].content, u)
  BY <1>2 DEF ReserveKey, Put, KeyChange, KeyNew
<1>3. CASE \E v : Answers(v, u) /\ CompleteKey(KeyOf(u), request[u].content, v)
  <2>1. PICK v : Answers(v, u) /\ CompleteKey(KeyOf(u), request[u].content, v)
    BY <1>3
  <2>2. CASE IsReserved(KeyOf(u), request[u].content) /\ id = KeyOf(u)
    <3>1. v \in VersionIds
      BY <2>1 DEF Answers, IsPublished, HasStatus, CatalogTypeOK, IsTable
    <3>2. id \in PendingKeys /\ Fulfils(v, id)
      BY <2>1, <2>2 DEF Answers, Fulfils, IsReserved, PendingKeys, KeyOf
    <3>3. idem'[id] = Completed(idem[id], v)
      BY <2>1, <2>2 DEF CompleteKey, IsReserved
    <3> QED BY <3>1, <3>2, <3>3 DEF KeyChange
  <2>3. CASE ~(IsReserved(KeyOf(u), request[u].content) /\ id = KeyOf(u))
    BY <2>1, <2>3 DEF CompleteKey, KeyChange
  <2> QED BY <2>2, <2>3
<1>4. CASE ReleaseKey(KeyOf(u), request[u].content)
  BY <1>4 DEF ReleaseKey, Drop, Restrict, KeyChange
<1> QED
  BY <1>1, <1>2, <1>3, <1>4 DEF ThreadWrites, catalogVars, RecordEvent, InsertPending, InsertFile,
                                CommitVersion, DeletePendingVersion

\* The writes of reconcile_idempotency_keys
LEMMA ReconcileKeyChange ==
  ASSUME CatalogTypeOK, WritesFound, NEW id \in DOMAIN idem'
  PROVE  KeyChange(id)
<1>1. PICK found : (\A p \in DOMAIN found : found[p] \in Outcomes(p)) /\ Reconcile(found)
  BY DEF WritesFound
<1> DEFINE outcome(k) == found[<<k, idem[k].content>>]
           still == {k \in PendingKeys : <<k, idem[k].content>> \in DOMAIN found}
           gone  == {k \in still : outcome(k) = NoVersion}
<1>2. idem' = [k \in DOMAIN idem \ gone |->
                 IF k \in still THEN Completed(idem[k], outcome(k)) ELSE idem[k]]
  BY <1>1 DEF Reconcile, Written
<1>3. id \in DOMAIN idem \ gone
  <2> HIDE DEF gone
  <2> QED BY <1>2
<1>4. CASE id \in still
  <2>1. PICK v : v = outcome(id)
    OBVIOUS
  <2>2. v \in Outcomes(<<id, idem[id].content>>) /\ v # NoVersion /\ id \in PendingKeys
    BY <1>1, <1>3, <1>4, <2>1
  <2>3. v \in VersionIds /\ Fulfils(v, id)
    BY <2>2 DEF Outcomes, FoundOnce, Fulfils, CatalogTypeOK, IsTable
  <2>4. idem'[id] = Completed(idem[id], v)
    <3> HIDE DEF gone, still, outcome
    <3> QED BY <1>2, <1>3, <1>4, <2>1
  <2> QED BY <2>2, <2>3, <2>4 DEF KeyChange
<1>5. CASE id \notin still
  <2>1. idem'[id] = idem[id]
    <3> HIDE DEF gone, still, outcome
    <3> QED BY <1>2, <1>3, <1>5
  <2> QED BY <1>3, <2>1 DEF KeyChange
<1> QED BY <1>4, <1>5

\* No step does anything else to a reservation.
LEMMA KeysChange ==
  ASSUME ServiceInv, [UploadNext]_vars, NEW id \in DOMAIN idem'
  PROVE  KeyChange(id) \/ \E u \in VersionIds : UploadStep(u) /\ KeyNew(u, id)
<1> USE DEF ServiceInv
<1>0. CatalogTypeOK
  BY DEF UploadTypeOK
<1>1. ASSUME UNCHANGED idem PROVE KeyChange(id)
  BY <1>1 DEF KeyChange
<1>2. ASSUME NEW u \in VersionIds, UploadStep(u) PROVE KeyChange(id) \/ KeyNew(u, id)
  BY <1>0, <1>2, StepWrites, ThreadKeyChange
<1>3. ASSUME NEW w \in Workers, StartupStep(w) PROVE KeyChange(id)
  <2>1. WorkerWrites(w)
    BY <1>3, StartupWrites DEF WorkersOK
  <2>2. UNCHANGED idem \/ WritesFound
    BY <2>1 DEF WorkerWrites, catalogVars, CommitVersion, DeletePendingVersion
  <2> QED BY <1>0, <1>1, <2>2, ReconcileKeyChange
<1>4. ASSUME \/ \E u \in VersionIds, w \in Workers, r \in Requests : Arrive(u, w, r)
             \/ \E w \in Workers : Crash(w)
             \/ \E call \in RetractCalls : RetractStep(call)
             \/ TimePasses \/ UNCHANGED vars
      PROVE  UNCHANGED idem
  BY <1>4 DEF Arrive, Claim, Crash, RetractStep, ReadForRetraction, WriteRetraction,
              RecordRetraction, RetractVersion, RecordEvent, TimePasses, vars, catalogVars
<1> QED BY <1>1, <1>2, <1>3, <1>4 DEF UploadNext

\* The reservations stay what KeyOK says, whoever completes them: the upload, a
\* duplicate of it, or the reconciliation of a later startup.
LEMMA KeysStep ==
  ASSUME ServiceInv, [UploadNext]_vars, NEW id \in DOMAIN idem'
  PROVE  KeyOK(id)'
<1> USE DEF ServiceInv
<1>0. CatalogTypeOK /\ ThreadTypeOK /\ [CatalogNext]_catalogVars /\ CatalogTypeOK'
  BY ServiceWrites, CatalogTypeStep DEF UploadTypeOK, ThreadTypeOK
<1>1. /\ \A p, d : Claimed(p, d) => Claimed(p, d)'
      /\ \A v : IsPublished(v) => IsPublished(v)' /\ Frame(v)
  BY <1>0, CatalogPersists
<1>2. \A k \in DOMAIN idem : idem[k] \in KeyRow
  BY <1>0 DEF CatalogTypeOK, IsTable
<1>3. ASSUME id \in DOMAIN idem
      PROVE  /\ Claimed(id[1], id[2])'
             /\ idem[id].by \in VersionIds
             /\ pc'[idem[id].by] # "idle"
             /\ request'[idem[id].by] = request[idem[id].by]
  <2>1. idem[id].by \in VersionIds
    BY <1>2, <1>3 DEF KeyRow
  <2>2. pc'[idem[id].by] # "idle" /\ request'[idem[id].by] = request[idem[id].by]
    BY <1>3, <2>1, RequestsStay DEF KeyOK
  <2> QED BY <1>1, <1>3, <2>1, <2>2 DEF KeyOK, Claimed
<1>4. CASE id \in DOMAIN idem /\ idem'[id] = idem[id]
  <2>1. idem[id].status = "committed" =>
          /\ IsPublished(idem[id].result)'
          /\ versions'[idem[id].result].uploader = id[1]
          /\ versions'[idem[id].result].dataset = id[2]
          /\ versions'[idem[id].result].content = idem[id].content
    BY <1>1, <1>4 DEF KeyOK, Frame, IsPublished, HasStatus
  <2> QED BY <1>3, <1>4, <2>1 DEF KeyOK, KeyOf, Claimed, IsPublished, HasStatus
<1>5. ASSUME id \in PendingKeys, NEW v \in VersionIds, Fulfils(v, id),
             idem'[id] = Completed(idem[id], v)
      PROVE  KeyOK(id)'
  <2>1. id \in DOMAIN idem
    BY <1>5 DEF PendingKeys
  <2>2. /\ idem'[id].status = "committed" /\ idem'[id].result = v
        /\ idem'[id].by = idem[id].by /\ idem'[id].content = idem[id].content
    BY <1>2, <1>5, <2>1 DEF Completed, KeyRow
  <2>3. versions[v].uploader = id[1]
    BY <1>5, <2>1 DEF Fulfils, IsPublished, HasStatus, RowOK, KeyOK, Claimed
  <2>4. /\ IsPublished(v)' /\ versions'[v].uploader = id[1]
        /\ versions'[v].dataset = id[2] /\ versions'[v].content = idem[id].content
    BY <1>1, <1>5, <2>3 DEF Fulfils, Frame
  <2>5. KeyOf(idem[id].by) = id
    BY <2>1 DEF KeyOK
  <2> QED BY <1>3, <2>1, <2>2, <2>4, <2>5 DEF KeyOK, KeyOf, Claimed, IsPublished, HasStatus
<1>6. ASSUME NEW u \in VersionIds, KeyNew(u, id) PROVE KeyOK(id)'
  <2> USE DEF KeyNew
  <2>1. request'[u] = request[u] /\ pc'[u] # "idle"
    BY <1>6, RequestsStay
  <2>2. Claimed(request[u].principal, request[u].dataset)
    BY <1>6 DEF ThreadOK, BodySteps
  <2>3. Claimed(id[1], id[2])'
    BY <1>1, <1>6, <2>2 DEF KeyOf, Claimed
  <2> QED BY <1>6, <2>1, <2>3 DEF KeyOK, KeyOf, Claimed
<1> QED BY <1>4, <1>5, <1>6, KeysChange DEF KeyChange

\* A version that was found stays one, also when it is retracted.
LEMMA FoundStays ==
  ASSUME CatalogTypeOK, [CatalogNext]_catalogVars, NEW me, HasFound(me)
  PROVE  HasFound(me)'
<1>1. \A v : IsPublished(v) => IsPublished(v)' /\ Frame(v)
  BY CatalogPersists
<1>2. \A d, c : FoundOnce(d, c) \subseteq FoundOnce(d, c)'
  BY <1>1 DEF FoundOnce, Frame, IsPublished, HasStatus
<1> QED BY <1>2 DEF HasFound, Outcomes

\* A worker learns the id of the row it works on before it works on it.
LEMMA WorkersStep ==
  ASSUME ServiceInv, [UploadNext]_vars
  PROVE  WorkersOK'
<1> USE DEF ServiceInv
<1>0. /\ worker \in [Workers -> WorkerState] /\ UploadTypeOK
      /\ CatalogTypeOK /\ [CatalogNext]_catalogVars
  BY ServiceWrites DEF UploadTypeOK
<1>a. ASSUME NEW me, NEW x, me = worker'[x], HasFound(me)
      PROVE  HasFound(worker[x])'
  <2>1. HasFound(me)'
    BY <1>0, <1>a, FoundStays
  <2> QED BY <1>a, <2>1 DEF HasFound, Outcomes, FoundOnce, IsPublished, HasStatus
<1>1. CASE UNCHANGED worker
  <2>1. \A x \in Workers : HasFound(worker[x])'
    BY <1>1, <1>a DEF WorkersOK
  <2> QED BY <1>1, <2>1 DEF WorkersOK
<1>2. ASSUME NEW w \in Workers, StartupStep(w) PROVE WorkersOK'
  <2>1. PICK state \in WorkerState :
          /\ worker' = [worker EXCEPT ![w] = state]
          /\ state.step \in InHand => state.current \in VersionIds
          /\ HasFound(state)
    BY <1>0, <1>2, StartupMoves
  <2>2. \A x \in Workers : worker'[x] = IF x = w THEN state ELSE worker[x]
    BY <1>0, <2>1
  <2>3. \A x \in Workers : HasFound(worker[x])'
    BY <1>a, <2>1, <2>2 DEF WorkersOK
  <2> QED BY <2>1, <2>2, <2>3 DEF WorkersOK
<1>3. ASSUME NEW w \in Workers, Crash(w) PROVE WorkersOK'
  <2>1. worker' = [worker EXCEPT ![w] = At("down", {}, NoVersion)]
    BY <1>3 DEF Crash, Enter
  <2>2. /\ At("down", {}, NoVersion).step \notin InHand
        /\ HasFound(At("down", {}, NoVersion))
    BY DEF At, InHand, HasFound
  <2>3. \A x \in Workers :
          worker'[x] = IF x = w THEN At("down", {}, NoVersion) ELSE worker[x]
    BY <1>0, <2>1
  <2>4. \A x \in Workers : HasFound(worker[x])'
    BY <1>a, <2>2, <2>3 DEF WorkersOK
  <2> QED BY <2>2, <2>3, <2>4 DEF WorkersOK
<1>4. ASSUME NEW u \in VersionIds, UploadStep(u) PROVE UNCHANGED worker
  BY <1>4, StepFrame
<1>5. ASSUME NEW u, NEW w, NEW r, Arrive(u, w, r) PROVE UNCHANGED worker
  BY <1>5 DEF Arrive
<1>6. ASSUME NEW call, RetractStep(call) PROVE UNCHANGED worker
  BY <1>6 DEF RetractStep, ReadForRetraction, WriteRetraction, RecordRetraction, OnlyRetraction
<1>7. ASSUME TimePasses \/ UNCHANGED vars PROVE UNCHANGED worker
  BY <1>7 DEF TimePasses, vars
<1> QED BY <1>1, <1>2, <1>3, <1>4, <1>5, <1>6, <1>7 DEF UploadNext

\* The version that retract_version read outside its transaction is still
\* published when the transaction begins.
LEMMA RetractionsStep ==
  ASSUME ServiceInv, [UploadNext]_vars
  PROVE  RetractionsOK'
<1> USE DEF ServiceInv
<1>0. /\ retraction \in [RetractCalls -> RetractionState]
      /\ CatalogTypeOK /\ ThreadTypeOK /\ [CatalogNext]_catalogVars
  BY ServiceWrites DEF UploadTypeOK, ThreadTypeOK
<1>1. \A v : IsPublished(v) => IsPublished(v)'
  BY <1>0, CatalogPersists
<1>a. ASSUME NEW call \in RetractCalls,
             retraction'[call].step \in {"write", "record"} =>
               /\ retraction[call].step \in {"write", "record"}
               /\ retraction'[call].version = retraction[call].version
      PROVE  retraction'[call].step \in {"write", "record"} =>
               retraction'[call].version \in VersionIds /\ IsPublished(retraction[call].version)'
  BY <1>1, <1>a DEF RetractionsOK, IsPublished, HasStatus
<1>2. CASE UNCHANGED retraction
  BY <1>a, <1>2 DEF RetractionsOK
<1>3. ASSUME NEW call \in RetractCalls, NEW w \in Workers, NEW v \in VersionIds,
             ReadForRetraction(call, w, v)
      PROVE  RetractionsOK'
  <2>1. /\ retraction'[call].version = v /\ IsPublished(v)'
        /\ \A c \in RetractCalls \ {call} : retraction'[c] = retraction[c]
    BY <1>0, <1>1, <1>3 DEF ReadForRetraction
  <2>2. ASSUME NEW c \in RetractCalls, retraction'[c].step \in {"write", "record"}
        PROVE  retraction'[c].version \in VersionIds /\ IsPublished(retraction[c].version)'
    BY <1>a, <2>1, <2>2 DEF IsPublished, HasStatus
  <2> QED BY <2>2 DEF RetractionsOK
<1>4. ASSUME NEW call \in RetractCalls, WriteRetraction(call) \/ RecordRetraction(call)
      PROVE  RetractionsOK'
  <2>1. ASSUME NEW c \in RetractCalls
        PROVE  retraction'[c].step \in {"write", "record"} =>
                 /\ retraction[c].step \in {"write", "record"}
                 /\ retraction'[c].version = retraction[c].version
    BY <1>0, <1>4 DEF WriteRetraction, RecordRetraction, Retraction, RetractionState
  <2> QED BY <1>a, <2>1 DEF RetractionsOK
<1>5. ASSUME NEW w \in Workers, Crash(w) PROVE RetractionsOK'
  <2>1. ASSUME NEW c \in RetractCalls
        PROVE  retraction'[c].step \in {"write", "record"} =>
                 /\ retraction[c].step \in {"write", "record"}
                 /\ retraction'[c].version = retraction[c].version
    BY <1>0, <1>5 DEF Crash, RetractionState
  <2> QED BY <1>a, <2>1 DEF RetractionsOK
<1>6. ASSUME \/ \E u \in VersionIds :
                  UploadStep(u) \/ \E w \in Workers, r \in Requests : Arrive(u, w, r)
             \/ \E w \in Workers : StartupStep(w)
             \/ TimePasses \/ UNCHANGED vars
      PROVE  UNCHANGED retraction
  BY <1>6, StepFrame, StartupMoves DEF Arrive, TimePasses, vars
<1> QED BY <1>2, <1>3, <1>4, <1>5, <1>6 DEF UploadNext, RetractStep

\* A new data directory
LEMMA ServiceInit == UploadInit => ServiceInv
<1> SUFFICES ASSUME UploadInit PROVE ServiceInv
  OBVIOUS
<1>1. CatalogTypeOK /\ DOMAIN versions = {} /\ DOMAIN idem = {}
  BY InitType DEF UploadInit, CatalogInit, EmptyTable
<1>2. (CHOOSE r \in Requests : TRUE) \in Requests
  BY ServiceConstants
<1>3. At("down", {}, NoVersion) \in WorkerState /\ At("down", {}, NoVersion).step = "down"
  BY AtType DEF WorkerSteps, At
<1>4. UploadTypeOK
  <2>1. pc \in [VersionIds -> Steps] /\ request \in [VersionIds -> Requests]
        /\ answer \in [VersionIds -> VersionIds \cup Errors]
    BY <1>2 DEF UploadInit, Steps, Errors
  <2> QED BY <1>1, <1>3, <2>1 DEF UploadInit, UploadTypeOK, RetractionState
<1>5. ASSUME NEW u \in VersionIds PROVE ThreadOK(u)
  <2>1. "none" \notin VersionIds
    BY ErrorsAreNoVersions DEF Errors
  <2> QED BY <2>1 DEF UploadInit, ThreadOK, KeySteps, BodySteps
<1>6. WorkersOK /\ RetractionsOK
  BY <1>3 DEF UploadInit, WorkersOK, RetractionsOK, InHand, HasFound
<1> QED BY <1>1, <1>4, <1>5, <1>6 DEF ServiceInv

\* Every step of every thread, worker and client keeps the invariant.
LEMMA ServiceStep == ServiceInv /\ [UploadNext]_vars => ServiceInv'
<1> SUFFICES ASSUME ServiceInv, [UploadNext]_vars PROVE ServiceInv'
  OBVIOUS
<1>1. UploadTypeOK' /\ WorkersOK' /\ RetractionsOK'
  BY UploadTypeStep, WorkersStep, RetractionsStep
<1> QED BY <1>1, ThreadsStep, RowsStep, KeysStep DEF ServiceInv

\* ServiceInv holds in every reachable state.
THEOREM ServiceInvariant == UploadSpec => []ServiceInv
BY ServiceInit, ServiceStep, PTL DEF UploadSpec

-----------------------------------------------------------------------------
(* What follows from it *)

\* The rows, the directories and the local variables of every thread and worker
\* stay well-typed, with any number of workers, kills and exceptions.
THEOREM UploadTypeCorrect == UploadSpec => []UploadTypeOK
<1>1. ServiceInv => UploadTypeOK
  BY DEF ServiceInv
<1> QED BY <1>1, ServiceInvariant, PTL

\* A client that is told a version is told a published one with the bytes that it
\* sent: by the commit, by a duplicate, or by a replayed reservation
\* (app.py:686-818).
THEOREM AnswersAreRight == UploadSpec => []AnswerNamesPublished
<1>1. ServiceInv => AnswerNamesPublished
  BY DEF ServiceInv, ThreadOK, Answers, AnswerNamesPublished
<1> QED BY <1>1, ServiceInvariant, PTL

\* Two answers to the same bytes for the same dataset name the same version: the
\* UNIQUE constraint on the content serialises whatever the threads interleave.
THEOREM AnswersAgree == UploadSpec => []SameRequestSameVersion
<1>1. ServiceInv => SameRequestSameVersion
  <2> SUFFICES ASSUME ServiceInv, NEW u \in VersionIds, NEW w \in VersionIds,
                      answer[u] \in VersionIds, answer[w] \in VersionIds,
                      request[u].dataset = request[w].dataset,
                      request[u].content = request[w].content
               PROVE  answer[u] = answer[w]
    BY DEF SameRequestSameVersion
  <2>1. Answers(answer[u], u) /\ Answers(answer[w], w)
    BY DEF ServiceInv, ThreadOK
  <2>2. answer[u] \in DOMAIN versions /\ answer[w] \in DOMAIN versions
    BY <2>1 DEF Answers, IsPublished, HasStatus
  <2>3. RowOK(answer[u])
    BY <2>2 DEF ServiceInv
  <2> QED BY <2>1, <2>2, <2>3 DEF Answers, RowOK
<1> QED BY <1>1, ServiceInvariant, PTL

\* A completed reservation replays a published version of the right dataset,
\* principal and content, whoever completed it (catalog.py:604-783).
THEOREM ReplaysAreRight == UploadSpec => []KeyResultPublished
<1>1. ServiceInv => KeyResultPublished
  BY DEF ServiceInv, KeyOK, KeyResultPublished
<1> QED BY <1>1, ServiceInvariant, PTL

\* The service uses the catalogue as its operations are meant to be used, in any
\* interleaving: everything proved of CatalogSpec holds of the running service.
THEOREM ServiceRefinesCatalog == UploadSpec => CatalogSpec
<1>1. UploadInit => CatalogInit
  BY DEF UploadInit
<1>2. ServiceInv /\ [UploadNext]_vars => [CatalogNext]_catalogVars
  BY ServiceWrites
<1> QED BY <1>1, <1>2, ServiceInvariant, PTL DEF UploadSpec, CatalogSpec

\* In particular no step of an upload, a recovery or a retraction, whoever dies
\* where, deletes or alters a published version, charges it twice or not at all,
\* exceeds a quota, leaves a dataset without its latest version, or takes back a
\* completed reservation.
THEOREM ServiceKeepsCatalog ==
  UploadSpec => []LatestIsCommitted /\ []NumbersUnique /\ []CountAccounts /\ []BytesAccount
                  /\ []WithinQuota /\ PublishedIsForever /\ DatasetsKept
                  /\ CompletedKeysKept
BY ServiceRefinesCatalog, LatestStaysCommitted, NumbersStayUnique, CountIsExact, BytesAreExact,
   QuotaHolds, PublishedStays, DatasetsStay, CompletedStay, PTL

-----------------------------------------------------------------------------
(* Reservations are held *)

\* "committed" is the last boolean to be set, and the reservation is completed
\* before the event of the commit is recorded.
Orderly(u) ==
  /\ "committed" \in flags[u] => pc[u] \in {"complete", "record_committed", "done", "dead"}
  /\ pc[u] = "record_committed" => "reserved_idempotency" \notin flags[u]

\* The thread of u, or what died of it, still has its reservation.
Holds(u) ==
  "reserved_idempotency" \in flags[u] /\ pc[u] \notin {"idle", "remove_staging", "done"}

\* Or it is published, and complete_idempotency_key raised after its commit.
Held(u) == Holds(u) \/ ("complete" \in Faulty /\ IsPublished(u))

HeldInv ==
  /\ \A u \in VersionIds : Orderly(u)
  /\ \A id \in PendingKeys : Held(idem[id].by)

\* Cleanup does not forget a reservation.
LEMMA CleanupReleases ==
  ASSUME NEW fl, "reserved_idempotency" \in fl
  PROVE  /\ ToRelease(fl) = "release_key"
         /\ ToDeleteRow(fl) \in {"delete_row", "release_key"}
         /\ ToRemoveFinal(fl) \in {"remove_final", "delete_row", "release_key"}
         /\ ToCleanup(fl) \in {"record_aborted", "remove_final", "delete_row", "release_key"}
BY DEF ToRelease, ToDeleteRow, ToRemoveFinal, ToCleanup

\* A thread stays orderly.
LEMMA OrderlyStep ==
  ASSUME ThreadTypeOK, NEW u \in VersionIds, ThreadOK(u), Orderly(u), UploadStep(u)
  PROVE  Orderly(u)'
<1> USE DEF ThreadTypeOK
<1>0. flags[u] \in SUBSET Flags
  OBVIOUS
<1>1. ASSUME NEW s \in Steps, Go(u, s), "committed" \notin flags[u] \/ s = "done",
             s # "record_committed"
      PROVE  Orderly(u)'
  BY <1>1 DEF Go, Orderly
<1>2. ASSUME NEW result, NEW fl, Leave(u, result, fl)
      PROVE  Orderly(u)'
  <2>1. flags'[u] = fl /\ pc'[u] = IF "committed" \in fl THEN "done" ELSE ToCleanup(fl)
    BY <1>2 DEF Leave
  <2> QED BY <2>1, CleanupBegins DEF Orderly, CleanupSteps
<1>3. ASSUME NEW s \in Steps, NEW fl, GoSetting(u, s, fl), "committed" \notin fl,
             s # "record_committed"
      PROVE  Orderly(u)'
  BY <1>3 DEF GoSetting, Orderly
<1>4. pc[u] \in BodySteps \ {"complete", "record_committed"} => "committed" \notin flags[u]
  BY DEF Orderly, BodySteps
<1>5. pc[u] \in CleanupSteps => "committed" \notin flags[u]
  BY DEF Orderly, CleanupSteps
<1>6. ASSUME NEW v, AnswerDuplicate(u, v), "committed" \notin flags[u] PROVE Orderly(u)'
  <2>1. CASE HasKey(u)
    BY <1>6, <2>1 DEF AnswerDuplicate, Orderly
  <2>2. CASE ~HasKey(u)
    BY <1>2, <1>6, <2>2 DEF AnswerDuplicate
  <2> QED BY <2>1, <2>2
<1>7. CASE BodyStep(u)
  <2> USE DEF BodySteps, Steps
  <2>1. CASE \/ \E x \in Payload : WritePayload(u, x)
             \/ \E f \in Paths : InsertFileRecord(u, f)
             \/ CreateStaging(u) \/ WriteCommitReady(u)
    <3>1. CASE \E x \in Payload : WritePayload(u, x)
      BY <3>1 DEF WritePayload, thread, Orderly
    <3>2. CASE \E f \in Paths : InsertFileRecord(u, f)
      BY <1>1, <1>4, <3>2 DEF InsertFileRecord
    <3>3. CASE CreateStaging(u) \/ WriteCommitReady(u)
      BY <1>1, <1>4, <3>3 DEF CreateStaging, WriteCommitReady
    <3> QED BY <2>1, <3>1, <3>2, <3>3
  <2>2. CASE RecordStarted(u) \/ GetPendingVersion(u) \/ SyncParent(u)
    BY <1>3, <1>4, <2>2 DEF RecordStarted, GetPendingVersion, SyncParent
  <2>3. CASE RejectPayload(u) \/ CompleteDuplicate(u) \/ RecordCommitted(u) \/ BodyFault(u)
    BY <1>2, <2>3 DEF RejectPayload, CompleteDuplicate, RecordCommitted, BodyFault
  <2>4. CASE HashPayload(u)
    BY <1>1, <1>4, <2>4 DEF HashPayload
  <2>5. CASE InsertPendingVersion(u)
    BY <1>1, <1>4, <2>5 DEF InsertPendingVersion
  <2>6. CASE MakeParent(u) \/ MoveToFinal(u)
    BY <1>1, <1>2, <1>4, <2>6 DEF MakeParent, MoveToFinal
  <2>7. CASE ReserveIdempotencyKey(u)
    BY <1>2, <1>3, <1>4, <2>7 DEF ReserveIdempotencyKey, AnswerInProgress
  <2>8. CASE FindDuplicate(u)
    BY <1>1, <1>4, <1>6, <2>8 DEF FindDuplicate
  <2>9. CASE FindDuplicateAgain(u)
    BY <1>2, <1>4, <1>6, <2>9 DEF FindDuplicateAgain
  <2>10. CASE CommitUpload(u)
    <3>1. CASE GoSetting(u, IF HasKey(u) THEN "complete" ELSE "record_committed",
                         flags[u] \cup {"committed"})
      <4>1. "reserved_idempotency" \in flags[u] => HasKey(u)
        BY DEF ThreadOK
      <4>2. /\ pc'[u] = IF HasKey(u) THEN "complete" ELSE "record_committed"
            /\ flags'[u] = flags[u] \cup {"committed"}
        BY <3>1 DEF GoSetting
      <4> QED BY <4>1, <4>2 DEF Orderly
    <3> QED BY <1>2, <2>10, <3>1 DEF CommitUpload
  <2>11. CASE CompleteIdempotencyKey(u)
    BY <2>11 DEF CompleteIdempotencyKey, GoSetting, Orderly
  <2> QED
    BY <1>7, <2>1, <2>2, <2>3, <2>4, <2>5, <2>6, <2>7, <2>8, <2>9, <2>10, <2>11 DEF BodyStep
<1>8. CASE CleanupStep(u)
  <2>1. \E s \in Steps : Go(u, s) /\ s # "record_committed" /\ "committed" \notin flags[u]
    <3>1. \E s \in CleanupSteps \cup {"done"} : Go(u, s)
      BY <1>8, CleanupBegins DEF CleanupStep, RecordAborted, RemoveFinal, DeleteRow, CleanupSteps,
         ReleaseIdempotencyKey, RemoveStaging, CleanupFault
    <3>2. pc[u] \in CleanupSteps
      BY <1>8 DEF CleanupStep, RecordAborted, RemoveFinal, DeleteRow, CleanupSteps,
         ReleaseIdempotencyKey, RemoveStaging, CleanupFault
    <3> QED BY <1>5, <3>1, <3>2 DEF CleanupSteps, Steps
  <2> QED BY <1>1, <2>1
<1> QED BY <1>7, <1>8 DEF UploadStep

\* The exceptions after which nobody is left to complete or to release a
\* reservation (app.py, the call of complete_idempotency_key after the commit, and
\* the two deletes of the "finally" block)
StrandingFaults == {"complete", "delete_row", "release_key"}

CleanupReleasesKeys == Faulty \cap {"delete_row", "release_key"} = {}

\* Only a step that completes or deletes the reservation lets go of it.
LEMMA HoldsStep ==
  ASSUME CleanupReleasesKeys, ThreadTypeOK, NEW u \in VersionIds, ThreadOK(u), Orderly(u),
         Holds(u), UploadStep(u)
  PROVE  \/ Holds(u)'
         \/ "complete" \in Faulty /\ IsPublished(u)
         \/ ReleaseKey(KeyOf(u), request[u].content)
         \/ \E v : CompleteKey(KeyOf(u), request[u].content, v)
<1> DEFINE Goal == \/ Holds(u)'
                   \/ "complete" \in Faulty /\ IsPublished(u)
                   \/ ReleaseKey(KeyOf(u), request[u].content)
                   \/ \E v : CompleteKey(KeyOf(u), request[u].content, v)
<1> SUFFICES Goal
  OBVIOUS
<1> USE DEF ThreadTypeOK
<1>1. ASSUME NEW s \in Steps \ {"idle", "remove_staging", "done"}, Go(u, s)
      PROVE  Goal
  BY <1>1 DEF Go, Holds
<1>2. ASSUME NEW result, NEW fl, Leave(u, result, fl), "reserved_idempotency" \in fl,
             "committed" \notin fl
      PROVE  Goal
  <2>1. flags'[u] = fl /\ pc'[u] = ToCleanup(fl)
    BY <1>2 DEF Leave
  <2> QED BY <1>2, <2>1, CleanupReleases DEF Holds
<1>3. ASSUME NEW s \in Steps \ {"idle", "remove_staging", "done"}, NEW fl, GoSetting(u, s, fl),
             "reserved_idempotency" \in fl
      PROVE  Goal
  BY <1>3 DEF GoSetting, Holds
<1>4. /\ "reserved_idempotency" \in flags[u]
      /\ pc[u] \notin {"record_committed", "remove_staging", "done", "idle"}
      /\ pc[u] \in BodySteps \ {"complete"} => "committed" \notin flags[u]
  BY DEF Orderly, Holds, BodySteps
<1>5. ASSUME NEW v, AnswerDuplicate(u, v), "committed" \notin flags[u] PROVE Goal
  <2>1. CASE HasKey(u)
    BY <1>5, <2>1 DEF AnswerDuplicate, Holds
  <2>2. CASE ~HasKey(u)
    BY <1>2, <1>4, <1>5, <2>2 DEF AnswerDuplicate
  <2> QED BY <2>1, <2>2
<1> HIDE DEF Goal
<1>6. CASE BodyStep(u)
  <2> USE DEF BodySteps, Steps
  <2>1. CASE \E x \in Payload : WritePayload(u, x)
    BY <1>4, <2>1 DEF WritePayload, thread, Holds, Goal
  <2>2. CASE \E f \in Paths : InsertFileRecord(u, f)
    BY <1>1, <2>2 DEF InsertFileRecord
  <2>3. CASE CreateStaging(u) \/ WriteCommitReady(u)
    BY <1>1, <2>3 DEF CreateStaging, WriteCommitReady
  <2>4. CASE RecordStarted(u) \/ GetPendingVersion(u) \/ SyncParent(u)
    BY <1>3, <1>4, <2>4 DEF RecordStarted, GetPendingVersion, SyncParent
  <2>5. CASE RejectPayload(u)
    BY <1>2, <1>4, <2>5 DEF RejectPayload
  <2>6. CASE RecordCommitted(u)
    BY <1>4, <2>6 DEF RecordCommitted
  <2>7. CASE BodyFault(u)
    <3>1. CASE pc[u] = "complete"
      BY <2>7, <3>1 DEF BodyFault, ThreadOK, Goal
    <3>2. CASE pc[u] # "complete"
      BY <1>2, <1>4, <2>7, <3>2 DEF BodyFault
    <3> QED BY <3>1, <3>2
  <2>8. CASE CompleteDuplicate(u) \/ CompleteIdempotencyKey(u)
    BY <2>8 DEF CompleteDuplicate, CompleteIdempotencyKey, Goal
  <2>9. CASE HashPayload(u)
    BY <1>1, <2>9 DEF HashPayload
  <2>10. CASE InsertPendingVersion(u)
    BY <1>1, <2>10 DEF InsertPendingVersion
  <2>11. CASE MakeParent(u) \/ MoveToFinal(u)
    BY <1>1, <1>2, <1>4, <2>11 DEF MakeParent, MoveToFinal
  <2>12. CASE ReserveIdempotencyKey(u)
    BY <1>2, <1>3, <1>4, <2>12 DEF ReserveIdempotencyKey, AnswerInProgress
  <2>13. CASE FindDuplicate(u)
    BY <1>1, <1>4, <1>5, <2>13 DEF FindDuplicate
  <2>14. CASE FindDuplicateAgain(u)
    BY <1>2, <1>4, <1>5, <2>14 DEF FindDuplicateAgain
  <2>15. CASE CommitUpload(u)
    BY <1>2, <1>3, <1>4, <2>15 DEF CommitUpload, GoSetting, Holds, Goal
  <2> QED
    BY <1>6, <2>1, <2>2, <2>3, <2>4, <2>5, <2>6, <2>7, <2>8, <2>9, <2>10, <2>11, <2>12, <2>13,
       <2>14, <2>15 DEF BodyStep
<1>7. CASE CleanupStep(u)
  <2>0. ToRelease(flags[u]) = "release_key"
        /\ ToDeleteRow(flags[u]) \in {"delete_row", "release_key"}
        /\ ToRemoveFinal(flags[u]) \in {"remove_final", "delete_row", "release_key"}
    BY <1>4, CleanupReleases
  <2> USE DEF CleanupSteps, Steps
  <2>1. CASE RecordAborted(u)
    BY <1>1, <2>0, <2>1 DEF RecordAborted
  <2>2. CASE RemoveFinal(u)
    <3>1. Go(u, IF final[u] = {} THEN ToDeleteRow(flags[u]) ELSE "remove_final")
      BY <2>2 DEF RemoveFinal
    <3> QED BY <1>1, <2>0, <3>1
  <2>3. CASE DeleteRow(u)
    BY <1>1, <2>0, <2>3 DEF DeleteRow
  <2>4. CASE ReleaseIdempotencyKey(u)
    BY <2>4 DEF ReleaseIdempotencyKey, Goal
  <2>5. CASE RemoveStaging(u)
    BY <1>4, <2>5 DEF RemoveStaging
  <2>6. CASE CleanupFault(u)
    <3>1. \/ Go(u, ToRemoveFinal(flags[u])) \/ Go(u, ToDeleteRow(flags[u]))
      BY <1>4, <2>6 DEF CleanupFault, CleanupReleasesKeys
    <3> QED BY <1>1, <2>0, <3>1
  <2> QED BY <1>7, <2>1, <2>2, <2>3, <2>4, <2>5, <2>6 DEF CleanupStep
<1> QED BY <1>6, <1>7 DEF UploadStep

\* HeldInv is inductive, given ServiceInv.
LEMMA HeldStep ==
  ASSUME CleanupReleasesKeys, ServiceInv, HeldInv, [UploadNext]_vars
  PROVE  HeldInv'
<1> USE DEF ServiceInv, HeldInv
<1>0. CatalogTypeOK /\ ThreadTypeOK
  BY DEF UploadTypeOK, ThreadTypeOK
<1>a. \A v : IsPublished(v) => IsPublished(v)'
  BY <1>0, ServiceWrites, CatalogPersists
<1>1. ASSUME NEW x, Same(x) PROVE (Orderly(x) => Orderly(x)') /\ (Held(x) => Held(x)')
  BY <1>1, <1>a DEF Same, Orderly, Holds, Held
<1>b. ASSUME NEW id, NEW x, x = idem'[id].by, Held(x)' PROVE Held(idem[id].by)'
  BY <1>b DEF Held, Holds, IsPublished, HasStatus
<1>2. CASE UNCHANGED <<thread, idem>>
  <2>1. \A x : Same(x)
    BY <1>2 DEF thread, Same
  <2>2. PendingKeys' = PendingKeys
    BY <1>2 DEF PendingKeys
  <2>3. ASSUME NEW id \in PendingKeys, NEW x, x = idem[id].by
        PROVE  x = idem'[id].by /\ Held(x)'
    BY <1>1, <1>2, <2>1, <2>3
  <2>4. \A id \in PendingKeys : Held(idem[id].by)'
    BY <1>b, <2>3
  <2> QED BY <1>1, <2>1, <2>2, <2>4
<1>3. ASSUME NEW u \in VersionIds, UploadStep(u) PROVE HeldInv'
  <2>1. \A x \in VersionIds \ {u} : Same(x)
    BY <1>0, <1>3, ThreadMoves DEF Moves
  <2>2. \A x \in VersionIds : Orderly(x)'
    BY <1>0, <1>1, <1>3, <2>1, OrderlyStep
  <2>3. ASSUME NEW id \in PendingKeys' PROVE Held(idem[id].by)'
    <3>1. id \in DOMAIN idem' /\ idem'[id].status = "pending"
      BY <2>3 DEF PendingKeys
    <3>2. KeyChange(id) \/ KeyNew(u, id)
      BY <1>0, <1>3, <3>1, StepWrites, ThreadKeyChange
    <3>3. CASE id \in DOMAIN idem /\ idem'[id] = idem[id]
      <4>1. PICK x : x = idem[id].by
        OBVIOUS
      <4>2. id \in PendingKeys /\ Held(x) /\ KeyOK(id) /\ x \in VersionIds
        BY <1>0, <3>1, <3>3, <4>1 DEF PendingKeys, CatalogTypeOK, IsTable, KeyRow
      <4>3. CASE x # u
        BY <1>1, <1>b, <2>1, <3>3, <4>1, <4>2, <4>3
      <4>4. CASE x = u
        <5>1. IsReserved(KeyOf(u), request[u].content) /\ id = KeyOf(u)
          BY <3>1, <3>3, <4>1, <4>2, <4>4 DEF KeyOK, IsReserved
        <5>2. ~ReleaseKey(KeyOf(u), request[u].content)
          BY <3>1, <5>1 DEF ReleaseKey, Drop, Restrict
        <5>3. ~\E v : CompleteKey(KeyOf(u), request[u].content, v)
          <6>1. idem[id] \in KeyRow
            BY <1>0, <3>3 DEF CatalogTypeOK, IsTable
          <6>2. ASSUME NEW v, CompleteKey(KeyOf(u), request[u].content, v) PROVE FALSE
            <7>1. idem'[id] = Completed(idem[id], v)
              BY <3>3, <5>1, <6>2 DEF CompleteKey
            <7> QED BY <3>1, <6>1, <7>1 DEF Completed, KeyRow
          <6> QED BY <6>2
        <5>4. Held(u)'
          BY <1>0, <1>3, <1>a, <4>2, <4>4, <5>2, <5>3, HoldsStep DEF Held
        <5> QED BY <1>b, <3>3, <4>1, <4>4, <5>4
      <4> QED BY <4>3, <4>4
    <3>4. ASSUME id \in PendingKeys, NEW v \in VersionIds, idem'[id] = Completed(idem[id], v)
          PROVE  FALSE
      BY <1>0, <3>1, <3>4 DEF Completed, PendingKeys, CatalogTypeOK, IsTable, KeyRow
    <3>5. CASE KeyNew(u, id)
      <4>1. pc[u] = "reserve" /\ id \notin DOMAIN idem /\ idem'[id].by = u
        BY <3>5 DEF KeyNew
      <4>2. ReserveIdempotencyKey(u) \/ BodyFault(u)
        BY <1>3, <4>1 DEF UploadStep, BodyStep, CleanupStep, RecordStarted, CreateStaging,
           RejectPayload, HashPayload, WritePayload, FindDuplicate, InsertPendingVersion,
           GetPendingVersion, FindDuplicateAgain, CompleteDuplicate, InsertFileRecord,
           WriteCommitReady, MakeParent, MoveToFinal, SyncParent, CommitUpload,
           CompleteIdempotencyKey, RecordCommitted, RecordAborted, RemoveFinal,
           DeleteRow, ReleaseIdempotencyKey, RemoveStaging, CleanupFault, CleanupSteps
      <4>3. GoSetting(u, "find", flags[u] \cup {"reserved_idempotency"})
        BY <3>1, <4>1, <4>2 DEF ReserveIdempotencyKey, BodyFault, OnlyThread, catalogVars
      <4>4. Holds(u)'
        BY <1>0, <4>3 DEF GoSetting, Holds, ThreadTypeOK
      <4> QED BY <1>b, <4>1, <4>4 DEF Held
    <3> QED BY <3>2, <3>3, <3>4, <3>5 DEF KeyChange
  <2> QED BY <2>2, <2>3
<1>4. ASSUME NEW u \in VersionIds, NEW w \in Workers, NEW r \in Requests, Arrive(u, w, r)
      PROVE  HeldInv'
  <2>1. /\ \A x \in VersionIds \ {u} : Same(x)
        /\ pc[u] = "idle" /\ flags'[u] = {} /\ idem' = idem
    BY <1>0, <1>4, ArriveMoves DEF ThreadOK, Arrive, Claim, catalogVars
  <2>2. \A x \in VersionIds : Orderly(x)'
    BY <1>1, <1>4, <2>1, ArriveMoves, <1>0 DEF Orderly
  <2>3. ASSUME NEW id \in PendingKeys' PROVE Held(idem[id].by)'
    <3>1. id \in PendingKeys /\ idem'[id].by = idem[id].by /\ idem[id].by \in VersionIds
      BY <1>0, <2>1, <2>3 DEF PendingKeys, CatalogTypeOK, IsTable, KeyRow
    <3>2. PICK x : x = idem[id].by
      OBVIOUS
    <3>3. Held(x) /\ x \in VersionIds /\ x = idem'[id].by
      BY <3>1, <3>2
    <3>4. x # u \/ IsPublished(x)
      BY <2>1, <3>3 DEF Held, Holds
    <3>5. Held(x)'
      BY <1>1, <1>a, <2>1, <3>3, <3>4 DEF Held, Holds
    <3> QED BY <1>b, <3>3, <3>5
  <2> QED BY <2>2, <2>3
<1>5. ASSUME NEW w \in Workers, StartupStep(w) PROVE HeldInv'
  <2>1. \A x : Same(x)
    BY <1>5, StartupMoves DEF thread, Same
  <2>2. ASSUME NEW id \in PendingKeys' PROVE Held(idem[id].by)'
    <3>1. id \in DOMAIN idem' /\ idem'[id].status = "pending"
      BY <2>2 DEF PendingKeys
    <3>2. WorkerWrites(w)
      BY <1>5, StartupWrites DEF WorkersOK
    <3>3. UNCHANGED idem \/ WritesFound
      BY <3>2 DEF WorkerWrites, catalogVars, CommitVersion, DeletePendingVersion
    <3>4. KeyChange(id)
      BY <1>0, <3>1, <3>3, ReconcileKeyChange DEF KeyChange
    <3>5. id \in PendingKeys /\ idem'[id] = idem[id]
      BY <1>0, <3>1, <3>4 DEF KeyChange, Completed, PendingKeys, CatalogTypeOK, IsTable, KeyRow
    <3> QED BY <1>1, <1>b, <2>1, <3>5
  <2> QED BY <1>1, <2>1, <2>2
<1>6. ASSUME NEW w \in Workers, Crash(w) PROVE HeldInv'
  <2>1. /\ idem' = idem
        /\ \A x \in VersionIds : flags'[x] = flags[x] /\ pc'[x] \in {pc[x], "dead"}
    BY <1>0, <1>6, CrashMoves DEF catalogVars
  <2>2. \A x \in VersionIds : Orderly(x)'
    BY <2>1 DEF Orderly
  <2>3. ASSUME NEW id \in PendingKeys' PROVE Held(idem[id].by)'
    <3>1. id \in PendingKeys /\ idem'[id].by = idem[id].by /\ idem[id].by \in VersionIds
      BY <1>0, <2>1, <2>3 DEF PendingKeys, CatalogTypeOK, IsTable, KeyRow
    <3>2. PICK x : x = idem[id].by
      OBVIOUS
    <3>3. Held(x) /\ x \in VersionIds /\ x = idem'[id].by
      BY <3>1, <3>2
    <3>4. Held(x)'
      BY <1>a, <2>1, <3>3 DEF Held, Holds
    <3> QED BY <1>b, <3>3, <3>4
  <2> QED BY <2>2, <2>3
<1>7. ASSUME NEW call \in RetractCalls, RetractStep(call) PROVE UNCHANGED <<thread, idem>>
  BY <1>7 DEF RetractStep, ReadForRetraction, WriteRetraction, RecordRetraction, OnlyRetraction,
              RetractVersion, RecordEvent, catalogVars
<1>8. ASSUME TimePasses \/ UNCHANGED vars PROVE UNCHANGED <<thread, idem>>
  BY <1>8 DEF TimePasses, vars, catalogVars
<1> QED BY <1>2, <1>3, <1>4, <1>5, <1>6, <1>7, <1>8 DEF UploadNext

\* While the two deletes of the "finally" block do not raise, HeldInv holds in
\* every reachable state.
THEOREM HeldInvariant ==
  ASSUME CleanupReleasesKeys PROVE UploadSpec => []HeldInv
<1>1. UploadInit => HeldInv
  BY DEF UploadInit, CatalogInit, EmptyTable, HeldInv, Orderly, PendingKeys
<1>2. ServiceInv /\ HeldInv /\ [UploadNext]_vars => HeldInv'
  BY HeldStep
<1> QED BY <1>1, <1>2, ServiceInvariant, PTL DEF UploadSpec

\* Unless one of StrandingFaults happens, a reservation that answers "already in
\* progress" belongs to an upload that runs, or that died with its worker: it is
\* never left behind by one that has been answered (app.py:704).
THEOREM KeysAreHeld ==
  ASSUME Faulty \cap StrandingFaults = {}
  PROVE  UploadSpec => []PendingKeyIsHeld
<1>1. CleanupReleasesKeys
  BY DEF StrandingFaults, CleanupReleasesKeys
<1>2. HeldInv => PendingKeyIsHeld
  BY DEF HeldInv, Held, Holds, PendingKeyIsHeld, StrandingFaults
<1> QED BY <1>1, <1>2, HeldInvariant, PTL

=============================================================================
