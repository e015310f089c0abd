----------------------------- MODULE Disk_proofs -----------------------------
(* Theorems about the version directories of UploadService when one worker    *)
(* runs: what a directory and a row say of each other at every step of an     *)
(* upload, and what follows for readers, that the service implements          *)
(* Publication.                                                               *)
EXTENDS Startup_proofs

-----------------------------------------------------------------------------
(* What a step of an upload does to its row and its directories *)

\* The steps before the row is inserted, and those that rely on it
BeforeRow == {"idle", "record_started", "create_staging", "write_payload", "reserve", "find",
              "insert", "find_again", "complete_duplicate"}
WithRow == {"get_pending", "insert_files", "write_ready", "mkdir_parent", "move",
            "fsync_parent", "commit"}

\* The steps between the last artifact and os.replace
Staged == {"reserve", "find", "insert", "find_again", "complete_duplicate", "get_pending",
           "insert_files", "write_ready", "mkdir_parent", "move"}

\* The row, the file records and the directories of u stay.
Still(u) ==
  /\ UNCHANGED <<versions, files, usage>>
  /\ incoming'[u] = incoming[u] /\ final'[u] = final[u]

SameFlags(u) ==
  \A f \in {"pending_inserted", "finalized"} : f \in flags'[u] <=> f \in flags[u]

\* The body ends before the commit.
Fails(u) ==
  /\ pc[u] \in (BeforeRow \cup WithRow) \ {"idle"}
  /\ Still(u) /\ SameFlags(u)
  /\ pc'[u] = ToCleanup(flags'[u])
  /\ \/ pc[u] \in Faulty \cup BeforeRow \cup {"mkdir_parent", "move"}
     \/ pc[u] = "commit" /\ ~CanCommit(u)

\* The body goes on, or ends, after the commit.
Ends(u) ==
  /\ pc[u] \in {"complete", "record_committed"} /\ pc'[u] \in {"record_committed", "done"}
  /\ Still(u) /\ "committed" \in flags'[u]

\* A step of the body that moves no entry and writes no row
Advances(u) ==
  /\ Still(u)
  /\ \/ /\ pc[u] \in BeforeRow \ {"idle"} /\ pc'[u] \in BeforeRow \ {"idle"}
        /\ SameFlags(u)
        /\ pc'[u] \in Staged => pc[u] \in Staged \/ Payload \subseteq incoming[u]
     \/ /\ pc[u] = "get_pending" /\ pc'[u] = "insert_files"
        /\ flags'[u] = flags[u] \cup {"pending_inserted"}
     \/ /\ pc[u] = "mkdir_parent" /\ pc'[u] = "move" /\ SameFlags(u)
     \/ /\ pc[u] = "fsync_parent" /\ pc'[u] = "commit"
        /\ flags'[u] = flags[u] \cup {"finalized"}

\* A step that writes to a directory
Stages(u) ==
  /\ UNCHANGED <<versions, files, usage>> /\ SameFlags(u)
  /\ \/ /\ pc[u] = "create_staging" /\ pc'[u] = "write_payload"
        /\ incoming'[u] = {"dir"} /\ final'[u] = final[u]
     \/ /\ pc[u] = "write_payload" /\ pc'[u] = "write_payload"
        /\ \E x \in Payload : incoming'[u] = incoming[u] \cup {x}
        /\ final'[u] = final[u]
     \/ /\ pc[u] = "write_ready" /\ pc'[u] = "mkdir_parent"
        /\ incoming'[u] = incoming[u] \cup {"ready"} /\ final'[u] = final[u]
     \/ /\ pc[u] = "move" /\ pc'[u] = "fsync_parent"
        /\ final'[u] = incoming[u] /\ incoming'[u] = {}

\* A step that writes to the row or its file records
Writes(u) ==
  /\ incoming'[u] = incoming[u] /\ final'[u] = final[u] /\ SameFlags(u)
  /\ \/ /\ pc[u] = "insert" /\ pc'[u] = "get_pending"
        /\ InsertPending(u, request[u].dataset, request[u].principal, request[u].content)
     \/ /\ pc[u] = "insert_files"
        /\ \E f \in FilesLeft(u) :
             /\ InsertFile(u, f)
             /\ pc'[u] = IF FilesLeft(u) = {f} THEN "write_ready" ELSE "insert_files"
     \/ /\ pc[u] = "commit" /\ pc'[u] \in {"complete", "record_committed"}
        /\ CommitVersion(u) /\ "committed" \in flags'[u]

\* A step of the "finally" block
CleansUp(u) ==
  /\ flags'[u] = flags[u]
  /\ \/ /\ pc[u] = "record_aborted" /\ pc'[u] = ToRemoveFinal(flags[u])
        /\ Still(u)
     \/ /\ pc[u] = "remove_final" /\ pc'[u] = "remove_final"
        /\ UNCHANGED <<versions, files, usage>>
        /\ incoming'[u] = incoming[u] /\ final'[u] \subseteq final[u]
     \/ /\ pc[u] = "remove_final" /\ pc'[u] = ToDeleteRow(flags[u])
        /\ final[u] = {} \/ pc[u] \in Faulty
        /\ Still(u)
     \/ /\ pc[u] = "delete_row" /\ pc'[u] = ToRelease(flags[u])
        /\ DeletePendingVersion(u)
        /\ incoming'[u] = incoming[u] /\ final'[u] = final[u]
     \/ /\ pc[u] = "release_key" /\ pc'[u] = "remove_staging"
        /\ Still(u)
     \/ /\ pc[u] = "remove_staging" /\ pc'[u] = "done"
        /\ UNCHANGED <<versions, files, usage>>
        /\ incoming'[u] = {} /\ final'[u] = final[u]
     \/ /\ pc[u] \in Faulty \cap {"delete_row", "release_key", "remove_staging"}
        /\ pc'[u] = "done"
        /\ Still(u)

Effect(u) == Fails(u) \/ Ends(u) \/ Advances(u) \/ Stages(u) \/ Writes(u) \/ CleansUp(u)

\* Leaving the body, before the commit and after it
LEMMA LeaveEffect ==
  ASSUME ThreadTypeOK, NEW u \in VersionIds, Orderly(u), Still(u), NEW result, NEW fl,
         Leave(u, result, fl),
         \A f \in {"pending_inserted", "finalized", "committed"} : f \in fl <=> f \in flags[u],
         \/ pc[u] \in {"complete", "record_committed"} /\ "committed" \in flags[u]
         \/ /\ pc[u] \in (BeforeRow \cup WithRow) \ {"idle"}
            /\ \/ pc[u] \in Faulty \cup BeforeRow \cup {"mkdir_parent", "move"}
               \/ pc[u] = "commit" /\ ~CanCommit(u)
  PROVE  Effect(u)
<1>1. /\ pc'[u] = IF "committed" \in fl THEN "done" ELSE ToCleanup(fl)
      /\ flags'[u] = fl
  BY DEF Leave, ThreadTypeOK
<1>2. CASE pc[u] \in {"complete", "record_committed"} /\ "committed" \in flags[u]
  BY <1>1, <1>2 DEF Effect, Ends
<1>3. CASE /\ pc[u] \in (BeforeRow \cup WithRow) \ {"idle"}
           /\ \/ pc[u] \in Faulty \cup BeforeRow \cup {"mkdir_parent", "move"}
              \/ pc[u] = "commit" /\ ~CanCommit(u)
  <2>1. "committed" \notin flags[u]
    BY <1>3 DEF Orderly, BeforeRow, WithRow
  <2> QED BY <1>1, <1>3, <2>1 DEF Effect, Fails, SameFlags
<1> QED BY <1>2, <1>3

\* Every step of an upload is one of these.
LEMMA UploadEffects ==
  ASSUME ThreadTypeOK, DiskTypeOK, NEW u \in VersionIds, Orderly(u),
         pc[u] \in {"complete", "record_committed"} => "committed" \in flags[u],
         UploadStep(u)
  PROVE  Effect(u)
<1> USE DEF ThreadTypeOK
<1>0. flags[u] \in SUBSET Flags /\ (pc[u] \in BodySteps =>
        pc[u] \in ((BeforeRow \cup WithRow) \ {"idle"}) \cup {"complete", "record_committed"})
  BY DEF BodySteps, BeforeRow, WithRow
<1>1. /\ OnlyThread => Still(u)
      /\ OnlyCatalog => incoming'[u] = incoming[u] /\ final'[u] = final[u]
      /\ OnlyDisk => UNCHANGED <<versions, files, usage>>
  BY DEF OnlyThread, OnlyCatalog, OnlyDisk, Still, disk, catalogVars
<1>2. ASSUME NEW a, NEW v, RecordEvent(a, v), OnlyCatalog PROVE Still(u)
  BY <1>1, <1>2 DEF RecordEvent, Still
<1>3. ASSUME NEW s, Go(u, s) PROVE pc'[u] = s /\ flags'[u] = flags[u] /\ SameFlags(u)
  BY <1>3 DEF Go, SameFlags
<1>4. ASSUME NEW s, NEW fl, GoSetting(u, s, fl) PROVE pc'[u] = s /\ flags'[u] = fl
  BY <1>4 DEF GoSetting
<1>5. ASSUME NEW v, AnswerDuplicate(u, v), Still(u), pc[u] \in {"find", "find_again"} PROVE Effect(u)
  <2>1. CASE HasKey(u)
    <3>1. pc'[u] = "complete_duplicate" /\ flags'[u] = flags[u]
      BY <1>5, <2>1 DEF AnswerDuplicate
    <3> QED BY <1>5, <3>1 DEF Effect, Advances, SameFlags, BeforeRow, Staged
  <2>2. CASE ~HasKey(u)
    <3>1. Leave(u, v, flags[u] \cup {"suppress_abort_event"})
      BY <1>5, <2>2 DEF AnswerDuplicate
    <3> QED BY <1>5, <3>1, LeaveEffect DEF BeforeRow
  <2> QED BY <2>1, <2>2
<1>6. CASE BodyStep(u)
  <2>1. CASE RecordStarted(u)
    BY <1>2, <1>4, <2>1 DEF RecordStarted, Effect, Advances, SameFlags, BeforeRow, Staged
  <2>2. CASE CreateStaging(u)
    BY <1>1, <1>3, <2>2 DEF CreateStaging, Effect, Stages, DiskTypeOK
  <2>3. CASE \E x \in Payload : WritePayload(u, x)
    BY <1>1, <2>3 DEF WritePayload, thread, Effect, Stages, SameFlags, DiskTypeOK
  <2>4. CASE RejectPayload(u)
    BY <1>1, <2>4, LeaveEffect DEF RejectPayload, BeforeRow
  <2>5. CASE HashPayload(u)
    <3>1. pc[u] = "write_payload" /\ Payload \subseteq incoming[u] /\ Still(u)
      BY <1>1, <2>5 DEF HashPayload
    <3>2. pc'[u] \in {"reserve", "find"} /\ SameFlags(u)
      BY <1>3, <2>5 DEF HashPayload
    <3> QED BY <3>1, <3>2 DEF Effect, Advances, BeforeRow
  <2>6. CASE ReserveIdempotencyKey(u)
    <3>1. pc[u] = "reserve" /\ Still(u)
      <4>1. UNCHANGED <<versions, files, usage>> /\ OnlyCatalog
        BY <2>6 DEF ReserveIdempotencyKey, ReserveKey, catalogVars
      <4> QED BY <1>1, <2>6, <4>1 DEF ReserveIdempotencyKey, Still
    <3>2. CASE GoSetting(u, "find", flags[u] \cup {"reserved_idempotency"})
      BY <1>4, <3>1, <3>2 DEF Effect, Advances, SameFlags, BeforeRow, Staged
    <3>3. CASE \/ Leave(u, "key_conflict", flags[u]) \/ AnswerInProgress(u)
               \/ Leave(u, idem[KeyOf(u)].result, flags[u] \cup {"suppress_abort_event"})
      BY <3>1, <3>3, LeaveEffect DEF AnswerInProgress, BeforeRow
    <3> QED BY <2>6, <3>2, <3>3 DEF ReserveIdempotencyKey
  <2>7. CASE FindDuplicate(u)
    <3>1. pc[u] = "find" /\ Still(u)
      BY <1>1, <2>7 DEF FindDuplicate
    <3>2. CASE Go(u, "insert")
      BY <1>3, <3>1, <3>2 DEF Effect, Advances, BeforeRow, Staged
    <3> QED BY <1>5, <2>7, <3>1, <3>2 DEF FindDuplicate
  <2>8. CASE InsertPendingVersion(u)
    <3>1. pc[u] = "insert" /\ OnlyCatalog
      BY <2>8 DEF InsertPendingVersion
    <3>2. CASE /\ InsertPending(u, request[u].dataset, request[u].principal, request[u].content)
               /\ Go(u, "get_pending")
      BY <1>1, <1>3, <3>1, <3>2 DEF Effect, Writes
    <3>3. CASE Go(u, "find_again") /\ UNCHANGED catalogVars
      BY <1>1, <1>3, <3>1, <3>3 DEF Effect, Advances, BeforeRow, Staged, Still, catalogVars
    <3> QED BY <2>8, <3>2, <3>3 DEF InsertPendingVersion
  <2>9. CASE GetPendingVersion(u)
    BY <1>1, <1>4, <2>9 DEF GetPendingVersion, Effect, Advances
  <2>10. CASE FindDuplicateAgain(u)
    <3>1. pc[u] = "find_again" /\ Still(u)
      BY <1>1, <2>10 DEF FindDuplicateAgain
    <3>2. CASE Leave(u, "still_pending", flags[u])
      BY <3>1, <3>2, LeaveEffect DEF BeforeRow
    <3> QED BY <1>5, <2>10, <3>1, <3>2 DEF FindDuplicateAgain
  <2>11. CASE CompleteDuplicate(u)
    <3>1. pc[u] = "complete_duplicate" /\ Still(u)
      BY <1>1, <2>11 DEF CompleteDuplicate, CompleteKey, Still
    <3>2. Leave(u, answer[u], (flags[u] \ {"reserved_idempotency"}) \cup {"suppress_abort_event"})
      BY <2>11 DEF CompleteDuplicate
    <3> QED BY <3>1, <3>2, LeaveEffect DEF BeforeRow
  <2>12. ASSUME NEW f \in Paths, InsertFileRecord(u, f) PROVE Effect(u)
    <3>1. /\ pc[u] = "insert_files" /\ f \in FilesLeft(u) /\ InsertFile(u, f) /\ OnlyCatalog
          /\ pc'[u] = (IF FilesLeft(u) = {f} THEN "write_ready" ELSE "insert_files") /\ SameFlags(u)
      BY <1>3, <2>12 DEF InsertFileRecord
    <3> QED BY <1>1, <3>1 DEF Effect, Writes
  <2>13. CASE WriteCommitReady(u)
    BY <1>1, <1>3, <2>13 DEF WriteCommitReady, Effect, Stages, DiskTypeOK
  <2>14. CASE MakeParent(u)
    <3>1. pc[u] = "mkdir_parent" /\ Still(u)
      BY <1>1, <2>14 DEF MakeParent, Still
    <3>2. CASE Go(u, "move")
      BY <1>3, <3>1, <3>2 DEF Effect, Advances
    <3>3. CASE Leave(u, "failed", flags[u])
      BY <3>1, <3>3, LeaveEffect DEF WithRow
    <3> QED BY <2>14, <3>2, <3>3 DEF MakeParent
  <2>15. CASE MoveToFinal(u)
    <3>1. pc[u] = "move" /\ OnlyDisk
      BY <2>15 DEF MoveToFinal
    <3>2. CASE Go(u, "fsync_parent") /\ final' = [final EXCEPT ![u] = incoming[u]]
               /\ incoming' = [incoming EXCEPT ![u] = {}]
      BY <1>1, <1>3, <3>1, <3>2 DEF Effect, Stages, DiskTypeOK
    <3>3. CASE Leave(u, "failed", flags[u]) /\ UNCHANGED <<incoming, final>>
      BY <1>1, <3>1, <3>3, LeaveEffect DEF WithRow, Still
    <3> QED BY <2>15, <3>2, <3>3 DEF MoveToFinal
  <2>16. CASE SyncParent(u)
    BY <1>1, <1>4, <2>16 DEF SyncParent, Effect, Advances
  <2>17. CASE CommitUpload(u)
    <3>1. pc[u] = "commit" /\ OnlyCatalog
      BY <2>17 DEF CommitUpload
    <3>2. CASE /\ CommitVersion(u)
               /\ GoSetting(u, IF HasKey(u) THEN "complete" ELSE "record_committed",
                            flags[u] \cup {"committed"})
      BY <1>1, <1>4, <3>1, <3>2 DEF Effect, Writes, SameFlags
    <3>3. ASSUME NEW e, ~CanCommit(u), Leave(u, e, flags[u]), UNCHANGED catalogVars
          PROVE  Effect(u)
      BY <1>1, <3>1, <3>3, LeaveEffect DEF Still, catalogVars, WithRow
    <3> QED BY <2>17, <3>2, <3>3 DEF CommitUpload
  <2>18. CASE CompleteIdempotencyKey(u)
    <3>1. pc[u] = "complete" /\ Still(u)
      BY <1>1, <2>18 DEF CompleteIdempotencyKey, CompleteKey, Still
    <3>2. pc'[u] = "record_committed" /\ flags'[u] = flags[u] \ {"reserved_idempotency"}
      BY <1>4, <2>18 DEF CompleteIdempotencyKey
    <3> QED BY <3>1, <3>2 DEF Effect, Ends
  <2>19. CASE RecordCommitted(u)
    <3>1. pc[u] = "record_committed" /\ Still(u) /\ Leave(u, u, flags[u])
      BY <1>2, <2>19 DEF RecordCommitted
    <3> QED BY <3>1, LeaveEffect
  <2>20. CASE BodyFault(u)
    <3>1. pc[u] \in BodySteps /\ pc[u] \in Faulty /\ Still(u) /\ Leave(u, "failed", flags[u])
      BY <1>1, <2>20 DEF BodyFault
    <3> QED BY <1>0, <3>1, LeaveEffect
  <2> QED
    BY <1>6, <2>1, <2>2, <2>3, <2>4, <2>5, <2>6, <2>7, <2>8, <2>9, <2>10, <2>11, <2>12, <2>13,
       <2>14, <2>15, <2>16, <2>17, <2>18, <2>19, <2>20 DEF BodyStep
<1>7. CASE CleanupStep(u)
  <2>1. CASE RecordAborted(u)
    BY <1>2, <1>3, <2>1 DEF RecordAborted, Effect, CleansUp
  <2>2. CASE RemoveFinal(u)
    <3>1. /\ pc[u] = "remove_final" /\ OnlyDisk /\ flags'[u] = flags[u]
          /\ pc'[u] = IF final[u] = {} THEN ToDeleteRow(flags[u]) ELSE pc[u]
      BY <1>3, <2>2 DEF RemoveFinal
    <3>2. CASE final[u] = {}
      <4>1. UNCHANGED <<incoming, final>>
        BY <2>2, <3>2 DEF RemoveFinal, RemoveVersionDir
      <4> QED BY <1>1, <3>1, <3>2, <4>1 DEF Effect, CleansUp, Still
    <3>3. CASE final[u] # {}
      <4>1. incoming' = incoming /\ \E e : final' = [final EXCEPT ![u] = @ \ {e}]
        BY <2>2, <3>3 DEF RemoveFinal, RemoveVersionDir
      <4>2. final'[u] \subseteq final[u]
        BY <4>1 DEF DiskTypeOK
      <4> QED BY <1>1, <3>1, <3>3, <4>1, <4>2 DEF Effect, CleansUp
    <3> QED BY <3>2, <3>3
  <2>3. CASE DeleteRow(u)
    BY <1>1, <1>3, <2>3 DEF DeleteRow, Effect, CleansUp
  <2>4. CASE ReleaseIdempotencyKey(u)
    BY <1>1, <1>3, <2>4 DEF ReleaseIdempotencyKey, ReleaseKey, Still, Effect, CleansUp
  <2>5. CASE RemoveStaging(u)
    BY <1>1, <1>3, <2>5 DEF RemoveStaging, DiskTypeOK, Effect, CleansUp
  <2>6. CASE CleanupFault(u)
    <3>1. pc[u] \in Faulty \cap CleanupSteps /\ Still(u) /\ flags'[u] = flags[u]
      BY <1>1, <1>3, <2>6 DEF CleanupFault
    <3>2. CASE pc[u] = "record_aborted"
      BY <1>3, <2>6, <3>1, <3>2 DEF CleanupFault, Effect, CleansUp
    <3>3. CASE pc[u] = "remove_final"
      BY <1>3, <2>6, <3>1, <3>3 DEF CleanupFault, Effect, CleansUp
    <3>4. CASE pc[u] \in {"delete_row", "release_key", "remove_staging"}
      BY <1>3, <2>6, <3>1, <3>4 DEF CleanupFault, Effect, CleansUp
    <3> QED BY <3>1, <3>2, <3>3, <3>4 DEF CleanupSteps
  <2> QED BY <1>7, <2>1, <2>2, <2>3, <2>4, <2>5, <2>6 DEF CleanupStep
<1> QED BY <1>6, <1>7 DEF UploadStep

-----------------------------------------------------------------------------
(* What a step of the service does to one version *)

Arrives(x) ==
  pc[x] = "idle" /\ pc'[x] \in {"record_started", "done"} /\ flags'[x] = flags[x] /\ Kept(x)

Dies(x) ==
  Mortal # {} /\ Running(x) /\ pc'[x] = "dead" /\ flags'[x] = flags[x] /\ Kept(x)

Restarts(x) ==
  /\ ~Running(x) /\ Same(x)
  /\ \E w \in Workers : StartupStep(w) /\ StartupChange(w, x)

\* A version is worked on by its own upload, or by a startup when no upload runs.
LEMMA VersionChanges ==
  ASSUME SoleWorker, ServiceInv, RunsUp, [UploadNext]_vars, NEW x \in VersionIds
  PROVE  Untouched(x) \/ Arrives(x) \/ UploadStep(x) \/ Dies(x) \/ Restarts(x)
<1>0. CatalogTypeOK /\ ThreadTypeOK /\ UploadTypeOK /\ WorkersOK
  BY DEF ServiceInv, UploadTypeOK, ThreadTypeOK
<1>1. ASSUME NEW u \in VersionIds, UploadStep(u) PROVE UploadStep(x) \/ Untouched(x)
  BY <1>1, OtherUploads
<1>2. ASSUME NEW u \in VersionIds, NEW w \in Workers, NEW r \in Requests, Arrive(u, w, r)
      PROVE  Untouched(x) \/ Arrives(x)
  <2>1. /\ UNCHANGED disk /\ pc[u] = "idle" /\ pc'[u] \in {"record_started", "done"}
        /\ flags'[u] = flags[u] /\ (x # u => Same(x))
    BY <1>0, <1>2, ArriveMoves
  <2>2. UNCHANGED <<versions, files, usage>>
    BY <1>2 DEF Arrive, Claim, catalogVars
  <2> QED BY <2>1, <2>2, SameKept DEF disk, Untouched, Arrives
<1>3. ASSUME NEW w \in Workers, StartupStep(w) PROVE Restarts(x)
  <2>1. Same(x)
    BY <1>0, <1>3, StartupMoves DEF thread, Same
  <2>2. ~Running(x)
    BY <1>3, StartupIsNotUp DEF SoleWorker, RunsUp
  <2> QED BY <1>3, <2>1, <2>2, StartupChanges DEF Restarts
<1>4. ASSUME NEW w \in Workers, Crash(w) PROVE Untouched(x) \/ Dies(x)
  <2>0. Mortal # {}
    BY <1>4 DEF Crash
  <2>1. /\ UNCHANGED <<catalogVars, disk>>
        /\ request'[x] = request[x] /\ home'[x] = home[x]
        /\ flags'[x] = flags[x] /\ answer'[x] = answer[x]
        /\ pc'[x] = IF Running(x) /\ home[x] = w THEN "dead" ELSE pc[x]
    BY <1>0, <1>4, CrashMoves
  <2>2. Kept(x)
    BY <2>1, SameKept DEF catalogVars, disk
  <2> QED BY <2>0, <2>1, <2>2 DEF Untouched, Same, Dies
<1>5. CASE \/ \E call \in RetractCalls : RetractStep(call)
           \/ TimePasses \/ UNCHANGED vars
  <2>1. CASE \E call \in RetractCalls : RetractStep(call)
    BY <2>1, RetractionKeeps
  <2>2. CASE TimePasses \/ UNCHANGED vars
    <3>1. UNCHANGED <<catalogVars, disk, thread>>
      BY <2>2 DEF TimePasses, vars
    <3> QED BY <3>1, SameKept DEF catalogVars, disk, thread, Same, Untouched
  <2> QED BY <1>5, <2>1, <2>2
<1> QED BY <1>1, <1>2, <1>3, <1>4, <1>5 DEF UploadNext

-----------------------------------------------------------------------------
(* A directory and its row *)

BeforeMove == BeforeRow \cup {"get_pending", "insert_files", "write_ready", "mkdir_parent", "move"}
BeforeReady == BeforeRow \cup {"get_pending", "insert_files", "write_ready"}
AfterFiles == {"write_ready", "mkdir_parent", "move", "fsync_parent", "commit"}

\* Where each flag of the upload, its row, its entries and its file records are
\* at each of its steps; and a marker in a staging directory means what it says.
DirectoryOK(u) ==
  /\ Orderly(u)
  /\ pc[u] \in {"complete", "record_committed"} => "committed" \in flags[u]
  /\ "finalized" \in flags[u] => pc[u] \notin BeforeMove \cup {"fsync_parent"}
  /\ pc[u] \in BeforeRow => u \notin DOMAIN versions
  /\ pc[u] \in WithRow => HasStatus(u, "pending")
  /\ pc[u] \in CleanupSteps => ~IsPublished(u)
  /\ pc[u] \in BeforeMove => final[u] = {}
  /\ pc[u] \in BeforeReady => "ready" \notin incoming[u]
  /\ pc[u] \in Staged => Payload \subseteq incoming[u]
  /\ pc[u] \in {"mkdir_parent", "move"} => "ready" \in incoming[u]
  /\ pc[u] \in {"fsync_parent", "commit"} => Payload \cup {"ready"} \subseteq final[u]
  /\ pc[u] \in AfterFiles => AllFiles(u)
  /\ "ready" \in incoming[u] =>
       Payload \subseteq incoming[u] /\ (HasStatus(u, "pending") => AllFiles(u))

\* A step of another upload, a request, a kill or a retraction
LEMMA DirectoryKept ==
  ASSUME NEW x \in VersionIds, ThreadOK(x), DirectoryOK(x), Kept(x), flags'[x] = flags[x],
         \/ pc'[x] = pc[x]
         \/ pc[x] = "idle" /\ pc'[x] \in {"record_started", "done"}
         \/ pc'[x] = "dead"
  PROVE  DirectoryOK(x)'
<1>1. AllFiles(x)' <=> AllFiles(x)
  BY DEF Kept, AllFiles
<1>2. Orderly(x)'
  BY DEF DirectoryOK, Orderly, ThreadOK
<1> QED BY <1>1, <1>2 DEF DirectoryOK, Kept, BeforeRow, BeforeMove, BeforeReady, AfterFiles, Staged,
                          WithRow, CleanupSteps, HasStatus, IsPublished

\* Recovery leaves to an upload that does not run what it says.
LEMMA DirectoryRestarts ==
  ASSUME ServiceInv, RecoveryInv, NEW x \in VersionIds, DirectoryOK(x), Restarts(x)
  PROVE  DirectoryOK(x)'
<1> USE DEF ServiceInv
<1>0. /\ ThreadTypeOK /\ DiskTypeOK /\ CatalogTypeOK /\ ThreadOK(x)
  BY DEF UploadTypeOK, ThreadTypeOK, DiskTypeOK
<1>1. pc'[x] = pc[x] /\ flags'[x] = flags[x] /\ pc[x] \in {"idle", "done", "dead"}
  BY <1>0 DEF Restarts, Same, Running, Steps, ThreadTypeOK
<1>2. PICK w \in Workers : StartupStep(w) /\ StartupChange(w, x) /\ HandOK(w)
  BY DEF Restarts, RecoveryInv
<1>3. CASE Kept(x)
  BY <1>0, <1>1, <1>3, DirectoryKept
<1>4. CASE ~Kept(x)
  <2>1. ASSUME pc[x] = "idle" PROVE x \notin DOMAIN versions
    BY <2>1 DEF RowOK
  <2>2. /\ incoming'[x] = {} \/ incoming'[x] = incoming[x]
        /\ pc[x] = "idle" => final'[x] = final[x] /\ x \notin DOMAIN versions'
        /\ incoming'[x] = incoming[x] /\ HasStatus(x, "pending")' =>
             /\ HasStatus(x, "pending")
             /\ AllFiles(x) => AllFiles(x)'
    <3>1. CASE UNCHANGED catalogVars
      <4>1. final'[x] = final[x] \/ x \in PendingVersions
        BY <1>2, <1>4, <3>1 DEF StartupChange, HandOK, InHand, disk
      <4>2. incoming'[x] = {} \/ incoming'[x] = incoming[x]
        BY <1>2, <1>4, <3>1 DEF StartupChange, disk
      <4> QED BY <2>1, <3>1, <4>1, <4>2 DEF catalogVars, HasStatus, PendingVersions, AllFiles
    <3>2. CASE CommitVersion(x) /\ UNCHANGED disk
      <4>1. ~HasStatus(x, "pending")' /\ HasStatus(x, "pending")
        BY <1>0, <3>2 DEF CommitVersion, CanCommit, HasStatus, CatalogTypeOK, IsTable, VersionRow
      <4> QED BY <2>1, <3>2, <4>1 DEF disk, HasStatus
    <3>3. CASE /\ worker[w].step = "clean_row" /\ x = worker[w].current
               /\ DeletePendingVersion(x) /\ UNCHANGED disk
      <4>1. HasStatus(x, "pending")
        BY <1>2, <3>3 DEF HandOK, InHand, HasStatus, PendingVersions
      <4>2. x \notin DOMAIN versions'
        BY <3>3, <4>1 DEF DeletePendingVersion, Removable, Drop, Restrict
      <4> QED BY <3>3, <4>2 DEF disk, HasStatus
    <3> QED BY <1>2, <1>4, <3>1, <3>2, <3>3 DEF StartupChange
  <2>3. Orderly(x)'
    BY <1>1 DEF DirectoryOK, Orderly
  <2> QED BY <1>1, <2>2, <2>3 DEF DirectoryOK, BeforeRow, BeforeMove, BeforeReady, AfterFiles,
                                  Staged, WithRow, CleanupSteps
<1> QED BY <1>3, <1>4

\* An upload keeps its directory and its row in step, whatever it runs into.
LEMMA DirectoryRuns ==
  ASSUME ServiceInv, [UploadNext]_vars, NEW x \in VersionIds, DirectoryOK(x), UploadStep(x)
  PROVE  DirectoryOK(x)'
<1> DEFINE Goal == DirectoryOK(x)'
<1> SUFFICES Goal
  OBVIOUS
<1>0. /\ ThreadTypeOK /\ DiskTypeOK /\ CatalogTypeOK /\ ThreadOK(x)
      /\ x \in DOMAIN versions => RowOK(x)
      /\ x \in DOMAIN versions' => RowOK(x)'
  BY RowsStep DEF ServiceInv, UploadTypeOK, ThreadTypeOK, DiskTypeOK
<1>1. Orderly(x)'
  BY <1>0, OrderlyStep DEF DirectoryOK
<1>2. Effect(x)
  BY <1>0, UploadEffects DEF DirectoryOK
<1>3. Still(x) => /\ HasStatus(x, "pending")' <=> HasStatus(x, "pending")
                  /\ IsPublished(x)' <=> IsPublished(x)
                  /\ x \in DOMAIN versions' <=> x \in DOMAIN versions
                  /\ AllFiles(x)' <=> AllFiles(x)
                  /\ incoming'[x] = incoming[x] /\ final'[x] = final[x]
  BY DEF Still, HasStatus, IsPublished, AllFiles
<1>4. ~IsPublished(x) \/ pc[x] \notin BeforeRow \cup WithRow \cup CleanupSteps
  BY DEF DirectoryOK, HasStatus, IsPublished
<1> USE DEF DirectoryOK, BeforeRow, BeforeMove, BeforeReady, AfterFiles, Staged, WithRow, CleanupSteps
<1>5. CASE Fails(x)
  <2>1. pc'[x] \in CleanupSteps
    BY <1>5, CleanupBegins DEF Fails
  <2>2. Still(x) /\ ~IsPublished(x)
    BY <1>4, <1>5 DEF Fails
  <2> QED BY <1>1, <1>3, <2>1, <2>2
<1>6. CASE Ends(x)
  BY <1>1, <1>3, <1>6 DEF Ends
<1>7. CASE Advances(x)
  BY <1>1, <1>3, <1>7 DEF Advances, SameFlags
<1>8. CASE Stages(x)
  <2>1. /\ HasStatus(x, "pending")' <=> HasStatus(x, "pending")
        /\ IsPublished(x)' <=> IsPublished(x)
        /\ x \in DOMAIN versions' <=> x \in DOMAIN versions
        /\ AllFiles(x)' <=> AllFiles(x)
    BY <1>8 DEF Stages, HasStatus, IsPublished, AllFiles
  <2>2. "ready" \notin Payload
    BY NamesDiffer
  <2> QED BY <1>1, <1>8, <2>1, <2>2 DEF Stages, SameFlags
<1>9. CASE Writes(x)
  <2>1. CASE /\ pc[x] = "insert" /\ pc'[x] = "get_pending"
             /\ InsertPending(x, request[x].dataset, request[x].principal, request[x].content)
    <3>1. HasStatus(x, "pending")' /\ files' = files
      BY <2>1 DEF InsertPending, NewVersion, Put, HasStatus
    <3>2. "ready" \notin incoming'[x] /\ final'[x] = {} /\ Payload \subseteq incoming'[x]
      BY <1>9, <2>1 DEF Writes
    <3> QED BY <1>1, <1>9, <2>1, <3>1, <3>2 DEF Writes, SameFlags
  <2>2. ASSUME NEW f \in FilesLeft(x), pc[x] = "insert_files", InsertFile(x, f),
               pc'[x] = IF FilesLeft(x) = {f} THEN "write_ready" ELSE "insert_files"
        PROVE  Goal
    <3>1. /\ HasStatus(x, "pending")' /\ HasStatus(x, "pending")
          /\ pc'[x] \in {"write_ready", "insert_files"}
      BY <2>2 DEF InsertFile, HasStatus
    <3>2. pc'[x] = "write_ready" => AllFiles(x)'
      BY <2>2 DEF InsertFile, AllFiles, FilesLeft
    <3>3. "ready" \notin incoming'[x] /\ final'[x] = {} /\ Payload \subseteq incoming'[x]
      BY <1>9, <2>2 DEF Writes
    <3> QED BY <1>1, <1>9, <2>2, <3>1, <3>2, <3>3 DEF Writes, SameFlags
  <2>3. CASE /\ pc[x] = "commit" /\ pc'[x] \in {"complete", "record_committed"}
             /\ CommitVersion(x) /\ "committed" \in flags'[x]
    <3>1. ~HasStatus(x, "pending")'
      BY <1>0, <2>3 DEF CommitVersion, CanCommit, HasStatus, CatalogTypeOK, IsTable, VersionRow
    <3> QED BY <1>1, <1>9, <2>3, <3>1 DEF Writes, SameFlags
  <2> QED BY <1>9, <2>1, <2>2, <2>3 DEF Writes
<1>10. CASE CleansUp(x)
  <2>1. pc'[x] \in CleanupSteps \cup {"done"} /\ pc[x] \in CleanupSteps /\ flags'[x] = flags[x]
    BY <1>10, CleanupBegins DEF CleansUp
  <2>2. ~IsPublished(x)' /\ (HasStatus(x, "pending")' => HasStatus(x, "pending"))
    <3>1. CASE UNCHANGED versions
      BY <1>4, <2>1, <3>1 DEF HasStatus, IsPublished
    <3>2. CASE DeletePendingVersion(x)
      <4>1. versions' = IF HasStatus(x, "pending") THEN Drop(versions, x) ELSE versions
        BY <3>2 DEF DeletePendingVersion, Removable
      <4> QED BY <1>4, <2>1, <4>1 DEF Drop, Restrict, HasStatus, IsPublished
    <3> QED BY <1>10, <3>1, <3>2 DEF CleansUp, Still
  <2>3. incoming'[x] = incoming[x] \/ incoming'[x] = {}
    BY <1>10 DEF CleansUp, Still
  <2>4. HasStatus(x, "pending")' => (AllFiles(x) => AllFiles(x)')
    <3>1. CASE UNCHANGED files
      BY <3>1 DEF AllFiles
    <3>2. CASE DeletePendingVersion(x)
      BY <2>2, <3>2 DEF DeletePendingVersion, Removable, Drop, Restrict, HasStatus
    <3> QED BY <1>10, <3>1, <3>2 DEF CleansUp, Still
  <2> QED BY <1>1, <2>1, <2>2, <2>3, <2>4
<1> QED BY <1>2, <1>5, <1>6, <1>7, <1>8, <1>9, <1>10 DEF Effect

\* One invariant for all uploads
DiskInv == \A u \in VersionIds : DirectoryOK(u)

\* It holds of a new data directory, and of every state after.
LEMMA DiskInit == UploadInit => DiskInv
<1> SUFFICES ASSUME UploadInit, NEW u \in VersionIds PROVE DirectoryOK(u)
  BY DEF DiskInv
<1>1. pc[u] = "idle" /\ flags[u] = {} /\ incoming[u] = {} /\ final[u] = {} /\ u \notin DOMAIN versions
  BY DEF UploadInit, CatalogInit, EmptyTable
<1> QED BY <1>1 DEF DirectoryOK, Orderly, BeforeRow, BeforeMove, BeforeReady, AfterFiles, Staged,
                    WithRow, CleanupSteps

\* Every step keeps it.
LEMMA DiskStep ==
  ASSUME SoleWorker, ServiceInv, RecoveryInv, DiskInv, [UploadNext]_vars
  PROVE  DiskInv'
<1> SUFFICES ASSUME NEW x \in VersionIds PROVE DirectoryOK(x)'
  BY DEF DiskInv
<1>1. DirectoryOK(x) /\ ThreadOK(x) /\ RunsUp
  BY DEF DiskInv, ServiceInv, RecoveryInv
<1>2. CASE Untouched(x) \/ Arrives(x) \/ Dies(x)
  BY <1>1, <1>2, DirectoryKept DEF Untouched, Same, Arrives, Dies
<1>3. CASE UploadStep(x)
  BY <1>1, <1>3, DirectoryRuns
<1>4. CASE Restarts(x)
  BY <1>1, <1>4, DirectoryRestarts
<1> QED BY <1>1, <1>2, <1>3, <1>4, VersionChanges

\* With one worker, DiskInv holds in every reachable state.
THEOREM DiskInvariant ==
  ASSUME SoleWorker PROVE UploadSpec => []DiskInv
<1>1. ServiceInv /\ RecoveryInv /\ DiskInv /\ [UploadNext]_vars => DiskInv'
  BY DiskStep
<1> QED BY <1>1, DiskInit, ServiceInvariant, RecoveryInvariant, PTL DEF UploadSpec

-----------------------------------------------------------------------------
(* Every version directory has a row *)

\* A directory is removed before its row is, and "finalized" tells an upload that
\* it has one.
OrphanOK(u) ==
  /\ final[u] # {} => u \in DOMAIN versions
  /\ pc[u] = "commit" => "finalized" \in flags[u]
  /\ pc[u] = "record_aborted" => final[u] = {} \/ "finalized" \in flags[u]
  /\ pc[u] \in {"delete_row", "release_key", "remove_staging"} => final[u] = {}

\* finalize returns and cleanup_version_dir removes the directory: the two steps
\* between which a directory would be forgotten do not raise.
DirectoriesRemovable == Faulty \cap {"fsync_parent", "remove_final"} = {}

\* Every step keeps it, of any upload and of the startup.
LEMMA OrphanStep ==
  ASSUME SoleWorker, DirectoriesRemovable, ServiceInv, RecoveryInv, DiskInv, [UploadNext]_vars,
         NEW x \in VersionIds, OrphanOK(x)
  PROVE  OrphanOK(x)'
<1> DEFINE Goal == OrphanOK(x)'
<1> SUFFICES Goal
  OBVIOUS
<1>0. /\ ThreadTypeOK /\ DiskTypeOK /\ CatalogTypeOK /\ DirectoryOK(x) /\ RunsUp
      /\ Untouched(x) \/ Arrives(x) \/ UploadStep(x) \/ Dies(x) \/ Restarts(x)
  BY VersionChanges DEF ServiceInv, RecoveryInv, DiskInv, UploadTypeOK, ThreadTypeOK, DiskTypeOK
<1> USE DEF OrphanOK
<1>1. CASE Untouched(x) \/ Arrives(x) \/ Dies(x)
  BY <1>1 DEF Untouched, Same, Arrives, Dies, Kept
<1>2. CASE Restarts(x)
  <2>1. pc'[x] \notin Steps \ {"idle", "done", "dead"}
    BY <1>0, <1>2 DEF Restarts, Same, Running, Steps, ThreadTypeOK
  <2>2. PICK w \in Workers : StartupChange(w, x) /\ HandOK(w)
    BY <1>2 DEF Restarts, RecoveryInv
  <2>3. final'[x] # {} => x \in DOMAIN versions'
    BY <2>2 DEF StartupChange, HandOK, InHand, PendingVersions, Kept, CommitVersion, disk,
                catalogVars
  <2> QED BY <2>1, <2>3 DEF Steps, BodySteps, CleanupSteps
<1>3. CASE UploadStep(x)
  <2>0. Effect(x)
    BY <1>0, <1>3, UploadEffects DEF DirectoryOK
  <2>1. CASE Fails(x)
    <3>1. \/ final[x] = {}
          \/ pc[x] = "commit" /\ pc'[x] \in {"record_aborted", "remove_final"}
      BY <1>0, <2>1 DEF Fails, DirectoryOK, WithRow, BeforeRow, BeforeMove, DirectoriesRemovable,
                        SameFlags, ToCleanup, ToRemoveFinal
    <3>2. pc'[x] \in CleanupSteps
      BY <2>1, CleanupBegins DEF Fails
    <3> QED BY <2>1, <3>1, <3>2 DEF Fails, Still, SameFlags, CleanupSteps
  <2>2. CASE Ends(x)
    BY <2>2 DEF Ends, Still
  <2>3. CASE Advances(x)
    BY <2>3 DEF Advances, Still, BeforeRow
  <2>4. CASE Stages(x)
    BY <1>0, <2>4 DEF Stages, DirectoryOK, WithRow, HasStatus
  <2>5. CASE Writes(x)
    <3>1. x \in DOMAIN versions => x \in DOMAIN versions'
      BY <2>5 DEF Writes, InsertPending, NewVersion, Put, InsertFile, CommitVersion
    <3> QED BY <2>5, <3>1 DEF Writes
  <2>6. CASE CleansUp(x)
    <3>1. CASE pc[x] = "delete_row" /\ DeletePendingVersion(x)
      BY <2>6, <3>1 DEF CleansUp, Still, ToRelease
    <3>2. CASE pc[x] \in {"record_aborted", "remove_final"}
      BY <2>6, <3>2 DEF CleansUp, Still, DirectoriesRemovable, ToRemoveFinal, ToDeleteRow, ToRelease
    <3>3. CASE pc[x] \notin {"record_aborted", "remove_final"} /\ UNCHANGED versions
      BY <2>6, <3>3 DEF CleansUp, Still, ToRelease
    <3> QED BY <2>6, <3>1, <3>2, <3>3 DEF CleansUp, Still
  <2> HIDE DEF Goal
  <2> QED BY <2>0, <2>1, <2>2, <2>3, <2>4, <2>5, <2>6 DEF Effect
<1> QED BY <1>0, <1>1, <1>2, <1>3

OrphanInv == \A u \in VersionIds : OrphanOK(u)

\* With one worker and removable directories, it holds in every reachable state.
THEOREM OrphanInvariant ==
  ASSUME SoleWorker, DirectoriesRemovable PROVE UploadSpec => []OrphanInv
<1>1. UploadInit => OrphanInv
  BY DEF UploadInit, OrphanInv, OrphanOK
<1>2. ServiceInv /\ RecoveryInv /\ DiskInv /\ OrphanInv /\ [UploadNext]_vars => OrphanInv'
  BY OrphanStep DEF OrphanInv
<1> QED BY <1>1, <1>2, ServiceInvariant, RecoveryInvariant, DiskInvariant, PTL DEF UploadSpec

\* A version directory has a row, so that recovery or a reader can find it: the row
\* is inserted before os.replace and goes after the directory, also when the upload
\* dies or fails half-way (app.py:727-844).  A failed fsync of the parent or a
\* failed removal would leave a directory that nothing lists.
THEOREM DirectoriesHaveRows ==
  ASSUME SoleWorker, DirectoriesRemovable PROVE UploadSpec => []NoOrphanFinal
<1>1. OrphanInv => NoOrphanFinal
  BY DEF OrphanInv, OrphanOK, NoOrphanFinal
<1> QED BY <1>1, OrphanInvariant, PTL

-----------------------------------------------------------------------------
(* Every published version is complete *)

\* A worker that is never killed starts once, before the first request.
Fresh ==
  Mortal = {} =>
    \A w \in Workers : worker[w].step # "up" => \A u \in VersionIds : pc[u] = "idle"

\* The directory that cleanup takes apart is of a version nobody can publish: it
\* is over quota, or recovery will not run.
CompleteOK(u) ==
  /\ IsPublished(u) => Payload \subseteq final[u] /\ AllFiles(u)
  /\ HasStatus(u, "pending") /\ "ready" \in final[u] =>
       (Payload \subseteq final[u] /\ AllFiles(u)) \/ ~FitsQuota(u) \/ Mortal = {}
  /\ pc[u] = "remove_final" \/ (pc[u] = "record_aborted" /\ "finalized" \in flags[u]) =>
       HasStatus(u, "pending") /\ (~FitsQuota(u) \/ Mortal = {})

\* Commits that raise and workers that are killed do not come together: recovery
\* would commit what the cleanup of the failed upload has begun to remove.
CommitsAreFinal == "commit" \notin Faulty \/ Mortal = {}

\* No request precedes the startup.
LEMMA FreshStep ==
  ASSUME SoleWorker, ServiceInv, RunsUp, Fresh, [UploadNext]_vars
  PROVE  Fresh'
<1>0. UploadTypeOK /\ ThreadTypeOK /\ CatalogTypeOK /\ WorkersOK
  BY DEF ServiceInv, UploadTypeOK, ThreadTypeOK
<1> SUFFICES ASSUME Mortal = {}, NEW w \in Workers, worker'[w].step # "up", NEW x \in VersionIds
             PROVE  pc'[x] = "idle"
  BY DEF Fresh
<1>1. ASSUME UNCHANGED worker PROVE pc[x] = "idle" /\ worker[w].step # "up"
  BY <1>1 DEF Fresh
<1>2. ASSUME NEW u \in VersionIds, UploadStep(u) PROVE FALSE
  <2>1. UNCHANGED worker /\ Running(u)
    BY <1>0, <1>2, StepFrame, StepRuns
  <2> QED BY <1>1, <2>1 DEF RunsUp, SoleWorker
<1>3. ASSUME NEW u \in VersionIds, NEW a \in Workers, NEW r \in Requests, Arrive(u, a, r) PROVE FALSE
  BY <1>1, <1>3 DEF Arrive, SoleWorker
<1>4. ASSUME NEW a \in Workers, StartupStep(a) PROVE pc'[x] = "idle"
  <2>1. worker[a].step # "up" /\ UNCHANGED thread
    BY <1>0, <1>4, StartupIsNotUp, StartupMoves
  <2> QED BY <2>1 DEF Fresh, thread
<1>5. CASE \/ \E call \in RetractCalls : RetractStep(call)
           \/ TimePasses \/ UNCHANGED vars
  <2>1. UNCHANGED worker /\ pc'[x] = pc[x]
    BY <1>5, RetractionKeeps DEF TimePasses, vars, thread, Untouched, Same
  <2> QED BY <1>1, <2>1
<1>6. ASSUME NEW a \in Workers, Crash(a) PROVE FALSE
  BY <1>6 DEF Crash
<1> QED BY <1>2, <1>3, <1>4, <1>5, <1>6 DEF UploadNext

\* Recovery publishes what is complete and takes apart what is not recoverable.
LEMMA CompleteRestarts ==
  ASSUME ServiceInv, RecoveryInv, DiskInv, Fresh, NEW x \in VersionIds, CompleteOK(x), Restarts(x)
  PROVE  CompleteOK(x)'
<1> DEFINE Goal == CompleteOK(x)'
<1> SUFFICES Goal
  OBVIOUS
<1>0. /\ ThreadTypeOK /\ CatalogTypeOK /\ DirectoryOK(x)
      /\ x \in DOMAIN versions => RowOK(x)
  BY DEF ServiceInv, DiskInv, UploadTypeOK, ThreadTypeOK
<1>1. pc'[x] \in {"idle", "done", "dead"}
  BY <1>0 DEF Restarts, Same, Running, Steps, ThreadTypeOK
<1>2. PICK w \in Workers :
        StartupStep(w) /\ StartupChange(w, x) /\ HandOK(w) /\ RowsOK(w)
  BY DEF Restarts, RecoveryInv
<1>3. x \in PendingVersions <=> HasStatus(x, "pending")
  BY DEF PendingVersions, HasStatus
<1>4. HasStatus(x, "pending") => ~IsPublished(x)
  BY DEF HasStatus, IsPublished
<1>5. ASSUME UNCHANGED catalogVars
      PROVE  /\ HasStatus(x, "pending")' <=> HasStatus(x, "pending")
             /\ IsPublished(x)' <=> IsPublished(x)
             /\ FitsQuota(x)' <=> FitsQuota(x)
             /\ AllFiles(x)' <=> AllFiles(x)
  BY <1>5 DEF catalogVars, HasStatus, IsPublished, FitsQuota, AllFiles
<1>6. CASE Kept(x)
  <2>1. AllFiles(x)' <=> AllFiles(x)
    BY <1>6 DEF Kept, AllFiles
  <2> QED BY <1>1, <1>6, <2>1 DEF Kept, CompleteOK, HasStatus
<1>7. CASE /\ worker[w].step = "recover_move" /\ x = worker[w].current
           /\ final'[x] = incoming[x] /\ UNCHANGED catalogVars
  <2>1. HasStatus(x, "pending") /\ "ready" \in incoming[x]
    BY <1>2, <1>3, <1>7 DEF HandOK, InHand
  <2>2. Payload \subseteq incoming[x] /\ AllFiles(x)
    BY <1>0, <2>1 DEF DirectoryOK
  <2> QED BY <1>1, <1>4, <1>5, <1>7, <2>1, <2>2 DEF CompleteOK
<1>8. CASE /\ worker[w].step = "recover_commit" /\ x = worker[w].current
           /\ CommitVersion(x) /\ UNCHANGED disk
  <2>1. HasStatus(x, "pending") /\ "ready" \in final[x] /\ FitsQuota(x)
    BY <1>2, <1>8 DEF HandOK, CommitVersion, CanCommit
  <2>2. Mortal # {}
    BY <1>0, <1>2, <1>8, <2>1 DEF Fresh, RowOK, HasStatus
  <2>3. Payload \subseteq final[x] /\ AllFiles(x)
    BY <2>1, <2>2 DEF CompleteOK
  <2>4. files' = files /\ final' = final
    BY <1>8 DEF CommitVersion, disk
  <2>5. ~HasStatus(x, "pending")'
    BY <1>0, <1>8 DEF CommitVersion, CanCommit, HasStatus, CatalogTypeOK, IsTable, VersionRow
  <2> QED BY <1>1, <2>3, <2>4, <2>5 DEF CompleteOK, AllFiles
<1>9. CASE final'[x] = final[x] /\ UNCHANGED catalogVars
  BY <1>1, <1>5, <1>9 DEF CompleteOK
<1>10. CASE /\ worker[w].step = "clean_remove" /\ x = worker[w].current
            /\ final'[x] \subseteq final[x] /\ UNCHANGED catalogVars
  <2>1. x \in PendingVersions /\ ("ready" \notin final[x] \/ ~FitsQuota(x))
    BY <1>2, <1>10 DEF HandOK, RowsOK, InHand, Sweeping, Unrecoverable
  <2> QED BY <1>1, <1>3, <1>4, <1>5, <1>10, <2>1 DEF CompleteOK
<1>11. CASE /\ worker[w].step = "clean_row" /\ x = worker[w].current
            /\ DeletePendingVersion(x)
  <2>1. x \in PendingVersions
    BY <1>2, <1>11 DEF HandOK, InHand
  <2>2. x \notin DOMAIN versions'
    BY <1>3, <1>11, <2>1 DEF DeletePendingVersion, Removable, Drop, Restrict
  <2> QED BY <1>1, <2>2 DEF CompleteOK, HasStatus, IsPublished
<1> HIDE DEF Goal
<1> QED BY <1>2, <1>6, <1>7, <1>8, <1>9, <1>10, <1>11 DEF StartupChange

\* So does an upload.
LEMMA CompleteRuns ==
  ASSUME CommitsAreFinal, ServiceInv, DiskInv, NEW x \in VersionIds, CompleteOK(x), UploadStep(x)
  PROVE  CompleteOK(x)'
<1> DEFINE Goal == CompleteOK(x)'
<1> SUFFICES Goal
  OBVIOUS
<1>0. /\ ThreadTypeOK /\ DiskTypeOK /\ CatalogTypeOK /\ DirectoryOK(x)
  BY DEF ServiceInv, DiskInv, UploadTypeOK, ThreadTypeOK, DiskTypeOK
<1>1. Effect(x)
  BY <1>0, UploadEffects DEF DirectoryOK
<1>2. HasStatus(x, "pending") => ~IsPublished(x)
  BY DEF HasStatus, IsPublished
<1>3. ASSUME UNCHANGED <<versions, files, usage>>
      PROVE  /\ HasStatus(x, "pending")' <=> HasStatus(x, "pending")
             /\ IsPublished(x)' <=> IsPublished(x)
             /\ FitsQuota(x)' <=> FitsQuota(x)
             /\ AllFiles(x)' <=> AllFiles(x)
  BY <1>3 DEF HasStatus, IsPublished, FitsQuota, AllFiles
<1>4. CASE Fails(x)
  <2>1. pc'[x] = ToCleanup(flags'[x]) /\ Still(x) /\ SameFlags(x)
    BY <1>4 DEF Fails
  <2>2. CASE "finalized" \in flags[x]
    <3>1. pc[x] = "commit"
      BY <1>0, <1>4, <2>2 DEF DirectoryOK, Fails, BeforeRow, WithRow, BeforeMove
    <3>2. HasStatus(x, "pending") /\ (~FitsQuota(x) \/ Mortal = {})
      BY <1>0, <1>4, <3>1 DEF Fails, DirectoryOK, CommitsAreFinal, BeforeRow, WithRow, CanCommit
    <3> QED BY <1>3, <2>1, <3>2 DEF CompleteOK, Still
  <2>3. CASE "finalized" \notin flags[x]
    <3>1. pc'[x] # "remove_final" /\ "finalized" \notin flags'[x]
      BY <2>1, <2>3 DEF SameFlags, ToCleanup, ToRemoveFinal, ToDeleteRow, ToRelease
    <3> QED BY <1>3, <2>1, <3>1 DEF CompleteOK, Still
  <2> QED BY <2>2, <2>3
<1>5. CASE Ends(x) \/ Advances(x)
  <2>1. Still(x) /\ pc'[x] \notin {"remove_final", "record_aborted"}
    BY <1>5 DEF Ends, Advances, BeforeRow
  <2> QED BY <1>3, <2>1 DEF CompleteOK, Still
<1>6. CASE Stages(x)
  <2>1. CASE final'[x] = final[x]
    BY <1>3, <1>6, <2>1 DEF Stages, CompleteOK
  <2>2. CASE pc[x] = "move" /\ final'[x] = incoming[x]
    <3>1. Payload \subseteq final'[x] /\ AllFiles(x)
      BY <1>0, <2>2 DEF DirectoryOK, Staged, AfterFiles
    <3> QED BY <1>3, <1>6, <2>2, <3>1 DEF Stages, CompleteOK
  <2> QED BY <1>6, <2>1, <2>2 DEF Stages
<1>7. CASE Writes(x)
  <2>0. pc'[x] \notin {"remove_final", "record_aborted"} /\ final'[x] = final[x]
    BY <1>7 DEF Writes
  <2>1. CASE /\ pc[x] = "insert"
             /\ InsertPending(x, request[x].dataset, request[x].principal, request[x].content)
    <3>1. ~IsPublished(x)'
      BY <2>1 DEF InsertPending, NewVersion, Put, HasStatus, IsPublished
    <3>2. final[x] = {}
      BY <1>0, <2>1 DEF DirectoryOK, BeforeMove, BeforeRow
    <3> QED BY <2>0, <3>1, <3>2 DEF CompleteOK
  <2>2. CASE pc[x] = "insert_files" /\ \E f \in FilesLeft(x) : InsertFile(x, f)
    <3>1. ~IsPublished(x)'
      BY <1>0, <2>2 DEF DirectoryOK, WithRow, InsertFile, HasStatus, IsPublished
    <3>2. final[x] = {}
      BY <1>0, <2>2 DEF DirectoryOK, BeforeMove
    <3> QED BY <2>0, <3>1, <3>2 DEF CompleteOK
  <2>3. CASE pc[x] = "commit" /\ CommitVersion(x)
    <3>1. ~HasStatus(x, "pending")'
      BY <1>0, <2>3 DEF CommitVersion, CanCommit, HasStatus, CatalogTypeOK, IsTable, VersionRow
    <3>2. Payload \subseteq final[x] /\ AllFiles(x) /\ files' = files
      BY <1>0, <2>3 DEF DirectoryOK, AfterFiles, CommitVersion
    <3> QED BY <2>0, <3>1, <3>2 DEF CompleteOK, AllFiles
  <2> QED BY <1>7, <2>1, <2>2, <2>3 DEF Writes
<1>8. CASE CleansUp(x)
  <2>1. CASE pc[x] = "record_aborted"
    <3>1. /\ pc'[x] = ToRemoveFinal(flags[x]) /\ flags'[x] = flags[x] /\ Still(x)
      BY <1>8, <2>1 DEF CleansUp
    <3>2. pc'[x] = "remove_final" => "finalized" \in flags[x]
      BY <3>1 DEF ToRemoveFinal, ToDeleteRow, ToRelease
    <3>3. pc'[x] # "record_aborted"
      BY <3>1 DEF ToRemoveFinal, ToDeleteRow, ToRelease
    <3> QED BY <1>3, <2>1, <3>1, <3>2, <3>3 DEF CompleteOK, Still
  <2>2. CASE pc[x] = "remove_final"
    <3>1. HasStatus(x, "pending") /\ (~FitsQuota(x) \/ Mortal = {})
      BY <2>2 DEF CompleteOK
    <3>2. UNCHANGED <<versions, files, usage>>
      BY <1>8, <2>2 DEF CleansUp, Still
    <3>3. pc'[x] # "record_aborted" \/ "finalized" \notin flags'[x] \/ Goal
      BY <1>2, <1>3, <3>1, <3>2 DEF CompleteOK
    <3> QED BY <1>2, <1>3, <3>1, <3>2, <3>3 DEF CompleteOK
  <2>3. CASE pc[x] = "delete_row" /\ DeletePendingVersion(x)
    <3>1. ~IsPublished(x)
      BY <1>0, <2>3 DEF DirectoryOK, CleanupSteps
    <3>2. versions' = IF HasStatus(x, "pending") THEN Drop(versions, x) ELSE versions
      BY <2>3 DEF DeletePendingVersion, Removable
    <3>3. ~IsPublished(x)' /\ ~HasStatus(x, "pending")'
      BY <3>1, <3>2 DEF Drop, Restrict, HasStatus, IsPublished
    <3>4. pc'[x] \notin {"remove_final", "record_aborted"}
      BY <1>8, <2>3 DEF CleansUp, ToRelease
    <3> QED BY <3>3, <3>4 DEF CompleteOK
  <2>4. CASE /\ pc[x] \in {"delete_row", "release_key", "remove_staging"}
             /\ UNCHANGED <<versions, files, usage>>
    <3>1. final'[x] = final[x] /\ pc'[x] \notin {"remove_final", "record_aborted"}
      BY <1>8, <2>4 DEF CleansUp, Still, ToRelease
    <3> QED BY <1>3, <2>4, <3>1 DEF CompleteOK
  <2> QED BY <1>8, <2>1, <2>2, <2>3, <2>4 DEF CleansUp, Still
<1> HIDE DEF Goal
<1> QED BY <1>1, <1>4, <1>5, <1>6, <1>7, <1>8 DEF Effect

\* A version that is not touched stays complete.
LEMMA CompleteKept ==
  ASSUME NEW x \in VersionIds, CompleteOK(x), Kept(x), flags'[x] = flags[x],
         pc'[x] = pc[x] \/ pc'[x] \in {"record_started", "done", "dead"}
  PROVE  CompleteOK(x)'
<1>1. AllFiles(x)' <=> AllFiles(x)
  BY DEF Kept, AllFiles
<1> QED BY <1>1 DEF Kept, CompleteOK, HasStatus

CompleteInv == Fresh /\ \A u \in VersionIds : CompleteOK(u)

\* Published versions are complete in every reachable state.
THEOREM CompleteInvariant ==
  ASSUME SoleWorker, CommitsAreFinal PROVE UploadSpec => []CompleteInv
<1>1. UploadInit => CompleteInv
  BY DEF UploadInit, CatalogInit, EmptyTable, CompleteInv, Fresh, CompleteOK, HasStatus, IsPublished
<1>2. ASSUME ServiceInv, RecoveryInv, DiskInv, CompleteInv, [UploadNext]_vars
      PROVE  CompleteInv'
  <2>1. Fresh'
    BY <1>2, FreshStep DEF RecoveryInv, CompleteInv
  <2>2. ASSUME NEW x \in VersionIds PROVE CompleteOK(x)'
    <3>1. Untouched(x) \/ Arrives(x) \/ UploadStep(x) \/ Dies(x) \/ Restarts(x)
      BY <1>2, VersionChanges DEF RecoveryInv
    <3>2. CASE Untouched(x) \/ Arrives(x) \/ Dies(x)
      BY <1>2, <3>2, CompleteKept DEF Untouched, Same, Arrives, Dies, CompleteInv
    <3> QED BY <1>2, <3>1, <3>2, CompleteRuns, CompleteRestarts DEF CompleteInv
  <2> QED BY <2>1, <2>2 DEF CompleteInv
<1> QED BY <1>1, <1>2, ServiceInvariant, RecoveryInvariant, DiskInvariant, PTL DEF UploadSpec

\* Every version a reader can get at has its manifest, its artifacts and its file
\* records, whatever else raises and whenever the worker is killed: the marker
\* commit.ready decides what recovery publishes (storage.py, app.py).
THEOREM PublishedIsComplete ==
  ASSUME SoleWorker, CommitsAreFinal PROVE UploadSpec => []CommittedComplete
<1>1. CompleteInv => CommittedComplete
  BY DEF CompleteInv, CompleteOK, CommittedComplete, AllFiles
<1> QED BY <1>1, CompleteInvariant, PTL

-----------------------------------------------------------------------------
(* What readers are promised *)

Published == {v \in VersionIds : IsPublished(v)}

Entry(v) ==
  [dataset |-> versions[v].dataset, content |-> versions[v].content,
   readable |-> Payload, withdrawn |-> versions[v].status = "retracted"]

\* What is on the shelf as far as the catalogue can tell
FullShelf == [v \in Published |-> Entry(v)]

\* When every published version is complete, the catalogue alone says what is on
\* the shelf.
LEMMA ShelfIsFull == CommittedComplete => Shelf = FullShelf
<1> SUFFICES ASSUME CommittedComplete PROVE Shelf = FullShelf
  OBVIOUS
<1>1. ASSUME NEW v \in Published
      PROVE  {x \in Payload : x \in final[v] /\ (x \in Paths => <<v, x>> \in files)} = Payload
  BY DEF Published, CommittedComplete
<1> QED BY <1>1 DEF Shelf, Published, Entry, FullShelf

\* And does so after the next step.
LEMMA ShelfStaysFull == CommittedComplete' => (Shelf = FullShelf)'
BY ShelfIsFull, PTL

\* A version on the shelf is published or withdrawn; most operations of the
\* catalogue do neither.
Quiet ==
  /\ \A v \in VersionIds : IsPublished(v)' <=> IsPublished(v)
  /\ \A v \in Published : Entry(v)' = Entry(v)
  /\ UNCHANGED Offered

Offers(d) == IF d \in DOMAIN datasets THEN datasets[d].latest ELSE NoVersion

\* The offers depend on the column latest_committed_version_id only.
LEMMA OffersStay ==
  ASSUME \A d \in Datasets : Offers(d)' = Offers(d) PROVE UNCHANGED Offered
BY DEF Offered, Offers

\* The operations on one version that neither commit nor retract
LEMMA QuietVersionOp ==
  ASSUME CatalogTypeOK, NEW v \in VersionIds,
         \/ \E f \in Paths : InsertFile(v, f)
         \/ DeletePendingVersion(v)
         \/ \E a \in EventActions : RecordEvent(a, v)
  PROVE  Quiet
<1>1. datasets' = datasets
  BY DEF InsertFile, DeletePendingVersion, RecordEvent
<1>2. UNCHANGED Offered
  BY <1>1 DEF Offered
<1>3. CASE versions' = versions
  BY <1>2, <1>3 DEF Quiet, IsPublished, HasStatus, Entry
<1>4. CASE HasStatus(v, "pending") /\ versions' = Drop(versions, v)
  <2>1. \A x \in VersionIds :
          /\ IsPublished(x)' <=> IsPublished(x)
          /\ IsPublished(x) => versions'[x] = versions[x]
    BY <1>4 DEF Drop, Restrict, IsPublished, HasStatus
  <2> QED BY <1>2, <2>1 DEF Quiet, Entry, Published
<1> QED BY <1>3, <1>4 DEF InsertFile, DeletePendingVersion, Removable, RecordEvent

\* Every operation but commit_version and retract_version is quiet.
LEMMA ShelfStep ==
  ASSUME CatalogTypeOK, [CatalogNext]_catalogVars
  PROVE  \/ Quiet
         \/ \E v \in VersionIds : CommitVersion(v)
         \/ \E v \in VersionIds, call \in RetractCalls : IsPublished(v) /\ RetractVersion(v, call)
<1>1. ASSUME versions' = versions, \A d \in Datasets : Offers(d)' = Offers(d) PROVE Quiet
  BY <1>1, OffersStay DEF Quiet, IsPublished, HasStatus, Entry
<1>2. CASE UNCHANGED catalogVars \/ KeyOp
  <2>1. versions' = versions /\ datasets' = datasets
    BY <1>2 DEF catalogVars, KeyOp, ReserveKey, CompleteKey, ReleaseKey, ReconcileOp,
                  Reconcile, Written
  <2> QED BY <1>1, <2>1 DEF Offers
<1>3. CASE DatasetOp
  <2>1. PICK d \in Datasets, p \in Principals : Claim(d, p) \/ AllocateVersionNumber(d)
    BY <1>3 DEF DatasetOp
  <2>2. \A e \in Datasets : Offers(e)' = Offers(e)
    BY <2>1 DEF Claim, AllocateVersionNumber, Put, Offers, CatalogTypeOK, IsTable, DatasetRow
  <2> QED BY <1>1, <2>1, <2>2 DEF Claim, AllocateVersionNumber
<1>4. CASE PendingOp
  <2>1. PICK v, d, p, c, n :
          /\ v \in VersionIds /\ d \in Datasets /\ p \in Principals /\ c \in Contents
          /\ v \notin DOMAIN versions /\ versions' = NewVersion(v, d, p, c, n)
          /\ \E k : datasets' = [datasets EXCEPT ![d].counter = k]
    BY <1>4 DEF PendingOp, InsertPending, InsertNumbered, CanInsert
  <2>2. \A e \in Datasets : Offers(e)' = Offers(e)
    BY <2>1 DEF Offers, CatalogTypeOK, IsTable, DatasetRow
  <2>3. \A x \in VersionIds :
          /\ IsPublished(x)' <=> IsPublished(x)
          /\ IsPublished(x) => versions'[x] = versions[x]
    BY <2>1 DEF NewVersion, Put, IsPublished, HasStatus
  <2> QED BY <2>2, <2>3, OffersStay DEF Quiet, Entry, Published
<1>5. CASE VersionOp
  BY <1>5, QuietVersionOp DEF VersionOp
<1> QED BY <1>2, <1>3, <1>4, <1>5 DEF CatalogNext

\* A commit publishes a version, with all it has, next to others.
LEMMA CommitPublishes ==
  ASSUME CatalogTypeOK, \A v \in DOMAIN versions : RowOK(v), CommittedComplete, CommittedComplete',
         NEW v \in VersionIds, CommitVersion(v)
  PROVE  P!Next
<1>1. PICK d, c : d = versions[v].dataset /\ c = versions[v].content
  OBVIOUS
<1>2. /\ v \in DOMAIN versions /\ versions[v].status = "pending"
      /\ d \in Datasets /\ c \in Contents /\ d \in DOMAIN datasets
  BY <1>1 DEF CommitVersion, CanCommit, HasStatus, RowOK, Claimed, CatalogTypeOK, IsTable, VersionRow
<1>3. /\ versions' = [versions EXCEPT ![v].status = "committed"]
      /\ datasets' = [datasets EXCEPT ![d].latest = v]
  BY <1>1 DEF CommitVersion
<1>4. /\ v \notin Published /\ Published' = Published \cup {v}
      /\ Entry(v)' = [dataset |-> d, content |-> c, readable |-> Payload, withdrawn |-> FALSE]
      /\ \A w \in Published : Entry(w)' = Entry(w)
  <2>1. \A w \in VersionIds \ {v} :
          /\ IsPublished(w)' <=> IsPublished(w)
          /\ IsPublished(w) => versions'[w] = versions[w]
    BY <1>2, <1>3 DEF IsPublished, HasStatus, CatalogTypeOK, IsTable
  <2>2. versions[v] \in VersionRow /\ versions'[v] = [versions[v] EXCEPT !.status = "committed"]
        /\ v \in DOMAIN versions'
    BY <1>2, <1>3 DEF CatalogTypeOK, IsTable
  <2>3. ~IsPublished(v) /\ IsPublished(v)'
    BY <1>2, <2>2 DEF IsPublished, HasStatus, VersionRow
  <2>4. Entry(v)' = [dataset |-> d, content |-> c, readable |-> Payload, withdrawn |-> FALSE]
    BY <1>1, <2>2 DEF Entry, VersionRow
  <2> QED BY <2>1, <2>3, <2>4 DEF Published, Entry
<1>5. Shelf = [w \in Published |-> Entry(w)] /\ Shelf' = [w \in Published' |-> Entry(w)']
  BY ShelfIsFull, ShelfStaysFull DEF FullShelf
<1>6. \A w \in Published : <<Shelf[w].dataset, Shelf[w].content>> # <<d, c>>
  <2>1. ASSUME NEW w \in Published, versions[w].dataset = d, versions[w].content = c PROVE FALSE
    BY <1>1, <1>2, <1>4, <2>1 DEF RowOK, Published, IsPublished, HasStatus
  <2> QED BY <1>5, <2>1 DEF Entry
<1>7. Offered' = [Offered EXCEPT ![d] = v]
  BY <1>2, <1>3 DEF Offered, CatalogTypeOK, IsTable, DatasetRow
<1>8. Shelf' = [w \in Published \cup {v} |->
                  IF w = v THEN [dataset |-> d, content |-> c, readable |-> Payload,
                                 withdrawn |-> FALSE]
                  ELSE Shelf[w]]
  BY <1>4, <1>5
<1>9. DOMAIN Shelf = Published
  BY <1>5
<1>10. P!Publish(v, d, c)
  BY <1>4, <1>6, <1>7, <1>8, <1>9 DEF P!Publish
<1> QED BY <1>2, <1>10 DEF P!Next

\* An entry of the shelf, withdrawn
LEMMA Withdrawn ==
  ASSUME NEW a, NEW b, NEW c, NEW e \in BOOLEAN, NEW r,
         r = [dataset |-> a, content |-> b, readable |-> c, withdrawn |-> e]
  PROVE  [r EXCEPT !.withdrawn = TRUE]
           = [dataset |-> a, content |-> b, readable |-> c, withdrawn |-> TRUE]
<1>1. r \in [dataset : {a}, content : {b}, readable : {c}, withdrawn : BOOLEAN]
  OBVIOUS
<1>2. ASSUME NEW t \in BOOLEAN
      PROVE  [r EXCEPT !.withdrawn = t]
               = [dataset |-> a, content |-> b, readable |-> c, withdrawn |-> t]
  BY <1>1
<1> QED BY <1>2, Zenon

\* A retraction withdraws one and elects a version that is left, if one is.
LEMMA RetractionWithdraws ==
  ASSUME CatalogTypeOK, \A v \in DOMAIN versions : RowOK(v), CommittedComplete, CommittedComplete',
         NEW v \in VersionIds, NEW call \in RetractCalls, IsPublished(v), RetractVersion(v, call)
  PROVE  P!Next
<1>1. PICK d : d = versions[v].dataset
  OBVIOUS
<1>2. /\ v \in DOMAIN versions /\ d \in Datasets /\ d \in DOMAIN datasets
  BY <1>1 DEF IsPublished, HasStatus, RowOK, Claimed, CatalogTypeOK, IsTable, VersionRow
<1>3. versions' = [versions EXCEPT ![v].status = "retracted", ![v].retraction = call]
  BY DEF RetractVersion
<1>4. PICK l \in Newest(CommittedOf(d) \ {v}) : datasets' = [datasets EXCEPT ![d].latest = l]
  BY <1>1 DEF RetractVersion, LatestAfterRetract
<1>5. /\ Published' = Published /\ v \in Published
      /\ \A w \in Published \ {v} : Entry(w)' = Entry(w)
      /\ Entry(v)' = [Entry(v) EXCEPT !.withdrawn = TRUE]
  <2>1. \A w \in VersionIds \ {v} :
          /\ IsPublished(w)' <=> IsPublished(w)
          /\ IsPublished(w) => versions'[w] = versions[w]
    BY <1>2, <1>3 DEF IsPublished, HasStatus, CatalogTypeOK, IsTable
  <2>2. /\ v \in DOMAIN versions' /\ versions'[v].status = "retracted"
        /\ versions'[v].dataset = versions[v].dataset
        /\ versions'[v].content = versions[v].content
    BY <1>2, <1>3 DEF CatalogTypeOK, IsTable, VersionRow
  <2>3. IsPublished(v)'
    BY <2>2 DEF IsPublished, HasStatus
  <2>4. Entry(v)' = [Entry(v) EXCEPT !.withdrawn = TRUE]
    <3>1. (versions'[v].status = "retracted") = TRUE
      BY <2>2
    <3>2. Entry(v)' = [dataset |-> versions[v].dataset, content |-> versions[v].content,
                       readable |-> Payload, withdrawn |-> TRUE]
      BY <2>2, <3>1 DEF Entry
    <3>3. PICK a, b, c, e : /\ a = versions[v].dataset /\ b = versions[v].content
                            /\ c = Payload /\ e = (versions[v].status = "retracted")
      OBVIOUS
    <3>4. PICK old : old = Entry(v)
      OBVIOUS
    <3>5. /\ old = [dataset |-> a, content |-> b, readable |-> c, withdrawn |-> e]
          /\ e \in BOOLEAN
      BY <3>3, <3>4 DEF Entry
    <3>6. [old EXCEPT !.withdrawn = TRUE]
            = [dataset |-> a, content |-> b, readable |-> c, withdrawn |-> TRUE]
      BY <3>5, Withdrawn
    <3>7. Entry(v)' = [dataset |-> a, content |-> b, readable |-> c, withdrawn |-> TRUE]
      BY <3>2, <3>3
    <3> QED BY <3>4, <3>6, <3>7
  <2> QED BY <2>1, <2>3, <2>4 DEF Published, Entry
<1>6. Shelf = [w \in Published |-> Entry(w)] /\ Shelf' = [w \in Published' |-> Entry(w)']
  BY ShelfIsFull, ShelfStaysFull DEF FullShelf
<1>7. Shelf' = [Shelf EXCEPT ![v].withdrawn = TRUE] /\ v \in DOMAIN Shelf
  BY <1>5, <1>6
<1>8. Shelf[v].dataset = d /\ P!Current(d) = CommittedOf(d)
  <2>1. Shelf[v].dataset = d
    BY <1>1, <1>5, <1>6 DEF Entry
  <2>2. \A w \in Published :
          Shelf[w].dataset = versions[w].dataset
            /\ (Shelf[w].withdrawn <=> versions[w].status = "retracted")
    BY <1>6 DEF Entry
  <2>3. DOMAIN Shelf = Published
    BY <1>6
  <2>4. \A w : w \in Published <=> w \in DOMAIN versions /\ versions[w].status # "pending"
    BY DEF Published, IsPublished, HasStatus, CatalogTypeOK, IsTable, VersionRow, Status
  <2>5. \A w \in Published : versions[w].status \in {"committed", "retracted"}
    BY DEF Published, IsPublished, HasStatus
  <2> QED BY <2>1, <2>2, <2>3, <2>4, <2>5 DEF P!Current, CommittedOf
<1>9. Offered' = [Offered EXCEPT ![d] = l]
  BY <1>2, <1>4 DEF Offered, CatalogTypeOK, IsTable, DatasetRow
<1>10. l \in IF P!Current(d) \ {v} = {} THEN {NoVersion} ELSE P!Current(d) \ {v}
  BY <1>4, <1>8 DEF Newest
<1>11. P!Withdraw(v)
  BY <1>7, <1>8, <1>9, <1>10 DEF P!Withdraw
<1> QED BY <1>7, <1>11 DEF P!Next

\* What readers can get at never changes but by publishing a complete version and
\* by withdrawing one: uploads, their failures, kills and recoveries of one worker
\* implement Publication.
THEOREM ServiceRefinesPublication ==
  ASSUME SoleWorker, CommitsAreFinal PROVE UploadSpec => PublicationSpec
<1>1. UploadInit => P!Init
  <2> SUFFICES ASSUME UploadInit PROVE P!Init
    OBVIOUS
  <2>1. DOMAIN versions = {} /\ DOMAIN datasets = {}
    BY DEF UploadInit, CatalogInit, EmptyTable
  <2>2. {w \in VersionIds : IsPublished(w)} = {}
    BY <2>1 DEF IsPublished, HasStatus
  <2>3. Shelf = [v \in {} |-> NoVersion]
    BY <2>2 DEF Shelf
  <2>4. Offered = [d \in Datasets |-> NoVersion]
    BY <2>1 DEF Offered
  <2> QED BY <2>3, <2>4 DEF P!Init
<1>2. ASSUME ServiceInv, CommittedComplete, CommittedComplete', [UploadNext]_vars
      PROVE  [P!Next]_<<Shelf, Offered>>
  <2>1. CatalogTypeOK /\ [CatalogNext]_catalogVars /\ \A v \in DOMAIN versions : RowOK(v)
    BY <1>2, ServiceWrites DEF ServiceInv, UploadTypeOK
  <2>2. CASE Quiet
    <3>1. Shelf = [w \in Published |-> Entry(w)] /\ Shelf' = [w \in Published' |-> Entry(w)']
      BY <1>2, ShelfIsFull, ShelfStaysFull DEF FullShelf
    <3>2. Published' = Published
      BY <2>2 DEF Quiet, Published
    <3> QED BY <2>2, <3>1, <3>2 DEF Quiet
  <2> QED BY <1>2, <2>1, <2>2, ShelfStep, CommitPublishes, RetractionWithdraws
<1>3. ServiceInv /\ CommittedComplete /\ CommittedComplete' /\ [UploadNext]_vars
        => [P!Next]_(P!publicationVars)
  BY <1>2 DEF P!publicationVars
<1> QED
  BY <1>1, <1>3, ServiceInvariant, PublishedIsComplete, PTL DEF UploadSpec, PublicationSpec, P!Spec

=============================================================================
