------------------------------- MODULE Catalog -------------------------------
(***************************************************************************)
(* The SQLite catalogue of dtcc-upload (catalog.py): one table per         *)
(* variable, one action per write transaction.  A table is a function from *)
(* its primary key to its row; a row that does not exist is not in the     *)
(* domain.                                                                 *)
(*                                                                         *)
(* Every method of the class opens its own connection, and Python's        *)
(* sqlite3 begins a transaction at the first INSERT, UPDATE or DELETE: a   *)
(* SELECT that precedes it is not covered.  A method whose writes repeat   *)
(* the SELECT's condition in a WHERE clause is therefore one action here.  *)
(* retract_version does not repeat it, so its read belongs to the caller   *)
(* (module UploadService) and RetractVersion below is only its write.      *)
(***************************************************************************)
EXTENDS Integers, FiniteSets, FiniteSetsExt

CONSTANTS
  Principals,     \* principal_id values that own tokens with the upload scope
  Datasets,       \* dataset_key values
  VersionIds,     \* uuid4 version ids; upload_id is fresh together with it
  Contents,       \* the pair (manifest_sha256, file_set_sha256)
  Paths,          \* the artifact paths of a package
  Keys,           \* Idempotency-Key header values
  RetractCalls,   \* calls of retract_version: who, when and why
  NoVersion,      \* SQL NULL in a version id column
  NoCall,         \* SQL NULL in the retraction columns
  TotalBytes,     \* bytes of the files of a content
  Quota,          \* settings.max_stored_bytes_per_principal
  MaxNumber       \* bound on version_counter

ASSUME CatalogConstants ==
  /\ NoVersion \notin VersionIds
  /\ NoCall \notin RetractCalls
  /\ TotalBytes \in [Contents -> Nat]
  /\ Quota \in Nat
  /\ MaxNumber \in Nat
  /\ IsFiniteSet(VersionIds)

VARIABLES
  datasets,   \* dataset_key -> owner, version_counter, latest_committed_version_id
  versions,   \* version_id -> row of versions
  files,      \* rows of files: <<version_id, path>>
  usage,      \* principal_id -> stored_bytes, version_count
  idem,       \* <<principal_id, dataset_key, idempotency_key>> -> reservation
  events      \* audit log: <<action, version_id>>

catalogVars == <<datasets, versions, files, usage, idem, events>>

-----------------------------------------------------------------------------
Status == {"pending", "committed", "retracted"}

EventActions == {"upload_started", "upload_committed", "upload_aborted", "retracted"}

DatasetRow ==
  [owner : Principals, counter : Nat, latest : VersionIds \cup {NoVersion}]

VersionRow ==
  [dataset : Datasets, number : Nat, uploader : Principals, status : Status,
   content : Contents, retraction : RetractCalls \cup {NoCall}]

UsageRow == [bytes : Nat, count : Nat]

KeyIds == Principals \X Datasets \X Keys

\* "by" is the upload that inserted the row: it stands for created_at, which is
\* read only to tell a reservation older than stale_incoming_seconds.
KeyRow ==
  [content : Contents, status : {"pending", "committed"},
   result : VersionIds \cup {NoVersion}, by : VersionIds]

IsTable(table, ids, rows) ==
  /\ DOMAIN table \subseteq ids
  /\ table \in [DOMAIN table -> rows]

CatalogTypeOK ==
  /\ IsTable(datasets, Datasets, DatasetRow)
  /\ IsTable(versions, VersionIds, VersionRow)
  /\ files \subseteq VersionIds \X Paths
  /\ usage \in [Principals -> UsageRow]
  /\ IsTable(idem, KeyIds, KeyRow)
  /\ events \subseteq EventActions \X VersionIds

EmptyTable == [id \in {} |-> NoVersion]

Put(table, id, row) ==
  [x \in DOMAIN table \cup {id} |-> IF x = id THEN row ELSE table[x]]

Drop(table, id) == Restrict(table, DOMAIN table \ {id})

-----------------------------------------------------------------------------
HasStatus(v, s) == v \in DOMAIN versions /\ versions[v].status = s

IsPublished(v) == HasStatus(v, "committed") \/ HasStatus(v, "retracted")

\* list_pending_versions
PendingVersions == {v \in DOMAIN versions : versions[v].status = "pending"}

CommittedOf(d) ==
  {v \in DOMAIN versions : versions[v].dataset = d /\ versions[v].status = "committed"}

PublishedBy(p) ==
  {v \in DOMAIN versions : versions[v].uploader = p /\ IsPublished(v)}

\* ORDER BY version_number DESC LIMIT 1, NULL when there is no row
Newest(vs) ==
  IF vs = {} THEN {NoVersion}
  ELSE {v \in vs : \A w \in vs : versions[w].number <= versions[v].number}

\* find_committed_duplicate
CommittedDuplicates(d, c) == {v \in CommittedOf(d) : versions[v].content = c}

\* What find_committed_duplicate may have returned some time ago
FoundOnce(d, c) ==
  {v \in DOMAIN versions :
     IsPublished(v) /\ versions[v].dataset = d /\ versions[v].content = c}

ContentCommitted(d, c) == CommittedDuplicates(d, c) # {}              \* mutant

\* UNIQUE (dataset_key, manifest_sha256, file_set_sha256), whatever the status
ContentTaken(d, c) ==
  \E v \in DOMAIN versions : versions[v].dataset = d /\ versions[v].content = c

NumberTaken(d, n) ==
  \E v \in DOMAIN versions : versions[v].dataset = d /\ versions[v].number = n

-----------------------------------------------------------------------------
\* claim_dataset: the INSERT and the re-read after an IntegrityError have the
\* effect of one atomic test.
ClaimConflict(d, p) == d \in DOMAIN datasets /\ datasets[d].owner # p

Claim(d, p) ==
  /\ ~ClaimConflict(d, p)
  /\ datasets' = IF d \in DOMAIN datasets THEN datasets
                 ELSE Put(datasets, d, [owner |-> p, counter |-> 0, latest |-> NoVersion])
  /\ UNCHANGED <<versions, files, usage, idem, events>>

AllocateVersionNumber(d) ==
  /\ d \in DOMAIN datasets
  /\ datasets[d].counter < MaxNumber
  /\ datasets' = [datasets EXCEPT ![d].counter = @ + 1]
  /\ UNCHANGED <<versions, files, usage, idem, events>>

NewVersion(v, d, p, c, n) ==
  Put(versions, v, [dataset |-> d, number |-> n, uploader |-> p, status |-> "pending",
                    content |-> c, retraction |-> NoCall])

\* A violated UNIQUE constraint rolls the counter back with the INSERT.
CanInsert(v, d, c) ==
  /\ v \notin DOMAIN versions
  /\ d \in DOMAIN datasets
  /\ ~ContentTaken(d, c)

\* insert_pending_version as the upload route calls it.  That the new number
\* never meets UNIQUE (dataset_key, version_number) is not a guard: it is
\* NumbersUnique below.
InsertPending(v, d, p, c) ==
  /\ CanInsert(v, d, c)
  /\ datasets[d].counter < MaxNumber
  /\ datasets' = [datasets EXCEPT ![d].counter = @ + 1]
  /\ versions' = NewVersion(v, d, p, c, datasets[d].counter + 1)
  /\ UNCHANGED <<files, usage, idem, events>>

CounterStaysBehind(counter, n) == counter                            \* mutant

CounterFollows(counter, n) == n                                      \* mutant

RaisedCounter(counter, n) == IF counter < n THEN n ELSE counter

\* insert_pending_version with an explicit version_number
InsertNumbered(v, d, p, c, n) ==
  /\ CanInsert(v, d, c)
  /\ ~NumberTaken(d, n)
  /\ datasets' = [datasets EXCEPT ![d].counter = RaisedCounter(@, n)]
  /\ versions' = NewVersion(v, d, p, c, n)
  /\ UNCHANGED <<files, usage, idem, events>>

\* insert_file_record: a primary key and a foreign key to versions
InsertFile(v, f) ==
  /\ v \in DOMAIN versions
  /\ <<v, f>> \notin files
  /\ files' = files \cup {<<v, f>>}
  /\ UNCHANGED <<datasets, versions, usage, idem, events>>

FitsBeforeAdding(v) == usage[versions[v].uploader].bytes <= Quota     \* mutant

\* The guards of commit_version: each UPDATE must change exactly one row, or
\* the transaction is rolled back.
FitsQuota(v) ==
  usage[versions[v].uploader].bytes + TotalBytes[versions[v].content] <= Quota

CanCommit(v) == HasStatus(v, "pending") /\ FitsQuota(v)

CountsOnly(row, c) == [row EXCEPT !.count = @ + 1]                    \* mutant

Refunds(row, c) == [bytes |-> row.bytes - TotalBytes[c], count |-> row.count]  \* mutant

Charged(row, c) == [bytes |-> row.bytes + TotalBytes[c], count |-> row.count + 1]

CommitVersion(v) ==
  /\ CanCommit(v)
  /\ usage' = [usage EXCEPT ![versions[v].uploader] = Charged(@, versions[v].content)]
  /\ versions' = [versions EXCEPT ![v].status = "committed"]
  /\ datasets' = [datasets EXCEPT ![versions[v].dataset].latest = v]
  /\ UNCHANGED <<files, idem, events>>

WhateverItsStatus(v) == v \in DOMAIN versions                          \* mutant

Removable(v) == HasStatus(v, "pending")

\* The rows of files go whatever the status of the version.
DeletePendingVersion(v) ==
  /\ files' = {row \in files : row[1] # v}
  /\ versions' = IF Removable(v) THEN Drop(versions, v) ELSE versions
  /\ UNCHANGED <<datasets, usage, idem, events>>

LatestBeforeRetract(v) == Newest(CommittedOf(versions[v].dataset))    \* mutant

\* The SELECT inside the transaction, after its UPDATE
LatestAfterRetract(v) == Newest(CommittedOf(versions[v].dataset) \ {v})

\* The write of retract_version.  It has no status guard: the caller tested the
\* status before the transaction began.
RetractVersion(v, call) ==
  /\ versions' = [versions EXCEPT ![v].status = "retracted", ![v].retraction = call]
  /\ \E newest \in LatestAfterRetract(v) :
       datasets' = [datasets EXCEPT ![versions[v].dataset].latest = newest]
  /\ UNCHANGED <<files, usage, idem, events>>

-----------------------------------------------------------------------------
\* reserve_idempotency_key when the INSERT succeeds; the other outcomes read.
ReserveKey(id, c, by) ==
  /\ id \notin DOMAIN idem
  /\ idem' = Put(idem, id, [content |-> c, status |-> "pending", result |-> NoVersion, by |-> by])
  /\ UNCHANGED <<datasets, versions, files, usage, events>>

\* The WHERE clause of every later write to a reservation.
IsReserved(id, c) ==
  id \in DOMAIN idem /\ idem[id].content = c /\ idem[id].status = "pending"

Completed(row, v) == [row EXCEPT !.status = "committed", !.result = v]

CompleteKey(id, c, v) ==
  /\ idem' = IF IsReserved(id, c) THEN [idem EXCEPT ![id] = Completed(@, v)] ELSE idem
  /\ UNCHANGED <<datasets, versions, files, usage, events>>

\* delete_pending_idempotency_key
ReleaseKey(id, c) ==
  /\ idem' = IF IsReserved(id, c) THEN Drop(idem, id) ELSE idem
  /\ UNCHANGED <<datasets, versions, files, usage, events>>

\* The SELECT of reconcile_idempotency_keys
PendingKeys == {id \in DOMAIN idem : idem[id].status = "pending"}

\* Every reservation read before, a <<key id, content>>, is completed with the
\* version found for it, or deleted when that is NoVersion.
Written(live, found) ==
  LET outcome(id) == found[<<id, idem[id].content>>]
      still == {id \in live : <<id, idem[id].content>> \in DOMAIN found}
  IN
  /\ idem' = [id \in DOMAIN idem \ {k \in still : outcome(k) = NoVersion} |->
                IF id \in still THEN Completed(idem[id], outcome(id)) ELSE idem[id]]
  /\ UNCHANGED <<datasets, versions, files, usage, events>>

StatusNotTested(found) == Written(DOMAIN idem, found)                \* mutant

\* The writes of reconcile_idempotency_keys, one transaction
Reconcile(found) == Written(PendingKeys, found)

RecordEvent(a, v) ==
  /\ events' = events \cup {<<a, v>>}
  /\ UNCHANGED <<datasets, versions, files, usage, idem>>

-----------------------------------------------------------------------------
\* init_schema on a new file
CatalogInit ==
  /\ datasets = EmptyTable
  /\ versions = EmptyTable
  /\ files = {}
  /\ usage = [p \in Principals |-> [bytes |-> 0, count |-> 0]]
  /\ idem = EmptyTable
  /\ events = {}

\* Any number of clients calling the operations in any order.  Only the id of a
\* published version is ever disclosed, so only those are retracted.
DatasetOp ==
  \E d \in Datasets, p \in Principals : Claim(d, p) \/ AllocateVersionNumber(d)

PendingOp ==
  \E v \in VersionIds, d \in Datasets, p \in Principals, c \in Contents :
    \/ InsertPending(v, d, p, c)
    \/ \E n \in 1..MaxNumber : InsertNumbered(v, d, p, c, n)

VersionOp ==
  \E v \in VersionIds :
    \/ \E f \in Paths : InsertFile(v, f)
    \/ CommitVersion(v)
    \/ DeletePendingVersion(v)
    \/ IsPublished(v) /\ \E call \in RetractCalls : RetractVersion(v, call)
    \/ \E a \in EventActions : RecordEvent(a, v)

ReconcileOp ==
  \E read \in SUBSET {<<id, idem[id].content>> : id \in PendingKeys} :
    \E found \in [read -> VersionIds \cup {NoVersion}] :
      /\ \A p \in read : found[p] \in FoundOnce(p[1][2], p[2]) \cup {NoVersion}
      /\ Reconcile(found)

KeyOp ==
  \/ \E id \in KeyIds, c \in Contents, v \in VersionIds :
       ReserveKey(id, c, v) \/ CompleteKey(id, c, v) \/ ReleaseKey(id, c)
  \/ ReconcileOp

CatalogNext == DatasetOp \/ PendingOp \/ VersionOp \/ KeyOp

CatalogSpec == CatalogInit /\ [][CatalogNext]_catalogVars

-----------------------------------------------------------------------------
\* datasets.latest_committed_version_id names a committed version of the dataset
\* and is NULL only when there is none, whatever the order of commits and
\* retractions: commit_version sets it and retract_version recomputes it.
LatestIsCommitted ==
  \A d \in DOMAIN datasets :
    IF CommittedOf(d) = {} THEN datasets[d].latest = NoVersion
    ELSE datasets[d].latest \in CommittedOf(d)

\* Every version belongs to a claimed dataset, no two versions of a dataset share
\* a number, and the counter is ahead of them all, also when uploads are aborted
\* and numbers are given by the caller: the next upload never meets the UNIQUE
\* constraint on version_number.
NumbersUnique ==
  \A v \in DOMAIN versions :
    /\ versions[v].dataset \in DOMAIN datasets
    /\ versions[v].number <= datasets[versions[v].dataset].counter
    /\ \A w \in DOMAIN versions :
         versions[w].dataset = versions[v].dataset /\ versions[w].number = versions[v].number
           => w = v

\* version_count is the number of versions the principal ever published and
\* stored_bytes their size.  A retracted version still counts (README.md:15), an
\* aborted one never does.
CountAccounts ==
  \A p \in Principals : usage[p].count = Cardinality(PublishedBy(p))

BytesAccount ==
  \A p \in Principals :
    usage[p].bytes =
      MapThenSumSet(LAMBDA v : TotalBytes[versions[v].content], PublishedBy(p))

\* No principal is ever charged more than the quota, however many uploads reach
\* commit_version together: the test is in the WHERE clause of the UPDATE.
WithinQuota == \A p \in Principals : usage[p].bytes <= Quota

Identity(v) ==
  <<versions[v].dataset, versions[v].number, versions[v].uploader, versions[v].content>>

\* A published version is never deleted, renumbered or given other content, and a
\* retracted one never becomes committed again.
PublishedIsForever ==
  [][\A v \in VersionIds :
       IsPublished(v) =>
         /\ IsPublished(v)' /\ Identity(v)' = Identity(v)
         /\ HasStatus(v, "retracted") => HasStatus(v, "retracted")']_catalogVars

\* A completed reservation stays and keeps its result: an upload that completes its
\* reservation, or a recovery that does, is not undone by another worker's
\* reconcile_idempotency_keys, which read the reservation while it was pending.
CompletedKeysKept ==
  [][\A id \in DOMAIN idem :
       idem[id].status = "committed" =>
         id \in DOMAIN idem' /\ idem'[id] = idem[id]]_catalogVars

\* A dataset keeps its owner, and its counter never goes back.
DatasetsKept ==
  [][\A d \in DOMAIN datasets :
       /\ d \in DOMAIN datasets'
       /\ datasets'[d].owner = datasets[d].owner
       /\ datasets'[d].counter >= datasets[d].counter]_catalogVars

=============================================================================
