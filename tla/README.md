# A TLA+ verification of dtcc-upload

dtcc-upload is a FastAPI service that accepts packages (a manifest and its
artifacts), keeps them as immutable numbered versions of a dataset, and serves
them. Its state is split between one SQLite file and one directory tree, shared
by several Uvicorn workers, and no single transaction covers both. What these
modules are about is that split: what a version *is* while an upload is between
two of its steps, and what is left when it stops there.

Paths below are relative to the repository; `app.py`, `catalog.py` and
`storage.py` are in `src/dtcc_upload/`.

## 1. The system

| Component | State it keeps | Operations | Talks to |
|---|---|---|---|
| Catalogue (`catalog.py`) | tables `datasets`, `versions`, `files`, `principal_usage`, `idempotency_keys`, `events` | claim, number, insert, commit, delete pending, retract; reserve, complete, release, reconcile keys; audit | called by everything |
| Version directories (`storage.py`) | `_incoming/<upload_id>`, `datasets/<key>/<version_id>` with `manifest.json`, `files/`, `commit.ready` | stage, write, finalize (one `os.replace`), clean up, recover | reads and writes the catalogue during recovery |
| Upload route (`app.py:525-844`) | the locals of one request: six booleans that decide what its `finally` block undoes | one long sequence over both stores | catalogue, directories |
| Retraction route (`app.py:454-478`) | none | read, write, audit | catalogue |
| Startup recovery (`app.py:144-157`) | loop variables | `recover_pending`, `cleanup_stale_incoming`, `cleanup_stale_pending_finals`, `reconcile_idempotency_keys` | catalogue, directories, beside the other workers' uploads |
| Browsing and version detail (`app.py:243-382`) | the client's cursor; rows read by one request | list, detail, versions, version | catalogue |
| Download (`app.py:384-452`, `responses.py`) | rows read, position in the body | etag, range, body chunk by chunk | catalogue, directories |
| Upload limits (`limits.py`, `app.py:164-196`) | active uploads per principal, in the memory of each worker | acquire, release, enforce | middleware of the upload route |
| Authentication (`auth.py`) | none; writes the event `auth_failure` | token to principal and scopes | middleware and every route |
| Request checks (`models.py`, `validation.py`, `paths.py`, `match_v2_uploads`) | none | path and manifest validators, pairing of files with artifacts | upload route, before its first write |
| Media types, hashing, configuration, logging | none | pure functions | upload route |

What is hard here:

* **Concurrency.** Uploads are threads of a worker (`README.md:77-79`), workers
  are processes (`deploy/systemd/dtcc-upload.service:15`, `--workers 2`), and
  every method of the catalogue is its own transaction, so an upload is some
  fifteen separate steps.
* **Failure half-way.** Every step may raise; the `finally` block undoes what the
  booleans say was done. The process may be killed at any step.
* **Recovery beside live work.** Every worker runs the recovery when it starts,
  also when the others are serving.
* **Retries.** Clients send the same content again, with and without the same
  `Idempotency-Key`.
* **Readers.** A route that reads makes up to three SELECTs, each a transaction of
  its own, and a scan of the list is as many requests as it has pages. Commits and
  retractions come between them.
* **Slots.** A slot of the limiter is taken before the body is read, so how long it
  is held is up to the client, and there are many ways out.
* **Names.** Paths are normalized, file names are not; files may be named by path
  or by base name.

What makes each component correct:

* catalogue: numbers unique, accounts exact and within the quota, latest version
  committed, published versions for ever;
* upload and recovery: a published version is complete; an answer names a
  published version with the content sent; the same content is one version; a
  failed upload leaves nothing; an upload that had become durable is not lost;
* reservations: held by somebody or completed with the right version;
* retraction: final, and its audit data is that of the first one;
* list: the pages agree with one another and miss nothing that stays; detail and
  download: nobody is shown what is not for him, who may read is not refused what
  is there, and the bytes are those asked for;
* limiter: the count is exact, the limit holds where the uploads run, and only a
  busy principal is refused;
* request checks: one file for one artifact, and no other pairing possible;
* everything ends, and leftovers go.

`PROJECT.json` lists the hazards behind these, each at its line.

## 2. The modules

| Module | Models | Remarks |
|---|---|---|
| `Catalog` | `catalog.py`, the tables and every write transaction | one variable per table, one action per transaction |
| `Publication` | what readers are promised | abstract: no directories, no pending rows, no recovery |
| `UploadService` | `app.py` upload and retract routes, `storage.py`, the lifespan, kills and exceptions | extends `Catalog`, refines `Catalog` and `Publication` |
| `ByteRange` | `responses.py`: range header, chunked reader, slice | operators, with a reference definition of what was asked for |
| `Browse` | the GET routes of `app.py`, `list_datasets`, the responses | extends `Catalog` and `ByteRange`: one reader beside the writers |
| `Package` | `paths.py`, `models.py`, `validation.py`, `match_v2_uploads` | operators |
| `Admission` | the middleware, `limits.py`, `auth.py`, `upload_dataset` before `claim_dataset` | extends `Package`; its last step is what `UploadService` details |
| `Catalog_proofs` | theorems about `Catalog` | TLAPS |
| `UploadService_proofs` | theorems about `UploadService` with any number of workers: types, answers, reservations, refinement of `Catalog` | TLAPS, extends `Catalog_proofs` |
| `Startup_proofs` | theorems about the recovery of one worker | TLAPS, extends `UploadService_proofs` |
| `Disk_proofs` | theorems about the directories of one worker, refinement of `Publication` | TLAPS, extends `Startup_proofs` |
| `Leftovers_proofs` | theorems about uploads that fail in one worker | TLAPS, extends `Disk_proofs` |
| `Browse_proofs` | theorems about the reading routes and the byte ranges | TLAPS, extends `Catalog_proofs` |
| `Package_proofs` | theorems about the pairing of files with artifacts | TLAPS |
| `Admission_proofs` | theorems about `Admission` | TLAPS, extends `Package_proofs` |
| `MCCatalog`, `MCUploadService`, `MCBrowse`, `MCAdmission` | small instances | constants, symmetry, one constraint; the requests considered |

### Catalog

A table is a function from its primary key to its row. A SELECT that comes before
the first write of a Python `sqlite3` connection is not in its transaction. A
method whose writes repeat the SELECT's condition in a WHERE clause is therefore
one action (`commit_version`, the idempotency methods); `retract_version` does
not repeat it, so `RetractVersion` is its write only and the read is an action of
`UploadService`; the transaction of `reconcile_idempotency_keys`, `Reconcile`, gets
what was read before it as a parameter: for each reservation the version to complete
it with, or none. Of a content only its identity (the two digests) and its size are kept.
`created_at` is kept as the upload that wrote the row, because the only thing read
from it is whether it is older than `stale_incoming_seconds`. `InsertNumbered` is
`insert_pending_version` with the explicit `version_number` the method accepts.
`CatalogNext` lets any client call any method in any order, the way the upload
route does and otherwise: what it preserves, every caller may rely on. Its one
restriction is that only published versions are retracted, for the id of a pending
one is never disclosed.

### UploadService

An upload is identified with its version id; `pc` is the step it takes next and
`flags` holds the booleans of `upload_dataset` that are True, so the cleanup the
code would do is a function of `flags` (`ToCleanup`). Each action is one
transaction or one directory operation, in the order of the code:

* body: `RecordStarted`, `CreateStaging`, `WritePayload`, `RejectPayload`,
  `HashPayload`, `ReserveIdempotencyKey`, `FindDuplicate`, `InsertPendingVersion`,
  `GetPendingVersion`, `FindDuplicateAgain`, `CompleteDuplicate`,
  `InsertFileRecord`, `WriteCommitReady`, the three steps of `finalize`
  (`MakeParent`, `MoveToFinal`, `SyncParent`), `CommitUpload`,
  `CompleteIdempotencyKey`, `RecordCommitted`; `BodyFault` is an exception at any
  of them, before the step had an effect;
* cleanup: `RecordAborted`, `RemoveFinal` (entry by entry, then the parent),
  `DeleteRow`, `ReleaseIdempotencyKey`, `RemoveStaging`; `CleanupFault`;
* startup of a worker: `Start`, `RecoverFinal`, `RecoverStaged`, `RecoverMove`,
  `RecoverCommit`, `RecoverDone`, `CleanIncoming`, `CleanStale`, `CleanEntries`,
  `CleanIncomingDone`, `CleanFinals`, `CleanRemove`, `CleanRow`, `ReadReservations`,
  `FindReserved`, `ReconcileKeys`, `ReconcileDone`;
* retraction: `ReadForRetraction`, `WriteRetraction`, `RecordRetraction`;
* `Crash` (the threads of a worker go with it) and `TimePasses` (traces of uploads
  that have ended become older than `stale_incoming_seconds`).

Two loops of the startup have as many steps as other workers can come between. The
removal of stale staging directories lists them (`CleanIncoming`), lists the entries
of each (`CleanStale`) and removes them (`CleanEntries`): `rmtree` raises when an
entry it listed is gone, so of two workers that start together one fails, or both at
different entries, and a worker that fails is down. The entries themselves go in one
action, for nobody reads a directory without a row. The reconciliation of keys reads
the reservations, then looks for the version of each (`FindReserved`); these SELECTs
are outside its transaction, which `sqlite3` opens with the first UPDATE or DELETE.
From there on (`ReconcileKeys`) the loop is one action, whose first write may use a
version found before, and whose WHERE clause passes over a reservation that another
worker has completed meanwhile. When nothing is to be written, no transaction opens
(`ReconcileDone`).

A directory is the set of its entries that are completely written. A partly
written entry counts as absent: it is never read, since every reader waits for
`commit.ready` (recovery) or for the commit (clients), and both come after the
fsync of everything else.

### Browse

One client makes one request; with "list" it follows `next_cursor` to the end.
Each SELECT is an action (`ListPage`, `ReadDataset`, `ReadVersion`, `ListVersions`,
`ReadFiles`), so is the opening of the file with the headers (`Open`) and each
read of the body (`SendChunk`; a manifest is sent in one piece). The rows a
route has read are kept in `dataset` and `version`, and every check is made on
them, as in the code, however old they are by then. A cursor holds the position
of a row, its three sort columns, and no version: the predicate `BeyondCursor` and
the order `Precedes` are two separate texts in the code, and two separate
definitions here.

The writers are actions of `Catalog` in the order in which the upload route calls
them, with its loop over the artifacts; directories are not modelled again, for by
`PublicationSpec` the files of a published version are there. Paths in `Lost` are
files that disappeared all the same. `committed_at` is any value of a small range:
`CURRENT_TIMESTAMP` has a resolution of one second, so versions share it, and
follows a clock that may be set back. Two history variables say what the
properties need: `steady`, what the request could have been shown at every moment
since it began, and `withdrawn`, what was retracted meanwhile.

### Admission and Package

A path is the sequence of its parts. Of a part the code looks at its normal form,
its length, and whether it is of a kind that is refused; the kinds are sets given
as constants, for which characters belong to them is text, while which validator
uses which set, on which form, is the code. A manifest is a record of the members
that checks relate to each other; constraints on a single field are one Boolean.
The refusals of `match_v2_uploads` all say 400, so they are one conjunction;
`ArtifactsFor` is its rule and `UploadsByPath` the pairing it returns.

`Admission` is the life of a POST: `Middleware` (length, token, slot), the body,
`RequireUpload` (FastAPI solves dependencies after the form has been parsed),
`CheckRequest`, the upload as one step, and `Leave`, the `finally` block. The
slots are `active`, one function per worker whose domain is the principals with an
entry in `_active`. `Kill` takes a worker with its requests and its slots. The
principal is resolved twice in the code, by the middleware (`held`) and by the
route (`user`), and the properties relate the two.

### Assumptions

* An id from `uuid4` is fresh, and equal digests mean equal content.
* A request that fails before `claim_dataset` leaves no trace but the event
  `auth_failure` (`Admission`), so it does not occur in `UploadService`.
* An exception happens before its step had an effect. The two places where that
  matters have steps of their own: between the commit of `insert_pending_version`
  and `pending_inserted` (`get_pending`), and between `os.replace` and `finalized`
  (`fsync_parent`).
* No running upload lasts longer than `stale_incoming_seconds` (a day), counted
  from the claim: by then the form has been received, so the pace of the client
  does not matter. The code does not enforce it: `request_timeout_seconds` is read
  nowhere.
* Machines do not lose power: a transaction that returned is durable.
* What TLC gets from its instances and the proofs need said: there is a request
  (`ServiceConstants`), no version id is the name of an error and no artifact is
  the marker or the directory (`NamesDiffer`), and a scenario of `Browse` is a
  request (`ScenariosAreRequests`). Every run evaluates them.

### Not modelled

* Sniffing of media types (`mime.py`): a table from byte prefixes to names. Its
  outcome, a refusal after the files are written, is part of `RejectPayload`; a
  property of the table would repeat it. Hashing: digests identify content.
* `get_metrics`, which counts rows; HEAD requests, which send the headers of a
  GET; CORS; log lines; loading of the settings.
* Constraints on one field of a manifest, and the columns no decision reads.
* The forms of the Authorization and If-None-Match headers: they hold a token or
  none, the digest or not.
* A power failure. Which of the last transactions a write-ahead log with
  `synchronous=NORMAL` keeps is a matter of SQLite and the disk.
* More than one reader: readers change nothing, so one is enough.

## 3. The runs

| Run | Instance | Question |
|---|---|---|
| `catalog` | 2 datasets, 3 versions, 2 contents of sizes 1 and 2, quota 3 | are the tables consistent whatever is called in whatever order |
| `upload_crash` | 1 worker that may be killed, 2 uploads, a retraction, quota 2 | does what was acknowledged survive, and what was durable come back |
| `upload_faults` | 1 worker, 3 uploads, exceptions at the body's steps | does a failed upload leave nothing, unnoticed by readers |
| `upload_workers` | 2 workers, one may be killed, 2 uploads of the same content with or without a key, a fault in commit | one version for one content and one result for one key, whoever recovers what |
| `upload_live` | 2 workers that start together, one may be killed at any step, 1 upload that fits the quota or never does, faults in cleanup | is every request answered, do leftovers go, does every leftover let the workers start |
| `readers` | a list over 3 versions of 2 datasets, the other reads beside 2 versions of one, downloads of a version with 4 files; 1 retraction | do readers get what they should, whatever is written between their reads |
| `admission` | 3 posts of 2 principals to 2 workers, one of which may be killed, limit 2; some 3300 bodies, one at a time | do slots balance, are files and artifacts paired rightly |
| five violation runs | the least that shows each finding | section 4 |

Why the bounds are enough. Uploads interact only through the rows they share: the
dataset, the content, the key and the account. With two uploads every pair of
steps meets; the third in `upload_faults` is there for a cleanup that meets the
outcome of two others. Contents of sizes 1 and 2 under a quota of 2 (3 in
`catalog`) give every outcome of the quota test: fits, fits exactly, does not fit
beside the other. One artifact and one key suffice because the loops over files
treat them alike and keys do not interact; two principals appear in the requests
so that a claim is refused. `MaxNumber` equals the number of versions and never
blocks an upload. The only state constraint, `SideTables` in `MCCatalog`, limits
reservations and audit rows to instances where one of them lies beside one
version: no row of the other tables depends on them. `CHECK_DEADLOCK` is off
everywhere because the instances end when their uploads are used up.
Symmetry under permutations of version ids (and of datasets in `catalog`) is used
in safety runs only; no constant is ordered.

`upload_live` has a single upload: two startups meet in one directory and one row, and
a second leftover would be taken by one of them or by the other in the same way. It is
killed or fails at each of its steps with each kind of content, so the two workers find
every leftover there is, among them a durable upload that the quota refuses for ever:
the exception of `commit_version` is caught in the recovery, and if it were not
(`OverQuotaRaises`) no worker would ever start again.

`upload_workers` is the largest instance, 3.6 million states up to symmetry: two
startups reconcile a key while the upload that holds it completes or ends, and
`CompletedKeysKept` says that none of the writes replaces or removes a result that a
client may have been given. `CatalogSpec` is checked there, with two workers, and not
again with one; section 5 proves it, retractions included.

`readers` chooses a scenario, the packages that arrive and one request, in the
initial state. For the list, three versions give a page boundary with a commit, a
retraction and a tie in `committed_at` (two values) on either side of it, and a
dataset whose latest version changes. The detail routes read at most three times
from one dataset, so two versions of it and a retraction meet every pair of reads;
all scopes, both principals. Downloads try files of sizes 0 and 3 with a chunk of
2 against every pair of texts that a range can hold, up to one beyond the end.
What is written after the answer is not followed.

`admission` chooses what each request sends, likewise. Three requests and a limit
of 2 are the least that is refused; the second comes under an alias of the first
one's principal, the third with any token. Bodies are tried alone, for requests do
not see each other's: v2 packages of up to three artifacts over five paths, among
them equal base names and two spellings of one path, against up to three files with
any of these names or none; every path of one or two parts of every kind; v3
packages of one and two artifacts with all combinations of role, digest and
derivation; both sides of every size and count.

Safety properties that need one worker, and why: with two workers a live upload
may be recovered under its own feet (finding 1), so completeness of a published
version (`PublicationSpec`) is checked with one worker, and with two workers the
properties that hold nevertheless. `AbortedNeverPublished` is checked without
kills: `upload_aborted` is recorded before the cleanup, and a kill between the two
lets recovery publish the upload. `NoOrphanFinal` is checked without an exception
of the last fsync in `finalize`.

### Refinement

`PublicationSpec` is `Publication!Spec` under the mapping `Shelf`, `Offered`: the
shelf has the published versions, with the entries that a download could reach
(present in the final directory and, for artifacts, recorded in `files`), and
"latest" is `latest_committed_version_id`. That it holds says that a version
appears to readers in one step and whole, that content appears once, and that the
only other thing readers can observe is a withdrawal. `CatalogSpec`, checked as a
property of `UploadService`, says that the service uses the tables only through
the methods of the catalogue; the theorems of section 5 then apply to it.

### Fairness

Weak fairness of each upload's next step (the thread pool runs a request to its
end), of each worker's startup (the supervisor restarts a worker that died,
`Restart=on-failure`) and of time. Nothing forces a request, a retraction or a
kill. `StartupsSucceed` rests on the restarts alone, of a worker that was killed and
of one whose startup raised, and says that each worker which is not killed again is up
in the end. `LeftoversGo` says that a request, once begun, ends and leaves a published
version or nothing. It has two conditions. Some worker must go down and come up again
and again, for only a startup cleans up: without a restart a stranded reservation or
row stays. And no worker may start while an upload runs in another (`StartsApart`).
Without that, TLC finds a recovery that has moved the directory of a live upload and is
killed before the commit: the upload fails and deletes its row, `finalized` is not set,
and the version directory stays for ever, for nothing lists it. It is finding 1 with
another ending.

In `Browse` the reader's next step is fair, and nothing forces a writer;
`EveryRequestEnds` holds beside any of them because a cursor only moves on. In
`Admission` the worker's next step is fair once the form is there (its upload ends
by `LeftoversGo`), and no client has to send its form: `NobodyLockedOut` says
that such a client, holding a slot of the same principal in the same worker, is
the only way in which a principal stays without room.

## 4. What the runs found

1. `live_upload_recovered`: the recovery of a starting worker takes the uploads of
   the workers that are serving for dead ones. It finalizes and commits such an
   upload; the upload's own `finalize` fails, and its cleanup deletes the file
   records of the version that is now committed. The version is listed and its
   artifacts answer 404.
2. `partial_cleanup_recovered`: a kill while the directory of a refused version is
   removed may leave `commit.ready` and take artifacts; recovery then publishes it.
3. `stranded_key`: an exception between the commit and the completion of the
   reservation leaves "already in progress" with nothing in progress.
4. `retract_twice`: two concurrent retractions; the second replaces the audit data
   of the first.
5. `retracted_uploaded_again`: the content of a retracted version is refused for
   ever, with the words "still pending".

Each is a run that TLC violates, so a fix of the code can be tried on the model.
Worth knowing beside them, and in the models:

* the latest version is the one that committed last, not the one with the highest
  number;
* the reservation of a killed upload blocks its key for at least a day;
* `max_versions_per_dataset` and the two timeouts in `config.py` are never used, so
  a stalled client keeps its slot for as long as it stays connected;
* `max_concurrent_uploads_per_principal` is a limit per worker;
* the dataset detail, whose two reads fall around a retraction, shows the withdrawn
  version to anyone as the latest one (`WhoSeesWhat` allows exactly that);
* a dataset whose latest version changes during a scan of the list may be on no
  page, or on two with different versions; a version that stays is on one;
* file names are not normalized: a client that writes its paths decomposed, in the
  manifest and in the names of the files, is refused with 400;
* a file whose path has a character outside latin-1 is accepted and cannot be
  downloaded (500), for its name goes into a header;
* a range with digits that `str.isdigit` accepts and `int` refuses (superscripts) is
  answered 500 instead of 416; so is a token outside ASCII instead of 401, when the
  settings have a token to compare it with (`Raises`).

## 5. What is proved

`Catalog_proofs` proves, for every set of principals, datasets, versions, contents
and keys, any sizes, quota and number bound, and from the assumption
`CatalogConstants` alone:

| Theorem | States |
|---|---|
| `TypeCorrect` | `CatalogSpec => []CatalogTypeOK` |
| `PublishedStays` | `CatalogSpec => PublishedIsForever` |
| `DatasetsStay` | `CatalogSpec => DatasetsKept` |
| `CompletedStay` | `CatalogSpec => CompletedKeysKept` |
| `NumbersStayUnique` | `CatalogSpec => []NumbersUnique` |
| `LatestStaysCommitted` | `CatalogSpec => []LatestIsCommitted` |
| `QuotaHolds` | `CatalogSpec => []WithinQuota` |
| `CountIsExact` | `CatalogSpec => []CountAccounts` |
| `BytesAreExact` | `CatalogSpec => []BytesAccount` |

The argument. The type invariant is inductive, shown operation group by operation
group from three lemmas about tables. `OldRows` says all that a step does to a row
that exists: it keeps identity, and either its status moves forward or, while pending,
it goes. `OldDatasets` says the same of datasets. From these follow the first two
action properties. `CompletedStay` follows from the WHERE clauses of the three writes
to a reservation, each of which asks for a pending one. `NumbersUnique` is inductive
only because it also bounds every number by its dataset's counter; without that
conjunct the number drawn next could be taken. `LatestIsCommitted` needs
`NumbersUnique` in two ways: versions belong to existing datasets, and the numbers,
being bounded, have a maximum, so that the election in `retract_version` finds one (a
finite non-empty set of naturals). `WithinQuota` follows from the WHERE clause alone.
`CountAccounts` follows from finite-set cardinality: a commit adds one version to
those its uploader published, and nothing else changes that set. `BytesAccount` is a
fold of sizes over that set. `SumCounts` shows that the fold is the cardinality of the
set of all the bytes, numbered within their version (`Blocks`), by an induction over
finite sets that needs no operator parameter: the induction hypothesis is a set
(`SubsetInduction`), and a subset outside it would have a minimal one. That a commit
adds the size of its version, and that no other step changes the sum, are then facts
about cardinalities and `OldRows`.

`Admission_proofs` proves, for every set of requests, workers, tokens, principals
and aliases, any limit, and any plan (what is sent, to which worker), from the
assumption `AdmissionConstants` alone:

| Theorem | States |
|---|---|
| `AdmissionTypeCorrect` | `AdmissionSpec => []AdmissionTypeOK` |
| `SlotsStayExact` | `AdmissionSpec => []SlotsExact` |
| `LimitHolds` | `AdmissionSpec => []RouteWithinLimit` |
| `RefusedForOwnUploads` | `AdmissionSpec => RefusedOnlyWhenBusy` |
| `OneFileForEach` | `AdmissionSpec => []OneFilePerArtifact` |
| `PairingStaysForced` | `AdmissionSpec => []PairingIsForced` |
| `WellNamedStaysMatched` | `AdmissionSpec => []WellNamedIsMatched` |

The argument for the first four. `SlotsExact` alone is not inductive: a release must
meet a slot that was taken, and a kill must find no slot of its worker held by a
request that is not there. `AdmissionInv` adds `HoldsWhileInside`: a request holds a
slot from the middleware to its `finally` block and at no other time, the slot is of
the principal its token resolves to, and a route that may upload runs for that
principal and holds its slot. The methods of the limiter are lemmas of their own:
`acquire` adds one and `release` takes one away, and an entry that would be zero
goes. Each step then adds or removes at most one request from a finite set whose
cardinality is the count. `RouteWithinLimit` follows because the routes inside are
among those that hold a slot, and `RefusedOnlyWhenBusy` because those that hold one
are in progress.

The last three rest on an invariant each: who is in its upload has passed the
checks (`ChecksPassed`), and a request that is well formed gets its 400 from them
(`RefusedByChecks`). The rest is `Package_proofs`, which is about operators only and
for names and paths in any number. `MatchIsForced`: the artifacts the rule gives to
the files are different and as many as there are, so every artifact has a file (the
pigeonhole principle); and any other pairing that the names allow would give a file
by its base name to an artifact when the name is the path of another, which then
needs a file of the same name. `WellNamedMatch` is the converse, that names which
lead to one artifact each are accepted. Nothing is assumed
of `Nfc`.

`UploadService_proofs` proves, from `CatalogConstants`, `ServiceConstants` and
`NamesDiffer`, for any number of workers and uploads, any requests, and any sets
`Faulty` (steps that may raise) and `Mortal` (workers that may be killed):

| Theorem | States | If |
|---|---|---|
| `UploadTypeCorrect` | `UploadSpec => []UploadTypeOK` | |
| `AnswersAreRight` | `UploadSpec => []AnswerNamesPublished` | |
| `AnswersAgree` | `UploadSpec => []SameRequestSameVersion` | |
| `ReplaysAreRight` | `UploadSpec => []KeyResultPublished` | |
| `ServiceRefinesCatalog` | `UploadSpec => CatalogSpec` | |
| `ServiceKeepsCatalog` | what `Catalog_proofs` proves of the tables holds of the service | |
| `KeysAreHeld` | `UploadSpec => []PendingKeyIsHeld` | `Faulty \cap StrandingFaults = {}` |

The argument. `ServiceInv` relates each thread to the tables (`ThreadOK`: which steps
are reached only with a key, which only by the owner of the dataset, and that an
answer names a published version with the content asked for), each row to the request
it came from (`RowOK`), each reservation to its request and its result (`KeyOK`), and
what a startup has found for a reservation to a published version of the content it is
for (`HasFound`, in `WorkersOK`; that version may have been retracted since, and stays
published). It does not ask that the row of a thread is still pending, since the
recovery of another worker may have committed or deleted it. What holds even then is
that no two rows of a dataset have the same content, whatever their status, and that a
published row stays: so two answers for one content are one version. Each action is
one step of the thread it belongs to, and a lemma says what a catalogue method leaves
alone, so that the other threads keep their part. The same invariant shows that every
step calls a method of the catalogue within its guard (`ServiceWrites`), hence the
refinement. `KeysAreHeld` needs `HeldInv`: the boolean that says "reserved" is set
until the step that releases or completes. Its hypothesis is the run `stranded_key`:
the completion of a reservation and the two deletes before its release do not raise.

The next three modules assume one worker, `SoleWorker`: with two, the run
`live_upload_recovered` violates what they prove. `Faulty` and `Mortal` are arbitrary
but for what the last column says:

| Module | Theorem | States | If |
|---|---|---|---|
| `Startup_proofs` | `RecoveryIsComplete` | `UploadSpec => []RecoveryComplete` | |
| | `RecoveredKeysAreComplete` | `UploadSpec => []RecoveredKeysComplete` | |
| `Disk_proofs` | `DirectoriesHaveRows` | `UploadSpec => []NoOrphanFinal` | `DirectoriesRemovable` |
| | `PublishedIsComplete` | `UploadSpec => []CommittedComplete` | `CommitsAreFinal` |
| | `ServiceRefinesPublication` | `UploadSpec => PublicationSpec` | `CommitsAreFinal` |
| `Leftovers_proofs` | `NothingIsLeft` | `UploadSpec => []FailedUploadLeavesNothing` | `Faulty \cap ForgetfulFaults = {}` |
| | `AbortsAreFinal` | `UploadSpec => []AbortedNeverPublished` | `Mortal = {}` |

* `DirectoriesRemovable`: neither the last fsync of `finalize` nor the removal of a
  version directory raises. Either leaves a directory that nothing lists.
* `CommitsAreFinal`: either `commit_version` does not raise, or the worker is not
  killed. With both, the run `partial_cleanup_recovered` violates the theorem. A
  version over quota may be refused and its cleanup killed all the same, because
  `usage` never decreases and recovery is refused as well.
* `ForgetfulFaults`: the steps of the cleanup, and the two windows in which something
  was done and the boolean that says so is not set (`get_pending`, `fsync_parent`).
* `Mortal = {}`: `upload_aborted` is recorded before the removals, so a kill in
  between lets recovery publish what the log calls aborted.

The argument. `RecoveryInv` says what a startup has settled at each of its steps: rows
not on its list any more have nothing to recover, the one in hand is as it was read,
and nothing runs beside it (`RunsUp`; here one worker is needed). `DiskInv` relates
the step of an upload to its two directories and its row: what is staged before
`os.replace`, that `commit.ready` is written last and says that everything else is
there, that a directory which was just moved is whole. `OrphanInv`, `CompleteInv` and
`NothingInv` add what each theorem needs: that a directory goes before its row, that a
directory under removal is of a version nobody can commit, that the booleans cover
what was done. For the refinement, `OldRows` bounds what a step can do to the shelf:
nothing, one commit, one retraction; a commit is of a version whose directory and
records are complete, and its content is new by the UNIQUE constraint. `Effect` lists
the six kinds of step an upload takes, and `VersionChanges` says of any step what it
can be to one version (nothing, an arrival, its own upload's step, a kill, a
startup's); every case distinction starts from these two.

`Browse_proofs` proves, from `CatalogConstants`, `BrowseConstants` and
`ScenariosAreRequests`, for any versions, lists, page sizes, clocks, files and ranges:

| Theorem | States |
|---|---|
| `BrowseRefinesCatalog` | `BrowseSpec => CatalogSpec` |
| `BrowseTypeCorrect` | `BrowseSpec => []BrowseTypeOK` |
| `PagesInOrder` | `BrowseSpec => []ListedOnceInOrder` |
| `PagesAreComplete` | `BrowseSpec => []SteadyRowsListed` |
| `NobodySeesMore` | `BrowseSpec => []WhoSeesWhat` |
| `SteadyIsAnswered` | `BrowseSpec => []SteadyIsServed` |
| `DownloadsAreExact` | `BrowseSpec => []BytesAsAsked` |

The argument. `FlowInv` says which request comes to which step. `ListInv`: all that
was listed is published, so its position never changes again; the list is sorted; the
cursor is the position of its last row; what has been on offer all the while is listed
or lies beyond the cursor. A page is the first rows beyond the cursor in an order that
is total, since `KeyRank` and `IdRank` are injective. `SeenInv`: the rows a route
holds still say enough, because owners never change and a version that was committed
when it was read is committed, or has been retracted since. `ServedInv`: a steady
version could be shown now. `BytesInv`: the body so far is the beginning of the
selection; that the selection is what the header asks for is a lemma about
`ParseSingleRange` for every size, and that a chunk ends within it one about
`NextRead`.

All of these invariants were given to TLC on the instances of section 3 before they
were proved. Two flaws of the model came out of the proofs. The `CASE` of
`FromSuffix` and of `FromStart` had overlapping guards, of which TLC takes the first and
TLA+ any one: they are `IF ... ELSE IF` now, like the code. And `NoAnswer` was a
record that `Says` overwrote field by field; it is `Says` of nothing now.

TLC only: the liveness properties `LeftoversGo`, `StartupsSucceed`, `EveryRequestEnds`
and `NobodyLockedOut`, which need ENABLED and fairness; and `AuditPreserved` and
`StillPendingIsPending`, which the code violates. Every other property of a run is
stated by a theorem, under the hypotheses above.

## 6. Plan

Done: all modules of section 2, and a theorem for every safety property of the runs
that pass. Left, in order of worth:

1. Replace `SoleWorker` by a hypothesis on behaviours, `StartsApart`: no worker starts while an
   upload runs in another, and see how much of `RecoveryInv` and `DiskInv` it keeps.
2. Say what the faults in `ForgetfulFaults` leave: an exception in the removal of the
   staging directory, for one, should leave that directory and nothing else.
3. State and prove that the audit data of a retraction stays while no two retractions
   of a version overlap.
