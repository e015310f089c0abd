-------------------------------- MODULE Browse --------------------------------
(***************************************************************************)
(* Reading beside writing: the browsing and download routes of app.py over *)
(* the catalogue, while versions are uploaded, committed and retracted.    *)
(*                                                                         *)
(* A route reads the catalogue with one SELECT, and so one transaction, at *)
(* a time; every SELECT is an action here and anything may be committed    *)
(* between two of them.  One client makes one request, or, with "list",    *)
(* follows next_cursor to the end of the list.                             *)
(*                                                                         *)
(* The writers are those of Catalog, in the order the upload route calls   *)
(* them; directories are not modelled again: of a published version the    *)
(* files are there (PublicationSpec of UploadService), but for those in    *)
(* Lost.                                                                   *)
(***************************************************************************)
EXTENDS Catalog, ByteRange, SequencesExt

CONSTANTS
  Packages,      \* version_id -> what is uploaded under it
  Scenarios,     \* the packages that arrive and the request that is made
  KeyRank,       \* the order of dataset keys in SQL
  IdRank,        \* the order of version ids in SQL
  MaxTime,       \* values of committed_at, 1 .. MaxTime
  MaxPage,       \* the largest limit list_datasets accepts, 100 in the code
  FileSize,      \* the size of a file
  ManifestSize,  \* the size of manifest.json
  ChunkSize,     \* chunk_size of _iter_file_bytes
  Lost,          \* paths of files that cannot be opened
  WideNames      \* paths with a character outside latin-1

ASSUME BrowseConstants ==
  /\ Packages \in [VersionIds -> [dataset : Datasets, owner : Principals,
                                  content : Contents, paths : Seq(Paths)]]
  /\ KeyRank \in [Datasets -> Nat] /\ IsInjective(KeyRank)
  /\ IdRank \in [VersionIds -> Nat] /\ IsInjective(IdRank)
  /\ {MaxTime, MaxPage, ChunkSize} \subseteq Nat \ {0}
  /\ FileSize \in [Paths -> Nat]
  /\ ManifestSize \in Nat
  /\ Lost \subseteq Paths /\ WideNames \subseteq Paths

VARIABLES
  committedAt,   \* version_id -> committed_at, 0 for NULL
  scenario,      \* chosen at the start, never changed
  pc,            \* the SELECT or the read that comes next
  dataset,       \* the row get_dataset returned: a set of at most one row
  version,       \* the row get_version returned, likewise
  cursor,        \* the position in the client's cursor, a set of at most one
  listed,        \* the version ids of the pages so far
  answer,        \* status code, <<version id, status>> shown, what is sent
  steady,        \* history: what the request could have seen ever since it began
  withdrawn      \* history: versions retracted since the request began

readerVars == <<scenario, pc, dataset, version, cursor, listed, answer>>
browseVars == <<catalogVars, committedAt, readerVars, steady, withdrawn>>

-----------------------------------------------------------------------------
Scopes == {"browse", "upload"}

Downloads == {"manifest", "file"}

Kinds == {"list", "detail", "versions", "version"} \cup Downloads

\* The fields a route does not take are ignored by it.
Requests ==
  [kind : Kinds, who : Principals, scopes : SUBSET Scopes, include : BOOLEAN,
   dataset : Datasets, version : VersionIds, path : Paths,
   range : RangeHeaders, etag : BOOLEAN,
   limit : Nat, status : Status \cup {"any"}, contents : SUBSET Contents,
   owners : SUBSET Principals, goodCursor : BOOLEAN]

ASSUME ScenariosAreRequests ==
  Scenarios \subseteq [packages : SUBSET VersionIds, request : Requests]

req == scenario.request

Position(v) ==
  [at |-> committedAt[v], key |-> KeyRank[versions[v].dataset], id |-> IdRank[v]]

NoSelection == [code |-> 0, first |-> 0, last |-> -1]

Says(code, shown) == [code |-> code, shown |-> shown, sel |-> NoSelection, sent |-> <<>>]

NoAnswer == Says(0, {})

\* A route ends with a complete response, or goes on to its next step.
Answer(code, shown) == pc' = "answered" /\ answer' = Says(code, shown)

GoTo(step) == pc' = step /\ UNCHANGED answer

\* What no step of a request changes.
OnlyReads == UNCHANGED <<catalogVars, committedAt, scenario, steady, withdrawn>>

Shown(rows) == {<<row.id, row.status>> : row \in rows}

Has(scope) == scope \in req.scopes

-----------------------------------------------------------------------------
\* can_read_version; dataset and version are rows that were read.
AnyUploader(owner) == Has("upload")                                    \* mutant

OwnsRetracted(owner) == req.who = owner /\ Has("upload")

LatestOnly(d, row) ==                                                  \* mutant
  row.id = d.latest /\ row.status = "committed" /\ Has("browse")

CanRead(d, row) ==
  \/ row.status = "committed" /\ Has("browse")
  \/ row.status = "retracted" /\ OwnsRetracted(d.owner)

\* reject_committed_without_browse
RejectedWithoutBrowse(row) == row.status = "committed" /\ ~Has("browse")

\* The WHERE clause of list_datasets: visibility and filters.  The filters on
\* format, data_kind and product are on columns that never change: together they
\* are the set of contents that match.
IncludesRetracted == req.include /\ Has("upload")

IsLatest(v) ==
  versions[v].status = "committed" /\ v = datasets[versions[v].dataset].latest

OwnRetracted(v) ==
  /\ IncludesRetracted
  /\ versions[v].status = "retracted"
  /\ datasets[versions[v].dataset].owner = req.who

Listable ==
  {v \in DOMAIN versions :
     /\ IsLatest(v) \/ OwnRetracted(v)
     /\ datasets[versions[v].dataset].owner \in req.owners
     /\ versions[v].content \in req.contents
     /\ req.status \in {"any", versions[v].status}}

\* ORDER BY committed_at DESC, dataset_key ASC, version_id ASC
KeysDescending(a, b) ==                                                \* mutant
  \/ a.at > b.at
  \/ a.at = b.at /\ a.key > b.key
  \/ a.at = b.at /\ a.key = b.key /\ a.id < b.id

Precedes(a, b) ==
  \/ a.at > b.at
  \/ a.at = b.at /\ a.key < b.key
  \/ a.at = b.at /\ a.key = b.key /\ a.id < b.id

\* The predicate a cursor adds.  The position is kept in the cursor as the texts
\* of its three columns, so it comes back unchanged.
OlderOnly(c, p) == p.at < c.at                                         \* mutant

OlderOrSame(c, p) == p.at <= c.at                                      \* mutant

BeyondCursor(c, p) ==
  \/ p.at < c.at
  \/ p.at = c.at /\ p.key > c.key
  \/ p.at = c.at /\ p.key = c.key /\ p.id > c.id

Candidates == {v \in Listable : \A c \in cursor : BeyondCursor(c, Position(v))}

\* The rows of the SELECT: one sequence, for no two positions are equal.
Ordered(vs) ==
  {rows \in SetToSeqs(vs) :
     \A i, j \in DOMAIN rows : i < j => Precedes(Position(rows[i]), Position(rows[j]))}

\* The early return of list_datasets, and its ValueErrors.
NothingListed == req.status = "retracted" /\ ~IncludesRetracted

BadListing ==
  \/ req.limit \notin 1 .. MaxPage
  \/ ~NothingListed /\ (req.status = "pending" \/ ~req.goodCursor)

-----------------------------------------------------------------------------
\* What the request could be shown now: the rows of the list, or the committed
\* versions it asks about.
Asked ==
  CASE req.kind = "list" -> Listable
    [] req.kind \in {"detail", "versions"} -> CommittedOf(req.dataset)
    [] OTHER -> CommittedOf(req.dataset) \cap {req.version}

Begin ==
  /\ pc = "new"
  /\ GoTo(IF req.kind = "list" THEN "list" ELSE "dataset")
  /\ steady' = Asked
  /\ UNCHANGED <<catalogVars, committedAt, scenario, dataset, version, cursor, listed, withdrawn>>

\* list_datasets, one page; the code reads one row more than it returns, to know
\* whether there is a next page.
ListPage ==
  /\ pc = "list"
  /\ OnlyReads /\ UNCHANGED <<dataset, version>>
  /\ IF ~Has("browse") THEN Answer(403, {}) /\ UNCHANGED <<cursor, listed>>
     ELSE IF BadListing THEN Answer(400, {}) /\ UNCHANGED <<cursor, listed>>
     ELSE IF NothingListed THEN Answer(200, {}) /\ UNCHANGED <<cursor, listed>>
     ELSE \E rows \in Ordered(Candidates) :
            LET items == SubSeq(rows, 1, Min({Len(rows), req.limit})) IN
            /\ listed' = listed \o items
            /\ answer' = Says(200, {<<v, versions[v].status>> : v \in ToSet(items)})
            /\ IF Len(rows) <= req.limit THEN pc' = "answered" /\ cursor' = {}
               ELSE pc' = "list" /\ cursor' = {Position(Last(items))}

\* get_dataset, and what each route does with the row before it reads on.
ReadDataset ==
  /\ pc = "dataset"
  /\ OnlyReads /\ UNCHANGED <<version, cursor, listed>>
  /\ LET d == req.dataset
         rows == IF d \in DOMAIN datasets
                 THEN {[owner |-> datasets[d].owner, latest |-> datasets[d].latest]} ELSE {}
         unoffered == \E row \in rows : row.latest = NoVersion
     IN
     /\ dataset' = rows
     /\ IF req.kind \in {"detail", "versions"} /\ rows = {} THEN Answer(404, {})
        ELSE IF req.kind = "versions" THEN GoTo("versions")
        ELSE IF req.kind # "detail" \/ ~unoffered THEN GoTo("version")
        ELSE IF req.include /\ OwnsRetracted(datasets[d].owner) THEN Answer(200, {})
        ELSE Answer(404, {})

\* The id get_version is called with: the latest one of the row that was read, or
\* the one in the path of the request.
Target ==
  IF req.kind = "detail" THEN (CHOOSE row \in dataset : TRUE).latest ELSE req.version

InDataset(v) == v \in DOMAIN versions /\ versions[v].dataset = req.dataset

\* get_version and the checks that follow it
ReadVersion ==
  /\ pc = "version"
  /\ OnlyReads /\ UNCHANGED <<dataset, cursor, listed>>
  /\ LET rows == {[id |-> v, status |-> versions[v].status] :
                     v \in {w \in {Target} : InDataset(w)}}
     IN
     /\ version' = rows
     /\ IF \E row \in rows : RejectedWithoutBrowse(row) THEN Answer(403, {})
        ELSE IF req.kind = "detail" THEN Answer(200, Shown(rows))
        ELSE IF ~ \E d \in dataset, row \in rows : CanRead(d, row) THEN Answer(404, {})
        ELSE GoTo(IF req.kind = "manifest" THEN "open" ELSE "files")

\* list_versions: one SELECT, filtered with the row of the dataset read before.
ListVersions ==
  /\ pc = "versions"
  /\ OnlyReads /\ UNCHANGED <<dataset, version, cursor, listed>>
  /\ LET rows == {v \in DOMAIN versions :
                    /\ InDataset(v)
                    /\ \/ HasStatus(v, "committed") /\ Has("browse")
                       \/ /\ HasStatus(v, "retracted") /\ req.include
                          /\ \E d \in dataset : OwnsRetracted(d.owner)}
     IN
     IF rows # {} THEN Answer(200, {<<v, versions[v].status>> : v \in rows})
     ELSE Answer(IF Has("browse") THEN 404 ELSE 403, {})

\* list_files, for the detail of a version and for the record of a file.
ReadFiles ==
  /\ pc = "files"
  /\ OnlyReads /\ UNCHANGED <<dataset, version, cursor, listed>>
  /\ IF req.kind = "version" THEN Answer(200, Shown(version))
     ELSE IF <<req.version, req.path>> \notin files THEN Answer(404, {})
     ELSE GoTo("open")

Size == IF req.kind = "manifest" THEN ManifestSize ELSE FileSize[req.path]

Selection == ParseSingleRange(req.range, Size)

IsFileIn(paths) == req.kind = "file" /\ req.path \in paths

\* bytes_response and file_response: a matching If-None-Match comes before the
\* range; the headers of a body hold the name, encoded in latin-1.
Open ==
  /\ pc = "open"
  /\ OnlyReads /\ UNCHANGED <<dataset, version, cursor, listed>>
  /\ IF IsFileIn(Lost) THEN Answer(404, {})
     ELSE IF req.etag THEN Answer(304, Shown(version))
     ELSE IF Selection.code \in {416, 500} THEN Answer(Selection.code, {})
     ELSE IF IsFileIn(WideNames) THEN Answer(500, {})
     ELSE /\ pc' = "stream"
          /\ answer' = [Says(Selection.code, Shown(version)) EXCEPT !.sel = Selection]

\* The body of a manifest is one piece, that of a file comes chunk by chunk.
SendManifest ==
  /\ pc = "stream" /\ req.kind = "manifest"
  /\ OnlyReads /\ UNCHANGED <<dataset, version, cursor, listed>>
  /\ pc' = "answered"
  /\ answer' = [answer EXCEPT !.sent = Slice(answer.sel, Size)]

ByCountOnly(chunk) == Len(answer.sent) = Size /\ answer.sel.code = 206   \* mutant

IsEnd(chunk) == chunk = <<>>

SendChunk ==
  /\ pc = "stream" /\ req.kind = "file"
  /\ OnlyReads /\ UNCHANGED <<dataset, version, cursor, listed>>
  /\ LET chunk == NextRead(answer.sel, Len(answer.sent), ChunkSize, Size) IN
     IF IsEnd(chunk) THEN GoTo("answered")
     ELSE pc' = pc /\ answer' = [answer EXCEPT !.sent = @ \o chunk]

Serve ==
  \/ ListPage \/ ReadDataset \/ ReadVersion \/ ListVersions
  \/ ReadFiles \/ Open \/ SendManifest \/ SendChunk

-----------------------------------------------------------------------------
\* What the writers do to the history of the request, beside their transaction.
Observed(retracted) ==
  /\ UNCHANGED readerVars
  /\ steady' = IF pc = "new" THEN {} ELSE steady \cap Asked'
  /\ withdrawn' = IF pc = "new" THEN {} ELSE withdrawn \cup retracted

Arrives(v) == v \in scenario.packages

Recorded(v) == Cardinality({row \in files : row[1] = v})

StartUpload(v) ==
  LET p == Packages[v] IN
  /\ Arrives(v)
  /\ p.dataset \in DOMAIN datasets
  /\ InsertPending(v, p.dataset, p.owner, p.content)
  /\ UNCHANGED committedAt /\ Observed({})

ClaimDataset(v) ==
  /\ Arrives(v)
  /\ Packages[v].dataset \notin DOMAIN datasets
  /\ Claim(Packages[v].dataset, Packages[v].owner)
  /\ UNCHANGED committedAt /\ Observed({})

\* The loop over the artifacts, in their order.
RecordFile(v) ==
  /\ HasStatus(v, "pending")
  /\ Recorded(v) < Len(Packages[v].paths)
  /\ InsertFile(v, Packages[v].paths[Recorded(v) + 1])
  /\ UNCHANGED committedAt /\ Observed({})

\* CURRENT_TIMESTAMP has a resolution of one second and follows the wall clock,
\* which may be set back: any value.
Publish(v) ==
  /\ Recorded(v) = Len(Packages[v].paths)
  /\ CommitVersion(v)
  /\ \E t \in 1 .. MaxTime : committedAt' = [committedAt EXCEPT ![v] = t]
  /\ Observed({})

Abort(v) ==
  /\ HasStatus(v, "pending")
  /\ DeletePendingVersion(v)
  /\ UNCHANGED committedAt /\ Observed({})

Retract(v) ==
  /\ HasStatus(v, "committed")
  /\ \E call \in RetractCalls : RetractVersion(v, call)
  /\ UNCHANGED committedAt /\ Observed({v})

\* Bound: what is written after the answer is not followed.
Write ==
  /\ pc # "answered"
  /\ \E v \in VersionIds :
       \/ ClaimDataset(v) \/ StartUpload(v) \/ RecordFile(v)
       \/ Publish(v) \/ Abort(v) \/ Retract(v)

-----------------------------------------------------------------------------
BrowseInit ==
  /\ CatalogInit
  /\ committedAt = [v \in VersionIds |-> 0]
  /\ scenario \in Scenarios
  /\ pc = "new"
  /\ dataset = {} /\ version = {} /\ cursor = {}
  /\ listed = <<>>
  /\ answer = NoAnswer
  /\ steady = {} /\ withdrawn = {}

BrowseNext == Begin \/ Serve \/ Write

\* A route runs to its end, and the client follows next_cursor; writers need not
\* come.
BrowseSpec == BrowseInit /\ [][BrowseNext]_browseVars /\ WF_browseVars(Serve)

-----------------------------------------------------------------------------
Steps ==
  {"new", "list", "dataset", "version", "versions", "files", "open", "stream", "answered"}

BrowseTypeOK ==
  /\ CatalogTypeOK
  /\ committedAt \in [VersionIds -> 0 .. MaxTime]
  /\ req \in Requests /\ scenario.packages \subseteq VersionIds
  /\ pc \in Steps
  /\ dataset \subseteq [owner : Principals, latest : VersionIds \cup {NoVersion}]
  /\ version \subseteq [id : VersionIds, status : Status]
  /\ listed \in Seq(VersionIds)
  /\ answer.code \in {0, 200, 206, 304, 400, 403, 404, 416, 500}
  /\ answer.shown \subseteq VersionIds \X Status
  /\ answer.sel.first \in Nat
  /\ steady \subseteq VersionIds /\ withdrawn \subseteq VersionIds

\* However commits and retractions fall between the pages, and however many
\* versions share a committed_at, the pages together are in order and no version
\* is on two of them (ORDER BY and cursor predicate of list_datasets agree).
ListedOnceInOrder ==
  \A i, j \in DOMAIN listed :
    i < j => Precedes(Position(listed[i]), Position(listed[j]))

\* A client that reaches the end of the list has got every version that was in
\* it all the time.  Nothing is said of a dataset whose latest version changed
\* meanwhile: it may be on no page, or on two with different versions.
SteadyRowsListed ==
  pc = "answered" /\ req.kind = "list" /\ answer.code = 200 => steady \subseteq ToSet(listed)

\* A committed version is shown to browsers only, and a retracted one only to the
\* owner of its dataset, or when it was retracted after the request began: the
\* dataset detail reads the id of the latest version and then its row, so a
\* retraction in between is shown to anyone.  A pending version is never shown.
WhoSeesWhat ==
  \A shown \in answer.shown :
    LET v == shown[1] IN
    \/ shown[2] = "committed" /\ Has("browse") /\ IsPublished(v)
    \/ /\ shown[2] = "retracted" /\ HasStatus(v, "retracted")
       /\ \/ v \in withdrawn
          \/ Has("upload") /\ datasets[versions[v].dataset].owner = req.who

\* Who may browse is not told "not found" or "forbidden" while a version that
\* would answer the request is committed all the time, whatever else is committed
\* or retracted between the two reads of the route.
SteadyIsServed ==
  pc = "answered" /\ Has("browse") /\ steady # {} /\ answer.code \in {403, 404} =>
    req.kind = "file"
      /\ (req.path \in Lost \/ <<req.version, req.path>> \notin files)

\* A download sends, in order, exactly the bytes that were asked for, as many as
\* Content-Length announces, and says 416 to a well formed range only when no byte
\* of the file is in it; empty files and every boundary included.
BytesAsAsked ==
  pc = "answered" /\ answer.code \in {200, 206, 416} /\ req.kind \in Downloads =>
    LET h == req.range
        wanted == IF h.kind = "none" THEN 0 .. Size - 1 ELSE Wanted(h, Size)
    IN
    /\ answer.code # 416 =>
         /\ InOrder(answer.sent, wanted)
         /\ Len(answer.sent) = answer.sel.last - answer.sel.first + 1
    /\ h.kind = "none" <=> answer.code = 200
    /\ WellFormed(h) => (answer.code = 416 <=> wanted = {})

\* Every request is answered and every scan of the list comes to its end, also
\* when versions are committed and retracted all the while.
EveryRequestEnds == pc \in {"list", "dataset"} ~> pc = "answered"

===============================================================================
