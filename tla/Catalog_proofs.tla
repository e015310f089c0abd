--------------------------- MODULE Catalog_proofs ---------------------------
(* Theorems of Catalog, for every set of principals, datasets, version ids, *)
(* contents, paths and keys, every quota and every order of calls.           *)
EXTENDS Catalog, FiniteSetTheorems, TLAPS

-----------------------------------------------------------------------------
(* Tables *)

\* An INSERT of a well-typed row keeps a table well-typed.
LEMMA PutTable ==
  ASSUME NEW ids, NEW rows, NEW table, IsTable(table, ids, rows),
         NEW id \in ids, NEW row \in rows
  PROVE  IsTable(Put(table, id, row), ids, rows)
BY DEF IsTable, Put

\* A DELETE leaves only rows that were there.
LEMMA DropTable ==
  ASSUME NEW ids, NEW rows, NEW table, IsTable(table, ids, rows), NEW id
  PROVE  IsTable(Drop(table, id), ids, rows)
BY DEF IsTable, Drop, Restrict

\* An UPDATE that writes a well-typed row.
LEMMA UpdateTable ==
  ASSUME NEW ids, NEW rows, NEW table, IsTable(table, ids, rows),
         NEW id \in DOMAIN table, NEW row \in rows
  PROVE  IsTable([table EXCEPT ![id] = row], ids, rows)
BY DEF IsTable

\* A table that init_schema has just created.
LEMMA EmptyIsTable ==
  ASSUME NEW ids, NEW rows
  PROVE  IsTable(EmptyTable, ids, rows)
BY DEF IsTable, EmptyTable

-----------------------------------------------------------------------------
(* Type correctness *)

\* The new database is well-typed.
LEMMA InitType == CatalogInit => CatalogTypeOK
BY EmptyIsTable DEF CatalogInit, CatalogTypeOK, UsageRow

\* claim_dataset and allocate_version_number write well-typed rows.
LEMMA DatasetOpType == CatalogTypeOK /\ DatasetOp => CatalogTypeOK'
<1> SUFFICES ASSUME CatalogTypeOK, NEW d \in Datasets, NEW p \in Principals,
                    Claim(d, p) \/ AllocateVersionNumber(d)
             PROVE  CatalogTypeOK'
  BY DEF DatasetOp
<1>1. CASE Claim(d, p)
  <2>1. [owner |-> p, counter |-> 0, latest |-> NoVersion] \in DatasetRow
    BY DEF DatasetRow
  <2>2. IsTable(datasets', Datasets, DatasetRow)
    BY <1>1, <2>1, PutTable DEF Claim, CatalogTypeOK
  <2> QED BY <1>1, <2>2 DEF Claim, CatalogTypeOK
<1>2. CASE AllocateVersionNumber(d)
  <2>1. d \in DOMAIN datasets /\ datasets[d] \in DatasetRow
    BY <1>2 DEF AllocateVersionNumber, CatalogTypeOK, IsTable
  <2>2. [datasets[d] EXCEPT !.counter = @ + 1] \in DatasetRow
    BY <2>1 DEF DatasetRow
  <2>3. datasets' = [datasets EXCEPT ![d] = [datasets[d] EXCEPT !.counter = @ + 1]]
    BY <1>2 DEF AllocateVersionNumber
  <2>4. IsTable(datasets', Datasets, DatasetRow)
    BY <2>1, <2>2, <2>3, UpdateTable DEF CatalogTypeOK
  <2> QED BY <1>2, <2>4 DEF AllocateVersionNumber, CatalogTypeOK
<1> QED BY <1>1, <1>2

\* The row insert_pending_version adds is well-typed.
LEMMA NewVersionType ==
  ASSUME CatalogTypeOK, NEW v \in VersionIds, NEW d \in Datasets, NEW p \in Principals,
         NEW c \in Contents, NEW n \in Nat
  PROVE  IsTable(NewVersion(v, d, p, c, n), VersionIds, VersionRow)
<1>1. [dataset |-> d, number |-> n, uploader |-> p, status |-> "pending",
       content |-> c, retraction |-> NoCall] \in VersionRow
  BY DEF VersionRow, Status
<1> QED BY <1>1, PutTable DEF NewVersion, CatalogTypeOK

\* A new value of version_counter keeps the table of datasets well-typed.
LEMMA CounterType ==
  ASSUME CatalogTypeOK, NEW d \in DOMAIN datasets, NEW n \in Nat
  PROVE  IsTable([datasets EXCEPT ![d].counter = n], Datasets, DatasetRow)
<1>1. [datasets[d] EXCEPT !.counter = n] \in DatasetRow
  BY DEF CatalogTypeOK, IsTable, DatasetRow
<1> QED BY <1>1, UpdateTable DEF CatalogTypeOK

\* So does a new latest_committed_version_id.
LEMMA LatestType ==
  ASSUME CatalogTypeOK, NEW d, NEW v \in VersionIds \cup {NoVersion}
  PROVE  IsTable([datasets EXCEPT ![d].latest = v], Datasets, DatasetRow)
<1>1. CASE d \in DOMAIN datasets
  <2>1. [datasets[d] EXCEPT !.latest = v] \in DatasetRow
    BY <1>1 DEF CatalogTypeOK, IsTable, DatasetRow
  <2> QED BY <1>1, <2>1, UpdateTable DEF CatalogTypeOK
<1>2. CASE d \notin DOMAIN datasets
  <2>1. [datasets EXCEPT ![d].latest = v] = datasets
    BY <1>2 DEF CatalogTypeOK, IsTable
  <2> QED BY <2>1 DEF CatalogTypeOK
<1> QED BY <1>1, <1>2

\* Both forms of insert_pending_version write well-typed rows.
LEMMA PendingOpType == CatalogTypeOK /\ PendingOp => CatalogTypeOK'
<1> SUFFICES ASSUME CatalogTypeOK, NEW v \in VersionIds, NEW d \in Datasets,
                    NEW p \in Principals, NEW c \in Contents,
                    InsertPending(v, d, p, c)
                      \/ \E n \in 1..MaxNumber : InsertNumbered(v, d, p, c, n)
             PROVE  CatalogTypeOK'
  BY DEF PendingOp
<1>1. CASE InsertPending(v, d, p, c)
  <2>1. d \in DOMAIN datasets /\ datasets[d].counter + 1 \in Nat
    BY <1>1 DEF InsertPending, CanInsert, CatalogTypeOK, IsTable, DatasetRow
  <2>2. IsTable(datasets', Datasets, DatasetRow)
    BY <1>1, <2>1, CounterType DEF InsertPending
  <2>3. IsTable(versions', VersionIds, VersionRow)
    BY <1>1, <2>1, NewVersionType DEF InsertPending
  <2> QED BY <1>1, <2>2, <2>3 DEF InsertPending, CatalogTypeOK
<1>2. CASE \E n \in 1..MaxNumber : InsertNumbered(v, d, p, c, n)
  <2>1. PICK n \in 1..MaxNumber : InsertNumbered(v, d, p, c, n)
    BY <1>2
  <2>2. d \in DOMAIN datasets /\ n \in Nat /\ RaisedCounter(datasets[d].counter, n) \in Nat
    BY <2>1 DEF InsertNumbered, CanInsert, CatalogTypeOK, IsTable, DatasetRow, RaisedCounter
  <2>3. IsTable(datasets', Datasets, DatasetRow)
    BY <2>1, <2>2, CounterType DEF InsertNumbered
  <2>4. IsTable(versions', VersionIds, VersionRow)
    BY <2>1, <2>2, NewVersionType DEF InsertNumbered
  <2> QED BY <2>1, <2>3, <2>4 DEF InsertNumbered, CatalogTypeOK
<1> QED BY <1>1, <1>2

\* The row commit_version leaves is well-typed.
LEMMA CommittedType ==
  ASSUME CatalogTypeOK, NEW v \in DOMAIN versions
  PROVE  IsTable([versions EXCEPT ![v].status = "committed"], VersionIds, VersionRow)
<1>1. [versions[v] EXCEPT !.status = "committed"] \in VersionRow
  BY DEF CatalogTypeOK, IsTable, VersionRow, Status
<1> QED BY <1>1, UpdateTable DEF CatalogTypeOK

\* The row retract_version leaves is well-typed.
LEMMA RetractedType ==
  ASSUME CatalogTypeOK, NEW v \in DOMAIN versions, NEW call \in RetractCalls
  PROVE  IsTable([versions EXCEPT ![v].status = "retracted", ![v].retraction = call],
                 VersionIds, VersionRow)
<1>1. [versions[v] EXCEPT !.status = "retracted", !.retraction = call] \in VersionRow
  BY DEF CatalogTypeOK, IsTable, VersionRow, Status
<1>2. [versions EXCEPT ![v].status = "retracted", ![v].retraction = call]
        = [versions EXCEPT ![v] =
             [versions[v] EXCEPT !.status = "retracted", !.retraction = call]]
  BY DEF CatalogTypeOK, IsTable, VersionRow
<1> QED BY <1>1, <1>2, UpdateTable DEF CatalogTypeOK

\* What retract_version elects is a version id or NULL.
LEMMA NewestType ==
  ASSUME CatalogTypeOK, NEW d, NEW v, NEW newest \in Newest(CommittedOf(d) \ {v})
  PROVE  newest \in VersionIds \cup {NoVersion}
BY DEF CatalogTypeOK, IsTable, Newest, CommittedOf

\* The operations on one version write well-typed rows.
LEMMA VersionOpType == CatalogTypeOK /\ VersionOp => CatalogTypeOK'
<1> SUFFICES ASSUME CatalogTypeOK, NEW v \in VersionIds,
                    \/ \E f \in Paths : InsertFile(v, f)
                    \/ CommitVersion(v)
                    \/ DeletePendingVersion(v)
                    \/ IsPublished(v) /\ \E call \in RetractCalls : RetractVersion(v, call)
                    \/ \E a \in EventActions : RecordEvent(a, v)
             PROVE  CatalogTypeOK'
  BY DEF VersionOp
<1>1. CASE \E f \in Paths : InsertFile(v, f)
  BY <1>1 DEF InsertFile, CatalogTypeOK
<1>2. CASE CommitVersion(v)
  <2> DEFINE p == versions[v].uploader
             c == versions[v].content
  <2>1. v \in DOMAIN versions /\ p \in Principals /\ c \in Contents
    BY <1>2 DEF CommitVersion, CanCommit, HasStatus, CatalogTypeOK, IsTable, VersionRow
  <2>2. usage[p] \in UsageRow /\ TotalBytes[c] \in Nat
    BY <2>1, CatalogConstants DEF CatalogTypeOK
  <2>3. Charged(usage[p], c) \in UsageRow
    BY <2>2 DEF Charged, UsageRow
  <2>4. usage' = [usage EXCEPT ![p] = Charged(usage[p], c)]
    BY <1>2 DEF CommitVersion
  <2>5. usage' \in [Principals -> UsageRow]
    BY <2>1, <2>3, <2>4 DEF CatalogTypeOK
  <2>6. IsTable(versions', VersionIds, VersionRow)
    BY <1>2, <2>1, CommittedType DEF CommitVersion
  <2>7. IsTable(datasets', Datasets, DatasetRow)
    BY <1>2, LatestType DEF CommitVersion
  <2> QED BY <1>2, <2>5, <2>6, <2>7 DEF CommitVersion, CatalogTypeOK
<1>3. CASE DeletePendingVersion(v)
  <2>1. IsTable(versions', VersionIds, VersionRow)
    BY <1>3, DropTable DEF DeletePendingVersion, CatalogTypeOK
  <2> QED BY <1>3, <2>1 DEF DeletePendingVersion, CatalogTypeOK
<1>4. CASE IsPublished(v) /\ \E call \in RetractCalls : RetractVersion(v, call)
  <2>1. PICK call \in RetractCalls : RetractVersion(v, call)
    BY <1>4
  <2>2. IsTable(versions', VersionIds, VersionRow)
    BY <1>4, <2>1, RetractedType DEF IsPublished, HasStatus, RetractVersion
  <2>3. PICK newest \in LatestAfterRetract(v) :
          datasets' = [datasets EXCEPT ![versions[v].dataset].latest = newest]
    BY <2>1 DEF RetractVersion
  <2>4. newest \in VersionIds \cup {NoVersion}
    BY <2>3, NewestType DEF LatestAfterRetract
  <2>5. IsTable(datasets', Datasets, DatasetRow)
    BY <2>3, <2>4, LatestType
  <2> QED BY <2>1, <2>2, <2>5 DEF RetractVersion, CatalogTypeOK
<1>5. CASE \E a \in EventActions : RecordEvent(a, v)
  BY <1>5 DEF RecordEvent, CatalogTypeOK
<1> QED BY <1>1, <1>2, <1>3, <1>4, <1>5

\* A completed reservation is well-typed.
LEMMA CompletedType ==
  ASSUME NEW row \in KeyRow, NEW v \in VersionIds
  PROVE  Completed(row, v) \in KeyRow
BY DEF Completed, KeyRow

\* The operations on reservations write well-typed rows.
LEMMA KeyOpType == CatalogTypeOK /\ KeyOp => CatalogTypeOK'
<1> SUFFICES ASSUME CatalogTypeOK, KeyOp PROVE CatalogTypeOK'
  OBVIOUS
<1>0. UNCHANGED <<datasets, versions, files, usage, events>>
  BY DEF KeyOp, ReserveKey, CompleteKey, ReleaseKey, ReconcileOp, Reconcile, Written
<1>1. IsTable(idem', KeyIds, KeyRow)
  <2>1. CASE \E id \in KeyIds, c \in Contents, v \in VersionIds :
               ReserveKey(id, c, v) \/ CompleteKey(id, c, v) \/ ReleaseKey(id, c)
    <3>1. PICK id \in KeyIds, c \in Contents, v \in VersionIds :
            ReserveKey(id, c, v) \/ CompleteKey(id, c, v) \/ ReleaseKey(id, c)
      BY <2>1
    <3>2. CASE ReserveKey(id, c, v)
      <4>1. [content |-> c, status |-> "pending", result |-> NoVersion, by |-> v] \in KeyRow
        BY DEF KeyRow
      <4> QED BY <3>2, <4>1, PutTable DEF ReserveKey, CatalogTypeOK
    <3>3. CASE CompleteKey(id, c, v)
      <4>1. CASE IsReserved(id, c)
        <5>1. id \in DOMAIN idem /\ idem[id] \in KeyRow
          BY <4>1 DEF IsReserved, CatalogTypeOK, IsTable
        <5> QED BY <3>3, <4>1, <5>1, CompletedType, UpdateTable DEF CompleteKey, CatalogTypeOK
      <4> QED BY <3>3, <4>1 DEF CompleteKey, CatalogTypeOK
    <3>4. CASE ReleaseKey(id, c)
      BY <3>4, DropTable DEF ReleaseKey, CatalogTypeOK
    <3> QED BY <3>1, <3>2, <3>3, <3>4
  <2>2. CASE ReconcileOp
    <3>1. PICK read \in SUBSET {<<id, idem[id].content>> : id \in PendingKeys} :
            \E found \in [read -> VersionIds \cup {NoVersion}] : Reconcile(found)
      BY <2>2 DEF ReconcileOp
    <3>2. PICK found \in [read -> VersionIds \cup {NoVersion}] : Reconcile(found)
      BY <3>1
    <3> DEFINE still == {id \in PendingKeys : <<id, idem[id].content>> \in DOMAIN found}
               gone  == {id \in still : found[<<id, idem[id].content>>] = NoVersion}
               Row(id) == IF id \in still THEN Completed(idem[id], found[<<id, idem[id].content>>])
                          ELSE idem[id]
    <3>3. idem' = [id \in DOMAIN idem \ gone |-> Row(id)]
      BY <3>2 DEF Reconcile, Written
    <3>4. ASSUME NEW id \in DOMAIN idem \ gone PROVE id \in KeyIds /\ Row(id) \in KeyRow
      <4>1. id \in KeyIds /\ idem[id] \in KeyRow
        BY DEF CatalogTypeOK, IsTable
      <4>2. id \in still => found[<<id, idem[id].content>>] \in VersionIds
        BY <3>2
      <4> HIDE DEF still
      <4> QED BY <4>1, <4>2, CompletedType
    <3> HIDE DEF Row, gone
    <3> QED BY <3>3, <3>4 DEF IsTable
  <2> QED BY <2>1, <2>2 DEF KeyOp
<1> QED BY <1>0, <1>1 DEF CatalogTypeOK

\* CatalogTypeOK holds after every operation in every order: every row a method
\* writes satisfies the column constraints of init_schema (catalog.py:55-180).
THEOREM TypeCorrect == CatalogSpec => []CatalogTypeOK
<1>1. CatalogTypeOK /\ [CatalogNext]_catalogVars => CatalogTypeOK'
  <2> SUFFICES ASSUME CatalogTypeOK, [CatalogNext]_catalogVars PROVE CatalogTypeOK'
    OBVIOUS
  <2>1. CASE CatalogNext
    BY <2>1, DatasetOpType, PendingOpType, VersionOpType, KeyOpType DEF CatalogNext
  <2>2. CASE UNCHANGED catalogVars
    BY <2>2 DEF catalogVars, CatalogTypeOK, IsTable
  <2> QED BY <2>1, <2>2
<1> QED BY <1>1, InitType, PTL DEF CatalogSpec

-----------------------------------------------------------------------------
(* What a step does to the rows of versions and of datasets *)

Frame(x) ==
  /\ versions'[x].dataset = versions[x].dataset
  /\ versions'[x].number = versions[x].number
  /\ versions'[x].uploader = versions[x].uploader
  /\ versions'[x].content = versions[x].content

Advance(x) ==
  \/ versions'[x].status = versions[x].status
  \/ versions[x].status = "pending" /\ versions'[x].status = "committed"
  \/ IsPublished(x) /\ versions'[x].status = "retracted"

\* A row only goes while it is pending, and its status only moves forward.
LEMMA OldRows ==
  ASSUME CatalogTypeOK, CatalogNext, NEW x \in DOMAIN versions
  PROVE  \/ x \in DOMAIN versions' /\ Frame(x) /\ Advance(x)
         \/ x \notin DOMAIN versions' /\ versions[x].status = "pending"
<1>1. CASE versions' = versions
  BY <1>1 DEF Frame, Advance
<1>2. CASE PendingOp
  <2>1. PICK v, d, p, c, n :
          v \notin DOMAIN versions /\ versions' = NewVersion(v, d, p, c, n)
    BY <1>2 DEF PendingOp, InsertPending, InsertNumbered, CanInsert
  <2>2. x # v /\ x \in DOMAIN versions' /\ versions'[x] = versions[x]
    BY <2>1 DEF NewVersion, Put
  <2> QED BY <2>2 DEF Frame, Advance
<1>3. ASSUME NEW v \in VersionIds, CommitVersion(v)
      PROVE  x \in DOMAIN versions' /\ Frame(x) /\ Advance(x)
  <2>1. versions' = [versions EXCEPT ![v].status = "committed"]
        /\ versions[v].status = "pending" /\ v \in DOMAIN versions
    BY <1>3 DEF CommitVersion, CanCommit, HasStatus
  <2>2. versions[x] \in VersionRow /\ versions[v] \in VersionRow
    BY <2>1 DEF CatalogTypeOK, IsTable
  <2> QED BY <2>1, <2>2 DEF Frame, Advance, VersionRow, CatalogTypeOK, IsTable
<1>4. ASSUME NEW v \in VersionIds, DeletePendingVersion(v)
      PROVE  \/ x \in DOMAIN versions' /\ Frame(x) /\ Advance(x)
             \/ x \notin DOMAIN versions' /\ versions[x].status = "pending"
  <2>1. CASE Removable(v)
    <3>1. versions' = Drop(versions, v) /\ versions[v].status = "pending"
      BY <1>4, <2>1 DEF DeletePendingVersion, Removable, HasStatus
    <3>2. CASE x = v
      BY <3>1, <3>2 DEF Drop, Restrict
    <3>3. CASE x # v
      <4>1. x \in DOMAIN versions' /\ versions'[x] = versions[x]
        BY <3>1, <3>3 DEF Drop, Restrict
      <4> QED BY <4>1 DEF Frame, Advance
    <3> QED BY <3>2, <3>3
  <2> QED BY <1>4, <2>1 DEF DeletePendingVersion, Frame, Advance
<1>5. ASSUME NEW v \in VersionIds, IsPublished(v), NEW call, RetractVersion(v, call)
      PROVE  x \in DOMAIN versions' /\ Frame(x) /\ Advance(x)
  <2>1. versions' = [versions EXCEPT ![v].status = "retracted", ![v].retraction = call]
    BY <1>5 DEF RetractVersion
  <2>2. versions[x] \in VersionRow
    BY DEF CatalogTypeOK, IsTable
  <2> QED BY <1>5, <2>1, <2>2 DEF Frame, Advance, VersionRow, CatalogTypeOK, IsTable
<1>6. CASE DatasetOp \/ KeyOp
  BY <1>1, <1>6 DEF DatasetOp, Claim, AllocateVersionNumber, KeyOp, ReserveKey, CompleteKey,
                    ReleaseKey, ReconcileOp, Reconcile, Written
<1>7. CASE VersionOp
  BY <1>1, <1>3, <1>4, <1>5, <1>7 DEF VersionOp, InsertFile, RecordEvent
<1> QED BY <1>2, <1>6, <1>7 DEF CatalogNext

\* A dataset keeps its owner and its counter does not go back; one that is new
\* offers nothing.
LEMMA OldDatasets ==
  ASSUME CatalogTypeOK, CatalogNext
  PROVE  /\ \A d \in DOMAIN datasets :
              /\ d \in DOMAIN datasets'
              /\ datasets'[d].owner = datasets[d].owner
              /\ datasets'[d].counter >= datasets[d].counter
         /\ \A d \in DOMAIN datasets' \ DOMAIN datasets : datasets'[d].latest = NoVersion
<1> USE DEF CatalogTypeOK, IsTable, DatasetRow
<1>1. CASE datasets' = datasets
  BY <1>1
<1>2. ASSUME NEW d, NEW p, Claim(d, p)
      PROVE  /\ \A x \in DOMAIN datasets : x \in DOMAIN datasets' /\ datasets'[x] = datasets[x]
             /\ \A x \in DOMAIN datasets' \ DOMAIN datasets : datasets'[x].latest = NoVersion
  BY <1>2 DEF Claim, Put
<1>3. CASE DatasetOp
  <2>1. ASSUME NEW d, AllocateVersionNumber(d)
        PROVE  /\ DOMAIN datasets' = DOMAIN datasets
               /\ \A x \in DOMAIN datasets :
                    /\ datasets'[x].owner = datasets[x].owner
                    /\ datasets'[x].counter >= datasets[x].counter
    BY <2>1 DEF AllocateVersionNumber
  <2>2. CASE \E d \in Datasets, p \in Principals : Claim(d, p)
    BY <1>2, <2>2
  <2>3. CASE \E d \in Datasets : AllocateVersionNumber(d)
    BY <2>1, <2>3
  <2> QED BY <1>3, <2>2, <2>3 DEF DatasetOp
<1>4. CASE PendingOp
  <2>1. PICK v \in VersionIds, d \in Datasets, p \in Principals, c \in Contents :
          \/ InsertPending(v, d, p, c)
          \/ \E n \in 1..MaxNumber : InsertNumbered(v, d, p, c, n)
    BY <1>4 DEF PendingOp
  <2>2. ASSUME NEW n, n >= datasets[d].counter, d \in DOMAIN datasets,
               datasets' = [datasets EXCEPT ![d].counter = n]
        PROVE  /\ DOMAIN datasets' = DOMAIN datasets
               /\ \A x \in DOMAIN datasets :
                    /\ datasets'[x].owner = datasets[x].owner
                    /\ datasets'[x].counter >= datasets[x].counter
    BY <2>2
  <2>3. CASE InsertPending(v, d, p, c)
    BY <2>2, <2>3 DEF InsertPending, CanInsert
  <2>4. ASSUME NEW n \in 1..MaxNumber, InsertNumbered(v, d, p, c, n)
        PROVE  /\ DOMAIN datasets' = DOMAIN datasets
               /\ \A x \in DOMAIN datasets :
                    /\ datasets'[x].owner = datasets[x].owner
                    /\ datasets'[x].counter >= datasets[x].counter
    BY <2>2, <2>4 DEF InsertNumbered, CanInsert, RaisedCounter
  <2> QED BY <2>1, <2>3, <2>4
<1>5. ASSUME NEW d, NEW v, datasets' = [datasets EXCEPT ![d].latest = v]
      PROVE  /\ DOMAIN datasets' = DOMAIN datasets
             /\ \A x \in DOMAIN datasets :
                  /\ datasets'[x].owner = datasets[x].owner
                  /\ datasets'[x].counter >= datasets[x].counter
  BY <1>5
<1>6. CASE VersionOp
  <2>1. \/ datasets' = datasets
        \/ \E d, v : datasets' = [datasets EXCEPT ![d].latest = v]
    BY <1>6 DEF VersionOp, InsertFile, CommitVersion, DeletePendingVersion, RetractVersion,
                RecordEvent
  <2> QED BY <1>1, <1>5, <2>1
<1>7. CASE KeyOp
  BY <1>1, <1>7 DEF KeyOp, ReserveKey, CompleteKey, ReleaseKey, ReconcileOp, Reconcile, Written
<1> QED BY <1>3, <1>4, <1>6, <1>7 DEF CatalogNext

\* No operation, whatever its arguments, deletes or alters a published version:
\* the guards of delete_pending_version and commit_version (catalog.py:385-500).
THEOREM PublishedStays == CatalogSpec => PublishedIsForever
<1>1. CatalogTypeOK /\ CatalogTypeOK' /\ [CatalogNext]_catalogVars =>
        [\A v \in VersionIds :
           IsPublished(v) =>
             /\ IsPublished(v)' /\ Identity(v)' = Identity(v)
             /\ HasStatus(v, "retracted") => HasStatus(v, "retracted")']_catalogVars
  <2> SUFFICES ASSUME CatalogTypeOK, CatalogNext, NEW v \in VersionIds, IsPublished(v)
               PROVE  /\ IsPublished(v)' /\ Identity(v)' = Identity(v)
                      /\ HasStatus(v, "retracted") => HasStatus(v, "retracted")'
    OBVIOUS
  <2>1. v \in DOMAIN versions /\ versions[v].status # "pending"
    BY DEF IsPublished, HasStatus
  <2>2. v \in DOMAIN versions' /\ Frame(v) /\ Advance(v)
    BY <2>1, OldRows
  <2> QED BY <2>1, <2>2 DEF Frame, Advance, IsPublished, HasStatus, Identity
<1> QED BY <1>1, TypeCorrect, PTL DEF CatalogSpec, PublishedIsForever

\* claim_dataset never takes a dataset from its owner, and neither an aborted
\* upload nor an explicit number turns version_counter back (catalog.py:287-367).
THEOREM DatasetsStay == CatalogSpec => DatasetsKept
<1>1. CatalogTypeOK /\ [CatalogNext]_catalogVars =>
        [\A d \in DOMAIN datasets :
           /\ d \in DOMAIN datasets'
           /\ datasets'[d].owner = datasets[d].owner
           /\ datasets'[d].counter >= datasets[d].counter]_catalogVars
  BY OldDatasets
<1> QED BY <1>1, TypeCorrect, PTL DEF CatalogSpec, DatasetsKept

\* Every write to idempotency_keys after the INSERT tests status = 'pending' in its
\* WHERE clause (catalog.py:658-783), so that a reservation once completed stays,
\* whatever was read before the write.
THEOREM CompletedStay == CatalogSpec => CompletedKeysKept
<1>1. CatalogTypeOK /\ [CatalogNext]_catalogVars =>
        [\A id \in DOMAIN idem :
           idem[id].status = "committed" =>
             id \in DOMAIN idem' /\ idem'[id] = idem[id]]_catalogVars
  <2> SUFFICES ASSUME CatalogTypeOK, CatalogNext, NEW k \in DOMAIN idem,
                      idem[k].status = "committed"
               PROVE  k \in DOMAIN idem' /\ idem'[k] = idem[k]
    OBVIOUS
  <2>1. CASE DatasetOp \/ PendingOp \/ VersionOp
    BY <2>1 DEF DatasetOp, Claim, AllocateVersionNumber, PendingOp, InsertPending,
                InsertNumbered, VersionOp, InsertFile, CommitVersion, DeletePendingVersion,
                RetractVersion, RecordEvent
  <2>2. ASSUME NEW id, NEW c, NEW v,
               ReserveKey(id, c, v) \/ CompleteKey(id, c, v) \/ ReleaseKey(id, c)
        PROVE  k \in DOMAIN idem' /\ idem'[k] = idem[k]
    <3>1. IsReserved(id, c) => id # k
      BY DEF IsReserved
    <3>2. CASE ReserveKey(id, c, v)
      BY <3>2 DEF ReserveKey, Put
    <3>3. CASE CompleteKey(id, c, v)
      BY <3>1, <3>3 DEF CompleteKey, CatalogTypeOK, IsTable
    <3>4. CASE ReleaseKey(id, c)
      BY <3>1, <3>4 DEF ReleaseKey, Drop, Restrict
    <3> QED BY <2>2, <3>2, <3>3, <3>4
  <2>3. ASSUME NEW found, Reconcile(found)
        PROVE  k \in DOMAIN idem' /\ idem'[k] = idem[k]
    BY <2>3 DEF Reconcile, Written, PendingKeys
  <2> QED BY <2>1, <2>2, <2>3 DEF CatalogNext, KeyOp, ReconcileOp
<1> QED BY <1>1, TypeCorrect, PTL DEF CatalogSpec, CompletedKeysKept

-----------------------------------------------------------------------------
(* Version numbers *)

\* Only PendingOp adds a row, one at a time, with a number nobody has.
NewRow(v) ==
  /\ v \notin DOMAIN versions
  /\ DOMAIN versions' = DOMAIN versions \cup {v}
  /\ \A x \in DOMAIN versions : versions'[x] = versions[x]
  /\ versions'[v].status = "pending"
  /\ versions'[v].dataset \in DOMAIN datasets'
  /\ versions'[v].number <= datasets'[versions'[v].dataset].counter
  /\ \A x \in DOMAIN versions :
       versions[x].dataset = versions'[v].dataset => versions[x].number # versions'[v].number

\* Both forms of insert_pending_version add such a row.
LEMMA PendingOpRow ==
  ASSUME CatalogTypeOK, NumbersUnique, PendingOp
  PROVE  \E v : NewRow(v)
<1> USE DEF CatalogTypeOK, IsTable, DatasetRow, VersionRow
<1>1. PICK v \in VersionIds, d \in Datasets, p \in Principals, c \in Contents :
        \/ InsertPending(v, d, p, c)
        \/ \E n \in 1..MaxNumber : InsertNumbered(v, d, p, c, n)
  BY DEF PendingOp
<1>2. CASE InsertPending(v, d, p, c)
  <2> DEFINE n == datasets[d].counter + 1
  <2>1. v \notin DOMAIN versions /\ d \in DOMAIN datasets
    BY <1>2 DEF InsertPending, CanInsert
  <2>2. /\ DOMAIN versions' = DOMAIN versions \cup {v}
        /\ \A x \in DOMAIN versions : versions'[x] = versions[x]
        /\ versions'[v].status = "pending"
        /\ versions'[v].dataset = d
        /\ versions'[v].number = n
    BY <1>2, <2>1 DEF InsertPending, NewVersion, Put
  <2>3. d \in DOMAIN datasets' /\ datasets'[d].counter = n
    BY <1>2, <2>1 DEF InsertPending
  <2>4. \A x \in DOMAIN versions : versions[x].dataset = d => versions[x].number # n
    BY <2>1 DEF NumbersUnique
  <2> QED BY <2>1, <2>2, <2>3, <2>4 DEF NewRow
<1>3. ASSUME NEW n \in 1..MaxNumber, InsertNumbered(v, d, p, c, n)
      PROVE  NewRow(v)
  <2>1. v \notin DOMAIN versions /\ d \in DOMAIN datasets
    BY <1>3 DEF InsertNumbered, CanInsert
  <2>2. /\ DOMAIN versions' = DOMAIN versions \cup {v}
        /\ \A x \in DOMAIN versions : versions'[x] = versions[x]
        /\ versions'[v].status = "pending"
        /\ versions'[v].dataset = d
        /\ versions'[v].number = n
    BY <1>3, <2>1 DEF InsertNumbered, NewVersion, Put
  <2>3. d \in DOMAIN datasets' /\ n <= datasets'[d].counter
    BY <1>3, <2>1, CatalogConstants DEF InsertNumbered, RaisedCounter
  <2>4. \A x \in DOMAIN versions : versions[x].dataset = d => versions[x].number # n
    BY <1>3 DEF InsertNumbered, NumberTaken
  <2> QED BY <2>1, <2>2, <2>3, <2>4 DEF NewRow
<1> QED BY <1>1, <1>2, <1>3

\* No other operation adds one.
LEMMA OtherOpsAddNoRow ==
  ASSUME DatasetOp \/ VersionOp \/ KeyOp, CatalogTypeOK
  PROVE  DOMAIN versions' \subseteq DOMAIN versions
<1>1. CASE DatasetOp \/ KeyOp
  BY <1>1 DEF DatasetOp, Claim, AllocateVersionNumber, KeyOp, ReserveKey, CompleteKey,
              ReleaseKey, ReconcileOp, Reconcile, Written
<1>2. CASE VersionOp
  BY <1>2 DEF VersionOp, InsertFile, CommitVersion, DeletePendingVersion, RetractVersion,
              RecordEvent, Drop, Restrict, CatalogTypeOK, IsTable
<1> QED BY <1>1, <1>2

\* NumbersUnique is inductive, given the types.
LEMMA NumbersStep ==
  CatalogTypeOK /\ CatalogTypeOK' /\ NumbersUnique /\ [CatalogNext]_catalogVars => NumbersUnique'
<1> SUFFICES ASSUME CatalogTypeOK, CatalogTypeOK', NumbersUnique, [CatalogNext]_catalogVars
             PROVE  NumbersUnique'
  OBVIOUS
<1>1. CASE UNCHANGED catalogVars
  BY <1>1 DEF catalogVars, NumbersUnique
<1>2. CASE CatalogNext
  <2>1. ASSUME NEW x \in DOMAIN versions, x \in DOMAIN versions'
        PROVE  /\ versions'[x].dataset = versions[x].dataset
               /\ versions'[x].number = versions[x].number
               /\ versions'[x].dataset \in DOMAIN datasets'
               /\ versions'[x].number <= datasets'[versions'[x].dataset].counter
    <3>1. Frame(x)
      BY <1>2, <2>1, OldRows
    <3>2. versions[x].dataset \in DOMAIN datasets
          /\ versions[x].number <= datasets[versions[x].dataset].counter
      BY DEF NumbersUnique
    <3>3. versions[x].dataset \in DOMAIN datasets'
          /\ datasets'[versions[x].dataset].counter >= datasets[versions[x].dataset].counter
      BY <1>2, <3>2, OldDatasets
    <3> QED
      BY <3>1, <3>2, <3>3 DEF Frame, CatalogTypeOK, IsTable, DatasetRow, VersionRow
  <2>2. CASE DatasetOp \/ VersionOp \/ KeyOp
    BY <2>1, <2>2, OtherOpsAddNoRow DEF NumbersUnique
  <2>3. CASE PendingOp
    <3>1. PICK v : NewRow(v)
      BY <2>3, PendingOpRow
    <3> QED BY <2>1, <3>1 DEF NewRow, NumbersUnique
  <2> QED BY <1>2, <2>2, <2>3 DEF CatalogNext
<1> QED BY <1>1, <1>2

\* The counter of a dataset is never behind a number in use, so that UNIQUE
\* (dataset_key, version_number) never rejects an upload (catalog.py:97, 337-367).
THEOREM NumbersStayUnique == CatalogSpec => []NumbersUnique
<1>1. CatalogInit => NumbersUnique
  BY DEF CatalogInit, NumbersUnique, EmptyTable
<1> QED BY <1>1, NumbersStep, TypeCorrect, PTL DEF CatalogSpec

-----------------------------------------------------------------------------
(* The latest version *)

\* A step that commits and retracts nothing leaves the committed versions and
\* the offers as they are.
LEMMA QuietStep ==
  ASSUME CatalogTypeOK, CatalogTypeOK', CatalogNext, NumbersUnique, LatestIsCommitted,
         \A d \in Datasets : CommittedOf(d)' = CommittedOf(d),
         \A d \in DOMAIN datasets : datasets'[d].latest = datasets[d].latest
  PROVE  LatestIsCommitted'
<1> SUFFICES ASSUME NEW d \in DOMAIN datasets'
             PROVE  IF CommittedOf(d)' = {} THEN datasets'[d].latest = NoVersion
                    ELSE datasets'[d].latest \in CommittedOf(d)'
  BY DEF LatestIsCommitted
<1>1. d \in Datasets
  BY DEF CatalogTypeOK, IsTable
<1>2. CommittedOf(d)' = CommittedOf(d)
  BY <1>1
<1>3. CASE d \in DOMAIN datasets
  BY <1>2, <1>3 DEF LatestIsCommitted
<1>4. CASE d \notin DOMAIN datasets
  <2>1. CommittedOf(d) = {}
    BY <1>4 DEF CommittedOf, NumbersUnique
  <2>2. datasets'[d].latest = NoVersion
    BY <1>4, OldDatasets
  <2> QED BY <1>2, <2>1, <2>2
<1> QED BY <1>3, <1>4

\* LatestIsCommitted is inductive, given the types and NumbersUnique.
LEMMA LatestStep ==
  ASSUME CatalogTypeOK, CatalogTypeOK', NumbersUnique, LatestIsCommitted,
         [CatalogNext]_catalogVars
  PROVE  LatestIsCommitted'
<1> USE DEF CatalogTypeOK, IsTable, DatasetRow, VersionRow
<1>1. CASE UNCHANGED catalogVars
  BY <1>1 DEF catalogVars, LatestIsCommitted, CommittedOf
<1>2. CASE DatasetOp
  <2>1. versions' = versions
    BY <1>2 DEF DatasetOp, Claim, AllocateVersionNumber
  <2>2. \A d \in Datasets : CommittedOf(d)' = CommittedOf(d)
    BY <2>1 DEF CommittedOf
  <2>3. \A d \in DOMAIN datasets : datasets'[d].latest = datasets[d].latest
    BY <1>2 DEF DatasetOp, Claim, AllocateVersionNumber, Put
  <2> QED BY <1>2, <2>2, <2>3, QuietStep DEF CatalogNext
<1>3. CASE PendingOp
  <2>1. PICK v : NewRow(v)
    BY <1>3, PendingOpRow
  <2>2. \A d \in Datasets : CommittedOf(d)' = CommittedOf(d)
    BY <2>1 DEF NewRow, CommittedOf
  <2>3. \A d \in DOMAIN datasets : datasets'[d].latest = datasets[d].latest
    BY <1>3 DEF PendingOp, InsertPending, InsertNumbered
  <2> QED BY <1>3, <2>2, <2>3, QuietStep DEF CatalogNext
<1>4. CASE KeyOp
  <2>1. versions' = versions /\ datasets' = datasets
    BY <1>4 DEF KeyOp, ReserveKey, CompleteKey, ReleaseKey, ReconcileOp, Reconcile, Written
  <2> QED BY <2>1 DEF LatestIsCommitted, CommittedOf
<1>5. CASE VersionOp
  <2> SUFFICES ASSUME NEW v \in VersionIds,
                      \/ \E f \in Paths : InsertFile(v, f)
                      \/ CommitVersion(v)
                      \/ DeletePendingVersion(v)
                      \/ IsPublished(v) /\ \E call \in RetractCalls : RetractVersion(v, call)
                      \/ \E a \in EventActions : RecordEvent(a, v)
               PROVE  LatestIsCommitted'
    BY <1>5 DEF VersionOp
  <2>1. CASE CommitVersion(v)
    <3>0. PICK d : d = versions[v].dataset
      OBVIOUS
    <3>1. v \in DOMAIN versions /\ versions[v].status = "pending" /\ d \in DOMAIN datasets
      BY <2>1, <3>0 DEF CommitVersion, CanCommit, HasStatus, NumbersUnique
    <3>2. versions' = [versions EXCEPT ![v].status = "committed"]
          /\ datasets' = [datasets EXCEPT ![d].latest = v]
      BY <2>1, <3>0 DEF CommitVersion
    <3>3. CommittedOf(d)' = CommittedOf(d) \cup {v}
      BY <3>0, <3>1, <3>2 DEF CommittedOf
    <3>4. \A e \in Datasets \ {d} : CommittedOf(e)' = CommittedOf(e)
      BY <3>0, <3>1, <3>2 DEF CommittedOf
    <3>5. /\ datasets'[d].latest = v /\ DOMAIN datasets' = DOMAIN datasets
          /\ \A e \in DOMAIN datasets \ {d} : datasets'[e].latest = datasets[e].latest
      BY <3>1, <3>2
    <3>6. ASSUME NEW e \in DOMAIN datasets'
          PROVE  IF CommittedOf(e)' = {} THEN datasets'[e].latest = NoVersion
                 ELSE datasets'[e].latest \in CommittedOf(e)'
      <4>1. CASE e = d
        BY <3>3, <3>5, <4>1
      <4>2. CASE e # d
        <5>1. e \in DOMAIN datasets /\ e \in Datasets \ {d}
          BY <3>5, <4>2
        <5> QED BY <3>4, <3>5, <4>2, <5>1 DEF LatestIsCommitted
      <4> QED BY <4>1, <4>2
    <3> QED BY <3>6 DEF LatestIsCommitted
  <2>2. CASE DeletePendingVersion(v)
    <3>1. versions' = IF HasStatus(v, "pending") THEN Drop(versions, v) ELSE versions
      BY <2>2 DEF DeletePendingVersion, Removable
    <3>2. \A d \in Datasets : CommittedOf(d)' = CommittedOf(d)
      BY <3>1 DEF CommittedOf, Drop, Restrict, HasStatus
    <3>3. datasets' = datasets
      BY <2>2 DEF DeletePendingVersion
    <3> QED BY <3>2, <3>3 DEF LatestIsCommitted
  <2>3. CASE IsPublished(v) /\ \E call \in RetractCalls : RetractVersion(v, call)
    <3>0. PICK d : d = versions[v].dataset
      OBVIOUS
    <3>1. PICK call \in RetractCalls : RetractVersion(v, call)
      BY <2>3
    <3>2. v \in DOMAIN versions /\ d \in DOMAIN datasets
      BY <2>3, <3>0 DEF IsPublished, HasStatus, NumbersUnique
    <3>3. PICK newest \in Newest(CommittedOf(d) \ {v}) :
            datasets' = [datasets EXCEPT ![d].latest = newest]
      BY <3>0, <3>1 DEF RetractVersion, LatestAfterRetract
    <3>4. versions' = [versions EXCEPT ![v].status = "retracted", ![v].retraction = call]
      BY <3>1 DEF RetractVersion
    <3>5. CommittedOf(d)' = CommittedOf(d) \ {v}
      BY <3>0, <3>2, <3>4 DEF CommittedOf
    <3>6. \A e \in Datasets \ {d} : CommittedOf(e)' = CommittedOf(e)
      BY <3>0, <3>2, <3>4 DEF CommittedOf
    <3>7. /\ datasets'[d].latest = newest /\ DOMAIN datasets' = DOMAIN datasets
          /\ \A e \in DOMAIN datasets \ {d} : datasets'[e].latest = datasets[e].latest
      BY <3>2, <3>3
    <3>8. IF CommittedOf(d)' = {} THEN newest = NoVersion ELSE newest \in CommittedOf(d)'
      BY <3>3, <3>5 DEF Newest
    <3>9. ASSUME NEW e \in DOMAIN datasets'
          PROVE  IF CommittedOf(e)' = {} THEN datasets'[e].latest = NoVersion
                 ELSE datasets'[e].latest \in CommittedOf(e)'
      <4>1. CASE e = d
        BY <3>7, <3>8, <4>1
      <4>2. CASE e # d
        <5>1. e \in DOMAIN datasets /\ e \in Datasets \ {d}
          BY <3>7, <4>2
        <5> QED BY <3>6, <3>7, <4>2, <5>1 DEF LatestIsCommitted
      <4> QED BY <4>1, <4>2
    <3> QED BY <3>9 DEF LatestIsCommitted
  <2>4. CASE \/ \E f \in Paths : InsertFile(v, f)
             \/ \E a \in EventActions : RecordEvent(a, v)
    <3>1. versions' = versions /\ datasets' = datasets
      BY <2>4 DEF InsertFile, RecordEvent
    <3> QED BY <3>1 DEF LatestIsCommitted, CommittedOf
  <2> QED BY <2>1, <2>2, <2>3, <2>4
<1> QED BY <1>1, <1>2, <1>3, <1>4, <1>5 DEF CatalogNext

\* Whatever the order of commits and retractions, a dataset offers a committed
\* version if it has one, and nothing otherwise (catalog.py:447-454, 580-598).
THEOREM LatestStaysCommitted == CatalogSpec => []LatestIsCommitted
<1>1. CatalogInit => LatestIsCommitted
  BY DEF CatalogInit, LatestIsCommitted, EmptyTable
<1>2. CatalogTypeOK /\ CatalogTypeOK' /\ NumbersUnique /\ LatestIsCommitted
        /\ [CatalogNext]_catalogVars => LatestIsCommitted'
  BY LatestStep
<1> QED BY <1>1, <1>2, TypeCorrect, NumbersStayUnique, PTL DEF CatalogSpec

-----------------------------------------------------------------------------
(* Accounting *)

\* The only operation that touches principal_usage, and what it adds.
LEMMA UsageStep ==
  ASSUME CatalogTypeOK, CatalogNext
  PROVE  \/ usage' = usage
         \/ \E v \in VersionIds :
              /\ CommitVersion(v) /\ HasStatus(v, "pending") /\ FitsQuota(v)
              /\ versions[v].uploader \in Principals
              /\ TotalBytes[versions[v].content] \in Nat
              /\ usage' = [usage EXCEPT ![versions[v].uploader] =
                             [bytes |-> @.bytes + TotalBytes[versions[v].content],
                              count |-> @.count + 1]]
<1>1. ASSUME NEW v \in VersionIds, CommitVersion(v)
      PROVE  /\ CommitVersion(v) /\ HasStatus(v, "pending") /\ FitsQuota(v)
             /\ versions[v].uploader \in Principals
             /\ TotalBytes[versions[v].content] \in Nat
             /\ usage' = [usage EXCEPT ![versions[v].uploader] =
                            [bytes |-> @.bytes + TotalBytes[versions[v].content],
                             count |-> @.count + 1]]
  BY <1>1, CatalogConstants DEF CommitVersion, CanCommit, HasStatus, Charged, CatalogTypeOK,
                                IsTable, VersionRow
<1>2. CASE DatasetOp \/ PendingOp \/ KeyOp
  BY <1>2 DEF DatasetOp, Claim, AllocateVersionNumber, PendingOp, InsertPending, InsertNumbered,
              KeyOp, ReserveKey, CompleteKey, ReleaseKey, ReconcileOp, Reconcile, Written
<1>3. CASE VersionOp
  BY <1>1, <1>3 DEF VersionOp, InsertFile, DeletePendingVersion, RetractVersion, RecordEvent
<1> QED BY <1>2, <1>3 DEF CatalogNext

\* No principal is charged more than its quota, in whatever order its uploads
\* reach the WHERE clause of commit_version (catalog.py:405-423).
THEOREM QuotaHolds == CatalogSpec => []WithinQuota
<1>1. CatalogInit => WithinQuota
  BY CatalogConstants DEF CatalogInit, WithinQuota
<1>2. CatalogTypeOK /\ WithinQuota /\ [CatalogNext]_catalogVars => WithinQuota'
  <2> SUFFICES ASSUME CatalogTypeOK, WithinQuota, CatalogNext PROVE WithinQuota'
    BY DEF catalogVars, WithinQuota
  <2>1. CASE usage' = usage
    BY <2>1 DEF WithinQuota
  <2>2. ASSUME NEW v \in VersionIds, FitsQuota(v), versions[v].uploader \in Principals,
               usage' = [usage EXCEPT ![versions[v].uploader] =
                           [bytes |-> @.bytes + TotalBytes[versions[v].content],
                            count |-> @.count + 1]]
        PROVE  WithinQuota'
    BY <2>2 DEF WithinQuota, FitsQuota, CatalogTypeOK, UsageRow
  <2> QED BY <2>1, <2>2, UsageStep
<1> QED BY <1>1, <1>2, TypeCorrect, PTL DEF CatalogSpec

\* A step that is not a commit publishes nothing and unpublishes nothing.
LEMMA PublishedByStep ==
  ASSUME CatalogTypeOK, CatalogTypeOK', CatalogNext, NEW p \in Principals
  PROVE  \/ PublishedBy(p)' = PublishedBy(p)
         \/ \E v \in VersionIds : CommitVersion(v)
<1> SUFFICES ASSUME ~\E v \in VersionIds : CommitVersion(v)
             PROVE  PublishedBy(p)' = PublishedBy(p)
  OBVIOUS
<1>1. ASSUME NEW x \in DOMAIN versions, x \in DOMAIN versions'
      PROVE  versions'[x].uploader = versions[x].uploader /\ (IsPublished(x)' <=> IsPublished(x))
  <2>1. Frame(x) /\ Advance(x)
    BY <1>1, OldRows
  <2>2. ~(versions[x].status = "pending" /\ versions'[x].status = "committed")
    <3>1. CASE DatasetOp \/ KeyOp
      BY <3>1 DEF DatasetOp, Claim, AllocateVersionNumber, KeyOp, ReserveKey, CompleteKey,
                  ReleaseKey, ReconcileOp, Reconcile, Written
    <3>2. CASE PendingOp
      BY <1>1, <3>2 DEF PendingOp, InsertPending, InsertNumbered, NewVersion, Put, CanInsert
    <3>3. CASE VersionOp
      <4>1. PICK v \in VersionIds :
              \/ versions' = versions
              \/ DeletePendingVersion(v)
              \/ IsPublished(v) /\ \E call : RetractVersion(v, call)
        BY <3>3 DEF VersionOp, InsertFile, RecordEvent
      <4>2. CASE DeletePendingVersion(v)
        <5>1. versions'[x] = versions[x]
          BY <1>1, <4>2 DEF DeletePendingVersion, Drop, Restrict
        <5> QED BY <5>1
      <4>3. ASSUME NEW call, RetractVersion(v, call), IsPublished(v)
            PROVE  versions'[x].status = versions[x].status \/ versions'[x].status = "retracted"
        BY <4>3 DEF RetractVersion, CatalogTypeOK, IsTable, VersionRow
      <4> QED BY <4>1, <4>2, <4>3
    <3> QED BY <3>1, <3>2, <3>3 DEF CatalogNext
  <2> QED BY <1>1, <2>1, <2>2 DEF Frame, Advance, IsPublished, HasStatus
<1>2. ASSUME NEW x \in DOMAIN versions, x \notin DOMAIN versions'
      PROVE  ~IsPublished(x)
  BY <1>2, OldRows DEF IsPublished, HasStatus
<1>3. ASSUME NEW x \in DOMAIN versions', x \notin DOMAIN versions
      PROVE  ~IsPublished(x)'
  <2>1. PendingOp
    BY <1>3, OtherOpsAddNoRow DEF CatalogNext
  <2> QED BY <1>3, <2>1 DEF PendingOp, InsertPending, InsertNumbered, NewVersion, Put,
                             IsPublished, HasStatus
<1> QED BY <1>1, <1>2, <1>3 DEF PublishedBy, IsPublished, HasStatus

\* CountAccounts is inductive, given the types.
LEMMA CountStep ==
  ASSUME CatalogTypeOK, CatalogTypeOK', CountAccounts, [CatalogNext]_catalogVars
  PROVE  CountAccounts'
<1> SUFFICES ASSUME NEW p \in Principals
             PROVE  usage'[p].count = Cardinality(PublishedBy(p)')
  BY DEF CountAccounts
<1>0. usage[p].count = Cardinality(PublishedBy(p))
  BY DEF CountAccounts
<1>1. CASE UNCHANGED catalogVars
  <2>1. PublishedBy(p)' = PublishedBy(p) /\ usage' = usage
    BY <1>1 DEF catalogVars, PublishedBy, IsPublished, HasStatus
  <2> QED BY <1>0, <2>1
<1>2. CASE CatalogNext /\ ~\E v \in VersionIds : CommitVersion(v)
  BY <1>0, <1>2, UsageStep, PublishedByStep
<1>3. ASSUME NEW v \in VersionIds, CommitVersion(v)
      PROVE  usage'[p].count = Cardinality(PublishedBy(p)')
  <2>1. /\ v \in DOMAIN versions /\ versions[v].status = "pending"
        /\ versions' = [versions EXCEPT ![v].status = "committed"]
        /\ versions[v].uploader \in Principals
        /\ usage' = [usage EXCEPT ![versions[v].uploader] = Charged(@, versions[v].content)]
    BY <1>3 DEF CommitVersion, CanCommit, HasStatus, CatalogTypeOK, IsTable, VersionRow
  <2>2. IsFiniteSet(PublishedBy(p)) /\ v \notin PublishedBy(p)
    <3>1. PublishedBy(p) \subseteq VersionIds
      BY DEF PublishedBy, CatalogTypeOK, IsTable
    <3>2. v \notin PublishedBy(p)
      BY <2>1 DEF PublishedBy, IsPublished, HasStatus
    <3> QED BY <3>1, <3>2, FS_Subset, CatalogConstants
  <2>3. CASE versions[v].uploader = p
    <3>1. PublishedBy(p)' = PublishedBy(p) \cup {v}
      BY <2>1, <2>3 DEF PublishedBy, IsPublished, HasStatus, CatalogTypeOK, IsTable, VersionRow
    <3>2. usage'[p].count = usage[p].count + 1
      BY <2>1, <2>3 DEF Charged, CatalogTypeOK, UsageRow
    <3> QED BY <1>0, <2>2, <3>1, <3>2, FS_AddElement
  <2>4. CASE versions[v].uploader # p
    <3>1. PublishedBy(p)' = PublishedBy(p)
      BY <2>1, <2>4 DEF PublishedBy, IsPublished, HasStatus, CatalogTypeOK, IsTable, VersionRow
    <3>2. usage'[p] = usage[p]
      BY <2>1, <2>4 DEF CatalogTypeOK
    <3> QED BY <1>0, <3>1, <3>2
  <2> QED BY <2>3, <2>4
<1> QED BY <1>1, <1>2, <1>3

\* version_count counts what the principal published: a commit adds one, a
\* retraction and an abort take none away (README.md:15).
THEOREM CountIsExact == CatalogSpec => []CountAccounts
<1>1. CatalogInit => CountAccounts
  <2> SUFFICES ASSUME CatalogInit, NEW p \in Principals
               PROVE  usage[p].count = Cardinality(PublishedBy(p))
    BY DEF CountAccounts
  <2>1. PublishedBy(p) = {}
    BY DEF CatalogInit, PublishedBy, EmptyTable
  <2> QED BY <2>1, FS_EmptySet DEF CatalogInit
<1>2. CatalogTypeOK /\ CatalogTypeOK' /\ CountAccounts /\ [CatalogNext]_catalogVars
        => CountAccounts'
  BY CountStep
<1> QED BY <1>1, <1>2, TypeCorrect, PTL DEF CatalogSpec

-----------------------------------------------------------------------------
(* Sums over versions.  A sum of sizes is the number of elements of a set of   *)
(* numbered bytes: that a byte more makes the sum one more is then a fact about *)
(* cardinalities, and only that the fold computes it takes an induction.       *)

\* A set of subsets of a finite set that has every subset of which it has all the
\* smaller ones has them all.
LEMMA SubsetInduction ==
  ASSUME NEW S, IsFiniteSet(S), NEW T,
         \A s \in SUBSET S : (\A r \in SUBSET s : r # s => r \in T) => s \in T
  PROVE  \A s \in SUBSET S : s \in T
<1> DEFINE B == (SUBSET S) \ T
<1>1. IsWellFoundedOn(StrictSubsetOrdering(S), SUBSET S)
  BY FS_StrictSubsetOrderingWellFounded, FS_FiniteSubsetsOfFinite
<1>2. SUFFICES ASSUME B # {} PROVE FALSE
  OBVIOUS
<1>3. PICK s \in B : \A r \in B : <<r, s>> \notin StrictSubsetOrdering(S)
  <2>1. B \subseteq SUBSET S
    OBVIOUS
  <2> HIDE DEF B
  <2> QED BY <1>1, <1>2, <2>1, WFMin
<1>4. \A r \in SUBSET s : r # s => r \in T
  BY <1>3 DEF StrictSubsetOrdering
<1>5. s \in SUBSET S /\ s \notin T
  BY <1>3
<1>6. s \in T
  BY <1>4, <1>5
<1> QED BY <1>5, <1>6

\* The bytes of a version, numbered
ContentBytes(vs, v) == TotalBytes[vs[v].content]

Blocks(vs, S) == UNION {{v} \X (1 .. ContentBytes(vs, v)) : v \in S}

\* The bytes of some versions are the bytes of one of them and those of the others.
LEMMA BlocksOfOneMore ==
  ASSUME NEW vs, NEW s, NEW v \in s, ContentBytes(vs, v) \in Nat, IsFiniteSet(Blocks(vs, s \ {v}))
  PROVE  /\ IsFiniteSet(Blocks(vs, s))
         /\ Cardinality(Blocks(vs, s)) = ContentBytes(vs, v) + Cardinality(Blocks(vs, s \ {v}))
<1> DEFINE one == {v} \X (1 .. ContentBytes(vs, v))
           rest == Blocks(vs, s \ {v})
<1>1. Blocks(vs, s) = one \cup rest /\ one \cap rest = {}
  BY DEF Blocks
<1>2. IsFiniteSet(one) /\ Cardinality(one) = ContentBytes(vs, v)
  <2> DEFINE n == ContentBytes(vs, v)
  <2> HIDE DEF n
  <2>1. IsFiniteSet({v}) /\ Cardinality({v}) = 1
    BY FS_Singleton
  <2>2. n \in Nat
    BY DEF n
  <2>3. IsFiniteSet(1 .. n) /\ Cardinality(1 .. n) = n
    <3>1. IsFiniteSet(1 .. n) /\ Cardinality(1 .. n) = IF 1 > n THEN 0 ELSE n - 1 + 1
      BY ONLY <2>2, FS_Interval
    <3> QED BY <2>2, <3>1
  <2> DEFINE a == {v}
             b == 1 .. n
  <2> HIDE DEF a, b
  <2>4. IsFiniteSet(a) /\ Cardinality(a) = 1 /\ IsFiniteSet(b) /\ Cardinality(b) = n
    BY <2>1, <2>3 DEF a, b
  <2>5. IsFiniteSet(a \X b) /\ Cardinality(a \X b) = Cardinality(a) * Cardinality(b)
    BY ONLY <2>4, FS_Product
  <2>6. one = a \X b
    BY DEF a, b, n
  <2>7. Cardinality(a) * Cardinality(b) = n
    BY <2>2, <2>4
  <2> HIDE DEF one
  <2> QED BY <2>5, <2>6, <2>7 DEF n
<1> HIDE DEF one, rest
<1>3. IsFiniteSet(rest) /\ Cardinality(rest) \in Nat
  BY FS_CardinalityType DEF rest
<1>4. IsFiniteSet(one \cup rest)
        /\ Cardinality(one \cup rest) = Cardinality(one) + Cardinality(rest) - Cardinality(one \cap rest)
  BY <1>2, <1>3, FS_Union
<1>5. Cardinality(one \cap rest) = 0
  BY <1>1, FS_EmptySet
<1> QED BY <1>1, <1>2, <1>3, <1>4, <1>5 DEF rest

\* They are finitely many.
LEMMA BlocksFinite ==
  ASSUME NEW vs, NEW S, IsFiniteSet(S), \A v \in S : ContentBytes(vs, v) \in Nat
  PROVE  \A s \in SUBSET S : IsFiniteSet(Blocks(vs, s))
<1> DEFINE T == {s \in SUBSET S : IsFiniteSet(Blocks(vs, s))}
<1>1. ASSUME NEW s \in SUBSET S, \A r \in SUBSET s : r # s => r \in T
      PROVE  s \in T
  <2>1. CASE s = {}
    <3>1. Blocks(vs, s) = {}
      BY <2>1 DEF Blocks
    <3> QED BY <3>1, FS_EmptySet
  <2>2. CASE s # {}
    <3>1. PICK v \in s : TRUE
      BY <2>2
    <3>2. s \ {v} \in T
      BY <1>1
    <3> QED BY <3>2, BlocksOfOneMore
  <2> QED BY <2>1, <2>2
<1> HIDE DEF T
<1>2. \A s \in SUBSET S : s \in T
  BY <1>1, SubsetInduction
<1> QED BY <1>2 DEF T

\* The sum of BytesAccount, for any rows of versions
StoredBytes(vs, S) == MapThenSumSet(LAMBDA v : TotalBytes[vs[v].content], S)

\* The fold counts the bytes, in whatever order it takes the versions.
LEMMA SumCounts ==
  ASSUME NEW vs, NEW S, IsFiniteSet(S), \A v \in S : ContentBytes(vs, v) \in Nat
  PROVE  StoredBytes(vs, S) = Cardinality(Blocks(vs, S))
<1> DEFINE First(s) == CHOOSE v \in s : TRUE
           Sums(g) == g = [s \in SUBSET S |->
                             IF s = {} THEN 0
                             ELSE TotalBytes[vs[First(s)].content] + g[s \ {First(s)}]]
           count == [s \in SUBSET S |-> Cardinality(Blocks(vs, s))]
<1>1. \A s \in SUBSET S : s # {} =>
        /\ First(s) \in s /\ s \ {First(s)} \in SUBSET S /\ s \ {First(s)} # s
        /\ Cardinality(Blocks(vs, s))
             = TotalBytes[vs[First(s)].content] + Cardinality(Blocks(vs, s \ {First(s)}))
  <2> SUFFICES ASSUME NEW s \in SUBSET S, s # {}
               PROVE  /\ First(s) \in s /\ s \ {First(s)} \in SUBSET S /\ s \ {First(s)} # s
                      /\ Cardinality(Blocks(vs, s))
                           = TotalBytes[vs[First(s)].content]
                               + Cardinality(Blocks(vs, s \ {First(s)}))
    OBVIOUS
  <2>1. First(s) \in s
    OBVIOUS
  <2> HIDE DEF First
  <2>2. IsFiniteSet(Blocks(vs, s \ {First(s)}))
    BY BlocksFinite
  <2>3. Cardinality(Blocks(vs, s)) = ContentBytes(vs, First(s)) + Cardinality(Blocks(vs, s \ {First(s)}))
    BY <2>1, <2>2, BlocksOfOneMore
  <2> QED BY <2>1, <2>3 DEF ContentBytes
<1>2. Cardinality(Blocks(vs, {})) = 0
  <2>1. Blocks(vs, {}) = {}
    BY DEF Blocks
  <2> QED BY <2>1, FS_EmptySet
<1>3. StoredBytes(vs, S) = (CHOOSE g : Sums(g))[S]
  BY DEF StoredBytes, MapThenSumSet, MapThenFoldSet
<1> HIDE DEF First
<1>4. Sums(count)
  <2>1. \A s \in SUBSET S : count[s] = IF s = {} THEN 0
                                       ELSE TotalBytes[vs[First(s)].content] + count[s \ {First(s)}]
    BY <1>1, <1>2
  <2> QED BY <2>1
<1>5. ASSUME NEW g, Sums(g) PROVE g[S] = Cardinality(Blocks(vs, S))
  <2> DEFINE T == {s \in SUBSET S : g[s] = Cardinality(Blocks(vs, s))}
  <2>1. ASSUME NEW s \in SUBSET S, \A r \in SUBSET s : r # s => r \in T
        PROVE  s \in T
    <3>1. g[s] = IF s = {} THEN 0 ELSE TotalBytes[vs[First(s)].content] + g[s \ {First(s)}]
      BY <1>5
    <3>2. CASE s = {}
      BY <1>2, <3>1, <3>2
    <3>3. CASE s # {}
      <4>1. g[s \ {First(s)}] = Cardinality(Blocks(vs, s \ {First(s)}))
        BY <1>1, <2>1, <3>3
      <4> QED BY <1>1, <3>1, <3>3, <4>1
    <3> QED BY <3>2, <3>3
  <2> HIDE DEF T
  <2>2. \A s \in SUBSET S : s \in T
    BY <2>1, SubsetInduction
  <2> QED BY <2>2 DEF T
<1> HIDE DEF Sums, count
<1>6. Sums(CHOOSE g : Sums(g))
  BY <1>4
<1> QED BY <1>3, <1>5, <1>6

\* A version more adds its bytes.
LEMMA StoredBytesAdd ==
  ASSUME NEW vs, NEW S, IsFiniteSet(S), NEW v, v \notin S,
         \A x \in S \cup {v} : ContentBytes(vs, x) \in Nat
  PROVE  StoredBytes(vs, S \cup {v}) = StoredBytes(vs, S) + ContentBytes(vs, v)
<1>1. IsFiniteSet(S \cup {v}) /\ (S \cup {v}) \ {v} = S
  BY FS_AddElement
<1>2. IsFiniteSet(Blocks(vs, S)) /\ Cardinality(Blocks(vs, S)) \in Nat
  BY BlocksFinite, FS_CardinalityType
<1>3. Cardinality(Blocks(vs, S \cup {v})) = ContentBytes(vs, v) + Cardinality(Blocks(vs, S))
  BY <1>1, <1>2, BlocksOfOneMore
<1>4. StoredBytes(vs, S) = Cardinality(Blocks(vs, S))
  BY SumCounts
<1>5. StoredBytes(vs, S \cup {v}) = Cardinality(Blocks(vs, S \cup {v}))
  BY <1>1, SumCounts
<1> QED BY <1>2, <1>3, <1>4, <1>5

\* Only the contents of the versions matter.
LEMMA StoredBytesSame ==
  ASSUME NEW vs, NEW ws, NEW S, IsFiniteSet(S), \A v \in S : ContentBytes(vs, v) \in Nat,
         \A v \in S : ContentBytes(ws, v) = ContentBytes(vs, v)
  PROVE  StoredBytes(ws, S) = StoredBytes(vs, S)
<1>1. Blocks(ws, S) = Blocks(vs, S)
  BY DEF Blocks
<1>2. \A v \in S : ContentBytes(ws, v) \in Nat
  OBVIOUS
<1> QED BY <1>1, <1>2, SumCounts

\* BytesAccount is inductive, given the types.
LEMMA BytesAccountStep ==
  ASSUME CatalogTypeOK, CatalogTypeOK', BytesAccount, [CatalogNext]_catalogVars
  PROVE  BytesAccount'
<1> SUFFICES ASSUME NEW p \in Principals
             PROVE  usage'[p].bytes = StoredBytes(versions', PublishedBy(p)')
  BY DEF BytesAccount, StoredBytes, MapThenSumSet, MapThenFoldSet
<1>0. usage[p].bytes = StoredBytes(versions, PublishedBy(p))
  BY DEF BytesAccount, StoredBytes
<1>1. CASE UNCHANGED catalogVars
  <2>1. PublishedBy(p)' = PublishedBy(p) /\ usage' = usage /\ versions' = versions
    BY <1>1 DEF catalogVars, PublishedBy, IsPublished, HasStatus
  <2> QED BY <1>0, <2>1
<1>2. CASE CatalogNext
  <2>1. /\ PublishedBy(p) \subseteq DOMAIN versions
        /\ IsFiniteSet(PublishedBy(p))
        /\ \A x \in DOMAIN versions : ContentBytes(versions, x) \in Nat
    <3>1. PublishedBy(p) \subseteq DOMAIN versions /\ DOMAIN versions \subseteq VersionIds
      BY DEF PublishedBy, CatalogTypeOK, IsTable
    <3>2. \A x \in DOMAIN versions : versions[x].content \in Contents
      BY DEF CatalogTypeOK, IsTable, VersionRow
    <3> QED BY <3>1, <3>2, FS_Subset, CatalogConstants DEF ContentBytes
  <2>2. \A x \in PublishedBy(p) : ContentBytes(versions', x) = ContentBytes(versions, x)
    BY <1>2, OldRows DEF PublishedBy, IsPublished, HasStatus, Frame, ContentBytes
  <2>3. StoredBytes(versions', PublishedBy(p)) = StoredBytes(versions, PublishedBy(p))
    BY <2>1, <2>2, StoredBytesSame
  <2>4. CASE ~\E v \in VersionIds : CommitVersion(v)
    <3>1. usage' = usage /\ PublishedBy(p)' = PublishedBy(p)
      BY <1>2, <2>4, UsageStep, PublishedByStep
    <3> QED BY <1>0, <2>3, <3>1
  <2>5. ASSUME NEW v \in VersionIds, CommitVersion(v)
        PROVE  usage'[p].bytes = StoredBytes(versions', PublishedBy(p)')
    <3>1. /\ v \in DOMAIN versions /\ versions[v].status = "pending"
          /\ versions' = [versions EXCEPT ![v].status = "committed"]
          /\ versions[v].uploader \in Principals
          /\ usage' = [usage EXCEPT ![versions[v].uploader] = Charged(@, versions[v].content)]
      BY <2>5 DEF CommitVersion, CanCommit, HasStatus, CatalogTypeOK, IsTable, VersionRow
    <3>2. v \notin PublishedBy(p)
      BY <3>1 DEF PublishedBy, IsPublished, HasStatus
    <3>3. ContentBytes(versions', v) = ContentBytes(versions, v)
      BY <3>1 DEF ContentBytes, CatalogTypeOK, IsTable, VersionRow
    <3>4. CASE versions[v].uploader = p
      <4>1. PublishedBy(p)' = PublishedBy(p) \cup {v}
        BY <3>1, <3>4 DEF PublishedBy, IsPublished, HasStatus, CatalogTypeOK, IsTable, VersionRow
      <4>2. usage'[p].bytes = usage[p].bytes + ContentBytes(versions, v)
        BY <3>1, <3>4 DEF Charged, CatalogTypeOK, UsageRow, ContentBytes
      <4>3. \A x \in PublishedBy(p) \cup {v} : ContentBytes(versions', x) \in Nat
        BY <2>1, <2>2, <3>1, <3>3
      <4>4. StoredBytes(versions', PublishedBy(p) \cup {v})
              = StoredBytes(versions', PublishedBy(p)) + ContentBytes(versions', v)
        BY <2>1, <3>2, <4>3, StoredBytesAdd
      <4> QED BY <1>0, <2>3, <3>3, <4>1, <4>2, <4>4
    <3>5. CASE versions[v].uploader # p
      <4>1. PublishedBy(p)' = PublishedBy(p)
        BY <3>1, <3>5 DEF PublishedBy, IsPublished, HasStatus, CatalogTypeOK, IsTable, VersionRow
      <4>2. usage'[p] = usage[p]
        BY <3>1, <3>5 DEF CatalogTypeOK
      <4> QED BY <1>0, <2>3, <4>1, <4>2
    <3> QED BY <3>4, <3>5
  <2> QED BY <2>4, <2>5
<1> QED BY <1>1, <1>2

\* stored_bytes is the size of what the principal published, each version once:
\* a commit adds its size in the transaction that publishes it, and no later step
\* changes the contents of a published version or takes its charge back
\* (catalog.py:405-423, README.md:15).
THEOREM BytesAreExact == CatalogSpec => []BytesAccount
<1>1. CatalogInit => BytesAccount
  <2> SUFFICES ASSUME CatalogInit, NEW p \in Principals
               PROVE  usage[p].bytes = StoredBytes(versions, PublishedBy(p))
    BY DEF BytesAccount, StoredBytes
  <2>1. PublishedBy(p) = {} /\ usage[p].bytes = 0
    BY DEF CatalogInit, PublishedBy, EmptyTable
  <2>2. Blocks(versions, {}) = {}
    BY DEF Blocks
  <2>3. StoredBytes(versions, {}) = Cardinality(Blocks(versions, {}))
    BY FS_EmptySet, SumCounts
  <2> QED BY <2>1, <2>2, <2>3, FS_EmptySet
<1>2. CatalogTypeOK /\ CatalogTypeOK' /\ BytesAccount /\ [CatalogNext]_catalogVars
        => BytesAccount'
  BY BytesAccountStep
<1> QED BY <1>1, <1>2, TypeCorrect, PTL DEF CatalogSpec

=============================================================================
