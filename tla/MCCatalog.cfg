SPECIFICATION CatalogSpec
CONSTANTS
  c1 = c1
  c2 = c2
  Principals = {p1}
  Datasets = {d1, d2}
  VersionIds = {v1, v2, v3}
  Contents = {c1, c2}
  Paths = {f1}
  Keys = {k1}
  RetractCalls = {r1}
  NoVersion = NoVersion
  NoCall = NoCall
  TotalBytes <- MCTotalBytes
  Quota = 3
  MaxNumber = 3
SYMMETRY Symmetry
CONSTRAINT SideTables
INVARIANTS
  CatalogTypeOK
  LatestIsCommitted
  NumbersUnique
  CountAccounts
  BytesAccount
  WithinQuota
PROPERTIES
  PublishedIsForever
  DatasetsKept
CHECK_DEADLOCK FALSE
