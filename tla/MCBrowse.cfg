SPECIFICATION BrowseSpec
CONSTANTS
  v0 = v0
  v1 = v1
  v2 = v2
  v3 = v3
  d1 = d1
  d2 = d2
  p1 = p1
  p2 = p2
  c0 = c0
  c1 = c1
  c2 = c2
  empty = empty
  three = three
  lost = lost
  wide = wide
  Principals = {p1, p2}
  Datasets = {d1, d2}
  VersionIds = {v0, v1, v2, v3}
  Contents = {c0, c1, c2}
  Paths = {empty, three, lost, wide}
  Keys = {}
  RetractCalls = {r1}
  NoVersion = NoVersion
  NoCall = NoCall
  TotalBytes <- MCTotalBytes
  Quota = 10
  MaxNumber = 2
  Packages <- MCPackages
  Scenarios <- MCScenarios
  KeyRank <- MCKeyRank
  IdRank <- MCIdRank
  MaxTime = 2
  MaxPage = 2
  FileSize <- MCFileSize
  ManifestSize = 2
  ChunkSize = 2
  Lost = {lost}
  WideNames = {wide}
INVARIANTS
  BrowseTypeOK
  ListedOnceInOrder
  SteadyRowsListed
  WhoSeesWhat
  SteadyIsServed
  BytesAsAsked
PROPERTIES
  EveryRequestEnds
CHECK_DEADLOCK FALSE
