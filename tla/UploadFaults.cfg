SPECIFICATION UploadSpec
CONSTANTS
  c1 = c1
  c2 = c2
  d1 = d1
  p1 = p1
  p2 = p2
  k1 = k1
  Principals = {p1, p2}
  Datasets = {d1}
  VersionIds = {v1, v2, v3}
  Contents = {c1, c2}
  Paths = {f1}
  Keys = {k1}
  RetractCalls = {}
  NoVersion = NoVersion
  NoCall = NoCall
  NoKey = NoKey
  NoWorker = NoWorker
  TotalBytes <- MCTotalBytes
  Quota = 2
  MaxNumber = 3
  Requests <- WithKey
  Workers = {w1}
  Mortal = {}
  Faulty <- CleanFaults
SYMMETRY Symmetry
INVARIANTS
  FailedUploadLeavesNothing
  AbortedNeverPublished
PROPERTIES
  PublicationSpec
CHECK_DEADLOCK FALSE
