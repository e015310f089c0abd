SPECIFICATION FairSpec
CONSTANTS
  c1 = c1
  c2 = c2
  d1 = d1
  p1 = p1
  p2 = p2
  k1 = k1
  Principals = {p1, p2}
  Datasets = {d1}
  VersionIds = {v1}
  Contents = {c1, c2}
  Paths = {f1}
  Keys = {k1}
  RetractCalls = {}
  NoVersion = NoVersion
  NoCall = NoCall
  NoKey = NoKey
  NoWorker = NoWorker
  TotalBytes <- MCTotalBytes
  Quota = 1
  MaxNumber = 1
  Requests <- SmallAndLarge
  Workers = {w1, w2}
  Mortal = {w1}
  Faulty <- RecoverableFaults
PROPERTIES
  LeftoversGo
  StartupsSucceed
CHECK_DEADLOCK FALSE
