SPECIFICATION AdmissionSpec
CONSTANTS
  r1 = r1
  r2 = r2
  r3 = r3
  w1 = w1
  w2 = w2
  t1 = t1
  t2 = t2
  t3 = t3
  reader = reader
  nobody = nobody
  wide = wide
  p1 = p1
  p1b = p1b
  p2 = p2
  a = a
  aNFD = aNFD
  b = b
  x = x
  y = y
  full = full
  long = long
  dotted = dotted
  dots = dots
  del = del
  drive = drive
  slash = slash
  json = json
  Parts = {a, aNFD, b, x, y, full, long, dotted, dots, del, drive, slash, json}
  Nfc <- MCNfc
  PartBytes <- MCPartBytes
  MaxPartBytes = 3
  MaxPathBytes = 6
  LogicalRefused = {dotted, dots, slash}
  PackageRefused = {dotted, del, slash}
  DriveParts = {drive}
  ManifestJson = json
  MaxManifestBytes = 2
  Requests = {r1, r2, r3}
  Workers = {w1, w2}
  Killable = {w1}
  Tokens = {t1, t2, t3, reader}
  OtherTokens = {nobody, wide}
  NonAsciiTokens = {wide}
  TokenPrincipal <- MCTokenPrincipal
  Alias <- MCAlias
  TokenScopes <- MCTokenScopes
  Limit = 2
  MaxFiles = 3
  MaxFields = 2
  MaxParts = 5
  Plans <- MCPlans
INVARIANTS
  AdmissionTypeOK
  SlotsExact
  RouteWithinLimit
  PairingIsForced
  WellNamedIsMatched
  OneFilePerArtifact
PROPERTIES
  RefusedOnlyWhenBusy
  NobodyLockedOut
CHECK_DEADLOCK FALSE
