CONSTANTS
  A = A
  B = B
  Image = Image
  Other = Other
  Agent = {A, B}
  Jti = {j1, j2}
  Call = {c1, c2}
  Delegation <- SelfToo
  Segment <- Segments
  Handler <- Handlers
  Request <- Mixed
  CapSet <- OneManifest
  ScopeSet <- OneScope
  MaxTTL = 1
  MaxTime = 0
  MaxRestarts = 0
  Faults = FALSE
SPECIFICATION FairSpec
INVARIANT ReturnedClosed
PROPERTY CrossSignSpec
PROPERTY InvokeReturns
PROPERTY CrossSignedEventually
CHECK_DEADLOCK FALSE
