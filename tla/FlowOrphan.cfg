CONSTANTS
  A = A
  B = B
  Image = Image
  Other = Other
  Agent = {A, B}
  Jti = {j1}
  Call = {c1}
  Delegation <- AtoB
  Segment <- Segments
  Handler <- Handlers
  Request <- Plain
  CapSet <- OneManifest
  ScopeSet <- OneScope
  MaxTTL = 1
  MaxTime = 0
  MaxRestarts = 0
  Faults = TRUE
SPECIFICATION FairSpec
PROPERTY CompletionRecorded
CHECK_DEADLOCK FALSE
