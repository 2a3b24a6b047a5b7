CONSTANTS
  A = A
  B = B
  Image = Image
  Other = Other
  Agent = {A, B}
  Jti = {j1}
  Call = {c1, c2}
  Delegation <- AtoB
  Segment <- Segments
  Handler <- Handlers
  Request <- Unsigned
  CapSet <- Manifests
  ScopeSet <- Scopes
  MaxTTL = 2
  MaxTime = 2
  MaxRestarts = 0
  Faults = FALSE
SPECIFICATION Spec
SYMMETRY Symmetric
INVARIANT ExecutionAuthorised
PROPERTY AcceptedWithinManifest
PROPERTY LifetimeBounded
CHECK_DEADLOCK FALSE
