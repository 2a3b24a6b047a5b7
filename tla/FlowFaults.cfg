CONSTANTS
  A = A
  B = B
  Image = Image
  Other = Other
  Agent = {A, B}
  Jti = {j1}
  Call = {c1, c2}
  Delegation <- AtoB
  Segment <- Segments
  Handler <- Handlers
  Request <- Plain
  CapSet <- OneManifest
  ScopeSet <- OneScope
  MaxTTL = 1
  MaxTime = 0
  MaxRestarts = 2
  Faults = TRUE
SPECIFICATION Spec
SYMMETRY Symmetric
INVARIANT TypeOK
INVARIANT AtMostOnce
INVARIANT CrossSigned
INVARIANT SameRecord
INVARIANT SameVerdict
PROPERTY CrossSignSpec
CHECK_DEADLOCK FALSE
