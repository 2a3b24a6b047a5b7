CONSTANTS
  coding = A
  image = B
  Agent = {A, B}
  j = j1
  Jti = {j1}
  c = c1
  Call = {c1}
  req <- Ask
  scope <- Scope
  codingCaps <- CodingCaps
  imageCaps <- ImageCaps
  Delegation <- Pair
  Segment <- Segments
  Handler <- Handlers
  Request <- Requests
  CapSet <- CapSets
  ScopeSet <- ScopeSets
  MaxTTL = 2
  MaxTime = 3
  MaxRestarts = 0
  Faults = FALSE
SPECIFICATION DemoSpec
INVARIANT DemoTypeOK
INVARIANT AssertionsHold
PROPERTY DemoCompletes
CHECK_DEADLOCK FALSE
