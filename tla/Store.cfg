CONSTANTS
  Process = {p1, p2}
  Key = {k1, k2}
  NoKey = NoKey
  Kid = {"1", "2"}
  CapSet <- WriteOnly
  ScopeSet <- GenerateScope
  Faults = TRUE
SPECIFICATION Spec
SYMMETRY Symmetric
INVARIANT TypeOK
INVARIANT TokensVerify
INVARIANT ServedRegistrable
INVARIANT ReturnedIsStored
INVARIANT MemoryIsStored
PROPERTY OneKeyUnlessRaced
PROPERTY SettledForGood
