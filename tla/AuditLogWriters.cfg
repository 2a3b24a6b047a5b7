CONSTANTS
  EventId <- ThreeIds
  Writer = {w1, w2}
  MaxTime = 1
SPECIFICATION Spec
INVARIANT TypeOK
INVARIANT ChainRooted
INVARIANT ForksBounded
PROPERTY JournalSpec
CHECK_DEADLOCK FALSE
