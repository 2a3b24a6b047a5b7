CONSTANTS
  EventId <- ThreeIds
  Writer = {w1}
  MaxTime = 0
SPECIFICATION Spec
INVARIANT ChainLinear
CHECK_DEADLOCK FALSE
