CONSTANTS
  Char <- Chars
  Place <- Places
  Payload <- PlainPayloads
SPECIFICATION Spec
INVARIANT SameFunctionSuffices
CHECK_DEADLOCK FALSE
