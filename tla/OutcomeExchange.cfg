CONSTANTS
  Char <- Chars
  Place <- Places
  Payload <- AllPayloads
SPECIFICATION Spec
INVARIANT TypeOK
 
INVARIANT HashFollows
INVARIANT OrphanExplained
CHECK_DEADLOCK FALSE
