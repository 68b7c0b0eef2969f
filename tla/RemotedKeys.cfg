CONSTANTS
  Hosts = {a, b}
  MaxLines = 2
  Static = {b}
  None = None
  Old = Old
  EmptyPiece = TRUE
SPECIFICATION FairSpec
INVARIANTS
  KeysInv
  FileMovedOnlyByRemoval
PROPERTIES
  NewAgentIsHeard
CHECK_DEADLOCK FALSE
