SPECIFICATION FairSpec
CONSTANTS
  Requests <- MCRequests
  Timeout <- MCTimeout
  Repeated <- MCRepeated
  MaxRequests = 4
  LastRequest = 2
  MaxTime = 6
INVARIANTS
  AccountInv
  ShutdownUndoesAll
PROPERTIES
  TermsEscalate
  EveryBlockEnds
CHECK_DEADLOCK FALSE
