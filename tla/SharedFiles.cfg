SPECIFICATION FairSpec
CONSTANTS
  Pieces = 2
  MaxVersion = 2
  MaxFaults = 2
  Capacity = 5
  Window = 8
INVARIANTS
  TransferInv
PROPERTIES
  NeverRollsBack
  Converges
