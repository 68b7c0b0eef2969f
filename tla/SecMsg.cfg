SPECIFICATION Spec
CONSTANTS
  Agents <- MCAgents
  Legacy <- MCLegacy
  MaxLocal = 2
  RecvFlush = 2
  MaxSent = 5
INVARIANTS
  CountersInv
PROPERTIES
  StoredIsBarrier
  InOrderOnce
