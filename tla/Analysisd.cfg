SPECIFICATION AllSpec
CONSTANTS
  Candidates <- MCCandidates
  Categories = {"syslog", "ids"}
  ActiveResponses <- MCActiveResponses
  MaxRules = 7
  File <- MCFile
  SidNumber <- MCSidNumber
  Conditions <- MCConditions
  ReadLast <- MCReadLast
  Rules <- MCRules
  Sources = {h1, h2}
  Level <- MCLevel
  IgnoreTime <- MCIgnoreTime
  Tried <- MCTried
  Frequency <- MCFrequency
  Timeframe <- MCTimeframe
  SameSource = {"brute"}
  Searched <- MCSearched
  Lists <- MCLists
  SidOf <- MCSidOf
  GroupsOf <- MCGroupsOf
  MemoryMax = 3
  Batch = 2
  MaxEvents = 6
  MaxTime = 4
SYMMETRY SourceSymmetry
INVARIANTS
  RulesInv
  MemoryIsOfTree
  WalkIsByRules
  ListsInv
  AlertIsEarned
  AlertsShareNoEvidence
CHECK_DEADLOCK FALSE
