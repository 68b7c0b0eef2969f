SPECIFICATION FairControlSpec
CONSTANTS
  KeySize = 3
  Messages = {m1, m2}
  None = None
INVARIANTS
  ThreadsInv
  OverlookedOnlyIfOvertaken
PROPERTIES
  EveryChangeIsRead
