CONSTANTS
  NB = 3
  Ids = {1, 2, 3}
  WaitTimeout = 2
  MaxTime = 1
SPECIFICATION FairSpec
INVARIANTS TypeOK TimerBelongsToCurrent UniqueIds
PROPERTIES
  ImplementsQueue
  EmptyMissionEnds
