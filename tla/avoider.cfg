CONSTANTS
  Width = 8
  Height = 1
  Arena <- MCArena
  ObstacleZone <- MCZone
  Home <- MCHome
  ImageHeight = 6
  Rows = {1, 4}
  MaxConfidence = 3
  StepLength = 1
  MaxDistance = 5
  LookAhead = 4
SPECIFICATION HFairSpec
INVARIANT TypeOK
PROPERTY StaysInside
PROPERTY NoAdvanceAfterBadStreak
PROPERTY KeepsExploring
