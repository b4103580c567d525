CONSTANTS
  Width = 6
  Height = 1
  Arena <- MCArena
  ObstacleZone <- MCZone
  Home <- MCHome
  ImageHeight = 6
  Rows = {1, 4}
  MaxConfidence = 2
  StepLength = 1
  MaxDistance = 5
  LookAhead = 3
SPECIFICATION HSpec
PROPERTY ObstacleStopsDrone
