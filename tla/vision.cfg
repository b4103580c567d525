CONSTANTS
  Height = 7
  Tolerance = 2
  RowKinds <- AnyRow
  Arena <- HomeOnly
  ObstacleZone <- HomeOnly
  Home <- HomePoint
  ImageHeight = 6
  Rows = {4}
  MaxConfidence = 2
  StepLength = 1
  MaxDistance = 5
  LookAhead = 1
  Filters = {1, 2}
  MaxFrame = 2
SPECIFICATION VisionSpec
INVARIANTS ScanTypeOK DirectionInImage FindsLongestStrip TypeOK MutexProtects
PROPERTIES EveryFrameDelivered DecidesOnFreshFrame
