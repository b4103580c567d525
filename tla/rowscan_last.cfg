CONSTANTS
  Height = 7
  Tolerance = 2
  RowKinds <- AnyRow
SPECIFICATION ScanSpec
INVARIANT GreatestFreeRun
CHECK_DEADLOCK FALSE
