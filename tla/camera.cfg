CONSTANTS
  Buffer = {b1, b2, b3}
  Thread = {t1}
  Image = {i1, i2}
  None = None
  WaitsForThreads = TRUE
SPECIFICATION FairSpec
CHECK_DEADLOCK FALSE
INVARIANTS TypeOK OneOwner
PROPERTIES
  ImplementsSource
  CopyIsStable
  HandedImageIsProcessed
  ImagesKeepComing
  StopClosesCapture
