\* Three waypoints and two blocks: a list that ends before the other does.
SPECIFICATION Spec
CONSTANTS
  NB_WAYPOINT = 3
  NB_BLOCK = 2
  Timeout = 3
  MaxInFlight = 3
INVARIANT TypeOK
PROPERTIES
  AckedUploadIsWritten
  TimesOutAfterSilence
  LinkLossEnds
