CONSTANTS
  InFlightTime = 3
  ArmingDelay = 3
  LostTime = 1
  ReallyLostTime = 2
  KillSwitch = TRUE
  TakeoffModule = FALSE
SPECIFICATION FairSpec
INVARIANT TypeOK
INVARIANT KilledIsOff
INVARIANT KillThrottleTellsMotors
PROPERTY ArmedByStick
PROPERTY LandingIsNoticed
PROPERTY LostPilotStopsMotors
