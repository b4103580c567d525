CONSTANT ArmingDelay = 3
SPECIFICATION Spec
INVARIANT MotorsInStep
PROPERTIES StartsByThrottle StartsBySwitch
