CONSTANT ArmingDelay = 3
SPECIFICATION Spec
PROPERTY StartsOnRequest
