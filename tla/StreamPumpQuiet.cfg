SPECIFICATION Spec
CONSTANTS
  MaxResponseBytes = 0
  MaxEvents = 1
INVARIANT DrainedMeansQuiet
CHECK_DEADLOCK FALSE
