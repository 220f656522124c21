SPECIFICATION Spec
CONSTANTS
  MaxFailures = 1
  SkipNeedsSecondKey = TRUE
INVARIANT HandoffVerified
CHECK_DEADLOCK FALSE
