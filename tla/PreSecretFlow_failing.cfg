SPECIFICATION FairSpec
CONSTANTS
  MaxFailures = 3
  SkipNeedsSecondKey = TRUE
INVARIANT HandoffGuarded
PROPERTY BypassEndsInFirmware
CHECK_DEADLOCK FALSE
