CONSTANTS
  Secondary = {1, 2, 3, 4, 5}
  Environment <- DeadFleetEnvironment
SPECIFICATION FairSpec
CHECK_DEADLOCK FALSE
PROPERTY DeadFleetIsDeclared
