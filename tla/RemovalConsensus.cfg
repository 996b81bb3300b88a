CONSTANTS
  Secondary = {1, 2, 3, 4, 5}
  Environment <- MCEnvironment
SPECIFICATION FairSpec
CHECK_DEADLOCK FALSE
INVARIANT TypeOK
PROPERTY VouchedForIsSpared
PROPERTY CutOffIsSpared
PROPERTY SuspicionEnds
PROPERTY DeadIsRemoved
