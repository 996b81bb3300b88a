CONSTANTS
  Node = {1, 2, 3}
  Environment <- MCEnvironment
SPECIFICATION FairSpec
CHECK_DEADLOCK FALSE
INVARIANT TypeOK
INVARIANT OneLeaderPerEpoch
INVARIANT FollowsTheWilling
PROPERTY LivePrimaryStays
PROPERTY FailoverCompletes
PROPERTY ImplementsLeadership
