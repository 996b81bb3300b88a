CONSTANTS
  Node = {1, 2, 3, 4}
  Environment <- MCCandidateDies
SPECIFICATION Spec
CHECK_DEADLOCK FALSE
INVARIANT NoWedge
