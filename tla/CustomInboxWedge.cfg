SPECIFICATION Spec
CONSTANTS
    Host = {h1, h2}
    Origin = o
    First = h1
    MaxMsgs = 2
    Environment <- MCTakeover
INVARIANT NeverWedged
CHECK_DEADLOCK FALSE
