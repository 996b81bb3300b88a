SPECIFICATION Spec
CONSTANTS
    Host = {h1, h2}
    Origin = o
    First = h1
    MaxMsgs = 2
    Environment <- MCEnvironment
INVARIANTS TypeOK ResolvedWasHandled HandlerOncePerHost
PROPERTIES GateOrder
CHECK_DEADLOCK FALSE
