CONSTANTS
    a = a
    b = b
    NoTask = NoTask
    Task = {a, b}
    DepSeq <- Chain2
    PayloadHash <- Hashes
    Replica = {1, 2}
    Environment <- MCSpawning
SPECIFICATION Spec
INVARIANTS NoLostWakeup
CHECK_DEADLOCK FALSE
