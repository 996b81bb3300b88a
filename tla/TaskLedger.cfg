CONSTANTS
    a = a
    b = b
    NoTask = NoTask
    Task = {a, b}
    DepSeq <- Chain2
    PayloadHash <- Hashes
    Replica = {1, 2}
    Environment <- MCEnvironment
SPECIFICATION FairSpec
INVARIANTS TypeOK BlockedOnPrerequisite QuiescentAgreement
PROPERTIES TerminalLockout RetrySurvives ImplementsLeadership EventuallyAgree
CHECK_DEADLOCK FALSE
