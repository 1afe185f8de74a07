SPECIFICATION Spec
CONSTANTS
    p1 = p1
    p2 = p2
    i1 = i1
    i2 = i2
    None = None
    Paths <- OnePath
    Inodes <- OneInode
    Existing <- NoPaths
    AgentOps <- Rewriter
    MaxOps = 4
    QueueMax = 4
    FastWriter = TRUE
    Nameless = {}
    Settle = 1
    HashErrors = {"open"}
    PollErrors = TRUE
    Stopping = TRUE
CHECK_DEADLOCK FALSE
INVARIANTS
    TypeOK
    HashAtClose
    OwnOpensSuppressed
    ClosesAccounted
PROPERTIES
    ClosesEventuallyEmitted
    StopReturns
