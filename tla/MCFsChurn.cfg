SPECIFICATION Spec
CONSTANTS
    p1 = p1
    p2 = p2
    i1 = i1
    i2 = i2
    None = None
    Paths <- TwoPaths
    Inodes <- TwoInodes
    Existing <- OnePath
    AgentOps <- Churner
    MaxOps = 3
    QueueMax = 2
    FastWriter = TRUE
    Nameless = {"delete"}
    Settle = 1
    HashErrors = {"read"}
    PollErrors = FALSE
    Stopping = FALSE
INVARIANTS
    HashAtClose
    ClosesAccounted
