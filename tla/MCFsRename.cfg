SPECIFICATION Spec
CONSTANTS
    p1 = p1
    p2 = p2
    i1 = i1
    i2 = i2
    None = None
    Paths <- TwoPaths
    Inodes <- OneInode
    Existing <- NoPaths
    AgentOps <- Mover
    MaxOps = 5
    QueueMax = 4
    FastWriter = TRUE
    Nameless = {}
    Settle = 1
    HashErrors = {}
    PollErrors = FALSE
    Stopping = FALSE
INVARIANT
    RenameSafe
