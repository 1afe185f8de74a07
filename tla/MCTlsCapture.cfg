SPECIFICATION Spec
CONSTANTS
    agent = agent
    kid = kid
    thr = thr
    None = None
    Tids <- AgentAndThread
    Root = agent
    Leader <- LeaderOfThread
    Setups <- SomeSetups
    MaxWrite = 4
    MaxFaults = 1
    SSL_CAP_LEN = 3
    RingMax = 2
    ChanMax = 1
    MaxOther = 1
CHECK_DEADLOCK FALSE
INVARIANTS StreamFaithful StopDetaches
PROPERTIES StopEnds RequestsSettle
