SPECIFICATION Spec
CONSTANTS
    agent = agent
    kid = kid
    thr = thr
    None = None
    Tids <- AgentAndChild
    Root = agent
    Leader <- LeaderOfChild
    Setups <- RightFirst
    MaxWrite = 5
    MaxFaults = 0
    SSL_CAP_LEN = 4
    RingMax = 2
    ChanMax = 1
    MaxOther = 1
INVARIANT OwnFrame
