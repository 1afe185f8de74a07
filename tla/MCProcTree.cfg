SPECIFICATION Spec
CONSTANTS
    agent = agent
    host = host
    t1 = t1
    t2 = t2
    sh = sh
    cc = cc
    None = None
    Pids <- FourPids
    Root = agent
    Stranger = host
    Commands <- Programs
    Shells <- OneShell
    Codes <- OneCode
    Habits = {"stranger"}
    MaxCalls = 4
    TrackMax = 9
    ExecMax = 9
    RingMax = 2
    EventBufSize = 1
SYMMETRY
    Alike
INVARIANTS
    RootSuppressed
    TopLevelChain
    OnlyDescendants
