SPECIFICATION Spec
CONSTANTS
    agent = agent
    host = host
    t1 = t1
    t2 = t2
    sh = sh
    cc = cc
    None = None
    Pids <- FourPids
    Root = agent
    Stranger = host
    Commands <- Programs
    Shells <- OneShell
    Codes <- TwoCodes
    Habits = {"thread", "kill", "reuse", "fail", "unread"}
    MaxCalls = 3
    TrackMax = 3
    ExecMax = 2
    RingMax = 2
    EventBufSize = 1
SYMMETRY
    Alike
INVARIANTS
    ExecsComplete
    ExitBelongs
    ExitIsEnd
    ExitCodeTrue
