SPECIFICATION Spec
CONSTANTS
    agent = agent
    host = host
    t1 = t1
    t2 = t2
    f1 = f1
    web = web
    dns = dns
    unix = unix
    sni = sni
    None = None
    Pids <- ThreePids
    Root = agent
    Stranger = host
    Fds <- OneFd
    Peers <- AllPeers
    DnsPeers <- DnsOnly
    LocalPeers <- UnixOnly
    Names <- OneName
    Readable = {TRUE, FALSE}
    Habits = {"stranger", "thread", "sendmsg"}
    MaxConns = 2
    TrackMax = 9
    ConnMax = 9
    RingMax = 2
    ChanMax = 1
    EventBufSize = 1
INVARIANT
    GoneReported
