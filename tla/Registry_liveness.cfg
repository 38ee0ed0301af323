\* Two proxy streams of one proxy ID that contend for it, one client stream.
CONSTANTS
    c1 = c1
    d1 = d1
    d2 = d2
    None = None
    Clients = {i1}
    Proxies = {p1}
    ClientStreams = {s1}
    ProxyStreams = {t1, t2}
    Conns <- OneConn
    Dests = {d1}
    DestOf <- OneDest
    MayManage <- AllCover
    IdleTimeout = 0
    Window = 1
SPECIFICATION FairSpec
PROPERTIES
    RegistrationAnswered
    QuietRouteReclaimed
    EndedStreamUnregistered
