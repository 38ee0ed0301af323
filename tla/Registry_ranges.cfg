\* One client, and a proxy ID used by two streams with one of two CIDRs each.
CONSTANTS
    c1 = c1
    d1 = d1
    d2 = d2
    None = None
    Clients = {i1}
    Proxies = {p1}
    ClientStreams = {s1}
    ProxyStreams = {t1, t2}
    Conns <- OneConn
    Dests = {d1, d2}
    DestOf <- OneDest
    MayManage <- Reconfigured
    IdleTimeout = 1
    Window = 1
SPECIFICATION Spec
INVARIANTS
    ForwardedOnlyIntoManagedRange
