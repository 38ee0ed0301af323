\* Two client streams that may use the same ID or two, one proxy stream that
\* covers the destination or nothing, one connection that both clients use.
CONSTANTS
    c1 = c1
    d1 = d1
    d2 = d2
    None = None
    Clients = {i1, i2}
    Proxies = {p1}
    ClientStreams = {s1, s2}
    ProxyStreams = {t1}
    Conns <- OneConn
    Dests = {d1}
    DestOf <- OneDest
    MayManage <- CoverOrNot
    IdleTimeout = 1
    Window = 1
SPECIFICATION Spec
SYMMETRY Symmetry
INVARIANTS
    TypeOK
    RegistryOwned
    DeliveredOnlyToOriginator
    PacketsOnlyRegistered
PROPERTIES
    RoutePinned
