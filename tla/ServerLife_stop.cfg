\* Two clients of one ID and a proxy, with every order of their ends and stop's steps.
CONSTANTS
    c1 = c1
    c2 = c2
    p1 = p1
    a = a
    b = b
    None = None
    ClientStreams <- MCClientStreams
    ProxyStreams <- MCProxyStreams
    Ids <- MCIds
    IdOf <- MCIdOf
SPECIFICATION Spec
INVARIANTS
    TypeOK
    DrainedBeforeCleanup
    EntriesOwned
    ProxiesOutlastClients
PROPERTIES
    StopCompletes
