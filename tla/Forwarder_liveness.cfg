\* One connection ID, one target connection.
CONSTANTS
    Conns = {c1}
    Socks = {k1}
    None = None
    ChanCap = 1
    MaxIn = 1
    SeqMod = 1
SPECIFICATION FairSpec
PROPERTIES
    StopCompletes
    ClosedReaderEnds
