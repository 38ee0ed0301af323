\* One connection.
CONSTANTS
    Conns = {c1}
    Locals = {k1}
    None = None
    ChanCap = 1
    MaxIn = 1
    SeqMod = 1
SPECIFICATION FairSpec
PROPERTIES
    ClosedHandlerEnds
    StopReturns
