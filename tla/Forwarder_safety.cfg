\* One connection ID and the two target connections it has in succession.
CONSTANTS
    Conns = {c1}
    Socks = {k1, k2}
    None = None
    ChanCap = 1
    MaxIn = 1
    SeqMod = 3
SPECIFICATION Spec
SYMMETRY Symmetry
INVARIANTS
    TypeOK
    ConnectionsOpen
    StoppedClean
    ResponsesInOrder
