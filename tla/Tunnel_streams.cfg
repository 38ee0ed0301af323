\* Two connections of the application and two of the proxy under one ID.
CONSTANTS
    Locals <- MCLocals
    Targets <- MCTargets
    ChanCap = 1
    Window = 2
    MaxChunks = 2
SPECIFICATION Spec
INVARIANTS
    TypeOK
PROPERTIES
    Streams
    Settles
CHECK_DEADLOCK FALSE
