\* One connection ID and two connections that have it, the second as early as
\* the kernel allows.
CONSTANTS
    Conns = {c1}
    Locals = {k1, k2}
    None = None
    ChanCap = 1
    MaxIn = 1
    SeqMod = 1
SPECIFICATION Spec
SYMMETRY Symmetry
INVARIANTS
    TypeOK
    TrackedOpen
    UsableIsTracked
