\* Two reads of one connection before the first packet is sent.
CONSTANTS
    Conns = {c1}
    Locals = {k1}
    None = None
    ChanCap = 1
    MaxIn = 1
    SeqMod = 2
SPECIFICATION Spec
PROPERTIES
    DataIntact
