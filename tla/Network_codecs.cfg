\* Every packet of seven connections, with options, odd lengths, padding and edits.
CONSTANTS
    LittleEndian = TRUE
    Connections <- MCConnections
    Texts <- MCTexts
    OptionLists <- MCOptionLists
    Marks <- MCMarks
    Fragments <- MCFragments
    TTLs <- MCTTLs
SPECIFICATION Spec
INVARIANTS
    TypeOK
    HeaderVerifies
    SegmentVerifies
    SurvivesTheWire
    IDIsTheConnection
    PacketsHaveTheID
