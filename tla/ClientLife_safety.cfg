\* Two processes, each of which may run again and again with other settings.
CONSTANTS
    Procs = {q1, q2}
    wide = wide
    narrow = narrow
    garbled = garbled
    here = here
    there = there
    None = None
    Texts <- MCTexts
    Cidrs <- MCCidrs
    Covers <- MCCovers
    Defaults <- MCDefaults
    Settings <- MCSettings
SPECIFICATION Spec
SYMMETRY Symmetry
INVARIANTS
    TypeOK
    RulesAccounted
    RunningIsRedirected
