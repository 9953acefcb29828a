SPECIFICATION Spec
SYMMETRY Symmetry
CONSTANTS
    Clients = {c1, c2}
    Overlap = TRUE
    MaxTurns = 2
    Thresholds <- EveryOne
    Refs = {}
    TokenUsage = {0}
    RunBound = 2
    Absent = Absent
    Empty = Empty
    Garbled = Garbled
    NoSession = NoSession
    NoRef = NoRef
INVARIANTS
    SessionsCoherent
