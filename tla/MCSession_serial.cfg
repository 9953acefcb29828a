SPECIFICATION Spec
CONSTANTS
    Clients = {c1}
    Overlap = FALSE
    MaxTurns = 3
    Thresholds <- EveryTwo
    Refs = {f1}
    TokenUsage = {0}
    RunBound = 5
    Absent = Absent
    Empty = Empty
    Garbled = Garbled
    NoSession = NoSession
    NoRef = NoRef
INVARIANTS
    TypeOK
    FileReadable
    NoTurnLost
    TurnsNeedApproval
PROPERTIES
    FailedTurnChangesNothing
    PauseHolds
    FileImplementsLifecycle
