SPECIFICATION Spec
CONSTANTS
    Clients = {c1}
    Overlap = FALSE
    MaxTurns = 3
    Thresholds <- BudgetOne
    Refs = {f1}
    TokenUsage = {1}
    RunBound = 5
    Absent = Absent
    Empty = Empty
    Garbled = Garbled
    NoSession = NoSession
    NoRef = NoRef
PROPERTIES
    BudgetPauses
