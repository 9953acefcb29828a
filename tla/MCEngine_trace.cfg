SPECIFICATION Spec
CONSTANTS
    m1 = m1
    m2 = m2
    Models = {m1, m2}
    Namespaces = {"local", "cloud", "null"}
    Malformed = Malformed
    Missing = Missing
    NoTarget = NoTarget
    NoExc = NoExc
    NoFailure = NoFailure
    NoOutcome = NoOutcome
    Tasks <- EveryTask
    Configs <- EveryConfig
INVARIANTS
    ExceptionsFailTrace
CHECK_DEADLOCK FALSE
