SPECIFICATION Spec
CONSTANTS
    m1 = m1
    m2 = m2
    Models = {m1, m2}
    Namespaces = {"local", "cloud", "null"}
    Malformed = Malformed
    Missing = Missing
    NoTarget = NoTarget
    NoExc = NoExc
    NoFailure = NoFailure
    NoOutcome = NoOutcome
    Tasks <- AuditedCommand
    Configs <- EveryConfig
INVARIANTS
    ReviewIsAdversarial
CHECK_DEADLOCK FALSE
