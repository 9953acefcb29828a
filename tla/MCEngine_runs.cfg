SPECIFICATION FairSpec
CONSTANTS
    m1 = m1
    m2 = m2
    Models = {m1, m2}
    Namespaces = {"local", "cloud", "null"}
    Malformed = Malformed
    Missing = Missing
    NoTarget = NoTarget
    NoExc = NoExc
    NoFailure = NoFailure
    NoOutcome = NoOutcome
    Tasks <- EveryTask
    Configs <- EveryConfig
INVARIANTS
    TypeOK
    EventsInOrder
    ResultMatchesRecords
    TraceTells
    FailureNamesPlace
    CapabilityFirst
    LogTellsOutcome
    OnlyFallbacksCollapse
PROPERTIES
    KeepsBounds
    EndsUnlessStuck
CHECK_DEADLOCK FALSE
