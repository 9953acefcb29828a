SPECIFICATION FairSpec
CONSTANTS
    MaxSteps = 3
    Values = {v1, v2}
    Failures = {timeout}
    NoFailure = NoFailure
    Always = Always
    NoIndex = NoIndex
    NoResult = NoResult
INVARIANTS
    TypeOK
    ResultMatchesEvents
    EventsInOrder
    ContextDecides
PROPERTIES
    KeepsPromise
    Returns
CHECK_DEADLOCK FALSE
