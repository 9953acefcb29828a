SPECIFICATION FairSpec
CONSTANTS
    Servers = {"asgi", "stdlib"}
    Clients = {c1}
    Overlap = FALSE
    Streams = {s1}
    MaxTurns = 2
    Thresholds <- EveryTurn
    RequestBound = 4
    Nobody = Nobody
    NoRequest = NoRequest
INVARIANTS
    TypeOK
    AnswersTrue
    EndingsTold
    StreamsInOrder
PROPERTIES
    CompleteIsFinal
    KeepsLifecycle
    StreamsCatchUp
CHECK_DEADLOCK FALSE
