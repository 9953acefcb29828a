SPECIFICATION Spec
CONSTANTS
    Servers = {"asgi"}
    Clients = {c1, c2}
    Overlap = TRUE
    Streams = {s1}
    MaxTurns = 2
    Thresholds <- EveryTurn
    RequestBound = 4
    Nobody = Nobody
    NoRequest = NoRequest
INVARIANT AnswersOwn
CHECK_DEADLOCK FALSE
