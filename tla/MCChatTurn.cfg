\* Two iterations, up to two tool calls in a response, with or without an id
\* and a name; the first failure trips the breaker for one tick.
SPECIFICATION MCSpec
CONSTANTS
    Threshold = 1
    Cooldown = 1
    HasFallback = TRUE
    MaxIterations = 2
    Indices = {0, 1}
    Tools = {docs_search}
    OtherNames = {invented}
    NoName = no_name
    ProviderIds = {given}
    NoId = no_id
    MaxClock = 1
CHECK_DEADLOCK FALSE
INVARIANTS
    TurnTypeOK
    RequestWellFormed
PROPERTIES
    ExchangeKept
    FollowsProtocol
    TurnEnds
