SPECIFICATION MCSpec
CONSTANTS
    c1 = c1
    c2 = c2
    m = m
    v1 = v1
    v2 = v2
    Clients <- MCClients
    Main = m
    Values <- MCValues
    QueueCapacity = 1
    MaxCalls = 2
INVARIANTS
    PipelineIsOwned
    FailedStartRestores
PROPERTY
    EveryCallIsAnswered
\* Everything stops once stop() has returned.
CHECK_DEADLOCK FALSE
