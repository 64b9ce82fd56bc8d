SPECIFICATION Spec
CONSTANTS
    Configurations <- MCConfigurations
    SampleCapacity = 1
    MaxConnections = 2
    Window = 3
    QueueCapacity = 2
    Jitter = 2
    Openings <- MCOpenings
    Ticks = 5
INVARIANTS
    InterfacesAreSafe
    EstimatesFollowTheHost
PROPERTIES
    RunEnds
\* The stage is stopped once, and a camera may stay silent for ever.
CHECK_DEADLOCK FALSE
