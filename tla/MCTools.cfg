SPECIFICATION Spec
CONSTANTS
    Rigs = {1, 2}
    MaxPackets = 2
    MaxCommands = 6
    Clients = {1, 2}
    Requests <- RequestsOf
    Destinations = {1}
    PacketKinds <- BatchSet
    MaxSessions = 2
    MaxBatches = 2
INVARIANTS
    CalibrationIsCurrent
PROPERTIES
    SnapshotsAreWhole
    EveryCallReturns
\* The calls and requests are used up.
CHECK_DEADLOCK FALSE
