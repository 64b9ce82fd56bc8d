SPECIFICATION FairSpec
CONSTANTS
    DiskCapacity = 1
    MaxPackets = 2
    MaxCommands = 3
    Cameras = {0, 1}
    Destinations = {1}
    Time <- PacketTimes
    Surfaces = 2
    EncoderDepth = 1
INVARIANT
    RecordingIsTold
PROPERTIES
    FinalizedIsComplete
    FilesAreKept
    EveryCallReturns
\* The stage is over when stop() has returned and the commands are used up.
CHECK_DEADLOCK FALSE
