SPECIFICATION FairSpec
CONSTANTS
    Modes <- VideoMode
    Failures <- NoFailure
    ChannelCapacity = 2
    Batches = 2
PROPERTIES
    EofKeepsRecording
