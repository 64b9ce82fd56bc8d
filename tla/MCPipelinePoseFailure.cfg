SPECIFICATION FairSpec
CONSTANTS
    Modes <- VideoMode
    Failures <- PoseFailure
    ChannelCapacity = 2
    Batches = 7
PROPERTIES
    StageFailureEndsRun
\* A pose failure may leave a video run deadlocked: StageFailureEndsRun.
CHECK_DEADLOCK FALSE
