SPECIFICATION FairSpec
CONSTANTS
    Modes <- AllModes
    Failures <- AnyFailure
    ChannelCapacity = 2
    Batches = 4
INVARIANTS
    VideoIsLossless
    RunEndsCleanly
    StopKeepsRecording
PROPERTY
    EndsUnlessStuck
\* A pose failure may leave a video run deadlocked: StageFailureEndsRun.
CHECK_DEADLOCK FALSE
