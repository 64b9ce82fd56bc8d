SPECIFICATION Spec
CONSTANTS
    Cameras <- MCCameras
    Interval = 2
    Setups <- MCSetups
    ChannelCapacity = 2
    MaxBatches = 4
INVARIANTS
    EveryFrameOrAnError
    TimesIncrease
    FramesAreSound
PROPERTY
    SlotsComeBack
\* A run ends.
CHECK_DEADLOCK FALSE
