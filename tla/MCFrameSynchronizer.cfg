SPECIFICATION FairSpec
CONSTANT
    Setups <- MCSetups
INVARIANTS
    BatchesAreSound
    DiscardIsSafe
PROPERTIES
    NothingStays
\* The worker ends with its inputs.
CHECK_DEADLOCK FALSE
