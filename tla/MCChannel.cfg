SPECIFICATION FairSpec
CONSTANTS
    s1 = s1
    s2 = s2
    r1 = r1
    r2 = r2
    Senders <- MCSenders
    Receivers <- MCReceivers
    MaxCapacity = 2
    MaxSends = 5
INVARIANTS
    Accounting
    NoLostWakeup
PROPERTIES
    ImplementsLossyQueue
    CloseReleasesEveryone
