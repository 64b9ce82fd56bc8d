SPECIFICATION Spec
CONSTANTS
    ViewCount = 4
    CandidateCount <- MCCandidateCount
    Costs = {1, 2}
    INF = 10000000
    Gate = 3
    MaxPersons = 1
    MaxTracks = 50
    RowCount = 3
    RealColumns = 3
    DummyColumns = 3
    Matrices <- MCMatrices
    Infinity = 10000000
    MatchGate = 3
    Count = 2
    RowLimit = 3
    Scenes <- SceneSet
    EpipolarGate = 4
    InvalidCost = 10000000
    Slots = 2
    Views <- MCViews
    Candidates <- MCCandidates
    DormantAfter = 2
    Lifetime = 1
    Interval = 2
    MaxId = 3
INVARIANTS
    AssignmentIsOptimal
    AssociationIsConsistent
    EpipolarRowsAreRight
    TracksAreSound
    OneTrackPerDetection
    JointsBelongToIdentity
PROPERTY
    IdentitiesAreFresh
