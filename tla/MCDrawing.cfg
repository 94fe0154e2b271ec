CONSTANTS
    ChainWeight = 64
    LargeHotNets = 1
    InteractiveNodes = 5
    MaxAccessWork = 18
    MaxBatchedSides = 1
    MaxChainNodes = 6
    MaxGlobalGapLanes = 3
    MaxGroups = 2
    MaxLargeAccessWork = 110
    MaxLargeGlobalGapLanes = 5
    MaxLargePairs = 20
    MaxMembers = 4
    MaxPairs = 3
    MaxPitchedNets = 5
    MaxPitchedPairs = 15
    MaxPitchedRefinements = 13
    MaxPitchedVisits = 15
    MaxRefinedLaneWork = 540
    MaxSparseNetEdges = 2
    MinChannelEdges = 2
    MinGlobalGapOrderGain = 2
    MinOuterBranches = 2
    MinRepairNet = 2
    MinRepairTotal = 5
    MinSideGain = 1
    Netlists <- MCNetlists
    None = None
    Openings <- MCOpenings
    PreferredWeight = 32
    PreservedHotNets = 2
    PreservedRounds = 3
    Problems <- MCProblems
    RefinedHotNets = 4
    RefinedRounds = 4
    RowTolerance = 6
    MinRouteSegment = 12
    Sheets <- MCSheets
    StackFactor = 3
    Unit = 4
SPECIFICATION Spec
INVARIANTS
    OrdersEarnTheirDrawing
    LanesServeTheirNets
    GapsHoldTheirNets
    AlignmentKeepsGaps
    FramesAreTheirOwn
    EscapesKeepApart
PROPERTIES
    OuterLanesAreOwn
