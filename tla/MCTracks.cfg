CONSTANTS
    None = None
    MaxSparseNetEdges = 2
    RowTolerance = 6
    MinRouteSegment = 12
    MinChannelEdges = 2
    MinOuterBranches = 2
    MinSideGain = 1
    MaxBatchedSides = 1
    Sheets <- MCSheets
SPECIFICATION ChannelsSpec
INVARIANTS
    TracksDescribeSpacing
