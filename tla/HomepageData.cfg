SPECIFICATION FairSpec
CONSTANTS
    Algos = 2
    MaxHeight = 2
    HashAt <- MCHashAt
    PeakAt <- MCPeakAt
    EraAt <- MCEraAt
INVARIANTS TypeOK RowsInOrder TotalNotBehindRows NominalIsEpoch StatusNotExaggerated
PROPERTIES StatsFollowNode
