SPECIFICATION Spec
CONSTANTS
    Block <- MCBlock
    HeightOf <- MCHeightOf
    BatchBlocks = 3
    Several <- MCSeveral
    HomePageSize = 2
    MultiTxPageSize = 1
    Window = 3
    Delays <- MCDelays
    MaxFailures = 4
INVARIANTS TypeOK WalkHasNoGap WalkReachesGenesis SuccessorConfirms WindowFits
PROPERTIES SpacedCalls
