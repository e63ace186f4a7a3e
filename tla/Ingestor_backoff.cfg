SPECIFICATION Spec
CONSTANTS
    NoBlock = NoBlock
    g = g a1 = a1 a2 = a2 b2 = b2 b3 = b3
    Block <- MCBlock
    HeightOf <- MCHeightOf
    ParentOf <- MCParentOf
    Chains <- MCChains
    BatchBlocks = 2
    UseZMQ = TRUE
    MaxReorgs = 1
    MaxCrashes = 1
    MaxNotify = 1
    MaxLag = 1
INVARIANTS BackoffBeforeRetry
