SPECIFICATION FairSpec
CONSTANTS
    Tab = {t1}
    MaxHeight = 1
    BatchBlocks = 2
    MaxMsgs = 1
    PollTicks = 1
    MaxCrashes = 1
    Block <- MCBlock
    HeightOf <- MCHeightOf
INVARIANTS TypeOK ServedWhole PageConsistent NoLostUpdate
PROPERTIES PageNeverGoesBack TabsFollowPage PageFollowsIndex
