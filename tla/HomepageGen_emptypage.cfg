SPECIFICATION FairSpec
CONSTANTS
    Tab = {}
    MaxHeight = 1
    BatchBlocks = 2
    MaxMsgs = 1
    PollTicks = 1
    MaxCrashes = 1
    Block <- MCBlock
    HeightOf <- MCHeightOf
PROPERTIES PageStaysCurrent
