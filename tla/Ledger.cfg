SPECIFICATION PageSpec
CONSTANTS
    Block <- MCBlock
    HeightOf <- MCHeightOf
    BatchBlocks = 2
    Tx <- MCTx
    Out <- MCOut
    In <- MCIn
    Address <- MCAddress
    NoIn = NoIn
    TxsOf <- MCTxsOf
    OutsOf <- MCOutsOf
    InsOf <- MCInsOf
    Prev <- MCPrev
    Owner <- MCOwner
    Value <- MCValue
    Reported <- MCReported
    Decodable <- MCDecodable
    OldIndex <- MCOldIndex
    FlushRows = 2
INVARIANTS TypeOK SpentMatchesInputs NoOverdraft BalanceMatchesHistory BackfillComplete HistoryReachesBalance
CHECK_DEADLOCK FALSE
