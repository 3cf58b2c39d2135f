SPECIFICATION Spec
INVARIANTS TypeOK LoopKeepsWinner LatestRowHasDetails
PROPERTY CommitIsAtomic
CONSTANTS
    m1 = m1  m2 = m2  m3 = m3  m4 = m4
    i1 = i1  i2 = i2
    NoMsg = NoMsg
    MaxSendTime = 2
    Isins = {i1, i2}
    Messages <- MCMessages
    IsinOf <- MCIsinOf
    SendTime <- MCSendTime
    Prices <- MCPrices
    Batches <- MCBatches
    ChunkSize = 2
    LastDay = 1
