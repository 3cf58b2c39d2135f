SPECIFICATION FairSpec
PROPERTIES EveryQuoteSettles ShutdownTerminates
CONSTANTS
    m1 = m1  m2 = m2  m3 = m3  m4 = m4
    i1 = i1  i2 = i2  p1 = p1  p2 = p2  w1 = w1  w2 = w2
    NoMsg = NoMsg  Listener = Listener  Dispatcher = Dispatcher
    MaxSendTime = 3
    Isins <- MCIsins
    Messages <- MixedMessages
    IsinOf <- MixedIsinOf
    SendTime <- MixedSendTime
    Feed <- DeadFeed
    TestFeed <- MixedTestFeed
    Malformed <- DeadMalformed
    Partition <- MCPartition
    ParseWorkers = {p1, p2}
    DbWorkers = {w1, w2}
    RawCap = 1
    ParsedCap = 1
    DeadCap = 1
    BatchSize = 2
