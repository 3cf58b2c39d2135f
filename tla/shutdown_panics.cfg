SPECIFICATION Spec
INVARIANT ShutdownNeverPanics
CONSTANTS
    m1 = m1  m2 = m2  m3 = m3  m4 = m4
    i1 = i1  i2 = i2  p1 = p1  p2 = p2  w1 = w1  w2 = w2
    NoMsg = NoMsg  Listener = Listener  Dispatcher = Dispatcher
    MaxSendTime = 3
    Isins <- MCIsins
    Messages <- TwoMessages
    IsinOf <- TwoIsinOf
    SendTime <- TwoSendTime
    Feed <- TwoFeed
    TestFeed <- NoFeed
    Malformed = {}
    Partition <- OneWriter
    ParseWorkers = {p1}
    DbWorkers = {w1}
    RawCap = 1
    ParsedCap = 1
    DeadCap = 1
    BatchSize = 2
