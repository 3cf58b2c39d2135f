SPECIFICATION FairSpec
INVARIANTS TypeOK KeepsNewest FileBounded StartsWhole
PROPERTIES LoggersProceed
CHECK_DEADLOCK FALSE
CONSTANTS
    MaxFileNum = 4
    MaxSize = 2
    CheckEvery = 2
    ChanCap = 1
    MaxWritten = 9
    app = app  bond = bond  fund = fund
    AppKey = app
    BondKey = bond
    NacosKeys <- MCNacosKeys
    MaxStarts = 2
