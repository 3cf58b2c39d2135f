SPECIFICATION FairTSpec
INVARIANTS TypesOK OneSession NoLeakedConnection ExitClosesSessions StreamIntact PanicHasCause
PROPERTIES EndLeadsToLogin ShutdownTerminates
CONSTANTS
    Listeners = {a1, a2}
    First = a1
    TokenLengths <- MCTokenLengths
    BufSize = 2
    MaxEmpty = 2
    InboxCap = 1
    Lengths <- MCLengths
    MaxWire = 1
    MaxBytes = 4
