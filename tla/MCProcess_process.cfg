CONSTANTS
    Relock <- BothToolchains
    Events = {"interrupt", "close"}
    MaxStarts = 2
    MaxEdits = 1
    MaxRequests = 2
    NoFile = NoFile
SPECIFICATION FairSpec
INVARIANTS
    TypeOK
    DestroyedAfterShutdown
    AtMostOneMore
    StartsAtSecondTry
    HistoryKept
PROPERTY
    ShutdownEnds
CHECK_DEADLOCK FALSE
