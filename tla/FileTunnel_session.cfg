SPECIFICATION FairSpec
CONSTANTS
    FileLen = 3
    FrameLimit = 2
    MaxSkipped = 1
    CancelMaxSkipped = 2
    SeqMax = 3
    MaxRequests = 3
    MaxDefects = 1
    WireCap = 1
INVARIANTS SessionKept OwnFrames TransfersWhole
PROPERTIES EveryOperationReturns
