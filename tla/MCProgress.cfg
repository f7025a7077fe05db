SPECIFICATION MCSpec
CONSTANTS
    Loop = l
    Writers = {}
    Closers = {c1}
    Lens = {2}
    MaxWriteBufsize = 3
    MaxWrites = 2
    MaxCloses = 2
    MaxConn = 1
    MayFail = TRUE
    LoopReads = FALSE
    CloseAgain = FALSE
    NoThread = NoThread
    Fragments <- MCFragments
    WND_RCV = 2
    SND_WND = 1
    RCV_WND = 2
    FASTRESEND = 0
    FASTLIMIT = 1
    NoCwnd = FALSE
    MaxReplies = 1
    MaxDup = 0
PROPERTIES CloseCompletes EveryMessageArrives
CHECK_DEADLOCK FALSE
