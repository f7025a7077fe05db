SPECIFICATION Spec
CONSTANTS
    Loop = l
    Writers = {w1}
    Closers = {}
    Lens = {1, 2}
    MaxWriteBufsize = 3
    MaxWrites = 1
    MaxCloses = 2
    MaxConn = 2
    MayFail = TRUE
    LoopReads = FALSE
    CloseAgain = FALSE
    NoThread = NoThread
INVARIANTS RightConnection
CHECK_DEADLOCK FALSE
