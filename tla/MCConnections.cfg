SPECIFICATION MCSpec
CONSTANTS
    NumWorkers = 2
    MaxConnections = 1
    Fds = {7, 8}
    MaxConn = 2
    Broadcasters = {t1}
    MaxBroadcasts = 1
    NoThread = NoThread
    MaxSockets = 5
    MaxRetry = 2
    MaxPosted = 3
    Patient = TRUE
    Addr = {a, b}
    Rejected = {a}
    Closable = {b}
    MaxEntries = 4
    MaxCalls = 3
    Loop = l
    Writers = {w1, w2}
    Lens = {2}
    Fragments <- MCFragments
    WND_RCV = 3
    SND_WND = 3
    RCV_WND = 3
    FASTRESEND = 1
    FASTLIMIT = 1
    NoCwnd = FALSE
    MaxReplies = 1
    MaxDup = 1
INVARIANTS OutputExact ServedFromItsSlot LoadKnown  ReconnectsAsAsked CloseFindsItsEntry TimersOfLiveEntries ConversationSafe MessagesWhole
PROPERTIES ClosesOnceForReason ImplementsChannel
CHECK_DEADLOCK FALSE
