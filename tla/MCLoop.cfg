SPECIFICATION MCSpec
CONSTANTS
    Posters = {p1, p2}
    Stoppers = {s1}
    Pausers = {u1}
    LoopThread = l
    MaxPosts = 1
    CanFail = TRUE
    None = None
    NoEvent = NoEvent
    Timeouts = {t1}
    Periods = {d1}
    Idles = {i1}
    Ios = {io1, io2}
    Delays = {1}
    Repeats = {1, 3}
    INFINITE = 3
    GRAN = 1
    COARSE = 2
    MaxBlock = 1
    MaxCallsMade = 4
    MaxRuns = 1
    QuitWhenIdle = TRUE
    DelAfterReset = FALSE
    DelAfterStop = FALSE
    TimerID = {id1, id2}
    MaxTimers = 3
    TimerRepeats = {1, 3}
    FOREVER = 3
    MaxTimerCalls = 4
    Rearm = FALSE
    HeapNode = {n1, n2, n3, n4, n5, n6}
    Key = {1, 2}
    MaxKey = 8
    NFds = 3
    Used <- MCUsed
    Readiness <- MCReadiness
    MaxPolls = 2
    Kinds = {"keepalive"}
    Millis = {0, 150, 1100}
    Starts = {50300}
    Steps = {149900, 700400}
    MaxTime = 1500000
    Settings <- MCSettings
    MaxLength = 6
    BufSize = 2
    HighWater = 3
    VarintMax = 2
    Byte = {0, 1, 2}
    Lengths = {2, 4}
    Delims = {1}
    ReadBufSize = 3
    MaxBufSize = 12
    MaxBytes = 5
    FullReads = FALSE
INVARIANTS EventsFreedOnce CountersAgree WakeupAccounted TableMatchesHeap HeapInOrder RedBlack SilenceIsNoticed ReadyIsReported PacketsCut PiecesExact
PROPERTIES CallbacksDue
CHECK_DEADLOCK FALSE
