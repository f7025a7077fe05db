SPECIFICATION MCSpec
CONSTANTS
    Posters = {p1, p2}
    Stoppers = {s1}
    Pausers = {}
    LoopThread = l
    MaxPosts = 1
    CanFail = FALSE
    None = None
    NoEvent = NoEvent
    Timeouts = {t1, t2}
    Periods = {}
    Idles = {}
    Ios = {}
    Delays = {1, 2}
    Repeats = {0, 1}
    INFINITE = 2
    GRAN = 2
    COARSE = 2
    MaxBlock = 1
    MaxCallsMade = 3
    MaxRuns = 2
    QuitWhenIdle = FALSE
    DelAfterReset = FALSE
    DelAfterStop = FALSE
INVARIANT FunctorsAccounted
PROPERTIES EveryFunctorRuns StopEndsRun TimerFires
CHECK_DEADLOCK FALSE
