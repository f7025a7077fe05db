SPECIFICATION LoopSpec
CONSTANTS
    Timeouts = {t1, t2}
    Periods = {}
    Idles = {}
    Ios = {}
    Delays = {1, 2}
    Repeats = {0, 1, 2}
    INFINITE = 3
    GRAN = 2
    COARSE = 2
    MaxBlock = 1
    MaxCallsMade = 5
    MaxRuns = 2
    QuitWhenIdle = FALSE
    DelAfterReset = TRUE
    DelAfterStop = FALSE
    NoEvent = NoEvent
INVARIANTS NoDanglingPendings
CHECK_DEADLOCK FALSE
