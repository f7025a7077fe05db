SPECIFICATION ClockSpec
CONSTANTS
    Word = 256
    TicksPerMs = 4
    Interval = 2
    Rto = 3
    Skew = 16
    Starts = {0, 250, 760}
    Duration = 64
INVARIANT ResentAfterRto
CHECK_DEADLOCK FALSE
