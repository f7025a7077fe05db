SPECIFICATION RuSpec
CONSTANTS
    Byte = {0, 1, 2}
    Lengths = {2, 4}
    Delims = {1}
    ReadBufSize = 3
    MaxBufSize = 12
    MaxBytes = 5
    FullReads = TRUE
INVARIANT ReadHasRoom
CHECK_DEADLOCK FALSE
