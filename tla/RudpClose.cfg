SPECIFICATION RudpSpec
CONSTANTS
    Addr = {a, b}
    Rejected = {a}
    Closable = {a}
    MaxEntries = 4
    MaxCalls = 3
INVARIANT CloseFindsItsEntry
CHECK_DEADLOCK FALSE
