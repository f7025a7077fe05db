SPECIFICATION EvSpec
CONSTANT EarlyStop = TRUE
INVARIANT StopIsHeard
