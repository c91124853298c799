SPECIFICATION Spec
CONSTANTS
    Callers = {reconciler, apiCheck}
    HasWatchdog = TRUE
    Timeout = 8
    Lag = 1
    MaxFeedFailures = 1
INVARIANT StopIsSet
