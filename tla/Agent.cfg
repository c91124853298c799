SPECIFICATION FairSpec
CONSTANTS
    Callers = {reconciler, apiCheck}
    HasWatchdog = TRUE
    Timeout = 8
    Lag = 1
    MaxFeedFailures = 1
INVARIANTS
    TypeOK
    FedInTime
    EndedAgentDisarms
PROPERTIES
    StopIsFinal
    RebootReturnsStopped
    StopLeadsToReboot
    RebootCarriedOut
    FailedRunnableEndsAgent
