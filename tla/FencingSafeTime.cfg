SPECIFICATION Spec
CONSTANTS
    Losses = {"cutOff"}
    MaxPeers = 15
    PeerCounts = {0, 15}
    MaxErrorsThreshold = 3
    CheckInterval = 3
    ApiServerTimeout = 1
    PeerDialTimeout = 1
    PeerRequestTimeout = 1
    TimeToAssumeNodeRebooted = 36
    Buffer = 3
    Watchdogs = {TRUE}
    WatchdogTimeout = 12
    ReactTime = 2
INVARIANT FencedInTime
