SPECIFICATION FairSpec
CONSTANTS
    Losses = {"apiLost", "cutOff"}
    MaxPeers = 13
    PeerCounts = {0, 1, 4, 13}
    MaxErrorsThreshold = 3
    CheckInterval = 3
    ApiServerTimeout = 1
    PeerDialTimeout = 1
    PeerRequestTimeout = 1
    TimeToAssumeNodeRebooted = 48
    Buffer = 3
    Watchdogs = {TRUE, FALSE}
    WatchdogTimeout = 12
    ReactTime = 2
INVARIANTS
    CountsInRange
    EveryPeerCounted
    FencedInTime
PROPERTIES
    RebootIsJustified
    CutOffNodeReboots
