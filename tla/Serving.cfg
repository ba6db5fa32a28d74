SPECIFICATION MCSpec
CONSTANTS
    Conns = {c1, c2}
    MaxActive = 1
    InitTimeout = TRUE
    ForceAfter = TRUE
    Peers = {p1, p2}
    ListenerKinds = {"tcp", "websocket", "webtransport"}
    ConnectKinds = {"tcp", "websocket", "webtransport"}
    MaxDials = 2
    ConnectTimeouts = TRUE
    Outbound = {1, 2, 3}
    Inbound = {4, 5}
    LargeFrames = {2, 4}
    Stacks <- MCStacks
    SnapshotInterval = 2
    Operations = {1, 2, 3}
    MaxConnects = 3
    MaxAttempts = 1
    CapIndexes = {0, 1}
    Calls                  = {k1, k2, k3, k4}
    MaxConsecutiveFailures = 2
    CooldownMs             = 2
    MayReset               = TRUE
    MaxTime                = 5
INVARIANT ServiceKept
INVARIANT ConnectionsKept
INVARIANT TripsAtThreshold
INVARIANT OneProbe
PROPERTY NothingAfterShutdown
PROPERTY EverythingEnds
CHECK_DEADLOCK FALSE
