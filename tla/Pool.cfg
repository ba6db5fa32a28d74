SPECIFICATION FairSpec
CONSTANTS
    Acquirers      = {a1, a2, a3}
    MaxConns       = 4
    MinConnections = 1
    MaxConnections = 1
    HealthChecks   = TRUE
    ConnectMayFail = TRUE
    MayAbort       = TRUE
    MayTimeOut     = TRUE
    MayEvict       = TRUE
    MayClose       = TRUE
    NoConn         = NoConn
INVARIANT PlacesKept
PROPERTY AcquiresEnd
PROPERTY ClosedPoolEmpties
CHECK_DEADLOCK FALSE
