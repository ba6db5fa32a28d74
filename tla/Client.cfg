SPECIFICATION FairSpec
CONSTANTS
    RawCalls       = {r1}
    PipelinedCalls = {p1}
    OneWays        = {o1}
    WithCaps       = {p1}
    Repeated       = {p1}
    MaxCallbacks   = 1
    MaxOutstandingParamCapQuestions = 1
    SendMayFail    = TRUE
    MayCancel      = TRUE
    RemoteMayClose = TRUE
INVARIANT TablesExact
INVARIANT GrantsSettleOnce
PROPERTY OpsEnd
CHECK_DEADLOCK FALSE
