SPECIFICATION MCSpec
CONSTANTS
    MaxQuestions = 2
    Timeouts     = TRUE
    SendMayFail  = TRUE
    MayClose     = TRUE
    Ops = {1, 2, 3}
    MaxInFlight = 2
    Streams <- MCStreams
    Sizes = {2}
    MayNest = TRUE
    Transports = {"tcp", "webtransport", "websocket", "messagePort"}
    MaxIn = 1
    MaxOut = 2
    MaxQueuedOutboundFrames = 1
    Bootstraps = {1}
    PlainCalls = {}
    CallbackCalls = {2, 3}
    MaxGrants = 1
    Repeated = {2}
    MaxWireQuestions = 2
    Accepts = {a}
    Awaits = {u, v, w}
    MaxDrained = 2
INVARIANT RegisteredWhileAwaited
INVARIANT StreamKept
INVARIANT SentFramesOnWire
INVARIANT ReferencesKept
PROPERTY SilentWhenClosed
PROPERTY EverythingEnds
CHECK_DEADLOCK FALSE
