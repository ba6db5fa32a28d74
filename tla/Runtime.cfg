SPECIFICATION MCSpec
CONSTANTS
    MaxFrames               = 3
    MaxReplies              = 2
    MaxHostReplies          = 2
    DrainLimit              = 8
    AwaitsFrames            = TRUE
    ErrorsHandled           = {TRUE}
    PushMayFail             = FALSE
    SendMayFail             = FALSE
    RemoteMayClose          = FALSE
    DefersSends             = TRUE
    MaxStarts               = 2
    FrameKinds              = {"bootstrap", "call"}
    MaxCallsPerInboundFrame = 1
    MaxCallsTotal           = 2
    FailOnLimit             = FALSE
    ManualPump              = FALSE
    InnerSendMayFail        = FALSE
    BridgeMayRefuse         = TRUE
INVARIANT QueuesKept
INVARIANT SentOnceObserved
PROPERTY CoreContract
PROPERTY ImplementsFramePump
PROPERTY AnswersArrive
CHECK_DEADLOCK FALSE
