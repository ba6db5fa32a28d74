SPECIFICATION FairSpec
CONSTANTS
    Questions                  = {q1, q2}
    Entries                    = {e1, e2}
    Slots                      = {1}
    MaxCap                     = 0
    Root                       = 0
    MaxAnswerTableSize         = 2
    MaxFrameBytes              = 2
    MaxRetainedInputFrameBytes = 2
    MaxEvictionRetries         = 1
    MaxReferenceCount          = 2
    EvictionEnabled            = TRUE
    WasmHost                   = TRUE
    AnswerCancellation         = TRUE
    EarlyBootstrapFinish       = FALSE
    NoFinishReturns            = FALSE
    RelayMayFail               = TRUE
    SelfPipelining             = FALSE
    None                       = None
INVARIANT NoPrematureDrop
INVARIANT RetainedBytesExact
PROPERTY EvictionNeverCancels
PROPERTY CallsEnd
CHECK_DEADLOCK FALSE
