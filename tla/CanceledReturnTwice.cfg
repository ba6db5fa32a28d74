SPECIFICATION Spec
CONSTANTS
    Questions                  = {q1, q2}
    Entries                    = {e1, e2, e3}
    Slots                      = {1}
    MaxCap                     = 1
    Root                       = 0
    MaxAnswerTableSize         = 2
    MaxFrameBytes              = 1
    MaxRetainedInputFrameBytes = 2
    MaxEvictionRetries         = 1
    MaxReferenceCount          = 1
    EvictionEnabled            = FALSE
    WasmHost                   = TRUE
    AnswerCancellation         = TRUE
    EarlyBootstrapFinish       = FALSE
    NoFinishReturns            = FALSE
    RelayMayFail               = FALSE
    SelfPipelining             = FALSE
    None                       = None
SYMMETRY Symmetric
INVARIANT OwnReturn
CHECK_DEADLOCK FALSE
