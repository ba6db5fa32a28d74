SPECIFICATION Spec
CONSTANTS
    Questions                  = {q1, q2}
    Entries                    = {e1, e2, e3}
    Slots                      = {1}
    MaxCap                     = 1
    Root                       = 0
    MaxAnswerTableSize         = 2
    MaxFrameBytes              = 1
    MaxRetainedInputFrameBytes = 2
    MaxEvictionRetries         = 1
    MaxReferenceCount          = 2
    EvictionEnabled            = FALSE
    WasmHost                   = FALSE
    AnswerCancellation         = FALSE
    EarlyBootstrapFinish       = FALSE
    NoFinishReturns            = FALSE
    RelayMayFail               = FALSE
    SelfPipelining             = TRUE
    None                       = None
SYMMETRY Symmetric
INVARIANT TypeOK
INVARIANT HoldsExact
INVARIANT AnswerHoldsKeepCaps
INVARIANT CallerMirrored
INVARIANT PipelineRefExact
PROPERTY NoGrantAfterFinish
CHECK_DEADLOCK FALSE
