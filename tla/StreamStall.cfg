SPECIFICATION StreamFairSpec
CONSTANTS
    Ops = {1,2,3}
    MaxInFlight = 2
    Streams <- MCStreams
    Sizes = {2}
    MayNest = TRUE
PROPERTY EveryOpEnds
CHECK_DEADLOCK FALSE
