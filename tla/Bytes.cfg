CONSTANTS
    Tables <- MCTables
    MaxStreamFrames = 2
    MaxSegmentCount = 3
    MaxTraversalWords = 2
    MaxFrameBytes = 24
    MaxBufferedBytes = 36
    ChunkSizes = {4, 7, 24}
    ValidatesNesting = TRUE
    Shapes <- MCShapes
    Damages <- MCDamages
    MaxSegments = 2
    MaxMessageWords = 7
    MaxDamagedWords = 4
    HopLimit = 2
    OffsetRange = 64
    MaxNestingDepth = 6
    DefaultMaxWork = 1000
    DefaultMaxOutputWords = 1000
    MaxWork = 12
    MaxOutputWords = 6
    HalfRange = 16
    ByteBits = 2
    RpcMessages <- MCRpcMessages
    Exchanges <- MCExchanges
    Wrappers = {1, 2}
    Handles = {1, 2}
    Blocks = {1, 2, 3, 4, 5, 6}
    MaxDrainFrames = 2
    MaxDepth = 1
    MaxLost = 1
    Jobs = {1, 2}
    ImportRoots <- MCImportRoots
    SchemaNames = {"x", "y", "stream"}
    Bundled <- MCBundled
    Disks <- MCDisks
    Edited <- MCEdited
    Entrypoints <- MCEntrypoints
    MaxEdits = 1
    MaxBytes = 8
    MaxEntries = 9
    Invocations <- MCInvocations
    ToolRuns = {"r1", "r2", "r3"}
    Makes <- MCMakes
    WholeTree = {"r3"}
    Barrel = "mod"
    MaxDeletes = 1
    Requests <- MCRequests
    Stems <- MCStems
    RuntimeNames <- MCRuntimeNames
SPECIFICATION MCSpec
INVARIANT FramedAsSent
INVARIANT PointersMean
INVARIANT DecodesAsAsked
INVARIANT ValuesSurvive
INVARIANT AbiKept
INVARIANT ImportsFound
INVARIANT ToolRunsKept
CHECK_DEADLOCK FALSE
