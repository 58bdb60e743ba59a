CONSTANTS
    Frames = 5
    SegmentFrames = 2
    MaxCommits = 4
    Liberties = {}
    NoFile = NoFile
    NoCheckpoint = NoCheckpoint
    NoOutput = NoOutput
    Settings <- MCSettings
    Releases <- MCReleases
    First = "current"
    DrainRetries = 1
    MaxSessions = 2
    MaxRuns = 3
    Reruns = FALSE
    MaxInterrupts = 2
    StartLimitBurst = 3
    p1 = p1
    p2 = p2
    FaceCount = 2
    Presets <- MCPresets
    Catalogued <- MCCatalogued
    Backends <- MCBackends
    MaxBatch = 2
    ChunkRows = 1
    SourceSlots = 1
    DeviceSlots = 1
    MaxFrames = 2
    MaxEdits = 1
SPECIFICATION MCSpec
INVARIANTS WorkIsNotLost ExitTells RestartFindsAWorker ShutdownIsOrderly SwapsAreOwn
PROPERTIES KeepsPromise ReplacedIsDrained PairComesBack
CHECK_DEADLOCK FALSE
