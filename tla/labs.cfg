SPECIFICATION LabsSpec
CONSTANTS
    Scenarios <- MCScenarios
    Keys = {k1}
    NoKey = NoKey
    MaxConcurrent = 1
    Ttl = 30
    QueueFor = 1
    ProvisionFor = 1
    CollectFor = 1
    Sampling = 2
    Patience = 3
    MaxRuns = 2
    Horizon = 14
    Recordings <- MCRecordings
    MaxLoops = 4
    MaxMoves = 3
    Studies <- MCStudies
    Kept = 1
    MaxPolls = 2
    MaxQueued = 2
    Length = 5
    HintsFrom = 2
    HintsUntil = 4
    JudgedAt = 4
    WorksFrom = 1
    Frames = {1, 2}
    MaxEntries = 2
    Revealed = {e1, e2}
    Tools = {"console", "metrics"}
    QuickReads <- MCQuickReads
    Typed <- MCTyped
    NoLine = NoLine
    LastStage = 3
    MaxTranscript = 3
    Components = {"host", "proxy", "shop", "cart"}
    LayerOf <- MCLayerOf
    Wirings <- MCWirings
    Rolled = {"cart"}
    Searches <- MCSearches
    Nothing = Nothing
    MaxLoads = 2
INVARIANTS
    ReportOwnsUp OutputFollowsTheScript OneLoop AnswersFollowTheirLines
    OnePollAtATime EveryLinkIsDrawn
PROPERTIES FeedCatchesUp VerdictStands
CHECK_DEADLOCK FALSE
