SPECIFICATION LateSpec
CONSTANTS
    r1 = r1
    r2 = r2
    a = a
    b = b
    p1 = p1
    p2 = p2
    m1 = m1
    m2 = m2
    b1 = b1
    b2 = b2
    NoContent = NoContent
    Requests <- TwoRequests
    Contents <- TwoContents
    Pollers <- TwoPollers
    MultiTasks <- OneMultiTask
    Bm25Tasks <- TwoBm25Tasks
    MaxVersion = 2
    MaxRetries = 0
    ChunkerPresent = TRUE
    StageFaults = FALSE
    DbFaults = FALSE
    BrokerFaults = FALSE
    Crashes = FALSE
    PipelineFaults = FALSE
CHECK_DEADLOCK FALSE
SYMMETRY SymLate
INVARIANTS OnlySharedBroken IndexedAreReady ProcessingIsWorking OnlyRacedMissing HistoryInv
