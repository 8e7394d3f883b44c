SPECIFICATION Spec
CONSTANTS
    r1 = r1
    r2 = r2
    a = a
    b = b
    p1 = p1
    p2 = p2
    m1 = m1
    m2 = m2
    b1 = b1
    b2 = b2
    NoContent = NoContent
    Requests <- OneRequest
    Contents <- OneContent
    Pollers <- OnePoller
    MultiTasks <- TwoMultiTasks
    Bm25Tasks <- TwoBm25Tasks
    MaxVersion = 1
    MaxRetries = 1
    ChunkerPresent = TRUE
    StageFaults = TRUE
    DbFaults = TRUE
    BrokerFaults = TRUE
    Crashes = TRUE
    PipelineFaults = FALSE
CHECK_DEADLOCK FALSE
INVARIANTS OneMultiTaskPerDocument ReadyIndexExists BuildersNeedReadyDocs
PROPERTIES BuiltStaysBuilt BuildsRunDown PipelineRefined
