SPECIFICATION FairSpec
CONSTANTS
    r1 = r1
    r2 = r2
    a = a
    NoContent = NoContent
    Requests <- OneRequest
    Contents <- OneContent
    MaxRetries = 3
    ChunkerPresent = FALSE
    StageFaults = FALSE
    DbFaults = FALSE
    BrokerFaults = FALSE
    Crashes = FALSE
CHECK_DEADLOCK FALSE
PROPERTIES PipelineReachesReady
