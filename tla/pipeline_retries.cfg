SPECIFICATION SerialFairSpec
CONSTANTS
    r1 = r1
    r2 = r2
    a = a
    NoContent = NoContent
    Requests <- TwoRequests
    Contents <- OneContent
    MaxRetries = 3
    ChunkerPresent = TRUE
    StageFaults = TRUE
    DbFaults = FALSE
    BrokerFaults = TRUE
    Crashes = TRUE
CHECK_DEADLOCK FALSE
INVARIANTS OutcomeIsRecorded OneRowPerContent
PROPERTIES RetriesRunOut
