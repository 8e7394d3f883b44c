SPECIFICATION Spec
CONSTANTS
    r1 = r1
    r2 = r2
    a = a
    NoContent = NoContent
    Requests <- TwoRequests
    Contents <- OneContent
    MaxRetries = 1
    ChunkerPresent = TRUE
    StageFaults = TRUE
    DbFaults = TRUE
    BrokerFaults = TRUE
    Crashes = TRUE
CHECK_DEADLOCK FALSE
SYMMETRY SymRequests
INVARIANTS PipelineInv ReadyIsSearchable OneTask2PerUpload NoStrayFile ChunksPerAttempt
PROPERTIES ReadyIsFinal WorkRunsDown CorpusGrows
