SPECIFICATION FairSpec
CONSTANTS
    ra = ra
    rb = rb
    Requests <- TwoRequests
    MaxRetries = 1
    Faults = TRUE
CHECK_DEADLOCK FALSE
INVARIANTS PathIsOnDisk ProcessingIsWorked
PROPERTIES ReadyOutlivesItsMaker CreationRunsDown ProcessingEnds
