SPECIFICATION FairRecovery
PROPERTIES
    ReloadedAfterReturn
CHECK_DEADLOCK FALSE
