SPECIFICATION FairSpec
CONSTANTS
    MaxQueryFailures = 3
    PendingTimeout = 4
CHECK_DEADLOCK FALSE
PROPERTIES
    WaitEnds
    GivesUpOnSilence
