SPECIFICATION Spec
CONSTANTS
    u1 = u1
    u2 = u2
    c1 = c1
    c2 = c2
    o1 = o1
    o2 = o2
    NoUpdate = NoUpdate
    Updates <- TwoUpdates
    Creators <- OneCreator
    Observers <- OneObserver
CHECK_DEADLOCK FALSE
PROPERTIES
    LiveRecordsKept
