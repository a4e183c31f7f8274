SPECIFICATION FairSpec
CONSTANTS
    Event <- MCEvent
    Guids = {1, 2}
    Keys = {k1}
    k1 = k1
    Steps <- MCSteps
    MaxEvents = 2
    MaxWire = 2
    MaxSteps = 2
CHECK_DEADLOCK FALSE
INVARIANTS
    EventsReachTheirWait
    SilentCleanup
PROPERTIES
    Closes
