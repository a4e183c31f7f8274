SPECIFICATION FairSpec
CONSTANTS
    Pid = {1, 2, 3}
    Leader = 1
    MaxBorn = 3
    MaxSignals = 2
    Nil = Nil
CHECK_DEADLOCK FALSE
INVARIANTS
    StrangersSpared
    CleanupIsThorough
PROPERTIES
    HarnessEnds
