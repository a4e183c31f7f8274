SPECIFICATION FairSpec
CONSTANTS
    Worker = {w1, w2}
    Item = {1, 2, 3}
    Rows = 2
    Modes = {"serial", "parallel"}
    LaunchMayFail = TRUE
    KillMayFail = TRUE
    MaxSignals = 2
    Nil = Nil
CHECK_DEADLOCK FALSE
INVARIANTS
    RowsAreHonest
    EnginesHaveOneOwner
PROPERTIES
    KeepsContract
    RunEnds
