SPECIFICATION ScoreSpec
CONSTANTS
    EngineOrder <- MCEngineOrder
    Chrome = "chrome"
    Task = {1, 2}
    K = 1
    ScoreModes = {"independent", "baseline_checked"}
CHECK_DEADLOCK FALSE
INVARIANTS
    RowsFollowTheGate
    ScoresAreComparable
    RotationIsFair
