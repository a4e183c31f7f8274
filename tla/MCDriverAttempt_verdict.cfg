SPECIFICATION Spec
CONSTANTS
    Nil = Nil
    TornDown = TRUE
CHECK_DEADLOCK FALSE
INVARIANTS
    CoreEvidenceKept
    RowAndFilesAgree
PROPERTIES
    EngineExitIsPrimary
