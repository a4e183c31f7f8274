SPECIFICATION FairSpec
CONSTANTS
    Target = {"old", "new"}
    Holds <- MCHolds
    Row <- MCRow
    Steps <- MCSteps
CHECK_DEADLOCK FALSE
INVARIANTS
    OnlyTheEngineIsDriven
    BlameIsEarned
    NothingStays

    
