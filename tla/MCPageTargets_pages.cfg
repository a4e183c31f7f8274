SPECIFICATION Spec
CONSTANTS
    None = None
    Lane = {"a", "b"}
    Plans <- MCPlans
    MaxFaults = 1
CHECK_DEADLOCK FALSE
INVARIANTS
    StrangersSpared
    LeaksAreReported
    DaemonsAreTheirOwners
