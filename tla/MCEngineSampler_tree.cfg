SPECIFICATION SamplerSpec
CONSTANTS
    None = None
    MaxBorn = 3
    Pids = {"p", "q"}
    ScanAttempts = 2
    MaxMoves = 2
    MaxFaults = 1
    MaxRounds = 1
CONSTRAINT FewUpsets
CHECK_DEADLOCK FALSE
INVARIANTS
    PeakIsWhole
    CpuIsOfThisAttempt
    EndsWithTheEnd
