SPECIFICATION FairSpec
CONSTANTS
    Engine = {moli}
    Task = {t1, t2}
    Proc = {p1, p2, p3}
    Nil = Nil
    ServeArgs <- MCServeArgs
    LaunchInMain = FALSE
    HasCgroup = FALSE
    KillMayTimeOut = TRUE
CHECK_DEADLOCK FALSE
INVARIANTS
    TypeOK
    OneProcessPerEngine
    NothingLeftBehind
PROPERTIES
    RowsNameOneProcess
    KeepsContract
    CallsReturn
