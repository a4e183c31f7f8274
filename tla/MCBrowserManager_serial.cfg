SPECIFICATION Spec
CONSTANTS
    Engine = {chrome, moli}
    Task = {t1, t2}
    Proc = {p1, p2, p3}
    Nil = Nil
    ServeArgs <- MCServeArgs
    LaunchInMain = TRUE
    HasCgroup = FALSE
    KillMayTimeOut = TRUE
CHECK_DEADLOCK FALSE
INVARIANTS
    NothingLeftBehind
PROPERTIES
    HandsOverUsableProcess
