CONSTANTS
    c1 = c1
    Callers = {c1}
    NetResources <- MCNoNet
    CtxResources = {}
    Fifos <- MCOneFifo
    Daemonize = FALSE
    Arm64 = FALSE
    MayTimeout = FALSE
    SignalFails = FALSE
    RetryShutdown = FALSE
SPECIFICATION Spec
CHECK_DEADLOCK FALSE
INVARIANTS EveryCallbackRun
