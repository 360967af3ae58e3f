CONSTANTS
    c1 = c1
    Callers = {c1}
    NetResources <- MCNoNet
    CtxResources = {}
    Fifos <- MCNoFifos
    Daemonize = FALSE
    Arm64 = FALSE
    MayTimeout = TRUE
    SignalFails = FALSE
    RetryShutdown = FALSE
SPECIFICATION FairSpec
CHECK_DEADLOCK FALSE
PROPERTIES StopCompletes
