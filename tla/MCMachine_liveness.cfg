CONSTANTS
    c1 = c1
    Callers = {c1}
    NetResources <- MCCni
    CtxResources <- MCCtx
    Fifos <- MCNoFifos
    Daemonize = FALSE
    Arm64 = TRUE
    MayTimeout = FALSE
    SignalFails = FALSE
    RetryShutdown = FALSE
SPECIFICATION FairSpec
PROPERTIES StopCompletes ExitReported CancelStops GoroutinesEnd
