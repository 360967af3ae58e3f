CONSTANTS
    c1 = c1
    c2 = c2
    Callers = {c1, c2}
    NetResources <- MCNet
    CtxResources <- MCCtx
    Fifos <- MCFifos
    Daemonize = FALSE
    Arm64 = FALSE
    MayTimeout = TRUE
    SignalFails = TRUE
    RetryShutdown = FALSE
SPECIFICATION MCSpec
SYMMETRY Symm
CHECK_DEADLOCK FALSE
INVARIANTS TypeOK ClosedOnce CleanupNotEarly WaitMeansExited NoLeak UnwindsInOrder DaemonKept
PROPERTIES StopMeansDown ReportsOnce
