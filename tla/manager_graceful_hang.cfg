\* A graceful hermes_shutdown; every client eventually finishes.
CONSTANTS
    Conns = {c1}
    ListenTask = ListenTask
    NoConn = NoConn
    NumThreads = 0
    QueueMax = 10
    ServerPort = 61182
    MaxSetupFailures = 0
    AcceptMayFail = FALSE
    PeersFinish = TRUE
    ShutdownModes = {FALSE}
SPECIFICATION Spec
PROPERTY GracefulShutdownReturns
CHECK_DEADLOCK FALSE
