\* The shipped copy server: hermes_init(1, 61182, ops), so 3 workers and a
\* backlog of 10.  Thirteen clients connect and stay silent.
CONSTANTS
    Conns <- ThirteenClients
    ListenTask = ListenTask
    NoConn = NoConn
    NumThreads = 1
    QueueMax = 10
    ServerPort = 61182
    MaxSetupFailures = 0
    AcceptMayFail = FALSE
    PeersFinish = FALSE
    ShutdownModes = {}
SPECIFICATION Spec
ACTION_CONSTRAINT InIndexOrder
INVARIANT NoAbort
CHECK_DEADLOCK FALSE
