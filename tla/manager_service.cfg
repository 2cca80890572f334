\* One pool worker left for handlers (num_threads = 0): the second client
\* waits in the backlog behind the first.  hermes_shutdown may be called, forced or graceful.
CONSTANTS
    Conns = {c1, c2}
    ListenTask = ListenTask
    NoConn = NoConn
    NumThreads = 0
    QueueMax = 10
    ServerPort = 61182
    MaxSetupFailures = 1
    AcceptMayFail = TRUE
    PeersFinish = TRUE
    ShutdownModes = {TRUE, FALSE}
SPECIFICATION Spec
INVARIANT TypeOK
PROPERTY ServiceCompletes
\* The server blocks forever in accept() once no client is left to connect.
CHECK_DEADLOCK FALSE
