--------------------------- MODULE HermesManager ---------------------------
(***************************************************************************)
(* The Hermes manager (src/src/hms/hermes.c): hermes_init, the accept     *)
(* loop _hms_listen with its retry/backoff, the per-connection handler    *)
(* _hms_handle_endpoint at connection granularity, hermes_shutdown, and   *)
(* the worker pool they share.  The pool (tpool) is not part of the       *)
(* repository; its behaviour is taken from the spec (section 5, 9): a     *)
(* fixed set of workers, a FIFO backlog of at most QueueMax units of work, *)
(* submission that fails when the backlog is full or the pool is being   *)
(* destroyed, graceful destroy that drains, forced destroy that discards  *)
(* queued work and abandons running threads.                               *)
(***************************************************************************)
EXTENDS Naturals, Sequences, FiniteSets

CONSTANTS
    Conns,            \* client connections that may reach the server
    ListenTask,       \* the unit of work running _hms_listen
    NoConn,           \* no connection held by the listener
    NumThreads,       \* num_threads argument of hermes_init
    QueueMax,         \* backlog bound passed to tpool_init (10)
    ServerPort,       \* server_port argument of hermes_init
    MaxSetupFailures, \* bound on failed socket/bind/listen attempts
    AcceptMayFail,    \* whether accept() may return -1
    PeersFinish,      \* whether clients close (or end) their connection
    ShutdownModes     \* values of force hermes_shutdown may be called with

ASSUME /\ NumThreads \in Nat /\ QueueMax \in Nat \ {0}
       /\ ServerPort \in Nat /\ MaxSetupFailures \in Nat
       /\ AcceptMayFail \in BOOLEAN /\ PeersFinish \in BOOLEAN
       /\ ShutdownModes \subseteq BOOLEAN
       /\ ListenTask \notin Conns /\ NoConn \notin Conns

\* tpool_init(&manager->pool, num_threads + 2, 10, HMS_TRUE)
NumWorkers == NumThreads + 2

Tasks == Conns \cup {ListenTask}

VARIABLES
    alive,        \* FALSE once the process exited through hms_assert
    lpc,          \* program counter of the _hms_listen task
    held,         \* connection accepted by the listener, not yet submitted
    sleepTime,    \* sleep_time of _hms_listen
    lastDelay,    \* the delay slept by the latest setup attempt
    attempts,     \* setup attempts made (retry_listen iterations)
    failures,     \* failed setup attempts
    leakedSocks,  \* listening-side sockets opened by a failed attempt, never closed
    serverSocket, \* manager->server_socket: "unset", "bound", "listening", "closed"
    strayClose,   \* hermes_shutdown closed a descriptor the manager never set
    shutdown,     \* manager->shutdown
    spc,          \* program counter of hermes_shutdown: "idle", "waiting", "done"
    mode,         \* the force argument of the pending hermes_shutdown
    poolState,    \* "open", "draining", "closed"
    queue,        \* the pool's FIFO backlog of tasks
    running,      \* tasks currently executed by a worker
    cstate,       \* per connection: where its socket is
    peerDone      \* the client has closed the connection or sent an ending message

vars == <<alive, lpc, held, sleepTime, lastDelay, attempts, failures, leakedSocks,
          serverSocket, strayClose, shutdown, spc, mode, poolState, queue,
          running, cstate, peerDone>>
listenVars == <<lpc, held, sleepTime, lastDelay, attempts, failures, leakedSocks>>

ConnStates == {"idle", "backlog", "accepted", "queued", "serving",
               "closed", "leaked", "abandoned", "reset"}

(***************************************************************************)
(* Worker pool (spec_modelled).                                            *)
(***************************************************************************)
\* tpool_add_work: admitted iff the pool is open and its backlog has room.
PoolAdmits == poolState = "open" /\ Len(queue) < QueueMax

\* Faulty variant: a worker starts a task even when all workers are busy.
PoolRunUnbounded ==
    /\ alive /\ poolState # "closed"
    /\ queue # <<>>
    /\ running' = running \cup {Head(queue)}
    /\ queue' = Tail(queue)
    /\ IF Head(queue) = ListenTask
         THEN UNCHANGED cstate
         ELSE cstate' = [cstate EXCEPT ![Head(queue)] = "serving"]
    /\ UNCHANGED <<alive, listenVars, serverSocket, strayClose, shutdown, spc,
                   mode, poolState, peerDone>>

\* A free worker takes the head of the backlog.
PoolRun ==
    /\ alive /\ poolState # "closed"
    /\ queue # <<>> /\ Cardinality(running) < NumWorkers
    /\ LET t == Head(queue) IN
         /\ running' = running \cup {t}
         /\ queue' = Tail(queue)
         /\ IF t = ListenTask
              THEN UNCHANGED cstate
              ELSE cstate' = [cstate EXCEPT ![t] = "serving"]
    /\ UNCHANGED <<alive, listenVars, serverSocket, strayClose, shutdown, spc,
                   mode, poolState, peerDone>>

(***************************************************************************)
(* hermes_init                                                             *)
(***************************************************************************)
Init ==
    /\ alive = TRUE
    /\ lpc = "setup" /\ held = NoConn
    /\ sleepTime = 0 /\ lastDelay = 0 /\ attempts = 0 /\ failures = 0
    /\ leakedSocks = 0
    /\ serverSocket = "unset" /\ strayClose = FALSE
    /\ shutdown = FALSE /\ spc = "idle" /\ mode = FALSE
    /\ poolState = "open"
    /\ queue = IF ServerPort > 0 THEN <<ListenTask>> ELSE <<>>
    /\ running = {}
    /\ cstate = [c \in Conns |-> "idle"]
    /\ peerDone = [c \in Conns |-> FALSE]

(***************************************************************************)
(* _hms_listen                                                             *)
(***************************************************************************)
\* The backoff update at the top of retry_listen.
NextSleep(s) == IF s = 0 THEN 2 ELSE IF s = 2 THEN 2 * s ELSE s

\* One pass from retry_listen to listen(): sleep, update the backoff, then
\* socket/setsockopt/bind/listen.  A failed step jumps back to retry_listen
\* without closing the socket it opened.
ListenRetry ==
    /\ alive /\ ListenTask \in running /\ lpc = "setup"
    /\ lastDelay' = sleepTime
    /\ sleepTime' = NextSleep(sleepTime)
    /\ attempts' = attempts + 1
    /\ \/ /\ failures < MaxSetupFailures
          /\ failures' = failures + 1
          /\ \E step \in {"socket", "setsockopt", "bind", "listen"} :
               /\ leakedSocks' = IF step = "socket" THEN leakedSocks ELSE leakedSocks + 1
               /\ serverSocket' = IF step = "listen" THEN "bound" ELSE serverSocket
          /\ UNCHANGED lpc
       \/ /\ serverSocket' = "listening"
          /\ lpc' = "accept"
          /\ UNCHANGED <<failures, leakedSocks>>
    /\ UNCHANGED <<alive, held, strayClose, shutdown, spc, mode, poolState,
                   queue, running, cstate, peerDone>>

\* accept() returns a connection, the socket options are set, then
\* manager->shutdown is read.  When the flag is set the loop breaks and the
\* accepted descriptor stays open.
ListenAccept ==
    /\ alive /\ ListenTask \in running /\ lpc = "accept"
    /\ \E c \in Conns :
         /\ cstate[c] = "backlog"
         /\ IF shutdown
              THEN /\ cstate' = [cstate EXCEPT ![c] = "leaked"]
                   /\ lpc' = "stopped"
                   /\ running' = running \ {ListenTask}
                   /\ UNCHANGED held
              ELSE /\ cstate' = [cstate EXCEPT ![c] = "accepted"]
                   /\ lpc' = "spawn"
                   /\ held' = c
                   /\ UNCHANGED running
    /\ UNCHANGED <<alive, sleepTime, lastDelay, attempts, failures, leakedSocks,
                   serverSocket, strayClose, shutdown, spc, mode, poolState,
                   queue, peerDone>>

\* accept() returns -1: the task returns and no connection is accepted again.
ListenAcceptFail ==
    /\ alive /\ ListenTask \in running /\ lpc = "accept" /\ AcceptMayFail
    /\ lpc' = "fatal"
    /\ running' = running \ {ListenTask}
    /\ UNCHANGED <<alive, held, sleepTime, lastDelay, attempts, failures,
                   leakedSocks, serverSocket, strayClose, shutdown, spc, mode,
                   poolState, queue, cstate, peerDone>>

\* hms_endpoint_init, then tpool_add_work guarded by hms_assert_not_equals:
\* a refused submission exits the process.
ListenSpawn ==
    /\ alive /\ ListenTask \in running /\ lpc = "spawn"
    /\ IF PoolAdmits
         THEN /\ queue' = Append(queue, held)
              /\ cstate' = [cstate EXCEPT ![held] = "queued"]
              /\ lpc' = "accept"
              /\ held' = NoConn
              /\ UNCHANGED alive
         ELSE /\ alive' = FALSE
              /\ UNCHANGED <<queue, cstate, lpc, held>>
    /\ UNCHANGED <<sleepTime, lastDelay, attempts, failures, leakedSocks,
                   serverSocket, strayClose, shutdown, spc, mode, poolState,
                   running, peerDone>>

(***************************************************************************)
(* _hms_handle_endpoint, at connection granularity: the receive loop only  *)
(* ends when the peer closes or sends a message that ends it (EOF, parse   *)
(* failure, BYE, unknown verb); then hms_endpoint_destroy closes the       *)
(* socket and the worker is free.  A silent peer keeps its worker.         *)
(***************************************************************************)
\* Faulty variant: the endpoint is destroyed but the worker never returns.
HandleEndpointKeepsWorker(c) ==
    /\ alive /\ c \in running /\ peerDone[c]
    /\ cstate' = [cstate EXCEPT ![c] = "closed"]
    /\ UNCHANGED <<alive, listenVars, serverSocket, strayClose, shutdown, spc,
                   mode, poolState, queue, running, peerDone>>

HandleEndpoint(c) ==
    /\ alive /\ c \in running /\ peerDone[c]
    /\ cstate' = [cstate EXCEPT ![c] = "closed"]
    /\ running' = running \ {c}
    /\ UNCHANGED <<alive, listenVars, serverSocket, strayClose, shutdown, spc,
                   mode, poolState, queue, peerDone>>

(***************************************************************************)
(* Clients                                                                 *)
(***************************************************************************)
\* The kernel completes the handshake into the listen backlog.
Connect(c) ==
    /\ alive /\ serverSocket = "listening" /\ cstate[c] = "idle"
    /\ cstate' = [cstate EXCEPT ![c] = "backlog"]
    /\ UNCHANGED <<alive, listenVars, serverSocket, strayClose, shutdown, spc,
                   mode, poolState, queue, running, peerDone>>

PeerFinish(c) ==
    /\ alive /\ PeersFinish /\ ~peerDone[c]
    /\ cstate[c] \in {"backlog", "accepted", "queued", "serving"}
    /\ peerDone' = [peerDone EXCEPT ![c] = TRUE]
    /\ UNCHANGED <<alive, listenVars, serverSocket, strayClose, shutdown, spc,
                   mode, poolState, queue, running, cstate>>

(***************************************************************************)
(* hermes_shutdown(manager, force): under manager_lock, set the flag, then *)
(* tpool_destroy (blocking), then close(manager->server_socket).           *)
(***************************************************************************)
\* Faulty variant: a forced destroy drops the tasks but the connections
\* keep the state they had.
ShutdownBeginKeepsStates(force) ==
    /\ alive /\ spc = "idle"
    /\ shutdown' = TRUE /\ mode' = force /\ spc' = "waiting"
    /\ IF force
         THEN /\ queue' = <<>> /\ running' = {}
              /\ poolState' = "closed"
              /\ lpc' = IF ListenTask \in running \/ ListenTask \in {queue[i] : i \in DOMAIN queue}
                          THEN "killed" ELSE lpc
              /\ UNCHANGED cstate
         ELSE /\ poolState' = "draining"
              /\ UNCHANGED <<queue, running, cstate, lpc>>
    /\ UNCHANGED <<alive, held, sleepTime, lastDelay, attempts, failures,
                   leakedSocks, serverSocket, strayClose, peerDone>>

\* Set the flag and start tpool_destroy.  A forced destroy discards the
\* backlog and abandons the running threads, the listener included.
ShutdownBegin(force) ==
    /\ alive /\ spc = "idle"
    /\ shutdown' = TRUE /\ mode' = force /\ spc' = "waiting"
    /\ IF force
         THEN /\ queue' = <<>> /\ running' = {}
              /\ poolState' = "closed"
              /\ cstate' = [c \in Conns |->
                              IF cstate[c] \in {"accepted", "queued", "serving"}
                                THEN "abandoned" ELSE cstate[c]]
              /\ lpc' = IF ListenTask \in running \/ ListenTask \in {queue[i] : i \in DOMAIN queue}
                          THEN "killed" ELSE lpc
         ELSE /\ poolState' = "draining"
              /\ UNCHANGED <<queue, running, cstate, lpc>>
    /\ UNCHANGED <<alive, held, sleepTime, lastDelay, attempts, failures,
                   leakedSocks, serverSocket, strayClose, peerDone>>

\* tpool_destroy returns once nothing is queued or running; then the
\* descriptor in manager->server_socket is closed, whatever it holds.
ShutdownEnd ==
    /\ alive /\ spc = "waiting"
    /\ queue = <<>> /\ running = {}
    /\ poolState' = "closed"
    /\ spc' = "done"
    /\ strayClose' = (serverSocket = "unset")
    /\ leakedSocks' = IF serverSocket = "bound" THEN leakedSocks - 1 ELSE leakedSocks
    /\ serverSocket' = IF serverSocket = "unset" THEN "unset" ELSE "closed"
    /\ cstate' = [c \in Conns |-> IF cstate[c] = "backlog" THEN "reset" ELSE cstate[c]]
    /\ UNCHANGED <<alive, lpc, held, sleepTime, lastDelay, attempts, failures,
                   shutdown, mode, queue, running, peerDone>>

Next ==
    \/ PoolRun
    \/ ListenRetry
    \/ ListenAccept
    \/ ListenAcceptFail
    \/ ListenSpawn
    \/ \E c \in Conns : HandleEndpoint(c) \/ Connect(c) \/ PeerFinish(c)
    \/ \E f \in ShutdownModes : ShutdownBegin(f)
    \/ ShutdownEnd

\* Every thread of the process (pool workers, the listener, the handlers,
\* the thread blocked in hermes_shutdown) is scheduled by the OS and so
\* weakly fair; clients and the application calling hermes_shutdown are not,
\* and nothing forces accept() to fail.
Fairness ==
    /\ WF_vars(PoolRun)
    /\ WF_vars(ListenRetry) /\ WF_vars(ListenAccept) /\ WF_vars(ListenSpawn)
    /\ \A c \in Conns : WF_vars(HandleEndpoint(c))
    /\ WF_vars(ShutdownEnd)

Spec == Init /\ [][Next]_vars /\ Fairness

(***************************************************************************)
(* Properties                                                              *)
(***************************************************************************)
TypeOK ==
    /\ alive \in BOOLEAN
    /\ lpc \in {"setup", "accept", "spawn", "stopped", "fatal", "killed"}
    /\ held \in Conns \cup {NoConn}
    /\ sleepTime \in Nat /\ lastDelay \in Nat
    /\ attempts \in Nat /\ failures \in 0..MaxSetupFailures
    /\ leakedSocks \in Nat
    /\ serverSocket \in {"unset", "bound", "listening", "closed"}
    /\ strayClose \in BOOLEAN /\ shutdown \in BOOLEAN /\ mode \in BOOLEAN
    /\ spc \in {"idle", "waiting", "done"}
    /\ poolState \in {"open", "draining", "closed"}
    /\ queue \in Seq(Tasks) /\ Len(queue) <= QueueMax
    /\ running \subseteq Tasks /\ Cardinality(running) <= NumWorkers
    /\ cstate \in [Conns -> ConnStates]
    /\ peerDone \in [Conns -> BOOLEAN]
    /\ \A c \in Conns :
         /\ (cstate[c] = "queued") = (c \in {queue[i] : i \in DOMAIN queue})
         /\ (cstate[c] = "serving") = (c \in running)

\* A connection has been handed to the pool by _hms_listen.
Handed(c) == cstate[c] \in {"queued", "serving"}

\* The process never exits through the hms_assert_not_equals that guards
\* tpool_add_work in _hms_listen.
NoAbort == alive

\* If every client that connects eventually closes or ends its
\* connection, every connection handed to the pool is eventually closed by
\* hms_endpoint_destroy, unless a forced hermes_shutdown abandons it or the
\* process is gone: the handlers of finished peers free their workers, and
\* queued handlers get one.
ServiceCompletes ==
    (\A c \in Conns : <>[](peerDone[c] \/ cstate[c] \in {"idle", "reset"}))
      => \A c \in Conns : Handed(c) ~> (cstate[c] \in {"closed", "abandoned"} \/ ~alive)

\* A call of hermes_shutdown(manager, force) eventually returns, provided
\* every client eventually finishes.
ShutdownReturnsIn(force) ==
    (\A c \in Conns : <>[](peerDone[c] \/ cstate[c] \in {"idle", "reset"}))
      => ((spc = "waiting" /\ mode = force) ~> (spc = "done" \/ ~alive))

\* A graceful hermes_shutdown returns once the clients have finished.
GracefulShutdownReturns == ShutdownReturnsIn(FALSE)

\* A failed socket/setsockopt/bind/listen attempt of _hms_listen releases
\* the descriptor it opened: the process holds no socket from a failed
\* setup attempt.
SetupReleasesSockets == leakedSocks = 0
=============================================================================
