--------------------------- MODULE HermesDispatch ---------------------------
(***************************************************************************)
(* One accepted connection (src/src/hms/hermes.c): the worker running     *)
(* _hms_handle_endpoint on an endpoint built by hms_endpoint_init, the    *)
(* default operations, hms_endpoint_send_msg and hms_endpoint_destroy,    *)
(* against a peer that writes requests, reads replies and may close at    *)
(* any time.  The byte stream is abstracted to the message the parser     *)
(* makes of it (HermesCodec models the parser): a verb, a message with no *)
(* verb, or Malformed bytes on which hms_msg_parse fails.  User callbacks *)
(* are arbitrary code: each call may return 0 or -1, and a user handler   *)
(* may send one reply.                                                     *)
(***************************************************************************)
EXTENDS Integers, Sequences

CONSTANTS
    Requests,      \* what the peer may send: verbs, NoVerb, Malformed
    NoVerb,        \* a message whose verb line had no token
    Malformed,     \* bytes on which hms_msg_parse returns NULL
    NoMsg,         \* no message held by the worker
    UserReply,     \* the reply a user handler sends
    UserValidate,  \* hms_ops.hms_validate supplied by the application
    UserAccepts,   \* hms_ops.hms_accepts supplied by the application
    UserHandle,    \* hms_ops.hms_handle supplied by the application
    MaxRequests    \* bound on the requests the peer sends

ASSUME /\ {UserValidate, UserAccepts, UserHandle} \subseteq BOOLEAN
       /\ MaxRequests \in Nat
       /\ NoMsg \notin Requests

VARIABLES
    c2s,           \* bytes sent by the peer, not yet read by the server
    s2c,           \* replies sent by the server, not yet read by the peer
    got,           \* replies the peer has read
    cliOpen,       \* the peer has not closed its socket
    sent,          \* requests the peer has sent
    pc,            \* the worker: "recv", "dispatch" or "closed"
    msg,           \* the message returned by hms_endpoint_recv_msg
    handlerStatus  \* handler_status of _hms_handle_endpoint

vars == <<c2s, s2c, got, cliOpen, sent, pc, msg, handlerStatus>>

(***************************************************************************)
(* The default operations and the ones hms_endpoint_init installs.        *)
(***************************************************************************)
\* _hms_default_validate: every message is valid.  A user validator may
\* answer either way.
ValidateResults == IF UserValidate THEN {0, -1} ELSE {0}

\* _hms_default_accepts refuses every message.
AcceptsResults == IF UserAccepts THEN {0, -1} ELSE {-1}

\* Faulty variant: PING is answered with the request's own verb.
DefaultHandleEcho(m) ==
    CASE m = NoVerb  -> [reply |-> <<"ERROR">>, status |-> -1]
      [] m \in {"PING", "INFO"} -> [reply |-> <<m>>, status |-> 0]
      [] m = "BYE"   -> [reply |-> <<>>,        status |-> -1]
      [] OTHER       -> [reply |-> <<>>,        status |-> -1]

\* _hms_default_handle: the reply it sends and the value it returns.
DefaultHandle(m) ==
    CASE m = NoVerb  -> [reply |-> <<"ERROR">>, status |-> -1]
      [] m = "PING"  -> [reply |-> <<"PONG">>,  status |-> 0]
      [] m = "INFO"  -> [reply |-> <<"INFO">>,  status |-> 0]
      [] m = "BYE"   -> [reply |-> <<>>,        status |-> -1]
      [] OTHER       -> [reply |-> <<>>,        status |-> -1]

\* endpoint->ops.hms_handle: the user's, or the default when none was given.
HandleResults(m) ==
    IF UserHandle THEN [reply : {<<>>, <<UserReply>>}, status : {0, -1}]
    ELSE {DefaultHandle(m)}

\* hms_endpoint_send_msg: a write to a peer that has closed fails (SIGPIPE is
\* ignored) and the failure is not looked at by any handler.
Deliver(reply) == s2c' = IF cliOpen THEN s2c \o reply ELSE s2c

(***************************************************************************)
(* _hms_handle_endpoint                                                   *)
(***************************************************************************)
Init ==
    /\ c2s = <<>> /\ s2c = <<>> /\ got = <<>>
    /\ cliOpen = TRUE /\ sent = 0
    /\ pc = "recv" /\ msg = NoMsg /\ handlerStatus = 0

\* Faulty variant: the end of the stream is not noticed.
RecvIgnoresEof ==
    /\ pc = "recv" /\ c2s # <<>>
    /\ msg' = IF Head(c2s) = Malformed THEN msg ELSE Head(c2s)
    /\ c2s' = Tail(c2s)
    /\ pc' = IF Head(c2s) = Malformed THEN "closed" ELSE "dispatch"
    /\ UNCHANGED <<s2c, got, cliOpen, sent, handlerStatus>>

\* hms_endpoint_recv_msg.  A parse failure or the end of the stream breaks
\* the loop, and hms_endpoint_destroy closes the socket.
Recv ==
    /\ pc = "recv"
    /\ \/ /\ c2s # <<>> /\ Head(c2s) # Malformed
          /\ msg' = Head(c2s) /\ c2s' = Tail(c2s)
          /\ pc' = "dispatch"
       \/ /\ c2s # <<>> /\ Head(c2s) = Malformed
          /\ c2s' = Tail(c2s)
          /\ pc' = "closed"
          /\ UNCHANGED msg
       \/ /\ c2s = <<>> /\ ~cliOpen
          /\ pc' = "closed"
          /\ UNCHANGED <<c2s, msg>>
    /\ UNCHANGED <<s2c, got, cliOpen, sent, handlerStatus>>

\* Faulty variant: the message is never destroyed.
DispatchKeepsMsg ==
    /\ pc = "dispatch"
    /\ \E v \in ValidateResults :
         IF v # 0
           THEN /\ UNCHANGED <<s2c, handlerStatus>>
                /\ pc' = IF handlerStatus # 0 THEN "closed" ELSE "recv"
           ELSE \E a \in AcceptsResults :
                  \E h \in (IF a = 0 THEN HandleResults(msg) ELSE {DefaultHandle(msg)}) :
                    /\ Deliver(h.reply)
                    /\ handlerStatus' = h.status
                    /\ pc' = IF h.status # 0 THEN "closed" ELSE "recv"
    /\ UNCHANGED <<c2s, got, cliOpen, sent, msg>>

\* validate, then accepts and handle or the default handler, then
\* hms_msg_destroy; the loop goes on while handler_status is 0.  A rejected
\* message leaves handler_status as the previous iteration set it.
Dispatch ==
    /\ pc = "dispatch"
    /\ \E v \in ValidateResults :
         IF v # 0
           THEN /\ UNCHANGED <<s2c, handlerStatus>>
                /\ pc' = IF handlerStatus # 0 THEN "closed" ELSE "recv"
           ELSE \E a \in AcceptsResults :
                  \E h \in (IF a = 0 THEN HandleResults(msg) ELSE {DefaultHandle(msg)}) :
                    /\ Deliver(h.reply)
                    /\ handlerStatus' = h.status
                    /\ pc' = IF h.status # 0 THEN "closed" ELSE "recv"
    /\ msg' = NoMsg
    /\ UNCHANGED <<c2s, got, cliOpen, sent>>

(***************************************************************************)
(* The peer                                                                *)
(***************************************************************************)
Send(r) ==
    /\ cliOpen /\ sent < MaxRequests
    /\ c2s' = Append(c2s, r) /\ sent' = sent + 1
    /\ UNCHANGED <<s2c, got, cliOpen, pc, msg, handlerStatus>>

Read ==
    /\ cliOpen /\ s2c # <<>>
    /\ got' = Append(got, Head(s2c)) /\ s2c' = Tail(s2c)
    /\ UNCHANGED <<c2s, cliOpen, sent, pc, msg, handlerStatus>>

Close ==
    /\ cliOpen /\ cliOpen' = FALSE
    /\ UNCHANGED <<c2s, s2c, got, sent, pc, msg, handlerStatus>>

Next ==
    \/ Recv \/ Dispatch
    \/ \E r \in Requests : Send(r)
    \/ Read \/ Close

\* The worker thread is scheduled by the OS; the peer owes nothing.
Spec == Init /\ [][Next]_vars /\ WF_vars(Recv) /\ WF_vars(Dispatch)

(***************************************************************************)
(* Properties                                                              *)
(***************************************************************************)
\* Types, and the lifetime of the received message: the worker holds one
\* exactly while it dispatches it (hms_msg_destroy before the next read).
TypeOK ==
    /\ c2s \in Seq(Requests) /\ s2c \in Seq({"PONG", "INFO", "ERROR", UserReply})
    /\ got \in Seq({"PONG", "INFO", "ERROR", UserReply})
    /\ cliOpen \in BOOLEAN /\ sent \in 0..MaxRequests
    /\ pc \in {"recv", "dispatch", "closed"}
    /\ msg \in (Requests \ {Malformed}) \cup {NoMsg}
    /\ (pc = "dispatch") = (msg # NoMsg)
    /\ handlerStatus \in {0, -1}

\* The endpoint, seen from its peer, behaves as HermesConnection: the
\* message being dispatched counts as not yet answered.
Conn == INSTANCE HermesConnection
          WITH in <- IF pc = "dispatch" THEN <<msg>> \o c2s ELSE c2s,
               out <- s2c,
               srv <- IF pc = "closed" THEN "closed" ELSE "open",
               CanReject <- UserValidate,
               CanAccept <- UserAccepts /\ UserHandle

\* The connection as the spec describes it (sections 4.5 and 7).
ConnectionSpec == Conn!Spec

\* Once the peer closes, the worker eventually leaves the loop and
\* hms_endpoint_destroy closes the socket, however many requests were
\* still in flight.
EndpointEventuallyClosed == ~cliOpen ~> pc = "closed"
=============================================================================
