-------------------------- MODULE HermesConnection --------------------------
(***************************************************************************)
(* What one server connection promises its peer (spec sections 4.5 and   *)
(* 7), stated without the endpoint's internal steps.  The server takes    *)
(* the requests in the order they were sent and, atomically, answers one: *)
(*   - a byte stream that does not parse ends the connection;             *)
(*   - a message the validator rejects ends the connection (fail-closed); *)
(*   - a message the user accepts gets whatever the user handler sends;   *)
(*   - any other message gets the default handler's answer: PONG to PING, *)
(*     INFO to INFO, ERROR (and the end) to a message without a verb, the *)
(*     end with no reply to BYE and to every other verb.                   *)
(* Replies to a peer that has closed are lost.  When the peer has closed  *)
(* and every request has been answered, the connection ends.              *)
(***************************************************************************)
EXTENDS Naturals, Sequences

CONSTANTS
    Requests,       \* what a peer may send
    NoVerb,         \* a message whose verb line is empty
    Malformed,      \* bytes that do not parse as a message
    UserReply,      \* what a user handler sends back
    CanReject,      \* the validator may reject a message
    CanAccept,      \* the user's accepts may take a message
    MaxRequests     \* bound on the requests a peer sends

VARIABLES
    in,       \* requests sent and not yet answered
    out,      \* replies sent and not yet read
    got,      \* replies the peer has read
    srv,      \* "open" or "closed": the server's end of the connection
    cliOpen,  \* the peer has not closed
    sent      \* number of requests the peer has sent

absVars == <<in, out, got, srv, cliOpen, sent>>

\* The outcomes the spec allows for request r: the replies sent, and
\* whether the connection ends.
DefaultOutcome(r) ==
    CASE r = "PING"  -> [reply |-> <<"PONG">>,  end |-> FALSE]
      [] r = "INFO"  -> [reply |-> <<"INFO">>,  end |-> FALSE]
      [] r = NoVerb  -> [reply |-> <<"ERROR">>, end |-> TRUE]
      [] OTHER       -> [reply |-> <<>>,        end |-> TRUE]

Outcomes(r) ==
    IF r = Malformed THEN {[reply |-> <<>>, end |-> TRUE]}
    ELSE {DefaultOutcome(r)}
         \cup (IF CanReject THEN {[reply |-> <<>>, end |-> TRUE]} ELSE {})
         \cup (IF CanAccept
                 THEN [reply : {<<>>, <<UserReply>>}, end : BOOLEAN] ELSE {})

Init ==
    /\ in = <<>> /\ out = <<>> /\ got = <<>>
    /\ srv = "open" /\ cliOpen = TRUE /\ sent = 0

Send(r) ==
    /\ cliOpen /\ sent < MaxRequests
    /\ in' = Append(in, r) /\ sent' = sent + 1
    /\ UNCHANGED <<out, got, srv, cliOpen>>

Read ==
    /\ cliOpen /\ out # <<>>
    /\ got' = Append(got, Head(out)) /\ out' = Tail(out)
    /\ UNCHANGED <<in, srv, cliOpen, sent>>

Close ==
    /\ cliOpen /\ cliOpen' = FALSE
    /\ UNCHANGED <<in, out, got, srv, sent>>

Answer ==
    /\ srv = "open" /\ in # <<>>
    /\ \E o \in Outcomes(Head(in)) :
         /\ out' = IF cliOpen THEN out \o o.reply ELSE out
         /\ srv' = IF o.end THEN "closed" ELSE "open"
    /\ in' = Tail(in)
    /\ UNCHANGED <<got, cliOpen, sent>>

EndOfStream ==
    /\ srv = "open" /\ in = <<>> /\ ~cliOpen
    /\ srv' = "closed"
    /\ UNCHANGED <<in, out, got, cliOpen, sent>>

Next ==
    \/ \E r \in Requests : Send(r)
    \/ Read \/ Close \/ Answer \/ EndOfStream

Spec == Init /\ [][Next]_absVars
=============================================================================
