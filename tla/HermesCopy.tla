----------------------------- MODULE HermesCopy -----------------------------
(***************************************************************************)
(* The copy service end to end: copy_client (src/src/tests/copy_client.c)  *)
(* sends a file in chunks over one hms_connector, and an endpoint worker   *)
(* of copy_server (src/src/tests/copy_server.c) runs _hms_handle_endpoint  *)
(* with the copy operations, writing each chunk at its offset.  Messages   *)
(* are HermesMsg values built by the same calls as __send_chunk; the       *)
(* stream between the two is the FIFO of the messages written, which the   *)
(* parser gives back unchanged (HermesCodec, run codec_parse).  The        *)
(* server's receive and dispatch of one message are one step: the client   *)
(* sees only whether the server has closed.                                 *)
(***************************************************************************)
EXTENDS HermesMsg

CONSTANTS
    Sources,    \* contents the source file may have
    Olds,       \* contents the destination may already have (<<>>: none)
    ChunkSize,  \* chunk_size, argv[5]
    NUL         \* the zero byte of a hole pwrite leaves past the end

ASSUME ChunkSize \in Nat \ {0}

\* The verb and keys __send_chunk uses, as case-folded abstract strings.
CopyVerb == <<"C">>
Filename == <<"F">>
OffsetKey == <<"O">>
DstName == <<"d">>

VARIABLES
    src,        \* the source file
    old,        \* what the destination held before the copy
    cpc,        \* client: "start", "loop", "exit0", "exitErr", "killed"
    conn,       \* what hms_connector_init returned: "ok", "null", "minus1"
    offset, left,
    net,        \* messages written by the client, not yet read by the server
    cliClosed,  \* the client's socket is closed (destroy or process exit)
    spc,        \* server worker: "none" (no connection), "recv", "closed"
    peer,       \* the client's view of the server's socket: "open",
                \* "closed", "rst_pending" (a write drew a RST) or "reset"
    dst         \* the destination file

vars == <<src, old, cpc, conn, offset, left, net, cliClosed, spc, peer, dst>>

Init ==
    /\ src \in Sources /\ old \in Olds /\ dst = old
    /\ cpc = "start" /\ conn = "ok" /\ offset = 0 /\ left = 0
    /\ net = <<>> /\ cliClosed = FALSE /\ spc = "none" /\ peer = "open"

(***************************************************************************)
(* copy_client                                                             *)
(***************************************************************************)
\* hms_connector_init: NULL when gethostbyname or socket fails, -1 when
\* connect fails; main does not look.  The server accepts on success.
Connect ==
    /\ cpc = "start"
    /\ \E c \in {"ok", "null", "minus1"} :
         /\ conn' = c
         /\ spc' = IF c = "ok" THEN "recv" ELSE "none"
    /\ cpc' = "loop" /\ left' = Len(src) /\ offset' = 0
    /\ UNCHANGED <<src, old, net, cliClosed, peer, dst>>

\* The request __send_chunk builds: verb, Filename, Offset (sprintf "%d")
\* and the chunk as body (set_body adds Content-Length).
Request(off, data) ==
    SetBody(AddNamedHeader(AddNamedHeader(SetVerb(EmptyMsg, CopyVerb), Filename, DstName),
                           OffsetKey, Decimal(off)),
            data)

\* The process ends; the kernel closes its socket.
ClientDies(how) == cpc' = how /\ cliClosed' = (conn = "ok")

\* hms_connector_send_msg on the connector: a NULL connector fails its
\* hms_assert (exit), -1 is dereferenced (SIGSEGV).  The client does not
\* ignore SIGPIPE: a write after the server's RST kills it; before the RST
\* arrives the bytes are accepted and lost.  The result is not looked at.
SendRequest(m) ==
    CASE conn = "null"   -> ClientDies("exitErr") /\ UNCHANGED <<net, peer>>
      [] conn = "minus1" -> ClientDies("killed") /\ UNCHANGED <<net, peer>>
      [] peer = "open"   -> net' = Append(net, m) /\ UNCHANGED <<cpc, cliClosed, peer>>
      [] peer = "reset"  -> ClientDies("killed") /\ UNCHANGED <<net, peer>>
      [] OTHER           -> peer' = "rst_pending" /\ UNCHANGED <<cpc, cliClosed, net>>

\* __send_chunk(offset, len): open, malloc or a short pread make it return
\* -1; set_body returns 0, and the "if(ret)" after hms_connector_send_msg
\* tests that same ret, so a failed send is not noticed.
SendChunk(off, len) ==
    \/ ClientDies("exitErr") /\ UNCHANGED <<net, peer>>
    \/ SendRequest(Request(off, SubSeq(src, off + 1, off + len)))

\* One turn of main's loop: a chunk of at most chunk_size bytes is sent,
\* then offset and left advance; a -1 from __send_chunk exits with -1.
Chunk ==
    /\ cpc = "loop" /\ left > 0
    /\ LET len == IF left > ChunkSize THEN ChunkSize ELSE left
       IN /\ offset' = offset + len /\ left' = left - len
          /\ SendChunk(offset, len)
    /\ UNCHANGED <<src, old, conn, spc, dst>>

\* hms_connector_destroy: its hms_assert exits on NULL, -1 is
\* dereferenced; otherwise it closes the socket.
ConnectorDestroy ==
    CASE conn = "null"   -> ClientDies("exitErr")
      [] conn = "minus1" -> ClientDies("killed")
      [] OTHER           -> cliClosed' = TRUE /\ cpc' = "exit0"

\* After the loop main destroys the connector and returns 0.
Finish ==
    /\ cpc = "loop" /\ left = 0
    /\ ConnectorDestroy
    /\ UNCHANGED <<src, old, conn, offset, left, net, spc, peer, dst>>

\* The RST drawn by a write to the closed server socket reaches the client.
RstArrives ==
    /\ peer = "rst_pending" /\ peer' = "reset"
    /\ UNCHANGED <<src, old, cpc, conn, offset, left, net, cliClosed, spc, dst>>

(***************************************************************************)
(* copy_server's endpoint worker                                          *)
(***************************************************************************)
\* pwrite(fd, data, len, off) on file f: bytes past the end become holes.
PWrite(f, off, data) ==
    LET n == IF Len(f) > off + Len(data) THEN Len(f) ELSE off + Len(data)
    IN [i \in 1..n |-> CASE i > off /\ i <= off + Len(data) -> data[i - off]
                         [] i <= Len(f)                   -> f[i]
                         [] OTHER                         -> NUL]

\* A named header's value (hms_msg_get_named_header), <<>> when absent.
Header(m, k) == IF NamedIndex(m, k) = 0 THEN <<>> ELSE m.nh[NamedIndex(m, k)].val

\* hms_endpoint_recv_msg, then __copy_validate (which never sets is_copy
\* and so accepts everything), __copy_accepts (verb COPY) and
\* __copy_handle: open(filename, O_WRONLY | O_CREAT) and pwrite at
\* atoi(Offset) may fail and return -1, which ends the loop and closes the
\* endpoint; the client's later writes draw a RST.
Serve ==
    /\ spc = "recv" /\ net # <<>>
    /\ LET m   == Head(net)
           off == Strtol(Header(m, OffsetKey))
       IN /\ m.verb = CopyVerb /\ Header(m, Filename) # <<>>
          /\ \/ /\ dst' = PWrite(dst, off, m.body)
                /\ UNCHANGED <<spc, peer>>
             \/ /\ spc' = "closed"
                /\ peer' = IF peer = "open" THEN "closed" ELSE peer
                /\ UNCHANGED dst
    /\ net' = Tail(net)
    /\ UNCHANGED <<src, old, cpc, conn, offset, left, cliClosed>>

\* hms_msg_parse meets the end of the stream: the endpoint is destroyed.
ServerEof ==
    /\ spc = "recv" /\ net = <<>> /\ cliClosed
    /\ spc' = "closed" /\ peer' = IF peer = "open" THEN "closed" ELSE peer
    /\ UNCHANGED <<src, old, cpc, conn, offset, left, net, cliClosed, dst>>

Next == Connect \/ Chunk \/ Finish \/ RstArrives \/ Serve \/ ServerEof

\* Both processes are scheduled by the OS and the network delivers the
\* RST; nothing forces a failure.
Spec ==
    /\ Init /\ [][Next]_vars
    /\ WF_vars(Connect \/ Chunk \/ Finish) /\ WF_vars(Serve \/ ServerEof)
    /\ WF_vars(RstArrives)

=============================================================================
