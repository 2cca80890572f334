----------------------------- MODULE HermesCodec -----------------------------
(***************************************************************************)
(* hms_msg_parse (src/src/hms/hms_parser.c) reading one message from a     *)
(* socket, byte by byte as __hms_parse_read_header does, then parsing the  *)
(* header block and reading the body.  The peer either serializes a       *)
(* message (HermesMsg!Wire, what hms_connector_send_msg writes) or sends   *)
(* raw bytes; the stream then ends (EOF).                                  *)
(***************************************************************************)
EXTENDS HermesMsg

CONSTANTS
    MaxHdr,     \* max_hdr_len (HERMES_MAX_HDR_SIZE, 1024 in hermes.h)
    Messages,   \* messages a well-behaved peer serializes
    RawInputs,  \* byte streams any other peer may send
    NoMsg       \* the peer sent raw bytes, not a serialized message

ASSUME MaxHdr \in Nat \ {0}

VARIABLES
    sentMsg,    \* the message the peer serialized, or NoMsg
    stream,     \* bytes sent and not yet read
    buf,        \* the header buffer: buffer[0..hdr_len-1]
    dotSeen,    \* dot_seen
    dotPos,     \* dot_ptr, as a 1-based index into buf (0 = NULL)
    isDone,     \* is_done
    phase,      \* "header", "body" or "done"
    msg,        \* the message under construction / returned
    bodyLen,    \* body_len
    result      \* "pending", "msg", "null" (hms_msg_parse returned NULL)
                \* or "abort" (the process died)

vars == <<sentMsg, stream, buf, dotSeen, dotPos, isDone, phase, msg, bodyLen, result>>

(***************************************************************************)
(* Parsing the header block                                                *)
(***************************************************************************)
\* strtok_r(s, D): the maximal non-empty runs of bytes not in D.
RECURSIVE Tokens(_, _)
Tokens(s, D) ==
    IF s = <<>> THEN <<>>
    ELSE LET i == SelectInSeq(s, LAMBDA c : c \in D)
         IN IF i = 0 THEN <<s>>
            ELSE (IF i = 1 THEN <<>> ELSE <<SubSeq(s, 1, i - 1)>>)
                 \o Tokens(SubSeq(s, i + 1, Len(s)), D)

\* __hms_str_strip: drop leading and trailing white space.
Strip(s) ==
    LET f == SelectInSeq(s, LAMBDA c : c \notin Space)
        l == SelectLastInSeq(s, LAMBDA c : c \notin Space)
    IN IF f = 0 THEN <<>> ELSE SubSeq(s, f, l)

\* The state __hms_parse_header threads through its loop.
Parsed(err, m, bl) == [err |-> err, msg |-> m, bodyLen |-> bl]

\* __hms_parse_verb_line: the first token is the verb, the rest are
\* unnamed headers; no token is an error.
ParseVerbLine(m, line) ==
    LET w == Tokens(line, {" ", "\t"})
    IN IF w = <<>> THEN Parsed(TRUE, m, 0)
       ELSE Parsed(FALSE, FoldLeft(AddHeader, SetVerb(m, Head(w)), Tail(w)), 0)

\* __hms_parse_named_header: split at the first ':', strip both sides; a
\* Content-Length sets body_len (0 is an error); the header is added.
ParseNamedHeader(acc, line) ==
    LET i   == SelectInSeq(line, LAMBDA c : c = ":")
        key == Strip(SubSeq(line, 1, i - 1))
        val == Strip(SubSeq(line, i + 1, Len(line)))
        bl  == IF key = ContentLength THEN Strtol(val) ELSE acc.bodyLen
    IN IF i = 0 \/ (key = ContentLength /\ bl = 0) THEN [acc EXCEPT !.err = TRUE]
       ELSE Parsed(FALSE, AddNamedHeader(acc.msg, key, val), bl)

\* __hms_parse_header on the C string in the buffer: its lines, the first
\* the verb line, parsed until the first error.
ParseHeader(text) ==
    LET lines == Tokens(text, {LF})
    IN IF lines = <<>> THEN Parsed(FALSE, EmptyMsg, 0)
       ELSE FoldLeft(LAMBDA acc, line : IF acc.err THEN acc ELSE ParseNamedHeader(acc, line),
                     ParseVerbLine(EmptyMsg, Head(lines)), Tail(lines))

(***************************************************************************)
(* hms_msg_parse                                                           *)
(***************************************************************************)
Init ==
    /\ \/ \E m \in Messages : sentMsg = m /\ stream = Wire(m)
       \/ \E s \in RawInputs : sentMsg = NoMsg /\ stream = s
    /\ buf = <<>> /\ dotSeen = FALSE /\ dotPos = 0 /\ isDone = FALSE
    /\ phase = "header" /\ msg = EmptyMsg /\ bodyLen = 0 /\ result = "pending"

\* Faulty variant: the loop does not stop when the buffer is full.
ReadHeaderByteUnbounded ==
    /\ phase = "header" /\ ~isDone /\ stream # <<>>
    /\ LET c == IF Head(stream) = CR THEN " " ELSE Head(stream) IN
         /\ buf' = Append(buf, c)
         /\ CASE c = "." -> dotSeen' = TRUE /\ dotPos' = Len(buf) + 1 /\ UNCHANGED isDone
              [] dotSeen /\ c = LF -> isDone' = TRUE /\ UNCHANGED <<dotSeen, dotPos>>
              [] dotSeen /\ c \notin {" ", CR, LF} ->
                    dotSeen' = FALSE /\ dotPos' = 0 /\ UNCHANGED isDone
              [] OTHER -> UNCHANGED <<dotSeen, dotPos, isDone>>
    /\ stream' = Tail(stream)
    /\ UNCHANGED <<sentMsg, phase, msg, bodyLen, result>>

\* Faulty variant: a byte other than white space after a '.' does not
\* clear dot_seen.
ReadHeaderByteNoReset ==
    /\ phase = "header" /\ ~isDone /\ Len(buf) < MaxHdr /\ stream # <<>>
    /\ LET c == IF Head(stream) = CR THEN " " ELSE Head(stream) IN
         /\ buf' = Append(buf, c)
         /\ CASE c = "." -> dotSeen' = TRUE /\ dotPos' = Len(buf) + 1 /\ UNCHANGED isDone
              [] dotSeen /\ c = LF -> isDone' = TRUE /\ UNCHANGED <<dotSeen, dotPos>>
              [] OTHER -> UNCHANGED <<dotSeen, dotPos, isDone>>
    /\ stream' = Tail(stream)
    /\ UNCHANGED <<sentMsg, phase, msg, bodyLen, result>>

\* One iteration of the loop of __hms_parse_read_header: read a byte, turn
\* '\r' into ' ', store it, and track the last '.' that only white space
\* follows; a '\n' after it ends the header.
ReadHeaderByte ==
    /\ phase = "header" /\ ~isDone /\ Len(buf) < MaxHdr /\ stream # <<>>
    /\ LET c == IF Head(stream) = CR THEN " " ELSE Head(stream) IN
         /\ buf' = Append(buf, c)
         /\ CASE c = "." -> dotSeen' = TRUE /\ dotPos' = Len(buf) + 1 /\ UNCHANGED isDone
              [] dotSeen /\ c = LF -> isDone' = TRUE /\ UNCHANGED <<dotSeen, dotPos>>
              [] dotSeen /\ c \notin {" ", CR, LF} ->
                    dotSeen' = FALSE /\ dotPos' = 0 /\ UNCHANGED isDone
              [] OTHER -> UNCHANGED <<dotSeen, dotPos, isDone>>
    /\ stream' = Tail(stream)
    /\ UNCHANGED <<sentMsg, phase, msg, bodyLen, result>>

\* The end of __hms_parse_read_header: the '.' is overwritten by '\0', so
\* the C string is the bytes before it ...
HeaderString == SubSeq(buf, 1, dotPos - 1)

\* ... and hdr_len is returned only when the terminator was seen, else -1.
HdrLen == IF isDone THEN Len(buf) ELSE -1

\* The loop has ended (terminator, EOF or a full buffer).  hdr_len > 2 is
\* parsed; a parse error or body_len = 0 decides whether the body is read.
ParseHeaderBlock ==
    /\ phase = "header"
    /\ isDone \/ stream = <<>> \/ Len(buf) = MaxHdr
    /\ LET p == ParseHeader(HeaderString)
       IN IF HdrLen <= 2 \/ p.err
            THEN /\ result' = "null" /\ phase' = "done"
                 /\ UNCHANGED <<msg, bodyLen>>
            ELSE /\ msg' = p.msg /\ bodyLen' = p.bodyLen
                 /\ IF p.bodyLen # 0
                      THEN phase' = "body" /\ UNCHANGED result
                      ELSE phase' = "done" /\ result' = "msg"
    /\ UNCHANGED <<sentMsg, stream, buf, dotSeen, dotPos, isDone>>

\* __hms_parse_read_body.  body_len = -1 is malloc(0), which may be NULL
\* (the read fails) or not: then the loop is skipped and
\* assert(read_in == body_len) aborts (with NDEBUG, hms_msg_set_body's
\* malloc(-1) fails its hms_assert and exits).  A smaller body_len makes
\* malloc fail.  A positive one reads that many bytes or fails at EOF;
\* then hms_msg_set_body.
ReadBody ==
    /\ phase = "body"
    /\ \/ /\ bodyLen = -1
          /\ result' \in {"null", "abort"}
          /\ UNCHANGED <<stream, msg>>
       \/ /\ bodyLen < -1
          /\ result' = "null"
          /\ UNCHANGED <<stream, msg>>
       \/ /\ bodyLen > 0 /\ Len(stream) >= bodyLen
          /\ msg' = SetBody(msg, SubSeq(stream, 1, bodyLen))
          /\ stream' = SubSeq(stream, bodyLen + 1, Len(stream))
          /\ result' = "msg"
       \/ /\ bodyLen > 0 /\ Len(stream) < bodyLen
          /\ stream' = <<>>
          /\ result' = "null"
          /\ UNCHANGED msg
    /\ phase' = "done"
    /\ UNCHANGED <<sentMsg, buf, dotSeen, dotPos, isDone, bodyLen>>

Next == ReadHeaderByte \/ ParseHeaderBlock \/ ReadBody

\* hms_msg_parse runs to completion: the reading thread is not starved.
Spec == Init /\ [][Next]_vars /\ WF_vars(Next)

(***************************************************************************)
(* Properties                                                              *)
(***************************************************************************)
\* Types; the header buffer never holds more than max_hdr_len bytes
\* (buffer is malloc(max_hdr_len + 1)).
TypeOK ==
    /\ buf \in Seq(STRING) /\ Len(buf) <= MaxHdr
    /\ dotSeen \in BOOLEAN /\ isDone \in BOOLEAN /\ dotPos \in 0..Len(buf)
    /\ isDone => dotSeen /\ dotPos > 0
    /\ phase \in {"header", "body", "done"}
    /\ result \in {"pending", "msg", "null", "abort"}
    /\ (result = "pending") = (phase # "done")
    /\ bodyLen \in Int

\* Same message, as the spec's round-trip law compares them: same verb,
\* unnamed headers in order, same set of named headers, same body.
Equivalent(m1, m2) ==
    /\ m1.verb = m2.verb /\ m1.uh = m2.uh
    /\ ToSet(m1.nh) = ToSet(m2.nh) /\ m1.body = m2.body

\* Round trip: parsing what hms_connector_send_msg writes for a message
\* gives back an equivalent message and consumes exactly its bytes, so
\* the next message on the connection starts where it should.
RoundTrip ==
    (phase = "done" /\ sentMsg # NoMsg) =>
        /\ result = "msg" /\ Equivalent(msg, sentMsg)
        /\ stream = <<>>

\* Every message hms_msg_parse returns keeps invariant I1 as
\* hms_msg_get_body_size checks it: the handler reading its body size does
\* not exit the process, whatever header lines the peer sent.
ParsedBodySizeConsistent == result = "msg" => BodySizeConsistent(msg)

\* No byte stream makes hms_msg_parse kill the server process.
ParseNeverAborts == result # "abort"

\* A message hms_msg_parse returns has a verb (spec: a verb line with no
\* token is malformed and the parse fails).
ParsedHasVerb == result = "msg" => msg.verb # <<>>
=============================================================================
