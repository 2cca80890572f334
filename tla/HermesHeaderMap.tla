---------------------------- MODULE HermesHeaderMap ----------------------------
(***************************************************************************)
(* What the named-header calls of src/src/hms/hms_msg.c promise an        *)
(* application, without the lists: the named headers are a map from key   *)
(* (compared case-insensitively) to value.  add_named_header sets a key,  *)
(* del_named_header unsets it, get_named_header returns a copy of its     *)
(* value or NULL; set_body sets the body and its Content-Length to the    *)
(* length as text, del_body takes both away.  The other calls leave the   *)
(* map and the body alone.  HermesMsgApi is checked to implement this.    *)
(***************************************************************************)
EXTENDS Sequences

CONSTANTS
    Names,           \* the keys an application passes, Content-Length among them
    Vals,            \* the values they can hold
    Bodies,          \* the bodies passed to set_body
    ContentLength,   \* HMS_CONTENT_LENGTH
    Absent,          \* no header with that key
    LengthText(_)    \* the text set_body stores for a length

VARIABLES
    named,   \* named[k]: the value of key k, or Absent
    body,    \* the body (<<>>: none)
    got,     \* what the last get_named_header returned (<<>>: NULL)
    call     \* the last call: [op, key]

hvars == <<named, body, got, call>>

NoHeaders == [k \in Names |-> Absent]

Op(op, k) == call' = [op |-> op, key |-> k]

HInit == named = NoHeaders /\ body = <<>> /\ got = <<>> /\ call = [op |-> "create", key |-> <<>>]

HCreate == Op("create", <<>>) /\ named' = NoHeaders /\ body' = <<>> /\ got' = <<>>

HPut(k, v) ==
    /\ Op("add_named", k) /\ named' = [named EXCEPT ![k] = v]
    /\ got' = <<>> /\ UNCHANGED body

HRemove(k) ==
    /\ Op("del_named", k) /\ named' = [named EXCEPT ![k] = Absent]
    /\ got' = <<>> /\ UNCHANGED body

HLookup(k) ==
    /\ Op("get_named", k) /\ got' = IF named[k] = Absent THEN <<>> ELSE named[k]
    /\ UNCHANGED <<named, body>>

HSetBody(d) ==
    /\ Op("set_body", <<>>) /\ body' = d
    /\ named' = [named EXCEPT ![ContentLength] = LengthText(Len(d))]
    /\ got' = <<>>

HDelBody ==
    /\ Op("del_body", <<>>) /\ body' = <<>>
    /\ named' = IF body = <<>> THEN named ELSE [named EXCEPT ![ContentLength] = Absent]
    /\ got' = <<>>

\* Calls about the verb, the unnamed headers, reading the body, destroy.
HOther ==
    /\ call'.op \in {"set_verb", "add_header", "del_header", "get_header",
                     "get_body_size", "get_body", "destroy"}
    /\ got' = <<>> /\ UNCHANGED <<named, body>>

HNext ==
    \/ HCreate \/ HDelBody \/ HOther
    \/ \E k \in Names : HRemove(k) \/ HLookup(k) \/ \E v \in Vals : HPut(k, v)
    \/ \E d \in Bodies : HSetBody(d)

HSpec == HInit /\ [][HNext]_hvars
=============================================================================
