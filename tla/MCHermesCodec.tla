---------------------------- MODULE MCHermesCodec ----------------------------
EXTENDS HermesCodec, FiniteSets

(***************************************************************************)
(* Messages built through the API as an application does: hms_msg_create, *)
(* set_verb, add_header for each unnamed header, add_named_header for the *)
(* user's named headers, and hms_msg_set_body before, between or after    *)
(* them (Content-Length lands where set_body was called).  Only messages  *)
(* whose header fits in MaxHdr bytes are sent.                            *)
(***************************************************************************)
BuiltMessages(Verbs, UHeaders, Keys, Vals, Bodies) ==
    LET userNh == {<<>>} \cup {<<[key |-> k, val |-> v]>> : k \in Keys, v \in Vals}
        made   == { [verb |-> vb, uh |-> u, nh |-> n, body |-> <<>>] :
                      vb \in Verbs, u \in UHeaders, n \in userNh }
        withBody(m, b, p) ==
            [m EXCEPT !.body = b,
                      !.nh = InsertAt(@, p, [key |-> ContentLength, val |-> Decimal(Len(b))])]
        bodied == UNION { { withBody(m, b, p) : p \in 1..Len(m.nh) + 1 } :
                          m \in made, b \in Bodies }
    IN { m \in made \cup bodied :
           Len(PrintHeader(m)) <= MaxHdr }

\* Verbs, headers and values with a '.' inside them but never before a
\* newline, and no white space around named-header values.
CleanMessages ==
    BuiltMessages({<<"a">>, <<"a", ".", "a">>},
                  {<<>>, <<<<"a">>>>},
                  {<<"a">>},
                  {<<"a">>, <<"a", " ", "a">>, <<".", "a">>},
                  {<<"a">>, <<".", LF>>})

\* Messages in the domain of the spec's round-trip law: verbs and unnamed
\* headers without white space, keys and values without ':' or newline.
SpecMessages ==
    BuiltMessages({<<"a">>, <<"a", ".">>},
                  {<<>>, <<<<"a">>>>},
                  {<<"a">>},
                  {<<"a">>, <<" ", "a">>},
                  {<<"a">>})

\* The same domain without a '.' at the end of any token.
SpecMessagesNoDot ==
    BuiltMessages({<<"a">>},
                  {<<>>, <<<<"a">>>>},
                  {<<"a">>},
                  {<<"a">>, <<" ", "a">>},
                  {<<"a">>})

(***************************************************************************)
(* Raw streams: a verb line, up to two header lines, a terminator or none *)
(* and a body.                                                             *)
(***************************************************************************)
RawVerbLines == {<<"a">>, <<>>, <<" ">>}
RawHeaderLines ==
    {<<"K", ":", "1">>, <<"K", ":", "2">>, <<"K", ":", "-", "1">>,
     <<"K", ":", "-", "2">>, <<"K", ":", "0">>, <<"K", ":", "a">>,
     <<"a", ":", "a">>, <<"a">>}
RawTerminators == {<<".", LF>>, <<".", CR, LF>>, <<>>}
RawBodies == {<<>>, <<"a">>}

RawStreams ==
    { v \o <<LF>> \o FlattenSeq([i \in 1..Len(hs) |-> hs[i] \o <<LF>>]) \o t \o b :
        v \in RawVerbLines, hs \in SeqOf(RawHeaderLines, 2),
        t \in RawTerminators, b \in RawBodies }

NoInputs == {}
=============================================================================
