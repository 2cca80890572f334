------------------------------ MODULE HermesMsg ------------------------------
(***************************************************************************)
(* The message object of src/src/hms/hms_msg.c as values: a verb, the     *)
(* unnamed headers in order, the named headers in list order and the      *)
(* body.  A string is a sequence of bytes; the bytes are abstract symbols *)
(* of a small alphabet, letters standing for case-folded letters, so that *)
(* strcasecmp is equality.  The key "Content-Length" (HMS_CONTENT_LENGTH)  *)
(* is the one-letter key <<"K">>.  A NULL verb and a NULL body are <<>>:   *)
(* the parser never makes an empty verb and set_body refuses len = 0.      *)
(* Checksums are left out: hermes.h leaves HERMES_ENABLE_CHECKSUMS         *)
(* undefined, so that code is not compiled.                                *)
(***************************************************************************)
EXTENDS Integers, Sequences, SequencesExt

LF == "\n"
CR == "\r"

\* The bytes isspace() is true of, within the alphabet.
Space == {" ", "\t", LF, CR}

DigitChars == <<"0", "1", "2", "3", "4", "5", "6", "7", "8", "9">>

ContentLength == <<"K">>

(***************************************************************************)
(* Conversions                                                             *)
(***************************************************************************)
\* sprintf(value, "%d", len) for len > 0.
RECURSIVE Decimal(_)
Decimal(n) ==
    IF n < 10 THEN <<DigitChars[n + 1]>>
    ELSE Decimal(n \div 10) \o <<DigitChars[(n % 10) + 1]>>

\* The value of the digits at the front of s, after acc.
RECURSIVE LeadingNumber(_, _)
LeadingNumber(s, acc) ==
    IF s # <<>> /\ \E d \in 1..10 : DigitChars[d] = Head(s)
      THEN LeadingNumber(Tail(s),
                         10 * acc + (CHOOSE d \in 0..9 : DigitChars[d + 1] = Head(s)))
      ELSE acc

\* strtol(s, NULL, 10) and atoi(s): leading white space, a sign, then the
\* longest run of digits; 0 when there is none.
Strtol(s) ==
    LET t == LET f == SelectInSeq(s, LAMBDA c : c \notin Space)
             IN IF f = 0 THEN <<>> ELSE SubSeq(s, f, Len(s))
    IN CASE t # <<>> /\ Head(t) = "-" -> -LeadingNumber(Tail(t), 0)
         [] t # <<>> /\ Head(t) = "+" -> LeadingNumber(Tail(t), 0)
         [] OTHER                     -> LeadingNumber(t, 0)

(***************************************************************************)
(* hms_msg operations                                                      *)
(***************************************************************************)
\* hms_list_add_tail: the entry is linked in before the list head, that
\* is at the tail.
ListAddTail(l, x) == Append(l, x)

\* hms_list_del: the entry's neighbours are linked to each other.
ListDel(l, i) == RemoveAt(l, i)

\* struct hms_msg (hermes.h) over verbs Vb, header values Vs, named keys
\* Ks and bodies Bs: the verb, the hms_msg_uheader and hms_msg_nheader
\* lists and the content; content_len is Len(body), id is never set, and
\* the counters are kept by HermesMsgApi.
Message(Vb, Vs, Ks, Bs) ==
    [verb : Vb \cup {<<>>}, uh : Seq(Vs), nh : Seq([key : Ks, val : Vs]),
     body : Bs \cup {<<>>}]

\* hms_msg_create
EmptyMsg == [verb |-> <<>>, uh |-> <<>>, nh |-> <<>>, body |-> <<>>]

\* hms_msg_set_verb: replaces the verb.
SetVerb(m, v) == [m EXCEPT !.verb = v]

\* hms_msg_add_header: appends at the tail.
AddHeader(m, v) == [m EXCEPT !.uh = ListAddTail(@, v)]

\* Index of the first named header whose key matches k, 0 if none
\* (hms_msg_get_named_header).
NamedIndex(m, k) == SelectInSeq(m.nh, LAMBDA h : h.key = k)

\* __hms_create_named_header: a fresh header holding copies of key and value.
NamedHeader(k, v) == [key |-> k, val |-> v]

\* Faulty variant: key and value change places.
AddNamedHeaderSwapped(m, k, v) ==
    [m EXCEPT !.nh = Append(RemoveFirstMatch(@, LAMBDA h : h.key = k),
                            [key |-> v, val |-> k])]

\* Faulty variant: an existing key is not deleted first.
AddNamedHeaderAppend(m, k, v) == [m EXCEPT !.nh = Append(@, [key |-> k, val |-> v])]

\* hms_msg_add_named_header: hms_msg_del_named_header removes the first
\* header with that key, then the new one goes to the tail.
AddNamedHeader(m, k, v) ==
    [m EXCEPT !.nh = ListAddTail(RemoveFirstMatch(@, LAMBDA h : h.key = k),
                                 NamedHeader(k, v))]

\* Faulty variant: the body goes but its Content-Length header stays.
DelBodyKeepsHeader(m) ==
    IF m.body = <<>> THEN [ok |-> TRUE, msg |-> m]
    ELSE LET i == NamedIndex(m, ContentLength)
         IN IF i = 0 \/ Strtol(m.nh[i].val) # Len(m.body)
              THEN [ok |-> FALSE, msg |-> m]
              ELSE [ok |-> TRUE, msg |-> [m EXCEPT !.body = <<>>]]

\* hms_msg_del_body: with a body, the first Content-Length must exist and
\* match (ok = FALSE: hms_assert_equals exits); it is deleted with the body.
\* The Content-Checksum deletion finds nothing: no key is a checksum.
DelBody(m) ==
    IF m.body = <<>> THEN [ok |-> TRUE, msg |-> m]
    ELSE LET i == NamedIndex(m, ContentLength)
         IN IF i = 0 \/ Strtol(m.nh[i].val) # Len(m.body)
              THEN [ok |-> FALSE, msg |-> m]
              ELSE [ok |-> TRUE,
                    msg |-> [m EXCEPT !.body = <<>>, !.nh = ListDel(@, i)]]

\* hms_msg_set_body (data non-empty; valid when DelBody(m).ok): delete the
\* old body, copy the data, set Content-Length to the decimal length.
SetBody(m, data) ==
    AddNamedHeader([DelBody(m).msg EXCEPT !.body = data],
                   ContentLength, Decimal(Len(data)))

\* hms_msg_get_body_size returns (rather than exiting through
\* hms_assert_equals) iff the first Content-Length header's atoi value is
\* the body length, or there is none and there is no body.
BodySizeConsistent(m) ==
    LET i == NamedIndex(m, ContentLength)
    IN IF i # 0 THEN Strtol(m.nh[i].val) = Len(m.body) ELSE m.body = <<>>

(***************************************************************************)
(* Serialization                                                           *)
(***************************************************************************)
\* hms_msg_print_header (hms_msg_get_header_size is its length): the verb,
\* " " before each unnamed header, "\n", "key:value\n" for each named
\* header, then ".\n".
PrintHeader(m) ==
    m.verb \o FlattenSeq([i \in 1..Len(m.uh) |-> <<" ">> \o m.uh[i]]) \o <<LF>>
    \o FlattenSeq([i \in 1..Len(m.nh) |-> m.nh[i].key \o <<":">> \o m.nh[i].val \o <<LF>>])
    \o <<".", LF>>

\* The bytes hms_connector_send_msg and hms_endpoint_send_msg write: the
\* header, then the body when hms_msg_get_body_size is positive.
Wire(m) == PrintHeader(m) \o m.body
=============================================================================
