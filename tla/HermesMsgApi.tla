----------------------------- MODULE HermesMsgApi -----------------------------
(***************************************************************************)
(* One hms_msg driven through its public API (src/src/hms/hms_msg.c) by   *)
(* an application: any sequence of calls with arguments from small sets.  *)
(* The counters num_headers and num_named_headers are kept beside the    *)
(* lists, as the code keeps them, and destroy then create start over.     *)
(* Of the operations that only read, get_header (which trusts num_headers *)
(* for its bounds), get_named_header, get_body_size and get_body (whose   *)
(* hms_assert_equals exit the process) are modelled; get_verb is not.     *)
(***************************************************************************)
EXTENDS HermesMsg

CONSTANTS
    Verbs,       \* verbs passed to set_verb
    Values,      \* unnamed header values and named header values
    Keys,        \* named header keys passed to add/del_named_header
    Bodies,      \* data passed to set_body (never empty: len 0 exits)
    MaxHeaders   \* bound on unnamed headers

VARIABLES
    m,                  \* the message
    num_headers,        \* msg->num_headers
    num_named_headers,  \* msg->num_named_headers
    held,               \* the application holds a message (not destroyed)
    alive,              \* FALSE once an hms_assert or a NULL strdup ended the process
    ret,                \* the value the last get_header returned (<<>>: NULL)
    call                \* the last call: [op, key] (key only for named headers)

vars == <<m, num_headers, num_named_headers, held, alive, ret, call>>

\* What hms_msg_del_named_header takes off num_named_headers for key k.
Found(msg, k) == IF NamedIndex(msg, k) # 0 THEN 1 ELSE 0

\* hms_msg_create.
Fresh ==
    /\ m' = EmptyMsg /\ num_headers' = 0 /\ num_named_headers' = 0 /\ held' = TRUE

Init ==
    /\ m = EmptyMsg /\ num_headers = 0 /\ num_named_headers = 0 /\ held = TRUE
    /\ alive = TRUE /\ ret = <<>> /\ call = [op |-> "create", key |-> <<>>]

Called(op, k) == call' = [op |-> op, key |-> k]

\* Calls that cannot exit: the message and its counters become new, nh.
Do(op, k, new, nu, nn) ==
    /\ alive /\ held
    /\ m' = new /\ num_headers' = nu /\ num_named_headers' = nn
    /\ Called(op, k) /\ UNCHANGED <<held, alive, ret>>

SetVerbCall(v) ==
    Do("set_verb", <<>>, SetVerb(m, v), num_headers, num_named_headers)

AddHeaderCall(v) ==
    /\ Len(m.uh) < MaxHeaders
    /\ Do("add_header", <<>>, AddHeader(m, v), num_headers + 1, num_named_headers)

\* hms_msg_del_header(index): out of range of num_headers fails; otherwise
\* the walk deletes the index-th header (0-based), if the list has one.
DelHeaderCall(i) ==
    IF num_headers <= 0 \/ i < 0 \/ i >= num_headers
      THEN Do("del_header", <<>>, m, num_headers, num_named_headers)
    ELSE IF i < Len(m.uh)
      THEN Do("del_header", <<>>, [m EXCEPT !.uh = ListDel(@, i + 1)],
              num_headers - 1, num_named_headers)
    ELSE Do("del_header", <<>>, m, num_headers, num_named_headers)

AddNamedCall(k, v) ==
    Do("add_named", k, AddNamedHeader(m, k, v),
       num_headers, num_named_headers - Found(m, k) + 1)

\* Faulty variant: the count goes down whether or not the key was found.
DelNamedCallAlwaysDec(k) ==
    Do("del_named", k, [m EXCEPT !.nh = RemoveFirstMatch(@, LAMBDA h : h.key = k)],
       num_headers, num_named_headers - 1)

\* hms_msg_del_named_header: removes the first header with that key and
\* counts it off.
DelNamedCall(k) ==
    Do("del_named", k, [m EXCEPT !.nh = RemoveFirstMatch(@, LAMBDA h : h.key = k)],
       num_headers, num_named_headers - Found(m, k))

\* Calls whose hms_assert checks may exit: the message stays as it was.
Checked(op, ok, new, nn) ==
    /\ alive /\ held
    /\ alive' = ok
    /\ m' = IF ok THEN new ELSE m
    /\ num_named_headers' = IF ok THEN nn ELSE num_named_headers
    /\ Called(op, <<>>) /\ UNCHANGED <<num_headers, held, ret>>

\* del_body counts off the Content-Length it deletes.
AfterDelBody == num_named_headers - (IF m.body # <<>> THEN 1 ELSE 0)

SetBodyCall(d) ==
    Checked("set_body", DelBody(m).ok, SetBody(m, d),
            AfterDelBody - Found(DelBody(m).msg, ContentLength) + 1)

DelBodyCall == Checked("del_body", DelBody(m).ok, DelBody(m).msg, AfterDelBody)

\* hms_msg_get_body_size, and hms_msg_get_body, which checks the same
\* agreement when there is a body.
GetBodySizeCall == Checked("get_body_size", BodySizeConsistent(m), m, num_named_headers)

GetBodyCall ==
    Checked("get_body", m.body = <<>> \/ BodySizeConsistent(m), m, num_named_headers)

\* The values a named header can hold: the application's, and the
\* Content-Length set_body writes.
NamedValues == Values \cup {Decimal(Len(d)) : d \in Bodies}

\* Faulty variant: the walk has no break, so a match still ends the walk
\* on the list head, whose val is NULL.
GetNamedNoBreak(k) ==
    /\ alive /\ held
    /\ IF NamedIndex(m, k) # 0 THEN alive' = FALSE /\ UNCHANGED ret
       ELSE ret' = <<>> /\ UNCHANGED alive
    /\ Called("get_named", k)
    /\ UNCHANGED <<m, num_headers, num_named_headers, held>>

\* hms_msg_get_named_header(key): the walk breaks at the first header whose
\* key matches and returns a copy of its value; NULL when none does.
GetNamedCall(k) ==
    /\ alive /\ held
    /\ ret' = IF NamedIndex(m, k) # 0 THEN m.nh[NamedIndex(m, k)].val ELSE <<>>
    /\ Called("get_named", k)
    /\ UNCHANGED <<m, num_headers, num_named_headers, held, alive>>

\* get_header with the bound test index >= num_headers written as
\* index > limit (limit = num_headers: the off-by-one variant).
GetHeaderWith(i, limit) ==
    /\ alive /\ held
    /\ CASE num_headers <= 0 \/ i < 0 \/ i > limit -> ret' = <<>> /\ UNCHANGED alive
         [] i < Len(m.uh)                           -> ret' = m.uh[i + 1] /\ UNCHANGED alive
         [] OTHER                                   -> alive' = FALSE /\ UNCHANGED ret
    /\ Called("get_header", i)
    /\ UNCHANGED <<m, num_headers, num_named_headers, held>>

\* Faulty variant: the bound test lets index = num_headers through.
GetHeaderOffByOne(i) == GetHeaderWith(i, num_headers)

\* hms_msg_get_header(index): NULL out of range of num_headers; otherwise
\* the walk stops at the index-th header and returns a copy of its value.
\* A walk that runs out of headers ends on the list head, whose val is
\* NULL (msg was calloc'ed), and strdup(NULL) kills the process.
GetHeaderCall(i) == GetHeaderWith(i, num_headers - 1)

\* hms_msg_destroy: every header is unlinked and counted off, then each
\* count must be 0 (hms_assert_equals); the application has no message
\* until it creates the next one.
DestroyCall ==
    /\ alive /\ held
    /\ alive' = (num_headers = Len(m.uh) /\ num_named_headers = Len(m.nh))
    /\ held' = FALSE /\ Called("destroy", <<>>)
    /\ UNCHANGED <<m, num_headers, num_named_headers, ret>>

CreateCall == alive /\ ~held /\ Fresh /\ Called("create", <<>>) /\ UNCHANGED <<alive, ret>>

Next ==
    \/ \E v \in Verbs : SetVerbCall(v)
    \/ \E v \in Values : AddHeaderCall(v)
    \/ \E i \in -1..MaxHeaders : DelHeaderCall(i) \/ GetHeaderCall(i)
    \/ \E k \in Keys, v \in Values : AddNamedCall(k, v)
    \/ \E k \in Keys : DelNamedCall(k)
    \/ \E k \in Keys \cup {ContentLength} : GetNamedCall(k)
    \/ \E d \in Bodies : SetBodyCall(d)
    \/ DelBodyCall \/ GetBodySizeCall \/ GetBodyCall \/ DestroyCall \/ CreateCall

Spec == Init /\ [][Next]_vars

(***************************************************************************)
(* Properties                                                              *)
(***************************************************************************)
TypeOK ==
    /\ m \in Message(Verbs, NamedValues, Keys \cup {ContentLength}, Bodies)
    /\ ToSet(m.uh) \subseteq Values /\ Len(m.uh) <= MaxHeaders
    /\ num_headers \in Int /\ num_named_headers \in Int
    /\ held \in BOOLEAN /\ alive \in BOOLEAN
    /\ ret \in NamedValues \cup {<<>>}

\* Invariant I1 through any sequence of calls: the process never exits on
\* a body/Content-Length mismatch and the message always agrees with its
\* Content-Length (set_body and del_body keep them together).
BodyLengthAgrees == alive /\ BodySizeConsistent(m)

\* At most one named header per key (case-insensitively): add_named_header
\* replaces rather than duplicates, and set_body's Content-Length replaces
\* the previous one.
NamedKeysUnique ==
    \A i, j \in DOMAIN m.nh : i # j => m.nh[i].key # m.nh[j].key

\* Each counter is the length of its list, whatever path the calls took
\* (del_named of an absent key, set_body's replacing of Content-Length,
\* del_header past the end): hms_msg_destroy's hms_assert_equals(0, ...)
\* and get_header's bounds test rely on it.
CountersAgree == num_headers = Len(m.uh) /\ num_named_headers = Len(m.nh)

\* hms_msg_get_header(i) returns the i-th unnamed header (0-based) when
\* there is one and NULL otherwise; it never runs its walk off the list
\* into strdup(NULL).
GetHeaderReturnsIndexed ==
    [][call'.op = "get_header" =>
         /\ alive'
         /\ ret' = IF call'.key \in 0..(Len(m.uh) - 1) THEN m.uh[call'.key + 1] ELSE <<>>]_vars

\* The named headers and the body seen as HermesHeaderMap's map: the value
\* of the first header with each key.
Headers == INSTANCE HermesHeaderMap
             WITH Names <- Keys \cup {ContentLength}, Vals <- NamedValues,
                  Absent <- "absent", LengthText <- Decimal,
                  named <- [k \in Keys \cup {ContentLength} |->
                              IF NamedIndex(m, k) # 0 THEN m.nh[NamedIndex(m, k)].val
                              ELSE "absent"],
                  body <- m.body,
                  got <- IF call.op = "get_named" THEN ret ELSE <<>>

\* Every call does to the named headers what the header-map contract says:
\* get_named_header returns the value the last add_named_header or set_body
\* stored for the key, or NULL after del_named_header, del_body or create,
\* however the calls were interleaved with the unnamed-header calls.
HeaderMapSpec == Headers!HSpec

\* Spec: replacing a named header keeps its place in the insertion order.
ReplaceInPlace ==
    [][(call'.op = "add_named" /\ NamedIndex(m, call'.key) # 0)
          => NamedIndex(m', call'.key) = NamedIndex(m, call'.key)]_vars
=============================================================================
