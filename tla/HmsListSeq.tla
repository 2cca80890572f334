----------------------------- MODULE HmsListSeq -----------------------------
(***************************************************************************)
(* What the list operations of src/src/include/hms_list.h do to the lists *)
(* a program holds, each list seen as the sequence of its entries from the *)
(* head.  A position is a usable head or an entry on one of its lists:     *)
(* hms_list_add puts the new entry just after a position, add_tail just    *)
(* before it.  The guards are the callers' side of the contract: an entry  *)
(* added is on no list, an entry deleted or moved is on one, a head is     *)
(* used only once initialised and not left behind by hms_list_splice.     *)
(* HmsList, the pointer structure itself, is checked to implement this.    *)
(***************************************************************************)
EXTENDS Integers, Sequences, SequencesExt

CONSTANTS
    Heads,      \* list heads (struct hms_list_head not in an entry)
    Entries     \* entries (the lh member of a header record)

VARIABLES
    lists,      \* lists[h]: the entries of head h in order; <<>> if unusable
    usable,     \* heads initialised and not spliced away without init
    ret,        \* what the last hms_list_empty returned
    call        \* the last operation and its arguments

svars == <<lists, usable, ret, call>>

Listed(ls) == UNION {ToSet(ls[h]) : h \in usable}

Positions(ls) == usable \cup Listed(ls)

\* The head whose list holds position x, and x's index in it (0: the head).
HomeOf(ls, x) == IF x \in Heads THEN x ELSE CHOOSE h \in usable : x \in ToSet(ls[h])
IndexOf(ls, x) == IF x \in Heads THEN 0 ELSE SelectInSeq(ls[HomeOf(ls, x)], LAMBDA y : y = x)

\* ls with s put after the first k entries of the list of x.
PutAt(ls, x, k, s) ==
    [ls EXCEPT ![HomeOf(ls, x)] = SubSeq(@, 1, k) \o s \o SubSeq(@, k + 1, Len(@))]

After(ls, x, s) == PutAt(ls, x, IndexOf(ls, x), s)

Before(ls, x, s) ==
    PutAt(ls, x, IF x \in Heads THEN Len(ls[x]) ELSE IndexOf(ls, x) - 1, s)

Without(ls, e) == [ls EXCEPT ![HomeOf(ls, e)] = RemoveAt(@, IndexOf(ls, e))]

Did(op, args) == call' = [op |-> op, args |-> args]

SInit ==
    /\ lists = [h \in Heads |-> <<>>] /\ usable = {} /\ ret = FALSE
    /\ call = [op |-> "none", args |-> <<>>]

SInitHead(h) ==
    /\ lists' = [lists EXCEPT ![h] = <<>>] /\ usable' = usable \cup {h}
    /\ Did("init", <<h>>) /\ UNCHANGED ret

SInitEntry(e) == e \notin Listed(lists) /\ Did("init", <<e>>) /\ UNCHANGED <<lists, usable, ret>>

SAdd(e, x) ==
    /\ e \notin Listed(lists) /\ x \in Positions(lists)
    /\ lists' = After(lists, x, <<e>>)
    /\ Did("add", <<e, x>>) /\ UNCHANGED <<usable, ret>>

SAddTail(e, x) ==
    /\ e \notin Listed(lists) /\ x \in Positions(lists)
    /\ lists' = Before(lists, x, <<e>>)
    /\ Did("add_tail", <<e, x>>) /\ UNCHANGED <<usable, ret>>

SDel(e, op) ==
    /\ e \in Listed(lists) /\ lists' = Without(lists, e)
    /\ Did(op, <<e>>) /\ UNCHANGED <<usable, ret>>

\* move puts e after x, move_tail before x, in the lists without e.
SMove(e, x, op) ==
    /\ e \in Listed(lists) /\ x \in Positions(lists) /\ x # e
    /\ lists' = IF op = "move" THEN After(Without(lists, e), x, <<e>>)
                ELSE Before(Without(lists, e), x, <<e>>)
    /\ Did(op, <<e, x>>) /\ UNCHANGED <<usable, ret>>

SEmpty(h) ==
    /\ h \in usable /\ ret' = (lists[h] = <<>>)
    /\ Did("empty", <<h>>) /\ UNCHANGED <<lists, usable>>

\* The entries of l go after x; l is then empty, and unusable unless
\* reinitialised.  An empty l changes nothing.
SSplice(l, x, init) ==
    /\ l \in usable /\ x \in Positions(lists) /\ HomeOf(lists, x) # l
    /\ IF lists[l] = <<>> THEN UNCHANGED <<lists, usable>>
       ELSE /\ lists' = [After(lists, x, lists[l]) EXCEPT ![l] = <<>>]
            /\ usable' = IF init THEN usable ELSE usable \ {l}
    /\ Did(IF init THEN "splice_init" ELSE "splice", <<l, x>>) /\ UNCHANGED ret

SNext ==
    \/ \E h \in Heads : SInitHead(h) \/ SEmpty(h)
    \/ \E e \in Entries : SInitEntry(e) \/ SDel(e, "del") \/ SDel(e, "del_init")
    \/ \E e \in Entries, x \in Heads \cup Entries :
         SAdd(e, x) \/ SAddTail(e, x) \/ SMove(e, x, "move") \/ SMove(e, x, "move_tail")
    \/ \E l \in Heads, x \in Heads \cup Entries : SSplice(l, x, FALSE) \/ SSplice(l, x, TRUE)

SSpec == SInit /\ [][SNext]_svars
=============================================================================
