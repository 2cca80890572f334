------------------------------- MODULE HmsList -------------------------------
(***************************************************************************)
(* The circular doubly linked list of src/src/include/hms_list.h at the   *)
(* level of its pointers: link[x] is the next and prev fields of the       *)
(* struct hms_list_head x, a head or the lh member of an entry.  Every     *)
(* inline function is one action whose pointer writes are made in the     *)
(* order of the code (EXCEPT applies its clauses in turn, so aliasing      *)
(* such as prev = next = head in an empty list is as in C).  usable is     *)
(* the caller's knowledge of which heads it may use; the guards are the    *)
(* contract HmsListSeq states, computed here by walking the pointers.      *)
(***************************************************************************)
EXTENDS Integers, Sequences, SequencesExt, FiniteSets

CONSTANTS Heads, Entries, Null

ASSUME Null \notin Heads \cup Entries

Nodes == Heads \cup Entries

VARIABLES
    link,     \* link[x]: the next and prev pointers of node x
    usable,   \* heads the program may use (initialised, not spliced away)
    ret,      \* what the last hms_list_empty returned
    call,     \* the last operation and its arguments
    it        \* a hms_list_for_each_entry_safe loop in progress: its head,
              \* pos and n, and (left) the entries it has still to visit

vars == <<link, usable, ret, call, it>>

NoLoop == [head |-> Null, pos |-> Null, n |-> Null, left |-> <<>>]

Idle == it.head = Null

(***************************************************************************)
(* The lists the pointers describe                                         *)
(***************************************************************************)
\* The nodes met following next from x until h, at most n of them.
RECURSIVE WalkFrom(_, _, _)
WalkFrom(x, h, n) ==
    IF x = h \/ x = Null \/ n = 0 THEN <<>> ELSE <<x>> \o WalkFrom(link[x].next, h, n - 1)

\* The entries of head h, as hms_list_for_each visits them.
Walk(h) == WalkFrom(link[h].next, h, Cardinality(Entries))

\* The nodes met following prev from x until h, at most n of them.
RECURSIVE WalkBackFrom(_, _, _)
WalkBackFrom(x, h, n) ==
    IF x = h \/ x = Null \/ n = 0 THEN <<>> ELSE <<x>> \o WalkBackFrom(link[x].prev, h, n - 1)

\* The entries of head h, as hms_list_for_each_prev visits them.
WalkBack(h) == WalkBackFrom(link[h].prev, h, Cardinality(Entries))

Listed == UNION {ToSet(Walk(h)) : h \in usable}

Positions == usable \cup Listed

Did(op, args) == call' = [op |-> op, args |-> args]

(***************************************************************************)
(* hms_list.h                                                              *)
(***************************************************************************)
\* Faulty variant: only next is set.
InitListHeadNextOnly(L, x) == [L EXCEPT ![x].next = x]

\* HMS_INIT_LIST_HEAD(ptr): ptr points to itself both ways.
InitListHead(L, x) == [L EXCEPT ![x] = [next |-> x, prev |-> x]]

\* __hms_list_add(nnew, prev, next).
LinkAdd(L, nnew, p, n) ==
    [L EXCEPT ![n].prev = nnew, ![nnew].next = n, ![nnew].prev = p, ![p].next = nnew]

\* Faulty variant: next->prev is not updated.
LinkDelNoPrev(L, p, n) == [L EXCEPT ![p].next = n]

\* __hms_list_del(prev, next).
LinkDel(L, p, n) == [L EXCEPT ![n].prev = p, ![p].next = n]

\* list_del: the neighbours are joined and the entry's pointers nulled.
ListDelLinks(L, e) ==
    [LinkDel(L, L[e].prev, L[e].next) EXCEPT ![e] = [next |-> Null, prev |-> Null]]

\* list_del_init: the neighbours are joined and the entry points to itself.
ListDelInitLinks(L, e) == InitListHead(LinkDel(L, L[e].prev, L[e].next), e)

\* __hms_list_splice(list, head): the entries of list go after head.
LinkSplice(L, l, h) ==
    LET first == L[l].next
        last  == L[l].prev
        at    == L[h].next
    IN [L EXCEPT ![first].prev = h, ![h].next = first, ![last].next = at, ![at].prev = last]

Init ==
    /\ link = [x \in Nodes |-> [next |-> Null, prev |-> Null]]   \* calloc
    /\ usable = {} /\ ret = FALSE /\ call = [op |-> "none", args |-> <<>>]
    /\ it = NoLoop

\* HMS_INIT_LIST_HEAD on a head (also HMS_LIST_HEAD's initialiser).
InitHead(h) ==
    /\ link' = InitListHead(link, h) /\ usable' = usable \cup {h}
    /\ Did("init", <<h>>) /\ UNCHANGED ret

\* HMS_INIT_LIST_HEAD on an entry not on a list (__hms_init_header).
InitEntry(e) ==
    /\ e \notin Listed /\ link' = InitListHead(link, e)
    /\ Did("init", <<e>>) /\ UNCHANGED <<usable, ret>>

\* hms_list_add(newp, head): after head.
ListAdd(e, x) ==
    /\ e \notin Listed /\ x \in Positions
    /\ link' = LinkAdd(link, e, x, link[x].next)
    /\ Did("add", <<e, x>>) /\ UNCHANGED <<usable, ret>>

\* Faulty variant: add_tail written as add, after head.
ListAddTailAsAdd(e, x) ==
    /\ e \notin Listed /\ x \in Positions
    /\ link' = LinkAdd(link, e, x, link[x].next)
    /\ Did("add_tail", <<e, x>>) /\ UNCHANGED <<usable, ret>>

\* hms_list_add_tail(newp, head): before head.
ListAddTail(e, x) ==
    /\ e \notin Listed /\ x \in Positions
    /\ link' = LinkAdd(link, e, link[x].prev, x)
    /\ Did("add_tail", <<e, x>>) /\ UNCHANGED <<usable, ret>>

ListDel(e) ==
    /\ e \in Listed /\ link' = ListDelLinks(link, e)
    /\ Did("del", <<e>>) /\ UNCHANGED <<usable, ret>>

ListDelInit(e) ==
    /\ e \in Listed /\ link' = ListDelInitLinks(link, e)
    /\ Did("del_init", <<e>>) /\ UNCHANGED <<usable, ret>>

\* hms_list_move(list, head): unlinked (its own pointers left), then added
\* after head.
ListMove(e, x) ==
    /\ e \in Listed /\ x \in Positions /\ x # e
    /\ LET L == LinkDel(link, link[e].prev, link[e].next)
       IN link' = LinkAdd(L, e, x, L[x].next)
    /\ Did("move", <<e, x>>) /\ UNCHANGED <<usable, ret>>

\* hms_list_move_tail(list, head): unlinked, then added before head.
ListMoveTail(e, x) ==
    /\ e \in Listed /\ x \in Positions /\ x # e
    /\ LET L == LinkDel(link, link[e].prev, link[e].next)
       IN link' = LinkAdd(L, e, L[x].prev, x)
    /\ Did("move_tail", <<e, x>>) /\ UNCHANGED <<usable, ret>>

\* hms_list_empty(head): head->next == head.
ListEmpty(h) ==
    /\ h \in usable /\ ret' = (link[h].next = h)
    /\ Did("empty", <<h>>) /\ UNCHANGED <<link, usable>>

\* hms_list_splice(list, head): nothing when list is empty; afterwards the
\* head list still points into the entries it gave away.
ListSplice(l, x) ==
    /\ l \in usable /\ x \in Positions /\ x \notin {l} \cup ToSet(Walk(l))
    /\ IF link[l].next = l THEN UNCHANGED <<link, usable>>
       ELSE link' = LinkSplice(link, l, x) /\ usable' = usable \ {l}
    /\ Did("splice", <<l, x>>) /\ UNCHANGED ret

\* hms_list_splice_init(list, head): as splice, then list is reinitialised.
ListSpliceInit(l, x) ==
    /\ l \in usable /\ x \in Positions /\ x \notin {l} \cup ToSet(Walk(l))
    /\ IF link[l].next = l THEN UNCHANGED link
       ELSE link' = InitListHead(LinkSplice(link, l, x), l)
    /\ Did("splice_init", <<l, x>>) /\ UNCHANGED <<usable, ret>>

(***************************************************************************)
(* hms_list_for_each_entry_safe(pos, n, head, member), as hms_msg_destroy,  *)
(* del_header and del_named_header use it: the body deletes pos or leaves  *)
(* it, and breaks or goes on.  The loop runs alone: no list operation      *)
(* happens between its steps.                                              *)
(***************************************************************************)
\* Loop entry: pos = head->next, n = pos->next; an empty list runs no turn.
SafeBegin(h) ==
    /\ Idle /\ h \in usable /\ link[h].next # h
    /\ it' = [head |-> h, pos |-> link[h].next, n |-> link[link[h].next].next,
              left |-> Walk(h)]
    /\ UNCHANGED <<link, usable, ret, call>>

\* Faulty variant: hms_list_for_each_entry's advance, pos = pos->next read
\* after the body (NULL once pos was deleted: the next turn dereferences it).
SafeStepUnsafe(del, brk) ==
    /\ ~Idle
    /\ LET L == IF del THEN ListDelLinks(link, it.pos) ELSE link
           nxt == L[it.pos].next
       IN /\ link' = L
          /\ it' = IF brk \/ nxt = it.head THEN NoLoop
                   ELSE [it EXCEPT !.pos = nxt, !.left = Tail(@),
                                   !.n = IF nxt = Null THEN Null ELSE L[nxt].next]
    /\ call' = IF del THEN [op |-> "del", args |-> <<it.pos>>] ELSE call
    /\ UNCHANGED <<usable, ret>>

\* One turn: the body (hms_list_del(&pos->lh) if del), then break if brk,
\* else pos = n, n = n->next and the test pos != head.
SafeStep(del, brk) ==
    /\ ~Idle
    /\ LET L == IF del THEN ListDelLinks(link, it.pos) ELSE link
       IN /\ link' = L
          /\ it' = IF brk \/ it.n = it.head THEN NoLoop
                   ELSE [it EXCEPT !.pos = it.n, !.n = L[it.n].next, !.left = Tail(@)]
    /\ call' = IF del THEN [op |-> "del", args |-> <<it.pos>>] ELSE call
    /\ UNCHANGED <<usable, ret>>

Next ==
    \/ /\ Idle
       /\ \/ \E h \in Heads : InitHead(h) \/ ListEmpty(h)
          \/ \E e \in Entries : InitEntry(e) \/ ListDel(e) \/ ListDelInit(e)
          \/ \E e \in Entries, x \in Nodes :
               ListAdd(e, x) \/ ListAddTail(e, x) \/ ListMove(e, x) \/ ListMoveTail(e, x)
          \/ \E l \in Heads, x \in Nodes : ListSplice(l, x) \/ ListSpliceInit(l, x)
       /\ UNCHANGED it
    \/ \E h \in Heads : SafeBegin(h)
    \/ SafeStep(FALSE, FALSE) \/ SafeStep(TRUE, FALSE) \/ SafeStep(TRUE, TRUE)

Spec == Init /\ [][Next]_vars

(***************************************************************************)
(* Properties                                                              *)
(***************************************************************************)
TypeOK ==
    /\ link \in [Nodes -> [next : Nodes \cup {Null}, prev : Nodes \cup {Null}]]
    /\ usable \subseteq Heads /\ ret \in BOOLEAN
    /\ \A h \in usable : link[h].next # Null /\ link[h].prev # Null
    /\ it \in [head : Heads \cup {Null}, pos : Nodes \cup {Null},
               n : Nodes \cup {Null}, left : Seq(Entries)]

\* Every usable head is a ring: following next from it comes back to it
\* through entries only, hms_list_for_each_prev visits the same entries in
\* reverse order, and no entry is on two rings; whatever sequence of adds,
\* deletes, moves and splices the program makes within the contract.
WellFormed ==
    /\ \A h \in usable :
         LET c == <<h>> \o Walk(h)
         IN /\ ToSet(Walk(h)) \subseteq Entries
            /\ link[c[Len(c)]].next = h
            /\ WalkBack(h) = Reverse(Walk(h))
    /\ \A h1, h2 \in usable : h1 # h2 => ToSet(Walk(h1)) \cap ToSet(Walk(h2)) = {}

\* A safe loop whose body deletes entries still visits exactly the entries
\* it has not yet visited, in list order: pos is the next of them, n is
\* pos's successor saved before the body ran, and they are the tail of the
\* head's current list (destroy relies on this to free every header).
SafeIterationSound ==
    ~Idle =>
      LET w == Walk(it.head)
      IN /\ it.head \in usable /\ it.left # <<>>
         /\ it.pos = Head(it.left) /\ it.n = link[it.pos].next
         /\ \E k \in 0..Len(w) : SubSeq(w, k + 1, Len(w)) = it.left

\* The lists the rings hold, as sequences.
Lists == INSTANCE HmsListSeq
         WITH lists <- [h \in Heads |-> IF h \in usable THEN Walk(h) ELSE <<>>]

\* Each operation does to the sequences what hms_list.h says it does: add
\* after the position, add_tail before it, del, move, splice.
ListSpec == Lists!SSpec
=============================================================================
