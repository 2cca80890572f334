------------------------------ MODULE HashTab ------------------------------
(***************************************************************************)
(* The chained hash table of src/src/hashtab/hashtable.c, driven by an     *)
(* application through its calls.  htable[s] is the chain of slot s as    *)
(* the sequence of its nodes from the head.  The application supplies      *)
(* hash_value (Hash) and keycmp; keys are numbers and keycmp compares      *)
(* them, so "keycmp(h, key, cur->key) > 0" is key > cur.key.  The          *)
(* application's iterator is it: NoIter when it holds NULL, otherwise the *)
(* slot and node hashtab_iterate stored in it; linked is FALSE once       *)
(* hashtab_delete has unlinked that node, whose next field it has set to  *)
(* NULL.                                                                   *)
(***************************************************************************)
EXTENDS Integers, Sequences, SequencesExt, FiniteSets

CONSTANTS
    Keys, Data, MaxNodes, Missing, Null,
    Size,       \* the size passed to hashtab_create
    Hash,       \* hash_value: Keys -> 0..Size-1
    NoIter      \* a NULL iterator

ASSUME /\ Keys \subseteq Nat /\ Size \in Nat \ {0}
       /\ Hash \in [Keys -> 0..Size - 1]

VARIABLES
    live,       \* h is a table (not NULL)
    htable,     \* htable[s]: the nodes [key, datum] of slot s, head first
    nel,        \* h->nel
    ret,        \* what the last insert, delete, search or create returned
    it,         \* the application's hashtab_iterator pointer
    visited,    \* keys the current iteration has returned
    dirty,      \* an insert or delete succeeded during the iteration
    call,       \* the last call other than hashtab_iterate: [op, key]
    itRet,      \* what the last call returned if it was hashtab_iterate:
                \* "node" or "null"; "info" after hashtab_stat; "none"
                \* after any other call
    info        \* the application's struct hashtab_info

vars == <<live, htable, nel, ret, it, visited, dirty, call, itRet, info>>

Slots == 0..Size - 1

\* errno values (Linux) returned negated by hashtab_insert.
EINVAL == 22
EEXIST == 17
ENOMEM == 12

EmptyTable == [s \in Slots |-> <<>>]

Nodes == UNION {ToSet(htable[s]) : s \in Slots}

PresentKeys == {n.key : n \in Nodes}

\* A successful insert or delete while an iteration is under way.
Touch == dirty' = (it # NoIter)

Init ==
    /\ live = FALSE /\ htable = EmptyTable /\ nel = 0 /\ ret = Null
    /\ it = NoIter /\ visited = {} /\ dirty = FALSE
    /\ call = [op |-> "none", key |-> Null] /\ itRet = "none"
    /\ info = [slots_used |-> 0, max_chain_len |-> 0]

Called(op, k) == call' = [op |-> op, key |-> k] /\ itRet' = "none"

(***************************************************************************)
(* hashtab_create and hashtab_destroy                                      *)
(***************************************************************************)
\* A NULL h from a failed create is kept: the later calls see !h.
Create ==
    /\ ~live
    /\ \/ live' = TRUE /\ htable' = EmptyTable /\ nel' = 0 /\ UNCHANGED ret
       \/ ret' = Null /\ UNCHANGED <<live, htable, nel>>
    /\ Called("create", Null)
    /\ UNCHANGED <<it, visited, dirty>>

\* Every chain is freed; the application drops h and its iterator.
Destroy ==
    /\ live
    /\ live' = FALSE /\ htable' = EmptyTable /\ nel' = 0
    /\ it' = NoIter /\ visited' = {} /\ dirty' = FALSE
    /\ Called("destroy", Null)
    /\ UNCHANGED ret

(***************************************************************************)
(* hashtab_insert, hashtab_delete, hashtab_search                          *)
(***************************************************************************)
\* Where the walk "while (cur && keycmp(key, cur->key) > 0)" stops in the
\* chain of k: the index of cur, or Len + 1 when cur is NULL.
Stop(k) ==
    LET ch == htable[Hash[k]]
        p  == SelectInSeq(ch, LAMBDA n : ~(k > n.key))
    IN IF p = 0 THEN Len(ch) + 1 ELSE p

\* cur is not NULL and keycmp(key, cur->key) == 0.
FoundAt(k, p) == p <= Len(htable[Hash[k]]) /\ htable[Hash[k]][p].key = k

\* hashtab_insert with the new node put at index pos of its chain.
InsertWith(k, d, pos) ==
    /\ \/ /\ ~live \/ nel = MaxNodes
          /\ ret' = -EINVAL /\ UNCHANGED <<htable, nel, dirty>>
       \/ /\ live /\ nel # MaxNodes /\ FoundAt(k, Stop(k))
          /\ ret' = -EEXIST /\ UNCHANGED <<htable, nel, dirty>>
       \/ /\ live /\ nel # MaxNodes /\ ~FoundAt(k, Stop(k))
          /\ \/ ret' = -ENOMEM /\ UNCHANGED <<htable, nel, dirty>>
             \/ /\ htable' = [htable EXCEPT ![Hash[k]] = InsertAt(@, pos, [key |-> k, datum |-> d])]
                /\ nel' = nel + 1 /\ ret' = 0 /\ Touch
    /\ Called("insert", k)
    /\ UNCHANGED <<live, it, visited>>

\* Faulty variant: the new node goes to the tail of its chain.
InsertAtTail(k, d) == InsertWith(k, d, Len(htable[Hash[k]]) + 1)

\* hashtab_insert: -EINVAL for a NULL or full table, -EEXIST when the walk
\* stops on the key, -ENOMEM when malloc fails, else the node goes before
\* cur (after prev, or at the head), keeping the chain ordered by keycmp.
Insert(k, d) == InsertWith(k, d, Stop(k))

\* hashtab_delete of the node at index i of the chain of k (0: none).  The
\* unlinked node's next is set to NULL; when unmark, an iterator standing
\* on it is not told so.
DeleteAt(k, i, unmark) ==
    /\ IF ~live \/ i = 0
         THEN ret' = Null /\ UNCHANGED <<htable, nel, it, dirty>>
         ELSE /\ ret' = htable[Hash[k]][i].datum
              /\ htable' = [htable EXCEPT ![Hash[k]] = RemoveAt(@, i)]
              /\ nel' = nel - 1
              /\ it' = IF it # NoIter /\ it.key = k /\ ~unmark
                         THEN [it EXCEPT !.linked = FALSE] ELSE it
              /\ Touch
    /\ Called("delete", k)
    /\ UNCHANGED <<live, visited>>

\* Faulty variant: only the head of the chain is compared.
DeleteHeadOnly(k) ==
    DeleteAt(k, IF htable[Hash[k]] # <<>> /\ htable[Hash[k]][1].key = k THEN 1 ELSE 0, FALSE)

\* Faulty variant: the iterator keeps following the unlinked node.
DeleteKeepsIterator(k) ==
    DeleteAt(k, SelectInSeq(htable[Hash[k]], LAMBDA n : n.key = k), TRUE)

\* hashtab_delete: the head when it matches (freed), otherwise the first
\* later node that matches (unlinked, not freed); the whole chain is
\* scanned, so its order does not matter.
Delete(k) == DeleteAt(k, SelectInSeq(htable[Hash[k]], LAMBDA n : n.key = k), FALSE)

\* hashtab_search: the walk stops at the first key not smaller than k.
Search(k) ==
    /\ ret' = IF live /\ FoundAt(k, Stop(k)) THEN htable[Hash[k]][Stop(k)].datum
              ELSE Null
    /\ Called("search", k)
    /\ UNCHANGED <<live, htable, nel, it, visited, dirty>>

(***************************************************************************)
(* hashtab_iterate                                                         *)
(***************************************************************************)
\* The first slot from s on whose chain is not empty, or Size.
RECURSIVE NextSlot(_)
NextSlot(s) == IF s >= Size \/ htable[s] # <<>> THEN s ELSE NextSlot(s + 1)

\* hashtab_iterate, scanning the slots below limit: a NULL it starts at the
\* head of slot 0, otherwise cur is the stored node's next.  The scan goes
\* to the head of each following slot until cur is not NULL, stores
\* (level, cur) and returns it; past the last slot it frees the iterator
\* and returns NULL.
IterateUpTo(limit) ==
    /\ live
    /\ LET level == IF it = NoIter THEN 0 ELSE it.slot
           pos   == CASE it = NoIter -> 1
                      [] it.linked   -> SelectInSeq(htable[level], LAMBDA n : n.key = it.key) + 1
                      [] OTHER       -> Len(htable[level]) + 1
           slot  == IF pos <= Len(htable[level]) THEN level ELSE NextSlot(level + 1)
           seen  == IF it = NoIter THEN {} ELSE visited
       IN IF slot < limit
            THEN /\ it' = [slot |-> slot, linked |-> TRUE,
                           key |-> htable[slot][IF slot = level THEN pos ELSE 1].key]
                 /\ visited' = seen \cup {it'.key}
                 /\ itRet' = "node"
            ELSE it' = NoIter /\ visited' = seen /\ itRet' = "null"
    /\ dirty' = (it # NoIter /\ dirty)
    /\ UNCHANGED <<live, htable, nel, ret, call>>

\* Faulty variant: the scan stops before the last slot.
IterateSkipsLast == IterateUpTo(Size - 1)

\* hashtab_iterate(h, it).  It reads h->htable with no NULL check: the
\* application calls it on a table it holds.
Iterate == IterateUpTo(Size)

(***************************************************************************)
(* hashtab_stat                                                            *)
(***************************************************************************)
\* Faulty variant: chain_len is not reset for each used slot.
RECURSIVE StatNoReset(_, _, _, _)
StatNoReset(i, used, maxlen, chain) ==
    IF i >= Size THEN [slots_used |-> used, max_chain_len |-> maxlen]
    ELSE IF htable[i] = <<>> THEN StatNoReset(i + 1, used, maxlen, chain)
    ELSE LET c == chain + Len(htable[i])
         IN StatNoReset(i + 1, used + 1, IF c > maxlen THEN c ELSE maxlen, c)

\* The loop of hashtab_stat from slot i: a used slot is counted, its chain
\* walked from chain_len = 0, and max_chain_len raised to its length.
RECURSIVE StatFrom(_, _, _, _)
StatFrom(i, used, maxlen, chain) ==
    IF i >= Size THEN [slots_used |-> used, max_chain_len |-> maxlen]
    ELSE IF htable[i] = <<>> THEN StatFrom(i + 1, used, maxlen, chain)
    ELSE LET c == Len(htable[i])   \* chain_len = 0, then one per node
         IN StatFrom(i + 1, used + 1, IF c > maxlen THEN c ELSE maxlen, c)

\* hashtab_stat(h, info): it reads h->size with no NULL check, so the
\* application calls it on a table it holds; it returns nothing.
StatCall ==
    /\ live
    /\ info' = StatFrom(0, 0, 0, 0) /\ itRet' = "info"
    /\ UNCHANGED <<live, htable, nel, ret, it, visited, dirty, call>>

Next ==
    \/ /\ \/ Create \/ Destroy \/ Iterate
          \/ \E k \in Keys : Delete(k) \/ Search(k) \/ \E d \in Data : Insert(k, d)
       /\ UNCHANGED info
    \/ StatCall

Spec == Init /\ [][Next]_vars
(***************************************************************************)
(* Properties                                                              *)
(***************************************************************************)
\* Types; an iterator that hashtab_delete has not unlinked stands on a node
\* of its slot.
TypeOK ==
    /\ live \in BOOLEAN /\ dirty \in BOOLEAN /\ visited \subseteq Keys
    /\ htable \in [Slots -> Seq([key : Keys, datum : Data])]
    /\ nel \in 0..MaxNodes
    /\ info \in [slots_used : 0..Size, max_chain_len : 0..MaxNodes]
    /\ it \in {NoIter} \cup [slot : Slots, key : Keys, linked : BOOLEAN]
    /\ it # NoIter /\ it.linked => \E n \in ToSet(htable[it.slot]) : n.key = it.key

\* The structure hashtab_search relies on when it stops its walk early and
\* hashtab_insert when it refuses a full table: every node sits in the
\* slot hash_value gives its key, each chain is strictly ordered by keycmp,
\* and nel counts the nodes, whatever sequence of inserts and deletes.
RepInvariant ==
    /\ \A s \in Slots : \A i \in DOMAIN htable[s] :
         /\ Hash[htable[s][i].key] = s
         /\ i > 1 => htable[s][i - 1].key < htable[s][i].key
    /\ nel = SumFunction([s \in Slots |-> Len(htable[s])])

\* The pairs the chains hold, as a dictionary.
Dict == INSTANCE HashDict
          WITH dict <- [k \in Keys |->
                          IF k \in PresentKeys
                            THEN (CHOOSE n \in Nodes : n.key = k).datum
                            ELSE Missing]

\* The table keeps the promises of hashtable.h: each insert, delete and
\* search returns what the dictionary of its pairs says, and changes it
\* as the header says.
DictSpec == Dict!DSpec

\* What hashtab_stat writes into info is the number of slots whose chain
\* is not empty and the length of the longest chain, for any table the
\* inserts and deletes have built.
StatCorrect ==
    [][itRet' = "info" =>
         info' = [slots_used |-> Cardinality({s \in Slots : htable[s] # <<>>}),
                  max_chain_len |-> Max({Len(htable[s]) : s \in Slots})]]_vars

\* An iteration over a table that no insert or delete changed while it ran
\* returns every key the table holds before hashtab_iterate returns NULL.
IterationComplete ==
    [][(itRet' = "null" /\ ~(it # NoIter /\ dirty))
         => (IF it = NoIter THEN {} ELSE visited) = PresentKeys]_vars
=============================================================================
