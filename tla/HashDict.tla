------------------------------ MODULE HashDict ------------------------------
(***************************************************************************)
(* What src/src/include/hashtable.h promises of a hashtab: an association  *)
(* of keys with data, at most one datum per key, created and destroyed as  *)
(* a whole.  hashtab_insert adds a pair unless the key is there (-EEXIST), *)
(* the table is missing or full (-EINVAL) or memory runs out (-ENOMEM);    *)
(* hashtab_delete and hashtab_search return the datum of the key, or NULL  *)
(* when there is none.  HashTab, the chained table of hashtable.c, is      *)
(* checked to implement this module.                                       *)
(***************************************************************************)
EXTENDS Integers, FiniteSets

CONSTANTS
    Keys,       \* the keys an application uses
    Data,       \* the data it stores
    MaxNodes,   \* HASHTAB_MAX_NODES
    Missing,    \* no datum for the key
    Null        \* the NULL return of create, delete and search

VARIABLES
    live,       \* the application holds a table (hashtab_create succeeded)
    dict,       \* dict[k]: the datum of k, or Missing
    ret,        \* what the last call returned
    call        \* the last call: [op, key]

dvars == <<live, dict, ret, call>>

\* The errno values of Linux; hashtab_insert returns them negated.
EINVAL == 22
EEXIST == 17
ENOMEM == 12

Absent == [k \in Keys |-> Missing]

Stored == {k \in Keys : dict[k] # Missing}

DInit == live = FALSE /\ dict = Absent /\ ret = Null /\ call = [op |-> "none", key |-> Null]

Called(op, k) == call' = [op |-> op, key |-> k]

\* hashtab_create: a new empty table, or NULL when malloc fails.
DCreate ==
    /\ ~live
    /\ \/ live' = TRUE /\ dict' = Absent /\ UNCHANGED ret
       \/ UNCHANGED <<live, dict>> /\ ret' = Null
    /\ Called("create", Null)

DInsert(k, d) ==
    /\ Called("insert", k)
    /\ \/ /\ ~live \/ Cardinality(Stored) = MaxNodes
          /\ ret' = -EINVAL /\ UNCHANGED <<live, dict>>
       \/ /\ live /\ Cardinality(Stored) # MaxNodes
          /\ \/ dict[k] # Missing /\ ret' = -EEXIST /\ UNCHANGED <<live, dict>>
             \/ dict[k] = Missing /\ ret' = -ENOMEM /\ UNCHANGED <<live, dict>>
             \/ dict[k] = Missing /\ ret' = 0
                /\ dict' = [dict EXCEPT ![k] = d] /\ UNCHANGED live

DDelete(k) ==
    /\ Called("delete", k)
    /\ ret' = IF live /\ dict[k] # Missing THEN dict[k] ELSE Null
    /\ dict' = [dict EXCEPT ![k] = Missing]
    /\ UNCHANGED live

DSearch(k) ==
    /\ Called("search", k)
    /\ ret' = IF live /\ dict[k] # Missing THEN dict[k] ELSE Null
    /\ UNCHANGED <<live, dict>>

\* hashtab_destroy: the table and its pairs are gone.
DDestroy ==
    /\ live /\ live' = FALSE /\ dict' = Absent /\ UNCHANGED ret
    /\ Called("destroy", Null)

DNext ==
    \/ DCreate \/ DDestroy
    \/ \E k \in Keys : DDelete(k) \/ DSearch(k) \/ \E d \in Data : DInsert(k, d)

DSpec == DInit /\ [][DNext]_dvars
=============================================================================
