------------------------------ MODULE MCHashTab ------------------------------
(* Three keys over two slots (hash_value k % 2): keys 1 and 3 share a      *)
(* chain, so its order matters, and a table of MaxNodes = 2 fills up.      *)
EXTENDS HashTab

MCKeys == {1, 2, 3}

MCHash == [k \in MCKeys |-> k % 2]
=============================================================================
