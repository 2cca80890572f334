------------------------------ MODULE MCHmsList ------------------------------
EXTENDS HmsList, TLC

\* Entries are interchangeable, and so are heads: nothing in hms_list.h
\* looks at which node is which, only at the pointers.
Symm == Permutations(Entries) \cup Permutations(Heads)
=============================================================================
