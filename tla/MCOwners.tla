------------------------------ MODULE MCOwners ------------------------------
EXTENDS PlayerOwners, TLC

CONSTANTS i1, i2

\* Every incarnation has a server id of its own.
Sids == [i \in Proc |-> IF i = i1 THEN 1 ELSE 2]

Symmetry == Permutations(Proc) \cup Permutations(Request)
=============================================================================
