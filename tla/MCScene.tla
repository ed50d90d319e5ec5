------------------------------ MODULE MCScene ------------------------------
EXTENDS SceneBridge, TLC

CONSTANTS p1, p2, m1, w1, w2, none

Symmetry == Permutations(Player) \cup Permutations(Caller)
=============================================================================
