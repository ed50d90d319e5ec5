---------------------------- MODULE MCPopulation ----------------------------
EXTENDS Population

CONSTANTS g1, g2, o1, o2, none
=============================================================================
