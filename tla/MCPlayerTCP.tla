---------------------------- MODULE MCPlayerTCP ----------------------------
EXTENDS PlayerTCP

CONSTANTS c1, c2, none

OneHost == [c \in Conn |-> "h1"]
=============================================================================
