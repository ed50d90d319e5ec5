--------------------------- MODULE MCPlayerAccess ---------------------------
(* Two protocols that claim one answer. *)
EXTENDS PlayerAccess
Protocols == {[req |-> 1, resp |-> 5], [req |-> 2, resp |-> 5]}
=============================================================================
