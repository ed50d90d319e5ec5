-------------------------- MODULE PlayerOwnership --------------------------
(***************************************************************************)
(* What the ownership table promises its callers: for each player at most  *)
(* one process has its write gate open, and a gate never passes from one   *)
(* process to another without a moment in which it is closed everywhere.   *)
(***************************************************************************)
CONSTANTS Proc, Player

VARIABLE admitted  \* admitted[p]: the processes that may write p now

Init == admitted = [p \in Player |-> {}]

Open(i, p) ==
  /\ admitted[p] = {}
  /\ admitted' = [admitted EXCEPT ![p] = {i}]

Close(S) ==
  admitted' = [p \in Player |-> IF p \in S THEN {} ELSE admitted[p]]

Next ==
  \/ \E i \in Proc, p \in Player : Open(i, p)
  \/ \E S \in SUBSET Player : Close(S)

Spec == Init /\ [][Next]_admitted
=============================================================================
