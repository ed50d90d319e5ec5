---------------------------- MODULE MCDaoObject ----------------------------
EXTENDS DaoObject, TLC

(* Which of the values is put where makes no difference.                    *)
SameValues == Permutations(Values)

(* A stored object that wears one value, with a gem, under one key.         *)
ConstStartDocs ==
  {[p \in {q \in Paths : q[1] \in Persist} |->
     IF p = Score THEN <<0>> ELSE IF p = Entry("k1") THEN <<0, 0>> ELSE Empty]}
=============================================================================
