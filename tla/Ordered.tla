------------------------------ MODULE Ordered -------------------------------
(***************************************************************************)
(* Sets in an order, as Go programs make of maps with sort.Slice, and what *)
(* a loop keeps of a slice. An order is a set of pairs.                    *)
(***************************************************************************)
EXTENDS Integers, FiniteSets

Below(S, order, x) == {y \in S : <<y, x>> \in order}

(* the elements of S, each at the place that those below it leave to it *)
InOrder(S, order) ==
    [n \in 1..Cardinality(S) |-> CHOOSE x \in S : Cardinality(Below(S, order, x)) = n - 1]

Nth(positions, n) == CHOOSE i \in positions : Cardinality({j \in positions : j < i}) = n - 1

(* the elements of a sequence at the given positions *)
Kept(seq, positions) == [n \in 1..Cardinality(positions) |-> seq[Nth(positions, n)]]

Select(seq, Test(_)) == Kept(seq, {i \in DOMAIN seq : Test(seq[i])})
=============================================================================
