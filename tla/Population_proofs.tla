-------------------------- MODULE Population_proofs --------------------------
(***************************************************************************)
(* Type correctness of the population and the bound on a group, for any     *)
(* spawn table, any number of operators and any number of ids.              *)
(***************************************************************************)
EXTENDS Population, FiniteSetTheorems, TLAPS

USE CountsAssumption, BoundsAssumption, NoneAssumption

\* A finite set without one of its elements, and with one more.
LEMMA OneLess ==
  ASSUME NEW S, IsFiniteSet(S), NEW x \in S
  PROVE  Cardinality(S \ {x}) = Cardinality(S) - 1
BY FS_RemoveElement

LEMMA OneMore ==
  ASSUME NEW S, IsFiniteSet(S), NEW x, x \notin S
  PROVE  IsFiniteSet(S \union {x}) /\ Cardinality(S \union {x}) = Cardinality(S) + 1
BY FS_AddElement

\* A finite set and a part of it.
LEMMA NoMore ==
  ASSUME NEW S, IsFiniteSet(S), NEW T, T \subseteq S
  PROVE  /\ IsFiniteSet(T)
         /\ Cardinality(T) \in Nat /\ Cardinality(S) \in Nat
         /\ Cardinality(T) <= Cardinality(S)
<1>1. IsFiniteSet(T) /\ Cardinality(T) <= Cardinality(S)  BY FS_Subset
<1> QED  BY <1>1, FS_CardinalityType

\* Members of a group are finitely many.
LEMMA MembersFinite ==
  ASSUME NEW g \in Groups
  PROVE  /\ IsFiniteSet(Members(g))
         /\ Cardinality(Members(g)) \in Nat
<1>1. IsFiniteSet(1..MaxId)  BY FS_Interval, 1 \in Int, MaxId \in Int
<1>2. Members(g) \subseteq 1..MaxId  BY DEF Members, Ids
<1>3. Members(g) \subseteq 1..MaxId  BY <1>2
<1> QED  BY <1>1, <1>3, NoMore

\* Ready counts timers.
LEMMA ReadyType ==
  ASSUME NEW queue \in Seq({"waiting", "due"})
  PROVE  Ready(queue) \in Nat
<1>1. IsFiniteSet(1..Len(queue))  BY FS_Interval, 1 \in Int, Len(queue) \in Int
<1> DEFINE S == {n \in 1..Len(queue) : \A k \in 1..n : queue[k] = "due"}
<1>2. IsFiniteSet(S)  BY <1>1, FS_Subset
<1>3. Cardinality(S) \in Nat  BY <1>2, FS_CardinalityType
<1> QED  BY <1>3 DEF Ready

\* What is left of a queue.
LEMMA RestType ==
  ASSUME NEW queue \in Seq({"waiting", "due"}), NEW n \in Nat
  PROVE  /\ Rest(queue, n) \in Seq({"waiting", "due"})
         /\ Len(Rest(queue, n)) = IF n >= Len(queue) THEN 0 ELSE Len(queue) - n
<1>1. CASE n >= Len(queue)  BY <1>1 DEF Rest
<1>2. CASE n < Len(queue)
  <2>1. Rest(queue, n) = SubSeq(queue, n + 1, Len(queue))  BY <1>2 DEF Rest
  <2>2. n + 1 \in 1..Len(queue)+1 /\ Len(queue) \in Nat  BY <1>2
  <2> QED  BY <1>2, <2>1, <2>2
<1> QED  BY <1>1, <1>2

LEMMA GrantedType ==
  ASSUME TypeOK, NEW g \in Groups
  PROVE  Granted(g) \in Nat
<1>1. Ready(pending[g]) \in Nat  BY ReadyType DEF TypeOK
<1>2. count[g] \in Nat  BY DEF TypeOK
<1> QED  BY <1>1, <1>2, MembersFinite DEF Granted

\* Due, row by row: at most what is granted is wanted, and at least as many
\* timers are spent.
DueResult ==
  /\ wanted' \in [Groups -> Nat]
  /\ pending' \in [Groups -> Seq({"waiting", "due"})]
  /\ faults' \in 0..MaxFaults
  /\ \A g \in Groups : \E n \in Nat :
       /\ wanted'[g] <= n
       /\ n <= Granted(g)
       /\ pending'[g] = Rest(pending[g], n)

LEMMA DueStep ==
  ASSUME TypeOK, Due
  PROVE  DueResult
<1> DEFINE granted == [g \in Groups |-> Granted(g)]
<1>0. granted \in [Groups -> Nat]  BY GrantedType
<1>1. CASE wanted' = granted /\ Spend(granted) /\ UNCHANGED faults
  <2>1. \A g \in Groups : pending'[g] = Rest(pending[g], granted[g])  BY <1>1 DEF Spend
  <2>2. \A g \in Groups : Rest(pending[g], granted[g]) \in Seq({"waiting", "due"})
    BY <1>0, RestType DEF TypeOK
  <2>3. pending' \in [Groups -> Seq({"waiting", "due"})]  BY <1>1, <2>2 DEF Spend
  <2> QED  BY <1>0, <1>1, <2>1, <2>3 DEF TypeOK, DueResult
<1>2. ASSUME NEW h \in Groups, NEW placed \in 0..granted[h],
             faults < MaxFaults, placed < granted[h], faults' = faults + 1,
             wanted' = [granted EXCEPT ![h] = placed],
             Spend([granted EXCEPT ![h] = placed + 1])
      PROVE  DueResult
  <2> DEFINE spent == [granted EXCEPT ![h] = placed + 1]
  <2>0. placed \in Nat /\ granted[h] \in Nat  BY <1>0, <1>2
  <2>1. spent \in [Groups -> Nat] /\ wanted' \in [Groups -> Nat]  BY <1>0, <1>2, <2>0
  <2>2. \A g \in Groups : pending'[g] = Rest(pending[g], spent[g])  BY <1>2 DEF Spend
  <2>3. \A g \in Groups : Rest(pending[g], spent[g]) \in Seq({"waiting", "due"})
    BY <2>1, RestType DEF TypeOK
  <2>4. pending' \in [Groups -> Seq({"waiting", "due"})]  BY <1>2, <2>3 DEF Spend
  <2>5. \A g \in Groups : spent[g] \in Nat /\ spent[g] >= wanted'[g] /\ spent[g] <= granted[g] /\ wanted'[g] <= granted[g]
    BY <1>0, <1>2, <2>0
  <2>6. faults' \in 0..MaxFaults  BY <1>2 DEF TypeOK
  <2>7. \A g \in Groups : \E n \in Nat :
          wanted'[g] <= n /\ n <= Granted(g) /\ pending'[g] = Rest(pending[g], n)
    BY <2>2, <2>5
  <2> QED  BY <2>1, <2>4, <2>6, <2>7 DEF DueResult
<1> QED  BY <1>1, <1>2 DEF Due

-----------------------------------------------------------------------------
(* Type correctness *)

Rested == pc = "rest" => \A g \in Groups : wanted[g] = 0

LEMMA CurrentType ==
  ASSUME TypeOK, pc \in {"show", "file", "report"}
  PROVE  current.id \in Ids /\ current.group \in Groups
BY DEF TypeOK

LEMMA TypeInit == Init => TypeOK /\ Rested
<1> SUFFICES ASSUME Init PROVE TypeOK /\ Rested  OBVIOUS
<1>1. \A g \in Groups : <<>> \in Seq({"waiting", "due"})  OBVIOUS
<1> QED  BY <1>1 DEF Init, TypeOK, Rested, Nobody, Idle

LEMMA TypeStep == TypeOK /\ Rested /\ [Next]_vars => TypeOK' /\ Rested'
<1> SUFFICES ASSUME TypeOK, Rested, [Next]_vars PROVE TypeOK' /\ Rested'  OBVIOUS
<1> USE DEF settings, refresh, refill, spawner, world
<1>1. CASE Pass
  <2>1. DueResult  BY <1>1, DueStep DEF Pass
  <2> QED  BY <1>1, <2>1 DEF Pass, DueResult, TypeOK, Rested
<1>2. CASE EndPass  BY <1>2 DEF EndPass, TypeOK, Rested
<1>3. ASSUME NEW g \in Groups, Create(g) PROVE TypeOK' /\ Rested'
  <2>1. minted + 1 \in Ids /\ minted' \in 0..MaxId  BY <1>3 DEF Create, TypeOK, Ids
  <2>2. wanted' \in [Groups -> Nat]  BY <1>3 DEF Create, TypeOK
  <2>3. faults' \in 0..MaxFaults  BY <1>3 DEF Create, TypeOK
  <2>4. [id |-> minted + 1, group |-> g] # Nobody  BY DEF Nobody
  <2>5. /\ current' \in {Nobody} \union [id : Ids, group : Groups]
        /\ pc' \in {"create", "show"}
        /\ (pc' \in {"show", "file", "report"}) = (current' # Nobody)
        /\ entities' \subseteq Ids
    BY <1>3, <2>1, <2>4 DEF Create, TypeOK
  <2> QED  BY <1>3, <2>1, <2>2, <2>3, <2>5 DEF Create, TypeOK, Rested
<1>4. CASE Show  BY <1>4, CurrentType DEF Show, TypeOK, Rested
<1>5. CASE ShowFails  BY <1>5, CurrentType DEF ShowFails, Destroyed, DestroyFails, TypeOK, Rested
<1>6. CASE File  BY <1>6, CurrentType DEF File, TypeOK, Rested
<1>7. CASE Report  BY <1>7, CurrentType DEF Report, Spawned, TypeOK, Rested
<1>8. ASSUME NEW o \in Operators, NEW i \in Ids, Take(o, i) PROVE TypeOK' /\ Rested'
  <2>1. [step |-> "died", id |-> i] \in [step : {"died", "hide", "destroy"}, id : Ids]  OBVIOUS
  <2>2. kill' \in [Operators -> {Idle} \union [step : {"died", "hide", "destroy"}, id : Ids]]
    BY <1>8, <2>1 DEF Take, TypeOK
  <2> QED  BY <1>8, <2>2 DEF Take, TypeOK, Rested
<1>9. ASSUME NEW o \in Operators, Kill(o) PROVE TypeOK' /\ Rested'
  <2> DEFINE K == [step : {"died", "hide", "destroy"}, id : Ids]
  <2>0. kill[o].step # "rest" => kill[o] \in K  BY DEF TypeOK, Idle
  <2>1. CASE ReportDeath(o)
    <3>1. kill[o] \in K /\ kill[o].id \in Ids  BY <2>0, <2>1 DEF ReportDeath, Step
    <3>2. [kill[o] EXCEPT !.step = "hide"] \in K  BY <3>1
    <3>3. kill' \in [Operators -> {Idle} \union K]  BY <2>1, <3>2 DEF ReportDeath, Step, TypeOK
    <3>4. alive' \in [Ids -> Groups \union {None}]
      BY <2>1, <3>1 DEF ReportDeath, Died, TypeOK
    <3>5. \A g \in Groups : Append(pending[g], "waiting") \in Seq({"waiting", "due"})
      BY DEF TypeOK
    <3>6. pending' \in [Groups -> Seq({"waiting", "due"})]
      <4> DEFINE g == alive[kill[o].id]
      <4>1. \/ pending' = pending
            \/ g \in Groups /\ pending' = [pending EXCEPT ![g] = Append(@, "waiting")]
        BY <2>1, <3>1 DEF ReportDeath, Died, TypeOK
      <4>2. CASE pending' = pending  BY <4>2 DEF TypeOK
      <4>3. CASE g \in Groups /\ pending' = [pending EXCEPT ![g] = Append(@, "waiting")]
        <5>1. Append(pending[g], "waiting") \in Seq({"waiting", "due"})  BY <3>5, <4>3
        <5> QED  BY <4>3, <5>1 DEF TypeOK
      <4> QED  BY <4>1, <4>2, <4>3
    <3> QED  BY <2>1, <3>3, <3>4, <3>6 DEF ReportDeath, TypeOK, Rested
  <2>2. CASE HideKilled(o)
    <3>1. kill[o] \in K  BY <2>0, <2>2 DEF HideKilled, Step
    <3>2. [kill[o] EXCEPT !.step = "destroy"] \in K  BY <3>1
    <3>3. kill' \in [Operators -> {Idle} \union K]  BY <2>2, <3>2 DEF HideKilled, Step, TypeOK
    <3> QED  BY <2>2, <3>3 DEF HideKilled, Hide, TypeOK, Rested
  <2>3. CASE DestroyKilled(o)
    <3>1. kill[o].id \in Ids  BY <2>0, <2>3 DEF DestroyKilled
    <3>2. entities' \subseteq Ids /\ undestroyed' \subseteq Ids /\ faults' \in 0..MaxFaults
      BY <2>3, <3>1 DEF DestroyKilled, Destroyed, DestroyFails, TypeOK
    <3> QED  BY <2>3, <3>2 DEF DestroyKilled, TypeOK, Rested
  <2> QED  BY <1>9, <2>1, <2>2, <2>3 DEF Kill
<1>10. ASSUME NEW g \in Groups, Elapse(g) PROVE TypeOK' /\ Rested'
  <2>1. pending' \in [Groups -> Seq({"waiting", "due"})]  BY <1>10 DEF Elapse, TypeOK
  <2> QED  BY <1>10, <2>1 DEF Elapse, TypeOK, Rested
<1>11. ASSUME NEW g \in Groups, Reload(g) PROVE TypeOK' /\ Rested'
  BY <1>11 DEF Reload, TypeOK, Rested
<1>12. CASE Cancel  BY <1>12 DEF Cancel, TypeOK, Rested
<1>13. CASE Collect  BY <1>13 DEF Collect, TypeOK, Rested
<1>14. CASE Drain  BY <1>14 DEF Drain, Hide, Destroyed, DestroyFails, TypeOK, Rested
<1>15. CASE Switch  BY <1>15 DEF Switch, TypeOK, Rested
<1>16. CASE UNCHANGED vars  BY <1>16 DEF vars, TypeOK, Rested
<1> QED  BY <1>1, <1>2, <1>3, <1>4, <1>5, <1>6, <1>7, <1>8, <1>9, <1>10, <1>11, <1>12,
           <1>13, <1>14, <1>15, <1>16 DEF Next, Refill

\* Every state of the population has the types the code declares.
THEOREM TypeCorrect == Spec => []TypeOK
<1>1. Spec => [](TypeOK /\ Rested)  BY TypeInit, TypeStep, PTL DEF Spec
<1> QED  BY <1>1, PTL

-----------------------------------------------------------------------------
(* The bound on a group *)

Total(g) == Cardinality(Members(g)) + InFlight(g) + Len(pending[g])

PopInv == TypeOK /\ Rested /\ RespawnRespected

\* What the terms of Total are.
LEMMA TotalType ==
  ASSUME TypeOK, NEW g \in Groups
  PROVE  /\ Cardinality(Members(g)) \in Nat
         /\ InFlight(g) \in Nat
         /\ Len(pending[g]) \in Nat
<1>1. wanted[g] \in Nat /\ pending[g] \in Seq({"waiting", "due"})  BY DEF TypeOK
<1>2. InFlight(g) \in Nat  BY <1>1 DEF InFlight
<1> QED  BY <1>1, <1>2, MembersFinite

LEMMA TotalTypeNext ==
  ASSUME TypeOK', NEW g \in Groups
  PROVE  /\ Cardinality(Members(g)') \in Nat
         /\ InFlight(g)' \in Nat
         /\ Len(pending'[g]) \in Nat
<1>1. wanted'[g] \in Nat /\ pending'[g] \in Seq({"waiting", "due"})  BY DEF TypeOK
<1>2. InFlight(g)' \in Nat  BY <1>1 DEF InFlight
<1>3. IsFiniteSet(1..MaxId)  BY FS_Interval, 1 \in Int, MaxId \in Int
<1>4. Members(g)' \subseteq 1..MaxId  BY DEF Members, Ids
<1>5. Cardinality(Members(g)') \in Nat  BY <1>3, <1>4, FS_Subset, FS_CardinalityType
<1> QED  BY <1>1, <1>2, <1>5

\* A row never gains in a step that leaves its members, its timers and what is
\* on its way alone, or that only takes from what is on its way.
LEMMA NoGain ==
  ASSUME TypeOK, TypeOK', UNCHANGED refresh, NEW g \in Groups, InFlight(g)' <= InFlight(g)
  PROVE  Total(g)' <= Total(g)
<1>1. Members(g)' = Members(g) /\ pending'[g] = pending[g]  BY DEF refresh, Members
<1> QED  BY <1>1, TotalType, TotalTypeNext DEF Total

\* A pass asks for no more than the table lacks, and for each member beyond
\* those never born it spends a timer.
LEMMA DueBound ==
  ASSUME TypeOK, TypeOK', Rested, Pass, NEW g \in Groups
  PROVE  Total(g)' <= Total(g) \/ Total(g)' <= count[g]
<1> DEFINE have == Cardinality(Members(g))
           left == Len(pending[g])
<1>1. PICK n \in Nat : wanted'[g] <= n /\ n <= Granted(g) /\ pending'[g] = Rest(pending[g], n)
  BY DueStep DEF DueResult, Pass
<1>2. have \in Nat /\ left \in Nat /\ wanted'[g] \in Nat /\ count[g] \in Nat
  BY TotalType DEF TypeOK
<1>3. Members(g)' = Members(g)  BY DEF Members, Pass, settings
<1>4. current = Nobody /\ current' = Nobody /\ wanted[g] = 0  BY DEF Pass, TypeOK, Rested
<1>5. InFlight(g)' = wanted'[g] /\ InFlight(g) = 0
  <2>1. Nobody.group # g  BY DEF Nobody
  <2> QED  BY <1>2, <1>4, <2>1 DEF InFlight
<1>6. Len(pending'[g]) = IF n >= left THEN 0 ELSE left - n
  <2>1. pending[g] \in Seq({"waiting", "due"})  BY DEF TypeOK
  <2>2. Len(Rest(pending[g], n)) = IF n >= Len(pending[g]) THEN 0 ELSE Len(pending[g]) - n
    BY <2>1, RestType
  <2> QED  BY <1>1, <2>2
<1>7. Granted(g) <= IF count[g] > have THEN count[g] - have ELSE 0
  <2>1. Ready(pending[g]) \in Nat  BY ReadyType DEF TypeOK
  <2> QED  BY <1>2, <2>1 DEF Granted
<1>8. Granted(g) \in Nat  BY GrantedType
<1>9. Total(g)' = have + wanted'[g] + Len(pending'[g]) /\ Total(g) = have + left
  BY <1>2, <1>3, <1>5 DEF Total
<1>10. CASE n < left  BY <1>1, <1>2, <1>6, <1>8, <1>9, <1>10
<1>11. CASE n >= left /\ count[g] > have  BY <1>1, <1>2, <1>6, <1>7, <1>8, <1>9, <1>11
<1>12. CASE n >= left /\ ~(count[g] > have)  BY <1>1, <1>2, <1>6, <1>7, <1>8, <1>9, <1>12
<1> QED  BY <1>2, <1>10, <1>11, <1>12

\* The monster on its way becomes a member.
LEMMA ReportBound ==
  ASSUME TypeOK, TypeOK', Report, NEW g \in Groups
  PROVE  Total(g)' <= Total(g)
<1>1. current.id \in Ids /\ current.group \in Groups  BY CurrentType DEF Report
<1>2. pending' = pending /\ wanted' = wanted /\ current' = Nobody /\ Nobody.group # g
  BY DEF Report, Spawned, Nobody
<1>3. IsFiniteSet(Members(g)) /\ Cardinality(Members(g)) \in Nat  BY MembersFinite
<1>4. CASE current.group = g
  <2>1. Members(g)' \subseteq Members(g) \union {current.id}
    BY <1>1, <1>4 DEF Report, Spawned, Members, TypeOK
  <2>2. /\ IsFiniteSet(Members(g) \union {current.id})
        /\ Cardinality(Members(g) \union {current.id}) <= Cardinality(Members(g)) + 1
    <3>1. CASE current.id \in Members(g)
      <4>1. Members(g) \union {current.id} = Members(g)  BY <3>1
      <4> QED  BY <1>3, <4>1
    <3>2. CASE current.id \notin Members(g)
      <4>1. /\ IsFiniteSet(Members(g) \union {current.id})
            /\ Cardinality(Members(g) \union {current.id}) = Cardinality(Members(g)) + 1
        BY <1>3, <3>2, OneMore
      <4> QED  BY <1>3, <4>1
    <3> QED  BY <3>1, <3>2
  <2>3. Cardinality(Members(g)') <= Cardinality(Members(g) \union {current.id})
    BY <2>1, <2>2, NoMore
  <2>4. Cardinality(Members(g) \union {current.id}) \in Nat  BY <2>2, FS_CardinalityType
  <2>5. InFlight(g) = wanted[g] + 1 /\ InFlight(g)' = wanted[g] + 0
    BY <1>2, <1>4 DEF InFlight
  <2>6. wanted[g] \in Nat  BY DEF TypeOK
  <2> QED  BY <1>2, <1>3, <2>2, <2>3, <2>4, <2>5, <2>6, TotalType, TotalTypeNext DEF Total
<1>5. CASE current.group # g
  <2>1. Members(g)' \subseteq Members(g)
    BY <1>1, <1>5 DEF Report, Spawned, Members, TypeOK
  <2>2. Cardinality(Members(g)') <= Cardinality(Members(g))  BY <1>3, <2>1, NoMore
  <2>3. InFlight(g)' = InFlight(g)  BY <1>2, <1>5 DEF InFlight
  <2> QED  BY <1>2, <1>3, <2>2, <2>3, TotalType, TotalTypeNext DEF Total
<1> QED  BY <1>4, <1>5

\* A death turns a member into a waiting slot.
LEMMA DeathBound ==
  ASSUME TypeOK, TypeOK', NEW o \in Operators, ReportDeath(o), NEW g \in Groups
  PROVE  Total(g)' <= Total(g)
<1> DEFINE i == kill[o].id
<1>1. i \in Ids  BY DEF ReportDeath, Step, TypeOK, Idle
<1>2. InFlight(g)' = InFlight(g)  BY DEF ReportDeath, refill, InFlight
<1>3. IsFiniteSet(Members(g)) /\ Cardinality(Members(g)) \in Nat  BY MembersFinite
<1>4. CASE alive[i] = g
  <2>1. g # None  OBVIOUS
  <2>2. i \in Members(g)  BY <1>1, <1>4 DEF Members
  <2>3. Members(g)' = Members(g) \ {i}
    BY <1>1, <1>4, <2>1 DEF ReportDeath, Died, Members, TypeOK
  <2>4. Cardinality(Members(g)') = Cardinality(Members(g)) - 1
    <3>1. Cardinality(Members(g) \ {i}) = Cardinality(Members(g)) - 1
      BY <1>3, <2>2, OneLess
    <3> QED  BY <2>3, <3>1
  <2>5. Len(pending'[g]) <= Len(pending[g]) + 1
    <3>1. pending'[g] = pending[g] \/ pending'[g] = Append(pending[g], "waiting")
      BY <1>4, <2>1 DEF ReportDeath, Died, TypeOK
    <3>2. pending[g] \in Seq({"waiting", "due"})  BY DEF TypeOK
    <3> QED  BY <3>1, <3>2
  <2> QED  BY <1>2, <1>3, <2>4, <2>5, TotalType, TotalTypeNext DEF Total
<1>5. CASE alive[i] # g
  <2>1. Members(g)' \subseteq Members(g) /\ pending'[g] = pending[g]
    BY <1>1, <1>5 DEF ReportDeath, Died, refresh, Members, TypeOK
  <2>2. Cardinality(Members(g)') <= Cardinality(Members(g))  BY <1>3, <2>1, NoMore
  <2> QED  BY <1>2, <1>3, <2>1, <2>2, TotalType, TotalTypeNext DEF Total
<1> QED  BY <1>4, <1>5

\* Time changes no length.
LEMMA ElapseBound ==
  ASSUME TypeOK, TypeOK', NEW h \in Groups, Elapse(h), NEW g \in Groups
  PROVE  Total(g)' <= Total(g)
<1>1. InFlight(g)' = InFlight(g) /\ Members(g)' = Members(g)
  BY DEF Elapse, refill, InFlight, Members
<1>2. Len(pending'[g]) = Len(pending[g])  BY DEF Elapse, TypeOK
<1> QED  BY <1>1, <1>2, TotalType DEF Total

LEMMA BoundStep ==
  ASSUME TypeOK, TypeOK', Rested, [Next]_vars, NEW g \in Groups
  PROVE  Total(g)' <= Total(g) \/ Total(g)' <= count[g]
<1> USE DEF settings, refresh, refill, spawner, world
<1>0. wanted[g] \in Nat /\ wanted'[g] \in Nat  BY DEF TypeOK
<1>1. CASE Pass  BY <1>1, DueBound
<1>2. CASE EndPass
  <2>1. InFlight(g)' <= InFlight(g)  BY <1>0, <1>2 DEF EndPass, InFlight
  <2> QED  BY <1>2, <2>1, NoGain DEF EndPass
<1>3. ASSUME NEW h \in Groups, Create(h) PROVE Total(g)' <= Total(g)
  <2>1. current = Nobody /\ Nobody.group # g  BY <1>3 DEF Create, TypeOK, Nobody
  <2>2. InFlight(g) = wanted[g]  BY <1>0, <2>1 DEF InFlight
  <2>3. CASE g = h
    <3>1. wanted'[g] = wanted[g] - 1  BY <1>3, <2>3 DEF Create, TypeOK
    <3>2. InFlight(g)' <= wanted'[g] + 1  BY <1>0 DEF InFlight
    <3>3. InFlight(g)' \in Nat  BY TotalTypeNext
    <3> QED  BY <1>0, <1>3, <2>2, <3>1, <3>2, <3>3, NoGain DEF Create
  <2>4. CASE g # h
    <3>1. wanted'[g] = wanted[g]  BY <1>3, <2>4 DEF Create, TypeOK
    <3>2. current'.group # g  BY <1>3, <2>1, <2>4 DEF Create
    <3>3. InFlight(g)' = wanted'[g]  BY <1>0, <3>2 DEF InFlight
    <3> QED  BY <1>0, <1>3, <2>2, <3>1, <3>3, NoGain DEF Create
  <2> QED  BY <2>3, <2>4
<1>4. CASE ShowFails
  <2>1. Nobody.group # g  BY DEF Nobody
  <2>2. InFlight(g)' <= InFlight(g)  BY <1>0, <1>4, <2>1 DEF ShowFails, InFlight
  <2> QED  BY <1>4, <2>2, NoGain DEF ShowFails
<1>5. CASE Report  BY <1>5, ReportBound
<1>6. ASSUME NEW o \in Operators, ReportDeath(o) PROVE Total(g)' <= Total(g)
  BY <1>6, DeathBound
<1>7. ASSUME NEW h \in Groups, Elapse(h) PROVE Total(g)' <= Total(g)
  BY <1>7, ElapseBound
<1>8. ASSUME UNCHANGED <<refresh, wanted, current>> PROVE Total(g)' <= Total(g)
  <2>1. InFlight(g)' = InFlight(g)  BY <1>8 DEF InFlight
  <2>2. InFlight(g) \in Nat  BY TotalType
  <2> QED  BY <1>8, <2>1, <2>2, NoGain
<1>9. CASE Show  BY <1>8, <1>9 DEF Show
<1>10. CASE File  BY <1>8, <1>10 DEF File
<1>11. ASSUME NEW o \in Operators, NEW i \in Ids, Take(o, i) PROVE Total(g)' <= Total(g)
  BY <1>8, <1>11 DEF Take
<1>12. ASSUME NEW o \in Operators, HideKilled(o) PROVE Total(g)' <= Total(g)
  BY <1>8, <1>12 DEF HideKilled
<1>13. ASSUME NEW o \in Operators, DestroyKilled(o) PROVE Total(g)' <= Total(g)
  BY <1>8, <1>13 DEF DestroyKilled
<1>14. ASSUME NEW h \in Groups, Reload(h) PROVE Total(g)' <= Total(g)
  BY <1>8, <1>14 DEF Reload
<1>15. CASE Cancel \/ Collect \/ Drain \/ Switch
  BY <1>8, <1>15 DEF Cancel, Collect, Drain, Switch
<1>16. CASE UNCHANGED vars  BY <1>8, <1>16 DEF vars
<1> QED  BY <1>1, <1>2, <1>3, <1>4, <1>5, <1>6, <1>7, <1>9, <1>10, <1>11, <1>12, <1>13,
           <1>14, <1>15, <1>16 DEF Next, Refill, Kill

\* No group ever holds, expects and waits for more members than some spawn
\* table asked for.
THEOREM RespawnBound == Spec => []RespawnRespected
<1>1. Init => PopInv
  <2> SUFFICES ASSUME Init PROVE RespawnRespected  BY TypeInit DEF PopInv
  <2> SUFFICES ASSUME NEW g \in Groups PROVE \E n \in Counts : Total(g) <= n
    BY DEF RespawnRespected, Total
  <2>1. Members(g) = {}  BY DEF Init, Members
  <2>2. Cardinality(Members(g)) = 0  BY <2>1, FS_EmptySet
  <2>3. InFlight(g) = 0  BY DEF Init, InFlight, Nobody
  <2>4. Len(pending[g]) = 0  BY DEF Init
  <2>5. Total(g) = 0  BY <2>2, <2>3, <2>4 DEF Total
  <2>6. count[g] \in Counts  BY DEF Init
  <2>7. count[g] \in Nat  BY <2>6, CountsAssumption
  <2>8. Total(g) <= count[g]  BY <2>5, <2>7
  <2> QED  BY <2>6, <2>8
<1>2. PopInv /\ [Next]_vars => PopInv'
  <2> SUFFICES ASSUME PopInv, [Next]_vars PROVE PopInv'  OBVIOUS
  <2>1. TypeOK' /\ Rested'  BY TypeStep DEF PopInv
  <2>2. ASSUME NEW g \in Groups PROVE \E n \in Counts : Total(g)' <= n
    <3>1. PICK n \in Counts : Total(g) <= n  BY DEF PopInv, RespawnRespected, Total
    <3>2. Total(g)' <= Total(g) \/ Total(g)' <= count[g]  BY <2>1, BoundStep DEF PopInv
    <3>3. count[g] \in Counts  BY DEF PopInv, TypeOK
    <3>4. Total(g) \in Nat /\ Total(g)' \in Nat
      <4>1. TypeOK /\ TypeOK'  BY <2>1 DEF PopInv
      <4>2. Total(g) \in Nat  BY <4>1, TotalType DEF Total
      <4>3. Total(g)' \in Nat  BY <4>1, TotalTypeNext DEF Total
      <4> QED  BY <4>2, <4>3
    <3>5. n \in Nat /\ count[g] \in Nat  BY <3>3, CountsAssumption
    <3>6. Total(g)' <= n \/ Total(g)' <= count[g]  BY <3>1, <3>2, <3>4, <3>5
    <3> QED  BY <3>3, <3>6
  <2>3. RespawnRespected'  BY <2>2 DEF RespawnRespected, Total
  <2> QED  BY <2>1, <2>3 DEF PopInv
<1>3. PopInv => RespawnRespected  BY DEF PopInv
<1> QED  BY <1>1, <1>2, <1>3, PTL DEF Spec

-----------------------------------------------------------------------------
(* Where a monster is: filed, taken for the drain, in the hands of one       *)
(* operator, being made by the refill, or left over by a Destroy that        *)
(* failed; in one of these places at a time.                                 *)

Busy == {o \in Operators : kill[o] # Idle}
Making(i) == pc \in {"show", "file"} /\ current.id = i
Killing(i) == \E o \in Busy : kill[o].id = i
Doomed(i) == \E o \in Busy : kill[o].id = i /\ kill[o].step # "destroy"

PlacesAgree ==
  \A i \in Ids :
    /\ i \in entities <=> i \in monsters \/ i \in values \/ Killing(i) \/ Making(i) \/ i \in undestroyed
    /\ i \in shown <=> i \in monsters \/ i \in values \/ Doomed(i) \/ (Making(i) /\ pc = "file")
    /\ i \in shown => i \in registered
    /\ i \in entities => i <= minted

PlacesApart ==
  /\ monsters \intersect values = {}
  /\ \A i \in monsters \union values : ~Killing(i) /\ ~Making(i)
  /\ \A i \in undestroyed : i \notin monsters \union values /\ ~Killing(i) /\ ~Making(i)
  /\ \A o \in Busy : ~Making(kill[o].id)
  /\ \A o, p \in Busy : o # p => kill[o].id # kill[p].id
  /\ loop # "draining" => values = {}

OrphanInv == TypeOK /\ Rested /\ PlacesAgree /\ PlacesApart

\* Whoever is busy has a monster.
LEMMA BusyType ==
  ASSUME TypeOK, NEW o \in Busy
  PROVE  kill[o].id \in Ids /\ kill[o].step \in {"died", "hide", "destroy"}
BY DEF TypeOK, Busy

\* An id not minted is nowhere.
LEMMA Fresh ==
  ASSUME OrphanInv, minted < MaxId
  PROVE  /\ minted + 1 \in Ids
         /\ minted + 1 \notin entities \union monsters \union values \union shown \union undestroyed
         /\ ~Killing(minted + 1)
<1>1. minted \in Nat /\ minted + 1 \in Ids  BY DEF OrphanInv, TypeOK, Ids
<1>2. minted + 1 \notin entities  BY <1>1 DEF OrphanInv, PlacesAgree
<1>3. ~Killing(minted + 1) /\ minted + 1 \notin monsters \union values \union undestroyed /\ ~Making(minted + 1)
  BY <1>1, <1>2 DEF OrphanInv, PlacesAgree
<1>4. ~Doomed(minted + 1)  BY <1>3 DEF Killing, Doomed
<1> QED  BY <1>1, <1>2, <1>3, <1>4 DEF OrphanInv, PlacesAgree

\* A step that touches none of the places.
LEMMA PlacesKept ==
  ASSUME OrphanInv, UNCHANGED <<spawner, world, kill, minted, current, loop>>,
         pc \in {"show", "file"} <=> pc' \in {"show", "file"}, pc = "file" <=> pc' = "file"
  PROVE  PlacesAgree' /\ PlacesApart'
BY DEF OrphanInv, PlacesAgree, PlacesApart, Busy, Making, Killing, Doomed, spawner, world

LEMMA PlacesInit == Init => PlacesAgree /\ PlacesApart
BY DEF Init, PlacesAgree, PlacesApart, Busy, Making, Killing, Doomed, Idle

\* Every step moves a monster from one place to the next.
LEMMA PlacesStep ==
  ASSUME OrphanInv, [Next]_vars
  PROVE  PlacesAgree' /\ PlacesApart'
<1> USE DEF settings, refresh, refill, spawner, world
<1> DEFINE Goal == PlacesAgree' /\ PlacesApart'
<1>1. CASE Pass  BY <1>1, PlacesKept DEF Pass
<1>2. CASE EndPass  BY <1>2, PlacesKept DEF EndPass
<1>3. ASSUME NEW g \in Groups, Create(g) PROVE Goal
  <2>1. CASE UNCHANGED <<entities, current, pc>>
    BY <1>3, <2>1 DEF Create, OrphanInv, TypeOK, Ids, PlacesAgree, PlacesApart, Busy, Making, Killing, Doomed
  <2>2. CASE /\ entities' = entities \union {minted + 1}
             /\ current' = [id |-> minted + 1, group |-> g]
             /\ pc' = "show"
    <3>1. minted < MaxId  BY <1>3 DEF Create
    <3>2. /\ minted + 1 \in Ids
          /\ minted + 1 \notin entities \union monsters \union values \union shown \union undestroyed
          /\ ~Killing(minted + 1)
      BY <3>1, Fresh
    <3>3. \A i \in Ids : Making(i)' <=> i = minted + 1  BY <2>2 DEF Making
    <3>4. \A i \in Ids : ~Making(i)  BY <1>3 DEF Create, Making
    <3>5. \A i \in Ids : (Killing(i)' <=> Killing(i)) /\ (Doomed(i)' <=> Doomed(i)) /\ Busy' = Busy
      BY <1>3 DEF Create, Killing, Doomed, Busy
    <3>6. PlacesAgree'
      BY <1>3, <2>2, <3>2, <3>3, <3>4, <3>5 DEF Create, OrphanInv, TypeOK, Ids, PlacesAgree
    <3>7. \A o \in Busy : kill[o].id # minted + 1  BY <3>2 DEF Killing
    <3>8. PlacesApart'
      BY <1>3, <2>2, <3>2, <3>3, <3>5, <3>7, BusyType DEF Create, OrphanInv, TypeOK, PlacesApart
    <3> QED  BY <3>6, <3>8
  <2> QED  BY <1>3, <2>1, <2>2 DEF Create
<1>4. CASE Show
  BY <1>4 DEF Show, OrphanInv, TypeOK, PlacesAgree, PlacesApart, Busy, Making, Killing, Doomed
<1>5. CASE ShowFails
  BY <1>5 DEF ShowFails, Destroyed, DestroyFails, OrphanInv, TypeOK, PlacesAgree, PlacesApart, Busy, Making, Killing, Doomed
<1>6. CASE File
  BY <1>6 DEF File, OrphanInv, TypeOK, PlacesAgree, PlacesApart, Busy, Making, Killing, Doomed
<1>7. CASE Report
  BY <1>7 DEF Report, OrphanInv, TypeOK, PlacesAgree, PlacesApart, Busy, Making, Killing, Doomed
<1>8. ASSUME NEW o \in Operators, NEW i \in Ids, Take(o, i) PROVE Goal
  <2>1. /\ o \notin Busy /\ Busy' = Busy \union {o} /\ kill'[o] = [step |-> "died", id |-> i]
        /\ \A p \in Busy : kill'[p] = kill[p]
    BY <1>8 DEF Take, OrphanInv, TypeOK, Busy, Idle
  <2>2. ~Killing(i) /\ ~Making(i) /\ i \in monsters /\ i \notin values
    BY <1>8 DEF Take, OrphanInv, PlacesApart
  <2>3. \A j \in Ids : /\ Killing(j)' <=> Killing(j) \/ j = i
                       /\ Doomed(j)' <=> Doomed(j) \/ j = i
                       /\ Making(j)' <=> Making(j)
    BY <1>8, <2>1 DEF Take, Killing, Doomed, Making
  <2>4. PlacesAgree'
    BY <1>8, <2>2, <2>3 DEF Take, OrphanInv, PlacesAgree
  <2>5. \A p \in Busy : kill[p].id # i /\ kill[p].id \in Ids
    BY <2>2, BusyType DEF OrphanInv, Killing
  <2>6. PlacesApart'
    BY <1>8, <2>1, <2>2, <2>3, <2>5 DEF Take, OrphanInv, TypeOK, PlacesApart
  <2> QED  BY <2>4, <2>6
<1>9. ASSUME NEW o \in Operators, ReportDeath(o) PROVE Goal
  <2>1. o \in Busy /\ Busy' = Busy /\ kill[o].step = "died" /\ kill'[o].step = "hide"
        /\ (\A p \in Busy : kill'[p].id = kill[p].id)
        /\ \A p \in Busy : kill'[p].step # "destroy" <=> kill[p].step # "destroy"
    BY <1>9, BusyType DEF ReportDeath, Step, OrphanInv, TypeOK, Busy, Idle
  <2>2. \A j \in Ids : (Killing(j)' <=> Killing(j)) /\ (Doomed(j)' <=> Doomed(j)) /\ (Making(j)' <=> Making(j))
    BY <1>9, <2>1 DEF ReportDeath, Killing, Doomed, Making
  <2>3. PlacesAgree'  BY <1>9, <2>2 DEF ReportDeath, OrphanInv, PlacesAgree
  <2>4. PlacesApart'
    BY <1>9, <2>1, <2>2, BusyType DEF ReportDeath, OrphanInv, TypeOK, PlacesApart
  <2> QED  BY <2>3, <2>4
<1>10. ASSUME NEW o \in Operators, HideKilled(o) PROVE Goal
  <2>1. o \in Busy /\ Busy' = Busy /\ kill[o].step = "hide" /\ kill'[o].step = "destroy"
        /\ (\A p \in Busy : kill'[p].id = kill[p].id)
        /\ \A p \in Busy \ {o} : kill'[p] = kill[p]
    BY <1>10 DEF HideKilled, Step, OrphanInv, TypeOK, Busy, Idle
  <2>2. \A j \in Ids : (Killing(j)' <=> Killing(j)) /\ (Making(j)' <=> Making(j))
    BY <1>10, <2>1 DEF HideKilled, Killing, Making
  <2>3. \A j \in Ids : Doomed(j)' <=> Doomed(j) /\ j # kill[o].id
    BY <2>1 DEF Doomed, OrphanInv, PlacesApart
  <2>4. kill[o].id \notin monsters \union values /\ ~Making(kill[o].id)
    BY <2>1 DEF OrphanInv, PlacesApart, Killing
  <2>5. PlacesAgree'
    BY <1>10, <2>2, <2>3, <2>4 DEF HideKilled, Hide, OrphanInv, PlacesAgree
  <2>6. PlacesApart'
    BY <1>10, <2>1, <2>2, BusyType DEF HideKilled, OrphanInv, TypeOK, PlacesApart
  <2> QED  BY <2>5, <2>6
<1>11. ASSUME NEW o \in Operators, DestroyKilled(o) PROVE Goal
  <2>1. o \in Busy /\ Busy' = Busy \ {o} /\ kill[o].step = "destroy"
        /\ \A p \in Busy \ {o} : kill'[p] = kill[p]
    BY <1>11 DEF DestroyKilled, OrphanInv, TypeOK, Busy, Idle
  <2>2. \A j \in Ids : /\ Killing(j)' <=> Killing(j) /\ j # kill[o].id
                       /\ Doomed(j)' <=> Doomed(j)
                       /\ Making(j)' <=> Making(j)
    BY <1>11, <2>1 DEF DestroyKilled, Killing, Doomed, Making, OrphanInv, PlacesApart
  <2>3. kill[o].id \notin monsters \union values /\ ~Making(kill[o].id) /\ ~Doomed(kill[o].id)
    BY <2>1 DEF OrphanInv, PlacesApart, Killing, Doomed
  <2>4. kill[o].id \notin undestroyed /\ kill[o].id \in entities
    <3>1. Killing(kill[o].id) /\ kill[o].id \in Ids  BY <2>1, BusyType DEF Killing, OrphanInv
    <3> QED  BY <3>1 DEF OrphanInv, PlacesApart, PlacesAgree
  <2>5. \/ entities' = entities \ {kill[o].id} /\ undestroyed' = undestroyed
        \/ entities' = entities /\ undestroyed' = undestroyed \union {kill[o].id}
    BY <1>11 DEF DestroyKilled, Destroyed, DestroyFails
  <2>6. PlacesAgree'
    BY <1>11, <2>2, <2>3, <2>4, <2>5 DEF DestroyKilled, OrphanInv, PlacesAgree
  <2>7. PlacesApart'
    BY <1>11, <2>1, <2>2, <2>3, <2>4, <2>5, BusyType DEF DestroyKilled, OrphanInv, TypeOK, PlacesApart
  <2> QED  BY <2>6, <2>7
<1>12. ASSUME NEW g \in Groups, Elapse(g) PROVE Goal  BY <1>12, PlacesKept DEF Elapse
<1>13. ASSUME NEW g \in Groups, Reload(g) PROVE Goal  BY <1>13, PlacesKept DEF Reload
<1>14. CASE Cancel
  BY <1>14 DEF Cancel, OrphanInv, PlacesAgree, PlacesApart, Busy, Making, Killing, Doomed
<1>15. CASE Collect
  BY <1>15 DEF Collect, OrphanInv, PlacesAgree, PlacesApart, Busy, Making, Killing, Doomed
<1>16. CASE Drain
  <2>1. PICK i \in values : /\ Hide(i) /\ values' = values \ {i}
                            /\ Destroyed(i) \/ DestroyFails(i)
    BY <1>16 DEF Drain
  <2>2. i \notin monsters /\ i \notin undestroyed /\ ~Killing(i) /\ ~Making(i) /\ ~Doomed(i)
    BY DEF OrphanInv, PlacesApart, Killing, Doomed
  <2>3. \A j \in Ids : (Killing(j)' <=> Killing(j)) /\ (Doomed(j)' <=> Doomed(j)) /\ (Making(j)' <=> Making(j))
    BY <1>16 DEF Drain, Killing, Doomed, Making, Busy
  <2>4. i \in entities  BY DEF OrphanInv, TypeOK, PlacesAgree
  <2>5. PlacesAgree'
    BY <1>16, <2>1, <2>2, <2>3, <2>4 DEF Drain, Hide, Destroyed, DestroyFails, OrphanInv, PlacesAgree
  <2>6. PlacesApart'
    BY <1>16, <2>1, <2>2, <2>3, BusyType DEF Drain, Destroyed, DestroyFails, OrphanInv, TypeOK, PlacesApart, Busy
  <2> QED  BY <2>5, <2>6
<1>17. CASE Switch  BY <1>17, PlacesKept DEF Switch
<1>18. CASE UNCHANGED vars  BY <1>18, PlacesKept DEF vars
<1> QED  BY <1>1, <1>2, <1>3, <1>4, <1>5, <1>6, <1>7, <1>8, <1>9, <1>10, <1>11, <1>12,
           <1>13, <1>14, <1>15, <1>16, <1>17, <1>18 DEF Next, Refill, Kill

\* With no refill and no Kill under way, what players see is what is filed, it
\* exists, and beyond it only what a failed Destroy left: the clean-ups of
\* refill, Kill and drain compose, whatever fails, that of Destroy included.
THEOREM NothingOrphaned == Spec => []NoOrphans
<1>1. Init => OrphanInv  BY TypeInit, PlacesInit DEF OrphanInv
<1>2. OrphanInv /\ [Next]_vars => OrphanInv'  BY TypeStep, PlacesStep DEF OrphanInv
<1>3. OrphanInv => NoOrphans
  <2> SUFFICES ASSUME OrphanInv, AtRest PROVE /\ monsters \union values = shown
                                              /\ entities \ shown = undestroyed
                                              /\ shown \subseteq entities \intersect registered
    BY DEF NoOrphans
  <2>1. \A i \in Ids : ~Making(i) /\ ~Killing(i) /\ ~Doomed(i)
    BY DEF AtRest, Making, Killing, Doomed, Busy
  <2> QED  BY <2>1 DEF OrphanInv, TypeOK, PlacesAgree, PlacesApart
<1> QED  BY <1>1, <1>2, <1>3, PTL DEF Spec
=============================================================================
