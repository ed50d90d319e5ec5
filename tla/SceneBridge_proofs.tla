------------------------- MODULE SceneBridge_proofs -------------------------
(***************************************************************************)
(* Proofs about the interest system and the bridge over it, for every set  *)
(* of players, monsters and goroutines: the retry queue holds exactly the  *)
(* pairs that wait for a subscription, no claim of a relation is lost or   *)
(* counted twice, and when the bridge is at rest the room follows the      *)
(* interest system and whoever is online is in the scene, wherever the     *)
(* calls of the goroutines interleave (the histories name the pairs whose  *)
(* reports crossed, and the players whose Join failed or came late).       *)
(***************************************************************************)
EXTENDS SceneBridge, TLAPS

-----------------------------------------------------------------------------
(***************************************************************************)
(* What the bridge does to the interest system: one critical section at a  *)
(* time.                                                                   *)
(***************************************************************************)
Named == Id \cup {Nowhere}

InterestNext ==
  \/ \E p \in Player, at \in Position : Enter(p, at)
  \/ \E p \in Named, to \in Position : Move(p, to)
  \/ \E p \in Named : Leave(p)
  \/ \E m \in Named, at \in Position : Show(m, at)
  \/ \E m \in Named : Hide(m)
  \/ \E p \in Player, S \in SUBSET Player : SetTeamOf(p, S)
  \/ \E k \in Pair \cup {NoPair} : SubscribeFailed(k)
  \/ \E w \in Caller : TickBegin(w) \/ TickFlush(w) \/ TickEnd(w)
  \/ \E w \in Caller, k \in Pair : TickApply(w, k)

-----------------------------------------------------------------------------
(***************************************************************************)
(* Types of the interest system.                                           *)
(***************************************************************************)
LEMMA QuietType == Quiet \in [Pair -> Seq(Event)]
BY DEF Quiet

LEMMA RelateType ==
  ASSUME InterestTypeOK, NEW n \in Relation, NEW after \in SUBSET Pair, Relate(n, after)
  PROVE  /\ related' \in [Relation -> SUBSET Pair]
         /\ pending' \in [Relation -> [Pair -> Seq(Event)]]
<1> DEFINE f == [k \in Pair |->
                   IF k \in related[n] \ after THEN Append(pending[n][k], "leave")
                   ELSE IF k \in after \ related[n] THEN Append(pending[n][k], "enter")
                   ELSE pending[n][k]]
<1>1. f \in [Pair -> Seq(Event)]
  BY DEF InterestTypeOK, Event
<1>2. pending' = [pending EXCEPT ![n] = f]
  BY DEF Relate, InterestTypeOK
<1>3. related' = [related EXCEPT ![n] = after]
  BY DEF Relate
<1> HIDE DEF f
<1> QED
  BY <1>1, <1>2, <1>3 DEF InterestTypeOK

LEMMA SetType ==
  ASSUME InterestTypeOK, NEW n \in Relation, NEW o \in Player, NEW S \in SUBSET Id,
         Set(n, o, S)
  PROVE  /\ related' \in [Relation -> SUBSET Pair]
         /\ pending' \in [Relation -> [Pair -> Seq(Event)]]
<1> DEFINE all == (related[n] \ From(n, o)) \cup ({o} \X S)
<1>1. all \in SUBSET Pair
  BY DEF InterestTypeOK, Pair
<1>2. Relate(n, all)
  BY DEF Set
<1> QED
  BY <1>1, <1>2, RelateType

LEMMA InterestTypeKept ==
  ASSUME InterestTypeOK, InterestNext
  PROVE  InterestTypeOK'
<1> USE DEF InterestTypeOK, indexVars, sourceVars, aggregateVars, tickVars
<1>1. ASSUME NEW p \in Player, NEW at \in Position, Enter(p, at) PROVE InterestTypeOK'
  <2>1. CASE subjectAt[p] # Nowhere \/ observerAt[p] # Nowhere
    BY <1>1, <2>1 DEF Enter
  <2>2. CASE subjectAt[p] = Nowhere /\ observerAt[p] = Nowhere
    <3>1. Set("self", p, {p})
      BY <1>1, <2>2 DEF Enter
    <3>2. "self" \in Relation /\ {p} \in SUBSET Id
      BY DEF Relation, Id
    <3>3. /\ related' \in [Relation -> SUBSET Pair]
          /\ pending' \in [Relation -> [Pair -> Seq(Event)]]
      BY <3>1, <3>2, SetType
    <3> QED
      BY <1>1, <2>2, <3>3 DEF Enter
  <2> QED
    BY <2>1, <2>2
<1>2. ASSUME NEW p \in Named, NEW to \in Position, Move(p, to) PROVE InterestTypeOK'
  BY <1>2 DEF Move
<1>3. ASSUME NEW p \in Named, Leave(p) PROVE InterestTypeOK'
  <2>1. related' \in [Relation -> SUBSET Pair]
    BY <1>3 DEF Leave, From, To, Relation
  <2>2. pending' \in [Relation -> [Pair -> Seq(Event)]]
    BY <1>3 DEF Leave, Event
  <2> QED
    BY <1>3, <2>1, <2>2 DEF Leave
<1>4. ASSUME NEW m \in Named, NEW at \in Position, Show(m, at) PROVE InterestTypeOK'
  BY <1>4 DEF Show
<1>5. ASSUME NEW m \in Named, Hide(m) PROVE InterestTypeOK'
  <2>1. "team" \in Relation /\ related["team"] \ To("team", m) \in SUBSET Pair
    BY DEF Relation
  <2>2. /\ related' \in [Relation -> SUBSET Pair]
        /\ pending' \in [Relation -> [Pair -> Seq(Event)]]
    BY <1>5, <2>1, RelateType DEF Hide
  <2> QED
    BY <1>5, <2>2 DEF Hide
<1>6. ASSUME NEW p \in Player, NEW S \in SUBSET Player, SetTeamOf(p, S)
      PROVE  InterestTypeOK'
  <2>1. "team" \in Relation /\ S \in SUBSET Id
    BY DEF Relation, Id
  <2>2. /\ related' \in [Relation -> SUBSET Pair]
        /\ pending' \in [Relation -> [Pair -> Seq(Event)]]
    BY <1>6, <2>1, SetType DEF SetTeamOf
  <2> QED
    BY <1>6, <2>2 DEF SetTeamOf
<1>7. ASSUME NEW k \in Pair \cup {NoPair}, SubscribeFailed(k) PROVE InterestTypeOK'
  <2>1. CASE k \in Held /\ k \in subscribed
    <3>1. k \in Pair /\ queued[k] + 1 \in Nat
      BY <2>1 DEF Held
    <3>2. queued' = [queued EXCEPT ![k] = queued[k] + 1]
      BY <1>7, <2>1 DEF SubscribeFailed
    <3>3. queued' \in [Pair -> Nat]
      BY <3>1, <3>2
    <3> QED
      BY <1>7, <2>1, <3>3 DEF SubscribeFailed
  <2>2. CASE ~(k \in Held /\ k \in subscribed)
    BY <1>7, <2>2 DEF SubscribeFailed
  <2> QED
    BY <2>1, <2>2
<1>8. ASSUME NEW w \in Caller, TickBegin(w) PROVE InterestTypeOK'
  <2> DEFINE now == {k \in Pair : InView(k)}
  <2>0. /\ <<"leave">> \in Seq(Event) /\ <<"enter">> \in Seq(Event)
        /\ <<>> \in Seq(Event)
    BY DEF Event
  <2>1. batch' \in [Pair -> Seq(Event)]
    <3>1. batch' = [k \in Pair |-> IF k \in view \ now THEN <<"leave">>
                                  ELSE IF k \in now \ view THEN <<"enter">>
                                  ELSE <<>>]
      BY <1>8 DEF TickBegin
    <3> HIDE DEF now
    <3> QED
      BY <2>0, <3>1
  <2>2. view' \subseteq Pair
    BY <1>8 DEF TickBegin
  <2> QED
    BY <1>8, <2>1, <2>2 DEF TickBegin, Source
<1>9. ASSUME NEW w \in Caller, TickFlush(w) PROVE InterestTypeOK'
  <2>1. stage' \in Relation /\ stage' \in Source
    BY <1>9 DEF TickFlush, Relation, Source
  <2> QED
    BY <1>9, <2>1, QuietType DEF TickFlush
<1>10. ASSUME NEW w \in Caller, TickEnd(w) PROVE InterestTypeOK'
  <2>1. queued' \in [Pair -> Nat]
    BY <1>10 DEF TickEnd
  <2>2. subscribed' \subseteq Pair
    BY <1>10 DEF TickEnd, Waiting, Held
  <2> QED
    BY <1>10, <2>1, <2>2 DEF TickEnd, Source
<1>11. ASSUME NEW w \in Caller, NEW k \in Pair, TickApply(w, k) PROVE InterestTypeOK'
  <2>1. batch' \in [Pair -> Seq(Event)]
    <3>1. Tail(batch[k]) \in Seq(Event) /\ batch' = [batch EXCEPT ![k] = Tail(batch[k])]
      BY <1>11 DEF TickApply
    <3> QED
      BY <3>1
  <2>2. hold' \in [Pair -> SUBSET Source] /\ subscribed' \subseteq Pair
    <3>1. ApplyLeave(k) \/ ApplyEnter(k)
      BY <1>11 DEF TickApply
    <3>2. hold[k] \ {stage} \in SUBSET Source /\ hold[k] \cup {stage} \in SUBSET Source
      OBVIOUS
    <3> QED
      BY <3>1, <3>2 DEF ApplyLeave, ApplyEnter
  <2> QED
    BY <1>11, <2>1, <2>2 DEF TickApply
<1> QED
  BY <1>1, <1>2, <1>3, <1>4, <1>5, <1>6, <1>7, <1>8, <1>9, <1>10, <1>11 DEF InterestNext

-----------------------------------------------------------------------------
(***************************************************************************)
(* The retry queue.  Between two Ticks it is exact; inside one it has at   *)
(* least the pairs that are held and not subscribed, which the drain at    *)
(* the end of the Tick relies on.                                          *)
(***************************************************************************)
QueueInv ==
  /\ QueueExact
  /\ \A k \in Pair : k \in Held \ subscribed => queued[k] > 0

LEMMA QueueKept ==
  ASSUME InterestTypeOK, QueueInv, InterestNext \/ UNCHANGED interestVars
  PROVE  QueueInv'
<1> USE InterestAssumption DEF InterestTypeOK, QueueInv, QueueExact
<1>1. ASSUME UNCHANGED <<hold, subscribed, queued, mu>> PROVE QueueInv'
  BY <1>1 DEF Held
<1>2. ASSUME NEW k \in Pair \cup {NoPair}, SubscribeFailed(k) PROVE QueueInv'
  <2>1. CASE k \in Held /\ k \in subscribed
    <3>1. /\ mu = Nowhere /\ mu' = Nowhere
          /\ k \in Pair /\ queued[k] = 0
      BY <1>2, <2>1 DEF SubscribeFailed, Free, Held, tickVars
    <3>2. /\ queued' = [queued EXCEPT ![k] = 1]
          /\ subscribed' = subscribed \ {k} /\ Held' = Held
      BY <1>2, <2>1, <3>1 DEF SubscribeFailed, Held
    <3>3. \A l \in Pair : queued'[l] = IF l \in Held' \ subscribed' THEN 1 ELSE 0
      BY <2>1, <3>1, <3>2
    <3> QED
      BY <3>1, <3>3
  <2>2. CASE ~(k \in Held /\ k \in subscribed)
    BY <1>1, <1>2, <2>2 DEF SubscribeFailed, tickVars
  <2> QED
    BY <2>1, <2>2
<1>3. ASSUME NEW w \in Caller, TickBegin(w) PROVE QueueInv'
  BY <1>3 DEF TickBegin, Free, Held, aggregateVars
<1>4. ASSUME NEW w \in Caller, TickFlush(w) PROVE QueueInv'
  BY <1>1, <1>4 DEF TickFlush, aggregateVars
<1>5. ASSUME NEW w \in Caller, TickEnd(w) PROVE QueueInv'
  <2>1. /\ subscribed' = subscribed \cup Waiting
        /\ queued' = [k \in Pair |-> 0] /\ Held' = Held
    BY <1>5 DEF TickEnd, Held
  <2>2. Held' \ subscribed' = {}
    BY <2>1 DEF Waiting, Held
  <2> QED
    BY <2>1, <2>2
<1>6. ASSUME NEW w \in Caller, NEW k \in Pair, TickApply(w, k) PROVE QueueInv'
  <2>1. mu' = mu /\ mu # Nowhere /\ queued' = queued
    BY <1>6 DEF TickApply
  <2>2. \A l \in Pair : l \in Held' \ subscribed' => l \in Held \ subscribed
    <3>1. CASE ApplyEnter(k)
      BY <3>1 DEF ApplyEnter, Held
    <3>2. CASE ApplyLeave(k)
      BY <3>2 DEF ApplyLeave, Held
    <3> QED
      BY <1>6, <3>1, <3>2 DEF TickApply
  <2> QED
    BY <2>1, <2>2
<1> QED
  BY <1>1, <1>2, <1>3, <1>4, <1>5, <1>6
  DEF InterestNext, Enter, Move, Leave, Show, Hide, SetTeamOf, interestVars,
      aggregateVars, tickVars

-----------------------------------------------------------------------------
(***************************************************************************)
(* The claims of the relations.                                            *)
(***************************************************************************)
LEMMA LeadAppend ==
  ASSUME NEW s \in Seq(Event), NEW claimed \in BOOLEAN, NEW wanted \in BOOLEAN,
         Lead(s, claimed, wanted)
  PROVE  Lead(Append(s, IF wanted THEN "leave" ELSE "enter"), claimed, ~wanted)
<1> DEFINE e == IF wanted THEN "leave" ELSE "enter"
           t == Append(s, e)
<1>1. /\ Len(t) = Len(s) + 1 /\ Len(s) \in Nat
      /\ \A i \in 1..Len(s) : t[i] = s[i]
      /\ t[Len(s) + 1] = e
  BY DEF Event
<1>2. (Len(s) + 1) % 2 = 0 <=> Len(s) % 2 # 0
  BY <1>1
<1>3. e = "enter" <=> claimed = ((Len(s) + 1) % 2 = 0)
  BY <1>2 DEF Lead
<1>4. ~wanted <=> claimed = ((Len(s) + 1) % 2 = 0)
  BY <1>2 DEF Lead
<1> HIDE DEF e, t
<1>5. ASSUME NEW i \in 1..Len(t) PROVE t[i] = "enter" <=> claimed = (i % 2 = 0)
  <2>1. i \in 1..Len(s) \/ i = Len(s) + 1
    BY <1>1
  <2> QED
    BY <1>1, <1>3, <2>1 DEF Lead
<1>6. ~wanted <=> claimed = (Len(t) % 2 = 0)
  BY <1>1, <1>4
<1> QED
  BY <1>5, <1>6 DEF Lead, e, t

LEMMA LeadTail ==
  ASSUME NEW s \in Seq(Event), s # <<>>, NEW claimed \in BOOLEAN, NEW wanted \in BOOLEAN,
         Lead(s, claimed, wanted)
  PROVE  /\ Head(s) = "enter" <=> ~claimed
         /\ Lead(Tail(s), ~claimed, wanted)
<1>1. /\ Len(s) \in Nat \ {0} /\ Head(s) = s[1]
      /\ Len(Tail(s)) = Len(s) - 1
      /\ \A i \in 1..(Len(s) - 1) : Tail(s)[i] = s[i + 1]
  OBVIOUS
<1>2. Head(s) = "enter" <=> ~claimed
  <2>1. 1 \in 1..Len(s) /\ ~(1 % 2 = 0)
    BY <1>1
  <2> QED
    BY <1>1, <2>1 DEF Lead
<1>3. ASSUME NEW i \in 1..Len(Tail(s))
      PROVE  Tail(s)[i] = "enter" <=> ~claimed = (i % 2 = 0)
  <2>1. i + 1 \in 1..Len(s) /\ (((i + 1) % 2 = 0) <=> ~(i % 2 = 0))
    BY <1>1
  <2>2. s[i + 1] = "enter" <=> claimed = ((i + 1) % 2 = 0)
    BY <2>1 DEF Lead
  <2> QED
    BY <1>1, <2>1, <2>2
<1>4. wanted <=> ~claimed = ((Len(s) - 1) % 2 = 0)
  <2>1. ((Len(s) - 1) % 2 = 0) <=> ~(Len(s) % 2 = 0)
    BY <1>1
  <2> QED
    BY <2>1 DEF Lead
<1> QED
  BY <1>1, <1>2, <1>3, <1>4 DEF Lead

LEMMA HeadOfConcat ==
  ASSUME NEW s \in Seq(Event), NEW t \in Seq(Event), s # <<>>
  PROVE  /\ s \o t # <<>> /\ Head(s \o t) = Head(s)
         /\ Tail(s \o t) = Tail(s) \o t
<1>1. /\ s \o t \in Seq(Event) /\ Len(s \o t) = Len(s) + Len(t)
      /\ Len(s) \in Nat \ {0} /\ Len(t) \in Nat
  OBVIOUS
<1>2. s \o t # <<>> /\ Head(s \o t) = Head(s)
  BY <1>1
<1>3. /\ Tail(s \o t) \in Seq(Event) /\ Tail(s) \o t \in Seq(Event)
      /\ Len(Tail(s \o t)) = Len(s) + Len(t) - 1
      /\ Len(Tail(s) \o t) = Len(s) + Len(t) - 1
  BY <1>1, <1>2
<1>4. ASSUME NEW i \in 1..(Len(s) + Len(t) - 1)
      PROVE  Tail(s \o t)[i] = (Tail(s) \o t)[i]
  BY <1>1, <1>3
<1> QED
  BY <1>2, <1>3, <1>4

CountInv ==
  /\ ClaimsCounted
  /\ mu = Nowhere => batch = Quiet

LEMMA UnderwayType ==
  ASSUME InterestTypeOK, NEW n \in Relation, NEW k \in Pair
  PROVE  Underway(n, k) \in Seq(Event)
<1>1. pending[n][k] \in Seq(Event) /\ batch[k] \in Seq(Event)
  BY DEF InterestTypeOK
<1> QED
  BY <1>1 DEF Underway

\* A relation that says something new of k adds the event that leads there.
LEMMA CountRelated ==
  ASSUME InterestTypeOK, CountInv, UNCHANGED <<hold, mu, stage, batch>>,
         NEW n \in Relation, NEW k \in Pair,
         \/ (k \in related[n] <=> k \in related'[n]) /\ pending'[n][k] = pending[n][k]
         \/ k \in related[n] \ related'[n] /\ pending'[n][k] = Append(pending[n][k], "leave")
         \/ k \in related'[n] \ related[n] /\ pending'[n][k] = Append(pending[n][k], "enter")
  PROVE  Lead(Underway(n, k), n \in hold[k], k \in related[n])'
<1> DEFINE b == IF mu # Nowhere /\ stage = n THEN batch[k] ELSE <<>>
           e == IF k \in related[n] THEN "leave" ELSE "enter"
<1>1. /\ Underway(n, k) \in Seq(Event)
      /\ b \in Seq(Event) /\ pending[n][k] \in Seq(Event) /\ e \in Event
  BY UnderwayType DEF InterestTypeOK, Event
<1>2. Lead(Underway(n, k), n \in hold[k], k \in related[n])
  BY DEF CountInv, ClaimsCounted
<1>3. Underway(n, k) = b \o pending[n][k] /\ Underway(n, k)' = b \o pending'[n][k]
  BY DEF Underway
<1>4. CASE (k \in related[n] <=> k \in related'[n]) /\ pending'[n][k] = pending[n][k]
  <2>1. Underway(n, k)' = Underway(n, k)
    BY <1>3, <1>4
  <2>2. (n \in hold[k])' <=> n \in hold[k]
    OBVIOUS
  <2> QED
    BY <1>2, <1>4, <2>1, <2>2 DEF Lead
<1>5. CASE /\ k \in related'[n] <=> ~(k \in related[n])
           /\ pending'[n][k] = Append(pending[n][k], e)
  <2>1. Lead(Append(Underway(n, k), e), n \in hold[k], ~(k \in related[n]))
    <3>1. (n \in hold[k]) \in BOOLEAN /\ (k \in related[n]) \in BOOLEAN
      OBVIOUS
    <3> QED
      BY <1>1, <1>2, <3>1, LeadAppend, Zenon
  <2> HIDE DEF b, e
  <2>2. b \o Append(pending[n][k], e) = Append(b \o pending[n][k], e)
    BY <1>1
  <2>3. Underway(n, k)' = Append(Underway(n, k), e)
    BY <1>3, <1>5, <2>2
  <2> QED
    BY <1>5, <2>1, <2>3
<1> QED
  BY <1>4, <1>5

LEMMA CountFrame ==
  ASSUME CountInv, UNCHANGED <<related, pending, hold, mu, stage, batch>>
  PROVE  CountInv'
<1>1. \A n \in Relation, k \in Pair : Underway(n, k)' = Underway(n, k)
  BY DEF Underway
<1> QED
  BY <1>1 DEF CountInv, ClaimsCounted

LEMMA CountRelate ==
  ASSUME InterestTypeOK, CountInv, UNCHANGED <<hold, mu, stage, batch>>,
         NEW m \in Relation, NEW after, Relate(m, after)
  PROVE  CountInv'
<1>1. ASSUME NEW n \in Relation, NEW k \in Pair
      PROVE  Lead(Underway(n, k), n \in hold[k], k \in related[n])'
  <2>1. CASE n = m
    BY <2>1, CountRelated DEF Relate, InterestTypeOK
  <2>2. CASE n # m
    BY <2>2, CountRelated DEF Relate, InterestTypeOK
  <2> QED
    BY <2>1, <2>2
<1> QED
  BY <1>1 DEF CountInv, ClaimsCounted

LEMMA CountKept ==
  ASSUME InterestTypeOK, CountInv, InterestNext \/ UNCHANGED interestVars
  PROVE  CountInv'
<1> USE DEF indexVars, sourceVars, aggregateVars, tickVars
<1>1. ASSUME NEW p \in Player, NEW at \in Position, Enter(p, at) PROVE CountInv'
  BY <1>1, CountFrame, CountRelate DEF Enter, Set, Relation
<1>2. ASSUME NEW p \in Named, Leave(p) PROVE CountInv'
  <2>1. ASSUME NEW n \in Relation, NEW k \in Pair
        PROVE  Lead(Underway(n, k), n \in hold[k], k \in related[n])'
    <3>1. UNCHANGED <<hold, mu, stage, batch>>
      BY <1>2 DEF Leave
    <3>2. \/ (k \in related[n] <=> k \in related'[n]) /\ pending'[n][k] = pending[n][k]
          \/ k \in related[n] \ related'[n] /\ pending'[n][k] = Append(pending[n][k], "leave")
      <4>1. related'[n] \subseteq related[n]
        BY <1>2 DEF Leave, From, To, Relation
      <4>2. pending'[n][k] = IF k \in related[n] \ related'[n]
                             THEN Append(pending[n][k], "leave") ELSE pending[n][k]
        BY <1>2 DEF Leave
      <4> QED
        BY <4>1, <4>2
    <3> QED
      BY <3>1, <3>2, CountRelated
  <2> QED
    BY <1>2, <2>1 DEF CountInv, ClaimsCounted, Leave
<1>3. ASSUME NEW m \in Named, Hide(m) PROVE CountInv'
  BY <1>3, CountRelate DEF Hide, Relation
<1>4. ASSUME NEW p \in Player, NEW S \in SUBSET Player, SetTeamOf(p, S) PROVE CountInv'
  BY <1>4, CountRelate DEF SetTeamOf, Set, Relation
<1>5. ASSUME NEW w \in Caller, TickBegin(w) PROVE CountInv'
  <2>1. /\ mu = Nowhere /\ stage' = "spatial" /\ mu' = w /\ mu' # Nowhere
        /\ UNCHANGED <<hold, related, pending>>
    BY <1>5, InterestAssumption DEF TickBegin, Free
  <2>2. \A n \in Relation, k \in Pair : Underway(n, k)' = Underway(n, k)
    BY <2>1 DEF Underway, Relation
  <2> QED
    BY <2>1, <2>2 DEF CountInv, ClaimsCounted
<1>6. ASSUME NEW w \in Caller, TickFlush(w) PROVE CountInv'
  <2>1. /\ batch = Quiet /\ stage' \in Relation /\ stage' # stage
        /\ mu # Nowhere /\ mu' = mu
        /\ batch' = pending[stage']
        /\ pending' = [pending EXCEPT ![stage'] = Quiet]
        /\ UNCHANGED <<hold, related>>
    BY <1>6, InterestAssumption DEF TickFlush, Relation
  <2>2. ASSUME NEW n \in Relation, NEW k \in Pair
        PROVE  Underway(n, k)' = Underway(n, k)
    <3>1. Quiet[k] = <<>> /\ pending[n][k] \in Seq(Event)
      BY DEF Quiet, InterestTypeOK
    <3>2. CASE n = stage'
      <4>1. /\ Underway(n, k) = <<>> \o pending[n][k]
            /\ Underway(n, k)' = pending[n][k] \o <<>>
        BY <2>1, <3>1, <3>2 DEF Underway, InterestTypeOK
      <4> QED
        BY <3>1, <4>1
    <3>3. CASE n # stage'
      <4>1. /\ Underway(n, k) = <<>> \o pending[n][k]
            /\ Underway(n, k)' = <<>> \o pending[n][k]
        BY <2>1, <3>1, <3>3 DEF Underway, InterestTypeOK
      <4> QED
        BY <4>1
    <3> QED
      BY <3>2, <3>3
  <2> QED
    BY <2>1, <2>2 DEF CountInv, ClaimsCounted
<1>7. ASSUME NEW w \in Caller, TickEnd(w) PROVE CountInv'
  <2>1. /\ batch = Quiet /\ batch' = batch /\ stage = "team" /\ mu' = Nowhere
        /\ UNCHANGED <<hold, related, pending>>
    BY <1>7 DEF TickEnd
  <2>2. \A n \in Relation, k \in Pair : Underway(n, k)' = Underway(n, k)
    BY <2>1 DEF Underway, Quiet
  <2> QED
    BY <2>1, <2>2 DEF CountInv, ClaimsCounted
<1>8. ASSUME NEW w \in Caller, NEW l \in Pair, TickApply(w, l) PROVE CountInv'
  <2> DEFINE e == Head(batch[l])
  <2>1. /\ mu # Nowhere /\ mu' = mu /\ stage' = stage /\ batch[l] # <<>>
        /\ batch' = [batch EXCEPT ![l] = Tail(batch[l])]
        /\ UNCHANGED <<related, pending>>
        /\ batch[l] \in Seq(Event)
    BY <1>8, InterestAssumption DEF TickApply, InterestTypeOK
  <2>2. /\ e \in Event
        /\ hold' = [hold EXCEPT ![l] = IF e = "leave" THEN hold[l] \ {stage}
                                       ELSE hold[l] \cup {stage}]
    BY <1>8, <2>1 DEF TickApply, ApplyLeave, ApplyEnter
  <2>3. ASSUME NEW n \in Relation, NEW k \in Pair, n # stage \/ k # l
        PROVE  Lead(Underway(n, k), n \in hold[k], k \in related[n])'
    <3>1. Underway(n, k)' = Underway(n, k)
      BY <2>1, <2>3 DEF Underway, InterestTypeOK
    <3>2. n \in hold'[k] <=> n \in hold[k]
      BY <2>2, <2>3 DEF InterestTypeOK
    <3>3. Lead(Underway(n, k), n \in hold[k], k \in related[n])
      BY DEF CountInv, ClaimsCounted
    <3> QED
      BY <2>1, <3>1, <3>2, <3>3 DEF Lead
  <2>4. ASSUME NEW n \in Relation, n = stage
        PROVE  Lead(Underway(n, l), n \in hold[l], l \in related[n])'
    <3>1. /\ pending[n][l] \in Seq(Event) /\ Underway(n, l) \in Seq(Event)
          /\ Underway(n, l) = batch[l] \o pending[n][l]
          /\ Underway(n, l)' = Tail(batch[l]) \o pending[n][l]
      BY <2>1, <2>4, UnderwayType DEF Underway, InterestTypeOK
    <3>2. /\ Underway(n, l) # <<>> /\ Head(Underway(n, l)) = e
          /\ Underway(n, l)' = Tail(Underway(n, l))
      BY <2>1, <3>1, HeadOfConcat
    <3>3. Lead(Underway(n, l), n \in hold[l], l \in related[n])
      BY <2>4 DEF CountInv, ClaimsCounted
    <3>4. (n \in hold[l]) \in BOOLEAN /\ (l \in related[n]) \in BOOLEAN
      OBVIOUS
    <3> HIDE DEF e
    <3>5. /\ e = "enter" <=> ~(n \in hold[l])
          /\ Lead(Tail(Underway(n, l)), ~(n \in hold[l]), l \in related[n])
      BY <3>1, <3>2, <3>3, <3>4, LeadTail, Zenon
    <3>6. n \in hold'[l] <=> ~(n \in hold[l])
      BY <2>2, <2>4, <3>5 DEF Event, InterestTypeOK
    <3> QED
      BY <2>1, <3>2, <3>5, <3>6 DEF Lead
  <2>5. CountInv' <=> \A n \in Relation, k \in Pair :
                        Lead(Underway(n, k), n \in hold[k], k \in related[n])'
    BY <2>1 DEF CountInv, ClaimsCounted
  <2> QED
    <3>1. ASSUME NEW n \in Relation, NEW k \in Pair
          PROVE  Lead(Underway(n, k), n \in hold[k], k \in related[n])'
      BY <2>3, <2>4
    <3> QED
      BY <2>5, <3>1
<1>9. ASSUME \/ UNCHANGED interestVars
             \/ \E p \in Named, to \in Position : Move(p, to) \/ Show(p, to)
             \/ \E k \in Pair \cup {NoPair} : SubscribeFailed(k)
      PROVE  CountInv'
  BY <1>9, CountFrame DEF Move, Show, SubscribeFailed, interestVars
<1> QED
  BY <1>1, <1>2, <1>3, <1>4, <1>5, <1>6, <1>7, <1>8, <1>9 DEF InterestNext

-----------------------------------------------------------------------------
(***************************************************************************)
(* The calls of the bridge.                                                *)
(***************************************************************************)
WorldTypeOK ==
  /\ online \subseteq Player
  /\ notices \in [Player -> 0..MaxNotices]
  /\ members \subseteq Player
  /\ registered \subseteq Id
  /\ subs \subseteq Pair

HistoryTypeOK ==
  /\ faults \in 0..MaxFaults /\ logins \in 0..MaxLogins
  /\ unnoticed \subseteq Player /\ unjoined \subseteq Player /\ late \subseteq Player
  /\ stale \subseteq subs /\ crossed \subseteq Pair

CallTypeOK ==
  /\ pc \in [Caller -> PC]
  /\ job \in [Caller -> Job]
  /\ who \in [Caller -> Named]
  /\ leaver \in [Caller -> Named]
  /\ todo \in [Caller -> SUBSET Player]
  /\ group \in [Caller -> SUBSET Player]
  /\ changes \in [Caller -> [Pair -> Seq(BOOLEAN)]]
  /\ denied \in [Caller -> Pair \cup {NoPair}]

\* Only a player joins, and only a player or a monster is registered.
JoinOK ==
  \A w \in Caller :
    /\ job[w] = "join" => who[w] \in Player
    /\ pc[w] \in {"sweep", "member", "enter"} => job[w] = "join"
    /\ pc[w] = "register" => who[w] \in Id

CallInv == CallTypeOK /\ JoinOK

LEMMA TypeParts ==
  TypeOK <=> InterestTypeOK /\ WorldTypeOK /\ CallTypeOK /\ HistoryTypeOK
BY DEF TypeOK, WorldTypeOK, CallTypeOK, HistoryTypeOK, Named

LEMMA GotoKept ==
  ASSUME CallInv, NEW w \in Caller, NEW to \in PC, Goto(w, to),
         to \in {"sweep", "member", "enter"} => job[w] = "join",
         to = "register" => who[w] \in Id
  PROVE  CallInv'
BY DEF CallInv, CallTypeOK, JoinOK, Goto

LEMMA CallKept ==
  ASSUME CallInv, NEW w \in Caller, NEW j \in Job, NEW id \in Named, NEW to \in PC,
         Call(w, j, id, to),
         leaver' \in [Caller -> Named],
         todo' \in [Caller -> SUBSET Player], group' \in [Caller -> SUBSET Player],
         UNCHANGED <<changes, denied>>,
         j = "join" => id \in Player,
         to \in {"sweep", "member", "enter"} => j = "join",
         to = "register" => id \in Id
  PROVE  CallInv'
BY DEF CallInv, CallTypeOK, JoinOK, Call

LEMMA ReturnKept ==
  ASSUME CallInv, NEW w \in Caller, Return(w)
  PROVE  CallInv'
BY DEF CallInv, CallTypeOK, JoinOK, Return, PC, Job, Named

LEMMA LeaveDoneKept ==
  ASSUME CallInv, NEW w \in Caller, LeaveDone(w)
  PROVE  CallInv'
<1>1. CASE job[w] = "join"
  BY <1>1 DEF CallInv, CallTypeOK, JoinOK, LeaveDone, PC, Named
<1>2. CASE job[w] # "join"
  BY <1>2, ReturnKept DEF LeaveDone
<1> QED
  BY <1>1, <1>2

LEMMA CallFrame == ASSUME CallInv, UNCHANGED callVars PROVE CallInv'
BY DEF CallInv, CallTypeOK, JoinOK, callVars

LEMMA CallsStart ==
  ASSUME CallInv, WorldTypeOK, NEW w \in Caller,
         Start(w) \/ \E p \in Player : Closed(w, p)
  PROVE  CallInv' /\ WorldTypeOK'
<1> USE DEF sessionVars, roomVars, Id, Named, PC, Job, Login, Other
<1>1. ASSUME NEW p \in Player, StartJoin(w, p) PROVE CallInv' /\ WorldTypeOK'
  BY <1>1, CallKept DEF StartJoin, WorldTypeOK, CallInv, CallTypeOK
<1>2. ASSUME NEW p \in Player, StartMove(w, p) PROVE CallInv' /\ WorldTypeOK'
  BY <1>2, CallKept DEF StartMove, WorldTypeOK, CallInv, CallTypeOK
<1>3. ASSUME NEW p \in Player, PushFails(w, p) PROVE CallInv' /\ WorldTypeOK'
  BY <1>3, CallKept DEF PushFails, WorldTypeOK, CallInv, CallTypeOK
<1>4. ASSUME NEW p \in Player, NEW q \in Player, StartTeam(w, {p, q})
      PROVE  CallInv' /\ WorldTypeOK'
  BY <1>4, CallKept DEF StartTeam, WorldTypeOK, CallInv, CallTypeOK
<1>5. ASSUME NEW m \in Monster, StartShow(w, m) PROVE CallInv' /\ WorldTypeOK'
  BY <1>5, CallKept DEF StartShow, WorldTypeOK, CallInv, CallTypeOK
<1>6. ASSUME NEW m \in Monster, StartHide(w, m) PROVE CallInv' /\ WorldTypeOK'
  BY <1>6, CallKept DEF StartHide, WorldTypeOK, CallInv, CallTypeOK
<1>7. ASSUME NEW p \in Player, Closed(w, p) PROVE CallInv' /\ WorldTypeOK'
  <2>1. notices' \in [Player -> 0..MaxNotices]
    <3>1. notices[p] - 1 \in 0..MaxNotices /\ notices' = [notices EXCEPT ![p] = notices[p] - 1]
      BY <1>7, BridgeAssumption DEF Closed, WorldTypeOK
    <3> QED
      BY <3>1 DEF WorldTypeOK
  <2>2. CASE p \in online
    BY <1>7, <2>1, <2>2, CallFrame DEF Closed, WorldTypeOK
  <2>3. CASE p \notin online
    <3>1. CallInv'
      <4>1. /\ Call(w, "leave", p, "unmember") /\ leaver' = [leaver EXCEPT ![w] = p]
            /\ UNCHANGED <<todo, group, changes, denied>>
        BY <1>7, <2>3 DEF Closed
      <4> QED
        BY <4>1, CallKept DEF CallInv, CallTypeOK
    <3> QED
      BY <1>7, <2>1, <2>3, <3>1 DEF Closed, WorldTypeOK
  <2> QED
    BY <2>2, <2>3
<1> QED
  BY <1>1, <1>2, <1>3, <1>4, <1>5, <1>6, <1>7 DEF Start

LEMMA TailType ==
  ASSUME NEW S, NEW s \in Seq(S), s # <<>>
  PROVE  Tail(s) \in Seq(S)
OBVIOUS

LEMMA CallsStep ==
  ASSUME CallInv, WorldTypeOK, NEW w \in Caller, Step(w)
  PROVE  CallInv' /\ WorldTypeOK'
<1> USE DEF sessionVars, roomVars
<1> DEFINE Good == CallInv' /\ WorldTypeOK'
<1>a. pc[w] \in {"sweep", "member", "enter"} => job[w] = "join" /\ who[w] \in Player
  BY DEF CallInv, JoinOK
<1>b. pc[w] = "register" => who[w] \in Id
  BY DEF CallInv, JoinOK
<1>1. CASE SweepDone(w)
  <2>1. who[w] \in Id
    BY <1>1, <1>a DEF SweepDone, Id
  <2> QED
    BY <1>1, <2>1, GotoKept DEF SweepDone, WorldTypeOK, PC
<1>2. CASE Register(w)
  <2>1. who[w] \in Id
    BY <1>2, <1>b DEF Register
  <2>2. ASSUME job[w] = "join", ~Return(w) PROVE CallInv'
    <3>1. Goto(w, "member")
      BY <1>2, <2>2 DEF Register, Goto
    <3> QED
      BY <2>2, <3>1, GotoKept DEF PC
  <2>3. ASSUME job[w] # "join", ~Return(w) PROVE CallInv'
    <3>1. Goto(w, "show")
      BY <1>2, <2>3 DEF Register, Goto
    <3> QED
      BY <3>1, GotoKept DEF PC
  <2>4. ASSUME Return(w) PROVE CallInv'
    BY <2>4, ReturnKept
  <2>5. WorldTypeOK'
    BY <1>2, <2>1 DEF Register, WorldTypeOK
  <2> QED
    BY <1>2, <2>2, <2>3, <2>4, <2>5 DEF Register
<1>3. CASE AddMember(w)
  <2>1. job[w] = "join" /\ who[w] \in Player
    BY <1>3, <1>a DEF AddMember
  <2> QED
    <3>1. CallInv'
      BY <1>3, <2>1, GotoKept DEF AddMember, PC
    <3> QED
      BY <1>3, <2>1, <3>1 DEF AddMember, WorldTypeOK
<1>4. CASE EnterScene(w)
  BY <1>4, GotoKept, ReturnKept DEF EnterScene, WorldTypeOK, PC
<1>5. CASE MoveScene(w)
  BY <1>5, GotoKept, ReturnKept DEF MoveScene, WorldTypeOK, PC
<1>6. CASE ShowScene(w)
  BY <1>6, GotoKept, ReturnKept DEF ShowScene, WorldTypeOK, PC
<1>7. CASE Unmember(w)
  BY <1>7, GotoKept, LeaveDoneKept DEF Unmember, WorldTypeOK, PC
<1>8. CASE LeaveScene(w) \/ HideScene(w)
  BY <1>8, GotoKept DEF LeaveScene, HideScene, WorldTypeOK, PC
<1>9. CASE Retire(w)
  BY <1>9, GotoKept DEF Retire, Dropped, WorldTypeOK, PC
<1>10. CASE Unregister(w)
  BY <1>10, LeaveDoneKept DEF Unregister, Dropped, WorldTypeOK
<1>11. CASE Begin(w)
  BY <1>11, GotoKept DEF Begin, WorldTypeOK, PC
<1>12. CASE Fold(w) \/ End(w)
  <2>1. changes' \in [Caller -> [Pair -> Seq(BOOLEAN)]]
    <3>1. \A k \in Pair : Said(k) \in Seq(BOOLEAN)
      <4>1. <<TRUE>> \in Seq(BOOLEAN) /\ <<FALSE>> \in Seq(BOOLEAN) /\ <<>> \in Seq(BOOLEAN)
        OBVIOUS
      <4> QED
        BY <4>1 DEF Said
    <3>2. \A k \in Pair : changes[w][k] \o Said(k) \in Seq(BOOLEAN)
      <4>1. \A k \in Pair : changes[w][k] \in Seq(BOOLEAN)
        BY DEF CallInv, CallTypeOK
      <4> QED
        BY <3>1, <4>1
    <3>3. changes' = [changes EXCEPT ![w] = [k \in Pair |-> changes[w][k] \o Said(k)]]
      BY <1>12 DEF Fold, End, Collect
    <3> QED
      BY <3>2, <3>3 DEF CallInv, CallTypeOK
  <2> QED
    BY <1>12, <2>1 DEF Fold, End, WorldTypeOK, CallInv, CallTypeOK, JoinOK, PC
<1>13. CASE ReportRefusal(w)
  BY <1>13 DEF ReportRefusal, WorldTypeOK, CallInv, CallTypeOK, JoinOK, PC
<1>14. CASE ApplyDone(w)
  BY <1>14, GotoKept, ReturnKept DEF ApplyDone, WorldTypeOK, PC
<1>15. ASSUME NEW p \in Player, Sweep(w, p) PROVE Good
  <2>1. WorldTypeOK' /\ todo' \in [Caller -> SUBSET Player]
    BY <1>15 DEF Sweep, WorldTypeOK, CallInv, CallTypeOK
  <2>2. pc' \in [Caller -> PC] /\ leaver' \in [Caller -> Named]
    BY <1>15 DEF Sweep, CallInv, CallTypeOK, PC, Named, Id
  <2> QED
    BY <1>15, <2>1, <2>2 DEF Sweep, CallInv, CallTypeOK, JoinOK
<1>16. ASSUME NEW p \in Player, TeamScene(w, p) PROVE Good
  BY <1>16 DEF TeamScene, WorldTypeOK, CallInv, CallTypeOK, JoinOK, PC
<1>17. ASSUME NEW k \in Pair, Subscribe(w, k) \/ Refuse(w, k) \/ Unsubscribe(w, k) PROVE Good
  <2>1. changes' \in [Caller -> [Pair -> Seq(BOOLEAN)]]
    <3>1. Tail(changes[w][k]) \in Seq(BOOLEAN)
      <4>1. changes[w][k] \in Seq(BOOLEAN)
        BY DEF CallInv, CallTypeOK
      <4>2. changes[w][k] # <<>>
        BY <1>17 DEF Subscribe, Refuse, Unsubscribe
      <4> QED
        BY <4>1, <4>2, TailType
    <3>2. changes' = [changes EXCEPT ![w][k] = Tail(changes[w][k])]
      BY <1>17 DEF Subscribe, Refuse, Unsubscribe, Applied
    <3> QED
      BY <3>1, <3>2 DEF CallInv, CallTypeOK
  <2>2. CallInv'
    <3>1. CASE Subscribe(w, k) \/ Unsubscribe(w, k)
      BY <3>1, <2>1 DEF Subscribe, Unsubscribe, CallInv, CallTypeOK, JoinOK
    <3>2. CASE Refuse(w, k)
      <4>1. denied' \in [Caller -> Pair \cup {NoPair}]
        BY <3>2 DEF Refuse, CallInv, CallTypeOK
      <4>2. pc' \in [Caller -> PC]
        BY <3>2 DEF Refuse, CallInv, CallTypeOK, PC
      <4> QED
        BY <3>2, <2>1, <4>1, <4>2 DEF Refuse, CallInv, CallTypeOK, JoinOK
    <3> QED
      BY <1>17, <3>1, <3>2
  <2> QED
    BY <1>17, <2>2 DEF Subscribe, Refuse, Unsubscribe, WorldTypeOK
<1> QED
  BY <1>1, <1>2, <1>3, <1>4, <1>5, <1>6, <1>7, <1>8, <1>9, <1>10, <1>11, <1>12, <1>13,
     <1>14, <1>15, <1>16, <1>17 DEF Step, Work

\* The histories.
LEMMA HistoryKept ==
  ASSUME WorldTypeOK, CallInv, HistoryTypeOK, [Next]_vars
  PROVE  HistoryTypeOK'
<1> USE BridgeAssumption DEF HistoryTypeOK, sessionVars, historyVars, roomVars
<1>1. ASSUME Fault PROVE faults' \in 0..MaxFaults
  BY <1>1 DEF Fault
<1>2. ASSUME NEW w \in Caller, NEW p \in Player, Login(w, p) PROVE HistoryTypeOK'
  BY <1>2 DEF Login, StartJoin
<1>3. ASSUME NEW w \in Caller, Other(w), UNCHANGED logins PROVE HistoryTypeOK'
  BY <1>3 DEF Other, StartMove, PushFails, StartTeam, StartShow, StartHide
<1>4. ASSUME NEW p \in Player, Disconnect(p) PROVE HistoryTypeOK'
  BY <1>1, <1>4 DEF Disconnect
<1>5. ASSUME NEW w \in Caller, NEW p \in Player, Closed(w, p) PROVE HistoryTypeOK'
  BY <1>5 DEF Closed
<1>6. ASSUME NEW w \in Caller, Step(w) PROVE HistoryTypeOK'
  <2>0. Work(w) /\ logins' = logins
    BY <1>6 DEF Step
  <2>1. CASE Register(w)
    BY <1>1, <2>0, <2>1 DEF Register
  <2>2. CASE Retire(w) \/ Unregister(w)
    BY <1>1, <2>0, <2>2 DEF Retire, Unregister, Dropped
  <2>3. CASE Fold(w) \/ End(w)
    BY <2>0, <2>3 DEF Fold, End, Collect
  <2>4. ASSUME NEW k \in Pair, Subscribe(w, k) \/ Unsubscribe(w, k) PROVE HistoryTypeOK'
    BY <1>1, <2>0, <2>4 DEF Subscribe, Unsubscribe
  <2>5. ASSUME NEW k \in Pair, Refuse(w, k) PROVE HistoryTypeOK'
    BY <1>1, <2>0, <2>5 DEF Refuse, Denial
  <2>6. ASSUME UNCHANGED <<subs, unnoticed, late, unjoined, stale, crossed, faults>>
        PROVE  HistoryTypeOK'
    BY <2>0, <2>6
  <2> QED
    BY <2>0, <2>1, <2>2, <2>3, <2>4, <2>5, <2>6
    DEF Work, SweepDone, AddMember, EnterScene, MoveScene, ShowScene, Unmember, LeaveScene,
        HideScene, Begin, ReportRefusal, ApplyDone, Sweep, TeamScene
<1>7. ASSUME UNCHANGED vars PROVE HistoryTypeOK'
  BY <1>7 DEF vars
<1> QED
  BY <1>2, <1>3, <1>4, <1>5, <1>6, <1>7 DEF Next, Start

\* Every step of the bridge is at most one critical section of the interest
\* system, called for what it takes.
LEMMA InterestSteps ==
  ASSUME TypeOK, JoinOK, Next
  PROVE  InterestNext \/ UNCHANGED interestVars
<1> USE DEF InterestNext
<1>a. CallInv /\ InterestTypeOK
  BY TypeParts DEF CallInv
<1>1. ASSUME NEW p \in Player, Disconnect(p) PROVE UNCHANGED interestVars
  BY <1>1 DEF Disconnect
<1>2. ASSUME NEW w \in Caller, Start(w) PROVE UNCHANGED interestVars
  BY <1>2 DEF Start, Login, Other, StartJoin, StartMove, PushFails, StartTeam, StartShow,
              StartHide
<1>3. ASSUME NEW w \in Caller, NEW p \in Player, Closed(w, p)
      PROVE  UNCHANGED interestVars
  BY <1>3 DEF Closed
<1>4. ASSUME NEW w \in Caller, Step(w) PROVE InterestNext \/ UNCHANGED interestVars
  <2>a. who[w] \in Named /\ leaver[w] \in Named
    BY <1>a DEF CallInv, CallTypeOK
  <2>1. ASSUME \/ SweepDone(w) \/ Register(w) \/ AddMember(w) \/ Unmember(w)
               \/ Retire(w) \/ Unregister(w) \/ ApplyDone(w)
               \/ \E p \in Player : Sweep(w, p)
               \/ \E k \in Pair : Subscribe(w, k) \/ Refuse(w, k) \/ Unsubscribe(w, k)
        PROVE  UNCHANGED interestVars
    BY <2>1 DEF SweepDone, Register, AddMember, Unmember, Retire, Unregister, ApplyDone,
                Sweep, Subscribe, Refuse, Unsubscribe
  <2>2. ASSUME EnterScene(w) PROVE \E p \in Player, at \in Position : Enter(p, at)
    <3>1. who[w] \in Player
      BY <2>2, <1>a DEF EnterScene, CallInv, JoinOK
    <3> QED
      BY <2>2, <3>1 DEF EnterScene
  <2>3. ASSUME MoveScene(w) PROVE \E p \in Named, to \in Position : Move(p, to)
    BY <2>3, <2>a DEF MoveScene
  <2>4. ASSUME ShowScene(w) PROVE \E m \in Named, at \in Position : Show(m, at)
    BY <2>4, <2>a DEF ShowScene
  <2>5. ASSUME NEW p \in Player, TeamScene(w, p)
        PROVE  \E o \in Player, S \in SUBSET Player : SetTeamOf(o, S)
    <3>1. group[w] \ {p} \in SUBSET Player
      BY <1>a DEF CallInv, CallTypeOK
    <3> QED
      BY <2>5, <3>1 DEF TeamScene
  <2>6. ASSUME LeaveScene(w) PROVE \E p \in Named : Leave(p)
    BY <2>6, <2>a DEF LeaveScene
  <2>7. ASSUME HideScene(w) PROVE \E m \in Named : Hide(m)
    BY <2>7, <2>a DEF HideScene
  <2>8. ASSUME Begin(w) \/ Fold(w) \/ End(w)
        PROVE  \/ TickBegin(w) \/ TickFlush(w) \/ TickEnd(w)
               \/ \E k \in Pair : TickApply(w, k)
    BY <2>8 DEF Begin, Fold, End
  <2>9. ASSUME ReportRefusal(w) PROVE \E k \in Pair \cup {NoPair} : SubscribeFailed(k)
    <3>1. denied[w] \in Pair \cup {NoPair}
      BY <1>a DEF CallInv, CallTypeOK
    <3> QED
      BY <2>9, <3>1 DEF ReportRefusal
  <2> QED
    BY <1>4, <2>1, <2>2, <2>3, <2>4, <2>5, <2>6, <2>7, <2>8, <2>9 DEF Step, Work
<1> QED
  BY <1>1, <1>2, <1>3, <1>4 DEF Next

-----------------------------------------------------------------------------
(***************************************************************************)
(* The inductive invariant.                                                *)
(***************************************************************************)
SceneInv == TypeOK /\ JoinOK /\ QueueInv /\ CountInv

LEMMA InitInv == Init => SceneInv
<1> SUFFICES ASSUME Init PROVE SceneInv
  OBVIOUS
<1> USE DEF Init, InterestInit
<1>1. InterestTypeOK
  BY QuietType DEF InterestTypeOK, Source
<1>2. WorldTypeOK
  BY BridgeAssumption DEF WorldTypeOK
<1>3. CallTypeOK
  <2>1. Quiet \in [Pair -> Seq(BOOLEAN)]
    BY DEF Quiet
  <2> QED
    BY <2>1 DEF CallTypeOK, PC, Job, Named
<1>4. JoinOK
  BY DEF JoinOK
<1>5. QueueInv
  BY DEF QueueInv, QueueExact, Held
<1>6. CountInv
  <2>1. ASSUME NEW n \in Relation, NEW k \in Pair
        PROVE  Lead(Underway(n, k), n \in hold[k], k \in related[n])
    <3>1. Underway(n, k) = <<>> /\ Len(Underway(n, k)) = 0
      BY DEF Underway, Quiet
    <3> QED
      BY <3>1 DEF Lead
  <2> QED
    BY <2>1 DEF CountInv, ClaimsCounted
<1>7. HistoryTypeOK
  BY BridgeAssumption DEF HistoryTypeOK
<1> QED
  BY <1>1, <1>2, <1>3, <1>4, <1>5, <1>6, <1>7, TypeParts DEF SceneInv

LEMMA NextInv == SceneInv /\ [Next]_vars => SceneInv'
<1> SUFFICES ASSUME SceneInv, [Next]_vars PROVE SceneInv'
  OBVIOUS
<1>a. /\ InterestTypeOK /\ WorldTypeOK /\ HistoryTypeOK /\ CallInv
      /\ QueueInv /\ CountInv
  BY TypeParts DEF SceneInv, CallInv
<1>1. InterestNext \/ UNCHANGED interestVars
  BY InterestSteps DEF SceneInv, vars
<1>2. InterestTypeOK'
  BY <1>a, <1>1, InterestTypeKept
  DEF InterestTypeOK, interestVars, indexVars, sourceVars, aggregateVars, tickVars
<1>3. WorldTypeOK' /\ CallInv'
  <2>1. ASSUME NEW p \in Player, Disconnect(p) PROVE WorldTypeOK' /\ CallInv'
    <3>1. notices' \in [Player -> 0..MaxNotices]
      BY <1>a, <2>1, BridgeAssumption DEF Disconnect, WorldTypeOK
    <3> QED
      BY <1>a, <2>1, <3>1, CallFrame DEF Disconnect, WorldTypeOK, roomVars
  <2>2. ASSUME UNCHANGED vars PROVE WorldTypeOK' /\ CallInv'
    BY <1>a, <2>2, CallFrame DEF vars, WorldTypeOK, sessionVars, roomVars
  <2> QED
    <3>1. ASSUME NEW w \in Caller, Start(w) \/ Step(w) PROVE WorldTypeOK' /\ CallInv'
      BY <1>a, <3>1, CallsStart, CallsStep
    <3>2. ASSUME NEW w \in Caller, NEW p \in Player, Closed(w, p)
          PROVE  WorldTypeOK' /\ CallInv'
      BY <1>a, <3>2, CallsStart
    <3> QED
      BY <2>1, <2>2, <3>1, <3>2 DEF Next
<1>4. QueueInv' /\ CountInv'
  BY <1>a, <1>1, QueueKept, CountKept
<1>5. TypeOK'
  <2>1. HistoryTypeOK'
    BY <1>a, HistoryKept
  <2> QED
    BY <1>2, <1>3, <2>1 DEF TypeOK, WorldTypeOK, HistoryTypeOK, CallInv, CallTypeOK, Named
<1> QED
  BY <1>3, <1>4, <1>5 DEF SceneInv, CallInv

\* The state of the bridge, of the interest system and of the calls under
\* way keeps its types (Scene, InterestSystem).
THEOREM TypeCorrect == Spec => []TypeOK
<1>1. SceneInv => TypeOK
  BY DEF SceneInv
<1> QED
  BY <1>1, InitInv, NextInv, PTL DEF Spec

\* InterestSystem.SubscribeFailed: "a held pair is subscribed unless it is
\* queued", once, and nothing else is queued between two Ticks.
THEOREM RetryQueueExact == Spec => []QueueExact
<1>1. SceneInv => QueueExact
  BY DEF SceneInv, QueueInv
<1> QED
  BY <1>1, InitInv, NextInv, PTL DEF Spec

\* InterestSystem.apply and RelationSource: however Set, Forget, Flush and
\* apply of several goroutines interleave, what is on the way leads from the
\* claims that are held to the relations that are set.
THEOREM NoClaimLost == Spec => []ClaimsCounted
<1>1. SceneInv => ClaimsCounted
  BY DEF SceneInv, CountInv
<1> QED
  BY <1>1, InitInv, NextInv, PTL DEF Spec

-----------------------------------------------------------------------------
(***************************************************************************)
(* The room follows the interest system, whoever calls.                    *)
(*                                                                         *)
(* As long as only one caller at a time has something to say about a pair, *)
(* what it has to say is a run of alternating changes that ends with what  *)
(* the interest system believes in; and when nobody has, the room agrees.  *)
(* The histories name the pairs two callers talked about at once.          *)
(***************************************************************************)

\* The subscriptions the room has and was not told to end.
Kept == subs \ stale

\* The changes s lead a room that has the pair (or not) to what is wanted.
Answers(s, wanted, had) ==
  /\ \A i \in 1..(Len(s) - 1) : s[i] # s[i + 1]
  /\ s[Len(s)] = wanted
  /\ s[1] => ~had

PairInv(k) ==
  /\ \A v, w \in Caller : Talks(v, k) /\ Talks(w, k) => v = w
  /\ \A w \in Caller : changes[w][k] # <<>> =>
       denied[w] # k /\ Answers(changes[w][k], k \in subscribed, k \in Kept)
  /\ \A w \in Caller : denied[w] = k => k \in subscribed /\ k \notin Kept
  /\ (\A w \in Caller : ~Talks(w, k)) => (k \in Kept <=> k \in subscribed)

CallsQuiet ==
  \A w \in Caller :
    /\ pc[w] \notin {"ticking", "apply", "denied"} => changes[w] = Quiet
    /\ pc[w] # "denied" => denied[w] = NoPair

RoomInv ==
  /\ subscribed \subseteq Held
  /\ CallsQuiet
  /\ \A k \in Pair \ crossed : PairInv(k)

LEMMA AnswersOne ==
  ASSUME NEW b \in BOOLEAN, NEW had \in BOOLEAN, b => ~had
  PROVE  Answers(<<b>>, b, had)
BY DEF Answers

LEMMA AnswersAppend ==
  ASSUME NEW s \in Seq(BOOLEAN), s # <<>>, NEW wanted \in BOOLEAN, NEW had \in BOOLEAN,
         Answers(s, wanted, had)
  PROVE  Answers(Append(s, ~wanted), ~wanted, had)
<1> DEFINE t == Append(s, ~wanted)
<1>1. /\ Len(s) \in Nat \ {0} /\ Len(t) = Len(s) + 1
      /\ \A i \in 1..Len(s) : t[i] = s[i]
      /\ t[Len(s) + 1] = ~wanted
  OBVIOUS
<1>2. s[Len(s)] = wanted /\ (s[1] => ~had)
  BY DEF Answers
<1> HIDE DEF t
<1>3. ASSUME NEW i \in 1..(Len(t) - 1) PROVE t[i] # t[i + 1]
  <2>1. CASE i = Len(s)
    <3>1. i \in 1..Len(s)
      BY <1>1, <2>1
    <3>2. t[i] = wanted /\ t[i + 1] = ~wanted
      BY <1>1, <1>2, <2>1, <3>1
    <3> QED
      BY <3>2
  <2>2. CASE i # Len(s)
    <3>1. i \in 1..(Len(s) - 1) /\ i \in 1..Len(s) /\ i + 1 \in 1..Len(s)
      BY <1>1, <2>2
    <3> QED
      BY <1>1, <3>1 DEF Answers
  <2> QED
    BY <2>1, <2>2
<1>4. t[Len(t)] = ~wanted /\ (t[1] => ~had)
  BY <1>1, <1>2
<1> QED
  BY <1>3, <1>4 DEF Answers, t

LEMMA AnswersTail ==
  ASSUME NEW s \in Seq(BOOLEAN), s # <<>>, NEW wanted \in BOOLEAN, NEW had \in BOOLEAN,
         Answers(s, wanted, had)
  PROVE  /\ Head(s) \in BOOLEAN /\ (Head(s) => ~had)
         /\ Tail(s) = <<>> => Head(s) = wanted
         /\ Tail(s) # <<>> => Answers(Tail(s), wanted, Head(s))
<1>1. /\ Len(s) \in Nat \ {0} /\ Head(s) = s[1] /\ s[1] \in BOOLEAN
      /\ Tail(s) \in Seq(BOOLEAN) /\ Len(Tail(s)) = Len(s) - 1
      /\ \A i \in 1..(Len(s) - 1) : Tail(s)[i] = s[i + 1]
  OBVIOUS
<1>2. /\ \A i \in 1..(Len(s) - 1) : s[i] # s[i + 1]
      /\ s[Len(s)] = wanted /\ (s[1] => ~had)
  BY DEF Answers
<1>3. CASE Tail(s) = <<>>
  <2> DEFINE t == Tail(s)
  <2>0. t = <<>>
    BY <1>3
  <2> HIDE DEF t
  <2>1. Len(t) = 0
    BY <2>0
  <2>2. Len(s) = 1
    <3>1. Len(t) = Len(s) - 1 /\ Len(s) \in Nat
      BY <1>1 DEF t
    <3> QED
      BY <2>1, <3>1
  <2> QED
    BY <1>1, <1>2, <1>3, <2>2
<1>4. CASE Tail(s) # <<>>
  <2> DEFINE t == Tail(s)
  <2>1. Len(t) \in Nat \ {0} /\ Len(s) = Len(t) + 1
    BY <1>1, <1>4
  <2> HIDE DEF t
  <2>2. \A i \in 1..Len(t) : t[i] = s[i + 1]
    BY <1>1, <2>1 DEF t
  <2>3. \A i \in 1..(Len(t) - 1) : t[i] # t[i + 1]
    BY <1>2, <2>1, <2>2
  <2>4. t[Len(t)] = wanted
    BY <1>2, <2>1, <2>2
  <2>5. t[1] => ~s[1]
    <3>1. t[1] = s[2] /\ s[1] # s[2]
      BY <1>2, <2>1, <2>2
    <3> QED
      BY <3>1
  <2> QED
    BY <1>1, <1>2, <1>4, <2>3, <2>4, <2>5 DEF Answers, t
<1> QED
  BY <1>3, <1>4

LEMMA Truth ==
  ASSUME NEW x, NEW S
  PROVE  /\ (x \in S) \in BOOLEAN
         /\ x \in S => (x \in S) = TRUE
         /\ x \notin S => (x \in S) = FALSE
OBVIOUS

LEMMA AppendedNotEmpty ==
  ASSUME NEW S, NEW s \in Seq(S), NEW e \in S
  PROVE  Append(s, e) # <<>>
<1>1. Len(Append(s, e)) = Len(s) + 1 /\ Len(s) \in Nat /\ Len(<<>>) = 0
  OBVIOUS
<1> QED
  BY <1>1

LEMMA NoPairOutside == NoPair \notin Pair
BY InterestAssumption DEF NoPair, Pair

-----------------------------------------------------------------------------
\* Most steps say nothing to the room and nothing to the interest system of
\* what it subscribed.
RoomView == <<hold, subscribed, subs, stale, changes, denied, crossed>>

LEMMA PairFrame ==
  ASSUME NEW k, PairInv(k),
         k \in subscribed' <=> k \in subscribed, k \in Kept' <=> k \in Kept,
         \A w \in Caller : changes'[w][k] = changes[w][k] /\ (denied'[w] = k <=> denied[w] = k)
  PROVE  PairInv(k)'
<1>1. \A w \in Caller : Talks(w, k)' <=> Talks(w, k)
  BY DEF Talks
<1>2. \A v, w \in Caller : Talks(v, k)' /\ Talks(w, k)' => v = w
  BY <1>1 DEF PairInv
<1>3. ASSUME NEW w \in Caller, changes'[w][k] # <<>>
      PROVE  denied'[w] # k /\ Answers(changes'[w][k], k \in subscribed', k \in Kept')
  BY <1>3 DEF PairInv, Answers
<1> QED
  BY <1>1, <1>2, <1>3 DEF PairInv

LEMMA RoomFrame ==
  ASSUME RoomInv, UNCHANGED RoomView, CallsQuiet'
  PROVE  RoomInv'
<1>1. UNCHANGED <<hold, subscribed, subs, stale, changes, denied, crossed>>
  BY DEF RoomView
<1>2. ASSUME NEW k \in Pair \ crossed' PROVE PairInv(k)'
  BY <1>1, <1>2, PairFrame DEF RoomInv, Kept
<1>3. (subscribed \subseteq Held)'
  BY <1>1 DEF RoomInv, Held
<1> QED
  BY <1>2, <1>3 DEF RoomInv

LEMMA QuietFrame ==
  ASSUME CallsQuiet, CallTypeOK, NEW w \in Caller, UNCHANGED <<changes, denied>>,
         pc' = [pc EXCEPT ![w] = pc'[w]],
         pc[w] \notin {"ticking", "denied"}, pc'[w] # "denied",
         pc[w] = "apply" => changes[w] = Quiet
  PROVE  CallsQuiet'
BY DEF CallsQuiet, CallTypeOK

\* The steps that leave what is said alone.
LEMMA SilentSteps ==
  ASSUME SceneInv, RoomInv, NEW w \in Caller,
         \/ Start(w) \/ (\E p \in Player : Closed(w, p))
         \/ SweepDone(w) \/ Register(w) \/ AddMember(w) \/ EnterScene(w) \/ MoveScene(w)
         \/ ShowScene(w) \/ Unmember(w) \/ LeaveScene(w) \/ HideScene(w) \/ Begin(w)
         \/ ApplyDone(w) \/ (\E p \in Player : Sweep(w, p) \/ TeamScene(w, p))
  PROVE  RoomInv'
<1>a. CallTypeOK /\ pc \in [Caller -> PC]
  BY TypeParts DEF SceneInv, CallTypeOK
<1>1. UNCHANGED RoomView
  BY DEF RoomView, Start, Login, Other, StartJoin, StartMove, PushFails, StartTeam, StartShow,
      StartHide, Closed, SweepDone, Register, AddMember, EnterScene, MoveScene, ShowScene,
      Unmember, LeaveScene, HideScene, Begin, ApplyDone, Sweep, TeamScene, Goto, Call, Return,
      LeaveDone, Enter, Move, Show, Leave, Hide, SetTeamOf, TickBegin, callVars, historyVars,
      roomVars, interestVars, aggregateVars
<1>2. \/ UNCHANGED pc
      \/ /\ pc' = [pc EXCEPT ![w] = pc'[w]]
         /\ pc[w] \notin {"ticking", "denied"} /\ pc'[w] # "denied"
         /\ pc[w] = "apply" => changes[w] = Quiet
  BY <1>a DEF Start, Login, Other, StartJoin, StartMove, PushFails, StartTeam, StartShow,
      StartHide, Closed, SweepDone, Register, AddMember, EnterScene, MoveScene, ShowScene,
      Unmember, LeaveScene, HideScene, Begin, ApplyDone, Sweep, TeamScene, Goto, Call, Return,
      LeaveDone, callVars
<1>3. CallsQuiet'
  <2>1. CASE UNCHANGED pc
    BY <1>1, <2>1 DEF CallsQuiet, RoomInv, RoomView
  <2>2. CASE ~UNCHANGED pc
    BY <1>a, <1>1, <1>2, <2>2, QuietFrame DEF RoomInv, RoomView
  <2> QED
    BY <2>1, <2>2
<1> QED
  BY <1>1, <1>3, RoomFrame

-----------------------------------------------------------------------------
\* What a Tick says of a pair is the change it makes.
LEMMA SaidOf ==
  ASSUME NEW k \in Pair
  PROVE  /\ Said(k) # <<>> <=> ~(k \in subscribed' <=> k \in subscribed)
         /\ Said(k) # <<>> => Said(k) = <<k \in subscribed'>>
<1>1. <<TRUE>> # <<>> /\ <<FALSE>> # <<>>
  OBVIOUS
<1>2. CASE k \in subscribed' \ subscribed
  <2>1. Said(k) = <<TRUE>> /\ (k \in subscribed') = TRUE
    BY <1>2, Truth DEF Said
  <2> QED
    BY <1>1, <1>2, <2>1
<1>3. CASE k \in subscribed \ subscribed'
  <2>1. Said(k) = <<FALSE>> /\ (k \in subscribed') = FALSE
    <3>1. Said(k) = <<FALSE>>
      BY <1>3 DEF Said
    <3>2. (k \in subscribed') = FALSE
      BY <1>3, Truth, Zenon
    <3> QED
      BY <3>1, <3>2
  <2> QED
    BY <1>1, <1>3, <2>1
<1>4. CASE k \in subscribed' <=> k \in subscribed
  BY <1>4 DEF Said
<1> QED
  BY <1>2, <1>3, <1>4

LEMMA CollectKept ==
  ASSUME CallTypeOK, NEW w \in Caller, NEW k \in Pair \ crossed', crossed \subseteq Pair,
         PairInv(k), Collect(w), denied[w] # k, UNCHANGED <<subs, stale, denied>>
  PROVE  PairInv(k)'
<1>1. /\ \A v \in Caller \ {w} : changes'[v] = changes[v]
      /\ changes'[w][k] = changes[w][k] \o Said(k)
      /\ Said(k) # <<>> => \A v \in Caller \ {w} : ~Talks(v, k)
  BY DEF Collect, CallTypeOK
<1>2. changes[w][k] \in Seq(BOOLEAN)
  BY DEF CallTypeOK
<1>k. k \in Kept' <=> k \in Kept
  BY DEF Kept
<1>3. CASE Said(k) = <<>>
  <2>1. changes'[w][k] = changes[w][k]
    BY <1>1, <1>2, <1>3
  <2>2. k \in subscribed' <=> k \in subscribed
    BY <1>3, SaidOf
  <2> QED
    BY <1>1, <1>k, <2>1, <2>2, PairFrame
<1>4. CASE Said(k) # <<>>
  <2> DEFINE b == k \in subscribed'
             had == k \in Kept
             t == changes'[w][k]
  <2>1. Said(k) = <<b>> /\ (k \in subscribed <=> ~b)
    BY <1>4, SaidOf
  <2>2. t # <<>> /\ Answers(t, b, had)
    <3>1. CASE changes[w][k] = <<>>
      <4>1. \A v \in Caller : ~Talks(v, k)
        BY <1>1, <1>4, <3>1 DEF Talks
      <4>2. had <=> ~b
        BY <2>1, <4>1 DEF PairInv
      <4>3. t = <<b>>
        BY <1>1, <2>1, <3>1
      <4>4. b \in BOOLEAN /\ had \in BOOLEAN
        OBVIOUS
      <4> HIDE DEF b, had, t
      <4>5. <<b>> # <<>>
        OBVIOUS
      <4> QED
        BY <4>2, <4>3, <4>4, <4>5, AnswersOne
    <3>2. CASE changes[w][k] # <<>>
      <4>1. Answers(changes[w][k], ~b, had)
        <5>1. Answers(changes[w][k], k \in subscribed, had)
          BY <3>2 DEF PairInv
        <5> QED
          BY <2>1, <5>1 DEF Answers
      <4>2. t = Append(changes[w][k], b)
        BY <1>1, <1>2, <2>1
      <4>3. b \in BOOLEAN /\ had \in BOOLEAN /\ (~b) \in BOOLEAN /\ b = ~(~b)
        OBVIOUS
      <4> HIDE DEF b, had, t
      <4>4. Answers(Append(changes[w][k], ~(~b)), ~(~b), had)
        BY <1>2, <3>2, <4>1, <4>3, AnswersAppend
      <4>5. Append(changes[w][k], b) # <<>>
        BY <1>2, <4>3, AppendedNotEmpty, Zenon
      <4> QED
        BY <4>2, <4>3, <4>4, <4>5
    <3> QED
      BY <3>1, <3>2
  <2>3. /\ \A v \in Caller \ {w} : ~Talks(v, k)' /\ changes'[v][k] = <<>> /\ denied'[v] # k
        /\ Talks(w, k)' /\ denied'[w] # k
    BY <1>1, <1>4, <2>2 DEF Talks
  <2> HIDE DEF b, had, t
  <2>4. Answers(changes'[w][k], k \in subscribed', k \in Kept')
    BY <1>k, <2>2 DEF b, had, t, Answers
  <2> QED
    BY <2>3, <2>4 DEF PairInv
<1> QED
  BY <1>3, <1>4

LEMMA TickSteps ==
  ASSUME SceneInv, RoomInv, NEW w \in Caller, Fold(w) \/ End(w)
  PROVE  RoomInv'
<1>a. InterestTypeOK /\ CallTypeOK /\ crossed \subseteq Pair
  BY TypeParts DEF SceneInv, HistoryTypeOK
<1>1. /\ pc[w] = "ticking" /\ Collect(w)
      /\ UNCHANGED <<subs, stale, denied>>
      /\ pc' = [pc EXCEPT ![w] = pc'[w]] /\ pc'[w] \in {"ticking", "apply"}
  BY <1>a DEF Fold, End, roomVars, CallTypeOK
<1>2. (subscribed \subseteq Held)'
  <2>1. CASE Fold(w)
    <3>1. CASE TickFlush(w)
      BY <3>1 DEF TickFlush, aggregateVars, RoomInv, Held
    <3>2. ASSUME NEW k \in Pair, TickApply(w, k) PROVE (subscribed \subseteq Held)'
      <4>1. CASE ApplyLeave(k)
        BY <1>a, <4>1 DEF ApplyLeave, RoomInv, Held, InterestTypeOK
      <4>2. CASE ApplyEnter(k)
        BY <1>a, <4>2 DEF ApplyEnter, RoomInv, Held, InterestTypeOK
      <4> QED
        BY <3>2, <4>1, <4>2 DEF TickApply
    <3> QED
      BY <2>1, <3>1, <3>2 DEF Fold
  <2>2. CASE End(w)
    BY <2>2 DEF End, TickEnd, Waiting, RoomInv, Held
  <2> QED
    BY <2>1, <2>2
<1>3. CallsQuiet'
  BY <1>a, <1>1 DEF RoomInv, CallsQuiet, Collect, CallTypeOK
<1>4. ASSUME NEW k \in Pair \ crossed' PROVE PairInv(k)'
  <2>1. PairInv(k)
    BY <1>1, <1>4 DEF RoomInv, Collect
  <2>2. denied[w] # k
    BY <1>1, NoPairOutside DEF RoomInv, CallsQuiet
  <2> QED
    BY <1>a, <1>1, <2>1, <2>2, CollectKept
<1> QED
  BY <1>2, <1>3, <1>4 DEF RoomInv

-----------------------------------------------------------------------------
\* A change is applied: the room has the pair, or has not, and the rest of the
\* changes lead on from there.
LEMMA AppliedKept ==
  ASSUME CallTypeOK, NEW w \in Caller, NEW l \in Pair, Applied(w, l), changes[w][l] # <<>>,
         \A v \in Caller, k \in Pair : denied'[v] = k <=> denied[v] = k,
         UNCHANGED subscribed,
         \A k \in Pair : k # l => (k \in Kept' <=> k \in Kept),
         l \in Kept' <=> Head(changes[w][l]),
         NEW k \in Pair, PairInv(k)
  PROVE  PairInv(k)'
<1>1. /\ changes'[w][l] = Tail(changes[w][l])
      /\ \A v \in Caller, m \in Pair : v # w \/ m # l => changes'[v][m] = changes[v][m]
      /\ changes[w][l] \in Seq(BOOLEAN)
  BY DEF Applied, CallTypeOK
<1>2. CASE k # l
  BY <1>1, <1>2, PairFrame
<1>3. CASE k = l
  <2> DEFINE s == changes[w][l]
             b == l \in subscribed
             had == l \in Kept
  <2>1. /\ \A v \in Caller : Talks(v, l) => v = w
        /\ denied[w] # l /\ Answers(s, b, had)
    BY <1>3 DEF PairInv, Talks
  <2>2. b \in BOOLEAN /\ had \in BOOLEAN
    BY Truth, Zenon
  <2>3. /\ Head(s) \in BOOLEAN
        /\ Tail(s) = <<>> => Head(s) = b
        /\ Tail(s) # <<>> => Answers(Tail(s), b, Head(s))
    <3> HIDE DEF s, b, had
    <3>1. s \in Seq(BOOLEAN) /\ s # <<>>
      BY <1>1 DEF s
    <3> QED
      BY <2>1, <2>2, <3>1, AnswersTail
  <2>4. /\ \A v \in Caller : v # w => ~Talks(v, l) /\ changes'[v][l] = <<>> /\ denied'[v] # l
        /\ denied'[w] # l
    BY <1>1, <2>1 DEF Talks
  <2>5. \A v \in Caller : Talks(v, l)' => v = w
    BY <2>4 DEF Talks
  <2>6. \A v \in Caller : changes'[v][l] # <<>> =>
          denied'[v] # l /\ Answers(changes'[v][l], l \in subscribed', l \in Kept')
    <3>1. Tail(s) # <<>> => Answers(Tail(s), l \in subscribed', l \in Kept')
      BY <2>3 DEF Answers
    <3> QED
      BY <1>1, <2>4, <3>1
  <2>7. (\A v \in Caller : ~Talks(v, l)') => (l \in Kept' <=> l \in subscribed')
    <3>1. ASSUME \A v \in Caller : ~Talks(v, l)' PROVE Tail(s) = <<>>
      BY <1>1, <3>1 DEF Talks
    <3> QED
      BY <2>3, <3>1
  <2>8. \A v \in Caller : denied'[v] # l
    BY <2>4
  <2> QED
    BY <1>3, <2>5, <2>6, <2>7, <2>8 DEF PairInv
<1> QED
  BY <1>2, <1>3

LEMMA ApplySteps ==
  ASSUME SceneInv, RoomInv, NEW w \in Caller, NEW l \in Pair,
         Subscribe(w, l) \/ Unsubscribe(w, l)
  PROVE  RoomInv'
<1>a. CallTypeOK /\ subs \subseteq Pair
  BY TypeParts DEF SceneInv, WorldTypeOK
<1>1. /\ Applied(w, l) /\ changes[w][l] # <<>> /\ pc[w] = "apply" /\ pc' = pc
      /\ UNCHANGED <<denied, hold, subscribed, crossed>>
  BY DEF Subscribe, Unsubscribe, interestVars, aggregateVars
<1>2. /\ \A k \in Pair : k # l => (k \in Kept' <=> k \in Kept)
      /\ l \in Kept' <=> Head(changes[w][l])
  BY DEF Subscribe, Unsubscribe, Kept
<1>3. (subscribed \subseteq Held)'
  BY <1>1 DEF RoomInv, Held
<1>4. CallsQuiet'
  BY <1>a, <1>1 DEF RoomInv, CallsQuiet, Applied, CallTypeOK
<1>5. ASSUME NEW k \in Pair \ crossed' PROVE PairInv(k)'
  <2>1. PairInv(k)
    BY <1>1, <1>5 DEF RoomInv
  <2> QED
    BY <1>a, <1>1, <1>2, <2>1, AppliedKept
<1> QED
  BY <1>3, <1>4, <1>5 DEF RoomInv

LEMMA RefuseStep ==
  ASSUME SceneInv, RoomInv, NEW w \in Caller, NEW l \in Pair, Refuse(w, l)
  PROVE  RoomInv'
<1>a. CallTypeOK
  BY TypeParts DEF SceneInv
<1>1. /\ changes[w][l] # <<>> /\ Head(changes[w][l]) /\ pc[w] = "apply"
      /\ pc' = [pc EXCEPT ![w] = "denied"] /\ denied' = [denied EXCEPT ![w] = l]
      /\ UNCHANGED <<hold, subscribed, subs, stale>>
      /\ changes'[w][l] = Tail(changes[w][l])
      /\ \A v \in Caller, m \in Pair : v # w \/ m # l => changes'[v][m] = changes[v][m]
      /\ \A v \in Caller : v # w => changes'[v] = changes[v]
      /\ changes[w][l] \in Seq(BOOLEAN)
  BY <1>a DEF Refuse, Applied, CallTypeOK, interestVars, aggregateVars, roomVars
<1>2. (subscribed \subseteq Held)'
  BY <1>1 DEF RoomInv, Held
<1>3. CallsQuiet'
  BY <1>a, <1>1 DEF RoomInv, CallsQuiet, CallTypeOK
<1>q. denied[w] = NoPair
  BY <1>1 DEF RoomInv, CallsQuiet
<1>4. ASSUME NEW k \in Pair \ crossed' PROVE PairInv(k)'
  <2>0. k \notin crossed /\ PairInv(k)
    BY <1>4 DEF Refuse, RoomInv
  <2>1. CASE k # l
    <3>1. \A v \in Caller : denied'[v] = k <=> denied[v] = k
      BY <1>a, <1>1, <1>q, <2>1, NoPairOutside DEF CallTypeOK
    <3>2. \A v \in Caller : changes'[v][k] = changes[v][k]
      BY <1>1, <2>1
    <3> QED
      BY <1>1, <2>0, <3>1, <3>2, PairFrame DEF Kept
  <2>2. CASE k = l
    <3>1. Tail(changes[w][l]) = <<>>
      BY <1>4, <2>2 DEF Refuse
    <3>2. /\ \A v \in Caller : Talks(v, l) => v = w
          /\ Answers(changes[w][l], l \in subscribed, l \in Kept)
      BY <1>1, <2>0, <2>2 DEF PairInv, Talks
    <3>3. l \in subscribed /\ l \notin Kept
      <4> DEFINE s == changes[w][l]
                 b == l \in subscribed
                 had == l \in Kept
      <4>1. b \in BOOLEAN /\ had \in BOOLEAN
        OBVIOUS
      <4>2. Answers(s, b, had) /\ s \in Seq(BOOLEAN) /\ s # <<>> /\ Tail(s) = <<>> /\ Head(s)
        BY <1>1, <3>1, <3>2
      <4>3. b /\ ~had
        <5> HIDE DEF s, b, had
        <5> QED
          BY <4>1, <4>2, AnswersTail
      <4> QED
        BY <4>3
    <3>4. \A v \in Caller : changes'[v][l] = <<>>
      BY <1>1, <3>1, <3>2 DEF Talks
    <3>5. \A v \in Caller : denied'[v] = l <=> v = w
      BY <1>a, <1>1, <3>2 DEF Talks, CallTypeOK
    <3>6. \A v \in Caller : Talks(v, l)' <=> v = w
      BY <3>4, <3>5 DEF Talks
    <3>7. l \in subscribed' /\ l \notin Kept'
      BY <1>1, <3>3 DEF Kept
    <3> QED
      BY <2>2, <3>4, <3>5, <3>6, <3>7 DEF PairInv
  <2> QED
    BY <2>1, <2>2
<1> QED
  BY <1>2, <1>3, <1>4 DEF RoomInv

\* SubscribeFailed: the interest system takes back what the room did not do.
LEMMA ReportStep ==
  ASSUME SceneInv, RoomInv, NEW w \in Caller, ReportRefusal(w)
  PROVE  RoomInv'
<1>a. CallTypeOK
  BY TypeParts DEF SceneInv
<1>1. /\ pc' = [pc EXCEPT ![w] = "apply"] /\ denied' = [denied EXCEPT ![w] = NoPair]
      /\ UNCHANGED <<hold, subs, stale, changes, crossed>>
      /\ pc[w] = "denied"
  BY DEF ReportRefusal, SubscribeFailed, roomVars, historyVars
<1>2. subscribed' = subscribed \ {denied[w]}
  BY DEF ReportRefusal, SubscribeFailed, RoomInv
<1>3. (subscribed \subseteq Held)'
  BY <1>1, <1>2 DEF RoomInv, Held
<1>4. CallsQuiet'
  BY <1>a, <1>1 DEF RoomInv, CallsQuiet, CallTypeOK
<1>5. ASSUME NEW k \in Pair \ crossed' PROVE PairInv(k)'
  <2>0. PairInv(k)
    BY <1>1, <1>5 DEF RoomInv
  <2>1. CASE k # denied[w]
    <3>1. \A v \in Caller : denied'[v] = k <=> denied[v] = k
      BY <1>a, <1>1, <2>1, NoPairOutside DEF CallTypeOK
    <3> QED
      BY <1>1, <1>2, <2>0, <2>1, <3>1, PairFrame DEF Kept
  <2>2. CASE k = denied[w]
    <3>1. /\ \A v \in Caller : Talks(v, k) <=> v = w
          /\ changes[w][k] = <<>> /\ k \notin Kept
      BY <2>0, <2>2 DEF PairInv, Talks
    <3>2. \A v \in Caller : changes'[v][k] = <<>> /\ denied'[v] # k
      BY <1>a, <1>1, <2>2, <3>1, NoPairOutside DEF Talks, CallTypeOK
    <3>3. \A v \in Caller : ~Talks(v, k)'
      BY <3>2 DEF Talks
    <3>4. k \notin subscribed' /\ k \notin Kept'
      BY <1>1, <1>2, <2>2, <3>1 DEF Kept
    <3> QED
      BY <3>2, <3>3, <3>4 DEF PairInv
  <2> QED
    BY <2>1, <2>2
<1> QED
  BY <1>3, <1>4, <1>5 DEF RoomInv

\* RetireSubject and UnregisterSubject: what is dropped and still subscribed
\* crossed; of the rest nobody still has a subscription to make.
LEMMA DropSteps ==
  ASSUME SceneInv, RoomInv, NEW w \in Caller, Retire(w) \/ Unregister(w)
  PROVE  RoomInv'
<1>a. CallTypeOK
  BY TypeParts DEF SceneInv
<1>1. /\ UNCHANGED <<hold, subscribed, changes, denied>>
      /\ pc' = [pc EXCEPT ![w] = pc'[w]] /\ pc[w] \in {"retire", "unregister"}
      /\ pc'[w] # "denied"
  BY <1>a DEF Retire, Unregister, Goto, LeaveDone, Return, interestVars, aggregateVars,
              CallTypeOK
<1>2. CallsQuiet'
  BY <1>a, <1>1, QuietFrame DEF RoomInv
<1>3. (subscribed \subseteq Held)'
  BY <1>1 DEF RoomInv, Held
<1>4. CASE UNCHANGED <<subs, stale, crossed>>
  BY <1>1, <1>2, <1>4, RoomFrame DEF RoomView
<1>5. CASE Dropped(w)
  <2>1. ASSUME NEW k \in Pair \ crossed' PROVE PairInv(k)'
    <3>0. PairInv(k)
      BY <1>5, <2>1 DEF Dropped, RoomInv
    <3>1. CASE k[2] # leaver[w]
      BY <1>1, <1>5, <3>0, <3>1, PairFrame DEF Dropped, Kept
    <3>2. CASE k[2] = leaver[w]
      <4>1. k \notin subscribed /\ k \notin Kept'
        BY <1>5, <2>1, <3>2 DEF Dropped, Kept
      <4>2. \A v \in Caller : Talks(v, k)' <=> Talks(v, k)
        BY <1>1 DEF Talks
      <4>3. \A u, v \in Caller : Talks(u, k)' /\ Talks(v, k)' => u = v
        BY <3>0, <4>2 DEF PairInv
      <4>4. ASSUME NEW v \in Caller, changes'[v][k] # <<>>
            PROVE  denied'[v] # k /\ Answers(changes'[v][k], k \in subscribed', k \in Kept')
        <5>1. denied[v] # k /\ Answers(changes[v][k], k \in subscribed, k \in Kept)
          BY <1>1, <3>0, <4>4 DEF PairInv
        <5> QED
          BY <1>1, <4>1, <5>1 DEF Answers
      <4>5. \A v \in Caller : denied'[v] # k
        BY <1>1, <3>0, <4>1 DEF PairInv
      <4>6. k \in Kept' <=> k \in subscribed'
        BY <1>1, <4>1
      <4> QED
        BY <4>3, <4>4, <4>5, <4>6 DEF PairInv
    <3> QED
      BY <3>1, <3>2
  <2> QED
    BY <1>2, <1>3, <2>1 DEF RoomInv
<1> QED
  BY <1>4, <1>5 DEF Retire, Unregister

LEMMA RoomInit == Init => RoomInv
<1> SUFFICES ASSUME Init PROVE RoomInv
  OBVIOUS
<1>1. \A w \in Caller, k \in Pair : changes[w][k] = <<>> /\ denied[w] # k
  BY NoPairOutside DEF Init, Quiet
<1>2. \A w \in Caller, k \in Pair : ~Talks(w, k)
  BY <1>1 DEF Talks
<1>3. subscribed = {} /\ Kept = {} /\ CallsQuiet
  BY DEF Init, InterestInit, Kept, CallsQuiet
<1> QED
  BY <1>1, <1>2, <1>3 DEF RoomInv, PairInv

LEMMA RoomNext == SceneInv /\ RoomInv /\ [Next]_vars => RoomInv'
<1> SUFFICES ASSUME SceneInv, RoomInv, [Next]_vars PROVE RoomInv'
  OBVIOUS
<1>1. ASSUME NEW w \in Caller, Start(w) \/ \E p \in Player : Closed(w, p) PROVE RoomInv'
  BY <1>1, SilentSteps
<1>2. ASSUME NEW w \in Caller, Step(w) PROVE RoomInv'
  <2>1. ASSUME NEW k \in Pair, Subscribe(w, k) \/ Refuse(w, k) \/ Unsubscribe(w, k)
        PROVE  RoomInv'
    BY <2>1, ApplySteps, RefuseStep
  <2> QED
    BY <1>2, <2>1, SilentSteps, TickSteps, ReportStep, DropSteps DEF Step, Work
<1>3. ASSUME UNCHANGED <<pc, RoomView>> PROVE RoomInv'
  <2>1. UNCHANGED <<pc, changes, denied>>
    BY <1>3 DEF RoomView
  <2> QED
    BY <1>3, <2>1, RoomFrame DEF RoomInv, CallsQuiet
<1>4. ASSUME (\E p \in Player : Disconnect(p)) \/ UNCHANGED vars PROVE RoomInv'
  BY <1>3, <1>4 DEF Disconnect, vars, RoomView, callVars, historyVars, roomVars, interestVars,
                    aggregateVars
<1> QED
  BY <1>1, <1>2, <1>4 DEF Next

LEMMA RestAgrees == RoomInv => RoomAgrees
<1> SUFFICES ASSUME RoomInv, AtRest, NEW k \in Pair \ crossed
             PROVE  k \in subs \ stale <=> k \in subscribed
  BY DEF RoomAgrees
<1>1. ASSUME NEW w \in Caller PROVE ~Talks(w, k)
  <2>1. changes[w] = Quiet /\ denied[w] = NoPair
    BY DEF RoomInv, CallsQuiet, AtRest
  <2> QED
    BY <2>1, NoPairOutside DEF Talks, Quiet
<1> QED
  BY <1>1 DEF RoomInv, PairInv, Kept

-----------------------------------------------------------------------------
(***************************************************************************)
(* Whoever is online is in the scene, whoever calls.                       *)
(***************************************************************************)

\* What a call is about.
LeaverInv ==
  \A w \in Caller :
    /\ job[w] = "join" => who[w] \in online
    /\ job[w] = "move" => who[w] \in Player
    /\ job[w] = "show" => who[w] \in Monster
    /\ job[w] = "hide" => leaver[w] \in Monster
    /\ pc[w] \in {"sweep", "member", "enter"} => job[w] = "join"
    /\ pc[w] = "register" => job[w] \in {"join", "show"}
    /\ pc[w] = "move" => job[w] = "move"
    /\ pc[w] = "show" => job[w] = "show"
    /\ pc[w] \in {"unmember", "leave"} => leaver[w] \in Player
    /\ pc[w] = "hide" => job[w] = "hide"
    /\ pc[w] \in {"rest", "sweep", "register", "member", "enter"} => leaver[w] = Nowhere
    /\ leaver[w] \in Player \cap online => leaver[w] \in late

IndexInv ==
  \A p \in Player :
    /\ subjectAt[p] # Nowhere <=> observerAt[p] # Nowhere
    /\ observerAt[p] # Nowhere => <<p, p>> \in related["self"]

Present(p) == p \in members /\ observerAt[p] # Nowhere

\* The Join of p by w has not entered p yet.
Joining(w, p) ==
  /\ job[w] = "join" /\ who[w] = p
  /\ leaver[w] # Nowhere \/ pc[w] \in {"sweep", "register", "member", "enter"}

PresentInv ==
  /\ \A w \in Caller : pc[w] = "enter" => who[w] \in members \cup late
  /\ \A p \in online \ (unjoined \cup late) :
       Present(p) \/ \E w \in Caller : Joining(w, p)

\* Whoever said "I see myself", or took it back, has yet to Tick.
PendInv ==
  /\ \A w \in Caller : mu = w <=> pc[w] = "ticking"
  /\ \/ pending["self"] = Quiet
     \/ \E w \in Caller :
          pc[w] = "tick" \/ (mu = w /\ stage = "spatial")

PeopleInv == LeaverInv /\ IndexInv /\ PresentInv /\ PendInv

LEMMA LeaverNext ==
  ASSUME SceneInv, LeaverInv, [Next]_vars
  PROVE  LeaverInv'
<1>a. CallTypeOK /\ WorldTypeOK /\ Player \cap Monster = {} /\ Nowhere \notin Id
  BY TypeParts, InterestAssumption DEF SceneInv
<1> USE DEF Id
<1>1. ASSUME NEW p \in Player, Disconnect(p) PROVE LeaverInv'
  BY <1>1 DEF Disconnect, Handling, LeaverInv, callVars
<1>2. ASSUME NEW w \in Caller, NEW p \in Player, Login(w, p) PROVE LeaverInv'
  BY <1>a, <1>2 DEF Login, StartJoin, Call, LeaverInv, CallTypeOK
<1>3. ASSUME NEW w \in Caller, Other(w) PROVE LeaverInv'
  <2> USE DEF sessionVars
  <2>1. ASSUME NEW p \in Player, StartMove(w, p) PROVE LeaverInv'
    BY <1>a, <2>1 DEF StartMove, Call, LeaverInv, CallTypeOK
  <2>4. ASSUME NEW p \in Player, PushFails(w, p) PROVE LeaverInv'
    BY <1>a, <2>4 DEF PushFails, Call, LeaverInv, CallTypeOK
  <2>2. ASSUME NEW p \in Player, NEW q \in Player, StartTeam(w, {p, q}) PROVE LeaverInv'
    BY <1>a, <2>2 DEF StartTeam, Call, LeaverInv, CallTypeOK
  <2>3. ASSUME NEW m \in Monster, StartShow(w, m) PROVE LeaverInv'
    BY <1>a, <2>3 DEF StartShow, Call, LeaverInv, CallTypeOK
  <2>5. ASSUME NEW m \in Monster, StartHide(w, m) PROVE LeaverInv'
    BY <1>a, <2>5 DEF StartHide, Call, LeaverInv, CallTypeOK
  <2> QED
    BY <1>3, <2>1, <2>2, <2>3, <2>4, <2>5 DEF Other
<1>4. ASSUME NEW w \in Caller, NEW p \in Player, Closed(w, p) PROVE LeaverInv'
  BY <1>a, <1>4 DEF Closed, Call, LeaverInv, CallTypeOK, callVars
<1>5. ASSUME NEW w \in Caller, Work(w) PROVE LeaverInv'
  <2>0. UNCHANGED <<online, late>>
    BY <1>5 DEF Work, SweepDone, Register, AddMember, EnterScene, MoveScene, ShowScene, Unmember,
        LeaveScene, HideScene, Retire, Unregister, Begin, Fold, End, ReportRefusal, ApplyDone,
        Sweep, TeamScene, Subscribe, Refuse, Unsubscribe, sessionVars
  <2>1. CASE SweepDone(w) \/ AddMember(w) \/ LeaveScene(w) \/ HideScene(w) \/ Begin(w)
             \/ Retire(w)
    BY <1>a, <2>0, <2>1 DEF SweepDone, AddMember, LeaveScene, HideScene, Begin, Retire, Goto,
        LeaverInv, CallTypeOK
  <2>2. CASE Register(w)
    BY <1>a, <2>0, <2>2 DEF Register, Goto, Return, LeaverInv, CallTypeOK
  <2>3. CASE EnterScene(w) \/ MoveScene(w) \/ ShowScene(w)
    BY <1>a, <2>0, <2>3 DEF EnterScene, MoveScene, ShowScene, Goto, Return, LeaverInv, CallTypeOK
  <2>4. CASE Unmember(w) \/ Unregister(w)
    BY <1>a, <2>0, <2>4 DEF Unmember, Unregister, LeaveDone, Goto, Return, LeaverInv, CallTypeOK
  <2>5. CASE ApplyDone(w)
    BY <1>a, <2>0, <2>5 DEF ApplyDone, Goto, Return, LeaverInv, CallTypeOK
  <2>6. CASE Fold(w) \/ End(w) \/ ReportRefusal(w)
    BY <1>a, <2>0, <2>6 DEF Fold, End, ReportRefusal, LeaverInv, CallTypeOK
  <2>7. ASSUME NEW p \in Player, Sweep(w, p) PROVE LeaverInv'
    <3>1. CASE p \in online
      BY <1>a, <2>0, <2>7, <3>1 DEF Sweep, LeaverInv, CallTypeOK
    <3>2. CASE p \notin online
      BY <1>a, <2>0, <2>7, <3>2 DEF Sweep, LeaverInv, CallTypeOK
    <3> QED
      BY <3>1, <3>2
  <2>9. ASSUME NEW p \in Player, TeamScene(w, p) PROVE LeaverInv'
    <3>1. /\ pc[w] = "team" /\ pc' = [pc EXCEPT ![w] = pc'[w]] /\ pc'[w] \in {"team", "tick"}
          /\ UNCHANGED <<job, who, leaver>>
      BY <1>a, <2>9 DEF TeamScene, CallTypeOK
    <3> QED
      BY <1>a, <2>0, <3>1 DEF LeaverInv, CallTypeOK
  <2>8. ASSUME NEW k \in Pair, Subscribe(w, k) \/ Refuse(w, k) \/ Unsubscribe(w, k)
        PROVE  LeaverInv'
    BY <1>a, <2>0, <2>8 DEF Subscribe, Refuse, Unsubscribe, LeaverInv, CallTypeOK
  <2> QED
    BY <1>5, <2>1, <2>2, <2>3, <2>4, <2>5, <2>6, <2>7, <2>8, <2>9 DEF Work
<1>6. CASE UNCHANGED vars
  BY <1>6 DEF vars, callVars, sessionVars, LeaverInv
<1> QED
  BY <1>1, <1>2, <1>3, <1>4, <1>5, <1>6 DEF Next, Start, Step

\* The calls that change the index or the relations; all others leave them.
IndexStep(w) ==
  \/ EnterScene(w) \/ MoveScene(w) \/ ShowScene(w) \/ LeaveScene(w) \/ HideScene(w)
  \/ \E p \in Player : TeamScene(w, p)

LEMMA IndexSteps ==
  ASSUME SceneInv, LeaverInv, IndexInv, NEW w \in Caller, IndexStep(w)
  PROVE  IndexInv'
<1>a. InterestTypeOK /\ CallTypeOK /\ JoinOK
  BY TypeParts DEF SceneInv
<1>1. CASE EnterScene(w)
  <2>1. PICK at \in Position : Enter(who[w], at)
    BY <1>1 DEF EnterScene
  <2>2. who[w] \in Player /\ at # Nowhere
    BY <1>a, <1>1, InterestAssumption DEF EnterScene, JoinOK
  <2>3. who[w] \in Id
    BY <2>2 DEF Id
  <2>4. CASE Refused(who[w])
    <3>1. UNCHANGED <<subjectAt, observerAt, related>>
      BY <2>1, <2>2, <2>3, <2>4 DEF Enter, Refused, IndexInv, indexVars, sourceVars
    <3> QED
      BY <3>1 DEF IndexInv
  <2>5. CASE ~Refused(who[w])
    <3>1. /\ subjectAt' = [subjectAt EXCEPT ![who[w]] = at]
          /\ observerAt' = [observerAt EXCEPT ![who[w]] = at]
          /\ Set("self", who[w], {who[w]})
      BY <2>1, <2>5 DEF Enter, Refused
    <3>2. related'["self"] =
            (related["self"] \ From("self", who[w])) \cup ({who[w]} \X {who[w]})
      BY <1>a, <3>1 DEF Set, Relate, InterestTypeOK, Relation
    <3>3. \A p \in Player : p # who[w] =>
            (<<p, p>> \in related["self"] => <<p, p>> \in related'["self"])
      BY <3>2 DEF From
    <3>4. <<who[w], who[w]>> \in related'["self"]
      BY <3>2
    <3>5. \A p \in Player : p \in Id
      BY DEF Id
    <3> QED
      BY <1>a, <2>2, <2>3, <3>1, <3>3, <3>4, <3>5 DEF IndexInv, InterestTypeOK
  <2> QED
    BY <2>4, <2>5
<1>2. CASE MoveScene(w)
  <2>1. PICK to \in Position : Move(who[w], to)
    BY <1>2 DEF MoveScene
  <2>2. who[w] \in Player /\ to # Nowhere
    BY <1>2, InterestAssumption DEF MoveScene, LeaverInv
  <2> QED
    BY <1>a, <2>1, <2>2 DEF Move, IndexInv, InterestTypeOK, Id, indexVars, sourceVars
<1>3. CASE ShowScene(w)
  <2>1. PICK at \in Position : Show(who[w], at)
    BY <1>3 DEF ShowScene
  <2>2. who[w] \in Monster /\ who[w] \notin Player
    BY <1>3, InterestAssumption DEF ShowScene, LeaverInv
  <2> QED
    BY <1>a, <2>1, <2>2 DEF Show, IndexInv, InterestTypeOK, Id, sourceVars
<1>4. CASE LeaveScene(w)
  <2>1. leaver[w] \in Player /\ Leave(leaver[w])
    BY <1>4 DEF LeaveScene, LeaverInv
  <2>2. related'["self"] = related["self"] \ From("self", leaver[w])
    BY <2>1 DEF Leave, Relation
  <2> QED
    BY <1>a, <2>1, <2>2 DEF Leave, From, IndexInv, InterestTypeOK, Id
<1>5. CASE HideScene(w)
  <2>1. leaver[w] \in Monster /\ leaver[w] \notin Player /\ Hide(leaver[w])
    BY <1>5, InterestAssumption DEF HideScene, LeaverInv
  <2> QED
    BY <1>a, <2>1 DEF Hide, Relate, IndexInv, InterestTypeOK, Id, Relation
<1>6. ASSUME NEW p \in Player, TeamScene(w, p) PROVE IndexInv'
  <2>1. related'["self"] = related["self"] /\ UNCHANGED indexVars
    BY <1>a, <1>6 DEF TeamScene, SetTeamOf, Set, Relate, InterestTypeOK, Relation
  <2> QED
    BY <2>1 DEF IndexInv, indexVars
<1> QED
  BY <1>1, <1>2, <1>3, <1>4, <1>5, <1>6 DEF IndexStep

\* Nothing but these steps changes the index or the relations.
LEMMA IndexAlone ==
  ASSUME [Next]_vars, \A w \in Caller : ~IndexStep(w)
  PROVE  UNCHANGED <<subjectAt, observerAt, related>>
<1>1. ASSUME UNCHANGED interestVars PROVE UNCHANGED <<subjectAt, observerAt, related>>
  BY <1>1 DEF interestVars, indexVars, sourceVars
<1>2. ASSUME NEW w \in Caller, Work(w) PROVE UNCHANGED <<subjectAt, observerAt, related>>
  BY <1>1, <1>2
  DEF Work, IndexStep, SweepDone, Register, AddMember, Unmember, Retire, Unregister, Begin,
      Fold, End, ReportRefusal, ApplyDone, Sweep, Subscribe, Refuse, Unsubscribe, TickBegin,
      TickFlush, TickApply, TickEnd, SubscribeFailed, indexVars, sourceVars
<1> QED
  BY <1>1, <1>2
  DEF Next, Start, Step, Login, Other, StartJoin, StartMove, PushFails, StartTeam, StartShow,
      StartHide, Closed, Disconnect, vars

LEMMA IndexNext ==
  ASSUME SceneInv, LeaverInv, IndexInv, [Next]_vars
  PROVE  IndexInv'
<1>1. CASE \A w \in Caller : ~IndexStep(w)
  BY <1>1, IndexAlone DEF IndexInv
<1>2. CASE \E w \in Caller : IndexStep(w)
  BY <1>2, IndexSteps
<1> QED
  BY <1>1, <1>2

-----------------------------------------------------------------------------
LEMMA PresentFrame ==
  ASSUME PresentInv, UNCHANGED <<online, unjoined, late>>,
         NEW w \in Caller,
         \A v \in Caller \ {w} :
           pc'[v] = pc[v] /\ job'[v] = job[v] /\ who'[v] = who[v] /\ leaver'[v] = leaver[v],
         \A p \in online \ late : Present(p) => Present(p)',
         \A p \in online \ late : Joining(w, p) => Joining(w, p)' \/ Present(p)' \/ p \in unjoined,
         \A v \in Caller : pc'[v] = "enter" => who'[v] \in members' \cup late
  PROVE  PresentInv'
<1>1. ASSUME NEW p \in online' \ (unjoined' \cup late')
      PROVE  Present(p)' \/ \E v \in Caller : Joining(v, p)'
  <2>1. p \in online \ (unjoined \cup late)
    BY <1>1
  <2>2. CASE Present(p)
    BY <2>1, <2>2
  <2>3. ASSUME NEW v \in Caller, Joining(v, p)
        PROVE  Present(p)' \/ \E u \in Caller : Joining(u, p)'
    <3>1. CASE v = w
      BY <2>1, <2>3, <3>1
    <3>2. CASE v # w
      BY <2>3, <3>2 DEF Joining
    <3> QED
      BY <3>1, <3>2
  <2> QED
    BY <2>1, <2>2, <2>3 DEF PresentInv
<1> QED
  BY <1>1 DEF PresentInv

LEMMA PresentStarts ==
  ASSUME SceneInv, LeaverInv, PresentInv, NEW w \in Caller,
         Start(w) \/ \E p \in Player : Closed(w, p)
  PROVE  PresentInv'
<1>a. CallTypeOK
  BY TypeParts DEF SceneInv
<1>b. UNCHANGED <<members, observerAt>>
  BY DEF Start, Login, Other, StartJoin, StartMove, PushFails, StartTeam, StartShow, StartHide,
         Closed, interestVars, indexVars
<1>1. ASSUME NEW p \in Player, Login(w, p) PROVE PresentInv'
  <2>1. /\ pc[w] = "rest" /\ p \notin online /\ online' = online \cup {p}
        /\ pc' = [pc EXCEPT ![w] = "sweep"] /\ job' = [job EXCEPT ![w] = "join"]
        /\ who' = [who EXCEPT ![w] = p] /\ leaver' = leaver
        /\ \A q \in Player : q # p => (q \in late' <=> q \in late)
        /\ unjoined' = unjoined \ {p}
    BY <1>1 DEF Login, StartJoin, Call
  <2>2. Joining(w, p)'
    BY <1>a, <2>1 DEF Joining, CallTypeOK
  <2>3. \A v \in Caller, q \in Player : Joining(v, q) => Joining(v, q)'
    <3>1. \A q : ~Joining(w, q)
      BY <2>1 DEF Joining, LeaverInv
    <3>2. \A v \in Caller : v # w =>
            pc'[v] = pc[v] /\ job'[v] = job[v] /\ who'[v] = who[v] /\ leaver'[v] = leaver[v]
      BY <1>a, <2>1 DEF CallTypeOK
    <3> QED
      BY <3>1, <3>2 DEF Joining
  <2>4. \A v \in Caller : pc'[v] = "enter" => who'[v] \in members' \cup late'
    <3>1. ASSUME NEW v \in Caller, pc'[v] = "enter" PROVE who'[v] \in members' \cup late'
      <4>1. v # w /\ pc[v] = "enter" /\ who'[v] = who[v]
        BY <1>a, <2>1, <3>1 DEF CallTypeOK
      <4>2. who[v] \in online /\ who[v] # p /\ who[v] \in Player
        BY <1>a, <2>1, <4>1, TypeParts DEF LeaverInv, SceneInv, WorldTypeOK
      <4> QED
        BY <1>b, <2>1, <4>1, <4>2 DEF PresentInv
    <3> QED
      BY <3>1
  <2>5. ASSUME NEW q \in online' \ (unjoined' \cup late')
        PROVE  Present(q)' \/ \E v \in Caller : Joining(v, q)'
    <3>1. CASE q = p
      BY <2>2, <3>1
    <3>2. CASE q # p
      <4>1. q \in Player /\ q \in online \ (unjoined \cup late)
        BY <2>1, <2>5, <3>2, TypeParts DEF SceneInv, WorldTypeOK
      <4> QED
        BY <1>b, <2>3, <4>1 DEF PresentInv, Present
    <3> QED
      BY <3>1, <3>2
  <2> QED
    BY <2>4, <2>5 DEF PresentInv
<1>2. ASSUME Other(w) \/ \E p \in Player : Closed(w, p) PROVE PresentInv'
  <2>1. /\ UNCHANGED <<online, late, unjoined>>
        /\ \A v \in Caller \ {w} :
             pc'[v] = pc[v] /\ job'[v] = job[v] /\ who'[v] = who[v] /\ leaver'[v] = leaver[v]
        /\ pc[w] = "rest" \/ UNCHANGED callVars
    BY <1>a, <1>2 DEF Other, StartMove, PushFails, StartTeam, StartShow, StartHide, Closed, Call,
         sessionVars, historyVars, callVars, CallTypeOK
  <2>2. CASE UNCHANGED callVars
    BY <1>b, <2>1, <2>2 DEF callVars, PresentInv, Present, Joining
  <2>3. CASE pc[w] = "rest" /\ ~UNCHANGED callVars
    <3>1. \A p : ~Joining(w, p)
      BY <2>3 DEF Joining, LeaverInv
    <3>2. pc'[w] # "enter"
      BY <1>a, <1>2, <2>3 DEF Other, StartMove, PushFails, StartTeam, StartShow, StartHide, Closed,
           Call, CallTypeOK
    <3>3. \A v \in Caller : pc'[v] = "enter" => who'[v] \in members' \cup late
      BY <1>b, <2>1, <3>2 DEF PresentInv
    <3>4. \A p \in online \ late : Present(p) => Present(p)'
      BY <1>b DEF Present
    <3> QED
      BY <2>1, <3>1, <3>3, <3>4, PresentFrame
  <2> QED
    BY <2>1, <2>2, <2>3
<1> QED
  BY <1>1, <1>2 DEF Start

LEMMA PresentSteps ==
  ASSUME SceneInv, LeaverInv, IndexInv, PresentInv, NEW w \in Caller, Work(w)
  PROVE  PresentInv'
<1>a. CallTypeOK /\ InterestTypeOK /\ online \subseteq Player /\ Nowhere \notin Player
  BY TypeParts, InterestAssumption DEF SceneInv, WorldTypeOK, Id
<1>b. UNCHANGED <<online, late>>
  BY DEF Work, SweepDone, Register, AddMember, EnterScene, MoveScene, ShowScene, Unmember,
      LeaveScene, HideScene, Retire, Unregister, Begin, Fold, End, ReportRefusal, ApplyDone,
      Sweep, TeamScene, Subscribe, Refuse, Unsubscribe, sessionVars
<1>c. \A v \in Caller \ {w} :
        pc'[v] = pc[v] /\ job'[v] = job[v] /\ who'[v] = who[v] /\ leaver'[v] = leaver[v]
  BY <1>a DEF Work, SweepDone, Register, AddMember, EnterScene, MoveScene, ShowScene, Unmember,
      LeaveScene, HideScene, Retire, Unregister, Begin, Fold, End, ReportRefusal, ApplyDone,
      Sweep, TeamScene, Subscribe, Refuse, Unsubscribe, Goto, Return, LeaveDone, CallTypeOK
<1>d. \A p \in online \ late : leaver[w] # p
  BY <1>a DEF LeaverInv
<1>1. CASE Register(w)
  <2>0. UNCHANGED <<members, observerAt>>
    BY <1>1 DEF Register, interestVars, indexVars
  <2>1. pc'[w] # "enter"
    BY <1>a, <1>1 DEF Register, Goto, Return, CallTypeOK
  <2>2. \A v \in Caller : pc'[v] = "enter" => who'[v] \in members' \cup late
    BY <1>c, <2>0, <2>1 DEF PresentInv
  <2>3. CASE Return(w) /\ unjoined' = unjoined \cup ({who[w]} \cap Player)
    <3>1. ASSUME NEW p \in online' \ (unjoined' \cup late')
          PROVE  Present(p)' \/ \E v \in Caller : Joining(v, p)'
      <4>1. p \in online \ (unjoined \cup late) /\ who[w] # p
        BY <1>a, <1>b, <2>3, <3>1
      <4>2. CASE Present(p)
        BY <2>0, <4>2 DEF Present
      <4>3. ASSUME NEW v \in Caller, Joining(v, p) PROVE Joining(v, p)'
        <5>1. v # w
          BY <4>1, <4>3 DEF Joining
        <5> QED
          BY <1>c, <4>3, <5>1 DEF Joining
      <4> QED
        BY <4>1, <4>2, <4>3 DEF PresentInv
    <3> QED
      BY <1>b, <2>2, <3>1 DEF PresentInv
  <2>4. CASE Goto(w, IF job[w] = "join" THEN "member" ELSE "show") /\ UNCHANGED unjoined
    <3>1. \A p : Joining(w, p) => Joining(w, p)'
      BY <1>a, <1>1, <2>4 DEF Register, Goto, Joining, CallTypeOK
    <3>2. \A p \in online \ late : Present(p) => Present(p)'
      BY <2>0 DEF Present
    <3> QED
      BY <1>b, <1>c, <2>2, <2>4, <3>1, <3>2, PresentFrame
  <2> QED
    BY <1>1, <2>3, <2>4 DEF Register
<1>2. CASE EnterScene(w)
  <2>1. PICK at \in Position : Enter(who[w], at)
    BY <1>2 DEF EnterScene
  <2>2. /\ pc[w] = "enter" /\ who[w] \in Player /\ at # Nowhere
        /\ who[w] \in members \cup late /\ leaver[w] = Nowhere
        /\ UNCHANGED <<members, unjoined>>
    BY <1>a, <1>2, InterestAssumption
    DEF EnterScene, PresentInv, LeaverInv, historyVars
  <2>3. \A p \in Player : p # who[w] => observerAt'[p] = observerAt[p]
    BY <1>a, <2>1, <2>2 DEF Enter, indexVars, InterestTypeOK
  <2>4. observerAt'[who[w]] # Nowhere
    BY <1>a, <2>1, <2>2 DEF Enter, indexVars, InterestTypeOK, IndexInv
  <2>5. \A p \in online \ late : Present(p) => Present(p)'
    BY <1>a, <2>2, <2>3, <2>4 DEF Present
  <2>6. \A p \in online \ late : Joining(w, p) => Present(p)'
    BY <2>2, <2>4 DEF Joining, Present
  <2>7. \A v \in Caller : pc'[v] = "enter" => who'[v] \in members' \cup late
    BY <1>a, <1>2, <1>c, <2>2 DEF EnterScene, PresentInv, Goto, Return, CallTypeOK
  <2> QED
    BY <1>b, <1>c, <2>2, <2>5, <2>6, <2>7, PresentFrame
<1>3. CASE ~Register(w) /\ ~EnterScene(w)
  <2>1. UNCHANGED unjoined
    BY <1>3 DEF Work, SweepDone, AddMember, MoveScene, ShowScene, Unmember, LeaveScene, HideScene,
        Retire, Unregister, Begin, Fold, End, ReportRefusal, ApplyDone, Sweep, TeamScene,
        Subscribe, Refuse, Unsubscribe, historyVars
  <2>2. \A p \in online \ late : p \in members => p \in members'
    BY <1>3, <1>d DEF Work, SweepDone, AddMember, MoveScene, ShowScene, Unmember, LeaveScene,
        HideScene, Retire, Unregister, Begin, Fold, End, ReportRefusal, ApplyDone, Sweep,
        TeamScene, Subscribe, Refuse, Unsubscribe
  <2>3. \A p \in online \ late : observerAt[p] # Nowhere => observerAt'[p] # Nowhere
    <3>1. CASE UNCHANGED observerAt
      BY <3>1
    <3>2. CASE LeaveScene(w)
      BY <1>a, <1>d, <3>2 DEF LeaveScene, Leave, InterestTypeOK
    <3>3. CASE MoveScene(w)
      <4>1. PICK to \in Position : Move(who[w], to)
        BY <3>3 DEF MoveScene
      <4>2. to # Nowhere
        BY InterestAssumption
      <4> QED
        BY <1>a, <4>1, <4>2 DEF Move, InterestTypeOK, indexVars
    <3> QED
      BY <1>3, <3>1, <3>2, <3>3 DEF Work, SweepDone, AddMember, ShowScene, Unmember, HideScene,
        Retire, Unregister, Begin, Fold, End, ReportRefusal, ApplyDone, Sweep, TeamScene,
        Subscribe, Refuse, Unsubscribe, Show, Hide, SetTeamOf, TickBegin, TickFlush, TickApply,
        TickEnd, SubscribeFailed, interestVars, indexVars
  <2>4. \A p \in online \ late : Present(p) => Present(p)'
    BY <2>2, <2>3 DEF Present
  <2>5. \A p \in online \ late : Joining(w, p) => Joining(w, p)'
    <3>1. CASE SweepDone(w) \/ AddMember(w) \/ LeaveScene(w) \/ HideScene(w) \/ Begin(w)
               \/ Retire(w)
      BY <1>a, <3>1 DEF SweepDone, AddMember, LeaveScene, HideScene, Begin, Retire, Goto, Joining,
          CallTypeOK
    <3>2. CASE MoveScene(w) \/ ShowScene(w)
      BY <3>2 DEF MoveScene, ShowScene, LeaverInv, Joining
    <3>3. CASE Unmember(w) \/ Unregister(w)
      BY <1>a, <3>3 DEF Unmember, Unregister, LeaveDone, Goto, Joining, CallTypeOK, LeaverInv
    <3>4. CASE ApplyDone(w)
      BY <1>a, <3>4 DEF ApplyDone, Goto, Joining, CallTypeOK
    <3>5. CASE Fold(w) \/ End(w) \/ ReportRefusal(w)
      BY <1>a, <3>5 DEF Fold, End, ReportRefusal, Joining, CallTypeOK
    <3>6. ASSUME NEW q \in Player, Sweep(w, q) PROVE \A p : Joining(w, p) => Joining(w, p)'
      BY <1>a, <3>6 DEF Sweep, Joining, CallTypeOK
    <3>7. ASSUME NEW q \in Player, TeamScene(w, q) PROVE \A p : Joining(w, p) => Joining(w, p)'
      BY <1>a, <3>7 DEF TeamScene, Joining, CallTypeOK
    <3>8. ASSUME NEW k \in Pair, Subscribe(w, k) \/ Refuse(w, k) \/ Unsubscribe(w, k)
          PROVE  \A p : Joining(w, p) => Joining(w, p)'
      BY <1>a, <3>8 DEF Subscribe, Refuse, Unsubscribe, Joining, CallTypeOK
    <3> QED
      BY <1>3, <3>1, <3>2, <3>3, <3>4, <3>5, <3>6, <3>7, <3>8 DEF Work
  <2>6. ASSUME NEW v \in Caller, pc'[v] = "enter" PROVE who'[v] \in members' \cup late
    <3>1. CASE v # w
      <4>1. who'[v] = who[v] /\ who[v] \in members \cup late /\ who[v] \in online
        BY <1>c, <2>6, <3>1 DEF PresentInv, LeaverInv
      <4> QED
        BY <2>2, <4>1
    <3>2. CASE v = w
      <4>1. AddMember(w)
        BY <1>3, <1>a, <2>6, <3>2
        DEF Work, SweepDone, MoveScene, ShowScene, Unmember, LeaveScene, HideScene, Retire,
            Unregister, Begin, Fold, End, ReportRefusal, ApplyDone, Sweep, TeamScene, Subscribe,
            Refuse, Unsubscribe, Goto, Return, LeaveDone, CallTypeOK
      <4> QED
        BY <1>a, <3>2, <4>1 DEF AddMember, Goto
    <3> QED
      BY <3>1, <3>2
  <2> QED
    BY <1>b, <1>c, <2>1, <2>4, <2>5, <2>6, PresentFrame
<1> QED
  BY <1>1, <1>2, <1>3

LEMMA PresentNext ==
  ASSUME SceneInv, LeaverInv, IndexInv, PresentInv, [Next]_vars
  PROVE  PresentInv'
<1>1. ASSUME NEW p \in Player, Disconnect(p) PROVE PresentInv'
  <2>1. /\ online' \subseteq online
        /\ UNCHANGED <<late, unjoined, members, observerAt, pc, job, who, leaver>>
    BY <1>1 DEF Disconnect, callVars, interestVars, indexVars
  <2> QED
    BY <2>1 DEF PresentInv, Present, Joining
<1>2. CASE UNCHANGED vars
  <2>1. UNCHANGED <<online, late, unjoined, members, observerAt, pc, job, who, leaver>>
    BY <1>2 DEF vars, callVars, interestVars, indexVars, sessionVars, historyVars
  <2> QED
    BY <2>1 DEF PresentInv, Present, Joining
<1> QED
  BY <1>1, <1>2, PresentStarts, PresentSteps DEF Next, Step

-----------------------------------------------------------------------------
\* The steps that leave "I see myself" and the Tick under way alone.
LEMMA PendFrame ==
  ASSUME PendInv, CallTypeOK, NEW w \in Caller, UNCHANGED <<mu, stage>>,
         pending'["self"] = pending["self"],
         pc' = [pc EXCEPT ![w] = pc'[w]] \/ UNCHANGED pc,
         pc[w] # "tick" \/ UNCHANGED pc,
         pc[w] = "ticking" <=> pc'[w] = "ticking"
  PROVE  PendInv'
BY DEF PendInv, CallTypeOK

LEMMA PendTold ==
  ASSUME PendInv, CallTypeOK, NEW w \in Caller, UNCHANGED <<mu, stage>>,
         pc' = [pc EXCEPT ![w] = "tick"], pc[w] # "ticking"
  PROVE  PendInv'
BY DEF PendInv, CallTypeOK

LEMMA PendNext ==
  ASSUME SceneInv, PendInv, [Next]_vars
  PROVE  PendInv'
<1>a. InterestTypeOK /\ CallTypeOK
  BY TypeParts DEF SceneInv
<1>1. ASSUME NEW w \in Caller, Start(w) \/ \E p \in Player : Closed(w, p) PROVE PendInv'
  <2>1. UNCHANGED <<mu, stage, pending>>
    BY <1>1 DEF Start, Login, Other, StartJoin, StartMove, PushFails, StartTeam, StartShow,
        StartHide, Closed, interestVars, tickVars, sourceVars
  <2>2. \/ pc[w] = "rest" /\ pc' = [pc EXCEPT ![w] = pc'[w]] /\ pc'[w] # "ticking"
        \/ UNCHANGED pc
    BY <1>a, <1>1 DEF Start, Login, Other, StartJoin, StartMove, PushFails, StartTeam, StartShow,
        StartHide, Closed, Call, callVars, CallTypeOK
  <2> QED
    BY <1>a, <2>1, <2>2, PendFrame
<1>2. ASSUME NEW w \in Caller, Work(w) PROVE PendInv'
  <2>1. CASE SweepDone(w) \/ Register(w) \/ AddMember(w) \/ Unmember(w) \/ Retire(w)
             \/ Unregister(w) \/ ApplyDone(w)
    <3>1. /\ UNCHANGED <<mu, stage, pending>>
          /\ pc[w] \notin {"tick", "ticking"}
          /\ pc' = [pc EXCEPT ![w] = pc'[w]] /\ pc'[w] # "ticking"
      BY <1>a, <2>1 DEF SweepDone, Register, AddMember, Unmember, Retire, Unregister, ApplyDone,
          Goto, Return, LeaveDone, CallTypeOK, interestVars, tickVars, sourceVars
    <3> QED
      BY <1>a, <3>1, PendFrame
  <2>2. ASSUME NEW p \in Player, Sweep(w, p) PROVE PendInv'
    <3>1. /\ UNCHANGED <<mu, stage, pending>>
          /\ pc[w] \notin {"tick", "ticking"}
          /\ pc' = [pc EXCEPT ![w] = pc'[w]] /\ pc'[w] # "ticking"
      BY <1>a, <2>2 DEF Sweep, CallTypeOK, interestVars, tickVars, sourceVars
    <3> QED
      BY <1>a, <3>1, PendFrame
  <2>3. ASSUME NEW k \in Pair, Subscribe(w, k) \/ Refuse(w, k) \/ Unsubscribe(w, k)
        PROVE  PendInv'
    <3>1. /\ UNCHANGED <<mu, stage, pending>>
          /\ pc[w] \notin {"tick", "ticking"}
          /\ pc' = [pc EXCEPT ![w] = pc'[w]] /\ pc'[w] # "ticking"
      BY <1>a, <2>3 DEF Subscribe, Refuse, Unsubscribe, CallTypeOK, interestVars, tickVars,
          sourceVars
    <3> QED
      BY <1>a, <3>1, PendFrame
  <2>4. CASE ReportRefusal(w)
    <3>1. /\ UNCHANGED <<mu, stage, pending>>
          /\ pc[w] = "denied" /\ pc' = [pc EXCEPT ![w] = "apply"]
      BY <2>4 DEF ReportRefusal, SubscribeFailed, tickVars, sourceVars
    <3>2. pc' = [pc EXCEPT ![w] = pc'[w]] /\ pc'[w] = "apply"
      BY <1>a, <3>1 DEF CallTypeOK
    <3> QED
      BY <1>a, <3>1, <3>2, PendFrame
  <2>5. CASE LeaveScene(w) \/ HideScene(w)
    <3>1. /\ UNCHANGED <<mu, stage>>
          /\ pc[w] \in {"leave", "hide"} /\ pc' = [pc EXCEPT ![w] = "tick"]
      BY <2>5 DEF LeaveScene, HideScene, Leave, Hide, Goto, tickVars
    <3> QED
      BY <1>a, <3>1, PendTold
  <2>6. CASE EnterScene(w)
    <3>1. /\ UNCHANGED <<mu, stage>> /\ pc[w] = "enter"
      BY <2>6 DEF EnterScene, Enter, tickVars
    <3>2. CASE ~Refused(who[w])
      BY <1>a, <2>6, <3>1, <3>2, PendTold DEF EnterScene, Goto
    <3>3. CASE Refused(who[w])
      <4>1. pending' = pending /\ pc' = [pc EXCEPT ![w] = "rest"]
        BY <2>6, <3>3 DEF EnterScene, Enter, Refused, Return, sourceVars
      <4>2. pc' = [pc EXCEPT ![w] = pc'[w]] /\ pc'[w] = "rest"
        BY <1>a, <4>1 DEF CallTypeOK
      <4> QED
        BY <1>a, <3>1, <4>1, <4>2, PendFrame
    <3> QED
      BY <3>2, <3>3
  <2>7. CASE MoveScene(w) \/ ShowScene(w)
    <3>1. /\ UNCHANGED <<mu, stage, pending>> /\ pc[w] \in {"move", "show"}
          /\ pc' = [pc EXCEPT ![w] = pc'[w]] /\ pc'[w] # "ticking"
      BY <1>a, <2>7 DEF MoveScene, ShowScene, Move, Show, Goto, Return, tickVars, sourceVars,
          CallTypeOK
    <3> QED
      BY <1>a, <3>1, PendFrame
  <2>8. ASSUME NEW p \in Player, TeamScene(w, p) PROVE PendInv'
    <3>1. /\ UNCHANGED <<mu, stage>> /\ pc[w] = "team"
          /\ pc' = [pc EXCEPT ![w] = pc'[w]] /\ pc'[w] # "ticking"
      BY <1>a, <2>8 DEF TeamScene, SetTeamOf, tickVars, CallTypeOK
    <3>2. pending'["self"] = pending["self"]
      BY <1>a, <2>8 DEF TeamScene, SetTeamOf, Set, Relate, InterestTypeOK, Relation
    <3> QED
      BY <1>a, <3>1, <3>2, PendFrame
  <2>9. CASE Begin(w)
    <3>1. /\ mu = Nowhere /\ mu' = w /\ stage' = "spatial" /\ UNCHANGED pending
          /\ pc[w] = "tick" /\ pc' = [pc EXCEPT ![w] = "ticking"]
      BY <2>9 DEF Begin, TickBegin, Free, Goto, sourceVars
    <3>2. \A v \in Caller : v # Nowhere
      BY InterestAssumption
    <3> QED
      BY <1>a, <3>1, <3>2 DEF PendInv, CallTypeOK
  <2>10. CASE End(w)
    <3>1. /\ mu = w /\ mu' = Nowhere /\ stage = "team" /\ UNCHANGED pending
          /\ pc[w] = "ticking" /\ pc' = [pc EXCEPT ![w] = "apply"]
      BY <2>10 DEF End, TickEnd, sourceVars
    <3>2. \A v \in Caller : v # Nowhere
      BY InterestAssumption
    <3> QED
      BY <1>a, <3>1, <3>2 DEF PendInv, CallTypeOK
  <2>11. CASE Fold(w)
    <3>1. CASE TickFlush(w)
      <4>1. /\ mu = w /\ mu' = mu /\ pc' = pc
            /\ stage' = IF stage = "spatial" THEN "self" ELSE "team"
            /\ pending' = [pending EXCEPT ![stage'] = Quiet]
        BY <2>11, <3>1 DEF Fold, TickFlush
      <4>2. CASE stage = "spatial"
        <5>1. pending'["self"] = Quiet
          BY <1>a, <4>1, <4>2 DEF InterestTypeOK, Relation
        <5> QED
          BY <4>1, <5>1 DEF PendInv
      <4>3. CASE stage # "spatial"
        <5>1. pending'["self"] = pending["self"]
          BY <1>a, <4>1, <4>3 DEF InterestTypeOK, Relation
        <5> QED
          BY <4>1, <4>3, <5>1 DEF PendInv
      <4> QED
        BY <4>2, <4>3
    <3>2. ASSUME NEW k \in Pair, TickApply(w, k) PROVE PendInv'
      BY <2>11, <3>2 DEF Fold, TickApply, sourceVars, PendInv
    <3> QED
      BY <2>11, <3>1, <3>2 DEF Fold
  <2> QED
    BY <1>2, <2>1, <2>2, <2>3, <2>4, <2>5, <2>6, <2>7, <2>8, <2>9, <2>10, <2>11 DEF Work
<1>3. CASE UNCHANGED vars \/ \E p \in Player : Disconnect(p)
  <2>1. UNCHANGED <<mu, stage, pending, pc>>
    BY <1>3 DEF vars, Disconnect, callVars, interestVars, tickVars, sourceVars
  <2> QED
    BY <2>1 DEF PendInv
<1> QED
  BY <1>1, <1>2, <1>3 DEF Next, Step

-----------------------------------------------------------------------------
LEMMA PeopleInit == Init => PeopleInv
<1> SUFFICES ASSUME Init PROVE PeopleInv
  OBVIOUS
<1>1. LeaverInv
  BY InterestAssumption DEF Init, LeaverInv, Id
<1>2. IndexInv
  BY DEF Init, InterestInit, IndexInv, Id
<1>4. PresentInv
  BY DEF Init, PresentInv
<1>3. PendInv
  BY InterestAssumption DEF Init, InterestInit, PendInv, Relation
<1> QED
  BY <1>1, <1>2, <1>3, <1>4 DEF PeopleInv

LEMMA PeopleNext == SceneInv /\ PeopleInv /\ [Next]_vars => PeopleInv'
BY LeaverNext, IndexNext, PresentNext, PendNext DEF PeopleInv

\* At rest every claim of the relations is folded.
LEMMA RestPresent == SceneInv /\ PeopleInv => OnlineInScene
<1> SUFFICES ASSUME SceneInv, PeopleInv, AtRest, NEW p \in online \ (unjoined \cup late)
             PROVE  p \in members /\ <<p, p>> \in Held
  BY DEF OnlineInScene
<1> DEFINE k == <<p, p>>
<1>1. p \in Player /\ k \in Pair /\ mu \in Caller \cup {Nowhere}
  BY TypeParts DEF SceneInv, WorldTypeOK, InterestTypeOK, Pair, Id
<1>2. \A w \in Caller : ~Joining(w, p)
  BY DEF AtRest, Joining, PeopleInv, LeaverInv
<1>3. Present(p)
  BY <1>2 DEF PeopleInv, PresentInv
<1>4. k \in related["self"]
  BY <1>1, <1>3 DEF PeopleInv, IndexInv, Present
<1>5. mu = Nowhere /\ pending["self"] = Quiet
  BY <1>1, InterestAssumption DEF PeopleInv, PendInv, AtRest
<1>6. "self" \in Relation /\ Underway("self", k) = <<>> /\ Len(Underway("self", k)) = 0
  BY <1>1, <1>5 DEF Underway, Quiet, Relation
<1>7. Lead(Underway("self", k), "self" \in hold[k], k \in related["self"])
  BY <1>1, <1>6 DEF SceneInv, CountInv, ClaimsCounted
<1>8. "self" \in hold[k]
  BY <1>4, <1>6, <1>7 DEF Lead
<1> QED
  BY <1>1, <1>3, <1>8 DEF Present, Held

\* Scene.applyChanges, RetireSubject and UnregisterSubject: whoever calls and
\* wherever the calls interleave and fail, when none is under way the room has
\* of every pair what the interest system believes in, unless two callers
\* talked about the pair at once or the room would not let go of it; and Join,
\* Leave, sweep and watchSessions: a player with a session is in the scene and
\* sees itself, unless it came back while a Leave of it was under way or the
\* room did not take it.
THEOREM SceneFollows == Spec => []SceneAgrees
<1> DEFINE Inv == SceneInv /\ RoomInv /\ PeopleInv
<1>1. Init => Inv
  BY InitInv, RoomInit, PeopleInit
<1>2. Inv /\ [Next]_vars => Inv'
  BY NextInv, RoomNext, PeopleNext
<1>3. Inv => SceneAgrees
  BY RestAgrees, RestPresent DEF SceneAgrees
<1> QED
  BY <1>1, <1>2, <1>3, PTL DEF Spec
=============================================================================
