--------------------------- MODULE InterestSystem ---------------------------
(***************************************************************************)
(* Who should be receiving whose state: InterestSystem and RelationSource  *)
(* of demo/game/scene/runtime.  Three sources claim pairs (observer,       *)
(* subject): distance, "you always see yourself" and the team.  The system *)
(* counts the claims on a pair: the first subscribes, the last to be given *)
(* up unsubscribes.                                                        *)
(*                                                                         *)
(* The methods are operators here; SceneBridge says which goroutine calls  *)
(* them and when.  A method that takes the system's mutex for one critical *)
(* section is one step.  Tick, which folds any number of events under it,  *)
(* is a step for each source it flushes, for each event and for the        *)
(* retries, with the mutex held in between.                                *)
(*                                                                         *)
(* InterestConfig.Bands is empty, so every band is 0: a pair's claims are  *)
(* the set of its sources, and rebandLocked never has anything to say.     *)
(***************************************************************************)
EXTENDS Integers, Sequences

CONSTANTS
  Player,       \* entities that see and are seen
  Monster,      \* entities that are only seen
  Caller,       \* the goroutines that call the system
  Position,     \* places on a line
  EnterRadius,  \* InterestEnterRadius
  LeaveRadius,  \* InterestLeaveRadius
  Nowhere       \* "not in the index"

Id == Player \cup Monster
Pair == Player \X Id
Source == {"spatial", "self", "team"}
Relation == {"self", "team"}

ASSUME InterestAssumption ==
  /\ Player \cap Monster = {}
  /\ Position \subseteq Int /\ Nowhere \notin Position
  /\ EnterRadius \in Nat /\ LeaveRadius \in Nat /\ EnterRadius <= LeaveRadius
  /\ Nowhere \notin Caller /\ Nowhere \notin Id

VARIABLES
  subjectAt, observerAt, \* the spatial index's two tables
  view,       \* pairs the spatial source has reported and not taken back
  related,    \* RelationSource.members of the two relation sources
  pending,    \* RelationSource.pending, per pair
  hold,       \* InterestSystem.held: the sources that claim a pair
  subscribed, \* interestHold.subscribed
  queued,     \* InterestSystem.retry, counted per pair
  mu,         \* who holds InterestSystem.mu inside Tick, or Nowhere
  stage,      \* the source Tick is at
  batch       \* the events Tick still has to fold, per pair

indexVars == <<subjectAt, observerAt>>
sourceVars == <<related, pending>>
aggregateVars == <<hold, subscribed, queued>>
tickVars == <<mu, stage, batch>>
interestVars == <<indexVars, view, sourceVars, aggregateVars, tickVars>>

Event == {"enter", "leave"}

InterestTypeOK ==
  /\ subjectAt \in [Id -> Position \cup {Nowhere}]
  /\ observerAt \in [Player -> Position \cup {Nowhere}]
  /\ view \subseteq Pair
  /\ related \in [Relation -> SUBSET Pair]
  /\ pending \in [Relation -> [Pair -> Seq(Event)]]
  /\ hold \in [Pair -> SUBSET Source]
  /\ subscribed \subseteq Pair
  /\ queued \in [Pair -> Nat]
  /\ mu \in Caller \cup {Nowhere}
  /\ stage \in Source
  /\ batch \in [Pair -> Seq(Event)]

Quiet == [k \in Pair |-> <<>>]

InterestInit ==
  /\ subjectAt = [id \in Id |-> Nowhere]
  /\ observerAt = [p \in Player |-> Nowhere]
  /\ view = {}
  /\ related = [n \in Relation |-> {}]
  /\ pending = [n \in Relation |-> Quiet]
  /\ hold = [k \in Pair |-> {}]
  /\ subscribed = {}
  /\ queued = [k \in Pair |-> 0]
  /\ mu = Nowhere
  /\ stage = "spatial"
  /\ batch = Quiet

Held == {k \in Pair : hold[k] # {}}

-----------------------------------------------------------------------------
(***************************************************************************)
(* The spatial index of roost-core: refuses what it already has or does    *)
(* not have, and reports pairs that come into view or go out of it.        *)
(***************************************************************************)
Distance(a, b) == IF a < b THEN b - a ELSE a - b

InView(k) ==
  LET o == observerAt[k[1]]  s == subjectAt[k[2]] IN
  /\ k[1] # k[2] /\ o # Nowhere /\ s # Nowhere
  /\ Distance(o, s) <= IF k \in view THEN LeaveRadius ELSE EnterRadius

(***************************************************************************)
(* RelationSource.  Only the pairs that changed become events.             *)
(***************************************************************************)

\* The pairs of observer o become exactly after; the others stay.
Relate(n, after) ==
  LET gone == related[n] \ after  new == after \ related[n] IN
  /\ related' = [related EXCEPT ![n] = after]
  /\ pending' = [pending EXCEPT ![n] =
                   [k \in Pair |->
                      IF k \in gone THEN Append(@[k], "leave")
                      ELSE IF k \in new THEN Append(@[k], "enter")
                      ELSE @[k]]]

From(n, o) == {k \in related[n] : k[1] = o}
To(n, s) == {k \in related[n] : k[2] = s}

\* RelationSource.Set
Set(n, o, subjects) == Relate(n, (related[n] \ From(n, o)) \cup ({o} \X subjects))

-----------------------------------------------------------------------------
(***************************************************************************)
(* InterestSystem's critical sections.                                     *)
(***************************************************************************)
Free == mu = Nowhere

\* Enter: the two tables, then "I see myself".  An id the index still has is
\* refused and nothing else happens.
Refused(p) == subjectAt[p] # Nowhere \/ observerAt[p] # Nowhere

Enter(p, at) ==
  /\ Free
  /\ IF subjectAt[p] # Nowhere
       THEN UNCHANGED <<indexVars, sourceVars>>
       ELSE /\ subjectAt' = [subjectAt EXCEPT ![p] = at]
            /\ IF observerAt[p] # Nowhere
                 THEN UNCHANGED <<observerAt, sourceVars>>
                 ELSE /\ observerAt' = [observerAt EXCEPT ![p] = at]
                      /\ Set("self", p, {p})
  /\ UNCHANGED <<view, aggregateVars, tickVars>>

\* Move, for an id in both tables.
Moveable(p) == subjectAt[p] # Nowhere /\ observerAt[p] # Nowhere

Move(p, to) ==
  /\ Free
  /\ IF subjectAt[p] = Nowhere
       THEN UNCHANGED indexVars
       ELSE /\ subjectAt' = [subjectAt EXCEPT ![p] = to]
            /\ observerAt' = IF observerAt[p] = Nowhere THEN observerAt
                             ELSE [observerAt EXCEPT ![p] = to]
  /\ UNCHANGED <<view, sourceVars, aggregateVars, tickVars>>

\* Leave: the relations in both directions, then the index.  An id that is
\* not an observer is refused there and stays a subject.
Leave(p) ==
  LET Team == related["team"] \ (From("team", p) \cup To("team", p))
      Changed(n, kept, k) ==
        IF k \in related[n] \ kept THEN Append(pending[n][k], "leave")
        ELSE pending[n][k]
      Self == related["self"] \ From("self", p)
      after == [n \in Relation |-> IF n = "self" THEN Self ELSE Team]
  IN
  /\ Free
  /\ related' = after
  /\ pending' = [n \in Relation |-> [k \in Pair |-> Changed(n, after[n], k)]]
  /\ observerAt' = [observerAt EXCEPT ![p] = Nowhere]
  /\ subjectAt' = IF observerAt[p] = Nowhere THEN subjectAt
                  ELSE [subjectAt EXCEPT ![p] = Nowhere]
  /\ UNCHANGED <<view, aggregateVars, tickVars>>

\* Show and Hide: the same for what is only seen.
Show(m, at) ==
  /\ Free
  /\ subjectAt' = IF subjectAt[m] # Nowhere THEN subjectAt
                  ELSE [subjectAt EXCEPT ![m] = at]
  /\ UNCHANGED <<observerAt, view, sourceVars, aggregateVars, tickVars>>

Hide(m) ==
  /\ Free
  /\ Relate("team", related["team"] \ To("team", m))
  /\ subjectAt' = [subjectAt EXCEPT ![m] = Nowhere]
  /\ UNCHANGED <<observerAt, view, aggregateVars, tickVars>>

\* Team().Set: the relation source has a lock of its own, so this one may
\* come in the middle of a Tick.
SetTeamOf(o, subjects) ==
  /\ Set("team", o, subjects)
  /\ UNCHANGED <<indexVars, view, aggregateVars, tickVars>>

\* The flag cleared and the pair queued, whoever refused it and how often.
FaultySubscribeFailed(k) ==
  /\ Free
  /\ subscribed' = subscribed \ {k}
  /\ queued' = [queued EXCEPT ![k] = @ + 1]
  /\ UNCHANGED <<indexVars, view, sourceVars, hold, tickVars>>

\* SubscribeFailed takes back a subscribe the room refused: RR-20260920-06.
SubscribeFailed(k) ==
  /\ Free
  /\ IF k \in Held /\ k \in subscribed
       THEN /\ subscribed' = subscribed \ {k}
            /\ queued' = [queued EXCEPT ![k] = @ + 1]
       ELSE UNCHANGED <<subscribed, queued>>
  /\ UNCHANGED <<indexVars, view, sourceVars, hold, tickVars>>

-----------------------------------------------------------------------------
(***************************************************************************)
(* Tick.  What a step emits is given to the caller as a function Emit from *)
(* pairs to sequences of changes: TRUE for subscribe, FALSE for            *)
(* unsubscribe.                                                            *)
(***************************************************************************)
TickBegin(w) ==
  LET now == {k \in Pair : InView(k)} IN
  /\ Free
  /\ mu' = w
  /\ stage' = "spatial"
  /\ batch' = [k \in Pair |-> IF k \in view \ now THEN <<"leave">>
                              ELSE IF k \in now \ view THEN <<"enter">>
                              ELSE <<>>]
  /\ view' = now
  /\ UNCHANGED <<indexVars, sourceVars, aggregateVars>>

\* The events handed out and kept.
FaultyTickFlush(w) ==
  /\ mu = w /\ batch = Quiet /\ stage # "team"
  /\ stage' = IF stage = "spatial" THEN "self" ELSE "team"
  /\ batch' = pending[stage']
  /\ UNCHANGED <<indexVars, view, sourceVars, aggregateVars, mu>>

\* The next source, once the events of the last one are folded.
TickFlush(w) ==
  /\ mu = w /\ batch = Quiet /\ stage # "team"
  /\ stage' = IF stage = "spatial" THEN "self" ELSE "team"
  /\ batch' = pending[stage']
  /\ pending' = [pending EXCEPT ![stage'] = Quiet]
  /\ UNCHANGED <<indexVars, view, related, aggregateVars, mu>>

ApplyLeave(k) ==
  /\ hold' = [hold EXCEPT ![k] = @ \ {stage}]
  /\ subscribed' = IF hold[k] \ {stage} = {} THEN subscribed \ {k} ELSE subscribed

ApplyEnter(k) ==
  /\ hold' = [hold EXCEPT ![k] = @ \cup {stage}]
  /\ subscribed' = subscribed \cup {k}

\* apply: one event folded into its pair.  The change it causes, if any, is
\* the difference it makes to subscribed.
TickApply(w, k) ==
  /\ mu = w /\ batch[k] # <<>>
  /\ IF Head(batch[k]) = "leave" THEN ApplyLeave(k) ELSE ApplyEnter(k)
  /\ batch' = [batch EXCEPT ![k] = Tail(@)]
  /\ UNCHANGED <<indexVars, view, sourceVars, queued, mu, stage>>

Waiting == {k \in Held \ subscribed : queued[k] > 0}

\* drainRetriesLocked, and the end of Tick.
TickEnd(w) ==
  /\ mu = w /\ batch = Quiet /\ stage = "team"
  /\ subscribed' = subscribed \cup Waiting
  /\ queued' = [k \in Pair |-> 0]
  /\ mu' = Nowhere
  /\ stage' = "spatial"
  /\ UNCHANGED <<indexVars, view, sourceVars, hold, batch>>

\* What the step said about pair k: the change of subscribed.
Said(k) ==
  IF k \in subscribed' \ subscribed THEN <<TRUE>>
  ELSE IF k \in subscribed \ subscribed' THEN <<FALSE>>
  ELSE <<>>
=============================================================================
