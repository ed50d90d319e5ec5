----------------------------- MODULE Population -----------------------------
(***************************************************************************)
(* The scene's population.  The refresh system (game/scene/runtime/         *)
(* refresh.go) reads the spawn table, counts the monsters it has been told  *)
(* of and keeps a queue of respawn timers per group; the spawner            *)
(* (internal/service/game/spawner.go) asks it once a tick what is due,      *)
(* creates each monster, shows it, files it and only then reports it.       *)
(* Operators kill monsters from goroutines of their own, the spawn table    *)
(* and the kill switch change under the loop, and the process shuts down.   *)
(*                                                                          *)
(* Time is abstracted: a timer in the queue is "waiting" until Elapse makes *)
(* it "due".                                                                *)
(***************************************************************************)
EXTENDS Naturals, Sequences, FiniteSets

CONSTANTS Groups,      \* rows of the spawn table
          Counts,      \* what a row may say should be alive; 0: no such row
          MaxId,       \* how many runtime ids the process can mint
          Operators,   \* goroutines that run gm.monster.kill
          MaxFaults,   \* bound: creations, placements and destructions that fail
          MaxReloads,  \* bound: reloads of the spawn table
          None

ASSUME CountsAssumption == Counts \subseteq Nat
ASSUME BoundsAssumption == MaxId \in Nat /\ MaxFaults \in Nat /\ MaxReloads \in Nat
ASSUME NoneAssumption == None \notin Groups

VARIABLES
  count,      \* the active spawn table: row -> Count
  alive,      \* RefreshSystem.alive: id -> group
  pending,    \* RefreshSystem.pending: group -> queue of respawn timers
  flag,       \* flags.MonsterSpawn
  loop,       \* the spawner's goroutine and its stop function
  pc,         \* where refill is
  wanted,     \* what refill has still to create, per group
  current,    \* the monster refill is working on: [id, group]
  minted,     \* Allocator: ids handed out so far
  monsters,   \* spawner.monsters
  values,     \* what drain has taken out of monsters and not yet destroyed
  entities,   \* Entities that exist
  shown,      \* subjects in the interest system
  registered, \* subjects the replication room was given and not told to drop
  kill,       \* per operator: the step of Kill and its monster
  undestroyed, \* history: Entities whose Destroy returned an error
  faults, reloads

vars == <<count, alive, pending, flag, loop, pc, wanted, current, minted, monsters,
          values, entities, shown, registered, kill, undestroyed, faults, reloads>>

settings == <<count, flag, reloads>>
refresh == <<alive, pending>>
refill == <<pc, wanted, current, minted>>
spawner == <<monsters, values>>
world == <<entities, undestroyed, shown, registered>>

Ids == 1..MaxId
Idle == [step |-> "rest", id |-> 0]
Nobody == [id |-> 0, group |-> None]
Members(g) == {i \in Ids : alive[i] = g}

Init ==
  /\ count \in [Groups -> Counts]
  /\ alive = [i \in Ids |-> None]
  /\ pending = [g \in Groups |-> <<>>]
  /\ flag = TRUE
  /\ loop = "running"
  /\ pc = "rest"
  /\ wanted = [g \in Groups |-> 0]
  /\ current = Nobody
  /\ minted = 0
  /\ monsters = {} /\ values = {}
  /\ entities = {} /\ undestroyed = {} /\ shown = {} /\ registered = {}
  /\ kill = [o \in Operators |-> Idle]
  /\ faults = 0 /\ reloads = 0

-----------------------------------------------------------------------------
(* RefreshSystem *)

\* The timers at the head of a queue that have run out.
Ready(queue) ==
  Cardinality({n \in 1..Len(queue) : \A k \in 1..n : queue[k] = "due"})

\* Mutant.
FaultyGranted(g) ==
  LET have == Cardinality(Members(g))
      missing == IF count[g] > have + 1 THEN count[g] - have - 1 ELSE 0
      ready == Ready(pending[g])
  IN IF ready = Len(pending[g]) \/ missing <= ready THEN missing ELSE ready

\* readyLocked, asked once per missing member: a timer at the head that has
\* run out is spent, an empty queue always says yes.
Granted(g) ==
  LET have == Cardinality(Members(g))
      missing == IF count[g] > have THEN count[g] - have ELSE 0
      ready == Ready(pending[g])
  IN IF ready = Len(pending[g]) \/ missing <= ready THEN missing ELSE ready

Rest(queue, n) == IF n >= Len(queue) THEN <<>> ELSE SubSeq(queue, n + 1, Len(queue))

\* Mutant.
FaultySpend(n) == UNCHANGED pending

\* Spend the timers of n members.
Spend(n) == pending' = [g \in Groups |-> Rest(pending[g], n[g])]

\* Due.  Where pathFind finds no place the loop over the row ends, with the
\* timer of that member spent.
Due ==
  LET granted == [g \in Groups |-> Granted(g)]
  IN \/ wanted' = granted /\ Spend(granted) /\ UNCHANGED faults
     \/ \E g \in Groups : \E placed \in 0..granted[g] :
          /\ faults < MaxFaults
          /\ placed < granted[g]
          /\ faults' = faults + 1
          /\ wanted' = [granted EXCEPT ![g] = placed]
          /\ Spend([granted EXCEPT ![g] = placed + 1])

Spawned(g, i) == alive' = [alive EXCEPT ![i] = g] /\ UNCHANGED pending

Died(i) ==
  LET g == alive[i]
  IN IF g = None THEN UNCHANGED refresh
     ELSE /\ alive' = [alive EXCEPT ![i] = None]
          /\ pending' = IF count[g] = 0 THEN pending
                        ELSE [pending EXCEPT ![g] = Append(@, "waiting")]

\* The respawn delay of a row has passed for one of its timers.
Elapse(g) ==
  \E k \in 1..Len(pending[g]) :
    /\ pending[g][k] = "waiting"
    /\ pending' = [pending EXCEPT ![g][k] = "due"]
    /\ UNCHANGED <<settings, alive, loop, refill, spawner, world, kill, faults>>

-----------------------------------------------------------------------------
(* spawner.refill *)

\* A cancelled loop may take one more tick that was already there: select
\* picks either.
Pass ==
  /\ loop \in {"running", "cancelled"} /\ pc = "rest" /\ flag
  /\ Due
  /\ pc' = "create"
  /\ UNCHANGED <<settings, alive, loop, current, minted, spawner, world, kill>>

\* The pass ends when nothing is left to create, and when the ids run out.
EndPass ==
  /\ pc = "create"
  /\ (\A g \in Groups : wanted[g] = 0) \/ minted = MaxId
  /\ pc' = "rest"
  /\ wanted' = [g \in Groups |-> 0]
  /\ UNCHANGED <<settings, refresh, loop, current, minted, spawner, world, kill, faults>>

Create(g) ==
  /\ pc = "create" /\ wanted[g] > 0 /\ minted < MaxId
  /\ minted' = minted + 1
  /\ wanted' = [wanted EXCEPT ![g] = @ - 1]
  /\ \/ /\ entities' = entities \union {minted + 1}
        /\ current' = [id |-> minted + 1, group |-> g]
        /\ pc' = "show"
        /\ UNCHANGED faults
     \/ /\ faults < MaxFaults
        /\ faults' = faults + 1
        /\ UNCHANGED <<entities, current, pc>>
  /\ UNCHANGED <<settings, refresh, loop, spawner, undestroyed, shown, registered, kill>>

Show ==
  /\ pc = "show"
  /\ registered' = registered \union {current.id}
  /\ shown' = shown \union {current.id}
  /\ pc' = "file"
  /\ UNCHANGED <<settings, refresh, loop, wanted, current, minted, spawner, entities, undestroyed, kill, faults>>

\* Destroy returns an error and its Entity stays.
DestroyFails(i) == undestroyed' = undestroyed \union {i} /\ UNCHANGED entities

Destroyed(i) == entities' = entities \ {i} /\ UNCHANGED undestroyed

\* Mutant.
FaultyShowFails ==
  /\ pc = "show" /\ faults < MaxFaults
  /\ registered' \in {registered, registered \union {current.id}}
  /\ current' = Nobody
  /\ pc' = "create"
  /\ faults' = faults + 1
  /\ UNCHANGED <<settings, refresh, loop, wanted, minted, spawner, entities, undestroyed, shown, kill>>

\* ShowSubject fails, before or after it has registered the subject, and the
\* monster is destroyed.  Nothing takes the registration back, and nobody looks
\* whether the destruction failed as well.
ShowFails ==
  /\ pc = "show" /\ faults < MaxFaults
  /\ registered' \in {registered, registered \union {current.id}}
  /\ Destroyed(current.id) \/ DestroyFails(current.id)
  /\ current' = Nobody
  /\ pc' = "create"
  /\ faults' = faults + 1
  /\ UNCHANGED <<settings, refresh, loop, wanted, minted, spawner, shown, kill>>

File ==
  /\ pc = "file"
  /\ monsters' = monsters \union {current.id}
  /\ pc' = "report"
  /\ UNCHANGED <<settings, refresh, loop, wanted, current, minted, values, world, kill, faults>>

Report ==
  /\ pc = "report"
  /\ Spawned(current.group, current.id)
  /\ current' = Nobody
  /\ pc' = "create"
  /\ UNCHANGED <<settings, loop, wanted, minted, spawner, world, kill, faults>>

-----------------------------------------------------------------------------
(* spawner.Kill, one goroutine per operator *)

Step(o, from, to) == kill[o].step = from /\ kill' = [kill EXCEPT ![o].step = to]

Take(o, i) ==
  /\ kill[o] = Idle /\ i \in monsters
  /\ monsters' = monsters \ {i}
  /\ kill' = [kill EXCEPT ![o] = [step |-> "died", id |-> i]]
  /\ UNCHANGED <<settings, refresh, loop, refill, values, world, faults>>

ReportDeath(o) ==
  /\ Step(o, "died", "hide")
  /\ Died(kill[o].id)
  /\ UNCHANGED <<settings, loop, refill, spawner, world, faults>>

Hide(i) == shown' = shown \ {i} /\ registered' = registered \ {i}

HideKilled(o) ==
  /\ Step(o, "hide", "destroy")
  /\ Hide(kill[o].id)
  /\ UNCHANGED <<settings, refresh, loop, refill, spawner, entities, undestroyed, faults>>

\* The error of Destroy goes to the operator; the monster is in no table by then.
DestroyKilled(o) ==
  /\ kill[o].step = "destroy"
  /\ \/ Destroyed(kill[o].id) /\ UNCHANGED faults
     \/ faults < MaxFaults /\ DestroyFails(kill[o].id) /\ faults' = faults + 1
  /\ kill' = [kill EXCEPT ![o] = Idle]
  /\ UNCHANGED <<settings, refresh, loop, refill, spawner, shown, registered>>

-----------------------------------------------------------------------------
(* Shutdown: the loop is cancelled, a pass under way is waited for, and what  *)
(* the spawner has filed is taken down one by one.                            *)

Cancel ==
  /\ loop = "running"
  /\ loop' = "cancelled"
  /\ UNCHANGED <<settings, refresh, refill, spawner, world, kill, faults>>

\* The stop function has seen the loop end and takes the table.
Collect ==
  /\ loop = "cancelled" /\ pc = "rest"
  /\ loop' = "draining"
  /\ values' = monsters
  /\ monsters' = {}
  /\ UNCHANGED <<settings, refresh, refill, world, kill, faults>>

\* An error of Destroy is logged and the drain goes on.
Drain ==
  /\ loop = "draining"
  /\ \E i \in values :
       /\ Hide(i)
       /\ \/ Destroyed(i) /\ UNCHANGED faults
          \/ faults < MaxFaults /\ DestroyFails(i) /\ faults' = faults + 1
       /\ values' = values \ {i}
  /\ UNCHANGED <<settings, refresh, loop, refill, monsters, kill>>

-----------------------------------------------------------------------------
(* What changes around the loop *)

Reload(g) ==
  /\ reloads < MaxReloads
  /\ reloads' = reloads + 1
  /\ \E n \in Counts : count' = [count EXCEPT ![g] = n]
  /\ UNCHANGED <<flag, refresh, loop, refill, spawner, world, kill, faults>>

Switch ==
  /\ flag' = ~flag
  /\ UNCHANGED <<count, reloads, refresh, loop, refill, spawner, world, kill, faults>>

Refill == Pass \/ EndPass \/ (\E g \in Groups : Create(g)) \/ Show \/ ShowFails \/ File \/ Report
Kill(o) == ReportDeath(o) \/ HideKilled(o) \/ DestroyKilled(o)

Next ==
  \/ Refill
  \/ \E o \in Operators : Kill(o) \/ \E i \in Ids : Take(o, i)
  \/ \E g \in Groups : Elapse(g) \/ Reload(g)
  \/ Cancel \/ Collect \/ Drain \/ Switch

Spec == Init /\ [][Next]_vars

\* The loop and the operators' goroutines run, and time passes.
Fairness ==
  /\ WF_vars(Refill) /\ WF_vars(Collect \/ Drain)
  /\ \A o \in Operators : WF_vars(Kill(o))
  /\ \A g \in Groups : WF_vars(Elapse(g))

FairSpec == Spec /\ Fairness
-----------------------------------------------------------------------------
(* Properties *)

TypeOK ==
  /\ count \in [Groups -> Counts] /\ flag \in BOOLEAN /\ reloads \in 0..MaxReloads
  /\ alive \in [Ids -> Groups \union {None}]
  /\ pending \in [Groups -> Seq({"waiting", "due"})]
  /\ loop \in {"running", "cancelled", "draining"}
  /\ pc \in {"rest", "create", "show", "file", "report"}
  /\ wanted \in [Groups -> Nat]
  /\ current \in {Nobody} \union [id : Ids, group : Groups]
  /\ (pc \in {"show", "file", "report"}) = (current # Nobody)
  /\ minted \in 0..MaxId
  /\ monsters \subseteq Ids /\ values \subseteq Ids
  /\ entities \subseteq Ids /\ undestroyed \subseteq Ids /\ shown \subseteq Ids /\ registered \subseteq Ids
  /\ kill \in [Operators -> {Idle} \union [step : {"died", "hide", "destroy"}, id : Ids]]
  /\ faults \in 0..MaxFaults

AtRest == pc = "rest" /\ \A o \in Operators : kill[o] = Idle
InFlight(g) == wanted[g] + (IF current.group = g THEN 1 ELSE 0)

\* The members that live, the ones on their way and the slots that wait for
\* their respawn delay are never more than some spawn table asked for: nobody
\* comes back early or twice (Due, readyLocked, Spawned, Died), whatever is
\* killed, reloaded or fails meanwhile.
RespawnRespected ==
  \A g \in Groups : \E n \in Counts :
    Cardinality(Members(g)) + InFlight(g) + Len(pending[g]) <= n

\* With no refill and no Kill under way, what players can see is what the
\* spawner has filed, and it exists; what exists beyond it is what Destroy
\* reported it could not destroy, and no player sees that (refill, Kill and
\* drain clean up after each other, and none undoes a failed Destroy).
NoOrphans == AtRest => /\ monsters \union values = shown
                       /\ entities \ shown = undestroyed
                       /\ shown \subseteq entities \intersect registered

\* A group that is short, by the count of the refresh system, is filled again,
\* as long as the switch stays on and ids last: no failure loses a slot.
SlotsRefilled ==
  \A g \in Groups :
    <>[](flag /\ loop = "running") =>
      []<>(Cardinality(Members(g)) >= count[g] \/ minted = MaxId)

=============================================================================
