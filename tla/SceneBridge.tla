---------------------------- MODULE SceneBridge ----------------------------
(***************************************************************************)
(* The bridge between player sessions, the interest system and the         *)
(* replication room: Scene of demo/internal/service/game/scene, over       *)
(* InterestSystem.                                                         *)
(*                                                                         *)
(* A Caller is a goroutine inside one call of the bridge: a login (Join),  *)
(* a move, the handler of a closed session or of a failed push (Leave),    *)
(* the matchmaker (SetTeam), the spawner (ShowSubject, HideSubject).  The  *)
(* bridge's own mutex guards the member set alone; what Tick said is       *)
(* applied to the room with no lock held, one change at a time.            *)
(***************************************************************************)
EXTENDS InterestSystem

CONSTANTS
  MaxNotices,  \* bound: session-close notices of a player not handled yet
  MaxFaults,   \* bound: dropped notices, and calls of the room that fail
  MaxLogins    \* bound: logins; 0 for none

ASSUME BridgeAssumption ==
  /\ MaxNotices \in Nat \ {0} /\ MaxFaults \in Nat /\ MaxLogins \in Nat

VARIABLES
  online,     \* players with a session
  notices,    \* close notices on their way to watchSessions
  members,    \* Scene.members
  registered, \* subjects of the room
  subs,       \* subscriptions of the room
  pc, job,    \* where a call is and which one it is
  who,        \* the entity the call is about
  leaver,     \* the entity whose Leave (or Hide) is under way in it
  todo,       \* sweep candidates, or team members still to be set
  group,      \* the members SetTeam was called with
  changes,    \* what its Tick said and it has not applied yet
  denied,     \* the change the room refused
  faults,     \* how many failures there were
  logins,     \* how many logins there were, if they are bounded
  unnoticed,  \* history: gone, the notice dropped, and nobody has swept since
  unjoined,   \* history: online, and the room refused to register them
  late,       \* history: online, and came while a Leave of theirs was under way
  stale,      \* history: subscriptions the room would not end
  crossed     \* history: pairs whose answers crossed, see Collect, Refuse, Dropped

roomVars == <<registered, subs>>
sessionVars == <<online, notices, unnoticed, late>>
historyVars == <<unjoined, stale, crossed, faults>>
callVars == <<pc, job, who, leaver, todo, group, changes, denied>>
vars == <<interestVars, sessionVars, members, roomVars, callVars,
          historyVars, logins>>

PC == {"rest", "sweep", "register", "member", "enter", "move", "team", "show",
       "unmember", "leave", "hide", "tick", "ticking", "apply", "denied",
       "retire", "unregister"}
Job == {"none", "join", "move", "leave", "team", "show", "hide"}

NoPair == <<Nowhere, Nowhere>>

TypeOK ==
  /\ InterestTypeOK
  /\ online \subseteq Player
  /\ notices \in [Player -> 0..MaxNotices]
  /\ members \subseteq Player
  /\ registered \subseteq Id
  /\ subs \subseteq Pair
  /\ pc \in [Caller -> PC]
  /\ job \in [Caller -> Job]
  /\ who \in [Caller -> Id \cup {Nowhere}]
  /\ leaver \in [Caller -> Id \cup {Nowhere}]
  /\ todo \in [Caller -> SUBSET Player]
  /\ group \in [Caller -> SUBSET Player]
  /\ changes \in [Caller -> [Pair -> Seq(BOOLEAN)]]
  /\ denied \in [Caller -> Pair \cup {NoPair}]
  /\ faults \in 0..MaxFaults /\ logins \in 0..MaxLogins
  /\ unnoticed \subseteq Player /\ unjoined \subseteq Player /\ late \subseteq Player
  /\ stale \subseteq subs /\ crossed \subseteq Pair

Init ==
  /\ InterestInit
  /\ online = {} /\ notices = [p \in Player |-> 0]
  /\ members = {} /\ registered = {} /\ subs = {}
  /\ pc = [w \in Caller |-> "rest"]
  /\ job = [w \in Caller |-> "none"]
  /\ who = [w \in Caller |-> Nowhere]
  /\ leaver = [w \in Caller |-> Nowhere]
  /\ todo = [w \in Caller |-> {}]
  /\ group = [w \in Caller |-> {}]
  /\ changes = [w \in Caller |-> Quiet]
  /\ denied = [w \in Caller |-> NoPair]
  /\ faults = 0 /\ logins = 0
  /\ unnoticed = {} /\ unjoined = {} /\ late = {} /\ stale = {} /\ crossed = {}

\* Something fails; what it would have done is left out.
Fault == faults < MaxFaults /\ faults' = faults + 1

-----------------------------------------------------------------------------
\* Control of a call.
Goto(w, to) ==
  /\ pc' = [pc EXCEPT ![w] = to]
  /\ UNCHANGED <<job, who, leaver, todo, group, changes, denied>>

Call(w, j, id, to) ==
  /\ pc[w] = "rest"
  /\ pc' = [pc EXCEPT ![w] = to]
  /\ job' = [job EXCEPT ![w] = j]
  /\ who' = [who EXCEPT ![w] = id]

Return(w) ==
  /\ pc' = [pc EXCEPT ![w] = "rest"]
  /\ job' = [job EXCEPT ![w] = "none"]
  /\ who' = [who EXCEPT ![w] = Nowhere]
  /\ leaver' = [leaver EXCEPT ![w] = Nowhere]
  /\ todo' = [todo EXCEPT ![w] = {}]
  /\ group' = [group EXCEPT ![w] = {}]
  /\ UNCHANGED <<changes, denied>>

\* The end of a Leave: back to the sweep it was called from, or out.
LeaveDone(w) ==
  IF job[w] = "join"
    THEN /\ pc' = [pc EXCEPT ![w] = "sweep"]
         /\ leaver' = [leaver EXCEPT ![w] = Nowhere]
         /\ UNCHANGED <<job, who, todo, group, changes, denied>>
    ELSE Return(w)

\* A message of p is being handled, on the goroutine of p's connection.
Handling(p) == \E w \in Caller : job[w] \in {"join", "move"} /\ who[w] = p

-----------------------------------------------------------------------------
(***************************************************************************)
(* Calls.                                                                  *)
(***************************************************************************)

\* A connection is up and EnterGame has placed the player: Join.  sweep
\* takes its candidates under the lock, so that whoever is gone is noticed now.
StartJoin(w, p) ==
  /\ p \notin online
  /\ online' = online \cup {p}
  /\ unnoticed' = unnoticed \ (members \cup {p})
  /\ late' = IF \E v \in Caller : leaver[v] = p THEN late \cup {p} ELSE late \ {p}
  /\ unjoined' = unjoined \ {p}
  /\ Call(w, "join", p, "sweep")
  /\ todo' = [todo EXCEPT ![w] = members]
  /\ UNCHANGED <<interestVars, notices, members, roomVars, leaver, group, changes,
                 denied, stale, crossed, faults>>

StartMove(w, p) ==
  /\ p \in online /\ ~Handling(p)
  /\ Call(w, "move", p, "move")
  /\ UNCHANGED <<interestVars, sessionVars, members, roomVars, leaver, todo, group,
                 changes, denied, historyVars>>

\* The connection closes once the handler it may be in has returned.  The close
\* is published, unless the queue is full.
Disconnect(p) ==
  /\ p \in online /\ ~Handling(p)
  /\ online' = online \ {p}
  /\ \/ /\ notices[p] < MaxNotices
        /\ notices' = [notices EXCEPT ![p] = @ + 1]
        /\ UNCHANGED <<unnoticed, faults>>
     \/ Fault /\ unnoticed' = unnoticed \cup {p} /\ UNCHANGED notices
  /\ UNCHANGED <<interestVars, members, roomVars, callVars, late, unjoined, stale,
                 crossed, logins>>

\* A notice is read and nothing follows from it.
FaultyClosed(w, p) ==
  /\ notices[p] > 0
  /\ notices' = [notices EXCEPT ![p] = @ - 1]
  /\ UNCHANGED callVars
  /\ UNCHANGED <<interestVars, online, unnoticed, late, members, roomVars,
                 historyVars, logins>>

\* A close is taken for a departure without a look at the other sessions.
FaultyClosedBlind(w, p) ==
  /\ notices[p] > 0
  /\ notices' = [notices EXCEPT ![p] = @ - 1]
  /\ Call(w, "leave", p, "unmember")
  /\ leaver' = [leaver EXCEPT ![w] = p]
  /\ UNCHANGED <<interestVars, online, unnoticed, late, members, roomVars, todo, group,
                 changes, denied, historyVars, logins>>

\* watchSessions: a player who is back already is left alone, any other gets
\* a goroutine that runs Leave.
Closed(w, p) ==
  /\ notices[p] > 0
  /\ notices' = [notices EXCEPT ![p] = @ - 1]
  /\ IF p \in online
       THEN UNCHANGED callVars
       ELSE /\ Call(w, "leave", p, "unmember")
            /\ leaver' = [leaver EXCEPT ![w] = p]
            /\ UNCHANGED <<todo, group, changes, denied>>
  /\ UNCHANGED <<interestVars, online, unnoticed, late, members, roomVars,
                 historyVars, logins>>

\* AdmitBatch: a push to a subscriber without a session fails; dropAsync.
PushFails(w, p) ==
  /\ p \notin online /\ \E k \in subs : k[1] = p
  /\ Call(w, "leave", p, "unmember")
  /\ leaver' = [leaver EXCEPT ![w] = p]
  /\ UNCHANGED <<interestVars, sessionVars, members, roomVars, todo, group, changes,
                 denied, historyVars>>

\* A match is formed of the members of one group, online or not; the matchmaker
\* is one goroutine.
StartTeam(w, S) ==
  /\ \A v \in Caller : job[v] # "team"
  /\ Call(w, "team", Nowhere, "team")
  /\ todo' = [todo EXCEPT ![w] = S]
  /\ group' = [group EXCEPT ![w] = S]
  /\ UNCHANGED <<interestVars, sessionVars, members, roomVars, leaver, changes, denied,
                 historyVars>>

\* The spawner shows and hides monsters, one at a time.
Spawning == \E w \in Caller : job[w] \in {"show", "hide"}

StartShow(w, m) ==
  /\ ~Spawning /\ m \notin registered
  /\ Call(w, "show", m, "register")
  /\ UNCHANGED <<interestVars, sessionVars, members, roomVars, leaver, todo, group,
                 changes, denied, historyVars>>

StartHide(w, m) ==
  /\ ~Spawning /\ m \in registered
  /\ Call(w, "hide", m, "hide")
  /\ leaver' = [leaver EXCEPT ![w] = m]
  /\ UNCHANGED <<interestVars, sessionVars, members, roomVars, todo, group, changes,
                 denied, historyVars>>

-----------------------------------------------------------------------------
(***************************************************************************)
(* Join, ShowSubject, Moved, SetTeam.                                      *)
(***************************************************************************)
Sweep(w, p) ==
  /\ pc[w] = "sweep" /\ p \in todo[w]
  /\ todo' = [todo EXCEPT ![w] = @ \ {p}]
  /\ IF p \in online
       THEN UNCHANGED <<pc, leaver>>
       ELSE /\ pc' = [pc EXCEPT ![w] = "unmember"]
            /\ leaver' = [leaver EXCEPT ![w] = p]
  /\ UNCHANGED <<interestVars, sessionVars, members, roomVars, job, who, group, changes,
                 denied, historyVars>>

SweepDone(w) ==
  /\ pc[w] = "sweep" /\ todo[w] = {}
  /\ Goto(w, "register")
  /\ UNCHANGED <<interestVars, sessionVars, members, roomVars, historyVars>>

\* RegisterSubject; that the room has it already is no error, any other ends the call.
Register(w) ==
  /\ pc[w] = "register"
  /\ \/ /\ registered' = registered \cup {who[w]}
        /\ Goto(w, IF job[w] = "join" THEN "member" ELSE "show")
        /\ UNCHANGED <<unjoined, faults>>
     \/ /\ Fault /\ Return(w)
        /\ unjoined' = unjoined \cup ({who[w]} \cap Player)
        /\ UNCHANGED registered
  /\ UNCHANGED <<interestVars, sessionVars, members, subs, stale, crossed>>

AddMember(w) ==
  /\ pc[w] = "member"
  /\ members' = members \cup {who[w]}
  /\ Goto(w, "enter")
  /\ UNCHANGED <<interestVars, sessionVars, roomVars, historyVars>>

EnterScene(w) ==
  /\ pc[w] = "enter"
  /\ \E at \in Position : Enter(who[w], at)
  /\ IF Refused(who[w]) THEN Return(w) ELSE Goto(w, "tick")
  /\ UNCHANGED <<sessionVars, members, roomVars, historyVars>>

MoveScene(w) ==
  /\ pc[w] = "move"
  /\ \E to \in Position : Move(who[w], to)
  /\ IF Moveable(who[w]) THEN Goto(w, "tick") ELSE Return(w)
  /\ UNCHANGED <<sessionVars, members, roomVars, historyVars>>

ShowScene(w) ==
  /\ pc[w] = "show"
  /\ \E at \in Position : Show(who[w], at)
  /\ IF subjectAt[who[w]] # Nowhere THEN Return(w) ELSE Goto(w, "tick")
  /\ UNCHANGED <<sessionVars, members, roomVars, historyVars>>

TeamScene(w, p) ==
  /\ pc[w] = "team" /\ p \in todo[w]
  /\ SetTeamOf(p, group[w] \ {p})
  /\ todo' = [todo EXCEPT ![w] = @ \ {p}]
  /\ pc' = IF todo[w] = {p} THEN [pc EXCEPT ![w] = "tick"] ELSE pc
  /\ UNCHANGED <<sessionVars, members, roomVars, job, who, leaver, group, changes,
                 denied, historyVars>>

-----------------------------------------------------------------------------
(***************************************************************************)
(* Leave and HideSubject.                                                  *)
(***************************************************************************)
Unmember(w) ==
  /\ pc[w] = "unmember"
  /\ members' = members \ {leaver[w]}
  /\ IF leaver[w] \in members THEN Goto(w, "leave") ELSE LeaveDone(w)
  /\ UNCHANGED <<interestVars, sessionVars, roomVars, historyVars>>

LeaveScene(w) ==
  /\ pc[w] = "leave"
  /\ Leave(leaver[w])
  /\ Goto(w, "tick")
  /\ UNCHANGED <<sessionVars, members, roomVars, historyVars>>

HideScene(w) ==
  /\ pc[w] = "hide"
  /\ Hide(leaver[w])
  /\ Goto(w, "tick")
  /\ UNCHANGED <<sessionVars, members, roomVars, historyVars>>

\* The room drops every subscription to the leaver: the answers of two calls
\* crossed where the interest system has one again.
Dropped(w) ==
  LET gone == {k \in Pair : k[2] = leaver[w]} IN
  /\ subs' = subs \ gone /\ stale' = stale \ gone
  /\ crossed' = crossed \cup (gone \cap subscribed)

\* RetireSubject tells the watchers and drops them; an error is logged ...
Retire(w) ==
  /\ pc[w] = "retire"
  /\ \/ Dropped(w) /\ UNCHANGED faults
     \/ Fault /\ UNCHANGED <<subs, stale, crossed>>
  /\ Goto(w, "unregister")
  /\ UNCHANGED <<interestVars, sessionVars, members, registered, unjoined>>

\* ... and UnregisterSubject forgets the subject, unless it fails.
Unregister(w) ==
  /\ pc[w] = "unregister"
  /\ \/ registered' = registered \ {leaver[w]} /\ Dropped(w) /\ UNCHANGED faults
     \/ Fault /\ UNCHANGED <<registered, subs, stale, crossed>>
  /\ LeaveDone(w)
  /\ UNCHANGED <<interestVars, sessionVars, members, unjoined>>

-----------------------------------------------------------------------------
(***************************************************************************)
(* Tick and applyChanges.                                                  *)
(***************************************************************************)
Begin(w) ==
  /\ pc[w] = "tick"
  /\ TickBegin(w)
  /\ Goto(w, "ticking")
  /\ UNCHANGED <<sessionVars, members, roomVars, historyVars>>

\* Does w have something to say to the room, or to hear from it, about k?
Talks(w, k) == changes[w][k] # <<>> \/ denied[w] = k

\* The changes a step of Tick adds to the caller's list.  They cross those that
\* another caller has not applied yet.
Collect(w) ==
  /\ changes' = [changes EXCEPT ![w] = [k \in Pair |-> @[k] \o Said(k)]]
  /\ crossed' = crossed \cup
       {k \in Pair : Said(k) # <<>> /\ \E v \in Caller \ {w} : Talks(v, k)}

Fold(w) ==
  /\ pc[w] = "ticking"
  /\ \/ TickFlush(w)
     \/ \E k \in Pair : TickApply(w, k)
  /\ Collect(w)
  /\ UNCHANGED <<sessionVars, members, roomVars, pc, job, who, leaver, todo, group,
                 denied, unjoined, stale, faults>>

End(w) ==
  /\ pc[w] = "ticking"
  /\ TickEnd(w)
  /\ Collect(w)
  /\ pc' = [pc EXCEPT ![w] = "apply"]
  /\ UNCHANGED <<sessionVars, members, roomVars, job, who, leaver, todo, group, denied,
                 unjoined, stale, faults>>

Applied(w, k) == changes' = [changes EXCEPT ![w][k] = Tail(@)]

\* Subscribe, which a room that does not know the subject refuses.
Subscribe(w, k) ==
  /\ pc[w] = "apply" /\ changes[w][k] # <<>> /\ Head(changes[w][k])
  /\ k[2] \in registered
  /\ subs' = subs \cup {k} /\ stale' = stale \ {k}
  /\ Applied(w, k)
  /\ UNCHANGED <<interestVars, sessionVars, members, registered, pc, job, who, leaver,
                 todo, group, denied, unjoined, crossed, faults>>

\* A subject the room does not know, or, as a failure, one it does: the room is
\* full, or a gate is shut.
Denial(k) == IF k[2] \in registered THEN Fault ELSE UNCHANGED faults

\* The refusal goes into the log and nowhere else.
FaultyRefuse(w, k) ==
  /\ pc[w] = "apply" /\ changes[w][k] # <<>> /\ Head(changes[w][k])
  /\ Denial(k)
  /\ Applied(w, k)
  /\ UNCHANGED <<interestVars, sessionVars, members, roomVars, pc, job, who, leaver,
                 todo, group, denied, unjoined, stale, crossed>>

\* What the same Tick said of the pair after it crosses the report.
Refuse(w, k) ==
  /\ pc[w] = "apply" /\ changes[w][k] # <<>> /\ Head(changes[w][k])
  /\ Denial(k)
  /\ Applied(w, k)
  /\ pc' = [pc EXCEPT ![w] = "denied"]
  /\ denied' = [denied EXCEPT ![w] = k]
  /\ crossed' = IF Tail(changes[w][k]) = <<>> THEN crossed ELSE crossed \cup {k}
  /\ UNCHANGED <<interestVars, sessionVars, members, roomVars, job, who, leaver, todo,
                 group, unjoined, stale>>

ReportRefusal(w) ==
  /\ pc[w] = "denied"
  /\ SubscribeFailed(denied[w])
  /\ pc' = [pc EXCEPT ![w] = "apply"]
  /\ denied' = [denied EXCEPT ![w] = NoPair]
  /\ UNCHANGED <<sessionVars, members, roomVars, job, who, leaver, todo, group, changes,
                 historyVars>>

\* The interest system has let go of the pair; that the room has not is logged.
Unsubscribe(w, k) ==
  /\ pc[w] = "apply" /\ changes[w][k] # <<>> /\ ~Head(changes[w][k])
  /\ \/ subs' = subs \ {k} /\ stale' = stale \ {k} /\ UNCHANGED faults
     \/ k \in subs /\ Fault /\ stale' = stale \cup {k} /\ UNCHANGED subs
  /\ Applied(w, k)
  /\ UNCHANGED <<interestVars, sessionVars, members, registered, pc, job, who, leaver,
                 todo, group, denied, unjoined, crossed>>

ApplyDone(w) ==
  /\ pc[w] = "apply" /\ changes[w] = Quiet
  /\ IF leaver[w] # Nowhere THEN Goto(w, "retire") ELSE Return(w)
  /\ UNCHANGED <<interestVars, sessionVars, members, roomVars, historyVars>>

-----------------------------------------------------------------------------
Login(w, p) ==
  /\ MaxLogins = 0 \/ logins < MaxLogins
  /\ logins' = IF MaxLogins = 0 THEN logins ELSE logins + 1
  /\ StartJoin(w, p)

Other(w) ==
  \/ \E p \in Player : StartMove(w, p) \/ PushFails(w, p)
  \/ \E p, q \in Player : p # q /\ StartTeam(w, {p, q})   \* both queues: GroupSize 2
  \/ \E m \in Monster : StartShow(w, m) \/ StartHide(w, m)

Start(w) == (\E p \in Player : Login(w, p)) \/ (Other(w) /\ UNCHANGED logins)

Work(w) ==
  \/ SweepDone(w) \/ Register(w) \/ AddMember(w) \/ EnterScene(w) \/ MoveScene(w)
  \/ ShowScene(w) \/ Unmember(w) \/ LeaveScene(w) \/ HideScene(w) \/ Retire(w)
  \/ Unregister(w) \/ Begin(w) \/ Fold(w) \/ End(w) \/ ReportRefusal(w)
  \/ ApplyDone(w)
  \/ \E p \in Player : Sweep(w, p) \/ TeamScene(w, p)
  \/ \E k \in Pair : Subscribe(w, k) \/ Refuse(w, k) \/ Unsubscribe(w, k)

Step(w) == Work(w) /\ UNCHANGED logins

Next ==
  \/ \E w \in Caller : Start(w) \/ Step(w)
  \/ \E w \in Caller, p \in Player : Closed(w, p)
  \/ \E p \in Player : Disconnect(p)

Spec == Init /\ [][Next]_vars

(***************************************************************************)
(* A call that was made goes on, and the dispatcher gets to every notice.  *)
(* Nobody has to log in, move or leave.                                    *)
(***************************************************************************)
Fairness ==
  /\ \A w \in Caller : WF_vars(Step(w))
  /\ \A p \in Player : SF_vars(\E w \in Caller : Closed(w, p))

FairSpec == Spec /\ Fairness

-----------------------------------------------------------------------------
(***************************************************************************)
(* Properties.                                                             *)
(***************************************************************************)

\* SubscribeFailed: "a held pair is subscribed unless it is queued", and it
\* is queued once.  Nothing else is ever on the queue between two Ticks.
QueueExact ==
  mu = Nowhere =>
    \A k \in Pair : queued[k] = IF k \in Held \ subscribed THEN 1 ELSE 0

\* The events between a relation and the system, folded in order, lead from
\* what the system holds to what the relation says: no claim is lost, made
\* twice or taken back for another source.
Lead(events, claimed, wanted) ==
  /\ \A i \in 1..Len(events) : events[i] = "enter" <=> claimed = (i % 2 = 0)
  /\ wanted <=> claimed = (Len(events) % 2 = 0)

Underway(n, k) == (IF mu # Nowhere /\ stage = n THEN batch[k] ELSE <<>>) \o pending[n][k]

ClaimsCounted ==
  \A n \in Relation, k \in Pair : Lead(Underway(n, k), n \in hold[k], k \in related[n])

AtRest == \A w \in Caller : pc[w] = "rest"

\* When no call is under way the room has exactly the subscriptions the
\* interest system believes in, but for those it would not end and the pairs
\* whose answers crossed.
RoomAgrees ==
  AtRest => \A k \in Pair \ crossed : k \in subs \ stale <=> k \in subscribed

\* Join: a player with a session is in the scene and sees itself, unless the room
\* did not take the subject, or the player came back while a Leave was under way.
OnlineInScene ==
  AtRest => \A p \in online \ (unjoined \cup late) : p \in members /\ <<p, p>> \in Held

SceneAgrees == RoomAgrees /\ OnlineInScene

\* The same for calls that come one after the other: nothing crosses.
SerialAgrees == SceneAgrees /\ crossed = {} /\ late = {}

\* RR-20260918-06: nobody stays in the scene after the last session closed,
\* even if nothing is ever pushed to them; and a close that was dropped is made
\* good when the next player joins.
GhostsLeave ==
  \A p \in Player :
    (p \notin online \cup unnoticed) ~> (p \notin members \/ p \in online)
=============================================================================
