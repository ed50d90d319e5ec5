------------------------------ MODULE PlayerTCP ------------------------------
(***************************************************************************)
(* The player TCP listener (internal/access/player/tcp, rendered by         *)
(* internal/roost/render_player_tcp.go): the accept loop and its limits,    *)
(* one goroutine per connection from handshake to teardown, the two session *)
(* tables, sessions that replace each other, CloseSessions, Stop, and the   *)
(* bounded queue of close events with the goroutine that delivers them.     *)
(* The subscriber is the presence of the world channel (presence.go), which *)
(* asks ActiveSessions and then removes the player.                         *)
(*                                                                          *)
(* A socket is open or closed by the server; the peer shows only in reads   *)
(* that end.  Authentication is external: any principal, or a refusal.      *)
(***************************************************************************)
EXTENDS Naturals, Sequences, FiniteSets

CONSTANTS Conn,          \* connections that may be dialled
          Player, SessionId,
          HostOf,        \* the remote host of a connection
          MaxConnections, MaxConnectionsPerIP, MaxHandshakes,
          QueueSize,     \* sessionClosedQueue
          None

ASSUME LimitsAssumption ==
  /\ MaxConnections \in Nat \ {0} /\ MaxConnectionsPerIP \in 1..MaxConnections
  /\ MaxHandshakes \in 1..MaxConnections /\ QueueSize \in Nat
ASSUME NoneAssumption == None \notin Conn

VARIABLES
  acceptor, arrived,    \* the accept loop, and the connection it has accepted
  pc, open,             \* per connection: its goroutine, its socket
  connections, ipConnections, connectionSlots, handshakeSlots,
  principal,            \* per connection, once authenticated
  sessions, playerSessions,
  previous,             \* per connection: the session registering replaced
  stop, outcome,        \* Mod.StopWithContext, and what Server.Stop returned
  closing,              \* Stop's snapshot of connections still to be closed
  kicked,               \* CloseSessions' snapshot of sessions still to be closed
  closedEvents, dropped, dispatcher, event,
  present               \* chatroom presence: who is in the world channel

acceptVars == <<acceptor, arrived>>
limitVars == <<connections, ipConnections, connectionSlots, handshakeSlots>>
sessionVars == <<principal, sessions, playerSessions, previous>>
stopVars == <<stop, outcome, closing>>
eventVars == <<closedEvents, dropped, dispatcher, event>>
vars == <<acceptVars, pc, open, limitVars, sessionVars, stopVars, kicked,
          eventVars, present>>

Hosts == {HostOf[c] : c \in Conn}
Principal == [player : Player, session : SessionId]
Event == Principal
Nobody == [player |-> None, session |-> None]

\* The goroutine of a connection, from registerSession to unregisterSession.
Registered == {"replace", "serving", "dispatch", "unregister"}
Session(c) == principal[c].session
PlayerOf(c) == principal[c].player

Listening == stop \in {"no", "unlinked", "locked"}
Cancelled == stop \notin {"no", "unlinked"}
ServerStored == stop = "no"   \* Runtime.server

Init ==
  /\ acceptor = "accept" /\ arrived = None
  /\ pc = [c \in Conn |-> "none"] /\ open = [c \in Conn |-> FALSE]
  /\ connections = {} /\ ipConnections = [h \in Hosts |-> 0]
  /\ connectionSlots = 0 /\ handshakeSlots = 0
  /\ principal = [c \in Conn |-> Nobody]
  /\ sessions = [s \in SessionId |-> None]
  /\ playerSessions = [p \in Player |-> [s \in SessionId |-> None]]
  /\ previous = [c \in Conn |-> None]
  /\ stop = "no" /\ outcome = "none" /\ closing = {}
  /\ kicked = {}
  /\ closedEvents = <<>> /\ dropped = 0
  /\ dispatcher = "idle" /\ event = Nobody
  /\ present = {}

Goto(c, step) == pc' = [pc EXCEPT ![c] = step]
Shut(c) == open' = [open EXCEPT ![c] = FALSE]

-----------------------------------------------------------------------------
(* acceptLoop *)

\* A slot is taken before the lock; without one the connection is closed.
Accept(c) ==
  /\ acceptor = "accept" /\ pc[c] = "none" /\ Listening
  /\ IF connectionSlots < MaxConnections
       THEN /\ connectionSlots' = connectionSlots + 1
            /\ acceptor' = "admit" /\ arrived' = c
            /\ Goto(c, "accepted") /\ open' = [open EXCEPT ![c] = TRUE]
       ELSE /\ Goto(c, "gone")
            /\ UNCHANGED <<connectionSlots, acceptor, arrived, open>>
  /\ UNCHANGED <<connections, ipConnections, handshakeSlots, sessionVars,
                 stopVars, kicked, eventVars, present>>

\* Under the lock: refused while stopping, refused per host, or filed.
Admit ==
  LET c == arrived  h == HostOf[arrived] IN
  /\ acceptor = "admit"
  /\ arrived' = None
  /\ IF Cancelled \/ ipConnections[h] >= MaxConnectionsPerIP
       THEN /\ connectionSlots' = connectionSlots - 1
            /\ acceptor' = IF Cancelled THEN "gone" ELSE "accept"
            /\ Goto(c, "gone") /\ Shut(c)
            /\ UNCHANGED <<connections, ipConnections>>
       ELSE /\ connections' = connections \cup {c}
            /\ ipConnections' = [ipConnections EXCEPT ![h] = @ + 1]
            /\ acceptor' = "accept" /\ Goto(c, "queued")
            /\ UNCHANGED <<connectionSlots, open>>
  /\ UNCHANGED <<handshakeSlots, sessionVars, stopVars, kicked, eventVars, present>>

\* Accept fails because the listener is closed.  Other failures back off and
\* change nothing.
AcceptEnds ==
  /\ acceptor = "accept" /\ ~Listening
  /\ acceptor' = "gone"
  /\ UNCHANGED <<arrived, pc, open, limitVars, sessionVars, stopVars, kicked,
                 eventVars, present>>

-----------------------------------------------------------------------------
(* serveConnection *)

\* Waiting for a handshake slot ends with a slot, with the deadline, or with
\* the server's context.
TakeHandshakeSlot(c) ==
  /\ pc[c] = "queued"
  /\ \/ /\ handshakeSlots < MaxHandshakes
        /\ handshakeSlots' = handshakeSlots + 1 /\ Goto(c, "handshake")
        /\ UNCHANGED open
     \/ /\ Goto(c, "teardown") /\ Shut(c)
        /\ UNCHANGED handshakeSlots
  /\ UNCHANGED <<acceptVars, connections, ipConnections, connectionSlots,
                 sessionVars, stopVars, kicked, eventVars, present>>

\* The authentication frame is read and the ticket checked; the slot is given
\* back whatever comes of it.
Authenticate(c) ==
  /\ pc[c] = "handshake"
  /\ handshakeSlots' = handshakeSlots - 1
  /\ \/ /\ open[c]
        /\ \E who \in Principal : principal' = [principal EXCEPT ![c] = who]
        /\ Goto(c, "ack") /\ UNCHANGED open
     \/ Goto(c, "teardown") /\ Shut(c) /\ UNCHANGED principal
  /\ UNCHANGED <<acceptVars, connections, ipConnections, connectionSlots,
                 sessions, playerSessions, previous, stopVars, kicked,
                 eventVars, present>>

\* The acknowledgement is written before the session is registered.
Acknowledge(c) ==
  /\ pc[c] = "ack"
  /\ \/ open[c] /\ ~Cancelled /\ Goto(c, "register")
     \/ Goto(c, "teardown")
  /\ UNCHANGED <<acceptVars, open, limitVars, sessionVars, stopVars, kicked,
                 eventVars, present>>

\* registerSession, under the lock.
Register(c) ==
  LET s == Session(c)  p == PlayerOf(c) IN
  /\ pc[c] = "register"
  /\ sessions' = [sessions EXCEPT ![s] = c]
  /\ playerSessions' = [playerSessions EXCEPT ![p][s] = c]
  /\ previous' = [previous EXCEPT ![c] = sessions[s]]
  /\ Goto(c, "replace")
  /\ UNCHANGED <<acceptVars, open, limitVars, principal, stopVars, kicked,
                 eventVars, present>>

\* registerSession, after the lock: the session that was replaced is closed.
Replace(c) ==
  /\ pc[c] = "replace"
  /\ open' = [d \in Conn |-> open[d] /\ d # previous[c]]
  /\ previous' = [previous EXCEPT ![c] = None]
  /\ Goto(c, "serving")
  /\ UNCHANGED <<acceptVars, limitVars, principal, sessions, playerSessions,
                 stopVars, kicked, eventVars, present>>

\* A frame arrives whose header and sequence pass.
ReadFrame(c) ==
  /\ pc[c] = "serving" /\ open[c]
  /\ Goto(c, "dispatch")
  /\ UNCHANGED <<acceptVars, open, limitVars, sessionVars, stopVars, kicked,
                 eventVars, present>>

\* The request enters the world channel or does something else; it may fail,
\* and so may the reply.
Dispatch(c) ==
  /\ pc[c] = "dispatch"
  /\ \/ Goto(c, "serving") \/ Goto(c, "unregister")
  /\ present' \in {present, present \cup {PlayerOf(c)}}
  /\ UNCHANGED <<acceptVars, open, limitVars, sessionVars, stopVars, kicked,
                 eventVars>>

\* End of file, a bad frame, the idle deadline, or a socket closed under it.
ReadEnds(c) ==
  /\ pc[c] = "serving"
  /\ Goto(c, "unregister")
  /\ UNCHANGED <<acceptVars, open, limitVars, sessionVars, stopVars, kicked,
                 eventVars, present>>

\* Bug kept as an alternative: the entry is deleted by its key alone.
FaultyUnregister(c) ==
  LET s == Session(c)  p == PlayerOf(c) IN
  /\ pc[c] = "unregister"
  /\ sessions' = [sessions EXCEPT ![s] = None]
  /\ playerSessions' = [playerSessions EXCEPT ![p][s] = None]
  /\ Goto(c, "publish")
  /\ UNCHANGED <<acceptVars, open, limitVars, principal, previous, stopVars,
                 kicked, eventVars, present>>

\* unregisterSession, under the lock: only what is still this session's.
Unregister(c) ==
  LET s == Session(c)  p == PlayerOf(c) IN
  /\ pc[c] = "unregister"
  /\ sessions' = [sessions EXCEPT ![s] = IF @ = c THEN None ELSE @]
  /\ playerSessions' =
       [playerSessions EXCEPT ![p][s] = IF @ = c THEN None ELSE @]
  /\ Goto(c, "publish")
  /\ UNCHANGED <<acceptVars, open, limitVars, principal, previous, stopVars,
                 kicked, eventVars, present>>

\* publishClosed: a full queue drops the event.
Publish(c) ==
  /\ pc[c] = "publish"
  /\ IF Len(closedEvents) < QueueSize
       THEN closedEvents' = Append(closedEvents, principal[c]) /\ UNCHANGED dropped
       ELSE dropped' = 1 /\ UNCHANGED closedEvents
  /\ Goto(c, "teardown")
  /\ UNCHANGED <<acceptVars, open, limitVars, sessionVars, stopVars, kicked,
                 dispatcher, event, present>>

\* The deferred session.Close, and the unfiling under the lock.
Teardown(c) ==
  /\ pc[c] = "teardown"
  /\ connections' = connections \ {c}
  /\ ipConnections' = [ipConnections EXCEPT ![HostOf[c]] = @ - 1]
  /\ Goto(c, "release") /\ Shut(c)
  /\ UNCHANGED <<acceptVars, connectionSlots, handshakeSlots, sessionVars,
                 stopVars, kicked, eventVars, present>>

\* The slot is given back and the goroutine ends (wait.Done).
Release(c) ==
  /\ pc[c] = "release"
  /\ connectionSlots' = connectionSlots - 1
  /\ principal' = [principal EXCEPT ![c] = Nobody]
  /\ Goto(c, "gone")
  /\ UNCHANGED <<acceptVars, open, connections, ipConnections, handshakeSlots,
                 sessions, playerSessions, previous, stopVars, kicked, eventVars,
                 present>>

Serve(c) ==
  \/ TakeHandshakeSlot(c) \/ Authenticate(c) \/ Acknowledge(c) \/ Register(c)
  \/ Replace(c) \/ ReadFrame(c) \/ Dispatch(c) \/ ReadEnds(c) \/ Unregister(c)
  \/ Publish(c) \/ Teardown(c) \/ Release(c)

-----------------------------------------------------------------------------
(* CloseSessions: a snapshot under the lock, the closes outside it. *)

SnapshotSessions(p) ==
  /\ kicked = {} /\ ServerStored
  /\ kicked' = {playerSessions[p][s] : s \in SessionId} \ {None}
  /\ UNCHANGED <<acceptVars, pc, open, limitVars, sessionVars, stopVars,
                 eventVars, present>>

CloseKicked(c) ==
  /\ c \in kicked
  /\ kicked' = kicked \ {c} /\ Shut(c)
  /\ UNCHANGED <<acceptVars, pc, limitVars, sessionVars, stopVars, eventVars,
                 present>>

-----------------------------------------------------------------------------
(* Mod.StopWithContext and Server.Stop *)

Unlink ==
  /\ stop = "no" /\ stop' = "unlinked"
  /\ UNCHANGED <<acceptVars, pc, open, limitVars, sessionVars, outcome, closing,
                 kicked, eventVars, present>>

\* Under the lock: stopping is set, the context cancelled, and every filed
\* connection noted.
StopLocked ==
  /\ stop = "unlinked" /\ stop' = "locked"
  /\ closing' = connections
  /\ UNCHANGED <<acceptVars, pc, open, limitVars, sessionVars, outcome, kicked,
                 eventVars, present>>

CloseListener ==
  /\ stop = "locked" /\ stop' = "closing"
  /\ UNCHANGED <<acceptVars, pc, open, limitVars, sessionVars, outcome, closing,
                 kicked, eventVars, present>>

CloseConnections ==
  /\ stop = "closing"
  /\ IF closing = {}
       THEN stop' = "waiting" /\ UNCHANGED <<open, closing>>
       ELSE \E c \in closing : closing' = closing \ {c} /\ Shut(c) /\ UNCHANGED stop
  /\ UNCHANGED <<acceptVars, pc, limitVars, sessionVars, outcome, kicked,
                 eventVars, present>>

\* The wait group counts the accept loop and every served connection.
AwaitGoroutines ==
  /\ stop = "waiting" /\ stop' = "draining"
  /\ \/ /\ acceptor = "gone" /\ \A c \in Conn : pc[c] \in {"none", "gone"}
        /\ outcome' = "ok"
     \/ outcome' = "timeout"
  /\ UNCHANGED <<acceptVars, pc, open, limitVars, sessionVars, closing, kicked,
                 eventVars, present>>

\* stopLifecycle waits for the dispatcher.
Stopped ==
  /\ stop = "draining" /\ dispatcher = "gone" /\ stop' = "done"
  /\ UNCHANGED <<acceptVars, pc, open, limitVars, sessionVars, outcome, closing,
                 kicked, eventVars, present>>

-----------------------------------------------------------------------------
(* dispatchClosed, with the presence subscriber *)

TakeEvent ==
  /\ dispatcher = "idle" /\ closedEvents # <<>>
  /\ event' = Head(closedEvents) /\ closedEvents' = Tail(closedEvents)
  /\ dispatcher' = "ask"
  /\ UNCHANGED <<acceptVars, pc, open, limitVars, sessionVars, stopVars, kicked,
                 dropped, present>>

\* Bug kept as an alternative: on stop the queued events are not drained.
FaultyLeaveLoop ==
  /\ dispatcher = "idle" /\ stop = "draining"
  /\ dispatcher' = "gone"
  /\ UNCHANGED <<acceptVars, pc, open, limitVars, sessionVars, stopVars, kicked,
                 closedEvents, dropped, event, present>>

\* The loop ends on stopLifecycle, once the queue is drained.
LeaveLoop ==
  /\ dispatcher = "idle" /\ stop = "draining" /\ closedEvents = <<>>
  /\ dispatcher' = "gone"
  /\ UNCHANGED <<acceptVars, pc, open, limitVars, sessionVars, stopVars, kicked,
                 closedEvents, dropped, event, present>>

\* Runtime.ActiveSessions(p) > 0
Active(p) == ServerStored /\ \E s \in SessionId : playerSessions[p][s] # None

AskActive ==
  /\ dispatcher = "ask"
  /\ dispatcher' = IF Active(event.player) THEN "idle" ELSE "remove"
  /\ event' = IF dispatcher' = "idle" THEN Nobody ELSE event
  /\ UNCHANGED <<acceptVars, pc, open, limitVars, sessionVars, stopVars, kicked,
                 closedEvents, dropped, present>>

\* Bug kept as an alternative: a callback that panics takes the loop with it.
FaultyRemovePresence ==
  /\ dispatcher = "remove" /\ dispatcher' \in {"idle", "gone"}
  /\ present' = present \ {event.player} /\ event' = Nobody
  /\ UNCHANGED <<acceptVars, pc, open, limitVars, sessionVars, stopVars, kicked,
                 closedEvents, dropped>>

\* The callback runs under a recover (callClosedSubscriber).
RemovePresence ==
  /\ dispatcher = "remove" /\ dispatcher' = "idle"
  /\ present' = present \ {event.player} /\ event' = Nobody
  /\ UNCHANGED <<acceptVars, pc, open, limitVars, sessionVars, stopVars, kicked,
                 closedEvents, dropped>>

-----------------------------------------------------------------------------
Accepting == (\E c \in Conn : Accept(c)) \/ Admit \/ AcceptEnds
Stopping == Unlink \/ StopLocked \/ CloseListener \/ CloseConnections
            \/ AwaitGoroutines \/ Stopped
Dispatching == TakeEvent \/ LeaveLoop \/ AskActive \/ RemovePresence
Kicking == \/ \E p \in Player : SnapshotSessions(p)
           \/ \E c \in Conn : CloseKicked(c)

Next == Accepting \/ (\E c \in Conn : Serve(c)) \/ Kicking \/ Stopping \/ Dispatching

Spec == Init /\ [][Next]_vars

\* A goroutine that can run does.  Waiting for a slot and reading the ticket
\* end with their deadlines, dispatch returns, and a read on a closed socket
\* fails.  Nobody has to connect, send a frame, or stop the server.
Fairness ==
  /\ WF_vars(Admit \/ AcceptEnds)
  /\ \A c \in Conn :
       /\ WF_vars(Serve(c) /\ pc[c] # "serving")
       /\ WF_vars(ReadEnds(c) /\ ~open[c])
  /\ WF_vars(\E c \in Conn : CloseKicked(c))
  /\ WF_vars(Stopping /\ stop # "no")
  /\ WF_vars(Dispatching)

FairSpec == Spec /\ Fairness
-----------------------------------------------------------------------------
(* Properties *)

Filed == {c \in Conn : pc[c] \notin {"none", "accepted", "release", "gone"}}

TypeOK ==
  /\ acceptor \in {"accept", "admit", "gone"} /\ arrived \in Conn \cup {None}
  /\ pc \in [Conn -> Registered \cup {"none", "accepted", "queued", "handshake",
                     "ack", "register", "publish", "teardown",
                     "release", "gone"}]
  /\ open \in [Conn -> BOOLEAN]
  /\ connections \subseteq Conn /\ ipConnections \in [Hosts -> Nat]
  /\ connectionSlots \in 0..MaxConnections /\ handshakeSlots \in 0..MaxHandshakes
  /\ principal \in [Conn -> Principal \cup {Nobody}]
  /\ sessions \in [SessionId -> Conn \cup {None}]
  /\ playerSessions \in [Player -> [SessionId -> Conn \cup {None}]]
  /\ previous \in [Conn -> Conn \cup {None}]
  /\ stop \in {"no", "unlinked", "locked", "closing", "waiting", "draining", "done"}
  /\ outcome \in {"none", "ok", "timeout"}
  /\ closing \subseteq Conn /\ kicked \subseteq Conn
  /\ closedEvents \in Seq(Event) /\ Len(closedEvents) <= QueueSize
  /\ dropped \in 0..1
  /\ dispatcher \in {"idle", "ask", "remove", "gone"}
  /\ event \in Event \cup {Nobody}
  /\ present \subseteq Player

\* serveConnection's defers: whatever way a connection ends, every slot and
\* every count it took is given back, once.
LimitsExact ==
  /\ connections = Filed
  /\ \A h \in Hosts : ipConnections[h] = Cardinality({c \in Filed : HostOf[c] = h})
  /\ connectionSlots = Cardinality({c \in Conn : pc[c] \notin {"none", "gone"}})
  /\ handshakeSlots = Cardinality({c \in Conn : pc[c] = "handshake"})

\* registerSession and unregisterSession: who is served is found by session id
\* and by player, unless their socket is closed or about to be by the session
\* that replaced theirs; and no table holds a connection that has left.
TablesHonest ==
  /\ \A c \in Conn : pc[c] \in Registered =>
       \/ sessions[Session(c)] = c /\ playerSessions[PlayerOf(c)][Session(c)] = c
       \/ ~open[c]
       \/ \E d \in Conn : pc[d] = "replace" /\ previous[d] = c
  /\ \A s \in SessionId : sessions[s] # None =>
       pc[sessions[s]] \in Registered /\ Session(sessions[s]) = s
  /\ \A p \in Player, s \in SessionId :
       LET c == playerSessions[p][s] IN
       c # None => pc[c] \in Registered /\ principal[c] = [player |-> p, session |-> s]

\* What the server counts and files is what its connections are: limits given
\* back exactly (serveConnection), tables that hold who is served.
Bookkeeping == TypeOK /\ LimitsExact /\ TablesHonest

\* Server.Stop returns nil only when nothing is left of the server, and
\* stopLifecycle then leaves no close event undelivered.
StopComplete ==
  stop = "done" /\ outcome = "ok" =>
    /\ acceptor = "gone"
    /\ \A c \in Conn : pc[c] \in {"none", "gone"} /\ ~open[c]
    /\ \A s \in SessionId : sessions[s] = None
    /\ closedEvents = <<>>

\* RR-20260918-06: whoever maintains an online set from close events alone
\* lets go of everybody who is gone, unless an event was dropped or the server
\* did not stop in time.
PresenceConverges ==
  \A p \in Player :
    <>[](\A c \in Conn : pc[c] \in Registered => PlayerOf(c) # p) =>
      []<>(p \notin present \/ dropped > 0 \/ outcome = "timeout")

=============================================================================
