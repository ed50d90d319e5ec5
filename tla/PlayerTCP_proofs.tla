-------------------------- MODULE PlayerTCP_proofs --------------------------
(***************************************************************************)
(* The player TCP listener, for any connections, players, hosts and limits: *)
(* every slot and count that is taken is given back once, the tables hold   *)
(* who is served, and a Stop that reports success leaves nothing behind.    *)
(* Connections need not be finite in number: those alive at once are.       *)
(***************************************************************************)
EXTENDS PlayerTCP, FiniteSetTheorems, TLAPS

USE LimitsAssumption, NoneAssumption

-----------------------------------------------------------------------------
(* What the variables hold, and at which step of a goroutine                *)

Steps == Registered \cup {"none", "accepted", "queued", "handshake", "ack", "register",
                          "publish", "teardown", "release", "gone"}
Known == Registered \cup {"ack", "register", "publish"}

\* The accept loop holds the one connection that is accepted and not filed.
AcceptInv ==
  /\ acceptor \in {"accept", "admit", "gone"} /\ arrived \in Conn \cup {None}
  /\ acceptor = "admit" => arrived \in Conn
  /\ pc \in [Conn -> Steps]
  /\ \A c \in Conn : pc[c] = "accepted" <=> (acceptor = "admit" /\ arrived = c)

\* A socket is closed before its goroutine releases what it took.
OpenInv ==
  /\ open \in [Conn -> BOOLEAN]
  /\ \A c \in Conn : pc[c] \in {"none", "release", "gone"} => ~open[c]

WhoInv ==
  /\ principal \in [Conn -> Principal \cup {Nobody}]
  /\ \A c \in Conn : pc[c] \in Known => principal[c] \in Principal

TableTypes ==
  /\ sessions \in [SessionId -> Conn \cup {None}]
  /\ playerSessions \in [Player -> [SessionId -> Conn \cup {None}]]
  /\ previous \in [Conn -> Conn \cup {None}]

EventInv ==
  /\ closedEvents \in Seq(Event) /\ Len(closedEvents) <= QueueSize
  /\ dropped \in 0..1 /\ dispatcher \in {"idle", "ask", "remove", "gone"}
  /\ event \in Event \cup {Nobody} /\ present \subseteq Player

SetTypes ==
  /\ connections \subseteq Conn /\ closing \subseteq Conn /\ kicked \subseteq Conn
  /\ stop \in {"no", "unlinked", "locked", "closing", "waiting", "draining", "done"}
  /\ outcome \in {"none", "ok", "timeout"}

ShapeInv == AcceptInv /\ OpenInv /\ WhoInv /\ TableTypes /\ EventInv /\ SetTypes

LEMMA ShapeInit == Init => ShapeInv
<1> SUFFICES ASSUME Init PROVE ShapeInv  OBVIOUS
<1>1. AcceptInv  BY DEF Init, AcceptInv, Steps
<1>2. OpenInv  BY DEF Init, OpenInv
<1>3. WhoInv  BY DEF Init, WhoInv, Known, Registered
<1>4. TableTypes  BY DEF Init, TableTypes
<1>5. EventInv  BY DEF Init, EventInv
<1>6. SetTypes  BY DEF Init, SetTypes
<1> QED  BY <1>1, <1>2, <1>3, <1>4, <1>5, <1>6 DEF ShapeInv

\* Who a connection belongs to is known when it is registered and reported.
LEMMA Whose ==
  ASSUME ShapeInv, NEW c \in Conn, pc[c] \in Known
  PROVE  principal[c] \in Principal /\ Session(c) \in SessionId /\ PlayerOf(c) \in Player
BY DEF ShapeInv, WhoInv, Session, PlayerOf, Principal

\* What the goroutines that serve no connection leave alone.
LEMMA OthersLeave ==
  /\ Kicking => UNCHANGED <<acceptVars, pc, limitVars, sessionVars, stopVars, eventVars, present>>
  /\ Stopping => UNCHANGED <<acceptVars, pc, limitVars, sessionVars, kicked, eventVars, present>>
  /\ Dispatching => UNCHANGED <<acceptVars, pc, open, limitVars, sessionVars, stopVars, kicked,
                               dropped>>
<1>1. Kicking => UNCHANGED <<acceptVars, pc, limitVars, sessionVars, stopVars, eventVars, present>>
  BY DEF Kicking, SnapshotSessions, CloseKicked
<1>2. Stopping => UNCHANGED <<acceptVars, pc, limitVars, sessionVars, kicked, eventVars, present>>
  BY DEF Stopping, Unlink, StopLocked, CloseListener, CloseConnections, AwaitGoroutines, Stopped
<1>3. Dispatching => UNCHANGED <<acceptVars, pc, open, limitVars, sessionVars, stopVars, kicked,
                                 dropped>>
  BY DEF Dispatching, TakeEvent, LeaveLoop, AskActive, RemovePresence
<1> QED  BY <1>1, <1>2, <1>3

LEMMA AcceptStep ==
  ASSUME AcceptInv, [Next]_vars
  PROVE  AcceptInv'
<1> USE DEF AcceptInv, Steps, Registered
<1>1. ASSUME NEW c \in Conn, Accept(c) PROVE AcceptInv'
  BY <1>1 DEF Accept, Goto
<1>2. CASE Admit  BY <1>2 DEF Admit, Goto
<1>3. CASE AcceptEnds  BY <1>3 DEF AcceptEnds
<1>4. ASSUME NEW c \in Conn, Serve(c) PROVE AcceptInv'
  <2>1. /\ UNCHANGED acceptVars /\ pc[c] # "accepted"
        /\ \E s \in Steps \ {"accepted"} : pc' = [pc EXCEPT ![c] = s]
    <3>1. CASE TakeHandshakeSlot(c)  BY <3>1 DEF TakeHandshakeSlot, Goto
    <3>2. CASE Authenticate(c)  BY <3>2 DEF Authenticate, Goto
    <3>3. CASE Acknowledge(c)  BY <3>3 DEF Acknowledge, Goto
    <3>4. CASE Register(c)  BY <3>4 DEF Register, Goto
    <3>5. CASE Replace(c)  BY <3>5 DEF Replace, Goto
    <3>6. CASE ReadFrame(c)  BY <3>6 DEF ReadFrame, Goto
    <3>7. CASE Dispatch(c)  BY <3>7 DEF Dispatch, Goto
    <3>8. CASE ReadEnds(c)  BY <3>8 DEF ReadEnds, Goto
    <3>9. CASE Unregister(c)  BY <3>9 DEF Unregister, Goto
    <3>10. CASE Publish(c)  BY <3>10 DEF Publish, Goto
    <3>11. CASE Teardown(c)  BY <3>11 DEF Teardown, Goto
    <3>12. CASE Release(c)  BY <3>12 DEF Release, Goto
    <3> QED  BY <1>4, <3>1, <3>2, <3>3, <3>4, <3>5, <3>6, <3>7, <3>8, <3>9, <3>10, <3>11, <3>12 DEF Serve
  <2> QED  BY <2>1 DEF acceptVars
<1>5. CASE Kicking \/ Stopping \/ Dispatching \/ UNCHANGED vars
  <2>1. UNCHANGED <<acceptVars, pc>>  BY <1>5, OthersLeave DEF vars
  <2> QED  BY <2>1 DEF acceptVars
<1> QED  BY <1>1, <1>2, <1>3, <1>4, <1>5 DEF Next, Accepting

LEMMA OpenStep ==
  ASSUME ShapeInv, [Next]_vars
  PROVE  OpenInv'
<1> USE DEF ShapeInv, OpenInv, AcceptInv, Steps, Registered
<1>1. ASSUME NEW c \in Conn, Accept(c) PROVE OpenInv'
  BY <1>1 DEF Accept, Goto, Shut
<1>2. CASE Admit  BY <1>2 DEF Admit, Goto, Shut
<1>3. CASE AcceptEnds  BY <1>3 DEF AcceptEnds, Goto, Shut
<1>4. ASSUME NEW c \in Conn, Serve(c) PROVE OpenInv'
  <2>1. CASE TakeHandshakeSlot(c)  BY <2>1 DEF TakeHandshakeSlot, Goto, Shut
  <2>2. CASE Authenticate(c)  BY <2>2 DEF Authenticate, Goto, Shut
  <2>3. CASE Acknowledge(c)  BY <2>3 DEF Acknowledge, Goto, Shut
  <2>4. CASE Register(c)  BY <2>4 DEF Register, Goto, Shut
  <2>5. CASE Replace(c)  BY <2>5 DEF Replace, Goto, Shut
  <2>6. CASE ReadFrame(c)  BY <2>6 DEF ReadFrame, Goto, Shut
  <2>7. CASE Dispatch(c)  BY <2>7 DEF Dispatch, Goto, Shut
  <2>8. CASE ReadEnds(c)  BY <2>8 DEF ReadEnds, Goto, Shut
  <2>9. CASE Unregister(c)  BY <2>9 DEF Unregister, Goto, Shut
  <2>10. CASE Publish(c)  BY <2>10 DEF Publish, Goto, Shut
  <2>11. CASE Teardown(c)  BY <2>11 DEF Teardown, Goto, Shut
  <2>12. CASE Release(c)  BY <2>12 DEF Release, Goto, Shut
  <2> QED  BY <1>4, <2>1, <2>2, <2>3, <2>4, <2>5, <2>6, <2>7, <2>8, <2>9, <2>10, <2>11, <2>12 DEF Serve
<1>5. CASE Kicking
  <2>1. UNCHANGED pc  BY <1>5, OthersLeave
  <2>2. CASE UNCHANGED open  BY <2>1, <2>2
  <2>3. ASSUME NEW d \in Conn, Shut(d) PROVE OpenInv'  BY <2>1, <2>3 DEF Shut
  <2> QED  BY <1>5, <2>2, <2>3 DEF Kicking, SnapshotSessions, CloseKicked
<1>6. CASE Stopping
  <2>1. UNCHANGED pc  BY <1>6, OthersLeave
  <2>2. CASE UNCHANGED open  BY <2>1, <2>2
  <2>3. ASSUME NEW d, Shut(d) PROVE OpenInv'  BY <2>1, <2>3 DEF Shut
  <2> QED
    BY <1>6, <2>2, <2>3 DEF Stopping, Unlink, StopLocked, CloseListener, CloseConnections,
                            AwaitGoroutines, Stopped
<1>7. CASE Dispatching  BY <1>7, OthersLeave
<1>8. CASE UNCHANGED vars  BY <1>8 DEF vars
<1> QED  BY <1>1, <1>2, <1>3, <1>4, <1>5, <1>6, <1>7, <1>8 DEF Next, Accepting

LEMMA WhoStep ==
  ASSUME ShapeInv, [Next]_vars
  PROVE  WhoInv'
<1> USE DEF ShapeInv, WhoInv, AcceptInv, Known, Steps, Registered
<1>1. ASSUME NEW c \in Conn, Accept(c) PROVE WhoInv'
  BY <1>1 DEF Accept, Goto, sessionVars
<1>2. CASE Admit  BY <1>2 DEF Admit, Goto, sessionVars
<1>3. CASE AcceptEnds  BY <1>3 DEF AcceptEnds, Goto, sessionVars
<1>4. ASSUME NEW c \in Conn, Serve(c) PROVE WhoInv'
  <2>1. CASE TakeHandshakeSlot(c)  BY <2>1 DEF TakeHandshakeSlot, Goto, sessionVars
  <2>2. CASE Authenticate(c)  BY <2>2 DEF Authenticate, Goto, sessionVars
  <2>3. CASE Acknowledge(c)  BY <2>3 DEF Acknowledge, Goto, sessionVars
  <2>4. CASE Register(c)  BY <2>4 DEF Register, Goto, sessionVars
  <2>5. CASE Replace(c)  BY <2>5 DEF Replace, Goto, sessionVars
  <2>6. CASE ReadFrame(c)  BY <2>6 DEF ReadFrame, Goto, sessionVars
  <2>7. CASE Dispatch(c)  BY <2>7 DEF Dispatch, Goto, sessionVars
  <2>8. CASE ReadEnds(c)  BY <2>8 DEF ReadEnds, Goto, sessionVars
  <2>9. CASE Unregister(c)  BY <2>9 DEF Unregister, Goto, sessionVars
  <2>10. CASE Publish(c)  BY <2>10 DEF Publish, Goto, sessionVars
  <2>11. CASE Teardown(c)  BY <2>11 DEF Teardown, Goto, sessionVars
  <2>12. CASE Release(c)  BY <2>12 DEF Release, Goto, sessionVars
  <2> QED  BY <1>4, <2>1, <2>2, <2>3, <2>4, <2>5, <2>6, <2>7, <2>8, <2>9, <2>10, <2>11, <2>12 DEF Serve
<1>5. CASE Kicking  BY <1>5, OthersLeave DEF sessionVars
<1>6. CASE Stopping  BY <1>6, OthersLeave DEF sessionVars
<1>7. CASE Dispatching  BY <1>7, OthersLeave DEF sessionVars
<1>8. CASE UNCHANGED vars  BY <1>8 DEF vars, sessionVars
<1> QED  BY <1>1, <1>2, <1>3, <1>4, <1>5, <1>6, <1>7, <1>8 DEF Next, Accepting

LEMMA TableTypesStep ==
  ASSUME ShapeInv, [Next]_vars
  PROVE  TableTypes'
<1>1. ASSUME NEW c \in Conn, Accept(c) PROVE TableTypes'
  BY <1>1 DEF ShapeInv, TableTypes, Accept, sessionVars
<1>2. CASE Admit  BY <1>2 DEF ShapeInv, TableTypes, Admit, sessionVars
<1>3. CASE AcceptEnds  BY <1>3 DEF ShapeInv, TableTypes, AcceptEnds, sessionVars
<1>4. ASSUME NEW c \in Conn, Serve(c) PROVE TableTypes'
  <2>1. CASE TakeHandshakeSlot(c)  BY <2>1 DEF ShapeInv, TableTypes, TakeHandshakeSlot, sessionVars
  <2>2. CASE Authenticate(c)  BY <2>2 DEF ShapeInv, TableTypes, Authenticate, sessionVars
  <2>3. CASE Acknowledge(c)  BY <2>3 DEF ShapeInv, TableTypes, Acknowledge, sessionVars
  <2>4. CASE Register(c)
    <3>1. Session(c) \in SessionId  BY <2>4, Whose DEF Register, Known
    <3>2. TableTypes  BY DEF ShapeInv
    <3>3. sessions[Session(c)] \in Conn \cup {None}  BY <3>1, <3>2 DEF TableTypes
    <3>4. sessions' \in [SessionId -> Conn \cup {None}]
      BY <2>4, <3>2 DEF Register, TableTypes
    <3>5. playerSessions' \in [Player -> [SessionId -> Conn \cup {None}]]
      BY <2>4, <3>2 DEF Register, TableTypes
    <3>6. previous' \in [Conn -> Conn \cup {None}]
      BY <2>4, <3>2, <3>3 DEF Register, TableTypes
    <3> QED  BY <3>4, <3>5, <3>6 DEF TableTypes
  <2>5. CASE Replace(c)  BY <2>5 DEF ShapeInv, TableTypes, Replace, sessionVars
  <2>6. CASE ReadFrame(c)  BY <2>6 DEF ShapeInv, TableTypes, ReadFrame, sessionVars
  <2>7. CASE Dispatch(c)  BY <2>7 DEF ShapeInv, TableTypes, Dispatch, sessionVars
  <2>8. CASE ReadEnds(c)  BY <2>8 DEF ShapeInv, TableTypes, ReadEnds, sessionVars
  <2>9. CASE Unregister(c)  BY <2>9 DEF ShapeInv, TableTypes, Unregister, sessionVars
  <2>10. CASE Publish(c)  BY <2>10 DEF ShapeInv, TableTypes, Publish, sessionVars
  <2>11. CASE Teardown(c)  BY <2>11 DEF ShapeInv, TableTypes, Teardown, sessionVars
  <2>12. CASE Release(c)  BY <2>12 DEF ShapeInv, TableTypes, Release, sessionVars
  <2> QED  BY <1>4, <2>1, <2>2, <2>3, <2>4, <2>5, <2>6, <2>7, <2>8, <2>9, <2>10, <2>11, <2>12 DEF ShapeInv, TableTypes, Serve
<1>5. CASE Kicking  BY <1>5, OthersLeave DEF ShapeInv, TableTypes, sessionVars
<1>6. CASE Stopping  BY <1>6, OthersLeave DEF ShapeInv, TableTypes, sessionVars
<1>7. CASE Dispatching  BY <1>7, OthersLeave DEF ShapeInv, TableTypes, sessionVars
<1>8. CASE UNCHANGED vars  BY <1>8 DEF ShapeInv, TableTypes, vars, sessionVars
<1> QED  BY <1>1, <1>2, <1>3, <1>4, <1>5, <1>6, <1>7, <1>8 DEF ShapeInv, TableTypes, Next, Accepting

LEMMA EventStep ==
  ASSUME ShapeInv, [Next]_vars
  PROVE  EventInv'
<1>1. ASSUME NEW c \in Conn, Accept(c) PROVE EventInv'
  BY <1>1 DEF ShapeInv, EventInv, Accept, eventVars
<1>2. CASE Admit  BY <1>2 DEF ShapeInv, EventInv, Admit, eventVars
<1>3. CASE AcceptEnds  BY <1>3 DEF ShapeInv, EventInv, AcceptEnds, eventVars
<1>4. ASSUME NEW c \in Conn, Serve(c) PROVE EventInv'
  <2>1. CASE TakeHandshakeSlot(c)  BY <2>1 DEF ShapeInv, EventInv, TakeHandshakeSlot, eventVars
  <2>2. CASE Authenticate(c)  BY <2>2 DEF ShapeInv, EventInv, Authenticate, eventVars
  <2>3. CASE Acknowledge(c)  BY <2>3 DEF ShapeInv, EventInv, Acknowledge, eventVars
  <2>4. CASE Register(c)  BY <2>4 DEF ShapeInv, EventInv, Register, eventVars
  <2>5. CASE Replace(c)  BY <2>5 DEF ShapeInv, EventInv, Replace, eventVars
  <2>6. CASE ReadFrame(c)  BY <2>6 DEF ShapeInv, EventInv, ReadFrame, eventVars
  <2>7. CASE Dispatch(c)
    <3>1. PlayerOf(c) \in Player  BY <2>7, Whose DEF Dispatch, Known, Registered
    <3>2. present' \subseteq Player  BY <2>7, <3>1 DEF Dispatch, ShapeInv, EventInv
    <3> QED  BY <2>7, <3>2 DEF Dispatch, ShapeInv, EventInv, eventVars
  <2>8. CASE ReadEnds(c)  BY <2>8 DEF ShapeInv, EventInv, ReadEnds, eventVars
  <2>9. CASE Unregister(c)  BY <2>9 DEF ShapeInv, EventInv, Unregister, eventVars
  <2>10. CASE Publish(c)
    <3>1. principal[c] \in Event  BY <2>10, Whose DEF Publish, Known, Event
    <3>2. closedEvents \in Seq(Event) /\ Len(closedEvents) <= QueueSize
      BY DEF ShapeInv, EventInv
    <3>3. closedEvents' \in Seq(Event) /\ Len(closedEvents') <= QueueSize
      <4>1. CASE closedEvents' = Append(closedEvents, principal[c]) /\ Len(closedEvents) < QueueSize
        BY <3>1, <3>2, <4>1
      <4>2. CASE UNCHANGED closedEvents  BY <3>2, <4>2
      <4> QED  BY <2>10, <4>1, <4>2 DEF Publish
    <3>4. dropped' \in 0..1  BY <2>10 DEF Publish, ShapeInv, EventInv
    <3> QED  BY <2>10, <3>3, <3>4 DEF Publish, ShapeInv, EventInv
  <2>11. CASE Teardown(c)  BY <2>11 DEF ShapeInv, EventInv, Teardown, eventVars
  <2>12. CASE Release(c)  BY <2>12 DEF ShapeInv, EventInv, Release, eventVars
  <2> QED  BY <1>4, <2>1, <2>2, <2>3, <2>4, <2>5, <2>6, <2>7, <2>8, <2>9, <2>10, <2>11, <2>12 DEF ShapeInv, EventInv, Serve
<1>5. CASE Kicking  BY <1>5, OthersLeave DEF ShapeInv, EventInv, eventVars
<1>6. CASE Stopping  BY <1>6, OthersLeave DEF ShapeInv, EventInv, eventVars
<1>7. CASE Dispatching
  <2>1. CASE TakeEvent  BY <2>1 DEF ShapeInv, EventInv, TakeEvent
  <2>2. CASE LeaveLoop  BY <2>2 DEF ShapeInv, EventInv, LeaveLoop
  <2>3. CASE AskActive  BY <2>3 DEF ShapeInv, EventInv, AskActive
  <2>4. CASE RemovePresence  BY <2>4 DEF ShapeInv, EventInv, RemovePresence
  <2> QED  BY <1>7, <2>1, <2>2, <2>3, <2>4 DEF ShapeInv, EventInv, Dispatching
<1>8. CASE UNCHANGED vars  BY <1>8 DEF ShapeInv, EventInv, vars, eventVars
<1> QED  BY <1>1, <1>2, <1>3, <1>4, <1>5, <1>6, <1>7, <1>8 DEF ShapeInv, EventInv, Next, Accepting

LEMMA SetTypesStep ==
  ASSUME ShapeInv, [Next]_vars
  PROVE  SetTypes'
<1> USE DEF ShapeInv, SetTypes, AcceptInv, TableTypes
<1>1. ASSUME NEW c \in Conn, Accept(c) PROVE SetTypes'
  BY <1>1 DEF Accept, limitVars, stopVars
<1>2. CASE Admit  BY <1>2 DEF Admit, limitVars, stopVars
<1>3. CASE AcceptEnds  BY <1>3 DEF AcceptEnds, limitVars, stopVars
<1>4. ASSUME NEW c \in Conn, Serve(c) PROVE SetTypes'
  <2>1. CASE TakeHandshakeSlot(c)  BY <2>1 DEF TakeHandshakeSlot, limitVars, stopVars
  <2>2. CASE Authenticate(c)  BY <2>2 DEF Authenticate, limitVars, stopVars
  <2>3. CASE Acknowledge(c)  BY <2>3 DEF Acknowledge, limitVars, stopVars
  <2>4. CASE Register(c)  BY <2>4 DEF Register, limitVars, stopVars
  <2>5. CASE Replace(c)  BY <2>5 DEF Replace, limitVars, stopVars
  <2>6. CASE ReadFrame(c)  BY <2>6 DEF ReadFrame, limitVars, stopVars
  <2>7. CASE Dispatch(c)  BY <2>7 DEF Dispatch, limitVars, stopVars
  <2>8. CASE ReadEnds(c)  BY <2>8 DEF ReadEnds, limitVars, stopVars
  <2>9. CASE Unregister(c)  BY <2>9 DEF Unregister, limitVars, stopVars
  <2>10. CASE Publish(c)  BY <2>10 DEF Publish, limitVars, stopVars
  <2>11. CASE Teardown(c)  BY <2>11 DEF Teardown, limitVars, stopVars
  <2>12. CASE Release(c)  BY <2>12 DEF Release, limitVars, stopVars
  <2> QED  BY <1>4, <2>1, <2>2, <2>3, <2>4, <2>5, <2>6, <2>7, <2>8, <2>9, <2>10, <2>11, <2>12 DEF Serve
<1>5. CASE Kicking
  <2>1. UNCHANGED <<connections, closing, stop, outcome>>  BY <1>5, OthersLeave DEF limitVars, limitVars, stopVars
  <2>2. kicked' \subseteq Conn  BY <1>5 DEF Kicking, SnapshotSessions, CloseKicked
  <2> QED  BY <2>1, <2>2
<1>6. CASE Stopping
  <2>1. CASE Unlink  BY <2>1 DEF Unlink, limitVars
  <2>2. CASE StopLocked  BY <2>2 DEF StopLocked, limitVars
  <2>3. CASE CloseListener  BY <2>3 DEF CloseListener, limitVars
  <2>4. CASE CloseConnections  BY <2>4 DEF CloseConnections, limitVars
  <2>5. CASE AwaitGoroutines  BY <2>5 DEF AwaitGoroutines, limitVars
  <2>6. CASE Stopped  BY <2>6 DEF Stopped, limitVars
  <2> QED  BY <1>6, <2>1, <2>2, <2>3, <2>4, <2>5, <2>6 DEF Stopping
<1>7. CASE Dispatching  BY <1>7, OthersLeave DEF limitVars, limitVars, stopVars
<1>8. CASE UNCHANGED vars  BY <1>8 DEF vars, limitVars, limitVars, stopVars
<1> QED  BY <1>1, <1>2, <1>3, <1>4, <1>5, <1>6, <1>7, <1>8 DEF Next, Accepting

LEMMA ShapeStep ==
  ASSUME ShapeInv, [Next]_vars
  PROVE  ShapeInv'
<1>1. AcceptInv'  BY AcceptStep DEF ShapeInv
<1> QED
  BY <1>1, OpenStep, WhoStep, TableTypesStep, EventStep, SetTypesStep DEF ShapeInv

-----------------------------------------------------------------------------
(* The session tables                                                       *)

\* Who is served holds its session, or its socket is closed, or the session
\* that took its place is about to close it.  The two tables go together.
TablesInv ==
  /\ \A c \in Conn : pc[c] \in Registered =>
       /\ \/ sessions[Session(c)] = c
          \/ ~open[c]
          \/ \E d \in Conn : pc[d] = "replace" /\ previous[d] = c
       /\ sessions[Session(c)] = c => playerSessions[PlayerOf(c)][Session(c)] = c
  /\ \A s \in SessionId : sessions[s] # None =>
       pc[sessions[s]] \in Registered /\ Session(sessions[s]) = s
  /\ \A p \in Player, s \in SessionId : playerSessions[p][s] # None =>
       /\ pc[playerSessions[p][s]] \in Registered
       /\ principal[playerSessions[p][s]] = [player |-> p, session |-> s]

\* A step that leaves the tables and the registered connections as they are.
Quiet ==
  /\ UNCHANGED <<sessions, playerSessions, previous>>
  /\ \A c \in Conn :
       /\ pc'[c] \in Registered <=> pc[c] \in Registered
       /\ pc[c] = "replace" => pc'[c] = "replace"
       /\ pc[c] \in Registered => principal'[c] = principal[c] /\ (open'[c] => open[c])

LEMMA QuietKeepsTables ==
  ASSUME ShapeInv, TablesInv, Quiet
  PROVE  TablesInv'
<1>1. ASSUME NEW c \in Conn, pc'[c] \in Registered
      PROVE  /\ \/ sessions'[Session(c)'] = c
                \/ ~open'[c]
                \/ \E d \in Conn : pc'[d] = "replace" /\ previous'[d] = c
             /\ sessions'[Session(c)'] = c => playerSessions'[PlayerOf(c)'][Session(c)'] = c
  <2>1. /\ pc[c] \in Registered /\ Session(c)' = Session(c) /\ PlayerOf(c)' = PlayerOf(c)
        /\ open'[c] => open[c]
    BY <1>1 DEF Quiet, Session, PlayerOf
  <2>2. /\ \/ sessions[Session(c)] = c \/ ~open[c]
           \/ \E d \in Conn : pc[d] = "replace" /\ previous[d] = c
        /\ sessions[Session(c)] = c => playerSessions[PlayerOf(c)][Session(c)] = c
    BY <2>1 DEF TablesInv
  <2>3. sessions' = sessions /\ playerSessions' = playerSessions /\ previous' = previous
        /\ \A d \in Conn : pc[d] = "replace" => pc'[d] = "replace"
    BY DEF Quiet
  <2> QED  BY <2>1, <2>2, <2>3
<1>2. ASSUME NEW s \in SessionId, sessions'[s] # None
      PROVE  pc'[sessions'[s]] \in Registered /\ Session(sessions[s])' = s
  <2>1. sessions' = sessions /\ sessions[s] \in Conn
    BY <1>2 DEF Quiet, ShapeInv, TableTypes
  <2>2. pc[sessions[s]] \in Registered /\ Session(sessions[s]) = s  BY <1>2, <2>1 DEF TablesInv
  <2> QED  BY <2>1, <2>2 DEF Quiet, Session
<1>3. ASSUME NEW p \in Player, NEW s \in SessionId, playerSessions'[p][s] # None
      PROVE  /\ pc'[playerSessions'[p][s]] \in Registered
             /\ principal'[playerSessions'[p][s]] = [player |-> p, session |-> s]
  <2>1. playerSessions' = playerSessions /\ playerSessions[p][s] \in Conn
    BY <1>3 DEF Quiet, ShapeInv, TableTypes
  <2>2. /\ pc[playerSessions[p][s]] \in Registered
        /\ principal[playerSessions[p][s]] = [player |-> p, session |-> s]
    BY <1>3, <2>1 DEF TablesInv
  <2> QED  BY <2>1, <2>2 DEF Quiet
<1> QED  BY <1>1, <1>2, <1>3 DEF TablesInv

LEMMA TablesInit == Init => TablesInv
BY DEF Init, TablesInv, Registered

LEMMA RegisterKeepsTables ==
  ASSUME ShapeInv, TablesInv, NEW c \in Conn, Register(c)
  PROVE  TablesInv'
<1> DEFINE s == Session(c)
           p == PlayerOf(c)
<1>1. /\ pc[c] = "register" /\ sessions' = [sessions EXCEPT ![s] = c]
      /\ playerSessions' = [playerSessions EXCEPT ![p][s] = c]
      /\ previous' = [previous EXCEPT ![c] = sessions[s]]
      /\ pc' = [pc EXCEPT ![c] = "replace"] /\ UNCHANGED <<open, principal>>
  BY DEF Register, Goto
<1>2. s \in SessionId /\ p \in Player /\ principal[c] \in Principal
  BY <1>1, Whose DEF Known
<1>3. /\ pc \in [Conn -> Steps] /\ sessions \in [SessionId -> Conn \cup {None}]
      /\ playerSessions \in [Player -> [SessionId -> Conn \cup {None}]]
      /\ previous \in [Conn -> Conn \cup {None}]
  BY DEF ShapeInv, AcceptInv, TableTypes
<1>4. principal[c] = [player |-> p, session |-> s]  BY <1>2 DEF Principal, Session, PlayerOf
<1>5. \A d \in Conn : Session(d)' = Session(d) /\ PlayerOf(d)' = PlayerOf(d)
  BY <1>1 DEF Session, PlayerOf
<1>6. \A d \in Conn : pc'[d] = (IF d = c THEN "replace" ELSE pc[d]) /\ "replace" \in Registered
  BY <1>1, <1>3 DEF Registered
<1>7. \A t \in SessionId : sessions'[t] = IF t = s THEN c ELSE sessions[t]
  BY <1>1, <1>3
<1>8. \A q \in Player, t \in SessionId :
        playerSessions'[q][t] = IF q = p /\ t = s THEN c ELSE playerSessions[q][t]
  BY <1>1, <1>3
<1>9. previous'[c] = sessions[s] /\ \A d \in Conn \ {c} : previous'[d] = previous[d]
  BY <1>1, <1>3
<1>10. pc[c] \notin Registered  BY <1>1 DEF Registered
<1> HIDE DEF s, p
<1>11. ASSUME NEW d \in Conn, pc'[d] \in Registered
       PROVE  /\ \/ sessions'[Session(d)] = d
                 \/ ~open[d]
                 \/ \E e \in Conn : pc'[e] = "replace" /\ previous'[e] = d
              /\ sessions'[Session(d)] = d => playerSessions'[PlayerOf(d)][Session(d)] = d
  <2>1. CASE d = c  BY <1>2, <1>7, <1>8, <2>1 DEF s, p
  <2>2. CASE d # c
    <3>1. pc[d] \in Registered /\ Session(d) \in SessionId /\ PlayerOf(d) \in Player
      BY <1>6, <1>11, <2>2, Whose DEF Known
    <3>2. CASE Session(d) = s
      <4>1. sessions'[Session(d)] = c  BY <1>2, <1>7, <3>2
      <4>2. CASE sessions[s] = d  BY <1>6, <1>9, <2>2, <4>1, <4>2
      <4>3. CASE sessions[s] # d
        <5>1. ~open[d] \/ \E e \in Conn : pc[e] = "replace" /\ previous[e] = d
          BY <3>1, <3>2, <4>3 DEF TablesInv
        <5>2. \A e \in Conn : pc[e] = "replace" => e # c  BY <1>1
        <5> QED  BY <1>6, <1>9, <2>2, <4>1, <5>1, <5>2
      <4> QED  BY <4>2, <4>3
    <3>3. CASE Session(d) # s
      <4>1. /\ sessions'[Session(d)] = sessions[Session(d)]
            /\ playerSessions'[PlayerOf(d)][Session(d)] = playerSessions[PlayerOf(d)][Session(d)]
        BY <1>7, <1>8, <3>1, <3>3
      <4>2. /\ \/ sessions[Session(d)] = d \/ ~open[d]
               \/ \E e \in Conn : pc[e] = "replace" /\ previous[e] = d
            /\ sessions[Session(d)] = d => playerSessions[PlayerOf(d)][Session(d)] = d
        BY <3>1 DEF TablesInv
      <4>3. \A e \in Conn : pc[e] = "replace" => e # c  BY <1>1
      <4> QED  BY <1>6, <1>9, <4>1, <4>2, <4>3
    <3> QED  BY <3>2, <3>3
  <2> QED  BY <2>1, <2>2
<1>12. ASSUME NEW t \in SessionId, sessions'[t] # None
       PROVE  pc'[sessions'[t]] \in Registered /\ Session(sessions'[t]) = t
  <2>1. CASE t = s  BY <1>6, <1>7, <2>1 DEF s
  <2>2. CASE t # s
    <3>1. sessions'[t] = sessions[t] /\ sessions[t] \in Conn  BY <1>3, <1>7, <1>12, <2>2
    <3>2. pc[sessions[t]] \in Registered /\ Session(sessions[t]) = t
      BY <1>12, <3>1 DEF TablesInv
    <3> QED  BY <1>6, <3>1, <3>2
  <2> QED  BY <2>1, <2>2
<1>13. ASSUME NEW q \in Player, NEW t \in SessionId, playerSessions'[q][t] # None
       PROVE  /\ pc'[playerSessions'[q][t]] \in Registered
              /\ principal[playerSessions'[q][t]] = [player |-> q, session |-> t]
  <2>1. CASE q = p /\ t = s  BY <1>4, <1>6, <1>8, <2>1
  <2>2. CASE ~(q = p /\ t = s)
    <3>1. playerSessions'[q][t] = playerSessions[q][t] /\ playerSessions[q][t] \in Conn
      BY <1>3, <1>8, <1>13, <2>2
    <3>2. /\ pc[playerSessions[q][t]] \in Registered
          /\ principal[playerSessions[q][t]] = [player |-> q, session |-> t]
      BY <1>13, <3>1 DEF TablesInv
    <3> QED  BY <1>6, <3>1, <3>2
  <2> QED  BY <2>1, <2>2
<1>14. \A t \in SessionId : sessions'[t] # None => sessions'[t] \in Conn  BY <1>3, <1>7
<1> QED  BY <1>1, <1>5, <1>11, <1>12, <1>13, <1>14 DEF TablesInv, Session, PlayerOf

LEMMA ReplaceKeepsTables ==
  ASSUME ShapeInv, TablesInv, NEW c \in Conn, Replace(c)
  PROVE  TablesInv'
<1>1. /\ pc[c] = "replace" /\ open' = [d \in Conn |-> open[d] /\ d # previous[c]]
      /\ previous' = [previous EXCEPT ![c] = None] /\ pc' = [pc EXCEPT ![c] = "serving"]
      /\ UNCHANGED <<principal, sessions, playerSessions>>
  BY DEF Replace, Goto
<1>2. pc \in [Conn -> Steps] /\ previous \in [Conn -> Conn \cup {None}]
  BY DEF ShapeInv, AcceptInv, TableTypes
<1>3. \A d \in Conn :
        /\ pc'[d] \in Registered <=> pc[d] \in Registered
        /\ d # c => pc'[d] = pc[d] /\ previous'[d] = previous[d]
        /\ open'[d] <=> (open[d] /\ d # previous[c])
        /\ Session(d)' = Session(d) /\ PlayerOf(d)' = PlayerOf(d)
  BY <1>1, <1>2 DEF Registered, Session, PlayerOf
<1>4. ASSUME NEW d \in Conn, pc'[d] \in Registered
      PROVE  /\ \/ sessions[Session(d)] = d
                \/ ~open'[d]
                \/ \E e \in Conn : pc'[e] = "replace" /\ previous'[e] = d
             /\ sessions[Session(d)] = d => playerSessions[PlayerOf(d)][Session(d)] = d
  <2>1. /\ \/ sessions[Session(d)] = d \/ ~open[d]
           \/ \E e \in Conn : pc[e] = "replace" /\ previous[e] = d
        /\ sessions[Session(d)] = d => playerSessions[PlayerOf(d)][Session(d)] = d
    BY <1>3, <1>4 DEF TablesInv
  <2>2. ASSUME NEW e \in Conn, pc[e] = "replace", previous[e] = d
        PROVE  ~open'[d] \/ (pc'[e] = "replace" /\ previous'[e] = d)
    BY <1>3, <2>2
  <2> QED  BY <1>3, <2>1, <2>2
<1>5. \A t \in SessionId : sessions[t] # None =>
        pc'[sessions[t]] \in Registered /\ Session(sessions[t]) = t
  BY <1>3 DEF TablesInv, ShapeInv, TableTypes
<1>6. \A q \in Player, t \in SessionId : playerSessions[q][t] # None =>
        /\ pc'[playerSessions[q][t]] \in Registered
        /\ principal[playerSessions[q][t]] = [player |-> q, session |-> t]
  BY <1>3 DEF TablesInv, ShapeInv, TableTypes
<1> QED  BY <1>1, <1>3, <1>4, <1>5, <1>6 DEF TablesInv, Session, PlayerOf

\* Only what is still this session's goes, and all of it.
LEMMA UnregisterKeepsTables ==
  ASSUME ShapeInv, TablesInv, NEW c \in Conn, Unregister(c)
  PROVE  TablesInv'
<1> DEFINE s == Session(c)
           p == PlayerOf(c)
<1>1. /\ pc[c] = "unregister"
      /\ sessions' = [sessions EXCEPT ![s] = IF @ = c THEN None ELSE @]
      /\ playerSessions' = [playerSessions EXCEPT ![p][s] = IF @ = c THEN None ELSE @]
      /\ pc' = [pc EXCEPT ![c] = "publish"] /\ UNCHANGED <<open, principal, previous>>
  BY DEF Unregister, Goto
<1>2. s \in SessionId /\ p \in Player /\ principal[c] \in Principal
  BY <1>1, Whose DEF Known, Registered
<1>3. /\ pc \in [Conn -> Steps] /\ sessions \in [SessionId -> Conn \cup {None}]
      /\ playerSessions \in [Player -> [SessionId -> Conn \cup {None}]]
  BY DEF ShapeInv, AcceptInv, TableTypes
<1>4. principal[c] = [player |-> p, session |-> s]  BY <1>2 DEF Principal, Session, PlayerOf
<1>5. \A d \in Conn : Session(d)' = Session(d) /\ PlayerOf(d)' = PlayerOf(d)
  BY <1>1 DEF Session, PlayerOf
<1>6. /\ \A d \in Conn : pc'[d] = IF d = c THEN "publish" ELSE pc[d]
      /\ "publish" \notin Registered /\ "publish" # "replace"
  BY <1>1, <1>3 DEF Registered
<1>7. \A t \in SessionId :
        sessions'[t] = IF t = s /\ sessions[t] = c THEN None ELSE sessions[t]
  BY <1>1, <1>3
<1>8. \A q \in Player, t \in SessionId :
        playerSessions'[q][t] =
          IF q = p /\ t = s /\ playerSessions[q][t] = c THEN None ELSE playerSessions[q][t]
  BY <1>1, <1>3
<1>9. \A t \in SessionId : sessions'[t] # c
  <2>1. \A t \in SessionId : sessions[t] = c => t = s  BY DEF TablesInv
  <2> QED  BY <1>2, <1>7, <2>1
<1>10. \A q \in Player, t \in SessionId : playerSessions'[q][t] # c
  <2>1. ASSUME NEW q \in Player, NEW t \in SessionId, playerSessions[q][t] = c
        PROVE  q = p /\ t = s
    <3>1. principal[c] = [player |-> q, session |-> t]  BY <2>1 DEF TablesInv
    <3> QED  BY <1>4, <3>1
  <2> QED  BY <1>8, <2>1
<1> HIDE DEF s, p
<1>11. ASSUME NEW d \in Conn, pc'[d] \in Registered
       PROVE  /\ \/ sessions'[Session(d)] = d
                 \/ ~open[d]
                 \/ \E e \in Conn : pc'[e] = "replace" /\ previous[e] = d
              /\ sessions'[Session(d)] = d => playerSessions'[PlayerOf(d)][Session(d)] = d
  <2>1. d # c /\ pc[d] \in Registered /\ Session(d) \in SessionId /\ PlayerOf(d) \in Player
    BY <1>6, <1>11, Whose DEF Known
  <2>2. /\ \/ sessions[Session(d)] = d \/ ~open[d]
           \/ \E e \in Conn : pc[e] = "replace" /\ previous[e] = d
        /\ sessions[Session(d)] = d => playerSessions[PlayerOf(d)][Session(d)] = d
    BY <2>1 DEF TablesInv
  <2>3. sessions[Session(d)] = d <=> sessions'[Session(d)] = d  BY <1>7, <2>1
  <2>4. playerSessions[PlayerOf(d)][Session(d)] = d => playerSessions'[PlayerOf(d)][Session(d)] = d
    BY <1>8, <2>1
  <2>5. \A e \in Conn : pc[e] = "replace" => pc'[e] = "replace"  BY <1>1, <1>6
  <2> QED  BY <2>2, <2>3, <2>4, <2>5
<1>12. ASSUME NEW t \in SessionId, sessions'[t] # None
       PROVE  pc'[sessions'[t]] \in Registered /\ Session(sessions'[t]) = t /\ sessions'[t] \in Conn
  <2>1. sessions'[t] = sessions[t] /\ sessions[t] \in Conn  BY <1>3, <1>7, <1>12
  <2>2. pc[sessions[t]] \in Registered /\ Session(sessions[t]) = t
    BY <1>12, <2>1 DEF TablesInv
  <2> QED  BY <1>6, <1>9, <2>1, <2>2
<1>13. ASSUME NEW q \in Player, NEW t \in SessionId, playerSessions'[q][t] # None
       PROVE  /\ pc'[playerSessions'[q][t]] \in Registered
              /\ principal[playerSessions'[q][t]] = [player |-> q, session |-> t]
  <2>1. playerSessions'[q][t] = playerSessions[q][t] /\ playerSessions[q][t] \in Conn
    BY <1>3, <1>8, <1>13
  <2>2. /\ pc[playerSessions[q][t]] \in Registered
        /\ principal[playerSessions[q][t]] = [player |-> q, session |-> t]
    BY <1>13, <2>1 DEF TablesInv
  <2> QED  BY <1>6, <1>10, <2>1, <2>2
<1> QED  BY <1>1, <1>5, <1>11, <1>12, <1>13 DEF TablesInv, Session, PlayerOf

\* Every other step of a connection.
LEMMA ServeQuiet ==
  ASSUME ShapeInv, NEW c \in Conn, Serve(c), ~Register(c), ~Replace(c), ~Unregister(c)
  PROVE  Quiet
<1> USE DEF ShapeInv, AcceptInv, OpenInv, WhoInv, Registered, Steps, Quiet, Goto, Shut, sessionVars
<1>1. CASE TakeHandshakeSlot(c)  BY <1>1 DEF TakeHandshakeSlot
<1>2. CASE Authenticate(c)  BY <1>2 DEF Authenticate
<1>3. CASE Acknowledge(c)  BY <1>3 DEF Acknowledge
<1>4. CASE ReadFrame(c)  BY <1>4 DEF ReadFrame
<1>5. CASE Dispatch(c)  BY <1>5 DEF Dispatch
<1>6. CASE ReadEnds(c)  BY <1>6 DEF ReadEnds
<1>7. CASE Publish(c)  BY <1>7 DEF Publish
<1>8. CASE Teardown(c)  BY <1>8 DEF Teardown
<1>9. CASE Release(c)  BY <1>9 DEF Release
<1> QED  BY <1>1, <1>2, <1>3, <1>4, <1>5, <1>6, <1>7, <1>8, <1>9 DEF Serve

LEMMA OthersQuiet ==
  ASSUME ShapeInv, Accepting \/ Kicking \/ Stopping \/ Dispatching \/ UNCHANGED vars
  PROVE  Quiet
<1> USE DEF ShapeInv, AcceptInv, OpenInv, Registered, Steps, Quiet, Goto, Shut, sessionVars
<1>1. ASSUME NEW c \in Conn, Accept(c) PROVE Quiet  BY <1>1 DEF Accept
<1>2. CASE Admit  BY <1>2 DEF Admit
<1>3. CASE AcceptEnds  BY <1>3 DEF AcceptEnds
<1>4. ASSUME NEW c, Shut(c), UNCHANGED <<pc, sessionVars>> PROVE Quiet  BY <1>4
<1>5. ASSUME UNCHANGED <<pc, open, sessionVars>> PROVE Quiet  BY <1>5
<1>6. CASE Kicking
  <2>1. UNCHANGED <<pc, sessionVars>>  BY <1>6, OthersLeave
  <2>2. UNCHANGED open \/ \E c : Shut(c)
    BY <1>6 DEF Kicking, SnapshotSessions, CloseKicked
  <2> QED  BY <1>4, <1>5, <2>1, <2>2
<1>7. CASE Stopping
  <2>1. UNCHANGED <<pc, sessionVars>>  BY <1>7, OthersLeave
  <2>2. UNCHANGED open \/ \E c : Shut(c)
    BY <1>7 DEF Stopping, Unlink, StopLocked, CloseListener, CloseConnections,
                AwaitGoroutines, Stopped
  <2> QED  BY <1>4, <1>5, <2>1, <2>2
<1>8. CASE Dispatching  BY <1>5, <1>8, OthersLeave
<1>9. CASE UNCHANGED vars  BY <1>5, <1>9 DEF vars
<1> QED  BY <1>1, <1>2, <1>3, <1>6, <1>7, <1>8, <1>9 DEF Accepting

LEMMA TablesStep ==
  ASSUME ShapeInv, TablesInv, [Next]_vars
  PROVE  TablesInv'
<1>1. ASSUME NEW c \in Conn, Serve(c) PROVE TablesInv'
  BY <1>1, RegisterKeepsTables, ReplaceKeepsTables, UnregisterKeepsTables, ServeQuiet,
     QuietKeepsTables
<1>2. CASE Accepting \/ Kicking \/ Stopping \/ Dispatching \/ UNCHANGED vars
  BY <1>2, OthersQuiet, QuietKeepsTables
<1> QED  BY <1>1, <1>2 DEF Next

-----------------------------------------------------------------------------
(* Slots and counts                                                         *)

Live == {c \in Conn : pc[c] \notin {"none", "gone"}}
Handshaking == {c \in Conn : pc[c] = "handshake"}
FiledAt(h) == {c \in Filed : HostOf[c] = h}

\* A connection slot for every goroutine there is; they are finitely many.
SlotsInv ==
  /\ IsFiniteSet(Live)
  /\ connectionSlots = Cardinality(Live) /\ connectionSlots \in 0..MaxConnections

HandshakeInv ==
  handshakeSlots = Cardinality(Handshaking) /\ handshakeSlots \in 0..MaxHandshakes

\* The server files a connection from admission to the end of its teardown.
FiledInv ==
  /\ connections = Filed
  /\ ipConnections \in [Hosts -> Nat]
  /\ \A h \in Hosts : ipConnections[h] = Cardinality(FiledAt(h))

LimitsInv == SlotsInv /\ HandshakeInv /\ FiledInv

LEMMA CountIn ==
  ASSUME NEW S, IsFiniteSet(S), NEW x, x \notin S
  PROVE  /\ IsFiniteSet(S \cup {x}) /\ Cardinality(S \cup {x}) = Cardinality(S) + 1
         /\ Cardinality(S) \in Nat
BY FS_AddElement, FS_CardinalityType

LEMMA CountOut ==
  ASSUME NEW S, IsFiniteSet(S), NEW x \in S
  PROVE  /\ IsFiniteSet(S \ {x}) /\ Cardinality(S \ {x}) = Cardinality(S) - 1
         /\ Cardinality(S) \in Nat /\ Cardinality(S) > 0
<1>1. IsFiniteSet(S \ {x}) /\ Cardinality(S \ {x}) = Cardinality(S) - 1  BY FS_RemoveElement
<1>2. Cardinality(S) \in Nat /\ Cardinality(S \ {x}) \in Nat  BY <1>1, FS_CardinalityType
<1> QED  BY <1>1, <1>2

\* Where a goroutine goes decides which of the sets it is in.
LEMMA Moved ==
  ASSUME pc \in [Conn -> Steps], NEW c \in Conn, NEW s \in Steps, Goto(c, s)
  PROVE  /\ Live' = IF s \in {"none", "gone"} THEN Live \ {c} ELSE Live \cup {c}
         /\ Handshaking' = IF s = "handshake" THEN Handshaking \cup {c} ELSE Handshaking \ {c}
         /\ Filed' = IF s \in {"none", "accepted", "release", "gone"} THEN Filed \ {c}
                     ELSE Filed \cup {c}
BY DEF Goto, Live, Handshaking, Filed

LEMMA CountedSets ==
  ASSUME pc \in [Conn -> Steps], NEW c \in Conn
  PROVE  /\ c \in Live <=> pc[c] \notin {"none", "gone"}
         /\ c \in Handshaking <=> pc[c] = "handshake"
         /\ c \in Filed <=> pc[c] \notin {"none", "accepted", "release", "gone"}
         /\ HostOf[c] \in Hosts
BY DEF Live, Handshaking, Filed, Hosts

LEMMA FiniteParts ==
  ASSUME SlotsInv
  PROVE  /\ IsFiniteSet(Handshaking) /\ Cardinality(Handshaking) \in Nat
         /\ IsFiniteSet(Filed)
         /\ \A h : IsFiniteSet(FiledAt(h)) /\ Cardinality(FiledAt(h)) \in Nat
<1>1. Handshaking \subseteq Live /\ Filed \subseteq Live /\ \A h : FiledAt(h) \subseteq Live
  BY DEF Live, Handshaking, Filed, FiledAt
<1>2. IsFiniteSet(Live)  BY DEF SlotsInv
<1>3. \A S : S \subseteq Live => IsFiniteSet(S) /\ Cardinality(S) \in Nat
  BY <1>2, FS_Subset, FS_CardinalityType
<1> QED  BY <1>1, <1>3

LEMMA LimitsInit == Init => LimitsInv
<1> SUFFICES ASSUME Init PROVE LimitsInv  OBVIOUS
<1>1. /\ Live = {} /\ Handshaking = {} /\ Filed = {} /\ \A h : FiledAt(h) = {}
  BY DEF Init, Live, Handshaking, Filed, FiledAt
<1>2. IsFiniteSet({}) /\ Cardinality({}) = 0  BY FS_EmptySet
<1>3. 0 \in 0..MaxConnections /\ 0 \in 0..MaxHandshakes  OBVIOUS
<1>4. SlotsInv  BY <1>1, <1>2, <1>3 DEF Init, SlotsInv
<1>5. HandshakeInv  BY <1>1, <1>2, <1>3 DEF Init, HandshakeInv
<1>6. FiledInv  BY <1>1, <1>2 DEF Init, FiledInv
<1> QED  BY <1>4, <1>5, <1>6 DEF LimitsInv

LEMMA SlotsKept ==
  ASSUME SlotsInv, Live' = Live, UNCHANGED connectionSlots
  PROVE  SlotsInv'
BY DEF SlotsInv

LEMMA HandshakeKept ==
  ASSUME HandshakeInv, Handshaking' = Handshaking, UNCHANGED handshakeSlots
  PROVE  HandshakeInv'
BY DEF HandshakeInv

LEMMA FiledKept ==
  ASSUME FiledInv, Filed' = Filed, UNCHANGED <<connections, ipConnections>>
  PROVE  FiledInv'
<1>1. \A h : FiledAt(h)' = FiledAt(h)  BY DEF FiledAt
<1> QED  BY <1>1 DEF FiledInv

\* A slot taken and a slot given back.
LEMMA SlotTaken ==
  ASSUME SlotsInv, NEW c \in Conn, c \notin Live, Live' = Live \cup {c},
         connectionSlots < MaxConnections, connectionSlots' = connectionSlots + 1
  PROVE  SlotsInv'
<1>1. IsFiniteSet(Live') /\ Cardinality(Live') = Cardinality(Live) + 1
  BY CountIn DEF SlotsInv
<1> QED  BY <1>1 DEF SlotsInv

LEMMA SlotReleased ==
  ASSUME SlotsInv, NEW c \in Live, Live' = Live \ {c}, connectionSlots' = connectionSlots - 1
  PROVE  SlotsInv'
<1>1. /\ IsFiniteSet(Live') /\ Cardinality(Live') = Cardinality(Live) - 1
      /\ Cardinality(Live) > 0
  BY CountOut DEF SlotsInv
<1> QED  BY <1>1 DEF SlotsInv

\* A connection filed and unfiled, at its host and at no other.
LEMMA FiledIn ==
  ASSUME SlotsInv, FiledInv, NEW c \in Conn, c \notin Filed, Filed' = Filed \cup {c},
         connections' = connections \cup {c},
         ipConnections' = [ipConnections EXCEPT ![HostOf[c]] = @ + 1]
  PROVE  FiledInv'
<1>1. HostOf[c] \in Hosts /\ ipConnections \in [Hosts -> Nat]  BY DEF Hosts, FiledInv
<1>2. ipConnections' \in [Hosts -> Nat]  BY <1>1
<1>3. ASSUME NEW h \in Hosts PROVE ipConnections'[h] = Cardinality(FiledAt(h)')
  <2>1. IsFiniteSet(FiledAt(h)) /\ ipConnections[h] = Cardinality(FiledAt(h))
    BY FiniteParts DEF FiledInv
  <2>2. CASE h = HostOf[c]
    <3>1. FiledAt(h)' = FiledAt(h) \cup {c} /\ c \notin FiledAt(h)  BY <2>2 DEF FiledAt
    <3>2. Cardinality(FiledAt(h) \cup {c}) = Cardinality(FiledAt(h)) + 1  BY <2>1, <3>1, CountIn
    <3> QED  BY <1>1, <2>1, <2>2, <3>1, <3>2
  <2>3. CASE h # HostOf[c]
    <3>1. FiledAt(h)' = FiledAt(h)  BY <2>3 DEF FiledAt
    <3> QED  BY <1>1, <2>1, <2>3, <3>1
  <2> QED  BY <2>2, <2>3
<1> QED  BY <1>2, <1>3 DEF FiledInv

LEMMA FiledOut ==
  ASSUME SlotsInv, FiledInv, NEW c \in Conn, c \in Filed, Filed' = Filed \ {c},
         connections' = connections \ {c},
         ipConnections' = [ipConnections EXCEPT ![HostOf[c]] = @ - 1]
  PROVE  FiledInv'
<1>1. HostOf[c] \in Hosts /\ ipConnections \in [Hosts -> Nat]  BY DEF Hosts, FiledInv
<1>2. ASSUME NEW h \in Hosts
      PROVE  ipConnections'[h] = Cardinality(FiledAt(h)') /\ ipConnections'[h] \in Nat
  <2>1. IsFiniteSet(FiledAt(h)) /\ ipConnections[h] = Cardinality(FiledAt(h))
    BY FiniteParts DEF FiledInv
  <2>2. CASE h = HostOf[c]
    <3>1. FiledAt(h)' = FiledAt(h) \ {c} /\ c \in FiledAt(h)  BY <2>2 DEF FiledAt
    <3>2. /\ Cardinality(FiledAt(h) \ {c}) = Cardinality(FiledAt(h)) - 1
          /\ Cardinality(FiledAt(h)) > 0 /\ Cardinality(FiledAt(h)) \in Nat
      BY <2>1, <3>1, CountOut
    <3> QED  BY <1>1, <2>1, <2>2, <3>1, <3>2
  <2>3. CASE h # HostOf[c]
    <3>1. FiledAt(h)' = FiledAt(h)  BY <2>3 DEF FiledAt
    <3> QED  BY <1>1, <2>1, <2>3, <3>1
  <2> QED  BY <2>2, <2>3
<1>3. ipConnections' = [h \in Hosts |-> ipConnections'[h]]  BY <1>1
<1>4. ipConnections' \in [Hosts -> Nat]  BY <1>2, <1>3
<1> QED  BY <1>2, <1>4 DEF FiledInv

LEMMA AcceptCounts ==
  ASSUME ShapeInv, LimitsInv, NEW c \in Conn, Accept(c)
  PROVE  LimitsInv'
<1>1. pc \in [Conn -> Steps] /\ pc[c] = "none"  BY DEF ShapeInv, AcceptInv, Accept
<1>2. UNCHANGED <<connections, ipConnections, handshakeSlots>>  BY DEF Accept
<1>3. c \notin Live /\ c \notin Handshaking /\ c \notin Filed  BY <1>1, CountedSets
<1>4. CASE connectionSlots < MaxConnections
  <2>1. Goto(c, "accepted") /\ connectionSlots' = connectionSlots + 1  BY <1>4 DEF Accept
  <2>2. "accepted" \in Steps  BY DEF Steps
  <2>3. Live' = Live \cup {c} /\ Handshaking' = Handshaking \ {c} /\ Filed' = Filed \ {c}
    BY <1>1, <2>1, <2>2, Moved
  <2>4. Handshaking' = Handshaking /\ Filed' = Filed  BY <1>3, <2>3
  <2> QED  BY <1>2, <1>3, <1>4, <2>1, <2>3, <2>4, SlotTaken, HandshakeKept, FiledKept DEF LimitsInv
<1>5. CASE ~(connectionSlots < MaxConnections)
  <2>1. Goto(c, "gone") /\ UNCHANGED connectionSlots  BY <1>5 DEF Accept
  <2>2. "gone" \in Steps  BY DEF Steps
  <2>3. Live' = Live \ {c} /\ Handshaking' = Handshaking \ {c} /\ Filed' = Filed \ {c}
    BY <1>1, <2>1, <2>2, Moved
  <2>4. Live' = Live /\ Handshaking' = Handshaking /\ Filed' = Filed  BY <1>3, <2>3
  <2> QED  BY <1>2, <2>1, <2>4, SlotsKept, HandshakeKept, FiledKept DEF LimitsInv
<1> QED  BY <1>4, <1>5

LEMMA AdmitCounts ==
  ASSUME ShapeInv, LimitsInv, Admit
  PROVE  LimitsInv'
<1> DEFINE c == arrived
<1>1. pc \in [Conn -> Steps] /\ c \in Conn /\ pc[c] = "accepted"
  BY DEF ShapeInv, AcceptInv, Admit
<1>2. UNCHANGED handshakeSlots  BY DEF Admit
<1>3. c \in Live /\ c \notin Handshaking /\ c \notin Filed  BY <1>1, CountedSets
<1>4. CASE Cancelled \/ ipConnections[HostOf[arrived]] >= MaxConnectionsPerIP
  <2>1. /\ Goto(c, "gone") /\ connectionSlots' = connectionSlots - 1
        /\ UNCHANGED <<connections, ipConnections>>
    BY <1>4 DEF Admit
  <2>2. "gone" \in Steps  BY DEF Steps
  <2>3. Live' = Live \ {c} /\ Handshaking' = Handshaking \ {c} /\ Filed' = Filed \ {c}
    BY <1>1, <2>1, <2>2, Moved
  <2>4. Handshaking' = Handshaking /\ Filed' = Filed  BY <1>3, <2>3
  <2> QED
    BY <1>2, <1>3, <2>1, <2>3, <2>4, SlotReleased, HandshakeKept, FiledKept DEF LimitsInv
<1>5. CASE ~(Cancelled \/ ipConnections[HostOf[arrived]] >= MaxConnectionsPerIP)
  <2>1. /\ Goto(c, "queued") /\ UNCHANGED connectionSlots
        /\ connections' = connections \cup {c}
        /\ ipConnections' = [ipConnections EXCEPT ![HostOf[c]] = @ + 1]
    BY <1>5 DEF Admit
  <2>2. "queued" \in Steps  BY DEF Steps
  <2>3. Live' = Live \cup {c} /\ Handshaking' = Handshaking \ {c} /\ Filed' = Filed \cup {c}
    BY <1>1, <2>1, <2>2, Moved
  <2>4. Live' = Live /\ Handshaking' = Handshaking  BY <1>3, <2>3
  <2> HIDE DEF c
  <2> QED
    BY <1>1, <1>2, <1>3, <2>1, <2>3, <2>4, SlotsKept, HandshakeKept, FiledIn DEF LimitsInv
<1> QED  BY <1>4, <1>5

LEMMA HandshakeCounts ==
  ASSUME ShapeInv, LimitsInv, NEW c \in Conn, TakeHandshakeSlot(c) \/ Authenticate(c)
  PROVE  LimitsInv'
<1>1. pc \in [Conn -> Steps]  BY DEF ShapeInv, AcceptInv
<1>2. UNCHANGED <<connections, ipConnections, connectionSlots>>
  BY DEF TakeHandshakeSlot, Authenticate
<1>3. pc[c] \in {"queued", "handshake"}  BY DEF TakeHandshakeSlot, Authenticate
<1>4. c \in Live /\ c \in Filed  BY <1>1, <1>3, CountedSets
<1>5. "handshake" \in Steps /\ "teardown" \in Steps /\ "ack" \in Steps  BY DEF Steps
<1>6. PICK s \in {"handshake", "teardown", "ack"} : Goto(c, s)
  BY DEF TakeHandshakeSlot, Authenticate
<1>7. Live' = Live \cup {c} /\ Filed' = Filed \cup {c}  BY <1>1, <1>5, <1>6, Moved
<1>8. SlotsInv' /\ FiledInv'
  <2>1. Live' = Live /\ Filed' = Filed  BY <1>4, <1>7
  <2> QED  BY <1>2, <2>1, SlotsKept, FiledKept DEF LimitsInv
<1>9. IsFiniteSet(Handshaking) /\ handshakeSlots = Cardinality(Handshaking)
      /\ handshakeSlots \in 0..MaxHandshakes
  BY FiniteParts DEF LimitsInv, HandshakeInv
<1>10. HandshakeInv'
  <2>1. CASE TakeHandshakeSlot(c) /\ handshakeSlots' = handshakeSlots + 1
    <3>1. pc[c] = "queued" /\ Goto(c, "handshake") /\ handshakeSlots < MaxHandshakes
      BY <1>9, <2>1 DEF TakeHandshakeSlot
    <3>2. c \notin Handshaking /\ Handshaking' = Handshaking \cup {c}
      BY <1>1, <1>5, <3>1, CountedSets, Moved
    <3>3. Cardinality(Handshaking \cup {c}) = Cardinality(Handshaking) + 1
      BY <1>9, <3>2, CountIn
    <3> QED  BY <1>9, <2>1, <3>1, <3>2, <3>3 DEF HandshakeInv
  <2>2. CASE TakeHandshakeSlot(c) /\ handshakeSlots' # handshakeSlots + 1
    <3>1. pc[c] = "queued" /\ Goto(c, "teardown") /\ UNCHANGED handshakeSlots
      BY <2>2 DEF TakeHandshakeSlot
    <3>2. c \notin Handshaking /\ Handshaking' = Handshaking \ {c}
      BY <1>1, <1>5, <3>1, CountedSets, Moved
    <3>3. Handshaking' = Handshaking  BY <3>2
    <3> QED  BY <3>1, <3>3, HandshakeKept DEF LimitsInv
  <2>3. CASE Authenticate(c)
    <3>1. /\ pc[c] = "handshake" /\ (Goto(c, "ack") \/ Goto(c, "teardown"))
          /\ handshakeSlots' = handshakeSlots - 1
      BY <2>3 DEF Authenticate
    <3>2. c \in Handshaking /\ Handshaking' = Handshaking \ {c}
      BY <1>1, <1>5, <3>1, CountedSets, Moved
    <3>3. /\ Cardinality(Handshaking \ {c}) = Cardinality(Handshaking) - 1
          /\ Cardinality(Handshaking) > 0
      BY <1>9, <3>2, CountOut
    <3> QED  BY <1>9, <3>1, <3>2, <3>3 DEF HandshakeInv
  <2> QED  BY <2>1, <2>2, <2>3
<1> QED  BY <1>8, <1>10 DEF LimitsInv

LEMMA TeardownCounts ==
  ASSUME ShapeInv, LimitsInv, NEW c \in Conn, Teardown(c) \/ Release(c)
  PROVE  LimitsInv'
<1>1. pc \in [Conn -> Steps]  BY DEF ShapeInv, AcceptInv
<1>2. "release" \in Steps /\ "gone" \in Steps  BY DEF Steps
<1>3. CASE Teardown(c)
  <2>1. /\ pc[c] = "teardown" /\ Goto(c, "release")
        /\ UNCHANGED <<connectionSlots, handshakeSlots>>
        /\ connections' = connections \ {c}
        /\ ipConnections' = [ipConnections EXCEPT ![HostOf[c]] = @ - 1]
    BY <1>3 DEF Teardown
  <2>2. c \in Live /\ c \notin Handshaking /\ c \in Filed  BY <1>1, <2>1, CountedSets
  <2>3. Live' = Live \cup {c} /\ Handshaking' = Handshaking \ {c} /\ Filed' = Filed \ {c}
    BY <1>1, <1>2, <2>1, Moved
  <2>4. Live' = Live /\ Handshaking' = Handshaking  BY <2>2, <2>3
  <2> QED  BY <2>1, <2>2, <2>3, <2>4, SlotsKept, HandshakeKept, FiledOut DEF LimitsInv
<1>4. CASE Release(c)
  <2>1. /\ pc[c] = "release" /\ Goto(c, "gone") /\ connectionSlots' = connectionSlots - 1
        /\ UNCHANGED <<connections, ipConnections, handshakeSlots>>
    BY <1>4 DEF Release
  <2>2. c \in Live /\ c \notin Handshaking /\ c \notin Filed  BY <1>1, <2>1, CountedSets
  <2>3. Live' = Live \ {c} /\ Handshaking' = Handshaking \ {c} /\ Filed' = Filed \ {c}
    BY <1>1, <1>2, <2>1, Moved
  <2>4. Handshaking' = Handshaking /\ Filed' = Filed  BY <2>2, <2>3
  <2> QED  BY <2>1, <2>2, <2>3, <2>4, SlotReleased, HandshakeKept, FiledKept DEF LimitsInv
<1> QED  BY <1>3, <1>4

\* In between a connection keeps what it has.
LEMMA ServingCounts ==
  ASSUME ShapeInv, LimitsInv, NEW c \in Conn,
         Acknowledge(c) \/ Register(c) \/ Replace(c) \/ ReadFrame(c) \/ Dispatch(c) \/ ReadEnds(c)
         \/ Unregister(c) \/ Publish(c)
  PROVE  LimitsInv'
<1> DEFINE Inner == {"ack", "register", "replace", "serving", "dispatch", "unregister",
                     "publish", "teardown"}
<1>1. pc \in [Conn -> Steps] /\ Inner \subseteq Steps  BY DEF ShapeInv, AcceptInv, Steps, Registered
<1>2. UNCHANGED limitVars /\ pc[c] \in Inner /\ \E s \in Inner : Goto(c, s)
  <2>1. CASE Acknowledge(c)  BY <2>1 DEF Acknowledge
  <2>2. CASE Register(c)  BY <2>2 DEF Register
  <2>3. CASE Replace(c)  BY <2>3 DEF Replace
  <2>4. CASE ReadFrame(c)  BY <2>4 DEF ReadFrame
  <2>5. CASE Dispatch(c)  BY <2>5 DEF Dispatch
  <2>6. CASE ReadEnds(c)  BY <2>6 DEF ReadEnds
  <2>7. CASE Unregister(c)  BY <2>7 DEF Unregister
  <2>8. CASE Publish(c)  BY <2>8 DEF Publish
  <2> QED  BY <2>1, <2>2, <2>3, <2>4, <2>5, <2>6, <2>7, <2>8
<1>3. PICK s \in Inner : Goto(c, s)  BY <1>2
<1>4. c \in Live /\ c \notin Handshaking /\ c \in Filed  BY <1>1, <1>2, CountedSets
<1>5. Live' = Live \cup {c} /\ Handshaking' = Handshaking \ {c} /\ Filed' = Filed \cup {c}
  <2>1. s \in Steps  BY <1>1
  <2> QED  BY <1>1, <1>3, <2>1, Moved
<1>6. Live' = Live /\ Handshaking' = Handshaking /\ Filed' = Filed  BY <1>4, <1>5
<1> QED  BY <1>2, <1>6, SlotsKept, HandshakeKept, FiledKept DEF LimitsInv, limitVars

LEMMA LimitsStep ==
  ASSUME ShapeInv, LimitsInv, [Next]_vars
  PROVE  LimitsInv'
<1>1. ASSUME NEW c \in Conn, Serve(c) PROVE LimitsInv'
  BY <1>1, HandshakeCounts, TeardownCounts, ServingCounts DEF Serve
<1>2. ASSUME UNCHANGED <<pc, limitVars>> PROVE LimitsInv'
  <2>1. Live' = Live /\ Handshaking' = Handshaking /\ Filed' = Filed
    BY <1>2 DEF Live, Handshaking, Filed
  <2> QED  BY <1>2, <2>1, SlotsKept, HandshakeKept, FiledKept DEF LimitsInv, limitVars
<1>3. CASE Kicking \/ Stopping \/ Dispatching \/ UNCHANGED vars
  BY <1>2, <1>3, OthersLeave DEF vars
<1>4. CASE AcceptEnds  BY <1>2, <1>4 DEF AcceptEnds
<1> QED  BY <1>1, <1>3, <1>4, AcceptCounts, AdmitCounts DEF Next, Accepting

-----------------------------------------------------------------------------
(* Stopping                                                                 *)

\* A Stop that waited long enough has seen every goroutine go; and the
\* dispatcher, told last, has found its queue empty.
StopInv ==
  /\ outcome # "none" => stop \in {"draining", "done"}
  /\ outcome = "ok" => acceptor = "gone" /\ \A c \in Conn : pc[c] \in {"none", "gone"}
  /\ dispatcher = "gone" => stop \in {"draining", "done"}
  /\ dispatcher = "gone" /\ outcome = "ok" => closedEvents = <<>>
  /\ stop = "done" => dispatcher = "gone"

LEMMA StopStep ==
  ASSUME ShapeInv, StopInv, [Next]_vars
  PROVE  StopInv'
<1>1. ASSUME NEW c \in Conn, Serve(c) PROVE StopInv'
  <2>1. pc[c] \notin {"none", "gone"} /\ UNCHANGED <<stopVars, acceptVars, dispatcher>>
    <3> USE DEF eventVars
    <3>1. CASE TakeHandshakeSlot(c)  BY <3>1 DEF TakeHandshakeSlot
    <3>2. CASE Authenticate(c)  BY <3>2 DEF Authenticate
    <3>3. CASE Acknowledge(c)  BY <3>3 DEF Acknowledge
    <3>4. CASE Register(c)  BY <3>4 DEF Register
    <3>5. CASE Replace(c)  BY <3>5 DEF Replace
    <3>6. CASE ReadFrame(c)  BY <3>6 DEF ReadFrame
    <3>7. CASE Dispatch(c)  BY <3>7 DEF Dispatch
    <3>8. CASE ReadEnds(c)  BY <3>8 DEF ReadEnds
    <3>9. CASE Unregister(c)  BY <3>9 DEF Unregister
    <3>10. CASE Publish(c)  BY <3>10 DEF Publish
    <3>11. CASE Teardown(c)  BY <3>11 DEF Teardown
    <3>12. CASE Release(c)  BY <3>12 DEF Release
    <3> QED
      BY <1>1, <3>1, <3>2, <3>3, <3>4, <3>5, <3>6, <3>7, <3>8, <3>9, <3>10, <3>11, <3>12 DEF Serve
  <2>2. outcome # "ok"  BY <2>1 DEF StopInv
  <2> QED  BY <2>1, <2>2 DEF StopInv, stopVars
<1>2. CASE Accepting
  <2>1. UNCHANGED <<stopVars, eventVars>>  BY <1>2 DEF Accepting, Accept, Admit, AcceptEnds
  <2>2. acceptor # "gone"  BY <1>2 DEF Accepting, Accept, Admit, AcceptEnds
  <2> QED  BY <2>1, <2>2 DEF StopInv, stopVars, eventVars
<1>3. CASE Kicking  BY <1>3, OthersLeave DEF StopInv, stopVars, eventVars, acceptVars
<1>4. CASE Stopping
  <2>1. UNCHANGED <<acceptor, pc, dispatcher, closedEvents>>
    BY <1>4, OthersLeave DEF acceptVars, eventVars
  <2>2. CASE Unlink \/ StopLocked \/ CloseListener \/ CloseConnections \/ Stopped
    BY <2>1, <2>2 DEF Unlink, StopLocked, CloseListener, CloseConnections, Stopped, StopInv
  <2>3. CASE AwaitGoroutines  BY <2>1, <2>3 DEF AwaitGoroutines, StopInv
  <2> QED  BY <1>4, <2>2, <2>3 DEF Stopping
<1>5. CASE Dispatching
  <2>1. UNCHANGED <<acceptor, pc, stop, outcome>>
    BY <1>5, OthersLeave DEF acceptVars, stopVars
  <2>2. dispatcher # "gone"  BY <1>5 DEF Dispatching, TakeEvent, LeaveLoop, AskActive, RemovePresence
  <2>3. dispatcher' = "gone" => stop = "draining" /\ closedEvents' = <<>>
    BY <1>5 DEF Dispatching, TakeEvent, LeaveLoop, AskActive, RemovePresence
  <2> QED  BY <2>1, <2>2, <2>3 DEF StopInv
<1>6. CASE UNCHANGED vars
  BY <1>6 DEF StopInv, vars, stopVars, eventVars, acceptVars
<1> QED  BY <1>1, <1>2, <1>3, <1>4, <1>5, <1>6 DEF Next

-----------------------------------------------------------------------------
ListenerInv == ShapeInv /\ TablesInv /\ LimitsInv /\ StopInv

LEMMA ListenerInvariant == Spec => []ListenerInv
<1>1. Init => StopInv  BY DEF Init, StopInv
<1>2. Init => ListenerInv  BY <1>1, ShapeInit, TablesInit, LimitsInit DEF ListenerInv
<1>3. ListenerInv /\ [Next]_vars => ListenerInv'
  BY ShapeStep, TablesStep, LimitsStep, StopStep DEF ListenerInv
<1> QED  BY <1>2, <1>3, PTL DEF Spec

\* What the server counts and files is what its connections are, whichever way
\* each of them ends: limits are given back exactly once, and the two tables
\* hold who is served and nobody who has left.
THEOREM BooksKept == Spec => []Bookkeeping
<1>1. ListenerInv => TypeOK
  BY DEF ListenerInv, ShapeInv, AcceptInv, OpenInv, WhoInv, TableTypes, EventInv, SetTypes,
         LimitsInv, SlotsInv, HandshakeInv, FiledInv, TypeOK, Steps
<1>2. ListenerInv => LimitsExact
  BY DEF ListenerInv, LimitsInv, SlotsInv, HandshakeInv, FiledInv, LimitsExact, Live,
         Handshaking, FiledAt
<1>3. ListenerInv => TablesHonest
  BY DEF ListenerInv, TablesInv, TablesHonest
<1> QED  BY <1>1, <1>2, <1>3, ListenerInvariant, PTL DEF Bookkeeping

\* A Stop that returns nil leaves no goroutine, no open socket, no session and
\* no close event undelivered.
THEOREM StopIsComplete == Spec => []StopComplete
<1>1. ListenerInv => StopComplete
  <2> SUFFICES ASSUME ListenerInv, stop = "done", outcome = "ok"
               PROVE  /\ acceptor = "gone"
                      /\ \A c \in Conn : pc[c] \in {"none", "gone"} /\ ~open[c]
                      /\ \A s \in SessionId : sessions[s] = None
                      /\ closedEvents = <<>>
    BY DEF StopComplete
  <2>1. acceptor = "gone" /\ closedEvents = <<>> /\ \A c \in Conn : pc[c] \in {"none", "gone"}
    BY DEF ListenerInv, StopInv
  <2>2. \A c \in Conn : ~open[c]  BY <2>1 DEF ListenerInv, ShapeInv, OpenInv
  <2>3. \A s \in SessionId : sessions[s] = None
    BY <2>1 DEF ListenerInv, ShapeInv, TableTypes, TablesInv, Registered
  <2> QED  BY <2>1, <2>2, <2>3
<1> QED  BY <1>1, ListenerInvariant, PTL
=============================================================================
