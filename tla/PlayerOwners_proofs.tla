------------------------ MODULE PlayerOwners_proofs ------------------------
(***************************************************************************)
(* Proofs about PlayerOwners, for every number of processes, requests and  *)
(* players and every value of the timing constants.                        *)
(***************************************************************************)
EXTENDS PlayerOwners, TLAPS

-----------------------------------------------------------------------------
(***************************************************************************)
(* Type correctness, one lemma for each group of variables an operator     *)
(* writes.                                                                 *)
(***************************************************************************)
LEMMA ConstantTypes ==
  /\ Lease \in Nat \ {0} /\ MaxFaults \in Nat /\ Guard \in Nat /\ Guard < Lease
  /\ RefreshInterval \in Nat \ {0} /\ HandBackIdle \in Nat
  /\ EvictWait \in Nat /\ RedisLag \in Nat /\ PassLag \in Nat /\ TxnTicks \in Nat
<1>1. {EvictWait, RedisLag, PassLag, TxnTicks, MaxCrashes} \subseteq Nat
  BY OwnersAssumption
<1> QED
  BY <1>1, RouteAssumption, OwnersAssumption DEF HandBackIdle

LEMMA ReplyType ==
  ASSUME RouteTypeOK, NEW reply \in Reply, Answered(reply)
  PROVE  faults' \in 0..MaxFaults
BY RouteAssumption DEF RouteTypeOK, Reply, Answered

\* A command of Redis leaves a well-formed table.
LEMMA CommandType ==
  ASSUME RouteTypeOK, NEW i \in Proc, NEW p \in Player, NEW reply \in Reply,
         \/ SetNX(i, p, reply)
         \/ Get(reply)
         \/ CompareAndExpire(i, p, reply)
         \/ CompareAndDelete(i, p, reply)
  PROVE  RouteTypeOK'
<1>1. faults' \in 0..MaxFaults
  BY ReplyType DEF SetNX, Get, CompareAndExpire, CompareAndDelete
<1>2. Lease \in 0..Lease /\ 0 \in 0..Lease
  BY RouteAssumption
<1> QED
  BY <1>1, <1>2 DEF RouteTypeOK, tableVars, SetNX, Get, CompareAndExpire,
                    CompareAndDelete

LEMMA RouteTickType == ASSUME RouteTypeOK, RouteTick PROVE RouteTypeOK'
BY RouteAssumption DEF RouteTypeOK, RouteTick

LEMMA ConfirmLockedType ==
  ASSUME LocalTypeOK, NEW i \in Proc, NEW p \in Player, NEW used,
         ConfirmLocked(i, p, used)
  PROVE  LocalTypeOK'
BY ConstantTypes DEF LocalTypeOK, ConfirmLocked

LEMMA ForgetType ==
  ASSUME LocalTypeOK, NEW i \in Proc, NEW p \in Player, Forget(i, p)
  PROVE  LocalTypeOK'
BY ConstantTypes DEF LocalTypeOK, Forget

LEMMA TouchType ==
  ASSUME LocalTypeOK, NEW i \in Proc, NEW p \in Player, Touch(i, p),
         UNCHANGED <<known, left, interrupted, handingBack>>
  PROVE  LocalTypeOK'
BY ConstantTypes DEF LocalTypeOK, Touch

LEMMA BeginWorkType ==
  ASSUME WorkTypeOK, NEW i \in Proc, NEW p \in Player, BeginWork(i, p)
  PROVE  WorkTypeOK'
<1>1. TxnTicks \in 0..TxnTicks
  BY ConstantTypes
<1>2. CASE txn[i][p] = "idle"
  <2>1. txn' = [txn EXCEPT ![i][p] = "admitted"]
    BY <1>2 DEF BeginWork
  <2>2. fuel' = [fuel EXCEPT ![i][p] = TxnTicks]
    BY <1>2 DEF BeginWork
  <2> QED
    BY <1>1, <2>1, <2>2 DEF WorkTypeOK
<1>3. CASE txn[i][p] # "idle"
  BY <1>3 DEF WorkTypeOK, BeginWork, workVars
<1> QED
  BY <1>2, <1>3

LEMMA JoinOrEvictType ==
  ASSUME EntityTypeOK, NEW i \in Proc, NEW p \in Player, JoinOrEvict(i, p)
  PROVE  eviction' \in [Proc -> [Player -> {"none", "running", "dropped", "failed"}]]
BY DEF EntityTypeOK, JoinOrEvict

\* The moves of a worker.
LEMMA GotoType ==
  ASSUME WorkerTypeOK, NEW w \in Worker, NEW to \in PC, Goto(w, to),
         pc[w] # "rest" \/ w \in Proc,
         to \in {"rest", "pass", "handback"} \/ arg[w] \in Player
  PROVE  WorkerTypeOK'
BY OwnersAssumption DEF WorkerTypeOK, Goto, Worker

LEMMA CallType ==
  ASSUME WorkerTypeOK, NEW i \in Proc, NEW to \in PC, NEW p \in Player,
         Call(i, to, p)
  PROVE  WorkerTypeOK'
BY OwnersAssumption DEF WorkerTypeOK, Call, Worker

LEMMA ServeType ==
  ASSUME WorkerTypeOK, NEW r \in Request, NEW i \in Proc, NEW to \in PC,
         NEW p \in Player, Serve(r, i, to, p)
  PROVE  WorkerTypeOK'
BY OwnersAssumption DEF WorkerTypeOK, Serve, Worker

LEMMA ReturnType ==
  ASSUME WorkerTypeOK, NEW w \in Worker, NEW to \in {"rest", "pass", "handback"},
         Return(w, to)
  PROVE  WorkerTypeOK'
<1> DEFINE back == IF w \in Proc THEN to ELSE "rest"
<1>1. back \in PC /\ back \in {"rest", "pass", "handback"}
  BY DEF PC, HandBackPC
<1>2. pc' = [pc EXCEPT ![w] = back]
  BY DEF Return
<1>3. /\ pc' \in [Worker -> PC]
      /\ arg' \in [Worker -> Player \cup {None}]
      /\ continuous' \in [Worker -> BOOLEAN]
      /\ spent' \in [Worker -> Nat]
      /\ home' \in [Request -> Proc \cup {None}]
  <2> HIDE DEF back
  <2> QED
    BY <1>1, <1>2 DEF WorkerTypeOK, Return
<1>4. ASSUME NEW r \in Request, pc'[r] # "rest" PROVE home'[r] \in Proc
  <2>1. r # w
    BY <1>2, <1>4, OwnersAssumption DEF WorkerTypeOK, Worker
  <2> QED
    BY <1>2, <1>4, <2>1 DEF WorkerTypeOK, Return, Worker
<1>5. ASSUME NEW v \in Worker, pc'[v] \notin {"rest", "pass", "handback"}
      PROVE  arg'[v] \in Player
  <2>1. v # w
    BY <1>1, <1>2, <1>5 DEF WorkerTypeOK
  <2> QED
    BY <1>2, <1>5, <2>1 DEF WorkerTypeOK, Return
<1> QED
  BY <1>3, <1>4, <1>5 DEF WorkerTypeOK

LEMMA ClaimRoutedType ==
  ASSUME WorkerTypeOK, NEW w \in Worker, NEW mine, ClaimRouted(w, mine),
         pc[w] # "rest", arg[w] \in Player
  PROVE  WorkerTypeOK'
<1>1. {"confirm", "drop", "fence"} \subseteq PC
  BY DEF PC, ClaimPC
<1> QED
  BY <1>1, GotoType, ReturnType DEF ClaimRouted

\* A group of variables a step leaves alone keeps its type.
LEMMA SameTypes ==
  ASSUME TypeOK
  PROVE  /\ UNCHANGED routeVars => RouteTypeOK'
         /\ UNCHANGED mode => mode' \in [Proc -> {"off", "up", "dead"}]
         /\ UNCHANGED session => session' \in [Proc -> SUBSET Player]
         /\ UNCHANGED localVars => LocalTypeOK'
         /\ UNCHANGED entityVars => EntityTypeOK'
         /\ UNCHANGED workVars => WorkTypeOK'
         /\ UNCHANGED tickerVars => TickerTypeOK'
         /\ UNCHANGED workerVars => WorkerTypeOK'
         /\ UNCHANGED passVars => PassTypeOK'
<1>1. UNCHANGED routeVars => RouteTypeOK'
  BY DEF TypeOK, RouteTypeOK, routeVars
<1>2. UNCHANGED mode => mode' \in [Proc -> {"off", "up", "dead"}]
  BY DEF TypeOK
<1>3. UNCHANGED session => session' \in [Proc -> SUBSET Player]
  BY DEF TypeOK
<1>4. UNCHANGED localVars => LocalTypeOK'
  BY DEF TypeOK, LocalTypeOK, localVars
<1>5. UNCHANGED entityVars => EntityTypeOK'
  BY DEF TypeOK, EntityTypeOK, entityVars
<1>6. UNCHANGED workVars => WorkTypeOK'
  BY DEF TypeOK, WorkTypeOK, workVars
<1>7. UNCHANGED tickerVars => TickerTypeOK'
  BY DEF TypeOK, TickerTypeOK, tickerVars
<1>8. UNCHANGED workerVars => WorkerTypeOK'
  BY DEF TypeOK, WorkerTypeOK, workerVars
<1>9. UNCHANGED passVars => PassTypeOK'
  BY DEF TypeOK, PassTypeOK, passVars
<1> QED
  BY <1>1, <1>2, <1>3, <1>4, <1>5, <1>6, <1>7, <1>8, <1>9

\* A worker in the middle of a call has a process and a player.
LEMMA AtWork ==
  ASSUME WorkerTypeOK, NEW w \in Worker,
         pc[w] \notin {"rest", "pass", "handback"}
  PROVE  Home(w) \in Proc /\ arg[w] \in Player
BY DEF WorkerTypeOK, Home, Worker

LEMMA InitType == Init => TypeOK
<1> SUFFICES ASSUME Init PROVE TypeOK
  OBVIOUS
<1>1. RouteTypeOK
  BY ConstantTypes DEF Init, RouteInit, RouteTypeOK
<1>2. LocalTypeOK /\ EntityTypeOK /\ WorkTypeOK
  BY ConstantTypes DEF Init, LocalTypeOK, EntityTypeOK, WorkTypeOK
<1>3. TickerTypeOK /\ PassTypeOK
  BY ConstantTypes DEF Init, TickerTypeOK, PassTypeOK
<1>4. WorkerTypeOK
  BY DEF Init, WorkerTypeOK, PC, Worker
<1> QED
  BY <1>1, <1>2, <1>3, <1>4 DEF Init, TypeOK

\* The steps of Claim.
LEMMA ClaimStepType ==
  ASSUME TypeOK, NEW w \in Worker, ClaimStep(w)
  PROVE  TypeOK'
<1> USE DEF TypeOK
<1>1. CASE ClaimAdmit(w)
  <2>1. Home(w) \in Proc /\ arg[w] \in Player
    BY <1>1, AtWork DEF ClaimAdmit
  <2>2. LocalTypeOK'
    BY <1>1, <2>1, TouchType DEF ClaimAdmit
  <2>3. WorkerTypeOK'
    BY <1>1 DEF ClaimAdmit, WorkerTypeOK, PC, ClaimPC, Admit
  <2> QED
    BY <1>1, <2>2, <2>3, SameTypes DEF ClaimAdmit
<1>2. CASE ClaimSetNX(w)
  <2>1. Home(w) \in Proc /\ arg[w] \in Player
    BY <1>2, AtWork DEF ClaimSetNX
  <2>2. PICK reply \in Reply :
          /\ SetNX(Home(w), arg[w], reply)
          /\ IF reply # "ok" THEN Return(w, "pass")
             ELSE IF owner[arg[w]] = None THEN ClaimRouted(w, TRUE)
             ELSE Goto(w, "get")
    BY <1>2 DEF ClaimSetNX
  <2>3. RouteTypeOK'
    BY <2>1, <2>2, CommandType
  <2>4. pc[w] = "setnx" /\ "get" \in PC
    BY <1>2 DEF ClaimSetNX, PC, ClaimPC
  <2>5. WorkerTypeOK'
    BY <2>1, <2>2, <2>4, ReturnType, ClaimRoutedType, GotoType
  <2> QED
    BY <1>2, <2>3, <2>5, SameTypes DEF ClaimSetNX
<1>3. CASE ClaimGet(w)
  <2>1. Home(w) \in Proc /\ arg[w] \in Player
    BY <1>3, AtWork DEF ClaimGet
  <2>2. PICK reply \in Reply :
          /\ Get(reply)
          /\ IF reply # "ok" THEN Return(w, "pass")
             ELSE IF owner[arg[w]] = Home(w) THEN Goto(w, "expire")
             ELSE ClaimRouted(w, SameSid(Home(w), owner[arg[w]]))
    BY <1>3 DEF ClaimGet
  <2>3. RouteTypeOK'
    BY <2>1, <2>2, CommandType
  <2>4. pc[w] = "get" /\ "expire" \in PC
    BY <1>3 DEF ClaimGet, PC, ClaimPC
  <2>5. WorkerTypeOK'
    BY <2>1, <2>2, <2>4, ReturnType, ClaimRoutedType, GotoType
  <2> QED
    BY <1>3, <2>3, <2>5, SameTypes DEF ClaimGet
<1>4. CASE ClaimExpire(w)
  <2>1. Home(w) \in Proc /\ arg[w] \in Player /\ pc[w] = "expire"
    BY <1>4, AtWork DEF ClaimExpire
  <2>2. PICK reply \in Reply :
          /\ CompareAndExpire(Home(w), arg[w], reply)
          /\ IF reply # "ok" THEN Return(w, "pass") ELSE ClaimRouted(w, TRUE)
    BY <1>4 DEF ClaimExpire
  <2>3. RouteTypeOK'
    BY <2>1, <2>2, CommandType
  <2>5. WorkerTypeOK'
    BY <2>1, <2>2, ReturnType, ClaimRoutedType
  <2> QED
    BY <1>4, <2>3, <2>5, SameTypes DEF ClaimExpire
<1>5. CASE ClaimDrop(w)
  <2>1. Home(w) \in Proc /\ arg[w] \in Player /\ pc[w] = "drop"
    BY <1>5, AtWork DEF ClaimDrop
  <2>2. EntityTypeOK'
    BY <1>5, <2>1, JoinOrEvictType DEF ClaimDrop, EntityTypeOK
  <2>3. WorkerTypeOK'
    BY <1>5, <2>1, GotoType DEF ClaimDrop, PC, ClaimPC
  <2> QED
    BY <1>5, <2>2, <2>3, SameTypes DEF ClaimDrop
<1>6. CASE ClaimNotDropped(w)
  <2>1. WorkerTypeOK'
    BY <1>6, ReturnType DEF ClaimNotDropped
  <2> QED
    BY <1>6, <2>1, SameTypes DEF ClaimNotDropped
<1>7. CASE ClaimConfirm(w)
  <2>1. Home(w) \in Proc /\ arg[w] \in Player
    BY <1>7, AtWork DEF ClaimConfirm
  <2>2. LocalTypeOK'
    BY <1>7, <2>1, ConfirmLockedType DEF ClaimConfirm
  <2>3. WorkTypeOK'
    BY <1>7, <2>1, BeginWorkType, SameTypes DEF ClaimConfirm
  <2>4. WorkerTypeOK'
    BY <1>7, ReturnType DEF ClaimConfirm
  <2> QED
    BY <1>7, <2>2, <2>3, <2>4, SameTypes DEF ClaimConfirm
<1> QED
  BY <1>1, <1>2, <1>3, <1>4, <1>5, <1>6, <1>7 DEF ClaimStep

\* What starts a request goroutine, and Owns' question to Redis.
LEMMA RequestStepType ==
  ASSUME TypeOK, NEW r \in Request, RequestStep(r)
  PROVE  TypeOK'
<1> USE DEF TypeOK
<1>1. {"claim", "owner"} \subseteq PC /\ r \in Worker
  BY DEF PC, ClaimPC, Worker
<1>2. CASE OwnerAnswer(r)
  <2>1. Home(r) \in Proc /\ arg[r] \in Player /\ pc[r] = "owner"
    BY <1>1, <1>2, AtWork DEF OwnerAnswer
  <2>2. PICK reply \in Reply :
          /\ Get(reply)
          /\ IF reply = "ok" /\ owner[arg[r]] = None
               THEN Goto(r, "claim")
               ELSE Return(r, "rest")
    BY <1>2 DEF OwnerAnswer
  <2>3. RouteTypeOK'
    BY <2>1, <2>2, CommandType
  <2>4. WorkerTypeOK'
    BY <1>1, <2>1, <2>2, GotoType, ReturnType
  <2> QED
    BY <1>2, <2>3, <2>4, SameTypes DEF OwnerAnswer
<1>3. ASSUME NEW i \in Proc, NEW p \in Player, Login(r, i, p)
      PROVE  TypeOK'
  <2>1. WorkerTypeOK'
    BY <1>1, <1>3, ServeType DEF Login
  <2>2. session' \in [Proc -> SUBSET Player]
    BY <1>3 DEF Login
  <2> QED
    BY <1>3, <2>1, <2>2, SameTypes DEF Login
<1>4. ASSUME NEW i \in Proc, NEW p \in Player, AskOwner(r, i, p)
      PROVE  TypeOK'
  <2>1. WorkerTypeOK'
    BY <1>1, <1>4, ServeType DEF AskOwner
  <2> QED
    BY <1>4, <2>1, SameTypes DEF AskOwner
<1> QED
  BY <1>2, <1>3, <1>4 DEF RequestStep

\* The refresh loop.
LEMMA LoopStepType ==
  ASSUME TypeOK, NEW i \in Proc, LoopStep(i)
  PROVE  TypeOK'
<1> USE DEF TypeOK
<1>1. {"rest", "pass", "handback", "claim", "hbwait", "release"} \subseteq PC /\ i \in Worker
  BY DEF PC, ClaimPC, HandBackPC, Worker
<1>2. Home(i) = i
  BY DEF Home
<1>3. CASE BeginPass(i)
  <2>1. WorkerTypeOK'
    BY <1>1, <1>3, GotoType DEF BeginPass
  <2>2. TickerTypeOK'
    BY <1>3 DEF BeginPass, TickerTypeOK
  <2>3. PassTypeOK'
    BY <1>3 DEF BeginPass, PassTypeOK
  <2> QED
    BY <1>3, <2>1, <2>2, <2>3, SameTypes DEF BeginPass
<1>4. CASE Fence(i)
  <2>1. arg[i] \in Player
    BY <1>1, <1>4, AtWork DEF Fence
  <2>2. LocalTypeOK'
    BY <1>4, <2>1, ForgetType, SameTypes DEF Fence
  <2>3. /\ session' \in [Proc -> SUBSET Player]
        /\ fencing' \in [Proc -> SUBSET Player]
    <3>1. CASE arg[i] \in known[i]
      <4>1. /\ session' = [session EXCEPT ![i] = @ \ {arg[i]}]
            /\ fencing' = [fencing EXCEPT ![i] = @ \cup {arg[i]}]
        BY <1>4, <3>1 DEF Fence
      <4>2. session' \in [Proc -> SUBSET Player]
        BY <4>1
      <4>3. fencing' \in [Proc -> SUBSET Player]
        BY <2>1, <4>1 DEF EntityTypeOK
      <4> QED
        BY <4>2, <4>3
    <3>2. CASE arg[i] \notin known[i]
      BY <1>4, <3>2 DEF Fence, EntityTypeOK
    <3> QED
      BY <3>1, <3>2
  <2>4. WorkerTypeOK'
    BY <1>1, <1>4, ReturnType DEF Fence
  <2>5. EntityTypeOK'
    BY <1>4, <2>3 DEF Fence, EntityTypeOK
  <2> QED
    BY <1>4, <2>2, <2>3, <2>4, <2>5, SameTypes DEF Fence
<1>5. CASE SelectIdle(i)
  <2>1. WorkerTypeOK'
    BY <1>1, <1>5, GotoType DEF SelectIdle
  <2> DEFINE Idle == {p \in known[i] \ handingBack[i] : idle[i][p] >= HandBackIdle}
  <2>2. Idle \subseteq Player
    BY DEF LocalTypeOK
  <2>3. /\ chosen' \in [Proc -> SUBSET Player]
        /\ handingBack' \in [Proc -> SUBSET Player]
    <3>1. CASE HasFencer
      <4>1. /\ chosen' = [chosen EXCEPT ![i] = Idle]
            /\ handingBack' = [handingBack EXCEPT ![i] = @ \cup Idle]
        BY <1>5, <3>1 DEF SelectIdle
      <4> HIDE DEF Idle
      <4> QED
        BY <2>2, <4>1 DEF LocalTypeOK, PassTypeOK
    <3>2. CASE ~HasFencer
      BY <1>5, <3>2 DEF SelectIdle, LocalTypeOK, PassTypeOK
    <3> QED
      BY <3>1, <3>2
  <2>4. LocalTypeOK' /\ PassTypeOK'
    BY <1>5, <2>3 DEF SelectIdle, LocalTypeOK, PassTypeOK
  <2> QED
    BY <1>5, <2>1, <2>4, SameTypes DEF SelectIdle
<1>6. CASE HandBackKeep(i)
  <2>1. WorkerTypeOK'
    BY <1>1, <1>6, ReturnType DEF HandBackKeep
  <2>2. LocalTypeOK'
    BY <1>6 DEF HandBackKeep, LocalTypeOK
  <2> QED
    BY <1>6, <2>1, <2>2, SameTypes DEF HandBackKeep
<1>7. CASE ReleaseLocal(i)
  <2>1. arg[i] \in Player
    BY <1>1, <1>7, AtWork DEF ReleaseLocal
  <2>2. LocalTypeOK'
    BY <1>7, <2>1, ForgetType DEF ReleaseLocal
  <2>3. WorkerTypeOK'
    BY <1>1, <1>7, <2>1, GotoType DEF ReleaseLocal
  <2> QED
    BY <1>7, <2>2, <2>3, SameTypes DEF ReleaseLocal
<1>8. CASE ReleaseKey(i)
  <2>1. arg[i] \in Player
    BY <1>1, <1>8, AtWork DEF ReleaseKey
  <2>2. PICK reply \in Reply : CompareAndDelete(i, arg[i], reply)
    BY <1>8 DEF ReleaseKey
  <2>3. RouteTypeOK'
    BY <2>1, <2>2, CommandType
  <2>4. WorkerTypeOK'
    BY <1>1, <1>8, ReturnType DEF ReleaseKey
  <2> QED
    BY <1>8, <2>3, <2>4, SameTypes DEF ReleaseKey
<1>9. CASE EndPass(i)
  <2>1. WorkerTypeOK'
    BY <1>1, <1>9, GotoType DEF EndPass
  <2> QED
    BY <1>9, <2>1, SameTypes DEF EndPass
<1>10. ASSUME NEW p \in Player, RefreshOne(i, p)
       PROVE  TypeOK'
  <2>1. PICK reply \in Reply :
          /\ CompareAndExpire(i, p, reply)
          /\ renewal' = [renewal EXCEPT ![i][p] =
                           IF reply # "ok" THEN "error"
                           ELSE IF owner[p] = i THEN "held" ELSE "gone"]
    BY <1>10 DEF RefreshOne
  <2>2. RouteTypeOK'
    BY <2>1, CommandType
  <2> DEFINE result == IF reply # "ok" THEN "error"
                       ELSE IF owner[p] = i THEN "held" ELSE "gone"
  <2>3. result \in {"none", "todo", "held", "error", "gone"}
    OBVIOUS
  <2>4. PassTypeOK'
    <3>1. renewal' = [renewal EXCEPT ![i][p] = result]
      BY <2>1
    <3> HIDE DEF result
    <3> QED
      BY <1>10, <2>3, <3>1 DEF RefreshOne, PassTypeOK
  <2> QED
    BY <1>10, <2>2, <2>4, SameTypes DEF RefreshOne
<1>11. ASSUME NEW p \in Player, RenewalHeld(i, p)
       PROVE  TypeOK'
  <2>1. LocalTypeOK'
    BY <1>11, ConfirmLockedType DEF RenewalHeld
  <2>2. PassTypeOK'
    BY <1>11 DEF RenewalHeld, PassTypeOK
  <2> QED
    BY <1>11, <2>1, <2>2, SameTypes DEF RenewalHeld
<1>12. ASSUME NEW p \in Player, RenewalError(i, p)
       PROVE  TypeOK'
  <2>1. PassTypeOK'
    BY <1>12 DEF RenewalError, PassTypeOK
  <2> QED
    BY <1>12, <2>1, SameTypes DEF RenewalError
<1>13. ASSUME NEW p \in Player, RenewalGone(i, p)
       PROVE  TypeOK'
  <2>1. PassTypeOK'
    BY <1>13 DEF RenewalGone, PassTypeOK
  <2>2. LocalTypeOK'
    BY <1>13 DEF RenewalGone, LocalTypeOK
  <2>3. WorkerTypeOK'
    BY <1>1, <1>13, CallType DEF RenewalGone
  <2> QED
    BY <1>13, <2>1, <2>2, <2>3, SameTypes DEF RenewalGone
<1>14. ASSUME NEW p \in Player, HandBackNext(i, p)
       PROVE  TypeOK'
  <2>1. PassTypeOK'
    BY <1>14 DEF HandBackNext, PassTypeOK
  <2>2. LocalTypeOK'
    <3>1. handingBack' \in [Proc -> SUBSET Player]
      <4>1. CASE p \in session[i]
        BY <1>14, <4>1 DEF HandBackNext, LocalTypeOK
      <4>2. CASE p \notin session[i]
        BY <1>14, <4>2 DEF HandBackNext, LocalTypeOK
      <4> QED
        BY <4>1, <4>2
    <3> QED
      BY <1>14, <3>1 DEF HandBackNext, LocalTypeOK
  <2>3. EntityTypeOK'
    BY <1>14, JoinOrEvictType DEF HandBackNext, EntityTypeOK
  <2>4. WorkerTypeOK'
    BY <1>1, <1>14, CallType, SameTypes DEF HandBackNext
  <2> QED
    BY <1>14, <2>1, <2>2, <2>3, <2>4, SameTypes DEF HandBackNext
<1> QED
  BY <1>3, <1>4, <1>5, <1>6, <1>7, <1>8, <1>9, <1>10, <1>11, <1>12, <1>13, <1>14
  DEF LoopStep

\* Evictions, connections and transactions.
LEMMA EntityStepType ==
  ASSUME TypeOK, NEW i \in Proc, NEW p \in Player, EntityStep(i, p)
  PROVE  TypeOK'
<1> USE DEF TypeOK
<1>1. CASE EvictOk(i, p)
  <2>1. EntityTypeOK'
    BY <1>1 DEF EvictOk, EntityTypeOK
  <2> QED
    BY <1>1, <2>1, SameTypes DEF EvictOk
<1>2. CASE EvictFail(i, p)
  <2>1. EntityTypeOK'
    BY <1>2 DEF EvictFail, EntityTypeOK
  <2> QED
    BY <1>2, <2>1, SameTypes DEF EvictFail
<1>3. CASE EvictReport(i, p)
  <2>1. EntityTypeOK'
    BY <1>3 DEF EvictReport, EntityTypeOK
  <2>2. WorkerTypeOK'
    <3>1. \A w \in Worker :
            \/ pc'[w] = pc[w]
            \/ /\ pc[w] \in {"wait", "hbwait"}
               /\ pc'[w] \in {"dropped", "undropped", "forget", "keep"}
      BY <1>3 DEF EvictReport
    <3>2. pc' \in [Worker -> PC]
      BY <1>3 DEF EvictReport, WorkerTypeOK, PC, ClaimPC, HandBackPC
    <3> QED
      BY <1>3, <3>1, <3>2 DEF EvictReport, WorkerTypeOK, Worker
  <2> QED
    BY <1>3, <2>1, <2>2, SameTypes DEF EvictReport
<1>4. CASE FenceDrop(i, p)
  <2>1. EntityTypeOK'
    BY <1>4, JoinOrEvictType DEF FenceDrop, EntityTypeOK
  <2> QED
    BY <1>4, <2>1, SameTypes DEF FenceDrop
<1>5. CASE AdmitWork(i, p)
  <2>1. LocalTypeOK'
    BY <1>5, TouchType DEF AdmitWork
  <2>2. WorkTypeOK'
    BY <1>5, BeginWorkType DEF AdmitWork
  <2> QED
    BY <1>5, <2>1, <2>2, SameTypes DEF AdmitWork
<1>6. CASE RunWork(i, p)
  <2>1. EntityTypeOK' /\ WorkTypeOK'
    BY <1>6 DEF RunWork, EntityTypeOK, WorkTypeOK
  <2> QED
    BY <1>6, <2>1, SameTypes DEF RunWork
<1>7. CASE CommitWork(i, p)
  <2>1. WorkTypeOK'
    BY <1>7, ConstantTypes DEF CommitWork, WorkTypeOK
  <2>2. EntityTypeOK'
    BY <1>7 DEF CommitWork, EntityTypeOK
  <2> QED
    BY <1>7, <2>1, <2>2, SameTypes DEF CommitWork
<1>8. CASE Disconnect(i, p)
  <2>1. session' \in [Proc -> SUBSET Player]
    BY <1>8 DEF Disconnect
  <2> QED
    BY <1>8, <2>1, SameTypes DEF Disconnect
<1> QED
  BY <1>1, <1>2, <1>3, <1>4, <1>5, <1>6, <1>7, <1>8 DEF EntityStep

LEMMA StartProcType ==
  ASSUME TypeOK, NEW i \in Proc, StartProc(i)
  PROVE  TypeOK'
<1>1. mode' \in [Proc -> {"off", "up", "dead"}]
  BY DEF TypeOK, StartProc
<1> QED
  BY <1>1, SameTypes DEF TypeOK, StartProc

LEMMA CrashType ==
  ASSUME TypeOK, NEW i \in Proc, Crash(i)
  PROVE  TypeOK'
<1>1. /\ mode' \in [Proc -> {"off", "up", "dead"}]
      /\ session' \in [Proc -> SUBSET Player]
  BY DEF TypeOK, Crash
<1>2. LocalTypeOK'
  BY ConstantTypes DEF TypeOK, Crash, LocalTypeOK
<1>3. EntityTypeOK' /\ WorkTypeOK'
  BY ConstantTypes DEF TypeOK, Crash, EntityTypeOK, WorkTypeOK
<1>4. TickerTypeOK' /\ PassTypeOK'
  BY ConstantTypes DEF TypeOK, Crash, TickerTypeOK, PassTypeOK
<1>5. WorkerTypeOK'
  <2> DEFINE Mine == {w \in Worker : Home(w) = i}
  <2>1. /\ home' = [r \in Request |-> IF r \in Mine THEN None ELSE home[r]]
        /\ pc' = [w \in Worker |-> IF w \in Mine THEN "rest" ELSE pc[w]]
        /\ arg' = [w \in Worker |-> IF w \in Mine THEN None ELSE arg[w]]
        /\ continuous' = [w \in Worker |-> IF w \in Mine THEN FALSE ELSE continuous[w]]
        /\ spent' = [w \in Worker |-> IF w \in Mine THEN 0 ELSE spent[w]]
    BY DEF Crash
  <2> HIDE DEF Mine
  <2> QED
    BY <2>1 DEF TypeOK, WorkerTypeOK, PC, Worker
<1> QED
  BY <1>1, <1>2, <1>3, <1>4, <1>5, SameTypes DEF TypeOK, Crash

LEMMA TickType ==
  ASSUME TypeOK, Tick
  PROVE  TypeOK'
<1>1. RouteTypeOK'
  BY RouteTickType DEF TypeOK, Tick
<1>2. LocalTypeOK'
  BY ConstantTypes DEF TypeOK, Tick, LocalTypeOK
<1>3. WorkTypeOK'
  BY ConstantTypes DEF TypeOK, Tick, WorkTypeOK
<1>4. TickerTypeOK'
  <2>1. \A n \in 0..RefreshInterval - 1 :
          (n + 1) % RefreshInterval \in 0..RefreshInterval - 1
    BY ConstantTypes
  <2> QED
    BY <2>1 DEF TypeOK, Tick, TickerTypeOK
<1>5. WorkerTypeOK'
  BY DEF TypeOK, Tick, WorkerTypeOK
<1>6. PassTypeOK'
  BY DEF TypeOK, Tick, PassTypeOK
<1> QED
  BY <1>1, <1>2, <1>3, <1>4, <1>5, <1>6, SameTypes DEF TypeOK, Tick

(***************************************************************************)
(* Every variable keeps its type, and a worker in the middle of a call has *)
(* a process and a player to work on.                                      *)
(***************************************************************************)
THEOREM TypeCorrect == Spec => []TypeOK
<1>1. TypeOK /\ [Next]_vars => TypeOK'
  <2> SUFFICES ASSUME TypeOK, [Next]_vars PROVE TypeOK'
    OBVIOUS
  <2>1. CASE UNCHANGED vars
    BY <2>1, SameTypes DEF TypeOK, vars
  <2>2. CASE Next
    BY <2>2, ClaimStepType, RequestStepType, LoopStepType, EntityStepType,
       StartProcType, CrashType, TickType DEF Next
  <2> QED
    BY <2>1, <2>2
<1> QED
  BY <1>1, InitType, PTL DEF Spec

-----------------------------------------------------------------------------
(***************************************************************************)
(* The gate, for any constants: commands that take ticks, an eviction that *)
(* may take as long as the guard band or longer, server ids used again.    *)
(* Four races can still put a gate in the wrong, and nothing in the code   *)
(* excludes them; each is a state predicate here, so that a theorem says   *)
(* what holds as long as none of them has happened.                        *)
(***************************************************************************)

\* The claims that have been won and not confirmed yet.
HoldPC == {"drop", "wait", "dropped", "confirm"}

\* A success is taken for what it was when Redis gave it: the drop of the
\* copy, or the wait in the pass, may not have used up the guard band (with
\* D ticks of it to spare).
Timely(D) ==
  /\ \A w \in Worker : pc[w] = "dropped" => spent[w] + D <= Guard
  /\ \A i \in Proc, p \in Player : renewal[i][p] = "held" => age[i][p] + D <= Guard

\* What Store.Claim read still stands when it extends the lease.
AnswerStands ==
  \A w \in Worker : pc[w] = "expire" => owner[arg[w]] = Home(w)

\* No claim finds the key of another process on its own server id, which it
\* would take for its own and leave as it is.
NoKeyInherited ==
  \A w \in Worker :
    pc[w] = "get" /\ SameSid(Home(w), owner[arg[w]]) => owner[arg[w]] = Home(w)

\* No request holds a claim on the key its process is about to delete.
ReleaseAlone ==
  \A r \in Request :
    pc[r] \in HoldPC /\ pc[home[r]] = "release" => arg[r] # arg[home[r]]

Unraced(D) == Timely(D) /\ AnswerStands /\ NoKeyInherited /\ ReleaseAlone

\* No request confirms a player whom its process is handing back.
ConfirmsAside ==
  \A r \in Request :
    pc[r] \in {"dropped", "confirm"} => arg[r] \notin Leaving(home[r])

\* HandBackUndisturbed, which the runs with background work check, is more.
LEMMA UndisturbedSuffices ==
  ASSUME TypeOK, HandBackUndisturbed
  PROVE  ReleaseAlone /\ ConfirmsAside
<1>1. ASSUME NEW r \in Request, pc[r] \in HoldPC PROVE arg[r] \notin Leaving(home[r])
  BY <1>1 DEF HandBackUndisturbed, HoldPC, ClaimPC
<1>2. ASSUME NEW r \in Request, pc[r] \in HoldPC, pc[home[r]] = "release"
      PROVE  arg[r] # arg[home[r]]
  <2>1. r \in Worker /\ arg[r] \in Player
    BY <1>2 DEF HoldPC, TypeOK, WorkerTypeOK, Worker
  <2> QED
    BY <1>1, <1>2, <2>1 DEF Leaving, HandBackPC
<1> QED
  BY <1>1, <1>2 DEF ReleaseAlone, ConfirmsAside, HoldPC

(***************************************************************************)
(* The budgets that make an answer timely: where a drop may wait no longer *)
(* than the guard band leaves room for, and the pass is not held up for    *)
(* longer, Timely need not be supposed.  evictBudget and AdmissionGuard    *)
(* are both 5 s: the first half holds of the code with D = 0.              *)
(***************************************************************************)
WaitPC == {"wait", "dropped"}

InBudget ==
  /\ \A w \in Worker : pc[w] \in WaitPC => spent[w] <= EvictWait
  /\ \A i \in Proc, p \in Player : renewal[i][p] = "held" => age[i][p] <= PassLag

WaitsKept ==
  \A w \in Worker : pc'[w] \in WaitPC =>
    spent'[w] = 0 \/ (pc[w] \in WaitPC /\ spent'[w] = spent[w])

AgesKept ==
  \A i \in Proc, p \in Player : renewal'[i][p] = "held" =>
    age'[i][p] = 0 \/ (renewal[i][p] = "held" /\ age'[i][p] = age[i][p])

LEMMA MovesKeepWaits ==
  ASSUME WorkerTypeOK
  PROVE  /\ UNCHANGED workerVars => WaitsKept
         /\ \A w \in Worker, to \in PC : Goto(w, to) => WaitsKept
         /\ \A w \in Worker, to \in PC \ WaitPC : Return(w, to) => WaitsKept
         /\ \A i \in Proc, to \in PC, p \in Player : Call(i, to, p) => WaitsKept
         /\ \A r \in Request, i \in Proc, to \in PC \ WaitPC, p \in Player :
              Serve(r, i, to, p) => WaitsKept
<1>1. UNCHANGED workerVars => WaitsKept
  BY DEF workerVars, WaitsKept
<1>2. \A w \in Worker, to \in PC : Goto(w, to) => WaitsKept
  BY DEF Goto, WaitsKept, WorkerTypeOK
<1>3. \A w \in Worker, to \in PC \ WaitPC : Return(w, to) => WaitsKept
  BY DEF Return, WaitsKept, WorkerTypeOK, WaitPC
<1>4. \A i \in Proc, to \in PC, p \in Player : Call(i, to, p) => WaitsKept
  BY DEF Call, WaitsKept, WorkerTypeOK, Worker
<1>5. \A r \in Request, i \in Proc, to \in PC \ WaitPC, p \in Player :
        Serve(r, i, to, p) => WaitsKept
  BY DEF Serve, WaitsKept, WorkerTypeOK, Worker
<1> QED
  BY <1>1, <1>2, <1>3, <1>4, <1>5

LEMMA StepKeepsBudget ==
  ASSUME TypeOK, TypeOK', InBudget, WaitsKept, AgesKept
  PROVE  InBudget'
BY ConstantTypes DEF InBudget, WaitsKept, AgesKept

LEMMA ClaimStepBudget ==
  ASSUME TypeOK, NEW w \in Worker, ClaimStep(w)
  PROVE  WaitsKept /\ AgesKept
<1> USE DEF TypeOK
<1>1. AgesKept
  BY DEF ClaimStep, ClaimAdmit, ClaimSetNX, ClaimGet, ClaimExpire, ClaimDrop,
         ClaimNotDropped, ClaimConfirm, passVars, AgesKept
<1>2. /\ {"rest", "pass", "get", "expire", "wait", "confirm", "drop", "fence"} \subseteq PC
      /\ {"rest", "pass"} \subseteq PC \ WaitPC
  BY DEF PC, ClaimPC, WaitPC
<1>3. CASE ClaimAdmit(w)
  BY <1>1, <1>3 DEF ClaimAdmit, WaitsKept, WaitPC, WorkerTypeOK
<1>4. CASE ~ClaimAdmit(w)
  <2>1. (\E to \in PC : Goto(w, to)) \/ (\E to \in {"rest", "pass"} : Return(w, to))
    BY <1>2, <1>4
    DEF ClaimStep, ClaimSetNX, ClaimGet, ClaimExpire, ClaimDrop, ClaimNotDropped,
        ClaimConfirm, ClaimRouted
  <2> QED
    BY <1>1, <1>2, <2>1, MovesKeepWaits
<1> QED
  BY <1>3, <1>4

LEMMA RequestStepBudget ==
  ASSUME TypeOK, NEW r \in Request, RequestStep(r)
  PROVE  WaitsKept /\ AgesKept
<1> USE DEF TypeOK
<1>1. AgesKept
  BY DEF RequestStep, OwnerAnswer, Login, AskOwner, passVars, AgesKept
<1>2. /\ r \in Worker /\ "claim" \in PC /\ "claim" \notin WaitPC
      /\ "owner" \in PC \ WaitPC /\ "rest" \in PC \ WaitPC
  BY DEF PC, ClaimPC, WaitPC, Worker
<1>3. \/ Goto(r, "claim") \/ Return(r, "rest")
      \/ \E i \in Proc, to \in {"claim", "owner"}, p \in Player : Serve(r, i, to, p)
  BY DEF RequestStep, OwnerAnswer, Login, AskOwner
<1> QED
  BY <1>1, <1>2, <1>3, MovesKeepWaits

LEMMA LoopStepBudget ==
  ASSUME TypeOK, NEW i \in Proc, LoopStep(i)
  PROVE  WaitsKept /\ AgesKept
<1> USE DEF TypeOK
<1>1. /\ i \in Worker /\ {"rest", "pass", "handback"} \subseteq PC \ WaitPC
      /\ {"claim", "hbwait", "release"} \subseteq PC
  BY DEF PC, ClaimPC, HandBackPC, WaitPC, Worker
<1>2. CASE BeginPass(i) \/ SelectIdle(i) \/ ReleaseLocal(i) \/ EndPass(i)
  <2>1. AgesKept
    BY <1>2 DEF BeginPass, SelectIdle, ReleaseLocal, EndPass, passVars, PassTypeOK, AgesKept
  <2>2. \E to \in PC : Goto(i, to)
    BY <1>1, <1>2 DEF BeginPass, SelectIdle, ReleaseLocal, EndPass
  <2> QED
    BY <1>1, <2>1, <2>2, MovesKeepWaits
<1>3. CASE Fence(i) \/ HandBackKeep(i) \/ ReleaseKey(i)
  <2>1. AgesKept
    BY <1>3 DEF Fence, HandBackKeep, ReleaseKey, passVars, AgesKept
  <2>2. \E to \in PC \ WaitPC : Return(i, to)
    BY <1>1, <1>3 DEF Fence, HandBackKeep, ReleaseKey
  <2> QED
    BY <1>1, <2>1, <2>2, MovesKeepWaits
<1>4. ASSUME NEW p \in Player, RefreshOne(i, p) \/ RenewalHeld(i, p) \/ RenewalError(i, p)
      PROVE  WaitsKept /\ AgesKept
  <2>1. WaitsKept
    BY <1>4, MovesKeepWaits DEF RefreshOne, RenewalHeld, RenewalError
  <2>2. CASE RefreshOne(i, p)
    BY <2>1, <2>2 DEF RefreshOne, PassTypeOK, AgesKept
  <2>3. CASE RenewalHeld(i, p)
    BY <2>1, <2>3 DEF RenewalHeld, PassTypeOK, AgesKept
  <2>4. CASE RenewalError(i, p)
    BY <2>1, <2>4 DEF RenewalError, PassTypeOK, AgesKept
  <2> QED
    BY <1>4, <2>2, <2>3, <2>4
<1>5. ASSUME NEW p \in Player, RenewalGone(i, p) \/ HandBackNext(i, p)
      PROVE  WaitsKept /\ AgesKept
  <2>1. AgesKept
    <3>1. CASE RenewalGone(i, p)
      BY <3>1 DEF RenewalGone, PassTypeOK, AgesKept
    <3>2. CASE HandBackNext(i, p)
      BY <3>2 DEF HandBackNext, AgesKept
    <3> QED
      BY <1>5, <3>1, <3>2
  <2>2. (\E to \in PC : Call(i, to, p)) \/ UNCHANGED workerVars
    BY <1>1, <1>5 DEF RenewalGone, HandBackNext, workerVars
  <2> QED
    BY <2>1, <2>2, MovesKeepWaits
<1> QED
  BY <1>2, <1>3, <1>4, <1>5 DEF LoopStep

LEMMA EntityStepBudget ==
  ASSUME TypeOK, NEW i \in Proc, NEW p \in Player, EntityStep(i, p)
  PROVE  WaitsKept /\ AgesKept
<1> USE DEF TypeOK
<1>1. AgesKept
  BY DEF EntityStep, EvictOk, EvictFail, EvictReport, FenceDrop, AdmitWork, RunWork,
         CommitWork, Disconnect, passVars, AgesKept
<1>2. CASE EvictReport(i, p)
  <2>1. UNCHANGED spent
    BY <1>2 DEF EvictReport
  <2>2. \A w \in Worker :
          \/ pc'[w] = pc[w]
          \/ pc[w] = "wait"
          \/ pc[w] = "hbwait" /\ pc'[w] \in {"forget", "keep"}
    BY <1>2 DEF EvictReport
  <2> QED
    BY <1>1, <2>1, <2>2 DEF WaitsKept, WaitPC
<1>3. CASE ~EvictReport(i, p)
  BY <1>1, <1>3, MovesKeepWaits
  DEF EntityStep, EvictOk, EvictFail, FenceDrop, AdmitWork, RunWork, CommitWork,
      Disconnect
<1> QED
  BY <1>2, <1>3

LEMMA ProcStepBudget ==
  ASSUME TypeOK, NEW i \in Proc, StartProc(i) \/ Crash(i)
  PROVE  WaitsKept /\ AgesKept
<1> USE DEF TypeOK
<1>1. CASE StartProc(i)
  BY <1>1, MovesKeepWaits DEF StartProc, passVars, AgesKept
<1>2. CASE Crash(i)
  <2> DEFINE Mine == {w \in Worker : Home(w) = i}
  <2>1. /\ pc' = [w \in Worker |-> IF w \in Mine THEN "rest" ELSE pc[w]]
        /\ spent' = [w \in Worker |-> IF w \in Mine THEN 0 ELSE spent[w]]
    BY <1>2 DEF Crash
  <2> HIDE DEF Mine
  <2>2. WaitsKept
    BY <2>1 DEF WaitsKept, WaitPC
  <2>3. AgesKept
    BY <1>2 DEF Crash, PassTypeOK, AgesKept
  <2> QED
    BY <2>2, <2>3
<1> QED
  BY <1>1, <1>2

LEMMA TickBudget ==
  ASSUME TypeOK, TypeOK', InBudget, Tick
  PROVE  InBudget'
<1> USE DEF TypeOK
<1>1. ASSUME NEW w \in Worker, pc[w] \in WaitPC PROVE spent'[w] <= EvictWait
  <2>1. spent[w] < Patience(w)
    BY <1>1 DEF Tick, Waits, WaitPC
  <2>2. pc[w] = "wait"
    <3>1. pc[w] = "dropped" => Patience(w) = 0
      BY DEF Patience
    <3>2. spent[w] \in Nat
      BY DEF WorkerTypeOK
    <3> QED
      BY <1>1, <2>1, <3>1, <3>2 DEF WaitPC
  <2>3. spent[w] \in Nat /\ spent[w] < EvictWait /\ spent'[w] = spent[w] + 1
    BY <2>1, <2>2 DEF Patience, Tick, WorkerTypeOK
  <2> QED
    BY <2>3, ConstantTypes
<1>2. ASSUME NEW i \in Proc, NEW p \in Player, renewal[i][p] = "held"
      PROVE  age'[i][p] <= PassLag
  <2>1. age[i][p] \in Nat /\ age[i][p] < PassLag /\ age'[i][p] = age[i][p] + 1
    BY <1>2 DEF Tick, PassTypeOK
  <2> QED
    BY <2>1, ConstantTypes
<1> QED
  BY <1>1, <1>2 DEF Tick, InBudget

LEMMA BudgetsSuffice ==
  ASSUME NEW D \in Nat, EvictWait + D <= Guard, PassLag + D <= Guard
  PROVE  Spec => []Timely(D)
<1>1. Init => InBudget
  BY DEF Init, InBudget, WaitPC
<1>2. TypeOK /\ TypeOK' /\ InBudget /\ [Next]_vars => InBudget'
  <2> SUFFICES ASSUME TypeOK, TypeOK', InBudget, [Next]_vars PROVE InBudget'
    OBVIOUS
  <2>1. CASE UNCHANGED vars
    BY <2>1, StepKeepsBudget DEF vars, workerVars, passVars, WaitsKept, AgesKept
  <2>2. CASE Next
    BY <2>2, ClaimStepBudget, RequestStepBudget, LoopStepBudget, EntityStepBudget,
       ProcStepBudget, TickBudget, StepKeepsBudget DEF Next
  <2> QED
    BY <2>1, <2>2
<1>3. TypeOK /\ InBudget => Timely(D)
  BY ConstantTypes DEF TypeOK, WorkerTypeOK, PassTypeOK, InBudget, WaitPC, Timely
<1> QED
  BY <1>1, <1>2, <1>3, TypeCorrect, PTL DEF Spec

-----------------------------------------------------------------------------
\* A window that is open beyond the guard band lies inside the lease, and
\* far enough inside for D more ticks.
GateOf(i, p, D) ==
  left[i][p] > Guard =>
    /\ owner[p] = i
    /\ ttl[p] + Guard >= left[i][p] + D

\* A worker that has won the claim holds the key until it has confirmed it,
\* unless the drop takes longer than the guard band.
ClaimOf(w) ==
  /\ pc[w] \in {"drop", "confirm"} =>
       owner[arg[w]] = Home(w) /\ ttl[arg[w]] >= Lease
  /\ pc[w] \in {"wait", "dropped"} /\ spent[w] <= Guard =>
       owner[arg[w]] = Home(w) /\ ttl[arg[w]] + spent[w] >= Lease

\* So does a renewal Redis granted, until the pass handles it.
RenewalOf(i, p) ==
  renewal[i][p] = "held" /\ age[i][p] <= Guard =>
    owner[p] = i /\ ttl[p] + age[i][p] >= Lease

\* When the key is about to be deleted the window is closed, and no renewal
\* of it waits to be handled.
ReleaseOf(i) ==
  /\ pc[i] \in HandBackPC => \A p \in Player : renewal[i][p] = "none"
  /\ pc[i] = "release" => left[i][arg[i]] = 0

GateInv(D) ==
  /\ \A w \in Worker : ClaimOf(w)
  /\ \A i \in Proc : ReleaseOf(i)
  /\ \A i \in Proc, p \in Player : GateOf(i, p, D) /\ RenewalOf(i, p)

-----------------------------------------------------------------------------
(***************************************************************************)
(* What a step that is not a tick may do without harm: no lease shortens,  *)
(* and no window, claim, renewal or release begins.                        *)
(***************************************************************************)
LeaseKept(p) == owner[p] # None => owner'[p] = owner[p] /\ ttl'[p] >= ttl[p]

LeasesKept == \A p \in Player : LeaseKept(p)

Steady(w) ==
  pc'[w] \in HoldPC =>
    /\ arg'[w] = arg[w] /\ Home(w)' = Home(w) /\ spent'[w] = spent[w]
    /\ pc'[w] = pc[w] \/ (pc[w] = "wait" /\ pc'[w] = "dropped")

LoopSteady(i) ==
  /\ pc'[i] \in HandBackPC => pc[i] \in HandBackPC /\ renewal'[i] = renewal[i]
  /\ pc'[i] = "release" => pc[i] = "release" /\ arg'[i] = arg[i]

NoNewWindow(i, p) == left'[i][p] = left[i][p] \/ left'[i][p] = 0

NoNewRenewal(i, p) ==
  renewal'[i][p] = "held" => renewal[i][p] = "held" /\ age'[i][p] = age[i][p]

LEMMA GateKept ==
  ASSUME TypeOK, TypeOK', NEW i \in Proc, NEW p \in Player, LeaseKept(p),
         NEW D \in Nat, GateOf(i, p, D), NoNewWindow(i, p)
  PROVE  GateOf(i, p, D)'
<1> SUFFICES ASSUME left'[i][p] > Guard
             PROVE  owner'[p] = i /\ ttl'[p] + Guard >= left'[i][p] + D
  BY DEF GateOf
<1>1. left'[i][p] = left[i][p]
  BY ConstantTypes DEF NoNewWindow
<1>2. owner[p] = i /\ ttl[p] + Guard >= left[i][p] + D
  BY <1>1 DEF GateOf
<1>3. owner'[p] = i /\ ttl'[p] >= ttl[p]
  BY <1>2, RouteAssumption DEF LeaseKept
<1>4. ttl[p] \in Nat /\ ttl'[p] \in Nat /\ left[i][p] \in Nat
  BY ConstantTypes DEF TypeOK, RouteTypeOK, LocalTypeOK
<1> QED
  BY <1>1, <1>2, <1>3, <1>4, ConstantTypes


LEMMA ClaimKept ==
  ASSUME TypeOK, TypeOK', NEW w \in Worker, ClaimOf(w), Steady(w),
         arg[w] \in Player => LeaseKept(arg[w])
  PROVE  ClaimOf(w)'
<1> SUFFICES ASSUME pc'[w] \in HoldPC,
                    pc'[w] \in {"wait", "dropped"} => spent'[w] <= Guard
             PROVE  ClaimOf(w)'
  BY DEF ClaimOf, HoldPC
<1>1. /\ arg'[w] = arg[w] /\ Home(w)' = Home(w) /\ spent'[w] = spent[w]
      /\ pc'[w] = pc[w] \/ (pc[w] = "wait" /\ pc'[w] = "dropped")
  BY DEF Steady
<1>2. /\ pc[w] \in HoldPC
      /\ pc[w] \in {"wait", "dropped"} => spent[w] <= Guard
  BY <1>1 DEF HoldPC
<1>3. Home(w) \in Proc /\ arg[w] \in Player
  BY <1>2, AtWork DEF TypeOK, HoldPC
<1>4. owner[arg[w]] = Home(w)
  BY <1>2 DEF ClaimOf, HoldPC
<1>5. owner'[arg[w]] = Home(w) /\ ttl'[arg[w]] >= ttl[arg[w]]
  BY <1>3, <1>4, RouteAssumption DEF LeaseKept
<1>6. ttl[arg[w]] \in Nat /\ ttl'[arg[w]] \in Nat /\ spent[w] \in Nat
  BY <1>3, ConstantTypes DEF TypeOK, RouteTypeOK, WorkerTypeOK
<1>7. pc'[w] \in {"drop", "confirm"} => ttl'[arg[w]] >= Lease
  BY <1>1, <1>5, <1>6, ConstantTypes DEF ClaimOf
<1>8. pc'[w] \in {"wait", "dropped"} => ttl'[arg[w]] + spent[w] >= Lease
  BY <1>1, <1>2, <1>5, <1>6, ConstantTypes DEF ClaimOf
<1> QED
  BY <1>1, <1>5, <1>7, <1>8 DEF ClaimOf

LEMMA RenewalKept ==
  ASSUME TypeOK, TypeOK', NEW i \in Proc, NEW p \in Player, LeaseKept(p),
         RenewalOf(i, p), NoNewRenewal(i, p)
  PROVE  RenewalOf(i, p)'
<1> SUFFICES ASSUME renewal'[i][p] = "held", age'[i][p] <= Guard
             PROVE  owner'[p] = i /\ ttl'[p] + age'[i][p] >= Lease
  BY DEF RenewalOf
<1>1. /\ age'[i][p] = age[i][p] /\ owner[p] = i
      /\ ttl[p] + age[i][p] >= Lease
  BY DEF NoNewRenewal, RenewalOf
<1>2. owner'[p] = i /\ ttl'[p] >= ttl[p]
  BY <1>1, RouteAssumption DEF LeaseKept
<1>3. ttl[p] \in Nat /\ ttl'[p] \in Nat /\ age[i][p] \in Nat
  BY ConstantTypes DEF TypeOK, RouteTypeOK, PassTypeOK
<1> QED
  BY <1>1, <1>2, <1>3, ConstantTypes

LEMMA ReleaseKept ==
  ASSUME TypeOK, NEW i \in Proc, ReleaseOf(i), LoopSteady(i),
         pc[i] = "release" => NoNewWindow(i, arg[i])
  PROVE  ReleaseOf(i)'
<1>1. pc'[i] \in HandBackPC => \A p \in Player : renewal'[i][p] = "none"
  BY DEF ReleaseOf, LoopSteady
<1>2. pc'[i] = "release" => left'[i][arg'[i]] = 0
  BY DEF ReleaseOf, LoopSteady, NoNewWindow
<1> QED
  BY <1>1, <1>2 DEF ReleaseOf

\* The parts of GateInv a step has to show one by one.
GateKeptAll == \A i \in Proc, p \in Player : NoNewWindow(i, p)
RenewalKeptAll == \A i \in Proc, p \in Player : NoNewRenewal(i, p)
LoopsKept == \A i \in Proc : LoopSteady(i)

LEMMA ReleasesKept ==
  ASSUME TypeOK, NEW D \in Nat, GateInv(D), GateKeptAll, NEW i \in Proc, LoopSteady(i)
  PROVE  ReleaseOf(i)'
<1>1. i \in Worker
  BY DEF Worker
<1>2. pc[i] = "release" => arg[i] \in Player
  BY <1>1 DEF TypeOK, WorkerTypeOK
<1> QED
  BY <1>2, ReleaseKept DEF GateInv, GateKeptAll

\* A step in which worker w alone may come to hold a claim, and loop l alone
\* may come to release a key.
LEMMA OneMoves ==
  ASSUME TypeOK, TypeOK', NEW D \in Nat, GateInv(D), LeasesKept,
         GateKeptAll, RenewalKeptAll,
         \A w \in Worker : Steady(w) \/ ClaimOf(w)',
         \A i \in Proc : LoopSteady(i) \/ ReleaseOf(i)'
  PROVE  GateInv(D)'
<1>1. \A w \in Worker : ClaimOf(w)'
  BY ClaimKept DEF GateInv, LeasesKept
<1>2. \A i \in Proc, p \in Player : GateOf(i, p, D)'
  BY GateKept DEF GateInv, LeasesKept, GateKeptAll
<1>3. \A i \in Proc, p \in Player : RenewalOf(i, p)'
  BY RenewalKept DEF GateInv, LeasesKept, RenewalKeptAll
<1>4. \A i \in Proc : LoopSteady(i) => ReleaseOf(i)'
  BY ReleasesKept
<1> QED
  BY <1>1, <1>2, <1>3, <1>4 DEF GateInv

LEMMA QuietStep ==
  ASSUME TypeOK, TypeOK', NEW D \in Nat, GateInv(D), LeasesKept, LoopsKept,
         \A w \in Worker : Steady(w), GateKeptAll, RenewalKeptAll
  PROVE  GateInv(D)'
BY OneMoves DEF LoopsKept

\* What unchanged variables give.
LEMMA Unmoved ==
  /\ UNCHANGED tableVars /\ TypeOK => LeasesKept
  /\ UNCHANGED left => GateKeptAll
  /\ UNCHANGED <<renewal, age>> => RenewalKeptAll
  /\ UNCHANGED workerVars => \A w \in Worker : Steady(w)
  /\ UNCHANGED <<pc, arg, renewal>> => LoopsKept
<1>1. UNCHANGED tableVars /\ TypeOK => LeasesKept
  BY ConstantTypes DEF tableVars, LeasesKept, LeaseKept, TypeOK, RouteTypeOK
<1>2. UNCHANGED left => GateKeptAll
  BY DEF GateKeptAll, NoNewWindow
<1>3. UNCHANGED <<renewal, age>> => RenewalKeptAll
  BY DEF RenewalKeptAll, NoNewRenewal
<1>4. UNCHANGED workerVars => \A w \in Worker : Steady(w)
  BY DEF workerVars, Steady, Home
<1>5. UNCHANGED <<pc, arg, renewal>> => LoopsKept
  BY DEF LoopsKept, LoopSteady, HandBackPC
<1> QED
  BY <1>1, <1>2, <1>3, <1>4, <1>5


LEMMA CommandKeeps ==
  ASSUME TypeOK, NEW i \in Proc, NEW p \in Player, NEW reply \in Reply,
         SetNX(i, p, reply) \/ Get(reply) \/ CompareAndExpire(i, p, reply)
  PROVE  LeasesKept
<1>1. CASE SetNX(i, p, reply)
  BY <1>1, ConstantTypes
  DEF TypeOK, RouteTypeOK, LeasesKept, LeaseKept, SetNX, tableVars
<1>2. CASE Get(reply)
  BY <1>2, Unmoved DEF Get
<1>3. CASE CompareAndExpire(i, p, reply)
  BY <1>3, ConstantTypes
  DEF TypeOK, RouteTypeOK, LeasesKept, LeaseKept, CompareAndExpire
<1> QED
  BY <1>1, <1>2, <1>3

\* Only the worker that moves can begin to hold a claim.
\* Only the worker that moves can begin to hold a claim, or to hand back.
LEMMA GotoSteady ==
  ASSUME WorkerTypeOK, NEW w \in Worker, NEW to \in PC, Goto(w, to)
  PROVE  /\ \A v \in Worker : v # w \/ to \notin HoldPC => Steady(v)
         /\ Home(w)' = Home(w) /\ arg' = arg /\ pc'[w] = to /\ spent'[w] = 0
         /\ UNCHANGED renewal => \A i \in Proc : i # w \/ to \notin HandBackPC => LoopSteady(i)
<1>1. \A v \in Worker : v # w \/ to \notin HoldPC => Steady(v)
  BY DEF WorkerTypeOK, Goto, Steady, Home
<1>2. Home(w)' = Home(w) /\ arg' = arg /\ pc'[w] = to /\ spent'[w] = 0
  BY DEF WorkerTypeOK, Goto, Home
<1>3. UNCHANGED renewal => \A i \in Proc : i # w \/ to \notin HandBackPC => LoopSteady(i)
  <2>1. \A i \in Proc : i \in Worker /\ arg'[i] = arg[i]
    BY <1>2 DEF Worker
  <2>2. \A i \in Proc : i # w => pc'[i] = pc[i]
    BY <2>1 DEF WorkerTypeOK, Goto
  <2>3. pc'[w] = to /\ "release" \in HandBackPC
    BY <1>2 DEF HandBackPC
  <2> QED
    BY <2>1, <2>2, <2>3 DEF LoopSteady
<1> QED
  BY <1>1, <1>2, <1>3

LEMMA ReturnSteady ==
  ASSUME WorkerTypeOK, NEW w \in Worker, NEW to \in {"rest", "pass", "handback"},
         Return(w, to)
  PROVE  /\ \A v \in Worker : Steady(v)
         /\ UNCHANGED renewal /\ (to = "handback" => pc[w] \in HandBackPC) => LoopsKept
<1>1. \A v \in Worker : v # w => pc'[v] = pc[v]
  BY DEF WorkerTypeOK, Return
<1>2. pc'[w] \in {"rest", "pass", "handback"} /\ (pc'[w] = "handback" => to = "handback")
  BY DEF WorkerTypeOK, Return
<1>3. \A v \in Worker : v # w =>
         arg'[v] = arg[v] /\ spent'[v] = spent[v] /\ Home(v)' = Home(v)
  BY OwnersAssumption DEF WorkerTypeOK, Return, Home, Worker
<1>4. \A v \in Worker : Steady(v)
  BY <1>1, <1>2, <1>3 DEF Steady, HoldPC
<1>5. UNCHANGED renewal /\ (to = "handback" => pc[w] \in HandBackPC) => LoopsKept
  <2>1. \A i \in Proc : i \in Worker
    BY DEF Worker
  <2>2. {"rest", "pass"} \cap HandBackPC = {} /\ "release" \in HandBackPC
    BY DEF HandBackPC
  <2> QED
    BY <1>1, <1>2, <1>3, <2>1, <2>2 DEF LoopsKept, LoopSteady
<1> QED
  BY <1>4, <1>5

\* The worker has won the claim: it holds the key with a whole lease.
LEMMA RoutedHolds ==
  ASSUME WorkerTypeOK, NEW w \in Worker, arg[w] \in Player,
         UNCHANGED renewal, ClaimRouted(w, TRUE),
         owner'[arg[w]] = Home(w), ttl'[arg[w]] = Lease
  PROVE  /\ \A v \in Worker : Steady(v) \/ ClaimOf(v)'
         /\ LoopsKept
<1>1. PICK to \in {"confirm", "drop"} : Goto(w, to)
  BY DEF ClaimRouted
<1>2. to \in PC /\ to \notin HandBackPC
  BY DEF PC, ClaimPC, HandBackPC
<1>3. /\ \A v \in Worker : v # w => Steady(v)
      /\ Home(w)' = Home(w) /\ arg' = arg /\ pc'[w] = to
      /\ LoopsKept
  BY <1>1, <1>2, GotoSteady DEF LoopsKept
<1>4. ClaimOf(w)'
  BY <1>1, <1>3, ConstantTypes DEF ClaimOf
<1> QED
  BY <1>3, <1>4

LEMMA ConfirmOpens ==
  ASSUME LocalTypeOK, NEW i \in Proc, NEW p \in Player, NEW used,
         ConfirmLocked(i, p, used)
  PROVE  /\ left'[i][p] = Lease
         /\ \A j \in Proc, q \in Player : j # i \/ q # p => NoNewWindow(j, q)
BY DEF LocalTypeOK, ConfirmLocked, NoNewWindow

\* A window opened on a key that is held long enough.
LEMMA OpenStep ==
  ASSUME TypeOK, TypeOK', NEW D \in Nat, GateInv(D), LeasesKept, LoopsKept,
         \A w \in Worker : Steady(w), RenewalKeptAll,
         NEW i \in Proc, NEW p \in Player,
         \A j \in Proc, q \in Player : j # i \/ q # p => NoNewWindow(j, q),
         left'[i][p] = Lease, pc[i] = "release" => arg[i] # p,
         owner'[p] = i, ttl'[p] + Guard >= Lease + D
  PROVE  GateInv(D)'
<1>1. \A w \in Worker : ClaimOf(w)'
  BY ClaimKept DEF GateInv, LeasesKept
<1>2. GateOf(i, p, D)'
  BY DEF GateOf
<1>3. \A j \in Proc, q \in Player : GateOf(j, q, D)'
  BY <1>2, GateKept DEF GateInv, LeasesKept
<1>4. \A j \in Proc, q \in Player : RenewalOf(j, q)'
  BY RenewalKept DEF GateInv, LeasesKept, RenewalKeptAll
<1>5. ASSUME NEW j \in Proc PROVE ReleaseOf(j)'
  <2>1. j \in Worker
    BY DEF Worker
  <2>2. pc[j] = "release" => arg[j] \in Player
    BY <2>1 DEF TypeOK, WorkerTypeOK
  <2>3. pc[j] = "release" => NoNewWindow(j, arg[j])
    BY <2>2
  <2> QED
    BY <2>3, ReleaseKept DEF GateInv, LoopsKept
<1> QED
  BY <1>1, <1>3, <1>4, <1>5 DEF GateInv


\* A command that finds the key held by its caller, or free, and is applied.
LEMMA TakesLease ==
  ASSUME TypeOK, NEW i \in Proc, NEW p \in Player, NEW reply, reply = "ok",
         \/ SetNX(i, p, reply) /\ owner[p] = None
         \/ CompareAndExpire(i, p, reply) /\ owner[p] = i
  PROVE  owner'[p] = i /\ ttl'[p] = Lease
BY DEF TypeOK, RouteTypeOK, SetNX, CompareAndExpire, Applied

\* A worker about to confirm a claim, in a process about to delete the key of
\* another player.
LEMMA ConfirmNotReleased ==
  ASSUME WorkerTypeOK, ReleaseAlone, NEW w \in Worker,
         pc[w] \in {"dropped", "confirm"}, arg[w] \in Player
  PROVE  pc[Home(w)] = "release" => arg[Home(w)] # arg[w]
<1>1. CASE w \in Proc
  BY <1>1 DEF Home
<1>2. CASE w \in Request
  <2>1. pc[w] \in HoldPC /\ Home(w) = home[w]
    BY <1>2, OwnersAssumption DEF HoldPC, Home
  <2> QED
    BY <1>2, <2>1 DEF ReleaseAlone
<1> QED
  BY <1>1, <1>2 DEF Worker

LEMMA ClaimStepGate ==
  ASSUME NEW D \in Nat, D <= Guard, Unraced(D), TypeOK, TypeOK', GateInv(D),
         NEW w \in Worker, ClaimStep(w)
  PROVE  GateInv(D)'
<1> USE DEF TypeOK
<1>1. CASE ClaimAdmit(w)
  <2>1. \A v \in Worker : Steady(v)
    BY <1>1 DEF ClaimAdmit, WorkerTypeOK, Steady, HoldPC, Home
  <2>2. LoopsKept
    <3>1. \A v \in Worker : pc'[v] = pc[v] \/ pc'[v] = "setnx"
      BY <1>1 DEF ClaimAdmit, WorkerTypeOK
    <3>2. arg' = arg /\ renewal' = renewal
      BY <1>1 DEF ClaimAdmit, passVars
    <3> QED
      BY <3>1, <3>2 DEF LoopsKept, LoopSteady, HandBackPC, Worker
  <2>3. LeasesKept /\ GateKeptAll /\ RenewalKeptAll
    BY <1>1, Unmoved DEF ClaimAdmit, routeVars, tableVars, passVars
  <2> QED
    BY <2>1, <2>2, <2>3, QuietStep
<1>2. CASE ClaimSetNX(w)
  <2>1. Home(w) \in Proc /\ arg[w] \in Player
    BY <1>2, AtWork DEF ClaimSetNX
  <2>2. PICK reply \in Reply :
          /\ SetNX(Home(w), arg[w], reply)
          /\ IF reply # "ok" THEN Return(w, "pass")
             ELSE IF owner[arg[w]] = None THEN ClaimRouted(w, TRUE)
             ELSE Goto(w, "get")
    BY <1>2 DEF ClaimSetNX
  <2>3. LeasesKept
    BY <2>1, <2>2, CommandKeeps
  <2>4. GateKeptAll /\ RenewalKeptAll /\ UNCHANGED renewal
    BY <1>2, Unmoved DEF ClaimSetNX, localVars, passVars
  <2>5. CASE reply # "ok"
    <3>1. (\A v \in Worker : Steady(v)) /\ LoopsKept
      BY <2>2, <2>4, <2>5, ReturnSteady
    <3> QED
      BY <2>3, <2>4, <3>1, QuietStep
  <2>6. CASE reply = "ok" /\ owner[arg[w]] = None
    <3>1. owner'[arg[w]] = Home(w) /\ ttl'[arg[w]] = Lease
      BY <2>1, <2>2, <2>6, TakesLease
    <3>2. /\ \A v \in Worker : Steady(v) \/ ClaimOf(v)'
          /\ LoopsKept
      BY <2>1, <2>2, <2>4, <2>6, <3>1, RoutedHolds
    <3> QED
      BY <2>3, <2>4, <3>2, OneMoves DEF LoopsKept
  <2>7. CASE reply = "ok" /\ owner[arg[w]] # None
    <3>1. Goto(w, "get") /\ "get" \in PC /\ "get" \notin HoldPC \cup HandBackPC
      BY <2>2, <2>7 DEF PC, ClaimPC, HoldPC, HandBackPC
    <3>2. (\A v \in Worker : Steady(v)) /\ LoopsKept
      BY <2>4, <3>1, GotoSteady DEF LoopsKept
    <3> QED
      BY <2>3, <2>4, <3>2, QuietStep
  <2> QED
    BY <2>5, <2>6, <2>7
<1>3. CASE ClaimGet(w)
  <2>1. Home(w) \in Proc /\ arg[w] \in Player
    BY <1>3, AtWork DEF ClaimGet
  <2>2. PICK reply \in Reply :
          /\ Get(reply)
          /\ IF reply # "ok" THEN Return(w, "pass")
             ELSE IF owner[arg[w]] = Home(w) THEN Goto(w, "expire")
             ELSE ClaimRouted(w, SameSid(Home(w), owner[arg[w]]))
    BY <1>3 DEF ClaimGet
  <2>3. LeasesKept
    BY <2>1, <2>2, CommandKeeps
  <2>4. GateKeptAll /\ RenewalKeptAll /\ UNCHANGED renewal
    BY <1>3, Unmoved DEF ClaimGet, localVars, passVars
  <2>5. CASE reply # "ok"
    <3>1. (\A v \in Worker : Steady(v)) /\ LoopsKept
      BY <2>2, <2>4, <2>5, ReturnSteady
    <3> QED
      BY <2>3, <2>4, <3>1, QuietStep
  <2>6. CASE reply = "ok" /\ owner[arg[w]] = Home(w)
    <3>1. Goto(w, "expire") /\ "expire" \in PC /\ "expire" \notin HoldPC \cup HandBackPC
      BY <2>2, <2>6 DEF PC, ClaimPC, HoldPC, HandBackPC
    <3>2. (\A v \in Worker : Steady(v)) /\ LoopsKept
      BY <2>4, <3>1, GotoSteady DEF LoopsKept
    <3> QED
      BY <2>3, <2>4, <3>2, QuietStep
  <2>7. CASE reply = "ok" /\ owner[arg[w]] # Home(w)
    <3>1. ~SameSid(Home(w), owner[arg[w]])
      BY <1>3, <2>7 DEF ClaimGet, Unraced, NoKeyInherited
    <3>2. Goto(w, "fence") \/ Return(w, "rest")
      BY <2>2, <2>7, <3>1 DEF ClaimRouted
    <3>3. "fence" \in PC /\ "fence" \notin HoldPC \cup HandBackPC
      BY DEF PC, HoldPC, HandBackPC
    <3>4. (\A v \in Worker : Steady(v)) /\ LoopsKept
      BY <2>4, <3>2, <3>3, GotoSteady, ReturnSteady DEF LoopsKept
    <3> QED
      BY <2>3, <2>4, <3>4, QuietStep
  <2> QED
    BY <2>5, <2>6, <2>7
<1>4. CASE ClaimExpire(w)
  <2>1. Home(w) \in Proc /\ arg[w] \in Player
    BY <1>4, AtWork DEF ClaimExpire
  <2>2. PICK reply \in Reply :
          /\ CompareAndExpire(Home(w), arg[w], reply)
          /\ IF reply # "ok" THEN Return(w, "pass") ELSE ClaimRouted(w, TRUE)
    BY <1>4 DEF ClaimExpire
  <2>3. LeasesKept
    BY <2>1, <2>2, CommandKeeps
  <2>4. GateKeptAll /\ RenewalKeptAll /\ UNCHANGED renewal
    BY <1>4, Unmoved DEF ClaimExpire, localVars, passVars
  <2>5. CASE reply # "ok"
    <3>1. (\A v \in Worker : Steady(v)) /\ LoopsKept
      BY <2>2, <2>4, <2>5, ReturnSteady
    <3> QED
      BY <2>3, <2>4, <3>1, QuietStep
  <2>6. CASE reply = "ok"
    <3>1. owner[arg[w]] = Home(w)
      BY <1>4 DEF ClaimExpire, Unraced, AnswerStands
    <3>2. owner'[arg[w]] = Home(w) /\ ttl'[arg[w]] = Lease
      BY <2>1, <2>2, <2>6, <3>1, TakesLease
    <3>3. /\ \A v \in Worker : Steady(v) \/ ClaimOf(v)'
          /\ LoopsKept
      BY <2>1, <2>2, <2>4, <2>6, <3>2, RoutedHolds
    <3> QED
      BY <2>3, <2>4, <3>3, OneMoves DEF LoopsKept
  <2> QED
    BY <2>5, <2>6
<1>5. CASE ClaimDrop(w)
  <2>1. Goto(w, "wait") /\ "wait" \in PC /\ "wait" \notin HandBackPC
    BY <1>5 DEF ClaimDrop, PC, ClaimPC, HandBackPC
  <2>2. LeasesKept /\ GateKeptAll /\ RenewalKeptAll /\ UNCHANGED renewal
    BY <1>5, Unmoved DEF ClaimDrop, localVars, passVars, routeVars, tableVars
  <2>3. /\ \A v \in Worker : v # w => Steady(v)
        /\ Home(w)' = Home(w) /\ arg' = arg /\ pc'[w] = "wait" /\ spent'[w] = 0
        /\ LoopsKept
    BY <2>1, <2>2, GotoSteady DEF LoopsKept
  <2>4. owner[arg[w]] = Home(w) /\ ttl[arg[w]] >= Lease /\ arg[w] \in Player
    BY <1>5, AtWork DEF ClaimDrop, GateInv, ClaimOf
  <2>5. ClaimOf(w)'
    <3>1. owner' = owner /\ ttl' = ttl
      BY <1>5 DEF ClaimDrop, routeVars
    <3>2. ttl[arg[w]] + 0 >= Lease
      BY <2>4, ConstantTypes DEF RouteTypeOK
    <3> QED
      BY <2>3, <2>4, <3>1, <3>2, ConstantTypes DEF ClaimOf
  <2> QED
    BY <2>2, <2>3, <2>5, OneMoves DEF LoopsKept
<1>6. CASE ClaimNotDropped(w)
  <2>1. LeasesKept /\ GateKeptAll /\ RenewalKeptAll /\ UNCHANGED renewal
    BY <1>6, Unmoved DEF ClaimNotDropped, localVars, passVars, routeVars, tableVars
  <2>2. (\A v \in Worker : Steady(v)) /\ LoopsKept
    BY <1>6, <2>1, ReturnSteady DEF ClaimNotDropped
  <2> QED
    BY <2>1, <2>2, QuietStep
<1>7. CASE ClaimConfirm(w)
  <2> DEFINE i == Home(w)  p == arg[w]
  <2>1. i \in Proc /\ p \in Player
    BY <1>7, AtWork DEF ClaimConfirm
  <2>2. LeasesKept /\ RenewalKeptAll /\ UNCHANGED renewal
    BY <1>7, Unmoved DEF ClaimConfirm, passVars, routeVars, tableVars
  <2>3. (\A v \in Worker : Steady(v)) /\ LoopsKept
    BY <1>7, <2>2, ReturnSteady DEF ClaimConfirm
  <2>4. /\ left'[i][p] = Lease
        /\ \A j \in Proc, q \in Player : j # i \/ q # p => NoNewWindow(j, q)
    BY <1>7, <2>1, ConfirmOpens DEF ClaimConfirm
  <2>5. pc[i] = "release" => arg[i] # p
    BY <1>7, <2>1, ConfirmNotReleased DEF ClaimConfirm, Unraced
  <2>6. owner'[p] = i /\ ttl'[p] + Guard >= Lease + D
    <3>1. ttl[p] \in Nat /\ spent[w] \in Nat
      BY <2>1, ConstantTypes DEF RouteTypeOK, WorkerTypeOK
    <3>2. owner' = owner /\ ttl' = ttl
      BY <1>7 DEF ClaimConfirm, routeVars
    <3>3. pc[w] = "dropped" => spent[w] + D <= Guard
      BY DEF Unraced, Timely
    <3>4. /\ owner[p] = i
          /\ ttl[p] >= Lease \/ (ttl[p] + spent[w] >= Lease /\ spent[w] + D <= Guard)
      BY <1>7, <3>1, <3>3, ConstantTypes DEF ClaimConfirm, GateInv, ClaimOf
    <3> QED
      BY <3>1, <3>2, <3>4, ConstantTypes
  <2> HIDE DEF i, p
  <2> QED
    BY <2>1, <2>2, <2>3, <2>4, <2>5, <2>6, OpenStep
<1> QED
  BY <1>1, <1>2, <1>3, <1>4, <1>5, <1>6, <1>7 DEF ClaimStep

LEMMA ServeSteady ==
  ASSUME WorkerTypeOK, NEW r \in Request, NEW i \in Proc, NEW p \in Player,
         NEW to \in {"claim", "owner"}, Serve(r, i, to, p)
  PROVE  /\ \A w \in Worker : Steady(w)
         /\ UNCHANGED renewal => LoopsKept
<1>1. \A w \in Worker : w # r => pc'[w] = pc[w]
  BY DEF WorkerTypeOK, Serve
<1>2. pc'[r] \in {"claim", "owner"}
  BY DEF WorkerTypeOK, Serve, Worker
<1>3. \A w \in Worker : w # r =>
         arg'[w] = arg[w] /\ spent'[w] = spent[w] /\ Home(w)' = Home(w)
  BY OwnersAssumption DEF WorkerTypeOK, Serve, Home, Worker
<1>4. \A j \in Proc : j \in Worker /\ j # r
  BY OwnersAssumption DEF Worker
<1> QED
  BY <1>1, <1>2, <1>3, <1>4 DEF Steady, HoldPC, LoopsKept, LoopSteady

LEMMA RequestStepGate ==
  ASSUME TypeOK, TypeOK', NEW D \in Nat, GateInv(D), NEW r \in Request, RequestStep(r)
  PROVE  GateInv(D)'
<1> USE DEF TypeOK
<1>1. r \in Worker
  BY DEF Worker
<1>2. CASE OwnerAnswer(r)
  <2>1. PICK reply \in Reply :
          /\ Get(reply)
          /\ IF reply = "ok" /\ owner[arg[r]] = None
               THEN Goto(r, "claim")
               ELSE Return(r, "rest")
    BY <1>2 DEF OwnerAnswer
  <2>2. LeasesKept /\ GateKeptAll /\ RenewalKeptAll /\ UNCHANGED renewal
    BY <1>2, <2>1, Unmoved DEF OwnerAnswer, Get, localVars, passVars
  <2>3. "claim" \in PC /\ "claim" \notin HoldPC \cup HandBackPC
    BY DEF PC, ClaimPC, HoldPC, HandBackPC
  <2>4. (\A w \in Worker : Steady(w)) /\ LoopsKept
    BY <1>1, <2>1, <2>2, <2>3, GotoSteady, ReturnSteady DEF LoopsKept
  <2> QED
    BY <2>2, <2>4, QuietStep
<1>3. ASSUME NEW i \in Proc, NEW p \in Player, Login(r, i, p) \/ AskOwner(r, i, p)
      PROVE  GateInv(D)'
  <2>1. LeasesKept /\ GateKeptAll /\ RenewalKeptAll /\ UNCHANGED renewal
    BY <1>3, Unmoved
    DEF Login, AskOwner, localVars, passVars, routeVars, tableVars
  <2>2. (\A w \in Worker : Steady(w)) /\ LoopsKept
    BY <1>3, <2>1, ServeSteady DEF Login, AskOwner
  <2> QED
    BY <2>1, <2>2, QuietStep
<1> QED
  BY <1>2, <1>3 DEF RequestStep

\* A pass that handles one renewal begins no release.
LEMMA PassSteady ==
  ASSUME NEW i \in Proc, pc[i] = "pass", UNCHANGED workerVars,
         \A j \in Proc : j # i => renewal'[j] = renewal[j]
  PROVE  LoopsKept
BY DEF workerVars, LoopsKept, LoopSteady, HandBackPC

\* The pass closes the windows of the idle players and starts on its list.
LEMMA SelectIdleGate ==
  ASSUME TypeOK, TypeOK', NEW D \in Nat, GateInv(D), NEW i \in Proc, SelectIdle(i)
  PROVE  GateInv(D)'
<1> USE DEF TypeOK
<1>1. LeasesKept /\ GateKeptAll /\ RenewalKeptAll /\ UNCHANGED renewal
  BY Unmoved DEF SelectIdle, routeVars, tableVars
<1>2. i \in Worker /\ "handback" \in PC /\ "handback" \notin HoldPC
  BY DEF Worker, PC, HandBackPC, HoldPC
<1>3. /\ \A w \in Worker : Steady(w)
      /\ \A j \in Proc : j # i => LoopSteady(j)
      /\ pc'[i] = "handback"
  BY <1>1, <1>2, GotoSteady DEF SelectIdle
<1>4. ReleaseOf(i)'
  BY <1>1, <1>3 DEF SelectIdle, ReleaseOf
<1> QED
  BY <1>1, <1>3, <1>4, OneMoves

\* Release closes the window before it touches the key.
LEMMA ReleaseLocalGate ==
  ASSUME TypeOK, TypeOK', NEW D \in Nat, GateInv(D), NEW i \in Proc, ReleaseLocal(i)
  PROVE  GateInv(D)'
<1> USE DEF TypeOK
<1>1. LeasesKept /\ RenewalKeptAll /\ UNCHANGED renewal
  BY Unmoved DEF ReleaseLocal, routeVars, tableVars, passVars
<1>2. i \in Worker /\ "release" \in PC /\ "release" \notin HoldPC
  BY DEF Worker, PC, HandBackPC, HoldPC
<1>3. /\ \A w \in Worker : Steady(w)
      /\ \A j \in Proc : j # i => LoopSteady(j)
      /\ arg' = arg /\ pc'[i] = "release"
  BY <1>1, <1>2, GotoSteady DEF ReleaseLocal
<1>4. arg[i] \in Player
  BY <1>2, AtWork DEF ReleaseLocal
<1>5. left' = [left EXCEPT ![i][arg[i]] = 0]
  BY DEF ReleaseLocal, Forget
<1>6. GateKeptAll
  BY <1>5 DEF LocalTypeOK, GateKeptAll, NoNewWindow
<1>7. ReleaseOf(i)'
  <2>1. \A p \in Player : renewal[i][p] = "none"
    BY DEF ReleaseLocal, GateInv, ReleaseOf, HandBackPC
  <2>2. left'[i][arg[i]] = 0
    BY <1>4, <1>5 DEF LocalTypeOK
  <2> QED
    BY <1>1, <1>3, <2>1, <2>2 DEF ReleaseOf
<1> QED
  BY <1>1, <1>3, <1>6, <1>7, OneMoves

\* The deletion of a key.  Its own process can have no use for it left: no
\* window, no timely renewal and, by ReleaseAlone, no claim.
LEMMA ReleaseKeyGate ==
  ASSUME TypeOK, TypeOK', NEW D \in Nat, GateInv(D), ReleaseAlone,
         NEW i \in Proc, ReleaseKey(i)
  PROVE  GateInv(D)'
<1> USE DEF TypeOK
<1> DEFINE p == arg[i]
<1>1. i \in Worker /\ Home(i) = i /\ p \in Player /\ pc[i] = "release"
  BY AtWork DEF Worker, ReleaseKey, Home
<1>2. PICK reply \in Reply : CompareAndDelete(i, p, reply)
  BY DEF ReleaseKey
<1>3. GateKeptAll /\ RenewalKeptAll /\ UNCHANGED renewal
  BY Unmoved DEF ReleaseKey, localVars, passVars
<1>4. (\A w \in Worker : Steady(w)) /\ LoopsKept
  BY <1>1, <1>3, ReturnSteady DEF ReleaseKey, HandBackPC
<1>5. \A q \in Player : q # p => LeaseKept(q)
  BY <1>2, ConstantTypes
  DEF RouteTypeOK, LeaseKept, CompareAndDelete, tableVars
<1>6. CASE owner[p] # i
  <2>1. LeasesKept
    BY <1>2, <1>6, Unmoved DEF CompareAndDelete
  <2> QED
    BY <1>3, <1>4, <2>1, QuietStep
<1>7. CASE owner[p] = i
  <2>1. ASSUME NEW w \in Worker PROVE ClaimOf(w)'
    <3> DEFINE Held(v) == pc[v] \in {"wait", "dropped"} => spent[v] <= Guard
    <3>1. CASE pc'[w] \notin HoldPC \/ ~Held(w)'
      BY <3>1 DEF ClaimOf, HoldPC
    <3>2. CASE pc'[w] \in HoldPC /\ Held(w)'
      <4>1. pc[w] \in HoldPC /\ Held(w) /\ arg[w] \in Player
        <5>1. pc[w] \in HoldPC /\ Held(w)
          BY <1>4, <3>2 DEF Steady, HoldPC
        <5> QED
          BY <5>1, AtWork DEF HoldPC
      <4>2. owner[arg[w]] = Home(w)
        BY <4>1 DEF GateInv, ClaimOf, HoldPC
      <4>3. arg[w] # p
        <5> SUFFICES ASSUME arg[w] = p PROVE FALSE
          OBVIOUS
        <5>1. Home(w) = i /\ w # i
          BY <1>1, <1>7, <4>1, <4>2 DEF HoldPC
        <5>2. w \in Request /\ home[w] = i
          BY <5>1 DEF Home, Worker
        <5> QED
          BY <1>1, <4>1, <5>2 DEF ReleaseAlone
      <4> QED
        BY <1>4, <1>5, <4>1, <4>3, ClaimKept DEF GateInv
    <3> QED
      BY <3>1, <3>2
  <2>2. ASSUME NEW j \in Proc, NEW q \in Player PROVE GateOf(j, q, D)'
    <3>1. CASE q # p
      BY <1>3, <1>5, <3>1, GateKept DEF GateInv, GateKeptAll
    <3>2. CASE q = p
      <4>1. ~(left[j][p] > Guard)
        <5> SUFFICES ASSUME left[j][p] > Guard PROVE FALSE
          OBVIOUS
        <5>1. j = i
          BY <1>1, <1>7 DEF GateInv, GateOf
        <5>2. left[i][p] = 0
          BY <1>1 DEF GateInv, ReleaseOf
        <5> QED
          BY <5>1, <5>2, ConstantTypes
      <4>2. left' = left
        BY DEF ReleaseKey, localVars
      <4> QED
        BY <3>2, <4>1, <4>2 DEF GateOf
    <3> QED
      BY <3>1, <3>2
  <2>3. ASSUME NEW j \in Proc, NEW q \in Player PROVE RenewalOf(j, q)'
    <3>1. CASE q # p
      BY <1>3, <1>5, <3>1, RenewalKept DEF GateInv, RenewalKeptAll
    <3>2. CASE q = p
      <4>1. renewal[i][p] = "none"
        BY <1>1 DEF GateInv, ReleaseOf, HandBackPC
      <4>2. ~(renewal[j][p] = "held" /\ age[j][p] <= Guard)
        BY <1>1, <1>7, <4>1 DEF GateInv, RenewalOf
      <4>3. age' = age
        BY DEF ReleaseKey, passVars
      <4> QED
        BY <1>3, <3>2, <4>2, <4>3 DEF RenewalOf
    <3> QED
      BY <3>1, <3>2
  <2>4. \A j \in Proc : ReleaseOf(j)'
    BY <1>3, <1>4, ReleasesKept DEF LoopsKept
  <2> HIDE DEF p
  <2> QED
    BY <2>1, <2>2, <2>3, <2>4 DEF GateInv
<1> QED
  BY <1>6, <1>7

LEMMA RefreshOneGate ==
  ASSUME TypeOK, TypeOK', NEW D \in Nat, GateInv(D),
         NEW i \in Proc, NEW p \in Player, RefreshOne(i, p)
  PROVE  GateInv(D)'
<1> USE DEF TypeOK
<1>1. PICK reply \in Reply :
        /\ CompareAndExpire(i, p, reply)
        /\ renewal' = [renewal EXCEPT ![i][p] =
                         IF reply # "ok" THEN "error"
                         ELSE IF owner[p] = i THEN "held" ELSE "gone"]
  BY DEF RefreshOne
<1>2. LeasesKept
  BY <1>1, CommandKeeps
<1>3. GateKeptAll
  BY Unmoved DEF RefreshOne, localVars
<1>4. (\A w \in Worker : Steady(w)) /\ LoopsKept
  <2>1. pc[i] = "pass" /\ UNCHANGED workerVars
    BY DEF RefreshOne
  <2>2. \A j \in Proc : j # i => renewal'[j] = renewal[j]
    BY <1>1 DEF PassTypeOK
  <2> QED
    BY <2>1, <2>2, PassSteady, Unmoved
<1>5. \A w \in Worker : ClaimOf(w)'
  BY <1>2, <1>4, ClaimKept DEF GateInv, LeasesKept
<1>6. \A j \in Proc, q \in Player : GateOf(j, q, D)'
  BY <1>2, <1>3, GateKept DEF GateInv, GateKeptAll, LeasesKept
<1>7. \A j \in Proc, q \in Player : j # i \/ q # p => NoNewRenewal(j, q)
  BY <1>1 DEF RefreshOne, PassTypeOK, NoNewRenewal
<1>8. RenewalOf(i, p)'
  <2>1. age'[i][p] = 0
    BY DEF RefreshOne, PassTypeOK
  <2>2. renewal'[i][p] = "held" => reply = "ok" /\ owner[p] = i
    BY <1>1 DEF PassTypeOK
  <2>3. reply = "ok" /\ owner[p] = i => owner'[p] = i /\ ttl'[p] = Lease
    BY <1>1, TakesLease
  <2> QED
    BY <2>1, <2>2, <2>3, ConstantTypes DEF RenewalOf
<1>9. \A j \in Proc, q \in Player : RenewalOf(j, q)'
  BY <1>2, <1>7, <1>8, RenewalKept DEF GateInv, LeasesKept
<1>10. \A j \in Proc : ReleaseOf(j)'
  BY <1>3, <1>4, ReleasesKept DEF LoopsKept
<1> QED
  BY <1>5, <1>6, <1>9, <1>10 DEF GateInv

LEMMA RenewalHeldGate ==
  ASSUME NEW D \in Nat, Timely(D), TypeOK, TypeOK', GateInv(D),
         NEW i \in Proc, NEW p \in Player, RenewalHeld(i, p)
  PROVE  GateInv(D)'
<1> USE DEF TypeOK
<1>1. LeasesKept
  BY Unmoved DEF RenewalHeld, routeVars, tableVars
<1>2. pc[i] = "pass" /\ UNCHANGED workerVars
  BY DEF RenewalHeld, Refreshed
<1>3. (\A w \in Worker : Steady(w)) /\ LoopsKept
  <2>1. \A j \in Proc : j # i => renewal'[j] = renewal[j]
    BY DEF RenewalHeld, PassTypeOK
  <2> QED
    BY <1>2, <2>1, PassSteady, Unmoved
<1>4. RenewalKeptAll
  BY DEF RenewalHeld, PassTypeOK, RenewalKeptAll, NoNewRenewal
<1>5. /\ left'[i][p] = Lease
      /\ \A j \in Proc, q \in Player : j # i \/ q # p => NoNewWindow(j, q)
  BY ConfirmOpens DEF RenewalHeld
<1>6. owner'[p] = i /\ ttl'[p] + Guard >= Lease + D
  <2>1. ttl[p] \in Nat /\ age[i][p] \in Nat
    BY ConstantTypes DEF RouteTypeOK, PassTypeOK
  <2>2. owner' = owner /\ ttl' = ttl
    BY DEF RenewalHeld, routeVars
  <2>3. age[i][p] + D <= Guard
    BY DEF RenewalHeld, Timely
  <2>4. owner[p] = i /\ ttl[p] + age[i][p] >= Lease
    BY <2>1, <2>3, ConstantTypes DEF RenewalHeld, GateInv, RenewalOf
  <2> QED
    BY <2>1, <2>2, <2>3, <2>4, ConstantTypes
<1> QED
  BY <1>1, <1>2, <1>3, <1>4, <1>5, <1>6, OpenStep

LEMMA LoopStepGate ==
  ASSUME NEW D \in Nat, Unraced(D), TypeOK, TypeOK', GateInv(D),
         NEW i \in Proc, LoopStep(i)
  PROVE  GateInv(D)'
<1> USE DEF TypeOK
<1>1. i \in Worker /\ Home(i) = i
  BY DEF Worker, Home
<1>2. {"rest", "pass"} \subseteq PC \ (HoldPC \cup HandBackPC)
  BY DEF PC, HandBackPC, HoldPC
<1>3. CASE BeginPass(i)
  <2>1. LeasesKept /\ GateKeptAll
    BY <1>3, Unmoved DEF BeginPass, localVars, routeVars, tableVars
  <2>2. \A w \in Worker : Steady(w)
    BY <1>1, <1>2, <1>3, GotoSteady DEF BeginPass
  <2>3. LoopsKept
    <3>1. \A j \in Proc : j # i =>
            pc'[j] = pc[j] /\ arg'[j] = arg[j] /\ renewal'[j] = renewal[j]
      BY <1>3 DEF BeginPass, Goto, WorkerTypeOK, PassTypeOK, Worker
    <3>2. pc'[i] \notin HandBackPC /\ "release" \in HandBackPC
      BY <1>1, <1>2, <1>3 DEF BeginPass, Goto, WorkerTypeOK, HandBackPC
    <3> QED
      BY <3>1, <3>2 DEF LoopsKept, LoopSteady
  <2>4. RenewalKeptAll
    BY <1>3 DEF BeginPass, PassTypeOK, RenewalKeptAll, NoNewRenewal
  <2> QED
    BY <2>1, <2>2, <2>3, <2>4, QuietStep
<1>4. CASE Fence(i)
  <2>1. LeasesKept /\ RenewalKeptAll /\ UNCHANGED renewal
    BY <1>4, Unmoved DEF Fence, routeVars, tableVars, passVars
  <2>2. (\A w \in Worker : Steady(w)) /\ LoopsKept
    BY <1>1, <1>4, <2>1, ReturnSteady DEF Fence
  <2>3. GateKeptAll
    <3>1. CASE arg[i] \in known[i]
      <4>1. left' = [left EXCEPT ![i][arg[i]] = 0]
        BY <1>4, <3>1 DEF Fence, Forget
      <4> QED
        BY <4>1 DEF LocalTypeOK, GateKeptAll, NoNewWindow
    <3>2. CASE arg[i] \notin known[i]
      BY <1>4, <3>2, Unmoved DEF Fence, localVars
    <3> QED
      BY <3>1, <3>2
  <2> QED
    BY <2>1, <2>2, <2>3, QuietStep
<1>5. CASE HandBackKeep(i)
  <2>1. LeasesKept /\ GateKeptAll /\ RenewalKeptAll /\ UNCHANGED renewal
    BY <1>5, Unmoved DEF HandBackKeep, routeVars, tableVars, passVars
  <2>2. (\A w \in Worker : Steady(w)) /\ LoopsKept
    BY <1>1, <1>5, <2>1, ReturnSteady DEF HandBackKeep, HandBackPC
  <2> QED
    BY <2>1, <2>2, QuietStep
<1>6. CASE EndPass(i)
  <2>1. LeasesKept /\ GateKeptAll /\ RenewalKeptAll /\ UNCHANGED renewal
    BY <1>6, Unmoved DEF EndPass, localVars, routeVars, tableVars, passVars
  <2>2. (\A w \in Worker : Steady(w)) /\ LoopsKept
    BY <1>1, <1>2, <1>6, <2>1, GotoSteady DEF EndPass, LoopsKept
  <2> QED
    BY <2>1, <2>2, QuietStep
<1>7. ASSUME NEW p \in Player, RenewalError(i, p)
      PROVE  GateInv(D)'
  <2>1. LeasesKept /\ GateKeptAll
    BY <1>7, Unmoved DEF RenewalError, localVars, routeVars, tableVars
  <2>2. (\A w \in Worker : Steady(w)) /\ LoopsKept
    <3>1. pc[i] = "pass" /\ UNCHANGED workerVars
      BY <1>7 DEF RenewalError, Refreshed
    <3>2. \A j \in Proc : j # i => renewal'[j] = renewal[j]
      BY <1>7 DEF RenewalError, PassTypeOK
    <3> QED
      BY <3>1, <3>2, PassSteady, Unmoved
  <2>3. RenewalKeptAll
    BY <1>7 DEF RenewalError, PassTypeOK, RenewalKeptAll, NoNewRenewal
  <2> QED
    BY <2>1, <2>2, <2>3, QuietStep
<1>8. ASSUME NEW p \in Player, RenewalGone(i, p)
      PROVE  GateInv(D)'
  <2>1. LeasesKept /\ GateKeptAll
    BY <1>8, Unmoved DEF RenewalGone, routeVars, tableVars
  <2>2. /\ \A w \in Worker : w # i => pc'[w] = pc[w]
        /\ pc'[i] = "claim"
    BY <1>1, <1>8 DEF RenewalGone, Call, WorkerTypeOK
  <2>3. \A w \in Worker : w # i =>
          arg'[w] = arg[w] /\ spent'[w] = spent[w] /\ Home(w)' = Home(w)
    BY <1>8 DEF RenewalGone, Call, WorkerTypeOK, Home
  <2>4. \A w \in Worker : Steady(w)
    BY <2>2, <2>3 DEF Steady, HoldPC
  <2>5. LoopsKept
    <3>1. \A j \in Proc : j # i => renewal'[j] = renewal[j]
      BY <1>8 DEF RenewalGone, PassTypeOK
    <3>2. \A j \in Proc : j \in Worker
      BY DEF Worker
    <3> QED
      BY <2>2, <2>3, <3>1, <3>2 DEF LoopsKept, LoopSteady, HandBackPC
  <2>6. RenewalKeptAll
    BY <1>8 DEF RenewalGone, PassTypeOK, RenewalKeptAll, NoNewRenewal
  <2> QED
    BY <2>1, <2>4, <2>5, <2>6, QuietStep
<1>9. ASSUME NEW p \in Player, HandBackNext(i, p)
      PROVE  GateInv(D)'
  <2>1. LeasesKept /\ GateKeptAll /\ RenewalKeptAll /\ UNCHANGED renewal
    BY <1>9, Unmoved DEF HandBackNext, routeVars, tableVars
  <2>2. /\ \A w \in Worker : w # i =>
             /\ pc'[w] = pc[w] /\ arg'[w] = arg[w] /\ spent'[w] = spent[w]
             /\ Home(w)' = Home(w)
        /\ pc[i] = "handback" /\ pc'[i] \in {"handback", "hbwait"}
    BY <1>1, <1>9 DEF HandBackNext, Call, workerVars, WorkerTypeOK, Home
  <2>3. \A w \in Worker : Steady(w)
    BY <2>2 DEF Steady, HoldPC
  <2>4. LoopsKept
    <3>1. \A j \in Proc : j \in Worker
      BY DEF Worker
    <3> QED
      BY <2>1, <2>2, <3>1 DEF LoopsKept, LoopSteady, HandBackPC
  <2> QED
    BY <2>1, <2>3, <2>4, QuietStep
<1>10. CASE SelectIdle(i) \/ ReleaseLocal(i) \/ ReleaseKey(i)
  BY <1>10, SelectIdleGate, ReleaseLocalGate, ReleaseKeyGate DEF Unraced
<1>11. ASSUME NEW p \in Player, RefreshOne(i, p) \/ RenewalHeld(i, p)
       PROVE  GateInv(D)'
  BY <1>11, RefreshOneGate, RenewalHeldGate DEF Unraced
<1> QED
  BY <1>3, <1>4, <1>5, <1>6, <1>7, <1>8, <1>9, <1>10, <1>11 DEF LoopStep

LEMMA EntityStepGate ==
  ASSUME TypeOK, TypeOK', NEW D \in Nat, GateInv(D),
         NEW i \in Proc, NEW p \in Player, EntityStep(i, p)
  PROVE  GateInv(D)'
<1> USE DEF TypeOK
<1>1. LeasesKept /\ GateKeptAll /\ RenewalKeptAll /\ UNCHANGED renewal
  <2>1. UNCHANGED <<routeVars, left, passVars>>
    BY DEF EntityStep, EvictOk, EvictFail, EvictReport, FenceDrop, AdmitWork,
           RunWork, CommitWork, Disconnect, localVars
  <2> QED
    BY <2>1, Unmoved DEF routeVars, tableVars, passVars
<1>2. CASE EvictReport(i, p)
  <2>1. UNCHANGED <<arg, spent, home>>
    BY <1>2 DEF EvictReport
  <2>2. \A w \in Worker :
          \/ pc'[w] = pc[w]
          \/ pc[w] = "wait" /\ pc'[w] \in {"dropped", "undropped"}
          \/ pc[w] = "hbwait" /\ pc'[w] \in {"forget", "keep"}
    BY <1>2 DEF EvictReport
  <2>3. \A w \in Worker : Steady(w)
    BY <2>1, <2>2 DEF Steady, HoldPC, Home
  <2>4. LoopsKept
    BY <1>1, <2>1, <2>2 DEF LoopsKept, LoopSteady, HandBackPC, Worker
  <2> QED
    BY <1>1, <2>3, <2>4, QuietStep
<1>3. CASE ~EvictReport(i, p)
  <2>1. UNCHANGED workerVars
    BY <1>3
    DEF EntityStep, EvictOk, EvictFail, FenceDrop, AdmitWork, RunWork, CommitWork,
        Disconnect
  <2>2. (\A w \in Worker : Steady(w)) /\ LoopsKept
    BY <1>1, <2>1, Unmoved DEF workerVars
  <2> QED
    BY <1>1, <2>2, QuietStep
<1> QED
  BY <1>2, <1>3

LEMMA CrashGate ==
  ASSUME TypeOK, TypeOK', NEW D \in Nat, GateInv(D), NEW i \in Proc, Crash(i)
  PROVE  GateInv(D)'
<1> USE DEF TypeOK
<1>1. LeasesKept
  BY Unmoved DEF Crash, routeVars, tableVars
<1>2. GateKeptAll
  BY DEF Crash, LocalTypeOK, GateKeptAll, NoNewWindow
<1>3. RenewalKeptAll
  BY DEF Crash, PassTypeOK, RenewalKeptAll, NoNewRenewal
<1>4. \A w \in Worker :
        \/ pc'[w] = "rest"
        \/ /\ pc'[w] = pc[w] /\ arg'[w] = arg[w] /\ spent'[w] = spent[w]
           /\ Home(w)' = Home(w) /\ Home(w) # i
  <2> DEFINE Mine == {w \in Worker : Home(w) = i}
  <2>1. /\ home' = [r \in Request |-> IF r \in Mine THEN None ELSE home[r]]
        /\ pc' = [w \in Worker |-> IF w \in Mine THEN "rest" ELSE pc[w]]
        /\ arg' = [w \in Worker |-> IF w \in Mine THEN None ELSE arg[w]]
        /\ spent' = [w \in Worker |-> IF w \in Mine THEN 0 ELSE spent[w]]
    BY DEF Crash
  <2>2. \A w \in Worker : w \notin Mine => Home(w) # i
    OBVIOUS
  <2> HIDE DEF Mine
  <2> QED
    BY <2>1, <2>2 DEF Home, Worker
<1>5. \A w \in Worker : Steady(w)
  BY <1>4 DEF Steady, HoldPC
<1>6. LoopsKept
  <2>1. \A j \in Proc : j # i => renewal'[j] = renewal[j]
    BY DEF Crash, PassTypeOK
  <2>2. \A j \in Proc : j \in Worker /\ Home(j) = j
    BY DEF Worker, Home
  <2> QED
    BY <1>4, <2>1, <2>2 DEF LoopsKept, LoopSteady, HandBackPC
<1> QED
  BY <1>1, <1>2, <1>3, <1>5, <1>6, QuietStep

\* A key with two ticks or more left survives the tick.
LEMMA TickKeeps ==
  ASSUME TypeOK, RouteTick, NEW p \in Player, ttl[p] >= 2
  PROVE  owner'[p] = owner[p] /\ ttl'[p] = ttl[p] - 1
BY ConstantTypes DEF TypeOK, RouteTypeOK, RouteTick

\* Time passes: whoever holds something holds it for long enough.
LEMMA TickGate ==
  ASSUME NEW D \in Nat, TypeOK, TypeOK', GateInv(D), Tick
  PROVE  GateInv(D)'
<1> USE DEF TypeOK
<1>1. RouteTick /\ UNCHANGED <<pc, arg, home, chosen, renewal, txn>>
  BY DEF Tick
<1>2. \A i \in Proc : ReleaseOf(i)'
  <2>1. \A i \in Proc, p \in Player : left[i][p] = 0 => left'[i][p] = 0
    BY DEF Tick
  <2>2. \A i \in Proc : i \in Worker
    BY DEF Worker
  <2>3. \A i \in Proc : pc[i] = "release" => arg[i] \in Player
    BY <2>2, AtWork
  <2> QED
    BY <1>1, <2>1, <2>3 DEF GateInv, ReleaseOf
<1>3. ASSUME NEW w \in Worker PROVE ClaimOf(w)'
  <2>1. spent[w] < Patience(w) \/ pc[w] \in {"rest", "pass"}
    <3>1. Waits(w)
      BY DEF Tick
    <3> QED
      BY <3>1 DEF Waits
  <2>2. spent[w] \in Nat
    BY DEF WorkerTypeOK
  <2>3. pc[w] \notin {"drop", "dropped", "confirm"}
    <3> SUFFICES ASSUME pc[w] \in {"drop", "dropped", "confirm"} PROVE FALSE
      OBVIOUS
    <3>1. Patience(w) = 0
      BY DEF Patience
    <3> QED
      BY <2>1, <2>2, <3>1
  <2>4. CASE pc[w] = "wait"
    <3>1. spent'[w] = spent[w] + 1
      BY <2>4 DEF Tick
    <3>2. Home(w)' = Home(w) /\ arg'[w] = arg[w] /\ pc'[w] = "wait"
      BY <1>1, <2>4 DEF Home
    <3>3. CASE spent[w] + 1 <= Guard
      <4>1. /\ owner[arg[w]] = Home(w) /\ ttl[arg[w]] + spent[w] >= Lease
            /\ arg[w] \in Player
        BY <2>2, <2>4, <3>3, AtWork, ConstantTypes DEF GateInv, ClaimOf
      <4>2. ttl[arg[w]] \in Nat
        BY <4>1, ConstantTypes DEF RouteTypeOK
      <4>3. ttl[arg[w]] >= 2
        BY <2>2, <3>3, <4>1, <4>2, ConstantTypes
      <4>4. owner'[arg[w]] = owner[arg[w]] /\ ttl'[arg[w]] = ttl[arg[w]] - 1
        BY <1>1, <4>1, <4>3, TickKeeps
      <4> QED
        BY <2>2, <3>1, <3>2, <4>1, <4>2, <4>4, ConstantTypes DEF ClaimOf
    <3>4. CASE ~(spent[w] + 1 <= Guard)
      BY <3>1, <3>2, <3>4 DEF ClaimOf
    <3> QED
      BY <3>3, <3>4
  <2> QED
    BY <1>1, <2>3, <2>4 DEF ClaimOf
<1>4. ASSUME NEW i \in Proc, NEW p \in Player PROVE GateOf(i, p, D)'
  <2> SUFFICES ASSUME left'[i][p] > Guard
               PROVE  owner'[p] = i /\ ttl'[p] + Guard >= left'[i][p] + D
    BY DEF GateOf
  <2>1. left[i][p] \in Nat /\ ttl[p] \in Nat /\ left'[i][p] \in Nat
    BY ConstantTypes DEF LocalTypeOK, RouteTypeOK
  <2>2. left'[i][p] = IF left[i][p] = 0 THEN 0 ELSE left[i][p] - 1
    BY DEF Tick
  <2>3. left[i][p] = left'[i][p] + 1
    <3>1. left'[i][p] # 0
      BY <2>1, ConstantTypes
    <3>2. left'[i][p] = left[i][p] - 1
      BY <2>2, <3>1
    <3> QED
      BY <2>1, <3>2
  <2>4. owner[p] = i /\ ttl[p] + Guard >= left[i][p] + D
    BY <2>1, <2>3, ConstantTypes DEF GateInv, GateOf
  <2>5. ttl[p] >= 2
    BY <2>1, <2>3, <2>4, ConstantTypes
  <2> QED
    BY <1>1, <2>1, <2>3, <2>4, <2>5, TickKeeps, ConstantTypes
<1>5. ASSUME NEW i \in Proc, NEW p \in Player PROVE RenewalOf(i, p)'
  <2> SUFFICES ASSUME renewal[i][p] = "held", age'[i][p] <= Guard
               PROVE  owner'[p] = i /\ ttl'[p] + age'[i][p] >= Lease
    BY <1>1 DEF RenewalOf
  <2>1. age'[i][p] = age[i][p] + 1
    BY DEF Tick
  <2>2. ttl[p] \in Nat /\ age[i][p] \in Nat
    BY ConstantTypes DEF RouteTypeOK, PassTypeOK
  <2>3. owner[p] = i /\ ttl[p] + age[i][p] >= Lease
    BY <2>1, <2>2, ConstantTypes DEF GateInv, RenewalOf
  <2>4. ttl[p] >= 2
    BY <2>1, <2>2, <2>3, ConstantTypes
  <2> QED
    BY <1>1, <2>1, <2>2, <2>3, <2>4, TickKeeps, ConstantTypes
<1> QED
  BY <1>2, <1>3, <1>4, <1>5 DEF GateInv

LEMMA InitGate == ASSUME NEW D \in Nat, Init PROVE GateInv(D)
<1>1. /\ \A w \in Worker : pc[w] = "rest"
      /\ \A i \in Proc : pc[i] = "rest"
      /\ \A i \in Proc, p \in Player : left[i][p] = 0 /\ renewal[i][p] = "none"
  BY DEF Init, Worker
<1> QED
  BY <1>1, ConstantTypes DEF GateInv, ClaimOf, ReleaseOf, GateOf, RenewalOf, HandBackPC

LEMMA GateStep ==
  ASSUME NEW D \in Nat, D <= Guard, Unraced(D), TypeOK, TypeOK', GateInv(D),
         [Next]_vars
  PROVE  GateInv(D)'
<1>1. CASE UNCHANGED <<routeVars, localVars, passVars, workerVars>>
  <2>1. /\ LeasesKept /\ GateKeptAll /\ RenewalKeptAll /\ LoopsKept
        /\ \A w \in Worker : Steady(w)
    BY <1>1, Unmoved DEF routeVars, tableVars, localVars, passVars, workerVars
  <2> QED
    BY <2>1, QuietStep
<1>2. CASE UNCHANGED vars
  BY <1>1, <1>2 DEF vars
<1>3. CASE Next
  <2>1. ASSUME NEW i \in Proc, StartProc(i) PROVE GateInv(D)'
    BY <1>1, <2>1 DEF StartProc
  <2> QED
    BY <1>3, <2>1, ClaimStepGate, RequestStepGate, LoopStepGate, EntityStepGate,
       CrashGate, TickGate DEF Next
<1> QED
  BY <1>2, <1>3

LEMMA GateInvariant == Spec /\ []Unraced(0) => []GateInv(0)
<1>1. Init => GateInv(0)
  BY InitGate
<1>2. TypeOK /\ TypeOK' /\ Unraced(0) /\ GateInv(0) /\ [Next]_vars => GateInv(0)'
  BY GateStep, ConstantTypes
<1> QED
  BY <1>1, <1>2, TypeCorrect, PTL DEF Spec

-----------------------------------------------------------------------------
(***************************************************************************)
(* Work that was let in is done while the process still owns the player.   *)
(* The lease outlasts it; and the loop, which could delete the key at any  *)
(* time, takes up only players that have been idle for longer than a       *)
(* transaction lasts and lets no new work in on them.                      *)
(***************************************************************************)
BackPC == HandBackPC \ {"handback"}

WorkOf(i, p) == txn[i][p] # "idle" => owner[p] = i /\ ttl[p] > fuel[i][p]

\* Whoever works on a player has used them since.
IdleOf(i, p) ==
  txn[i][p] # "idle" => p \notin known[i] \/ idle[i][p] + fuel[i][p] <= TxnTicks

LeaveOf(i) ==
  /\ chosen[i] # {} => pc[i] \in HandBackPC
  /\ pc[i] \in BackPC => arg[i] \notin chosen[i]
  /\ \A p \in Leaving(i) :
       txn[i][p] = "idle" /\ (p \in handingBack[i] \/ p \notin known[i])

WorkInv ==
  /\ \A i \in Proc, p \in Player : WorkOf(i, p) /\ IdleOf(i, p)
  /\ \A i \in Proc : LeaveOf(i)

\* What a step may do to them without harm.
WorkSteady(i, p) ==
  txn'[i][p] # "idle" =>
    /\ txn[i][p] # "idle" /\ fuel'[i][p] = fuel[i][p]
    /\ p \in known'[i] =>
         idle'[i][p] = 0 \/ (p \in known[i] /\ idle'[i][p] = idle[i][p])

LeaveSteady(i) ==
  /\ chosen'[i] = chosen[i]
  /\ pc[i] \in HandBackPC => pc'[i] \in HandBackPC \/ chosen[i] = {}
  /\ pc'[i] \in BackPC => pc[i] \in BackPC /\ arg'[i] = arg[i]
  /\ \A p \in Leaving(i)' :
       /\ txn[i][p] = "idle" => txn'[i][p] = "idle"
       /\ p \in handingBack[i] \/ p \notin known[i] =>
            p \in handingBack'[i] \/ p \notin known'[i]

LEMMA WorkKept ==
  ASSUME TypeOK, TypeOK', NEW i \in Proc, NEW p \in Player,
         WorkOf(i, p), IdleOf(i, p), WorkSteady(i, p)
  PROVE  /\ LeaseKept(p) => WorkOf(i, p)'
         /\ IdleOf(i, p)'
<1>1. ASSUME LeaseKept(p) PROVE WorkOf(i, p)'
  <2> SUFFICES ASSUME txn'[i][p] # "idle"
               PROVE  owner'[p] = i /\ ttl'[p] > fuel'[i][p]
    BY DEF WorkOf
  <2>1. fuel'[i][p] = fuel[i][p] /\ owner[p] = i /\ ttl[p] > fuel[i][p]
    BY DEF WorkSteady, WorkOf
  <2>2. owner'[p] = i /\ ttl'[p] >= ttl[p]
    BY <1>1, <2>1, RouteAssumption DEF LeaseKept
  <2>3. ttl[p] \in Nat /\ ttl'[p] \in Nat /\ fuel[i][p] \in Nat
    BY ConstantTypes DEF TypeOK, RouteTypeOK, WorkTypeOK
  <2> QED
    BY <2>1, <2>2, <2>3
<1>2. IdleOf(i, p)'
  <2> SUFFICES ASSUME txn'[i][p] # "idle", p \in known'[i]
               PROVE  idle'[i][p] + fuel'[i][p] <= TxnTicks
    BY DEF IdleOf
  <2>1. fuel[i][p] \in 0..TxnTicks /\ TxnTicks \in Nat
    BY ConstantTypes DEF TypeOK, WorkTypeOK
  <2>2. fuel'[i][p] = fuel[i][p] /\ txn[i][p] # "idle"
    BY DEF WorkSteady
  <2>3. idle'[i][p] = 0 \/ (p \in known[i] /\ idle'[i][p] = idle[i][p])
    BY DEF WorkSteady
  <2>4. CASE idle'[i][p] = 0
    BY <2>1, <2>2, <2>4
  <2>5. CASE p \in known[i] /\ idle'[i][p] = idle[i][p]
    BY <2>2, <2>5 DEF IdleOf
  <2> QED
    BY <2>3, <2>4, <2>5
<1> QED
  BY <1>1, <1>2

LEMMA LeaveKept ==
  ASSUME NEW i \in Proc, LeaveOf(i), LeaveSteady(i)
  PROVE  LeaveOf(i)'
<1>1. Leaving(i)' \subseteq Leaving(i)
  BY DEF LeaveSteady, Leaving, BackPC
<1>2. \A p \in Leaving(i)' :
        txn'[i][p] = "idle" /\ (p \in handingBack'[i] \/ p \notin known'[i])
  BY <1>1 DEF LeaveOf, LeaveSteady
<1>3. chosen'[i] # {} => pc'[i] \in HandBackPC
  BY DEF LeaveOf, LeaveSteady
<1>4. pc'[i] \in BackPC => arg'[i] \notin chosen'[i]
  BY DEF LeaveOf, LeaveSteady
<1> QED
  BY <1>2, <1>3, <1>4 DEF LeaveOf

\* A step in which the invariant has to be shown again in some places only.
LEMMA SomeMove ==
  ASSUME TypeOK, TypeOK', WorkInv, LeasesKept,
         \A i \in Proc, p \in Player : WorkSteady(i, p) \/ (WorkOf(i, p) /\ IdleOf(i, p))',
         \A i \in Proc : LeaveSteady(i) \/ LeaveOf(i)'
  PROVE  WorkInv'
<1>1. \A i \in Proc, p \in Player : WorkOf(i, p)' /\ IdleOf(i, p)'
  BY WorkKept DEF WorkInv, LeasesKept
<1>2. \A i \in Proc : LeaveOf(i)'
  BY LeaveKept DEF WorkInv
<1> QED
  BY <1>1, <1>2 DEF WorkInv

\* The players a loop is giving up stay the same, or it is giving up none.
LoopAside(i) ==
  /\ chosen'[i] = chosen[i]
  /\ \/ pc[i] \notin HandBackPC /\ pc'[i] \notin HandBackPC
     \/ chosen[i] = {} /\ pc'[i] \notin BackPC
     \/ /\ arg'[i] = arg[i]
        /\ pc'[i] = pc[i] \/ (pc[i] \in BackPC /\ pc'[i] \in BackPC)

LEMMA AsideSteady ==
  ASSUME NEW i \in Proc, LeaveOf(i), LoopAside(i),
         \A p \in Leaving(i) :
           /\ txn[i][p] = "idle" => txn'[i][p] = "idle"
           /\ p \in handingBack[i] \/ p \notin known[i] =>
                p \in handingBack'[i] \/ p \notin known'[i]
  PROVE  LeaveSteady(i) \/ LeaveOf(i)'
<1>1. CASE pc[i] \notin HandBackPC /\ pc'[i] \notin HandBackPC
  BY <1>1 DEF LoopAside, LeaveOf, Leaving, BackPC
<1>2. CASE chosen[i] = {} /\ pc'[i] \notin BackPC
  BY <1>2 DEF LoopAside, LeaveOf, Leaving, BackPC
<1>3. CASE /\ arg'[i] = arg[i]
           /\ pc'[i] = pc[i] \/ (pc[i] \in BackPC /\ pc'[i] \in BackPC)
  <2>1. Leaving(i)' \subseteq Leaving(i)
    BY <1>3 DEF LoopAside, Leaving, BackPC
  <2> QED
    BY <1>3, <2>1 DEF LoopAside, LeaveSteady, BackPC
<1> QED
  BY <1>1, <1>2, <1>3 DEF LoopAside

\* Steps that let no work in, take no lease and give up no player.
LEMMA AsideStep ==
  ASSUME TypeOK, TypeOK', WorkInv, LeasesKept,
         UNCHANGED <<known, handingBack, workVars>>,
         \A i \in Proc, p \in Player : idle'[i][p] = idle[i][p] \/ idle'[i][p] = 0,
         \A i \in Proc : LoopAside(i)
  PROVE  WorkInv'
<1>1. \A i \in Proc, p \in Player : WorkSteady(i, p)
  BY DEF WorkSteady, workVars
<1>2. \A i \in Proc : LeaveSteady(i) \/ LeaveOf(i)'
  BY AsideSteady DEF WorkInv, workVars
<1> QED
  BY <1>1, <1>2, SomeMove

\* Work that begins on a player with the guard band still to run.
LEMMA WorkBegins ==
  ASSUME TypeOK', NEW i \in Proc, NEW p \in Player,
         idle'[i][p] = 0, owner'[p] = i, ttl'[p] > TxnTicks
  PROVE  (WorkOf(i, p) /\ IdleOf(i, p))'
<1>1. fuel'[i][p] \in 0..TxnTicks /\ ttl'[p] \in Nat /\ TxnTicks \in Nat
  BY ConstantTypes DEF TypeOK, WorkTypeOK, RouteTypeOK
<1>2. fuel'[i][p] <= TxnTicks /\ 0 + fuel'[i][p] <= TxnTicks /\ ttl'[p] > fuel'[i][p]
  BY <1>1
<1> QED
  BY <1>2 DEF WorkOf, IdleOf

LEMMA WorkElsewhere ==
  ASSUME WorkTypeOK, NEW i \in Proc, NEW p \in Player, BeginWork(i, p),
         NEW j \in Proc, NEW q \in Player, j # i \/ q # p
  PROVE  txn'[j][q] = txn[j][q] /\ fuel'[j][q] = fuel[j][q]
BY DEF WorkTypeOK, BeginWork, workVars

LEMMA ConfirmElsewhere ==
  ASSUME LocalTypeOK, NEW i \in Proc, NEW p \in Player, NEW used,
         ConfirmLocked(i, p, used), NEW j \in Proc, NEW q \in Player, j # i \/ q # p
  PROVE  /\ q \in known'[j] <=> q \in known[j]
         /\ q \in handingBack'[j] <=> q \in handingBack[j]
         /\ idle'[j][q] = idle[j][q]
BY DEF LocalTypeOK, ConfirmLocked

\* A confirmation restarts the clock of a player it finds unknown.
LEMMA ConfirmHere ==
  ASSUME LocalTypeOK, NEW i \in Proc, NEW p \in Player, NEW used,
         ConfirmLocked(i, p, used)
  PROVE  /\ idle'[i][p] = 0 \/ (p \in known[i] /\ idle'[i][p] = idle[i][p])
         /\ used = TRUE => idle'[i][p] = 0
BY DEF LocalTypeOK, ConfirmLocked

LEMMA ForgetSteady ==
  ASSUME LocalTypeOK, NEW i \in Proc, NEW p \in Player, Forget(i, p)
  PROVE  /\ UNCHANGED workVars =>
              \A j \in Proc, q \in Player : WorkSteady(j, q)
         /\ \A j \in Proc, q \in Player :
              q \in handingBack[j] \/ q \notin known[j] =>
                q \in handingBack'[j] \/ q \notin known'[j]
<1>1. \A j \in Proc, q \in Player :
        q \in known'[j] => /\ q \in known[j] /\ idle'[j][q] = idle[j][q]
                           /\ q \in handingBack[j] => q \in handingBack'[j]
  BY DEF LocalTypeOK, Forget
<1> QED
  BY <1>1 DEF WorkSteady, workVars

\* A claim is no part of a hand-back.
LEMMA ClaimAside ==
  ASSUME TypeOK, NEW w \in Worker, ClaimStep(w)
  PROVE  /\ \A i \in Proc : LoopAside(i)
         /\ w \in Proc => pc[w] \notin HandBackPC /\ pc'[w] \notin HandBackPC
<1> USE DEF TypeOK
<1>1. chosen' = chosen
  BY DEF ClaimStep, ClaimAdmit, ClaimSetNX, ClaimGet, ClaimExpire, ClaimDrop,
         ClaimNotDropped, ClaimConfirm, passVars
<1>2. pc[w] \in ClaimPC /\ ClaimPC \cap HandBackPC = {}
  BY DEF ClaimStep, ClaimAdmit, ClaimSetNX, ClaimGet, ClaimExpire, ClaimDrop,
         ClaimNotDropped, ClaimConfirm, ClaimPC, HandBackPC
<1>3. \/ ClaimAdmit(w)
      \/ Return(w, "pass") \/ Return(w, "rest")
      \/ \E to \in {"get", "expire", "wait", "confirm", "drop", "fence"} : Goto(w, to)
  BY DEF ClaimStep, ClaimSetNX, ClaimGet, ClaimExpire, ClaimDrop,
         ClaimNotDropped, ClaimConfirm, ClaimRouted
<1>4. /\ \A v \in Worker : v # w => pc'[v] = pc[v] /\ arg'[v] = arg[v]
      /\ pc'[w] \notin HandBackPC
  <2>1. CASE ClaimAdmit(w)
    BY <2>1 DEF ClaimAdmit, WorkerTypeOK, HandBackPC
  <2>2. CASE Return(w, "pass") \/ Return(w, "rest")
    BY <2>2 DEF Return, WorkerTypeOK, HandBackPC
  <2>3. CASE \E to \in {"get", "expire", "wait", "confirm", "drop", "fence"} : Goto(w, to)
    BY <2>3 DEF Goto, WorkerTypeOK, HandBackPC
  <2> QED
    BY <1>3, <2>1, <2>2, <2>3
<1>5. \A i \in Proc : i \in Worker
  BY DEF Worker
<1> QED
  BY <1>1, <1>2, <1>4, <1>5 DEF LoopAside

LEMMA ConfirmWork ==
  ASSUME TxnTicks <= Guard, Timely(TxnTicks), ConfirmsAside, TypeOK, TypeOK',
         GateInv(TxnTicks), WorkInv, NEW w \in Worker, ClaimConfirm(w)
  PROVE  WorkInv'
<1> USE DEF TypeOK
<1>1. PICK i \in Proc, p \in Player : i = Home(w) /\ p = arg[w]
  BY AtWork DEF ClaimConfirm
<1>2. pc[w] \in {"dropped", "confirm"}
  BY DEF ClaimConfirm
<1>3. LeasesKept
  BY Unmoved DEF ClaimConfirm, routeVars, tableVars
<1>4. /\ \A j \in Proc : LoopAside(j)
      /\ w \in Proc => pc[w] \notin HandBackPC
  BY ClaimAside DEF ClaimStep
<1>5. ConfirmLocked(i, p, TRUE)
  BY <1>1 DEF ClaimConfirm
<1>6. \A j \in Proc, q \in Player : j # i \/ q # p =>
        /\ q \in known'[j] <=> q \in known[j]
        /\ q \in handingBack'[j] <=> q \in handingBack[j]
        /\ idle'[j][q] = idle[j][q]
  BY <1>5, ConfirmElsewhere
<1>7. idle'[i][p] = 0
  BY <1>5, ConfirmHere
<1>8. \A j \in Proc, q \in Player : j # i \/ q # p =>
        txn'[j][q] = txn[j][q] /\ fuel'[j][q] = fuel[j][q]
  <2>1. CASE w \in Request
    BY <1>1, <2>1, WorkElsewhere DEF ClaimConfirm
  <2>2. CASE w \notin Request
    BY <2>2 DEF ClaimConfirm, workVars
  <2> QED
    BY <2>1, <2>2
<1>9. (WorkOf(i, p) /\ IdleOf(i, p))'
  <2>1. ttl[p] \in Nat /\ spent[w] \in Nat
    BY ConstantTypes DEF RouteTypeOK, WorkerTypeOK
  <2>2. owner' = owner /\ ttl' = ttl
    BY DEF ClaimConfirm, routeVars
  <2>3. pc[w] = "dropped" => spent[w] + TxnTicks <= Guard
    BY DEF Timely
  <2>4. /\ owner[p] = i
        /\ ttl[p] >= Lease \/ (ttl[p] + spent[w] >= Lease /\ spent[w] + TxnTicks <= Guard)
    BY <1>1, <1>2, <2>1, <2>3, ConstantTypes DEF GateInv, ClaimOf
  <2>5. owner[p] = i /\ ttl[p] > TxnTicks
    BY <2>1, <2>4, ConstantTypes
  <2> QED
    BY <1>7, <2>2, <2>5, WorkBegins
<1>10. p \notin Leaving(i)
  <2>1. CASE w \in Proc
    <3>1. pc[i] \notin HandBackPC
      BY <1>1, <1>4, <2>1 DEF Home
    <3> QED
      BY <3>1 DEF WorkInv, LeaveOf, Leaving
  <2>2. CASE w \in Request
    BY <1>1, <1>2, <2>2, OwnersAssumption DEF ConfirmsAside, Home
  <2> QED
    BY <2>1, <2>2 DEF Worker
<1>11. \A j \in Proc, q \in Player : WorkSteady(j, q) \/ (WorkOf(j, q) /\ IdleOf(j, q))'
  <2> SUFFICES ASSUME NEW j \in Proc, NEW q \in Player, j # i \/ q # p
               PROVE  WorkSteady(j, q)
    BY <1>9
  <2> QED
    BY <1>6, <1>8 DEF WorkSteady
<1>12. ASSUME NEW j \in Proc PROVE LeaveSteady(j) \/ LeaveOf(j)'
  <2>1. Leaving(j) \subseteq Player
    BY DEF Leaving, PassTypeOK
  <2>2. \A q \in Leaving(j) :
          /\ txn[j][q] = "idle" => txn'[j][q] = "idle"
          /\ q \in handingBack[j] \/ q \notin known[j] =>
               q \in handingBack'[j] \/ q \notin known'[j]
    BY <1>6, <1>8, <1>10, <2>1
  <2> QED
    BY <1>4, <2>2, AsideSteady DEF WorkInv
<1> QED
  BY <1>3, <1>11, <1>12, SomeMove

LEMMA ClaimStepWork ==
  ASSUME TxnTicks <= Guard, Timely(TxnTicks), ConfirmsAside, TypeOK, TypeOK',
         GateInv(TxnTicks), WorkInv, NEW w \in Worker, ClaimStep(w)
  PROVE  WorkInv'
<1> USE DEF TypeOK
<1>1. CASE ClaimConfirm(w)
  BY <1>1, ConfirmWork
<1>2. CASE ClaimAdmit(w)
  <2>1. LeasesKept /\ UNCHANGED <<known, handingBack, workVars>>
    BY <1>2, Unmoved DEF ClaimAdmit, routeVars, tableVars
  <2>2. \A i \in Proc, p \in Player : idle'[i][p] = idle[i][p] \/ idle'[i][p] = 0
    BY <1>2 DEF ClaimAdmit, Touch, LocalTypeOK
  <2> QED
    BY <2>1, <2>2, ClaimAside, AsideStep
<1>3. CASE \/ ClaimSetNX(w) \/ ClaimGet(w) \/ ClaimExpire(w)
           \/ ClaimDrop(w) \/ ClaimNotDropped(w)
  <2>1. UNCHANGED <<localVars, workVars>>
    BY <1>3 DEF ClaimSetNX, ClaimGet, ClaimExpire, ClaimDrop, ClaimNotDropped
  <2>2. LeasesKept
    <3>1. Home(w) \in Proc /\ arg[w] \in Player
      BY <1>3, AtWork
      DEF ClaimSetNX, ClaimGet, ClaimExpire, ClaimDrop, ClaimNotDropped
    <3>2. \/ \E reply \in Reply :
               \/ SetNX(Home(w), arg[w], reply) \/ Get(reply)
               \/ CompareAndExpire(Home(w), arg[w], reply)
          \/ UNCHANGED tableVars
      BY <1>3
      DEF ClaimSetNX, ClaimGet, ClaimExpire, ClaimDrop, ClaimNotDropped, routeVars,
          tableVars
    <3> QED
      BY <3>1, <3>2, CommandKeeps, Unmoved
  <2> QED
    BY <2>1, <2>2, ClaimAside, AsideStep DEF localVars
<1> QED
  BY <1>1, <1>2, <1>3 DEF ClaimStep

LEMMA RequestStepWork ==
  ASSUME TypeOK, TypeOK', WorkInv, NEW r \in Request, RequestStep(r)
  PROVE  WorkInv'
<1> USE DEF TypeOK
<1>1. UNCHANGED <<localVars, workVars, passVars>>
  BY DEF RequestStep, OwnerAnswer, Login, AskOwner
<1>2. LeasesKept
  <2>1. UNCHANGED tableVars
    BY DEF RequestStep, OwnerAnswer, Login, AskOwner, Get, routeVars, tableVars
  <2> QED
    BY <2>1, Unmoved
<1>3. \A i \in Proc : pc'[i] = pc[i] /\ arg'[i] = arg[i]
  <2>1. \A i \in Proc : i \in Worker /\ i # r
    BY OwnersAssumption DEF Worker
  <2> QED
    BY <2>1
    DEF RequestStep, OwnerAnswer, Login, AskOwner, Serve, Goto, Return, WorkerTypeOK
<1>4. \A i \in Proc : LoopAside(i)
  BY <1>1, <1>3 DEF LoopAside, passVars
<1> QED
  BY <1>1, <1>2, <1>4, AsideStep DEF localVars

LEMMA FenceWork ==
  ASSUME TypeOK, TypeOK', WorkInv, NEW i \in Proc, Fence(i)
  PROVE  WorkInv'
<1> USE DEF TypeOK
<1>1. LeasesKept /\ UNCHANGED <<workVars, chosen>>
  BY Unmoved DEF Fence, routeVars, tableVars, passVars
<1>2. i \in Worker /\ arg[i] \in Player
  BY AtWork DEF Worker, Fence
<1>3. \A j \in Proc : LoopAside(j)
  <2>1. /\ \A j \in Proc : j # i => pc'[j] = pc[j] /\ arg'[j] = arg[j]
        /\ pc[i] \notin HandBackPC /\ pc'[i] \notin HandBackPC
    BY <1>2 DEF Fence, Return, WorkerTypeOK, HandBackPC, Worker
  <2> QED
    BY <1>1, <2>1 DEF LoopAside
<1>4. CASE arg[i] \in known[i]
  <2>1. /\ \A j \in Proc, q \in Player : WorkSteady(j, q)
        /\ \A j \in Proc, q \in Player :
             q \in handingBack[j] \/ q \notin known[j] =>
               q \in handingBack'[j] \/ q \notin known'[j]
    BY <1>1, <1>2, <1>4, ForgetSteady DEF Fence
  <2>2. ASSUME NEW j \in Proc PROVE LeaveSteady(j) \/ LeaveOf(j)'
    <3>1. Leaving(j) \subseteq Player
      BY DEF Leaving, PassTypeOK
    <3> QED
      BY <1>1, <1>3, <2>1, <3>1, AsideSteady DEF WorkInv, workVars
  <2> QED
    BY <1>1, <2>1, <2>2, SomeMove
<1>5. CASE arg[i] \notin known[i]
  <2>1. UNCHANGED localVars
    BY <1>5 DEF Fence
  <2> QED
    BY <1>1, <1>3, <2>1, AsideStep DEF localVars
<1> QED
  BY <1>4, <1>5

\* The idle list holds nobody with work under way.
LEMMA SelectIdleWork ==
  ASSUME TxnTicks < HandBackIdle, TypeOK, TypeOK', WorkInv, NEW i \in Proc, SelectIdle(i)
  PROVE  WorkInv'
<1> USE DEF TypeOK
<1> DEFINE Idle == {p \in known[i] \ handingBack[i] : idle[i][p] >= HandBackIdle}
<1>1. i \in Worker /\ chosen[i] = {}
  BY DEF SelectIdle, WorkInv, LeaveOf, HandBackPC, Worker
<1>2. LeasesKept /\ UNCHANGED <<known, idle, workVars>>
  BY Unmoved DEF SelectIdle, routeVars, tableVars
<1>3. /\ \A j \in Proc : j # i =>
           /\ chosen'[j] = chosen[j] /\ handingBack'[j] = handingBack[j]
           /\ pc'[j] = pc[j] /\ arg'[j] = arg[j]
      /\ pc'[i] = "handback"
      /\ chosen'[i] = {} \/ (chosen'[i] = Idle /\ Idle \subseteq handingBack'[i])
  BY <1>1 DEF SelectIdle, Goto, WorkerTypeOK, PassTypeOK, LocalTypeOK
<1>4. \A j \in Proc, q \in Player : WorkSteady(j, q)
  BY <1>2 DEF WorkSteady, workVars
<1>5. \A j \in Proc : j # i => LeaveSteady(j)
  BY <1>2, <1>3 DEF LeaveSteady, Leaving, workVars
<1>6. LeaveOf(i)'
  <2>1. ASSUME NEW p \in Idle PROVE txn[i][p] = "idle"
    <3>1. p \in Player /\ p \in known[i] /\ idle[i][p] >= HandBackIdle
      BY DEF LocalTypeOK
    <3>2. idle[i][p] \in Nat /\ fuel[i][p] \in Nat
      BY <3>1, ConstantTypes DEF LocalTypeOK, WorkTypeOK
    <3>3. ~(idle[i][p] + fuel[i][p] <= TxnTicks)
      BY <3>1, <3>2, ConstantTypes
    <3> QED
      BY <3>1, <3>3 DEF WorkInv, IdleOf
  <2>2. Leaving(i)' = chosen'[i]
    BY <1>3 DEF Leaving
  <2> HIDE DEF Idle
  <2> QED
    BY <1>2, <1>3, <2>1, <2>2 DEF LeaveOf, workVars, BackPC, HandBackPC
<1> HIDE DEF Idle
<1> QED
  BY <1>2, <1>4, <1>5, <1>6, SomeMove

LEMMA HandBackNextWork ==
  ASSUME TypeOK, TypeOK', WorkInv, NEW i \in Proc, NEW p \in Player, HandBackNext(i, p)
  PROVE  WorkInv'
<1> USE DEF TypeOK
<1>1. i \in Worker /\ \A j \in Proc : j \in Worker
  BY DEF Worker
<1>2. LeasesKept /\ UNCHANGED <<known, idle, workVars>>
  BY Unmoved DEF HandBackNext, routeVars, tableVars
<1>3. \A j \in Proc : j # i =>
        /\ chosen'[j] = chosen[j] /\ handingBack'[j] = handingBack[j]
        /\ pc'[j] = pc[j] /\ arg'[j] = arg[j]
  BY <1>1
  DEF HandBackNext, Call, WorkerTypeOK, PassTypeOK, LocalTypeOK, workerVars
<1>4. /\ pc[i] = "handback" /\ p \in chosen[i] /\ chosen'[i] = chosen[i] \ {p}
      /\ \/ /\ handingBack'[i] = handingBack[i] \ {p}
            /\ pc'[i] = "handback"
         \/ /\ handingBack'[i] = handingBack[i]
            /\ pc'[i] = "hbwait" /\ arg'[i] = p
  BY <1>1
  DEF HandBackNext, Call, WorkerTypeOK, PassTypeOK, LocalTypeOK, workerVars
<1>5. \A j \in Proc, q \in Player : WorkSteady(j, q)
  BY <1>2 DEF WorkSteady, workVars
<1>6. \A j \in Proc : j # i => LeaveSteady(j)
  BY <1>2, <1>3 DEF LeaveSteady, Leaving, workVars
<1>7. LeaveOf(i)'
  <2>1. Leaving(i) = chosen[i]
    BY <1>4 DEF Leaving
  <2>2. CASE handingBack'[i] = handingBack[i] \ {p} /\ pc'[i] = "handback"
    <3>1. Leaving(i)' = chosen[i] \ {p}
      BY <1>4, <2>2 DEF Leaving
    <3> QED
      BY <1>2, <1>4, <2>1, <2>2, <3>1 DEF WorkInv, LeaveOf, workVars, BackPC, HandBackPC
  <2>3. CASE handingBack'[i] = handingBack[i] /\ pc'[i] = "hbwait" /\ arg'[i] = p
    <3>1. Leaving(i)' \subseteq chosen[i]
      BY <1>4, <2>3 DEF Leaving
    <3> QED
      BY <1>2, <1>4, <2>1, <2>3, <3>1 DEF WorkInv, LeaveOf, workVars, BackPC, HandBackPC
  <2> QED
    BY <1>4, <2>2, <2>3
<1> QED
  BY <1>2, <1>5, <1>6, <1>7, SomeMove

\* The player of the step leaves the list with it.
LEMMA HandBackKeepWork ==
  ASSUME TypeOK, TypeOK', WorkInv, NEW i \in Proc, HandBackKeep(i)
  PROVE  WorkInv'
<1> USE DEF TypeOK
<1>1. i \in Worker /\ pc[i] \in BackPC
  BY DEF Worker, HandBackKeep, BackPC, HandBackPC
<1>2. LeasesKept /\ UNCHANGED <<known, idle, workVars, chosen>>
  BY Unmoved DEF HandBackKeep, routeVars, tableVars, passVars
<1>3. /\ \A j \in Proc : j # i =>
           /\ handingBack'[j] = handingBack[j]
           /\ pc'[j] = pc[j] /\ arg'[j] = arg[j]
      /\ handingBack'[i] = handingBack[i] \ {arg[i]}
      /\ pc'[i] = "handback"
  BY <1>1 DEF HandBackKeep, Return, WorkerTypeOK, LocalTypeOK, Worker
<1>4. \A j \in Proc, q \in Player : WorkSteady(j, q)
  BY <1>2 DEF WorkSteady, workVars
<1>5. \A j \in Proc : j # i => LeaveSteady(j)
  BY <1>2, <1>3 DEF LeaveSteady, Leaving, workVars
<1>6. LeaveOf(i)'
  <2>1. arg[i] \notin chosen[i] /\ chosen[i] \subseteq Leaving(i)
    BY <1>1 DEF WorkInv, LeaveOf, Leaving
  <2>2. Leaving(i)' = chosen[i]
    BY <1>2, <1>3 DEF Leaving
  <2> QED
    BY <1>2, <1>3, <2>1, <2>2 DEF WorkInv, LeaveOf, workVars, BackPC, HandBackPC
<1> QED
  BY <1>2, <1>4, <1>5, <1>6, SomeMove

\* A step of the loop that leaves the hand-back to the next.
LEMMA LoopMoves ==
  ASSUME TypeOK, NEW i \in Proc, UNCHANGED chosen,
         \/ pc[i] \notin HandBackPC /\ pc'[i] \notin HandBackPC
         \/ chosen[i] = {} /\ pc'[i] \notin BackPC
         \/ pc[i] \in BackPC /\ pc'[i] \in BackPC /\ arg'[i] = arg[i],
         \A j \in Proc : j # i => pc'[j] = pc[j] /\ arg'[j] = arg[j]
  PROVE  \A j \in Proc : LoopAside(j)
BY DEF LoopAside

LEMMA ReleaseLocalWork ==
  ASSUME TypeOK, TypeOK', WorkInv, NEW i \in Proc, ReleaseLocal(i)
  PROVE  WorkInv'
<1> USE DEF TypeOK
<1>1. LeasesKept /\ UNCHANGED <<workVars, chosen>>
  BY Unmoved DEF ReleaseLocal, routeVars, tableVars, passVars
<1>2. i \in Worker /\ arg[i] \in Player
  BY AtWork DEF Worker, ReleaseLocal
<1>3. \A j \in Proc : LoopAside(j)
  <2>1. /\ \A j \in Proc : j # i => pc'[j] = pc[j] /\ arg'[j] = arg[j]
        /\ pc[i] \in BackPC /\ pc'[i] \in BackPC /\ arg'[i] = arg[i]
    BY <1>2 DEF ReleaseLocal, Goto, WorkerTypeOK, BackPC, HandBackPC
  <2> QED
    BY <1>1, <2>1, LoopMoves
<1>4. /\ \A j \in Proc, q \in Player : WorkSteady(j, q)
      /\ \A j \in Proc, q \in Player :
           q \in handingBack[j] \/ q \notin known[j] =>
             q \in handingBack'[j] \/ q \notin known'[j]
  BY <1>1, <1>2, ForgetSteady DEF ReleaseLocal
<1>5. ASSUME NEW j \in Proc PROVE LeaveSteady(j) \/ LeaveOf(j)'
  <2>1. Leaving(j) \subseteq Player
    <3>1. j \in Worker
      BY DEF Worker
    <3> QED
      BY <3>1 DEF Leaving, PassTypeOK
  <2> QED
    BY <1>1, <1>3, <1>4, <2>1, AsideSteady DEF WorkInv, workVars
<1> QED
  BY <1>1, <1>4, <1>5, SomeMove

\* Nobody works on the player whose key goes.
LEMMA ReleaseKeyWork ==
  ASSUME TypeOK, TypeOK', WorkInv, NEW i \in Proc, ReleaseKey(i)
  PROVE  WorkInv'
<1> USE DEF TypeOK
<1>1. i \in Worker /\ arg[i] \in Player /\ pc[i] \in BackPC /\ pc[i] = "release"
  BY AtWork DEF Worker, ReleaseKey, BackPC, HandBackPC
<1>2. UNCHANGED <<localVars, workVars, chosen>>
  BY DEF ReleaseKey, passVars
<1>3. /\ \A j \in Proc : j # i => pc'[j] = pc[j] /\ arg'[j] = arg[j]
      /\ pc'[i] = "handback"
  BY <1>1 DEF ReleaseKey, Return, WorkerTypeOK, Worker
<1>4. PICK reply \in Reply : CompareAndDelete(i, arg[i], reply)
  BY DEF ReleaseKey
<1>5. txn[i][arg[i]] = "idle"
  BY <1>1 DEF WorkInv, LeaveOf, Leaving, BackPC
<1>6. \A j \in Proc, q \in Player : WorkSteady(j, q)
  BY <1>2 DEF WorkSteady, workVars, localVars
<1>7. ASSUME NEW j \in Proc, NEW q \in Player PROVE WorkOf(j, q)'
  <2>1. CASE txn[j][q] = "idle"
    BY <1>2, <2>1 DEF WorkOf, workVars
  <2>2. CASE txn[j][q] # "idle"
    <3>1. owner[q] = j
      BY <2>2 DEF WorkInv, WorkOf
    <3>2. owner'[q] = owner[q] /\ ttl'[q] = ttl[q]
      <4>1. q # arg[i] \/ owner[arg[i]] # i
        BY <1>5, <2>2, <3>1
      <4> QED
        BY <1>1, <1>4, <4>1 DEF CompareAndDelete, tableVars, RouteTypeOK
    <3> QED
      BY <1>2, <3>2 DEF WorkInv, WorkOf, workVars
  <2> QED
    BY <2>1, <2>2
<1>8. \A j \in Proc, q \in Player : IdleOf(j, q)'
  BY <1>6, WorkKept DEF WorkInv
<1>9. ASSUME NEW j \in Proc PROVE LeaveOf(j)'
  <2>1. LeaveSteady(j)
    BY <1>1, <1>2, <1>3 DEF LeaveSteady, Leaving, workVars, localVars, BackPC, HandBackPC
  <2> QED
    BY <2>1, LeaveKept DEF WorkInv
<1> QED
  BY <1>7, <1>8, <1>9 DEF WorkInv

LEMMA RenewalHeldWork ==
  ASSUME TypeOK, TypeOK', WorkInv, NEW i \in Proc, NEW p \in Player, RenewalHeld(i, p)
  PROVE  WorkInv'
<1> USE DEF TypeOK
<1>1. LeasesKept /\ UNCHANGED <<workVars, chosen, pc, arg>>
  BY Unmoved DEF RenewalHeld, routeVars, tableVars, workerVars
<1>2. \A j \in Proc : LoopAside(j)
  BY <1>1 DEF LoopAside
<1>3. ConfirmLocked(i, p, FALSE)
  BY DEF RenewalHeld
<1>4. \A j \in Proc, q \in Player : j # i \/ q # p =>
        /\ q \in known'[j] <=> q \in known[j]
        /\ q \in handingBack'[j] <=> q \in handingBack[j]
        /\ idle'[j][q] = idle[j][q]
  BY <1>3, ConfirmElsewhere
<1>5. idle'[i][p] = 0 \/ (p \in known[i] /\ idle'[i][p] = idle[i][p])
  BY <1>3, ConfirmHere
<1>6. \A j \in Proc, q \in Player : WorkSteady(j, q)
  BY <1>1, <1>4, <1>5 DEF WorkSteady, workVars
<1>7. Leaving(i) = {}
  BY DEF RenewalHeld, Refreshed, WorkInv, LeaveOf, Leaving, HandBackPC
<1>8. ASSUME NEW j \in Proc PROVE LeaveSteady(j) \/ LeaveOf(j)'
  <2>1. j \in Worker
    BY DEF Worker
  <2>2. Leaving(j) \subseteq Player
    BY <2>1 DEF Leaving, PassTypeOK
  <2>3. \A q \in Leaving(j) :
          /\ txn[j][q] = "idle" => txn'[j][q] = "idle"
          /\ q \in handingBack[j] \/ q \notin known[j] =>
               q \in handingBack'[j] \/ q \notin known'[j]
    BY <1>1, <1>4, <1>7, <2>2 DEF workVars
  <2> QED
    BY <1>2, <2>3, AsideSteady DEF WorkInv
<1> QED
  BY <1>1, <1>6, <1>8, SomeMove

LEMMA LoopStepWork ==
  ASSUME TxnTicks < HandBackIdle, TypeOK, TypeOK', WorkInv, NEW i \in Proc, LoopStep(i)
  PROVE  WorkInv'
<1> USE DEF TypeOK
<1>1. i \in Worker /\ \A j \in Proc : j \in Worker
  BY DEF Worker
<1>2. CASE BeginPass(i) \/ EndPass(i)
  <2>1. LeasesKept /\ UNCHANGED <<known, handingBack, idle, workVars, chosen>>
    BY <1>2, Unmoved DEF BeginPass, EndPass, routeVars, tableVars, localVars, passVars
  <2>2. /\ \A j \in Proc : j # i => pc'[j] = pc[j] /\ arg'[j] = arg[j]
        /\ \/ pc[i] \notin HandBackPC /\ pc'[i] \notin HandBackPC
           \/ chosen[i] = {} /\ pc'[i] \notin BackPC
    BY <1>1, <1>2
    DEF BeginPass, EndPass, Goto, WorkerTypeOK, HandBackPC, BackPC
  <2> QED
    BY <2>1, <2>2, LoopMoves, AsideStep
<1>3. ASSUME NEW p \in Player, RefreshOne(i, p) \/ RenewalError(i, p)
      PROVE  WorkInv'
  <2>1. UNCHANGED <<known, handingBack, idle, workVars, chosen, pc, arg>>
    BY <1>3 DEF RefreshOne, RenewalError, localVars, workerVars
  <2>2. LeasesKept
    BY <1>3, CommandKeeps, Unmoved DEF RefreshOne, RenewalError, routeVars, tableVars
  <2>3. \A j \in Proc : LoopAside(j)
    BY <2>1 DEF LoopAside
  <2> QED
    BY <2>1, <2>2, <2>3, AsideStep
<1>4. ASSUME NEW p \in Player, RenewalGone(i, p) PROVE WorkInv'
  <2>1. LeasesKept /\ UNCHANGED <<known, handingBack, idle, workVars, chosen>>
    BY <1>4, Unmoved DEF RenewalGone, routeVars, tableVars
  <2>2. /\ \A j \in Proc : j # i => pc'[j] = pc[j] /\ arg'[j] = arg[j]
        /\ pc[i] \notin HandBackPC /\ pc'[i] \notin HandBackPC
    BY <1>1, <1>4 DEF RenewalGone, Refreshed, Call, WorkerTypeOK, HandBackPC
  <2> QED
    BY <2>1, <2>2, LoopMoves, AsideStep
<1> QED
  BY <1>2, <1>3, <1>4, FenceWork, SelectIdleWork, HandBackKeepWork, HandBackNextWork,
     ReleaseLocalWork, ReleaseKeyWork, RenewalHeldWork DEF LoopStep

LEMMA AdmitWorkKeeps ==
  ASSUME TypeOK, TypeOK', GateInv(TxnTicks), WorkInv,
         NEW i \in Proc, NEW p \in Player, AdmitWork(i, p)
  PROVE  WorkInv'
<1> USE DEF TypeOK
<1>1. LeasesKept /\ UNCHANGED <<known, handingBack, chosen, pc, arg>>
  BY Unmoved DEF AdmitWork, routeVars, tableVars, workerVars, passVars
<1>2. p \in known[i] /\ p \notin handingBack[i] /\ left[i][p] > Guard
  BY DEF AdmitWork, Admit
<1>3. idle'[i][p] = 0 /\ \A j \in Proc, q \in Player : j # i \/ q # p =>
        idle'[j][q] = idle[j][q]
  BY DEF AdmitWork, Touch, LocalTypeOK
<1>4. \A j \in Proc, q \in Player : j # i \/ q # p =>
        txn'[j][q] = txn[j][q] /\ fuel'[j][q] = fuel[j][q]
  BY WorkElsewhere DEF AdmitWork
<1>5. (WorkOf(i, p) /\ IdleOf(i, p))'
  <2>1. owner[p] = i /\ ttl[p] + Guard >= left[i][p] + TxnTicks
    BY <1>2 DEF GateInv, GateOf
  <2>2. ttl[p] \in Nat /\ left[i][p] \in Nat
    BY ConstantTypes DEF RouteTypeOK, LocalTypeOK
  <2>3. ttl[p] > TxnTicks
    BY <1>2, <2>1, <2>2, ConstantTypes
  <2>4. owner' = owner /\ ttl' = ttl
    BY DEF AdmitWork, routeVars
  <2> QED
    BY <1>3, <2>1, <2>3, <2>4, WorkBegins
<1>6. \A j \in Proc, q \in Player : WorkSteady(j, q) \/ (WorkOf(j, q) /\ IdleOf(j, q))'
  <2> SUFFICES ASSUME NEW j \in Proc, NEW q \in Player, j # i \/ q # p
               PROVE  WorkSteady(j, q)
    BY <1>5
  <2> QED
    BY <1>1, <1>3, <1>4 DEF WorkSteady
<1>7. ASSUME NEW j \in Proc PROVE LeaveSteady(j) \/ LeaveOf(j)'
  <2>1. j \in Worker
    BY DEF Worker
  <2>2. Leaving(j) \subseteq Player /\ p \notin Leaving(i)
    BY <1>2, <2>1 DEF Leaving, PassTypeOK, WorkInv, LeaveOf
  <2>3. \A q \in Leaving(j) : txn[j][q] = "idle" => txn'[j][q] = "idle"
    BY <1>4, <2>2
  <2>4. LoopAside(j)
    BY <1>1 DEF LoopAside
  <2> QED
    BY <1>1, <2>3, <2>4, AsideSteady DEF WorkInv
<1> QED
  BY <1>1, <1>6, <1>7, SomeMove

LEMMA EntityStepWork ==
  ASSUME TypeOK, TypeOK', GateInv(TxnTicks), WorkInv,
         NEW i \in Proc, NEW p \in Player, EntityStep(i, p)
  PROVE  WorkInv'
<1> USE DEF TypeOK
<1>1. CASE AdmitWork(i, p)
  BY <1>1, AdmitWorkKeeps
<1>2. CASE EvictReport(i, p)
  <2>1. LeasesKept /\ UNCHANGED <<known, handingBack, idle, workVars, chosen, arg>>
    BY <1>2, Unmoved DEF EvictReport, routeVars, tableVars, localVars, passVars
  <2>2. \A w \in Worker :
          \/ pc'[w] = pc[w]
          \/ pc[w] = "wait" /\ pc'[w] \in {"dropped", "undropped"}
          \/ pc[w] = "hbwait" /\ pc'[w] \in {"forget", "keep"}
    BY <1>2 DEF EvictReport
  <2>3. \A j \in Proc : LoopAside(j)
    BY <2>1, <2>2 DEF LoopAside, BackPC, HandBackPC, Worker
  <2> QED
    BY <2>1, <2>3, AsideStep
<1>3. CASE EvictOk(i, p) \/ EvictFail(i, p) \/ FenceDrop(i, p) \/ Disconnect(i, p)
  <2>1. LeasesKept /\ UNCHANGED <<known, handingBack, idle, workVars, chosen, pc, arg>>
    BY <1>3, Unmoved
    DEF EvictOk, EvictFail, FenceDrop, Disconnect, routeVars, tableVars, localVars,
        workerVars, passVars
  <2>2. \A j \in Proc : LoopAside(j)
    BY <2>1 DEF LoopAside
  <2> QED
    BY <2>1, <2>2, AsideStep
<1>4. CASE RunWork(i, p) \/ CommitWork(i, p)
  <2>1. LeasesKept /\ UNCHANGED <<known, handingBack, idle, chosen, pc, arg>>
    BY <1>4, Unmoved
    DEF RunWork, CommitWork, routeVars, tableVars, localVars, workerVars, passVars
  <2>2. \A j \in Proc, q \in Player :
          /\ txn'[j][q] # "idle" => txn[j][q] # "idle" /\ fuel'[j][q] = fuel[j][q]
          /\ txn[j][q] = "idle" => txn'[j][q] = "idle"
    <3>1. CASE RunWork(i, p)
      BY <3>1 DEF RunWork, WorkTypeOK
    <3>2. CASE CommitWork(i, p)
      BY <3>2 DEF CommitWork, WorkTypeOK
    <3> QED
      BY <1>4, <3>1, <3>2
  <2>3. \A j \in Proc, q \in Player : WorkSteady(j, q)
    BY <2>1, <2>2 DEF WorkSteady
  <2>4. ASSUME NEW j \in Proc PROVE LeaveSteady(j) \/ LeaveOf(j)'
    <3>1. j \in Worker
      BY DEF Worker
    <3>2. Leaving(j) \subseteq Player
      BY <3>1 DEF Leaving, PassTypeOK
    <3>3. LoopAside(j)
      BY <2>1 DEF LoopAside
    <3> QED
      BY <2>1, <2>2, <3>2, <3>3, AsideSteady DEF WorkInv
  <2> QED
    BY <2>1, <2>3, <2>4, SomeMove
<1> QED
  BY <1>1, <1>2, <1>3, <1>4 DEF EntityStep

LEMMA CrashWork ==
  ASSUME TypeOK, TypeOK', WorkInv, NEW i \in Proc, Crash(i)
  PROVE  WorkInv'
<1> USE DEF TypeOK
<1>1. LeasesKept
  BY Unmoved DEF Crash, routeVars, tableVars
<1>2. \A j \in Proc : j # i =>
        /\ known'[j] = known[j] /\ handingBack'[j] = handingBack[j]
        /\ idle'[j] = idle[j] /\ txn'[j] = txn[j] /\ fuel'[j] = fuel[j]
        /\ chosen'[j] = chosen[j]
  BY DEF Crash, LocalTypeOK, WorkTypeOK, PassTypeOK
<1>3. chosen'[i] = {} /\ \A p \in Player : txn'[i][p] = "idle"
  BY DEF Crash, WorkTypeOK, PassTypeOK
<1>4. /\ \A j \in Proc : j # i => pc'[j] = pc[j] /\ arg'[j] = arg[j]
      /\ pc'[i] = "rest"
  <2> DEFINE Mine == {w \in Worker : Home(w) = i}
  <2>1. \A j \in Proc : j \in Worker /\ (j \in Mine <=> j = i)
    BY DEF Worker, Home
  <2>2. /\ pc' = [w \in Worker |-> IF w \in Mine THEN "rest" ELSE pc[w]]
        /\ arg' = [w \in Worker |-> IF w \in Mine THEN None ELSE arg[w]]
    BY DEF Crash
  <2> HIDE DEF Mine
  <2> QED
    BY <2>1, <2>2
<1>5. \A j \in Proc, q \in Player : WorkSteady(j, q)
  BY <1>2, <1>3 DEF WorkSteady
<1>6. \A j \in Proc : j # i => LeaveSteady(j)
  BY <1>2, <1>4 DEF LeaveSteady, Leaving
<1>7. LeaveOf(i)'
  BY <1>3, <1>4 DEF LeaveOf, Leaving, BackPC, HandBackPC
<1> QED
  BY <1>1, <1>5, <1>6, <1>7, SomeMove

\* The fuel of a transaction and the lease under it run out together.
LEMMA TickWork ==
  ASSUME TypeOK, TypeOK', WorkInv, Tick
  PROVE  WorkInv'
<1> USE DEF TypeOK
<1>1. RouteTick /\ UNCHANGED <<known, handingBack, chosen, pc, arg, txn>>
  BY DEF Tick
<1>2. ASSUME NEW i \in Proc, NEW p \in Player, txn[i][p] # "idle"
      PROVE  (owner'[p] = i /\ ttl'[p] > fuel'[i][p])
             /\ (p \in known[i] => idle'[i][p] + fuel'[i][p] <= TxnTicks)
  <2>1. fuel[i][p] > 0 /\ fuel'[i][p] = fuel[i][p] - 1
    BY <1>2 DEF Tick
  <2>2. owner[p] = i /\ ttl[p] > fuel[i][p]
    BY <1>2 DEF WorkInv, WorkOf
  <2>3. ttl[p] \in Nat /\ fuel[i][p] \in Nat /\ idle[i][p] \in Nat /\ TxnTicks \in Nat
    BY ConstantTypes DEF RouteTypeOK, WorkTypeOK, LocalTypeOK
  <2>4. owner'[p] = i /\ ttl'[p] > fuel'[i][p]
    BY <1>1, <2>1, <2>2, <2>3, TickKeeps
  <2>5. idle'[i][p] = idle[i][p] \/ idle'[i][p] = idle[i][p] + 1
    BY DEF Tick
  <2>6. p \in known[i] => idle[i][p] + fuel[i][p] <= TxnTicks
    BY <1>2 DEF WorkInv, IdleOf
  <2>7. p \in known[i] => idle'[i][p] + fuel'[i][p] <= TxnTicks
    BY <2>1, <2>3, <2>5, <2>6
  <2> QED
    BY <2>4, <2>7
<1>3. \A i \in Proc, p \in Player : (WorkOf(i, p) /\ IdleOf(i, p))'
  BY <1>1, <1>2 DEF WorkOf, IdleOf
<1>4. \A i \in Proc : LeaveOf(i)'
  BY <1>1 DEF WorkInv, LeaveOf, Leaving
<1> QED
  BY <1>3, <1>4 DEF WorkInv

LEMMA InitWork == Init => WorkInv
<1> SUFFICES ASSUME Init PROVE WorkInv
  OBVIOUS
<1>1. /\ \A i \in Proc, p \in Player : txn[i][p] = "idle"
      /\ \A i \in Proc : chosen[i] = {} /\ pc[i] = "rest"
  BY DEF Init, Worker
<1> QED
  BY <1>1 DEF WorkInv, WorkOf, IdleOf, LeaveOf, Leaving, BackPC, HandBackPC

LEMMA WorkStep ==
  ASSUME TxnTicks <= Guard, TxnTicks < HandBackIdle, Timely(TxnTicks), ConfirmsAside,
         TypeOK, TypeOK', GateInv(TxnTicks), WorkInv, [Next]_vars
  PROVE  WorkInv'
<1>1. CASE UNCHANGED <<routeVars, localVars, workVars, passVars, workerVars>>
  <2>1. LeasesKept
    BY <1>1, Unmoved DEF routeVars, tableVars
  <2>2. \A i \in Proc : LoopAside(i)
    BY <1>1 DEF LoopAside, passVars, workerVars
  <2> QED
    BY <1>1, <2>1, <2>2, AsideStep DEF localVars
<1>2. CASE UNCHANGED vars
  BY <1>1, <1>2 DEF vars
<1>3. CASE Next
  <2>1. ASSUME NEW i \in Proc, StartProc(i) PROVE WorkInv'
    BY <1>1, <2>1 DEF StartProc
  <2> QED
    BY <1>3, <2>1, ClaimStepWork, RequestStepWork, LoopStepWork, EntityStepWork,
       CrashWork, TickWork DEF Next
<1> QED
  BY <1>2, <1>3

LEMMA WorkInvariant ==
  ASSUME TxnTicks <= Guard, TxnTicks < HandBackIdle
  PROVE  Spec /\ []Unraced(TxnTicks) /\ []ConfirmsAside => []WorkInv
<1>1. Init => GateInv(TxnTicks) /\ WorkInv
  BY InitGate, InitWork, ConstantTypes
<1>2. TypeOK /\ TypeOK' /\ Unraced(TxnTicks) /\ ConfirmsAside
        /\ GateInv(TxnTicks) /\ WorkInv
        /\ [Next]_vars => (GateInv(TxnTicks) /\ WorkInv)'
  BY GateStep, WorkStep, ConstantTypes DEF Unraced
<1> QED
  BY <1>1, <1>2, TypeCorrect, PTL DEF Spec

-----------------------------------------------------------------------------
(***************************************************************************)
(* The theorems about the gate.                                            *)
(***************************************************************************)
LEMMA GateAdmits == GateInv(0) => AdmissionSound
BY DEF GateInv, GateOf, AdmissionSound, Admit

(***************************************************************************)
(* RR-20260920-04.  A process whose gate is open on a player owns the      *)
(* player in Redis at that moment, though the gate never asks Redis.       *)
(***************************************************************************)
THEOREM GateSound == Spec /\ []Unraced(0) => []AdmissionSound
BY GateAdmits, GateInvariant, PTL

(***************************************************************************)
(* No two processes have their gates open on one player at once.           *)
(***************************************************************************)
THEOREM SingleWriter == Spec /\ []Unraced(0) => []OneWriter
<1>1. AdmissionSound => OneWriter
  BY DEF AdmissionSound, OneWriter
<1> QED
  BY <1>1, GateSound, PTL

(***************************************************************************)
(* AdmissionGuard.  Work that was let in ends while its process still owns *)
(* the player.                                                             *)
(***************************************************************************)
THEOREM GuardProtects ==
  ASSUME TxnTicks <= Guard, TxnTicks < HandBackIdle
  PROVE  Spec /\ []Unraced(TxnTicks) /\ []ConfirmsAside => []WorkProtected
<1>1. WorkInv => WorkProtected
  BY DEF WorkInv, WorkOf, WorkProtected
<1> QED
  BY <1>1, WorkInvariant, PTL

(***************************************************************************)
(* Where no fencer is installed nothing is handed back, so ReleaseAlone    *)
(* and ConfirmsAside need not be supposed: UndisturbedSuffices.            *)
(***************************************************************************)
NothingLeaves ==
  \A i \in Proc : chosen[i] = {} /\ pc[i] \notin BackPC

LEMMA NothingLeavesStep ==
  ASSUME ~HasFencer, TypeOK, NothingLeaves, [Next]_vars
  PROVE  NothingLeaves'
<1> USE DEF TypeOK
<1>1. \A i \in Proc : i \in Worker
  BY DEF Worker
<1>2. ASSUME \A i \in Proc : LoopAside(i) PROVE NothingLeaves'
  BY <1>2 DEF LoopAside, NothingLeaves, BackPC
<1>3. CASE UNCHANGED <<chosen, pc, arg>>
  BY <1>3 DEF NothingLeaves
<1>4. ASSUME NEW w \in Worker, ClaimStep(w) PROVE NothingLeaves'
  BY <1>2, <1>4, ClaimAside
<1>5. ASSUME NEW r \in Request, RequestStep(r) PROVE NothingLeaves'
  <2>1. \A i \in Proc : pc'[i] = pc[i] /\ chosen'[i] = chosen[i]
    <3>1. \A i \in Proc : i # r
      BY OwnersAssumption
    <3> QED
      BY <1>1, <1>5, <3>1
      DEF RequestStep, OwnerAnswer, Login, AskOwner, Serve, Goto, Return,
          WorkerTypeOK, passVars
  <2> QED
    BY <2>1 DEF NothingLeaves
<1>6. ASSUME NEW i \in Proc, LoopStep(i) PROVE NothingLeaves'
  <2>1. /\ \A j \in Proc : j # i => pc'[j] = pc[j]
        /\ pc'[i] \notin BackPC /\ chosen' = chosen
    <3>1. pc[i] \notin BackPC /\ chosen[i] = {}
      BY DEF NothingLeaves
    <3>2. CASE BeginPass(i) \/ SelectIdle(i) \/ EndPass(i) \/ Fence(i)
      BY <1>1, <3>2
      DEF BeginPass, SelectIdle, EndPass, Fence, Goto, Return, WorkerTypeOK, BackPC,
          HandBackPC, passVars
    <3>3. ~HandBackKeep(i) /\ ~ReleaseLocal(i) /\ ~ReleaseKey(i)
      BY <3>1 DEF HandBackKeep, ReleaseLocal, ReleaseKey, BackPC, HandBackPC
    <3>4. ASSUME NEW p \in Player,
                 \/ RefreshOne(i, p) \/ RenewalHeld(i, p) \/ RenewalError(i, p)
                 \/ RenewalGone(i, p) \/ HandBackNext(i, p)
          PROVE  /\ \A j \in Proc : j # i => pc'[j] = pc[j]
                 /\ pc'[i] \notin BackPC /\ chosen' = chosen
      BY <1>1, <3>1, <3>4
      DEF RefreshOne, RenewalHeld, RenewalError, RenewalGone, HandBackNext, Call,
          WorkerTypeOK, BackPC, HandBackPC, workerVars
    <3> QED
      BY <1>6, <3>2, <3>3, <3>4 DEF LoopStep
  <2> QED
    BY <2>1 DEF NothingLeaves
<1>7. ASSUME NEW i \in Proc, NEW p \in Player, EntityStep(i, p) PROVE NothingLeaves'
  <2>1. UNCHANGED chosen
    BY <1>7
    DEF EntityStep, EvictOk, EvictFail, EvictReport, FenceDrop, AdmitWork, RunWork,
        CommitWork, Disconnect, passVars
  <2>2. \A j \in Proc : pc[j] # "hbwait"
    BY DEF NothingLeaves, BackPC, HandBackPC
  <2>3. \A j \in Proc : pc'[j] = pc[j] \/ pc'[j] \in {"dropped", "undropped"}
    BY <1>1, <1>7, <2>2
    DEF EntityStep, EvictOk, EvictFail, EvictReport, FenceDrop, AdmitWork, RunWork,
        CommitWork, Disconnect, workerVars
  <2> QED
    BY <2>1, <2>3 DEF NothingLeaves, BackPC, HandBackPC
<1>8. ASSUME NEW i \in Proc, Crash(i) PROVE NothingLeaves'
  <2>1. \A j \in Proc : pc'[j] = pc[j] \/ pc'[j] = "rest"
    BY <1>1, <1>8 DEF Crash
  <2>2. \A j \in Proc : chosen'[j] = chosen[j] \/ chosen'[j] = {}
    BY <1>8 DEF Crash, PassTypeOK
  <2> QED
    BY <2>1, <2>2 DEF NothingLeaves, BackPC, HandBackPC
<1>9. ASSUME NEW i \in Proc, StartProc(i) PROVE NothingLeaves'
  BY <1>3, <1>9 DEF StartProc, workerVars, passVars
<1>10. CASE Tick
  BY <1>3, <1>10 DEF Tick
<1>11. CASE UNCHANGED vars
  BY <1>3, <1>11 DEF vars, workerVars, passVars
<1> QED
  BY <1>4, <1>5, <1>6, <1>7, <1>8, <1>9, <1>10, <1>11 DEF Next

(***************************************************************************)
(* Without a fencer no request meets a hand-back.                          *)
(***************************************************************************)
THEOREM NoHandBack ==
  ASSUME ~HasFencer
  PROVE  Spec => []HandBackUndisturbed
<1>1. Init => NothingLeaves
  BY DEF Init, NothingLeaves, BackPC, HandBackPC, Worker
<1>2. TypeOK /\ NothingLeaves /\ [Next]_vars => NothingLeaves'
  BY NothingLeavesStep
<1>3. TypeOK /\ NothingLeaves => HandBackUndisturbed
  <2> SUFFICES ASSUME TypeOK, NothingLeaves, NEW r \in Request, pc[r] \in ClaimPC
               PROVE  Leaving(home[r]) = {}
    BY DEF HandBackUndisturbed
  <2>1. home[r] \in Proc
    BY DEF TypeOK, WorkerTypeOK, ClaimPC
  <2> QED
    BY <2>1 DEF NothingLeaves, Leaving, BackPC
<1> QED
  BY <1>1, <1>2, <1>3, TypeCorrect, PTL DEF Spec

-----------------------------------------------------------------------------
(***************************************************************************)
(* Nobody extends somebody else's lease.  This needs no assumption about   *)
(* time: it is what the compare of CompareAndExpire is for.                *)
(***************************************************************************)
ExtendedByOwner(p) ==
  /\ owner[p] # None /\ owner'[p] = owner[p]
  /\ ttl'[p] > ttl[p]
  => \E w \in Worker :
       /\ Home(w) = owner[p]
       /\ \/ pc'[w] # pc[w]
          \/ w \in Proc /\ renewal'[w] # renewal[w]

\* No other step makes a key live longer.
LEMMA NotExtended ==
  ASSUME TypeOK, NEW q \in Player,
         \/ UNCHANGED ttl
         \/ \E reply \in Reply : Get(reply)
         \/ \E i \in Proc, p \in Player, reply \in Reply :
              SetNX(i, p, reply) \/ CompareAndDelete(i, p, reply)
         \/ RouteTick
  PROVE  ExtendedByOwner(q)
<1>1. SUFFICES ASSUME owner[q] # None, owner'[q] = owner[q]
               PROVE  ~(ttl'[q] > ttl[q])
  BY DEF ExtendedByOwner
<1>2. ttl[q] \in Nat
  BY ConstantTypes DEF TypeOK, RouteTypeOK
<1>3. CASE UNCHANGED ttl
  BY <1>2, <1>3
<1>4. ASSUME NEW reply \in Reply, Get(reply) PROVE ~(ttl'[q] > ttl[q])
  BY <1>2, <1>4 DEF Get, tableVars
<1>5. ASSUME NEW i \in Proc, NEW p \in Player, NEW reply \in Reply,
             SetNX(i, p, reply) \/ CompareAndDelete(i, p, reply)
      PROVE  ~(ttl'[q] > ttl[q])
  <2>1. CASE SetNX(i, p, reply)
    BY <1>1, <1>2, <2>1 DEF TypeOK, RouteTypeOK, SetNX, tableVars
  <2>2. CASE CompareAndDelete(i, p, reply)
    BY <1>1, <1>2, <2>2, ConstantTypes
    DEF TypeOK, RouteTypeOK, CompareAndDelete, tableVars
  <2> QED
    BY <1>5, <2>1, <2>2
<1>6. CASE RouteTick
  BY <1>2, <1>6 DEF RouteTick
<1> QED
  BY <1>3, <1>4, <1>5, <1>6

\* CompareAndExpire extends only the key that names the caller.
LEMMA ExtendsOwn ==
  ASSUME TypeOK, NEW i \in Proc, NEW p \in Player, NEW reply \in Reply,
         CompareAndExpire(i, p, reply), NEW q \in Player, ttl'[q] > ttl[q]
  PROVE  q = p /\ owner[q] = i
<1>1. ttl[q] \in Nat
  BY ConstantTypes DEF TypeOK, RouteTypeOK
<1> QED
  BY <1>1 DEF TypeOK, RouteTypeOK, CompareAndExpire

THEOREM LeasesRespected == Spec => ForeignLeaseUntouched
<1>1. ASSUME TypeOK, [Next]_vars, NEW q \in Player PROVE ExtendedByOwner(q)
  <2> USE <1>1 DEF TypeOK
  <2>1. CASE UNCHANGED vars
    BY <2>1, NotExtended DEF vars, routeVars
  <2>2. ASSUME NEW w \in Worker, ClaimStep(w) PROVE ExtendedByOwner(q)
    <3>1. CASE ClaimExpire(w)
      <4>1. Home(w) \in Proc /\ arg[w] \in Player /\ pc[w] = "expire"
        BY <3>1, AtWork DEF ClaimExpire
      <4>2. PICK reply \in Reply :
              /\ CompareAndExpire(Home(w), arg[w], reply)
              /\ IF reply # "ok" THEN Return(w, "pass") ELSE ClaimRouted(w, TRUE)
        BY <3>1 DEF ClaimExpire
      <4>3. pc'[w] # pc[w]
        BY <4>1, <4>2 DEF Return, ClaimRouted, Goto, WorkerTypeOK
      <4> QED
        BY <4>1, <4>2, <4>3, ExtendsOwn DEF ExtendedByOwner
    <3>2. CASE ClaimSetNX(w)
      <4>1. Home(w) \in Proc /\ arg[w] \in Player
        BY <3>2, AtWork DEF ClaimSetNX
      <4> QED
        BY <3>2, <4>1, NotExtended DEF ClaimSetNX
    <3>3. CASE ClaimGet(w)
      BY <3>3, NotExtended DEF ClaimGet
    <3>4. CASE ClaimAdmit(w) \/ ClaimDrop(w) \/ ClaimNotDropped(w) \/ ClaimConfirm(w)
      BY <3>4, NotExtended
      DEF ClaimAdmit, ClaimDrop, ClaimNotDropped, ClaimConfirm, routeVars
    <3> QED
      BY <2>2, <3>1, <3>2, <3>3, <3>4 DEF ClaimStep
  <2>3. ASSUME NEW r \in Request, RequestStep(r) PROVE ExtendedByOwner(q)
    <3>1. CASE OwnerAnswer(r)
      BY <3>1, NotExtended DEF OwnerAnswer
    <3>2. ASSUME NEW i \in Proc, NEW p \in Player, Login(r, i, p) \/ AskOwner(r, i, p)
          PROVE  ExtendedByOwner(q)
      BY <3>2, NotExtended DEF Login, AskOwner, routeVars
    <3> QED
      BY <2>3, <3>1, <3>2 DEF RequestStep
  <2>4. ASSUME NEW i \in Proc, LoopStep(i) PROVE ExtendedByOwner(q)
    <3>1. ASSUME NEW p \in Player, RefreshOne(i, p) PROVE ExtendedByOwner(q)
      <4>1. PICK reply \in Reply :
              /\ CompareAndExpire(i, p, reply)
              /\ renewal' = [renewal EXCEPT ![i][p] =
                               IF reply # "ok" THEN "error"
                               ELSE IF owner[p] = i THEN "held" ELSE "gone"]
        BY <3>1 DEF RefreshOne
      <4>2. renewal'[i][p] # renewal[i][p]
        BY <3>1, <4>1 DEF RefreshOne, PassTypeOK
      <4>3. i \in Worker /\ Home(i) = i
        BY DEF Worker, Home
      <4> QED
        BY <4>1, <4>2, <4>3, ExtendsOwn DEF ExtendedByOwner
    <3>2. CASE ReleaseKey(i)
      <4>1. i \in Worker /\ arg[i] \in Player
        BY <3>2, AtWork DEF ReleaseKey, Worker
      <4> QED
        BY <3>2, <4>1, NotExtended DEF ReleaseKey
    <3>3. CASE \/ BeginPass(i) \/ Fence(i) \/ SelectIdle(i) \/ HandBackKeep(i)
               \/ ReleaseLocal(i) \/ EndPass(i)
      BY <3>3, NotExtended
      DEF BeginPass, Fence, SelectIdle, HandBackKeep, ReleaseLocal, EndPass, routeVars
    <3>4. ASSUME NEW p \in Player,
                 \/ RenewalHeld(i, p) \/ RenewalError(i, p)
                 \/ RenewalGone(i, p) \/ HandBackNext(i, p)
          PROVE  ExtendedByOwner(q)
      BY <3>4, NotExtended
      DEF RenewalHeld, RenewalError, RenewalGone, HandBackNext, routeVars
    <3> QED
      BY <2>4, <3>1, <3>2, <3>3, <3>4 DEF LoopStep
  <2>5. ASSUME NEW i \in Proc, NEW p \in Player, EntityStep(i, p)
        PROVE  ExtendedByOwner(q)
    BY <2>5, NotExtended
    DEF EntityStep, EvictOk, EvictFail, EvictReport, FenceDrop, AdmitWork,
        RunWork, CommitWork, Disconnect, routeVars
  <2>6. ASSUME NEW i \in Proc, StartProc(i) \/ Crash(i)
        PROVE  ExtendedByOwner(q)
    BY <2>6, NotExtended DEF StartProc, Crash, routeVars
  <2>7. CASE Tick
    BY <2>7, NotExtended DEF Tick
  <2> QED
    BY <2>1, <2>2, <2>3, <2>4, <2>5, <2>6, <2>7 DEF Next
<1>2. TypeOK /\ [Next]_vars =>
        [\A p \in Player :
           /\ owner[p] # None /\ owner'[p] = owner[p]
           /\ ttl'[p] > ttl[p]
           => \E w \in Worker :
                /\ Home(w) = owner[p]
                /\ \/ pc'[w] # pc[w]
                   \/ w \in Proc /\ renewal'[w] # renewal[w]]_vars
  BY <1>1 DEF ExtendedByOwner
<1> QED  BY <1>2, TypeCorrect, PTL DEF Spec, ForeignLeaseUntouched

-----------------------------------------------------------------------------
(***************************************************************************)
(* The gates implement PlayerOwnership: each step of the table closes some *)
(* gates, opens one that was closed everywhere, or changes none.           *)
(***************************************************************************)
Admitted == [p \in Player |-> {i \in Proc : Admit(i, p)}]

NoneOpens == \A i \in Proc, p \in Player : Admit(i, p)' => Admit(i, p)

OneMayOpen(i, p) ==
  /\ owner[p] = i
  /\ Admit(i, p)'
  /\ \A j \in Proc, q \in Player : j # i \/ q # p => (Admit(j, q)' <=> Admit(j, q))

LEMMA ClosingStep ==
  ASSUME AdmissionSound, NoneOpens
  PROVE  [Ownership!Next]_Admitted
<1> DEFINE S == {p \in Player : Admitted'[p] = {}}
<1>1. ASSUME NEW p \in Player
      PROVE  Admitted'[p] = IF p \in S THEN {} ELSE Admitted[p]
  <2>1. CASE p \in S
    BY <2>1
  <2>2. CASE p \notin S
    <3>1. PICK i \in Proc : Admit(i, p)'
      BY <2>2 DEF Admitted
    <3>2. \A j \in Proc : Admit(j, p) => j = i
      BY <3>1 DEF NoneOpens, AdmissionSound
    <3>3. Admitted'[p] = {i} /\ Admitted[p] = {i}
      BY <3>1, <3>2 DEF NoneOpens, Admitted
    <3> QED
      BY <2>2, <3>3
  <2> QED
    BY <2>1, <2>2
<1>2. Admitted' = [p \in Player |-> IF p \in S THEN {} ELSE Admitted[p]]
  <2>1. Admitted' = [p \in Player |-> Admitted'[p]]
    BY DEF Admitted
  <2> QED
    BY <1>1, <2>1
<1>3. Ownership!Close(S)
  BY <1>2 DEF Ownership!Close, Admitted
<1>4. S \in SUBSET Player
  OBVIOUS
<1> HIDE DEF S
<1> QED
  BY <1>3, <1>4 DEF Ownership!Next

LEMMA OpeningStep ==
  ASSUME AdmissionSound, NEW i \in Proc, NEW p \in Player, OneMayOpen(i, p)
  PROVE  [Ownership!Next]_Admitted
<1>1. \A q \in Player : q # p => Admitted'[q] = Admitted[q]
  BY DEF Admitted, OneMayOpen
<1>2. Admitted'[p] = {i} /\ Admitted[p] \subseteq {i}
  BY DEF Admitted, OneMayOpen, AdmissionSound
<1>3. /\ Admitted' = [q \in Player |-> Admitted'[q]]
      /\ Admitted = [q \in Player |-> Admitted[q]]
  BY DEF Admitted
<1>4. CASE Admitted[p] = {i}
  <2>1. \A q \in Player : Admitted'[q] = Admitted[q]
    BY <1>1, <1>2, <1>4
  <2>2. Admitted' = Admitted
    BY <1>3, <2>1
  <2> QED
    BY <2>2
<1>5. CASE Admitted[p] = {}
  <2>1. Admitted' = [Admitted EXCEPT ![p] = {i}]
    BY <1>1, <1>2, <1>3
  <2>2. Ownership!Open(i, p)
    BY <1>5, <2>1 DEF Ownership!Open, Admitted
  <2> QED
    BY <2>2 DEF Ownership!Next
<1> QED
  BY <1>2, <1>4, <1>5

LEMMA LocalUnchanged == UNCHANGED <<known, left, interrupted, handingBack>> => NoneOpens
BY DEF NoneOpens, Admit

LEMMA ConfirmMayOpen ==
  ASSUME LocalTypeOK, NEW i \in Proc, NEW p \in Player, NEW used,
         ConfirmLocked(i, p, used), owner[p] = i
  PROVE  OneMayOpen(i, p)
<1>1. Admit(i, p)'
  BY ConstantTypes DEF LocalTypeOK, ConfirmLocked, Admit
<1>2. ASSUME NEW j \in Proc, NEW q \in Player, j # i \/ q # p
      PROVE  Admit(j, q)' <=> Admit(j, q)
  BY <1>2 DEF LocalTypeOK, ConfirmLocked, Admit
<1> QED
  BY <1>1, <1>2 DEF OneMayOpen

\* A hand-back called off: the window that opens again never left its owner.
LEMMA KeepMayOpen ==
  ASSUME LocalTypeOK, GateInv(0), NEW i \in Proc, NEW p \in Player,
         handingBack' = [handingBack EXCEPT ![i] = @ \ {p}],
         UNCHANGED <<known, left, interrupted>>
  PROVE  NoneOpens \/ OneMayOpen(i, p)
<1>1. ASSUME NEW j \in Proc, NEW q \in Player, j # i \/ q # p
      PROVE  Admit(j, q)' <=> Admit(j, q)
  BY <1>1 DEF LocalTypeOK, Admit
<1>2. CASE Admit(i, p)'
  <2>1. left[i][p] > Guard
    BY <1>2 DEF Admit
  <2>2. owner[p] = i
    BY <2>1 DEF GateInv, GateOf
  <2> QED
    BY <1>1, <1>2, <2>2 DEF OneMayOpen
<1>3. CASE ~Admit(i, p)'
  BY <1>1, <1>3 DEF NoneOpens
<1> QED
  BY <1>2, <1>3

LEMMA OwnershipStep ==
  ASSUME TypeOK, GateInv(0), Timely(0), [Next]_vars
  PROVE  [Ownership!Next]_Admitted
<1> USE DEF TypeOK
<1>1. AdmissionSound
  BY GateAdmits
<1>2. CASE UNCHANGED <<known, left, interrupted, handingBack>>
  BY <1>1, <1>2, LocalUnchanged, ClosingStep
<1>3. ASSUME NEW w \in Worker, ClaimStep(w) PROVE [Ownership!Next]_Admitted
  <2>1. CASE ClaimConfirm(w)
    <3>1. /\ Home(w) \in Proc /\ arg[w] \in Player
          /\ ConfirmLocked(Home(w), arg[w], TRUE)
      BY <2>1, AtWork DEF ClaimConfirm
    <3>2. owner[arg[w]] = Home(w)
      <4>1. spent[w] \in Nat /\ (pc[w] = "dropped" => spent[w] + 0 <= Guard)
        BY DEF Timely, WorkerTypeOK
      <4> QED
        BY <2>1, <4>1, ConstantTypes DEF ClaimConfirm, GateInv, ClaimOf
    <3> QED
      BY <1>1, <3>1, <3>2, ConfirmMayOpen, OpeningStep
  <2>2. CASE \/ ClaimAdmit(w) \/ ClaimSetNX(w) \/ ClaimGet(w) \/ ClaimExpire(w)
             \/ ClaimDrop(w) \/ ClaimNotDropped(w)
    BY <1>2, <2>2
    DEF ClaimAdmit, ClaimSetNX, ClaimGet, ClaimExpire, ClaimDrop,
        ClaimNotDropped, localVars
  <2> QED
    BY <1>3, <2>1, <2>2 DEF ClaimStep
<1>4. ASSUME NEW r \in Request, RequestStep(r) PROVE [Ownership!Next]_Admitted
  BY <1>2, <1>4 DEF RequestStep, OwnerAnswer, Login, AskOwner, localVars
<1>5. ASSUME NEW i \in Proc, LoopStep(i) PROVE [Ownership!Next]_Admitted
  <2>1. ASSUME NEW p \in Player, RenewalHeld(i, p) PROVE [Ownership!Next]_Admitted
    <3>1. ConfirmLocked(i, p, FALSE) /\ owner[p] = i
      <4>1. age[i][p] \in Nat /\ (renewal[i][p] = "held" => age[i][p] + 0 <= Guard)
        BY DEF Timely, PassTypeOK
      <4>2. renewal[i][p] = "held" /\ ConfirmLocked(i, p, FALSE)
        BY <2>1 DEF RenewalHeld
      <4>3. RenewalOf(i, p)
        BY DEF GateInv
      <4>4. age[i][p] <= Guard
        BY <4>1, <4>2, ConstantTypes
      <4> QED
        BY <4>2, <4>3, <4>4 DEF RenewalOf
    <3> QED
      BY <1>1, <3>1, ConfirmMayOpen, OpeningStep
  <2>2. ASSUME NEW p \in Player, RenewalGone(i, p) PROVE NoneOpens
    BY <2>2 DEF RenewalGone, LocalTypeOK, NoneOpens, Admit
  <2>3. CASE Fence(i)
    <3>1. CASE arg[i] \in known[i]
      <4>1. /\ known' = [known EXCEPT ![i] = @ \ {arg[i]}]
            /\ left' = [left EXCEPT ![i][arg[i]] = 0]
            /\ interrupted' = [interrupted EXCEPT ![i] = @ \ {arg[i]}]
            /\ handingBack' = [handingBack EXCEPT ![i] = @ \ {arg[i]}]
        BY <2>3, <3>1 DEF Fence, Forget
      <4>2. NoneOpens
        BY <4>1 DEF LocalTypeOK, NoneOpens, Admit
      <4> QED
        BY <1>1, <4>2, ClosingStep
    <3>2. CASE arg[i] \notin known[i]
      BY <1>2, <2>3, <3>2 DEF Fence, localVars
    <3> QED
      BY <3>1, <3>2
  <2>4. CASE ReleaseLocal(i)
    <3>1. i \in Worker /\ arg[i] \in Player
      BY <2>4, AtWork DEF ReleaseLocal, Worker
    <3>2. NoneOpens
      BY <2>4, <3>1 DEF ReleaseLocal, Forget, LocalTypeOK, NoneOpens, Admit
    <3> QED
      BY <1>1, <3>2, ClosingStep
  <2>5. CASE HandBackKeep(i)
    <3>1. i \in Worker /\ arg[i] \in Player
      BY <2>5, AtWork DEF HandBackKeep, Worker
    <3> QED
      BY <1>1, <2>5, <3>1, KeepMayOpen, ClosingStep, OpeningStep DEF HandBackKeep
  <2>6. ASSUME NEW p \in Player, HandBackNext(i, p) PROVE [Ownership!Next]_Admitted
    <3>1. CASE p \in session[i]
      BY <1>1, <2>6, <3>1, KeepMayOpen, ClosingStep, OpeningStep DEF HandBackNext
    <3>2. CASE p \notin session[i]
      BY <1>2, <2>6, <3>2 DEF HandBackNext
    <3> QED
      BY <3>1, <3>2
  <2>7. CASE SelectIdle(i)
    <3>1. NoneOpens
      BY <2>7 DEF SelectIdle, LocalTypeOK, NoneOpens, Admit
    <3> QED
      BY <1>1, <3>1, ClosingStep
  <2>8. CASE BeginPass(i) \/ EndPass(i) \/ ReleaseKey(i)
    BY <1>2, <2>8 DEF BeginPass, EndPass, ReleaseKey, localVars
  <2>9. ASSUME NEW p \in Player, RefreshOne(i, p) \/ RenewalError(i, p)
        PROVE  [Ownership!Next]_Admitted
    BY <1>2, <2>9 DEF RefreshOne, RenewalError, localVars
  <2> QED
    BY <1>1, <1>5, <2>1, <2>2, <2>3, <2>4, <2>5, <2>6, <2>7, <2>8, <2>9, ClosingStep
    DEF LoopStep
<1>6. ASSUME NEW i \in Proc, NEW p \in Player, EntityStep(i, p)
      PROVE  [Ownership!Next]_Admitted
  BY <1>2, <1>6
  DEF EntityStep, EvictOk, EvictFail, EvictReport, FenceDrop, AdmitWork,
      RunWork, CommitWork, Disconnect, localVars
<1>7. ASSUME NEW i \in Proc, StartProc(i) PROVE [Ownership!Next]_Admitted
  BY <1>2, <1>7 DEF StartProc, localVars
<1>8. ASSUME NEW i \in Proc, Crash(i) PROVE [Ownership!Next]_Admitted
  <2>1. NoneOpens
    BY <1>8, ConstantTypes DEF Crash, LocalTypeOK, NoneOpens, Admit
  <2> QED
    BY <1>1, <2>1, ClosingStep
<1>9. CASE Tick
  <2>1. \A i \in Proc, p \in Player :
          left'[i][p] = IF left[i][p] = 0 THEN 0 ELSE left[i][p] - 1
    BY <1>9 DEF Tick
  <2>2. \A i \in Proc, p \in Player : left'[i][p] > Guard => left[i][p] > Guard
    BY <2>1, ConstantTypes DEF LocalTypeOK
  <2>3. NoneOpens
    BY <1>9, <2>2 DEF Tick, NoneOpens, Admit
  <2> QED
    BY <1>1, <2>3, ClosingStep
<1>10. CASE UNCHANGED vars
  BY <1>2, <1>10 DEF vars, localVars
<1> QED
  BY <1>3, <1>4, <1>5, <1>6, <1>7, <1>8, <1>9, <1>10 DEF Next

(***************************************************************************)
(* The refinement of PlayerOwnership: however the processes interleave, a  *)
(* player's gates open one process at a time.                              *)
(***************************************************************************)
THEOREM OwnershipImplemented == Spec /\ []Unraced(0) => OwnershipSpec
<1>1. Init => Ownership!Init
  BY ConstantTypes DEF Init, Ownership!Init, Admit
<1>2. TypeOK /\ GateInv(0) /\ Unraced(0) /\ [Next]_vars => [Ownership!Next]_Admitted
  BY OwnershipStep DEF Unraced
<1> QED
  BY <1>1, <1>2, TypeCorrect, GateInvariant, PTL
  DEF Spec, OwnershipSpec, Ownership!Spec, Admitted


-----------------------------------------------------------------------------
(***************************************************************************)
(* What evictions leave behind: NoCopyLeftBehind and GapDropsCopy, on top  *)
(* of the invariants of the gate (GateInv) and of admitted work (WorkInv). *)
(*                                                                         *)
(* Neither is inductive.  An eviction that has dropped the copy and not    *)
(* reported yet can be joined, by a hand-back or by a claim, although the  *)
(* copy was loaded again since.  DroppedOf says when that can be: only by  *)
(* work of the process that owns the player, which used the player too     *)
(* recently for a hand-back to have chosen them.                           *)
(***************************************************************************)

GonePC == {"forget", "release"}

\* A copy that is there although its eviction has ended.
DroppedOf(i, p) ==
  eviction[i][p] = "dropped" /\ copy[i][p] # "none" =>
    /\ copy[i][p] = "fresh" /\ owner[p] = i
    /\ p \notin Leaving(i)
    /\ p \notin known[i] \/ idle[i][p] <= TxnTicks

\* A hand-back that was told of the drop.
GoneOf(i) == pc[i] \in GonePC => copy[i][arg[i]] = "none"

\* A claim that was told of the drop, and one that needs none.
ResumeOf(w) ==
  /\ pc[w] = "dropped" => copy[Home(w)][arg[w]] # "stale"
  /\ pc[w] = "confirm" => continuous[w]

CopyInv ==
  /\ \A i \in Proc, p \in Player : DroppedOf(i, p)
  /\ \A i \in Proc : GoneOf(i)
  /\ \A w \in Worker : ResumeOf(w)

-----------------------------------------------------------------------------
\* What a step may do without harm: to the evictions, to the lease, to the
\* record of use, to the workers.
NoDrop == \A i \in Proc, p \in Player : eviction'[i][p] = "dropped" => eviction[i][p] = "dropped"

OwnersStay == \A p \in Player : owner[p] # None => owner'[p] = owner[p]

UseKept ==
  \A i \in Proc, p \in Player :
    p \in known'[i] => idle'[i][p] = 0 \/ (p \in known[i] /\ idle'[i][p] = idle[i][p])

LeaversKept == \A i \in Proc : Leaving(i)' \subseteq Leaving(i)

WorkersKept ==
  /\ \A i \in Proc : pc'[i] \in GonePC => pc[i] \in GonePC /\ arg'[i] = arg[i]
  /\ \A w \in Worker :
       /\ pc'[w] = "dropped" => pc[w] = "dropped" /\ arg'[w] = arg[w] /\ Home(w)' = Home(w)
       /\ pc'[w] = "confirm" => continuous'[w] \/ (pc[w] = "confirm" /\ continuous'[w] = continuous[w])

LEMMA DropKept ==
  ASSUME NEW i \in Proc, NEW p \in Player, DroppedOf(i, p),
         copy'[i][p] = copy[i][p], eviction'[i][p] = "dropped" => eviction[i][p] = "dropped",
         owner[p] # None => owner'[p] = owner[p], UseKept, LeaversKept
  PROVE  DroppedOf(i, p)'
<1> SUFFICES ASSUME eviction'[i][p] = "dropped", copy'[i][p] # "none"
             PROVE  /\ copy'[i][p] = "fresh" /\ owner'[p] = i
                    /\ p \notin Leaving(i)'
                    /\ p \notin known'[i] \/ idle'[i][p] <= TxnTicks
  BY DEF DroppedOf
<1>1. /\ copy[i][p] = "fresh" /\ owner[p] = i /\ p \notin Leaving(i)
      /\ p \notin known[i] \/ idle[i][p] <= TxnTicks
  BY DEF DroppedOf
<1>2. owner'[p] = i /\ p \notin Leaving(i)'
  BY <1>1, RouteAssumption DEF LeaversKept
<1>3. p \notin known'[i] \/ idle'[i][p] <= TxnTicks
  BY <1>1, ConstantTypes DEF UseKept
<1> QED
  BY <1>1, <1>2, <1>3

LEMMA QuietCopies ==
  ASSUME CopyInv, UNCHANGED copy, NoDrop, OwnersStay, UseKept, LeaversKept, WorkersKept
  PROVE  CopyInv'
<1>1. \A i \in Proc, p \in Player : DroppedOf(i, p)'
  BY DropKept DEF CopyInv, NoDrop, OwnersStay
<1>2. \A i \in Proc : GoneOf(i)'
  BY DEF CopyInv, WorkersKept, GoneOf
<1>3. \A w \in Worker : ResumeOf(w)'
  BY DEF CopyInv, WorkersKept, ResumeOf
<1> QED
  BY <1>1, <1>2, <1>3 DEF CopyInv

\* What unchanged variables, and the critical sections, give.
LEMMA Untouched ==
  /\ UNCHANGED entityVars => UNCHANGED copy /\ NoDrop
  /\ UNCHANGED tableVars => OwnersStay
  /\ UNCHANGED <<known, idle>> => UseKept
  /\ UNCHANGED workerVars => WorkersKept
  /\ UNCHANGED <<pc, arg, chosen>> => LeaversKept
BY DEF entityVars, NoDrop, tableVars, OwnersStay, UseKept, workerVars, WorkersKept, Home,
       LeaversKept, Leaving

LEMMA GotoCopies ==
  ASSUME WorkerTypeOK, NEW w \in Worker, NEW to \in PC, Goto(w, to),
         to \notin BackPC \cup {"dropped"}, to = "confirm" => continuous[w]
  PROVE  WorkersKept /\ (UNCHANGED chosen => LeaversKept)
<1>1. /\ \A v \in Worker : v # w => pc'[v] = pc[v]
      /\ pc'[w] = to /\ UNCHANGED <<home, arg, continuous>>
  BY DEF Goto, WorkerTypeOK
<1>2. \A i \in Proc : i \in Worker
  BY DEF Worker
<1>3. WorkersKept
  BY <1>1, <1>2 DEF WorkersKept, GonePC, BackPC, HandBackPC, Home
<1>4. UNCHANGED chosen => LeaversKept
  BY <1>1, <1>2 DEF LeaversKept, Leaving, BackPC
<1> QED
  BY <1>3, <1>4

LEMMA ReturnCopies ==
  ASSUME WorkerTypeOK, NEW w \in Worker, NEW to \in {"rest", "pass", "handback"}, Return(w, to)
  PROVE  WorkersKept /\ (UNCHANGED chosen => LeaversKept)
<1>1. /\ \A v \in Worker : v # w => pc'[v] = pc[v] /\ arg'[v] = arg[v]
                              /\ Home(v)' = Home(v) /\ continuous'[v] = continuous[v]
      /\ pc'[w] \in {"rest", "pass", "handback"}
  BY OwnersAssumption DEF Return, WorkerTypeOK, Home, Worker
<1>2. \A i \in Proc : i \in Worker
  BY DEF Worker
<1>3. WorkersKept
  BY <1>1, <1>2 DEF WorkersKept, GonePC
<1>4. UNCHANGED chosen => LeaversKept
  BY <1>1, <1>2 DEF LeaversKept, Leaving, HandBackPC
<1> QED
  BY <1>3, <1>4

LEMMA RoutedCopies ==
  ASSUME WorkerTypeOK, NEW w \in Worker, NEW mine, ClaimRouted(w, mine)
  PROVE  WorkersKept /\ (UNCHANGED chosen => LeaversKept)
<1>1. \/ \E to \in {"drop", "fence"} : Goto(w, to)
      \/ Goto(w, "confirm") /\ continuous[w]
      \/ Return(w, "rest")
  BY DEF ClaimRouted
<1>2. /\ {"drop", "fence", "confirm"} \subseteq PC
      /\ {"drop", "fence", "confirm"} \cap (BackPC \cup {"dropped"}) = {}
  BY DEF PC, ClaimPC, HandBackPC, BackPC
<1> QED
  BY <1>1, <1>2, GotoCopies, ReturnCopies

LEMMA JoinCopies ==
  ASSUME EntityTypeOK, NEW i \in Proc, NEW p \in Player, JoinOrEvict(i, p)
  PROVE  NoDrop
BY DEF EntityTypeOK, JoinOrEvict, NoDrop

LEMMA TouchUse ==
  ASSUME LocalTypeOK, NEW i \in Proc, NEW p \in Player, Touch(i, p), UNCHANGED known
  PROVE  UseKept
BY DEF LocalTypeOK, Touch, UseKept

LEMMA ForgetUse ==
  ASSUME LocalTypeOK, NEW i \in Proc, NEW p \in Player, Forget(i, p)
  PROVE  UseKept
BY DEF LocalTypeOK, Forget, UseKept

LEMMA ConfirmUse ==
  ASSUME LocalTypeOK, NEW i \in Proc, NEW p \in Player, NEW used, ConfirmLocked(i, p, used)
  PROVE  UseKept
<1>1. \A j \in Proc, q \in Player : j # i \/ q # p =>
        (q \in known'[j] <=> q \in known[j]) /\ idle'[j][q] = idle[j][q]
  BY ConfirmElsewhere
<1>2. idle'[i][p] = 0 \/ (p \in known[i] /\ idle'[i][p] = idle[i][p])
  BY ConfirmHere
<1> QED
  BY <1>1, <1>2 DEF UseKept

LEMMA LeasesStay == ASSUME LeasesKept PROVE OwnersStay
BY DEF LeasesKept, LeaseKept, OwnersStay

-----------------------------------------------------------------------------
\* The steps.
LEMMA ClaimStepCopies ==
  ASSUME TypeOK, CopyInv, NEW w \in Worker, ClaimStep(w)
  PROVE  CopyInv'
<1> USE DEF TypeOK
<1>1. Home(w) \in Proc /\ arg[w] \in Player
  BY AtWork
  DEF ClaimStep, ClaimAdmit, ClaimSetNX, ClaimGet, ClaimExpire, ClaimDrop,
      ClaimNotDropped, ClaimConfirm
<1>2. UNCHANGED <<copy, chosen>>
  BY DEF ClaimStep, ClaimAdmit, ClaimSetNX, ClaimGet, ClaimExpire, ClaimDrop,
         ClaimNotDropped, ClaimConfirm, passVars, entityVars
<1>3. NoDrop
  <2>1. CASE ClaimDrop(w)
    BY <1>1, <2>1, JoinCopies DEF ClaimDrop
  <2>2. CASE ~ClaimDrop(w)
    BY <2>2, Untouched
    DEF ClaimStep, ClaimAdmit, ClaimSetNX, ClaimGet, ClaimExpire, ClaimNotDropped, ClaimConfirm
  <2> QED
    BY <2>1, <2>2
<1>4. OwnersStay
  <2>1. CASE ClaimSetNX(w) \/ ClaimGet(w) \/ ClaimExpire(w)
    BY <1>1, <2>1, CommandKeeps, LeasesStay DEF ClaimSetNX, ClaimGet, ClaimExpire
  <2>2. CASE ~(ClaimSetNX(w) \/ ClaimGet(w) \/ ClaimExpire(w))
    BY <2>2, Untouched
    DEF ClaimStep, ClaimAdmit, ClaimDrop, ClaimNotDropped, ClaimConfirm, routeVars, tableVars
  <2> QED
    BY <2>1, <2>2
<1>5. UseKept
  <2>1. CASE ClaimAdmit(w)
    BY <1>1, <2>1, TouchUse DEF ClaimAdmit
  <2>2. CASE ClaimConfirm(w)
    BY <1>1, <2>2, ConfirmUse DEF ClaimConfirm
  <2>3. CASE ~ClaimAdmit(w) /\ ~ClaimConfirm(w)
    BY <2>3, Untouched
    DEF ClaimStep, ClaimSetNX, ClaimGet, ClaimExpire, ClaimDrop, ClaimNotDropped, localVars
  <2> QED
    BY <2>1, <2>2, <2>3
<1>6. WorkersKept /\ LeaversKept
  <2>1. CASE ClaimAdmit(w)
    <3>1. /\ \A v \in Worker : v # w => pc'[v] = pc[v] /\ continuous'[v] = continuous[v]
          /\ pc'[w] = "setnx" /\ UNCHANGED <<home, arg>>
      BY <2>1 DEF ClaimAdmit, WorkerTypeOK
    <3>2. \A i \in Proc : i \in Worker
      BY DEF Worker
    <3>3. WorkersKept
      BY <3>1, <3>2 DEF WorkersKept, GonePC, Home
    <3>4. LeaversKept
      BY <1>2, <3>1, <3>2 DEF LeaversKept, Leaving, HandBackPC
    <3> QED
      BY <3>3, <3>4
  <2>2. CASE \E mine : ClaimRouted(w, mine)
    BY <1>2, <2>2, RoutedCopies
  <2>3. CASE Return(w, "pass")
    BY <1>2, <2>3, ReturnCopies
  <2>4. CASE \E to \in {"get", "expire", "wait"} : Goto(w, to)
    <3>1. {"get", "expire", "wait"} \subseteq PC
          /\ {"get", "expire", "wait"} \cap (BackPC \cup {"dropped", "confirm"}) = {}
      BY DEF PC, ClaimPC, HandBackPC, BackPC
    <3> QED
      BY <1>2, <2>4, <3>1, GotoCopies
  <2> QED
    BY <2>1, <2>2, <2>3, <2>4
    DEF ClaimStep, ClaimSetNX, ClaimGet, ClaimExpire, ClaimDrop, ClaimNotDropped, ClaimConfirm
<1> QED
  BY <1>2, <1>3, <1>4, <1>5, <1>6, QuietCopies

LEMMA RequestStepCopies ==
  ASSUME TypeOK, CopyInv, NEW r \in Request, RequestStep(r)
  PROVE  CopyInv'
<1> USE DEF TypeOK
<1>1. UNCHANGED <<localVars, entityVars, passVars>>
  BY DEF RequestStep, OwnerAnswer, Login, AskOwner
<1>2. OwnersStay
  BY Untouched DEF RequestStep, OwnerAnswer, Login, AskOwner, Get, routeVars, tableVars
<1>3. UNCHANGED copy /\ NoDrop /\ UseKept
  BY <1>1, Untouched DEF entityVars, localVars
<1>4. r \in Worker /\ r \notin Proc
  BY OwnersAssumption DEF Worker
<1>5. WorkersKept /\ LeaversKept
  <2>1. CASE OwnerAnswer(r)
    <3>1. Goto(r, "claim") \/ Return(r, "rest")
      BY <2>1 DEF OwnerAnswer
    <3>2. "claim" \in PC /\ "claim" \notin BackPC \cup {"dropped", "confirm"}
      BY DEF PC, ClaimPC, HandBackPC, BackPC
    <3> QED
      BY <1>1, <1>4, <3>1, <3>2, GotoCopies, ReturnCopies DEF passVars
  <2>2. CASE \E i \in Proc, p \in Player : Login(r, i, p) \/ AskOwner(r, i, p)
    <3>1. \E i \in Proc, p \in Player : Serve(r, i, "claim", p) \/ Serve(r, i, "owner", p)
      BY <2>2 DEF Login, AskOwner
    <3>2. /\ \A v \in Worker : v # r => pc'[v] = pc[v] /\ arg'[v] = arg[v]
                                    /\ Home(v)' = Home(v) /\ continuous'[v] = continuous[v]
          /\ pc'[r] \in {"claim", "owner"}
      BY <1>4, <3>1 DEF Serve, WorkerTypeOK, Home, Worker
    <3>3. \A i \in Proc : i \in Worker
      BY DEF Worker
    <3>4. WorkersKept
      BY <1>4, <3>2, <3>3 DEF WorkersKept, GonePC
    <3>5. LeaversKept
      BY <1>1, <1>4, <3>2, <3>3 DEF LeaversKept, Leaving, passVars
    <3> QED
      BY <3>4, <3>5
  <2> QED
    BY <2>1, <2>2 DEF RequestStep
<1> QED
  BY <1>2, <1>3, <1>5, QuietCopies

\* Only players idle for longer than a transaction lasts are chosen.
LEMMA SelectIdleCopies ==
  ASSUME TxnTicks < HandBackIdle, TypeOK, WorkInv, CopyInv, NEW i \in Proc, SelectIdle(i)
  PROVE  CopyInv'
<1> USE DEF TypeOK
<1> DEFINE Idle == {p \in known[i] \ handingBack[i] : idle[i][p] >= HandBackIdle}
<1>1. UNCHANGED <<routeVars, known, idle, entityVars>> /\ Goto(i, "handback")
  BY DEF SelectIdle
<1>2. i \in Worker /\ \A j \in Proc : j \in Worker
  BY DEF Worker
<1>3. /\ chosen[i] = {} /\ (chosen'[i] = {} \/ chosen'[i] = Idle)
      /\ \A j \in Proc : j # i => chosen'[j] = chosen[j]
  <2>1. chosen[i] = {}
    BY DEF SelectIdle, WorkInv, LeaveOf, HandBackPC
  <2>2. chosen' = [chosen EXCEPT ![i] = Idle] \/ UNCHANGED chosen
    BY DEF SelectIdle
  <2>3. chosen \in [Proc -> SUBSET Player]
    BY DEF PassTypeOK
  <2> HIDE DEF Idle
  <2> QED
    BY <2>1, <2>2, <2>3
<1>4. /\ pc[i] = "pass" /\ pc'[i] = "handback"
      /\ \A v \in Worker : v # i => pc'[v] = pc[v]
      /\ UNCHANGED <<home, arg, continuous>>
  BY <1>1, <1>2 DEF SelectIdle, Goto, WorkerTypeOK
<1>5. WorkersKept
  BY <1>2, <1>4 DEF WorkersKept, GonePC, Home
<1>6. \A j \in Proc : j # i => Leaving(j)' = Leaving(j)
  BY <1>2, <1>3, <1>4 DEF Leaving
<1>7. Leaving(i)' = chosen'[i]
  BY <1>4 DEF Leaving
<1>8. UNCHANGED copy /\ UNCHANGED eviction /\ UNCHANGED owner /\ UNCHANGED <<known, idle>>
  BY <1>1 DEF entityVars, routeVars
<1>9. ASSUME NEW j \in Proc, NEW p \in Player PROVE DroppedOf(j, p)'
  <2>1. CASE j # i
    BY <1>6, <1>8, <2>1 DEF CopyInv, DroppedOf
  <2>2. CASE j = i
    <3> SUFFICES ASSUME eviction[i][p] = "dropped", copy[i][p] # "none", p \in chosen'[i]
                 PROVE  FALSE
      BY <1>7, <1>8, <2>2 DEF CopyInv, DroppedOf
    <3>1. p \in known[i] /\ idle[i][p] >= HandBackIdle
      BY <1>3
    <3>2. idle[i][p] <= TxnTicks
      BY <3>1 DEF CopyInv, DroppedOf
    <3>3. idle[i][p] \in Nat
      BY DEF LocalTypeOK
    <3> QED
      BY <3>1, <3>2, <3>3, ConstantTypes
  <2> QED
    BY <2>1, <2>2
<1> HIDE DEF Idle
<1>10. \A j \in Proc : GoneOf(j)'
  BY <1>5, <1>8 DEF CopyInv, WorkersKept, GoneOf
<1>11. \A w \in Worker : ResumeOf(w)'
  BY <1>5, <1>8 DEF CopyInv, WorkersKept, ResumeOf
<1> QED
  BY <1>9, <1>10, <1>11 DEF CopyInv

\* The key of a player whose copy is there is not deleted.
LEMMA ReleaseKeyCopies ==
  ASSUME TypeOK, CopyInv, NEW i \in Proc, ReleaseKey(i)
  PROVE  CopyInv'
<1> USE DEF TypeOK
<1>1. i \in Worker /\ pc[i] = "release" /\ arg[i] \in Player
  BY AtWork DEF ReleaseKey, Worker
<1>2. UNCHANGED <<localVars, entityVars, passVars>> /\ Return(i, "handback")
  BY DEF ReleaseKey
<1>3. UNCHANGED copy /\ NoDrop /\ UseKept /\ WorkersKept /\ LeaversKept
  BY <1>1, <1>2, Untouched, ReturnCopies DEF entityVars, localVars, passVars
<1>4. \A p \in Player : (p = arg[i] /\ owner[p] = i) \/ owner'[p] = owner[p]
  BY <1>1 DEF ReleaseKey, CompareAndDelete, RouteTypeOK, tableVars
<1>5. arg[i] \in Leaving(i)
  BY <1>1 DEF Leaving, HandBackPC
<1>6. ASSUME NEW j \in Proc, NEW p \in Player PROVE DroppedOf(j, p)'
  <2>1. CASE owner'[p] = owner[p]
    BY <1>3, <2>1, DropKept DEF CopyInv, NoDrop
  <2>2. CASE p = arg[i] /\ owner[p] = i
    <3>1. ~(eviction[j][p] = "dropped" /\ copy[j][p] # "none")
      BY <1>5, <2>2 DEF CopyInv, DroppedOf
    <3> QED
      BY <1>3, <3>1 DEF NoDrop, DroppedOf
  <2> QED
    BY <1>4, <2>1, <2>2
<1>7. \A j \in Proc : GoneOf(j)'
  BY <1>3 DEF CopyInv, WorkersKept, GoneOf
<1>8. \A w \in Worker : ResumeOf(w)'
  BY <1>3 DEF CopyInv, WorkersKept, ResumeOf
<1> QED
  BY <1>6, <1>7, <1>8 DEF CopyInv

LEMMA HandBackNextCopies ==
  ASSUME TypeOK, CopyInv, NEW i \in Proc, NEW p \in Player, HandBackNext(i, p)
  PROVE  CopyInv'
<1> USE DEF TypeOK
<1>1. UNCHANGED copy /\ UNCHANGED <<known, idle>> /\ UNCHANGED routeVars
  BY DEF HandBackNext
<1>2. NoDrop
  BY JoinCopies, Untouched DEF HandBackNext, NoDrop
<1>3. i \in Worker /\ \A j \in Proc : j \in Worker
  BY DEF Worker
<1>4. /\ pc[i] = "handback" /\ p \in chosen[i] /\ chosen'[i] \subseteq chosen[i]
      /\ \A j \in Proc : j # i => chosen'[j] = chosen[j]
      /\ pc'[i] = "handback" \/ (pc'[i] = "hbwait" /\ arg'[i] = p)
      /\ \A v \in Worker : v # i => pc'[v] = pc[v] /\ arg'[v] = arg[v]
      /\ UNCHANGED <<home, continuous>>
  BY <1>3 DEF HandBackNext, Call, workerVars, WorkerTypeOK, PassTypeOK
<1>5. WorkersKept
  BY <1>3, <1>4 DEF WorkersKept, GonePC, Home
<1>6. LeaversKept
  BY <1>3, <1>4 DEF LeaversKept, Leaving
<1>7. OwnersStay /\ UseKept
  BY <1>1, Untouched DEF routeVars, tableVars
<1> QED
  BY <1>1, <1>2, <1>5, <1>6, <1>7, QuietCopies

LEMMA LoopStepCopies ==
  ASSUME TxnTicks < HandBackIdle, TypeOK, WorkInv, CopyInv, NEW i \in Proc, LoopStep(i)
  PROVE  CopyInv'
<1> USE DEF TypeOK
<1>1. i \in Worker /\ \A j \in Proc : j \in Worker
  BY DEF Worker
<1>2. /\ \A to \in {"pass", "rest", "claim"} : to \in PC /\ to \notin BackPC \cup {"dropped", "confirm"}
      /\ {"pass", "rest", "claim"} \cap HandBackPC = {}
  BY DEF PC, ClaimPC, HandBackPC, BackPC
<1>3. CASE BeginPass(i) \/ EndPass(i)
  <2>1. UNCHANGED <<routeVars, localVars, entityVars, chosen>>
        /\ \E to \in {"pass", "rest"} : Goto(i, to)
    BY <1>3 DEF BeginPass, EndPass, passVars
  <2> QED
    BY <1>1, <1>2, <2>1, GotoCopies, Untouched, QuietCopies DEF routeVars, tableVars, localVars
<1>4. CASE Fence(i)
  <2>1. UNCHANGED <<routeVars, copy, eviction, chosen>> /\ Return(i, "pass")
    BY <1>4 DEF Fence, passVars
  <2>2. UseKept
    BY <1>1, <1>4, AtWork, ForgetUse, Untouched DEF Fence, localVars
  <2> QED
    BY <1>1, <2>1, <2>2, ReturnCopies, Untouched, QuietCopies DEF routeVars, tableVars, NoDrop
<1>5. CASE HandBackKeep(i)
  <2>1. UNCHANGED <<routeVars, known, idle, entityVars, chosen>> /\ Return(i, "handback")
    BY <1>5 DEF HandBackKeep, passVars
  <2> QED
    BY <1>1, <2>1, ReturnCopies, Untouched, QuietCopies DEF routeVars, tableVars
<1>6. CASE ReleaseLocal(i)
  <2>1. UNCHANGED <<routeVars, entityVars, chosen>> /\ Goto(i, "release") /\ pc[i] = "forget"
    BY <1>6 DEF ReleaseLocal, passVars
  <2>2. UseKept
    BY <1>1, <1>6, AtWork, ForgetUse DEF ReleaseLocal
  <2>3. /\ \A v \in Worker : v # i => pc'[v] = pc[v]
        /\ pc'[i] = "release" /\ UNCHANGED <<home, arg, continuous>>
    BY <1>1, <2>1 DEF Goto, WorkerTypeOK
  <2>4. WorkersKept
    BY <1>1, <2>1, <2>3 DEF WorkersKept, GonePC, Home
  <2>5. LeaversKept
    BY <1>1, <2>1, <2>3 DEF LeaversKept, Leaving, HandBackPC
  <2> QED
    BY <2>1, <2>2, <2>4, <2>5, Untouched, QuietCopies DEF routeVars, tableVars
<1>7. ASSUME NEW p \in Player, RefreshOne(i, p) PROVE CopyInv'
  <2>1. UNCHANGED <<localVars, entityVars, workerVars, chosen>>
    BY <1>7 DEF RefreshOne
  <2>2. OwnersStay
    BY <1>7, CommandKeeps, LeasesStay DEF RefreshOne
  <2> QED
    BY <2>1, <2>2, Untouched, QuietCopies DEF localVars, workerVars
<1>8. ASSUME NEW p \in Player, RenewalHeld(i, p) \/ RenewalError(i, p) PROVE CopyInv'
  <2>1. UNCHANGED <<routeVars, entityVars, workerVars, chosen>>
    BY <1>8 DEF RenewalHeld, RenewalError
  <2>2. UseKept
    BY <1>8, ConfirmUse, Untouched DEF RenewalHeld, RenewalError, localVars
  <2> QED
    BY <2>1, <2>2, Untouched, QuietCopies DEF routeVars, tableVars, workerVars
<1>9. ASSUME NEW p \in Player, RenewalGone(i, p) PROVE CopyInv'
  <2>1. UNCHANGED <<routeVars, known, idle, entityVars, chosen>> /\ Call(i, "claim", p)
    BY <1>9 DEF RenewalGone
  <2>2. /\ \A v \in Worker : v # i => pc'[v] = pc[v] /\ arg'[v] = arg[v]
        /\ pc'[i] = "claim" /\ UNCHANGED <<home, continuous>>
    BY <1>1, <2>1 DEF Call, WorkerTypeOK
  <2>3. WorkersKept
    BY <1>1, <2>2 DEF WorkersKept, GonePC, Home
  <2>4. LeaversKept
    BY <1>1, <2>1, <2>2 DEF LeaversKept, Leaving, HandBackPC
  <2> QED
    BY <2>1, <2>3, <2>4, Untouched, QuietCopies DEF routeVars, tableVars
<1> QED
  BY <1>3, <1>4, <1>5, <1>6, <1>7, <1>8, <1>9, SelectIdleCopies, ReleaseKeyCopies,
     HandBackNextCopies
  DEF LoopStep

\* Work loads the document where the copy is gone.  Only the owner of the
\* player works on them, and not while the loop hands them back.
LEMMA RunWorkCopies ==
  ASSUME TypeOK, WorkInv, CopyInv, NEW i \in Proc, NEW p \in Player, RunWork(i, p)
  PROVE  CopyInv'
<1> USE DEF TypeOK
<1>1. UNCHANGED <<owner, known, idle, eviction, pc, arg, home, continuous, chosen>>
  BY DEF RunWork, routeVars, tableVars, localVars, workerVars, passVars
<1>2. /\ \A j \in Proc, q \in Player : j # i \/ q # p => copy'[j][q] = copy[j][q]
      /\ copy[i][p] # "none" => copy'[i][p] = copy[i][p]
      /\ copy[i][p] = "none" => copy'[i][p] = "fresh"
  BY DEF RunWork, EntityTypeOK
<1>3. /\ owner[p] = i /\ p \notin Leaving(i)
      /\ p \notin known[i] \/ idle[i][p] <= TxnTicks
  <2>1. txn[i][p] # "idle"
    BY DEF RunWork
  <2>2. fuel[i][p] \in Nat /\ idle[i][p] \in Nat
    BY ConstantTypes DEF WorkTypeOK, LocalTypeOK
  <2>3. p \notin known[i] \/ idle[i][p] + fuel[i][p] <= TxnTicks
    BY <2>1 DEF WorkInv, IdleOf
  <2>4. p \notin known[i] \/ idle[i][p] <= TxnTicks
    BY <2>2, <2>3, ConstantTypes
  <2> QED
    BY <2>1, <2>4 DEF WorkInv, WorkOf, LeaveOf
<1>4. \A j \in Proc : Leaving(j)' = Leaving(j)
  BY <1>1 DEF Leaving
<1>5. ASSUME NEW j \in Proc, NEW q \in Player PROVE DroppedOf(j, q)'
  <2>1. CASE copy'[j][q] = copy[j][q]
    BY <1>1, <1>4, <2>1 DEF CopyInv, DroppedOf
  <2>2. CASE copy'[j][q] # copy[j][q]
    <3>1. j = i /\ q = p /\ copy'[i][p] = "fresh"
      BY <1>2, <2>2
    <3> QED
      BY <1>1, <1>3, <1>4, <3>1 DEF DroppedOf
  <2> QED
    BY <2>1, <2>2
<1>6. ASSUME NEW j \in Proc PROVE GoneOf(j)'
  <2> SUFFICES ASSUME pc[j] \in GonePC PROVE copy'[j][arg[j]] = "none"
    BY <1>1 DEF GoneOf
  <2>1. j \in Worker /\ arg[j] \in Player /\ arg[j] \in Leaving(j)
    BY AtWork DEF Worker, GonePC, Leaving, HandBackPC
  <2>2. j # i \/ arg[j] # p
    BY <1>3, <2>1
  <2> QED
    BY <1>2, <2>1, <2>2 DEF CopyInv, GoneOf
<1>7. ASSUME NEW w \in Worker PROVE ResumeOf(w)'
  <2>1. pc[w] = "dropped" => Home(w) \in Proc /\ arg[w] \in Player
    BY AtWork
  <2>2. pc[w] = "dropped" => copy'[Home(w)][arg[w]] # "stale"
    BY <1>2, <2>1 DEF CopyInv, ResumeOf
  <2> QED
    BY <1>1, <2>2 DEF CopyInv, ResumeOf, Home
<1> QED
  BY <1>5, <1>6, <1>7 DEF CopyInv

\* Its commit makes the copies of the others stale: no copy an eviction or a
\* claim of an owner vouches for, since there is one owner.
LEMMA CommitWorkCopies ==
  ASSUME TypeOK, NEW D \in Nat, GateInv(D), Timely(D), WorkInv, CopyInv,
         NEW i \in Proc, NEW p \in Player, CommitWork(i, p)
  PROVE  CopyInv'
<1> USE DEF TypeOK
<1>1. UNCHANGED <<owner, known, idle, eviction, pc, arg, home, continuous, chosen>>
  BY DEF CommitWork, routeVars, tableVars, localVars, workerVars, passVars
<1>2. \A j \in Proc, q \in Player :
        \/ copy'[j][q] = copy[j][q]
        \/ j # i /\ q = p /\ copy[j][q] # "none" /\ copy'[j][q] = "stale"
  BY DEF CommitWork, EntityTypeOK
<1>3. owner[p] = i
  BY DEF CommitWork, WorkInv, WorkOf
<1>4. \A j \in Proc : Leaving(j)' = Leaving(j)
  BY <1>1 DEF Leaving
<1>5. ASSUME NEW j \in Proc, NEW q \in Player PROVE DroppedOf(j, q)'
  <2>1. CASE copy'[j][q] = copy[j][q]
    BY <1>1, <1>4, <2>1 DEF CopyInv, DroppedOf
  <2>2. CASE copy'[j][q] # copy[j][q]
    <3>1. j # i /\ q = p /\ copy[j][q] # "none"
      BY <1>2, <2>2
    <3>2. eviction[j][q] # "dropped"
      BY <1>3, <3>1 DEF CopyInv, DroppedOf
    <3> QED
      BY <1>1, <3>2 DEF DroppedOf
  <2> QED
    BY <2>1, <2>2
<1>6. ASSUME NEW j \in Proc PROVE GoneOf(j)'
  <2> SUFFICES ASSUME pc[j] \in GonePC PROVE copy'[j][arg[j]] = "none"
    BY <1>1 DEF GoneOf
  <2>1. arg[j] \in Player
    BY AtWork DEF Worker, GonePC
  <2> QED
    BY <1>2, <2>1 DEF CopyInv, GoneOf
<1>7. ASSUME NEW w \in Worker PROVE ResumeOf(w)'
  <2>1. ASSUME pc[w] = "dropped" PROVE copy'[Home(w)][arg[w]] # "stale"
    <3>1. Home(w) \in Proc /\ arg[w] \in Player
      BY <2>1, AtWork
    <3>2. Home(w) = i \/ arg[w] # p
      <4>1. spent[w] \in Nat /\ spent[w] + D <= Guard
        BY <2>1 DEF Timely, WorkerTypeOK
      <4> QED
        BY <1>3, <2>1, <4>1, ConstantTypes DEF GateInv, ClaimOf
    <3>3. copy'[Home(w)][arg[w]] = copy[Home(w)][arg[w]]
      BY <1>2, <3>1, <3>2
    <3> QED
      BY <2>1, <3>3 DEF CopyInv, ResumeOf
  <2> QED
    BY <1>1, <2>1 DEF CopyInv, ResumeOf, Home
<1> QED
  BY <1>5, <1>6, <1>7 DEF CopyInv

\* The end of an eviction tells those who joined it what DroppedOf says.
LEMMA EvictReportCopies ==
  ASSUME TypeOK, CopyInv, NEW i \in Proc, NEW p \in Player, EvictReport(i, p)
  PROVE  CopyInv'
<1> USE DEF TypeOK
<1>1. UNCHANGED <<owner, known, idle, copy, arg, home, continuous, chosen>>
  BY DEF EvictReport, routeVars, tableVars, localVars, passVars
<1>2. \A w \in Worker :
        \/ pc'[w] = pc[w]
        \/ pc[w] = "wait" /\ pc'[w] = "undropped"
        \/ pc[w] = "hbwait" /\ pc'[w] = "keep"
        \/ /\ Home(w) = i /\ arg[w] = p /\ eviction[i][p] = "dropped"
           /\ \/ pc[w] = "wait" /\ pc'[w] = "dropped"
              \/ pc[w] = "hbwait" /\ pc'[w] = "forget"
  BY DEF EvictReport
<1>3. \A j \in Proc : j \in Worker /\ Home(j) = j
  BY DEF Worker, Home
<1>4. NoDrop
  BY DEF EvictReport, EntityTypeOK, NoDrop
<1>5. LeaversKept
  BY <1>1, <1>2, <1>3 DEF LeaversKept, Leaving, HandBackPC
<1>6. \A j \in Proc, q \in Player : DroppedOf(j, q)'
  BY <1>1, <1>4, <1>5, DropKept DEF CopyInv, NoDrop, UseKept
<1>7. ASSUME NEW j \in Proc PROVE GoneOf(j)'
  <2>1. CASE pc'[j] \in GonePC /\ pc[j] \notin GonePC
    <3>1. /\ j = i /\ arg[j] = p /\ eviction[i][p] = "dropped" /\ pc[j] = "hbwait"
      BY <1>2, <1>3, <2>1 DEF GonePC
    <3>2. p \in Leaving(i)
      BY <3>1 DEF Leaving, HandBackPC
    <3>3. copy[i][p] = "none"
      BY <3>1, <3>2 DEF CopyInv, DroppedOf
    <3> QED
      BY <1>1, <3>1, <3>3 DEF GoneOf
  <2>2. CASE ~(pc'[j] \in GonePC /\ pc[j] \notin GonePC)
    BY <1>1, <2>2 DEF CopyInv, GoneOf
  <2> QED
    BY <2>1, <2>2
<1>8. ASSUME NEW w \in Worker PROVE ResumeOf(w)'
  <2>1. CASE pc'[w] = "dropped" /\ pc[w] # "dropped"
    <3>1. Home(w) = i /\ arg[w] = p /\ eviction[i][p] = "dropped"
      BY <1>2, <2>1
    <3>2. copy[i][p] # "stale"
      BY <3>1 DEF CopyInv, DroppedOf
    <3> QED
      BY <1>1, <2>1, <3>1, <3>2 DEF ResumeOf, Home
  <2>2. CASE ~(pc'[w] = "dropped" /\ pc[w] # "dropped")
    <3>1. pc'[w] = "confirm" => pc[w] = "confirm"
      BY <1>2
    <3> QED
      BY <1>1, <2>2, <3>1 DEF CopyInv, ResumeOf, Home
  <2> QED
    BY <2>1, <2>2
<1> QED
  BY <1>6, <1>7, <1>8 DEF CopyInv

LEMMA EntityStepCopies ==
  ASSUME TypeOK, NEW D \in Nat, GateInv(D), Timely(D), WorkInv, CopyInv,
         NEW i \in Proc, NEW p \in Player, EntityStep(i, p)
  PROVE  CopyInv'
<1> USE DEF TypeOK
<1>1. CASE EvictOk(i, p)
  <2>1. UNCHANGED <<owner, known, idle, pc, arg, home, continuous, chosen>>
    BY <1>1 DEF EvictOk, routeVars, tableVars, localVars, workerVars, passVars
  <2>2. /\ copy'[i][p] = "none"
        /\ \A j \in Proc, q \in Player : j # i \/ q # p =>
             copy'[j][q] = copy[j][q] /\ eviction'[j][q] = eviction[j][q]
    BY <1>1 DEF EvictOk, EntityTypeOK
  <2>3. \A j \in Proc : Leaving(j)' = Leaving(j)
    BY <2>1 DEF Leaving
  <2>4. \A j \in Proc, q \in Player : DroppedOf(j, q)'
    BY <2>1, <2>2, <2>3 DEF CopyInv, DroppedOf
  <2>5. ASSUME NEW j \in Proc PROVE GoneOf(j)'
    <3> SUFFICES ASSUME pc[j] \in GonePC PROVE copy'[j][arg[j]] = "none"
      BY <2>1 DEF GoneOf
    <3>1. arg[j] \in Player
      BY AtWork DEF Worker, GonePC
    <3> QED
      BY <2>2, <3>1 DEF CopyInv, GoneOf
  <2>6. ASSUME NEW w \in Worker PROVE ResumeOf(w)'
    <3>1. pc[w] = "dropped" => Home(w) \in Proc /\ arg[w] \in Player
      BY AtWork
    <3>2. pc[w] = "dropped" => copy'[Home(w)][arg[w]] # "stale"
      BY <2>2, <3>1 DEF CopyInv, ResumeOf
    <3> QED
      BY <2>1, <3>2 DEF CopyInv, ResumeOf, Home
  <2> QED
    BY <2>4, <2>5, <2>6 DEF CopyInv
<1>2. CASE EvictFail(i, p) \/ FenceDrop(i, p) \/ Disconnect(i, p)
  <2>1. UNCHANGED <<routeVars, known, idle, copy, workerVars, chosen>>
    BY <1>2 DEF EvictFail, FenceDrop, Disconnect, localVars, entityVars, passVars
  <2>2. NoDrop
    <3>1. CASE EvictFail(i, p)
      BY <3>1 DEF EvictFail, EntityTypeOK, NoDrop
    <3>2. CASE FenceDrop(i, p)
      BY <3>2, JoinCopies DEF FenceDrop
    <3>3. CASE Disconnect(i, p)
      BY <3>3, Untouched DEF Disconnect
    <3> QED
      BY <1>2, <3>1, <3>2, <3>3
  <2> QED
    BY <2>1, <2>2, Untouched, QuietCopies DEF routeVars, tableVars, workerVars
<1>3. CASE AdmitWork(i, p)
  <2>1. UNCHANGED <<routeVars, entityVars, workerVars, chosen>>
    BY <1>3 DEF AdmitWork, passVars
  <2>2. UseKept
    BY <1>3, TouchUse DEF AdmitWork
  <2> QED
    BY <2>1, <2>2, Untouched, QuietCopies DEF routeVars, tableVars, workerVars
<1> QED
  BY <1>1, <1>2, <1>3, EvictReportCopies, RunWorkCopies, CommitWorkCopies DEF EntityStep

\* A process that dies takes its copies, evictions and workers with it.
LEMMA CrashCopies ==
  ASSUME TypeOK, CopyInv, NEW i \in Proc, Crash(i)
  PROVE  CopyInv'
<1> USE DEF TypeOK
<1>1. \A j \in Proc : j # i =>
        /\ known'[j] = known[j] /\ idle'[j] = idle[j] /\ chosen'[j] = chosen[j]
        /\ copy'[j] = copy[j] /\ eviction'[j] = eviction[j]
  BY DEF Crash, LocalTypeOK, EntityTypeOK, PassTypeOK
<1>2. UNCHANGED owner /\ \A p \in Player : eviction'[i][p] = "none"
  BY DEF Crash, EntityTypeOK, routeVars, tableVars
<1>3. \A w \in Worker :
        \/ pc'[w] = "rest"
        \/ /\ pc'[w] = pc[w] /\ arg'[w] = arg[w] /\ continuous'[w] = continuous[w]
           /\ Home(w)' = Home(w) /\ Home(w) # i
  <2> DEFINE Mine == {w \in Worker : Home(w) = i}
  <2>1. /\ home' = [r \in Request |-> IF r \in Mine THEN None ELSE home[r]]
        /\ pc' = [w \in Worker |-> IF w \in Mine THEN "rest" ELSE pc[w]]
        /\ arg' = [w \in Worker |-> IF w \in Mine THEN None ELSE arg[w]]
        /\ continuous' = [w \in Worker |-> IF w \in Mine THEN FALSE ELSE continuous[w]]
    BY DEF Crash
  <2>2. \A w \in Worker : w \notin Mine => Home(w) # i
    OBVIOUS
  <2> HIDE DEF Mine
  <2> QED
    BY <2>1, <2>2 DEF Home, Worker
<1>4. \A j \in Proc : j \in Worker /\ Home(j) = j
  BY DEF Worker, Home
<1>5. \A j \in Proc, q \in Player : DroppedOf(j, q)'
  <2> SUFFICES ASSUME NEW j \in Proc, NEW q \in Player, j # i PROVE DroppedOf(j, q)'
    BY <1>2 DEF DroppedOf
  <2>1. Leaving(j)' \subseteq Leaving(j)
    BY <1>1, <1>3, <1>4 DEF Leaving, HandBackPC
  <2> QED
    BY <1>1, <1>2, <2>1 DEF CopyInv, DroppedOf
<1>6. \A j \in Proc : GoneOf(j)'
  BY <1>1, <1>3, <1>4 DEF CopyInv, GoneOf, GonePC
<1>7. ASSUME NEW w \in Worker PROVE ResumeOf(w)'
  <2>1. pc[w] = "dropped" => Home(w) \in Proc
    BY AtWork
  <2> QED
    BY <1>1, <1>3, <2>1 DEF CopyInv, ResumeOf
<1> QED
  BY <1>5, <1>6, <1>7 DEF CopyInv

\* No eviction that has ended outlives its tick unreported.
LEMMA TickCopies ==
  ASSUME TypeOK, CopyInv, Tick
  PROVE  CopyInv'
<1>1. UNCHANGED <<copy, eviction, pc, arg, home, continuous>>
  BY DEF Tick, entityVars
<1>2. \A i \in Proc, p \in Player : eviction[i][p] # "dropped"
  BY DEF Tick
<1> QED
  BY <1>1, <1>2 DEF CopyInv, DroppedOf, GoneOf, ResumeOf, Home

LEMMA InitCopies == Init => CopyInv
<1> SUFFICES ASSUME Init PROVE CopyInv
  OBVIOUS
<1>1. /\ \A i \in Proc, p \in Player : eviction[i][p] = "none"
      /\ \A w \in Worker : pc[w] = "rest"
  BY DEF Init
<1>2. \A i \in Proc : i \in Worker
  BY DEF Worker
<1> QED
  BY <1>1, <1>2 DEF CopyInv, DroppedOf, GoneOf, GonePC, ResumeOf

LEMMA CopyStep ==
  ASSUME TxnTicks < HandBackIdle, TypeOK, NEW D \in Nat, GateInv(D), Timely(D),
         WorkInv, CopyInv, [Next]_vars
  PROVE  CopyInv'
<1>1. CASE UNCHANGED <<routeVars, localVars, entityVars, workerVars, passVars>>
  BY <1>1, Untouched, QuietCopies
  DEF routeVars, tableVars, localVars, entityVars, workerVars, passVars
<1>2. CASE UNCHANGED vars
  BY <1>1, <1>2 DEF vars
<1>3. CASE Next
  <2>1. ASSUME NEW i \in Proc, StartProc(i) PROVE CopyInv'
    BY <1>1, <2>1 DEF StartProc
  <2> QED
    BY <1>3, <2>1, ClaimStepCopies, RequestStepCopies, LoopStepCopies, EntityStepCopies,
       CrashCopies, TickCopies DEF Next
<1> QED
  BY <1>2, <1>3

LEMMA CopyInvariant ==
  ASSUME TxnTicks <= Guard, TxnTicks < HandBackIdle
  PROVE  Spec /\ []Unraced(TxnTicks) /\ []ConfirmsAside => [](GateInv(TxnTicks) /\ WorkInv /\ CopyInv)
<1>1. Init => GateInv(TxnTicks) /\ WorkInv /\ CopyInv
  BY InitGate, InitWork, InitCopies, ConstantTypes
<1>2. TypeOK /\ TypeOK' /\ Unraced(TxnTicks) /\ ConfirmsAside
        /\ GateInv(TxnTicks) /\ WorkInv /\ CopyInv
        /\ [Next]_vars => (GateInv(TxnTicks) /\ WorkInv /\ CopyInv)'
  BY GateStep, WorkStep, CopyStep, ConstantTypes DEF Unraced
<1> QED
  BY <1>1, <1>2, TypeCorrect, PTL DEF Spec

-----------------------------------------------------------------------------
(***************************************************************************)
(* handBackIdle: "the copy goes FIRST, the claim second".  When the loop   *)
(* is about to delete the key of a player it hands back, the process holds *)
(* no copy of the player and runs no transaction on them.                  *)
(***************************************************************************)
THEOREM CopyGoesFirst ==
  ASSUME TxnTicks <= Guard, TxnTicks < HandBackIdle
  PROVE  Spec /\ []Unraced(TxnTicks) /\ []ConfirmsAside => []NoCopyLeftBehind
<1>1. TypeOK /\ WorkInv /\ CopyInv => NoCopyLeftBehind
  <2> SUFFICES ASSUME TypeOK, WorkInv, CopyInv, NEW i \in Proc, pc[i] = "release"
               PROVE  copy[i][arg[i]] = "none" /\ txn[i][arg[i]] = "idle"
    BY DEF NoCopyLeftBehind
  <2>1. arg[i] \in Player
    BY AtWork DEF TypeOK, Worker
  <2>2. arg[i] \in Leaving(i)
    BY <2>1 DEF Leaving, HandBackPC
  <2> QED
    BY <2>2 DEF CopyInv, GoneOf, GonePC, WorkInv, LeaveOf
<1> QED
  BY <1>1, CopyInvariant, TypeCorrect, PTL

(***************************************************************************)
(* RR-20260920-09.  A claim across a gap takes the player into service     *)
(* only without a copy another process has written past since, although    *)
(* the eviction it waited for may be one that a hand-back or a fence       *)
(* started, and work may have loaded the player again in between.          *)
(***************************************************************************)
THEOREM GapsDropCopies ==
  ASSUME TxnTicks <= Guard, TxnTicks < HandBackIdle
  PROVE  Spec /\ []Unraced(TxnTicks) /\ []ConfirmsAside => []GapDropsCopy
<1>1. CopyInv => GapDropsCopy
  BY DEF CopyInv, ResumeOf, GapDropsCopy
<1> QED
  BY <1>1, CopyInvariant, PTL

=============================================================================
