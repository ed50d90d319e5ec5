---------------------------- MODULE PlayerOwners ----------------------------
(***************************************************************************)
(* Who may write a player when several game processes share one database:  *)
(* PlayerOwners (demo/internal/service/game/playerowner) over the Redis    *)
(* table of PlayerRoute.                                                   *)
(*                                                                         *)
(* Each process runs a refresh loop and any number of request goroutines   *)
(* (logins, and background consumers that ask Owns).  A worker is the loop *)
(* of a process, named by the process itself, or a member of Request.  The *)
(* steps of a worker are the points between which it holds no lock: a      *)
(* Redis command, a critical section of owners.mu, the wait of             *)
(* dropResident.                                                           *)
(*                                                                         *)
(* Time is discrete.  Every deadline is kept as the ticks that remain, so  *)
(* the state space is finite without a bound on the clock.                 *)
(***************************************************************************)
EXTENDS PlayerRoute, FiniteSets

CONSTANTS
  Request,      \* request goroutines: as many as run at one time
  HasFencer,    \* is a sessionFencer installed (Fence was called)?
  Logins,       \* do clients log in, or is there background work only?
  Guard,        \* AdmissionGuard
  RefreshInterval, \* playerroute.RefreshInterval
  LoopOnTime,   \* does a pass start before the tick after its own?
  EvictWait,    \* evictBudget: how long a caller waits for an eviction
  RedisLag,     \* ticks that may pass between two steps around a command
  EvictPrompt,  \* does an eviction nothing blocks end within its tick?
  PassLag,      \* ticks a renewal's answer may wait in the refresh pass
  MaxCrashes,   \* bound: how many processes die in a behaviour
  TxnTicks      \* ticks a transaction takes at most, once admitted

ASSUME OwnersAssumption ==
  /\ Proc \cap Request = {} /\ None \notin Request
  /\ None \notin Player
  /\ HasFencer \in BOOLEAN /\ Logins \in BOOLEAN
  /\ Guard \in Nat /\ Guard < Lease
  /\ RefreshInterval \in Nat \ {0}
  /\ LoopOnTime \in BOOLEAN /\ EvictPrompt \in BOOLEAN
  /\ {EvictWait, RedisLag, PassLag, TxnTicks, MaxCrashes} \subseteq Nat

VARIABLES
  mode,        \* "off" (not started), "up", "dead"
  known,       \* known[i]: the players with an entry in owners.local
  left,        \* validUntil - now, for those
  interrupted, \* leaseState.interrupted
  handingBack, \* leaseState.handingBack
  idle,        \* now - lastUsed, counted up to HandBackIdle (and only
               \* where handBackIdle, its one reader, can run)
  copy,        \* the resident entity: "none", "fresh", or "stale" when
               \* another process has written the document since it was loaded
  eviction,    \* the entry of owners.evictions
  fencing,     \* players whose fence goroutine has not run dropResident yet
  session,     \* players with a connection the fencer can see
  phase, fired, \* the loop's ticker: ticks since it last fired, and
               \* whether a firing is waiting in its channel
  txn,         \* a transaction on the player: "idle", "admitted", "running"
  fuel,        \* ticks it has left
  home,        \* the process a request goroutine runs in
  pc, arg,     \* where a worker is and the player it works on
  continuous,  \* the local of Claim of that name
  spent,       \* ticks the worker has been at pc
  renewal,     \* the results of Refresh a pass has not handled yet
  age,         \* ticks since Redis answered a "held" of renewal
  chosen       \* the idle list of handBackIdle

localVars == <<known, left, interrupted, handingBack, idle>>
entityVars == <<copy, eviction, fencing>>
workVars == <<txn, fuel>>
tickerVars == <<phase, fired>>
workerVars == <<home, pc, arg, continuous, spent>>
passVars == <<renewal, age, chosen>>
vars == <<routeVars, mode, localVars, entityVars, session, workVars,
          tickerVars, workerVars, passVars>>

HandBackIdle == 2 * RefreshInterval

Worker == Proc \cup Request

Home(w) == IF w \in Proc THEN w ELSE home[w]

\* The steps of Claim, shared by the loop and the request goroutines.
ClaimPC == {"claim", "setnx", "get", "expire", "drop", "wait", "dropped",
            "undropped", "confirm"}
HandBackPC == {"handback", "hbwait", "keep", "forget", "release"}
PC == {"rest", "owner", "pass", "fence"} \cup ClaimPC \cup HandBackPC

LocalTypeOK ==
  /\ known \in [Proc -> SUBSET Player]
  /\ left \in [Proc -> [Player -> 0..Lease]]
  /\ interrupted \in [Proc -> SUBSET Player]
  /\ handingBack \in [Proc -> SUBSET Player]
  /\ idle \in [Proc -> [Player -> 0..HandBackIdle]]

EntityTypeOK ==
  /\ copy \in [Proc -> [Player -> {"none", "fresh", "stale"}]]
  /\ eviction \in [Proc -> [Player -> {"none", "running", "dropped", "failed"}]]
  /\ fencing \in [Proc -> SUBSET Player]

WorkTypeOK ==
  /\ txn \in [Proc -> [Player -> {"idle", "admitted", "running"}]]
  /\ fuel \in [Proc -> [Player -> 0..TxnTicks]]

TickerTypeOK ==
  /\ phase \in [Proc -> 0..RefreshInterval - 1]
  /\ fired \in [Proc -> BOOLEAN]

WorkerTypeOK ==
  /\ home \in [Request -> Proc \cup {None}]
  /\ pc \in [Worker -> PC]
  /\ arg \in [Worker -> Player \cup {None}]
  /\ continuous \in [Worker -> BOOLEAN]
  /\ spent \in [Worker -> Nat]
  /\ \A r \in Request : pc[r] # "rest" => home[r] \in Proc
  /\ \A w \in Worker : pc[w] \notin {"rest", "pass", "handback"} => arg[w] \in Player

PassTypeOK ==
  /\ renewal \in [Proc -> [Player -> {"none", "todo", "held", "error", "gone"}]]
  /\ age \in [Proc -> [Player -> Nat]]
  /\ chosen \in [Proc -> SUBSET Player]

TypeOK ==
  /\ RouteTypeOK
  /\ mode \in [Proc -> {"off", "up", "dead"}]
  /\ session \in [Proc -> SUBSET Player]
  /\ LocalTypeOK /\ EntityTypeOK /\ WorkTypeOK
  /\ TickerTypeOK /\ WorkerTypeOK /\ PassTypeOK

Init ==
  /\ RouteInit
  /\ mode = [i \in Proc |-> "off"]
  /\ known = [i \in Proc |-> {}]
  /\ left = [i \in Proc |-> [p \in Player |-> 0]]
  /\ interrupted = [i \in Proc |-> {}]
  /\ handingBack = [i \in Proc |-> {}]
  /\ idle = [i \in Proc |-> [p \in Player |-> 0]]
  /\ copy = [i \in Proc |-> [p \in Player |-> "none"]]
  /\ eviction = [i \in Proc |-> [p \in Player |-> "none"]]
  /\ fencing = [i \in Proc |-> {}]
  /\ session = [i \in Proc |-> {}]
  /\ phase = [i \in Proc |-> 0]
  /\ fired = [i \in Proc |-> FALSE]
  /\ txn = [i \in Proc |-> [p \in Player |-> "idle"]]
  /\ fuel = [i \in Proc |-> [p \in Player |-> 0]]
  /\ home = [r \in Request |-> None]
  /\ pc = [w \in Worker |-> "rest"]
  /\ arg = [w \in Worker |-> None]
  /\ continuous = [w \in Worker |-> FALSE]
  /\ spent = [w \in Worker |-> 0]
  /\ renewal = [i \in Proc |-> [p \in Player |-> "none"]]
  /\ age = [i \in Proc |-> [p \in Player |-> 0]]
  /\ chosen = [i \in Proc |-> {}]

-----------------------------------------------------------------------------
(***************************************************************************)
(* The gate and the critical sections of owners.mu.                        *)
(***************************************************************************)

\* The guard band forgotten: admission until the lease lapses.
FaultyAdmit(i, p) ==
  /\ p \in known[i]
  /\ p \notin handingBack[i]
  /\ p \notin interrupted[i]
  /\ left[i][p] > 0

\* Admit: the answer comes from local state alone.  (leaseState.lost is set
\* and the entry deleted under one lock, so no reader ever sees it.)
Admit(i, p) ==
  /\ p \in known[i]
  /\ p \notin handingBack[i]
  /\ p \notin interrupted[i]
  /\ left[i][p] > Guard

\* The write of lastUsed on Admit's way out.
Touch(i, p) ==
  idle' = IF Admit(i, p) THEN [idle EXCEPT ![i][p] = 0] ELSE idle

\* A renewal counts as use: RR-20260920-10.
FaultyConfirmLocked(i, p, used) ==
  /\ known' = [known EXCEPT ![i] = @ \cup {p}]
  /\ left' = [left EXCEPT ![i][p] = Lease]
  /\ interrupted' = [interrupted EXCEPT ![i] = @ \ {p}]
  /\ handingBack' = [handingBack EXCEPT ![i] = @ \ {p}]
  /\ idle' = [idle EXCEPT ![i][p] = 0]

\* confirmLocked.  A renewal of an existing entry leaves lastUsed alone.
ConfirmLocked(i, p, used) ==
  /\ known' = [known EXCEPT ![i] = @ \cup {p}]
  /\ left' = [left EXCEPT ![i][p] = Lease]
  /\ interrupted' = [interrupted EXCEPT ![i] = @ \ {p}]
  /\ handingBack' = [handingBack EXCEPT ![i] = @ \ {p}]
  /\ idle' = IF used \/ p \notin known[i]
               THEN [idle EXCEPT ![i][p] = 0]
               ELSE idle

\* delete(owners.local, playerID)
Forget(i, p) ==
  /\ known' = [known EXCEPT ![i] = @ \ {p}]
  /\ left' = [left EXCEPT ![i][p] = 0]
  /\ interrupted' = [interrupted EXCEPT ![i] = @ \ {p}]
  /\ handingBack' = [handingBack EXCEPT ![i] = @ \ {p}]
  /\ idle' = [idle EXCEPT ![i][p] = 0]

\* The worker moves on within its call; its clock restarts.
Goto(w, to) ==
  /\ pc' = [pc EXCEPT ![w] = to]
  /\ spent' = [spent EXCEPT ![w] = 0]
  /\ UNCHANGED <<home, arg, continuous>>

\* The loop calls into step "to" on behalf of player p.
Call(i, to, p) ==
  /\ pc' = [pc EXCEPT ![i] = to]
  /\ arg' = [arg EXCEPT ![i] = p]
  /\ spent' = [spent EXCEPT ![i] = 0]
  /\ UNCHANGED <<home, continuous>>

\* A request goroutine starts in process i.
Serve(r, i, to, p) ==
  /\ mode[i] = "up" /\ pc[r] = "rest"
  /\ home' = [home EXCEPT ![r] = i]
  /\ pc' = [pc EXCEPT ![r] = to]
  /\ arg' = [arg EXCEPT ![r] = p]
  /\ UNCHANGED <<continuous, spent>>

\* The call is over: the loop goes back to where it made it, a request
\* goroutine ends.
Return(w, to) ==
  /\ pc' = [pc EXCEPT ![w] = IF w \in Proc THEN to ELSE "rest"]
  /\ home' = [r \in Request |-> IF r = w THEN None ELSE home[r]]
  /\ arg' = [arg EXCEPT ![w] = None]
  /\ continuous' = [continuous EXCEPT ![w] = FALSE]
  /\ spent' = [spent EXCEPT ![w] = 0]

\* Work on p that has been let in: a message past the gate, or what a login
\* or a consumer does after its Claim.  One transaction per player and
\* process is followed at a time.
BeginWork(i, p) ==
  IF txn[i][p] = "idle"
    THEN /\ txn' = [txn EXCEPT ![i][p] = "admitted"]
         /\ fuel' = [fuel EXCEPT ![i][p] = TxnTicks]
    ELSE UNCHANGED workVars

\* The first half of dropResident: join the eviction in flight or start one.
JoinOrEvict(i, p) ==
  eviction' = IF eviction[i][p] = "none"
                THEN [eviction EXCEPT ![i][p] = "running"]
                ELSE eviction

-----------------------------------------------------------------------------
(***************************************************************************)
(* Requests: what starts a goroutine r in process i.                       *)
(***************************************************************************)

\* A client connects and sends EnterGame, the one message AdmitMessage lets
\* through ungated; the endpoint calls Claim before it loads anything.
Login(r, i, p) ==
  /\ Logins
  /\ Serve(r, i, "claim", p)
  /\ session' = IF HasFencer
                  THEN [session EXCEPT ![i] = @ \cup {p}]
                  ELSE session
  /\ UNCHANGED <<routeVars, mode, tickerVars, localVars, entityVars, workVars,
                 passVars>>

Disconnect(i, p) ==
  /\ p \in session[i]
  /\ session' = [session EXCEPT ![i] = @ \ {p}]
  /\ UNCHANGED <<routeVars, mode, tickerVars, localVars, entityVars, workVars,
                 workerVars, passVars>>

\* A message or a consumer that Admit lets in (AdmitMessage; the first line
\* of Owns and of OwnedHere).
AdmitWork(i, p) ==
  /\ mode[i] = "up"
  /\ Admit(i, p)
  /\ Touch(i, p)
  /\ BeginWork(i, p)
  /\ UNCHANGED <<routeVars, mode, tickerVars, known, left, interrupted, handingBack,
                 entityVars, session, workerVars, passVars>>

\* Owns for a player Admit refuses: ask Redis ...
AskOwner(r, i, p) ==
  /\ ~Admit(i, p)
  /\ Serve(r, i, "owner", p)
  /\ UNCHANGED <<routeVars, mode, tickerVars, localVars, entityVars, session,
                 workVars, passVars>>

\* An Owns that also claims the player its own process already has in Redis.
FaultyOwnerAnswer(r) ==
  /\ pc[r] = "owner"
  /\ \E reply \in Reply :
       /\ Get(reply)
       /\ IF reply = "ok" /\ owner[arg[r]] \in {None, home[r]}
            THEN Goto(r, "claim")
            ELSE Return(r, "rest")
  /\ UNCHANGED <<mode, tickerVars, localVars, entityVars, session, workVars,
                 passVars>>

\* ... and claim the player if nobody has them.
OwnerAnswer(r) ==
  /\ pc[r] = "owner"
  /\ \E reply \in Reply :
       /\ Get(reply)
       /\ IF reply = "ok" /\ owner[arg[r]] = None
            THEN Goto(r, "claim")
            ELSE Return(r, "rest")
  /\ UNCHANGED <<mode, tickerVars, localVars, entityVars, session, workVars,
                 passVars>>

-----------------------------------------------------------------------------
(***************************************************************************)
(* PlayerOwners.Claim, with Store.Claim inlined.                           *)
(***************************************************************************)

\* continuous := owners.Admit(playerID) == nil
ClaimAdmit(w) ==
  LET i == Home(w)  p == arg[w] IN
  /\ pc[w] = "claim"
  /\ Touch(i, p)
  /\ pc' = [pc EXCEPT ![w] = "setnx"]
  /\ continuous' = [continuous EXCEPT ![w] = Admit(i, p)]
  /\ spent' = [spent EXCEPT ![w] = 0]
  /\ UNCHANGED <<routeVars, mode, tickerVars, known, left, interrupted,
                 handingBack, entityVars, session, workVars, home, arg,
                 passVars>>

\* The copy from before a gap is kept: RR-20260920-09.
FaultyKeepsCopy(w, mine) ==
  IF mine
    THEN Goto(w, "confirm")
    ELSE IF w \in Proc THEN Goto(w, "fence") ELSE Return(w, "rest")

\* Losing the claim is not an error, so the caller is let in all the same.
FaultyClaimRouted(w, mine) ==
  Goto(w, IF continuous[w] THEN "confirm" ELSE "drop")

\* What Claim does with the Route Store.Claim returned.
ClaimRouted(w, mine) ==
  IF mine
    THEN Goto(w, IF continuous[w] THEN "confirm" ELSE "drop")
    ELSE IF w \in Proc THEN Goto(w, "fence") ELSE Return(w, "rest")

ClaimSetNX(w) ==
  LET p == arg[w] IN
  /\ pc[w] = "setnx"
  /\ \E reply \in Reply :
       /\ SetNX(Home(w), p, reply)
       /\ IF reply # "ok" THEN Return(w, "pass")
          ELSE IF owner[p] = None THEN ClaimRouted(w, TRUE)
          ELSE Goto(w, "get")
  /\ UNCHANGED <<mode, tickerVars, localVars, entityVars, session, workVars, passVars>>

ClaimGet(w) ==
  LET current == owner[arg[w]] IN
  /\ pc[w] = "get"
  /\ \E reply \in Reply :
       /\ Get(reply)
       /\ IF reply # "ok" THEN Return(w, "pass")
          ELSE IF current = Home(w) THEN Goto(w, "expire")
          ELSE ClaimRouted(w, SameSid(Home(w), current))
  /\ UNCHANGED <<mode, tickerVars, localVars, entityVars, session, workVars,
                 passVars>>

\* The extension of a lease the Get found to be ours.  Store.Claim returns
\* what the Get read, whether the extension was applied or not.
ClaimExpire(w) ==
  /\ pc[w] = "expire"
  /\ \E reply \in Reply :
       /\ CompareAndExpire(Home(w), arg[w], reply)
       /\ IF reply # "ok" THEN Return(w, "pass") ELSE ClaimRouted(w, TRUE)
  /\ UNCHANGED <<mode, tickerVars, localVars, entityVars, session, workVars, passVars>>

\* A claim across a gap: the copy from before it has to go first.
ClaimDrop(w) ==
  /\ pc[w] = "drop"
  /\ JoinOrEvict(Home(w), arg[w])
  /\ Goto(w, "wait")
  /\ UNCHANGED <<routeVars, mode, tickerVars, localVars, copy, fencing, session, workVars,
                 passVars>>

\* dropResident gave up (its timer, or the context of a request) or the
\* eviction failed: the lease is left to lapse unconfirmed.
ClaimNotDropped(w) ==
  /\ \/ pc[w] = "undropped"
     \/ pc[w] = "wait" /\ (w \in Request \/ spent[w] >= EvictWait)
  /\ Return(w, "pass")
  /\ UNCHANGED <<routeVars, mode, tickerVars, localVars, entityVars, session, workVars,
                 passVars>>

\* confirmClaim, and the work the claim was made for.
ClaimConfirm(w) ==
  LET i == Home(w)  p == arg[w] IN
  /\ pc[w] \in {"dropped", "confirm"}
  /\ ConfirmLocked(i, p, TRUE)
  /\ IF w \in Request THEN BeginWork(i, p) ELSE UNCHANGED workVars
  /\ Return(w, "pass")
  /\ UNCHANGED <<routeVars, mode, tickerVars, entityVars, session, passVars>>

-----------------------------------------------------------------------------
(***************************************************************************)
(* Evictions: the goroutine dropResident starts, and the one fence starts. *)
(***************************************************************************)

\* EvictPlayer ends.  Destroy waits for the entity's mutex, so a running
\* transaction finishes first ...
EvictOk(i, p) ==
  /\ eviction[i][p] = "running" /\ txn[i][p] # "running"
  /\ eviction' = [eviction EXCEPT ![i][p] = "dropped"]
  /\ copy' = [copy EXCEPT ![i][p] = "none"]
  /\ UNCHANGED <<routeVars, mode, tickerVars, localVars, fencing, session,
                 workVars, workerVars, passVars>>

\* ... and a Destroy that fails leaves the copy.
EvictFail(i, p) ==
  /\ eviction[i][p] = "running" /\ txn[i][p] # "running"
  /\ eviction' = [eviction EXCEPT ![i][p] = "failed"]
  /\ UNCHANGED <<routeVars, mode, tickerVars, localVars, copy, fencing, session,
                 workVars, workerVars, passVars>>

\* The end of runEviction: the entry goes and everyone who joined it wakes.
EvictReport(i, p) ==
  LET ok == eviction[i][p] = "dropped"
      Joined(w) == Home(w) = i /\ arg[w] = p
  IN
  /\ eviction[i][p] \in {"dropped", "failed"}
  /\ eviction' = [eviction EXCEPT ![i][p] = "none"]
  /\ pc' = [w \in Worker |->
              IF Joined(w) /\ pc[w] = "wait"
                THEN IF ok THEN "dropped" ELSE "undropped"
              ELSE IF Joined(w) /\ pc[w] = "hbwait"
                THEN IF ok THEN "forget" ELSE "keep"
              ELSE pc[w]]
  /\ UNCHANGED <<routeVars, mode, tickerVars, localVars, copy, fencing, session, workVars,
                 arg, continuous, spent, home, passVars>>

\* fence: the lease is dropped locally and the connections are closed; the
\* copy is left to a goroutine.
Fence(i) ==
  LET p == arg[i] IN
  /\ pc[i] = "fence"
  /\ IF p \in known[i]
       THEN /\ Forget(i, p)
            /\ session' = [session EXCEPT ![i] = @ \ {p}]
            /\ fencing' = [fencing EXCEPT ![i] = @ \cup {p}]
       ELSE UNCHANGED <<localVars, session, fencing>>
  /\ Return(i, "pass")
  /\ UNCHANGED <<routeVars, mode, tickerVars, copy, eviction, workVars, passVars>>

FenceDrop(i, p) ==
  /\ p \in fencing[i]
  /\ fencing' = [fencing EXCEPT ![i] = @ \ {p}]
  /\ JoinOrEvict(i, p)
  /\ UNCHANGED <<routeVars, mode, tickerVars, localVars, copy, session, workVars,
                 workerVars, passVars>>

-----------------------------------------------------------------------------
(***************************************************************************)
(* The refresh loop: renew, then handBackIdle.                             *)
(***************************************************************************)

BeginPass(i) ==
  /\ mode[i] = "up" /\ pc[i] = "rest" /\ fired[i]
  /\ fired' = [fired EXCEPT ![i] = FALSE]
  /\ renewal' = [renewal EXCEPT ![i] =
                   [p \in Player |-> IF p \in known[i] THEN "todo" ELSE "none"]]
  /\ Goto(i, "pass")
  /\ UNCHANGED <<routeVars, mode, phase, localVars, entityVars, session, workVars,
                 age, chosen>>

\* Store.Refresh, one key at a time; nothing is handled until all are done.
RefreshOne(i, p) ==
  /\ pc[i] = "pass" /\ renewal[i][p] = "todo"
  /\ \E reply \in Reply :
       /\ CompareAndExpire(i, p, reply)
       /\ renewal' = [renewal EXCEPT ![i][p] =
                        IF reply # "ok" THEN "error"
                        ELSE IF owner[p] = i THEN "held" ELSE "gone"]
  /\ age' = [age EXCEPT ![i][p] = 0]
  /\ UNCHANGED <<mode, tickerVars, localVars, entityVars, session, workVars, workerVars,
                 chosen>>

Refreshed(i) == pc[i] = "pass" /\ \A p \in Player : renewal[i][p] # "todo"

RenewalHeld(i, p) ==
  /\ Refreshed(i) /\ renewal[i][p] = "held"
  /\ ConfirmLocked(i, p, FALSE)
  /\ renewal' = [renewal EXCEPT ![i][p] = "none"]
  /\ age' = [age EXCEPT ![i][p] = 0]
  /\ UNCHANGED <<routeVars, mode, tickerVars, entityVars, session, workVars, workerVars,
                 chosen>>

\* A failed renewal taken for a success: RR-20260920-04.
FaultyRenewalError(i, p) ==
  /\ Refreshed(i) /\ renewal[i][p] = "error"
  /\ ConfirmLocked(i, p, FALSE)
  /\ renewal' = [renewal EXCEPT ![i][p] = "none"]
  /\ UNCHANGED <<routeVars, mode, tickerVars, entityVars, session, workVars,
                 workerVars, age, chosen>>

\* UNKNOWN: neither given up nor extended.
RenewalError(i, p) ==
  /\ Refreshed(i) /\ renewal[i][p] = "error"
  /\ renewal' = [renewal EXCEPT ![i][p] = "none"]
  /\ UNCHANGED <<routeVars, mode, tickerVars, localVars, entityVars, session, workVars,
                 workerVars, age, chosen>>

\* Redis answered that the lease is not ours: interrupt, then try to retake.
RenewalGone(i, p) ==
  /\ Refreshed(i) /\ renewal[i][p] = "gone"
  /\ renewal' = [renewal EXCEPT ![i][p] = "none"]
  /\ interrupted' = [interrupted EXCEPT ![i] = @ \cup (known[i] \cap {p})]
  /\ Call(i, "claim", p)
  /\ UNCHANGED <<routeVars, mode, tickerVars, known, left, handingBack, idle, entityVars,
                 session, workVars, age, chosen>>

\* Admission stops at the release only: RR-20260920-11.
FaultySelectIdle(i) ==
  LET Idle == {p \in known[i] \ handingBack[i] : idle[i][p] >= HandBackIdle} IN
  /\ pc[i] = "pass" /\ \A p \in Player : renewal[i][p] = "none"
  /\ chosen' = [chosen EXCEPT ![i] = IF HasFencer THEN Idle ELSE {}]
  /\ Goto(i, "handback")
  /\ UNCHANGED <<routeVars, mode, tickerVars, localVars, entityVars,
                 session, workVars, renewal, age>>

\* The first half of handBackIdle, under the lock.  Without a fencer nothing
\* is ever handed back.
SelectIdle(i) ==
  LET Idle == {p \in known[i] \ handingBack[i] : idle[i][p] >= HandBackIdle} IN
  /\ pc[i] = "pass" /\ \A p \in Player : renewal[i][p] = "none"
  /\ IF HasFencer
       THEN /\ chosen' = [chosen EXCEPT ![i] = Idle]
            /\ handingBack' = [handingBack EXCEPT ![i] = @ \cup Idle]
       ELSE UNCHANGED <<chosen, handingBack>>
  /\ Goto(i, "handback")
  /\ UNCHANGED <<routeVars, mode, tickerVars, known, left, interrupted, idle, entityVars,
                 session, workVars, renewal, age>>

\* The next player of the list: kept if somebody is connected, else dropped.
HandBackNext(i, p) ==
  /\ pc[i] = "handback" /\ p \in chosen[i]
  /\ chosen' = [chosen EXCEPT ![i] = @ \ {p}]
  /\ IF p \in session[i]
       THEN /\ handingBack' = [handingBack EXCEPT ![i] = @ \ {p}]
            /\ UNCHANGED <<eviction, workerVars>>
       ELSE /\ JoinOrEvict(i, p)
            /\ Call(i, "hbwait", p)
            /\ UNCHANGED handingBack
  /\ UNCHANGED <<routeVars, mode, tickerVars, known, left, interrupted, idle, copy, fencing,
                 session, workVars, renewal, age>>

\* cancelHandBack after a drop that failed or outlived dropResident's timer.
HandBackKeep(i) ==
  /\ \/ pc[i] = "keep"
     \/ pc[i] = "hbwait" /\ spent[i] >= EvictWait
  /\ handingBack' = [handingBack EXCEPT ![i] = @ \ {arg[i]}]
  /\ Return(i, "handback")
  /\ UNCHANGED <<routeVars, mode, tickerVars, known, left, interrupted, idle, entityVars,
                 session, workVars, passVars>>

\* Release: the local entry under the lock, then the key.
ReleaseLocal(i) ==
  /\ pc[i] = "forget"
  /\ Forget(i, arg[i])
  /\ Goto(i, "release")
  /\ UNCHANGED <<routeVars, mode, tickerVars, entityVars, session, workVars, passVars>>

ReleaseKey(i) ==
  /\ pc[i] = "release"
  /\ \E reply \in Reply : CompareAndDelete(i, arg[i], reply)
  /\ Return(i, "handback")
  /\ UNCHANGED <<mode, tickerVars, localVars, entityVars, session, workVars, passVars>>

EndPass(i) ==
  /\ pc[i] = "handback" /\ chosen[i] = {}
  /\ Goto(i, "rest")
  /\ UNCHANGED <<routeVars, mode, tickerVars, localVars, entityVars, session, workVars,
                 passVars>>

-----------------------------------------------------------------------------
(***************************************************************************)
(* Transactions on the resident entity, processes, time.                   *)
(***************************************************************************)

\* The work takes the entity's lock, loading the document if it has to.
RunWork(i, p) ==
  /\ txn[i][p] = "admitted"
  /\ txn' = [txn EXCEPT ![i][p] = "running"]
  /\ copy' = IF copy[i][p] = "none"
               THEN [copy EXCEPT ![i][p] = "fresh"]
               ELSE copy
  /\ UNCHANGED <<routeVars, mode, tickerVars, localVars, eviction, fencing, session, fuel,
                 workerVars, passVars>>

\* It writes the document: every other process's copy is now out of date.
CommitWork(i, p) ==
  /\ txn[i][p] = "running"
  /\ txn' = [txn EXCEPT ![i][p] = "idle"]
  /\ fuel' = [fuel EXCEPT ![i][p] = 0]
  /\ copy' = [j \in Proc |->
                [copy[j] EXCEPT ![p] =
                   IF j # i /\ @ # "none" THEN "stale" ELSE @]]
  /\ UNCHANGED <<routeVars, mode, tickerVars, localVars, eviction, fencing, session,
                 workerVars, passVars>>

\* A process starts; one of its own sid must be gone by then.
StartProc(i) ==
  /\ mode[i] = "off"
  /\ \A j \in Proc : SidOf[j] = SidOf[i] => mode[j] # "up"
  /\ mode' = [mode EXCEPT ![i] = "up"]
  /\ UNCHANGED <<routeVars, tickerVars, localVars, entityVars, session, workVars,
                 workerVars, passVars>>

\* A process dies, or stops: either way its keys are left to expire.
Crash(i) ==
  LET Mine == {w \in Worker : Home(w) = i}
      Wiped(f, v) == [f EXCEPT ![i] = [p \in Player |-> v]]
  IN
  /\ mode[i] = "up"
  /\ Cardinality({j \in Proc : mode[j] = "dead"}) < MaxCrashes
  /\ mode' = [mode EXCEPT ![i] = "dead"]
  /\ known' = [known EXCEPT ![i] = {}]
  /\ left' = Wiped(left, 0)
  /\ interrupted' = [interrupted EXCEPT ![i] = {}]
  /\ handingBack' = [handingBack EXCEPT ![i] = {}]
  /\ idle' = Wiped(idle, 0)
  /\ copy' = Wiped(copy, "none")
  /\ eviction' = Wiped(eviction, "none")
  /\ fencing' = [fencing EXCEPT ![i] = {}]
  /\ session' = [session EXCEPT ![i] = {}]
  /\ phase' = [phase EXCEPT ![i] = 0]
  /\ fired' = [fired EXCEPT ![i] = FALSE]
  /\ txn' = Wiped(txn, "idle")
  /\ fuel' = Wiped(fuel, 0)
  /\ home' = [r \in Request |-> IF r \in Mine THEN None ELSE home[r]]
  /\ pc' = [w \in Worker |-> IF w \in Mine THEN "rest" ELSE pc[w]]
  /\ arg' = [w \in Worker |-> IF w \in Mine THEN None ELSE arg[w]]
  /\ continuous' = [w \in Worker |-> IF w \in Mine THEN FALSE ELSE continuous[w]]
  /\ spent' = [w \in Worker |-> IF w \in Mine THEN 0 ELSE spent[w]]
  /\ renewal' = Wiped(renewal, "none")
  /\ age' = Wiped(age, 0)
  /\ chosen' = [chosen EXCEPT ![i] = {}]
  /\ UNCHANGED routeVars

\* How many ticks a worker may spend at a step.  A computation takes none.
Patience(w) ==
  CASE pc[w] \in {"setnx", "get", "expire", "owner", "release"} -> RedisLag
    [] pc[w] \in {"wait", "hbwait"} -> EvictWait
    [] OTHER -> 0

\* A worker that does not hold time up: at rest, still within its patience,
\* or a pass held up between Refresh and the handling of an answer.
Waits(w) ==
  \/ pc[w] = "rest" /\ ~(LoopOnTime /\ w \in Proc /\ fired[w])
  \/ spent[w] < Patience(w)
  \/ pc[w] = "pass" /\ \E p \in Player : renewal[w][p] = "held"

Tick ==
  /\ \A w \in Worker : Waits(w)
  /\ \A i \in Proc, p \in Player :
       /\ renewal[i][p] = "held" => age[i][p] < PassLag
       /\ txn[i][p] # "idle" => fuel[i][p] > 0
       /\ eviction[i][p] \notin {"dropped", "failed"}
       /\ EvictPrompt => eviction[i][p] = "none" \/ txn[i][p] # "idle"
  /\ RouteTick
  /\ left' = [i \in Proc |-> [p \in Player |->
               IF left[i][p] = 0 THEN 0 ELSE left[i][p] - 1]]
  /\ idle' = [i \in Proc |-> [p \in Player |->
               IF HasFencer /\ p \in known[i] /\ idle[i][p] < HandBackIdle
                 THEN idle[i][p] + 1 ELSE idle[i][p]]]
  /\ fuel' = [i \in Proc |-> [p \in Player |->
               IF txn[i][p] = "idle" THEN 0 ELSE fuel[i][p] - 1]]
  /\ phase' = [i \in Proc |->
                IF mode[i] = "up" THEN (phase[i] + 1) % RefreshInterval
                                  ELSE phase[i]]
  /\ fired' = [i \in Proc |->
                fired[i] \/ (mode[i] = "up" /\ phase'[i] = 0)]
  /\ spent' = [w \in Worker |->
                IF pc[w] \in {"rest", "pass"} THEN 0 ELSE spent[w] + 1]
  /\ age' = [i \in Proc |-> [p \in Player |->
              IF renewal[i][p] = "held" THEN age[i][p] + 1 ELSE 0]]
  /\ UNCHANGED <<mode, known, interrupted, handingBack, entityVars, session,
                 txn, home, pc, arg, continuous, renewal, chosen>>

-----------------------------------------------------------------------------
ClaimStep(w) ==
  \/ ClaimAdmit(w) \/ ClaimSetNX(w) \/ ClaimGet(w) \/ ClaimExpire(w)
  \/ ClaimDrop(w) \/ ClaimNotDropped(w) \/ ClaimConfirm(w)

RequestStep(r) ==
  \/ OwnerAnswer(r)
  \/ \E i \in Proc, p \in Player : Login(r, i, p) \/ AskOwner(r, i, p)

LoopStep(i) ==
  \/ BeginPass(i) \/ Fence(i) \/ SelectIdle(i) \/ HandBackKeep(i)
  \/ ReleaseLocal(i) \/ ReleaseKey(i) \/ EndPass(i)
  \/ \E p \in Player :
       \/ RefreshOne(i, p) \/ RenewalHeld(i, p) \/ RenewalError(i, p)
       \/ RenewalGone(i, p) \/ HandBackNext(i, p)

EntityStep(i, p) ==
  \/ EvictOk(i, p) \/ EvictFail(i, p) \/ EvictReport(i, p) \/ FenceDrop(i, p)
  \/ AdmitWork(i, p) \/ RunWork(i, p) \/ CommitWork(i, p)
  \/ Disconnect(i, p)

Next ==
  \/ \E w \in Worker : ClaimStep(w)
  \/ \E r \in Request : RequestStep(r)
  \/ \E i \in Proc : LoopStep(i) \/ StartProc(i) \/ Crash(i)
  \/ \E i \in Proc, p \in Player : EntityStep(i, p)
  \/ Tick

Spec == Init /\ [][Next]_vars

(***************************************************************************)
(* What the Go runtime and the infrastructure give: time passes, a started *)
(* goroutine runs on, a transaction commits, and evictions do not fail     *)
(* for ever.  Requests, crashes and disconnections are not owed.           *)
(***************************************************************************)
Fairness ==
  /\ SF_vars(Tick)
  /\ \A i \in Proc : WF_vars(LoopStep(i))
  /\ \A w \in Worker : WF_vars(ClaimStep(w))
  /\ \A r \in Request : WF_vars(OwnerAnswer(r))
  /\ \A i \in Proc, p \in Player :
       /\ SF_vars(EvictOk(i, p))
       /\ WF_vars(EvictReport(i, p))
       /\ WF_vars(RunWork(i, p) \/ CommitWork(i, p))

FairSpec == Spec /\ Fairness

-----------------------------------------------------------------------------
(***************************************************************************)
(* Properties.                                                             *)
(***************************************************************************)

\* The players a pass has stopped and not yet kept or given up.
Leaving(i) ==
  chosen[i] \cup {p \in Player : pc[i] \in HandBackPC \ {"handback"} /\ p = arg[i]}

\* No request claims a player while the loop of its process hands them back.
\* Background work keeps to it, because Owns claims only what nobody has in
\* Redis and the hand-back deletes the key last.  Nothing in Release keeps a
\* login from it.
HandBackUndisturbed ==
  \A r \in Request : pc[r] \in ClaimPC => arg[r] \notin Leaving(home[r])

\* RR-20260920-04: whoever the gate lets write owns the player in Redis at
\* that moment, although the gate never asks Redis.
AdmissionSound ==
  \A i \in Proc, p \in Player : Admit(i, p) => owner[p] = i

\* AdmissionGuard: work that was let in ends before the lease can lapse, be
\* taken, or be handed back.
WorkProtected ==
  \A i \in Proc, p \in Player : txn[i][p] # "idle" => owner[p] = i

\* RR-20260920-09: no transaction runs on a copy another process has written
\* past; its commit would be the "fatal projection version conflict".  The
\* code breaks it: a renewal reopens a window whose copy no claim has dropped.
NoStaleWrite ==
  \A i \in Proc, p \in Player : txn[i][p] = "running" => copy[i][p] # "stale"

\* What Claim keeps of it: a claim across a gap takes the player into service
\* only without the copy from before the gap, however long the drop took and
\* whoever else asked for it.
GapDropsCopy ==
  \A w \in Worker :
    pc[w] \in {"dropped", "confirm"} /\ ~continuous[w] =>
      copy[Home(w)][arg[w]] # "stale"

\* "a Player is written only by the process that owns it": the gates of two
\* processes are never open on one player at once.
OneWriter ==
  \A i, j \in Proc, p \in Player : Admit(i, p) /\ Admit(j, p) => i = j

\* handBackIdle: "the copy goes FIRST, the claim second".  When the key is
\* about to go, nothing of the player is left in the process.
NoCopyLeftBehind ==
  \A i \in Proc : pc[i] = "release" =>
     /\ copy[i][arg[i]] = "none"
     /\ txn[i][arg[i]] = "idle"

\* RR-20260920-03: a lease is extended only by a step of the process whose
\* token it carries.
ForeignLeaseUntouched ==
  [][\A p \in Player :
       /\ owner[p] # None /\ owner'[p] = owner[p]
       /\ ttl'[p] > ttl[p]
       => \E w \in Worker :
            /\ Home(w) = owner[p]
            /\ \/ pc'[w] # pc[w]
               \/ w \in Proc /\ renewal'[w] # renewal[w]]_vars

\* The abstract promise, with "may write p" read off the gate.
Ownership == INSTANCE PlayerOwnership WITH
  admitted <- [p \in Player |-> {i \in Proc : Admit(i, p)}]

OwnershipSpec == Ownership!Spec

\* RR-20260920-10: a process does not sit on a player for ever.  It keeps the
\* lease only while somebody is connected or it is used again and again.
IdleLeaseHandedBack ==
  \A i \in Proc, p \in Player :
    []<>(\/ owner[p] # i
         \/ txn[i][p] # "idle"
         \/ p \in session[i]
         \/ \E r \in Request : home[r] = i)
=============================================================================
