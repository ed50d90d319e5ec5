---------------------------- MODULE PlayerRoute ----------------------------
(***************************************************************************)
(* The shared ownership table of demo/game/playerroute: one Redis key per  *)
(* player whose value names the process that owns the player, with a lease *)
(* on it.  Every command is one atomic step of Redis; the calls of Store   *)
(* that need several commands are sequences of steps of the module that    *)
(* uses this one.                                                          *)
(*                                                                         *)
(* A member of Proc is one INCARNATION of a game process: it is the token  *)
(* of Route, and SidOf gives its server id.  Two incarnations of a server  *)
(* that restarts share a sid and differ as members of Proc.                *)
(***************************************************************************)
EXTENDS Naturals

CONSTANTS
  Proc,      \* process incarnations (the token half of a Route)
  SidOf,     \* the server id of an incarnation (the sid half)
  Player,    \* player ids
  None,      \* "nobody": the zero Route
  Lease,     \* playerroute.Lease, in ticks
  MaxFaults  \* bound: how many commands get no answer in a behaviour

ASSUME RouteAssumption ==
  /\ None \notin Proc
  /\ Lease \in Nat \ {0}
  /\ MaxFaults \in Nat

VARIABLES
  owner,  \* owner[p]: the incarnation the key of p names, or None
  ttl,    \* ttl[p]: ticks until that key expires
  faults  \* commands that failed so far

tableVars == <<owner, ttl>>
routeVars == <<owner, ttl, faults>>

RouteTypeOK ==
  /\ owner \in [Player -> Proc \cup {None}]
  /\ ttl \in [Player -> 0..Lease]
  /\ faults \in 0..MaxFaults

RouteInit ==
  /\ owner = [p \in Player |-> None]
  /\ ttl = [p \in Player |-> 0]
  /\ faults = 0

(***************************************************************************)
(* What a caller can see of a command: its answer ("ok"), or an error that *)
(* hides whether Redis applied it ("unanswered") or not ("failed").        *)
(***************************************************************************)
Reply ==
  IF faults < MaxFaults THEN {"ok", "unanswered", "failed"} ELSE {"ok"}

Applied(reply) == reply # "failed"

Answered(reply) ==
  faults' = IF reply = "ok" THEN faults ELSE faults + 1

(***************************************************************************)
(* A name that starts with Faulty is a wrong variant of the operator after *)
(* it, a slip the code could plausibly contain: with it in place of the    *)
(* operator some property below must fail.                                 *)
(***************************************************************************)

\* SET with an expiry, instead of SET NX.
FaultySetNX(i, p, reply) ==
  /\ IF Applied(reply)
       THEN /\ owner' = [owner EXCEPT ![p] = i]
            /\ ttl' = [ttl EXCEPT ![p] = Lease]
       ELSE UNCHANGED tableVars
  /\ Answered(reply)

(***************************************************************************)
(* SetNX takes a key nobody holds; the first caller wins.                  *)
(***************************************************************************)
SetNX(i, p, reply) ==
  /\ IF Applied(reply) /\ owner[p] = None
       THEN /\ owner' = [owner EXCEPT ![p] = i]
            /\ ttl' = [ttl EXCEPT ![p] = Lease]
       ELSE UNCHANGED tableVars
  /\ Answered(reply)

(***************************************************************************)
(* Get reads the key and changes nothing.                                  *)
(***************************************************************************)
Get(reply) ==
  /\ Answered(reply)
  /\ UNCHANGED tableVars

\* EXPIRE on whatever key is there: RR-20260920-03.
FaultyCompareAndExpire(i, p, reply) ==
  /\ ttl' = IF Applied(reply) /\ owner[p] # None
              THEN [ttl EXCEPT ![p] = Lease]
              ELSE ttl
  /\ UNCHANGED owner
  /\ Answered(reply)

(***************************************************************************)
(* CompareAndExpire extends the key while it still names exactly i.        *)
(***************************************************************************)
CompareAndExpire(i, p, reply) ==
  /\ ttl' = IF Applied(reply) /\ owner[p] = i
              THEN [ttl EXCEPT ![p] = Lease]
              ELSE ttl
  /\ UNCHANGED owner
  /\ Answered(reply)

(***************************************************************************)
(* CompareAndDelete removes the key while it still names exactly i.        *)
(***************************************************************************)
CompareAndDelete(i, p, reply) ==
  /\ IF Applied(reply) /\ owner[p] = i
       THEN /\ owner' = [owner EXCEPT ![p] = None]
            /\ ttl' = [ttl EXCEPT ![p] = 0]
       ELSE UNCHANGED tableVars
  /\ Answered(reply)

(***************************************************************************)
(* One tick of Redis's clock: a key whose lease runs out is gone.          *)
(***************************************************************************)
RouteTick ==
  /\ owner' = [p \in Player |-> IF ttl[p] <= 1 THEN None ELSE owner[p]]
  /\ ttl' = [p \in Player |-> IF ttl[p] = 0 THEN 0 ELSE ttl[p] - 1]
  /\ UNCHANGED faults

(***************************************************************************)
(* The comparison PlayerOwners.Claim makes on the Route it got back: server *)
(* ids only, the token is not looked at.                                   *)
(***************************************************************************)
SameSid(i, j) == j # None /\ SidOf[i] = SidOf[j]
=============================================================================
