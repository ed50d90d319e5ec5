# Verification of roost-codegen

This directory holds TLA+ models of roost-codegen: of the commands that generate and change a
project, of what the generators write and what that code does, and of the protocols between
processes, goroutines and Redis in the game server they emit. TLC checks the models on small
instances; TLAPS proves the central invariants for every value of the constants.

1. [The system](#1-the-system)
2. [The modules and the code](#2-the-modules-and-the-code)
3. [The runs](#3-the-runs)
4. [Bounds and fairness](#4-bounds-and-fairness)
5. [What is proved](#5-what-is-proved)
6. [Where the code and its comments disagree](#6-where-the-code-and-its-comments-disagree)
7. [What is not modelled](#7-what-is-not-modelled)
8. [Plan](#8-plan)

## 1. The system

roost-codegen is a generator. Half of it (`internal/`, `cmd/`) reads marked Go source, tables
and protocol files and writes code; the other half (`demo/`, and the `render_*` files of
`internal/roost`) is the program it writes: a game server of several processes that share
MongoDB, Redis and NATS, with a framework (roost-core, roost-kit) that is not in this
repository. Three kinds of behaviour are worth a model:

- the **tool**: commands that copy a project, generate in the copy and bring the result back file
  by file, while a developer and other commands work on the same project;
- the **generated code**: setters that keep a log of undo and patches, codecs and senders whose
  two ends are printed apart, formulas that have to settle;
- the **emitted server**: leases, sessions, replication and spawning, with everything concurrent.

### Components, their state and what makes them correct

| component | state | operations | correct when |
|---|---|---|---|
| **Route table** `demo/game/playerroute` | one Redis key per player: sid, address, token, expiry | `Claim`, `Refresh`, `Release`, each one or two Redis commands | a key is extended or deleted only by the process whose token it carries |
| **Player owners** `service/game/playerowner` | per process: lease deadlines, `interrupted`, `handingBack`, `lastUsed`, evictions under way | `Claim` (login), `Owns` (background consumer), `Admit` (each transaction), the refresh loop, hand-back, `Release` | a player is written by one process at a time, from a copy nobody has written past, and no process keeps a player for ever |
| **Interest system** `game/scene/runtime/interest`, `relations` | spatial index, claims per (observer, subject), retry queue, relation events | `Enter`, `Move`, `Leave`, `Show`, `Hide`, relation `Set` and `Forget`, `Tick`, `SubscribeFailed` | no claim is lost or counted twice; a refused subscribe is said again |
| **Scene bridge** `service/game/scene` | members of the scene; subscriptions of the replication room | `Join`, `Moved`, `Leave`, `SetTeam`, `ShowSubject`, `HideSubject`, watching session closes | the room has the subscriptions the interest system believes in; the members are the players who are online |
| **Refresh system, spawner** `game/scene/runtime/refresh`, `service/game/spawner` | spawn table, monsters counted, respawn timers; monsters filed, entities, subjects | `Due`, `Spawned`, `Died`; `refill`, `Kill`, `drain` | no group outgrows its table or skips a respawn delay, none stays short, no monster is left behind |
| **Player TCP** `internal/roost/render_player_tcp`, **presence** `service/game/presence` | connection and handshake slots, sessions by id and by player, a bounded queue of close events; the set of the online | accept, handshake, register and replace, `CloseSessions`, `Stop`; entering the channel, a closed session | every slot is given back once, the tables hold who is served, whoever is gone is let go of, `Stop` leaves nothing |
| **Player access** `internal/roost/render_access`, frames of `render_player_tcp` | registry, its snapshot, middlewares, write gate; sequence numbers, the socket | `Register`, `RegisterEncoder`, `Seal`, `Dispatch`, reply, push, `Close` | a handler runs inside every middleware once, nothing is replayed, frames do not mix |
| **Project commands** `internal/roost/project`, `generate`, `add` | `roost.yaml`, the project's files, the staged copy, the plan and what of it is applied | `new`, `sync`, `deps`, `generate`, `--check`, `add` | no work of the developer is lost; all files or none; success means current |
| **Generated data objects** `internal/dao/template_*` | the object, who reports to whom, dirty marks, undo log; the stored document, the client | setters, rollback, mutation, client fields, migration on load | a change reaches the store and the client under its place, a rollback undoes it all |
| **roost generate** `internal/roost/generate` | declarations, outputs, the staged copy | the ten generators in order, `--changed`, `--check` | outputs are what the declarations call for, `--check` tells the truth |
| **The generators** `internal/attribute`, `registry`, `eventgen`, `webroute`, `entity`, `nest`, `dao`, `protocol`, `servicerpc`, `tablegen`, `errcode` | none between runs | parse, refuse, write | what is written does what the declarations say |
| Matchmaker `service/game/matchmaker`, `game/matchmaking` | the queue of the match service | read candidates, form groups, `Commit`, open a battle | a ticket is matched once |
| Battles `service/game/battle` | rooms, each a goroutine with a bounded command queue | `Open`, `submit`, settle, grace, `Close` | a caller is always answered; a result is settled once |
| Gift saga `service/game/gift_saga`, `handler/gift_*` | saga records, receipts in the two players' documents | start, debit, deliver, refund, hand-over | an item is moved once or given back once |
| Reward ledgers `purchase_drain`, `handler/claim_*` | pending grants in Redis, ledgers in the player's document | drain, claim | each grant is paid once, whatever crashes between ledger and delete |
| Activity windows `service/game/activity`, World timers | windows, board, dispatches, timers that survive a restart | open, contribute, settle, acknowledge | a settlement's mail goes out once and names the right board |
| the rest | see `PROJECT.json`, `components` | | |

The components in bold have a module.

### How they interact

- A **login** runs `PlayerOwners.Claim` before the session is admitted; every **transaction**
  on a player asks `Admit`, which answers from a deadline in memory and never asks Redis.
  Background consumers (gift saga, mail) ask `Owns`, which claims the player if nobody has it.
- The **refresh loop** of a process is one goroutine: it renews every lease, deals with the
  ones that are gone (`fence` closes the player's sessions), and then hands idle ones back.
  Dropping a player's entity waits for the entity's mutex, hence for its transaction, on a
  goroutine of its own.
- A **session that closes** goes through the TCP server's event queue to `Scene.watchSessions`,
  to presence and to the chat rooms. `Scene` starts a goroutine per close.
- A **frame** that is read goes through the protocol registry and its middlewares, the write gate
  among them; its reply and the pushes of other goroutines share the socket.
- **Join, Moved, Leave, SetTeam** and the spawner change the interest system under its mutex,
  then apply what its `Tick` said to the room with no lock held.
- The **spawner** asks the refresh system what is due, creates entities, shows them through the
  scene bridge, files them and reports them back. GM commands kill from other goroutines.
- A **handler** changes data objects through generated setters inside a transaction of Nest; the
  mutation of the object is what is stored, and the marks are what the client is sent.
- A **command** of the tool copies the project, renders templates from `roost.yaml` and runs the
  generators in the copy, each on what the ones before it wrote, compares what it read with the
  project, and replaces the files that differ.

### What is hard to test here

Deadlines that run on in one process while Redis and another process move on; a step between
two Redis commands; evictions that outlive the wait for them; a process that dies and comes
back on the same server id; two goroutines that apply two answers of one `Tick`-ed system in
the wrong order; a notice that is acted on after the state it was about has changed; a failure
between two of four registrations; a session replaced at any of a dozen points of its teardown;
sequence numbers that wrap; a file edited while a copy of it is being worked on, and a rollback
that meets files it did not write; a nested value moved between places of an object and rolled
back. `PROJECT.json`, `hazards` lists them at their lines with the properties that would catch
them.

## 2. The modules and the code

| module | models | lines |
|---|---|---|
| `PlayerRoute` | the Redis commands and Redis's clock | `playerroute.go.tmpl` |
| `PlayerOwners` | owners, refresh loop, hand-back, evictions, transactions, crash and restart | `playerowner.go.tmpl` |
| `PlayerOwnership` | the abstract promise: gates open one process at a time | (abstract) |
| `InterestSystem` | interest system, relation sources, spatial index of roost-core (external) | `interest.go.tmpl`, `relations.go.tmpl` |
| `SceneBridge` | the bridge's calls as goroutines, sessions, the room (external) | `scene.go.tmpl` |
| `Population` | refresh system and spawner together, GM kills, reloads, shutdown | `refresh.go.tmpl`, `spawner.go.tmpl` |
| `PlayerTCP` | the listener, its connections and sessions, `Stop`, close events, presence | `render_player_tcp.go`, `presence.go.tmpl` |
| `PlayerAccess` | the protocol registry, the write gate, the frames of one connection | `render_access.go`, `render_player_tcp.go` |
| `ProjectFiles` | commands that change a project, beside each other and a developer | `project.go`, `generate.go`, `add.go`, `render.go` of `internal/roost` |
| `DaoObject` | one generated object over transactions, crashes and schema changes | `internal/dao/template_*.go` |
| `Generators` | the pipeline of `roost generate`, and the error codes | `generate.go`, `internal/errcode` |
| `AttributeGen`, `RegistryGen`, `EventGen`, `RouteGen`, `EntityGen`, `NestGen`, `DaoGen`, `ProtocolGen`, `RpcGen`, `TableGen` | one generator each: what it refuses, what it writes, what that does | its package under `internal/` |
| `ProtocolCodec`, `GeneratedCodec` | the codec the protocol generator writes, at run time, and what its messages owe; the only modules with RECURSIVE operators, apart from `Generators` so that it can be proved about | `internal/protocol/gen.go` |
| `Ordered` | sets in an order (`sort.Slice` over the keys of a map), what a loop keeps of a slice | (helpers) |
| `MC*` | constants for TLC | |
| `*_proofs` | theorems about the module of that name | |

`PROJECT.json`, `map` gives each definition its lines.

**PlayerRoute, PlayerOwners.** `owner[p]` and `ttl[p]` are the key of player `p`: the process
incarnation whose token is in it (so a restarted process is a new member of `Proc`; `SidOf` says
which incarnations share a server id), and the ticks until it expires. A command succeeds, is
lost before it is applied, or is applied and its answer lost (`MaxFaults`). A *worker* is the
refresh loop of a process or a request goroutine; `pc` and `arg` say where it is. A step is what
the code does between two points where it holds no lock: one Redis command, one critical section
of `owners.mu`, one wait of `dropResident`. Thus `Claim` is `ClaimAdmit` (playerowner:701-713),
`ClaimSetNX`, `ClaimGet`, `ClaimExpire` (the two or three commands of `Store.Claim`),
`ClaimDrop` / `ClaimNotDropped` (`dropResident` and its timeout), `ClaimConfirm`. A pass is
`BeginPass`, `RefreshOne` per player, `RenewalHeld` / `RenewalError` / `RenewalGone`,
`SelectIdle`, `HandBackNext`, `HandBackKeep`, `ReleaseLocal`, `ReleaseKey`, `EndPass`.
`EvictOk`, `EvictFail`, `EvictReport` are the goroutine of `runEviction`. `copy[i][p]` is the
resident entity of the framework, which becomes `"stale"` when another process commits.
Time is discrete: `left` is `validUntil - now`, `idle` is `now - lastUsed`; every deadline is
kept as ticks that remain, so no clock grows.

**InterestSystem, SceneBridge.** The methods of the interest system are operators, each the
critical section it is in the code. `Tick` folds one event at a time with the mutex held, so
that relation sources, which have mutexes of their own, can move under it as they can in the
code. A `Caller` is a goroutine in one call of the bridge; a call that needs one waits for the
mutex (`mu`). What `Tick` said is in `changes[w]`, local to the caller, and is applied to the
room one change at a time with nothing held. `Disconnect` closes a session and adds a notice,
or loses it on a full queue (render_player_tcp:455-461);
`Closed` is the `watchSessions` handler: it asks `ActiveSessions` and starts the goroutine of
`Leave`. `PushFails` is `dropAsync`. `subs` and `registered` are the room. A `Fault` is a dropped
notice or a call of the room that returns an error: `RegisterSubject` ends `Join` or `ShowSubject`,
`Subscribe` is reported to the interest system (`Refuse`), `Unsubscribe`, `RetireSubject` and
`UnregisterSubject` are logged. Histories say what went wrong, so that the properties can say what
may follow: `unnoticed` (gone, and the notice dropped), `unjoined` (online, and the room refused to
register them), `late` (online, and came while a `Leave` of theirs was under way), `stale`
(subscriptions the room would not end), `crossed` (pairs two callers had answers for at once).

**Population.** `refill` is `Pass` (which asks `Due` for every group), then `Create`, `Show` or
`ShowFails`, `File`, `Report` for each monster: the points at which another goroutine may run.
`Kill` is `Take`, `ReportDeath`, `HideKilled`, `DestroyKilled`. `Cancel`, `Collect`, `Drain` are
the stop function. Wherever the code destroys an Entity the destruction may fail (`DestroyFails`,
spawner:121, 145, 158); `undestroyed` are the Entities it was said of. `Reload` replaces a row of the spawn table, `Switch` the kill switch. A
respawn timer is `"waiting"` until `Elapse` makes it `"due"`.

**PlayerTCP.** `pc[c]` is the goroutine of a connection, from the accept loop that counts it in
(`Admit`, with all three limits) over the handshake slot, authentication, the acknowledgement,
`Register` and `Replace` (which closes the session it replaced outside the lock), to the deferred
`Unregister`, `Publish`, `Teardown` and `Release`. `sessions` and `playerSessions` are the two
tables. `SnapshotSessions` and `CloseKicked` are `CloseSessions`: what it found under the lock is
closed after it. `Unlink`, `StopLocked`, `CloseListener`, `CloseConnections`, `AwaitGoroutines`,
`Stopped` are `Mod.StopWithContext` and `Server.Stop`, which may run out of time. `TakeEvent`,
`LeaveLoop` are the dispatcher, which drains the queue when it is cancelled; `AskActive` and
`RemovePresence` are its subscriber, two steps because another session may open in between.

**PlayerAccess.** `Use`, `Register`, `RegisterEncoder`, `Seal` build the registry while requests
already arrive: `LoadSnapshot` is the lock-free read, `ReadLocked` what a request does that found
none. `chain` is the rest of the middlewares around the handler of the request, `passed` those it
went through. `FindGate` and `Admit` are the gate that is looked up lazily and remembered. A frame
read (`Receive`) passes `int32(sequence - lastSequence) > 0`, in a space of `Width` numbers;
`Reserve` and `ReserveAgain` skip zero in the push counter. `writing` is who holds `writeMu`; a write
that its deadline cuts off may leave half a frame, after which a reply closes the session and a push
does not (`EndReply`, `EndPush`; `torn` and `lost` keep the record). A handler that panics is
recovered; the decoder and the encoder run outside `RecoverMiddleware` (render_access:255, 270), so
a panic of theirs ends the process (`Decode`, `Encode`).

**ProjectFiles.** A file has a role, as the code treats roles differently: an input the generators
read, an output of a generator, a template the tool owns (some of them `Overwritable` although
edited), a seed that is rendered once, a dependency file. `roost.yaml` is `manifest`. A command
is `Load`, `Copy`, `Render`, `PlanCommit`, `Verify`, `Replace` per file, or `PutBack` per file when
one cannot be replaced; `add` first scaffolds and declares, and undoes both when what follows
fails (`Undeclare`, `Restore`). `Edit` and `EditYaml` are the developer, `Crash` a kill. `seen` is
a ghost: what a command found and what others touched since, so that the properties can say whose
a file is.

**DaoObject.** One object with a field of each kind the generator has: a scalar, a nested pointer,
a map and a slice of nested values, and a nested value with a nested pointer of its own.
`mem.at` is which value is where, `mem.owner` where each value reports to (`daoBindDirty`).
Setters are atomic, as they run under the entity's lock; each leaves its inverse in the undo log.
`Prepare` is `PrepareMutation`. A transaction that fails runs its undos, last first, one a step
(`RunUndo`), and then is over (`Rollback`), which in the other policy restores the state it copied.
`Restart` is a crash or a deployment of the other schema, `Load` the migration.

**Generators** and the ten. A behaviour starts from a project that is generated and committed,
picks the kind of declarations it edits (`focus`) and moves between the forms `MCGenerators` lists
for it, some of them refused. `Start`, `Step` per generator, `Publish` or `Fail` are a run in the
staged copy (`todo` are the generators still to run; the next is the first of them in the order of
`generate.go`), `Check` compares, `RemoveFile` removes an output. Both `Publish` and `Check` see of a
project what `snapshotGenerated` does (generate.go:430-456), which leaves the CSV templates of the
tables aside, as they carry no marker (`Unmarked`). A generator's module says when it
refuses and what its outputs hold; the outputs are then evaluated: the generated `Update` of an
attribute profile on all small values, the codec on sample messages between peers of two versions,
the sender of a handler against its wrapper, the remote commit of an entity on all subsets of
changes, the two readers of a table on its rows. `PathOrder` are the package paths in string order
and `Numerals` what `fmt.Sprintf("%d")` prints from 2 on, since names that clash get a numeral.

Two assumptions say what `Declarations` may be, and TLC evaluates both on the run's.
`DeclarationsAssumption` is about the project: the first form of each kind is one the generator
accepts, as a behaviour starts from a generated project; a hand-written file lies where no accepted
form has an output, since generators overwrite what does (section 6); an edit of the configuration
that changes a table's schema is one of `configs/schema`. `SourcesAssumption` is about
declarations as Go parses them: what comes from a file is a list, a package declares a name once and
finitely many, positions and codes are numbers, two functions of a package at one position are
one, and a struct has a name, lies in a file and lists its fields. It also gives `Numerals` more members than there are packages and reserved names, as the
counter that prints them in the code does not end.

## 3. The runs

| run | instance | what it shows |
|---|---|---|
| `owners_background` | 2 processes, fencer, no logins, 2 faults, 1 crash; 308k states | with hand-back on, a key is deleted only when no copy and no transaction of the player is left (`NoCopyLeftBehind`), and no background claim meets a hand-back of the same player (`HandBackUndisturbed`) |
| `owners_logins` | 2 processes, logins, transactions of a tick, evictions that outlive the wait for them, no fencer, 3 faults, 1 crash; 1.2M states | an open gate means ownership in Redis (`AdmissionSound`), there is one writer (`OneWriter`), admitted work ends before the lease can lapse (`WorkProtected`), a claim across a gap leaves no copy from before it (`GapDropsCopy`), nobody extends a foreign lease (`ForeignLeaseUntouched`), and the gates implement `PlayerOwnership` (`OwnershipSpec`) |
| `owners_gap` | 2 processes, background work, 4 faults, 1 crash | expected to fail: a transaction runs on a copy another process has written past (`NoStaleWrite`, section 6) |
| `owners_hand_back` | 1 process, fair; 53k states | an unused lease does not stay for ever (`IdleLeaseHandedBack`) |
| `scene_serial` | 2 players, a monster, 2 positions, teams, one call at a time, 1 failure, fair; 329k states | between calls the room agrees with the interest system, but for what it refused to end, and whoever is online and was registered is in the scene; nothing crosses (`SerialAgrees`); a player whose last session closed leaves although nothing is pushed to them, and if the notice was dropped, when the next player joins (`GhostsLeave`) |
| `scene_calls` | 2 players, 2 goroutines, teams, 2 logins; 2.3M states | under interleaving the same agreement, except for pairs whose answers crossed and players who came back while they were leaving (`SceneAgrees`); the retry queue is exact (`QueueExact`), and no claim of a pair is lost or counted twice, with the grid and a team claiming it at once (`ClaimsCounted`) |
| `population` | 1 row of 0, 1 or 2, 2 killers, 1 failure (of a creation, a showing or a destruction), 1 reload, fair; 1.2M states | `RespawnRespected`, `NoOrphans`: what is shown is filed and exists, and what exists beside it is what could not be destroyed; `SlotsRefilled` |
| `player_tcp` | 2 connections of one player, 1 or 2 session ids, a queue of 1, a stop at any point, fair; 270k states | slots and tables are exact (`Bookkeeping`), a stop that returns nil leaves nothing (`StopComplete`), whoever maintains an online set from close events lets go of everybody who is gone, unless an event was dropped or the stop ran out of time (`PresenceConverges`) |
| `player_access` | 2 protocols that claim one answer, 6 sequence numbers, 2 pushers, writes that are cut off, fair; 532k states | a handler runs inside every middleware and admitted, in a registry that is whole (`HandlersGuarded`), frames stand apart under numbers that tell them apart, and behind half a frame only where a push was cut off or the session is about to close (`FramesApart`), nothing is dispatched again (`NoReplay`), a request is answered, dropped by its handler, or ends the connection or the process (`RequestsEnd`) |
| `project_files` | 7 files, 2 processes, 3 commands, edits, failures or kills; 391k states | no command replaces the developer's source (`WorkKept`) or loses a declaration (`DeclarationsKept`), success means current (`SuccessMeansCurrent`), failure leaves everything as it was (`AllOrNothing`), all end (`CommandsEnd`) |
| `dao` | 2 values, 1 gem, 2 keys, 2 transactions of 3 setters, either policy, 1 fault; 681k states | a value reports to the one place that holds it (`ReportsToItsHolder`), store and client follow the object (`StoredIsObject`, `ClientIsCurrent`), a rollback restores content and reporting (`RollbackRestores`) |
| `generators` | 10 kinds of declarations in up to 10 forms, 2 edits of one kind; 76k states | outputs follow the declarations and hand-written files are kept (`OutputsCurrent`), `--check` is right (`CheckIsTrue`), both of all that a snapshot sees, derived attributes settle (`AttributesSettle`), everything declared is wired once (`WiringComplete`), calls and messages arrive as they were sent (`CallsArrive`, `MessagesArrive`), what is stored is what was declared and changed (`DataKept`) |

Each property of a passing run has a mutant in `PROJECT.json`: a faulty version of one operation (a definition
`Faulty…` in the module, beside the real one, marked *Mutant*) with which the same run reports the
property violated.

## 4. Bounds and fairness

- *Processes, requests.* Two processes are what ownership is contested by; a third adds nothing
  to a table of one key except where a process restarts on its id, which the runs leave out
  (section 6). A process has its loop and one request goroutine beside it; the proofs have any
  number.
- *Ticks.* `Lease`, `Guard`, `RefreshInterval`, `EvictWait`, `PassLag`, `TxnTicks` keep the order
  of the code's 30 s, 5 s, 10 s, 5 s, not their ratio. A lease of 3 or 4 ticks is the shortest in
  which a claim, a gap, a renewal and a hand-back fit. `owners_background` has 5 and two faults:
  as with 30, 5 and 10 s, two renewals in a row may fail and leave the gate open. `owners_logins`
  has `EvictWait` 0, `TxnTicks` 1 and `Guard` 1, no lag of Redis and distinct server ids, so that none of
  the races of section 5 (`Unraced(TxnTicks)`) happens: where one does, its properties fail, as
  section 6 says. `owners_gap` has `EvictWait` 1, so that
  a renewal can come between taking the key and dropping the copy.
- *Faults.* `MaxFaults` lost commands or answers, `MaxCrashes` processes that die. Three faults are
  a whole lease of missed renewals, which is what a gap needs; `owners_gap` has a fourth, for the
  renewals missed while the other process holds the player.
- *Scene.* Two players at the positions 0 and 3 are in view of each other or not; the band between
  the radii, in which a claim of the grid stays, is left out. A team is a pair, as `GroupSize` 2 of
  both queues is. `MaxNotices` bounds close notices of one player in flight, `MaxFaults` dropped
  notices and failing calls of the room. The serial run has all calls, all sources and a failure.
  The concurrent one keeps everybody in one place, where the grid claims each pair, and lets the
  matchmaker claim it too and take it back, so a pair has two claims, and one of them may come, go
  or be folded while the other does. `MaxLogins` 2: both players, or one who comes back while the
  `Leave` of the first session is under way. Failures it leaves to the serial run and the proof.
- *Population.* `MaxId` 4 lets a group of two be filled, killed and filled again. `MaxFaults` counts a
  destruction that fails after `ShowSubject` failed with it, as the one thing that went wrong.
- *Player TCP.* Two connections replace each other, and a queue of one is full with the second
  event. One host and limits of two: the limits are exact or not with any number, but a third
  connection that is refused does not occur.
- *Player access.* `Width` 6 is the smallest space in which half a space ahead, half behind, zero
  and a wrap are all different. `Pushed` 4: a session that pushed a lot, whose three next numbers
  are the last, zero, which is given to nobody, and the first. Any number of writes may be cut off.
- *Project files.* `MaxEvents` 3: a command, a second one beside it, and an edit, a failure or a
  kill at any step, or three commands one after the other. Two command slots, because one command
  looks at the project as a whole and what surprises it is somebody else.
- *Data objects.* Three setters reach a move between two places, a change two levels down and a
  removal, in one transaction or over two. One fault: a failed commit, a crash or a deployment.
- *Generators.* Two edits with runs between them: there and back, or from accepted to refused and
  on. A behaviour edits one kind of declarations, since generators share only the registry's
  markers, which every kind changes.
- *Deadlock* is checked where the system never stops. It is not checked in `population`,
  `player_tcp`, `player_access`, `project_files` and `dao`, where a process shuts down or the bounds
  are used up.

Fairness is what the Go runtime and the operators owe, and nothing else:

- `PlayerOwners`: time passes and a goroutine that can run does. Ticks and evictions are strongly
  fair: `Tick` is disabled again and again by steps that take no time, and an eviction may fail,
  but not for ever. Logins, crashes and disconnections are not owed.
- `SceneBridge`: a call that was made goes on (WF). `Closed` is strongly fair because the code
  starts a fresh goroutine per close and so never waits for a free one, while the model's
  `Caller` are few. Nobody has to log in or move.
- `Population`: the loop, the stop function and a `Kill` under way go on, respawn delays pass.
  `SlotsRefilled` holds its breath for the kill switch: only if it stays on from some point.
- `PlayerTCP`: a goroutine that can run does; waiting for a handshake slot and reading the ticket
  end with their deadlines, and a read on a closed socket fails. Nobody has to connect, to send a
  frame or to stop the server.
- `PlayerAccess`: a request that was read is served and a write ends with its deadline (WF). The
  write lock is taken with strong fairness: `sync.Mutex` hands itself to who has waited long.
- `ProjectFiles`: a command that was started and not killed goes on (WF), whatever others do.
- `DaoObject`, `Generators`: none; their properties are safety.

## 5. What is proved

`PlayerOwners_proofs` (any processes, players, requests, timings and bounds):

- `TypeCorrect`: `TypeOK`.
- `LeasesRespected`: `ForeignLeaseUntouched`, with no assumption on timing.
- `GateSound`, `SingleWriter`, `OwnershipImplemented`: `AdmissionSound`, `OneWriter` and the
  refinement of `PlayerOwnership`, for every behaviour of `Spec` that keeps to `Unraced(0)`, with
  no assumption on timings, server ids, lag or faults. The four parts of `Unraced(D)` are the four
  races by which the code gives ownership away, each said of the step at which it happens:

      Timely(D)       a claim confirmed, a renewal believed with D ticks of the guard band left
      AnswerStands    what Store.Claim read of the key still stands when it extends the lease
      NoKeyInherited  no claim finds the key of another process on its own server id
      ReleaseAlone    no request is claiming a player whose key its process deletes

  All four are possible in the code (section 6), and with any of them a gate is open that Redis
  does not bear out. What the theorems say is that there is no fifth: whatever else processes,
  Redis and goroutines do, a gate that is open is an owner's.
- `GuardProtects`: `WorkProtected`, for behaviours of `Unraced(TxnTicks)` in which, besides, no request
  confirms a player who is being handed back (`ConfirmsAside`), if a transaction is not longer than
  the guard band and than the time a player is idle before it is handed back.
- What the code has to do with the races. `BudgetsSuffice`: `EvictWait + D <= Guard` and
  `PassLag + D <= Guard` exclude lateness. The first holds of the code with D = 0, since
  `evictBudget` and `AdmissionGuard` are both 5 s, so `Timely(0)` is left to the answers of Redis;
  it leaves nothing for a transaction. `UndisturbedSuffices`: `HandBackUndisturbed` excludes both
  races of a hand-back; it holds of background work while at most two renewals in a row fail
  (`owners_background`: `Owns` claims only what nobody has, and the gate is still open when a
  hand-back begins), and not of logins. `NoHandBack`: without a fencer no request ever meets a
  hand-back. Two server ids that differ exclude the inherited key until a process restarts.

  `AdmissionSound` is not inductive: that the gate is open says nothing about the key until one
  knows that it was opened by a confirmed claim or renewal. `GateInv(D)` adds that: the window of
  an open gate lies inside the lease with D ticks to spare (`GateOf`), a worker between winning a
  claim and confirming it holds the key (`ClaimOf`), a renewal Redis granted and the pass has not
  handled holds it too (`RenewalOf`), and when a key is about to be deleted the window is closed
  (`ReleaseOf`). The proof shows that only `Tick` shortens anything and that it shortens both
  sides alike, that only `ClaimConfirm` and `RenewalHeld` open a gate, and that both do so with
  the key in hand. `WorkInv` adds what admitted work needs: it ends inside the lease (`WorkOf`),
  a player with work was wanted more recently than a hand-back asks (`IdleOf`), and none is
  running for a player who is being handed back (`LeaveOf`).

- `CopyGoesFirst`: `NoCopyLeftBehind`; `GapsDropCopies`: `GapDropsCopy`, both of the behaviours
  of `GuardProtects`. On top of `WorkInv`,
  `CopyInv` says that an eviction which reported success and whose copy is there again was followed
  by work of the owner, too recent for a hand-back (`DroppedOf`), that a hand-back which was told
  the copy is gone has none behind it (`GoneOf`), and that a claim which was told so finds no copy
  from before the gap, while one that was not told renews a lease it never lost (`ResumeOf`).

`SceneBridge_proofs` (any players, monsters, goroutines):

- `TypeCorrect`, `RetryQueueExact`, `NoClaimLost`, from `SceneInv`: the types; which calls may be
  at which step (`JoinOK`); the retry queue is exact between ticks and never misses a pair inside
  one (`QueueInv`); and every relation's events on the way, those in the batch of a running
  `Tick` followed by the pending ones, alternate and lead from what the system holds to what the
  relation says (`CountInv`). `LeadAppend` and `LeadTail` say that setting a relation and folding
  an event keep that.
- `SceneFollows`: `SceneAgrees`, for any number of goroutines, failures, positions and teams. For a pair
  that has not crossed, at most one caller has something to say to the room; what it has not
  applied yet alternates, fits what the room has, and ends with what the system believes, and with
  nothing left to say the two are the same (`PairInv` in `RoomInv`). `Retire` and `Unregister` may
  drop what another caller has just subscribed, and then the pair has crossed. For players: who is
  about to be taken out is offline or `late` (`LeaverInv`), a player is in both tables of the index
  and sees itself, or neither (`IndexInv`), and whoever is online and neither `unjoined` nor `late` is
  a member who sees itself, or in the middle of `Join` (`PresentInv`), where the claim on itself
  waits for the `Tick` of the same call (`PendInv`).

`Population_proofs` (any spawn table, operators, bounds):

- `TypeCorrect`, and `RespawnBound`: `RespawnRespected`, from `PopInv` (the types, nothing wanted
  while the loop rests, and the bound itself). A granted slot is paid for by a missing member or
  by a spent timer (`DueBound`), a death trades a member for a timer (`DeathBound`).
- `NothingOrphaned`: `NoOrphans`, from `OrphanInv`: for every monster, where it is (file, entities,
  room) is what the step of the one goroutine that handles it says (`PlacesAgree`), no two
  goroutines handle one monster (`PlacesApart`), and an Entity that could not be destroyed is in no
  table and in no goroutine's hands, whichever of the three destructions it was.

`PlayerTCP_proofs` (any connections, players, hosts, limits, queue):

- `BooksKept`: `Bookkeeping`, and `StopIsComplete`: `StopComplete`, from `ListenerInv`: the types and
  which fields are set at which step (`ShapeInv`); each registered connection is in the table, or
  closed, or about to be closed by the one that replaced it, and a table names only who is served
  under that session (`TablesInv`); each counter is the number of connections between the step that
  takes and the step that gives back (`LimitsInv`); and what a stop may say when (`StopInv`).
  `LimitsAssumption` is what the configuration's validation asks.

`PlayerAccess_proofs` (any protocols, pushers, width of the number space), from `AccessInv`:

- `HandlersRunGuarded`: `HandlersGuarded`. What a request has passed and what lies ahead of it are
  together the layers in their order, in one of the three ways `Seal` and the slow path compose them
  (`RegistryInv`, `RequestInv`).
- `NothingReplayed`: `NoReplay`. The distance to a number that was dispatched is how far the
  counter went since, modulo the width (`MarkInv`). `WidthAssumption`: even, as 2^32 is.
- `FramesStandApart`: `FramesApart`. Who holds `writeMu` is alone on the socket; half a reply sends the
  loop to the close with no read and no reply in between, so a frame behind half a frame is there for
  half a push or just before the close (`TornInv`). A pusher's number is as far behind the counter as numbers were
  taken since, so two pushers have one number only if `Width` were taken (`PushInv`), which
  `PushesAssumption` excludes: fewer than 2^32 pushes are made while one waits.

`ProjectFiles_proofs` (any files, roles, numbers of commands and events):

- `FilesSound`: `FilesInv`, which is inductive. Per command: its step fits its kind and what it has
  replaced (`CmdOf`), the copy is the developer's where the project is (`StagedOf`), a plan holds no
  input and a seed only where there was none (`PlannedOf`), and every file it touched, and nobody
  else, holds what it planned, with what it found on record (`RecordOf`). A step of one command
  leaves all of that to the others except in files it touches, which their record notes.
- `FailureChangesNothing`: `AllOrNothing`; `CommandsKeepWork`: `WorkKept`; `DeclarationsStay`:
  `DeclarationsKept`, from it.
- `SuccessIsCurrent`: `SuccessMeansCurrent`, from `AloneInv` on top: a command that met nobody has
  copied what is in the project (`CopiedOf`), has rendered its outputs from it (`MadeOf`), and
  has settled every file before the one it is at (`SettledOf`).
- `RolesAssumption`: a file has one role, which the code's lists and paths give.

`DaoObject_proofs` (any values, gems, keys, items, stored documents and bounds), from `DaoInv`:

- `RollbackIsExact`: `RollbackRestores`; `HoldersAreTold`: `ReportsToItsHolder`; `StoreFollows`:
  `StoredIsObject`; `ClientFollows`: `ClientIsCurrent`. An object is `Good` when each value it reaches
  is in one place and reports to it. The undo log is a chain of states from what is in memory back
  to what the transaction found (`Undoes` in `LogUndoes`): each undo restores the state before
  its setter, even that of a setter which was refused with the slot already written (`UndoAssign`).
  Every path whose content has changed since is marked (`MarksCover`), and a mutation carries at every
  marked path what the object says (`MutationIs`); so the store, which had the object when the
  transaction began, has it when it ends (`StoreHas`), and so has the client (`ClientHas`).
  `StartAssumption`: the documents in the store are of the stored fields' types.

`Generators_proofs` (any declarations, features, hand-written files, number of edits that the two
assumptions of section 2 allow):

- `OutputsAreCurrent`: `OutputsCurrent`; `CheckTellsTheTruth`: `CheckIsTrue`, both of every output
  but the templates of the tables, which a run does not bring back and a check does not look at, and
  which therefore may be anything at all in between (section 6). What a run leaves
  depends on what it did not regenerate, so neither is inductive. `GenInv` adds: a generator whose
  directories git shows unchanged has current outputs unless an edit was missed (`Settled`), which
  is what entitles `--changed` to skip it; what a run that succeeded and what a check leave behind
  (`AfterRun`, `AfterCheck`); and of the copy of a running command, that the generators which have
  run are current in it, those which have not are as in the project, and nothing differs if there
  was nothing to do (`Copied`). It rests on every generator writing and sweeping below its own name
  only (`OutputsAre`), on a second run changing nothing, and on the registry, which reads the files
  of the others, running last.
- `ProfilesStaySettled`: `AttributesSettle`, for profiles of any size. The search for an order of
  evaluation is a function of the step: 2|order| + |open| grows by one with each, so it ends, and
  if it met no cycle each attribute stands after those its formula reads. The generated `Update`,
  which goes through that order once, then leaves nothing that a second pass would change.
- `EntitiesHoused`: an entity's wiring file, also one that nothing declares any more, lies in a
  package the registry looks at, and there are finitely many (`EntityInv`). `WiringIsComplete`:
  `WiringComplete`, from it. Sorting a finite set keeps each member once (`InOrder`); aliases of
  the aggregate are distinct because each takes the shortest ending of its path that is free, or
  else the first numeral that makes it so, and by the pigeonhole principle there is one; and each declared event handler, error code, entity and registration
  is then one row.
- `HandlersAreReached`: `HandlersReached`, the part of `CallsArrive` that is about Nest. The sender
  joins the ids of several lists of entities and the wrapper takes them apart again by the lengths
  alone. The run has up to two entities in a list; the proof has any number: entity i of a list
  stands in the joined ids behind the lengths of the lists before it (`JoiningPlaces`).
- Beside the list: `RemoteCommitsExact`, the part of `DataKept` that is about entities, and, for
  declarations that keep out of the clashes of section 6, that nothing of a data object is lost on
  the way to its file (`NothingIsLost`) and that calls come through (`CallsComeThrough`). The generators
  refuse no such clash, so these two say where the fault lies and nothing about the code as it is.

The `TypeOK` of `PlayerOwners`, `SceneBridge` and `Population` is proved and in no run. The other
modules' is part of a property of their run, except that of `ProjectFiles`, which no property needs.

*Only model-checked:*

- all liveness (`IdleLeaseHandedBack`, `GhostsLeave`, `SlotsRefilled`, `PresenceConverges`,
  `RequestsEnd`, `CommandsEnd`), since fairness and ENABLED are beyond the prover;
- `HandBackUndisturbed` with a fencer (`owners_background`), of which the theorems on ownership need
  what is said at the moment of a confirmation and of a delete;
- of the generators, what `MessagesArrive` says of bytes and `TablesLoad`. The codec recurses over
  messages that nest, and induction over data is beyond the prover. `CallsArrive` beyond the part about
  Nest, `NothingLost` and `TablesLoad` are true of the declarations the run has and not of all: with
  two parameters under one JSON key, or a result `[][]T`, a remote call is not the local one;
  `Hero` and `HeroDao` write one file; a data row that looks like a head row shifts one of the two
  readers of a table. Section 6 has them all.

## 6. Where the code and its comments disagree

The first point has a run of its own, `owners_gap`. Of the rest, where a property would fail on it,
the bounds or the shape of the run that leaves it out are named. "Says otherwise" means a comment or
a document does.

**Ownership** (`playerowner.go.tmpl`, `playerroute.go.tmpl`)

- `confirmRenewal` opens the window of every listed player whose key Redis renewed (:534), and a
  player whose lease lapsed while nothing fenced it stays listed. Between the `SetNX` of its next
  claim and the `dropResident` that follows, or after a drop that failed, the refresh pass renews
  the new key, clears `interrupted` (:561) and opens the gate: a transaction runs on the copy from
  before the gap, after another process wrote the player. Says otherwise: :712-714 (the copy has to
  go before this process writes again) and :728-729 (nothing refreshes a claim it does not confirm).
  `owners_gap` finds it as a violation of `NoStaleWrite`.
- `Claim` takes a key with its own server id for its own (:721, playerroute:149-152; says
  otherwise: playerroute:25-27). A process restarted on that id confirms the key of its
  predecessor, cannot extend it, and keeps the gate open over a key that expires and that another
  process takes. The runs have distinct ids.
- A claim's window is counted from its confirmation (:559; says otherwise: :242-246), which comes
  up to `evictBudget` = 5 s after the key was taken, as much as the whole guard band. In
  `owners_logins` the wait and the work fit the band together.
- A login that confirms a claim while `handBackIdle` waits in `dropResident` is not looked at
  again: `Release` (:506) deletes the key and the entry of a player who was let in. Background
  `Owns` does the same once the gate has closed because three renewals in a row failed: it claims
  a player whose hand-back is under way, and work runs while the key is deleted.
- `Store.Claim` drops the boolean of `CompareAndExpire` (playerroute:239), so a key that expires
  between its `Get` and its expire is reported as held.
- A claim with continuous tenure skips `dropResident` (:736) and is confirmed while an eviction
  that outlived its caller's wait is still running.
- One hand-back pass may wait for `handBackBudget` = 8 evictions of up to `evictBudget` = 5 s
  each, 40 s, on the goroutine that renews every 10 s leases of 30 s (:459). Six that time out in
  a row let every lease of the process lapse; five close every gate.

**Scene** (`scene.go.tmpl`)

- Two goroutines apply the answers of two `Tick`s in the wrong order (:298, 329; says otherwise:
  :43-46, interest:46-48), and the room keeps a pair that the interest system has released, or the
  other way about. `SceneAgrees` leaves out the pairs that have `crossed`, and says there are no
  others; `SerialAgrees` that there are none while calls come one after the other.
- `ActiveSessions` is asked once, before the goroutine that runs `Leave` (:169-176). A player who
  logs in and joins in between is taken out of the scene, and stays out: `late` in `SceneAgrees`.
- A close notice is dropped when the queue is full (render_player_tcp:455-461, which says at 357-363
  that every consumer has to survive missing one). The player stays in the scene until somebody joins
  (`sweep`, :281) or a push to them fails; in a scene where nobody moves and nobody joins, for ever.
  `GhostsLeave` leaves out who went `unnoticed` until the next join makes it good.
- When `RegisterSubject` fails, `Join` returns (:284-286) with the player online and not in the scene,
  and nothing tries again (`unjoined`). When `Unsubscribe` fails it is logged (:342-344) and the room
  keeps what the interest system has released (`stale`); likewise `RetireSubject` and
  `UnregisterSubject` (:388-394), the latter leaving a subject registered that has left.
- `SetTeam` subscribes members who are not in the scene (:378), and `Leave` returns early for
  them, so the subscriptions of an offline member stay.
- When `ShowSubject` fails after `RegisterSubject`, the registration stays (:410-415). That is why
  `NoOrphans` says that entities are registered, not that only entities are.

**Population** (`spawner.go.tmpl`, `refresh.go.tmpl`)

- `lives.Destroy` may fail, and its error is ignored (spawner:121), returned (:145) or logged (:158)
  after the monster has left the spawner's table: the Entity stays, filed nowhere and seen by nobody.
  `NoOrphans` says that these (`undestroyed`) are the only ones, and that no player sees one.
- A monster can be killed after it is filed and before it is reported (spawner:124-129). The
  refresh system forgets the death, then counts the monster for ever (says otherwise:
  refresh:15-19). `SlotsRefilled` counts as the refresh system does.
- After a failed creation the spent timer of its slot is not put back: with no other timer in the
  group the slot is due at once, as spawner:127-128 says, but behind another timer it waits for
  that one (refresh:94-104).

**Player TCP and access** (`render_player_tcp.go`, `render_access.go`)

- `closeSessions` always returns 0 (:499).
- A push takes its number before `writeMu` (:862), so pushes may be written out of order; says
  otherwise: docs/PLAYER_ACCESS_TCP.zh-CN.md:44. `FramesApart` says the numbers differ, not that
  they grow on the socket.
- A push cut off by its deadline leaves half a frame on a session that stays open, and the next reply
  or push follows it (:866-877): the client reads the rest of the stream as the wrong frames.
  `FramesApart` says that nothing but such a push brings a session that stays open there.
- The decoder and the encoder run outside `RecoverMiddleware` (render_access:255, 270), so a panic in
  generated or hand-written codec code ends the process with every session on it.
- The acknowledgement is written before the session is registered: a client that is told it is in
  is not yet found by `ActiveSessions`.
- A player who logs in again between `ActiveSessions` and the removal is online and not in the
  channel (presence:47). `PresenceConverges` is about players who stay away.

**Project commands** (`internal/roost`)

- A second command brings owned files up to date between this one's copy and its plan: this one
  plans its older copies against them, both succeed and a template is stale (says otherwise:
  generate.go:29-31). `SuccessMeansCurrent` is about commands that ran by themselves.
- An edit of an owned file or of `go.mod` between the copy and the plan is lost, as it is not among
  the compared inputs and the plan takes it for what to replace (says otherwise: project.go:497-500,
  render.go:27). `WorkKept` is about inputs and seeds.
- `Sync` and `Generate` load the manifest before they copy, and `Add` reads `roost.yaml` twice;
  what is edited in between is overwritten or not seen. `Add`'s two reads are one step here.
- `restoreFiles` puts back without comparing; a rollback recreates a file that was deleted
  meanwhile; an output deleted between plan and comparison is not noticed; a crash between
  scaffolding and declaration makes the next `add` refuse.
- `saga` and `mod` append configuration after the commit and do not take it back; `transport`
  edits configurations in place; `upgrade --consolidate` writes in place.
- Generators overwrite a hand-written file at the path of an output (`genutil/write.go`), except
  where they check for their own header.
- `NextID` scans and then writes: two developers, or two commands, take one id.

**Generated data objects** (`internal/dao`)

- A migrated document is in memory only; the next mutation is a patch with the new schema number
  and the changed fields only (template_dao.go:545-570; says otherwise: README.md:338,
  docs/CODEGEN_REFERENCE.zh-CN.md:234, docs/NEST_RUNTIME.zh-CN.md:83, which say the whole document
  is written). Fields of the old layout stay in the store and are read as the new one.
  `StoredIsObject` leaves them out.
- A refused bind happens after the slot was written (says otherwise: template_helpers.go:66-68);
  the panic rolls it back.
- `RestoreRollbackState`, `Unmarshal`, `ApplySync` and `setBSONDoc` never release the values they
  replace (template_nested.go:163-165): a reference kept across them writes into a slot another
  value has. Handlers of the model drop their references.
- Unset paths of a map are kept when the whole map is set in the same mutation.

**Generators** (`internal/<generator>`). The models do as the code does, and their properties are
about the declarations the code means to accept.

- *generate:* `--changed` runs a generator when its directories changed, and several read more:
  event handlers are scanned in all of `game/` but looked for in `event/def/`; entity and nest scan
  `game/`, their prefixes are `entities/`, `components/`, `handler/`; errcode scans everything. Such
  an edit is not regenerated until a full run (`missed` in `Generators`). The robot's registry is
  written by the generator's own command and never by `roost generate`.
- *tables, publishing:* the CSV templates of `configs/table_template` carry no "Code generated"
  marker and are not in a directory of generated data (generate.go:435, 450-454), so a run that made
  new ones in the copy does not bring them back (project.go:242, 279), and `--check` says "up to date"
  over a stale or missing one (says otherwise: docs/PROJECT_GENERATOR.zh-CN.md:461, by which
  `make generate` writes them). They are current only where the table generator runs by itself.
  `OutputsCurrent` and `CheckIsTrue` are about the outputs a snapshot sees.
- *sweeping:* only the data object generator removes outputs without a declaration, and it keeps
  its helper file. A removed entity keeps its wiring file and registration, a removed domain its
  `protocol_gen.go`, a removed route, service interface, handler or table its file.
- *attribute:* two profiles of one package with the same field, or with overlapping index ranges,
  are not noticed; more than 64 attributes overflow the mask; an object that is all zero does not
  compute its derived values until something changes.
- *event:* with no event left the command returns before it looks at the handlers; receivers whose
  snake-case names coincide overwrite each other in map order.
- *registry:* an alias may be a keyword of Go.
- *webroute:* duplicates are looked for per package only.
- *entity:* packers or a topic with `sync=false`, or a cold component with a hand-written getter,
  import what they do not use; a cold object that is not loaded is not deleted by `PrepareDelete` or
  a remote delete.
- *nest:* an entity parameter after an ordinary one is passed in the wrong order in legacy mode
  (the condition for it never holds); a type with `Entity` in its name is taken for an entity; a
  marked handler without an entity is skipped silently; a nil interface is refused as a type
  mismatch; `RemoteAccess` is printed once per file, so two files with one parameter type clash.
- *errcode:* only literal calls of `Define` are seen; the CSV is truncated in place.
- *dao:* definitions `Hero` and `HeroDao` write the same file (main.go:163-173); a nested struct of
  another file is not found; of `A, B int` only `A` is taken (parse.go:383), also by *protocol*.
- *protocol:* `[][]T` is accepted and not encoded; fields named `Data` in a oneof, `N`, `M`, `Num`,
  `Typ`, `V`, `Type` do not work; nil elements arrive as empty messages; domains that differ by
  underscores collide; constants written as conversions are missed; reading a `.proto` back turns
  sint and fixed types into varints and misreads nested messages; maps keyed by bool are encoded in
  map order.
- *rpc:* a result under the key `code` hides that of the embedded status, so a refusal arrives as
  success, and one under `reason` hides its reason; two parameters with one snake-case key are both dropped; `[][]T`, `*[]T` and map keys
  escape `checkWireSafeDeep`; parameters named `wire`, `resp`, `err`, `ctx` or `c` do not compile.
- *tables:* with `key=` naming no field the loader takes the first field and `validateRows` checks
  none; missing columns are not noticed; the generated converter recognises head rows by their first
  cell only; narrow integers overflow silently; two tables with one file, JSON or type name overwrite
  each other.

## 7. What is not modelled

- *Framework code* that is not in the repository (entity manager, Nest, Data Engine, saga
  coordinator, replication room, spatial index, match, mail and chat services) appears as far as the
  models need it: the room refuses or accepts, an eviction waits for the transaction, the index
  reports pairs, undos run last first.
- *Matchmaker, battles, gifts, purchases, mail and dungeon rewards, activity windows.* In each the
  step that decides belongs to a service or a coordinator of the framework (whether overlapping
  groups are refused at `Commit`, who sweeps a match without a battle, who wins a reservation,
  whether a repeated grant, mail or record is absorbed). A model would have to invent the answer it
  then checks. Battles are one goroutine behind one queue and share no state with the rest; they are
  the part that could be added. What these services rely on here, that one process owns a player, is
  `PlayerOwners`.
- *Bands of the interest system*: the demo configures none, so every band is 0. `MoveShown` and
  `SetReplayToken` change no state the properties read.
- *The push of presence*, which removes a player it fails to reach; authentication, one call.
- *Redis objects* (`redisdao`): their methods delegate to stores of the framework.
- *The in-place parts of the tool*: `upgrade --consolidate`, `NextID`, the configuration
  sections some `add`s append, scaffolding and rendering of templates. They are single sequential
  passes; what a command does with rendered files is `ProjectFiles`.
- *cfggen* prints bindings for a schema file and is not one of the generators `roost generate` runs.
- The content of players, monsters and messages, wording, layout of generated text, metrics, the load
  generator, deployment.

`PROJECT.json` lists every component with its status and its reason.

## 8. Plan

Done: all modules of section 2, checked; proofs of every safety property of theirs but
`MessagesArrive` and `DataKept` (parts of both are proved), `NoStaleWrite`,
which is false of the code, and `HandBackUndisturbed` with a fencer.

To come:

1. `HandBackUndisturbed` for background work with a fencer, from a relation between the open gate of
   a process that hands back and the key which keeps the others from claiming; the ownership theorems
   would then have one race less wherever there are no logins.
2. `NoStaleWrite` for claims that take no time between the key and the drop, so that the proof says
   that `owners_gap` is the only way in.
3. A battle's room (bounded queue, grace, drain, callers that wait for `done`), with the liveness
   that each caller is answered.
