----------------------------- MODULE DaoObject -----------------------------
(* What the DAO generator generates: an object with a scalar (score), one   *)
(* nested pointer (mount), a map of nested values (equips) and a slice of   *)
(* nested values (squad); a nested value has a level and a nested pointer   *)
(* of its own (core).                                                       *)
(*                                                                          *)
(* A nested value reports its changes to the one place that holds it; the   *)
(* object turns a report into marks: what the transaction has to write and  *)
(* what the client has to be sent.  A transaction ends with a mutation of   *)
(* the stored document, or with a rollback: by the undo log of the setters  *)
(* (policy "undo") or from a copy taken at its start (policy "state").      *)
(*                                                                          *)
(* Nest (transactions) and the Data Engine (the store) are libraries; they  *)
(* are modelled as the generated code uses them: every registered undo runs *)
(* on rollback, the last one first, and a panic of a setter ends the        *)
(* handler and rolls its transaction back.                                  *)
EXTENDS Naturals, Sequences, FiniteSets, SequencesExt

CONSTANTS Values, Gems,  \* nested objects: EquipInfo, and GemInfo held by them
          Keys,          \* keys of equips
          PathKeys,      \* the keys that can be part of a patch path
          Items,         \* the indexes of squad: 1 .. n
          Persist, Sync, \* the fields with each tag
          StartDocs,     \* documents that may be stored at the start
          MaxOps,        \* bound: setters called
          MaxTx,         \* bound: transactions
          MaxFaults      \* bound: failed commits, crashes and deployments

Fields == {"score", "mount", "equips", "squad"}
Objects == Values \union Gems
Nil == "nil"
Levels == 0 .. 1

NoPlace == <<"none", "">>
Score == <<"score", "">>
Mount == <<"mount", "">>
Entry(k) == <<"equips", k>>
Item(n) == <<"squad", n>>
Core(v) == <<"core", v>>
Slots == {Mount} \union {Entry(k) : k \in Keys} \union {Item(n) : n \in Items}
Places == Slots \union {Core(v) : v \in Values}
Paths == Slots \union {Score}

ASSUME DaoAssumption ==
  /\ PathKeys \subseteq Keys
  /\ Persist \union Sync = Fields
  /\ "equips" \in Persist
  /\ Cardinality(Items) \in Nat /\ Items = 1 .. Cardinality(Items)
  /\ Nil \notin Objects /\ Values \intersect Gems = {}
  /\ {MaxOps, MaxTx, MaxFaults} \subseteq Nat

VARIABLES mem,       \* the object: what each place holds, levels, score, reporting
          loaded,    \* whether the process has the object in memory
          version,   \* the version the tracker has accepted
          tx,        \* the transaction
          unsynced,  \* fields the tracker has marked for the client
          store,     \* the stored document, its version and schema
          mirror,    \* what the client was sent
          binary,    \* the schema version of the running program
          count      \* operations, transactions and faults so far

vars == <<mem, loaded, version, tx, unsynced, store, mirror, binary, count>>

----------------------------------------------------------------------------
(* The wire form of a place: a document holds copies, never references.     *)
Empty == <<>>
NoGem == 2
Content(m, p) ==
  IF p = Score THEN <<m.score>>
  ELSE IF m.at[p] = Nil THEN Empty
  ELSE LET v == m.at[p]
           gem == m.at[Core(v)]
       IN <<m.level[v], IF gem = Nil THEN NoGem ELSE m.level[gem]>>

Document(m, fields) == [p \in {q \in Paths : q[1] \in fields} |-> Content(m, p)]
Zero(p) == IF p = Score THEN <<0>> ELSE Empty

Wire(p) == IF p = Score THEN {<<n>> : n \in Levels}
           ELSE {Empty} \union (Levels \X (Levels \union {NoGem}))

ASSUME StartAssumption ==
  \A doc \in StartDocs : /\ DOMAIN doc = {p \in Paths : p[1] \in Persist}
                         /\ \A p \in DOMAIN doc : doc[p] \in Wire(p)

Blank == [at |-> [p \in Places |-> Nil], level |-> [o \in Objects |-> 0], score |-> 0,
          owner |-> [o \in Objects |-> NoPlace]]

(* The values of the slots and the gems they hold.                          *)
Reachable(m) ==
  LET held == {m.at[p] : p \in Slots} \ {Nil}
  IN held \union ({m.at[Core(v)] : v \in held} \ {Nil})

FaultyUnbind(m, ps) == m

(* daoUnbindDirty: whoever sits in these places stops reporting to them.    *)
Unbind(m, ps) ==
  [m EXCEPT !.owner = [o \in Objects |-> IF @[o] \in ps /\ m.at[@[o]] = o THEN NoPlace ELSE @[o]]]

(* daoBindDirty refuses a value that belongs to another place; the items of *)
(* a slice are bound in order, up to the first that is refused.             *)
Taken(m, ps, p) ==
  /\ m.at[p] # Nil
  /\ \/ m.owner[m.at[p]] \notin {NoPlace, p}
     \/ p[1] = "squad" /\ \E q \in ps : q[1] = "squad" /\ q[2] < p[2] /\ m.at[q] = m.at[p]
Refused(m, ps) == \E p \in ps : Taken(m, ps, p)
Bind(m, ps) ==
  LET first(p) == \A q \in ps : Taken(m, ps, q) => (p[1] = "squad" /\ p[2] < q[2])
      now == {p \in ps : m.at[p] # Nil /\ first(p)}
  IN [m EXCEPT !.owner = [o \in Objects |->
        IF \E p \in now : m.at[p] = o THEN CHOOSE p \in now : m.at[p] = o ELSE @[o]]]

Write(m, new) == [m EXCEPT !.at = [p \in Places |-> IF p \in DOMAIN new THEN new[p] ELSE @[p]]]

(* A setter of places: what they held is released, they are written, what   *)
(* they hold now is bound.  The undo of it does the same with the old ones. *)
Assign(m, new) == Bind(Write(Unbind(m, DOMAIN new), new), DOMAIN new)
Refuses(m, new) == Refused(Write(Unbind(m, DOMAIN new), new), DOMAIN new)

FaultyUndoOne(m, u) ==
  CASE u.what = "places" -> Write(m, u.old)
    [] u.what = "level" -> [m EXCEPT !.level[u.of] = u.old]
    [] u.what = "score" -> [m EXCEPT !.score = u.old]

UndoOne(m, u) ==
  CASE u.what = "places" -> Assign(m, u.old)
    [] u.what = "level" -> [m EXCEPT !.level[u.of] = u.old]
    [] u.what = "score" -> [m EXCEPT !.score = u.old]

----------------------------------------------------------------------------
(* What a transaction has to write: nest.PersistChange.                     *)
NoChange == [mask |-> {}, set |-> <<>>, unset |-> {}, full |-> FALSE, delete |-> FALSE]

MarkField(c, f) == IF f \in Persist THEN [c EXCEPT !.mask = @ \union {f}] ELSE c

MarkKeyDirty(c, p, v) ==
  IF p[2] \in PathKeys
  THEN [c EXCEPT !.mask = @ \union {"equips"}, !.unset = @ \ {p},
                 !.set = [q \in DOMAIN @ \union {p} |-> IF q = p THEN v ELSE @[q]]]
  ELSE [c EXCEPT !.mask = @ \union {"equips"}, !.full = TRUE]

MarkKeyDeleted(c, p) ==
  IF p[2] \in PathKeys
  THEN [c EXCEPT !.mask = @ \union {"equips"}, !.unset = @ \union {p},
                 !.set = [q \in DOMAIN @ \ {p} |-> @[q]]]
  ELSE [c EXCEPT !.mask = @ \union {"equips"}, !.full = TRUE]

(* Where the report of an object ends: a gem reports through its holder.    *)
Holder(m, o) ==
  IF m.owner[o][1] = "core" THEN m.owner[o][2] ELSE o
Root(m, o) == m.owner[Holder(m, o)]

Report(m, c, o) ==
  CASE Root(m, o) = NoPlace -> c
    [] Root(m, o)[1] = "equips" -> MarkKeyDirty(c, Root(m, o), Holder(m, o))
    [] OTHER -> MarkField(c, Root(m, o)[1])
FaultyReported(m, o) == IF o \in Gems THEN {} ELSE {m.owner[o][1]} \intersect Fields
Reported(m, o) == IF Root(m, o) = NoPlace THEN {} ELSE {Root(m, o)[1]}

(* The patch: a map whose keys were marked one by one is written key by     *)
(* key, unless one of them forced the whole map.                            *)
Patched(c) == {f \in c.mask : f # "equips" \/ c.full \/ (DOMAIN c.set \union c.unset = {})}
Patch(m, c) ==
  [whole |-> Patched(c),
   set |-> [p \in {q \in Paths : q[1] \in Patched(c) \/ (q \in DOMAIN c.set /\ ~c.full)} |->
              IF p[1] \in Patched(c) THEN Content(m, p)
              ELSE <<m.level[c.set[p]],
                     IF m.at[Core(c.set[p])] = Nil THEN NoGem ELSE m.level[m.at[Core(c.set[p])]]>>],
   unset |-> c.unset]

(* PrepareMutation: a document never stored is put as a whole.              *)
PrepareMutation(m, c) ==
  IF c.delete THEN [kind |-> "delete", whole |-> Persist, set |-> <<>>, unset |-> Paths]
  ELSE IF version = 0 THEN [kind |-> "put", whole |-> Persist, set |-> Document(m, Persist), unset |-> {}]
  ELSE [kind |-> "patch", whole |-> Patch(m, c).whole, set |-> Patch(m, c).set, unset |-> Patch(m, c).unset]

(* The Data Engine applies the mutation to the version it was made for.     *)
Applied(mut) ==
  [store EXCEPT
     !.doc = [p \in DOMAIN @ |-> IF p \in DOMAIN mut.set THEN mut.set[p]
                                 ELSE IF p \in mut.unset THEN Zero(p) ELSE @[p]],
     !.old = IF mut.kind = "put" THEN {}
             ELSE (IF store.schema < binary THEN Persist ELSE @) \ mut.whole,
     !.schema = binary,
     !.version = @ + 1,
     !.live = mut.kind # "delete"]

----------------------------------------------------------------------------
NoTx == [phase |-> "none", policy |-> "undo", undo |-> <<>>, change |-> NoChange,
         before |-> Blank, mutation |-> <<>>]

Init ==
  /\ mem = Blank /\ loaded = FALSE /\ version = 0 /\ tx = NoTx
  /\ unsynced = {} /\ binary = 1
  /\ count = [ops |-> 0, txs |-> 0, faults |-> 0]
  /\ \E doc \in StartDocs \union {Document(Blank, Persist)}, schema \in {1, 2} :
       store = [doc |-> doc, live |-> doc \in StartDocs,
                schema |-> IF doc \in StartDocs THEN schema ELSE 1, old |-> {},
                version |-> IF doc \in StartDocs THEN 1 ELSE 0]
  /\ mirror = Document(Blank, Sync)

(* New: an object that is not stored yet; Init binds what it holds.         *)
New ==
  /\ ~loaded /\ ~store.live /\ store.version = 0
  /\ mem' = Bind(Blank, Slots)
  /\ loaded' = TRUE /\ version' = 0
  /\ mirror' = Document(mem', Sync)
  /\ UNCHANGED <<tx, unsynced, store, binary, count>>

(* Unmarshal builds new values from the document and binds them; which of   *)
(* the values that are nowhere yet these are makes no difference.           *)
Unmarshal(doc) ==
  LET filled == {p \in Slots \intersect DOMAIN doc : doc[p] # Empty}
      cored == {p \in filled : doc[p][2] # NoGem}
  IN \E at \in [filled -> Values], core \in [cored -> Gems] :
       LET In(o) == {p \in filled : at[p] = o} \union {p \in cored : core[p] = o}
           level(o) == LET p == CHOOSE q \in In(o) : TRUE IN doc[p][IF o \in Gems THEN 2 ELSE 1]
           gem(v) == LET ps == {p \in cored : at[p] = v}
                     IN IF ps = {} THEN Nil ELSE core[CHOOSE p \in ps : TRUE]
       IN /\ IsInjective(at) /\ IsInjective(core)
          /\ mem' = Bind([at |-> [p \in Places |-> IF p \in filled THEN at[p]
                                                  ELSE IF p \in Slots THEN Nil ELSE gem(p[2])],
                          level |-> [o \in Objects |-> IF In(o) = {} THEN 0 ELSE level(o)],
                          score |-> IF Score \in DOMAIN doc THEN doc[Score][1] ELSE 0,
                          owner |-> Blank.owner], Places)

(* RestorePersisted refuses a document of a newer schema; it migrates an    *)
(* older one as a whole, in memory.  A field that is stored in the layout   *)
(* of an older schema under the number of the current one is not found.     *)
Load ==
  /\ ~loaded /\ store.live
  /\ store.schema <= binary
  /\ Unmarshal([p \in DOMAIN store.doc |->
        IF p[1] \in store.old /\ store.schema = binary THEN Zero(p) ELSE store.doc[p]])
  /\ loaded' = TRUE /\ version' = store.version
  /\ unsynced' = {}
  /\ mirror' = Document(mem', Sync)
  /\ UNCHANGED <<tx, store, binary, count>>

Begin(policy) ==
  /\ loaded /\ tx.phase = "none" /\ count.txs < MaxTx
  /\ tx' = [NoTx EXCEPT !.phase = "running", !.policy = policy, !.before = mem]
  /\ count' = [count EXCEPT !.txs = @ + 1]
  /\ UNCHANGED <<mem, loaded, version, unsynced, store, mirror, binary>>

(* A setter: what it leaves in memory, its undo, its marks.                 *)
Step(m, u, c, marked) ==
  /\ tx.phase = "running" /\ count.ops < MaxOps
  /\ mem' = m
  /\ tx' = [tx EXCEPT !.undo = IF tx.policy = "undo" THEN <<u>> \o @ ELSE @, !.change = c]
  /\ unsynced' = unsynced \union (marked \intersect Sync)
  /\ count' = [count EXCEPT !.ops = @ + 1]
  /\ UNCHANGED <<loaded, version, store, mirror, binary>>

(* The panic of bindDirty: the slot is written, nothing is marked.          *)
Panic(new) ==
  /\ tx.phase = "running" /\ count.ops < MaxOps
  /\ Refuses(mem, new)
  /\ mem' = Assign(mem, new)
  /\ tx' = [tx EXCEPT !.phase = "failed",
                      !.undo = IF tx.policy = "undo"
                               THEN <<[what |-> "places", old |-> [p \in DOMAIN new |-> mem.at[p]]]>> \o @
                               ELSE @]
  /\ count' = [count EXCEPT !.ops = @ + 1]
  /\ UNCHANGED <<loaded, version, unsynced, store, mirror, binary>>

SetPlaces(new, c, marked) ==
  \/ /\ ~Refuses(mem, new)
     /\ Step(Assign(mem, new), [what |-> "places", old |-> [p \in DOMAIN new |-> mem.at[p]]], c, marked)
  \/ Panic(new)

SetScore(n) ==
  /\ mem.score # n
  /\ Step([mem EXCEPT !.score = n], [what |-> "score", old |-> mem.score],
          MarkField(tx.change, "score"), {"score"})

SetMount(v) == SetPlaces([p \in {Mount} |-> v], MarkField(tx.change, "mount"), {"mount"})

SetEquips(k, v) ==
  SetPlaces([p \in {Entry(k)} |-> v], MarkKeyDirty(tx.change, Entry(k), v), {"equips"})

DelEquips(k) ==
  /\ mem.at[Entry(k)] # Nil
  /\ SetPlaces([p \in {Entry(k)} |-> Nil], MarkKeyDeleted(tx.change, Entry(k)), {"equips"})

SquadSlots == {Item(n) : n \in Items}
SetSquadAll(s) ==
  SetPlaces([p \in SquadSlots |-> IF p[2] <= Len(s) THEN s[p[2]] ELSE Nil],
            MarkField(tx.change, "squad"), {"squad"})
AddSquad(v) ==
  \E n \in Items :
    /\ mem.at[Item(n)] = Nil /\ \A j \in Items : j < n => mem.at[Item(j)] # Nil
    /\ SetPlaces([p \in {Item(n)} |-> v], MarkField(tx.change, "squad"), {"squad"})

(* A nested value is changed through a reference a caller holds, whether or *)
(* not the object still holds it.                                           *)
SetLevel(o, n) ==
  /\ mem.level[o] # n
  /\ Step([mem EXCEPT !.level[o] = n], [what |-> "level", of |-> o, old |-> mem.level[o]],
          Report(mem, tx.change, o), Reported(mem, o))

SetCore(v, gem) ==
  SetPlaces([p \in {Core(v)} |-> gem], Report(mem, tx.change, v), Reported(mem, v))

(* A handler that destroys the entity: its transaction writes a delete.     *)
Delete ==
  /\ tx.phase = "running"
  /\ tx' = [tx EXCEPT !.phase = "prepared",
                      !.mutation = PrepareMutation(mem, [tx.change EXCEPT !.delete = TRUE])]
  /\ UNCHANGED <<mem, loaded, version, unsynced, store, mirror, binary, count>>

(* The handler returns: the change becomes a mutation, or there is none.    *)
Prepare ==
  /\ tx.phase = "running"
  /\ tx' = IF tx.change = NoChange THEN NoTx
           ELSE [tx EXCEPT !.phase = "prepared", !.mutation = PrepareMutation(mem, tx.change)]
  /\ UNCHANGED <<mem, loaded, version, unsynced, store, mirror, binary, count>>

(* The mutation is durable; AcceptMutation moves the tracker's version.     *)
Commit ==
  /\ tx.phase = "prepared" /\ store.version = version
  /\ store' = Applied(tx.mutation)
  /\ version' = version + 1
  /\ loaded' = (tx.mutation.kind # "delete")
  /\ tx' = NoTx
  /\ UNCHANGED <<mem, unsynced, mirror, binary, count>>

CommitFails ==
  /\ tx.phase \in {"running", "prepared"} /\ count.faults < MaxFaults
  /\ tx' = [tx EXCEPT !.phase = "failed"]
  /\ count' = [count EXCEPT !.faults = @ + 1]
  /\ UNCHANGED <<mem, loaded, version, unsynced, store, mirror, binary>>

(* Mutant: the oldest undo runs first.                                      *)
FaultyRunUndo ==
  /\ tx.phase = "failed" /\ tx.undo # <<>>
  /\ mem' = UndoOne(mem, Last(tx.undo))
  /\ tx' = [tx EXCEPT !.undo = Front(@)]
  /\ UNCHANGED <<loaded, version, unsynced, store, mirror, binary, count>>

(* RollbackTx runs the registered undos one after the other.                *)
RunUndo ==
  /\ tx.phase = "failed" /\ tx.undo # <<>>
  /\ mem' = UndoOne(mem, Head(tx.undo))
  /\ tx' = [tx EXCEPT !.undo = Tail(@)]
  /\ UNCHANGED <<loaded, version, unsynced, store, mirror, binary, count>>

(* RestoreRollbackState rebuilds every value from the copy and binds it.    *)
(* The references a handler had are to values nobody holds any more: they   *)
(* are not used again.                                                      *)
Restored ==
  LET kept == Reachable(tx.before)
  IN Bind([at |-> [p \in Places |-> IF p \in Slots \/ p[2] \in kept THEN tx.before.at[p] ELSE Nil],
           level |-> [o \in Objects |-> IF o \in kept THEN tx.before.level[o] ELSE 0],
           score |-> tx.before.score,
           owner |-> Blank.owner], Places)

Rollback ==
  /\ tx.phase = "failed" /\ tx.undo = <<>>
  /\ mem' = IF tx.policy = "undo" THEN mem ELSE Restored
  /\ tx' = NoTx
  /\ UNCHANGED <<loaded, version, unsynced, store, mirror, binary, count>>

(* Between handlers the marked fields are sent, and the client applies them.*)
SyncFields ==
  /\ loaded /\ tx.phase = "none" /\ unsynced # {}
  /\ mirror' = [p \in DOMAIN mirror |-> IF p[1] \in unsynced THEN Content(mem, p) ELSE mirror[p]]
  /\ unsynced' = {}
  /\ UNCHANGED <<mem, loaded, version, tx, store, binary, count>>

(* The process stops and a binary is started, the same or another one.  A   *)
(* mutation it had written may have become durable.                         *)
Restart(b) ==
  /\ count.faults < MaxFaults
  /\ \/ store' = store
     \/ tx.phase = "prepared" /\ store' = Applied(tx.mutation)
  /\ loaded' = FALSE /\ version' = 0 /\ binary' = b
  /\ mem' = Blank /\ tx' = NoTx /\ unsynced' = {}
  /\ count' = [count EXCEPT !.faults = @ + 1]
  /\ UNCHANGED mirror

Next ==
  \/ New \/ Load \/ Delete \/ Prepare \/ Commit \/ CommitFails \/ RunUndo \/ Rollback
  \/ SyncFields
  \/ \E policy \in {"undo", "state"} : Begin(policy)
  \/ \E n \in Levels : SetScore(n) \/ \E o \in Objects : SetLevel(o, n)
  \/ \E v \in Values \union {Nil} : SetMount(v)
  \/ \E k \in Keys : DelEquips(k) \/ \E v \in Values : SetEquips(k, v)
  \/ \E v \in Values : AddSquad(v) \/ \E gem \in Gems \union {Nil} : SetCore(v, gem)
  \/ \E n \in {0} \union Items : \E s \in [1 .. n -> Values] : SetSquadAll(s)
  \/ \E b \in {1, 2} : Restart(b)

Spec == Init /\ [][Next]_vars

----------------------------------------------------------------------------
(* The object, its log and its documents have their shapes.                 *)
TypeOK ==
  /\ mem.at \in [Places -> Objects \union {Nil}] /\ mem.level \in [Objects -> Levels]
  /\ mem.owner \in [Objects -> Places \union {NoPlace}] /\ mem.score \in Levels
  /\ tx.phase \in {"none", "running", "prepared", "failed"}
  /\ tx.change.mask \subseteq Persist /\ tx.change.unset \subseteq Slots
  /\ unsynced \subseteq Sync
  /\ DOMAIN store.doc = {p \in Paths : p[1] \in Persist} /\ store.old \subseteq Persist
  /\ version \in 0 .. MaxTx + 1

(* Unless a setter has just been refused, every value reports to the place  *)
(* that holds it, and none reports to a place it has left (daoBindDirty,    *)
(* daoUnbindDirty and the setters around them).                             *)
ReportsToItsHolder ==
  /\ TypeOK
  /\ (loaded /\ tx.phase # "failed") =>
       /\ \A p \in Places : mem.at[p] # Nil => mem.owner[mem.at[p]] = p
       /\ \A o \in Objects : mem.owner[o] # NoPlace => mem.at[mem.owner[o]] = o

(* Between transactions the stored document is the object: every change of  *)
(* a persisted field, however deep and through whatever reference, was in a *)
(* mutation, under the key it belongs to, and nothing else was.  (A field   *)
(* left in the layout of an older schema is not readable.)                  *)
StoredIsObject ==
  (loaded /\ tx.phase = "none" /\ version > 0) =>
    \A p \in DOMAIN store.doc : p[1] \notin store.old => store.doc[p] = Content(mem, p)

(* A field that is not marked for the client is on the client as it is in   *)
(* the object, after a rollback too.                                        *)
ClientIsCurrent ==
  (loaded /\ tx.phase = "none") =>
    \A p \in DOMAIN mirror : p[1] \notin unsynced => mirror[p] = Content(mem, p)

(* A rollback leaves the object as its transaction found it, and a rollback *)
(* by the undo log also every value the object does not hold and who        *)
(* reports where.                                                           *)
RollbackRestores ==
  [][(tx.phase = "failed" /\ tx'.phase = "none" /\ loaded') =>
       /\ Document(mem', Fields) = Document(tx.before, Fields)
       /\ tx.policy = "undo" => mem' = tx.before]_vars
=============================================================================
