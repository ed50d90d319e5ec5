---------------------------- MODULE ProjectFiles ----------------------------
(* The commands of the roost tool that change a project's files:            *)
(* `roost project new`, `project sync`, `project deps`, `generate`,         *)
(* `generate --check` and the kinds of `roost add` that declare something   *)
(* in roost.yaml (service, mod, access, transport, saga, rpc).              *)
(*                                                                          *)
(* No command locks the project.  Each copies it, renders and generates in  *)
(* the copy, plans what to bring back, compares the application's own files *)
(* with the copy, and then replaces one file after the other, each only     *)
(* while it still holds what was planned against; when one cannot be        *)
(* replaced, those already replaced are put back.  A developer edits files  *)
(* at any moment, a second command may run, a command may be killed.        *)
(*                                                                          *)
(* A file is an input (the developer's source that generators read), an     *)
(* output (written by a generator from its input), an owned template        *)
(* (rendered from roost.yaml), a seed (rendered once, then the developer's) *)
(* or a dependency file (go.mod, go.sum).                                   *)
EXTENDS Naturals, Sequences, FiniteSets

CONSTANTS Inputs, Outputs, Owned, Seeds, Deps,  \* the roles of the files
          Overwritable,  \* owned files replaced even when edited (deploy/ ...)
          Source,        \* the input an output is generated from
          Needs,         \* the service a template or a seed is rendered for
          Artifact,      \* the source an add scaffolds before it declares a service
          Order,         \* every file once, in the order a batch replaces them
          Services,      \* services a manifest may declare
          Base,          \* the service a new project has
          ByHand,        \* the service a developer declares in an editor
          Cmds,          \* places for commands that run at the same time
          MaxEvents      \* bound: commands begun, edits and failures together

Files == Inputs \union Outputs \union Owned \union Seeds \union Deps
Yaml == "roost.yaml"

ASSUME FilesAssumption ==
  /\ Overwritable \subseteq Owned
  /\ Source \in [Outputs -> Inputs]
  /\ Needs \in [Owned \union Seeds -> Services]
  /\ Artifact \in [Services -> SUBSET Inputs]
  /\ {Order[n] : n \in DOMAIN Order} = Files
  /\ {Base, ByHand} \subseteq Services
  /\ MaxEvents \in Nat

(* A file has one role; the developer is not one of the commands.           *)
ASSUME RolesAssumption ==
  /\ Inputs \intersect (Outputs \union Owned \union Seeds \union Deps) = {}
  /\ Seeds \intersect (Outputs \union Owned \union Deps) = {}
  /\ Outputs \intersect (Owned \union Deps) = {} /\ Owned \intersect Deps = {}
  /\ Order \in Seq(Files) /\ "developer" \notin Cmds

VARIABLES manifest,  \* services roost.yaml declares; {} while there is no project
          root,      \* what each file of the project holds
          cmd,       \* the state of each command
          seen,      \* ghost: what each command found, and what others did since
          events     \* how many commands, edits and failures there were

vars == <<manifest, root, cmd, seen, events>>

----------------------------------------------------------------------------
(* What a file may hold.  Text written by the tool carries its header.      *)
Absent == <<>>
User(k) == <<"user", k>>
Template(m) == <<"template", m>>
Made(c) == <<"output", c>>
Seed == <<"seed", 0>>
Tidy(c) == IF c = Absent THEN Absent ELSE <<"tidy", c[2]>>

Generated(c) == c # Absent /\ c[1] \in {"template", "output"}

CanOverwriteGenerated(f, c) == Generated(c) \/ f \in Overwritable

(* renderProject: the files a manifest calls for.  *)
Plan(m) == Deps \union {f \in Owned \union Seeds : Needs[f] \in m}

(* What a generator leaves at an output's path: what its input yields,      *)
(* whatever was there; of an input that is gone, nothing of its own.        *)
Output(o, tree) ==
  IF tree[Source[o]] # Absent THEN Made(tree[Source[o]])
  ELSE IF Generated(tree[o]) THEN Absent ELSE tree[o]

(* snapshotProjectInputs: the files a command relies on not changing; what  *)
(* it owns itself and the dependency files are guarded one by one instead.  *)
SnapshotInputs(tree, m) ==
  [f \in {g \in Files \ Deps : /\ g \notin Plan(m) \intersect Owned
                               /\ tree[g] # Absent
                               /\ ~Generated(tree[g])} |-> tree[f]]

(* planManifestSync over the staged tree: refused when an owned file holds  *)
(* something else; owned files are rendered again, the rest when missing.   *)
RefusesSync(tree, m) ==
  \E f \in Plan(m) \intersect Owned :
     /\ tree[f] \notin {Absent, Template(m)}
     /\ ~CanOverwriteGenerated(f, tree[f])

SyncManifest(tree, m) ==
  [f \in Files |-> IF f \in Plan(m) \intersect Owned THEN Template(m)
                   ELSE IF f \in Plan(m) /\ tree[f] = Absent THEN Seed
                   ELSE tree[f]]

RunGenerators(tree) ==
  [f \in Files |-> IF f \in Outputs THEN Output(f, tree) ELSE tree[f]]

TidyDependencies(tree) ==
  [f \in Files |-> IF f \in Deps THEN Tidy(tree[f]) ELSE tree[f]]

(* or leave orphans where they are.                                         *)
FaultyPlanOrphans(tree, stage, m) ==
  LET there == Plan(m) \union {f \in Files : Generated(stage[f])}
  IN [f \in {g \in there : stage[g] # Absent /\ stage[g] # tree[g]} |->
        [before |-> tree[f], body |-> stage[f]]]

(* planStagedProjectCommit: owned files and outputs go back to the project, *)
(* and outputs the copy no longer has are removed from it.                  *)
PlanStagedCommit(tree, stage, m) ==
  LET there == Plan(m) \union {f \in Files : Generated(stage[f])}
      gone  == {f \in Files \ there : Generated(tree[f]) /\ stage[f] = Absent}
      differ == {f \in there : stage[f] # Absent /\ stage[f] # tree[f]}
  IN [f \in differ \union gone |-> [before |-> tree[f], body |-> stage[f]]]

(* planExplicitStagedFiles for go.mod and go.sum *)
PlanExplicit(tree, stage) ==
  [f \in {g \in Deps : stage[g] # tree[g]} |-> [before |-> tree[f], body |-> stage[f]]]

MergeChanges(p, q) ==
  [f \in DOMAIN p \union DOMAIN q |-> IF f \in DOMAIN p THEN p[f] ELSE q[f]]

----------------------------------------------------------------------------
Nothing == [f \in {} |-> Absent]
Idle == [kind |-> "none", pc |-> "idle", add |-> {}, before |-> {}, m |-> {},
         wrote |-> {}, yaml |-> {}, stage |-> Nothing, snap |-> Nothing, plan |-> Nothing,
         applied |-> <<>>]

Kinds == {"new", "sync", "deps", "generate", "check", "add"}
Active(c) == cmd[c].pc \notin {"idle", "done", "failed"}

(* What the project was when the command began, the files others changed    *)
(* since ("touched"), those they changed since the command last looked at   *)
(* them ("late"), and whether it ran beside another command.                *)
Unseen == [root |-> Nothing, yaml |-> {}, touched |-> {}, late |-> {}, met |-> FALSE]

SeenBy(d, fs) == IF Active(d) THEN [seen[d] EXCEPT !.touched = @ \union fs,
                                                   !.late = @ \union fs]
                 ELSE seen[d]

Note(fs, by) == seen' = [d \in Cmds |-> IF d = by THEN seen[d] ELSE SeenBy(d, fs)]

Keep == UNCHANGED <<manifest, root, seen>>
Event == events < MaxEvents /\ events' = events + 1

(* The end of a command, its last step having changed fs: its copy is gone. *)
EndChanging(c, how, fs) ==
  /\ cmd' = [cmd EXCEPT ![c] = [Idle EXCEPT !.pc = how]]
  /\ seen' = [d \in Cmds |-> IF d = c THEN Unseen ELSE SeenBy(d, fs)]

End(c, how) == EndChanging(c, how, {})

Go(c, pc) == cmd' = [cmd EXCEPT ![c].pc = pc] /\ UNCHANGED seen

(* A command gives up.  An add first takes its declaration back.            *)
GiveUp(c) == IF cmd[c].kind = "add" THEN Go(c, "undeclare") ELSE End(c, "failed")

(* Which of the free places a new command takes makes no difference.        *)
Place == CHOOSE d \in Cmds : ~Active(d)

Begin(c) ==
  /\ ~Active(c) /\ c = Place /\ Event
  /\ LET beside == \E d \in Cmds \ {c} : Active(d)
     IN seen' = [d \in Cmds |->
          IF d = c THEN [Unseen EXCEPT !.root = root, !.yaml = manifest, !.met = beside]
          ELSE [seen[d] EXCEPT !.met = @ \/ Active(d)]]
  /\ UNCHANGED <<manifest, root>>

(* NewProject: refused when the target exists.  *)
BeginNew(c) ==
  /\ manifest = {}
  /\ cmd' = [cmd EXCEPT ![c] = [Idle EXCEPT !.kind = "new", !.pc = "rename"]]
  /\ Begin(c)

(* SyncProject, GenerateTransactional, checkGenerated,                       *)
(* updateFrameworkDependenciesTransactional: the manifest is loaded first.  *)
BeginRun(c, kind) ==
  /\ manifest # {}
  /\ cmd' = [cmd EXCEPT ![c] = [Idle EXCEPT !.kind = kind, !.pc = "copy",
                                            !.m = manifest]]
  /\ Begin(c)

(* Add: what is already declared is refused.  roost.yaml is decoded and     *)
(* read once more for its bytes; the two adjacent reads are one step.       *)
BeginAdd(c, s) ==
  /\ manifest # {} /\ s \notin manifest
  /\ cmd' = [cmd EXCEPT ![c] = [Idle EXCEPT !.kind = "add", !.pc = "scaffold",
                                            !.add = {s}, !.before = manifest]]
  /\ Begin(c)

(* The commit point of a new project: the finished tree is renamed into     *)
(* place, which fails when something is there by now.                       *)
Rename(c) ==
  /\ cmd[c].pc = "rename"
  /\ IF manifest = {}
     THEN LET fresh == SyncManifest([f \in Files |-> Absent], {Base}) IN
          /\ manifest' = {Base}
          /\ root' = RunGenerators(fresh)
          /\ EndChanging(c, "done", Files \union {Yaml})
     ELSE UNCHANGED <<manifest, root>> /\ End(c, "failed")
  /\ UNCHANGED events

(* addArtifact, addRPC: the scaffold is written first, and only where there *)
(* is nothing yet.                                                          *)
Scaffold(c) ==
  LET fs == UNION {Artifact[s] : s \in cmd[c].add} IN
  /\ cmd[c].pc = "scaffold"
  /\ IF \A f \in fs : root[f] = Absent
     THEN /\ root' = [f \in Files |-> IF f \in fs THEN Seed ELSE root[f]]
          /\ cmd' = [cmd EXCEPT ![c].pc = "declare", ![c].wrote = fs]
          /\ Note(fs, c)
     ELSE UNCHANGED root /\ End(c, "failed")
  /\ UNCHANGED manifest /\ UNCHANGED events

(* commitManifestSyncResult: roost.yaml is replaced while it is what was    *)
(* read, and the project synchronised.                                      *)
Declare(c) ==
  /\ cmd[c].pc = "declare"
  /\ IF manifest = cmd[c].before
     THEN /\ manifest' = manifest \union cmd[c].add
          /\ cmd' = [cmd EXCEPT ![c].pc = "load"]
          /\ Note({Yaml}, c)
     ELSE UNCHANGED manifest /\ Go(c, "restore")
  /\ UNCHANGED root /\ UNCHANGED events

Load(c) ==
  /\ cmd[c].pc = "load"
  /\ cmd' = [cmd EXCEPT ![c].pc = "copy", ![c].m = manifest]
  /\ Keep /\ UNCHANGED events

(* copyProject and the snapshot of the copy's inputs.  *)
Copy(c) ==
  /\ cmd[c].pc = "copy"
  /\ cmd' = [cmd EXCEPT ![c].pc = "render", ![c].stage = root, ![c].yaml = manifest,
                        ![c].snap = SnapshotInputs(root, cmd[c].m)]
  /\ seen' = [seen EXCEPT ![c].late = {}]
  /\ UNCHANGED <<manifest, root>> /\ UNCHANGED events

(* Rendering, the generators and `go mod tidy`, all in the copy.            *)
Rendered(kind, stage, m) ==
  CASE kind \in {"sync", "add"} -> RunGenerators(SyncManifest(stage, m))
    [] kind = "generate" -> TidyDependencies(RunGenerators(stage))
    [] kind = "check" -> RunGenerators(stage)
    [] kind = "deps" -> TidyDependencies(stage)

Render(c) ==
  LET k == cmd[c].kind
      made == Rendered(k, cmd[c].stage, cmd[c].m)
      refused == \/ k \in {"sync", "add"} /\ RefusesSync(cmd[c].stage, cmd[c].m)
                 \/ k = "check" /\ made # cmd[c].stage
  IN /\ cmd[c].pc = "render"
     /\ IF refused THEN GiveUp(c)
        ELSE IF k = "check" THEN End(c, "done")
        ELSE cmd' = [cmd EXCEPT ![c].pc = "plan", ![c].stage = made] /\ UNCHANGED seen
     /\ UNCHANGED <<manifest, root>> /\ UNCHANGED events

(* A generator or the go command fails; only the copy has changed.  *)
RenderFails(c) ==
  /\ cmd[c].pc = "render" /\ Event
  /\ GiveUp(c)
  /\ UNCHANGED <<manifest, root>>

PlanCommit(c) ==
  LET k == cmd[c].kind
      staged == PlanStagedCommit(root, cmd[c].stage, cmd[c].m)
      explicit == PlanExplicit(root, cmd[c].stage)
  IN /\ cmd[c].pc = "plan"
     /\ cmd' = [cmd EXCEPT ![c].pc = "verify",
                           ![c].plan = CASE k = "generate" -> MergeChanges(staged, explicit)
                                         [] k = "deps" -> explicit
                                         [] OTHER -> staged]
     /\ seen' = [seen EXCEPT ![c].late = {}]
     /\ UNCHANGED <<manifest, root>> /\ UNCHANGED events

FaultyInputsUnchanged(c) == manifest = cmd[c].yaml

(* verifyProjectInputs: nothing a generator read differs from the copy.     *)
InputsUnchanged(c) == /\ manifest = cmd[c].yaml
                      /\ SnapshotInputs(root, cmd[c].m) = cmd[c].snap

Verify(c) ==
  /\ cmd[c].pc = "verify"
  /\ IF InputsUnchanged(c)
     THEN /\ cmd' = [cmd EXCEPT ![c].pc = "commit"]
          /\ seen' = [seen EXCEPT ![c].late = @ \ Inputs]
     ELSE GiveUp(c)
  /\ UNCHANGED <<manifest, root>> /\ UNCHANGED events

Applied(c) == {cmd[c].applied[n] : n \in DOMAIN cmd[c].applied}
Left(c) == {n \in DOMAIN Order : Order[n] \in DOMAIN cmd[c].plan \ Applied(c)}
NextFile(c) == Order[CHOOSE n \in Left(c) : \A k \in Left(c) : n <= k]

(* verifySyncChangeCurrent: the file still holds what was planned against.  *)
Current(f, change) == root[f] = change.before

(* Mutant: a file that is new is not recorded for the rollback.             *)
FaultyReplace(c) ==
  LET f == NextFile(c) IN
  /\ cmd[c].pc = "commit" /\ Left(c) # {}
  /\ IF Current(f, cmd[c].plan[f])
     THEN /\ root' = [root EXCEPT ![f] = cmd[c].plan[f].body]
          /\ cmd' = [cmd EXCEPT ![c].applied = IF root[f] = Absent THEN @ ELSE Append(@, f),
                                ![c].plan = IF root[f] = Absent
                                            THEN [g \in DOMAIN @ \ {f} |-> @[g]] ELSE @]
          /\ Note({f}, c)
     ELSE Go(c, "rollback") /\ UNCHANGED root
  /\ UNCHANGED manifest /\ UNCHANGED events

(* commitSyncChanges: the next file in order, or the end of the batch.  The *)
(* comparison and the rename next to it are one step.                       *)
Replace(c) ==
  LET f == NextFile(c) IN
  /\ cmd[c].pc = "commit" /\ Left(c) # {}
  /\ IF Current(f, cmd[c].plan[f])
     THEN /\ root' = [root EXCEPT ![f] = cmd[c].plan[f].body]
          /\ cmd' = [cmd EXCEPT ![c].applied = Append(@, f)]
          /\ Note({f}, c)
     ELSE Go(c, "rollback") /\ UNCHANGED root
  /\ UNCHANGED manifest /\ UNCHANGED events

ReplaceFails(c) ==
  /\ cmd[c].pc = "commit" /\ Left(c) # {} /\ Event
  /\ Go(c, "rollback")
  /\ UNCHANGED <<manifest, root>>

Finish(c) ==
  /\ cmd[c].pc = "commit" /\ Left(c) = {}
  /\ End(c, "done")
  /\ UNCHANGED <<manifest, root>> /\ UNCHANGED events

(* rollbackSync: what was replaced last is put back first, unless it has    *)
(* changed since; a removed file only while it is still gone.               *)
CanPutBack(f, change) == root[f] \in {Absent, change.body}

(* Mutant: a file that changed since holds the rollback up.                 *)
FaultyPutBack(c) ==
  LET n == Len(cmd[c].applied)
      f == cmd[c].applied[n]
  IN /\ cmd[c].pc = "rollback" /\ n > 0
     /\ CanPutBack(f, cmd[c].plan[f])
     /\ root' = [root EXCEPT ![f] = cmd[c].plan[f].before] /\ Note({f}, c)
     /\ cmd' = [cmd EXCEPT ![c].applied = SubSeq(@, 1, n - 1)]
     /\ UNCHANGED manifest /\ UNCHANGED events

PutBack(c) ==
  LET n == Len(cmd[c].applied)
      f == cmd[c].applied[n]
  IN /\ cmd[c].pc = "rollback" /\ n > 0
     /\ IF CanPutBack(f, cmd[c].plan[f])
        THEN root' = [root EXCEPT ![f] = cmd[c].plan[f].before] /\ Note({f}, c)
        ELSE UNCHANGED <<root, seen>>
     /\ cmd' = [cmd EXCEPT ![c].applied = SubSeq(@, 1, n - 1)]
     /\ UNCHANGED manifest /\ UNCHANGED events

(* A file that cannot be put back is reported and the next one tried.       *)
PutBackFails(c) ==
  LET n == Len(cmd[c].applied) IN
  /\ cmd[c].pc = "rollback" /\ n > 0 /\ Event
  /\ seen' = [seen EXCEPT ![c].touched = @ \union {cmd[c].applied[n]}]
  /\ cmd' = [cmd EXCEPT ![c].applied = SubSeq(@, 1, n - 1)]
  /\ UNCHANGED <<manifest, root>>

RolledBack(c) ==
  /\ cmd[c].pc = "rollback" /\ cmd[c].applied = <<>>
  /\ GiveUp(c)
  /\ UNCHANGED <<manifest, root>> /\ UNCHANGED events

FaultyCanUndeclare(c) == cmd[c].add \subseteq manifest

(* An add whose synchronisation failed takes roost.yaml back, unless it has *)
(* changed since.                                                           *)
CanUndeclare(c) == manifest = cmd[c].before \union cmd[c].add

Undeclare(c) ==
  /\ cmd[c].pc = "undeclare"
  /\ IF CanUndeclare(c) THEN manifest' = cmd[c].before /\ Note({Yaml}, c)
                        ELSE UNCHANGED <<manifest, seen>>
  /\ cmd' = [cmd EXCEPT ![c].pc = "restore"]
  /\ UNCHANGED root /\ UNCHANGED events

(* restoreFilesIfCurrent: the scaffold goes while it is as it was written.  *)
Scaffolded(c) == {f \in cmd[c].wrote : root[f] = Seed}

Restore(c) ==
  /\ cmd[c].pc = "restore"
  /\ root' = [f \in Files |-> IF f \in Scaffolded(c) THEN Absent ELSE root[f]]
  /\ EndChanging(c, "failed", Scaffolded(c))
  /\ UNCHANGED manifest /\ UNCHANGED events

----------------------------------------------------------------------------
(* The tool is killed: the copy is left behind and ignored from then on.    *)
Crash(c) ==
  /\ Active(c) /\ Event
  /\ End(c, "idle")
  /\ UNCHANGED <<manifest, root>>

Edits(f) == IF f \in Inputs \union Outputs THEN {User(2), Absent} ELSE {User(1)}

Edit(f, content) ==
  /\ manifest # {} /\ content # root[f]
  /\ Event
  /\ root' = [root EXCEPT ![f] = content]
  /\ Note({f}, "developer")
  /\ UNCHANGED <<manifest, cmd>>

EditYaml ==
  /\ manifest # {} /\ ByHand \notin manifest
  /\ Event
  /\ manifest' = manifest \union {ByHand}
  /\ Note({Yaml}, "developer")
  /\ UNCHANGED <<root, cmd>>

(* No project yet, or one that was made, given a source and generated.      *)
Started ==
  LET o == CHOOSE o \in Outputs : TRUE IN
  RunGenerators([SyncManifest([f \in Files |-> Absent], {Base}) EXCEPT ![Source[o]] = User(1)])

Init ==
  /\ \/ manifest = {} /\ root = [f \in Files |-> Absent]
     \/ manifest = {Base} /\ root = Started
  /\ cmd = [c \in Cmds |-> Idle]
  /\ seen = [c \in Cmds |-> Unseen]
  /\ events = 0

Advance(c) ==
  \/ Rename(c) \/ Scaffold(c) \/ Declare(c) \/ Load(c) \/ Copy(c) \/ Render(c) \/ PlanCommit(c)
  \/ Verify(c) \/ Replace(c) \/ Finish(c) \/ PutBack(c) \/ RolledBack(c) \/ Undeclare(c)
  \/ Restore(c)

Command(c) ==
  \/ Advance(c)
  \/ BeginNew(c)
  \/ \E kind \in {"sync", "deps", "generate", "check"} : BeginRun(c, kind)
  \/ \E s \in Services \ {ByHand} : BeginAdd(c, s)
  \/ RenderFails(c) \/ ReplaceFails(c) \/ PutBackFails(c)

Developer == EditYaml \/ \E f \in Files : \E content \in Edits(f) : Edit(f, content)

Next ==
  \/ \E c \in Cmds : Command(c) \/ Crash(c)
  \/ Developer

Spec == Init /\ [][Next]_vars /\ \A c \in Cmds : WF_vars(Advance(c))
----------------------------------------------------------------------------
Contents == {Absent, Seed} \union {User(k) : k \in 1 .. 2}
            \union {<<"tidy", k>> : k \in 0 .. 2}
            \union {Made(User(k)) : k \in 1 .. 2} \union {Template(m) : m \in SUBSET Services}

(* Every file holds something the tool or the developer wrote, and every    *)
(* command is at one of its steps.                                          *)
TypeOK ==
  /\ manifest \subseteq Services
  /\ root \in [Files -> Contents]
  /\ \A c \in Cmds :
       /\ cmd[c].kind \in Kinds \union {"none"}
       /\ cmd[c].pc \in {"idle", "rename", "scaffold", "declare", "load", "copy", "render", "plan",
                         "verify", "commit", "rollback", "undeclare", "restore",
                         "done", "failed"}
       /\ cmd[c].m \union cmd[c].yaml \union cmd[c].before \subseteq Services
       /\ DOMAIN cmd[c].plan \subseteq Files \ Inputs
       /\ Applied(c) \subseteq DOMAIN cmd[c].plan
       /\ seen[c].late \subseteq seen[c].touched \/ seen[c].late = {}

(* Application-owned source is never copied back (project.go:219): whatever *)
(* commands run, fail, roll back or are killed at the same time, an input   *)
(* or a seed that a developer wrote changes only when the developer does it.*)
WorkKept ==
  [][cmd' # cmd =>
       \A f \in Inputs \union Seeds :
          root[f] \in {User(1), User(2)} => root'[f] = root[f]]_vars

(* A service leaves roost.yaml only when the add that declared it fails:    *)
(* neither a developer's own declaration nor that of a command running at   *)
(* the same time is lost to a rollback.                                     *)
DeclarationsKept ==
  [][\A s \in manifest \ manifest' :
       \E c \in Cmds : s \in cmd[c].add /\ cmd[c].pc = "undeclare"]_vars

(* What a command that ran by itself and reported success leaves behind:    *)
(* every template the manifest calls for is that of the manifest, nothing   *)
(* called for is missing, every output is what its input yields, an added   *)
(* service is declared; what others changed after the command had looked at *)
(* it for the last time (planned against it, compared it) is theirs.        *)
CurrentAfter(c) ==
  LET k == cmd[c].kind
      late == seen[c].late
  IN /\ k \in {"sync", "add"} =>
          \A f \in Plan(cmd[c].m) \ seen[c].touched :
             /\ root'[f] # Absent
             /\ f \in Owned => root'[f] = Template(cmd[c].m)
     /\ k \in {"sync", "add", "generate", "check"} =>
          \A o \in Outputs : {o, Source[o]} \intersect late = {} => root'[o] = Output(o, root')
     /\ Yaml \notin seen[c].touched => cmd[c].add \subseteq manifest'

SuccessMeansCurrent ==
  [][\A c \in Cmds : Active(c) /\ cmd'[c].pc = "done" /\ ~seen[c].met => CurrentAfter(c)]_vars

(* A command that reports failure has changed nothing: every file that no   *)
(* one else touched, and roost.yaml, are what they were when it began,      *)
(* except where it reported that it could not put a file back.              *)
AllOrNothing ==
  [][\A c \in Cmds : Active(c) /\ cmd'[c].pc = "failed" =>
       /\ \A f \in Files \ seen[c].touched : root'[f] = seen[c].root[f]
       /\ Yaml \notin seen[c].touched => manifest' = seen[c].yaml]_vars

(* Every command that is not killed ends, whatever happens around it: there *)
(* are only so many, so from some moment on none is active.                 *)
CommandsEnd == <>[](\A c \in Cmds : ~Active(c))
=============================================================================
