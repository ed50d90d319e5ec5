----------------------------- MODULE Generators -----------------------------
(***************************************************************************)
(* roost generate (internal/roost/generate.go): the generators of a        *)
(* project run one after the other on a staged copy, each from its         *)
(* declarations and from what the ones before it wrote; the copy replaces  *)
(* the project when all of them succeed. How it does so while others edit  *)
(* the project is the subject of ProjectFiles: here a run is alone.        *)
(*                                                                         *)
(* What each generator writes for its declarations, and what the generated *)
(* code does, is in a module of its own.                                   *)
(***************************************************************************)
EXTENDS Integers, Sequences, Functions, FiniteSets, Ordered

CONSTANTS
    Declarations,   \* for each kind, the forms its declarations take: a sequence
                    \* of [dir, source], the first that of a new project; dir is where
                    \* a developer edits to get there
    Features,       \* the features the project's manifest enables
    HandFiles,      \* hand-written files in the generators' output directories
    ConfigPath,     \* the package path of configs/generated
    PathOrder,      \* the package paths of the project, in string order
    Numerals,       \* the numerals from 2 on, each a sequence of characters
    MaxEdits        \* bound on the edits of a behaviour

VARIABLES
    decl,     \* which form the declarations of each kind have
    out,      \* the files of the output directories
    stage,    \* the staged copy of them while a command runs
    mode,     \* the command that runs: "idle", "full", "changed" or "check"
    todo,     \* the generators it still has to run, in the order of generatorsFor
    last,     \* how the last command ended, "none" after an edit
    changed,  \* the directories in which git sees changes
    missed,   \* history: generators whose declarations --changed could not see changed
    focus,    \* the kind of declarations the behaviour edits
    edits     \* edits so far

vars == <<decl, out, stage, mode, todo, last, changed, missed, focus, edits>>

Attribute == INSTANCE AttributeGen
Registry == INSTANCE RegistryGen
Event == INSTANCE EventGen
Route == INSTANCE RouteGen
Entity == INSTANCE EntityGen
Nest == INSTANCE NestGen
Dao == INSTANCE DaoGen
Protocol == INSTANCE ProtocolGen
Rpc == INSTANCE RpcGen
Table == INSTANCE TableGen

generatorsFor ==
    <<"dao", "event", "errcode", "protocol", "entity", "nest", "attribute",
      "config-template", "config-data", "config-go", "webroute", "rpc", "registry">>

Names == Range(generatorsFor)

(* three generators read the declarations of the tables *)
Feature(g) == IF g \in {"config-template", "config-data", "config-go"} THEN "config" ELSE g

Kinds == {Feature(g) : g \in Names}

Source(g) == Declarations[Feature(g)][decl[Feature(g)]].source

Watched(g) ==
    CASE g = "dao"       -> {"db/def"}
      [] g = "event"     -> {"event/def"}
      [] g = "errcode"   -> {"game", "game/entities", "game/handler", "game/gameplay/attribute",
                             "internal", "internal/rpc", "service"}
      [] g = "protocol"  -> {"protocol/def"}
      [] g = "entity"    -> {"game/entities"}
      [] g = "nest"      -> {"game/entities", "game/handler"}
      [] g = "attribute" -> {"game/gameplay/attribute"}
      [] g = "config-data" -> {"configs/schema", "configs/table"}
      [] Feature(g) = "config" -> {"configs/schema"}
      [] g = "webroute"  -> {"service"}
      [] g = "rpc"       -> {"internal/rpc"}
      [] OTHER           -> {}

(* the directories whose files it reads *)
Reads(g) ==
    IF g \in {"config-template", "config-go"} THEN {"configs/schema"}
    ELSE {form.dir : form \in Range(Declarations[Feature(g)])}

(* generators that do not see that the declarations of a kind changed *)
Unseen(kind, touched) ==
    {g \in Names \ {"registry"} : Feature(g) = kind /\ ~(touched \intersect Reads(g) \subseteq Watched(g))}

(* where a generated file lies *)
OutDir(p) ==
    CASE p[1] = "dao"       -> "db"
      [] p[1] = "event"     -> "event"
      [] p[1] = "errcode"   -> "docs/generated"
      [] p[1] = "protocol"  -> "protocol"
      [] p[1] = "entity"    -> "game/entities"
      [] p[1] = "nest"      -> IF p[2] = <<"aggregate">> THEN "internal" ELSE "game/handler"
      [] p[1] = "attribute" -> "game/gameplay/attribute"
      [] Feature(p[1]) = "config" -> "configs"
      [] p[1] = "webroute"  -> "service"
      [] p[1] = "rpc"       -> "internal/rpc"
      [] OTHER              -> "internal"

(* hasFeature, and the generator that always runs *)
Enabled(g) == Feature(g) \in Features \/ g = "registry"

FaultySelected(m) ==
    {g \in Names : Enabled(g) /\ (m = "changed" => Watched(g) \intersect changed # {})}

(* what a command runs *)
Selected(m) ==
    {g \in Names : Enabled(g) /\ (m = "changed" => g = "registry" \/ Watched(g) \intersect changed # {})}

Place == [g \in Names |-> CHOOSE i \in DOMAIN generatorsFor : generatorsFor[i] = g]

(***************************************************************************)
(* The error codes: literal definitions anywhere in the project.           *)
(***************************************************************************)
Literal(source) == {d \in source : d.literal}

DuplicateCode(source) ==
    \E d, other \in Literal(source) : d # other /\ d.code = other.code

Codes(source) ==
    LET found == Literal(source)
        rows  == InOrder(found, {pair \in found \X found : pair[1].code < pair[2].code})
    IN  [i \in DOMAIN rows |-> <<rows[i].code, rows[i].name>>]

(***************************************************************************)
(* The registrations of the project: those a developer marked, and those   *)
(* in files the generators before wrote.                                   *)
(***************************************************************************)
Marked(path, func, phase, file) ==
    [path |-> path, func |-> func, rank |-> 0, options |-> [k \in {"phase"} |-> phase], file |-> file,
     method |-> FALSE, exported |-> TRUE, params |-> 0, results |-> <<>>]

Written(files) == {p \in DOMAIN files : files[p][1] = "gen"}

Scan(source, files) ==
    source.functions
      \union {Marked(p[2][1], "RegisterEntity", "entity", p[2][2]) :
                p \in {q \in Written(files) : q[1] = "entity" /\ files[q][2].registers # <<>>}}
      \union {Marked(Registry!OwnPath, "RegisterNestHandlers", "nest", "nest_gen") :
                p \in {q \in Written(files) : q = <<"nest", <<"aggregate">>>>}}
      \union {Marked(ConfigPath, "RegisterConfigData", "config", "gen_table_config") :
                p \in {q \in Written(files) : q[1] = "config-go"}}

(***************************************************************************)
(* One generator: what it refuses and what it writes, from its             *)
(* declarations and, for the registry, from the files it finds.            *)
(***************************************************************************)
Rejected(g, source, files) ==
    CASE g = "dao"       -> Dao!Rejected(source)
      [] g = "event"     -> Event!Rejected(source)
      [] g = "errcode"   -> DuplicateCode(source)
      [] g = "protocol"  -> Protocol!Rejected(source)
      [] g = "entity"    -> \E e \in source : Entity!Rejected(e)
      [] g = "nest"      -> Nest!Rejected(source)
      [] g = "attribute" -> \E profile \in source : Attribute!Rejected(profile)
      [] g = "config-data" -> Table!Rejected(source)
      [] Feature(g) = "config" -> FALSE
      [] g = "webroute"  -> Route!Rejected(source)
      [] g = "rpc"       -> \E package \in source : Rpc!Rejected(package)
      [] OTHER           -> source.legacy \/ Registry!Rejected(Scan(source, files))

(* a file of a generator, its path below the generator's name *)
Files(g, keys, Content(_)) ==
    [p \in {<<g, k>> : k \in keys} |-> <<"gen", Content(p[2])>>]

EventFiles(source) ==
    Files("event", {<<"types">>} \union Event!Groups(source),
          LAMBDA k : IF k = <<"types">> THEN Event!Types(source) ELSE Event!Subscriptions(source, k))

ProtocolFiles(source) ==
    LET codec == IF Protocol!Nothing(source) THEN {}
                 ELSE {<<"codec">>} \union {<<"handler", d>> : d \in Protocol!Domains(source)}
    IN  Files("protocol", {<<"bootstrap">>} \union codec,
              LAMBDA k : CASE k = <<"bootstrap">> -> Protocol!Bootstrap(source)
                           [] k = <<"codec">> -> [schema |-> Protocol!Schema(source), bind |-> Protocol!Bind(source)]
                           [] OTHER -> Protocol!DomainHandlers(source, k[2]))

Same(source, k) == {fn \in source : <<fn.dir, fn.file>> = k /\ Nest!IsHandler(fn)}

NestFiles(source) ==
    Files("nest", {<<"aggregate">>} \union Nest!Files(source),
          LAMBDA k : IF k = <<"aggregate">> THEN Nest!Aggregate(source)
                     ELSE {<<fn.name, Nest!Content(fn)>> : fn \in Same(source, k)})

Outputs(g, source, files) ==
    CASE g = "dao"       -> Files(g, DOMAIN Dao!Outputs(source), LAMBDA k : Dao!Outputs(source)[k])
      [] g = "event"     -> IF Event!Nothing(source) THEN Files(g, {}, LAMBDA k : k) ELSE EventFiles(source)
      [] g = "errcode"   -> Files(g, {<<"errcode.csv">>}, LAMBDA k : Codes(source))
      [] g = "protocol"  -> ProtocolFiles(source)
      [] g = "entity"    -> Files(g, {<<e.dir, e.name>> : e \in source},
                                  LAMBDA k : Entity!Content(source, CHOOSE e \in source : <<e.dir, e.name>> = k))
      [] g = "nest"      -> NestFiles(source)
      [] g = "attribute" -> Files(g, {<<p.name>> : p \in {q \in source : Attribute!Claimed(q)}},
                                  LAMBDA k : Attribute!Content(CHOOSE p \in source : <<p.name>> = k))
      [] g = "config-template" -> Files(g, {<<t.file>> : t \in source.tables},
                                  LAMBDA k : Table!HeadRows(CHOOSE t \in source.tables : <<t.file>> = k))
      [] g = "config-data" -> Files(g, {<<t.json>> : t \in {u \in source.tables : ~Table!NoData(source)}},
                                  LAMBDA k : Table!Payload(source, CHOOSE t \in source.tables : <<t.json>> = k))
      [] g = "config-go" -> Files(g, {<<"gen_table_config">>}, LAMBDA k : Table!Go(source))
      [] g = "webroute"  -> Files(g, {<<d>> : d \in Route!Dirs(source)}, LAMBDA k : Route!Content(source, k[1]))
      [] g = "rpc"       -> Files(g, {<<p.dir>> : p \in {q \in source : q.interfaces # <<>>}},
                                  LAMBDA k : Rpc!Content(CHOOSE p \in source : <<p.dir>> = k))
      [] OTHER           -> Files(g, {<<"registry_gen">>}, LAMBDA k : Registry!Content(Scan(source, files)))

(* only the data object generator removes what nothing declares any more *)
Swept(g, source, files) ==
    {p \in DOMAIN files : g = "dao" /\ p[1] = "dao" /\ Dao!Orphan(source, p[2], files[p][1] = "gen")}

(* the files of a directory after others were written to it *)
Over(written, files) ==
    [p \in DOMAIN written \union DOMAIN files |-> IF p \in DOMAIN written THEN written[p] ELSE files[p]]

Run(g, source, files) ==
    Over(Outputs(g, source, files), [p \in DOMAIN files \ Swept(g, source, files) |-> files[p]])

(* what a run of g would leave as it is *)
Fresh(g) == Run(g, Source(g), out) = out

NoFiles == [p \in {} |-> <<"hand">>]
HandWritten == [p \in HandFiles |-> <<"hand">>]

(* what a first run of all generators makes: no generator but the last     *)
(* reads what another wrote                                                *)
First(g) == Declarations[Feature(g)][1].source

Independent == {g \in Names \ {"registry"} : Enabled(g)}

Generated ==
    LET parts == [p \in UNION {DOMAIN Outputs(g, First(g), NoFiles) : g \in Independent} |->
                    Outputs(p[1], First(p[1]), NoFiles)[p]]
    IN  Run("registry", First("registry"), Over(HandWritten, parts))

(* The first form of a project is one that was generated. A hand-written   *)
(* file lies at the path of no output. Two forms of the tables that differ *)
(* in configs/table alone differ in the CSV files.                         *)
DeclarationsAssumption ==
    /\ MaxEdits \in Nat
    /\ \A kind \in Kinds : kind \in DOMAIN Declarations /\ 1 \in DOMAIN Declarations[kind]
    /\ \A g \in Independent : ~Rejected(g, First(g), NoFiles)
    /\ \A p \in HandFiles :
          /\ p = <<p[1], p[2]>> /\ p[1] \in Names /\ p # <<"registry", <<"registry_gen">>>>
          /\ p[1] # "registry" =>
                \A v \in DOMAIN Declarations[Feature(p[1])] :
                    LET source == Declarations[Feature(p[1])][v].source
                    IN  Rejected(p[1], source, NoFiles) \/ p \notin DOMAIN Outputs(p[1], source, NoFiles)
    /\ \A v, w \in DOMAIN Declarations["config"] :
          LET form  == Declarations["config"][v]
              other == Declarations["config"][w]
          IN  "configs/schema" \in {form.dir, other.dir} \/ form.source.tables = other.source.tables

ASSUME DeclarationsAssumption

(***************************************************************************)
(* What the sources of a program are, before any generator reads them: the *)
(* declarations of a file are in an order, a package declares a name once  *)
(* and has finitely many, numbers are numbers.                             *)
(***************************************************************************)
IsList(s) == s \in Seq(Range(s))

Sources(kind) == {form.source : form \in Range(Declarations[kind])}

ProfilesAssumption ==
    \A profiles \in Sources("attribute") :
        /\ \A p \in profiles : IsList(p.fields) /\ IsList(p.methods)
        /\ \A p \in profiles : \A m \in Range(p.methods) : IsList(m.params)
        /\ \A p, q \in profiles : p.name = q.name => p = q

CodesAssumption ==
    \A source \in Sources("errcode") : IsFiniteSet(source) /\ \A d \in source : d.code \in Int

(* a method of a type with parameters is none the generator sees *)
EventsAssumption ==
    \A source \in Sources("event") :
        /\ IsList(source.structs)
        /\ \A i, j \in DOMAIN source.structs :
              LET st == source.structs[i]
                  other == source.structs[j]
              IN  st.file = "plain" /\ other.file = "plain" /\ st.struct /\ other.struct
                    /\ st.prefix /\ other.prefix /\ st.suffix = other.suffix => i = j
        /\ IsFiniteSet(source.methods)
        /\ \A m \in source.methods : m.order \in Int /\ m.receiver # ""
        /\ \A m, n \in Event!Handlers(source) :
              m.dir = n.dir /\ m.receiver = n.receiver /\ m.order = n.order => m = n

EntitiesAssumption ==
    \A source \in Sources("entity") :
        /\ IsFiniteSet(source)
        /\ \A e \in source : e.dir \in Range(PathOrder) /\ e.rank \in Int
        /\ \A e, f \in source : e.dir = f.dir /\ (e.name = f.name \/ e.rank = f.rank) => e = f

(* an alias takes a numeral that no other has; there are always more *)
PathsAssumption ==
    /\ IsList(PathOrder) /\ IsInjective(PathOrder)
    /\ \A path \in Range(PathOrder) : IsList(path) /\ \A segment \in Range(path) : IsList(segment)
    /\ {Registry!OwnPath, ConfigPath} \subseteq Range(PathOrder)
    /\ IsList(Numerals) /\ IsInjective(Numerals) /\ \A n \in Range(Numerals) : IsList(n)
    /\ Len(Numerals) >= Len(PathOrder) + Cardinality(Registry!AggregateReservedNames)

RegistrationsAssumption ==
    /\ PathsAssumption
    /\ \A source \in Sources("registry") :
          /\ IsFiniteSet(source.functions)
          /\ \A fn \in source.functions :
                fn.path \in Range(PathOrder) /\ fn.rank \in Int \ {0} /\ Registry!Order(fn) \in Int
          /\ \A fn, other \in source.functions :
                fn.path = other.path /\ fn.rank = other.rank => fn.func = other.func

HandlersAssumption ==
    \A source \in Sources("nest") : \A fn \in source : IsList(fn.params) /\ IsList(fn.results)

(* the first constant of a block has a value; a type has a name *)
ConstantsAssumption ==
    \A source \in Sources("protocol") :
        /\ Protocol!NoType \notin source.enums
        /\ IsList(source.blocks)
        /\ \A b \in DOMAIN source.blocks :
              LET block == source.blocks[b]
              IN  IsList(block) /\ (block # <<>> => block[1].expr # Protocol!NoExpr)

(* a directory is one package *)
ServicesAssumption ==
    \A source \in Sources("rpc") :
        /\ \A package \in source : IsList(package.interfaces)
        /\ \A package, other \in source : package.dir = other.dir => package = other

(* a struct has a name, lies in a file, and lists its fields *)
ObjectsAssumption ==
    \A source \in Sources("dao") :
        /\ IsList(source.structs)
        /\ \A st \in Range(source.structs) : st.name # Dao!NoName /\ st.file \in Int /\ IsList(st.fields)

SourcesAssumption ==
    /\ ProfilesAssumption /\ CodesAssumption /\ EventsAssumption
    /\ EntitiesAssumption /\ RegistrationsAssumption /\ HandlersAssumption
    /\ ConstantsAssumption /\ ServicesAssumption /\ ObjectsAssumption

ASSUME SourcesAssumption

(* a project that was generated and committed *)
Init ==
    /\ decl = [kind \in Kinds |-> 1]
    /\ out = Generated
    /\ stage = NoFiles /\ mode = "idle" /\ todo = {} /\ last = "none"
    /\ changed = {}
    /\ missed = {}
    /\ focus \in {Feature(g) : g \in {n \in Names : Enabled(n)}}
    /\ edits = 0

(***************************************************************************)
(* The developer: edits declarations, commits, removes a generated file.   *)
(***************************************************************************)
Edit(v) ==
    /\ mode = "idle" /\ edits < MaxEdits /\ v \in DOMAIN Declarations[focus] \ {decl[focus]}
    /\ decl' = [decl EXCEPT ![focus] = v]
    /\ LET touched == {Declarations[focus][v].dir, Declarations[focus][decl[focus]].dir}
       IN  /\ changed' = changed \union touched
           /\ missed' = missed \union Unseen(focus, touched)
    /\ last' = "none" /\ edits' = edits + 1
    /\ UNCHANGED <<out, stage, mode, todo, focus>>

Commit ==
    /\ mode = "idle" /\ changed # {}
    /\ changed' = {}
    /\ missed' = missed \union {g \in Names : Enabled(g) /\ (Rejected(g, Source(g), out) \/ ~Fresh(g))}
    /\ UNCHANGED <<decl, out, stage, mode, todo, last, focus, edits>>

RemoveFile(p) ==
    /\ mode = "idle" /\ edits < MaxEdits /\ p \in Written(out) /\ Feature(p[1]) = focus
    /\ out' = [q \in DOMAIN out \ {p} |-> out[q]]
    /\ changed' = changed \union {OutDir(p)}
    /\ missed' = IF OutDir(p) \in Watched(p[1]) \/ p[1] = "registry" THEN missed ELSE missed \union {p[1]}
    /\ last' = "none" /\ edits' = edits + 1
    /\ UNCHANGED <<decl, stage, mode, todo, focus>>

(***************************************************************************)
(* The commands: generate, generate --changed, generate --check.           *)
(***************************************************************************)
Start(m) ==
    /\ mode = "idle"
    /\ mode' = m /\ stage' = out /\ todo' = Selected(m)
    /\ UNCHANGED <<decl, out, last, changed, missed, focus, edits>>

Drop == mode' = "idle" /\ stage' = NoFiles /\ todo' = {}

(* the generator whose turn it is *)
Turn(g) == g \in todo /\ \A other \in todo : Place[g] <= Place[other]

Step(g) ==
    /\ Turn(g) /\ ~Rejected(g, Source(g), stage)
    /\ stage' = Run(g, Source(g), stage) /\ todo' = todo \ {g}
    /\ UNCHANGED <<decl, out, mode, last, changed, missed, focus, edits>>

Fail(g) ==
    /\ Turn(g) /\ Rejected(g, Source(g), stage) = TRUE
    /\ Drop /\ last' = "failed"
    /\ UNCHANGED <<decl, out, changed, missed, focus, edits>>

(* the outputs that are neither marked as generated nor in a directory of  *)
(* generated data                                                          *)
Unmarked == {"config-template"}

snapshotGenerated(files) == {p \in Written(files) : p[1] \notin Unmarked}

(* files that changed, but not those that came or went *)
FaultyDiffSnapshot(before, after) ==
    {p \in snapshotGenerated(before) \intersect snapshotGenerated(after) : before[p] # after[p]}

diffSnapshot(before, after) ==
    {p \in snapshotGenerated(before) \union snapshotGenerated(after) :
        ~(p \in snapshotGenerated(before) /\ p \in snapshotGenerated(after) /\ before[p] = after[p])}

(* the project once the copy replaced it: only what a snapshot sees moves *)
Published ==
    Over([p \in snapshotGenerated(stage) |-> stage[p]], [p \in DOMAIN out \ snapshotGenerated(out) |-> out[p]])

Publish ==
    /\ mode \in {"full", "changed"} /\ todo = {}
    /\ out' = Published
    /\ changed' = changed \union {OutDir(p) : p \in diffSnapshot(out, stage)}
    /\ missed' = IF mode = "full" THEN {} ELSE missed \ Selected(mode)
    /\ last' = "ok" /\ Drop
    /\ UNCHANGED <<decl, focus, edits>>

Check ==
    /\ mode = "check" /\ todo = {}
    /\ last' = (IF diffSnapshot(out, stage) = {} THEN "current" ELSE "stale")
    /\ Drop
    /\ UNCHANGED <<decl, out, changed, missed, focus, edits>>

Killed == Drop

Stop ==
    /\ mode # "idle" /\ Killed
    /\ UNCHANGED <<decl, out, last, changed, missed, focus, edits>>

Next ==
    \/ \E v \in 1..10 : Edit(v)
    \/ Commit
    \/ \E p \in DOMAIN out : RemoveFile(p)
    \/ \E m \in {"full", "changed", "check"} : Start(m)
    \/ \E g \in Names : Step(g) \/ Fail(g)
    \/ Publish \/ Check \/ Stop

Spec == Init /\ [][Next]_vars

(***************************************************************************)
(* Properties.                                                             *)
(***************************************************************************)
(* The type invariant: what the variables hold, and that a staged copy     *)
(* exists only while a command runs (generate.go: the deferred removal).   *)
TypeOK ==
    /\ \A kind \in Kinds : decl[kind] \in DOMAIN Declarations[kind]
    /\ \A p \in DOMAIN out : p[1] \in Names /\ out[p][1] \in {"gen", "hand"}
    /\ mode \in {"idle", "full", "changed", "check"}
    /\ mode = "idle" => stage = NoFiles /\ todo = {}
    /\ todo \subseteq Selected(mode)
    /\ \A g \in Selected(mode), other \in todo : Place[other] < Place[g] => g \in todo
    /\ last \in {"none", "ok", "failed", "current", "stale"}
    /\ missed \subseteq Names /\ focus \in Kinds /\ edits \in 0..MaxEdits

Ended == mode = "idle" /\ last = "ok"

(* what the outputs of g hold after a run; and whether there is something to say *)
Ran(g) == Ended /\ Enabled(g) /\ g \notin missed \union Unmarked
At(g, k) == out[<<g, k>>][2]

(* generate leaves every output what a run on an empty project would make  *)
(* of the declarations, whatever was generated before; --changed does so   *)
(* for whatever git shows it. The last generator sees what those before    *)
(* it wrote in the same run (generate.go:129). The templates of the tables *)
(* are not published (project.go: planStagedProjectCommit).                *)
CurrentAfterRun == \A g \in Names : Ran(g) => Fresh(g)

(* generate --check says current exactly when a run would change nothing   *)
(* but templates of tables, also where --changed missed an edit            *)
(* (generate.go: checkGenerated, snapshotGenerated).                       *)
CheckIsTrue ==
    mode = "idle" /\ last \in {"current", "stale"} =>
       ((last = "current") = (\A g \in Names \ Unmarked : Enabled(g) => Fresh(g)))

(* no generator removes or rewrites a file a developer wrote beside its    *)
(* outputs (dao/main.go: removeOrphanGenerated).                           *)
HandWrittenKept == \A p \in HandFiles : p \in DOMAIN out /\ out[p] = <<"hand">>

(* what a run owes a project: every output it owns current, no other file  *)
(* touched, and no copy left behind (generate.go: GenerateTransactional).  *)
OutputsCurrent == TypeOK /\ HandWrittenKept /\ CurrentAfterRun

(* attribute: from values in step with their formulas, any change of       *)
(* fields, then Update, leaves them in step, in whatever order formulas    *)
(* use one another (attribute/gen.go: Update, LoadValues).                 *)
AttributesSettle ==
    Ran("attribute") =>
       \A profile \in {p \in Source("attribute") : Attribute!Claimed(p)} :
          LET content == At("attribute", <<profile.name>>)
              fields  == {content.fields[i].name : i \in DOMAIN content.fields}
              direct  == fields \ DOMAIN content.inputs
          IN  \A values \in [fields -> 0..2] :
                 Attribute!Settled(content, [values |-> values, dirty |-> {}]) =>
                    \A given \in SUBSET direct : \A change \in [given -> 0..2] :
                       Attribute!Settled(content,
                          Attribute!LoadValues(content, [values |-> values, dirty |-> {}], change))

(* registry: the aggregate calls every marked function once, also those    *)
(* just generated, in the order of their phases (registry/parse.go).       *)
RegistrationsInOrder == Ran("registry") => Registry!Registers(Scan(Source("registry"), out), At("registry", <<"registry_gen">>))

(* event: every handler receives the events it deals with (handler.go).    *)
EventsDelivered ==
    Ran("event") /\ ~Event!Nothing(Source("event")) =>
       Event!Delivers(Source("event"), At("event", <<"types">>),
          [group \in Event!Groups(Source("event")) |-> At("event", group)])

(* errcode: a code has one row and one meaning, and every literal          *)
(* definition has a row (errcode/main.go: extractDefinitions).             *)
CodesUnique ==
    Ran("errcode") =>
       LET rows == At("errcode", <<"errcode.csv">>)
       IN  /\ \A d \in Literal(Source("errcode")) : \E i \in DOMAIN rows : rows[i] = <<d.code, d.name>>
           /\ \A i, j \in DOMAIN rows : i < j => rows[i][1] < rows[j][1]

(* webroute: a service answers each route with its one function (gen.go).  *)
RoutesServed ==
    Ran("webroute") =>
       Route!Serves(Source("webroute"),
          [dir \in Route!Dirs(Source("webroute")) |-> At("webroute", <<dir>>)])

(* entity: a package registers each of its entities through one function,  *)
(* and a wiring file imports what it names (entity/gen.go).                *)
EntitiesWired ==
    Ran("entity") =>
       Entity!Wires(Source("entity"),
          [k \in {<<e.dir, e.name>> : e \in Source("entity")} |-> At("entity", k)])

(* entity: a remote commit is what the transaction changed, and its        *)
(* acknowledgement advances no other data object (entity/gen.go).          *)
RemoteCommitsExact ==
    Ran("entity") => \A e \in Source("entity") : Entity!Managed(e) => Entity!CommitsChanges(At("entity", <<e.dir, e.name>>))

(* nest: a dispatched call reaches the handler with the entities and the   *)
(* values its sender was given, each in its place (nest/gen.go).           *)
HandlersReached ==
    Ran("nest") =>
       \A k \in Nest!Files(Source("nest")) : \A handler \in At("nest", k) :
          Nest!Dispatches(handler[2], {1, 2})

(* dao: no field of a definition is silently not stored (dao/parse.go).    *)
NothingLost ==
    Ran("dao") =>
       LET files == {p \in DOMAIN out : p[1] = "dao" /\ out[p][1] = "gen"}
       IN  Dao!Stores(Source("dao"), [k \in {p[2] : p \in files} |-> At("dao", k)])

(* protocol: an id means one method to client and server, and constants    *)
(* have the values the compiler gives them (protocol/parse.go).            *)
ProtocolAgrees ==
    Ran("protocol") /\ ~Protocol!Nothing(Source("protocol")) =>
       LET source == Source("protocol")
       IN  Protocol!Agrees(source,
              [bind |-> At("protocol", <<"codec">>).bind, robot |-> Protocol!Robot(source)],
              [d \in Protocol!Domains(source) |-> At("protocol", <<"handler", d>>)],
              At("protocol", <<"bootstrap">>))

(* config: the rows the game loads are those of the CSV file, each under   *)
(* a key of its own (tablegen/main.go: csvDataStart, validateRows).        *)
TablesLoad ==
    Ran("config-data") /\ Ran("config-go") /\ ~Table!NoData(Source("config-data")) =>
       Table!Loads(Source("config-data"),
          [json \in {<<t.json>> : t \in Source("config-data").tables} |-> At("config-data", json)])

Served == {p \in Source("rpc") : p.interfaces # <<>>}

(* rpc: a remote service cannot be told from a local one, and a process    *)
(* that serves it does not call itself over the bus (template.go).         *)
RemoteIsLocal == Ran("rpc") => \A p \in Served : Rpc!Transports(At("rpc", <<p.dir>>))

(* rpc: nothing in a request or a reply is lost for being unexported or    *)
(* not encodable, at any depth (wiresafe.go: checkWireSafeDeep).           *)
NothingDropped == Ran("rpc") => \A p \in Served : Rpc!Carries(p, At("rpc", <<p.dir>>))

(* What is declared is wired: the aggregates and tables of a program name  *)
(* every function, handler, code, route and entity of its source once, in  *)
(* their order (the registry, event, errcode, webroute, entity generators).*)
WiringComplete ==
    RegistrationsInOrder /\ EventsDelivered /\ CodesUnique /\ RoutesServed /\ EntitiesWired

(* What one side packs the other unpacks: a call of a Nest handler or of a *)
(* remote service arrives as it was made, and so does its answer, though   *)
(* the two sides are printed apart (the nest and rpc generators).          *)
CallsArrive == HandlersReached /\ RemoteIsLocal /\ NothingDropped

(* What is stored is what was declared and changed: fields of a document,  *)
(* the commit of a remote transaction, the rows of a table (the dao,       *)
(* entity and table generators).                                           *)
DataKept == NothingLost /\ RemoteCommitsExact /\ TablesLoad
=============================================================================
