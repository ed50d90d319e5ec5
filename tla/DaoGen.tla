------------------------------- MODULE DaoGen -------------------------------
(***************************************************************************)
(* The data object generator (internal/dao): what the definition files of  *)
(* db/def become, and which of the files generated before are removed.     *)
(*                                                                         *)
(*   structs  the structs in file and source order, [file, name, fields]:  *)
(*            name is <<base, ending>>, ending "", "Dao", "Redis" or       *)
(*            "RedisDao"                                                   *)
(*   fields   [name, store, kind, key, elem, tag] in order: store the name *)
(*            of the generated private field, kind "basic", "struct",      *)
(*            "map", "slice" or "other", elem the name of the struct it    *)
(*            holds or NoName, tag the words of its dao tag and whether    *)
(*            it has one                                                   *)
(*   markers  [kind, bare, binds, params]: bare has no parameters, binds   *)
(*            the structs the marker is adjacent to, params a function     *)
(***************************************************************************)
EXTENDS Integers, Sequences, Functions, FiniteSets, Ordered

NoEnding == ""
NoName == <<NoEnding, NoEnding>>

InFile(source, file) == {st \in Range(source.structs) : st.file = file}

Marked(source, kind) ==
    Select(source.structs, LAMBDA st : \E m \in source.markers : m.kind = kind /\ st.name \in m.binds)

Params(source, kind, name) ==
    (CHOOSE m \in source.markers : m.kind = kind /\ name \in m.binds).params

Value(params, key, fallback) == IF key \in DOMAIN params THEN params[key] ELSE fallback

(* a marker is for one struct, and a struct has one marker of a kind *)
BadMarkers(source) ==
    \E m \in source.markers :
        \/ m.bare
        \/ Cardinality(m.binds) # 1
        \/ \E other \in source.markers \ {m} : other.kind = m.kind /\ other.binds = m.binds

(***************************************************************************)
(* Fields: what the tag asks for.                                          *)
(***************************************************************************)
MapWords == {"map=small", "map=fast", "map=sharded"}

Intents == {"persist", "nopersist", "sync", "nosync"}

Skipped(f) == f.tag.given /\ f.tag.words = {"-"}

BadTag(f) ==
    /\ f.tag.given /\ ~Skipped(f)
    /\ \/ f.tag.words \ (Intents \union MapWords) # {}
       \/ {"persist", "nopersist"} \subseteq f.tag.words
       \/ {"sync", "nosync"} \subseteq f.tag.words
       \/ f.tag.words \intersect Intents = {}

Persists(f) == ~f.tag.given \/ "persist" \in f.tag.words
Syncs(f) == ~f.tag.given \/ "sync" \in f.tag.words
Hashed(f) == f.kind = "map" /\ f.tag.words \intersect {"map=fast", "map=sharded"} # {}

Fields(st) == Select(st.fields, LAMBDA f : ~Skipped(f))

BadFields(st) ==
    \E i \in DOMAIN st.fields :
        \/ BadTag(st.fields[i])
        \/ ~Skipped(st.fields[i]) /\ st.fields[i].kind = "other"

(* what is refused when a file is about to be written *)
BadStorage(st, reserved) ==
    \/ \E i \in DOMAIN Fields(st) : Hashed(Fields(st)[i]) /\ Fields(st)[i].key \notin {"string", "integer"}
    \/ \E i \in DOMAIN Fields(st) : Fields(st)[i].store \in reserved
    \/ ~IsInjective([i \in DOMAIN Fields(st) |-> Fields(st)[i].store])

(***************************************************************************)
(* The structs a data object holds. Each file is searched for the structs  *)
(* of the data objects read so far, and for what those structs hold.       *)
(***************************************************************************)
Held(st) == {Fields(st)[i].elem : i \in DOMAIN Fields(st)} \ {NoName}

NestedIn(source, file) ==
    LET daos  == {st \in Range(Marked(source, "dao")) : st.file <= file}
        start == UNION {Held(st) : st \in daos}
        Grow(names) == names \union UNION {Held(st) : st \in {o \in InFile(source, file) : o.name \in names}}
        all[n \in 0..Len(source.structs)] == IF n = 0 THEN start ELSE Grow(all[n - 1])
    IN  {st \in InFile(source, file) : st.name \in all[Len(source.structs)]}

Nested(source) == UNION {NestedIn(source, st.file) : st \in Range(source.structs)}

NestedNames(source) == {st.name : st \in Nested(source)}

(***************************************************************************)
(* Redis objects: the type of the key is found along the path that names   *)
(* it, through structs of the same file.                                   *)
(***************************************************************************)
KeyType(source, st) ==
    LET params == Params(source, "redisdao", st.name)
        path == Value(params, "key", <<>>)
        Step(name, part) ==
            LET here == {o \in InFile(source, st.file) : o.name = name}
                hits == {f \in UNION {Range(o.fields) : o \in here} : f.name = part}
            IN  IF hits = {} THEN NoName
                ELSE LET f == CHOOSE g \in hits : TRUE
                     IN  IF f.elem # NoName THEN f.elem ELSE <<f.kind, f.key>>
        at[n \in 0..Len(path)] == IF n = 0 THEN st.name ELSE Step(at[n - 1], path[n])
    IN  IF "key_type" \in DOMAIN params THEN params["key_type"]
        ELSE at[Len(path)]

BadDao(source, st) ==
    LET params == Params(source, "dao", st.name)
    IN  \/ ~({"coll", "db"} \subseteq DOMAIN params)
        \/ Value(params, "dbscope", "global") \notin {"global", "sid"}
        \/ Value(params, "schema", 1) < 1
        \/ BadFields(st)
        \/ BadStorage(st, {"id", "tracker"})

BadRedisDao(source, st) ==
    LET params == Params(source, "redisdao", st.name)
    IN  \/ ~({"key", "prefix"} \subseteq DOMAIN params)
        \/ Value(params, "mode", "ref-hmap") \notin {"ref-hmap", "raw"}
        \/ KeyType(source, st) = NoName
        \/ BadFields(st)

Rejected(source) ==
    \/ BadMarkers(source)
    \/ \E st \in Range(Marked(source, "dao")) : BadDao(source, st)
    \/ \E st \in Range(Marked(source, "redisdao")) : BadRedisDao(source, st)
    \/ \E st \in Nested(source) : BadFields(st) \/ BadStorage(st, {})

(***************************************************************************)
(* The files written, and those swept.                                     *)
(***************************************************************************)
DaoFile(name) == <<name[1], IF name[2] \in {NoEnding, "Dao"} THEN "dao" ELSE "redis_dao">>
RedisFile(name) == <<name[1], "redis_dao">>
NestedFile(name) == <<name[1], "nested">>
HelperFile == <<NoEnding, "helpers">>

(* the file a kind of definition is written to *)
FileOf(kind, name) ==
    IF kind = "dao" THEN DaoFile(name) ELSE IF kind = "redisdao" THEN RedisFile(name) ELSE NestedFile(name)

Stored(source, st) ==
    [persist |-> Select(Fields(st), Persists), sync |-> Select(Fields(st), Syncs),
     wire |-> {f \in Range(Fields(st)) : f.elem \in NestedNames(source)}]

DaoContent(source, st) ==
    LET params == Params(source, "dao", st.name)
    IN  [of |-> st.name, coll |-> params["coll"], db |-> params["db"],
         scope |-> Value(params, "dbscope", "global"), schema |-> Value(params, "schema", 1),
         stored |-> Stored(source, st)]

RedisContent(source, st) ==
    LET params == Params(source, "redisdao", st.name)
    IN  [of |-> st.name, mode |-> Value(params, "mode", "ref-hmap"),
         keyType |-> KeyType(source, st), prefix |-> params["prefix"]]

(* of two structs with one file the later one is in it *)
Latest(structs, kind, file) ==
    structs[CHOOSE i \in DOMAIN structs :
                /\ FileOf(kind, structs[i].name) = file
                /\ \A j \in DOMAIN structs : FileOf(kind, structs[j].name) = file => j <= i]

FilesFor(structs, kind) == {FileOf(kind, st.name) : st \in structs}

Outputs(source) ==
    LET daos   == Marked(source, "dao")
        redis  == Marked(source, "redisdao")
        nested == Nested(source)
        helper == IF nested = {} THEN {} ELSE {HelperFile}
        ofRedis == FilesFor(Range(redis), "redisdao")
        ofNested == FilesFor(nested, "nested")
    IN  [p \in FilesFor(Range(daos), "dao") \union ofRedis \union ofNested \union helper |->
            IF p \in helper THEN [of |-> NoName]
            ELSE IF p \in ofNested
            THEN LET held == CHOOSE st \in nested : NestedFile(st.name) = p
                 IN  [of |-> held.name, stored |-> Stored(source, held)]
            ELSE IF p \in ofRedis THEN RedisContent(source, Latest(redis, "redisdao", p))
            ELSE DaoContent(source, Latest(daos, "dao", p))]

(* gone with their definition: generated files of these endings only *)
Orphan(source, file, generated) ==
    /\ generated
    /\ file[2] \in {"dao", "redis_dao", "nested"}
    /\ file \notin DOMAIN Outputs(source)

(***************************************************************************)
(* Nothing a marked struct holds is left out of its stored form unless a   *)
(* tag says so, each data object has a file of its own, every struct of    *)
(* its file that it holds is stored in a form that can be encoded, and no  *)
(* file is left of a definition that is gone.                              *)
(***************************************************************************)
Stores(source, files) ==
    LET expected == FilesFor(Range(Marked(source, "dao")), "dao")
              \union FilesFor(Range(Marked(source, "redisdao")), "redisdao")
              \union FilesFor(Nested(source), "nested")
    IN  /\ {p \in DOMAIN files : p[2] # "helpers"} = expected
        /\ \A st \in Range(Marked(source, "dao")) :
              LET file == files[DaoFile(st.name)]
              IN  /\ file.of = st.name
                  /\ \A f \in Range(st.fields) :
                        \/ Skipped(f)
                        \/ f.tag.given /\ "nopersist" \in f.tag.words
                        \/ f.tag.given /\ "persist" \notin f.tag.words /\ f.tag.words \intersect {"sync", "nosync"} # {}
                        \/ f \in Range(file.stored.persist)
                  /\ \A f \in Range(Fields(st)) :
                        (\E o \in InFile(source, st.file) : o.name = f.elem)
                           => f \in file.stored.wire /\ NestedFile(f.elem) \in DOMAIN files
=============================================================================
