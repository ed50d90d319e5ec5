----------------------------- MODULE EntityGen ------------------------------
(***************************************************************************)
(* The entity generator (internal/entity): the wiring file of every marked *)
(* entity, the registration of its package, and the test that guards the   *)
(* wiring of a remote-managed entity.                                      *)
(*                                                                         *)
(* A marked declaration is a record                                        *)
(*   dir, name, rank   its package, its name, and the place of the name    *)
(*   gap, struct       lines below the marker, and whether a struct        *)
(*   params            the marker's parameters, a sequence of <<key,value>>*)
(*                     where key "" is a parameter without a value         *)
(*   comps, daos       tagged fields [field, pkg, cold] in source order    *)
(*   base              it embeds entity.RemoteEntityBase                   *)
(*   methods           methods of the type the developer wrote             *)
(*   imports           the packages its file imports                       *)
(* A package-qualified value is a pair <<pkg, name>>.                      *)
(***************************************************************************)
EXTENDS Integers, Sequences, Functions, FiniteSets, Ordered

MarkerKeys == {"id", "entityKind", "category", "remote", "noPersist", "lifetime",
               "sync", "syncTopic", "syncPacker", "subjectPacker"}

None == <<"", "">>

Keys(e) == {e.params[i][1] : i \in DOMAIN e.params}

BadParams(e) ==
    \/ Keys(e) \ MarkerKeys # {}
    \/ ~IsInjective([i \in DOMAIN e.params |-> e.params[i][1]])

Param(e, key) ==
    IF key \notin Keys(e) THEN None
    ELSE (CHOOSE p \in Range(e.params) : p[1] = key)[2]

Word(e, key) == Param(e, key)[2]

TrueWords == {"true", "1", "yes", "on"}
FalseWords == {"false", "0", "no", "off"}

Flag(e, key) == Word(e, key) \in TrueWords

RemoteOf(e) ==
    CASE Word(e, "remote") \in {"", "none"} \union FalseWords -> "none"
      [] Word(e, "remote") \in {"managed", "mirror"} -> Word(e, "remote")
      [] OTHER -> "removed"

Lifetimes == {"ephemeral", "runtime_rebuild", "persisted_hot_cold", "resident",
              "remote_managed", "mirror_cache"}

LifetimeOf(e) ==
    CASE Word(e, "lifetime") # ""  -> Word(e, "lifetime")
      [] RemoteOf(e) = "managed"   -> "remote_managed"
      [] RemoteOf(e) = "mirror"    -> "mirror_cache"
      [] Flag(e, "noPersist")      -> "ephemeral"
      [] OTHER                     -> "persisted_hot_cold"

(* a bare capitalised topic would be written as the string of its own name *)
AmbiguousTopic(e) == Param(e, "syncTopic") = <<"", "Capital">>

BadValues(e) ==
    \/ RemoteOf(e) = "removed"
    \/ "category" \in Keys(e) /\ Word(e, "category") \notin {"Category"}
    \/ AmbiguousTopic(e)
    \/ Word(e, "lifetime") \notin Lifetimes \union {""}
    \/ \E key \in {"noPersist", "sync"} \intersect Keys(e) :
          Word(e, key) \notin TrueWords \union FalseWords

BadPackers(e) ==
    LET packers == {key \in {"syncPacker", "subjectPacker"} : Word(e, key) # ""}
    IN  \/ Cardinality(packers) = 2
        \/ packers # {} /\ ~Flag(e, "sync")

Claimed(e) == e.struct /\ e.gap \in 1..2

Managed(e) == RemoteOf(e) = "managed"

Rejected(e) ==
    \/ BadParams(e)
    \/ ~Claimed(e)
    \/ BadValues(e)
    \/ BadPackers(e)
    \/ Managed(e) /\ ~e.base

Siblings(all, e) ==
    LET own == {f \in all : f.dir = e.dir}
        seq == InOrder(own, {pair \in own \X own : pair[1].rank < pair[2].rank})
    IN  [i \in DOMAIN seq |-> seq[i].name]

Primary(all, e) == e.name = Siblings(all, e)[1]

(***************************************************************************)
(* Imports: packages named by the marker, the fields' types, the accessors.*)
(***************************************************************************)
Named(e) ==
    {Param(e, key)[1] : key \in {"entityKind", "category", "syncTopic", "syncPacker", "subjectPacker"}}

Imports(e) ==
    ((Named(e) \union {e.comps[i].pkg : i \in DOMAIN e.comps}
               \union {e.daos[i].pkg : i \in DOMAIN e.daos}) \ {""}) \intersect e.imports

Accessors(e) ==
    ({"Base"} \union {e.comps[i].field : i \in DOMAIN e.comps}
              \union {e.daos[i].field : i \in DOMAIN e.daos}) \ e.methods

(* the packages the wiring template writes *)
Written(e) ==
    ({Param(e, key)[1] :
        key \in {"entityKind", "category"}
          \union (IF Flag(e, "sync") THEN {"syncTopic", "syncPacker", "subjectPacker"} ELSE {})}
     \union {e.comps[i].pkg : i \in {j \in DOMAIN e.comps :
                ~e.comps[j].cold \/ e.comps[j].field \in Accessors(e)}}
     \union {e.daos[i].pkg : i \in DOMAIN e.daos}) \ {""}

PreparesDelete(e) ==
    /\ e.daos # <<>>
    /\ ~Flag(e, "noPersist")
    /\ ~Managed(e)
    /\ "PrepareDelete" \notin e.methods

Hot(e) == {i \in DOMAIN e.daos : ~e.daos[i].cold}

HasGuardTest(e) == Managed(e) /\ Hot(e) # {}

(***************************************************************************)
(* The wiring file, and the test beside it.                                *)
(***************************************************************************)
Content(all, e) ==
    [registers |-> IF Primary(all, e) THEN Siblings(all, e) ELSE <<>>,
     lifetime |-> LifetimeOf(e), remote |-> RemoteOf(e), noPersist |-> Flag(e, "noPersist"),
     topic |-> IF Flag(e, "sync") THEN Param(e, "syncTopic") ELSE None,
     imports |-> Imports(e), accessors |-> Accessors(e),
     deletes |-> PreparesDelete(e), guarded |-> HasGuardTest(e), comps |-> e.comps, daos |-> e.daos]

(***************************************************************************)
(* The wiring at run time. New: hot data objects are created, cold ones    *)
(* are there only when the caller loaded them.                             *)
(***************************************************************************)
Present(e, loaded) == Hot(e) \union loaded

(* change: for each data object a transaction touched, what it did to it *)
HasRemoteCommit(e, present, change, removal) ==
    removal \/ present \intersect DOMAIN change # {}

Refuses(e, present, change, removal) ==
    ~removal /\ \E i \in present \intersect DOMAIN change : change[i] = "delete"

BuildRemoteCommit(e, present, change, removal, base) ==
    [delete |-> removal, next |-> base + 1,
     deletes |-> IF removal THEN present ELSE {},
     invalidations |-> IF removal THEN DOMAIN e.daos ELSE {},
     mutations |-> IF removal THEN {} ELSE present \intersect DOMAIN change]

Acknowledged(e, present, versions, commit) ==
    [i \in DOMAIN versions |-> IF i \in commit.mutations \intersect present
                               THEN commit.next ELSE versions[i]]

(***************************************************************************)
(* A commit holds what the transaction changed and nothing else, it is     *)
(* never empty, and its acknowledgement moves the versions of just those   *)
(* data objects. A removal deletes what is loaded and makes every snapshot *)
(* of the entity stale.                                                    *)
(***************************************************************************)
CommitsChanges(e) ==
    \A loaded \in SUBSET DOMAIN e.daos : \A touched \in SUBSET DOMAIN e.daos :
    \A change \in [touched -> {"patch", "delete"}] : \A removal \in BOOLEAN :
        LET present == Present(e, loaded)
            commit  == BuildRemoteCommit(e, present, change, removal, 4)
            before  == [i \in DOMAIN e.daos |-> 4 - i]
            after   == Acknowledged(e, present, before, commit)
        IN  HasRemoteCommit(e, present, change, removal) /\ ~Refuses(e, present, change, removal) =>
              /\ commit.delete \/ commit.mutations # {}
              /\ \A i \in DOMAIN e.daos :
                    IF ~removal /\ i \in present /\ i \in touched
                    THEN i \in commit.mutations /\ after[i] = 5
                    ELSE i \notin commit.mutations /\ after[i] = before[i]
              /\ removal => Hot(e) \subseteq commit.deletes /\ commit.invalidations = DOMAIN e.daos

(***************************************************************************)
(* Each entity of a package is registered by exactly one file, the file    *)
(* imports every package it names, and a remote-managed entity outlives    *)
(* the process only through its owner.                                     *)
(***************************************************************************)
Wires(all, files) ==
    \A e \in all :
        LET own == {f \in all : f.dir = e.dir}
            key(f) == <<f.dir, f.name>>
        IN  /\ Cardinality({f \in own : files[key(f)].registers # <<>>}) = 1
            /\ \E f \in own : \E i \in DOMAIN files[key(f)].registers :
                  files[key(f)].registers[i] = e.name
            /\ Written(e) \intersect e.imports \subseteq files[key(e)].imports
            /\ files[key(e)].topic # <<"", "Capital">>
            /\ files[key(e)].deletes => files[key(e)].remote # "managed" /\ e.daos # <<>>
=============================================================================
