------------------------------ MODULE NestGen -------------------------------
(***************************************************************************)
(* The handler generator (internal/nest): for every marked handler a       *)
(* wrapper that unpacks a dispatched call, typed senders that pack one,    *)
(* its registration, and the aggregate that registers every file.          *)
(*                                                                         *)
(* A marked function is a record                                           *)
(*   dir, file, name   where it is; order, its place in the file           *)
(*   receiver          "" for a function, "*T" or "T" for a method         *)
(*   options           the marker's options, a function of those given;    *)
(*                     "targets" is a sequence of names                    *)
(*   params            [type, pkg, entity, group] in order: entity says    *)
(*                     the type has Entity in its name                     *)
(*   results           the types it returns, "error" among them            *)
(*   tags              the remote tags of the structs it takes             *)
(*   imports           the packages its package imports                    *)
(***************************************************************************)
EXTENDS Integers, Sequences, Functions, FiniteSets, Ordered

Option(fn, key) == IF key \in DOMAIN fn.options THEN fn.options[key] ELSE ""

Targets(fn) ==
    CASE "targets" \in DOMAIN fn.options -> fn.options["targets"]
      [] "target" \in DOMAIN fn.options  -> <<fn.options["target"]>>
      [] OTHER -> <<>>

BadTargets(fn) ==
    \/ {"target", "targets"} \subseteq DOMAIN fn.options
    \/ "" \in Range(Targets(fn))
    \/ Len(Targets(fn)) > Len(fn.params)

(* the parameters that are entities: those named, else those of the type *)
EntityAt(fn) ==
    {i \in DOMAIN fn.params : IF Targets(fn) # <<>> THEN i <= Len(Targets(fn))
                                                    ELSE fn.params[i].entity}

Entities(fn) == Kept(fn.params, EntityAt(fn))
Params(fn) == Kept(fn.params, DOMAIN fn.params \ EntityAt(fn))

(* a marked function without an entity is passed over *)
IsHandler(fn) == EntityAt(fn) # {}

BadResults(fn) ==
    \E i \in DOMAIN fn.results : fn.results[i] = "error" /\ i # Len(fn.results)

BadOptions(fn) ==
    \/ Option(fn, "rollback") \notin {"", "state", "undo"}
    \/ Option(fn, "durability") \notin {"", "memory", "async", "strict"}

(***************************************************************************)
(* A remote tag: [alias, types, words]; the last word decides how fresh    *)
(* the read must be.                                                       *)
(***************************************************************************)
Consistency(tag) ==
    LET known == Select(tag.words, LAMBDA w : w \in {"cached", "monotonic", "strong", "linearizable"})
    IN  IF known = <<>> THEN "monotonic"
        ELSE LET last == known[Len(known)]
             IN  IF last = "linearizable" THEN "strong" ELSE last

BadTag(tag) ==
    \/ Len(tag.types) # 1
    \/ Range(tag.words) \ {"cached", "monotonic", "strong", "linearizable", "required", "allow_stale"} # {}

BadTags(fn) ==
    \/ \E tag \in fn.tags : BadTag(tag)
    \/ \E tag, other \in fn.tags : tag # other /\ tag.alias = other.alias

(* the packages the types in a generated signature name *)
Unresolved(fn) == {fn.params[i].pkg : i \in DOMAIN fn.params} \ (fn.imports \union {""})

Same(fns, fn) == {other \in fns : other.dir = fn.dir /\ other.file = fn.file /\ IsHandler(other)}

Rejected(fns) ==
    \E fn \in fns :
        \/ fn.receiver = "T"
        \/ BadTargets(fn)
        \/ IsHandler(fn) /\ (BadResults(fn) \/ BadOptions(fn) \/ BadTags(fn) \/ Unresolved(fn) # {})
        \/ IsHandler(fn) /\ \E other \in Same(fns, fn) : other.receiver # fn.receiver

(***************************************************************************)
(* What a handler is registered with: how it is undone and how it is kept. *)
(***************************************************************************)
Meta(fn) ==
    LET durability == IF Option(fn, "durability") = "" THEN "async" ELSE Option(fn, "durability")
        rollback   == IF Option(fn, "rollback") # "" THEN Option(fn, "rollback")
                      ELSE IF durability = "memory" THEN "none" ELSE "state"
    IN  [rollback |-> rollback, durability |-> durability]

HasGroup(fn) == \E i \in DOMAIN Entities(fn) : Entities(fn)[i].group

(* which sender a caller is given *)
Form(fn) ==
    CASE HasGroup(fn) -> "group"
      [] Len(Entities(fn)) = 1 -> "single"
      [] OTHER -> "multi"

Returns(fn) == Select(fn.results, LAMBDA r : r # "error")

Answers(fn) ==
    \/ fn.results # <<>>
    \/ Option(fn, "sync") = "true"

Content(fn) ==
    [form |-> Form(fn), entities |-> Entities(fn), params |-> Params(fn), returns |-> Returns(fn),
     answers |-> Answers(fn), meta |-> Meta(fn), receiver |-> fn.receiver,
     remote |-> {[alias |-> t.alias, type |-> t.types[1], consistency |-> Consistency(t)] : t \in fn.tags}]

Files(fns) == {<<fn.dir, fn.file>> : fn \in {f \in fns : IsHandler(f)}}

(* the aggregate knows the files whose handlers need no receiver *)
Aggregate(fns) ==
    {<<fn.dir, fn.file>> : fn \in {f \in fns : IsHandler(f) /\ f.receiver = ""}}

(***************************************************************************)
(* A call: args[i] is the sequence of ids given for entity i, of length    *)
(* one where the handler takes one entity.                                 *)
(***************************************************************************)
Joined(rows) ==
    LET joined[k \in 0..Len(rows)] == IF k = 0 THEN <<>> ELSE joined[k - 1] \o rows[k]
    IN  joined[Len(rows)]

Pack(content, args, values) ==
    [ids |-> Joined(args),
     lens |-> [i \in DOMAIN content.entities |->
                 IF content.entities[i].group THEN Len(args[i]) ELSE 1],
     group |-> content.form = "group", params |-> values]

(* the index of the wrapper, after each entity *)
Indexes(lens) ==
    LET index[k \in 0..Len(lens)] == IF k = 0 THEN 0 ELSE index[k - 1] + lens[k]
    IN  index

(* the entities are taken from the other end *)
FaultyUnpack(content, call) ==
    [i \in DOMAIN content.entities |->
        LET from == Indexes(call.lens)[Len(call.lens)] - Indexes(call.lens)[i]
        IN  SubSeq(call.ids, from + 1, from + call.lens[i])]

(* a value of a call: Nil, or what the caller gave for its place *)
Nil == <<>>

(* the wrapper checks the counts, then walks the entities group by group *)
Unpack(content, call) ==
    [i \in DOMAIN content.entities |->
        LET from == Indexes(call.lens)[i - 1]
        IN  IF content.entities[i].group THEN SubSeq(call.ids, from + 1, from + call.lens[i])
            ELSE <<call.ids[from + 1]>>]

Accepted(content, call) ==
    /\ call.group = (content.form = "group")
    /\ Len(call.lens) = Len(content.entities)
    /\ Len(call.ids) = Indexes(call.lens)[Len(call.lens)]
    /\ Len(call.params) = Len(content.params)
    /\ Nil \notin Range(call.params)

(* how results travel back: none, the value, or a tuple of them *)
Reply(content, values) == IF Len(content.returns) = 1 THEN values[1] ELSE values

Answer(content, reply) ==
    CASE content.returns = <<>> -> <<>>
      [] Len(content.returns) = 1 -> <<reply>>
      [] OTHER -> reply

Shapes(content, ids) ==
    {args \in [DOMAIN content.entities -> UNION {[1..n -> ids] : n \in 0..2}] :
        \A i \in DOMAIN args : content.entities[i].group \/ Len(args[i]) = 1}

(***************************************************************************)
(* A handler is run on the entities and values the caller gave its sender, *)
(* each in its place, and the caller gets its results; the calls of a      *)
(* handler that changes memory only are the only ones not rolled back.     *)
(***************************************************************************)
Dispatches(content, ids) ==
    /\ \A args \in Shapes(content, ids) :
          LET call == Pack(content, args, [i \in DOMAIN content.params |-> <<i>>])
          IN  Accepted(content, call) /\ Unpack(content, call) = args
    /\ \A values \in [DOMAIN content.returns -> 1..2] :
          Answer(content, Reply(content, values)) = values
    /\ content.meta.rollback = "none" => content.meta.durability = "memory"
=============================================================================
