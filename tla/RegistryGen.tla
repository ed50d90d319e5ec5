---------------------------- MODULE RegistryGen -----------------------------
(***************************************************************************)
(* The registry generator (internal/registry): every function under a      *)
(* register marker is called once, in phase order, by one aggregate.       *)
(*                                                                         *)
(* A marked function is a record [path, func, options, method, exported,   *)
(* params, results]: path is the sequence of directories of its package,   *)
(* each directory a sequence of characters; options the marker's options;  *)
(* results the types it returns.                                           *)
(***************************************************************************)
EXTENDS Integers, Sequences, Functions, FiniteSets, Ordered

CONSTANTS
    PathOrder,  \* the package paths of a project, in string order
    Numerals    \* the numerals from 2 on, each a sequence of characters

Phases == <<"pre", "kind", "config", "component", "entity", "protocol", "nest", "route", "post">>

OwnPath == <<<<"r", "e", "g">>>>      \* internal/registry, abridged

(* "fmt", "err" and so on, abridged: names the aggregate itself uses *)
AggregateReservedNames == {<<"r", "e", "g">>, <<"e", "n", "t">>, <<"f", "m", "t">>}

Phase(fn) == IF "phase" \in DOMAIN fn.options THEN fn.options["phase"] ELSE ""
Order(fn) == IF "order" \in DOMAIN fn.options THEN fn.options["order"] ELSE 0

BadMarker(fn) ==
    \/ fn.method
    \/ ~fn.exported
    \/ fn.params > 0
    \/ fn.results \notin {<<>>, <<"error">>}
    \/ Phase(fn) \notin Range(Phases)
    \/ DOMAIN fn.options \ {"phase", "order"} # {}

Key(fn) == <<fn.path, fn.func>>

Rejected(fns) ==
    \/ \E fn \in fns : BadMarker(fn)
    \/ \E fn, other \in fns : fn # other /\ Key(fn) = Key(other)

Position(seq, x) == CHOOSE i \in DOMAIN seq : seq[i] = x

Before(fn, other) ==
    LET Rank(f) == <<Position(Phases, Phase(f)), Order(f), Position(PathOrder, f.path), f.rank>>
        a == Rank(fn)
        b == Rank(other)
    IN  \E i \in 1..4 : a[i] < b[i] /\ \A j \in 1..(i-1) : a[j] = b[j]

Sorted(fns) == InOrder(fns, {pair \in fns \X fns : Before(pair[1], pair[2])})

(***************************************************************************)
(* Import aliases: the shortest tail of the path that nobody uses yet.     *)
(***************************************************************************)
Digits == {"0", "1", "2", "3", "4", "5", "6", "7", "8", "9"}

SanitizeIdent(segment) ==
    LET kept == Select(segment, LAMBDA c : c \notin {"_", "-", "."})
    IN  IF kept # <<>> /\ kept[1] \in Digits THEN <<"p">> \o kept ELSE kept

Ending(path, n) ==
    LET alias[k \in 0..n] ==
            IF k = 0 THEN <<>> ELSE SanitizeIdent(path[Len(path) - k + 1]) \o alias[k - 1]
    IN  alias[n]

Numbered(base, used) ==
    LET free == {i \in DOMAIN Numerals : base \o Numerals[i] \notin used}
    IN  base \o Numerals[CHOOSE i \in free : \A j \in free : i <= j]

UniqueAlias(path, used) ==
    LET free == {n \in 1..Len(path) : Ending(path, n) # <<>> /\ Ending(path, n) \notin used}
        whole == Ending(path, Len(path))
        base == IF whole = <<>> THEN <<"p", "k", "g">> ELSE whole
    IN  IF free = {} THEN Numbered(base, used)
        ELSE Ending(path, CHOOSE n \in free : \A m \in free : n <= m)

(* the aliases of paths, each unlike those before it *)
Aliases(paths) ==
    LET named[n \in 0..Len(paths)] ==
            IF n = 0 THEN <<>>
            ELSE LET before == named[n - 1]
                 IN  Append(before, UniqueAlias(paths[n], AggregateReservedNames \union Range(before)))
    IN  named[Len(paths)]

ImportAliases(fns) ==
    LET paths == Select(PathOrder, LAMBDA p : p # OwnPath /\ \E fn \in fns : fn.path = p)
        aliases == Aliases(paths)
    IN  [p \in Range(paths) |-> aliases[Position(paths, p)]]

(* the calls of RegisterAll; a call checks the error when there is one *)
Content(fns) ==
    LET sorted == Sorted(fns)
    IN  [imports |-> ImportAliases(fns),
         calls   |-> [i \in DOMAIN sorted |->
                        [path |-> sorted[i].path, func |-> sorted[i].func,
                         phase |-> Phase(sorted[i]), checked |-> sorted[i].results = <<"error">>]]]

(***************************************************************************)
(* What a reader of the aggregate relies on: each function is called once, *)
(* phases do not go back, explicit order holds inside a phase, an error is *)
(* checked, and no two packages share a name or take one already used.     *)
(***************************************************************************)
Registers(fns, content) ==
    LET calls == content.calls
        Of(c) == CHOOSE fn \in fns : fn.path = c.path /\ fn.func = c.func
    IN  /\ Len(calls) = Cardinality(fns)
        /\ {<<calls[i].path, calls[i].func>> : i \in DOMAIN calls} = {Key(fn) : fn \in fns}
        /\ \A i, j \in DOMAIN calls :
              i < j => \/ Position(Phases, calls[i].phase) < Position(Phases, calls[j].phase)
                       \/ /\ calls[i].phase = calls[j].phase
                          /\ Order(Of(calls[i])) <= Order(Of(calls[j]))
        /\ \A i \in DOMAIN calls : calls[i].checked = (Of(calls[i]).results # <<>>)
        /\ IsInjective(content.imports)
        /\ \A p \in DOMAIN content.imports :
              content.imports[p] \notin AggregateReservedNames \union {<<>>}
        /\ \A fn \in fns : fn.path # OwnPath => fn.path \in DOMAIN content.imports
=============================================================================
