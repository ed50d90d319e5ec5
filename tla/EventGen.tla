------------------------------ MODULE EventGen ------------------------------
(***************************************************************************)
(* The event generator (internal/eventgen): event types from the structs   *)
(* of event/def, and the subscriptions of every receiver with DealEvent    *)
(* methods below game.                                                     *)
(*                                                                         *)
(*   structs  the declarations of event/def in file and source order,      *)
(*            [file, struct, prefix, suffix]: file is "plain", "generated" *)
(*            or "test", prefix says whether the name starts with Event    *)
(*   methods  the methods of the game, [dir, receiver, file, prefix,       *)
(*            suffix, upper, order]: prefix for DealEvent, upper for a     *)
(*            capital after it, order the place of its suffix in a sort    *)
(*   broken   a file of the game or of event/def cannot be parsed          *)
(***************************************************************************)
EXTENDS Integers, Sequences, Functions, FiniteSets, Ordered

Events(source) ==
    LET kept == Select(source.structs, LAMBDA s :
                    s.file = "plain" /\ s.struct /\ s.prefix /\ s.suffix # "Data")
    IN  [i \in DOMAIN kept |-> kept[i].suffix]

Declared(source) == Range(Events(source))

Handlers(source) ==
    {m \in source.methods : m.file = "plain" /\ m.prefix /\ m.upper /\ m.receiver # ""}

Undeclared(source) == {m \in Handlers(source) : m.suffix \notin Declared(source)}

(* no event declared: the command is over before it looks at the game *)
Nothing(source) == Events(source) = <<>>

Rejected(source) ==
    \/ source.broken = "def"
    \/ ~Nothing(source) /\ (source.broken = "game" \/ Undeclared(source) # {})

(* the three files of the event package, written before the game is read *)
Types(source) == [i \in 1..Len(Events(source)) |-> Events(source)[i]]

Groups(source) == {<<m.dir, m.receiver>> : m \in Handlers(source)}

(* the last file with methods of a receiver decides what it receives *)
FaultySubscriptions(source, group) ==
    LET own  == {m \in Handlers(source) : <<m.dir, m.receiver>> = group}
        last == CHOOSE m \in own : \A n \in own : n.order <= m.order
    IN  <<last.suffix>>

Subscriptions(source, group) ==
    LET own == {m \in Handlers(source) : <<m.dir, m.receiver>> = group}
        seq == InOrder(own, {pair \in own \X own : pair[1].order < pair[2].order})
    IN  [i \in DOMAIN seq |-> seq[i].suffix]

(***************************************************************************)
(* At run time: an event reaches the method of a receiver when it is       *)
(* subscribed and the generated switch has a case for its type.            *)
(***************************************************************************)
Delivered(types, subscriptions, suffix) ==
    /\ \E i \in DOMAIN types : types[i] = suffix
    /\ \E i \in DOMAIN subscriptions : subscriptions[i] = suffix

(***************************************************************************)
(* Each method the developer wrote receives its event, nothing else is     *)
(* subscribed, and no two events share a type number.                      *)
(***************************************************************************)
Delivers(source, types, handlers) ==
    /\ IsInjective(types)
    /\ \A m \in source.methods :
          m.file = "plain" /\ m.prefix /\ m.upper =>
             /\ <<m.dir, m.receiver>> \in DOMAIN handlers
             /\ Delivered(types, handlers[<<m.dir, m.receiver>>], m.suffix)
    /\ \A group \in DOMAIN handlers : \A i \in DOMAIN handlers[group] :
          \E m \in Handlers(source) : <<m.dir, m.receiver>> = group /\ m.suffix = handlers[group][i]
=============================================================================
