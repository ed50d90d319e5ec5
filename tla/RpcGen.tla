------------------------------- MODULE RpcGen -------------------------------
(***************************************************************************)
(* The RPC generator (internal/servicerpc): the transport of a service     *)
(* interface over the bus, and the two Mods that publish its capability.   *)
(*                                                                         *)
(* A package is a record                                                   *)
(*   dir, declared, invalid   its directory, the names it declares, and    *)
(*                            whether ErrRequestInvalid is one of them     *)
(*   structs      its structs: a function from names to sequences of       *)
(*                [name, exported, type]                                   *)
(*   interfaces   the marked interfaces, [name, options, embeds, methods]  *)
(* A method is [name, ctx, err, params, results, affinity]: ctx and err    *)
(* whether it begins with a context and ends in an error, params and       *)
(* results sequences of [name, json, type], json the key of the generated  *)
(* field, affinity NoAffinity or <<parameter, form>>.                      *)
(* A type is <<"basic">>, <<"unsafe">>, <<"unexported">>, <<"named", N>>,  *)
(* <<"slice", t>>, <<"pointer", t>> or <<"map", t>>.                       *)
(***************************************************************************)
EXTENDS Integers, Sequences, Functions, FiniteSets

NoAffinity == <<"", "">>
NoName == ""

(***************************************************************************)
(* What may cross a bus. One slice and one pointer are looked through.     *)
(***************************************************************************)
Base(type) ==
    LET inner == IF type[1] = "slice" THEN type[2] ELSE type
    IN  IF inner[1] = "pointer" THEN inner[2] ELSE inner

FieldTypes(structs, name) == {structs[name][i].type : i \in DOMAIN structs[name]}

(* one call of checkWireSafeDeep: what it refuses at once, what it enters *)
Refused(structs, type) ==
    LET base == Base(type)
    IN  \/ base[1] \in {"unsafe", "unexported"}
        \/ /\ base[1] = "named" /\ base[2] \in DOMAIN structs
           /\ structs[base[2]] = <<>> \/ \E i \in DOMAIN structs[base[2]] : ~structs[base[2]][i].exported

Entered(structs, type) ==
    LET base == Base(type)
    IN  CASE base[1] = "map" -> {base[2]}
          [] base[1] = "named" /\ base[2] \in DOMAIN structs -> FieldTypes(structs, base[2])
          [] OTHER -> {}

Unsafe(structs, type) ==
    LET reached[depth \in 0..9] ==
            IF depth = 0 THEN {type} ELSE UNION {Entered(structs, t) : t \in reached[depth - 1]}
    IN  reached[9] # {} \/ \E depth \in 0..8 : \E t \in reached[depth] : Refused(structs, t)

BadMethod(structs, m) ==
    \/ ~m.ctx \/ ~m.err
    \/ \E i \in DOMAIN m.params : m.params[i].name = NoName \/ Unsafe(structs, m.params[i].type)
    \/ \E i \in DOMAIN m.results : m.results[i].name = NoName \/ Unsafe(structs, m.results[i].type)

BadAffinity(m) ==
    /\ m.affinity # NoAffinity
    /\ ~\E i \in DOMAIN m.params :
           /\ m.params[i].name = m.affinity[1]
           /\ m.affinity[2] = "call" \/ (m.affinity[2] = "bare" /\ m.params[i].type = <<"basic">>)

(* the names the generated file declares, abridged to one per kind *)
EmittedNames(iface) ==
    {<<"Server">>, <<"BusClient">>, <<"CapabilityName">>}
    \union UNION {{<<"Method", iface.methods[i].name>>, <<"Request", iface.methods[i].name>>} : i \in DOMAIN iface.methods}

BadService(package, iface) ==
    \/ ~({"service_type", "capability"} \subseteq DOMAIN iface.options)
    \/ iface.embeds \/ iface.methods = <<>>
    \/ \E i \in DOMAIN iface.methods : BadMethod(package.structs, iface.methods[i]) \/ BadAffinity(iface.methods[i])
    \/ ~package.invalid
    \/ EmittedNames(iface) \intersect package.declared # {}

Rejected(package) ==
    \/ \E i \in DOMAIN package.interfaces : BadService(package, package.interfaces[i])
    \/ Len(package.interfaces) > 1

Content(package) ==
    LET iface == package.interfaces[1]
    IN  [name |-> iface.name, service |-> iface.options["service_type"],
         capability |-> iface.options["capability"], methods |-> iface.methods,
         affinity |-> \E i \in DOMAIN iface.methods : iface.methods[i].affinity # NoAffinity]

(***************************************************************************)
(* A call over the bus. A payload is a function from keys; of two fields   *)
(* with one key at one depth neither is written, and a field hides one     *)
(* with its key in an embedded struct.                                     *)
(***************************************************************************)
Dominant(fields, key) == {i \in DOMAIN fields : fields[i].json = key}

Encode(fields, values, embedded) ==
    LET own == {fields[i].json : i \in DOMAIN fields}
    IN  [key \in {k \in own : Cardinality(Dominant(fields, k)) = 1} \union (DOMAIN embedded \ own) |->
            IF key \in own THEN values[CHOOSE i \in Dominant(fields, key) : TRUE] ELSE embedded[key]]

Decode(fields, payload) ==
    [i \in DOMAIN fields |->
        IF Cardinality(Dominant(fields, fields[i].json)) = 1 /\ fields[i].json \in DOMAIN payload
        THEN payload[fields[i].json] ELSE 0]

(* rpcStatus, which every reply embeds; an empty reason is left out and    *)
(* read as empty                                                           *)
Status == {"code", "reason"}

DecodeStatus(fields, payload) ==
    [key \in Status |-> IF key \in DOMAIN payload /\ Dominant(fields, key) = {} THEN payload[key] ELSE 0]

(* the handler: decode, call the local service, answer with its status *)
Handle(method, payload, service) ==
    LET outcome == service[Decode(method.params, payload)]
    IN  Encode(method.results, outcome.results, outcome.status)

(* the client: encode the arguments, read the results and the status *)
Call(method, args, service) ==
    LET reply == Handle(method, Encode(method.params, args, [key \in {} |-> 0]), service)
    IN  [results |-> Decode(method.results, reply), status |-> DecodeStatus(method.results, reply)]

(* a call that carries a key goes to the instance the key is hashed to *)
Instances(content, method, args, instances) ==
    IF ~content.affinity \/ method.affinity = NoAffinity THEN 0..(instances - 1)
    ELSE {args[CHOOSE i \in DOMAIN method.params : method.params[i].name = method.affinity[1]] % instances}

(***************************************************************************)
(* Assembly: the registry of a process, a function from capability names.  *)
(***************************************************************************)
Register(registry, entries) ==
    IF DOMAIN registry \intersect DOMAIN entries # {} THEN registry
    ELSE [name \in DOMAIN registry \union DOMAIN entries |->
            IF name \in DOMAIN entries THEN entries[name] ELSE registry[name]]

(* the owner publishes its wrapped service and the service itself *)
OwnerCapabilities(registry) ==
    Register(registry, [name \in {"capability", "local"} |-> IF name = "local" THEN "service" ELSE "wrapped service"])

ProvideClient(registry) ==
    IF "bus" \notin DOMAIN registry THEN registry
    ELSE Register(registry, [name \in {"capability"} |-> "wrapped client"])

Init(registry) ==
    IF {"local", "bus"} \subseteq DOMAIN registry THEN registry["local"] ELSE "refused"

Assembled(mods) ==
    LET registry[n \in 0..Len(mods)] ==
            IF n = 0 THEN [name \in {"bus"} |-> "bus"]
            ELSE IF mods[n] = "owner" THEN OwnerCapabilities(registry[n - 1]) ELSE ProvideClient(registry[n - 1])
    IN  registry[Len(mods)]

(***************************************************************************)
(* A caller cannot tell a remote service from a local one: it gets the     *)
(* results and the error of the service, no part of a request or a reply   *)
(* is lost on the way, calls of one key meet in one instance, and no       *)
(* process that serves the interface is a client of it.                    *)
(***************************************************************************)
Transports(content) ==
    /\ \A i \in DOMAIN content.methods :
          LET method == content.methods[i]
          IN  \A args \in [DOMAIN method.params -> 1..2] : \A results \in [DOMAIN method.results -> 1..2] :
              \A status \in [Status -> 0..1] :
                 LET service == [got \in [DOMAIN args -> 0..2] |->
                                    IF got = args THEN [results |-> results, status |-> status]
                                    ELSE [results |-> [j \in DOMAIN results |-> 0], status |-> [key \in Status |-> 9]]]
                 IN  /\ Call(method, args, service) = [results |-> results, status |-> status]
                     /\ method.affinity # NoAffinity => Cardinality(Instances(content, method, args, 2)) = 1
    /\ \A mods \in UNION {[1..n -> {"owner", "client"}] : n \in 0..2} :
          Init(Assembled(mods)) = (IF mods # <<>> /\ mods[1] = "owner" THEN "service" ELSE "refused")

(* no value that crosses the bus holds a part that would be dropped *)
Parts(structs, type) ==
    CASE type[1] \in {"slice", "pointer", "map"} -> {type[2]}
      [] type[1] = "named" /\ type[2] \in DOMAIN structs -> FieldTypes(structs, type[2])
      [] OTHER -> {}

Whole(structs, type, depth) ==
    LET within[d \in 0..depth] == IF d = 0 THEN {type} ELSE UNION {Parts(structs, t) : t \in within[d - 1]}
    IN  \A d \in 0..(depth - 1) : \A t \in within[d] :
            /\ t[1] \notin {"unsafe", "unexported"}
            /\ t[1] = "named" /\ t[2] \in DOMAIN structs =>
                  \A i \in DOMAIN structs[t[2]] : structs[t[2]][i].exported

Carries(package, content) ==
    \A i \in DOMAIN content.methods :
        LET m == content.methods[i]
        IN  \A f \in Range(m.params) \union Range(m.results) : Whole(package.structs, f.type, 4)
=============================================================================
