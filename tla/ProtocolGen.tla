---------------------------- MODULE ProtocolGen -----------------------------
(***************************************************************************)
(* The protocol generator (internal/protocol): the messages of             *)
(* protocol/def, their ids and handlers, and the codec generated for them. *)
(*                                                                         *)
(*   enums    the names of the exported integer types                      *)
(*   blocks   const blocks, sequences of [type, expr, name]: expr is       *)
(*            <<"int", n>>, <<"iota", n>> for iota + n, or NoExpr          *)
(*   structs  [name, fields], a field [name, number, oneof, type]; a type  *)
(*            is read from the left: "repeated" and the element's type,    *)
(*            "map", the key's scalar and the value's type, or one of      *)
(*            <<"scalar", s>>, <<"bytes">>, <<"unsupported">> and          *)
(*            <<"named", N, p>> with p whether it is a pointer             *)
(*   methods  the marked methods, [name, id, req, resp, handler, group]:   *)
(*            req and resp the structs taken and returned, handler its     *)
(*            own and group that of its interface, "" when there is none   *)
(***************************************************************************)
EXTENDS Integers, Sequences, Functions, FiniteSets, Ordered

NoExpr == <<"", 0>>
NoType == ""
NoDomain == ""

(***************************************************************************)
(* Enums: the constants of the declared types, as Go evaluates a block.    *)
(***************************************************************************)
Eval(expr, iota) == IF expr[1] = "iota" THEN iota + expr[2] ELSE expr[2]

TypeOf(source, walk, spec) ==
    IF spec.expr = NoExpr THEN walk.type ELSE IF spec.type \in source.enums THEN spec.type ELSE NoType

BlockValues(source, block) ==
    LET Step(walk, i) ==
          LET type == TypeOf(source, walk, block[i])
              expr == IF block[i].expr = NoExpr THEN walk.expr ELSE block[i].expr
              entry == [type |-> type, name |-> block[i].name, value |-> Eval(expr, i - 1)]
          IN  [type |-> type, expr |-> expr,
               values |-> IF type = NoType THEN walk.values ELSE Append(walk.values, entry)]
        walked[i \in 0..Len(block)] ==
          IF i = 0 THEN [type |-> NoType, expr |-> NoExpr, values |-> <<>>] ELSE Step(walked[i - 1], i)
    IN  walked[Len(block)].values

EnumValues(source, enum) ==
    LET all[b \in 0..Len(source.blocks)] ==
          IF b = 0 THEN <<>> ELSE all[b - 1] \o BlockValues(source, source.blocks[b])
    IN  Select(all[Len(source.blocks)], LAMBDA v : v.type = enum)

BadEnum(source, enum) ==
    LET values == EnumValues(source, enum)
    IN  values # <<>> /\ ( \/ values[1].value # 0
                           \/ \E i \in DOMAIN values : values[i].value < 0
                           \/ ~IsInjective([i \in DOMAIN values |-> values[i].value])
                           \/ ~IsInjective([i \in DOMAIN values |-> values[i].name]) )

Enums(source) == {e \in source.enums : EnumValues(source, e) # <<>>}

(***************************************************************************)
(* Fields. A name is an enum or a message of the package.                  *)
(***************************************************************************)
Leaves == {"scalar", "bytes", "named", "unsupported"}

(* where the type inside all lists and maps begins *)
LeafAt(type) == CHOOSE i \in DOMAIN type : type[i] \in Leaves /\ \A j \in 1..(i - 1) : type[j] \notin Leaves

Resolved(source, type) ==
    LET at == LeafAt(type)
    IN  IF type[at] # "named" \/ type[at + 1] \notin Enums(source) THEN type
        ELSE SubSeq(type, 1, at - 1) \o (IF type[at + 2] THEN <<"unsupported">> ELSE <<"scalar", "enum">>)

KeyTypes == {"string", "bool", "int"}

BadType(names, type) ==
    LET at == LeafAt(type)
    IN  \/ type[at] = "unsupported"
        \/ type[at] = "named" /\ type[at + 1] \notin names
        \/ \E i \in 1..(at - 1) :
              \/ type[i] = "repeated" /\ type[i + 1] = "map"
              \/ type[i] = "map" /\ (type[i + 1] \notin KeyTypes \/ type[i + 2] \in {"map", "repeated"})

Schema(source) ==
    [name \in {st.name : st \in source.structs} |->
        LET st == CHOOSE s \in source.structs : s.name = name
        IN  [i \in DOMAIN st.fields |-> [st.fields[i] EXCEPT !.type = Resolved(source, @)]]]

BadStruct(schema, name) ==
    LET fields == schema[name]
    IN  \/ \E i \in DOMAIN fields :
              \/ fields[i].number <= 0
              \/ fields[i].oneof # "" /\ fields[i].type[1] \in {"repeated", "map"}
              \/ BadType(DOMAIN schema, fields[i].type)
        \/ ~IsInjective([i \in DOMAIN fields |-> fields[i].number])

(***************************************************************************)
(* Methods: a request with a reply, a request alone, or a push.            *)
(***************************************************************************)
Handler(m) == IF m.handler # NoDomain THEN m.handler ELSE m.group

BadMethod(schema, m) ==
    \/ m.id = 0
    \/ Handler(m) = "Not a name"
    \/ <<Len(m.req), Len(m.resp)>> \notin {<<1, 1>>, <<1, 0>>, <<0, 1>>}
    \/ (Range(m.req) \union Range(m.resp)) \ DOMAIN schema # {}

Requests(source) == {m \in source.methods : Len(m.req) = 1}
Pushes(source) == {m \in source.methods : Len(m.req) = 0}

Rejected(source) ==
    \/ \E e \in Enums(source) : BadEnum(source, e)
    \/ \E st, other \in source.structs : st # other /\ st.name = other.name
    \/ \E name \in DOMAIN Schema(source) : BadStruct(Schema(source), name)
    \/ \E m \in source.methods : BadMethod(Schema(source), m)
    \/ \E m, other \in source.methods : m # other /\ m.id = other.id

(* without a struct only the registration is written *)
Nothing(source) == source.structs = {}

(***************************************************************************)
(* The files: ids, the codec, the server's bindings, its handlers and      *)
(* their registration, and the registry of the robot client.               *)
(***************************************************************************)
Types(m) == [in |-> m.req, out |-> m.resp]

Bind(source) == [id \in {m.id : m \in source.methods} |-> Types(CHOOSE m \in source.methods : m.id = id)]

Robot(source) ==
    [encode |-> [id \in {m.id : m \in Requests(source)} |-> (CHOOSE m \in Requests(source) : m.id = id).req[1]],
     decode |-> LET answered == {m \in source.methods : m.resp # <<>>}
                IN  [id \in {m.id : m \in answered} |-> (CHOOSE m \in answered : m.id = id).resp[1]]]

Domains(source) == {Handler(m) : m \in Requests(source)} \ {NoDomain}

DomainHandlers(source, domain) == {m.id : m \in {r \in Requests(source) : Handler(r) = domain}}

Bootstrap(source) == [domains |-> Domains(source), encoders |-> {m.id : m \in Pushes(source)}]

(***************************************************************************)
(* An id means one method to both sides: the server decodes what the       *)
(* client encoded under it and the client what the server answers; a       *)
(* method with a handler is registered, once; a constant has the value the *)
(* compiler gives it.                                                      *)
(***************************************************************************)
Agrees(source, content, handlers, bootstrap) ==
    /\ \A m \in Requests(source) :
          /\ content.robot.encode[m.id] = content.bind[m.id].in[1]
          /\ m.resp # <<>> => content.robot.decode[m.id] = content.bind[m.id].out[1]
          /\ Cardinality({d \in bootstrap.domains : d \in DOMAIN handlers /\ m.id \in handlers[d]})
                = (IF Handler(m) = NoDomain THEN 0 ELSE 1)
    /\ \A m \in Pushes(source) : m.id \in bootstrap.encoders /\ content.robot.decode[m.id] = m.resp[1]
    /\ \A e \in Enums(source) : \A b \in DOMAIN source.blocks : \A i \in DOMAIN source.blocks[b] :
          LET block == source.blocks[b]
              given == CHOOSE j \in 1..i : block[j].expr # NoExpr /\ \A k \in (j+1)..i : block[k].expr = NoExpr
          IN  block[given].type = e =>
                 \E k \in DOMAIN EnumValues(source, e) :
                    /\ EnumValues(source, e)[k].name = block[i].name
                    /\ EnumValues(source, e)[k].value = Eval(block[given].expr, i - 1)
=============================================================================
