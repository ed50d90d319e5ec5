--------------------------- MODULE ProtocolCodec ----------------------------
(***************************************************************************)
(* The code the protocol generator writes for the messages of protocol/def *)
(* (internal/protocol/gen.go: the codec), at run time.                     *)
(***************************************************************************)
EXTENDS ProtocolGen, SequencesExt

(* what a list, or a map, is of *)
ElementOf(type) == Tail(type)
KeyOf(type) == <<"scalar", type[2]>>
ValueOf(type) == SubSeq(type, 3, Len(type))

(***************************************************************************)
(* The codec. A message is a function of its fields and of its oneofs; a   *)
(* pointer is <<>> or <<message>>, a oneof <<>> or <<field, value>>, a     *)
(* scalar a number. On the wire it is a sequence of <<number, wire type,   *)
(* payload>>.                                                              *)
(***************************************************************************)
FieldsOf(schema, name) == ToSet(schema[name])
Plain(schema, name) == Select(schema[name], LAMBDA f : f.oneof = "")
Oneofs(schema, name) == {f.oneof : f \in FieldsOf(schema, name)} \ {""}

WireType(type) ==
    CASE type[1] = "scalar" /\ type[2] \in {"bool", "int", "enum"} -> "varint"
      [] type[1] = "scalar" /\ type[2] = "float" -> "fixed"
      [] OTHER -> "bytes"

Packable(type) == type[1] = "scalar" /\ type[2] # "string"

RECURSIVE Marshal(_, _, _)

MarshalSingle(schema, type, number, value) ==
    CASE type[1] = "named" /\ type[3] ->
            <<<<number, "bytes", IF value = <<>> THEN <<>> ELSE Marshal(schema, type[2], value[1])>>>>
      [] type[1] = "named" -> <<<<number, "bytes", Marshal(schema, type[2], value)>>>>
      [] type[1] = "repeated" -> <<>>
      [] OTHER -> <<<<number, WireType(type), value>>>>

Zero(type, value) ==
    IF type[1] = "named" THEN type[3] /\ value = <<>> ELSE value = 0

MarshalField(schema, f, value) ==
    CASE f.type[1] = "repeated" /\ value = <<>> -> <<>>
      [] f.type[1] = "repeated" /\ Packable(ElementOf(f.type)) -> <<<<f.number, "bytes", value>>>>
      [] f.type[1] = "repeated" ->
            FoldLeft(LAMBDA w, v : w \o MarshalSingle(schema, ElementOf(f.type), f.number, v), <<>>, value)
      [] f.type[1] = "map" ->
            FoldLeft(LAMBDA w, k : Append(w, <<f.number, "bytes",
                        MarshalSingle(schema, KeyOf(f.type), 1, k) \o MarshalSingle(schema, ValueOf(f.type), 2, value[k])>>),
                     <<>>, InOrder(DOMAIN value, {<<k, l>> \in (DOMAIN value) \X (DOMAIN value) : k < l}))
      [] OTHER -> IF Zero(f.type, value) THEN <<>> ELSE MarshalSingle(schema, f.type, f.number, value)

(* the value of a oneof is left out when it is zero, like that of a field *)
FaultyMarshalOneof(schema, name, body) ==
    IF body = <<>> THEN <<>>
    ELSE LET f == CHOOSE g \in FieldsOf(schema, name) : g.name = body[1]
         IN  MarshalField(schema, f, body[2])

MarshalOneof(schema, name, body) ==
    IF body = <<>> THEN <<>>
    ELSE LET f == CHOOSE g \in FieldsOf(schema, name) : g.name = body[1]
         IN  IF f.type[1] = "named" /\ f.type[3] /\ body[2] = <<>> THEN <<>>
             ELSE MarshalSingle(schema, f.type, f.number, body[2])

Marshal(schema, name, message) ==
    FoldLeft(LAMBDA w, f : w \o MarshalField(schema, f, message[f.name]), <<>>, Plain(schema, name))
    \o FoldLeft(LAMBDA w, o : w \o MarshalOneof(schema, name, message[o]), <<>>, SetToSeq(Oneofs(schema, name)))

RECURSIVE Empty(_, _)
Empty(schema, name) ==
    [x \in {f.name : f \in ToSet(Plain(schema, name))} \union Oneofs(schema, name) |->
        IF x \in Oneofs(schema, name) THEN <<>>
        ELSE LET type == (CHOOSE f \in FieldsOf(schema, name) : f.name = x).type
             IN  CASE type[1] \in {"repeated", "map"} -> <<>>
                   [] type[1] = "named" -> IF type[3] THEN <<>> ELSE Empty(schema, type[2])
                   [] OTHER -> 0]

ZeroOf(schema, type) ==
    CASE type[1] = "named" /\ type[3] -> <<>>
      [] type[1] = "named" -> Empty(schema, type[2])
      [] OTHER -> 0

Error == <<>>

RECURSIVE Unmarshal(_, _, _)

(* one value, <<value>>, or Error when the wire type is another *)
DecodeSingle(schema, type, entry) ==
    IF entry[2] # WireType(type) THEN Error
    ELSE IF type[1] # "named" THEN <<entry[3]>>
    ELSE LET message == Unmarshal(schema, type[2], entry[3])
         IN  IF message = Error \/ ~type[3] THEN message ELSE <<message>>

DecodeEntry(schema, type, payload) ==
    LET Part(number, t) ==
          FoldLeft(LAMBDA v, e : IF e[1] = number /\ v # Error THEN DecodeSingle(schema, t, e) ELSE v,
                   <<ZeroOf(schema, t)>>, payload)
    IN  <<Part(1, KeyOf(type)), Part(2, ValueOf(type))>>

DecodeField(schema, f, message, entry) ==
    LET Appended(values) == <<[message EXCEPT ![f.name] = @ \o values]>>
        single == DecodeSingle(schema, IF f.type[1] = "repeated" THEN ElementOf(f.type) ELSE f.type, entry)
    IN  CASE f.type[1] = "repeated" /\ Packable(ElementOf(f.type)) /\ entry[2] = "bytes" -> Appended(entry[3])
          [] f.type[1] = "repeated" -> IF single = Error THEN Error ELSE Appended(single)
          [] f.type[1] = "map" ->
                IF entry[2] # "bytes" THEN Error
                ELSE LET pair == DecodeEntry(schema, f.type, entry[3])
                     IN  IF Error \in ToSet(pair) THEN Error
                         ELSE <<[message EXCEPT ![f.name] =
                                   [k \in DOMAIN @ \union {pair[1][1]} |-> IF k = pair[1][1] THEN pair[2][1] ELSE @[k]]]>>
          [] single = Error -> Error
          [] f.oneof # "" -> <<[message EXCEPT ![f.oneof] = <<f.name, single[1]>>]>>
          [] OTHER -> <<[message EXCEPT ![f.name] = single[1]]>>

(* a number nobody knows is skipped *)
Unmarshal(schema, name, wire) ==
    FoldLeft(LAMBDA m, entry :
                LET own == {f \in FieldsOf(schema, name) : f.number = entry[1]}
                IN  IF m = Error \/ own = {} THEN m
                    ELSE DecodeField(schema, CHOOSE f \in own : TRUE, m[1], entry),
             <<Empty(schema, name)>>, wire)

(***************************************************************************)
(* Reading a .proto file back into definitions: declarations that came     *)
(* from Go are passed over, numbers keep their width but not their kind.   *)
(***************************************************************************)
ReverseSingle(type, repeated) ==
    IF type[1] = "named" THEN <<"named", type[2], ~repeated>> ELSE type

ReverseType(type) ==
    CASE type[1] = "repeated" -> <<"repeated">> \o ReverseSingle(ElementOf(type), TRUE)
      [] type[1] = "map" -> <<"map", type[2]>> \o ReverseSingle(ValueOf(type), FALSE)
      [] OTHER -> ReverseSingle(type, FALSE)

(* the order of the fields, which no reader depends on, is left as it is *)
ReverseSchema(declared) ==
    [name \in {d.name : d \in {e \in declared : ~e.fromGo}} |->
        LET fields == (CHOOSE d \in declared : d.name = name).fields
        IN  [i \in DOMAIN fields |-> [fields[i] EXCEPT !.type = ReverseType(@)]]]

(***************************************************************************)
(* Messages to try: for each field in turn, what it can hold.              *)
(***************************************************************************)
RECURSIVE Samples(_, _, _)

SampleValues(schema, type, depth) ==
    LET messages(name) == IF depth = 0 THEN {Empty(schema, name)} ELSE Samples(schema, name, depth - 1)
        single(t) == IF t[1] = "named"
                     THEN IF t[3] THEN {<<>>} \union {<<m>> : m \in messages(t[2])} ELSE messages(t[2])
                     ELSE {0, 1}
    IN  CASE type[1] = "repeated" -> {<<>>} \union {<<v, w>> : v, w \in single(ElementOf(type))}
          [] type[1] = "map" -> {<<>>} \union [{0, 1} -> single(ValueOf(type))]
          [] OTHER -> single(type)

Samples(schema, name, depth) ==
    LET empty == Empty(schema, name)
    IN  {empty} \union
        UNION {IF f.oneof = "" THEN {[empty EXCEPT ![f.name] = v] : v \in SampleValues(schema, f.type, depth)}
               ELSE {[empty EXCEPT ![f.oneof] = <<f.name, v>>] : v \in SampleValues(schema, f.type, depth)}
               : f \in FieldsOf(schema, name)}

(* a message as it arrives: an absent element of a list or map is an empty *)
(* message, a oneof that holds a nil pointer holds nothing                 *)
RECURSIVE Arrived(_, _, _)
Arrived(schema, name, message) ==
    LET Field(x) == CHOOSE f \in FieldsOf(schema, name) : f.name = x
        Single(t, v) == CASE t[1] # "named" \/ (t[3] /\ v = <<>>) -> v
                          [] t[3] -> <<Arrived(schema, t[2], v[1])>>
                          [] OTHER -> Arrived(schema, t[2], v)
        Element(t, v) == IF t[1] = "named" /\ t[3] /\ v = <<>> THEN <<Empty(schema, t[2])>> ELSE Single(t, v)
        Body(v) == LET t == Field(v[1]).type
                   IN  IF t[1] = "named" /\ t[3] /\ v[2] = <<>> THEN <<>> ELSE <<v[1], Single(t, v[2])>>
    IN  [x \in DOMAIN message |->
            IF x \in Oneofs(schema, name) THEN IF message[x] = <<>> THEN <<>> ELSE Body(message[x])
            ELSE CASE Field(x).type[1] = "repeated" -> [i \in DOMAIN message[x] |-> Element(ElementOf(Field(x).type), message[x][i])]
                   [] Field(x).type[1] = "map" -> [k \in DOMAIN message[x] |-> Element(ValueOf(Field(x).type), message[x][k])]
                   [] OTHER -> Single(Field(x).type, message[x])]

Without(schema, name, f) == [schema EXCEPT ![name] = Select(@, LAMBDA g : g # f)]

(***************************************************************************)
(* What is sent arrives, and a peer whose definitions lack a field, older  *)
(* or newer, reads the rest. Definitions read back from a .proto file      *)
(* speak the same wire format.                                             *)
(***************************************************************************)
Decodes(schema) ==
    \A name \in DOMAIN schema : \A m \in Samples(schema, name, 1) :
        LET wire == Marshal(schema, name, m)
            read == Unmarshal(schema, name, wire)
        IN  /\ read = <<Arrived(schema, name, m)>>
            /\ \A f \in ToSet(Plain(schema, name)) :
                  LET partial == Unmarshal(Without(schema, name, f), name, wire)
                  IN  partial # Error /\ \A x \in DOMAIN partial[1] : x # f.name => partial[1][x] = read[1][x]
            /\ LET other == ReverseSchema({[name |-> n, fromGo |-> FALSE, fields |-> schema[n]] : n \in DOMAIN schema})
                   back  == Unmarshal(other, name, wire)
               IN  back # Error /\ Unmarshal(schema, name, Marshal(other, name, back[1])) = read
=============================================================================
