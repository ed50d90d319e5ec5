--------------------------- MODULE GeneratedCodec ---------------------------
(***************************************************************************)
(* What the messages of the generated codec owe the project: Generators    *)
(* with the codec at run time.                                             *)
(***************************************************************************)
EXTENDS Generators

Codec == INSTANCE ProtocolCodec

(* protocol: messages survive the wire, and a peer with other fields       *)
(* understands the rest (protocol/gen.go: the generated codec).            *)
WireKept ==
    Ran("protocol") /\ ~Protocol!Nothing(Source("protocol")) => Codec!Decodes(At("protocol", <<"codec">>).schema)

(* Client, server and robot speak one protocol, of any two versions that   *)
(* may meet (the protocol generator).                                      *)
MessagesArrive == WireKept /\ ProtocolAgrees
=============================================================================
