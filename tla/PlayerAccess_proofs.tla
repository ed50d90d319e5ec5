------------------------- MODULE PlayerAccess_proofs -------------------------
(***************************************************************************)
(* Player access, for any protocols, any number of pushers and any width of *)
(* a sequence number: handlers run guarded whatever registers, seals and    *)
(* dispatches when, frames stand apart under numbers that differ, and no    *)
(* number is dispatched twice before half the space has gone by.            *)
(***************************************************************************)
EXTENDS PlayerAccess, FiniteSetTheorems, SequenceTheorems, TLAPS

USE WidthAssumption, PushesAssumption

-----------------------------------------------------------------------------
(* Sequence numbers                                                         *)

\* Numbers are added and subtracted once at a time: at most one wrap.
LEMMA ModOnce ==
  ASSUME NEW x \in Nat, x < 2 * Width
  PROVE  x % Width = IF x < Width THEN x ELSE x - Width
OBVIOUS

LEMMA Half == Width = 2 * (Width \div 2) /\ Width \div 2 \in Nat
OBVIOUS

\* How far a number lies behind another, going round the space.
Behind(n, at) == (at + Width - n) % Width

LEMMA BehindIs ==
  ASSUME NEW n \in Number, NEW at \in Number
  PROVE  /\ Behind(n, at) = IF n <= at THEN at - n ELSE at + Width - n
         /\ Behind(n, at) \in Nat
<1>1. at + Width - n \in Nat /\ at + Width - n < 2 * Width  BY DEF Number
<1>2. Behind(n, at) = IF at + Width - n < Width THEN at + Width - n ELSE at + Width - n - Width
  BY <1>1, ModOnce DEF Behind, Number
<1> QED  BY <1>2 DEF Number

LEMMA Successor ==
  ASSUME NEW at \in Number
  PROVE  /\ (at + 1) % Width = IF at + 1 < Width THEN at + 1 ELSE 0
         /\ (at + 1) % Width \in Number
<1>1. at + 1 \in Nat /\ at + 1 < 2 * Width  BY DEF Number
<1>2. (at + 1) % Width = IF at + 1 < Width THEN at + 1 ELSE at + 1 - Width  BY <1>1, ModOnce DEF Number
<1> QED  BY <1>2 DEF Number

\* The next number is behind nobody, and everybody is one further behind.
LEMMA OneFurther ==
  ASSUME NEW n \in Number, NEW at \in Number, Behind(n, at) < Width - 1
  PROVE  /\ Behind(n, (at + 1) % Width) = Behind(n, at) + 1
         /\ n # (at + 1) % Width
<1> DEFINE next == (at + 1) % Width
<1>1. next \in Number /\ next = IF at + 1 < Width THEN at + 1 ELSE 0  BY Successor
<1>2. Behind(n, at) = IF n <= at THEN at - n ELSE at + Width - n  BY BehindIs
<1>3. Behind(n, next) = IF n <= next THEN next - n ELSE next + Width - n  BY <1>1, BehindIs
<1> HIDE DEF next
<1>4. Behind(n, next) = Behind(n, at) + 1 /\ n # next  BY <1>1, <1>2, <1>3 DEF Number
<1> QED  BY <1>4 DEF next

LEMMA BehindSelf ==
  ASSUME NEW n \in Number
  PROVE  Behind(n, n) = 0
BY BehindIs DEF Number

-----------------------------------------------------------------------------
(* What the parts of the next-state relation leave alone                    *)

LEMMA ProvidingLeaves ==
  ASSUME Providing
  PROVE  UNCHANGED <<gateVars, loopVars, closed, writing, tornVars, pushVars>>
<1>1. CASE Use  BY <1>1 DEF Use
<1>2. CASE Seal  BY <1>2 DEF Seal
<1>3. ASSUME NEW p \in Protocol, Register(p) PROVE UNCHANGED <<gateVars, loopVars, closed, writing, tornVars, pushVars>>
  BY <1>3 DEF Register
<1>4. ASSUME NEW id \in PushId, RegisterEncoder(id) PROVE UNCHANGED <<gateVars, loopVars, closed, writing, tornVars, pushVars>>
  BY <1>4 DEF RegisterEncoder
<1> QED  BY <1>1, <1>2, <1>3, <1>4 DEF Providing

LEMMA ReadingLeaves ==
  ASSUME Reading
  PROVE  UNCHANGED <<registryVars, gateVars, chain, closed, writing, tornVars, pushVars>>
<1>1. CASE BadFrame  BY <1>1 DEF BadFrame
<1>2. ASSUME NEW id \in MessageId, NEW seq \in Number, Receive(id, seq)
      PROVE  UNCHANGED <<registryVars, gateVars, chain, closed, writing, tornVars, pushVars>>
  BY <1>2 DEF Receive
<1> QED  BY <1>1, <1>2 DEF Reading

LEMMA ServingLeaves ==
  ASSUME Serving
  PROVE  /\ UNCHANGED <<pushVars, registryVars>>
         /\ \/ UNCHANGED <<closed, writing, tornVars>>
            \/ BeginReply \/ EndReply \/ Leave
<1>1. CASE LoadSnapshot BY <1>1 DEF LoadSnapshot
<1>2. CASE ReadLocked BY <1>2 DEF ReadLocked
<1>3. CASE EnterRecover BY <1>3 DEF EnterRecover
<1>4. CASE FindGate BY <1>4 DEF FindGate
<1>5. CASE Admit BY <1>5 DEF Admit
<1>6. CASE Handle BY <1>6 DEF Handle
<1>7. CASE ReplyRefused BY <1>7 DEF ReplyRefused
<1>8. CASE BeginReply BY <1>8 DEF BeginReply
<1>9. CASE EndReply BY <1>9 DEF EndReply
<1>10. CASE Leave BY <1>10 DEF Leave
<1>11. CASE Decode BY <1>11 DEF Decode
<1>12. CASE Encode BY <1>12 DEF Encode
<1> QED  BY <1>1, <1>2, <1>3, <1>4, <1>5, <1>6, <1>7, <1>8, <1>9, <1>10, <1>11, <1>12 DEF Serving

\* A loop that is on its way out only leaves.
LEMMA OnlyLeaves ==
  ASSUME Serving, pc \in {"close", "gone"}
  PROVE  Leave
BY DEF Serving, LoadSnapshot, ReadLocked, Decode, EnterRecover, FindGate, Admit, Handle,
       Encode, BeginReply, ReplyRefused, EndReply

-----------------------------------------------------------------------------
(* The socket and the pushers                                               *)

\* writeMu: one writer, and none once the session is closed.
WriterInv ==
  /\ writing = {} \/ \E w \in Pusher \cup {Loop} : writing = {w}
  /\ closed \in BOOLEAN /\ (closed => writing = {})

\* A reply that was cut off has the loop leave, and a frame stands behind half a
\* frame only if there is one.
TornInv ==
  /\ torn \subseteq {"push", "reply"} /\ lost \in BOOLEAN
  /\ "reply" \in torn => pc \in {"close", "gone"}
  /\ lost => torn # {}

\* Every number a pusher has was taken, and is as far behind the counter as
\* numbers were taken since; they are fewer than the space has.
PushInv ==
  /\ push \in [Pusher -> {"idle", "again", "write", "writing"}]
  /\ number \in [Pusher -> Number] /\ serverSequence \in Number /\ taken \in 0..MaxPushes
  /\ \A p \in Pusher :
       /\ push[p] # "idle" => Behind(number[p], serverSequence) < taken
       /\ push[p] = "again" => number[p] = 0
       /\ push[p] \in {"write", "writing"} => number[p] # 0
       /\ \A q \in Pusher \ {p} :
            push[p] # "idle" /\ push[q] # "idle" => number[p] # number[q]

\* What taking a number does, to whoever takes it and to the others.
LEMMA TakenNumber ==
  ASSUME PushInv, NEW p \in Pusher, TakeNumber(p)
  PROVE  /\ taken' \in 0..MaxPushes /\ serverSequence' \in Number
         /\ number' \in [Pusher -> Number] /\ number'[p] = serverSequence'
         /\ Behind(serverSequence', serverSequence') < taken'
         /\ \A q \in Pusher \ {p} : number'[q] = number[q]
         /\ \A q \in Pusher : push[q] # "idle" =>
              /\ Behind(number[q], serverSequence') < taken'
              /\ number[q] # serverSequence'
<1>1. taken < MaxPushes /\ taken' = taken + 1 /\ taken \in Nat /\ taken' \in 0..MaxPushes
  BY DEF TakeNumber, PushInv
<1>2. serverSequence \in Number /\ serverSequence' = (serverSequence + 1) % Width
  BY DEF TakeNumber, PushInv
<1>3. serverSequence' \in Number  BY <1>2, Successor
<1>4. number' = [number EXCEPT ![p] = serverSequence']  BY DEF TakeNumber
<1>5. Behind(serverSequence', serverSequence') < taken'  BY <1>1, <1>3, BehindSelf
<1>6. ASSUME NEW q \in Pusher, push[q] # "idle"
      PROVE  Behind(number[q], serverSequence') < taken' /\ number[q] # serverSequence'
  <2>1. number[q] \in Number /\ Behind(number[q], serverSequence) < taken
    BY <1>6 DEF PushInv
  <2>2. Behind(number[q], serverSequence) \in Nat  BY <1>2, <2>1, BehindIs
  <2>3. Behind(number[q], serverSequence) < Width - 1  BY <1>1, <2>1, <2>2
  <2>4. /\ Behind(number[q], serverSequence') = Behind(number[q], serverSequence) + 1
        /\ number[q] # serverSequence'
    BY <1>2, <2>1, <2>3, OneFurther
  <2> QED  BY <1>1, <2>1, <2>2, <2>4
<1> QED  BY <1>1, <1>3, <1>4, <1>5, <1>6 DEF PushInv

LEMMA FramesInit == Init => WriterInv /\ TornInv /\ PushInv
<1>1. Init => WriterInv  BY DEF Init, WriterInv
<1>2. Init => PushInv  BY DEF Init, PushInv, Number
<1>3. Init => TornInv  BY DEF Init, TornInv
<1> QED  BY <1>1, <1>2, <1>3

LEMMA WriterStep ==
  ASSUME WriterInv, [Next]_vars
  PROVE  WriterInv'
<1> USE DEF WriterInv, registryVars, gateVars, loopVars, pushVars
<1>1. CASE Providing  BY <1>1, ProvidingLeaves
<1>2. CASE PublishGate  BY <1>2 DEF PublishGate
<1>3. CASE Reading  BY <1>3, ReadingLeaves
<1>4. CASE Serving
  <2>1. CASE UNCHANGED <<closed, writing, tornVars>>  BY <2>1
  <2>2. CASE BeginReply  BY <2>2 DEF BeginReply, BeginWrite
  <2>3. CASE EndReply  BY <2>3 DEF EndReply
  <2>4. CASE Leave  BY <2>4 DEF Leave
  <2> QED  BY <1>4, <2>1, <2>2, <2>3, <2>4, ServingLeaves
<1>5. CASE CloseSession  BY <1>5 DEF CloseSession
<1>6. ASSUME NEW p \in Pusher, Reserve(p) \/ ReserveAgain(p) \/ BeginPush(p) \/ EndPush(p)
      PROVE  WriterInv'
  BY <1>6 DEF Reserve, ReserveAgain, BeginPush, BeginWrite, EndPush
<1>7. CASE UNCHANGED vars  BY <1>7 DEF vars
<1> QED  BY <1>1, <1>2, <1>3, <1>4, <1>5, <1>6, <1>7 DEF Next, Pushing

LEMMA TornStep ==
  ASSUME TornInv, [Next]_vars
  PROVE  TornInv'
<1> USE DEF TornInv, tornVars, loopVars
<1>0. ASSUME UNCHANGED <<pc, torn, lost>> PROVE TornInv'  BY <1>0
<1>1. CASE Providing
  <2>1. UNCHANGED <<loopVars, tornVars>>  BY <1>1, ProvidingLeaves
  <2> QED  BY <1>0, <2>1
<1>2. CASE PublishGate  BY <1>2 DEF PublishGate
<1>3. CASE BadFrame  BY <1>3 DEF BadFrame
<1>4. ASSUME NEW id \in MessageId, NEW seq \in Number, Receive(id, seq) PROVE TornInv'
  BY <1>4 DEF Receive
<1>5. CASE Serving
  <2>1. CASE Leave  BY <2>1 DEF Leave
  <2>2. CASE BeginReply  BY <2>2 DEF BeginReply, BeginWrite
  <2>3. CASE EndReply  BY <2>3 DEF EndReply
  <2>4. CASE UNCHANGED tornVars /\ ~Leave
    <3>1. "reply" \notin torn  BY <1>5, <2>4, OnlyLeaves
    <3> QED  BY <2>4, <3>1
  <2> QED  BY <1>5, <2>1, <2>2, <2>3, <2>4, ServingLeaves
<1>6. CASE CloseSession  BY <1>6 DEF CloseSession
<1>7. ASSUME NEW p \in Pusher, Reserve(p) \/ ReserveAgain(p) \/ BeginPush(p) \/ EndPush(p)
      PROVE  TornInv'
  <2>1. CASE Reserve(p) \/ ReserveAgain(p)  BY <1>0, <2>1 DEF Reserve, ReserveAgain
  <2>2. CASE BeginPush(p)  BY <2>2 DEF BeginPush, BeginWrite
  <2>3. CASE EndPush(p)
    <3>1. pc' = pc /\ lost' = lost /\ torn' \in {torn, torn \cup {"push"}}
      BY <2>3 DEF EndPush
    <3> QED  BY <3>1
  <2> QED  BY <1>7, <2>1, <2>2, <2>3
<1>8. CASE UNCHANGED vars  BY <1>8 DEF vars
<1> QED  BY <1>1, <1>2, <1>3, <1>4, <1>5, <1>6, <1>7, <1>8 DEF Next, Reading, Pushing

LEMMA PushStep ==
  ASSUME PushInv, [Next]_vars
  PROVE  PushInv'
<1>1. ASSUME UNCHANGED pushVars PROVE PushInv'  BY <1>1 DEF PushInv, pushVars
<1>2. ASSUME NEW p \in Pusher, Reserve(p) PROVE PushInv'
  <2>1. TakeNumber(p) /\ push[p] = "idle"  BY <1>2 DEF Reserve
  <2>2. push' = [push EXCEPT ![p] = IF serverSequence' = 0 THEN "again" ELSE "write"]
    BY <1>2 DEF Reserve
  <2> QED  BY <2>1, <2>2, TakenNumber DEF PushInv
<1>3. ASSUME NEW p \in Pusher, ReserveAgain(p) PROVE PushInv'
  <2>1. TakeNumber(p) /\ push[p] = "again"  BY <1>3 DEF ReserveAgain
  <2>2. push' = [push EXCEPT ![p] = "write"]  BY <1>3 DEF ReserveAgain
  <2>3. serverSequence' # 0  BY <2>1, TakenNumber DEF PushInv
  <2> QED  BY <2>1, <2>2, <2>3, TakenNumber DEF PushInv
<1>4. ASSUME NEW p \in Pusher, BeginPush(p) PROVE PushInv'
  BY <1>4 DEF BeginPush, PushInv
<1>5. ASSUME NEW p \in Pusher, EndPush(p) PROVE PushInv'
  <2>1. 0 \in Number  BY DEF Number
  <2> QED  BY <1>5, <2>1 DEF EndPush, PushInv
<1>6. CASE Providing  BY <1>1, <1>6, ProvidingLeaves
<1>7. CASE Reading  BY <1>1, <1>7, ReadingLeaves
<1>8. CASE Serving  BY <1>1, <1>8, ServingLeaves
<1>9. CASE PublishGate \/ CloseSession \/ UNCHANGED vars
  BY <1>1, <1>9 DEF PublishGate, CloseSession, vars
<1> QED  BY <1>2, <1>3, <1>4, <1>5, <1>6, <1>7, <1>8, <1>9 DEF Next, Pushing

\* On the socket of a session frames stand one after another, the pushes among
\* them under numbers that tell them apart, across the wrap too; and unless a push
\* was cut off, a frame stands behind half a frame only on a session about to close.
THEOREM FramesStandApart == Spec => []FramesApart
<1>1. Init => WriterInv /\ TornInv /\ PushInv  BY FramesInit
<1>2. WriterInv /\ TornInv /\ PushInv /\ [Next]_vars => (WriterInv /\ TornInv /\ PushInv)'
  BY WriterStep, TornStep, PushStep
<1>3. WriterInv /\ TornInv /\ PushInv => FramesApart
  <2> SUFFICES ASSUME WriterInv, TornInv, PushInv PROVE OneWriter /\ PushNumbers /\ HalfFrames
    BY DEF FramesApart
  <2>1. Cardinality(writing) <= 1
    <3>1. CASE writing = {}  BY <3>1, FS_EmptySet
    <3>2. ASSUME NEW w, writing = {w} PROVE Cardinality(writing) <= 1
      <4>1. Cardinality({w}) = 1  BY FS_Singleton
      <4> QED  BY <3>2, <4>1
    <3> QED  BY <3>1, <3>2 DEF WriterInv
  <2>2. HalfFrames  BY DEF TornInv, HalfFrames
  <2> QED  BY <2>1, <2>2 DEF WriterInv, PushInv, OneWriter, PushNumbers
<1> QED  BY <1>1, <1>2, <1>3, PTL DEF Spec

-----------------------------------------------------------------------------
(* Short sequences                                                          *)

LEMMA Appended ==
  ASSUME NEW S, NEW a \in S, NEW b \in S
  PROVE  Append(<<a>>, b) = <<a, b>>
<1>1. <<a>> \in Seq(S) /\ <<a, b>> \in Seq(S) /\ Len(<<a>>) = 1 /\ Len(<<a, b>>) = 2
  OBVIOUS
<1>2. /\ Append(<<a>>, b) \in Seq(S) /\ Len(Append(<<a>>, b)) = 2
      /\ Append(<<a>>, b)[1] = a /\ Append(<<a>>, b)[2] = b
  BY <1>1
<1>3. \A i \in 1..2 : Append(<<a>>, b)[i] = <<a, b>>[i]
  BY <1>2
<1> QED  BY <1>1, <1>2, <1>3, SeqEqual

LEMMA AppendedFirst ==
  ASSUME NEW S, NEW a \in S
  PROVE  Append(<<>>, a) = <<a>>
OBVIOUS

LEMMA PairType ==
  ASSUME NEW S, NEW a \in S, NEW b \in S
  PROVE  <<a, b>> \in Seq(S)
OBVIOUS

LEMMA Concatenated ==
  ASSUME NEW S, NEW a \in S, NEW b \in S, NEW c \in S
  PROVE  <<a, b>> \o <<c>> = <<a, b, c>>
<1>1. /\ <<a, b>> \in Seq(S) /\ <<c>> \in Seq(S) /\ <<a, b, c>> \in Seq(S)
      /\ Len(<<a, b>>) = 2 /\ Len(<<c>>) = 1 /\ Len(<<a, b, c>>) = 3
  OBVIOUS
<1> DEFINE s == <<a, b>> \o <<c>>
<1>2. s \in Seq(S) /\ Len(s) = 3 /\ s[1] = a /\ s[2] = b /\ s[3] = c
  BY <1>1
<1>3. \A i \in 1..3 : s[i] = <<a, b, c>>[i]
  BY <1>2
<1> QED  BY <1>1, <1>2, <1>3, SeqEqual

LEMMA ChainParts ==
  /\ Append(<<>>, "recover") = <<"recover">>
  /\ Append(<<"recover">>, "gate") = <<"recover", "gate">>
  /\ <<"recover", "gate">> \o <<>> = <<"recover", "gate">>
  /\ <<>> \o <<"recover", "gate">> = <<"recover", "gate">>
  /\ <<"recover", "gate">> \o <<"handler">> = <<"recover", "gate", "handler">>
<1> DEFINE S == {"recover", "gate", "handler"}
<1>1. "recover" \in S /\ "gate" \in S /\ "handler" \in S  OBVIOUS
<1> HIDE DEF S
<1>2. Append(<<>>, "recover") = <<"recover">>  BY <1>1, AppendedFirst
<1>3. Append(<<"recover">>, "gate") = <<"recover", "gate">>  BY <1>1, Appended
<1>4. <<"recover", "gate">> \o <<"handler">> = <<"recover", "gate", "handler">>
  BY <1>1, Concatenated
<1>5. <<"recover", "gate">> \o <<>> = <<"recover", "gate">>  OBVIOUS
<1>6. <<>> \o <<"recover", "gate">> = <<"recover", "gate">>  OBVIOUS
<1> QED  BY <1>2, <1>3, <1>4, <1>5, <1>6

LEMMA ChainHeads ==
  /\ Head(<<"recover", "gate", "handler">>) = "recover"
  /\ Head(<<"gate", "handler">>) = "gate"
  /\ Head(<<"handler">>) = "handler"
  /\ Tail(<<"recover", "gate", "handler">>) = <<"gate", "handler">>
  /\ Tail(<<"gate", "handler">>) = <<"handler">>
OBVIOUS

-----------------------------------------------------------------------------
(* The registry, and the request on its way through the chain               *)

\* The steps of Mod.Provide, and which layers wrap what at each of them.
StageInv ==
  /\ started \in {"use", "register", "sealed"}
  /\ started = "use" => middlewares = <<"recover">> /\ snapshot = <<>>
  /\ started = "register" => middlewares = <<"recover", "gate">> /\ snapshot = <<>>
  /\ started = "sealed" =>
       middlewares = <<>> /\ snapshot = <<[defs |-> defs, encoders |-> encoders]>>

FiledInv ==
  /\ defs = [id \in ReqId |-> defs[id]]
  /\ \A id \in ReqId : defs[id] # NoDef =>
       /\ started # "use"
       /\ defs[id] \in [resp : Nat, layers : Seq(Layer)]
       /\ started = "register" => defs[id].layers = <<>>
       /\ started = "sealed" => defs[id].layers = <<"recover", "gate">>

EncodersInv == encoders \subseteq Nat \ {0} /\ extra \subseteq encoders

RegistryInv == StageInv /\ FiledInv /\ EncodersInv /\ RegistrationWhole

\* What a request may have passed, and what may lie ahead of it.
Behinds == {<<>>, <<"recover">>, <<"recover", "gate">>}
Chains == {<<>>, <<"recover", "gate", "handler">>, <<"gate", "handler">>, <<"handler">>}
Requests == [id : MessageId \cup {0}, seq : Number, guarded : BOOLEAN, admitted : BOOLEAN,
             passed : Behinds]

\* The layers still ahead of the request and those behind it make up the chain
\* of one order, and a gate that was there is asked before the handler.
RequestInv ==
  /\ published \in BOOLEAN /\ cached \in BOOLEAN /\ (cached => published)
  /\ pc \in LoopStep \ {"crashed"}
  /\ request \in Requests /\ (request.guarded => published)
  /\ chain \in Chains
  /\ pc \in {"load", "rlock", "decode"} => request.passed = <<>>
  /\ pc = "decode" => chain = <<"recover", "gate", "handler">>
  /\ pc = "run" =>
       \/ request.passed = <<>> /\ chain = <<"recover", "gate", "handler">>
       \/ request.passed = <<"recover">> /\ chain = <<"gate", "handler">>
       \/ /\ request.passed = <<"recover", "gate">> /\ chain = <<"handler">>
          /\ request.guarded => request.admitted
  /\ pc = "admit" => request.passed = <<"recover", "gate">> /\ chain = <<"handler">>
  /\ pc \in {"encode", "reply", "replying"} => (request.guarded => request.admitted)

USE ProtocolAssumption

LEMMA ReqIdOf == \A p \in Protocol : p.req \in ReqId /\ p.resp \in Nat
BY DEF ReqId

LEMMA DefType ==
  ASSUME NEW R, NEW L, NEW r \in R, NEW l \in L
  PROVE  [resp |-> r, layers |-> l] \in [resp : R, layers : L]
OBVIOUS

LEMMA DefWrapped ==
  ASSUME NEW R, NEW L, NEW d \in [resp : R, layers : L], NEW l
  PROVE  [d EXCEPT !.layers = l] = [resp |-> d.resp, layers |-> l]
OBVIOUS

LEMMA RegistryInit == Init => RegistryInv
BY DEF Init, RegistryInv, StageInv, FiledInv, EncodersInv, RegistrationWhole

LEMMA RegistryKept ==
  ASSUME RegistryInv, UNCHANGED registryVars
  PROVE  RegistryInv'
<1>1. StageInv'  BY DEF RegistryInv, StageInv, registryVars
<1>2. FiledInv'  BY DEF RegistryInv, FiledInv, registryVars
<1>3. EncodersInv'  BY DEF RegistryInv, EncodersInv, registryVars
<1>4. RegistrationWhole'  BY DEF RegistryInv, RegistrationWhole, registryVars
<1> QED  BY <1>1, <1>2, <1>3, <1>4 DEF RegistryInv

LEMMA RegisterStep ==
  ASSUME RegistryInv, NEW p \in Protocol, Register(p)
  PROVE  RegistryInv'
<1> DEFINE new == [resp |-> p.resp, layers |-> <<>>]
<1>1. p.req \in ReqId /\ p.resp \in Nat  BY ReqIdOf
<1>2. new \in [resp : Nat, layers : Seq(Layer)] /\ new # NoDef
  <2>1. <<>> \in Seq(Layer)  BY EmptySeq
  <2>2. new \in [resp : Nat, layers : Seq(Layer)]  BY <1>1, <2>1, DefType
  <2> QED  BY <2>2
<1>3. /\ started = "register" /\ started' = "register" /\ defs[p.req] = NoDef
      /\ p.resp = 0 \/ p.resp \notin encoders
      /\ encoders' = encoders \cup ({p.resp} \ {0})
      /\ defs' = [defs EXCEPT ![p.req] = new]
      /\ UNCHANGED <<middlewares, snapshot, extra>>
  BY DEF Register
<1>4. new.resp = p.resp /\ new.layers = <<>>  OBVIOUS
<1> HIDE DEF new
<1>5. /\ defs'[p.req] = new
      /\ \A id \in ReqId \ {p.req} : defs'[id] = defs[id]
      /\ defs' = [id \in ReqId |-> defs'[id]]
  BY <1>1, <1>3 DEF RegistryInv, FiledInv
<1>6. StageInv'  BY <1>3 DEF RegistryInv, StageInv
<1>7. FiledInv'  BY <1>2, <1>3, <1>4, <1>5 DEF RegistryInv, FiledInv
<1>8. EncodersInv'  BY <1>1, <1>3 DEF RegistryInv, EncodersInv
<1>9. RegistrationWhole'
  <2> DEFINE filed == {id \in ReqId : defs[id] # NoDef}
             after == {id \in ReqId : defs'[id] # NoDef}
  <2>1. after = filed \cup {p.req}  BY <1>1, <1>2, <1>3, <1>5
  <2>2. \A id \in filed : id # p.req /\ defs'[id] = defs[id]  BY <1>3, <1>5
  <2>3. {defs'[id].resp : id \in after} = {defs[id].resp : id \in filed} \cup {p.resp}
    BY <1>4, <1>5, <2>1, <2>2
  <2>4. encoders = ({defs[id].resp : id \in filed} \ {0}) \cup extra
    BY DEF RegistryInv, RegistrationWhole
  <2>5. \A x, y \in filed : x # y /\ defs[x].resp = defs[y].resp => defs[x].resp = 0
    BY DEF RegistryInv, RegistrationWhole
  <2>6. \A x, y \in after : x # y /\ defs'[x].resp = defs'[y].resp => defs'[x].resp = 0
    BY <1>3, <1>4, <1>5, <2>1, <2>2, <2>4, <2>5
  <2>7. encoders' = ({defs'[id].resp : id \in after} \ {0}) \cup extra'
    BY <1>3, <2>3, <2>4
  <2>8. snapshot' = <<>>  BY <1>3 DEF RegistryInv, StageInv
  <2> QED  BY <2>6, <2>7, <2>8 DEF RegistrationWhole
<1> QED  BY <1>6, <1>7, <1>8, <1>9 DEF RegistryInv

LEMMA RegisterEncoderStep ==
  ASSUME RegistryInv, NEW id \in PushId, RegisterEncoder(id)
  PROVE  RegistryInv'
<1>1. /\ started = "register" /\ encoders' = encoders \cup {id} /\ extra' = extra \cup {id}
      /\ UNCHANGED <<started, defs, middlewares, snapshot>>
  BY DEF RegisterEncoder
<1>2. StageInv'  BY <1>1 DEF RegistryInv, StageInv
<1>3. FiledInv'  BY <1>1 DEF RegistryInv, FiledInv
<1>4. EncodersInv'  BY <1>1 DEF RegistryInv, EncodersInv
<1>5. RegistrationWhole'
  <2>1. snapshot' = <<>>  BY <1>1 DEF RegistryInv, StageInv
  <2> QED  BY <1>1, <2>1 DEF RegistryInv, RegistrationWhole
<1> QED  BY <1>2, <1>3, <1>4, <1>5 DEF RegistryInv

LEMMA SealStep ==
  ASSUME RegistryInv, Seal
  PROVE  RegistryInv'
<1>1. /\ middlewares = <<"recover", "gate">> /\ started = "register"
      /\ \A id \in ReqId : defs[id] # NoDef =>
           defs[id] \in [resp : Nat, layers : Seq(Layer)] /\ defs[id].layers = <<>>
  BY DEF Seal, RegistryInv, StageInv, FiledInv
<1>2. /\ defs' = Chained(middlewares) /\ middlewares' = <<>> /\ started' = "sealed"
      /\ snapshot' = <<[defs |-> defs', encoders |-> encoders]>>
      /\ UNCHANGED <<encoders, extra>>
  BY DEF Seal
<1>3. <<"recover", "gate">> \in Seq(Layer)
  <2>1. "recover" \in Layer /\ "gate" \in Layer  BY DEF Layer
  <2> QED  BY <2>1, PairType
<1>4. ASSUME NEW id \in ReqId
      PROVE  \/ defs[id] = NoDef /\ defs'[id] = NoDef
             \/ /\ defs[id] # NoDef /\ defs'[id] # NoDef
                /\ defs'[id] \in [resp : Nat, layers : Seq(Layer)]
                /\ defs'[id].resp = defs[id].resp
                /\ defs'[id].layers = <<"recover", "gate">>
  <2> DEFINE wrapped == [defs[id] EXCEPT !.layers = middlewares \o @]
  <2>1. defs'[id] = IF defs[id] = NoDef THEN NoDef ELSE wrapped
    BY <1>2 DEF Chained
  <2>2. CASE defs[id] # NoDef
    <3>1. middlewares \o defs[id].layers = <<"recover", "gate">>  BY <1>1, <2>2, ChainParts
    <3>2. wrapped = [resp |-> defs[id].resp, layers |-> middlewares \o defs[id].layers]
      <4> DEFINE d == defs[id]
                 l == middlewares \o defs[id].layers
      <4>1. d \in [resp : Nat, layers : Seq(Layer)]  BY <1>1, <2>2
      <4>2. wrapped = [d EXCEPT !.layers = l]  OBVIOUS
      <4>3. d.resp = defs[id].resp  OBVIOUS
      <4> HIDE DEF d, l, wrapped
      <4>4. [d EXCEPT !.layers = l] = [resp |-> d.resp, layers |-> l]  BY <4>1, DefWrapped
      <4>5. wrapped = [resp |-> defs[id].resp, layers |-> l]  BY <4>2, <4>3, <4>4
      <4> QED  BY <4>5 DEF l
    <3>3. wrapped = [resp |-> defs[id].resp, layers |-> <<"recover", "gate">>]
      BY <3>1, <3>2
    <3>4. defs[id].resp \in Nat  BY <1>1, <2>2
    <3> HIDE DEF wrapped
    <3>5. /\ wrapped \in [resp : Nat, layers : Seq(Layer)]
          /\ wrapped.resp = defs[id].resp /\ wrapped.layers = <<"recover", "gate">>
      BY <1>3, <3>3, <3>4
    <3>6. wrapped # NoDef  BY <3>5
    <3> QED  BY <2>1, <2>2, <3>5, <3>6
  <2> QED  BY <2>1, <2>2
<1>5. StageInv'  BY <1>2 DEF StageInv
<1>6. FiledInv'
  <2>1. defs' = [id \in ReqId |-> defs'[id]]  BY <1>2 DEF Chained
  <2> QED  BY <1>2, <1>4, <2>1 DEF FiledInv
<1>7. EncodersInv'  BY <1>2 DEF RegistryInv, EncodersInv
<1>8. RegistrationWhole'
  <2> DEFINE filed == {id \in ReqId : defs[id] # NoDef}
             after == {id \in ReqId : defs'[id] # NoDef}
  <2>1. after = filed /\ \A id \in filed : defs'[id].resp = defs[id].resp  BY <1>4
  <2>2. {defs'[id].resp : id \in after} = {defs[id].resp : id \in filed}  BY <2>1
  <2>3. \A x, y \in filed : x # y /\ defs[x].resp = defs[y].resp => defs[x].resp = 0
    BY DEF RegistryInv, RegistrationWhole
  <2>4. \A x, y \in after : x # y /\ defs'[x].resp = defs'[y].resp => defs'[x].resp = 0
    BY <2>1, <2>3
  <2>5. encoders = ({defs[id].resp : id \in filed} \ {0}) \cup extra
    BY DEF RegistryInv, RegistrationWhole
  <2>6. encoders' = ({defs'[id].resp : id \in after} \ {0}) \cup extra'
    BY <1>2, <2>2, <2>5
  <2>7. \A i \in DOMAIN snapshot' :
          snapshot'[i].defs = defs' /\ snapshot'[i].encoders = encoders'
    BY <1>2
  <2> QED  BY <2>4, <2>6, <2>7 DEF RegistrationWhole
<1> QED  BY <1>5, <1>6, <1>7, <1>8 DEF RegistryInv

LEMMA RegistryStep ==
  ASSUME RegistryInv, [Next]_vars
  PROVE  RegistryInv'
<1>1. ASSUME UNCHANGED registryVars PROVE RegistryInv'  BY <1>1, RegistryKept
<1>2. CASE Use
  <2>1. /\ started = "use" /\ started' = "register"
        /\ middlewares' = Append(middlewares, "gate")
        /\ UNCHANGED <<defs, encoders, snapshot, extra>>
    BY <1>2 DEF Use
  <2>2. middlewares' = <<"recover", "gate">>  BY <2>1, ChainParts DEF RegistryInv, StageInv
  <2>3. StageInv'  BY <2>1, <2>2 DEF RegistryInv, StageInv
  <2>4. FiledInv'  BY <2>1 DEF RegistryInv, FiledInv
  <2>5. EncodersInv'  BY <2>1 DEF RegistryInv, EncodersInv
  <2>6. RegistrationWhole'  BY <2>1 DEF RegistryInv, RegistrationWhole
  <2> QED  BY <2>3, <2>4, <2>5, <2>6 DEF RegistryInv
<1>3. ASSUME NEW p \in Protocol, Register(p) PROVE RegistryInv'  BY <1>3, RegisterStep
<1>4. ASSUME NEW id \in PushId, RegisterEncoder(id) PROVE RegistryInv'
  BY <1>4, RegisterEncoderStep
<1>5. CASE Seal  BY <1>5, SealStep
<1>6. CASE Reading  BY <1>1, <1>6, ReadingLeaves
<1>7. CASE Serving  BY <1>1, <1>7, ServingLeaves
<1>8. ASSUME NEW p \in Pusher, Reserve(p) \/ ReserveAgain(p) \/ BeginPush(p) \/ EndPush(p)
      PROVE  RegistryInv'
  BY <1>1, <1>8 DEF Reserve, ReserveAgain, BeginPush, EndPush
<1>9. CASE PublishGate \/ CloseSession \/ UNCHANGED vars
  BY <1>1, <1>9 DEF PublishGate, CloseSession, vars
<1> QED  BY <1>2, <1>3, <1>4, <1>5, <1>6, <1>7, <1>8, <1>9 DEF Next, Pushing, Providing

LEMMA NoRequestIs == NoRequest \in Requests /\ ~NoRequest.guarded /\ NoRequest.passed = <<>>
BY DEF NoRequest, Requests, Behinds, Number

LEMMA Passes ==
  ASSUME NEW r \in Requests, NEW s \in Behinds
  PROVE  LET n == [r EXCEPT !.passed = s] IN
         n \in Requests /\ n.passed = s /\ n.guarded = r.guarded /\ n.admitted = r.admitted
BY DEF Requests

LEMMA Admits ==
  ASSUME NEW r \in Requests
  PROVE  LET n == [r EXCEPT !.admitted = TRUE] IN
         n \in Requests /\ n.passed = r.passed /\ n.guarded = r.guarded /\ n.admitted
BY DEF Requests

\* Whatever table is read, and in whichever stage, the chain is the same.
LEMMA FoundIs ==
  ASSUME RegistryInv, NEW table, NEW layers, Found(table, layers),
         \/ started # "sealed" /\ table = defs /\ layers = middlewares
         \/ started = "sealed" /\ table = defs /\ layers = <<>>
  PROVE  \/ pc' = "decode" /\ chain' = <<"recover", "gate", "handler">>
         \/ pc' = "close" /\ UNCHANGED chain
<1>1. CASE request.id \in ReqId /\ table[request.id] # NoDef
  <2>1. chain' = (layers \o table[request.id].layers) \o <<"handler">> /\ pc' = "decode"
    BY <1>1 DEF Found
  <2>2. layers \o table[request.id].layers = <<"recover", "gate">>
    <3>1. table = defs /\ started # "use"  BY <1>1 DEF RegistryInv, FiledInv
    <3>2. CASE started = "register"
      <4>1. layers = <<"recover", "gate">> /\ table[request.id].layers = <<>>
        BY <1>1, <3>1, <3>2 DEF RegistryInv, StageInv, FiledInv
      <4> QED  BY <4>1, ChainParts
    <3>3. CASE started = "sealed"
      <4>1. layers = <<>> /\ table[request.id].layers = <<"recover", "gate">>
        BY <1>1, <3>1, <3>3 DEF RegistryInv, StageInv, FiledInv
      <4> QED  BY <4>1, ChainParts
    <3> QED  BY <3>1, <3>2, <3>3 DEF RegistryInv, StageInv
  <2> QED  BY <2>1, <2>2, ChainParts
<1>2. CASE ~(request.id \in ReqId /\ table[request.id] # NoDef)
  BY <1>2 DEF Found
<1> QED  BY <1>1, <1>2

LEMMA RequestInit == Init => RequestInv
BY NoRequestIs DEF Init, RequestInv, Chains, LoopStep

LEMMA RequestKept ==
  ASSUME RequestInv, UNCHANGED <<gateVars, pc, chain, request>>
  PROVE  RequestInv'
BY DEF RequestInv, gateVars

LEMMA ReceiveStep ==
  ASSUME RequestInv, NEW id \in MessageId, NEW seq \in Number, Receive(id, seq)
  PROVE  RequestInv'
<1>1. UNCHANGED <<published, cached, chain>>  BY DEF Receive, gateVars
<1>2. CASE pc' = "close" /\ UNCHANGED request
  BY <1>1, <1>2 DEF RequestInv, LoopStep
<1>3. CASE pc' = "load" /\ request' = [NoRequest EXCEPT !.id = id, !.seq = seq, !.guarded = published]
  <2>1. published \in BOOLEAN  BY DEF RequestInv
  <2>2. request' \in Requests /\ request'.guarded = published /\ request'.passed = <<>>
    <3>1. request' = [id |-> id, seq |-> seq, guarded |-> published, admitted |-> FALSE,
                      passed |-> <<>>]
      BY <1>3 DEF NoRequest
    <3> QED  BY <2>1, <3>1 DEF Requests, Behinds
  <2> QED  BY <1>1, <1>3, <2>2 DEF RequestInv, LoopStep
<1> QED  BY <1>2, <1>3 DEF Receive

LEMMA LookupStep ==
  ASSUME RegistryInv, RequestInv, LoadSnapshot \/ ReadLocked
  PROVE  RequestInv'
<1>1. UNCHANGED <<published, cached, request>>  BY DEF LoadSnapshot, ReadLocked, gateVars
<1>2. \/ pc' = "decode" /\ chain' = <<"recover", "gate", "handler">>
      \/ pc' \in {"close", "rlock"} /\ UNCHANGED chain
  <2>1. CASE LoadSnapshot
    <3>1. CASE snapshot = <<>>  BY <2>1, <3>1 DEF LoadSnapshot
    <3>2. CASE snapshot # <<>>
      <4>1. Found(snapshot[1].defs, <<>>)  BY <2>1, <3>2 DEF LoadSnapshot
      <4>2. started = "sealed" /\ snapshot[1].defs = defs
        BY <3>2 DEF RegistryInv, StageInv
      <4> QED  BY <4>1, <4>2, FoundIs
    <3> QED  BY <3>1, <3>2
  <2>2. CASE ReadLocked
    <3>1. Found(defs, middlewares)  BY <2>2 DEF ReadLocked
    <3>2. started = "sealed" => middlewares = <<>>  BY DEF RegistryInv, StageInv
    <3> QED  BY <3>1, <3>2, FoundIs
  <2> QED  BY <2>1, <2>2
<1>3. request.passed = <<>>  BY DEF LoadSnapshot, ReadLocked, RequestInv
<1> QED  BY <1>1, <1>2, <1>3 DEF RequestInv, LoopStep, Chains

LEMMA ChainStep ==
  ASSUME RequestInv, EnterRecover \/ FindGate \/ Admit
  PROVE  RequestInv'
<1>1. CASE EnterRecover
  <2>1. /\ pc = "run" /\ pc' = "run" /\ Head(chain) = "recover" /\ chain' = Tail(chain)
        /\ request' = [request EXCEPT !.passed = Append(@, "recover")]
        /\ UNCHANGED <<published, cached>>
    BY <1>1 DEF EnterRecover, Pass, gateVars
  <2>2. request.passed = <<>> /\ chain = <<"recover", "gate", "handler">>
    BY <2>1, ChainHeads DEF RequestInv
  <2>3. request' = [request EXCEPT !.passed = <<"recover">>] /\ chain' = <<"gate", "handler">>
    BY <2>1, <2>2, ChainParts, ChainHeads
  <2>4. <<"recover">> \in Behinds  BY DEF Behinds
  <2>5. /\ request' \in Requests /\ request'.passed = <<"recover">>
        /\ request'.guarded = request.guarded
    BY <2>3, <2>4, Passes DEF RequestInv
  <2> QED  BY <2>1, <2>3, <2>5 DEF RequestInv, Chains, LoopStep
<1>2. CASE FindGate
  <2>1. /\ pc = "run" /\ Head(chain) = "gate" /\ chain' = Tail(chain)
        /\ cached' = (cached \/ published)
        /\ request' = [request EXCEPT !.passed = Append(@, "gate")]
        /\ pc' = IF cached' THEN "admit" ELSE "run"
        /\ UNCHANGED published
    BY <1>2 DEF FindGate, Pass
  <2>2. request.passed = <<"recover">> /\ chain = <<"gate", "handler">>
    BY <2>1, ChainHeads DEF RequestInv
  <2>3. request' = [request EXCEPT !.passed = <<"recover", "gate">>] /\ chain' = <<"handler">>
    BY <2>1, <2>2, ChainParts, ChainHeads
  <2>4. <<"recover", "gate">> \in Behinds  BY DEF Behinds
  <2>5. /\ request' \in Requests /\ request'.passed = <<"recover", "gate">>
        /\ request'.guarded = request.guarded
    BY <2>3, <2>4, Passes DEF RequestInv
  <2> QED  BY <2>1, <2>3, <2>5 DEF RequestInv, Chains, LoopStep
<1>3. CASE Admit
  <2>1. /\ pc = "admit" /\ UNCHANGED <<published, cached, chain>>
        /\ \/ pc' = "run" /\ request' = [request EXCEPT !.admitted = TRUE]
           \/ pc' = "close" /\ UNCHANGED request
    BY <1>3 DEF Admit, gateVars
  <2>2. CASE pc' = "close" /\ UNCHANGED request  BY <2>1, <2>2 DEF RequestInv, LoopStep
  <2>3. CASE pc' = "run" /\ request' = [request EXCEPT !.admitted = TRUE]
    <3>1. /\ request' \in Requests /\ request'.passed = request.passed
          /\ request'.guarded = request.guarded /\ request'.admitted
      BY <2>3, Admits DEF RequestInv
    <3> QED  BY <2>1, <2>3, <3>1 DEF RequestInv, LoopStep
  <2> QED  BY <2>1, <2>2, <2>3
<1> QED  BY <1>1, <1>2, <1>3

LEMMA HandleStep ==
  ASSUME RequestInv, Handle
  PROVE  RequestInv'
<1>1. pc = "run" /\ Head(chain) = "handler" /\ chain' = <<>> /\ UNCHANGED <<published, cached>>
  BY DEF Handle, gateVars
<1>2. request.passed = <<"recover", "gate">> /\ (request.guarded => request.admitted)
  BY <1>1, ChainHeads DEF RequestInv
<1>3. request.passed # <<>> /\ Head(request.passed) = "recover"  BY <1>2
<1>4. pc' \in {"encode", "read", "close"}  BY <1>3 DEF Handle
<1>5. request' = IF pc' = "encode" THEN request ELSE NoRequest  BY DEF Handle
<1>6. CASE pc' = "encode"  BY <1>1, <1>2, <1>5, <1>6 DEF RequestInv, Chains, LoopStep
<1>7. CASE pc' # "encode"
  BY <1>1, <1>4, <1>5, <1>7, NoRequestIs DEF RequestInv, Chains, LoopStep
<1> QED  BY <1>6, <1>7

\* The codecs stand outside the chain: what they do ends the request or lets it be.
LEMMA CodecStep ==
  ASSUME RequestInv, Decode \/ Encode
  PROVE  RequestInv'
<1>1. CASE Decode  BY <1>1 DEF Decode, RequestInv, LoopStep, gateVars
<1>2. CASE Encode
  BY <1>2, NoRequestIs DEF Encode, RequestInv, LoopStep, gateVars
<1> QED  BY <1>1, <1>2

LEMMA AnswerStep ==
  ASSUME RequestInv, BeginReply \/ ReplyRefused \/ EndReply \/ Leave
  PROVE  RequestInv'
<1> USE DEF RequestInv, LoopStep, Chains, gateVars
<1>1. CASE BeginReply  BY <1>1 DEF BeginReply
<1>2. CASE ReplyRefused  BY <1>2 DEF ReplyRefused
<1>3. CASE EndReply  BY <1>3, NoRequestIs DEF EndReply
<1>4. CASE Leave  BY <1>4, NoRequestIs DEF Leave
<1> QED  BY <1>1, <1>2, <1>3, <1>4

LEMMA RequestStep ==
  ASSUME RegistryInv, RequestInv, [Next]_vars
  PROVE  RequestInv'
<1>1. CASE Providing  BY <1>1, ProvidingLeaves, RequestKept DEF loopVars
<1>2. CASE PublishGate  BY <1>2 DEF PublishGate, RequestInv, loopVars
<1>3. CASE BadFrame  BY <1>3 DEF BadFrame, RequestInv, LoopStep, gateVars
<1>4. ASSUME NEW id \in MessageId, NEW seq \in Number, Receive(id, seq) PROVE RequestInv'
  BY <1>4, ReceiveStep
<1>5. CASE Serving
  BY <1>5, LookupStep, CodecStep, ChainStep, HandleStep, AnswerStep DEF Serving
<1>6. ASSUME NEW p \in Pusher, Reserve(p) \/ ReserveAgain(p) \/ BeginPush(p) \/ EndPush(p)
      PROVE  RequestInv'
  <2>1. UNCHANGED <<gateVars, loopVars>>  BY <1>6 DEF Reserve, ReserveAgain, BeginPush, EndPush
  <2> QED  BY <2>1, RequestKept DEF loopVars
<1>7. CASE CloseSession \/ UNCHANGED vars
  BY <1>7, RequestKept DEF CloseSession, vars, loopVars
<1> QED  BY <1>1, <1>2, <1>3, <1>4, <1>5, <1>6, <1>7 DEF Next, Reading, Pushing

-----------------------------------------------------------------------------
(* Numbers that were dispatched                                             *)

\* The mark lies as far behind the last number as numbers went by since.
MarkInv ==
  /\ last \in Number \ {0} /\ mark \in [seq : Number, advance : 0..Width]
  /\ mark.seq # 0 => Behind(mark.seq, last) = mark.advance % Width

LEMMA MarkType ==
  ASSUME NEW s \in Number, NEW a \in 0..Width
  PROVE  LET m == [seq |-> s, advance |-> a] IN
         m \in [seq : Number, advance : 0..Width] /\ m.seq = s /\ m.advance = a
OBVIOUS

\* How far a number is behind adds up, to once around the space.
LEMMA BehindAdds ==
  ASSUME NEW m \in Number, NEW n \in Number, NEW at \in Number, NEW a \in 0..Width,
         Behind(m, n) = a % Width, Behind(n, at) > 0, a + Behind(n, at) <= Width
  PROVE  Behind(m, at) = (a + Behind(n, at)) % Width
<1>1. /\ Behind(n, at) = IF n <= at THEN at - n ELSE at + Width - n
      /\ Behind(n, at) \in Nat
  BY BehindIs
<1>2. PICK d \in Nat : d = Behind(n, at)  BY <1>1
<1>3. d = (IF n <= at THEN at - n ELSE at + Width - n) /\ d > 0 /\ a + d <= Width
  BY <1>1, <1>2
<1>4. a < Width /\ a \in Nat  BY <1>3
<1>5. a = Behind(m, n)
  <2>1. a < 2 * Width  BY <1>4
  <2>2. a % Width = IF a < Width THEN a ELSE a - Width  BY <1>4, <2>1, ModOnce, Zenon
  <2> QED  BY <1>4, <2>2, Zenon
<1>6. a = IF m <= n THEN n - m ELSE n + Width - m  BY <1>5, BehindIs
<1>7. Behind(m, at) = IF m <= at THEN at - m ELSE at + Width - m  BY BehindIs
<1>8. a + d \in Nat /\ a + d < 2 * Width  BY <1>3, <1>4
<1>9. (a + d) % Width = IF a + d < Width THEN a + d ELSE a + d - Width
  <2>1. PICK e \in Nat : e = a + d /\ e < 2 * Width  BY <1>8
  <2>2. e % Width = IF e < Width THEN e ELSE e - Width  BY <2>1, ModOnce, Zenon
  <2> QED  BY <2>1, <2>2
<1>10. Behind(m, at) = (a + d) % Width  BY <1>3, <1>4, <1>6, <1>7, <1>9 DEF Number
<1> QED  BY <1>2, <1>10

LEMMA ReceivedMark ==
  ASSUME MarkInv, NEW id \in MessageId, NEW seq \in Number, Receive(id, seq)
  PROVE  \/ pc' = "close" /\ UNCHANGED <<last, mark>>
         \/ /\ seq # 0 /\ Later(seq, last) /\ last' = seq
            /\ \/ mark' = [seq |-> seq, advance |-> 0]
               \/ mark' = Unmarked
               \/ /\ mark.seq # 0 /\ mark.advance + Behind(last, seq) <= Width
                  /\ mark' = [seq |-> mark.seq, advance |-> mark.advance + Behind(last, seq)]
<1> DEFINE come == mark.advance + ((seq + Width - last) % Width)
<1>1. CASE id = 0 \/ seq = 0 \/ ~Later(seq, last)  BY <1>1 DEF Receive
<1>2. CASE ~(id = 0 \/ seq = 0 \/ ~Later(seq, last))
  <2>1. /\ last' = seq
        /\ mark' \in {[seq |-> seq, advance |-> 0],
                      IF mark.seq = 0 \/ come > Width THEN Unmarked
                      ELSE [mark EXCEPT !.advance = come]}
    BY <1>2 DEF Receive
  <2>2. come = mark.advance + Behind(last, seq)  BY DEF Behind
  <2>3. Behind(last, seq) \in Nat /\ mark.advance \in Nat  BY BehindIs DEF MarkInv
  <2>4. [mark EXCEPT !.advance = come] = [seq |-> mark.seq, advance |-> come]
    BY DEF MarkInv
  <2> HIDE DEF come
  <2>5. mark' = [seq |-> seq, advance |-> 0] \/ mark' = Unmarked
        \/ (mark.seq # 0 /\ ~(come > Width) /\ mark' = [seq |-> mark.seq, advance |-> come])
    BY <2>1, <2>4
  <2>6. ~(come > Width) => come <= Width  BY <2>2, <2>3
  <2> QED  BY <1>2, <2>1, <2>2, <2>5, <2>6
<1> QED  BY <1>1, <1>2

LEMMA ServingKeepsMark ==
  ASSUME Serving
  PROVE  UNCHANGED <<last, mark>>
BY DEF Serving, LoadSnapshot, ReadLocked, Decode, EnterRecover, FindGate, Admit, Handle,
       Encode, BeginReply, ReplyRefused, EndReply, Leave

LEMMA MarkInit == Init => MarkInv
<1>1. 0 \in Number /\ 0 \in 0..Width  BY DEF Number
<1> QED  BY <1>1, MarkType DEF Init, MarkInv, Unmarked

LEMMA MarkStep ==
  ASSUME MarkInv, [Next]_vars
  PROVE  MarkInv'
<1>1. ASSUME UNCHANGED <<last, mark>> PROVE MarkInv'  BY <1>1 DEF MarkInv
<1>2. ASSUME NEW id \in MessageId, NEW seq \in Number, Receive(id, seq) PROVE MarkInv'
  <2>1. CASE UNCHANGED <<last, mark>>  BY <1>1, <2>1
  <2>2. CASE last' = seq /\ seq # 0 /\ mark' = [seq |-> seq, advance |-> 0]
    <3>1. 0 % Width = 0 /\ 0 \in 0..Width  OBVIOUS
    <3>2. mark' \in [seq : Number, advance : 0..Width] /\ mark'.seq = seq /\ mark'.advance = 0
      BY <2>2, <3>1, MarkType
    <3> QED  BY <2>2, <3>1, <3>2, BehindSelf DEF MarkInv
  <2>3. CASE last' = seq /\ seq # 0 /\ mark' = Unmarked
    <3>1. 0 \in Number /\ 0 \in 0..Width  BY DEF Number
    <3>2. mark' \in [seq : Number, advance : 0..Width] /\ mark'.seq = 0
      BY <2>3, <3>1, MarkType DEF Unmarked
    <3> QED  BY <2>3, <3>2 DEF MarkInv
  <2>4. CASE /\ last' = seq /\ seq # 0 /\ Later(seq, last) /\ mark.seq # 0
             /\ mark.advance + Behind(last, seq) <= Width
             /\ mark' = [seq |-> mark.seq, advance |-> mark.advance + Behind(last, seq)]
    <3>1. /\ last \in Number /\ mark.seq \in Number /\ mark.advance \in 0..Width
          /\ Behind(mark.seq, last) = mark.advance % Width
      BY <2>4 DEF MarkInv
    <3>2. Behind(last, seq) \in Nat  BY <3>1, BehindIs
    <3>3. Behind(last, seq) > 0
      <4>1. Behind(last, seq) \in 1..(Width \div 2 - 1)  BY <2>4 DEF Later, Behind
      <4> QED  BY <4>1
    <3>4. Behind(mark.seq, seq) = (mark.advance + Behind(last, seq)) % Width
      BY <2>4, <3>1, <3>3, BehindAdds
    <3>5. mark.advance + Behind(last, seq) \in 0..Width  BY <2>4, <3>1, <3>2
    <3>6. /\ mark' \in [seq : Number, advance : 0..Width] /\ mark'.seq = mark.seq
          /\ mark'.advance = mark.advance + Behind(last, seq)
      BY <2>4, <3>1, <3>5, MarkType
    <3> QED  BY <2>4, <3>4, <3>6 DEF MarkInv
  <2> QED  BY <1>2, <2>1, <2>2, <2>3, <2>4, ReceivedMark
<1>3. CASE Providing  BY <1>1, <1>3, ProvidingLeaves DEF loopVars
<1>4. CASE BadFrame  BY <1>1, <1>4 DEF BadFrame
<1>5. CASE Serving  BY <1>1, <1>5, ServingKeepsMark
<1>6. ASSUME NEW p \in Pusher, Reserve(p) \/ ReserveAgain(p) \/ BeginPush(p) \/ EndPush(p)
      PROVE  MarkInv'
  <2>1. UNCHANGED loopVars  BY <1>6 DEF Reserve, ReserveAgain, BeginPush, EndPush
  <2> QED  BY <1>1, <2>1 DEF loopVars
<1>7. CASE PublishGate \/ CloseSession \/ UNCHANGED vars
  BY <1>1, <1>7 DEF PublishGate, CloseSession, vars, loopVars
<1> QED  BY <1>2, <1>3, <1>4, <1>5, <1>6, <1>7 DEF Next, Reading, Pushing

\* int32(sequence - lastSequence), for any width: a number that was dispatched
\* is not dispatched again before more than half the space has gone by.
THEOREM NothingReplayed == Spec => NoReplay
<1>1. MarkInv /\ [Next]_vars =>
        [(pc = "read" /\ pc' = "load" /\ mark.seq # 0 /\ request'.seq = mark.seq) =>
            mark.advance > Width \div 2]_vars
  <2> SUFFICES ASSUME MarkInv, [Next]_vars, pc = "read", pc' = "load",
                      mark.seq # 0, request'.seq = mark.seq
               PROVE  mark.advance > Width \div 2
    OBVIOUS
  <2>1. \E id \in MessageId, seq \in Number : Receive(id, seq)
    <3>1. CASE Providing  BY <3>1, ProvidingLeaves DEF loopVars
    <3>2. CASE Serving
      BY <3>2 DEF Serving, LoadSnapshot, ReadLocked, Decode, EnterRecover, FindGate, Admit,
                  Handle, Encode, BeginReply, ReplyRefused, EndReply, Leave
    <3>3. ASSUME NEW p \in Pusher, Reserve(p) \/ ReserveAgain(p) \/ BeginPush(p) \/ EndPush(p)
          PROVE  FALSE
      BY <3>3 DEF Reserve, ReserveAgain, BeginPush, EndPush, loopVars
    <3>4. CASE PublishGate \/ CloseSession \/ BadFrame \/ UNCHANGED vars
      BY <3>4 DEF PublishGate, CloseSession, BadFrame, vars, loopVars
    <3> QED  BY <3>1, <3>2, <3>3, <3>4 DEF Next, Reading, Pushing
  <2>2. PICK id \in MessageId, seq \in Number : Receive(id, seq)  BY <2>1
  <2>3. /\ Later(seq, last)
        /\ request' = [NoRequest EXCEPT !.id = id, !.seq = seq, !.guarded = published]
    BY <2>2 DEF Receive
  <2>4. request'.seq = seq  BY <2>3 DEF NoRequest
  <2>5. /\ seq = mark.seq /\ last \in Number /\ mark.advance \in 0..Width
        /\ Behind(seq, last) = mark.advance % Width
    BY <2>4 DEF MarkInv
  <2>6. Behind(last, seq) \in 1..(Width \div 2 - 1)  BY <2>3 DEF Later, Behind
  <2>7. Behind(last, seq) = IF last <= seq THEN seq - last ELSE seq + Width - last
    BY <2>5, BehindIs
  <2>8. Behind(seq, last) = IF seq <= last THEN last - seq ELSE last + Width - seq
    BY <2>5, BehindIs
  <2>9. Behind(seq, last) > Width \div 2  BY <2>5, <2>6, <2>7, <2>8, Half DEF Number
  <2>10. mark.advance % Width <= mark.advance
    <3>1. mark.advance \in Nat /\ mark.advance < 2 * Width  BY <2>5
    <3> QED  BY <3>1, ModOnce
  <2>11. mark.advance % Width \in Nat  BY <2>5
  <2> QED  BY <2>5, <2>9, <2>10, <2>11, Half
<1>2. Spec => []MarkInv  BY MarkInit, MarkStep, PTL DEF Spec
<1> QED  BY <1>1, <1>2, PTL DEF Spec, NoReplay

-----------------------------------------------------------------------------
(* A registry that is whole, and handlers that are guarded                  *)

AccessInv == RegistryInv /\ RequestInv /\ MarkInv /\ WriterInv /\ TornInv /\ PushInv

LEMMA ChainType == Chains \subseteq Seq(Layer \cup {"handler"})
<1> DEFINE S == Layer \cup {"handler"}
<1>1. "recover" \in S /\ "gate" \in S /\ "handler" \in S  BY DEF Layer
<1> HIDE DEF S
<1>2. /\ <<>> \in Seq(S) /\ <<"handler">> \in Seq(S) /\ <<"gate", "handler">> \in Seq(S)
      /\ <<"recover", "gate", "handler">> \in Seq(S)
  BY <1>1
<1> QED  BY <1>2 DEF Chains, S

LEMMA LayersType == <<>> \in Seq(Layer) /\ <<"recover">> \in Seq(Layer)
                    /\ <<"recover", "gate">> \in Seq(Layer)
<1>1. "recover" \in Layer /\ "gate" \in Layer  BY DEF Layer
<1> QED  BY <1>1

LEMMA AccessTypes == AccessInv => TypeOK
<1> SUFFICES ASSUME AccessInv PROVE TypeOK  OBVIOUS
<1>1. \A id \in ReqId : defs[id] # NoDef =>
        defs[id].resp \in Nat /\ defs[id].layers \in Seq(Layer)
  BY DEF AccessInv, RegistryInv, FiledInv
<1>2. started \in {"use", "register", "sealed"} /\ middlewares \in Seq(Layer)
  BY LayersType DEF AccessInv, RegistryInv, StageInv
<1>3. Len(snapshot) <= 1
  <2>1. CASE snapshot = <<>>  BY <2>1
  <2>2. CASE snapshot = <<[defs |-> defs, encoders |-> encoders]>>
    <3>1. Len(<<[defs |-> defs, encoders |-> encoders]>>) = 1  OBVIOUS
    <3> QED  BY <2>2, <3>1
  <2> QED  BY <2>1, <2>2 DEF AccessInv, RegistryInv, StageInv
<1>4. encoders \subseteq Nat \ {0} /\ extra \subseteq encoders
  BY DEF AccessInv, RegistryInv, EncodersInv
<1>5. published \in BOOLEAN /\ cached \in BOOLEAN /\ pc \in LoopStep
      /\ chain \in Seq(Layer \cup {"handler"})
  BY ChainType DEF AccessInv, RequestInv
<1>6. last \in Number \ {0} /\ mark \in [seq : Number, advance : 0..Width]
  BY DEF AccessInv, MarkInv
<1>7. closed \in BOOLEAN /\ writing \subseteq Pusher \cup {Loop}
      /\ torn \subseteq {"push", "reply"} /\ lost \in BOOLEAN
  BY DEF AccessInv, WriterInv, TornInv
<1>8. /\ push \in [Pusher -> {"idle", "again", "write", "writing"}]
      /\ number \in [Pusher -> Number] /\ serverSequence \in Number
      /\ taken \in 0..MaxPushes
  BY DEF AccessInv, PushInv
<1> QED  BY <1>1, <1>2, <1>3, <1>4, <1>5, <1>6, <1>7, <1>8 DEF TypeOK

\* Register, RegisterEncoder and Seal against Dispatch, in whatever order: the
\* registry is whole, a handler runs inside every middleware, each once, and a
\* request read after the write gate was published is admitted before it runs.
THEOREM HandlersRunGuarded == Spec => []HandlersGuarded
<1>1. Init => AccessInv
  BY RegistryInit, RequestInit, MarkInit, FramesInit DEF AccessInv
<1>2. AccessInv /\ [Next]_vars => AccessInv'
  BY RegistryStep, RequestStep, MarkStep, WriterStep, TornStep, PushStep DEF AccessInv
<1>3. AccessInv => HandlersGuarded
  <2> SUFFICES ASSUME AccessInv PROVE LayersOnce /\ GateTakesEffect /\ RegistrationWhole
    BY AccessTypes DEF HandlersGuarded
  <2>1. LayersOnce /\ GateTakesEffect
    BY ChainHeads DEF AccessInv, RequestInv, LayersOnce, GateTakesEffect
  <2> QED  BY <2>1 DEF AccessInv, RegistryInv
<1> QED  BY <1>1, <1>2, <1>3, PTL DEF Spec
=============================================================================
