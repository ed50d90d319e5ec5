---------------------------- MODULE PlayerAccess ----------------------------
(***************************************************************************)
(* Protocol dispatch of player access (game/player_agent and                *)
(* internal/access/player, rendered by internal/roost/render_access.go) and *)
(* the frames of one connection (render_player_tcp.go): registration and    *)
(* Seal against dispatch, the middleware chain, the write gate that is      *)
(* found lazily, sequence numbers of uint32 that wrap, and replies and      *)
(* pushes that share one socket.                                            *)
(*                                                                          *)
(* Requests of one connection are serial; those of the others only read     *)
(* the same tables.  The registry promises safety under concurrent dispatch *)
(* and registration, so requests may arrive before Seal.                    *)
(***************************************************************************)
EXTENDS Naturals, Sequences, FiniteSets

CONSTANTS Protocol,    \* protocols to register: records [req, resp], resp 0 for a notify
          PushId,      \* message ids registered for pushes alone
          MessageId,   \* the ids a frame may carry; 0 is the handshake's
          Width,       \* the number of sequence numbers; 2^32 in the code
          Pusher,      \* goroutines that push to this session
          Pushed,      \* bound: how many numbers were taken when a behaviour begins
          MaxPushes,   \* bound: the numbers taken; the space is not gone through in one push
          NoDef

ASSUME WidthAssumption == Width \in Nat /\ Width % 2 = 0 /\ Width > 2
ASSUME PushesAssumption == MaxPushes \in 0..Width - 1 /\ Pushed \subseteq 0..Width - 1

Layer == {"recover", "gate"}   \* RecoverMiddleware, writeGateMiddleware

ASSUME ProtocolAssumption ==
  /\ Protocol \subseteq [req : Nat \ {0}, resp : Nat] /\ PushId \subseteq Nat \ {0}
  /\ NoDef \notin [resp : Nat, layers : Seq(Layer)]

VARIABLES
  started,                                \* steps of Mod.Provide: "use", "register", "sealed"
  defs, encoders, middlewares, snapshot,  \* ProtocolRegistry; sealed when started is
  extra,                                  \* history: encoders RegisterEncoder accepted
  published, cached,                      \* the write gate; writeGateMiddleware's pointer
  pc, last, chain, request,               \* the read loop, and the request in it
  mark,                                   \* history: a number dispatched, and how far last has come
  closed, writing,                        \* the socket, and who writes to it (writeMu)
  torn, lost,                             \* history: whose half frames are on it, and a frame behind one
  push, number, serverSequence,           \* pushers, the sequence each was given
  taken                                   \* how many numbers were taken

registryVars == <<started, defs, encoders, middlewares, snapshot, extra>>
gateVars == <<published, cached>>
loopVars == <<pc, last, chain, request, mark>>
pushVars == <<push, number, serverSequence, taken>>
tornVars == <<torn, lost>>
vars == <<registryVars, gateVars, loopVars, closed, writing, tornVars, pushVars>>

Number == 0..Width - 1
Loop == "loop"   \* the writer of replies, beside the pushers
ReqId == {p.req : p \in Protocol}
NoRequest == [id |-> 0, seq |-> 0, guarded |-> FALSE, admitted |-> FALSE, passed |-> <<>>]
Unmarked == [seq |-> 0, advance |-> 0]

Init ==
  /\ started = "use"
  /\ defs = [id \in ReqId |-> NoDef] /\ encoders = {}
  /\ middlewares = <<"recover">> /\ snapshot = <<>> /\ extra = {}
  /\ published = FALSE /\ cached = FALSE
  /\ pc = "read" /\ last \in Number \ {0}   \* the handshake's sequence
  /\ chain = <<>> /\ request = NoRequest /\ mark = Unmarked
  /\ closed = FALSE /\ writing = {} /\ torn = {} /\ lost = FALSE
  /\ push = [p \in Pusher |-> "idle"] /\ number = [p \in Pusher |-> 0]
  /\ serverSequence \in Pushed
  /\ taken = 0

-----------------------------------------------------------------------------
(* Mod.Provide: Use, Register, Seal *)

Use ==
  /\ started = "use" /\ started' = "register"
  /\ middlewares' = Append(middlewares, "gate")
  /\ UNCHANGED <<defs, encoders, snapshot, extra, gateVars, loopVars, closed,
                 writing, tornVars, pushVars>>

\* A duplicate request or response id is refused and leaves nothing behind.
Register(p) ==
  /\ started = "register"
  /\ defs[p.req] = NoDef /\ (p.resp = 0 \/ p.resp \notin encoders)
  /\ encoders' = encoders \cup ({p.resp} \ {0})
  /\ defs' = [defs EXCEPT ![p.req] = [resp |-> p.resp, layers |-> <<>>]]
  /\ UNCHANGED <<started, middlewares, snapshot, extra, gateVars, loopVars,
                 closed, writing, tornVars, pushVars>>

RegisterEncoder(id) ==
  /\ started = "register" /\ id \notin encoders
  /\ encoders' = encoders \cup {id} /\ extra' = extra \cup {id}
  /\ UNCHANGED <<started, defs, middlewares, snapshot, gateVars, loopVars,
                 closed, writing, tornVars, pushVars>>

Chained(layers) ==
  [id \in ReqId |-> IF defs[id] = NoDef THEN NoDef
                    ELSE [defs[id] EXCEPT !.layers = layers \o @]]

\* Bug kept as an alternative: the middlewares stay for whoever reads them
\* under the lock.
FaultySeal ==
  /\ started = "register" /\ started' = "sealed"
  /\ defs' = Chained(middlewares)
  /\ snapshot' = <<[defs |-> defs', encoders |-> encoders]>>
  /\ UNCHANGED <<encoders, middlewares, extra, gateVars, loopVars, closed,
                 writing, tornVars, pushVars>>

\* Under the lock: every handler is wrapped once and for all.
Seal ==
  /\ started = "register" /\ started' = "sealed"
  /\ defs' = Chained(middlewares)
  /\ snapshot' = <<[defs |-> defs', encoders |-> encoders]>>
  /\ middlewares' = <<>>
  /\ UNCHANGED <<encoders, extra, gateVars, loopVars, closed, writing, tornVars, pushVars>>

\* The service that owns the gate starts, whenever it does.
PublishGate ==
  /\ ~published /\ published' = TRUE
  /\ UNCHANGED <<registryVars, cached, loopVars, closed, writing, tornVars, pushVars>>

-----------------------------------------------------------------------------
(* The read loop of serveConnection *)

\* int32(a - b) > 0
Later(a, b) == ((a + Width - b) % Width) \in 1..(Width \div 2 - 1)

\* Bug kept as an alternative: numbers are only compared for equality.
FaultyReceive(id, seq) ==
  /\ pc = "read" /\ ~closed
  /\ IF id = 0 \/ seq = 0 \/ seq = last
       THEN pc' = "close" /\ UNCHANGED <<last, request, mark>>
       ELSE /\ pc' = "load" /\ last' = seq
            /\ request' = [NoRequest EXCEPT !.id = id, !.seq = seq, !.guarded = published]
            /\ LET come == mark.advance + ((seq + Width - last) % Width) IN
               mark' \in {[seq |-> seq, advance |-> 0],
                          IF mark.seq = 0 \/ come > Width THEN Unmarked
                          ELSE [mark EXCEPT !.advance = come]}
  /\ UNCHANGED <<registryVars, gateVars, chain, closed, writing, tornVars, pushVars>>

\* A frame that is whole: its id and its sequence decide.  The mark follows a
\* number that was dispatched until the space has been gone through once.
Receive(id, seq) ==
  /\ pc = "read" /\ ~closed
  /\ IF id = 0 \/ seq = 0 \/ ~Later(seq, last)
       THEN pc' = "close" /\ UNCHANGED <<last, request, mark>>
       ELSE /\ pc' = "load" /\ last' = seq
            /\ request' = [NoRequest EXCEPT !.id = id, !.seq = seq, !.guarded = published]
            /\ LET come == mark.advance + ((seq + Width - last) % Width) IN
               mark' \in {[seq |-> seq, advance |-> 0],
                          IF mark.seq = 0 \/ come > Width THEN Unmarked
                          ELSE [mark EXCEPT !.advance = come]}
  /\ UNCHANGED <<registryVars, gateVars, chain, closed, writing, tornVars, pushVars>>

\* readFrameLimit fails: magic, version, flags, a length over the limit, the
\* end of the stream or a closed socket.
BadFrame ==
  /\ pc = "read" /\ pc' = "close"
  /\ UNCHANGED <<registryVars, gateVars, last, chain, request, mark, closed,
                 writing, tornVars, pushVars>>

Found(table, layers) ==
  IF request.id \in ReqId /\ table[request.id] # NoDef
    THEN /\ chain' = layers \o table[request.id].layers \o <<"handler">>
         /\ pc' = "decode"
    ELSE pc' = "close" /\ UNCHANGED chain

\* Dispatch: the snapshot, without a lock.
LoadSnapshot ==
  /\ pc = "load"
  /\ IF snapshot = <<>>
       THEN pc' = "rlock" /\ UNCHANGED chain
       ELSE Found(snapshot[1].defs, <<>>)
  /\ UNCHANGED <<registryVars, gateVars, last, request, mark, closed, writing, tornVars, pushVars>>

\* There was none: the tables under the read lock, with the middlewares of now.
ReadLocked ==
  /\ pc = "rlock"
  /\ Found(defs, middlewares)
  /\ UNCHANGED <<registryVars, gateVars, last, request, mark, closed, writing, tornVars, pushVars>>

\* DecodeReq, outside the chain: it may fail, and nothing recovers its panic.
Decode ==
  /\ pc = "decode" /\ pc' \in {"run", "close", "dead"}
  /\ UNCHANGED <<registryVars, gateVars, last, chain, request, mark, closed, writing,
                 tornVars, pushVars>>

Pass(layer) == request' = [request EXCEPT !.passed = Append(@, layer)]

\* RecoverMiddleware: a panic further in becomes an error.
EnterRecover ==
  /\ pc = "run" /\ Head(chain) = "recover"
  /\ chain' = Tail(chain) /\ Pass("recover")
  /\ UNCHANGED <<registryVars, gateVars, pc, last, mark, closed, writing, tornVars, pushVars>>

\* writeGateMiddleware: the gate is asked if it is cached or can be looked up.
FindGate ==
  /\ pc = "run" /\ Head(chain) = "gate"
  /\ cached' = (cached \/ published)
  /\ chain' = Tail(chain) /\ Pass("gate")
  /\ pc' = IF cached' THEN "admit" ELSE "run"
  /\ UNCHANGED <<registryVars, published, last, mark, closed, writing, tornVars, pushVars>>

\* AdmitMessage, external: it may refuse.
Admit ==
  /\ pc = "admit"
  /\ \/ pc' = "run" /\ request' = [request EXCEPT !.admitted = TRUE]
     \/ pc' = "close" /\ UNCHANGED request
  /\ UNCHANGED <<registryVars, gateVars, last, chain, mark, closed, writing, tornVars, pushVars>>

\* The handler answers, has no answer, fails or panics.
Handle ==
  /\ pc = "run" /\ Head(chain) = "handler"
  /\ \/ pc' = "encode" /\ defs[request.id].resp # 0
     \/ pc' \in {"read", "close"}
     \/ pc' = IF request.passed # <<>> /\ Head(request.passed) = "recover"
                THEN "close" ELSE "crashed"
  /\ chain' = <<>>
  /\ request' = IF pc' = "encode" THEN request ELSE NoRequest
  /\ UNCHANGED <<registryVars, gateVars, last, mark, closed, writing, tornVars, pushVars>>

\* EncodeResp, and writeFrame's checks before the lock: outside the chain too.
Encode ==
  /\ pc = "encode" /\ pc' \in {"reply", "close", "dead"}
  /\ request' = IF pc' = "reply" THEN request ELSE NoRequest
  /\ UNCHANGED <<registryVars, gateVars, last, chain, mark, closed, writing, tornVars,
                 pushVars>>

\* The loop returns: the deferred session.Close.
Leave ==
  /\ pc = "close" /\ writing = {}
  /\ closed' = TRUE /\ pc' = "gone" /\ chain' = <<>> /\ request' = NoRequest
  /\ UNCHANGED <<registryVars, gateVars, last, mark, writing, tornVars, pushVars>>

-----------------------------------------------------------------------------
(* writeFrame, under writeMu *)

\* The lock is had and the session is not closed.
BeginWrite(w) ==
  /\ writing = {} /\ ~closed /\ writing' = {w}
  /\ lost' = (lost \/ torn # {})

BeginReply ==
  /\ pc = "reply" /\ BeginWrite(Loop) /\ pc' = "replying"
  /\ UNCHANGED <<registryVars, gateVars, last, chain, request, mark, closed, torn, pushVars>>

ReplyRefused ==
  /\ pc = "reply" /\ closed /\ writing = {} /\ pc' = "close"
  /\ UNCHANGED <<registryVars, gateVars, last, chain, request, mark, closed, writing, tornVars, pushVars>>

\* Bug kept as an alternative: a writer that fails keeps the lock.
FaultyEndPush(p) ==
  /\ \/ push[p] = "writing"
     \/ push[p] = "write" /\ closed /\ writing = {}
  /\ push' = [push EXCEPT ![p] = "idle"] /\ number' = [number EXCEPT ![p] = 0]
  /\ writing' \in {writing, writing \ {p}}
  /\ UNCHANGED <<registryVars, gateVars, loopVars, closed, tornVars, serverSequence, taken>>

\* Bug kept as an alternative: the loop goes on whatever the reply came to.
FaultyEndReply ==
  /\ pc = "replying" /\ pc' = "read"
  /\ torn' \in {torn, torn \cup {"reply"}}
  /\ writing' = writing \ {Loop} /\ request' = NoRequest
  /\ UNCHANGED <<registryVars, gateVars, last, chain, mark, closed, lost, pushVars>>

\* Written, or cut off by the deadline anywhere in the frame; the loop goes on
\* only after the former.
EndReply ==
  /\ pc = "replying"
  /\ \/ pc' = "read" /\ UNCHANGED torn
     \/ pc' = "close" /\ torn' \in {torn, torn \cup {"reply"}}
  /\ writing' = writing \ {Loop} /\ request' = NoRequest
  /\ UNCHANGED <<registryVars, gateVars, last, chain, mark, closed, lost, pushVars>>

\* session.Close from outside: a kick or a session that replaces this one.
CloseSession ==
  /\ ~closed /\ writing = {} /\ closed' = TRUE
  /\ UNCHANGED <<registryVars, gateVars, loopVars, writing, tornVars, pushVars>>

-----------------------------------------------------------------------------
(* push: the sequence is taken before the lock *)

\* serverSequence.Add(1)
TakeNumber(p) ==
  /\ taken < MaxPushes /\ taken' = taken + 1
  /\ serverSequence' = (serverSequence + 1) % Width
  /\ number' = [number EXCEPT ![p] = serverSequence']

\* Runtime.Encode found an encoder, the session was found, and the first Add is done.
Reserve(p) ==
  /\ push[p] = "idle"
  /\ TakeNumber(p)
  /\ push' = [push EXCEPT ![p] = IF serverSequence' = 0 THEN "again" ELSE "write"]
  /\ UNCHANGED <<registryVars, gateVars, loopVars, closed, writing, tornVars>>

\* The second Add, after a zero.
ReserveAgain(p) ==
  /\ push[p] = "again"
  /\ TakeNumber(p)
  /\ push' = [push EXCEPT ![p] = "write"]
  /\ UNCHANGED <<registryVars, gateVars, loopVars, closed, writing, tornVars>>

BeginPush(p) ==
  /\ push[p] = "write" /\ BeginWrite(p)
  /\ push' = [push EXCEPT ![p] = "writing"]
  /\ UNCHANGED <<registryVars, gateVars, loopVars, closed, torn, number, serverSequence,
                 taken>>

\* Written, or cut off by the deadline: the pusher is told, the session stays open.
EndPush(p) ==
  /\ \/ push[p] = "writing" /\ torn' \in {torn, torn \cup {"push"}}
     \/ push[p] = "write" /\ closed /\ writing = {}   \* ErrSessionClosed
        /\ UNCHANGED torn
  /\ push' = [push EXCEPT ![p] = "idle"] /\ number' = [number EXCEPT ![p] = 0]
  /\ writing' = writing \ {p}
  /\ UNCHANGED <<registryVars, gateVars, loopVars, closed, lost, serverSequence, taken>>

-----------------------------------------------------------------------------
Providing == Use \/ Seal \/ (\E p \in Protocol : Register(p))
             \/ (\E id \in PushId : RegisterEncoder(id))
Reading == \/ BadFrame
           \/ \E id \in MessageId, seq \in Number : Receive(id, seq)
Serving == LoadSnapshot \/ ReadLocked \/ Decode \/ EnterRecover \/ FindGate \/ Admit
           \/ Handle \/ Encode \/ BeginReply \/ ReplyRefused \/ EndReply \/ Leave
Pushing == \E p \in Pusher : Reserve(p) \/ ReserveAgain(p) \/ BeginPush(p) \/ EndPush(p)

\* A panic that nothing recovers ends the process.
Alive == pc \notin {"crashed", "dead"}

Next ==
  /\ Alive
  /\ Providing \/ PublishGate \/ Reading \/ Serving \/ CloseSession \/ Pushing

Spec == Init /\ [][Next]_vars

\* A request that was read is served, and a write ends with its deadline.  A
\* lock that is free again and again is had in the end (sync.Mutex is fair to
\* who waits long).
Fairness == /\ WF_vars(Serving) /\ SF_vars(BeginReply) /\ SF_vars(Leave)
            /\ SF_vars(ReplyRefused)
            /\ \A p \in Pusher : WF_vars(Alive /\ EndPush(p))
FairSpec == Spec /\ Fairness
-----------------------------------------------------------------------------
(* Properties *)

LoopStep == {"read", "load", "rlock", "decode", "run", "admit", "encode", "reply",
             "replying", "close", "gone", "crashed", "dead"}

TypeOK ==
  /\ started \in {"use", "register", "sealed"}
  /\ \A id \in ReqId : defs[id] # NoDef =>
       defs[id].resp \in Nat /\ defs[id].layers \in Seq(Layer)
  /\ encoders \subseteq Nat \ {0} /\ extra \subseteq encoders
  /\ middlewares \in Seq(Layer) /\ Len(snapshot) <= 1
  /\ published \in BOOLEAN /\ cached \in BOOLEAN /\ closed \in BOOLEAN
  /\ pc \in LoopStep /\ last \in Number \ {0}
  /\ chain \in Seq(Layer \cup {"handler"})
  /\ mark \in [seq : Number, advance : 0..Width]
  /\ writing \subseteq Pusher \cup {Loop}
  /\ torn \subseteq {"push", "reply"} /\ lost \in BOOLEAN
  /\ push \in [Pusher -> {"idle", "again", "write", "writing"}]
  /\ number \in [Pusher -> Number] /\ serverSequence \in Number
  /\ taken \in 0..MaxPushes

\* Seal against Dispatch: whatever the interleaving, a handler runs inside
\* every middleware, each once, recover outermost; so no panic of a handler gets
\* through.  The codecs run outside the chain, and theirs do ("dead").
LayersOnce ==
  /\ (pc = "run" /\ Head(chain) = "handler") => request.passed = <<"recover", "gate">>
  /\ pc # "crashed"

\* writeGateMiddleware: "a gate that appears later must still take effect":
\* no request read after it was published is handled without being admitted.
GateTakesEffect ==
  (pc \in {"encode", "reply", "replying"} \/ (pc = "run" /\ Head(chain) = "handler")) =>
    (request.guarded => request.admitted)

\* Register: a refused registration leaves nothing, and what is filed is whole:
\* no two protocols share an answer, and nothing else has an encoder.
RegistrationWhole ==
  LET filed == {id \in ReqId : defs[id] # NoDef}
      answers == {defs[id].resp : id \in filed} \ {0} IN
  /\ encoders = answers \cup extra
  /\ \A a, b \in filed : a # b /\ defs[a].resp = defs[b].resp => defs[a].resp = 0
  /\ \A i \in DOMAIN snapshot :
       snapshot[i].defs = defs /\ snapshot[i].encoders = encoders

\* Registration, Seal, Dispatch and the gate together: whatever order they come
\* in, a request meets a registry that is whole and a handler that is guarded.
HandlersGuarded == TypeOK /\ LayersOnce /\ GateTakesEffect /\ RegistrationWhole

\* int32(sequence - lastSequence): a number that was dispatched is not
\* dispatched again before half the space has been gone through.
NoReplay ==
  [][(pc = "read" /\ pc' = "load" /\ mark.seq # 0 /\ request'.seq = mark.seq) =>
       mark.advance > Width \div 2]_vars

\* writeMu: frames are written one after another and never to a closed session.
OneWriter ==
  /\ Cardinality(writing) <= 1
  /\ closed => writing = {}

\* push: the number of a frame is not zero and nobody else's, wrap or not.
PushNumbers ==
  \A p \in Pusher : push[p] \in {"write", "writing"} =>
    /\ number[p] # 0
    /\ \A q \in Pusher \ {p} : push[q] \in {"write", "writing"} => number[q] # number[p]

\* serveConnection leaves when a reply is cut off: nothing is read, and no reply is
\* written, behind half a reply.  Half a push has frames behind it, and half a
\* reply the pushes that come before the close.
HalfFrames == lost => "push" \in torn \/ pc \in {"close", "gone"}

\* writeMu, push and the read loop: frames stand one after another on the socket
\* of a session, pushes under numbers that tell them apart; and unless a push was
\* cut off, a frame stands behind half a frame only on a session about to close.
FramesApart == OneWriter /\ PushNumbers /\ HalfFrames

\* Every request is answered, dropped by its handler, or ends the connection or,
\* by a codec's panic, the process.
RequestsEnd == pc = "load" ~> (pc \in {"read", "gone", "dead"})
=============================================================================
