-------------------------- MODULE DaoObject_proofs --------------------------
(* A rollback leaves the object as its transaction found it, every nested   *)
(* value reports to the one place that holds it, and the stored document    *)
(* and the client follow the object.                                        *)
EXTENDS DaoObject, TLAPS

-----------------------------------------------------------------------------
(* Places                                                                   *)

LEMMA PlaceKinds ==
  /\ \A p \in Slots : /\ p \in Places /\ p \in Paths /\ p # NoPlace /\ p # Score
                      /\ p[1] \in {"mount", "equips", "squad"}
  /\ \A v \in Values : /\ Core(v) \in Places /\ Core(v) \notin Slots /\ Core(v) # NoPlace
                       /\ Core(v)[1] = "core" /\ Core(v)[2] = v
  /\ \A p \in Places : p # NoPlace /\ (p \in Slots \/ \E v \in Values : p = Core(v))
  /\ \A p \in Paths : p \in Slots \/ p = Score
  /\ Score \in Paths /\ Score \notin Slots /\ Score[1] = "score"
  /\ NoPlace \notin Places /\ NoPlace[1] = "none"
<1>1. \A p \in Slots : /\ p \in Places /\ p \in Paths /\ p # NoPlace /\ p # Score
                       /\ p[1] \in {"mount", "equips", "squad"}
  <2>1. \A p \in Slots : p \in Places /\ p \in Paths  BY DEF Places, Paths
  <2>2. \A p \in Slots : p[1] \in {"mount", "equips", "squad"}
    <3>1. Mount[1] = "mount" /\ \A x : Entry(x)[1] = "equips" /\ Item(x)[1] = "squad"
      BY DEF Mount, Entry, Item
    <3> HIDE DEF Mount, Entry, Item
    <3> QED  BY <3>1 DEF Slots
  <2>3. NoPlace[1] = "none" /\ Score[1] = "score"  BY DEF NoPlace, Score
  <2> QED  BY <2>1, <2>2, <2>3
<1>2. \A v \in Values : Core(v) \in Places /\ Core(v)[1] = "core" /\ Core(v)[2] = v
  BY DEF Places, Core
<1>3. \A v \in Values : Core(v) \notin Slots /\ Core(v) # NoPlace
  <2>1. \A v \in Values : Core(v)[1] \notin {"mount", "equips", "squad", "none"}  BY <1>2
  <2>2. NoPlace[1] = "none"  BY DEF NoPlace
  <2> QED  BY <1>1, <2>1, <2>2
<1>4. \A p \in Places : p \in Slots \/ \E v \in Values : p = Core(v)  BY DEF Places
<1>5. \A p \in Places : p # NoPlace  BY <1>1, <1>3, <1>4
<1>6. \A p \in Paths : p \in Slots \/ p = Score  BY DEF Paths
<1>7. Score \in Paths /\ Score \notin Slots /\ Score[1] = "score" /\ NoPlace[1] = "none"
  <2>1. Score[1] = "score" /\ NoPlace[1] = "none" /\ Score \in Paths
    BY DEF Score, NoPlace, Paths
  <2> QED  BY <1>1, <2>1
<1> QED  BY <1>1, <1>2, <1>3, <1>4, <1>5, <1>6, <1>7

LEMMA SlotKinds ==
  /\ Mount \in Slots /\ Mount[1] = "mount"
  /\ \A k \in Keys : Entry(k) \in Slots /\ Entry(k)[1] = "equips" /\ Entry(k)[2] = k
  /\ \A n \in Items : Item(n) \in Slots /\ Item(n)[1] = "squad" /\ Item(n)[2] = n
  /\ \A p \in Slots : /\ p[1] = "equips" => \E k \in Keys : p = Entry(k)
                      /\ p[1] = "squad" => p[2] \in Items
                      /\ p[1] = "mount" => p = Mount
  /\ Items \subseteq Int
<1>1. Items \subseteq Int  BY DaoAssumption
<1>2. /\ Mount[1] = "mount"
      /\ \A x : Entry(x)[1] = "equips" /\ Entry(x)[2] = x /\ Item(x)[1] = "squad" /\ Item(x)[2] = x
  BY DEF Mount, Entry, Item
<1>3. /\ Mount \in Slots /\ (\A k \in Keys : Entry(k) \in Slots)
      /\ \A n \in Items : Item(n) \in Slots
  BY DEF Slots
<1>4. \A p \in Slots : p = Mount \/ (\E k \in Keys : p = Entry(k)) \/ (\E n \in Items : p = Item(n))
  BY DEF Slots
<1>5. \A p \in Slots : /\ p[1] = "equips" => \E k \in Keys : p = Entry(k)
                       /\ p[1] = "squad" => p[2] \in Items
                       /\ p[1] = "mount" => p = Mount
  BY <1>2, <1>4
<1> QED  BY <1>1, <1>2, <1>3, <1>5

LEMMA ObjectKinds ==
  /\ \A v \in Values : v \in Objects /\ v # Nil /\ v \notin Gems
  /\ \A g \in Gems : g \in Objects /\ g # Nil /\ g \notin Values
  /\ \A o \in Objects : o # Nil /\ (o \in Values \/ o \in Gems)
BY DaoAssumption DEF Objects

-----------------------------------------------------------------------------
(* The object in memory                                                     *)

IsMem(m) ==
  /\ m \in [at : [Places -> Objects \union {Nil}], level : [Objects -> Levels], score : Levels,
            owner : [Objects -> Places \union {NoPlace}]]
  /\ \A p \in Slots : m.at[p] \in Values \union {Nil}
  /\ \A v \in Values : m.at[Core(v)] \in Gems \union {Nil}

\* Every value reports to the place that holds it, and none to a place it has left.
Consistent(m) ==
  /\ \A p \in Places : m.at[p] # Nil => m.owner[m.at[p]] = p
  /\ \A o \in Objects : m.owner[o] # NoPlace => m.at[m.owner[o]] = o

Good(m) == IsMem(m) /\ Consistent(m)

\* What a place may be given.
Fits(new) ==
  /\ DOMAIN new \subseteq Places
  /\ \A p \in DOMAIN new : /\ p \in Slots => new[p] \in Values \union {Nil}
                           /\ p \notin Slots => new[p] \in Gems \union {Nil}

LEMMA MemIs ==
  ASSUME NEW m, IsMem(m)
  PROVE  /\ m = [at |-> m.at, level |-> m.level, score |-> m.score, owner |-> m.owner]
         /\ m.at = [p \in Places |-> m.at[p]] /\ m.owner = [o \in Objects |-> m.owner[o]]
         /\ m.level = [o \in Objects |-> m.level[o]]
         /\ \A p \in Places : m.at[p] \in Objects \union {Nil}
         /\ \A o \in Objects : m.owner[o] \in Places \union {NoPlace} /\ m.level[o] \in Levels
         /\ m.score \in Levels
BY DEF IsMem

LEMMA SameMem ==
  ASSUME NEW m, NEW n, IsMem(m), IsMem(n), m.score = n.score,
         \A p \in Places : m.at[p] = n.at[p],
         \A o \in Objects : m.level[o] = n.level[o] /\ m.owner[o] = n.owner[o]
  PROVE  m = n
<1>1. /\ m = [at |-> m.at, level |-> m.level, score |-> m.score, owner |-> m.owner]
      /\ m.at = [p \in Places |-> m.at[p]] /\ m.owner = [o \in Objects |-> m.owner[o]]
      /\ m.level = [o \in Objects |-> m.level[o]]
  BY MemIs
<1>2. /\ n = [at |-> n.at, level |-> n.level, score |-> n.score, owner |-> n.owner]
      /\ n.at = [p \in Places |-> n.at[p]] /\ n.owner = [o \in Objects |-> n.owner[o]]
      /\ n.level = [o \in Objects |-> n.level[o]]
  BY MemIs
<1>3. m.at = n.at  BY <1>1, <1>2
<1>4. m.owner = n.owner /\ m.level = n.level  BY <1>1, <1>2
<1> QED  BY <1>1, <1>2, <1>3, <1>4

\* daoUnbindDirty: the owners a release leaves.
LEMMA UnbindIs ==
  ASSUME NEW m, IsMem(m), NEW ps
  PROVE  /\ IsMem(Unbind(m, ps))
         /\ Unbind(m, ps).at = m.at /\ Unbind(m, ps).level = m.level
         /\ Unbind(m, ps).score = m.score
         /\ \A o \in Objects : Unbind(m, ps).owner[o] =
              IF m.owner[o] \in ps /\ m.at[m.owner[o]] = o THEN NoPlace ELSE m.owner[o]
<1> DEFINE own == [o \in Objects |-> IF m.owner[o] \in ps /\ m.at[m.owner[o]] = o
                                     THEN NoPlace ELSE m.owner[o]]
           u == Unbind(m, ps)
<1>1. u = [m EXCEPT !.owner = own]  BY DEF Unbind
<1>2. own \in [Objects -> Places \union {NoPlace}]  BY DEF IsMem
<1>3. \A o \in Objects : own[o] = IF m.owner[o] \in ps /\ m.at[m.owner[o]] = o
                                  THEN NoPlace ELSE m.owner[o]
  OBVIOUS
<1> HIDE DEF own, u
<1>4. /\ u.owner = own /\ u.at = m.at /\ u.level = m.level /\ u.score = m.score
      /\ u \in [at : [Places -> Objects \union {Nil}], level : [Objects -> Levels], score : Levels,
                owner : [Objects -> Places \union {NoPlace}]]
  BY <1>1, <1>2 DEF IsMem
<1> QED  BY <1>3, <1>4 DEF IsMem, u

LEMMA WriteIs ==
  ASSUME NEW m, IsMem(m), NEW new, Fits(new)
  PROVE  /\ IsMem(Write(m, new))
         /\ Write(m, new).owner = m.owner /\ Write(m, new).level = m.level
         /\ Write(m, new).score = m.score
         /\ \A p \in Places : Write(m, new).at[p] = IF p \in DOMAIN new THEN new[p] ELSE m.at[p]
<1> DEFINE at == [p \in Places |-> IF p \in DOMAIN new THEN new[p] ELSE m.at[p]]
           w == Write(m, new)
<1>1. w = [m EXCEPT !.at = at]  BY DEF Write
<1>2. at \in [Places -> Objects \union {Nil}]
  BY PlaceKinds, ObjectKinds DEF IsMem, Fits
<1>3. \A p \in Places : at[p] = IF p \in DOMAIN new THEN new[p] ELSE m.at[p]  OBVIOUS
<1> HIDE DEF at, w
<1>4. /\ w.at = at /\ w.owner = m.owner /\ w.level = m.level /\ w.score = m.score
      /\ w \in [at : [Places -> Objects \union {Nil}], level : [Objects -> Levels], score : Levels,
                owner : [Objects -> Places \union {NoPlace}]]
  BY <1>1, <1>2 DEF IsMem
<1>5. /\ \A p \in Slots : w.at[p] \in Values \union {Nil}
      /\ \A v \in Values : w.at[Core(v)] \in Gems \union {Nil}
  BY <1>3, <1>4, PlaceKinds DEF IsMem, Fits
<1> QED  BY <1>3, <1>4, <1>5 DEF IsMem, w

\* The places a binding reaches: all of them, up to the item that is refused.
Bound(m, ps) ==
  {p \in ps : m.at[p] # Nil /\ \A q \in ps : Taken(m, ps, q) => (p[1] = "squad" /\ p[2] < q[2])}

LEMMA BindIs ==
  ASSUME NEW m, IsMem(m), NEW ps \in SUBSET Places
  PROVE  /\ IsMem(Bind(m, ps))
         /\ Bind(m, ps).at = m.at /\ Bind(m, ps).level = m.level /\ Bind(m, ps).score = m.score
         /\ \A o \in Objects :
              /\ (\E p \in Bound(m, ps) : m.at[p] = o) =>
                   Bind(m, ps).owner[o] \in Bound(m, ps) /\ m.at[Bind(m, ps).owner[o]] = o
              /\ (\A p \in Bound(m, ps) : m.at[p] # o) => Bind(m, ps).owner[o] = m.owner[o]
<1> DEFINE now == Bound(m, ps)
           own == [o \in Objects |-> IF \E p \in now : m.at[p] = o
                                     THEN CHOOSE p \in now : m.at[p] = o ELSE m.owner[o]]
           b == Bind(m, ps)
<1>1. b = [m EXCEPT !.owner = own]  BY DEF Bind, Bound
<1>2. now \subseteq Places  BY DEF Bound
<1> HIDE DEF now
<1>3. \A o \in Objects : (\E p \in now : m.at[p] = o) => own[o] \in now /\ m.at[own[o]] = o
  OBVIOUS
<1>4. \A o \in Objects : (\A p \in now : m.at[p] # o) => own[o] = m.owner[o]
  OBVIOUS
<1>5. own \in [Objects -> Places \union {NoPlace}]
  <2>1. \A o \in Objects : own[o] \in Places \union {NoPlace}  BY <1>2, <1>3, <1>4, MemIs
  <2>2. own = [o \in Objects |-> own[o]]  OBVIOUS
  <2> HIDE DEF own
  <2> QED  BY <2>1, <2>2
<1> HIDE DEF own, b
<1>6. /\ b.owner = own /\ b.at = m.at /\ b.level = m.level /\ b.score = m.score
      /\ b \in [at : [Places -> Objects \union {Nil}], level : [Objects -> Levels], score : Levels,
                owner : [Objects -> Places \union {NoPlace}]]
  BY <1>1, <1>5 DEF IsMem
<1> QED  BY <1>3, <1>4, <1>6 DEF IsMem, b, now

LEMMA AllBound ==
  ASSUME NEW m, NEW ps, ~Refused(m, ps)
  PROVE  Bound(m, ps) = {p \in ps : m.at[p] # Nil}
BY DEF Refused, Bound

\* No place of a setter is refused that its binding reaches.
LEMMA BoundIs ==
  ASSUME NEW m, NEW ps \in SUBSET Places, NEW p \in Bound(m, ps)
  PROVE  p \in ps /\ m.at[p] # Nil /\ m.owner[m.at[p]] \in {NoPlace, p}
<1>1. p \in ps /\ m.at[p] # Nil /\ (Taken(m, ps, p) => p[1] = "squad" /\ p[2] < p[2])
  BY DEF Bound
<1>2. ~Taken(m, ps, p)
  <2>1. p[1] = "squad" => p[2] \in Int
    <3>1. p \in Slots \/ p[1] = "core"  BY <1>1, PlaceKinds
    <3> QED  BY <3>1, SlotKinds
  <2> QED  BY <1>1, <2>1
<1> QED  BY <1>1, <1>2 DEF Taken

\* The places a setter writes: one, or the items of the slice.
Together(ps) == /\ ps \subseteq Places
                /\ \A p, q \in ps : p # q => p[1] = "squad" /\ q[1] = "squad" /\ p[2] # q[2]

\* What a setter of places makes of a good object, refused or not.
LEMMA AssignIs ==
  ASSUME NEW m, Good(m), NEW new, Fits(new)
  PROVE  LET D == DOMAIN new
             w == Write(Unbind(m, D), new)
             a == Assign(m, new)
         IN /\ IsMem(w) /\ IsMem(a) /\ a = Bind(w, D) /\ w.at = a.at
            /\ a.level = m.level /\ a.score = m.score
            /\ \A p \in Places : a.at[p] = IF p \in D THEN new[p] ELSE m.at[p]
            /\ \A o \in Objects :
                 /\ w.owner[o] = IF m.owner[o] \in D THEN NoPlace ELSE m.owner[o]
                 /\ (\E p \in Bound(w, D) : a.at[p] = o) =>
                      a.owner[o] \in Bound(w, D) /\ a.at[a.owner[o]] = o
                 /\ (\A p \in Bound(w, D) : a.at[p] # o) => a.owner[o] = w.owner[o]
<1> DEFINE D == DOMAIN new
           u == Unbind(m, D)
           w == Write(u, new)
           a == Assign(m, new)
<1>1. D \subseteq Places  BY DEF Fits
<1>2. /\ IsMem(u) /\ u.at = m.at /\ u.level = m.level /\ u.score = m.score
      /\ \A o \in Objects : u.owner[o] = IF m.owner[o] \in D /\ m.at[m.owner[o]] = o
                                         THEN NoPlace ELSE m.owner[o]
  BY UnbindIs DEF Good
<1>3. a = Bind(w, D)  BY DEF Assign
<1> HIDE DEF u, a
<1>4. /\ IsMem(w) /\ w.owner = u.owner /\ w.level = u.level /\ w.score = u.score
      /\ \A p \in Places : w.at[p] = IF p \in D THEN new[p] ELSE u.at[p]
  BY <1>2, WriteIs
<1> HIDE DEF w
<1>5. /\ IsMem(a) /\ a.at = w.at /\ a.level = w.level /\ a.score = w.score
      /\ \A o \in Objects :
           /\ (\E p \in Bound(w, D) : w.at[p] = o) =>
                a.owner[o] \in Bound(w, D) /\ w.at[a.owner[o]] = o
           /\ (\A p \in Bound(w, D) : w.at[p] # o) => a.owner[o] = w.owner[o]
  BY <1>1, <1>3, <1>4, BindIs
<1>6. \A o \in Objects : w.owner[o] = IF m.owner[o] \in D THEN NoPlace ELSE m.owner[o]
  <2>1. \A o \in Objects : m.owner[o] \in D => m.at[m.owner[o]] = o
    BY <1>1, PlaceKinds DEF Good, Consistent
  <2> QED  BY <1>2, <1>4, <2>1
<1> QED  BY <1>2, <1>3, <1>4, <1>5, <1>6 DEF a, w, u

\* A setter that is not refused leaves every value with the place that holds it.
LEMMA AssignGood ==
  ASSUME NEW m, Good(m), NEW new, Fits(new), Together(DOMAIN new), ~Refuses(m, new)
  PROVE  Good(Assign(m, new))
<1> DEFINE D == DOMAIN new
           w == Write(Unbind(m, D), new)
           a == Assign(m, new)
           B == Bound(w, D)
<1>1. /\ IsMem(w) /\ IsMem(a) /\ w.at = a.at
      /\ \A p \in Places : a.at[p] = IF p \in D THEN new[p] ELSE m.at[p]
      /\ \A o \in Objects :
           /\ w.owner[o] = IF m.owner[o] \in D THEN NoPlace ELSE m.owner[o]
           /\ (\E p \in B : a.at[p] = o) => a.owner[o] \in B /\ a.at[a.owner[o]] = o
           /\ (\A p \in B : a.at[p] # o) => a.owner[o] = w.owner[o]
  BY AssignIs
<1>2. ~Refused(w, D)  BY DEF Refuses
<1>3. B = {p \in D : w.at[p] # Nil}  BY <1>2, AllBound
<1>4. D \subseteq Places /\ Together(D)  BY DEF Fits
<1> HIDE DEF w, a, D
<1>5. \A p \in B : w.owner[a.at[p]] \in {NoPlace, p}
  BY <1>1, <1>4, BoundIs
<1> HIDE DEF B
<1>6. \A p, q \in D : p # q /\ a.at[p] # Nil => a.at[q] # a.at[p]
  <2>1. SUFFICES ASSUME NEW p \in D, NEW q \in D, p # q, a.at[p] # Nil, a.at[q] = a.at[p]
                 PROVE  FALSE
    OBVIOUS
  <2>2. p[1] = "squad" /\ q[1] = "squad" /\ p[2] # q[2]  BY <1>4, <2>1 DEF Together
  <2>3. p[2] \in Int /\ q[2] \in Int
    <3>1. p \in Slots /\ q \in Slots  BY <1>4, <2>1, <2>2, PlaceKinds
    <3> QED  BY <2>2, <3>1, SlotKinds
  <2>4. Taken(w, D, p) \/ Taken(w, D, q)  BY <1>1, <2>1, <2>2, <2>3 DEF Taken
  <2> QED  BY <1>2, <2>4 DEF Refused
<1>7. ASSUME NEW p \in Places, a.at[p] # Nil PROVE a.owner[a.at[p]] = p
  <2>1. a.at[p] \in Objects  BY <1>1, <1>7, MemIs
  <2>2. CASE p \in D
    <3>1. p \in B  BY <1>1, <1>3, <1>7, <2>2
    <3>2. a.owner[a.at[p]] \in B /\ a.at[a.owner[a.at[p]]] = a.at[p]  BY <1>1, <2>1, <3>1
    <3>3. a.owner[a.at[p]] \in D  BY <1>3, <3>2
    <3> QED  BY <1>6, <1>7, <2>2, <3>2, <3>3
  <2>3. CASE p \notin D
    <3>1. a.at[p] = m.at[p]  BY <1>1, <2>3
    <3>2. m.owner[a.at[p]] = p  BY <1>7, <3>1 DEF Good, Consistent
    <3>3. w.owner[a.at[p]] = p  BY <1>1, <2>1, <2>3, <3>2
    <3>4. \A r \in B : a.at[r] # a.at[p]
      BY <1>3, <1>5, <2>3, <3>3, PlaceKinds
    <3> QED  BY <1>1, <2>1, <3>3, <3>4
  <2> QED  BY <2>2, <2>3
<1>8. ASSUME NEW o \in Objects, a.owner[o] # NoPlace PROVE a.at[a.owner[o]] = o
  <2>1. CASE \E p \in B : a.at[p] = o  BY <1>1, <2>1
  <2>2. CASE \A p \in B : a.at[p] # o
    <3>1. a.owner[o] = w.owner[o]  BY <1>1, <2>2
    <3>2. m.owner[o] \notin D /\ a.owner[o] = m.owner[o]  BY <1>1, <1>8, <3>1
    <3>3. m.owner[o] \in Places /\ m.at[m.owner[o]] = o
      BY <1>8, <3>2, MemIs DEF Good, Consistent
    <3> QED  BY <1>1, <3>2, <3>3
  <2> QED  BY <2>1, <2>2
<1> QED  BY <1>1, <1>7, <1>8 DEF Good, Consistent, a

\* The undo of a setter puts back what the places held, and who reports where: of one
\* that was refused halfway too.
LEMMA UndoAssign ==
  ASSUME NEW m, Good(m), NEW new, Fits(new)
  PROVE  Assign(Assign(m, new), [p \in DOMAIN new |-> m.at[p]]) = m
<1> DEFINE D == DOMAIN new
           w == Write(Unbind(m, D), new)
           a == Assign(m, new)
           B == Bound(w, D)
           old == [p \in D |-> m.at[p]]
           u2 == Unbind(a, D)
           w2 == Write(u2, old)
           a2 == Assign(a, old)
<1>1. /\ IsMem(m) /\ IsMem(w) /\ IsMem(a) /\ w.at = a.at
      /\ a.level = m.level /\ a.score = m.score
      /\ \A p \in Places : a.at[p] = IF p \in D THEN new[p] ELSE m.at[p]
      /\ \A o \in Objects :
           /\ w.owner[o] = IF m.owner[o] \in D THEN NoPlace ELSE m.owner[o]
           /\ (\E p \in B : a.at[p] = o) => a.owner[o] \in B /\ a.at[a.owner[o]] = o
           /\ (\A p \in B : a.at[p] # o) => a.owner[o] = w.owner[o]
  BY AssignIs DEF Good
<1>2. D \subseteq Places /\ D \in SUBSET Places  BY DEF Fits
<1>3. DOMAIN old = D /\ \A p \in D : old[p] = m.at[p]  OBVIOUS
<1>4. a2 = Bind(w2, D)
  <2>1. a2 = Bind(Write(Unbind(a, DOMAIN old), old), DOMAIN old)  BY DEF Assign
  <2> QED  BY <1>3, <2>1
<1> HIDE DEF old, w, a, D
<1>5. Fits(old)
  <2>1. \A p \in D : p \notin Slots => \E v \in Values : p = Core(v)  BY <1>2, PlaceKinds
  <2> QED  BY <1>1, <1>2, <1>3, <2>1 DEF Fits, IsMem
<1>6. /\ IsMem(u2) /\ u2.at = a.at /\ u2.level = a.level /\ u2.score = a.score
      /\ \A o \in Objects : u2.owner[o] = IF a.owner[o] \in D /\ a.at[a.owner[o]] = o
                                          THEN NoPlace ELSE a.owner[o]
  BY <1>1, UnbindIs
<1> HIDE DEF u2
<1>7. /\ IsMem(w2) /\ w2.owner = u2.owner /\ w2.level = u2.level /\ w2.score = u2.score
      /\ \A p \in Places : w2.at[p] = IF p \in D THEN old[p] ELSE u2.at[p]
  BY <1>3, <1>5, <1>6, WriteIs
<1> HIDE DEF w2, a2
<1>8. /\ IsMem(a2) /\ a2.at = w2.at /\ a2.level = w2.level /\ a2.score = w2.score
      /\ \A o \in Objects :
           /\ (\E p \in Bound(w2, D) : w2.at[p] = o) =>
                a2.owner[o] \in Bound(w2, D) /\ w2.at[a2.owner[o]] = o
           /\ (\A p \in Bound(w2, D) : w2.at[p] # o) => a2.owner[o] = w2.owner[o]
  BY <1>2, <1>4, <1>7, BindIs
<1>9. \A p \in Places : w2.at[p] = m.at[p]  BY <1>1, <1>3, <1>6, <1>7
<1>10. ASSUME NEW o \in Objects
       PROVE  w2.owner[o] = IF m.owner[o] \in D THEN NoPlace ELSE m.owner[o]
  <2>1. CASE \E p \in B : a.at[p] = o
    <3>1. PICK p \in B : a.at[p] = o  BY <2>1
    <3>2. p \in D /\ w.owner[o] \in {NoPlace, p}  BY <1>1, <1>2, <3>1, BoundIs
    <3>3. w.owner[o] = NoPlace  BY <1>1, <3>2
    <3>4. a.owner[o] \in D /\ a.at[a.owner[o]] = o
      <4>1. a.owner[o] \in B /\ a.at[a.owner[o]] = o  BY <1>1, <2>1
      <4> QED  BY <4>1 DEF Bound
    <3> QED  BY <1>1, <1>6, <1>7, <3>3, <3>4
  <2>2. CASE \A p \in B : a.at[p] # o
    <3>1. a.owner[o] = w.owner[o] /\ w.owner[o] \notin D
      BY <1>1, <1>2, <2>2, PlaceKinds
    <3> QED  BY <1>1, <1>6, <1>7, <3>1
  <2> QED  BY <2>1, <2>2
<1>11. ~Refused(w2, D)
  <2>1. SUFFICES ASSUME NEW p \in D, Taken(w2, D, p) PROVE FALSE  BY DEF Refused
  <2>2. m.at[p] # Nil /\ m.at[p] \in Objects /\ m.owner[m.at[p]] = p
    <3>1. m.at[p] # Nil  BY <1>2, <1>9, <2>1 DEF Taken
    <3>2. p \in Places /\ m.at[p] \in Objects \union {Nil}  BY <1>1, <1>2, MemIs
    <3> QED  BY <3>1, <3>2 DEF Good, Consistent
  <2>3. w2.owner[w2.at[p]] = NoPlace  BY <1>2, <1>9, <1>10, <2>2
  <2>4. PICK q \in D : p[1] = "squad" /\ q[1] = "squad" /\ q[2] < p[2] /\ w2.at[q] = w2.at[p]
    BY <2>1, <2>3 DEF Taken
  <2>5. q = p  BY <1>2, <1>9, <2>2, <2>4 DEF Good, Consistent
  <2>6. p[2] \in Int
    <3>1. p \in Slots  BY <1>2, <2>4, PlaceKinds
    <3> QED  BY <2>4, <3>1, SlotKinds
  <2> QED  BY <2>4, <2>5, <2>6
<1>12. Bound(w2, D) = {p \in D : w2.at[p] # Nil}  BY <1>11, AllBound
<1>13. ASSUME NEW o \in Objects PROVE a2.owner[o] = m.owner[o]
  <2>1. CASE \E p \in Bound(w2, D) : w2.at[p] = o
    <3>1. a2.owner[o] \in D /\ m.at[a2.owner[o]] = o  BY <1>2, <1>8, <1>9, <1>12, <2>1
    <3> QED  BY <1>2, <3>1, ObjectKinds DEF Good, Consistent
  <2>2. CASE \A p \in Bound(w2, D) : w2.at[p] # o
    <3>1. a2.owner[o] = w2.owner[o]  BY <1>8, <2>2
    <3>2. m.owner[o] \notin D
      <4>1. SUFFICES ASSUME m.owner[o] \in D PROVE FALSE  OBVIOUS
      <4>2. m.at[m.owner[o]] = o  BY <1>2, <4>1, PlaceKinds DEF Good, Consistent
      <4> QED  BY <1>2, <1>9, <1>12, <2>2, <4>1, <4>2, ObjectKinds
    <3> QED  BY <1>10, <3>1, <3>2
  <2> QED  BY <2>1, <2>2
<1>14. a2.level = m.level /\ a2.score = m.score /\ \A p \in Places : a2.at[p] = m.at[p]
  BY <1>1, <1>6, <1>7, <1>8, <1>9
<1>15. a2 = m  BY <1>1, <1>8, <1>13, <1>14, SameMem
<1> QED  BY <1>15 DEF a2, old, a, D

-----------------------------------------------------------------------------
(* The undo log                                                             *)

Undos == [what : {"places"}, old : UNION {[D -> Objects \union {Nil}] : D \in SUBSET Places}]
         \union [what : {"level"}, of : Objects, old : Levels]
         \union [what : {"score"}, old : Levels]

\* What the object was before each of the setters that the log undoes, the last first.
Chain(ms, m, undo, before) ==
  /\ \A i \in 1 .. Len(undo) + 1 : IsMem(ms[i])
  /\ ms[1] = m /\ ms[Len(undo) + 1] = before
  /\ \A i \in 1 .. Len(undo) : ms[i + 1] = UndoOne(ms[i], undo[i])

Undoes(m, undo, before) == undo \in Seq(Undos) /\ \E ms : Chain(ms, m, undo, before)

LEMMA UndoesNothing ==
  ASSUME NEW m, IsMem(m)
  PROVE  Undoes(m, <<>>, m)
<1>1. Chain([i \in {1} |-> m], m, <<>>, m)  BY DEF Chain
<1> QED  BY <1>1 DEF Undoes

LEMMA UndoesOneMore ==
  ASSUME NEW m, NEW n, NEW undo, NEW before, NEW u \in Undos,
         Undoes(m, undo, before), IsMem(n), UndoOne(n, u) = m
  PROVE  Undoes(n, <<u>> \o undo, before)
<1> DEFINE more == <<u>> \o undo
<1>1. PICK ms : Chain(ms, m, undo, before)  BY DEF Undoes
<1>2. undo \in Seq(Undos) /\ Len(undo) \in Nat  BY DEF Undoes
<1>3. /\ more \in Seq(Undos) /\ Len(more) = Len(undo) + 1 /\ more[1] = u
      /\ \A i \in 1 .. Len(undo) : more[i + 1] = undo[i]
  BY <1>2
<1> HIDE DEF more
<1> DEFINE ns == [i \in 1 .. Len(more) + 1 |-> IF i = 1 THEN n ELSE ms[i - 1]]
<1>4. ns[1] = n /\ \A i \in 1 .. Len(undo) + 1 : ns[i + 1] = ms[i]  BY <1>2, <1>3
<1>5. \A i \in 1 .. Len(more) + 1 : i = 1 \/ (i - 1 \in 1 .. Len(undo) + 1 /\ i = (i - 1) + 1)
  BY <1>2, <1>3
<1> HIDE DEF ns
<1>6. \A i \in 1 .. Len(more) + 1 : IsMem(ns[i])  BY <1>1, <1>4, <1>5 DEF Chain
<1>7. ns[Len(more) + 1] = before
  <2>1. Len(undo) + 1 \in 1 .. Len(undo) + 1  BY <1>2
  <2> QED  BY <1>1, <1>3, <1>4, <2>1 DEF Chain
<1>8. ASSUME NEW i \in 1 .. Len(more) PROVE ns[i + 1] = UndoOne(ns[i], more[i])
  <2>1. CASE i = 1
    <3>1. ns[2] = m
      <4>1. ns[1 + 1] = ms[1] /\ 1 \in 1 .. Len(undo) + 1  BY <1>2, <1>4
      <4> QED  BY <1>1, <4>1 DEF Chain
    <3> QED  BY <1>3, <1>4, <2>1, <3>1
  <2>2. CASE i # 1
    <3> DEFINE j == i - 1
    <3>1. j \in 1 .. Len(undo) /\ i = j + 1 /\ j \in 1 .. Len(undo) + 1
          /\ j + 1 \in 1 .. Len(undo) + 1
      BY <1>2, <1>3, <2>2
    <3> HIDE DEF j
    <3>2. ns[(j + 1) + 1] = ms[j + 1] /\ ns[j + 1] = ms[j] /\ more[j + 1] = undo[j]
      BY <1>3, <1>4, <3>1
    <3> QED  BY <1>1, <3>1, <3>2 DEF Chain
  <2> QED  BY <2>1, <2>2
<1>9. Chain(ns, n, more, before)  BY <1>4, <1>6, <1>7, <1>8 DEF Chain
<1> QED  BY <1>3, <1>9 DEF Undoes, more

LEMMA UndoesOneLess ==
  ASSUME NEW m, NEW undo, NEW before, Undoes(m, undo, before), undo # <<>>
  PROVE  IsMem(UndoOne(m, Head(undo))) /\ Undoes(UndoOne(m, Head(undo)), Tail(undo), before)
<1>1. PICK ms : Chain(ms, m, undo, before)  BY DEF Undoes
<1>2. undo \in Seq(Undos) /\ Len(undo) \in Nat /\ Len(undo) > 0  BY DEF Undoes
<1> DEFINE less == Tail(undo)
<1>3. /\ less \in Seq(Undos) /\ Len(undo) = Len(less) + 1 /\ Head(undo) = undo[1] /\ Len(less) \in Nat
      /\ \A i \in 1 .. Len(less) : less[i] = undo[i + 1]
  BY <1>2
<1> HIDE DEF less
<1> DEFINE ns == [i \in 1 .. Len(less) + 1 |-> ms[i + 1]]
<1>4. \A i \in 1 .. Len(less) + 1 : ns[i] = ms[i + 1] /\ i + 1 \in 1 .. Len(undo) + 1
  BY <1>3
<1> HIDE DEF ns
<1>5. ms[2] = UndoOne(m, Head(undo))
  <2>1. 1 \in 1 .. Len(undo)  BY <1>2
  <2>2. ms[1 + 1] = UndoOne(ms[1], undo[1]) /\ ms[1] = m  BY <1>1, <2>1 DEF Chain
  <2> QED  BY <1>3, <2>2
<1>6. ns[1] = ms[2] /\ IsMem(ms[2])
  <2>1. 1 \in 1 .. Len(less) + 1  BY <1>3
  <2>2. ns[1] = ms[1 + 1] /\ 1 + 1 \in 1 .. Len(undo) + 1  BY <1>4, <2>1
  <2> QED  BY <1>1, <2>2 DEF Chain
<1>7. \A i \in 1 .. Len(less) + 1 : IsMem(ns[i])  BY <1>1, <1>4 DEF Chain
<1>8. ns[Len(less) + 1] = before
  <2>1. Len(less) + 1 \in 1 .. Len(less) + 1  BY <1>3
  <2> QED  BY <1>1, <1>3, <1>4, <2>1 DEF Chain
<1>9. ASSUME NEW i \in 1 .. Len(less) PROVE ns[i + 1] = UndoOne(ns[i], less[i])
  <2>1. i \in 1 .. Len(less) + 1 /\ i + 1 \in 1 .. Len(less) + 1 /\ i + 1 \in 1 .. Len(undo)
    BY <1>3
  <2>2. ms[(i + 1) + 1] = UndoOne(ms[i + 1], undo[i + 1])  BY <1>1, <2>1 DEF Chain
  <2> QED  BY <1>3, <1>4, <2>1, <2>2
<1>10. Chain(ns, ms[2], less, before)  BY <1>6, <1>7, <1>8, <1>9 DEF Chain
<1> QED  BY <1>3, <1>5, <1>6, <1>10 DEF Undoes, less

LEMMA UndoesAll ==
  ASSUME NEW m, NEW before, Undoes(m, <<>>, before)
  PROVE  m = before
<1>1. PICK ms : Chain(ms, m, <<>>, before)  BY DEF Undoes
<1> QED  BY <1>1 DEF Chain

-----------------------------------------------------------------------------
(* What the wire form of a place depends on                                 *)

LEMMA ContentOf ==
  ASSUME NEW m, NEW p \in Slots
  PROVE  /\ m.at[p] = Nil => Content(m, p) = Empty
         /\ m.at[p] # Nil => Content(m, p) =
              <<m.level[m.at[p]], IF m.at[Core(m.at[p])] = Nil THEN NoGem
                                  ELSE m.level[m.at[Core(m.at[p])]]>>
BY PlaceKinds DEF Content

LEMMA ContentWire ==
  ASSUME NEW m, IsMem(m), NEW p \in Paths
  PROVE  Content(m, p) \in Wire(p)
<1>1. CASE p = Score  BY <1>1, MemIs DEF Content, Wire
<1>2. CASE p \in Slots
  <2>1. CASE m.at[p] = Nil  BY <1>2, <2>1, ContentOf, PlaceKinds DEF Wire
  <2>2. CASE m.at[p] # Nil
    <3> DEFINE v == m.at[p]
               g == m.at[Core(v)]
    <3>1. v \in Values /\ v \in Objects  BY <1>2, <2>2, ObjectKinds DEF IsMem
    <3>2. g = Nil \/ g \in Objects  BY <3>1, ObjectKinds DEF IsMem
    <3> HIDE DEF g
    <3>3. m.level[v] \in Levels /\ (g # Nil => m.level[g] \in Levels)
      BY <3>1, <3>2, MemIs
    <3>4. Content(m, p) = <<m.level[v], IF g = Nil THEN NoGem ELSE m.level[g]>>
      BY <1>2, <2>2, ContentOf DEF g
    <3> HIDE DEF v
    <3> QED  BY <1>2, <3>3, <3>4, PlaceKinds DEF Wire
  <2> QED  BY <2>1, <2>2
<1> QED  BY <1>1, <1>2, PlaceKinds

\* The same value with the same gem, both as they were: the same content.
LEMMA SameContent ==
  ASSUME NEW m, NEW n, NEW p \in Slots, n.at[p] = m.at[p],
         m.at[p] # Nil => /\ n.at[Core(m.at[p])] = m.at[Core(m.at[p])]
                          /\ n.level[m.at[p]] = m.level[m.at[p]]
                          /\ m.at[Core(m.at[p])] # Nil =>
                               n.level[m.at[Core(m.at[p])]] = m.level[m.at[Core(m.at[p])]]
  PROVE  Content(n, p) = Content(m, p)
BY ContentOf

LEMMA SameScore ==
  ASSUME NEW m, NEW n, n.score = m.score
  PROVE  Content(n, Score) = Content(m, Score)
BY DEF Content
-----------------------------------------------------------------------------
(* Building an object: nothing is bound yet, no value is held twice         *)

LEMMA BindFresh ==
  ASSUME NEW m, IsMem(m), NEW ps \in SUBSET Places,
         \A o \in Objects : m.owner[o] = NoPlace,
         \A p \in Places : m.at[p] # Nil => p \in ps,
         \A p, q \in Places : m.at[p] # Nil /\ m.at[p] = m.at[q] => p = q
  PROVE  /\ Good(Bind(m, ps)) /\ Bind(m, ps).at = m.at
         /\ Bind(m, ps).level = m.level /\ Bind(m, ps).score = m.score
<1> DEFINE b == Bind(m, ps)
           B == Bound(m, ps)
<1>1. ~Refused(m, ps)
  <2>1. SUFFICES ASSUME NEW p \in ps, Taken(m, ps, p) PROVE FALSE  BY DEF Refused
  <2>2. p \in Places /\ m.at[p] # Nil /\ m.at[p] \in Objects  BY <2>1, MemIs DEF Taken
  <2>3. PICK q \in ps : p[1] = "squad" /\ q[2] < p[2] /\ m.at[q] = m.at[p]
    BY <2>1, <2>2 DEF Taken
  <2>4. q = p  BY <2>2, <2>3
  <2>5. p[2] \in Int
    <3>1. p \in Slots  BY <2>2, <2>3, PlaceKinds
    <3> QED  BY <2>3, <3>1, SlotKinds
  <2> QED  BY <2>3, <2>4, <2>5
<1>2. B = {p \in ps : m.at[p] # Nil}  BY <1>1, AllBound
<1>3. /\ IsMem(b) /\ b.at = m.at /\ b.level = m.level /\ b.score = m.score
      /\ \A o \in Objects :
           /\ (\E p \in B : m.at[p] = o) => b.owner[o] \in B /\ m.at[b.owner[o]] = o
           /\ (\A p \in B : m.at[p] # o) => b.owner[o] = m.owner[o]
  BY BindIs
<1> HIDE DEF b, B
<1>4. ASSUME NEW p \in Places, b.at[p] # Nil PROVE b.owner[b.at[p]] = p
  <2>1. b.at[p] = m.at[p] /\ m.at[p] # Nil  BY <1>3, <1>4
  <2>2. p \in B /\ m.at[p] \in Objects  BY <1>2, <2>1, MemIs
  <2>3. b.owner[m.at[p]] \in B /\ m.at[b.owner[m.at[p]]] = m.at[p]  BY <1>3, <2>2
  <2>4. b.owner[m.at[p]] = p  BY <1>2, <2>1, <2>3
  <2> QED  BY <2>1, <2>4
<1>5. ASSUME NEW o \in Objects, b.owner[o] # NoPlace PROVE b.at[b.owner[o]] = o
  BY <1>3, <1>5
<1> QED  BY <1>3, <1>4, <1>5 DEF Good, Consistent, b

LEMMA BlankIs ==
  /\ IsMem(Blank) /\ Good(Bind(Blank, Slots)) /\ IsMem(Bind(Blank, Slots))
  /\ \A p \in Paths : Content(Blank, p) \in Wire(p)
<1>1. IsMem(Blank)
  <2> DEFINE at == [p \in Places |-> Nil]
             level == [o \in Objects |-> 0]
             none == [o \in Objects |-> NoPlace]
  <2>1. /\ at \in [Places -> Objects \union {Nil}] /\ level \in [Objects -> Levels]
        /\ none \in [Objects -> Places \union {NoPlace}] /\ 0 \in Levels
    BY DEF Levels
  <2>2. \A p \in Places : at[p] = Nil  OBVIOUS
  <2>3. Blank = [at |-> at, level |-> level, score |-> 0, owner |-> none]  BY DEF Blank
  <2> HIDE DEF at, level, none
  <2> QED  BY <2>1, <2>2, <2>3, PlaceKinds DEF IsMem
<1>2. /\ \A o \in Objects : Blank.owner[o] = NoPlace
      /\ \A p \in Places : Blank.at[p] = Nil
  BY DEF Blank
<1>3. Slots \in SUBSET Places  BY DEF Places
<1>4. Good(Bind(Blank, Slots))
  <2> HIDE DEF Blank
  <2> QED  BY <1>1, <1>2, <1>3, BindFresh
<1> QED  BY <1>1, <1>4, ContentWire DEF Good

\* RestoreRollbackState: an object that holds what it held, with the values as they were.
LEMMA RestoredIs ==
  ASSUME Good(tx.before)
  PROVE  Good(Restored) /\ \A p \in Paths : Content(Restored, p) = Content(tx.before, p)
<1> DEFINE b == tx.before
           kept == Reachable(b)
           at == [p \in Places |-> IF p \in Slots \/ p[2] \in kept THEN b.at[p] ELSE Nil]
           level == [o \in Objects |-> IF o \in kept THEN b.level[o] ELSE 0]
           none == [o \in Objects |-> NoPlace]
           m == [at |-> at, level |-> level, score |-> b.score, owner |-> none]
<1>1. Restored = Bind(m, Places)  BY DEF Restored, Blank
<1>2. /\ \A p \in Places : at[p] = IF p \in Slots \/ p[2] \in kept THEN b.at[p] ELSE Nil
      /\ \A o \in Objects : level[o] = IF o \in kept THEN b.level[o] ELSE 0
      /\ \A o \in Objects : none[o] = NoPlace
  OBVIOUS
<1>3. IsMem(b)  BY DEF Good
<1>4. /\ \A p \in Slots : b.at[p] # Nil =>
           /\ b.at[p] \in kept
           /\ b.at[Core(b.at[p])] # Nil => b.at[Core(b.at[p])] \in kept
      /\ 0 \in Levels
  BY DEF Reachable, Levels
<1> HIDE DEF b, kept
<1>5. /\ at \in [Places -> Objects \union {Nil}] /\ level \in [Objects -> Levels]
       /\ none \in [Objects -> Places \union {NoPlace}] /\ b.score \in Levels
  BY <1>3, <1>4, MemIs
<1> HIDE DEF at, level, none
<1>6. /\ \A p \in Slots : at[p] = b.at[p]
      /\ \A v \in Values : at[Core(v)] \in {b.at[Core(v)], Nil}
      /\ \A v \in Values : v \in kept => at[Core(v)] = b.at[Core(v)]
  BY <1>2, PlaceKinds
<1>7. IsMem(m)
  <2>1. \A v \in Values : at[Core(v)] \in Gems \union {Nil}
    BY <1>6 DEF b, Good, IsMem
  <2>2. \A p \in Slots : at[p] \in Values \union {Nil}  BY <1>6 DEF b, Good, IsMem
  <2> QED  BY <1>5, <2>1, <2>2 DEF IsMem
<1>8. \A p, q \in Places : m.at[p] # Nil /\ m.at[p] = m.at[q] => p = q
  <2>1. \A p \in Places : at[p] # Nil => at[p] = b.at[p] /\ b.owner[at[p]] = p
    BY <1>2 DEF b, Good, Consistent
  <2> QED  BY <2>1
<1>9. \A o \in Objects : m.owner[o] = NoPlace  BY <1>2
<1>10. /\ Good(Restored) /\ Restored.at = at /\ Restored.level = level /\ Restored.score = b.score
  <2>1. m.at = at /\ m.level = level /\ m.score = b.score  OBVIOUS
  <2> HIDE DEF m
  <2> QED  BY <1>1, <1>7, <1>8, <1>9, <2>1, BindFresh
<1>11. ASSUME NEW p \in Slots PROVE Content(Restored, p) = Content(b, p)
  <2>1. CASE b.at[p] = Nil  BY <1>6, <1>10, <2>1, ContentOf
  <2>2. CASE b.at[p] # Nil
    <3>1. b.at[p] \in Values /\ b.at[p] \in Objects /\ b.at[p] \in kept
      BY <1>4, <2>2, ObjectKinds DEF b, Good, IsMem
    <3>2. Restored.at[Core(b.at[p])] = b.at[Core(b.at[p])]  BY <1>6, <1>10, <3>1
    <3>3. b.at[Core(b.at[p])] # Nil =>
            b.at[Core(b.at[p])] \in Objects /\ b.at[Core(b.at[p])] \in kept
      BY <1>4, <2>2, <3>1, ObjectKinds DEF b, Good, IsMem
    <3>4. Restored.at[p] = b.at[p]  BY <1>6, <1>10
    <3>5. \A o \in kept : o \in Objects => Restored.level[o] = b.level[o]  BY <1>2, <1>10
    <3> QED  BY <3>1, <3>2, <3>3, <3>4, <3>5, SameContent
  <2> QED  BY <2>1, <2>2
<1>12. Content(Restored, Score) = Content(b, Score)  BY <1>10, SameScore
<1> QED  BY <1>10, <1>11, <1>12, PlaceKinds DEF b
\* What Unmarshal builds says what the document says.
LEMMA UnmarshalIs ==
  ASSUME NEW doc, DOMAIN doc \subseteq Paths, \A p \in DOMAIN doc : doc[p] \in Wire(p),
         Unmarshal(doc)
  PROVE  Good(mem') /\ \A p \in DOMAIN doc : Content(mem', p) = doc[p]
<1> DEFINE filled == {p \in Slots \intersect DOMAIN doc : doc[p] # Empty}
           cored == {p \in filled : doc[p][2] # NoGem}
           In(at, core, o) == {p \in filled : at[p] = o} \union {p \in cored : core[p] = o}
           Level(at, core, o) == LET p == CHOOSE q \in In(at, core, o) : TRUE
                                 IN doc[p][IF o \in Gems THEN 2 ELSE 1]
           Gem(at, core, v) == LET ps == {p \in cored : at[p] = v}
                               IN IF ps = {} THEN Nil ELSE core[CHOOSE p \in ps : TRUE]
           AtOf(at, core) == [p \in Places |-> IF p \in filled THEN at[p]
                                               ELSE IF p \in Slots THEN Nil
                                               ELSE Gem(at, core, p[2])]
           LevelOf(at, core) == [o \in Objects |-> IF In(at, core, o) = {} THEN 0
                                                   ELSE Level(at, core, o)]
           score == IF Score \in DOMAIN doc THEN doc[Score][1] ELSE 0
           none == [o \in Objects |-> NoPlace]
<1>1. PICK at \in [filled -> Values] : \E core \in [cored -> Gems] :
        /\ IsInjective(at) /\ IsInjective(core)
        /\ mem' = Bind([at |-> AtOf(at, core), level |-> LevelOf(at, core), score |-> score,
                        owner |-> none], Places)
  BY DEF Unmarshal, Blank
<1>2. PICK core \in [cored -> Gems] :
        /\ IsInjective(at) /\ IsInjective(core)
        /\ mem' = Bind([at |-> AtOf(at, core), level |-> LevelOf(at, core), score |-> score,
                        owner |-> none], Places)
  BY <1>1
<1> DEFINE a == AtOf(at, core)
           l == LevelOf(at, core)
           m == [at |-> a, level |-> l, score |-> score, owner |-> none]
<1>3. /\ \A p, q \in filled : at[p] = at[q] => p = q
      /\ \A p, q \in cored : core[p] = core[q] => p = q
  BY <1>2 DEF IsInjective
<1>4. filled \subseteq Slots /\ cored \subseteq filled  OBVIOUS
<1>5. \A p \in filled : /\ doc[p][1] \in Levels
                        /\ p \in cored => doc[p][2] \in Levels
                        /\ p \notin cored => doc[p][2] = NoGem
                        /\ doc[p] = <<doc[p][1], doc[p][2]>>
  BY PlaceKinds DEF Wire
<1>6. score \in Levels /\ (Score \in DOMAIN doc => doc[Score] = <<score>>)
  BY PlaceKinds DEF Wire, Levels
<1>7. \A p \in Slots \intersect DOMAIN doc : p \notin filled => doc[p] = Empty  OBVIOUS
<1> HIDE DEF filled, cored, score
<1>8. ASSUME NEW p \in filled
      PROVE  In(at, core, at[p]) = {p} /\ Level(at, core, at[p]) = doc[p][1] /\ at[p] \in Values
  <2>1. at[p] \in Values /\ at[p] \notin Gems  BY <1>1, ObjectKinds
  <2>2. \A q \in cored : core[q] # at[p]  BY <1>2, <2>1
  <2>3. In(at, core, at[p]) = {p}  BY <1>3, <2>2
  <2> QED  BY <2>1, <2>3
<1>9. ASSUME NEW p \in cored
      PROVE  In(at, core, core[p]) = {p} /\ Level(at, core, core[p]) = doc[p][2] /\ core[p] \in Gems
  <2>1. core[p] \in Gems /\ core[p] \notin Values  BY <1>2, ObjectKinds
  <2>2. \A q \in filled : at[q] # core[p]  BY <1>1, <2>1
  <2>3. In(at, core, core[p]) = {p}  BY <1>3, <2>2
  <2> QED  BY <2>1, <2>3
<1>10. /\ \A p \in cored : Gem(at, core, at[p]) = core[p]
       /\ \A p \in filled \ cored : Gem(at, core, at[p]) = Nil
       /\ \A v \in Values : Gem(at, core, v) = Nil
            \/ \E p \in cored : at[p] = v /\ Gem(at, core, v) = core[p]
  <2>1. \A p \in cored : {q \in cored : at[q] = at[p]} = {p}  BY <1>3, <1>4
  <2>2. \A p \in filled \ cored : {q \in cored : at[q] = at[p]} = {}  BY <1>3, <1>4
  <2>3. ASSUME NEW v \in Values
        PROVE  Gem(at, core, v) = Nil \/ \E p \in cored : at[p] = v /\ Gem(at, core, v) = core[p]
    <3> DEFINE ps == {p \in cored : at[p] = v}
    <3>1. CASE ps = {}  BY <3>1
    <3>2. CASE ps # {}
      <4>1. (CHOOSE p \in ps : TRUE) \in ps  BY <3>2
      <4> QED  BY <3>2, <4>1
    <3> QED  BY <3>1, <3>2
  <2> QED  BY <2>1, <2>2, <2>3
<1>11. /\ \A p \in filled : a[p] = at[p]
       /\ \A p \in Slots : p \notin filled => a[p] = Nil
       /\ \A v \in Values : a[Core(v)] = Gem(at, core, v)
  BY <1>4, PlaceKinds
<1>12. \A o \in Objects : l[o] = IF In(at, core, o) = {} THEN 0 ELSE Level(at, core, o)
  OBVIOUS
<1>13. a \in [Places -> Objects \union {Nil}]
  <2>1. \A p \in Places : a[p] \in Objects \union {Nil}
    BY <1>1, <1>2, <1>10, <1>11, PlaceKinds, ObjectKinds
  <2>2. a = [p \in Places |-> a[p]]  OBVIOUS
  <2> HIDE DEF a
  <2> QED  BY <2>1, <2>2
<1>14. l \in [Objects -> Levels]
  <2>1. ASSUME NEW o \in Objects PROVE l[o] \in Levels
    <3>1. CASE In(at, core, o) = {}  BY <1>12, <3>1 DEF Levels
    <3>2. CASE \E p \in filled : at[p] = o
      <4>1. PICK p \in filled : at[p] = o  BY <3>2
      <4> QED  BY <1>5, <1>8, <1>12, <4>1
    <3>3. CASE \E p \in cored : core[p] = o
      <4>1. PICK p \in cored : core[p] = o  BY <3>3
      <4> QED  BY <1>4, <1>5, <1>9, <1>12, <4>1
    <3> QED  BY <3>1, <3>2, <3>3
  <2>2. l = [o \in Objects |-> l[o]]  OBVIOUS
  <2> HIDE DEF l
  <2> QED  BY <2>1, <2>2
<1>15. /\ none \in [Objects -> Places \union {NoPlace}]
       /\ \A o \in Objects : none[o] = NoPlace
  OBVIOUS
<1> HIDE DEF a, l, none, In, Level
<1>16. IsMem(m)
  <2>1. \A p \in Slots : a[p] \in Values \union {Nil}  BY <1>8, <1>11
  <2>2. \A v \in Values : a[Core(v)] \in Gems \union {Nil}  BY <1>9, <1>10, <1>11
  <2> QED  BY <1>6, <1>13, <1>14, <1>15, <2>1, <2>2 DEF IsMem
<1>17. \A p, q \in Places : a[p] # Nil /\ a[p] = a[q] => p = q
  <2>1. SUFFICES ASSUME NEW p \in Places, NEW q \in Places, a[p] # Nil, a[p] = a[q] PROVE p = q
    OBVIOUS
  <2>2. CASE p \in Slots
    <3>1. p \in filled /\ a[p] = at[p] /\ a[p] \in Values  BY <1>8, <1>11, <2>1, <2>2
    <3>2. q \in Slots
      <4>1. ASSUME NEW v \in Values PROVE a[Core(v)] \notin Values
        <5>1. a[Core(v)] = Nil \/ \E r \in cored : a[Core(v)] = core[r]  BY <1>10, <1>11
        <5> QED  BY <1>9, <5>1, ObjectKinds
      <4>2. a[q] \in Values  BY <2>1, <3>1
      <4>3. \A v \in Values : q # Core(v)  BY <4>1, <4>2
      <4> QED  BY <4>3, PlaceKinds
    <3>3. q \in filled /\ a[q] = at[q]  BY <1>11, <2>1, <3>2
    <3> QED  BY <1>3, <2>1, <3>1, <3>3
  <2>3. CASE p \notin Slots
    <3>1. PICK v \in Values : p = Core(v)  BY <2>3, PlaceKinds
    <3>2. PICK r \in cored : at[r] = v /\ a[p] = core[r]  BY <1>10, <1>11, <2>1, <3>1
    <3>3. a[p] \in Gems  BY <1>9, <3>2
    <3>4. q \notin Slots
      <4>1. \A x \in Slots : a[x] \notin Gems  BY <1>8, <1>11, ObjectKinds
      <4> QED  BY <2>1, <3>3, <4>1
    <3>5. PICK w \in Values : q = Core(w)  BY <3>4, PlaceKinds
    <3>6. PICK s \in cored : at[s] = w /\ a[q] = core[s]  BY <1>10, <1>11, <2>1, <3>5
    <3> QED  BY <1>3, <2>1, <3>1, <3>2, <3>5, <3>6
  <2> QED  BY <2>2, <2>3
<1>18. Good(mem') /\ mem'.at = a /\ mem'.level = l /\ mem'.score = score
  <2>1. mem' = Bind(m, Places) /\ m.at = a /\ m.level = l /\ m.score = score /\ m.owner = none
    BY <1>2 DEF a, l, none
  <2> HIDE DEF m
  <2> QED  BY <1>15, <1>16, <1>17, <2>1, BindFresh
<1> DEFINE n == mem'
<1>19. n.at = a /\ n.level = l /\ n.score = score  BY <1>18
<1> HIDE DEF n
<1>20. ASSUME NEW p \in Slots \intersect DOMAIN doc PROVE Content(n, p) = doc[p]
  <2>1. CASE p \notin filled  BY <1>7, <1>11, <1>19, <2>1, ContentOf
  <2>2. CASE p \in filled
    <3>1. n.at[p] = at[p] /\ at[p] # Nil /\ at[p] \in Values /\ at[p] \in Objects
      BY <1>8, <1>11, <1>19, <2>2, ObjectKinds
    <3>2. n.level[at[p]] = doc[p][1]  BY <1>8, <1>12, <1>19, <2>2, <3>1
    <3>3. CASE p \in cored
      <4>1. n.at[Core(at[p])] = core[p] /\ core[p] # Nil /\ core[p] \in Objects
        BY <1>9, <1>10, <1>11, <1>19, <3>1, <3>3, ObjectKinds
      <4>2. n.level[core[p]] = doc[p][2]  BY <1>9, <1>12, <1>19, <3>3, <4>1
      <4> QED  BY <1>5, <2>2, <3>1, <3>2, <4>1, <4>2, ContentOf
    <3>4. CASE p \notin cored
      <4>1. n.at[Core(at[p])] = Nil  BY <1>10, <1>11, <1>19, <2>2, <3>1, <3>4
      <4> QED  BY <1>5, <2>2, <3>1, <3>2, <3>4, <4>1, ContentOf
    <3> QED  BY <3>3, <3>4
  <2> QED  BY <2>1, <2>2
<1>21. Score \in DOMAIN doc => Content(n, Score) = doc[Score]  BY <1>6, <1>19 DEF Content
<1> QED  BY <1>18, <1>20, <1>21, PlaceKinds DEF n
-----------------------------------------------------------------------------
(* Where a value reports                                                    *)

LEMMA RootIs ==
  ASSUME NEW m, Good(m), NEW o \in Objects
  PROVE  /\ Root(m, o) \in Slots \union {NoPlace}
         /\ Root(m, o) # NoPlace => Holder(m, o) \in Values /\ m.at[Root(m, o)] = Holder(m, o)
         /\ \A p \in Slots : m.at[p] = o => Root(m, o) = p
         /\ \A p \in Slots : m.at[p] # Nil /\ m.at[Core(m.at[p])] = o => Root(m, o) = p
<1>1. /\ \A p \in Places : m.at[p] # Nil => m.owner[m.at[p]] = p
      /\ \A x \in Objects : m.owner[x] \in Places \union {NoPlace}
      /\ \A x \in Objects : m.owner[x] # NoPlace => m.at[m.owner[x]] = x
  BY MemIs DEF Good, Consistent
<1>2. /\ \A p \in Slots : m.at[p] \in Values \union {Nil}
      /\ \A v \in Values : m.at[Core(v)] \in Gems \union {Nil}
  BY DEF Good, IsMem
<1>3. \A v \in Values : m.owner[v] \in Slots \union {NoPlace}
  BY <1>1, <1>2, PlaceKinds, ObjectKinds
<1>4. \A p \in Slots \union {NoPlace} : p[1] # "core"  BY PlaceKinds
<1>5. CASE o \in Values
  <2>1. Holder(m, o) = o /\ Root(m, o) = m.owner[o]  BY <1>3, <1>4, <1>5 DEF Holder, Root
  <2>2. \A p \in Slots : m.at[p] # Nil => m.at[Core(m.at[p])] # o
    BY <1>2, <1>5, ObjectKinds
  <2>3. \A p \in Slots : m.at[p] = o => m.owner[o] = p  BY <1>1, <1>5, PlaceKinds, ObjectKinds
  <2> QED  BY <1>1, <1>3, <1>5, <2>1, <2>2, <2>3
<1>6. CASE o \in Gems
  <2>1. m.owner[o] = NoPlace \/ \E v \in Values : m.owner[o] = Core(v)
    BY <1>1, <1>2, <1>6, PlaceKinds, ObjectKinds
  <2>2. \A p \in Slots : m.at[p] # o  BY <1>2, <1>6, ObjectKinds
  <2>3. CASE m.owner[o] = NoPlace
    <3>1. Root(m, o) = NoPlace  BY <2>3, PlaceKinds DEF Holder, Root
    <3>2. \A p \in Slots : m.at[p] # Nil => m.at[Core(m.at[p])] # o
      BY <1>1, <1>2, <2>3, PlaceKinds, ObjectKinds
    <3> QED  BY <2>2, <3>1, <3>2
  <2>4. ASSUME NEW v \in Values, m.owner[o] = Core(v)
        PROVE  /\ Root(m, o) \in Slots \union {NoPlace}
               /\ Root(m, o) # NoPlace => Holder(m, o) \in Values /\ m.at[Root(m, o)] = Holder(m, o)
               /\ \A p \in Slots : m.at[p] # Nil /\ m.at[Core(m.at[p])] = o => Root(m, o) = p
    <3>1. Holder(m, o) = v /\ Root(m, o) = m.owner[v]
      BY <2>4, PlaceKinds DEF Holder, Root
    <3>2. Root(m, o) # NoPlace => m.at[Root(m, o)] = v  BY <1>1, <3>1, ObjectKinds
    <3>3. ASSUME NEW p \in Slots, m.at[p] # Nil, m.at[Core(m.at[p])] = o PROVE Root(m, o) = p
      <4>1. m.at[p] \in Values /\ m.owner[m.at[p]] = p  BY <1>1, <1>2, <3>3, PlaceKinds
      <4>2. Core(m.at[p]) \in Places  BY <4>1, PlaceKinds
      <4>3. m.owner[o] = Core(m.at[p])  BY <1>1, <3>3, <4>2, ObjectKinds
      <4>4. m.at[p] = v  BY <2>4, <4>1, <4>3, PlaceKinds
      <4> QED  BY <3>1, <4>1, <4>4
    <3> QED  BY <1>3, <3>1, <3>2, <3>3
  <2> QED  BY <2>1, <2>2, <2>3, <2>4
<1> QED  BY <1>5, <1>6, ObjectKinds

-----------------------------------------------------------------------------
(* What a transaction has to write                                          *)

Entries == {p \in Slots : p[1] = "equips"}

\* The marks agree with the object: a key that was set is there, one that was unset is not.
ChangeOK(c, m) ==
  /\ c \in [mask : SUBSET Persist, set : UNION {[D -> Values] : D \in SUBSET Entries},
            unset : SUBSET Entries, full : BOOLEAN, delete : {FALSE}]
  /\ DOMAIN c.set \intersect c.unset = {}
  /\ \A p \in DOMAIN c.set \union c.unset : p[2] \in PathKeys
  /\ \A p \in DOMAIN c.set : m.at[p] = c.set[p]
  /\ \A p \in c.unset : m.at[p] = Nil
  /\ "equips" \in c.mask <=> (c.full \/ DOMAIN c.set \union c.unset # {})

\* The mutation will carry this path.
Marked(c, p) ==
  /\ p[1] \in c.mask
  /\ p[1] = "equips" => c.full \/ p \in DOMAIN c.set \union c.unset

LEMMA ChangeIs ==
  ASSUME NEW c, NEW m, ChangeOK(c, m)
  PROVE  /\ c = [mask |-> c.mask, set |-> c.set, unset |-> c.unset, full |-> c.full,
                 delete |-> c.delete]
         /\ c.mask \subseteq Persist /\ c.unset \subseteq Entries /\ c.full \in BOOLEAN
         /\ c.delete = FALSE
         /\ DOMAIN c.set \subseteq Entries /\ c.set = [p \in DOMAIN c.set |-> c.set[p]]
         /\ \A p \in DOMAIN c.set : c.set[p] \in Values
<1>1. /\ c.mask \in SUBSET Persist /\ c.unset \in SUBSET Entries /\ c.full \in BOOLEAN
      /\ c.delete \in {FALSE} /\ c.set \in UNION {[D -> Values] : D \in SUBSET Entries}
      /\ c = [mask |-> c.mask, set |-> c.set, unset |-> c.unset, full |-> c.full,
              delete |-> c.delete]
  BY DEF ChangeOK
<1>2. PICK D \in SUBSET Entries : c.set \in [D -> Values]  BY <1>1
<1> QED  BY <1>1, <1>2

LEMMA NoChangeOK ==
  ASSUME NEW m
  PROVE  ChangeOK(NoChange, m) /\ \A p \in Paths : ~Marked(NoChange, p)
<1>1. <<>> \in [{} -> Values] /\ DOMAIN <<>> = {}  OBVIOUS
<1>2. <<>> \in UNION {[D -> Values] : D \in SUBSET Entries}  BY <1>1
<1> QED  BY <1>1, <1>2 DEF ChangeOK, NoChange, Marked

LEMMA MarkFieldIs ==
  ASSUME NEW m, NEW n, NEW c, ChangeOK(c, m), NEW f \in Fields, f # "equips",
         \A p \in Entries : n.at[p] = m.at[p]
  PROVE  /\ ChangeOK(MarkField(c, f), n)
         /\ \A p \in Paths : Marked(c, p) => Marked(MarkField(c, f), p)
         /\ \A p \in Paths : p[1] = f /\ f \in Persist => Marked(MarkField(c, f), p)
<1> DEFINE d == MarkField(c, f)
<1>1. /\ c = [mask |-> c.mask, set |-> c.set, unset |-> c.unset, full |-> c.full,
              delete |-> c.delete]
      /\ DOMAIN c.set \subseteq Entries /\ c.unset \subseteq Entries
  BY ChangeIs
<1>2. /\ d.mask = c.mask \union ({f} \intersect Persist) /\ d.set = c.set /\ d.unset = c.unset
      /\ d.full = c.full
      /\ d \in [mask : SUBSET Persist, set : UNION {[D -> Values] : D \in SUBSET Entries},
                unset : SUBSET Entries, full : BOOLEAN, delete : {FALSE}]
  <2>1. CASE f \in Persist
    <3>1. d = [c EXCEPT !.mask = @ \union {f}]  BY <2>1 DEF MarkField
    <3>2. d = [mask |-> c.mask \union {f}, set |-> c.set, unset |-> c.unset, full |-> c.full,
               delete |-> c.delete]
      BY <1>1, <3>1
    <3> HIDE DEF d
    <3>3. d.mask = c.mask \union {f} /\ c.mask \union {f} \subseteq Persist
      BY <2>1, <3>2, ChangeIs
    <3> QED  BY <2>1, <3>2, <3>3 DEF ChangeOK
  <2>2. CASE f \notin Persist
    <3>1. d = c  BY <2>2 DEF MarkField
    <3> HIDE DEF d
    <3>2. c.mask = c.mask \union ({f} \intersect Persist)  BY <2>2
    <3> QED  BY <3>1, <3>2 DEF ChangeOK
  <2> QED  BY <2>1, <2>2
<1> HIDE DEF d
<1>3. ChangeOK(d, n)  BY <1>1, <1>2 DEF ChangeOK
<1>4. \A p \in Paths : Marked(c, p) \/ (p[1] = f /\ f \in Persist) => Marked(d, p)
  BY <1>2 DEF Marked
<1> QED  BY <1>3, <1>4 DEF d

LEMMA MarkKeyDirtyIs ==
  ASSUME NEW m, NEW n, NEW c, ChangeOK(c, m), NEW p \in Entries, NEW v \in Values, n.at[p] = v,
         \A q \in Entries : q # p => n.at[q] = m.at[q]
  PROVE  /\ ChangeOK(MarkKeyDirty(c, p, v), n) /\ Marked(MarkKeyDirty(c, p, v), p)
         /\ \A q \in Paths : Marked(c, q) => Marked(MarkKeyDirty(c, p, v), q)
<1> DEFINE d == MarkKeyDirty(c, p, v)
           set == [q \in DOMAIN c.set \union {p} |-> IF q = p THEN v ELSE c.set[q]]
<1>1. /\ c = [mask |-> c.mask, set |-> c.set, unset |-> c.unset, full |-> c.full,
              delete |-> c.delete]
      /\ c.mask \subseteq Persist /\ c.unset \subseteq Entries /\ c.full \in BOOLEAN
      /\ c.delete = FALSE
      /\ DOMAIN c.set \subseteq Entries /\ c.set = [q \in DOMAIN c.set |-> c.set[q]]
      /\ \A q \in DOMAIN c.set : c.set[q] \in Values
  BY ChangeIs
<1>2. "equips" \in Persist /\ p[1] = "equips"  BY DaoAssumption DEF Entries
<1>3. CASE p[2] \in PathKeys
  <2>1. d = [c EXCEPT !.mask = @ \union {"equips"}, !.unset = @ \ {p}, !.set = set]
    BY <1>3 DEF MarkKeyDirty
  <2>2. set \in UNION {[D -> Values] : D \in SUBSET Entries}
    <3>1. set \in [DOMAIN c.set \union {p} -> Values]  BY <1>1
    <3>2. DOMAIN c.set \union {p} \in SUBSET Entries  BY <1>1
    <3> HIDE DEF set
    <3> QED  BY <3>1, <3>2
  <2>3. /\ DOMAIN set = DOMAIN c.set \union {p} /\ set[p] = v
        /\ \A q \in DOMAIN c.set : q # p => set[q] = c.set[q]
    OBVIOUS
  <2> HIDE DEF set
  <2>4. d = [mask |-> c.mask \union {"equips"}, set |-> set, unset |-> c.unset \ {p},
             full |-> c.full, delete |-> c.delete]
    BY <1>1, <2>1
  <2> HIDE DEF d
  <2>5. ChangeOK(d, n)
    <3>1. d \in [mask : SUBSET Persist, set : UNION {[D -> Values] : D \in SUBSET Entries},
                 unset : SUBSET Entries, full : BOOLEAN, delete : {FALSE}]
      BY <1>1, <1>2, <2>2, <2>4
    <3>2. /\ DOMAIN d.set \intersect d.unset = {}
          /\ \A q \in DOMAIN d.set \union d.unset : q[2] \in PathKeys
      BY <1>3, <2>3, <2>4 DEF ChangeOK
    <3>3. /\ \A q \in DOMAIN d.set : n.at[q] = d.set[q]
          /\ \A q \in d.unset : n.at[q] = Nil
      BY <1>1, <2>3, <2>4 DEF ChangeOK
    <3>4. "equips" \in d.mask /\ DOMAIN d.set \union d.unset # {}  BY <2>3, <2>4
    <3> QED  BY <3>1, <3>2, <3>3, <3>4 DEF ChangeOK
  <2>6. Marked(d, p) /\ \A q \in Paths : Marked(c, q) => Marked(d, q)
    BY <1>2, <2>3, <2>4 DEF Marked
  <2> QED  BY <2>5, <2>6 DEF d
<1>4. CASE p[2] \notin PathKeys
  <2>1. d = [c EXCEPT !.mask = @ \union {"equips"}, !.full = TRUE]
    BY <1>4 DEF MarkKeyDirty
  <2>2. d = [mask |-> c.mask \union {"equips"}, set |-> c.set, unset |-> c.unset,
             full |-> TRUE, delete |-> c.delete]
    BY <1>1, <2>1
  <2> HIDE DEF d
  <2>3. ChangeOK(d, n)
    <3>1. d \in [mask : SUBSET Persist, set : UNION {[D -> Values] : D \in SUBSET Entries},
                 unset : SUBSET Entries, full : BOOLEAN, delete : {FALSE}]
      BY <1>1, <1>2, <2>2 DEF ChangeOK
    <3>2. p \notin DOMAIN c.set \union c.unset  BY <1>4 DEF ChangeOK
    <3> QED  BY <1>1, <2>2, <3>1, <3>2 DEF ChangeOK
  <2>4. Marked(d, p) /\ \A q \in Paths : Marked(c, q) => Marked(d, q)
    BY <1>2, <2>2 DEF Marked
  <2> QED  BY <2>3, <2>4 DEF d
<1> QED  BY <1>3, <1>4

LEMMA MarkKeyDeletedIs ==
  ASSUME NEW m, NEW n, NEW c, ChangeOK(c, m), NEW p \in Entries, n.at[p] = Nil,
         \A q \in Entries : q # p => n.at[q] = m.at[q]
  PROVE  /\ ChangeOK(MarkKeyDeleted(c, p), n)
         /\ \A q \in Paths : q = p \/ Marked(c, q) => Marked(MarkKeyDeleted(c, p), q)
<1> DEFINE d == MarkKeyDeleted(c, p)
           set == [q \in DOMAIN c.set \ {p} |-> c.set[q]]
<1>1. /\ c = [mask |-> c.mask, set |-> c.set, unset |-> c.unset, full |-> c.full,
              delete |-> c.delete]
      /\ c.mask \subseteq Persist /\ c.unset \subseteq Entries /\ c.full \in BOOLEAN
      /\ c.delete = FALSE
      /\ DOMAIN c.set \subseteq Entries /\ c.set = [q \in DOMAIN c.set |-> c.set[q]]
      /\ \A q \in DOMAIN c.set : c.set[q] \in Values
  BY ChangeIs
<1>2. "equips" \in Persist /\ p[1] = "equips"  BY DaoAssumption DEF Entries
<1>3. CASE p[2] \in PathKeys
  <2>1. d = [c EXCEPT !.mask = @ \union {"equips"}, !.unset = @ \union {p}, !.set = set]
    BY <1>3 DEF MarkKeyDeleted
  <2>2. set \in UNION {[D -> Values] : D \in SUBSET Entries}
    <3>1. set \in [DOMAIN c.set \ {p} -> Values]  BY <1>1
    <3>2. DOMAIN c.set \ {p} \in SUBSET Entries  BY <1>1
    <3> HIDE DEF set
    <3> QED  BY <3>1, <3>2
  <2>3. DOMAIN set = DOMAIN c.set \ {p} /\ \A q \in DOMAIN c.set : q # p => set[q] = c.set[q]
    OBVIOUS
  <2> HIDE DEF set
  <2>4. d = [mask |-> c.mask \union {"equips"}, set |-> set, unset |-> c.unset \union {p},
             full |-> c.full, delete |-> c.delete]
    BY <1>1, <2>1
  <2> HIDE DEF d
  <2>5. ChangeOK(d, n)
    <3>1. d \in [mask : SUBSET Persist, set : UNION {[D -> Values] : D \in SUBSET Entries},
                 unset : SUBSET Entries, full : BOOLEAN, delete : {FALSE}]
      BY <1>1, <1>2, <2>2, <2>4
    <3>2. /\ DOMAIN d.set \intersect d.unset = {}
          /\ \A q \in DOMAIN d.set \union d.unset : q[2] \in PathKeys
      BY <1>3, <2>3, <2>4 DEF ChangeOK
    <3>3. /\ \A q \in DOMAIN d.set : n.at[q] = d.set[q]
          /\ \A q \in d.unset : n.at[q] = Nil
      BY <1>1, <2>3, <2>4 DEF ChangeOK
    <3>4. "equips" \in d.mask /\ DOMAIN d.set \union d.unset # {}  BY <2>3, <2>4
    <3> QED  BY <3>1, <3>2, <3>3, <3>4 DEF ChangeOK
  <2>6. \A q \in Paths : q = p \/ Marked(c, q) => Marked(d, q)
    BY <1>2, <2>3, <2>4 DEF Marked
  <2> QED  BY <2>5, <2>6 DEF d
<1>4. CASE p[2] \notin PathKeys
  <2>1. d = [c EXCEPT !.mask = @ \union {"equips"}, !.full = TRUE]
    BY <1>4 DEF MarkKeyDeleted
  <2>2. d = [mask |-> c.mask \union {"equips"}, set |-> c.set, unset |-> c.unset,
             full |-> TRUE, delete |-> c.delete]
    BY <1>1, <2>1
  <2> HIDE DEF d
  <2>3. ChangeOK(d, n)
    <3>1. d \in [mask : SUBSET Persist, set : UNION {[D -> Values] : D \in SUBSET Entries},
                 unset : SUBSET Entries, full : BOOLEAN, delete : {FALSE}]
      BY <1>1, <1>2, <2>2 DEF ChangeOK
    <3>2. p \notin DOMAIN c.set \union c.unset  BY <1>4 DEF ChangeOK
    <3> QED  BY <1>1, <2>2, <3>1, <3>2 DEF ChangeOK
  <2>4. \A q \in Paths : q = p \/ Marked(c, q) => Marked(d, q)
    BY <1>2, <2>2 DEF Marked
  <2> QED  BY <2>3, <2>4 DEF d
<1> QED  BY <1>3, <1>4

\* A report marks the place it ends at, for the store and for the client.
LEMMA ReportIs ==
  ASSUME NEW m, Good(m), NEW n, NEW c, ChangeOK(c, m), NEW o \in Objects,
         \A p \in Entries : n.at[p] = m.at[p]
  PROVE  /\ ChangeOK(Report(m, c, o), n)
         /\ \A p \in Paths : Marked(c, p) => Marked(Report(m, c, o), p)
         /\ Root(m, o) # NoPlace =>
              /\ Root(m, o)[1] \in Reported(m, o)
              /\ Root(m, o)[1] \in Persist => Marked(Report(m, c, o), Root(m, o))
<1> DEFINE r == Root(m, o)
<1>1. r \in Slots \union {NoPlace} /\ (r # NoPlace => Holder(m, o) \in Values /\ m.at[r] = Holder(m, o))
  BY RootIs
<1>2. r # NoPlace => r[1] \in Reported(m, o)  BY DEF Reported
<1>3. CASE r = NoPlace
  <2>1. Report(m, c, o) = c
    <3>1. Report(m, c, o) = CASE r = NoPlace -> c
                              [] r[1] = "equips" -> MarkKeyDirty(c, r, Holder(m, o))
                              [] OTHER -> MarkField(c, r[1])
      BY DEF Report
    <3> HIDE DEF r
    <3> QED  BY <1>3, <3>1, PlaceKinds
  <2>2. ChangeOK(c, n)
    <3>1. DOMAIN c.set \subseteq Entries /\ c.unset \subseteq Entries  BY ChangeIs
    <3> QED  BY <3>1 DEF ChangeOK
  <2> QED  BY <1>3, <2>1, <2>2
<1>4. CASE r \in Slots /\ r[1] = "equips"
  <2>1. r # NoPlace /\ r \in Entries  BY <1>4, PlaceKinds DEF Entries
  <2>2. Report(m, c, o) = MarkKeyDirty(c, r, Holder(m, o))  BY <1>4, <2>1 DEF Report
  <2>3. n.at[r] = Holder(m, o)  BY <1>1, <2>1
  <2> HIDE DEF r
  <2>4. /\ ChangeOK(MarkKeyDirty(c, r, Holder(m, o)), n)
        /\ Marked(MarkKeyDirty(c, r, Holder(m, o)), r)
        /\ \A q \in Paths : Marked(c, q) => Marked(MarkKeyDirty(c, r, Holder(m, o)), q)
    BY <1>1, <2>1, <2>3, MarkKeyDirtyIs
  <2> QED  BY <1>2, <2>2, <2>4 DEF r
<1>5. CASE r \in Slots /\ r[1] # "equips"
  <2>1. r # NoPlace /\ r \in Paths /\ r[1] \in Fields  BY <1>5, PlaceKinds DEF Fields
  <2>2. Report(m, c, o) = MarkField(c, r[1])
    <3>1. Report(m, c, o) = CASE r = NoPlace -> c
                              [] r[1] = "equips" -> MarkKeyDirty(c, r, Holder(m, o))
                              [] OTHER -> MarkField(c, r[1])
      BY DEF Report
    <3> HIDE DEF r
    <3> QED  BY <1>5, <2>1, <3>1
  <2> HIDE DEF r
  <2>3. /\ ChangeOK(MarkField(c, r[1]), n)
        /\ \A p \in Paths : Marked(c, p) => Marked(MarkField(c, r[1]), p)
        /\ \A p \in Paths : p[1] = r[1] /\ r[1] \in Persist => Marked(MarkField(c, r[1]), p)
    BY <1>5, <2>1, MarkFieldIs
  <2> QED  BY <1>2, <2>1, <2>2, <2>3 DEF r
<1> QED  BY <1>1, <1>3, <1>4, <1>5
-----------------------------------------------------------------------------
(* The setters                                                              *)

\* A setter leaves a good object, and marks every path whose content it changes.
Moves(m, n, c, d, marked) ==
  /\ Good(n) /\ ChangeOK(d, n)
  /\ \A p \in Paths : Marked(c, p) => Marked(d, p)
  /\ \A p \in Paths : Content(n, p) # Content(m, p) =>
       p[1] \in marked /\ (p[1] \in Persist => Marked(d, p))

Effect(n, u, d, marked) ==
  Step(n, u, d, marked) /\ u \in Undos /\ UndoOne(n, u) = mem /\ Moves(mem, n, tx.change, d, marked)

\* What a call of a setter comes to: its effect with an undo, or its panic.
Called == \/ \E n, u, d, marked : Effect(n, u, d, marked)
          \/ \E new : Fits(new) /\ Panic(new)

LEMMA UndoPlaces ==
  ASSUME NEW m, Good(m), NEW new, Fits(new)
  PROVE  LET u == [what |-> "places", old |-> [p \in DOMAIN new |-> m.at[p]]]
         IN u \in Undos /\ UndoOne(Assign(m, new), u) = m
<1> DEFINE old == [p \in DOMAIN new |-> m.at[p]]
           u == [what |-> "places", old |-> old]
<1>1. old \in UNION {[D -> Objects \union {Nil}] : D \in SUBSET Places}
  <2>1. DOMAIN new \in SUBSET Places  BY DEF Fits
  <2>2. old \in [DOMAIN new -> Objects \union {Nil}]  BY <2>1, MemIs DEF Good
  <2> HIDE DEF old
  <2> QED  BY <2>1, <2>2
<1>2. Assign(Assign(m, new), old) = m  BY UndoAssign
<1> HIDE DEF old
<1>3. u \in Undos  BY <1>1 DEF Undos
<1>4. UndoOne(Assign(m, new), u) = Assign(Assign(m, new), u.old)
  <2>1. u.what = "places"  OBVIOUS
  <2> HIDE DEF u
  <2> QED  BY <2>1 DEF UndoOne
<1> QED  BY <1>2, <1>3, <1>4 DEF old

\* A setter of places changes what they say, and what their holder says.
LEMMA AssignContent ==
  ASSUME NEW m, Good(m), NEW new, Fits(new)
  PROVE  /\ \A p \in Slots : /\ p \notin DOMAIN new
                             /\ m.at[p] # Nil => Core(m.at[p]) \notin DOMAIN new
                             => Content(Assign(m, new), p) = Content(m, p)
         /\ Content(Assign(m, new), Score) = Content(m, Score)
         /\ \A p \in Places : Assign(m, new).at[p] = IF p \in DOMAIN new THEN new[p] ELSE m.at[p]
<1> DEFINE a == Assign(m, new)
<1>1. /\ a.level = m.level /\ a.score = m.score
      /\ \A p \in Places : a.at[p] = IF p \in DOMAIN new THEN new[p] ELSE m.at[p]
  BY AssignIs
<1> HIDE DEF a
<1>2. ASSUME NEW p \in Slots, p \notin DOMAIN new, m.at[p] # Nil => Core(m.at[p]) \notin DOMAIN new
      PROVE  Content(a, p) = Content(m, p)
  <2>1. a.at[p] = m.at[p]  BY <1>1, <1>2, PlaceKinds
  <2>2. m.at[p] # Nil => a.at[Core(m.at[p])] = m.at[Core(m.at[p])]
    <3>1. m.at[p] # Nil => m.at[p] \in Values  BY DEF Good, IsMem
    <3> QED  BY <1>1, <1>2, <3>1, PlaceKinds
  <2> QED  BY <1>1, <2>1, <2>2, SameContent
<1>3. Content(a, Score) = Content(m, Score)  BY <1>1, SameScore
<1> QED  BY <1>1, <1>2, <1>3 DEF a

LEMMA PlacesCalled ==
  ASSUME Good(mem), NEW new, Fits(new), NEW d, NEW marked, SetPlaces(new, d, marked),
         ~Refuses(mem, new) => Moves(mem, Assign(mem, new), tx.change, d, marked)
  PROVE  Called
<1> DEFINE u == [what |-> "places", old |-> [p \in DOMAIN new |-> mem.at[p]]]
<1>1. CASE ~Refuses(mem, new) /\ Step(Assign(mem, new), u, d, marked)
  <2>1. u \in Undos /\ UndoOne(Assign(mem, new), u) = mem  BY UndoPlaces
  <2> HIDE DEF u
  <2>2. Effect(Assign(mem, new), u, d, marked)  BY <1>1, <2>1 DEF Effect
  <2> QED  BY <2>2 DEF Called
<1>2. CASE Panic(new)  BY <1>2 DEF Called
<1> QED  BY <1>1, <1>2 DEF SetPlaces

\* A setter of a field that is marked as a whole.
LEMMA FieldCalled ==
  ASSUME Good(mem), ChangeOK(tx.change, mem), NEW new, Fits(new), Together(DOMAIN new),
         NEW f \in Fields, f # "equips", \A p \in DOMAIN new : p \in Slots /\ p[1] = f,
         SetPlaces(new, MarkField(tx.change, f), {f})
  PROVE  Called
<1> DEFINE a == Assign(mem, new)
           d == MarkField(tx.change, f)
<1>1. /\ \A p \in Slots : /\ p \notin DOMAIN new
                          /\ mem.at[p] # Nil => Core(mem.at[p]) \notin DOMAIN new
                          => Content(a, p) = Content(mem, p)
      /\ Content(a, Score) = Content(mem, Score)
      /\ \A p \in Places : a.at[p] = IF p \in DOMAIN new THEN new[p] ELSE mem.at[p]
  BY AssignContent
<1>2. ~Refuses(mem, new) => Good(a)  BY AssignGood
<1> HIDE DEF a
<1>3. \A p \in Entries : a.at[p] = mem.at[p]  BY <1>1, PlaceKinds DEF Entries
<1>4. /\ ChangeOK(d, a)
      /\ \A p \in Paths : Marked(tx.change, p) => Marked(d, p)
      /\ \A p \in Paths : p[1] = f /\ f \in Persist => Marked(d, p)
  BY <1>3, MarkFieldIs
<1>5. \A p \in Paths : Content(a, p) # Content(mem, p) => p \in DOMAIN new
  <2>1. \A p \in Slots : mem.at[p] # Nil => Core(mem.at[p]) \notin DOMAIN new
    BY PlaceKinds DEF Good, IsMem
  <2> QED  BY <1>1, <2>1, PlaceKinds
<1> HIDE DEF d
<1>6. ~Refuses(mem, new) => Moves(mem, a, tx.change, d, {f})  BY <1>2, <1>4, <1>5 DEF Moves
<1> QED  BY <1>6, PlacesCalled DEF a, d

LEMMA OnePlace ==
  ASSUME NEW p \in Places
  PROVE  Together({p})
BY DEF Together

LEMMA MountCalled ==
  ASSUME Good(mem), ChangeOK(tx.change, mem), NEW v \in Values \union {Nil}, SetMount(v)
  PROVE  Called
<1> DEFINE new == [p \in {Mount} |-> v]
<1>1. DOMAIN new = {Mount} /\ new[Mount] = v  OBVIOUS
<1>2. SetPlaces(new, MarkField(tx.change, "mount"), {"mount"})  BY DEF SetMount
<1> HIDE DEF new
<1>3. Fits(new) /\ Together(DOMAIN new)  BY <1>1, SlotKinds, PlaceKinds, OnePlace DEF Fits
<1>4. \A p \in DOMAIN new : p \in Slots /\ p[1] = "mount"  BY <1>1, SlotKinds
<1>5. "mount" \in Fields  BY DEF Fields
<1> QED  BY <1>2, <1>3, <1>4, <1>5, FieldCalled

LEMMA AddSquadCalled ==
  ASSUME Good(mem), ChangeOK(tx.change, mem), NEW v \in Values, AddSquad(v)
  PROVE  Called
<1>1. PICK n \in Items : SetPlaces([p \in {Item(n)} |-> v], MarkField(tx.change, "squad"), {"squad"})
  BY DEF AddSquad
<1> DEFINE new == [p \in {Item(n)} |-> v]
<1>2. DOMAIN new = {Item(n)} /\ new[Item(n)] = v  OBVIOUS
<1>3. SetPlaces(new, MarkField(tx.change, "squad"), {"squad"})  BY <1>1
<1> HIDE DEF new
<1>4. Fits(new) /\ Together(DOMAIN new)  BY <1>2, SlotKinds, PlaceKinds, OnePlace DEF Fits
<1>5. \A p \in DOMAIN new : p \in Slots /\ p[1] = "squad"  BY <1>2, SlotKinds
<1>6. "squad" \in Fields  BY DEF Fields
<1> QED  BY <1>3, <1>4, <1>5, <1>6, FieldCalled

LEMMA SquadAllCalled ==
  ASSUME Good(mem), ChangeOK(tx.change, mem), NEW n \in {0} \union Items,
         NEW s \in [1 .. n -> Values], SetSquadAll(s)
  PROVE  Called
<1> DEFINE new == [p \in SquadSlots |-> IF p[2] <= Len(s) THEN s[p[2]] ELSE Nil]
<1>1. /\ DOMAIN new = SquadSlots
      /\ \A p \in SquadSlots : new[p] = IF p[2] <= Len(s) THEN s[p[2]] ELSE Nil
  OBVIOUS
<1>2. SetPlaces(new, MarkField(tx.change, "squad"), {"squad"})  BY DEF SetSquadAll
<1> HIDE DEF new
<1>3. \A p \in SquadSlots : p \in Slots /\ p[1] = "squad" /\ p[2] \in Items /\ p = Item(p[2])
  BY SlotKinds DEF SquadSlots
<1>4. n \in Nat /\ Len(s) = n /\ \A i \in Items : i \in Nat /\ i >= 1
  <2>1. n \in Nat /\ \A i \in Items : i \in Nat /\ i >= 1  BY DaoAssumption
  <2>2. s \in Seq(Values)  BY <2>1
  <2>3. DOMAIN s = 1 .. n /\ DOMAIN s = 1 .. Len(s) /\ Len(s) \in Nat  BY <2>2
  <2>4. Len(s) = n  BY <2>1, <2>3
  <2> QED  BY <2>1, <2>4
<1>5. \A p \in SquadSlots : new[p] \in Values \union {Nil}  BY <1>1, <1>3, <1>4
<1>6. Fits(new)  BY <1>1, <1>3, <1>5, PlaceKinds DEF Fits
<1>7. Together(DOMAIN new)  BY <1>1, <1>3, PlaceKinds DEF Together
<1>8. "squad" \in Fields  BY DEF Fields
<1> QED  BY <1>1, <1>2, <1>3, <1>6, <1>7, <1>8, FieldCalled

LEMMA EquipsCalled ==
  ASSUME Good(mem), ChangeOK(tx.change, mem), NEW k \in Keys, NEW v \in Values, SetEquips(k, v)
  PROVE  Called
<1> DEFINE e == Entry(k)
           new == [p \in {e} |-> v]
           d == MarkKeyDirty(tx.change, e, v)
<1>1. DOMAIN new = {e} /\ new[e] = v  OBVIOUS
<1>2. SetPlaces(new, d, {"equips"})  BY DEF SetEquips
<1>3. e \in Slots /\ e \in Entries /\ e \in Places /\ e[1] = "equips"
  BY SlotKinds, PlaceKinds DEF Entries
<1> HIDE DEF new, e
<1>4. Fits(new) /\ Together(DOMAIN new)  BY <1>1, <1>3, OnePlace DEF Fits
<1> DEFINE a == Assign(mem, new)
<1>5. /\ \A p \in Slots : /\ p \notin DOMAIN new
                          /\ mem.at[p] # Nil => Core(mem.at[p]) \notin DOMAIN new
                          => Content(a, p) = Content(mem, p)
      /\ Content(a, Score) = Content(mem, Score)
      /\ \A p \in Places : a.at[p] = IF p \in DOMAIN new THEN new[p] ELSE mem.at[p]
  BY <1>4, AssignContent
<1>6. ~Refuses(mem, new) => Good(a)  BY <1>4, AssignGood
<1> HIDE DEF a
<1>7. a.at[e] = v /\ \A q \in Entries : q # e => a.at[q] = mem.at[q]
  BY <1>1, <1>3, <1>5, PlaceKinds DEF Entries
<1>8. /\ ChangeOK(d, a) /\ Marked(d, e)
      /\ \A q \in Paths : Marked(tx.change, q) => Marked(d, q)
  BY <1>3, <1>7, MarkKeyDirtyIs
<1>9. \A p \in Paths : Content(a, p) # Content(mem, p) => p = e
  <2>1. \A p \in Slots : mem.at[p] # Nil => Core(mem.at[p]) \notin DOMAIN new
    BY <1>1, <1>3, PlaceKinds DEF Good, IsMem
  <2> QED  BY <1>1, <1>5, <2>1, PlaceKinds
<1> HIDE DEF d
<1>10. ~Refuses(mem, new) => Moves(mem, a, tx.change, d, {"equips"})
  BY <1>3, <1>6, <1>8, <1>9 DEF Moves
<1> QED  BY <1>2, <1>4, <1>10, PlacesCalled DEF a

LEMMA DelEquipsCalled ==
  ASSUME Good(mem), ChangeOK(tx.change, mem), NEW k \in Keys, DelEquips(k)
  PROVE  Called
<1> DEFINE e == Entry(k)
           new == [p \in {e} |-> Nil]
           d == MarkKeyDeleted(tx.change, e)
<1>1. DOMAIN new = {e} /\ new[e] = Nil  OBVIOUS
<1>2. SetPlaces(new, d, {"equips"})  BY DEF DelEquips
<1>3. e \in Slots /\ e \in Entries /\ e \in Places /\ e[1] = "equips"
  BY SlotKinds, PlaceKinds DEF Entries
<1> HIDE DEF new, e
<1>4. Fits(new) /\ Together(DOMAIN new)  BY <1>1, <1>3, OnePlace DEF Fits
<1> DEFINE a == Assign(mem, new)
<1>5. /\ \A p \in Slots : /\ p \notin DOMAIN new
                          /\ mem.at[p] # Nil => Core(mem.at[p]) \notin DOMAIN new
                          => Content(a, p) = Content(mem, p)
      /\ Content(a, Score) = Content(mem, Score)
      /\ \A p \in Places : a.at[p] = IF p \in DOMAIN new THEN new[p] ELSE mem.at[p]
  BY <1>4, AssignContent
<1>6. ~Refuses(mem, new) => Good(a)  BY <1>4, AssignGood
<1> HIDE DEF a
<1>7. a.at[e] = Nil /\ \A q \in Entries : q # e => a.at[q] = mem.at[q]
  BY <1>1, <1>3, <1>5, PlaceKinds DEF Entries
<1>8. /\ ChangeOK(d, a) /\ Marked(d, e)
      /\ \A q \in Paths : Marked(tx.change, q) => Marked(d, q)
  <2>1. /\ ChangeOK(d, a)
        /\ \A q \in Paths : q = e \/ Marked(tx.change, q) => Marked(d, q)
    BY <1>3, <1>7, MarkKeyDeletedIs
  <2> QED  BY <1>3, <2>1, PlaceKinds
<1>9. \A p \in Paths : Content(a, p) # Content(mem, p) => p = e
  <2>1. \A p \in Slots : mem.at[p] # Nil => Core(mem.at[p]) \notin DOMAIN new
    BY <1>1, <1>3, PlaceKinds DEF Good, IsMem
  <2> QED  BY <1>1, <1>5, <2>1, PlaceKinds
<1> HIDE DEF d
<1>10. ~Refuses(mem, new) => Moves(mem, a, tx.change, d, {"equips"})
  BY <1>3, <1>6, <1>8, <1>9 DEF Moves
<1> QED  BY <1>2, <1>4, <1>10, PlacesCalled DEF a

LEMMA CoreCalled ==
  ASSUME Good(mem), ChangeOK(tx.change, mem), NEW v \in Values, NEW gem \in Gems \union {Nil},
         SetCore(v, gem)
  PROVE  Called
<1> DEFINE e == Core(v)
           new == [p \in {e} |-> gem]
           d == Report(mem, tx.change, v)
           r == Root(mem, v)
<1>1. DOMAIN new = {e} /\ new[e] = gem  OBVIOUS
<1>2. SetPlaces(new, d, Reported(mem, v))  BY DEF SetCore
<1>3. e \in Places /\ e \notin Slots /\ e[2] = v /\ v \in Objects  BY PlaceKinds, ObjectKinds
<1>4. \A w \in Values : Core(w) = e => w = v  BY PlaceKinds
<1> HIDE DEF new, e
<1>5. Fits(new) /\ Together(DOMAIN new)  BY <1>1, <1>3, OnePlace DEF Fits
<1> DEFINE a == Assign(mem, new)
<1>6. /\ \A p \in Slots : /\ p \notin DOMAIN new
                          /\ mem.at[p] # Nil => Core(mem.at[p]) \notin DOMAIN new
                          => Content(a, p) = Content(mem, p)
      /\ Content(a, Score) = Content(mem, Score)
      /\ \A p \in Places : a.at[p] = IF p \in DOMAIN new THEN new[p] ELSE mem.at[p]
  BY <1>5, AssignContent
<1>7. ~Refuses(mem, new) => Good(a)  BY <1>5, AssignGood
<1> HIDE DEF a
<1>8. \A q \in Entries : a.at[q] = mem.at[q]  BY <1>1, <1>3, <1>6, PlaceKinds DEF Entries
<1>9. /\ ChangeOK(d, a)
      /\ \A p \in Paths : Marked(tx.change, p) => Marked(d, p)
      /\ r # NoPlace => r[1] \in Reported(mem, v) /\ (r[1] \in Persist => Marked(d, r))
  BY <1>3, <1>8, ReportIs
<1>10. \A p \in Paths : Content(a, p) # Content(mem, p) => p = r /\ p # NoPlace
  <2>1. \A p \in Slots : mem.at[p] = v => r = p  BY <1>3, RootIs
  <2>2. \A p \in Slots : mem.at[p] # Nil /\ Core(mem.at[p]) \in DOMAIN new => mem.at[p] = v
    BY <1>1, <1>4 DEF Good, IsMem
  <2> QED  BY <1>1, <1>3, <1>6, <2>1, <2>2, PlaceKinds
<1> HIDE DEF d, r
<1>11. ~Refuses(mem, new) => Moves(mem, a, tx.change, d, Reported(mem, v))
  BY <1>7, <1>9, <1>10 DEF Moves
<1> QED  BY <1>2, <1>5, <1>11, PlacesCalled DEF a

LEMMA ScoreCalled ==
  ASSUME Good(mem), ChangeOK(tx.change, mem), NEW n \in Levels, SetScore(n)
  PROVE  Called
<1> DEFINE a == [mem EXCEPT !.score = n]
           u == [what |-> "score", old |-> mem.score]
           d == MarkField(tx.change, "score")
<1>1. Step(a, u, d, {"score"})  BY DEF SetScore
<1>2. /\ mem = [at |-> mem.at, level |-> mem.level, score |-> mem.score, owner |-> mem.owner]
      /\ mem.score \in Levels
  BY MemIs DEF Good
<1>3. a = [at |-> mem.at, level |-> mem.level, score |-> n, owner |-> mem.owner]  BY <1>2
<1>4. u \in Undos  BY <1>2 DEF Undos
<1>5. UndoOne(a, u) = [a EXCEPT !.score = mem.score]  BY DEF UndoOne
<1> HIDE DEF a
<1>6. UndoOne(a, u) = mem  BY <1>2, <1>3, <1>5
<1>7. Good(a)  BY <1>3 DEF Good, IsMem, Consistent
<1>8. \A p \in Entries : a.at[p] = mem.at[p]  BY <1>3
<1>9. "score" \in Fields  BY DEF Fields
<1>10. /\ ChangeOK(d, a)
       /\ \A p \in Paths : Marked(tx.change, p) => Marked(d, p)
       /\ \A p \in Paths : p[1] = "score" /\ "score" \in Persist => Marked(d, p)
  BY <1>8, <1>9, MarkFieldIs
<1>11. \A p \in Paths : Content(a, p) # Content(mem, p) => p[1] = "score"
  <2>1. \A p \in Slots : Content(a, p) = Content(mem, p)  BY <1>3, SameContent
  <2> QED  BY <2>1, PlaceKinds
<1> HIDE DEF u, d
<1>12. Moves(mem, a, tx.change, d, {"score"})  BY <1>7, <1>10, <1>11 DEF Moves
<1>13. Effect(a, u, d, {"score"})  BY <1>1, <1>4, <1>6, <1>12 DEF Effect
<1> QED  BY <1>13 DEF Called

LEMMA LevelCalled ==
  ASSUME Good(mem), ChangeOK(tx.change, mem), NEW o \in Objects, NEW n \in Levels, SetLevel(o, n)
  PROVE  Called
<1> DEFINE a == [mem EXCEPT !.level[o] = n]
           l == [mem.level EXCEPT ![o] = n]
           u == [what |-> "level", of |-> o, old |-> mem.level[o]]
           d == Report(mem, tx.change, o)
           r == Root(mem, o)
<1>1. Step(a, u, d, Reported(mem, o))  BY DEF SetLevel
<1>2. /\ mem = [at |-> mem.at, level |-> mem.level, score |-> mem.score, owner |-> mem.owner]
      /\ mem.level = [x \in Objects |-> mem.level[x]] /\ mem.level[o] \in Levels
      /\ mem.level \in [Objects -> Levels]
  BY MemIs DEF Good, IsMem
<1>3. l \in [Objects -> Levels] /\ \A x \in Objects : x # o => l[x] = mem.level[x]  BY <1>2
<1>4. [l EXCEPT ![o] = mem.level[o]] = mem.level  BY <1>2
<1> HIDE DEF l
<1>5. a = [at |-> mem.at, level |-> l, score |-> mem.score, owner |-> mem.owner]
  BY <1>2 DEF l
<1>6. u \in Undos  BY <1>2 DEF Undos
<1>7. UndoOne(a, u) = [a EXCEPT !.level[o] = mem.level[o]]  BY DEF UndoOne
<1> HIDE DEF a
<1>8. UndoOne(a, u) = mem  BY <1>2, <1>4, <1>5, <1>7
<1>9. Good(a)  BY <1>3, <1>5 DEF Good, IsMem, Consistent
<1>10. \A p \in Entries : a.at[p] = mem.at[p]  BY <1>5
<1>11. /\ ChangeOK(d, a)
       /\ \A p \in Paths : Marked(tx.change, p) => Marked(d, p)
       /\ r # NoPlace => r[1] \in Reported(mem, o) /\ (r[1] \in Persist => Marked(d, r))
  BY <1>10, ReportIs
<1>12. ASSUME NEW p \in Paths, Content(a, p) # Content(mem, p) PROVE p = r /\ p # NoPlace
  <2>1. p \in Slots /\ p # NoPlace
    <3>1. Content(a, Score) = Content(mem, Score)  BY <1>5, SameScore
    <3> QED  BY <1>12, <3>1, PlaceKinds
  <2>2. mem.at[p] # Nil /\ (mem.at[p] = o \/ mem.at[Core(mem.at[p])] = o)
    <3>1. SUFFICES ASSUME mem.at[p] # Nil => mem.at[p] # o /\ mem.at[Core(mem.at[p])] # o
                   PROVE  FALSE
      OBVIOUS
    <3>2. mem.at[p] # Nil => /\ mem.at[p] \in Values /\ mem.at[p] \in Objects
                             /\ mem.at[Core(mem.at[p])] \in Objects \union {Nil}
      BY <2>1, ObjectKinds DEF Good, IsMem
    <3> QED  BY <1>3, <1>5, <1>12, <2>1, <3>1, <3>2, SameContent
  <2> QED  BY <2>1, <2>2, RootIs
<1> HIDE DEF u, d, r
<1>13. Moves(mem, a, tx.change, d, Reported(mem, o))  BY <1>9, <1>11, <1>12 DEF Moves
<1>14. Effect(a, u, d, Reported(mem, o))  BY <1>1, <1>6, <1>8, <1>13 DEF Effect
<1> QED  BY <1>14 DEF Called
-----------------------------------------------------------------------------
(* Mutations                                                                *)

Persisted == {p \in Paths : p[1] \in Persist}
DocOK(doc) == DOMAIN doc = Persisted /\ \A p \in Persisted : doc[p] \in Wire(p)

StoreOK ==
  /\ store = [doc |-> store.doc, live |-> store.live, schema |-> store.schema,
              old |-> store.old, version |-> store.version]
  /\ DocOK(store.doc) /\ store.old \subseteq Persist /\ store.version \in Nat

LEMMA ZeroWire ==
  ASSUME NEW p \in Paths
  PROVE  Zero(p) \in Wire(p)
BY DEF Zero, Wire, Levels, Empty

\* A mutation carries what the object says at every path it writes, and every marked path.
LEMMA MutationIs ==
  ASSUME Good(mem), NEW c, ChangeOK(c, mem)
  PROVE  LET mut == PrepareMutation(mem, c)
         IN /\ mut.kind \in {"put", "patch"} /\ (mut.kind = "put" => version = 0)
            /\ \A p \in Persisted : p \in DOMAIN mut.set => mut.set[p] = Content(mem, p)
            /\ \A p \in Persisted : p \notin DOMAIN mut.set /\ p \in mut.unset =>
                                      Content(mem, p) = Zero(p)
            /\ \A p \in Persisted : p \notin DOMAIN mut.set /\ p \notin mut.unset =>
                                      version # 0 /\ ~Marked(c, p)
            /\ \A p \in Persisted : p[1] \in mut.whole => p \in DOMAIN mut.set
<1> DEFINE mut == PrepareMutation(mem, c)
<1>1. c.delete = FALSE /\ c.full \in BOOLEAN /\ DOMAIN c.set \subseteq Entries
      /\ c.unset \subseteq Entries /\ \A p \in DOMAIN c.set : c.set[p] \in Values
  BY ChangeIs
<1>2. CASE version = 0
  <2>1. mut = [kind |-> "put", whole |-> Persist, set |-> Document(mem, Persist), unset |-> {}]
    BY <1>1, <1>2 DEF PrepareMutation
  <2>2. DOMAIN Document(mem, Persist) = Persisted
        /\ \A p \in Persisted : Document(mem, Persist)[p] = Content(mem, p)
    BY DEF Document, Persisted
  <2> HIDE DEF mut
  <2>3. /\ mut.kind = "put" /\ DOMAIN mut.set = Persisted
        /\ \A p \in Persisted : mut.set[p] = Content(mem, p)
    BY <2>1, <2>2
  <2> QED  BY <1>2, <2>3 DEF mut
<1>3. CASE version # 0
  <2> DEFINE whole == Patched(c)
             D == {q \in Paths : q[1] \in whole \/ (q \in DOMAIN c.set /\ ~c.full)}
             set == [p \in D |-> IF p[1] \in whole THEN Content(mem, p)
                                 ELSE <<mem.level[c.set[p]],
                                        IF mem.at[Core(c.set[p])] = Nil THEN NoGem
                                        ELSE mem.level[mem.at[Core(c.set[p])]]>>]
  <2>1. mut.kind = "patch" /\ mut.whole = whole /\ mut.set = set /\ mut.unset = c.unset
    BY <1>1, <1>3 DEF PrepareMutation, Patch
  <2>2. whole = {f \in c.mask : f # "equips" \/ c.full}
    BY DEF Patched, ChangeOK
  <2>3. DOMAIN set = D /\ \A p \in D : p[1] \in whole => set[p] = Content(mem, p)  OBVIOUS
  <2>4. ASSUME NEW p \in D, p[1] \notin whole PROVE set[p] = Content(mem, p)
    <3>1. p \in DOMAIN c.set  BY <2>4
    <3>2. p \in Slots /\ mem.at[p] = c.set[p] /\ mem.at[p] # Nil
      BY <1>1, <3>1, ObjectKinds DEF Entries, ChangeOK
    <3>3. set[p] = <<mem.level[c.set[p]],
                     IF mem.at[Core(c.set[p])] = Nil THEN NoGem
                     ELSE mem.level[mem.at[Core(c.set[p])]]>>
      BY <2>4
    <3> HIDE DEF set, D, whole
    <3> QED  BY <3>2, <3>3, ContentOf
  <2> HIDE DEF mut, set
  <2>5. ASSUME NEW p \in Persisted, p \notin D, p \in c.unset PROVE Content(mem, p) = Zero(p)
    <3>1. p \in Slots /\ mem.at[p] = Nil  BY <1>1, <2>5 DEF Entries, ChangeOK
    <3> QED  BY <3>1, ContentOf, PlaceKinds DEF Zero
  <2>6. ASSUME NEW p \in Persisted, p \notin D, p \notin c.unset PROVE ~Marked(c, p)
    BY <2>2, <2>6 DEF Persisted, Marked
  <2>7. \A p \in Persisted : p[1] \in whole => p \in D  BY DEF Persisted
  <2> HIDE DEF whole, D
  <2>8. /\ mut.kind \in {"put", "patch"} /\ (mut.kind = "put" => version = 0)
        /\ \A p \in Persisted : p[1] \in mut.whole => p \in DOMAIN mut.set
    BY <2>1, <2>3, <2>7
  <2>9. \A p \in Persisted : p \in DOMAIN mut.set => mut.set[p] = Content(mem, p)
    BY <2>1, <2>3, <2>4
  <2>10. /\ \A p \in Persisted : p \notin DOMAIN mut.set /\ p \in mut.unset =>
                                  Content(mem, p) = Zero(p)
         /\ \A p \in Persisted : p \notin DOMAIN mut.set /\ p \notin mut.unset =>
                                  version # 0 /\ ~Marked(c, p)
    BY <1>3, <2>1, <2>3, <2>5, <2>6
  <2> QED  BY <2>8, <2>9, <2>10 DEF mut
<1> QED  BY <1>2, <1>3

LEMMA DeletionIs ==
  ASSUME NEW c, NEW m, ChangeOK(c, m)
  PROVE  PrepareMutation(mem, [c EXCEPT !.delete = TRUE])
           = [kind |-> "delete", whole |-> Persist, set |-> <<>>, unset |-> Paths]
<1>1. [c EXCEPT !.delete = TRUE].delete = TRUE
  <2>1. c = [mask |-> c.mask, set |-> c.set, unset |-> c.unset, full |-> c.full,
             delete |-> c.delete]
    BY ChangeIs
  <2> QED  BY <2>1
<1> DEFINE d == [c EXCEPT !.delete = TRUE]
<1> HIDE DEF d
<1>2. d.delete = TRUE  BY <1>1 DEF d
<1> QED  BY <1>2 DEF PrepareMutation, d

\* The Data Engine: what a mutation leaves in the store.
LEMMA AppliedIs ==
  ASSUME StoreOK, NEW mut, \A p \in Persisted : p \in DOMAIN mut.set => mut.set[p] \in Wire(p)
  PROVE  LET s == Applied(mut)
         IN /\ s = [doc |-> s.doc, live |-> s.live, schema |-> s.schema, old |-> s.old,
                    version |-> s.version]
            /\ DocOK(s.doc) /\ s.old \subseteq Persist /\ s.version = store.version + 1
            /\ \A p \in Persisted : s.doc[p] = IF p \in DOMAIN mut.set THEN mut.set[p]
                                               ELSE IF p \in mut.unset THEN Zero(p)
                                               ELSE store.doc[p]
            /\ s.old = IF mut.kind = "put" THEN {}
                       ELSE (IF store.schema < binary THEN Persist ELSE store.old) \ mut.whole
<1> DEFINE s == Applied(mut)
           doc == [p \in DOMAIN store.doc |-> IF p \in DOMAIN mut.set THEN mut.set[p]
                                              ELSE IF p \in mut.unset THEN Zero(p)
                                              ELSE store.doc[p]]
           old == IF mut.kind = "put" THEN {}
                  ELSE (IF store.schema < binary THEN Persist ELSE store.old) \ mut.whole
<1>1. s = [store EXCEPT !.doc = doc, !.old = old, !.schema = binary, !.version = @ + 1,
                        !.live = (mut.kind # "delete")]
  BY DEF Applied
<1>2. DOMAIN store.doc = Persisted /\ \A p \in Persisted : store.doc[p] \in Wire(p)
  BY DEF StoreOK, DocOK
<1>3. /\ DOMAIN doc = Persisted
      /\ \A p \in Persisted : doc[p] = IF p \in DOMAIN mut.set THEN mut.set[p]
                                       ELSE IF p \in mut.unset THEN Zero(p)
                                       ELSE store.doc[p]
  BY <1>2
<1>4. old \subseteq Persist  BY DEF StoreOK
<1>5. DocOK(doc)
  <2>1. \A p \in Persisted : Zero(p) \in Wire(p)  BY ZeroWire DEF Persisted
  <2> HIDE DEF doc
  <2> QED  BY <1>2, <1>3, <2>1 DEF DocOK
<1>6. old = IF mut.kind = "put" THEN {}
            ELSE (IF store.schema < binary THEN Persist ELSE store.old) \ mut.whole
  OBVIOUS
<1> HIDE DEF doc, old
<1>7. s = [doc |-> doc, live |-> mut.kind # "delete", schema |-> binary, old |-> old,
           version |-> store.version + 1]
  BY <1>1 DEF StoreOK
<1> HIDE DEF s
<1>8. /\ s.doc = doc /\ s.old = old /\ s.version = store.version + 1
      /\ s = [doc |-> s.doc, live |-> s.live, schema |-> s.schema, old |-> s.old,
              version |-> s.version]
  BY <1>7
<1> QED  BY <1>3, <1>4, <1>5, <1>6, <1>8 DEF s
-----------------------------------------------------------------------------
(* The invariant                                                            *)

TxShape ==
  /\ tx = [phase |-> tx.phase, policy |-> tx.policy, undo |-> tx.undo, change |-> tx.change,
           before |-> tx.before, mutation |-> tx.mutation]
  /\ tx.phase \in {"none", "running", "prepared", "failed"}
  /\ tx.change.mask \subseteq Persist /\ tx.change.unset \subseteq Slots
  /\ tx.phase # "none" => loaded /\ Good(tx.before) /\ tx.policy \in {"undo", "state"}

MemSound == IsMem(mem) /\ (loaded /\ tx.phase # "failed" => Good(mem))

\* The log undoes what the transaction has done.
LogUndoes ==
  tx.phase # "none" => /\ tx.policy = "undo" => Undoes(mem, tx.undo, tx.before)
                       /\ tx.policy = "state" => tx.undo = <<>>

\* What the transaction has changed is marked, and the mutation is made of the marks.
MarksCover ==
  /\ tx.phase \in {"running", "prepared"} =>
       /\ ChangeOK(tx.change, mem)
       /\ \A p \in Persisted : Content(mem, p) # Content(tx.before, p) => Marked(tx.change, p)
  /\ tx.phase = "prepared" =>
       tx.mutation \in {PrepareMutation(mem, tx.change),
                        PrepareMutation(mem, [tx.change EXCEPT !.delete = TRUE])}

Versions ==
  /\ count \in [ops : Nat, txs : 0 .. MaxTx, faults : Nat]
  /\ version \in Nat /\ version <= store.version /\ (loaded => version = store.version)
  /\ store.version + (IF tx.phase = "none" THEN 0 ELSE 1) <= 1 + count.txs

\* The client has what is not marked for it, as it is and as it would be after a rollback.
ClientHas ==
  /\ DOMAIN mirror = {p \in Paths : p[1] \in Sync} /\ unsynced \subseteq Sync
  /\ loaded => \A p \in DOMAIN mirror : p[1] \notin unsynced =>
                 /\ tx.phase # "failed" => mirror[p] = Content(mem, p)
                 /\ tx.phase # "none" => mirror[p] = Content(tx.before, p)

\* The store has the object as it was when the transaction began.
StoreHas ==
  loaded /\ version > 0 =>
    \A p \in Persisted : p[1] \notin store.old =>
      /\ tx.phase = "none" => store.doc[p] = Content(mem, p)
      /\ tx.phase # "none" => store.doc[p] = Content(tx.before, p)

DaoInv == /\ StoreOK /\ TxShape /\ MemSound /\ LogUndoes /\ MarksCover /\ Versions
          /\ ClientHas /\ StoreHas

LEMMA NoTxIs ==
  /\ NoTx = [phase |-> "none", policy |-> "undo", undo |-> <<>>, change |-> NoChange,
             before |-> Blank, mutation |-> <<>>]
  /\ NoTx.phase = "none" /\ NoTx.change = NoChange
  /\ NoChange.mask = {} /\ NoChange.unset = {}
BY DEF NoTx, NoChange

\* Outside a transaction only the object, the client and the store have to agree.
LEMMA NoTxKeeps ==
  ASSUME tx' = NoTx
  PROVE  TxShape' /\ LogUndoes' /\ MarksCover'
<1>1. tx'.phase = "none" /\ tx'.change.mask = {} /\ tx'.change.unset = {}  BY NoTxIs
<1>2. TxShape'
  <2>1. tx' = [phase |-> tx'.phase, policy |-> tx'.policy, undo |-> tx'.undo,
               change |-> tx'.change, before |-> tx'.before, mutation |-> tx'.mutation]
    BY NoTxIs
  <2> QED  BY <1>1, <2>1 DEF TxShape
<1>3. LogUndoes' /\ MarksCover'  BY <1>1 DEF LogUndoes, MarksCover
<1> QED  BY <1>2, <1>3

LEMMA InitDao ==
  ASSUME Init
  PROVE  DaoInv
<1>1. /\ mem = Blank /\ loaded = FALSE /\ version = 0 /\ tx = NoTx /\ unsynced = {}
      /\ count = [ops |-> 0, txs |-> 0, faults |-> 0] /\ mirror = Document(Blank, Sync)
  BY DEF Init
<1>2. PICK doc \in StartDocs \union {Document(Blank, Persist)} : \E schema \in {1, 2} :
        store = [doc |-> doc, live |-> doc \in StartDocs,
                 schema |-> IF doc \in StartDocs THEN schema ELSE 1, old |-> {},
                 version |-> IF doc \in StartDocs THEN 1 ELSE 0]
  BY DEF Init
<1>3. DocOK(doc)
  <2>1. CASE doc \in StartDocs  BY <2>1, StartAssumption DEF DocOK, Persisted
  <2>2. CASE doc = Document(Blank, Persist)
    <3>1. \A p \in Paths : Content(Blank, p) \in Wire(p)  BY BlankIs
    <3> HIDE DEF Blank
    <3> QED  BY <2>2, <3>1 DEF Document, DocOK, Persisted
  <2> QED  BY <2>1, <2>2
<1>4. store.doc = doc /\ store.old = {} /\ store.version \in {0, 1}  BY <1>2
<1>5. StoreOK
  <2>1. store = [doc |-> store.doc, live |-> store.live, schema |-> store.schema,
                 old |-> store.old, version |-> store.version]
    BY <1>2
  <2> QED  BY <1>3, <1>4, <2>1 DEF StoreOK
<1>6. tx.phase = "none" /\ tx.change.mask = {} /\ tx.change.unset = {}  BY <1>1, NoTxIs
<1>7. TxShape
  <2>1. tx = [phase |-> tx.phase, policy |-> tx.policy, undo |-> tx.undo,
              change |-> tx.change, before |-> tx.before, mutation |-> tx.mutation]
    BY <1>1, NoTxIs
  <2> QED  BY <1>6, <2>1 DEF TxShape
<1>8. LogUndoes /\ MarksCover  BY <1>6 DEF LogUndoes, MarksCover
<1>9. MemSound  BY <1>1, BlankIs DEF MemSound
<1>10. Versions  BY <1>1, <1>4, <1>6, DaoAssumption DEF Versions
<1>11. ClientHas /\ StoreHas  BY <1>1 DEF ClientHas, StoreHas, Document
<1> QED  BY <1>5, <1>7, <1>8, <1>9, <1>10, <1>11 DEF DaoInv

LEMMA NewKeeps ==
  ASSUME DaoInv, New
  PROVE  DaoInv'
<1>1. /\ ~loaded /\ store.version = 0 /\ mem' = Bind(Blank, Slots) /\ loaded' = TRUE
      /\ version' = 0 /\ mirror' = Document(mem', Sync) /\ tx' = tx
      /\ unsynced' = unsynced /\ store' = store /\ count' = count
  BY DEF New
<1>2. Good(mem') /\ IsMem(mem')  BY <1>1, BlankIs
<1>3. tx.phase = "none"  BY <1>1 DEF DaoInv, TxShape
<1>4. StoreOK' /\ TxShape' /\ LogUndoes' /\ MarksCover'
  BY <1>1, <1>3 DEF DaoInv, StoreOK, TxShape, LogUndoes, MarksCover
<1>5. MemSound'  BY <1>2 DEF MemSound
<1>6. Versions'  BY <1>1, <1>3 DEF DaoInv, Versions
<1>7. ClientHas'  BY <1>1, <1>3 DEF DaoInv, ClientHas, Document
<1>8. StoreHas'  BY <1>1 DEF StoreHas
<1> QED  BY <1>4, <1>5, <1>6, <1>7, <1>8 DEF DaoInv

LEMMA LoadKeeps ==
  ASSUME DaoInv, Load
  PROVE  DaoInv'
<1> DEFINE doc == [p \in DOMAIN store.doc |->
                     IF p[1] \in store.old /\ store.schema = binary THEN Zero(p) ELSE store.doc[p]]
<1>1. /\ ~loaded /\ Unmarshal(doc) /\ loaded' = TRUE /\ version' = store.version
      /\ unsynced' = {} /\ mirror' = Document(mem', Sync) /\ tx' = tx
      /\ store' = store /\ count' = count
  BY DEF Load
<1>2. /\ DOMAIN store.doc = Persisted /\ (\A p \in Persisted : store.doc[p] \in Wire(p))
      /\ Persisted \subseteq Paths
  BY DEF DaoInv, StoreOK, DocOK, Persisted
<1>3. /\ DOMAIN doc = Persisted /\ (\A p \in Persisted : doc[p] \in {Zero(p), store.doc[p]})
      /\ \A p \in Persisted : p[1] \notin store.old => doc[p] = store.doc[p]
  BY <1>2
<1> HIDE DEF doc
<1>4. \A p \in DOMAIN doc : doc[p] \in Wire(p)  BY <1>2, <1>3, ZeroWire
<1>5. Good(mem') /\ \A p \in Persisted : Content(mem', p) = doc[p]
  BY <1>1, <1>2, <1>3, <1>4, UnmarshalIs
<1>6. tx.phase = "none"  BY <1>1 DEF DaoInv, TxShape
<1>7. StoreOK' /\ TxShape' /\ LogUndoes' /\ MarksCover'
  BY <1>1, <1>6 DEF DaoInv, StoreOK, TxShape, LogUndoes, MarksCover
<1>8. MemSound'  BY <1>5 DEF MemSound, Good
<1>9. Versions'  BY <1>1, <1>6 DEF DaoInv, Versions, StoreOK
<1>10. ClientHas'  BY <1>1, <1>6 DEF DaoInv, ClientHas, Document
<1>11. StoreHas'  BY <1>1, <1>3, <1>5, <1>6 DEF StoreHas
<1> QED  BY <1>7, <1>8, <1>9, <1>10, <1>11 DEF DaoInv

LEMMA BeginKeeps ==
  ASSUME DaoInv, NEW policy \in {"undo", "state"}, Begin(policy)
  PROVE  DaoInv'
<1>1. /\ loaded /\ tx.phase = "none" /\ count.txs < MaxTx
      /\ tx' = [NoTx EXCEPT !.phase = "running", !.policy = policy, !.before = mem]
      /\ count' = [count EXCEPT !.txs = @ + 1]
      /\ mem' = mem /\ loaded' = loaded /\ version' = version /\ unsynced' = unsynced
      /\ store' = store /\ mirror' = mirror
  BY DEF Begin
<1>2. tx' = [phase |-> "running", policy |-> policy, undo |-> <<>>, change |-> NoChange,
             before |-> mem, mutation |-> <<>>]
  BY <1>1, NoTxIs
<1>3. /\ tx'.phase = "running" /\ tx'.policy = policy /\ tx'.undo = <<>>
      /\ tx'.change = NoChange /\ tx'.before = mem
      /\ tx' = [phase |-> tx'.phase, policy |-> tx'.policy, undo |-> tx'.undo,
                change |-> tx'.change, before |-> tx'.before, mutation |-> tx'.mutation]
  BY <1>2
<1>4. Good(mem) /\ IsMem(mem)  BY <1>1 DEF DaoInv, MemSound
<1>5. StoreOK'  BY <1>1 DEF DaoInv, StoreOK
<1>6. TxShape'  BY <1>1, <1>3, <1>4, NoTxIs DEF TxShape
<1>7. MemSound'  BY <1>1, <1>4 DEF MemSound
<1>8. LogUndoes'  BY <1>1, <1>3, <1>4, UndoesNothing DEF LogUndoes
<1>9. MarksCover'  BY <1>1, <1>3, NoChangeOK DEF MarksCover
<1>10. Versions'
  <2>1. count' \in [ops : Nat, txs : 0 .. MaxTx, faults : Nat] /\ count'.txs = count.txs + 1
    BY <1>1, DaoAssumption DEF DaoInv, Versions
  <2> QED  BY <1>1, <1>3, <2>1, DaoAssumption DEF DaoInv, Versions, StoreOK
<1>11. ClientHas'  BY <1>1, <1>3 DEF DaoInv, ClientHas
<1>12. StoreHas'  BY <1>1, <1>3 DEF DaoInv, StoreHas
<1> QED  BY <1>5, <1>6, <1>7, <1>8, <1>9, <1>10, <1>11, <1>12 DEF DaoInv
\* Operations and faults are counted; nothing else of the counters moves.
LEMMA CountOne ==
  ASSUME Versions, \/ count' = [count EXCEPT !.ops = @ + 1]
                   \/ count' = [count EXCEPT !.faults = @ + 1]
  PROVE  count' \in [ops : Nat, txs : 0 .. MaxTx, faults : Nat] /\ count'.txs = count.txs
<1>1. count \in [ops : Nat, txs : 0 .. MaxTx, faults : Nat]  BY DEF Versions
<1>2. count.ops + 1 \in Nat /\ count.faults + 1 \in Nat  BY <1>1
<1> QED  BY <1>1, <1>2

LEMMA EffectKeeps ==
  ASSUME DaoInv, NEW n, NEW u, NEW d, NEW marked, Effect(n, u, d, marked)
  PROVE  DaoInv'
<1> DEFINE undo == IF tx.policy = "undo" THEN <<u>> \o tx.undo ELSE tx.undo
<1>1. /\ tx.phase = "running" /\ mem' = n
      /\ tx' = [tx EXCEPT !.undo = undo, !.change = d]
      /\ unsynced' = unsynced \union (marked \intersect Sync)
      /\ count' = [count EXCEPT !.ops = @ + 1]
      /\ loaded' = loaded /\ version' = version /\ store' = store /\ mirror' = mirror
  BY DEF Effect, Step
<1>2. /\ u \in Undos /\ UndoOne(n, u) = mem /\ Good(n) /\ ChangeOK(d, n)
      /\ \A p \in Paths : Marked(tx.change, p) => Marked(d, p)
      /\ \A p \in Paths : Content(n, p) # Content(mem, p) =>
           p[1] \in marked /\ (p[1] \in Persist => Marked(d, p))
  BY DEF Effect, Moves
<1> HIDE DEF undo
<1>3. /\ tx'.phase = "running" /\ tx'.policy = tx.policy /\ tx'.undo = undo
      /\ tx'.change = d /\ tx'.before = tx.before
      /\ tx' = [phase |-> tx'.phase, policy |-> tx'.policy, undo |-> tx'.undo,
                change |-> tx'.change, before |-> tx'.before, mutation |-> tx'.mutation]
  BY <1>1 DEF DaoInv, TxShape
<1>4. loaded /\ Good(tx.before) /\ tx.policy \in {"undo", "state"} /\ IsMem(n)
  BY <1>1, <1>2 DEF DaoInv, TxShape, Good
<1>5. StoreOK'  BY <1>1 DEF DaoInv, StoreOK
<1>6. TxShape'
  <2>1. d.mask \subseteq Persist /\ d.unset \subseteq Slots  BY <1>2, ChangeIs DEF Entries
  <2> QED  BY <1>1, <1>3, <1>4, <2>1 DEF TxShape
<1>7. MemSound'  BY <1>1, <1>2, <1>4 DEF MemSound
<1>8. LogUndoes'
  <2>1. CASE tx.policy = "undo"
    <3>1. undo = <<u>> \o tx.undo /\ Undoes(mem, tx.undo, tx.before)
      BY <1>1, <2>1 DEF DaoInv, LogUndoes, undo
    <3>2. Undoes(n, undo, tx.before)  BY <1>2, <1>4, <3>1, UndoesOneMore
    <3> QED  BY <1>1, <1>3, <2>1, <3>2 DEF LogUndoes
  <2>2. CASE tx.policy = "state"
    BY <1>1, <1>3, <2>2 DEF DaoInv, LogUndoes, undo
  <2> QED  BY <1>4, <2>1, <2>2
<1>9. MarksCover'
  <2>1. \A p \in Persisted : Content(mem, p) # Content(tx.before, p) => Marked(tx.change, p)
    BY <1>1 DEF DaoInv, MarksCover
  <2>2. \A p \in Persisted : Content(n, p) # Content(tx.before, p) => Marked(d, p)
    BY <1>2, <2>1 DEF Persisted
  <2> QED  BY <1>1, <1>2, <1>3, <2>2 DEF MarksCover
<1>10. Versions'
  <2>1. count' \in [ops : Nat, txs : 0 .. MaxTx, faults : Nat] /\ count'.txs = count.txs
    BY <1>1, CountOne DEF DaoInv
  <2> QED  BY <1>1, <1>3, <2>1 DEF DaoInv, Versions
<1>11. ClientHas'
  <2>1. \A p \in DOMAIN mirror : p \in Paths /\ p[1] \in Sync  BY DEF DaoInv, ClientHas
  <2>2. \A p \in DOMAIN mirror : p[1] \notin unsynced' =>
          /\ p[1] \notin unsynced /\ Content(n, p) = Content(mem, p)
    BY <1>1, <1>2, <2>1
  <2> QED  BY <1>1, <1>3, <1>4, <2>2 DEF DaoInv, ClientHas
<1>12. StoreHas'  BY <1>1, <1>3 DEF DaoInv, StoreHas
<1> QED  BY <1>5, <1>6, <1>7, <1>8, <1>9, <1>10, <1>11, <1>12 DEF DaoInv

LEMMA PanicKeeps ==
  ASSUME DaoInv, NEW new, Fits(new), Panic(new)
  PROVE  DaoInv'
<1> DEFINE u == [what |-> "places", old |-> [p \in DOMAIN new |-> mem.at[p]]]
           undo == IF tx.policy = "undo" THEN <<u>> \o tx.undo ELSE tx.undo
           n == Assign(mem, new)
<1>1. /\ tx.phase = "running" /\ mem' = n
      /\ tx' = [tx EXCEPT !.phase = "failed", !.undo = undo]
      /\ unsynced' = unsynced /\ count' = [count EXCEPT !.ops = @ + 1]
      /\ loaded' = loaded /\ version' = version /\ store' = store /\ mirror' = mirror
  BY DEF Panic
<1>2. loaded /\ Good(tx.before) /\ tx.policy \in {"undo", "state"} /\ Good(mem)
  BY <1>1 DEF DaoInv, TxShape, MemSound
<1>3. u \in Undos /\ UndoOne(n, u) = mem /\ IsMem(n)  BY <1>2, UndoPlaces, AssignIs
<1> HIDE DEF undo, u, n
<1>4. /\ tx'.phase = "failed" /\ tx'.policy = tx.policy /\ tx'.undo = undo
      /\ tx'.change = tx.change /\ tx'.before = tx.before
      /\ tx' = [phase |-> tx'.phase, policy |-> tx'.policy, undo |-> tx'.undo,
                change |-> tx'.change, before |-> tx'.before, mutation |-> tx'.mutation]
  BY <1>1 DEF DaoInv, TxShape
<1>5. StoreOK'  BY <1>1 DEF DaoInv, StoreOK
<1>6. TxShape'  BY <1>1, <1>2, <1>4 DEF DaoInv, TxShape
<1>7. MemSound'  BY <1>1, <1>3, <1>4 DEF MemSound
<1>8. LogUndoes'
  <2>1. CASE tx.policy = "undo"
    <3>1. undo = <<u>> \o tx.undo /\ Undoes(mem, tx.undo, tx.before)
      BY <1>1, <2>1 DEF DaoInv, LogUndoes, undo
    <3>2. Undoes(n, undo, tx.before)  BY <1>3, <3>1, UndoesOneMore
    <3> QED  BY <1>1, <1>4, <2>1, <3>2 DEF LogUndoes
  <2>2. CASE tx.policy = "state"
    BY <1>1, <1>4, <2>2 DEF DaoInv, LogUndoes, undo
  <2> QED  BY <1>2, <2>1, <2>2
<1>9. MarksCover'  BY <1>4 DEF MarksCover
<1>10. Versions'
  <2>1. count' \in [ops : Nat, txs : 0 .. MaxTx, faults : Nat] /\ count'.txs = count.txs
    BY <1>1, CountOne DEF DaoInv
  <2> QED  BY <1>1, <1>4, <2>1 DEF DaoInv, Versions
<1>11. ClientHas'  BY <1>1, <1>4 DEF DaoInv, ClientHas
<1>12. StoreHas'  BY <1>1, <1>4 DEF DaoInv, StoreHas
<1> QED  BY <1>5, <1>6, <1>7, <1>8, <1>9, <1>10, <1>11, <1>12 DEF DaoInv

\* The end of a handler: the object stays, the transaction has its mutation.
LEMMA PreparedKeeps ==
  ASSUME DaoInv, NEW mut, tx.phase = "running",
         tx' = [tx EXCEPT !.phase = "prepared", !.mutation = mut],
         mut \in {PrepareMutation(mem, tx.change),
                  PrepareMutation(mem, [tx.change EXCEPT !.delete = TRUE])},
         UNCHANGED <<mem, loaded, version, unsynced, store, mirror, binary, count>>
  PROVE  DaoInv'
<1>1. /\ mem' = mem /\ loaded' = loaded /\ version' = version /\ unsynced' = unsynced
      /\ store' = store /\ mirror' = mirror /\ count' = count
  OBVIOUS
<1>2. /\ tx'.phase = "prepared" /\ tx'.policy = tx.policy /\ tx'.undo = tx.undo
      /\ tx'.change = tx.change /\ tx'.before = tx.before /\ tx'.mutation = mut
      /\ tx' = [phase |-> tx'.phase, policy |-> tx'.policy, undo |-> tx'.undo,
                change |-> tx'.change, before |-> tx'.before, mutation |-> tx'.mutation]
  BY DEF DaoInv, TxShape
<1>3. loaded /\ Good(tx.before) /\ tx.policy \in {"undo", "state"}  BY DEF DaoInv, TxShape
<1>4. StoreOK'  BY <1>1 DEF DaoInv, StoreOK
<1>5. TxShape'  BY <1>1, <1>2, <1>3 DEF DaoInv, TxShape
<1>6. MemSound'  BY <1>1, <1>2 DEF DaoInv, MemSound
<1>7. LogUndoes'  BY <1>1, <1>2 DEF DaoInv, LogUndoes
<1>8. MarksCover'
  <2>1. ChangeOK(tx.change, mem)
        /\ \A p \in Persisted : Content(mem, p) # Content(tx.before, p) => Marked(tx.change, p)
    BY DEF DaoInv, MarksCover
  <2>2. PrepareMutation(mem, tx.change)' = PrepareMutation(mem, tx.change)
    BY <1>1, <1>2 DEF PrepareMutation
  <2>3. PrepareMutation(mem, [tx.change EXCEPT !.delete = TRUE])'
          = PrepareMutation(mem, [tx.change EXCEPT !.delete = TRUE])
    BY <1>1, <1>2 DEF PrepareMutation
  <2>4. mut \in {PrepareMutation(mem, tx.change)',
                 PrepareMutation(mem, [tx.change EXCEPT !.delete = TRUE])'}
    BY <2>2, <2>3
  <2> QED  BY <1>1, <1>2, <2>1, <2>4 DEF MarksCover
<1>9. Versions'  BY <1>1, <1>2 DEF DaoInv, Versions
<1>10. ClientHas'  BY <1>1, <1>2 DEF DaoInv, ClientHas
<1>11. StoreHas'  BY <1>1, <1>2 DEF DaoInv, StoreHas
<1> QED  BY <1>4, <1>5, <1>6, <1>7, <1>8, <1>9, <1>10, <1>11 DEF DaoInv

LEMMA DeleteKeeps ==
  ASSUME DaoInv, Delete
  PROVE  DaoInv'
BY PreparedKeeps DEF Delete

\* A handler that marked nothing has changed nothing that is stored.
LEMMA PrepareKeeps ==
  ASSUME DaoInv, Prepare
  PROVE  DaoInv'
<1>1. CASE tx.change # NoChange  BY <1>1, PreparedKeeps DEF Prepare
<1>2. CASE tx.change = NoChange
  <2>1. /\ tx.phase = "running" /\ tx' = NoTx /\ mem' = mem /\ loaded' = loaded
        /\ version' = version /\ unsynced' = unsynced /\ store' = store /\ mirror' = mirror
        /\ count' = count
    BY <1>2 DEF Prepare
  <2>2. TxShape' /\ LogUndoes' /\ MarksCover' /\ tx'.phase = "none"
    BY <2>1, NoTxKeeps, NoTxIs
  <2>3. StoreOK'  BY <2>1 DEF DaoInv, StoreOK
  <2>4. MemSound'  BY <2>1 DEF DaoInv, MemSound
  <2>5. Versions'  BY <2>1, <2>2 DEF DaoInv, Versions, StoreOK
  <2>6. ClientHas'  BY <2>1, <2>2 DEF DaoInv, ClientHas
  <2>7. StoreHas'
    <3>1. \A p \in Persisted : Content(mem, p) = Content(tx.before, p)
      <4>1. \A p \in Persisted : ~Marked(tx.change, p)  BY <1>2, NoChangeOK DEF Persisted
      <4> QED  BY <2>1, <4>1 DEF DaoInv, MarksCover
    <3> QED  BY <2>1, <2>2, <3>1 DEF DaoInv, StoreHas
  <2> QED  BY <2>2, <2>3, <2>4, <2>5, <2>6, <2>7 DEF DaoInv
<1> QED  BY <1>1, <1>2
LEMMA MutationWire ==
  ASSUME DaoInv, tx.phase = "prepared"
  PROVE  /\ \A p \in Persisted : p \in DOMAIN tx.mutation.set => tx.mutation.set[p] \in Wire(p)
         /\ \/ tx.mutation.kind = "delete"
            \/ tx.mutation = PrepareMutation(mem, tx.change)
<1>1. Good(mem) /\ IsMem(mem) /\ ChangeOK(tx.change, mem)
  BY DEF DaoInv, TxShape, MemSound, MarksCover
<1>2. CASE tx.mutation = PrepareMutation(mem, tx.change)
  <2>1. \A p \in Persisted : p \in DOMAIN tx.mutation.set => tx.mutation.set[p] = Content(mem, p)
    BY <1>1, <1>2, MutationIs
  <2> QED  BY <1>1, <1>2, <2>1, ContentWire DEF Persisted
<1>3. CASE tx.mutation = PrepareMutation(mem, [tx.change EXCEPT !.delete = TRUE])
  <2>1. tx.mutation = [kind |-> "delete", whole |-> Persist, set |-> <<>>, unset |-> Paths]
    BY <1>1, <1>3, DeletionIs
  <2>2. tx.mutation.kind = "delete" /\ tx.mutation.set = <<>>  BY <2>1
  <2>3. DOMAIN <<>> = {}  OBVIOUS
  <2> QED  BY <2>2, <2>3
<1> QED  BY <1>2, <1>3 DEF DaoInv, MarksCover

LEMMA CommitKeeps ==
  ASSUME DaoInv, Commit
  PROVE  DaoInv'
<1> DEFINE mut == tx.mutation
<1>1. /\ tx.phase = "prepared" /\ store.version = version /\ store' = Applied(mut)
      /\ version' = version + 1 /\ loaded' = (mut.kind # "delete") /\ tx' = NoTx
      /\ mem' = mem /\ unsynced' = unsynced /\ mirror' = mirror /\ count' = count
  BY DEF Commit
<1>2. loaded /\ Good(mem) /\ IsMem(mem) /\ ChangeOK(tx.change, mem) /\ StoreOK
  BY <1>1 DEF DaoInv, TxShape, MemSound, MarksCover
<1>3. /\ \A p \in Persisted : p \in DOMAIN mut.set => mut.set[p] \in Wire(p)
      /\ mut.kind = "delete" \/ mut = PrepareMutation(mem, tx.change)
  BY <1>1, MutationWire
<1>4. TxShape' /\ LogUndoes' /\ MarksCover' /\ tx'.phase = "none"
  BY <1>1, NoTxKeeps, NoTxIs
<1> HIDE DEF mut
<1>5. /\ store' = [doc |-> store'.doc, live |-> store'.live, schema |-> store'.schema,
                   old |-> store'.old, version |-> store'.version]
      /\ DocOK(store'.doc) /\ store'.old \subseteq Persist /\ store'.version = store.version + 1
      /\ \A p \in Persisted : store'.doc[p] = IF p \in DOMAIN mut.set THEN mut.set[p]
                                              ELSE IF p \in mut.unset THEN Zero(p)
                                              ELSE store.doc[p]
      /\ store'.old = IF mut.kind = "put" THEN {}
                      ELSE (IF store.schema < binary THEN Persist ELSE store.old) \ mut.whole
  BY <1>1, <1>2, <1>3, AppliedIs
<1>6. StoreOK'  BY <1>2, <1>5 DEF StoreOK
<1>7. MemSound'  BY <1>1, <1>2 DEF MemSound
<1>8. Versions'  BY <1>1, <1>4, <1>5 DEF DaoInv, Versions, StoreOK
<1>9. ClientHas'  BY <1>1, <1>2, <1>4 DEF DaoInv, ClientHas
<1>10. StoreHas'
  <2>1. SUFFICES ASSUME loaded', NEW p \in Persisted, p[1] \notin store'.old
                 PROVE  store'.doc[p] = Content(mem, p)
    BY <1>1, <1>4 DEF StoreHas
  <2>2. mut = PrepareMutation(mem, tx.change)  BY <1>1, <1>3, <2>1
  <2>3. /\ mut.kind \in {"put", "patch"} /\ (mut.kind = "put" => version = 0)
        /\ p \in DOMAIN mut.set => mut.set[p] = Content(mem, p)
        /\ p \notin DOMAIN mut.set /\ p \in mut.unset => Content(mem, p) = Zero(p)
        /\ p \notin DOMAIN mut.set /\ p \notin mut.unset => version # 0 /\ ~Marked(tx.change, p)
        /\ p[1] \in mut.whole => p \in DOMAIN mut.set
    BY <1>2, <2>2, MutationIs
  <2>4. CASE p \in DOMAIN mut.set \/ p \in mut.unset  BY <1>5, <2>3, <2>4
  <2>5. CASE p \notin DOMAIN mut.set /\ p \notin mut.unset
    <3>1. version # 0 /\ mut.kind = "patch" /\ p[1] \notin mut.whole  BY <2>3, <2>5
    <3>2. p[1] \in Persist  BY DEF Persisted
    <3>3. p[1] \notin store.old  BY <1>5, <2>1, <3>1, <3>2
    <3>4. Content(mem, p) = Content(tx.before, p)
      BY <1>1, <2>3, <2>5 DEF DaoInv, MarksCover
    <3>5. version > 0  BY <3>1 DEF DaoInv, Versions
    <3>6. store.doc[p] = Content(tx.before, p)
      BY <1>1, <1>2, <3>3, <3>5 DEF DaoInv, StoreHas
    <3> QED  BY <1>5, <2>5, <3>4, <3>6
  <2> QED  BY <2>4, <2>5
<1> QED  BY <1>4, <1>6, <1>7, <1>8, <1>9, <1>10 DEF DaoInv

LEMMA CommitFailsKeeps ==
  ASSUME DaoInv, CommitFails
  PROVE  DaoInv'
<1>1. /\ tx.phase \in {"running", "prepared"} /\ tx' = [tx EXCEPT !.phase = "failed"]
      /\ count' = [count EXCEPT !.faults = @ + 1]
      /\ mem' = mem /\ loaded' = loaded /\ version' = version /\ unsynced' = unsynced
      /\ store' = store /\ mirror' = mirror
  BY DEF CommitFails
<1>2. /\ tx'.phase = "failed" /\ tx'.policy = tx.policy /\ tx'.undo = tx.undo
      /\ tx'.change = tx.change /\ tx'.before = tx.before
      /\ tx' = [phase |-> tx'.phase, policy |-> tx'.policy, undo |-> tx'.undo,
                change |-> tx'.change, before |-> tx'.before, mutation |-> tx'.mutation]
  BY <1>1 DEF DaoInv, TxShape
<1>3. StoreOK'  BY <1>1 DEF DaoInv, StoreOK
<1>4. TxShape'  BY <1>1, <1>2 DEF DaoInv, TxShape
<1>5. MemSound'  BY <1>1, <1>2 DEF DaoInv, MemSound
<1>6. LogUndoes'  BY <1>1, <1>2 DEF DaoInv, LogUndoes
<1>7. MarksCover'  BY <1>2 DEF MarksCover
<1>8. Versions'
  <2>1. count' \in [ops : Nat, txs : 0 .. MaxTx, faults : Nat] /\ count'.txs = count.txs
    BY <1>1, CountOne DEF DaoInv
  <2> QED  BY <1>1, <1>2, <2>1 DEF DaoInv, Versions
<1>9. ClientHas'  BY <1>1, <1>2 DEF DaoInv, ClientHas
<1>10. StoreHas'  BY <1>1, <1>2 DEF DaoInv, StoreHas
<1> QED  BY <1>3, <1>4, <1>5, <1>6, <1>7, <1>8, <1>9, <1>10 DEF DaoInv

LEMMA RunUndoKeeps ==
  ASSUME DaoInv, RunUndo
  PROVE  DaoInv'
<1>1. /\ tx.phase = "failed" /\ tx.undo # <<>> /\ mem' = UndoOne(mem, Head(tx.undo))
      /\ tx' = [tx EXCEPT !.undo = Tail(@)]
      /\ loaded' = loaded /\ version' = version /\ unsynced' = unsynced
      /\ store' = store /\ mirror' = mirror /\ count' = count
  BY DEF RunUndo
<1>2. /\ tx'.phase = "failed" /\ tx'.policy = tx.policy /\ tx'.undo = Tail(tx.undo)
      /\ tx'.change = tx.change /\ tx'.before = tx.before
      /\ tx' = [phase |-> tx'.phase, policy |-> tx'.policy, undo |-> tx'.undo,
                change |-> tx'.change, before |-> tx'.before, mutation |-> tx'.mutation]
  BY <1>1 DEF DaoInv, TxShape
<1>3. tx.policy = "undo" /\ Undoes(mem, tx.undo, tx.before)
  BY <1>1 DEF DaoInv, TxShape, LogUndoes
<1>4. IsMem(mem') /\ Undoes(mem', Tail(tx.undo), tx.before)  BY <1>1, <1>3, UndoesOneLess
<1>5. StoreOK'  BY <1>1 DEF DaoInv, StoreOK
<1>6. TxShape'  BY <1>1, <1>2 DEF DaoInv, TxShape
<1>7. MemSound'  BY <1>2, <1>4 DEF MemSound
<1>8. LogUndoes'  BY <1>2, <1>3, <1>4 DEF LogUndoes
<1>9. MarksCover'  BY <1>2 DEF MarksCover
<1>10. Versions'  BY <1>1, <1>2 DEF DaoInv, Versions
<1>11. ClientHas'  BY <1>1, <1>2 DEF DaoInv, ClientHas
<1>12. StoreHas'  BY <1>1, <1>2 DEF DaoInv, StoreHas
<1> QED  BY <1>5, <1>6, <1>7, <1>8, <1>9, <1>10, <1>11, <1>12 DEF DaoInv

\* What a rollback leaves.
LEMMA RollbackIs ==
  ASSUME DaoInv, Rollback
  PROVE  /\ Good(mem') /\ \A p \in Paths : Content(mem', p) = Content(tx.before, p)
         /\ tx.policy = "undo" => mem' = tx.before
<1>1. /\ tx.phase = "failed" /\ tx.undo = <<>>
      /\ mem' = IF tx.policy = "undo" THEN mem ELSE Restored
  BY DEF Rollback
<1>2. Good(tx.before)  BY <1>1 DEF DaoInv, TxShape
<1>3. CASE tx.policy = "undo"
  <2>1. mem = tx.before  BY <1>1, <1>3, UndoesAll DEF DaoInv, LogUndoes
  <2> QED  BY <1>1, <1>2, <1>3, <2>1
<1>4. CASE tx.policy # "undo"
  <2>1. Good(Restored) /\ \A p \in Paths : Content(Restored, p) = Content(tx.before, p)
    BY <1>2, RestoredIs
  <2> QED  BY <1>1, <1>4, <2>1
<1> QED  BY <1>3, <1>4

LEMMA RollbackKeeps ==
  ASSUME DaoInv, Rollback
  PROVE  DaoInv'
<1>1. /\ tx.phase = "failed" /\ tx' = NoTx /\ loaded' = loaded /\ version' = version
      /\ unsynced' = unsynced /\ store' = store /\ mirror' = mirror /\ count' = count
  BY DEF Rollback
<1>2. Good(mem') /\ IsMem(mem') /\ \A p \in Paths : Content(mem', p) = Content(tx.before, p)
  BY RollbackIs DEF Good
<1>3. TxShape' /\ LogUndoes' /\ MarksCover' /\ tx'.phase = "none"
  BY <1>1, NoTxKeeps, NoTxIs
<1>4. StoreOK'  BY <1>1 DEF DaoInv, StoreOK
<1>5. MemSound'  BY <1>2 DEF MemSound
<1>6. Versions'  BY <1>1, <1>3 DEF DaoInv, Versions, StoreOK
<1>7. ClientHas'
  <2>1. \A p \in DOMAIN mirror : p \in Paths  BY DEF DaoInv, ClientHas
  <2> QED  BY <1>1, <1>2, <1>3, <2>1 DEF DaoInv, ClientHas
<1>8. StoreHas'
  <2>1. \A p \in Persisted : p \in Paths  BY DEF Persisted
  <2> QED  BY <1>1, <1>2, <1>3, <2>1 DEF DaoInv, StoreHas
<1> QED  BY <1>3, <1>4, <1>5, <1>6, <1>7, <1>8 DEF DaoInv

LEMMA SyncFieldsKeeps ==
  ASSUME DaoInv, SyncFields
  PROVE  DaoInv'
<1>1. /\ tx.phase = "none"
      /\ mirror' = [p \in DOMAIN mirror |-> IF p[1] \in unsynced THEN Content(mem, p) ELSE mirror[p]]
      /\ unsynced' = {} /\ mem' = mem /\ tx' = tx /\ loaded' = loaded /\ version' = version
      /\ store' = store /\ count' = count
  BY DEF SyncFields
<1>2. /\ StoreOK' /\ TxShape' /\ MemSound' /\ LogUndoes' /\ MarksCover' /\ Versions' /\ StoreHas'
  BY <1>1 DEF DaoInv, StoreOK, TxShape, MemSound, LogUndoes, MarksCover, Versions, StoreHas
<1>3. ClientHas'
  <2>1. /\ DOMAIN mirror' = DOMAIN mirror
        /\ \A p \in DOMAIN mirror : mirror'[p] = IF p[1] \in unsynced THEN Content(mem, p) ELSE mirror[p]
    BY <1>1
  <2> QED  BY <1>1, <2>1 DEF DaoInv, ClientHas
<1> QED  BY <1>2, <1>3 DEF DaoInv

LEMMA RestartKeeps ==
  ASSUME DaoInv, NEW b, Restart(b)
  PROVE  DaoInv'
<1>1. /\ loaded' = FALSE /\ version' = 0 /\ mem' = Blank /\ tx' = NoTx /\ unsynced' = {}
      /\ count' = [count EXCEPT !.faults = @ + 1] /\ mirror' = mirror
      /\ store' = store \/ (tx.phase = "prepared" /\ store' = Applied(tx.mutation))
  BY DEF Restart
<1>2. TxShape' /\ LogUndoes' /\ MarksCover' /\ tx'.phase = "none"
  BY <1>1, NoTxKeeps, NoTxIs
<1>3. StoreOK' /\ store'.version + 0 <= 1 + count.txs
  <2>1. CASE store' = store  BY <2>1 DEF DaoInv, StoreOK, Versions
  <2>2. CASE tx.phase = "prepared" /\ store' = Applied(tx.mutation)
    <3> DEFINE mut == tx.mutation
    <3>1. \A p \in Persisted : p \in DOMAIN mut.set => mut.set[p] \in Wire(p)
      BY <2>2, MutationWire
    <3>2. StoreOK /\ store' = Applied(mut)  BY <2>2 DEF DaoInv
    <3> HIDE DEF mut
    <3>3. /\ store' = [doc |-> store'.doc, live |-> store'.live, schema |-> store'.schema,
                       old |-> store'.old, version |-> store'.version]
          /\ DocOK(store'.doc) /\ store'.old \subseteq Persist
          /\ store'.version = store.version + 1
      BY <3>1, <3>2, AppliedIs
    <3> QED  BY <2>2, <3>3 DEF DaoInv, StoreOK, Versions
  <2> QED  BY <1>1, <2>1, <2>2
<1>4. MemSound'  BY <1>1, BlankIs DEF MemSound
<1>5. Versions'
  <2>1. count' \in [ops : Nat, txs : 0 .. MaxTx, faults : Nat] /\ count'.txs = count.txs
    BY <1>1, CountOne DEF DaoInv
  <2> QED  BY <1>1, <1>2, <1>3, <2>1 DEF Versions, StoreOK
<1>6. ClientHas' /\ StoreHas'  BY <1>1 DEF DaoInv, ClientHas, StoreHas
<1> QED  BY <1>2, <1>3, <1>4, <1>5, <1>6 DEF DaoInv

LEMMA CalledKeeps ==
  ASSUME DaoInv, Called
  PROVE  DaoInv'
BY EffectKeeps, PanicKeeps DEF Called

LEMMA StutterKeeps ==
  ASSUME DaoInv, UNCHANGED vars
  PROVE  DaoInv'
<1>1. /\ mem' = mem /\ loaded' = loaded /\ version' = version /\ tx' = tx
      /\ unsynced' = unsynced /\ store' = store /\ mirror' = mirror /\ count' = count
  BY DEF vars
<1>2. /\ StoreOK' /\ TxShape' /\ MemSound' /\ LogUndoes' /\ Versions' /\ ClientHas' /\ StoreHas'
  BY <1>1 DEF DaoInv, StoreOK, TxShape, MemSound, LogUndoes, Versions, ClientHas, StoreHas
<1>3. PrepareMutation(mem, tx.change)' = PrepareMutation(mem, tx.change)
  BY <1>1 DEF PrepareMutation
<1>4. PrepareMutation(mem, [tx.change EXCEPT !.delete = TRUE])'
        = PrepareMutation(mem, [tx.change EXCEPT !.delete = TRUE])
  BY <1>1 DEF PrepareMutation
<1>5. MarksCover'  BY <1>1, <1>3, <1>4 DEF DaoInv, MarksCover
<1> QED  BY <1>2, <1>5 DEF DaoInv
-----------------------------------------------------------------------------
(* Every step, and the theorems                                             *)

LEMMA InTx ==
  ASSUME DaoInv, tx.phase = "running"
  PROVE  Good(mem) /\ ChangeOK(tx.change, mem)
BY DEF DaoInv, TxShape, MemSound, MarksCover

LEMMA PlacesInTx ==
  ASSUME NEW new, NEW c, NEW marked, SetPlaces(new, c, marked)
  PROVE  tx.phase = "running"
BY DEF SetPlaces, Step, Panic

LEMMA NextKeeps ==
  ASSUME DaoInv, Next
  PROVE  DaoInv'
<1>1. CASE New \/ Load \/ Delete \/ Prepare \/ Commit \/ CommitFails \/ RunUndo \/ Rollback
           \/ SyncFields
  BY <1>1, NewKeeps, LoadKeeps, DeleteKeeps, PrepareKeeps, CommitKeeps, CommitFailsKeeps,
     RunUndoKeeps, RollbackKeeps, SyncFieldsKeeps
<1>2. ASSUME NEW policy \in {"undo", "state"}, Begin(policy) PROVE DaoInv'
  BY <1>2, BeginKeeps
<1>3. ASSUME NEW n \in Levels, SetScore(n) PROVE DaoInv'
  <2>1. tx.phase = "running"  BY <1>3 DEF SetScore, Step
  <2> QED  BY <1>3, <2>1, InTx, ScoreCalled, CalledKeeps
<1>4. ASSUME NEW n \in Levels, NEW o \in Objects, SetLevel(o, n) PROVE DaoInv'
  <2>1. tx.phase = "running"  BY <1>4 DEF SetLevel, Step
  <2> QED  BY <1>4, <2>1, InTx, LevelCalled, CalledKeeps
<1>5. ASSUME NEW v \in Values \union {Nil}, SetMount(v) PROVE DaoInv'
  <2>1. tx.phase = "running"  BY <1>5, PlacesInTx DEF SetMount
  <2> QED  BY <1>5, <2>1, InTx, MountCalled, CalledKeeps
<1>6. ASSUME NEW k \in Keys, DelEquips(k) PROVE DaoInv'
  <2>1. tx.phase = "running"  BY <1>6, PlacesInTx DEF DelEquips
  <2> QED  BY <1>6, <2>1, InTx, DelEquipsCalled, CalledKeeps
<1>7. ASSUME NEW k \in Keys, NEW v \in Values, SetEquips(k, v) PROVE DaoInv'
  <2>1. tx.phase = "running"  BY <1>7, PlacesInTx DEF SetEquips
  <2> QED  BY <1>7, <2>1, InTx, EquipsCalled, CalledKeeps
<1>8. ASSUME NEW v \in Values, AddSquad(v) PROVE DaoInv'
  <2>1. tx.phase = "running"  BY <1>8, PlacesInTx DEF AddSquad
  <2> QED  BY <1>8, <2>1, InTx, AddSquadCalled, CalledKeeps
<1>9. ASSUME NEW v \in Values, NEW gem \in Gems \union {Nil}, SetCore(v, gem) PROVE DaoInv'
  <2>1. tx.phase = "running"  BY <1>9, PlacesInTx DEF SetCore
  <2> QED  BY <1>9, <2>1, InTx, CoreCalled, CalledKeeps
<1>10. ASSUME NEW n \in {0} \union Items, NEW s \in [1 .. n -> Values], SetSquadAll(s)
       PROVE  DaoInv'
  <2>1. tx.phase = "running"  BY <1>10, PlacesInTx DEF SetSquadAll
  <2> QED  BY <1>10, <2>1, InTx, SquadAllCalled, CalledKeeps
<1>11. ASSUME NEW b \in {1, 2}, Restart(b) PROVE DaoInv'
  BY <1>11, RestartKeeps
<1> QED
  BY <1>1, <1>2, <1>3, <1>4, <1>5, <1>6, <1>7, <1>8, <1>9, <1>10, <1>11 DEF Next

LEMMA DaoSafe == Spec => []DaoInv
<1>1. Init => DaoInv  BY InitDao
<1>2. DaoInv /\ [Next]_vars => DaoInv'  BY NextKeeps, StutterKeeps
<1> QED  BY <1>1, <1>2, PTL DEF Spec

\* Whatever setters a handler calls, and whichever of them is refused, an object that is in
\* use reports every change of a nested value to the one place that holds it.
THEOREM HoldersAreTold == Spec => []ReportsToItsHolder
<1>1. DaoInv => ReportsToItsHolder
  <2>1. SUFFICES ASSUME DaoInv PROVE ReportsToItsHolder  OBVIOUS
  <2>2. /\ mem.at \in [Places -> Objects \union {Nil}] /\ mem.level \in [Objects -> Levels]
        /\ mem.owner \in [Objects -> Places \union {NoPlace}] /\ mem.score \in Levels
    BY <2>1 DEF DaoInv, MemSound, IsMem
  <2>3. version \in 0 .. MaxTx + 1  BY <2>1, DaoAssumption DEF DaoInv, Versions, StoreOK
  <2>4. /\ DOMAIN store.doc = {p \in Paths : p[1] \in Persist} /\ store.old \subseteq Persist
        /\ unsynced \subseteq Sync
    BY <2>1 DEF DaoInv, StoreOK, DocOK, Persisted, ClientHas
  <2>5. TypeOK  BY <2>1, <2>2, <2>3, <2>4 DEF DaoInv, TxShape, TypeOK
  <2>6. loaded /\ tx.phase # "failed" => Consistent(mem)  BY <2>1 DEF DaoInv, MemSound, Good
  <2> QED  BY <2>5, <2>6 DEF ReportsToItsHolder, Consistent
<1> QED  BY <1>1, DaoSafe, PTL

\* A rollback leaves the object as its transaction found it; the undo log leaves every
\* value as it found it, those that the object had let go too.
THEOREM RollbackIsExact == Spec => RollbackRestores
<1> DEFINE Back == (tx.phase = "failed" /\ tx'.phase = "none" /\ loaded') =>
                      /\ Document(mem', Fields) = Document(tx.before, Fields)
                      /\ tx.policy = "undo" => mem' = tx.before
<1>1. ASSUME DaoInv, Next PROVE Back
  <2>1. SUFFICES ASSUME tx.phase = "failed", tx'.phase = "none", loaded'
                 PROVE  /\ Document(mem', Fields) = Document(tx.before, Fields)
                        /\ tx.policy = "undo" => mem' = tx.before
    OBVIOUS
  <2>2. loaded  BY <1>1, <2>1 DEF DaoInv, TxShape
  <2>3. Rollback
    <3>1. /\ ~New /\ ~Load /\ ~Delete /\ ~Prepare /\ ~Commit /\ ~CommitFails /\ ~SyncFields
          /\ \A policy : ~Begin(policy)
          /\ \A b : ~Restart(b)
      BY <2>1, <2>2
      DEF New, Load, Delete, Prepare, Commit, CommitFails, SyncFields, Begin, Restart
    <3>2. ~RunUndo
      <4>1. tx = [phase |-> tx.phase, policy |-> tx.policy, undo |-> tx.undo,
                  change |-> tx.change, before |-> tx.before, mutation |-> tx.mutation]
        BY <1>1 DEF DaoInv, TxShape
      <4>2. RunUndo => tx'.phase = tx.phase  BY <4>1 DEF RunUndo
      <4> QED  BY <2>1, <4>2
    <3>3. \A new, c, marked : ~SetPlaces(new, c, marked)  BY <2>1, PlacesInTx
    <3>4. /\ \A n : ~SetScore(n)
          /\ \A o, n : ~SetLevel(o, n)
      BY <2>1 DEF SetScore, SetLevel, Step
    <3>5. /\ \A v : ~SetMount(v) /\ ~AddSquad(v)
          /\ \A k : ~DelEquips(k)
          /\ \A k, v : ~SetEquips(k, v) /\ ~SetCore(k, v)
          /\ \A s : ~SetSquadAll(s)
      BY <3>3 DEF SetMount, AddSquad, DelEquips, SetEquips, SetCore, SetSquadAll
    <3> QED  BY <1>1, <3>1, <3>2, <3>4, <3>5 DEF Next
  <2>4. (\A p \in Paths : Content(mem', p) = Content(tx.before, p))
        /\ (tx.policy = "undo" => mem' = tx.before)
    BY <1>1, <2>3, RollbackIs
  <2>5. Document(mem', Fields) = Document(tx.before, Fields)  BY <2>4 DEF Document
  <2> QED  BY <2>4, <2>5
<1>2. ASSUME DaoInv, [Next]_vars PROVE [Back]_vars
  BY <1>1, <1>2
<1>3. Spec => [][Back]_vars  BY <1>2, DaoSafe, PTL DEF Spec
<1> QED  BY <1>3 DEF RollbackRestores

\* Between transactions the client has every field that is not marked for it, after a
\* rollback too.
THEOREM ClientFollows == Spec => []ClientIsCurrent
<1>1. DaoInv => ClientIsCurrent  BY DEF DaoInv, ClientHas, ClientIsCurrent
<1> QED  BY <1>1, DaoSafe, PTL

\* Between transactions the stored document says what the object says: every change was in
\* a mutation, under the key it belongs to, whoever made it and through whatever reference.
THEOREM StoreFollows == Spec => []StoredIsObject
<1>1. DaoInv => StoredIsObject
  BY DEF DaoInv, StoreHas, StoreOK, DocOK, StoredIsObject
<1> QED  BY <1>1, DaoSafe, PTL


=============================================================================
