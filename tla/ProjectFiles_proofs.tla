------------------------- MODULE ProjectFiles_proofs -------------------------
(* What commands do to the project, whatever other commands and the         *)
(* developer do meanwhile: they keep the developer's work, take back what   *)
(* failed, and a command that met nobody leaves everything current.         *)
EXTENDS ProjectFiles, WellFoundedInduction, SequenceTheorems, TLAPS

LEMMA LeastOf ==
  ASSUME NEW S, S \subseteq Nat, S # {}
  PROVE  \E n \in S : \A k \in S : n <= k
<1>1. PICK R : IsWellFoundedOn(R, Nat) /\ \A a, b \in Nat : <<a, b>> \in R <=> a < b
  BY NatLessThanWellFounded DEF OpToRel
<1>2. PICK n \in S : \A k \in S : ~(<<k, n>> \in R)
  <2>1. IsWellFoundedOn(R, Nat)  BY <1>1
  <2>2. \E x \in S : \A y \in S : ~(<<y, x>> \in R)  BY <2>1, WFMin
  <2> QED  BY <2>2
<1>3. \A k \in S : ~(k < n)  BY <1>1, <1>2
<1>4. \A k \in S : n <= k  BY <1>3
<1> QED  BY <1>4

LEMMA ContentFacts ==
  /\ ~Generated(Absent) /\ ~Generated(Seed)
  /\ \A k : ~Generated(User(k)) /\ User(k) # Absent /\ User(k) # Seed
  /\ User(1) # User(2)
  /\ \A c : ~Generated(Tidy(c))
  /\ \A c : Generated(Made(c)) /\ Made(c) # Absent
  /\ \A m : Generated(Template(m)) /\ Template(m) # Absent
  /\ Seed # Absent
<1>1. ~Generated(Absent)  BY DEF Generated
<1>2. Seed # Absent /\ ~Generated(Seed)  BY DEF Generated, Seed, Absent
<1>3. \A k : ~Generated(User(k)) /\ User(k) # Absent /\ User(k) # Seed  BY DEF Generated, User, Absent, Seed
<1>4. User(1) # User(2)  BY DEF User
<1>5. \A c : ~Generated(Tidy(c))  BY DEF Generated, Tidy, Absent
<1>6. \A c : Generated(Made(c)) /\ Made(c) # Absent  BY DEF Generated, Made, Absent
<1>7. \A m : Generated(Template(m)) /\ Template(m) # Absent  BY DEF Generated, Template, Absent
<1> QED  BY <1>1, <1>2, <1>3, <1>4, <1>5, <1>6, <1>7


-----------------------------------------------------------------------------
(* Commands and what they keep                                              *)

Fields == {"kind", "pc", "add", "before", "m", "wrote", "yaml", "stage", "snap", "plan",
           "applied"}
SeenFields == {"root", "yaml", "touched", "late", "met"}

IsCommand(r) == r = [x \in Fields |-> r[x]]
IsSeen(r) == r = [x \in SeenFields |-> r[x]]

Resting == {"idle", "done", "failed"}
Copying == {"copy", "render", "plan", "verify", "commit", "rollback"}
Adding == {"scaffold", "declare", "load", "undeclare", "restore"}

Shaped ==
  /\ cmd = [c \in Cmds |-> cmd[c]] /\ seen = [c \in Cmds |-> seen[c]]
  /\ \A c \in Cmds : IsCommand(cmd[c]) /\ IsSeen(seen[c])

LEMMA IdleIs ==
  /\ IsCommand(Idle) /\ Idle.pc = "idle" /\ Idle.kind = "none" /\ Idle.applied = <<>>
  /\ Idle.wrote = {} /\ Idle.add = {} /\ Idle.plan = Nothing
  /\ IsSeen(Unseen) /\ Unseen.touched = {}
BY DEF Idle, IsCommand, IsSeen, Unseen, Fields, SeenFields

\* What a step that touches fs leaves to every command but c: it is where it was,
\* and has seen that fs was touched.
Others(c, fs) ==
  \A d \in Cmds \ {c} :
     /\ cmd'[d] = cmd[d]
     /\ seen'[d].root = seen[d].root /\ seen'[d].yaml = seen[d].yaml
     /\ Active(d) => seen'[d].touched = seen[d].touched \union fs

\* c knows of the project's beginnings and of others' changes what it knew.
SeesOn(c) == /\ seen'[c].root = seen[c].root /\ seen'[c].yaml = seen[c].yaml
             /\ seen'[c].touched = seen[c].touched

LEMMA SeenByIs ==
  ASSUME NEW d, IsSeen(seen[d]), NEW fs
  PROVE  /\ IsSeen(SeenBy(d, fs))
         /\ SeenBy(d, fs).root = seen[d].root /\ SeenBy(d, fs).yaml = seen[d].yaml
         /\ Active(d) => SeenBy(d, fs).touched = seen[d].touched \union fs
BY DEF SeenBy, IsSeen, SeenFields

LEMMA NoteIs ==
  ASSUME Shaped, NEW c, NEW fs, Note(fs, c)
  PROVE  /\ seen' = [d \in Cmds |-> seen'[d]] /\ \A d \in Cmds : IsSeen(seen'[d])
         /\ c \in Cmds => SeesOn(c)
         /\ \A d \in Cmds \ {c} :
              /\ seen'[d].root = seen[d].root /\ seen'[d].yaml = seen[d].yaml
              /\ Active(d) => seen'[d].touched = seen[d].touched \union fs
BY SeenByIs DEF Note, Shaped, SeesOn

LEMMA SeenKeptIs ==
  ASSUME Shaped, UNCHANGED seen
  PROVE  /\ seen' = [d \in Cmds |-> seen'[d]] /\ \A d \in Cmds : IsSeen(seen'[d])
         /\ \A c \in Cmds : SeesOn(c)
BY DEF Shaped, SeesOn

\* The end of a command: nothing of it stays.
LEMMA EndIs ==
  ASSUME Shaped, NEW c \in Cmds, NEW how, NEW fs, EndChanging(c, how, fs)
  PROVE  /\ Shaped' /\ Others(c, fs)
         /\ cmd'[c].pc = how /\ cmd'[c].kind = "none" /\ cmd'[c].applied = <<>>
         /\ cmd'[c].wrote = {} /\ cmd'[c].add = {} /\ cmd'[c].plan = Nothing
<1>1. /\ cmd' = [cmd EXCEPT ![c] = [Idle EXCEPT !.pc = how]]
      /\ seen' = [d \in Cmds |-> IF d = c THEN Unseen ELSE SeenBy(d, fs)]
  BY DEF EndChanging
<1>2. /\ cmd' = [d \in Cmds |-> cmd'[d]]
      /\ \A d \in Cmds \ {c} : cmd'[d] = cmd[d]
      /\ cmd'[c] = [Idle EXCEPT !.pc = how]
  BY <1>1 DEF Shaped
<1>3. /\ seen' = [d \in Cmds |-> seen'[d]]
      /\ \A d \in Cmds : IsSeen(seen'[d])
      /\ \A d \in Cmds \ {c} :
           /\ seen'[d].root = seen[d].root /\ seen'[d].yaml = seen[d].yaml
           /\ Active(d) => seen'[d].touched = seen[d].touched \union fs
  BY <1>1, IdleIs, SeenByIs DEF Shaped
<1>4. /\ IsCommand(cmd'[c]) /\ cmd'[c].pc = how
      /\ cmd'[c].kind = "none" /\ cmd'[c].applied = <<>> /\ cmd'[c].wrote = {}
      /\ cmd'[c].add = {} /\ cmd'[c].plan = Nothing
  <2>1. IsCommand([Idle EXCEPT !.pc = how])  BY IdleIs DEF IsCommand, Fields
  <2>2. [Idle EXCEPT !.pc = how].pc = how  BY IdleIs DEF IsCommand, Fields
  <2>3. \A x \in Fields \ {"pc"} : [Idle EXCEPT !.pc = how][x] = Idle[x]  BY IdleIs DEF IsCommand, Fields
  <2>4. cmd'[c].pc = how /\ \A x \in Fields \ {"pc"} : cmd'[c][x] = Idle[x]  BY <1>2, <2>2, <2>3
  <2>5. cmd'[c].plan = Idle.plan /\ cmd'[c].kind = Idle.kind /\ cmd'[c].applied = Idle.applied
        /\ cmd'[c].wrote = Idle.wrote /\ cmd'[c].add = Idle.add
    BY <2>4 DEF Fields
  <2> QED  BY <1>2, <2>1, <2>4, <2>5, IdleIs
<1> QED  BY <1>2, <1>3, <1>4 DEF Others, Shaped

\* A command that goes on, changing of what it keeps only where it is.
Goes(c, p) ==
  /\ cmd'[c].pc = p
  /\ \A x \in Fields \ {"pc"} : cmd'[c][x] = cmd[c][x]

LEMMA GoIs ==
  ASSUME Shaped, NEW c \in Cmds, NEW p, Go(c, p)
  PROVE  Shaped' /\ Others(c, {}) /\ SeesOn(c) /\ Goes(c, p)
<1>0. cmd = [d \in Cmds |-> cmd[d]] /\ IsCommand(cmd[c])  BY DEF Shaped
<1>1. cmd' = [cmd EXCEPT ![c].pc = p] /\ UNCHANGED seen  BY DEF Go
<1>2. cmd' = [d \in Cmds |-> cmd'[d]] /\ \A d \in Cmds \ {c} : cmd'[d] = cmd[d]
  BY <1>0, <1>1
<1>3. IsCommand(cmd'[c]) /\ cmd'[c].pc = p  BY <1>0, <1>1 DEF IsCommand, Fields
<1>4. \A x \in Fields \ {"pc"} : cmd'[c][x] = cmd[c][x]
  BY <1>0, <1>1 DEF IsCommand, Fields
<1> QED  BY <1>1, <1>2, <1>3, <1>4, SeenKeptIs DEF Others, SeesOn, Shaped, Goes

-----------------------------------------------------------------------------
(* The files a commit has replaced, in order                                *)

RangeOf(s) == {s[n] : n \in DOMAIN s}
Injective(s) == \A i, j \in 1 .. Len(s) : s[i] = s[j] => i = j

LEMMA EmptyIs ==
  \A S : <<>> \in Seq(S) /\ Injective(<<>>) /\ RangeOf(<<>>) = {}
BY DEF Injective, RangeOf

LEMMA AppendIs ==
  ASSUME NEW S, NEW s \in Seq(S), Injective(s), NEW e \in S, e \notin RangeOf(s)
  PROVE  /\ Append(s, e) \in Seq(S) /\ Injective(Append(s, e))
         /\ RangeOf(Append(s, e)) = RangeOf(s) \union {e}
<1> DEFINE t == Append(s, e)
<1>1. t \in Seq(S) /\ Len(t) = Len(s) + 1 /\ Len(s) \in Nat /\ t[Len(s) + 1] = e
      /\ \A i \in 1 .. Len(s) : t[i] = s[i]
  OBVIOUS
<1> HIDE DEF t
<1>2. DOMAIN s = 1 .. Len(s) /\ DOMAIN t = 1 .. Len(s) + 1  BY <1>1
<1>3. \A i \in 1 .. Len(s) : s[i] # e  BY <1>2 DEF RangeOf
<1>4. Injective(t)  BY <1>1, <1>3 DEF Injective
<1>5. RangeOf(t) = RangeOf(s) \union {e}
  <2>1. ASSUME NEW x \in RangeOf(t) PROVE x \in RangeOf(s) \union {e}
    BY <1>1, <1>2, <2>1 DEF RangeOf
  <2>2. ASSUME NEW x \in RangeOf(s) PROVE x \in RangeOf(t)
    BY <1>1, <1>2, <2>2 DEF RangeOf
  <2>3. e \in RangeOf(t)  BY <1>1, <1>2 DEF RangeOf
  <2> QED  BY <2>1, <2>2, <2>3
<1> QED  BY <1>1, <1>4, <1>5 DEF t

LEMMA ChopIs ==
  ASSUME NEW S, NEW s \in Seq(S), Injective(s), Len(s) > 0
  PROVE  /\ SubSeq(s, 1, Len(s) - 1) \in Seq(S) /\ Injective(SubSeq(s, 1, Len(s) - 1))
         /\ RangeOf(SubSeq(s, 1, Len(s) - 1)) = RangeOf(s) \ {s[Len(s)]}
         /\ s[Len(s)] \in S /\ s[Len(s)] \in RangeOf(s)
<1> DEFINE t == SubSeq(s, 1, Len(s) - 1)
<1>0. Len(s) \in Nat /\ DOMAIN s = 1 .. Len(s)  OBVIOUS
<1>1. t \in Seq(S) /\ Len(t) = Len(s) - 1 /\ \A i \in 1 .. Len(s) - 1 : t[i] = s[i]
  BY <1>0
<1> HIDE DEF t
<1>2. DOMAIN t = 1 .. Len(s) - 1  BY <1>0, <1>1
<1>3. Injective(t)  BY <1>0, <1>1 DEF Injective
<1>4. RangeOf(t) = RangeOf(s) \ {s[Len(s)]}
  <2>1. ASSUME NEW x \in RangeOf(t) PROVE x \in RangeOf(s) \ {s[Len(s)]}
    <3>1. PICK i \in 1 .. Len(s) - 1 : x = s[i]  BY <1>1, <1>2 DEF RangeOf
    <3>2. s[i] # s[Len(s)]  BY <1>0 DEF Injective
    <3> QED  BY <1>0, <3>1, <3>2 DEF RangeOf
  <2>2. ASSUME NEW x \in RangeOf(s), x # s[Len(s)] PROVE x \in RangeOf(t)
    <3>1. PICK i \in 1 .. Len(s) : x = s[i]  BY <1>0 DEF RangeOf
    <3>2. i \in 1 .. Len(s) - 1  BY <1>0, <2>2, <3>1
    <3> QED  BY <1>1, <1>2, <3>1, <3>2 DEF RangeOf
  <2> QED  BY <2>1, <2>2
<1>5. s[Len(s)] \in S /\ s[Len(s)] \in RangeOf(s)  BY <1>0 DEF RangeOf
<1> QED  BY <1>1, <1>3, <1>4, <1>5 DEF t

-----------------------------------------------------------------------------
(* The inductive invariant                                                  *)

\* What a command is about at each of its steps, and what it remembers.
CmdOf(c) ==
  /\ cmd[c].pc \in Resting \union Copying \union Adding \union {"rename"}
  /\ cmd[c].pc = "rename" => cmd[c].kind = "new"
  /\ cmd[c].pc \in Copying => cmd[c].kind \in {"sync", "deps", "generate", "check", "add"}
  /\ cmd[c].pc \in Adding => cmd[c].kind = "add"
  /\ cmd[c].kind = "add" => cmd[c].before # {}
  /\ cmd[c].kind # "add" \/ cmd[c].pc = "scaffold" => cmd[c].wrote = {}
  /\ cmd[c].wrote \subseteq Inputs /\ cmd[c].add \subseteq Services
  /\ cmd[c].pc \in Copying \union Adding => manifest # {}
  /\ cmd[c].applied \in Seq(DOMAIN cmd[c].plan) /\ Injective(cmd[c].applied)
  /\ cmd[c].pc \notin {"commit", "rollback"} => cmd[c].applied = <<>>

\* A seed holds nothing, what was rendered, or what the developer made of it; an
\* input never looks like something a generator wrote.
SeedHolds == {Absent, Seed, User(1)}

RootInv ==
  /\ root = [f \in Files |-> root[f]]
  /\ manifest = {} => \A f \in Files : root[f] = Absent
  /\ \A f \in Inputs : ~Generated(root[f])
  /\ \A f \in Seeds : root[f] \in SeedHolds

\* The copy: a seed that was the developer's in it is his in the project, and was
\* his in the copy if the snapshot says so.
StagedOf(c) ==
  cmd[c].pc \in {"render", "plan"} =>
    /\ \A f \in Inputs : ~Generated(cmd[c].stage[f])
    /\ \A f \in Seeds :
         /\ cmd[c].stage[f] \in SeedHolds
         /\ cmd[c].stage[f] = User(1) => root[f] = User(1)
         /\ f \in DOMAIN cmd[c].snap /\ cmd[c].snap[f] = User(1) => cmd[c].stage[f] = User(1)

\* The plan: no input is in it, and a seed only to be created; one that became the
\* developer's before it was planned is what the comparison of the inputs refuses.
PlannedOf(c) ==
  cmd[c].pc \in {"verify", "commit", "rollback"} =>
    /\ DOMAIN cmd[c].plan \subseteq Files \ Inputs
    /\ \A f \in Seeds \intersect DOMAIN cmd[c].plan :
         /\ cmd[c].plan[f].body = Seed
         /\ \/ cmd[c].plan[f].before = Absent
            \/ /\ cmd[c].pc = "verify" /\ root[f] = User(1)
               /\ ~(f \in DOMAIN cmd[c].snap /\ cmd[c].snap[f] = User(1))

\* What is different from when the command began, in files no one else touched, is
\* what it has replaced and not put back, and what it has scaffolded; roost.yaml
\* differs by what it has declared and not taken back.
Declared(c) == cmd[c].kind = "add" /\ cmd[c].pc \in {"load", "undeclare"} \union Copying

RecordOf(c) ==
  Active(c) =>
    /\ \A f \in Files \ seen[c].touched :
         /\ f \in Applied(c) => /\ root[f] = cmd[c].plan[f].body
                                /\ cmd[c].plan[f].before = seen[c].root[f]
         /\ f \in cmd[c].wrote => root[f] = Seed /\ seen[c].root[f] = Absent
         /\ f \notin Applied(c) \union cmd[c].wrote => root[f] = seen[c].root[f]
    /\ Yaml \notin seen[c].touched =>
         /\ Declared(c) => /\ manifest = cmd[c].before \union cmd[c].add
                           /\ cmd[c].before = seen[c].yaml
         /\ ~Declared(c) => manifest = seen[c].yaml
         /\ cmd[c].pc \in {"scaffold", "declare"} => cmd[c].before = seen[c].yaml

Sound(c) == CmdOf(c) /\ StagedOf(c) /\ PlannedOf(c) /\ RecordOf(c)

FilesInv == Shaped /\ RootInv /\ \A c \in Cmds : Sound(c)

\* What any step may do to the files: nothing outside fs, nothing to a seed that is
\* the developer's, and nothing that takes the project away.
Touches(fs) ==
  /\ RootInv'
  /\ \A f \in Files \ fs : root'[f] = root[f]
  /\ \A f \in Seeds : root[f] = User(1) => root'[f] = User(1)
  /\ Yaml \notin fs => manifest' = manifest
  /\ manifest # {} => manifest' # {}

LEMMA Bystander ==
  ASSUME FilesInv, NEW c, NEW d \in Cmds \ {c}, NEW fs, Others(c, fs), Touches(fs)
  PROVE  Sound(d)'
<1>1. /\ cmd'[d] = cmd[d] /\ seen'[d].root = seen[d].root /\ seen'[d].yaml = seen[d].yaml
      /\ Active(d) => seen'[d].touched = seen[d].touched \union fs
  BY DEF Others
<1>2. CmdOf(d) /\ StagedOf(d) /\ PlannedOf(d) /\ RecordOf(d)  BY DEF FilesInv, Sound
<1>3. CmdOf(d)'  BY <1>1, <1>2 DEF CmdOf, Touches
<1>4. StagedOf(d)'  BY <1>1, <1>2 DEF StagedOf, Touches
<1>5. PlannedOf(d)'  BY <1>1, <1>2 DEF PlannedOf, Touches
<1>6. RecordOf(d)'
  <2>1. Applied(d)' = Applied(d) /\ (Declared(d)' <=> Declared(d)) /\ (Active(d)' <=> Active(d))
    BY <1>1 DEF Applied, Declared, Active
  <2> QED  BY <1>1, <1>2, <2>1 DEF RecordOf, Touches
<1> QED  BY <1>3, <1>4, <1>5, <1>6 DEF Sound

\* A step of c: what it leaves to others, and what c itself is after it.
LEMMA StepOf ==
  ASSUME FilesInv, NEW c, NEW fs, Shaped', Others(c, fs), Touches(fs),
         c \in Cmds => Sound(c)'
  PROVE  FilesInv'
BY Bystander DEF FilesInv, Touches

-----------------------------------------------------------------------------
(* Commands that end, and commands that give up                             *)

LEMMA Untouched ==
  ASSUME FilesInv, UNCHANGED <<manifest, root>>, NEW fs
  PROVE  Touches(fs)
BY DEF FilesInv, Touches, RootInv

LEMMA EndSound ==
  ASSUME FilesInv, NEW c \in Cmds, NEW how \in Resting, NEW fs, EndChanging(c, how, fs),
         Touches(fs)
  PROVE  FilesInv' /\ cmd'[c].pc = how
<1>1. /\ Shaped' /\ Others(c, fs)
      /\ cmd'[c].pc = how /\ cmd'[c].kind = "none" /\ cmd'[c].applied = <<>>
      /\ cmd'[c].wrote = {} /\ cmd'[c].add = {} /\ cmd'[c].plan = Nothing
  BY EndIs DEF FilesInv
<1>2. CmdOf(c)'  BY <1>1, EmptyIs DEF CmdOf, Resting, Copying, Adding
<1>3. StagedOf(c)' /\ PlannedOf(c)' /\ RecordOf(c)'
  BY <1>1 DEF StagedOf, PlannedOf, RecordOf, Active, Resting
<1> QED  BY <1>1, <1>2, <1>3, StepOf DEF Sound

LEMMA GoesIs ==
  ASSUME NEW c, NEW p, Goes(c, p)
  PROVE  /\ cmd'[c].pc = p /\ cmd'[c].kind = cmd[c].kind /\ cmd'[c].add = cmd[c].add
         /\ cmd'[c].before = cmd[c].before /\ cmd'[c].wrote = cmd[c].wrote
         /\ cmd'[c].stage = cmd[c].stage /\ cmd'[c].snap = cmd[c].snap
         /\ cmd'[c].plan = cmd[c].plan /\ cmd'[c].applied = cmd[c].applied
BY DEF Goes, Fields

\* A command that moves on and has neither replaced nor put back anything.
LEMMA RecordKept ==
  ASSUME NEW c, RecordOf(c), Active(c), SeesOn(c), UNCHANGED <<manifest, root>>,
         cmd'[c].applied = cmd[c].applied, cmd'[c].applied = <<>> \/ cmd'[c].plan = cmd[c].plan,
         cmd'[c].wrote = cmd[c].wrote,
         cmd'[c].before = cmd[c].before, cmd'[c].add = cmd[c].add,
         Declared(c)' <=> Declared(c), cmd'[c].pc \notin {"scaffold", "declare"}
  PROVE  RecordOf(c)'
<1>1. Applied(c)' = Applied(c) /\ (Applied(c) = {} \/ cmd'[c].plan = cmd[c].plan)
  BY DEF Applied
<1> QED  BY <1>1 DEF RecordOf, SeesOn

LEMMA GoSound ==
  ASSUME FilesInv, NEW c \in Cmds, NEW p, Go(c, p), UNCHANGED <<manifest, root>>,
         \/ /\ p = "undeclare" /\ cmd[c].pc \in {"render", "verify", "rollback"}
            /\ cmd[c].applied = <<>> /\ cmd[c].kind = "add"
         \/ p = "restore" /\ cmd[c].pc = "declare"
         \/ p = "rollback" /\ cmd[c].pc = "commit"
  PROVE  FilesInv' /\ cmd'[c].pc = p
<1>1. Shaped' /\ Others(c, {}) /\ SeesOn(c) /\ Goes(c, p)  BY GoIs DEF FilesInv
<1>2. /\ cmd'[c].pc = p /\ cmd'[c].kind = cmd[c].kind /\ cmd'[c].add = cmd[c].add
      /\ cmd'[c].before = cmd[c].before /\ cmd'[c].wrote = cmd[c].wrote
      /\ cmd'[c].stage = cmd[c].stage /\ cmd'[c].snap = cmd[c].snap
      /\ cmd'[c].plan = cmd[c].plan /\ cmd'[c].applied = cmd[c].applied
  BY <1>1, GoesIs
<1>3. CmdOf(c) /\ StagedOf(c) /\ PlannedOf(c) /\ RecordOf(c)  BY DEF FilesInv, Sound
<1>4. CmdOf(c)'  BY <1>2, <1>3 DEF CmdOf, Copying, Adding
<1>5. StagedOf(c)'  BY <1>2 DEF StagedOf
<1>6. PlannedOf(c)'  BY <1>2, <1>3 DEF PlannedOf
<1>7. RecordOf(c)'
  <2>1. Active(c) /\ (Declared(c)' <=> Declared(c))
    BY <1>2 DEF Declared, Copying, Active
  <2> QED  BY <1>1, <1>2, <1>3, <2>1, RecordKept
<1> QED  BY <1>1, <1>2, <1>4, <1>5, <1>6, <1>7, StepOf, Untouched DEF Sound

\* What a command that reports failure owes (AllOrNothing).
NothingLeft(c) ==
  /\ \A f \in Files \ seen[c].touched : root'[f] = seen[c].root[f]
  /\ Yaml \notin seen[c].touched => manifest' = seen[c].yaml

LEMMA NothingDone ==
  ASSUME NEW c, RecordOf(c), Active(c), UNCHANGED <<manifest, root>>, cmd[c].applied = <<>>,
         cmd[c].wrote = {}, ~Declared(c)
  PROVE  NothingLeft(c)
<1>1. Applied(c) = {}  BY DEF Applied
<1> QED  BY <1>1 DEF RecordOf, NothingLeft

\* A step of c that ends it in failure leaves nothing.
Owes(c) == cmd'[c].pc = "failed" => NothingLeft(c)

LEMMA GiveUpSound ==
  ASSUME FilesInv, NEW c \in Cmds, GiveUp(c), UNCHANGED <<manifest, root>>,
         cmd[c].pc \in {"render", "verify", "rollback"}, cmd[c].applied = <<>>
  PROVE  FilesInv' /\ Owes(c)
<1>1. CmdOf(c) /\ RecordOf(c)  BY DEF FilesInv, Sound
<1>2. CASE cmd[c].kind = "add"
  <2>1. Go(c, "undeclare")  BY <1>2 DEF GiveUp
  <2> QED  BY <1>2, <2>1, GoSound DEF Owes
<1>3. CASE cmd[c].kind # "add"
  <2>1. EndChanging(c, "failed", {})  BY <1>3 DEF GiveUp, End
  <2>2. FilesInv'  BY <2>1, EndSound, Untouched DEF Resting
  <2>3. NothingLeft(c)  BY <1>1, <1>3, NothingDone DEF CmdOf, Active, Declared
  <2> QED  BY <2>2, <2>3 DEF Owes
<1> QED  BY <1>2, <1>3

-----------------------------------------------------------------------------
(* What rendering and planning do to inputs and seeds                       *)

LEMMA GeneratorsKeep ==
  ASSUME NEW tree, NEW f \in Inputs \union Seeds
  PROVE  RunGenerators(tree)[f] = tree[f] /\ TidyDependencies(tree)[f] = tree[f]
BY RolesAssumption DEF RunGenerators, TidyDependencies, Files

LEMMA SyncKeeps ==
  ASSUME NEW tree, NEW m, NEW f \in Inputs \union Seeds
  PROVE  \/ SyncManifest(tree, m)[f] = tree[f]
         \/ f \in Seeds /\ tree[f] = Absent /\ SyncManifest(tree, m)[f] = Seed
BY RolesAssumption DEF SyncManifest, Plan, Files

LEMMA RenderedKeeps ==
  ASSUME NEW kind \in {"sync", "deps", "generate", "check", "add"}, NEW tree, NEW m,
         NEW f \in Inputs \union Seeds
  PROVE  \/ Rendered(kind, tree, m)[f] = tree[f]
         \/ f \in Seeds /\ tree[f] = Absent /\ Rendered(kind, tree, m)[f] = Seed
<1>1. CASE kind \in {"sync", "add"}
  BY <1>1, GeneratorsKeep, SyncKeeps DEF Rendered
<1>2. CASE kind = "generate"  BY <1>2, GeneratorsKeep DEF Rendered
<1>3. CASE kind = "check"  BY <1>3, GeneratorsKeep DEF Rendered
<1>4. CASE kind = "deps"  BY <1>4, GeneratorsKeep DEF Rendered
<1> QED  BY <1>1, <1>2, <1>3, <1>4

\* A plan has no input in it, and a seed only when the copy has another one.
Cautious(p, tree, stage) ==
  /\ DOMAIN p \subseteq Files \ Inputs
  /\ \A f \in Seeds \intersect DOMAIN p :
       /\ p[f].before = tree[f] /\ p[f].body = stage[f]
       /\ stage[f] # Absent /\ stage[f] # tree[f]

LEMMA StagedIsCautious ==
  ASSUME NEW tree, NEW stage, NEW m,
         \A f \in Inputs : ~Generated(stage[f]) /\ ~Generated(tree[f]),
         \A f \in Seeds : ~Generated(tree[f])
  PROVE  Cautious(PlanStagedCommit(tree, stage, m), tree, stage)
<1> DEFINE there == Plan(m) \union {f \in Files : Generated(stage[f])}
           gone == {f \in Files \ there : Generated(tree[f]) /\ stage[f] = Absent}
           differ == {f \in there : stage[f] # Absent /\ stage[f] # tree[f]}
           p == PlanStagedCommit(tree, stage, m)
<1>1. p = [f \in differ \union gone |-> [before |-> tree[f], body |-> stage[f]]]
  BY DEF PlanStagedCommit
<1>2. there \subseteq Files \ Inputs  BY RolesAssumption DEF Plan, Files
<1>3. gone \intersect Seeds = {} /\ gone \intersect Inputs = {} /\ gone \subseteq Files
  OBVIOUS
<1>4. \A f \in differ : f \in there /\ stage[f] # Absent /\ stage[f] # tree[f]  OBVIOUS
<1>5. DOMAIN p = differ \union gone
      /\ \A f \in differ \union gone : p[f].before = tree[f] /\ p[f].body = stage[f]
  BY <1>1
<1> HIDE DEF p, differ, gone, there
<1> QED  BY <1>2, <1>3, <1>4, <1>5 DEF Cautious, p

LEMMA ExplicitIsCautious ==
  ASSUME NEW tree, NEW stage
  PROVE  Cautious(PlanExplicit(tree, stage), tree, stage)
BY RolesAssumption DEF Cautious, PlanExplicit, Files

LEMMA MergedIsCautious ==
  ASSUME NEW tree, NEW stage, NEW p, NEW q, Cautious(p, tree, stage), Cautious(q, tree, stage)
  PROVE  Cautious(MergeChanges(p, q), tree, stage)
BY DEF Cautious, MergeChanges

-----------------------------------------------------------------------------
(* The steps                                                                *)

LEMMA CrashSound ==
  ASSUME FilesInv, NEW c \in Cmds, Crash(c)
  PROVE  FilesInv' /\ Owes(c)
<1>1. EndChanging(c, "idle", {}) /\ UNCHANGED <<manifest, root>>  BY DEF Crash, End
<1> QED  BY <1>1, EndSound, Untouched DEF Resting, Owes

LEMMA FinishSound ==
  ASSUME FilesInv, NEW c \in Cmds, Finish(c)
  PROVE  FilesInv' /\ Owes(c)
<1>1. EndChanging(c, "done", {}) /\ UNCHANGED <<manifest, root>>  BY DEF Finish, End
<1> QED  BY <1>1, EndSound, Untouched DEF Resting, Owes

LEMMA FailSound ==
  ASSUME FilesInv, NEW c \in Cmds, End(c, "failed"), UNCHANGED <<manifest, root>>,
         cmd[c].pc \in {"rename", "scaffold"}
  PROVE  FilesInv' /\ Owes(c)
<1>1. CmdOf(c) /\ RecordOf(c)  BY DEF FilesInv, Sound
<1>2. FilesInv'  BY EndSound, Untouched DEF End, Resting
<1>3. NothingLeft(c)
  BY <1>1, NothingDone DEF CmdOf, Active, Declared, Copying
<1> QED  BY <1>2, <1>3 DEF Owes

LEMMA RenameSound ==
  ASSUME FilesInv, NEW c \in Cmds, Rename(c)
  PROVE  FilesInv' /\ Owes(c)
<1>1. CASE manifest = {}
  <2> DEFINE tree == [f \in Files |-> Absent]
             fresh == SyncManifest(tree, {Base})
  <2>1. /\ manifest' = {Base} /\ root' = RunGenerators(fresh)
        /\ EndChanging(c, "done", Files \union {Yaml})
    BY <1>1 DEF Rename
  <2>2. \A f \in Inputs \union Seeds : fresh[f] = tree[f] \/ (f \in Seeds /\ fresh[f] = Seed)
    BY SyncKeeps
  <2>3. \A f \in Inputs \union Seeds : RunGenerators(fresh)[f] = fresh[f]
    BY GeneratorsKeep
  <2>4. \A f \in Inputs \union Seeds : tree[f] = Absent  BY DEF Files
  <2> HIDE DEF fresh, tree
  <2>5. \A f \in Inputs \union Seeds : root'[f] = Absent \/ (f \in Seeds /\ root'[f] = Seed)
    BY <2>1, <2>2, <2>3, <2>4
  <2>6. root' = [f \in Files |-> root'[f]]  BY <2>1 DEF RunGenerators
  <2>7. RootInv'  BY <2>1, <2>5, <2>6, ContentFacts DEF RootInv, SeedHolds
  <2>8. \A f \in Seeds : root[f] # User(1)
    BY <1>1, ContentFacts DEF FilesInv, RootInv, Files
  <2>9. Touches(Files \union {Yaml})  BY <2>1, <2>7, <2>8 DEF Touches
  <2> QED  BY <2>1, <2>9, EndSound DEF Resting, Owes
<1>2. CASE manifest # {}
  <2>1. UNCHANGED <<manifest, root>> /\ End(c, "failed") /\ cmd[c].pc = "rename"
    BY <1>2 DEF Rename
  <2> QED  BY <2>1, FailSound
<1> QED  BY <1>1, <1>2

LEMMA ScaffoldSound ==
  ASSUME FilesInv, NEW c \in Cmds, Scaffold(c)
  PROVE  FilesInv' /\ Owes(c)
<1> DEFINE fs == UNION {Artifact[s] : s \in cmd[c].add}
<1>0. Shaped /\ IsCommand(cmd[c]) /\ cmd = [d \in Cmds |-> cmd[d]]  BY DEF FilesInv, Shaped
<1>1. CmdOf(c) /\ RecordOf(c) /\ RootInv  BY DEF FilesInv, Sound
<1>2. fs \subseteq Inputs  BY <1>1, FilesAssumption DEF CmdOf
<1>3. cmd[c].pc = "scaffold" /\ UNCHANGED manifest  BY DEF Scaffold
<1>4. CASE \A f \in fs : root[f] = Absent
  <2>1. /\ root' = [f \in Files |-> IF f \in fs THEN Seed ELSE root[f]]
        /\ cmd' = [cmd EXCEPT ![c].pc = "declare", ![c].wrote = fs]
        /\ Note(fs, c)
    BY <1>4 DEF Scaffold
  <2> HIDE DEF fs
  <2>2. /\ cmd' = [d \in Cmds |-> cmd'[d]] /\ \A d \in Cmds \ {c} : cmd'[d] = cmd[d]
    BY <1>0, <2>1
  <2>3. IsCommand(cmd'[c])  BY <1>0, <2>1 DEF IsCommand, Fields
  <2>4. /\ cmd'[c].pc = "declare" /\ cmd'[c].wrote = fs /\ cmd'[c].kind = cmd[c].kind
        /\ cmd'[c].add = cmd[c].add /\ cmd'[c].before = cmd[c].before
        /\ cmd'[c].plan = cmd[c].plan /\ cmd'[c].applied = cmd[c].applied
    BY <1>0, <2>1 DEF IsCommand, Fields
  <2>5. Shaped' /\ Others(c, fs) /\ SeesOn(c)
    BY <1>0, <2>1, <2>2, <2>3, NoteIs DEF Shaped, Others
  <2>6. \A f \in Files : root'[f] = IF f \in fs THEN Seed ELSE root[f]  BY <2>1
  <2>7. Touches(fs)
    <3>1. root' = [f \in Files |-> root'[f]]  BY <2>1
    <3>2. manifest # {}  BY <1>1, <1>3 DEF CmdOf, Adding
    <3>3. \A f \in Inputs : ~Generated(root'[f])
      BY <1>1, <2>6, ContentFacts DEF RootInv, Files
    <3>4. \A f \in Seeds : root'[f] = root[f]  BY <1>2, <2>6, RolesAssumption DEF Files
    <3> QED  BY <1>1, <1>3, <2>6, <3>1, <3>2, <3>3, <3>4 DEF Touches, RootInv
  <2>8. CmdOf(c)'  BY <1>1, <1>2, <1>3, <2>4 DEF CmdOf, Copying, Adding
  <2>9. StagedOf(c)' /\ PlannedOf(c)'  BY <2>4 DEF StagedOf, PlannedOf
  <2>10. RecordOf(c)'
    <3>1. Applied(c)' = {} /\ Applied(c) = {} /\ cmd[c].wrote = {}
      BY <1>1, <1>3, <2>4 DEF Applied, CmdOf
    <3>2. Active(c) /\ ~Declared(c) /\ ~Declared(c)'
      BY <1>3, <2>4 DEF Active, Declared, Copying
    <3> QED
      BY <1>1, <1>2, <1>3, <1>4, <2>4, <2>5, <2>6, <3>1, <3>2 DEF RecordOf, SeesOn, Files
  <2> QED  BY <2>4, <2>5, <2>7, <2>8, <2>9, <2>10, StepOf DEF Sound, Owes
<1>5. CASE ~(\A f \in fs : root[f] = Absent)
  <2>1. UNCHANGED root /\ End(c, "failed")  BY <1>5 DEF Scaffold
  <2> QED  BY <1>3, <2>1, FailSound
<1> QED  BY <1>4, <1>5

LEMMA DeclareSound ==
  ASSUME FilesInv, NEW c \in Cmds, Declare(c)
  PROVE  FilesInv' /\ Owes(c)
<1>0. Shaped /\ IsCommand(cmd[c]) /\ cmd = [d \in Cmds |-> cmd[d]]  BY DEF FilesInv, Shaped
<1>1. CmdOf(c) /\ RecordOf(c) /\ RootInv  BY DEF FilesInv, Sound
<1>2. cmd[c].pc = "declare" /\ UNCHANGED root  BY DEF Declare
<1>3. CASE manifest = cmd[c].before
  <2>1. /\ manifest' = manifest \union cmd[c].add
        /\ cmd' = [cmd EXCEPT ![c].pc = "load"] /\ Note({Yaml}, c)
    BY <1>3 DEF Declare
  <2>2. /\ cmd' = [d \in Cmds |-> cmd'[d]] /\ \A d \in Cmds \ {c} : cmd'[d] = cmd[d]
    BY <1>0, <2>1
  <2>3. IsCommand(cmd'[c])  BY <1>0, <2>1 DEF IsCommand, Fields
  <2>4. /\ cmd'[c].pc = "load" /\ cmd'[c].wrote = cmd[c].wrote /\ cmd'[c].kind = cmd[c].kind
        /\ cmd'[c].add = cmd[c].add /\ cmd'[c].before = cmd[c].before
        /\ cmd'[c].plan = cmd[c].plan /\ cmd'[c].applied = cmd[c].applied
    BY <1>0, <2>1 DEF IsCommand, Fields
  <2>5. Shaped' /\ Others(c, {Yaml}) /\ SeesOn(c)
    BY <1>0, <2>1, <2>2, <2>3, NoteIs DEF Shaped, Others
  <2>6. manifest # {} /\ manifest' # {}  BY <1>1, <1>2, <2>1 DEF CmdOf, Adding
  <2>7. Touches({Yaml})  BY <1>1, <1>2, <2>6 DEF Touches, RootInv
  <2>8. CmdOf(c)'  BY <1>1, <1>2, <2>4, <2>6 DEF CmdOf, Copying, Adding
  <2>9. StagedOf(c)' /\ PlannedOf(c)'  BY <2>4 DEF StagedOf, PlannedOf
  <2>10. RecordOf(c)'
    <3>1. Applied(c)' = Applied(c) /\ Active(c) /\ ~Declared(c) /\ Declared(c)'
      BY <1>1, <1>2, <2>4 DEF Active, Declared, Copying, Applied, CmdOf, Adding
    <3> QED
      BY <1>1, <1>2, <1>3, <2>1, <2>4, <2>5, <3>1 DEF RecordOf, SeesOn
  <2> QED  BY <2>4, <2>5, <2>7, <2>8, <2>9, <2>10, StepOf DEF Sound, Owes
<1>4. CASE manifest # cmd[c].before
  <2>1. UNCHANGED manifest /\ Go(c, "restore")  BY <1>4 DEF Declare
  <2> QED  BY <1>2, <2>1, GoSound DEF Owes
<1> QED  BY <1>3, <1>4

LEMMA LoadSound ==
  ASSUME FilesInv, NEW c \in Cmds, Load(c)
  PROVE  FilesInv' /\ Owes(c)
<1>0. Shaped /\ IsCommand(cmd[c]) /\ cmd = [d \in Cmds |-> cmd[d]]  BY DEF FilesInv, Shaped
<1>1. CmdOf(c) /\ RecordOf(c)  BY DEF FilesInv, Sound
<1>2. /\ cmd[c].pc = "load" /\ UNCHANGED <<manifest, root, seen>>
      /\ cmd' = [cmd EXCEPT ![c].pc = "copy", ![c].m = manifest]
  BY DEF Load, Keep
<1>3. /\ cmd' = [d \in Cmds |-> cmd'[d]] /\ \A d \in Cmds \ {c} : cmd'[d] = cmd[d]
  BY <1>0, <1>2
<1>4. IsCommand(cmd'[c])  BY <1>0, <1>2 DEF IsCommand, Fields
<1>5. /\ cmd'[c].pc = "copy" /\ cmd'[c].wrote = cmd[c].wrote /\ cmd'[c].kind = cmd[c].kind
      /\ cmd'[c].add = cmd[c].add /\ cmd'[c].before = cmd[c].before
      /\ cmd'[c].plan = cmd[c].plan /\ cmd'[c].applied = cmd[c].applied
  BY <1>0, <1>2 DEF IsCommand, Fields
<1>6. Shaped' /\ Others(c, {}) /\ SeesOn(c)
  BY <1>0, <1>2, <1>3, <1>4, SeenKeptIs DEF Shaped, Others
<1>7. CmdOf(c)'  BY <1>1, <1>2, <1>5 DEF CmdOf, Copying, Adding
<1>8. StagedOf(c)' /\ PlannedOf(c)'  BY <1>5 DEF StagedOf, PlannedOf
<1>9. RecordOf(c)'
  <2>1. Active(c) /\ (Declared(c)' <=> Declared(c))
    BY <1>2, <1>5 DEF Active, Declared, Copying
  <2> QED  BY <1>1, <1>2, <1>5, <1>6, <2>1, RecordKept
<1> QED  BY <1>2, <1>5, <1>6, <1>7, <1>8, <1>9, StepOf, Untouched DEF Sound, Owes

\* A command looks again: what it now sees late is forgotten.
LEMMA LateIs ==
  ASSUME Shaped, NEW c \in Cmds, NEW l, seen' = [seen EXCEPT ![c].late = l]
  PROVE  /\ seen' = [d \in Cmds |-> seen'[d]] /\ \A d \in Cmds : IsSeen(seen'[d])
         /\ \A d \in Cmds : SeesOn(d)
<1>0. seen = [d \in Cmds |-> seen[d]] /\ IsSeen(seen[c])  BY DEF Shaped
<1>1. seen' = [d \in Cmds |-> seen'[d]] /\ \A d \in Cmds \ {c} : seen'[d] = seen[d]
  BY <1>0
<1>2. IsSeen(seen'[c])  BY <1>0 DEF IsSeen, SeenFields
<1>3. SeesOn(c)  BY <1>0 DEF IsSeen, SeenFields, SeesOn
<1> QED  BY <1>1, <1>2, <1>3 DEF Shaped, SeesOn

LEMMA CopySound ==
  ASSUME FilesInv, NEW c \in Cmds, Copy(c)
  PROVE  FilesInv' /\ Owes(c)
<1>0. Shaped /\ IsCommand(cmd[c]) /\ cmd = [d \in Cmds |-> cmd[d]]  BY DEF FilesInv, Shaped
<1>1. CmdOf(c) /\ RecordOf(c) /\ RootInv  BY DEF FilesInv, Sound
<1> DEFINE snap == SnapshotInputs(root, cmd[c].m)
<1>2. /\ cmd[c].pc = "copy" /\ UNCHANGED <<manifest, root>>
      /\ cmd' = [cmd EXCEPT ![c].pc = "render", ![c].stage = root, ![c].yaml = manifest,
                            ![c].snap = snap]
      /\ seen' = [seen EXCEPT ![c].late = {}]
  BY DEF Copy
<1>3. \A f \in DOMAIN snap : snap[f] = root[f]  BY DEF SnapshotInputs
<1> HIDE DEF snap
<1>4. /\ cmd' = [d \in Cmds |-> cmd'[d]] /\ \A d \in Cmds \ {c} : cmd'[d] = cmd[d]
  BY <1>0, <1>2
<1>5. IsCommand(cmd'[c])  BY <1>0, <1>2 DEF IsCommand, Fields
<1>6. /\ cmd'[c].pc = "render" /\ cmd'[c].wrote = cmd[c].wrote /\ cmd'[c].kind = cmd[c].kind
      /\ cmd'[c].add = cmd[c].add /\ cmd'[c].before = cmd[c].before
      /\ cmd'[c].plan = cmd[c].plan /\ cmd'[c].applied = cmd[c].applied
      /\ cmd'[c].stage = root /\ cmd'[c].snap = snap
  BY <1>0, <1>2 DEF IsCommand, Fields
<1>7. Shaped' /\ Others(c, {}) /\ SeesOn(c)
  BY <1>0, <1>2, <1>4, <1>5, LateIs DEF Shaped, Others, SeesOn
<1>8. CmdOf(c)'  BY <1>1, <1>2, <1>6 DEF CmdOf, Copying, Adding
<1>9. StagedOf(c)'  BY <1>1, <1>2, <1>3, <1>6 DEF StagedOf, RootInv
<1>10. PlannedOf(c)'  BY <1>6 DEF PlannedOf
<1>11. RecordOf(c)'
  <2>1. Active(c) /\ (Declared(c)' <=> Declared(c))
    BY <1>2, <1>6 DEF Active, Declared, Copying
  <2> QED  BY <1>1, <1>2, <1>6, <1>7, <2>1, RecordKept
<1> QED
  BY <1>2, <1>6, <1>7, <1>8, <1>9, <1>10, <1>11, StepOf, Untouched DEF Sound, Owes

LEMMA RenderSound ==
  ASSUME FilesInv, NEW c \in Cmds, Render(c)
  PROVE  FilesInv' /\ Owes(c)
<1>0. Shaped /\ IsCommand(cmd[c]) /\ cmd = [d \in Cmds |-> cmd[d]]  BY DEF FilesInv, Shaped
<1>1. CmdOf(c) /\ RecordOf(c) /\ RootInv /\ StagedOf(c)  BY DEF FilesInv, Sound
<1> DEFINE made == Rendered(cmd[c].kind, cmd[c].stage, cmd[c].m)
<1>2. cmd[c].pc = "render" /\ UNCHANGED <<manifest, root>>  BY DEF Render
<1>3. \/ GiveUp(c) \/ End(c, "done")
      \/ cmd' = [cmd EXCEPT ![c].pc = "plan", ![c].stage = made] /\ UNCHANGED seen
  BY DEF Render
<1>4. cmd[c].kind \in {"sync", "deps", "generate", "check", "add"} /\ cmd[c].applied = <<>>
  BY <1>1, <1>2 DEF CmdOf, Copying
<1>5. \A f \in Inputs \union Seeds :
        \/ made[f] = cmd[c].stage[f]
        \/ f \in Seeds /\ cmd[c].stage[f] = Absent /\ made[f] = Seed
  BY <1>4, RenderedKeeps
<1> HIDE DEF made
<1>6. CASE GiveUp(c)  BY <1>2, <1>4, <1>6, GiveUpSound
<1>7. CASE End(c, "done")
  BY <1>2, <1>7, EndSound, Untouched DEF End, Resting, Owes
<1>8. CASE cmd' = [cmd EXCEPT ![c].pc = "plan", ![c].stage = made] /\ UNCHANGED seen
  <2>1. /\ cmd' = [d \in Cmds |-> cmd'[d]] /\ \A d \in Cmds \ {c} : cmd'[d] = cmd[d]
    BY <1>0, <1>8
  <2>2. IsCommand(cmd'[c])  BY <1>0, <1>8 DEF IsCommand, Fields
  <2>3. /\ cmd'[c].pc = "plan" /\ cmd'[c].wrote = cmd[c].wrote /\ cmd'[c].kind = cmd[c].kind
        /\ cmd'[c].add = cmd[c].add /\ cmd'[c].before = cmd[c].before
        /\ cmd'[c].plan = cmd[c].plan /\ cmd'[c].applied = cmd[c].applied
        /\ cmd'[c].stage = made /\ cmd'[c].snap = cmd[c].snap
    BY <1>0, <1>8 DEF IsCommand, Fields
  <2>4. Shaped' /\ Others(c, {}) /\ SeesOn(c)
    BY <1>0, <1>8, <2>1, <2>2, SeenKeptIs DEF Shaped, Others, SeesOn
  <2>5. CmdOf(c)'  BY <1>1, <1>2, <2>3 DEF CmdOf, Copying, Adding
  <2>6. StagedOf(c)'
    BY <1>1, <1>2, <1>5, <2>3, ContentFacts DEF StagedOf, SeedHolds
  <2>7. PlannedOf(c)'  BY <2>3 DEF PlannedOf
  <2>8. RecordOf(c)'
    <3>1. Active(c) /\ (Declared(c)' <=> Declared(c))
      BY <1>2, <2>3 DEF Active, Declared, Copying
    <3> QED  BY <1>1, <1>2, <2>3, <2>4, <3>1, RecordKept
  <2> QED  BY <1>2, <2>3, <2>4, <2>5, <2>6, <2>7, <2>8, StepOf, Untouched DEF Sound, Owes
<1> QED  BY <1>3, <1>6, <1>7, <1>8

LEMMA RenderFailsSound ==
  ASSUME FilesInv, NEW c \in Cmds, RenderFails(c)
  PROVE  FilesInv' /\ Owes(c)
<1>1. cmd[c].pc = "render" /\ GiveUp(c) /\ UNCHANGED <<manifest, root>>  BY DEF RenderFails
<1>2. cmd[c].applied = <<>>  BY <1>1 DEF FilesInv, Sound, CmdOf
<1> QED  BY <1>1, <1>2, GiveUpSound

LEMMA PlanCommitSound ==
  ASSUME FilesInv, NEW c \in Cmds, PlanCommit(c)
  PROVE  FilesInv' /\ Owes(c)
<1>0. Shaped /\ IsCommand(cmd[c]) /\ cmd = [d \in Cmds |-> cmd[d]]  BY DEF FilesInv, Shaped
<1>1. CmdOf(c) /\ RecordOf(c) /\ RootInv /\ StagedOf(c)  BY DEF FilesInv, Sound
<1> DEFINE k == cmd[c].kind
           staged == PlanStagedCommit(root, cmd[c].stage, cmd[c].m)
           explicit == PlanExplicit(root, cmd[c].stage)
           p == CASE k = "generate" -> MergeChanges(staged, explicit)
                  [] k = "deps" -> explicit
                  [] OTHER -> staged
<1>2. /\ cmd[c].pc = "plan" /\ UNCHANGED <<manifest, root>>
      /\ cmd' = [cmd EXCEPT ![c].pc = "verify", ![c].plan = p]
      /\ seen' = [seen EXCEPT ![c].late = {}]
  BY DEF PlanCommit
<1>3. /\ \A f \in Inputs : ~Generated(cmd[c].stage[f]) /\ ~Generated(root[f])
      /\ \A f \in Seeds : ~Generated(root[f])
  BY <1>1, <1>2, ContentFacts DEF StagedOf, RootInv, SeedHolds
<1>4. Cautious(staged, root, cmd[c].stage)  BY <1>3, StagedIsCautious
<1>5. Cautious(explicit, root, cmd[c].stage)  BY ExplicitIsCautious
<1>6. Cautious(MergeChanges(staged, explicit), root, cmd[c].stage)
  BY <1>4, <1>5, MergedIsCautious
<1> HIDE DEF staged, explicit
<1>7. Cautious(p, root, cmd[c].stage)  BY <1>4, <1>5, <1>6
<1> HIDE DEF p
<1>8. /\ cmd' = [d \in Cmds |-> cmd'[d]] /\ \A d \in Cmds \ {c} : cmd'[d] = cmd[d]
  BY <1>0, <1>2
<1>9. IsCommand(cmd'[c])  BY <1>0, <1>2 DEF IsCommand, Fields
<1>10. /\ cmd'[c].pc = "verify" /\ cmd'[c].wrote = cmd[c].wrote /\ cmd'[c].kind = cmd[c].kind
       /\ cmd'[c].add = cmd[c].add /\ cmd'[c].before = cmd[c].before
       /\ cmd'[c].plan = p /\ cmd'[c].applied = cmd[c].applied
       /\ cmd'[c].stage = cmd[c].stage /\ cmd'[c].snap = cmd[c].snap
  BY <1>0, <1>2 DEF IsCommand, Fields
<1>11. Shaped' /\ Others(c, {}) /\ SeesOn(c)
  BY <1>0, <1>2, <1>8, <1>9, LateIs DEF Shaped, Others, SeesOn
<1>12. cmd[c].applied = <<>>  BY <1>1, <1>2 DEF CmdOf
<1>13. CmdOf(c)'
  <2>1. cmd'[c].applied = <<>>  BY <1>10, <1>12
  <2>2. cmd'[c].applied \in Seq(DOMAIN cmd'[c].plan) /\ Injective(cmd'[c].applied)
    BY <2>1, EmptyIs
  <2> QED  BY <1>1, <1>2, <1>10, <2>1, <2>2 DEF CmdOf, Copying, Adding
<1>14. StagedOf(c)'  BY <1>10 DEF StagedOf
<1>15. PlannedOf(c)'
  <2>1. DOMAIN p \subseteq Files \ Inputs  BY <1>7 DEF Cautious
  <2>2. ASSUME NEW f \in Seeds \intersect DOMAIN p
        PROVE  /\ p[f].body = Seed
               /\ \/ p[f].before = Absent
                  \/ /\ root[f] = User(1)
                     /\ ~(f \in DOMAIN cmd[c].snap /\ cmd[c].snap[f] = User(1))
    <3>1. /\ p[f].before = root[f] /\ p[f].body = cmd[c].stage[f]
          /\ cmd[c].stage[f] # Absent /\ cmd[c].stage[f] # root[f]
      BY <1>7, <2>2 DEF Cautious
    <3>2. /\ root[f] \in SeedHolds /\ cmd[c].stage[f] \in SeedHolds
          /\ cmd[c].stage[f] = User(1) => root[f] = User(1)
          /\ f \in DOMAIN cmd[c].snap /\ cmd[c].snap[f] = User(1) => cmd[c].stage[f] = User(1)
      BY <1>1, <1>2, <2>2 DEF StagedOf, RootInv
    <3> QED  BY <3>1, <3>2 DEF SeedHolds
  <2> QED  BY <1>2, <1>10, <2>1, <2>2 DEF PlannedOf
<1>16. RecordOf(c)'
  <2>1. Active(c) /\ (Declared(c)' <=> Declared(c))
    BY <1>2, <1>10 DEF Active, Declared, Copying
  <2> QED  BY <1>1, <1>2, <1>10, <1>11, <1>12, <2>1, RecordKept
<1> QED
  BY <1>2, <1>10, <1>11, <1>13, <1>14, <1>15, <1>16, StepOf, Untouched DEF Sound, Owes

LEMMA VerifySound ==
  ASSUME FilesInv, NEW c \in Cmds, Verify(c)
  PROVE  FilesInv' /\ Owes(c)
<1>0. Shaped /\ IsCommand(cmd[c]) /\ cmd = [d \in Cmds |-> cmd[d]]  BY DEF FilesInv, Shaped
<1>1. CmdOf(c) /\ RecordOf(c) /\ RootInv /\ PlannedOf(c)  BY DEF FilesInv, Sound
<1>2. cmd[c].pc = "verify" /\ UNCHANGED <<manifest, root>>  BY DEF Verify
<1>3. CASE InputsUnchanged(c)
  <2>1. /\ cmd' = [cmd EXCEPT ![c].pc = "commit"]
        /\ seen' = [seen EXCEPT ![c].late = @ \ Inputs]
    BY <1>3 DEF Verify
  <2>2. seen' = [seen EXCEPT ![c].late = seen[c].late \ Inputs]  BY <2>1
  <2>3. /\ cmd' = [d \in Cmds |-> cmd'[d]] /\ \A d \in Cmds \ {c} : cmd'[d] = cmd[d]
    BY <1>0, <2>1
  <2>4. IsCommand(cmd'[c])  BY <1>0, <2>1 DEF IsCommand, Fields
  <2>5. /\ cmd'[c].pc = "commit" /\ cmd'[c].wrote = cmd[c].wrote /\ cmd'[c].kind = cmd[c].kind
        /\ cmd'[c].add = cmd[c].add /\ cmd'[c].before = cmd[c].before
        /\ cmd'[c].plan = cmd[c].plan /\ cmd'[c].applied = cmd[c].applied
    BY <1>0, <2>1 DEF IsCommand, Fields
  <2>6. Shaped' /\ Others(c, {}) /\ SeesOn(c)
    BY <1>0, <2>2, <2>3, <2>4, LateIs DEF Shaped, Others, SeesOn
  <2>7. CmdOf(c)'  BY <1>1, <1>2, <2>5 DEF CmdOf, Copying, Adding
  <2>8. StagedOf(c)'  BY <2>5 DEF StagedOf
  <2>9. ASSUME NEW f \in Seeds, root[f] = User(1)
        PROVE  f \in DOMAIN cmd[c].snap /\ cmd[c].snap[f] = User(1)
    <3>1. SnapshotInputs(root, cmd[c].m) = cmd[c].snap  BY <1>3 DEF InputsUnchanged
    <3>2. f \in Files \ Deps /\ f \notin Owned  BY RolesAssumption DEF Files
    <3>3. root[f] # Absent /\ ~Generated(root[f])  BY <2>9, ContentFacts
    <3>4. /\ f \in DOMAIN SnapshotInputs(root, cmd[c].m)
          /\ SnapshotInputs(root, cmd[c].m)[f] = root[f]
      BY <3>2, <3>3 DEF SnapshotInputs
    <3> QED  BY <2>9, <3>1, <3>4
  <2>10. PlannedOf(c)'  BY <1>1, <1>2, <2>5, <2>9 DEF PlannedOf
  <2>11. RecordOf(c)'
    <3>1. Active(c) /\ (Declared(c)' <=> Declared(c))
      BY <1>2, <2>5 DEF Active, Declared, Copying
    <3> QED  BY <1>1, <1>2, <2>5, <2>6, <3>1, RecordKept
  <2> QED  BY <1>2, <2>5, <2>6, <2>7, <2>8, <2>10, <2>11, StepOf, Untouched DEF Sound, Owes
<1>4. CASE ~InputsUnchanged(c)
  <2>1. GiveUp(c)  BY <1>4 DEF Verify
  <2>2. cmd[c].applied = <<>>  BY <1>1, <1>2 DEF CmdOf
  <2> QED  BY <1>2, <2>1, <2>2, GiveUpSound
<1> QED  BY <1>3, <1>4

LEMMA NextIs ==
  ASSUME NEW c, Left(c) # {}
  PROVE  NextFile(c) \in DOMAIN cmd[c].plan \ Applied(c)
<1>1. Left(c) \subseteq Nat  BY RolesAssumption DEF Left
<1>2. \E n \in Left(c) : \A k \in Left(c) : n <= k  BY <1>1, LeastOf
<1>3. (CHOOSE n \in Left(c) : \A k \in Left(c) : n <= k) \in Left(c)  BY <1>2
<1> QED  BY <1>3 DEF NextFile, Left

LEMMA ReplaceSound ==
  ASSUME FilesInv, NEW c \in Cmds, Replace(c)
  PROVE  FilesInv' /\ Owes(c)
<1>0. Shaped /\ IsCommand(cmd[c]) /\ cmd = [d \in Cmds |-> cmd[d]]  BY DEF FilesInv, Shaped
<1>1. CmdOf(c) /\ RecordOf(c) /\ RootInv /\ PlannedOf(c)  BY DEF FilesInv, Sound
<1> DEFINE f == NextFile(c)
<1>2. f \in DOMAIN cmd[c].plan \ Applied(c)  BY NextIs DEF Replace
<1>3. cmd[c].pc = "commit" /\ UNCHANGED manifest  BY DEF Replace
<1>4. \/ /\ root[f] = cmd[c].plan[f].before
         /\ root' = [root EXCEPT ![f] = cmd[c].plan[f].body]
         /\ cmd' = [cmd EXCEPT ![c].applied = Append(@, f)]
         /\ Note({f}, c)
      \/ Go(c, "rollback") /\ UNCHANGED root
  BY DEF Replace, Current
<1> HIDE DEF f
<1>5. CASE /\ root[f] = cmd[c].plan[f].before
           /\ root' = [root EXCEPT ![f] = cmd[c].plan[f].body]
           /\ cmd' = [cmd EXCEPT ![c].applied = Append(@, f)]
           /\ Note({f}, c)
  <2>1. cmd' = [d \in Cmds |-> cmd'[d]] /\ \A d \in Cmds \ {c} : cmd'[d] = cmd[d]
    BY <1>0, <1>5
  <2>2. IsCommand(cmd'[c])  BY <1>0, <1>5 DEF IsCommand, Fields
  <2>3. /\ cmd'[c].pc = "commit" /\ cmd'[c].wrote = cmd[c].wrote /\ cmd'[c].kind = cmd[c].kind
        /\ cmd'[c].add = cmd[c].add /\ cmd'[c].before = cmd[c].before
        /\ cmd'[c].plan = cmd[c].plan /\ cmd'[c].applied = Append(cmd[c].applied, f)
    BY <1>0, <1>3, <1>5 DEF IsCommand, Fields
  <2>4. Shaped' /\ Others(c, {f}) /\ SeesOn(c)
    BY <1>0, <1>5, <2>1, <2>2, NoteIs DEF Shaped, Others
  <2>5. f \in Files \ Inputs /\ f \notin cmd[c].wrote
    BY <1>1, <1>2, <1>3 DEF PlannedOf, CmdOf
  <2>6. f \in Seeds => cmd[c].plan[f].body = Seed /\ root[f] = Absent
    BY <1>1, <1>2, <1>3, <1>5 DEF PlannedOf
  <2>7. root' = [g \in Files |-> root'[g]] /\ root'[f] = cmd[c].plan[f].body
        /\ \A g \in Files \ {f} : root'[g] = root[g]
    BY <1>1, <1>5, <2>5 DEF RootInv
  <2>8. Touches({f})
    <3>1. manifest # {}  BY <1>1, <1>3 DEF CmdOf, Copying
    <3>2. \A g \in Inputs : ~Generated(root'[g])  BY <1>1, <2>5, <2>7 DEF RootInv, Files
    <3>3. \A g \in Seeds : root'[g] \in SeedHolds /\ (root[g] = User(1) => root'[g] = User(1))
      BY <1>1, <2>6, <2>7, ContentFacts DEF RootInv, Files, SeedHolds
    <3> QED  BY <1>3, <2>7, <3>1, <3>2, <3>3 DEF Touches, RootInv
  <2>9. /\ cmd'[c].applied \in Seq(DOMAIN cmd'[c].plan) /\ Injective(cmd'[c].applied)
        /\ Applied(c)' = Applied(c) \union {f}
    <3>1. Applied(c) = RangeOf(cmd[c].applied) /\ Applied(c)' = RangeOf(cmd'[c].applied)
      BY DEF Applied, RangeOf
    <3> DEFINE a == cmd[c].applied
               D == DOMAIN cmd[c].plan
    <3>2. a \in Seq(D) /\ Injective(a) /\ f \in D /\ f \notin RangeOf(a)
      BY <1>1, <1>2, <3>1 DEF CmdOf
    <3>3. cmd'[c].applied = Append(a, f) /\ DOMAIN cmd'[c].plan = D /\ Applied(c) = RangeOf(a)
      BY <2>3, <3>1
    <3> HIDE DEF a, D
    <3>4. /\ Append(a, f) \in Seq(D) /\ Injective(Append(a, f))
          /\ RangeOf(Append(a, f)) = RangeOf(a) \union {f}
      BY <3>2, AppendIs
    <3> QED  BY <3>1, <3>3, <3>4
  <2>10. CmdOf(c)'  BY <1>1, <1>3, <2>3, <2>9 DEF CmdOf, Copying, Adding
  <2>11. StagedOf(c)'  BY <2>3 DEF StagedOf
  <2>12. PlannedOf(c)'  BY <1>1, <1>3, <2>3 DEF PlannedOf
  <2>13. RecordOf(c)'
    <3>1. Active(c) /\ (Declared(c)' <=> Declared(c))
      BY <1>3, <2>3 DEF Active, Declared
    <3>2. ASSUME NEW g \in Files \ seen[c].touched
          PROVE  /\ g \in Applied(c)' => /\ root'[g] = cmd[c].plan[g].body
                                         /\ cmd[c].plan[g].before = seen[c].root[g]
                 /\ g \in cmd[c].wrote => root'[g] = Seed /\ seen[c].root[g] = Absent
                 /\ g \notin Applied(c)' \union cmd[c].wrote => root'[g] = seen[c].root[g]
      <4>1. CASE g = f
        BY <1>1, <1>2, <1>5, <2>5, <2>7, <2>9, <3>1, <4>1 DEF RecordOf
      <4>2. CASE g # f
        BY <1>1, <2>7, <2>9, <3>1, <4>2 DEF RecordOf
      <4> QED  BY <4>1, <4>2
    <3> QED  BY <1>1, <1>3, <2>3, <2>4, <3>1, <3>2 DEF RecordOf, SeesOn
  <2> QED  BY <2>3, <2>4, <2>8, <2>10, <2>11, <2>12, <2>13, StepOf DEF Sound, Owes
<1>6. CASE Go(c, "rollback") /\ UNCHANGED root  BY <1>3, <1>6, GoSound DEF Owes
<1> QED  BY <1>4, <1>5, <1>6

LEMMA ReplaceFailsSound ==
  ASSUME FilesInv, NEW c \in Cmds, ReplaceFails(c)
  PROVE  FilesInv' /\ Owes(c)
BY GoSound DEF ReplaceFails, Owes

LEMMA PutBackSound ==
  ASSUME FilesInv, NEW c \in Cmds, PutBack(c)
  PROVE  FilesInv' /\ Owes(c)
<1>0. Shaped /\ IsCommand(cmd[c]) /\ cmd = [d \in Cmds |-> cmd[d]]  BY DEF FilesInv, Shaped
<1>1. CmdOf(c) /\ RecordOf(c) /\ RootInv /\ PlannedOf(c)  BY DEF FilesInv, Sound
<1> DEFINE a == cmd[c].applied
           f == a[Len(a)]
           fs == IF CanPutBack(f, cmd[c].plan[f]) THEN {f} ELSE {}
<1>2. /\ cmd[c].pc = "rollback" /\ UNCHANGED manifest /\ Len(a) > 0
      /\ cmd' = [cmd EXCEPT ![c].applied = SubSeq(a, 1, Len(a) - 1)]
  BY DEF PutBack
<1>3. \/ /\ CanPutBack(f, cmd[c].plan[f])
         /\ root' = [root EXCEPT ![f] = cmd[c].plan[f].before]
         /\ Note({f}, c)
      \/ ~CanPutBack(f, cmd[c].plan[f]) /\ UNCHANGED <<root, seen>>
  BY DEF PutBack
<1>4. /\ SubSeq(a, 1, Len(a) - 1) \in Seq(DOMAIN cmd[c].plan)
      /\ Injective(SubSeq(a, 1, Len(a) - 1))
      /\ RangeOf(SubSeq(a, 1, Len(a) - 1)) = RangeOf(a) \ {f}
      /\ f \in DOMAIN cmd[c].plan /\ f \in RangeOf(a)
  <2>1. a \in Seq(DOMAIN cmd[c].plan) /\ Injective(a)  BY <1>1 DEF CmdOf
  <2> QED  BY <1>2, <2>1, ChopIs
<1>5. Applied(c) = RangeOf(a)  BY DEF Applied, RangeOf
<1> HIDE DEF a, f
<1>6. cmd' = [d \in Cmds |-> cmd'[d]] /\ \A d \in Cmds \ {c} : cmd'[d] = cmd[d]
  BY <1>0, <1>2
<1>7. IsCommand(cmd'[c])  BY <1>0, <1>2 DEF IsCommand, Fields
<1>8. /\ cmd'[c].pc = "rollback" /\ cmd'[c].wrote = cmd[c].wrote /\ cmd'[c].kind = cmd[c].kind
      /\ cmd'[c].add = cmd[c].add /\ cmd'[c].before = cmd[c].before
      /\ cmd'[c].plan = cmd[c].plan /\ cmd'[c].applied = SubSeq(a, 1, Len(a) - 1)
  BY <1>0, <1>2 DEF IsCommand, Fields
<1>9. Applied(c)' = Applied(c) \ {f} /\ f \in Applied(c)
  <2>1. Applied(c)' = RangeOf(cmd'[c].applied)  BY DEF Applied, RangeOf
  <2> QED  BY <1>4, <1>5, <1>8, <2>1
<1>10. CmdOf(c)'  BY <1>1, <1>2, <1>4, <1>8 DEF CmdOf, Copying, Adding
<1>11. StagedOf(c)' /\ PlannedOf(c)'  BY <1>1, <1>2, <1>8 DEF StagedOf, PlannedOf
<1>12. f \in Files \ Inputs /\ f \notin cmd[c].wrote
  BY <1>1, <1>2, <1>4 DEF PlannedOf, CmdOf
<1>13. Active(c) /\ (Declared(c)' <=> Declared(c))
  BY <1>2, <1>8 DEF Active, Declared
<1>14. CASE /\ CanPutBack(f, cmd[c].plan[f])
            /\ root' = [root EXCEPT ![f] = cmd[c].plan[f].before]
            /\ Note({f}, c)
  <2>1. Shaped' /\ Others(c, {f}) /\ SeesOn(c)
    BY <1>0, <1>6, <1>7, <1>14, NoteIs DEF Shaped, Others
  <2>2. f \in Seeds => cmd[c].plan[f].before = Absent /\ root[f] \in {Absent, Seed}
    BY <1>1, <1>2, <1>4, <1>14 DEF PlannedOf, CanPutBack
  <2>3. root' = [g \in Files |-> root'[g]] /\ root'[f] = cmd[c].plan[f].before
        /\ \A g \in Files \ {f} : root'[g] = root[g]
    BY <1>1, <1>12, <1>14 DEF RootInv
  <2>4. Touches({f})
    <3>1. manifest # {}  BY <1>1, <1>2 DEF CmdOf, Copying
    <3>2. \A g \in Inputs : ~Generated(root'[g])  BY <1>1, <1>12, <2>3 DEF RootInv, Files
    <3>3. \A g \in Seeds : root'[g] \in SeedHolds /\ (root[g] = User(1) => root'[g] = User(1))
      BY <1>1, <2>2, <2>3, ContentFacts DEF RootInv, Files, SeedHolds
    <3> QED  BY <1>2, <2>3, <3>1, <3>2, <3>3 DEF Touches, RootInv
  <2>5. RecordOf(c)'
    <3>1. ASSUME NEW g \in Files \ seen[c].touched
          PROVE  /\ g \in Applied(c)' => /\ root'[g] = cmd[c].plan[g].body
                                         /\ cmd[c].plan[g].before = seen[c].root[g]
                 /\ g \in cmd[c].wrote => root'[g] = Seed /\ seen[c].root[g] = Absent
                 /\ g \notin Applied(c)' \union cmd[c].wrote => root'[g] = seen[c].root[g]
      <4>1. CASE g = f
        BY <1>1, <1>9, <1>12, <1>13, <2>3, <4>1 DEF RecordOf
      <4>2. CASE g # f
        BY <1>1, <1>9, <1>13, <2>3, <4>2 DEF RecordOf
      <4> QED  BY <4>1, <4>2
    <3> QED  BY <1>1, <1>2, <1>8, <1>13, <2>1, <3>1 DEF RecordOf, SeesOn
  <2> QED  BY <1>8, <1>10, <1>11, <2>1, <2>4, <2>5, StepOf DEF Sound, Owes
<1>15. CASE ~CanPutBack(f, cmd[c].plan[f]) /\ UNCHANGED <<root, seen>>
  <2>1. Shaped' /\ Others(c, {}) /\ SeesOn(c)
    BY <1>0, <1>6, <1>7, <1>15, SeenKeptIs DEF Shaped, Others, SeesOn
  <2>2. f \in seen[c].touched
    BY <1>1, <1>9, <1>12, <1>13, <1>15 DEF RecordOf, CanPutBack
  <2>3. RecordOf(c)'
    BY <1>1, <1>2, <1>8, <1>9, <1>13, <1>15, <2>1, <2>2 DEF RecordOf, SeesOn
  <2> QED  BY <1>2, <1>8, <1>10, <1>11, <1>15, <2>1, <2>3, StepOf, Untouched DEF Sound, Owes
<1> QED  BY <1>3, <1>14, <1>15

LEMMA PutBackFailsSound ==
  ASSUME FilesInv, NEW c \in Cmds, PutBackFails(c)
  PROVE  FilesInv' /\ Owes(c)
<1>0. /\ Shaped /\ IsCommand(cmd[c]) /\ cmd = [d \in Cmds |-> cmd[d]]
      /\ seen = [d \in Cmds |-> seen[d]] /\ IsSeen(seen[c])
  BY DEF FilesInv, Shaped
<1>1. CmdOf(c) /\ RecordOf(c) /\ RootInv /\ PlannedOf(c)  BY DEF FilesInv, Sound
<1> DEFINE a == cmd[c].applied
           f == a[Len(a)]
<1>2. /\ cmd[c].pc = "rollback" /\ UNCHANGED <<manifest, root>> /\ Len(a) > 0
      /\ cmd' = [cmd EXCEPT ![c].applied = SubSeq(a, 1, Len(a) - 1)]
      /\ seen' = [seen EXCEPT ![c].touched = @ \union {f}]
  BY DEF PutBackFails
<1>3. /\ SubSeq(a, 1, Len(a) - 1) \in Seq(DOMAIN cmd[c].plan)
      /\ Injective(SubSeq(a, 1, Len(a) - 1))
      /\ RangeOf(SubSeq(a, 1, Len(a) - 1)) = RangeOf(a) \ {f}
      /\ f \in DOMAIN cmd[c].plan /\ f \in RangeOf(a)
  <2>1. a \in Seq(DOMAIN cmd[c].plan) /\ Injective(a)  BY <1>1 DEF CmdOf
  <2> QED  BY <1>2, <2>1, ChopIs
<1>4. Applied(c) = RangeOf(a)  BY DEF Applied, RangeOf
<1> HIDE DEF a, f
<1>5. cmd' = [d \in Cmds |-> cmd'[d]] /\ \A d \in Cmds \ {c} : cmd'[d] = cmd[d]
  BY <1>0, <1>2
<1>6. IsCommand(cmd'[c])  BY <1>0, <1>2 DEF IsCommand, Fields
<1>7. /\ cmd'[c].pc = "rollback" /\ cmd'[c].wrote = cmd[c].wrote /\ cmd'[c].kind = cmd[c].kind
      /\ cmd'[c].add = cmd[c].add /\ cmd'[c].before = cmd[c].before
      /\ cmd'[c].plan = cmd[c].plan /\ cmd'[c].applied = SubSeq(a, 1, Len(a) - 1)
  BY <1>0, <1>2 DEF IsCommand, Fields
<1>8. Applied(c)' = Applied(c) \ {f}
  <2>1. Applied(c)' = RangeOf(cmd'[c].applied)  BY DEF Applied, RangeOf
  <2> QED  BY <1>3, <1>4, <1>7, <2>1
<1>9. seen' = [d \in Cmds |-> seen'[d]] /\ \A d \in Cmds \ {c} : seen'[d] = seen[d]
  BY <1>0, <1>2
<1>10. /\ IsSeen(seen'[c])
       /\ seen'[c].root = seen[c].root /\ seen'[c].yaml = seen[c].yaml
       /\ seen'[c].touched = seen[c].touched \union {f}
  BY <1>0, <1>2 DEF IsSeen, SeenFields
<1>11. Shaped' /\ Others(c, {})
  BY <1>0, <1>5, <1>6, <1>9, <1>10 DEF Shaped, Others
<1>12. CmdOf(c)'  BY <1>1, <1>2, <1>3, <1>7 DEF CmdOf, Copying, Adding
<1>13. StagedOf(c)' /\ PlannedOf(c)'  BY <1>1, <1>2, <1>7 DEF StagedOf, PlannedOf
<1>14. RecordOf(c)'
  <2>1. Active(c) /\ (Declared(c)' <=> Declared(c))
    BY <1>2, <1>7 DEF Active, Declared
  <2> QED  BY <1>1, <1>2, <1>7, <1>8, <1>10, <2>1 DEF RecordOf
<1> QED  BY <1>2, <1>7, <1>11, <1>12, <1>13, <1>14, StepOf, Untouched DEF Sound, Owes

LEMMA RolledBackSound ==
  ASSUME FilesInv, NEW c \in Cmds, RolledBack(c)
  PROVE  FilesInv' /\ Owes(c)
BY GiveUpSound DEF RolledBack

LEMMA UndeclareSound ==
  ASSUME FilesInv, NEW c \in Cmds, Undeclare(c)
  PROVE  FilesInv' /\ Owes(c)
<1>0. Shaped /\ IsCommand(cmd[c]) /\ cmd = [d \in Cmds |-> cmd[d]]  BY DEF FilesInv, Shaped
<1>1. CmdOf(c) /\ RecordOf(c) /\ RootInv  BY DEF FilesInv, Sound
<1>2. /\ cmd[c].pc = "undeclare" /\ UNCHANGED root
      /\ cmd' = [cmd EXCEPT ![c].pc = "restore"]
  BY DEF Undeclare
<1>3. cmd' = [d \in Cmds |-> cmd'[d]] /\ \A d \in Cmds \ {c} : cmd'[d] = cmd[d]
  BY <1>0, <1>2
<1>4. IsCommand(cmd'[c])  BY <1>0, <1>2 DEF IsCommand, Fields
<1>5. /\ cmd'[c].pc = "restore" /\ cmd'[c].wrote = cmd[c].wrote /\ cmd'[c].kind = cmd[c].kind
      /\ cmd'[c].add = cmd[c].add /\ cmd'[c].before = cmd[c].before
      /\ cmd'[c].plan = cmd[c].plan /\ cmd'[c].applied = cmd[c].applied
  BY <1>0, <1>2 DEF IsCommand, Fields
<1>6. StagedOf(c)' /\ PlannedOf(c)'  BY <1>5 DEF StagedOf, PlannedOf
<1>7. Active(c) /\ Declared(c) /\ ~Declared(c)' /\ manifest # {} /\ cmd[c].before # {}
  BY <1>1, <1>2, <1>5 DEF Active, Declared, Copying, CmdOf, Adding
<1>8. Applied(c)' = Applied(c)  BY <1>5 DEF Applied
<1>9. CASE CanUndeclare(c)
  <2>1. manifest' = cmd[c].before /\ Note({Yaml}, c)  BY <1>9 DEF Undeclare
  <2>2. Shaped' /\ Others(c, {Yaml}) /\ SeesOn(c)
    BY <1>0, <1>3, <1>4, <2>1, NoteIs DEF Shaped, Others
  <2>3. Touches({Yaml})  BY <1>1, <1>2, <1>7, <2>1 DEF Touches, RootInv
  <2>4. CmdOf(c)'  BY <1>1, <1>2, <1>5, <1>7, <2>1 DEF CmdOf, Copying, Adding
  <2>5. RecordOf(c)'
    BY <1>1, <1>2, <1>5, <1>7, <1>8, <2>1, <2>2 DEF RecordOf, SeesOn
  <2> QED  BY <1>5, <1>6, <2>2, <2>3, <2>4, <2>5, StepOf DEF Sound, Owes
<1>10. CASE ~CanUndeclare(c)
  <2>1. UNCHANGED <<manifest, seen>>  BY <1>10 DEF Undeclare
  <2>2. Shaped' /\ Others(c, {}) /\ SeesOn(c)
    BY <1>0, <1>3, <1>4, <2>1, SeenKeptIs DEF Shaped, Others, SeesOn
  <2>3. Yaml \in seen[c].touched  BY <1>1, <1>7, <1>10 DEF RecordOf, CanUndeclare
  <2>4. CmdOf(c)'  BY <1>1, <1>2, <1>5, <1>7, <2>1 DEF CmdOf, Copying, Adding
  <2>5. RecordOf(c)'
    BY <1>1, <1>2, <1>5, <1>7, <1>8, <2>1, <2>2, <2>3 DEF RecordOf, SeesOn
  <2> QED  BY <1>2, <1>5, <1>6, <2>1, <2>2, <2>4, <2>5, StepOf, Untouched DEF Sound, Owes
<1> QED  BY <1>9, <1>10

LEMMA RestoreSound ==
  ASSUME FilesInv, NEW c \in Cmds, Restore(c)
  PROVE  FilesInv' /\ Owes(c)
<1> DEFINE fs == Scaffolded(c)
<1>1. CmdOf(c) /\ RecordOf(c) /\ RootInv  BY DEF FilesInv, Sound
<1>2. /\ cmd[c].pc = "restore" /\ UNCHANGED manifest
      /\ root' = [f \in Files |-> IF f \in fs THEN Absent ELSE root[f]]
      /\ EndChanging(c, "failed", fs)
  BY DEF Restore
<1>3. fs \subseteq Inputs /\ fs \subseteq cmd[c].wrote
      /\ \A f \in cmd[c].wrote : root[f] = Seed => f \in fs
  BY <1>1 DEF Scaffolded, CmdOf
<1> HIDE DEF fs
<1>4. /\ root' = [f \in Files |-> root'[f]]
      /\ \A f \in Files : root'[f] = IF f \in fs THEN Absent ELSE root[f]
  BY <1>2
<1>5. Touches(fs)
  <2>1. manifest # {}  BY <1>1, <1>2 DEF CmdOf, Adding
  <2>2. \A f \in Inputs : ~Generated(root'[f])
    BY <1>1, <1>4, ContentFacts DEF RootInv, Files
  <2>3. \A f \in Seeds : root'[f] = root[f]  BY <1>3, <1>4, RolesAssumption DEF Files
  <2> QED  BY <1>1, <1>2, <1>4, <2>1, <2>2, <2>3 DEF Touches, RootInv
<1>6. FilesInv'  BY <1>2, <1>5, EndSound DEF Resting
<1>7. NothingLeft(c)
  <2>1. Active(c) /\ ~Declared(c) /\ Applied(c) = {}
    BY <1>1, <1>2 DEF Active, Declared, Copying, Applied, CmdOf
  <2> QED  BY <1>1, <1>2, <1>3, <1>4, <2>1 DEF RecordOf, NothingLeft
<1> QED  BY <1>6, <1>7 DEF Owes

-----------------------------------------------------------------------------
(* Commands that begin, and the developer                                   *)

\* A command begins at p: it remembers the project as it finds it.
LEMMA BeginSound ==
  ASSUME FilesInv, NEW c \in Cmds, NEW n, Begin(c), cmd' = [cmd EXCEPT ![c] = n],
         IsCommand(n), n.pc \in {"rename", "copy", "scaffold"},
         n.pc = "rename" => n.kind = "new",
         n.pc = "copy" => manifest # {} /\ n.kind \in {"sync", "deps", "generate", "check"},
         n.pc = "scaffold" => manifest # {} /\ n.kind = "add" /\ n.before = manifest,
         n.kind = "add" => n.pc = "scaffold",
         n.add \subseteq Services, n.wrote = {}, n.applied = <<>>
  PROVE  FilesInv'
<1>0. /\ Shaped /\ cmd = [d \in Cmds |-> cmd[d]] /\ seen = [d \in Cmds |-> seen[d]]
      /\ \A d \in Cmds : IsSeen(seen[d])
  BY DEF FilesInv, Shaped
<1>1. UNCHANGED <<manifest, root>>  BY DEF Begin
<1> DEFINE begun == [Unseen EXCEPT !.root = root, !.yaml = manifest,
                                   !.met = \E d \in Cmds \ {c} : Active(d)]
           beside(d) == [seen[d] EXCEPT !.met = @ \/ Active(d)]
<1>2. seen' = [d \in Cmds |-> IF d = c THEN begun ELSE beside(d)]  BY DEF Begin
<1>3. IsSeen(begun) /\ begun.root = root /\ begun.yaml = manifest /\ begun.touched = {}
  BY IdleIs DEF IsSeen, SeenFields
<1>4. ASSUME NEW d \in Cmds
      PROVE  /\ IsSeen(beside(d)) /\ beside(d).root = seen[d].root
             /\ beside(d).yaml = seen[d].yaml /\ beside(d).touched = seen[d].touched
  <2>1. IsSeen(seen[d])  BY <1>0
  <2> QED  BY <2>1 DEF IsSeen, SeenFields
<1> HIDE DEF begun, beside
<1>5. /\ seen' = [d \in Cmds |-> seen'[d]] /\ seen'[c] = begun
      /\ \A d \in Cmds \ {c} : seen'[d] = beside(d)
  BY <1>2
<1>6. /\ cmd' = [d \in Cmds |-> cmd'[d]] /\ cmd'[c] = n
      /\ \A d \in Cmds \ {c} : cmd'[d] = cmd[d]
  BY <1>0
<1>7. Shaped' /\ Others(c, {})  BY <1>0, <1>3, <1>4, <1>5, <1>6 DEF Shaped, Others
<1>8. CmdOf(c)'
  <2>1. n.applied \in Seq(DOMAIN n.plan) /\ Injective(n.applied)  BY EmptyIs
  <2>2. n.kind = "add" => n.before # {}  OBVIOUS
  <2> QED  BY <1>1, <1>6, <2>1, <2>2 DEF CmdOf, Copying, Adding
<1>9. StagedOf(c)' /\ PlannedOf(c)'  BY <1>6 DEF StagedOf, PlannedOf
<1>10. RecordOf(c)'
  <2>1. Applied(c)' = {} /\ ~Declared(c)'  BY <1>6 DEF Applied, Declared, Copying
  <2>2. seen'[c].touched = {} /\ seen'[c].root = root /\ seen'[c].yaml = manifest
    BY <1>3, <1>5
  <2> QED  BY <1>1, <1>6, <2>1, <2>2 DEF RecordOf
<1> QED  BY <1>1, <1>7, <1>8, <1>9, <1>10, StepOf, Untouched DEF Sound

LEMMA BeginNewSound ==
  ASSUME FilesInv, NEW c \in Cmds, BeginNew(c)
  PROVE  FilesInv' /\ Owes(c)
<1> DEFINE n == [Idle EXCEPT !.kind = "new", !.pc = "rename"]
<1>1. Begin(c) /\ cmd' = [cmd EXCEPT ![c] = n]  BY DEF BeginNew
<1>2. /\ IsCommand(n) /\ n.pc = "rename" /\ n.kind = "new" /\ n.add = {} /\ n.wrote = {}
      /\ n.applied = <<>>
  BY IdleIs DEF IsCommand, Fields
<1>3. cmd'[c] = n  BY <1>1 DEF FilesInv, Shaped
<1> HIDE DEF n
<1>4. FilesInv'  BY <1>1, <1>2, BeginSound
<1> QED  BY <1>2, <1>3, <1>4 DEF Owes

LEMMA BeginRunSound ==
  ASSUME FilesInv, NEW c \in Cmds, NEW kind \in {"sync", "deps", "generate", "check"},
         BeginRun(c, kind)
  PROVE  FilesInv' /\ Owes(c)
<1> DEFINE n == [Idle EXCEPT !.kind = kind, !.pc = "copy", !.m = manifest]
<1>1. Begin(c) /\ cmd' = [cmd EXCEPT ![c] = n] /\ manifest # {}  BY DEF BeginRun
<1>2. /\ IsCommand(n) /\ n.pc = "copy" /\ n.kind = kind /\ n.add = {} /\ n.wrote = {}
      /\ n.applied = <<>>
  BY IdleIs DEF IsCommand, Fields
<1>3. cmd'[c] = n  BY <1>1 DEF FilesInv, Shaped
<1> HIDE DEF n
<1>4. FilesInv'  BY <1>1, <1>2, BeginSound
<1> QED  BY <1>2, <1>3, <1>4 DEF Owes

LEMMA BeginAddSound ==
  ASSUME FilesInv, NEW c \in Cmds, NEW s \in Services, BeginAdd(c, s)
  PROVE  FilesInv' /\ Owes(c)
<1> DEFINE n == [Idle EXCEPT !.kind = "add", !.pc = "scaffold", !.add = {s},
                             !.before = manifest]
<1>1. Begin(c) /\ cmd' = [cmd EXCEPT ![c] = n] /\ manifest # {}  BY DEF BeginAdd
<1>2. /\ IsCommand(n) /\ n.pc = "scaffold" /\ n.kind = "add" /\ n.add = {s} /\ n.wrote = {}
      /\ n.applied = <<>> /\ n.before = manifest
  BY IdleIs DEF IsCommand, Fields
<1>3. cmd'[c] = n  BY <1>1 DEF FilesInv, Shaped
<1> HIDE DEF n
<1>4. FilesInv'  BY <1>1, <1>2, BeginSound
<1> QED  BY <1>2, <1>3, <1>4 DEF Owes

LEMMA EditSound ==
  ASSUME FilesInv, NEW f \in Files, NEW content \in Edits(f), Edit(f, content)
  PROVE  FilesInv'
<1>1. /\ manifest # {} /\ root' = [root EXCEPT ![f] = content]
      /\ Note({f}, "developer") /\ UNCHANGED <<manifest, cmd>>
  BY DEF Edit
<1>2. Shaped /\ RootInv  BY DEF FilesInv
<1>3. Shaped' /\ Others("developer", {f})
  BY <1>1, <1>2, NoteIs DEF Shaped, Others
<1>4. root' = [g \in Files |-> root'[g]] /\ root'[f] = content
      /\ \A g \in Files \ {f} : root'[g] = root[g]
  BY <1>1, <1>2 DEF RootInv
<1>5. content \in {User(1), User(2), Absent} /\ (f \in Seeds => content = User(1))
  BY RolesAssumption DEF Edits
<1>6. \A g \in Inputs : ~Generated(root'[g])
  BY <1>2, <1>4, <1>5, ContentFacts DEF RootInv, Files
<1>7. \A g \in Seeds : root'[g] \in SeedHolds /\ (root[g] = User(1) => root'[g] = User(1))
  BY <1>2, <1>4, <1>5 DEF RootInv, Files, SeedHolds
<1>8. Touches({f})  BY <1>1, <1>4, <1>6, <1>7 DEF Touches, RootInv
<1> QED  BY <1>3, <1>8, StepOf, RolesAssumption

LEMMA EditYamlSound ==
  ASSUME FilesInv, EditYaml
  PROVE  FilesInv'
<1>1. /\ manifest # {} /\ manifest' = manifest \union {ByHand}
      /\ Note({Yaml}, "developer") /\ UNCHANGED <<root, cmd>>
  BY DEF EditYaml
<1>2. Shaped /\ RootInv  BY DEF FilesInv
<1>3. Shaped' /\ Others("developer", {Yaml})
  BY <1>1, <1>2, NoteIs DEF Shaped, Others
<1>4. Touches({Yaml})  BY <1>1, <1>2 DEF Touches, RootInv
<1> QED  BY <1>3, <1>4, StepOf, RolesAssumption

-----------------------------------------------------------------------------
(* The invariant holds, and what follows from it                            *)

LEMMA InitSound == Init => FilesInv
<1> SUFFICES ASSUME Init PROVE FilesInv  OBVIOUS
<1>1. Shaped
  <2>1. cmd = [c \in Cmds |-> Idle] /\ seen = [c \in Cmds |-> Unseen]  BY DEF Init
  <2> QED  BY <2>1, IdleIs DEF Shaped
<1>2. RootInv
  <2>1. CASE manifest = {} /\ root = [f \in Files |-> Absent]
    BY <2>1, ContentFacts DEF RootInv, SeedHolds, Files
  <2>2. CASE manifest = {Base} /\ root = Started
    <3> DEFINE o == CHOOSE o \in Outputs : TRUE
               tree == [f \in Files |-> Absent]
               fresh == SyncManifest(tree, {Base})
               with == [fresh EXCEPT ![Source[o]] = User(1)]
    <3>1. root = RunGenerators(with)  BY <2>2 DEF Started
    <3>2. \A f \in Inputs \union Seeds : tree[f] = Absent  BY DEF Files
    <3>3. fresh = [f \in Files |-> fresh[f]]  BY DEF SyncManifest
    <3>4. \A f \in Inputs \union Seeds : fresh[f] = tree[f] \/ (f \in Seeds /\ fresh[f] = Seed)
      BY SyncKeeps
    <3> HIDE DEF fresh, tree, o
    <3>5. \A f \in Inputs \union Seeds : with[f] = fresh[f] \/ with[f] = User(1)
      BY <3>3 DEF Files
    <3> HIDE DEF with
    <3>6. \A f \in Inputs \union Seeds : root[f] = with[f]  BY <3>1, GeneratorsKeep
    <3>7. root = [f \in Files |-> root[f]]  BY <3>1 DEF RunGenerators
    <3>8. \A f \in Inputs : ~Generated(root[f])
      BY <3>2, <3>4, <3>5, <3>6, ContentFacts, RolesAssumption
    <3>9. \A f \in Seeds : root[f] \in SeedHolds
      BY <3>2, <3>4, <3>5, <3>6 DEF SeedHolds
    <3> QED  BY <2>2, <3>7, <3>8, <3>9 DEF RootInv
  <2> QED  BY <2>1, <2>2 DEF Init
<1>3. ASSUME NEW c \in Cmds PROVE Sound(c)
  <2>1. /\ cmd[c].pc = "idle" /\ cmd[c].kind = "none" /\ cmd[c].applied = <<>>
        /\ cmd[c].wrote = {} /\ cmd[c].add = {}
    BY IdleIs DEF Init
  <2>2. CmdOf(c)  BY <2>1, EmptyIs DEF CmdOf, Resting, Copying, Adding
  <2> QED  BY <2>1, <2>2 DEF Sound, StagedOf, PlannedOf, RecordOf, Active
<1> QED  BY <1>1, <1>2, <1>3 DEF FilesInv

LEMMA CommandSound ==
  ASSUME FilesInv, NEW c \in Cmds, Command(c) \/ Crash(c)
  PROVE  FilesInv' /\ Owes(c)
<1>1. CASE Rename(c)  BY <1>1, RenameSound
<1>2. CASE Scaffold(c)  BY <1>2, ScaffoldSound
<1>3. CASE Declare(c)  BY <1>3, DeclareSound
<1>4. CASE Load(c)  BY <1>4, LoadSound
<1>5. CASE Copy(c)  BY <1>5, CopySound
<1>6. CASE Render(c)  BY <1>6, RenderSound
<1>7. CASE PlanCommit(c)  BY <1>7, PlanCommitSound
<1>8. CASE Verify(c)  BY <1>8, VerifySound
<1>9. CASE Replace(c)  BY <1>9, ReplaceSound
<1>10. CASE Finish(c)  BY <1>10, FinishSound
<1>11. CASE PutBack(c)  BY <1>11, PutBackSound
<1>12. CASE RolledBack(c)  BY <1>12, RolledBackSound
<1>13. CASE Undeclare(c)  BY <1>13, UndeclareSound
<1>14. CASE Restore(c)  BY <1>14, RestoreSound
<1>15. CASE BeginNew(c)  BY <1>15, BeginNewSound
<1>16. CASE \E kind \in {"sync", "deps", "generate", "check"} : BeginRun(c, kind)
  BY <1>16, BeginRunSound
<1>17. CASE \E s \in Services \ {ByHand} : BeginAdd(c, s)  BY <1>17, BeginAddSound
<1>18. CASE RenderFails(c)  BY <1>18, RenderFailsSound
<1>19. CASE ReplaceFails(c)  BY <1>19, ReplaceFailsSound
<1>20. CASE PutBackFails(c)  BY <1>20, PutBackFailsSound
<1>21. CASE Crash(c)  BY <1>21, CrashSound
<1> QED
  BY <1>1, <1>2, <1>3, <1>4, <1>5, <1>6, <1>7, <1>8, <1>9, <1>10, <1>11, <1>12, <1>13,
     <1>14, <1>15, <1>16, <1>17, <1>18, <1>19, <1>20, <1>21 DEF Command, Advance

LEMMA NextSound == FilesInv /\ [Next]_vars => FilesInv'
<1> SUFFICES ASSUME FilesInv, [Next]_vars PROVE FilesInv'  OBVIOUS
<1>1. CASE \E c \in Cmds : Command(c) \/ Crash(c)  BY <1>1, CommandSound
<1>2. CASE EditYaml  BY <1>2, EditYamlSound
<1>3. CASE \E f \in Files : \E content \in Edits(f) : Edit(f, content)
  BY <1>3, EditSound
<1>4. CASE UNCHANGED vars
  <2>1. UNCHANGED <<manifest, root, cmd, seen>>  BY <1>4 DEF vars
  <2>2. Shaped' /\ Others("developer", {})  BY <2>1 DEF FilesInv, Shaped, Others
  <2> QED  BY <2>1, <2>2, Untouched, StepOf, RolesAssumption
<1> QED  BY <1>1, <1>2, <1>3, <1>4 DEF Next, Developer

\* The invariant above is inductive: it holds of every reachable state.
THEOREM FilesSound == Spec => []FilesInv
<1>1. Init => FilesInv  BY InitSound
<1>2. FilesInv /\ [Next]_vars => FilesInv'  BY NextSound
<1> QED  BY <1>1, <1>2, PTL DEF Spec

\* The other commands do not move in a step of c.
LEMMA OnlyOneMoves ==
  ASSUME FilesInv, NEW c \in Cmds, Command(c) \/ Crash(c), NEW d \in Cmds \ {c}
  PROVE  cmd'[d] = cmd[d]
<1>1. cmd = [e \in Cmds |-> cmd[e]]  BY DEF FilesInv, Shaped
<1>2. CASE Advance(c)
  BY <1>1, <1>2 DEF Advance, Rename, Scaffold, Declare, Load, Copy, Render, PlanCommit, Verify,
     Replace, Finish, PutBack, RolledBack, Undeclare, Restore, GiveUp, Go, End, EndChanging
<1>3. CASE ~Advance(c)
  BY <1>1, <1>3 DEF Command, Crash, BeginNew, BeginRun, BeginAdd, RenderFails, ReplaceFails,
     PutBackFails, GiveUp, Go, End, EndChanging
<1> QED  BY <1>2, <1>3

\* `roost project new`, sync, deps, generate and add report failure only when the
\* project is what it was: the roll back of commitSyncChanges, of roost.yaml and of
\* the scaffold together miss nothing, whichever step failed and whatever other
\* commands and the developer did meanwhile.
THEOREM FailureChangesNothing == Spec => AllOrNothing
<1> DEFINE Kept == \A c \in Cmds : Active(c) /\ cmd'[c].pc = "failed" => NothingLeft(c)
<1>1. FilesInv /\ [Next]_vars => [Kept]_vars
  <2> SUFFICES ASSUME FilesInv, Next, NEW c \in Cmds, Active(c), cmd'[c].pc = "failed"
               PROVE  NothingLeft(c)
    OBVIOUS
  <2>1. cmd'[c] # cmd[c]  BY DEF Active
  <2>2. CASE \E d \in Cmds : Command(d) \/ Crash(d)
    <3>1. PICK d \in Cmds : Command(d) \/ Crash(d)  BY <2>2
    <3>2. d = c  BY <2>1, <3>1, OnlyOneMoves
    <3> QED  BY <3>1, <3>2, CommandSound DEF Owes
  <2>3. CASE Developer  BY <2>1, <2>3 DEF Developer, Edit, EditYaml
  <2> QED  BY <2>2, <2>3 DEF Next
<1>2. AllOrNothing <=> [][Kept]_vars  BY DEF AllOrNothing, NothingLeft
<1> QED  BY <1>1, <1>2, FilesSound, PTL DEF Spec

\* No command overwrites an input, or a seed that has become the developer's.
Respected(f) == root[f] \in {User(1), User(2)} => root'[f] = root[f]

LEMMA CommandRespects ==
  ASSUME FilesInv, NEW c \in Cmds, Command(c) \/ Crash(c), NEW f \in Inputs \union Seeds
  PROVE  Respected(f)
<1>0. /\ RootInv /\ CmdOf(c) /\ PlannedOf(c) /\ f \in Files
      /\ root[f] \in {User(1), User(2)} => root[f] # Absent /\ root[f] # Seed
  BY ContentFacts DEF FilesInv, Sound, Files
<1>1. CASE UNCHANGED root  BY <1>1 DEF Respected
<1>2. CASE manifest = {}  BY <1>0, <1>2 DEF Respected, RootInv
<1>3. CASE Scaffold(c)
  <2>1. UNCHANGED root \/ root'[f] = root[f] \/ root[f] = Absent
    BY <1>0, <1>3 DEF Scaffold
  <2> QED  BY <1>0, <2>1 DEF Respected
<1>4. CASE Replace(c)
  <2>1. NextFile(c) \in DOMAIN cmd[c].plan /\ cmd[c].pc = "commit"
    BY <1>4, NextIs DEF Replace
  <2>2. CASE f = NextFile(c) /\ ~(UNCHANGED root)
    <3>1. f \in Seeds /\ root[f] = cmd[c].plan[f].before
      BY <1>0, <1>4, <2>1, <2>2 DEF Replace, PlannedOf, Current
    <3>2. root[f] = Absent  BY <1>0, <2>1, <2>2, <3>1 DEF PlannedOf
    <3> QED  BY <1>0, <3>2 DEF Respected
  <2>3. CASE f # NextFile(c) \/ UNCHANGED root
    <3>1. root'[f] = root[f]  BY <1>0, <1>4, <2>3 DEF Replace, RootInv
    <3> QED  BY <3>1 DEF Respected
  <2> QED  BY <2>2, <2>3
<1>5. CASE PutBack(c)
  <2> DEFINE g == cmd[c].applied[Len(cmd[c].applied)]
  <2>1. g \in DOMAIN cmd[c].plan /\ cmd[c].pc = "rollback"
    <3>1. cmd[c].pc = "rollback" /\ Len(cmd[c].applied) > 0  BY <1>5 DEF PutBack
    <3>2. cmd[c].applied \in Seq(DOMAIN cmd[c].plan)  BY <1>0 DEF CmdOf
    <3> QED  BY <3>1, <3>2
  <2>2. \/ UNCHANGED root
        \/ /\ root' = [root EXCEPT ![g] = cmd[c].plan[g].before]
           /\ root[g] \in {Absent, cmd[c].plan[g].body}
    BY <1>5 DEF PutBack, CanPutBack
  <2> HIDE DEF g
  <2>3. CASE f = g
    <3>1. f \in Seeds /\ cmd[c].plan[f].body = Seed  BY <1>0, <2>1, <2>3 DEF PlannedOf
    <3> QED  BY <1>0, <2>2, <2>3, <3>1 DEF Respected
  <2>4. CASE f # g
    <3>1. root'[f] = root[f]  BY <1>0, <2>2, <2>4 DEF RootInv
    <3> QED  BY <3>1 DEF Respected
  <2> QED  BY <2>3, <2>4
<1>6. CASE Restore(c)
  <2>1. root'[f] = root[f] \/ root[f] = Seed  BY <1>0, <1>6 DEF Restore, Scaffolded
  <2> QED  BY <1>0, <2>1 DEF Respected
<1>7. CASE Rename(c) /\ manifest # {}
  <2>1. UNCHANGED root  BY <1>7 DEF Rename
  <2> QED  BY <2>1 DEF Respected
<1>8. CASE ~(Scaffold(c) \/ Replace(c) \/ PutBack(c) \/ Restore(c) \/ Rename(c))
  <2>1. UNCHANGED root
    BY <1>8 DEF Command, Advance, Crash, Declare, Load, Copy, Render, PlanCommit, Verify,
       Finish, RolledBack, Undeclare, BeginNew, BeginRun, BeginAdd, Begin, RenderFails,
       ReplaceFails, PutBackFails, Keep
  <2> QED  BY <2>1 DEF Respected
<1> QED  BY <1>2, <1>3, <1>4, <1>5, <1>6, <1>7, <1>8

\* An input or a seed that a developer wrote is changed by no command: not when it
\* brings its copy back, not when it rolls back, not when it takes a scaffold away.
THEOREM CommandsKeepWork == Spec => WorkKept
<1> DEFINE Kept == cmd' # cmd => \A f \in Inputs \union Seeds : Respected(f)
<1>1. FilesInv /\ [Next]_vars => [Kept]_vars
  <2>1. Developer => UNCHANGED cmd  BY DEF Developer, Edit, EditYaml
  <2> QED  BY <2>1, CommandRespects DEF Next
<1>2. WorkKept <=> [][Kept]_vars  BY DEF WorkKept, Respected
<1> QED  BY <1>1, <1>2, FilesSound, PTL DEF Spec

\* A service leaves roost.yaml only in the step that takes back the declaration of
\* the add that failed: no other step of any command or of the developer removes one.
THEOREM DeclarationsStay == Spec => DeclarationsKept
<1> DEFINE Kept == \A s \in manifest \ manifest' :
                     \E c \in Cmds : s \in cmd[c].add /\ cmd[c].pc = "undeclare"
<1>1. [Next]_vars => [Kept]_vars
  <2> SUFFICES ASSUME Next, NEW s \in manifest \ manifest'
               PROVE  \E c \in Cmds : s \in cmd[c].add /\ cmd[c].pc = "undeclare"
    OBVIOUS
  <2>1. ~Developer  BY DEF Developer, Edit, EditYaml
  <2>2. PICK c \in Cmds : Command(c) \/ Crash(c)  BY <2>1 DEF Next
  <2>3. CASE Undeclare(c)  BY <2>3 DEF Undeclare, CanUndeclare
  <2>4. CASE ~Undeclare(c)
    <3>1. ~Advance(c)
      BY <2>4 DEF Advance, Rename, Scaffold, Declare, Load, Keep, Copy, Render, PlanCommit,
         Verify, Replace, Finish, PutBack, RolledBack, Restore
    <3> QED
      BY <2>2, <3>1 DEF Command, Crash, BeginNew, BeginRun, BeginAdd, Begin, RenderFails,
         ReplaceFails, PutBackFails
  <2> QED  BY <2>3, <2>4
<1>2. DeclarationsKept <=> [][Kept]_vars  BY DEF DeclarationsKept
<1> QED  BY <1>1, <1>2, PTL DEF Spec

-----------------------------------------------------------------------------
(* A command that runs by itself leaves the project as it should be          *)

\* No other command is active, or has been since this one began.
Alone(c) == Active(c) /\ ~seen[c].met

MetInv == \A c, d \in Cmds : Alone(c) /\ Active(d) => d = c

\* What its synchronisation calls for, and the commands that run the generators
\* and bring something back.
Called(c) == IF cmd[c].kind \in {"sync", "add"} THEN Plan(cmd[c].m) ELSE {}
Producing(c) == cmd[c].kind \in {"sync", "add", "generate"}

\* The snapshot is the copy's inputs, and the copy the project but for the
\* developer's edits.
CopiedOf(c) ==
  /\ cmd[c].pc \in {"render", "plan", "verify"} =>
       \A f \in Inputs :
         IF f \in DOMAIN cmd[c].snap
           THEN cmd[c].stage[f] = cmd[c].snap[f] /\ cmd[c].stage[f] # Absent
           ELSE cmd[c].stage[f] = Absent
  /\ cmd[c].pc = "render" =>
       \A f \in Files : \/ root[f] = cmd[c].stage[f]
                        \/ f \in seen[c].late /\ ~Generated(root[f])

\* What a rendered tree holds at an output, and at a file that is called for.
Rendering(tree, o) ==
  IF tree[Source[o]] # Absent THEN tree[o] = Made(tree[Source[o]])
                              ELSE ~Generated(tree[o])

CalledFor(tree, m, f) == tree[f] # Absent /\ (f \in Owned => tree[f] = Template(m))

\* The rendered copy is current, and nothing in the project looks generated that
\* is the developer's in the copy.
MadeOf(c) ==
  cmd[c].pc \in {"plan", "verify", "commit"} /\ Producing(c) =>
    /\ \A o \in Outputs : Rendering(cmd[c].stage, o)
    /\ \A f \in Called(c) : CalledFor(cmd[c].stage, cmd[c].m, f)
    /\ cmd[c].pc = "plan" =>
         \A o \in Outputs : \/ Generated(cmd[c].stage[o]) \/ cmd[c].stage[o] = Absent
                            \/ ~Generated(root[o])

\* A file that is as it should be, as far as this command is concerned.
Settled(c, f) ==
  \/ root[f] = cmd[c].stage[f]
  \/ f \in Outputs /\ ~Generated(cmd[c].stage[f]) /\ ~Generated(root[f])

\* Whatever no one has changed since it was planned is settled or still to replace.
SettledOf(c) ==
  /\ cmd[c].pc \in {"verify", "commit"} /\ Producing(c) =>
       /\ \A f \in DOMAIN cmd[c].plan : cmd[c].plan[f].body = cmd[c].stage[f]
       /\ \A f \in (Outputs \union Called(c)) \ seen[c].late :
            f \in DOMAIN cmd[c].plan \ Applied(c) \/ Settled(c, f)
  /\ cmd[c].pc = "commit" => \A f \in Inputs \ seen[c].late : root[f] = cmd[c].stage[f]

ByItself(c) ==
  /\ CopiedOf(c) /\ MadeOf(c) /\ SettledOf(c)
  /\ cmd[c].kind # "add" => cmd[c].add = {}
  /\ cmd[c].kind = "check" => cmd[c].pc \notin {"plan", "verify", "commit"}
  /\ seen[c].late \subseteq seen[c].touched

AloneInv == MetInv /\ \A c \in Cmds : Alone(c) => ByItself(c)

\* What a step of c leaves of it, and what it has reached when it reports success.
Leaves(c) == /\ Active(c)' => ByItself(c)'
             /\ cmd'[c].pc = "done" => CurrentAfter(c)

LEMMA LeavesAway ==
  ASSUME NEW c, ByItself(c), cmd'[c].kind = cmd[c].kind, cmd'[c].add = cmd[c].add,
         cmd'[c].pc \notin {"render", "plan", "verify", "commit", "done"},
         seen'[c].late \subseteq seen'[c].touched
  PROVE  Leaves(c)
BY DEF Leaves, ByItself, CopiedOf, MadeOf, SettledOf

LEMMA LeavesGo ==
  ASSUME FilesInv, NEW c \in Cmds, ByItself(c), NEW p \in {"undeclare", "restore", "rollback"},
         Go(c, p)
  PROVE  Leaves(c)
<1>1. Goes(c, p) /\ UNCHANGED seen  BY GoIs DEF FilesInv, Go
<1>2. /\ cmd'[c].pc = p /\ cmd'[c].kind = cmd[c].kind /\ cmd'[c].add = cmd[c].add
  BY <1>1, GoesIs
<1> QED  BY <1>1, <1>2, LeavesAway DEF ByItself

LEMMA LeavesEnd ==
  ASSUME FilesInv, NEW c \in Cmds, NEW how \in {"idle", "failed"}, NEW fs,
         EndChanging(c, how, fs)
  PROVE  Leaves(c)
<1>1. cmd'[c].pc = how  BY EndIs DEF FilesInv
<1> QED  BY <1>1 DEF Leaves, Active

LEMMA LeavesDone ==
  ASSUME FilesInv, NEW c \in Cmds, NEW fs, EndChanging(c, "done", fs), CurrentAfter(c)
  PROVE  Leaves(c)
<1>1. cmd'[c].pc = "done"  BY EndIs DEF FilesInv
<1> QED  BY <1>1 DEF Leaves, Active

LEMMA LeavesGiveUp ==
  ASSUME FilesInv, NEW c \in Cmds, ByItself(c), GiveUp(c)
  PROVE  Leaves(c)
BY LeavesGo, LeavesEnd DEF GiveUp, End

\* A note of c's own step leaves what c itself has seen.
LEMMA NoteOwn ==
  ASSUME Shaped, NEW c \in Cmds, NEW fs, Note(fs, c)
  PROVE  seen'[c] = seen[c]
BY DEF Note, Shaped

-----------------------------------------------------------------------------
(* What rendering makes of the copy                                         *)

LEMMA GeneratorsRender ==
  ASSUME NEW tree, NEW o \in Outputs
  PROVE  /\ Rendering(RunGenerators(tree), o)
         /\ \/ Generated(RunGenerators(tree)[o]) \/ RunGenerators(tree)[o] = Absent
            \/ ~Generated(tree[o])
<1> DEFINE made == RunGenerators(tree)
<1>1. o \in Files /\ Source[o] \in Inputs /\ Source[o] \in Files
  BY FilesAssumption DEF Files
<1>2. made[Source[o]] = tree[Source[o]]  BY <1>1, GeneratorsKeep
<1>3. made[o] = Output(o, tree)  BY <1>1 DEF RunGenerators
<1> HIDE DEF made
<1>4. CASE tree[Source[o]] # Absent
  <2>1. made[o] = Made(tree[Source[o]])  BY <1>3, <1>4 DEF Output
  <2> QED  BY <1>2, <1>4, <2>1, ContentFacts DEF Rendering, made
<1>5. CASE tree[Source[o]] = Absent
  <2>1. made[o] = IF Generated(tree[o]) THEN Absent ELSE tree[o]  BY <1>3, <1>5 DEF Output
  <2> QED  BY <1>2, <1>5, <2>1, ContentFacts DEF Rendering, made
<1> QED  BY <1>4, <1>5

LEMMA SyncCalls ==
  ASSUME NEW tree, NEW m, NEW f \in Plan(m)
  PROVE  CalledFor(RunGenerators(SyncManifest(tree, m)), m, f)
<1> DEFINE fresh == SyncManifest(tree, m)
<1>1. f \in Files /\ f \notin Outputs  BY RolesAssumption DEF Plan, Files
<1>2. fresh[f] = IF f \in Owned THEN Template(m) ELSE IF tree[f] = Absent THEN Seed ELSE tree[f]
  BY <1>1 DEF SyncManifest
<1> HIDE DEF fresh
<1>3. RunGenerators(fresh)[f] = fresh[f]  BY <1>1 DEF RunGenerators
<1> QED  BY <1>2, <1>3, ContentFacts DEF CalledFor, fresh

\* What is rendered for a command that brings something back.
LEMMA RenderedIs ==
  ASSUME NEW kind \in {"sync", "add", "generate"}, NEW tree, NEW m
  PROVE  /\ \A o \in Outputs :
              /\ Rendering(Rendered(kind, tree, m), o)
              /\ \/ Generated(Rendered(kind, tree, m)[o]) \/ Rendered(kind, tree, m)[o] = Absent
                 \/ ~Generated(tree[o])
         /\ kind # "generate" => \A f \in Plan(m) : CalledFor(Rendered(kind, tree, m), m, f)
<1>1. CASE kind \in {"sync", "add"}
  <2> DEFINE fresh == SyncManifest(tree, m)
  <2>1. Rendered(kind, tree, m) = RunGenerators(fresh)  BY <1>1 DEF Rendered
  <2>2. \A o \in Outputs : fresh[o] = tree[o]
    BY RolesAssumption DEF SyncManifest, Plan, Files
  <2>3. \A f \in Plan(m) : CalledFor(RunGenerators(fresh), m, f)  BY SyncCalls
  <2> HIDE DEF fresh
  <2> QED  BY <2>1, <2>2, <2>3, GeneratorsRender
<1>2. CASE kind = "generate"
  <2> DEFINE made == RunGenerators(tree)
  <2>1. Rendered(kind, tree, m) = TidyDependencies(made)  BY <1>2 DEF Rendered
  <2>2. \A o \in Outputs : /\ Rendering(made, o)
                           /\ \/ Generated(made[o]) \/ made[o] = Absent \/ ~Generated(tree[o])
    BY GeneratorsRender
  <2> HIDE DEF made
  <2>3. \A f \in Inputs \union Outputs : TidyDependencies(made)[f] = made[f]
    BY RolesAssumption DEF TidyDependencies, Files
  <2>4. \A o \in Outputs : Source[o] \in Inputs  BY FilesAssumption
  <2> QED  BY <1>2, <2>1, <2>2, <2>3, <2>4 DEF Rendering
<1> QED  BY <1>1, <1>2

\* A plan is from what the project holds to what the copy holds.
Straight(p, stage) == \A f \in DOMAIN p : p[f].body = stage[f]

LEMMA StagedCovers ==
  ASSUME NEW tree, NEW stage, NEW m
  PROVE  LET p == PlanStagedCommit(tree, stage, m) IN
         /\ Straight(p, stage)
         /\ \A f \in Plan(m) : stage[f] # Absent => f \in DOMAIN p \/ tree[f] = stage[f]
         /\ \A o \in Outputs : \/ o \in DOMAIN p \/ tree[o] = stage[o]
                               \/ ~Generated(stage[o]) /\ stage[o] # Absent
                               \/ stage[o] = Absent /\ ~Generated(tree[o])
<1> DEFINE there == Plan(m) \union {f \in Files : Generated(stage[f])}
           gone == {f \in Files \ there : Generated(tree[f]) /\ stage[f] = Absent}
           differ == {f \in there : stage[f] # Absent /\ stage[f] # tree[f]}
           p == PlanStagedCommit(tree, stage, m)
<1>1. p = [f \in differ \union gone |-> [before |-> tree[f], body |-> stage[f]]]
  BY DEF PlanStagedCommit
<1>2. DOMAIN p = differ \union gone /\ \A f \in differ \union gone : p[f].body = stage[f]
  BY <1>1
<1> HIDE DEF p
<1>3. Straight(p, stage)  BY <1>2 DEF Straight
<1>4. \A f \in Plan(m) : stage[f] # Absent => f \in DOMAIN p \/ tree[f] = stage[f]
  BY <1>2
<1>5. ASSUME NEW o \in Outputs
      PROVE  \/ o \in DOMAIN p \/ tree[o] = stage[o]
             \/ ~Generated(stage[o]) /\ stage[o] # Absent
             \/ stage[o] = Absent /\ ~Generated(tree[o])
  <2>1. o \in Files /\ o \notin Plan(m)  BY RolesAssumption DEF Plan, Files
  <2>2. CASE Generated(stage[o])
    <3>1. o \in there /\ stage[o] # Absent  BY <2>1, <2>2, ContentFacts
    <3> QED  BY <1>2, <3>1
  <2>3. CASE ~Generated(stage[o])
    <3>1. o \notin there  BY <2>1, <2>3
    <3> QED  BY <1>2, <2>1, <2>3, <3>1
  <2> QED  BY <2>2, <2>3
<1> QED  BY <1>3, <1>4, <1>5 DEF p

LEMMA MergedCovers ==
  ASSUME NEW p, NEW q, NEW stage, Straight(p, stage), Straight(q, stage)
  PROVE  Straight(MergeChanges(p, q), stage) /\ DOMAIN p \subseteq DOMAIN MergeChanges(p, q)
BY DEF Straight, MergeChanges

LEMMA ExplicitCovers ==
  ASSUME NEW tree, NEW stage
  PROVE  Straight(PlanExplicit(tree, stage), stage)
BY DEF Straight, PlanExplicit

-----------------------------------------------------------------------------
(* The steps of a command that runs by itself                               *)

LEMMA RenameLeaves ==
  ASSUME FilesInv, NEW c \in Cmds, ByItself(c), Rename(c)
  PROVE  Leaves(c)
<1>1. cmd[c].pc = "rename" /\ cmd[c].kind = "new" /\ cmd[c].add = {}
  BY DEF Rename, FilesInv, Sound, CmdOf, ByItself
<1>2. CASE manifest = {}
  <2>1. EndChanging(c, "done", Files \union {Yaml})  BY <1>2 DEF Rename
  <2>2. CurrentAfter(c)  BY <1>1 DEF CurrentAfter
  <2> QED  BY <2>1, <2>2, LeavesDone
<1>3. CASE manifest # {}
  BY <1>3, LeavesEnd DEF Rename, End
<1> QED  BY <1>2, <1>3

LEMMA ScaffoldLeaves ==
  ASSUME FilesInv, NEW c \in Cmds, ByItself(c), Scaffold(c)
  PROVE  Leaves(c)
<1> DEFINE fs == UNION {Artifact[s] : s \in cmd[c].add}
<1>0. Shaped /\ IsCommand(cmd[c]) /\ cmd = [d \in Cmds |-> cmd[d]]  BY DEF FilesInv, Shaped
<1>1. CASE \A f \in fs : root[f] = Absent
  <2>1. /\ cmd' = [cmd EXCEPT ![c].pc = "declare", ![c].wrote = fs]
        /\ Note(fs, c)
    BY <1>1 DEF Scaffold
  <2> HIDE DEF fs
  <2>2. cmd'[c].pc = "declare" /\ cmd'[c].kind = cmd[c].kind /\ cmd'[c].add = cmd[c].add
    BY <1>0, <2>1 DEF IsCommand, Fields
  <2>3. seen'[c] = seen[c]  BY <1>0, <2>1, NoteOwn
  <2> QED  BY <2>2, <2>3, LeavesAway DEF ByItself
<1>2. CASE ~(\A f \in fs : root[f] = Absent)
  <2>1. End(c, "failed")  BY <1>2 DEF Scaffold
  <2> QED  BY <2>1, LeavesEnd DEF End
<1> QED  BY <1>1, <1>2

LEMMA DeclareLeaves ==
  ASSUME FilesInv, NEW c \in Cmds, ByItself(c), Declare(c)
  PROVE  Leaves(c)
<1>0. Shaped /\ IsCommand(cmd[c]) /\ cmd = [d \in Cmds |-> cmd[d]]  BY DEF FilesInv, Shaped
<1>1. CASE manifest = cmd[c].before
  <2>1. cmd' = [cmd EXCEPT ![c].pc = "load"] /\ Note({Yaml}, c)
    BY <1>1 DEF Declare
  <2>2. cmd'[c].pc = "load" /\ cmd'[c].kind = cmd[c].kind /\ cmd'[c].add = cmd[c].add
    BY <1>0, <2>1 DEF IsCommand, Fields
  <2>3. seen'[c] = seen[c]  BY <1>0, <2>1, NoteOwn
  <2> QED  BY <2>2, <2>3, LeavesAway DEF ByItself
<1>2. CASE manifest # cmd[c].before
  BY <1>2, LeavesGo DEF Declare
<1> QED  BY <1>1, <1>2

LEMMA LoadLeaves ==
  ASSUME FilesInv, NEW c \in Cmds, ByItself(c), Load(c)
  PROVE  Leaves(c)
<1>0. Shaped /\ IsCommand(cmd[c]) /\ cmd = [d \in Cmds |-> cmd[d]]  BY DEF FilesInv, Shaped
<1>1. UNCHANGED seen /\ cmd' = [cmd EXCEPT ![c].pc = "copy", ![c].m = manifest]
  BY DEF Load, Keep
<1>2. cmd'[c].pc = "copy" /\ cmd'[c].kind = cmd[c].kind /\ cmd'[c].add = cmd[c].add
  BY <1>0, <1>1 DEF IsCommand, Fields
<1> QED  BY <1>1, <1>2, LeavesAway DEF ByItself

\* The snapshot of a tree whose inputs are the developer's: all that are there.
LEMMA SnapshotIs ==
  ASSUME NEW tree, NEW m, NEW f \in Inputs, ~Generated(tree[f])
  PROVE  /\ f \in DOMAIN SnapshotInputs(tree, m) <=> tree[f] # Absent
         /\ f \in DOMAIN SnapshotInputs(tree, m) => SnapshotInputs(tree, m)[f] = tree[f]
BY RolesAssumption DEF SnapshotInputs, Files

\* A command that looks again forgets what it saw late.
LEMMA LateOwn ==
  ASSUME Shaped, NEW c \in Cmds, NEW l, seen' = [seen EXCEPT ![c].late = l]
  PROVE  seen'[c].late = l /\ seen'[c].touched = seen[c].touched
<1>1. seen = [d \in Cmds |-> seen[d]] /\ IsSeen(seen[c])  BY DEF Shaped
<1> QED  BY <1>1 DEF IsSeen, SeenFields

LEMMA CopyLeaves ==
  ASSUME FilesInv, NEW c \in Cmds, ByItself(c), Copy(c)
  PROVE  Leaves(c)
<1>0. Shaped /\ RootInv /\ IsCommand(cmd[c]) /\ cmd = [d \in Cmds |-> cmd[d]]
  BY DEF FilesInv, Shaped
<1> DEFINE snap == SnapshotInputs(root, cmd[c].m)
<1>1. /\ cmd[c].pc = "copy" /\ UNCHANGED <<manifest, root>>
      /\ cmd' = [cmd EXCEPT ![c].pc = "render", ![c].stage = root, ![c].yaml = manifest,
                            ![c].snap = snap]
      /\ seen' = [seen EXCEPT ![c].late = {}]
  BY DEF Copy
<1>2. \A f \in Inputs : /\ f \in DOMAIN snap <=> root[f] # Absent
                        /\ f \in DOMAIN snap => snap[f] = root[f]
  BY <1>0, SnapshotIs DEF RootInv
<1> HIDE DEF snap
<1>3. /\ cmd'[c].pc = "render" /\ cmd'[c].kind = cmd[c].kind /\ cmd'[c].add = cmd[c].add
      /\ cmd'[c].stage = root /\ cmd'[c].snap = snap
  BY <1>0, <1>1 DEF IsCommand, Fields
<1>4. seen'[c].late = {}  BY <1>0, <1>1, LateOwn
<1>5. CopiedOf(c)'  BY <1>1, <1>2, <1>3 DEF CopiedOf
<1> QED  BY <1>3, <1>4, <1>5 DEF Leaves, ByItself, MadeOf, SettledOf

LEMMA RenderLeaves ==
  ASSUME FilesInv, NEW c \in Cmds, ByItself(c), Render(c)
  PROVE  Leaves(c)
<1>0. Shaped /\ RootInv /\ CmdOf(c) /\ IsCommand(cmd[c]) /\ cmd = [d \in Cmds |-> cmd[d]]
  BY DEF FilesInv, Shaped, Sound
<1> DEFINE k == cmd[c].kind
           old == cmd[c].stage
           made == Rendered(k, old, cmd[c].m)
<1>1. cmd[c].pc = "render" /\ UNCHANGED <<manifest, root>>  BY DEF Render
<1>2. \/ GiveUp(c)
      \/ End(c, "done") /\ k = "check" /\ made = old
      \/ /\ k # "check"
         /\ cmd' = [cmd EXCEPT ![c].pc = "plan", ![c].stage = made] /\ UNCHANGED seen
  BY DEF Render
<1>3. k \in {"sync", "deps", "generate", "check", "add"}  BY <1>0, <1>1 DEF CmdOf, Copying
<1>4. \A f \in Inputs : made[f] = old[f]
  BY <1>3, RenderedKeeps, RolesAssumption
<1>5. Producing(c) =>
        /\ \A o \in Outputs :
             /\ Rendering(made, o)
             /\ \/ Generated(made[o]) \/ made[o] = Absent \/ ~Generated(old[o])
        /\ \A f \in Called(c) : CalledFor(made, cmd[c].m, f)
  BY RenderedIs DEF Producing, Called
<1>6. k = "check" => made = RunGenerators(old)  BY DEF Rendered
<1> HIDE DEF made
<1>7. /\ \A f \in Files : root[f] = old[f] \/ (f \in seen[c].late /\ ~Generated(root[f]))
      /\ \A f \in Inputs : IF f \in DOMAIN cmd[c].snap
                             THEN old[f] = cmd[c].snap[f] /\ old[f] # Absent
                             ELSE old[f] = Absent
  BY <1>1 DEF ByItself, CopiedOf
<1>8. CASE GiveUp(c)  BY <1>8, LeavesGiveUp
<1>9. CASE End(c, "done") /\ k = "check" /\ made = old
  <2>1. cmd[c].add = {}  BY <1>9 DEF ByItself
  <2>2. ASSUME NEW o \in Outputs, {o, Source[o]} \intersect seen[c].late = {}
        PROVE  root'[o] = Output(o, root')
    <3>1. o \in Files /\ Source[o] \in Files  BY FilesAssumption DEF Files
    <3>2. root[o] = old[o] /\ root[Source[o]] = old[Source[o]]  BY <1>7, <2>2, <3>1
    <3>3. old[o] = Output(o, old)  BY <1>6, <1>9, <3>1 DEF RunGenerators
    <3>4. Output(o, root) = Output(o, old)  BY <3>2 DEF Output
    <3> QED  BY <1>1, <3>2, <3>3, <3>4
  <2>3. CurrentAfter(c)  BY <1>9, <2>1, <2>2 DEF CurrentAfter
  <2> QED  BY <1>9, <2>3, LeavesDone DEF End
<1>10. CASE /\ k # "check"
            /\ cmd' = [cmd EXCEPT ![c].pc = "plan", ![c].stage = made] /\ UNCHANGED seen
  <2>1. /\ cmd'[c].pc = "plan" /\ cmd'[c].kind = cmd[c].kind /\ cmd'[c].add = cmd[c].add
        /\ cmd'[c].stage = made /\ cmd'[c].snap = cmd[c].snap /\ cmd'[c].m = cmd[c].m
    BY <1>0, <1>10 DEF IsCommand, Fields
  <2>2. (Producing(c)' <=> Producing(c)) /\ Called(c)' = Called(c)
    BY <2>1 DEF Producing, Called
  <2>3. CopiedOf(c)'  BY <1>4, <1>7, <2>1 DEF CopiedOf
  <2>4. ASSUME Producing(c), NEW o \in Outputs
        PROVE  Generated(made[o]) \/ made[o] = Absent \/ ~Generated(root[o])
    <3>1. o \in Files  BY DEF Files
    <3>2. ~Generated(root[o]) \/ root[o] = old[o]  BY <1>7, <3>1
    <3> QED  BY <1>5, <2>4, <3>2
  <2>5. MadeOf(c)'  BY <1>1, <1>5, <2>1, <2>2, <2>4 DEF MadeOf
  <2> QED  BY <1>10, <2>1, <2>3, <2>5 DEF Leaves, ByItself, SettledOf
<1> QED  BY <1>2, <1>8, <1>9, <1>10

LEMMA PlanCommitLeaves ==
  ASSUME FilesInv, NEW c \in Cmds, ByItself(c), PlanCommit(c)
  PROVE  Leaves(c)
<1>0. Shaped /\ RootInv /\ CmdOf(c) /\ IsCommand(cmd[c]) /\ cmd = [d \in Cmds |-> cmd[d]]
  BY DEF FilesInv, Shaped, Sound
<1> DEFINE k == cmd[c].kind
           old == cmd[c].stage
           staged == PlanStagedCommit(root, old, cmd[c].m)
           explicit == PlanExplicit(root, old)
           p == CASE k = "generate" -> MergeChanges(staged, explicit)
                  [] k = "deps" -> explicit
                  [] OTHER -> staged
<1>1. /\ cmd[c].pc = "plan" /\ UNCHANGED <<manifest, root>>
      /\ cmd' = [cmd EXCEPT ![c].pc = "verify", ![c].plan = p]
      /\ seen' = [seen EXCEPT ![c].late = {}]
  BY DEF PlanCommit
<1>2. /\ Straight(staged, old)
      /\ \A f \in Plan(cmd[c].m) : old[f] # Absent => f \in DOMAIN staged \/ root[f] = old[f]
      /\ \A o \in Outputs : \/ o \in DOMAIN staged \/ root[o] = old[o]
                            \/ ~Generated(old[o]) /\ old[o] # Absent
                            \/ old[o] = Absent /\ ~Generated(root[o])
  BY StagedCovers
<1>3. Straight(explicit, old)  BY ExplicitCovers
<1>4. /\ Straight(MergeChanges(staged, explicit), old)
      /\ DOMAIN staged \subseteq DOMAIN MergeChanges(staged, explicit)
  BY <1>2, <1>3, MergedCovers
<1> HIDE DEF staged, explicit
<1>5. Straight(p, old) /\ (Producing(c) => DOMAIN staged \subseteq DOMAIN p)
  BY <1>2, <1>3, <1>4 DEF Producing
<1> HIDE DEF p
<1>6. /\ cmd'[c].pc = "verify" /\ cmd'[c].kind = cmd[c].kind /\ cmd'[c].add = cmd[c].add
      /\ cmd'[c].stage = old /\ cmd'[c].snap = cmd[c].snap /\ cmd'[c].m = cmd[c].m
      /\ cmd'[c].plan = p /\ cmd'[c].applied = cmd[c].applied
  BY <1>0, <1>1 DEF IsCommand, Fields
<1>7. seen'[c].late = {}  BY <1>0, <1>1, LateOwn
<1>8. (Producing(c)' <=> Producing(c)) /\ Called(c)' = Called(c)
  BY <1>6 DEF Producing, Called
<1>9. Applied(c)' = {}  BY <1>0, <1>1, <1>6 DEF CmdOf, Applied
<1>10. CopiedOf(c)'  BY <1>1, <1>6 DEF ByItself, CopiedOf
<1>11. MadeOf(c)'  BY <1>1, <1>6, <1>8 DEF ByItself, MadeOf
<1>12. ASSUME Producing(c), NEW f \in Outputs \union Called(c)
       PROVE  f \in DOMAIN p \/ Settled(c, f)
  <2>1. CASE f \in Called(c)
    <3>1. f \in Plan(cmd[c].m)  BY <2>1 DEF Called
    <3>2. old[f] # Absent  BY <1>1, <1>12, <2>1 DEF ByItself, MadeOf, CalledFor
    <3> QED  BY <1>2, <1>5, <1>12, <3>1, <3>2 DEF Settled
  <2>2. CASE f \in Outputs
    <3>1. Generated(old[f]) \/ old[f] = Absent \/ ~Generated(root[f])
      BY <1>1, <1>12, <2>2 DEF ByItself, MadeOf
    <3> QED  BY <1>2, <1>5, <1>12, <2>2, <3>1, ContentFacts DEF Settled
  <2> QED  BY <1>12, <2>1, <2>2
<1>13. SettledOf(c)'
  <2>1. \A f \in Outputs \union Called(c) : Settled(c, f) => Settled(c, f)'
    BY <1>1, <1>6 DEF Settled
  <2> QED  BY <1>5, <1>6, <1>8, <1>9, <1>12, <2>1 DEF SettledOf, Straight
<1> QED  BY <1>1, <1>6, <1>7, <1>10, <1>11, <1>13 DEF Leaves, ByItself

LEMMA VerifyLeaves ==
  ASSUME FilesInv, NEW c \in Cmds, ByItself(c), Verify(c)
  PROVE  Leaves(c)
<1>0. Shaped /\ RootInv /\ CmdOf(c) /\ IsCommand(cmd[c]) /\ cmd = [d \in Cmds |-> cmd[d]]
  BY DEF FilesInv, Shaped, Sound
<1>1. cmd[c].pc = "verify" /\ UNCHANGED <<manifest, root>>  BY DEF Verify
<1>2. CASE InputsUnchanged(c)
  <2>1. /\ cmd' = [cmd EXCEPT ![c].pc = "commit"]
        /\ seen' = [seen EXCEPT ![c].late = seen[c].late \ Inputs]
    BY <1>2 DEF Verify
  <2>2. /\ cmd'[c].pc = "commit" /\ cmd'[c].kind = cmd[c].kind /\ cmd'[c].add = cmd[c].add
        /\ cmd'[c].stage = cmd[c].stage /\ cmd'[c].m = cmd[c].m
        /\ cmd'[c].plan = cmd[c].plan /\ cmd'[c].applied = cmd[c].applied
    BY <1>0, <2>1 DEF IsCommand, Fields
  <2>3. seen'[c].late = seen[c].late \ Inputs /\ seen'[c].touched = seen[c].touched
    BY <1>0, <2>1, LateOwn
  <2>4. (Producing(c)' <=> Producing(c)) /\ Called(c)' = Called(c) /\ Applied(c)' = Applied(c)
    BY <2>2 DEF Producing, Called, Applied
  <2>5. CopiedOf(c)'  BY <2>2 DEF CopiedOf
  <2>6. MadeOf(c)'  BY <1>1, <2>2, <2>4 DEF ByItself, MadeOf
  <2>7. ASSUME NEW f \in Inputs PROVE root[f] = cmd[c].stage[f]
    <3>1. SnapshotInputs(root, cmd[c].m) = cmd[c].snap  BY <1>2 DEF InputsUnchanged
    <3>2. /\ f \in DOMAIN cmd[c].snap <=> root[f] # Absent
          /\ f \in DOMAIN cmd[c].snap => cmd[c].snap[f] = root[f]
      BY <1>0, <3>1, SnapshotIs DEF RootInv
    <3>3. IF f \in DOMAIN cmd[c].snap
            THEN cmd[c].stage[f] = cmd[c].snap[f] /\ cmd[c].stage[f] # Absent
            ELSE cmd[c].stage[f] = Absent
      BY <1>1 DEF ByItself, CopiedOf
    <3> QED  BY <3>2, <3>3
  <2>8. \A f \in Outputs \union Called(c) : f \notin Inputs
    BY RolesAssumption DEF Called, Plan
  <2>9. \A f : Settled(c, f) => Settled(c, f)'  BY <1>1, <2>2 DEF Settled
  <2>10. SettledOf(c)'
    BY <1>1, <2>2, <2>3, <2>4, <2>7, <2>8, <2>9 DEF ByItself, SettledOf
  <2> QED  BY <1>1, <2>2, <2>3, <2>5, <2>6, <2>10 DEF Leaves, ByItself
<1>3. CASE ~InputsUnchanged(c)
  BY <1>3, LeavesGiveUp DEF Verify
<1> QED  BY <1>2, <1>3

LEMMA ReplaceLeaves ==
  ASSUME FilesInv, NEW c \in Cmds, ByItself(c), Replace(c)
  PROVE  Leaves(c)
<1>0. /\ Shaped /\ RootInv /\ CmdOf(c) /\ PlannedOf(c) /\ IsCommand(cmd[c])
      /\ cmd = [d \in Cmds |-> cmd[d]]
  BY DEF FilesInv, Shaped, Sound
<1> DEFINE f == NextFile(c)
<1>1. f \in DOMAIN cmd[c].plan \ Applied(c)  BY NextIs DEF Replace
<1>2. cmd[c].pc = "commit"  BY DEF Replace
<1>3. \/ /\ root' = [root EXCEPT ![f] = cmd[c].plan[f].body]
         /\ cmd' = [cmd EXCEPT ![c].applied = Append(@, f)]
         /\ Note({f}, c)
      \/ Go(c, "rollback")
  BY DEF Replace
<1> HIDE DEF f
<1>4. CASE /\ root' = [root EXCEPT ![f] = cmd[c].plan[f].body]
           /\ cmd' = [cmd EXCEPT ![c].applied = Append(@, f)]
           /\ Note({f}, c)
  <2>1. /\ cmd'[c].pc = "commit" /\ cmd'[c].kind = cmd[c].kind /\ cmd'[c].add = cmd[c].add
        /\ cmd'[c].stage = cmd[c].stage /\ cmd'[c].m = cmd[c].m
        /\ cmd'[c].plan = cmd[c].plan /\ cmd'[c].applied = Append(cmd[c].applied, f)
    BY <1>0, <1>2, <1>4 DEF IsCommand, Fields
  <2>2. seen'[c] = seen[c]  BY <1>0, <1>4, NoteOwn
  <2>3. (Producing(c)' <=> Producing(c)) /\ Called(c)' = Called(c)
    BY <2>1 DEF Producing, Called
  <2>4. f \in Files \ Inputs  BY <1>0, <1>1, <1>2 DEF PlannedOf
  <2>5. root'[f] = cmd[c].plan[f].body /\ \A g \in Files \ {f} : root'[g] = root[g]
    BY <1>0, <1>4, <2>4 DEF RootInv
  <2>6. Applied(c)' \subseteq Applied(c) \union {f}
    <3>1. cmd[c].applied \in Seq(DOMAIN cmd[c].plan)  BY <1>0 DEF CmdOf
    <3>2. \A n \in DOMAIN Append(cmd[c].applied, f) :
            \/ Append(cmd[c].applied, f)[n] = f
            \/ /\ n \in DOMAIN cmd[c].applied
               /\ Append(cmd[c].applied, f)[n] = cmd[c].applied[n]
      BY <3>1
    <3> QED  BY <2>1, <3>2 DEF Applied
  <2>7. CopiedOf(c)'  BY <2>1 DEF CopiedOf
  <2>8. MadeOf(c)'  BY <1>2, <2>1, <2>3 DEF ByItself, MadeOf
  <2>9. ASSUME Producing(c), NEW g \in (Outputs \union Called(c)) \ seen[c].late
        PROVE  g \in DOMAIN cmd[c].plan \ Applied(c)' \/ Settled(c, g)'
    <3>1. g \in Files  BY DEF Called, Plan, Files
    <3>2. CASE g = f
      <4>1. cmd[c].plan[f].body = cmd[c].stage[f]
        BY <1>1, <1>2, <2>9 DEF ByItself, SettledOf
      <4> QED  BY <2>1, <2>5, <3>2, <4>1 DEF Settled
    <3>3. CASE g # f
      <4>1. g \in DOMAIN cmd[c].plan \ Applied(c) \/ Settled(c, g)
        BY <1>2, <2>9 DEF ByItself, SettledOf
      <4>2. Settled(c, g) => Settled(c, g)'  BY <2>1, <2>5, <3>1, <3>3 DEF Settled
      <4> QED  BY <2>6, <3>3, <4>1, <4>2
    <3> QED  BY <3>2, <3>3
  <2>10. \A g \in Inputs : root'[g] = root[g]  BY <2>4, <2>5 DEF Files
  <2>11. SettledOf(c)'
    BY <1>2, <2>1, <2>2, <2>3, <2>9, <2>10 DEF ByItself, SettledOf
  <2> QED  BY <1>2, <2>1, <2>2, <2>7, <2>8, <2>11 DEF Leaves, ByItself
<1>5. CASE Go(c, "rollback")  BY <1>5, LeavesGo
<1> QED  BY <1>3, <1>4, <1>5

LEMMA FinishLeaves ==
  ASSUME FilesInv, NEW c \in Cmds, ByItself(c), Finish(c)
  PROVE  Leaves(c)
<1>0. RecordOf(c) /\ CmdOf(c) /\ PlannedOf(c)  BY DEF FilesInv, Sound
<1>1. /\ cmd[c].pc = "commit" /\ Left(c) = {} /\ End(c, "done")
      /\ UNCHANGED <<manifest, root>>
  BY DEF Finish
<1>2. DOMAIN cmd[c].plan \subseteq Applied(c)
  <2>1. \A f \in Files : \E n \in DOMAIN Order : Order[n] = f
    BY FilesAssumption
  <2>2. DOMAIN cmd[c].plan \subseteq Files  BY <1>0, <1>1 DEF PlannedOf
  <2> QED  BY <1>1, <2>1, <2>2 DEF Left
<1>3. \A f \in Inputs \ seen[c].late : root[f] = cmd[c].stage[f]
  BY <1>1 DEF ByItself, SettledOf
<1>4. Producing(c) => \A f \in (Outputs \union Called(c)) \ seen[c].late : Settled(c, f)
  BY <1>1, <1>2 DEF ByItself, SettledOf
<1>5. ASSUME cmd[c].kind \in {"sync", "add"}, NEW f \in Plan(cmd[c].m) \ seen[c].touched
      PROVE  root[f] # Absent /\ (f \in Owned => root[f] = Template(cmd[c].m))
  <2>1. f \in Called(c) /\ f \notin seen[c].late /\ Producing(c)
    BY <1>5 DEF Called, ByItself, Producing
  <2>2. f \notin Outputs  BY RolesAssumption, <1>5 DEF Plan
  <2>3. root[f] = cmd[c].stage[f]  BY <1>4, <2>1, <2>2 DEF Settled
  <2>4. CalledFor(cmd[c].stage, cmd[c].m, f)  BY <1>1, <2>1 DEF ByItself, MadeOf
  <2> QED  BY <2>3, <2>4 DEF CalledFor
<1>6. ASSUME cmd[c].kind \in {"sync", "add", "generate", "check"}, NEW o \in Outputs,
             {o, Source[o]} \intersect seen[c].late = {}
      PROVE  root[o] = Output(o, root)
  <2>1. Producing(c)  BY <1>1, <1>6 DEF ByItself, Producing
  <2>2. root[Source[o]] = cmd[c].stage[Source[o]]  BY <1>3, <1>6, FilesAssumption
  <2>3. Settled(c, o)  BY <1>4, <1>6, <2>1
  <2>4. Rendering(cmd[c].stage, o)  BY <1>1, <2>1 DEF ByItself, MadeOf
  <2>5. CASE root[Source[o]] # Absent
    <3>1. cmd[c].stage[o] = Made(root[Source[o]])  BY <2>2, <2>4, <2>5 DEF Rendering
    <3>2. root[o] = cmd[c].stage[o]  BY <2>3, <3>1, ContentFacts DEF Settled
    <3> QED  BY <2>5, <3>1, <3>2 DEF Output
  <2>6. CASE root[Source[o]] = Absent
    <3>1. ~Generated(cmd[c].stage[o])  BY <2>2, <2>4, <2>6 DEF Rendering
    <3>2. ~Generated(root[o])  BY <2>3, <3>1 DEF Settled
    <3> QED  BY <2>6, <3>2 DEF Output
  <2> QED  BY <2>5, <2>6
<1>7. Yaml \notin seen[c].touched => cmd[c].add \subseteq manifest
  <2>1. CASE cmd[c].kind = "add"
    <3>1. Declared(c) /\ Active(c)  BY <1>1, <2>1 DEF Declared, Copying, Active
    <3> QED  BY <1>0, <3>1 DEF RecordOf
  <2>2. CASE cmd[c].kind # "add"  BY <2>2 DEF ByItself
  <2> QED  BY <2>1, <2>2
<1>8. CurrentAfter(c)
  <2>1. manifest' = manifest /\ root' = root  BY <1>1
  <2>2. \A f \in Plan(cmd[c].m) : cmd[c].kind \in {"sync", "add"} /\ f \notin seen[c].touched =>
           root'[f] # Absent /\ (f \in Owned => root'[f] = Template(cmd[c].m))
    BY <1>5, <2>1
  <2>3. \A o \in Outputs : /\ cmd[c].kind \in {"sync", "add", "generate", "check"}
                           /\ {o, Source[o]} \intersect seen[c].late = {}
                           => root'[o] = Output(o, root')
    BY <1>6, <2>1
  <2> QED  BY <1>7, <2>1, <2>2, <2>3 DEF CurrentAfter
<1> QED  BY <1>1, <1>8, LeavesDone DEF End

\* The step takes nothing it is about and changes nothing it has seen.
LEMMA BackLeaves ==
  ASSUME FilesInv, NEW c \in Cmds, ByItself(c), PutBack(c) \/ PutBackFails(c) \/ Undeclare(c)
  PROVE  Leaves(c)
<1>0. /\ Shaped /\ IsCommand(cmd[c]) /\ cmd = [d \in Cmds |-> cmd[d]]
      /\ seen = [d \in Cmds |-> seen[d]] /\ IsSeen(seen[c])
  BY DEF FilesInv, Shaped
<1> DEFINE a == SubSeq(cmd[c].applied, 1, Len(cmd[c].applied) - 1)
           f == cmd[c].applied[Len(cmd[c].applied)]
<1>1. /\ cmd[c].pc \in {"rollback", "undeclare"}
      /\ \/ cmd' = [cmd EXCEPT ![c].applied = a]
         \/ cmd' = [cmd EXCEPT ![c].pc = "restore"]
  BY DEF PutBack, PutBackFails, Undeclare
<1>2. \/ UNCHANGED seen \/ Note({f}, c) \/ Note({Yaml}, c)
      \/ seen' = [seen EXCEPT ![c].touched = @ \union {f}]
  BY DEF PutBack, PutBackFails, Undeclare
<1> HIDE DEF a, f
<1>3. /\ cmd'[c].pc \in {"rollback", "undeclare", "restore"} /\ cmd'[c].kind = cmd[c].kind
      /\ cmd'[c].add = cmd[c].add
  BY <1>0, <1>1 DEF IsCommand, Fields
<1>4. seen'[c].late \subseteq seen'[c].touched
  <2>1. CASE seen' = [seen EXCEPT ![c].touched = @ \union {f}]
    BY <1>0, <2>1 DEF ByItself, IsSeen, SeenFields
  <2>2. CASE seen'[c] = seen[c]  BY <2>2 DEF ByItself
  <2> QED  BY <1>0, <1>2, <2>1, <2>2, NoteOwn
<1> QED  BY <1>3, <1>4, LeavesAway

LEMMA CommandLeaves ==
  ASSUME FilesInv, NEW c \in Cmds, ByItself(c),
         Advance(c) \/ RenderFails(c) \/ ReplaceFails(c) \/ PutBackFails(c) \/ Crash(c)
  PROVE  Leaves(c)
<1>1. CASE RenderFails(c) \/ RolledBack(c)
  BY <1>1, LeavesGiveUp DEF RenderFails, RolledBack
<1>2. CASE ReplaceFails(c)  BY <1>2, LeavesGo DEF ReplaceFails
<1>3. CASE Crash(c)  BY <1>3, LeavesEnd DEF Crash, End
<1>4. CASE Restore(c)  BY <1>4, LeavesEnd DEF Restore
<1>5. CASE PutBackFails(c) \/ PutBack(c) \/ Undeclare(c)  BY <1>5, BackLeaves
<1>6. CASE Rename(c)  BY <1>6, RenameLeaves
<1>7. CASE Scaffold(c)  BY <1>7, ScaffoldLeaves
<1>8. CASE Declare(c)  BY <1>8, DeclareLeaves
<1>9. CASE Load(c)  BY <1>9, LoadLeaves
<1>10. CASE Copy(c)  BY <1>10, CopyLeaves
<1>11. CASE Render(c)  BY <1>11, RenderLeaves
<1>12. CASE PlanCommit(c)  BY <1>12, PlanCommitLeaves
<1>13. CASE Verify(c)  BY <1>13, VerifyLeaves
<1>14. CASE Replace(c)  BY <1>14, ReplaceLeaves
<1>15. CASE Finish(c)  BY <1>15, FinishLeaves
<1> QED
  BY <1>1, <1>2, <1>3, <1>4, <1>5, <1>6, <1>7, <1>8, <1>9, <1>10, <1>11, <1>12, <1>13,
     <1>14, <1>15 DEF Advance

-----------------------------------------------------------------------------
(* Who is beside whom                                                       *)

Begins(c) ==
  \/ BeginNew(c)
  \/ \E kind \in {"sync", "deps", "generate", "check"} : BeginRun(c, kind)
  \/ \E s \in Services \ {ByHand} : BeginAdd(c, s)

Proceeds(c) ==
  Advance(c) \/ RenderFails(c) \/ ReplaceFails(c) \/ PutBackFails(c) \/ Crash(c)

\* Only a beginning brings two commands together.
Apart == \A d \in Cmds : Active(d)' => Active(d) /\ seen'[d].met = seen[d].met

LEMMA NotedMet ==
  ASSUME Shaped, NEW c, NEW fs,
         \/ Note(fs, c)
         \/ seen' = [d \in Cmds |-> IF d = c THEN Unseen ELSE SeenBy(d, fs)]
  PROVE  \A d \in Cmds \ {c} : seen'[d].met = seen[d].met
<1>1. ASSUME NEW d \in Cmds PROVE SeenBy(d, fs).met = seen[d].met
  BY DEF Shaped, SeenBy, IsSeen, SeenFields
<1> QED  BY <1>1 DEF Note

LEMMA ProceedsApart ==
  ASSUME FilesInv, NEW c \in Cmds, Proceeds(c)
  PROVE  Active(c) /\ Apart
<1>0. /\ Shaped /\ seen = [d \in Cmds |-> seen[d]] /\ \A d \in Cmds : IsSeen(seen[d])
  BY DEF FilesInv, Shaped
<1>1. Active(c)
  BY DEF Proceeds, Advance, Rename, Scaffold, Declare, Load, Copy, Render, PlanCommit, Verify,
     Replace, Finish, PutBack, RolledBack, Undeclare, Restore, RenderFails, ReplaceFails,
     PutBackFails, Crash, Active
<1>2. \A d \in Cmds \ {c} : cmd'[d] = cmd[d]
  BY OnlyOneMoves DEF Proceeds, Command
<1>3. \A d \in Cmds : Active(d)' => Active(d)  BY <1>1, <1>2 DEF Active
<1>4. \/ UNCHANGED seen
      \/ \E fs : Note(fs, c)
      \/ \E how \in Resting : \E fs : EndChanging(c, how, fs)
      \/ \E l : seen' = [seen EXCEPT ![c].late = l]
      \/ \E s : seen' = [seen EXCEPT ![c].touched = s]
  <2>1. CASE Rename(c) \/ Restore(c) \/ Crash(c) \/ Finish(c)
    BY <2>1 DEF Rename, Restore, Crash, Finish, End, Resting
  <2>2. CASE Scaffold(c) \/ Declare(c) \/ Load(c) \/ Undeclare(c)
    BY <2>2 DEF Scaffold, Declare, Load, Undeclare, End, Go, Keep, Resting
  <2>3. CASE Copy(c) \/ PlanCommit(c)  BY <2>3 DEF Copy, PlanCommit
  <2>4. CASE Render(c) \/ RenderFails(c) \/ RolledBack(c)
    BY <2>4 DEF Render, RenderFails, RolledBack, GiveUp, End, Go, Resting
  <2>5. CASE Verify(c)
    <3>1. seen' = [seen EXCEPT ![c].late = seen[c].late \ Inputs] \/ GiveUp(c)
      BY <2>5 DEF Verify
    <3> QED  BY <3>1 DEF GiveUp, End, Go, Resting
  <2>6. CASE Replace(c) \/ ReplaceFails(c) \/ PutBack(c)
    BY <2>6 DEF Replace, ReplaceFails, PutBack, Go
  <2>7. CASE PutBackFails(c)
    <3>1. seen' = [seen EXCEPT ![c].touched =
                     seen[c].touched \union {cmd[c].applied[Len(cmd[c].applied)]}]
      BY <2>7 DEF PutBackFails
    <3> QED  BY <3>1
  <2> QED  BY <2>1, <2>2, <2>3, <2>4, <2>5, <2>6, <2>7 DEF Proceeds, Advance
<1>5. \A d \in Cmds : Active(d)' => seen'[d].met = seen[d].met
  <2>1. CASE UNCHANGED seen  BY <2>1
  <2>2. CASE \E fs : Note(fs, c)
    <3>1. PICK fs : Note(fs, c)  BY <2>2
    <3> QED  BY <1>0, <3>1, NotedMet, NoteOwn
  <2>3. CASE \E how \in Resting : \E fs : EndChanging(c, how, fs)
    <3>0. PICK how \in Resting : \E fs : EndChanging(c, how, fs)  BY <2>3
    <3>1. PICK fs : EndChanging(c, how, fs)  BY <3>0
    <3>2. cmd'[c].pc = how /\ ~Active(c)'  BY <1>0, <3>1, EndIs DEF Active, Resting
    <3>3. seen' = [d \in Cmds |-> IF d = c THEN Unseen ELSE SeenBy(d, fs)]
      BY <3>1 DEF EndChanging
    <3>4. \A d \in Cmds \ {c} : seen'[d].met = seen[d].met
      <4>1. Shaped /\ (\/ Note(fs, c)
                       \/ seen' = [d \in Cmds |-> IF d = c THEN Unseen ELSE SeenBy(d, fs)])
        BY <1>0, <3>3
      <4> QED  BY <4>1, NotedMet
    <3> QED  BY <3>2, <3>4
  <2>4. CASE \E l : seen' = [seen EXCEPT ![c].late = l]
    BY <1>0, <2>4 DEF IsSeen, SeenFields
  <2>5. CASE \E s : seen' = [seen EXCEPT ![c].touched = s]
    BY <1>0, <2>5 DEF IsSeen, SeenFields
  <2> QED  BY <1>4, <2>1, <2>2, <2>3, <2>4, <2>5
<1> QED  BY <1>1, <1>3, <1>5 DEF Apart

\* A command that goes on by itself is the only one there is.
LEMMA ProceedsAlone ==
  ASSUME FilesInv, AloneInv, NEW c \in Cmds, Proceeds(c)
  PROVE  AloneInv'
<1>1. Active(c) /\ Apart  BY ProceedsApart
<1>2. \A d \in Cmds : Alone(d)' => Alone(d)  BY <1>1 DEF Apart, Alone
<1>3. MetInv'  BY <1>1, <1>2 DEF AloneInv, MetInv, Apart
<1>4. ASSUME NEW d \in Cmds, Alone(d)' PROVE ByItself(d)'
  <2>1. d = c /\ ByItself(c)  BY <1>1, <1>2, <1>4 DEF AloneInv, MetInv
  <2>2. Leaves(c)  BY <2>1, CommandLeaves DEF Proceeds
  <2> QED  BY <1>4, <2>1, <2>2 DEF Leaves, Alone
<1> QED  BY <1>3, <1>4 DEF AloneInv

\* A command that begins is alone when no other is active, and no other is from then on.
LEMMA BeginsAlone ==
  ASSUME FilesInv, AloneInv, NEW c \in Cmds, Begins(c)
  PROVE  AloneInv'
<1>0. /\ cmd = [d \in Cmds |-> cmd[d]] /\ \A d \in Cmds : IsSeen(seen[d])
  BY DEF FilesInv, Shaped
<1>1. PICK n : /\ cmd' = [cmd EXCEPT ![c] = n] /\ n.pc \in {"rename", "copy", "scaffold"}
               /\ (n.kind # "add" => n.add = {}) /\ Begin(c)
  <2>1. CASE BeginNew(c)
    <3> DEFINE n == [Idle EXCEPT !.kind = "new", !.pc = "rename"]
    <3>1. n.pc = "rename" /\ n.add = {}  BY IdleIs DEF IsCommand, Fields
    <3> QED  BY <2>1, <3>1 DEF BeginNew
  <2>2. CASE \E kind \in {"sync", "deps", "generate", "check"} : BeginRun(c, kind)
    <3>1. PICK kind \in {"sync", "deps", "generate", "check"} : BeginRun(c, kind)  BY <2>2
    <3> DEFINE n == [Idle EXCEPT !.kind = kind, !.pc = "copy", !.m = manifest]
    <3>2. n.pc = "copy" /\ n.add = {}  BY IdleIs DEF IsCommand, Fields
    <3> QED  BY <3>1, <3>2 DEF BeginRun
  <2>3. CASE \E s \in Services \ {ByHand} : BeginAdd(c, s)
    <3>1. PICK s \in Services \ {ByHand} : BeginAdd(c, s)  BY <2>3
    <3> DEFINE n == [Idle EXCEPT !.kind = "add", !.pc = "scaffold", !.add = {s},
                                 !.before = manifest]
    <3>2. n.pc = "scaffold" /\ n.kind = "add"  BY IdleIs DEF IsCommand, Fields
    <3> QED  BY <3>1, <3>2 DEF BeginAdd
  <2> QED  BY <2>1, <2>2, <2>3 DEF Begins
<1> DEFINE begun == [Unseen EXCEPT !.root = root, !.yaml = manifest,
                                   !.met = \E d \in Cmds \ {c} : Active(d)]
           beside(d) == [seen[d] EXCEPT !.met = @ \/ Active(d)]
<1>2. seen' = [d \in Cmds |-> IF d = c THEN begun ELSE beside(d)]  BY <1>1 DEF Begin
<1>3. /\ begun.met <=> \E d \in Cmds \ {c} : Active(d)
      /\ begun.late = {}
  BY DEF Unseen
<1>4. ASSUME NEW d \in Cmds, Active(d) PROVE beside(d).met
  <2>1. IsSeen(seen[d])  BY <1>0
  <2> QED  BY <1>4, <2>1 DEF IsSeen, SeenFields
<1> HIDE DEF begun, beside
<1>5. cmd'[c] = n /\ \A d \in Cmds \ {c} : cmd'[d] = cmd[d]  BY <1>0, <1>1
<1>6. ASSUME NEW d \in Cmds, Alone(d)' PROVE d = c /\ \A e \in Cmds : Active(e)' => e = c
  <2>1. d = c
    <3>1. SUFFICES ASSUME d # c PROVE FALSE  OBVIOUS
    <3>2. Active(d) /\ ~seen'[d].met  BY <1>5, <1>6, <3>1 DEF Alone, Active
    <3>3. seen'[d] = beside(d)  BY <1>2, <3>1
    <3> QED  BY <1>4, <3>2, <3>3
  <2>2. ~begun.met  BY <1>2, <1>6, <2>1 DEF Alone
  <2>3. \A e \in Cmds \ {c} : ~Active(e)'  BY <1>3, <1>5, <2>2 DEF Active
  <2> QED  BY <2>1, <2>3
<1>7. MetInv'  BY <1>6 DEF MetInv
<1>8. ByItself(c)'
  <2>1. seen'[c].late = {}  BY <1>2, <1>3
  <2> QED  BY <1>1, <1>5, <2>1 DEF ByItself, CopiedOf, MadeOf, SettledOf
<1> QED  BY <1>6, <1>7, <1>8 DEF AloneInv

\* An edit is the developer's, and seen late by whoever is active.
LEMMA DeveloperAlone ==
  ASSUME FilesInv, AloneInv, Developer
  PROVE  AloneInv'
<1>0. Shaped /\ RootInv  BY DEF FilesInv
<1>1. PICK fs : /\ Note(fs, "developer") /\ UNCHANGED cmd
                /\ \A f \in Files : root'[f] = root[f] \/ (f \in fs /\ ~Generated(root'[f]))
  <2>1. CASE EditYaml  BY <2>1 DEF EditYaml
  <2>2. CASE \E f \in Files : \E content \in Edits(f) : Edit(f, content)
    <3>0. PICK f \in Files : \E content \in Edits(f) : Edit(f, content)  BY <2>2
    <3>1. PICK content \in Edits(f) : Edit(f, content)  BY <3>0
    <3>2. /\ root' = [root EXCEPT ![f] = content] /\ Note({f}, "developer") /\ UNCHANGED cmd
      BY <3>1 DEF Edit
    <3>3. ~Generated(content)
      <4>1. content \in {User(1), User(2), Absent}  BY DEF Edits
      <4> QED  BY <4>1, ContentFacts
    <3>4. \A g \in Files : root'[g] = root[g] \/ (g = f /\ root'[g] = content)
      BY <1>0, <3>2 DEF RootInv
    <3> QED  BY <3>2, <3>3, <3>4
  <2> QED  BY <2>1, <2>2 DEF Developer
<1>2. ASSUME NEW d \in Cmds, Active(d)
      PROVE  /\ seen'[d].met = seen[d].met /\ seen'[d].late = seen[d].late \union fs
             /\ seen'[d].touched = seen[d].touched \union fs
  <2>1. seen'[d] = SeenBy(d, fs)  BY <1>1, RolesAssumption DEF Note
  <2>2. IsSeen(seen[d])  BY <1>0 DEF Shaped
  <2> QED  BY <1>2, <2>1, <2>2 DEF SeenBy, IsSeen, SeenFields
<1>3. \A d \in Cmds : (Active(d)' <=> Active(d)) /\ (Alone(d)' <=> Alone(d))
  BY <1>1, <1>2 DEF Active, Alone
<1>4. MetInv'  BY <1>3 DEF AloneInv, MetInv
<1>5. ASSUME NEW d \in Cmds, Alone(d)' PROVE ByItself(d)'
  <2>1. ByItself(d) /\ Active(d)  BY <1>3, <1>5 DEF AloneInv, Alone
  <2>2. /\ cmd' = cmd /\ (Producing(d)' <=> Producing(d)) /\ Called(d)' = Called(d)
        /\ Applied(d)' = Applied(d)
    BY <1>1 DEF Producing, Called, Applied
  <2>3. /\ seen'[d].late = seen[d].late \union fs
        /\ seen'[d].touched = seen[d].touched \union fs
    BY <1>2, <2>1
  <2>4. CopiedOf(d)'
    <3>1. CopiedOf(d)  BY <2>1 DEF ByItself
    <3> QED  BY <1>1, <2>2, <2>3, <3>1 DEF CopiedOf
  <2>5. MadeOf(d)'
    <3>1. MadeOf(d)  BY <2>1 DEF ByItself
    <3>2. \A o \in Outputs : ~Generated(root[o]) => ~Generated(root'[o])
      BY <1>1 DEF Files
    <3> QED  BY <2>2, <3>1, <3>2 DEF MadeOf
  <2>6. SettledOf(d)'
    <3>1. SettledOf(d)  BY <2>1 DEF ByItself
    <3>2. \A f \in Outputs \union Called(d) \union Inputs : f \in Files
      BY DEF Files, Called, Plan
    <3>3. \A f \in Files \ fs : root'[f] = root[f]  BY <1>1
    <3>4. \A f \in Files \ fs : Settled(d, f) => Settled(d, f)'
      BY <2>2, <3>3 DEF Settled
    <3> QED  BY <2>2, <2>3, <3>1, <3>2, <3>3, <3>4 DEF SettledOf
  <2> QED  BY <2>1, <2>2, <2>3, <2>4, <2>5, <2>6 DEF ByItself
<1> QED  BY <1>4, <1>5 DEF AloneInv

LEMMA InitAlone == Init => AloneInv
<1> SUFFICES ASSUME Init PROVE AloneInv  OBVIOUS
<1>1. \A c \in Cmds : ~Active(c)  BY IdleIs DEF Init, Active
<1> QED  BY <1>1 DEF AloneInv, MetInv, Alone

LEMMA NextAlone ==
  ASSUME FilesInv, AloneInv, [Next]_vars
  PROVE  AloneInv'
<1>1. CASE \E c \in Cmds : Begins(c)  BY <1>1, BeginsAlone
<1>2. CASE \E c \in Cmds : Proceeds(c)  BY <1>2, ProceedsAlone
<1>3. CASE Developer  BY <1>3, DeveloperAlone
<1>4. CASE UNCHANGED vars
  BY <1>4 DEF vars, AloneInv, MetInv, Alone, Active, ByItself, CopiedOf, MadeOf, Producing, Called,
     SettledOf, Settled, Applied
<1> QED  BY <1>1, <1>2, <1>3, <1>4 DEF Next, Command, Begins, Proceeds

\* What a command that runs by itself and reports success leaves is current: its
\* templates are those of the manifest, its outputs what their inputs yield, and
\* nothing it was called for is missing, whatever the developer edits while it runs.
THEOREM SuccessIsCurrent == Spec => SuccessMeansCurrent
<1> DEFINE Reached == \A c \in Cmds :
                        Active(c) /\ cmd'[c].pc = "done" /\ ~seen[c].met => CurrentAfter(c)
<1>1. Init => AloneInv  BY InitAlone
<1>2. FilesInv /\ AloneInv /\ [Next]_vars => AloneInv'  BY NextAlone
<1>3. FilesInv /\ AloneInv /\ [Next]_vars => [Reached]_vars
  <2> SUFFICES ASSUME FilesInv, AloneInv, Next, NEW c \in Cmds, Active(c), ~seen[c].met,
                      cmd'[c].pc = "done"
               PROVE  CurrentAfter(c)
    OBVIOUS
  <2>1. cmd'[c] # cmd[c] /\ ByItself(c)  BY DEF Active, AloneInv, Alone
  <2>2. ~Developer  BY <2>1 DEF Developer, Edit, EditYaml
  <2>3. PICK d \in Cmds : Command(d) \/ Crash(d)  BY <2>2 DEF Next
  <2>4. d = c  BY <2>1, <2>3, OnlyOneMoves
  <2>5. ~Begins(c)  BY DEF Begins, BeginNew, BeginRun, BeginAdd, Begin
  <2>6. Leaves(c)  BY <2>1, <2>3, <2>4, <2>5, CommandLeaves DEF Command, Begins
  <2> QED  BY <2>6 DEF Leaves
<1>4. SuccessMeansCurrent <=> [][Reached]_vars  BY DEF SuccessMeansCurrent
<1> QED  BY <1>1, <1>2, <1>3, <1>4, FilesSound, PTL DEF Spec

=============================================================================
