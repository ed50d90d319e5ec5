------------------------- MODULE Generators_proofs --------------------------
(***************************************************************************)
(* Proofs about Generators, for every set of declarations, features and    *)
(* hand-written files that DeclarationsAssumption allows, and sources as   *)
(* SourcesAssumption says sources are.                                     *)
(***************************************************************************)
EXTENDS Generators, FiniteSetTheorems, SequenceTheorems, TLAPS

IsFiles(files) == files = [p \in DOMAIN files |-> files[p]]

SamePart(files, other, g) ==
    \A p : p[1] = g => /\ p \in DOMAIN files <=> p \in DOMAIN other
                       /\ p \in DOMAIN files => files[p] = other[p]

(* the outputs of g are there and nothing it would sweep *)
Current(g, source, files) ==
    /\ \A p \in DOMAIN Outputs(g, source, files) : p \in DOMAIN files /\ files[p] = Outputs(g, source, files)[p]
    /\ Swept(g, source, files) = {}

LEMMA NamesAre ==
    Names = {"dao", "event", "errcode", "protocol", "entity", "nest", "attribute",
             "config-template", "config-data", "config-go", "webroute", "rpc", "registry"}
<1>1. DOMAIN generatorsFor = 1..13  BY DEF generatorsFor
<1>2. 1..13 = {1,2,3,4,5,6,7,8,9,10,11,12,13}  OBVIOUS
<1> QED  BY <1>1, <1>2 DEF Names, Range, generatorsFor

LEMMA Places ==
    /\ \A g \in Names : Place[g] \in 1..13 /\ generatorsFor[Place[g]] = g
    /\ \A g \in Names : Place["registry"] <= Place[g] => g = "registry"
    /\ "registry" \in Names
<1>1. DOMAIN generatorsFor = 1..13 /\ generatorsFor[13] = "registry"  BY DEF generatorsFor
<1>2. \A g \in Names : \E i \in DOMAIN generatorsFor : generatorsFor[i] = g  BY DEF Names, Range
<1>3. \A g \in Names : Place[g] \in 1..13 /\ generatorsFor[Place[g]] = g  BY <1>1, <1>2 DEF Place
<1>4. "registry" \in Names  BY NamesAre
<1>5. \A i \in 1..12 : generatorsFor[i] # "registry"  BY DEF generatorsFor
<1>6. Place["registry"] = 13  BY <1>3, <1>4, <1>5
<1>7. ASSUME NEW g \in Names, Place["registry"] <= Place[g] PROVE g = "registry"
  <2>1. Place[g] = 13  BY <1>3, <1>6, <1>7
  <2> QED  BY <2>1, <1>3, <1>1
<1> QED  BY <1>3, <1>4, <1>7

LEMMA FeatureKinds ==
    /\ \A g \in Names : Feature(g) \in Kinds
    /\ \A g \in Names : Feature(g) = "registry" <=> g = "registry"
<1>1. \A g \in Names : Feature(g) \in Kinds  BY DEF Kinds
<1>2. \A g \in Names : Feature(g) = "registry" <=> g = "registry"  BY NamesAre DEF Feature
<1> QED  BY <1>1, <1>2

-----------------------------------------------------------------------------
(* What a generator writes lies below its name; only the registry looks at *)
(* the files of others.                                                    *)
LEMMA OutputsAre ==
    ASSUME NEW g \in Names, NEW source, NEW files
    PROVE  /\ IsFiles(Outputs(g, source, files))
           /\ \A p \in DOMAIN Outputs(g, source, files) :
                 p[1] = g /\ p = <<g, p[2]>> /\ Outputs(g, source, files)[p][1] = "gen"
<1> USE DEF Files, IsFiles
<1>1. CASE g = "dao"  BY <1>1 DEF Outputs
<1>2. CASE g = "event"
  <2>1. CASE Event!Nothing(source)  BY <1>2, <2>1 DEF Outputs
  <2>2. CASE ~Event!Nothing(source)  BY <1>2, <2>2 DEF Outputs, EventFiles
  <2> QED  BY <2>1, <2>2
<1>3. CASE g = "errcode"  BY <1>3, SMTT(120) DEF Outputs
<1>4. CASE g = "protocol"  BY <1>4 DEF Outputs, ProtocolFiles
<1>5. CASE g = "entity"  BY <1>5, SMTT(120) DEF Outputs
<1>6. CASE g = "nest"
  <2> DEFINE Content(k) == IF k = <<"aggregate">> THEN Nest!Aggregate(source)
                           ELSE {<<fn.name, Nest!Content(fn)>> : fn \in Same(source, k)}
  <2>1. Outputs(g, source, files)
          = [p \in {<<"nest", k>> : k \in {<<"aggregate">>} \union Nest!Files(source)} |-> <<"gen", Content(p[2])>>]
    <3>1. Outputs(g, source, files) = NestFiles(source)  BY <1>6, SMTT(60) DEF Outputs
    <3> QED  BY <3>1 DEF NestFiles
  <2> HIDE DEF Content
  <2> QED  BY <2>1, <1>6
<1>7. CASE g = "attribute"  BY <1>7, SMTT(120) DEF Outputs
<1>8. CASE g = "config-template"  BY <1>8, SMTT(120) DEF Outputs
<1>9. CASE g = "config-data"  BY <1>9, SMTT(120) DEF Outputs
<1>10. CASE g = "config-go"  BY <1>10, SMTT(120) DEF Outputs
<1>11. CASE g = "webroute"  BY <1>11, SMTT(120) DEF Outputs
<1>12. CASE g = "rpc"  BY <1>12, SMTT(120) DEF Outputs
<1>13. CASE g = "registry"  BY <1>13 DEF Outputs
<1> QED  BY <1>1, <1>2, <1>3, <1>4, <1>5, <1>6, <1>7, <1>8, <1>9, <1>10, <1>11, <1>12, <1>13, NamesAre

LEMMA OutputsIgnoreFiles ==
    ASSUME NEW g \in Names \ {"registry"}, NEW source, NEW files, NEW other
    PROVE  /\ Outputs(g, source, files) = Outputs(g, source, other)
           /\ Rejected(g, source, files) <=> Rejected(g, source, other)
<1>1. CASE g = "dao"  BY <1>1 DEF Outputs, Rejected
<1>2. CASE g = "event"  BY <1>2 DEF Outputs, Rejected
<1>3. CASE g = "errcode"  BY <1>3 DEF Outputs, Rejected
<1>4. CASE g = "protocol"  BY <1>4 DEF Outputs, Rejected
<1>5. CASE g = "entity"  BY <1>5 DEF Outputs, Rejected
<1>6. CASE g = "nest"  BY <1>6 DEF Outputs, Rejected
<1>7. CASE g = "attribute"  BY <1>7 DEF Outputs, Rejected
<1>8. CASE g = "config-template"  BY <1>8 DEF Outputs, Rejected, Feature
<1>9. CASE g = "config-data"  BY <1>9 DEF Outputs, Rejected
<1>10. CASE g = "config-go"  BY <1>10 DEF Outputs, Rejected, Feature
<1>11. CASE g = "webroute"  BY <1>11 DEF Outputs, Rejected
<1>12. CASE g = "rpc"  BY <1>12 DEF Outputs, Rejected
<1> QED  BY <1>1, <1>2, <1>3, <1>4, <1>5, <1>6, <1>7, <1>8, <1>9, <1>10, <1>11, <1>12, NamesAre

LEMMA SweptAre ==
    ASSUME NEW g, NEW source, NEW files
    PROVE  /\ \A p \in Swept(g, source, files) :
                 p \in DOMAIN files /\ p[1] = g /\ p[2] \notin DOMAIN Dao!Outputs(source) /\ files[p][1] = "gen"
           /\ \A p \in DOMAIN files :
                 p \in Swept(g, source, files)
                   <=> g = "dao" /\ p[1] = "dao" /\ Dao!Orphan(source, p[2], files[p][1] = "gen")
BY DEF Swept, Dao!Orphan

LEMMA DaoOutputs ==
    ASSUME NEW source, NEW files, NEW p \in DOMAIN Outputs("dao", source, files)
    PROVE  p[2] \in DOMAIN Dao!Outputs(source)
BY DEF Outputs, Files

(* made from written and the files that were there, less those swept *)
Merged(made, written, files, swept) ==
    /\ IsFiles(made)
    /\ DOMAIN made = DOMAIN written \union (DOMAIN files \ swept)
    /\ \A p \in DOMAIN written : made[p] = written[p]
    /\ \A p \in (DOMAIN files \ swept) \ DOMAIN written : made[p] = files[p]

LEMMA RunIs ==
    ASSUME NEW g \in Names, NEW source, NEW files
    PROVE  Merged(Run(g, source, files), Outputs(g, source, files), files, Swept(g, source, files))
<1> DEFINE O == Outputs(g, source, files)
           K == [p \in DOMAIN files \ Swept(g, source, files) |-> files[p]]
<1>1. Run(g, source, files) = [p \in DOMAIN O \union DOMAIN K |-> IF p \in DOMAIN O THEN O[p] ELSE K[p]]
  BY DEF Run, Over
<1>2. DOMAIN K = DOMAIN files \ Swept(g, source, files)  OBVIOUS
<1>3. \A p \in DOMAIN K : K[p] = files[p]  OBVIOUS
<1> HIDE DEF O, K
<1>4. /\ IsFiles(Run(g, source, files))
      /\ DOMAIN Run(g, source, files) = DOMAIN O \union DOMAIN K
      /\ \A p \in DOMAIN O : Run(g, source, files)[p] = O[p]
      /\ \A p \in DOMAIN K \ DOMAIN O : Run(g, source, files)[p] = K[p]
  BY <1>1 DEF IsFiles
<1> QED  BY <1>2, <1>3, <1>4 DEF O, Merged

(* A run changes nothing exactly where everything is current. *)
LEMMA FreshIff ==
    ASSUME NEW g \in Names, NEW source, NEW files, IsFiles(files)
    PROVE  Run(g, source, files) = files <=> Current(g, source, files)
<1> DEFINE R == Run(g, source, files)
           O == Outputs(g, source, files)
           S == Swept(g, source, files)
<1>1. /\ IsFiles(R) /\ DOMAIN R = DOMAIN O \union (DOMAIN files \ S)
      /\ \A p \in DOMAIN O : R[p] = O[p]
      /\ \A p \in (DOMAIN files \ S) \ DOMAIN O : R[p] = files[p]
  <2>1. Merged(R, O, files, S)  BY RunIs
  <2> QED  BY <2>1 DEF Merged
<1>2. S \subseteq DOMAIN files /\ S \intersect DOMAIN O = {}
  <2>1. \A p \in S : p \in DOMAIN files /\ g = "dao" /\ p[2] \notin DOMAIN Dao!Outputs(source)  BY SweptAre DEF Swept
  <2>2. \A p \in S : p \notin DOMAIN O  BY <2>1, DaoOutputs
  <2> QED  BY <2>1, <2>2
<1> HIDE DEF R, O, S
<1>3. ASSUME R = files PROVE S = {} /\ \A p \in DOMAIN O : p \in DOMAIN files /\ files[p] = O[p]
  BY <1>1, <1>2, <1>3
<1>4. ASSUME S = {}, \A p \in DOMAIN O : p \in DOMAIN files /\ files[p] = O[p] PROVE R = files
  <2>1. DOMAIN R = DOMAIN files  BY <1>1, <1>4
  <2>2. \A p \in DOMAIN files : R[p] = files[p]  BY <1>1, <1>4
  <2> QED  BY <2>1, <2>2, <1>1 DEF IsFiles
<1> QED  BY <1>3, <1>4 DEF Current, R, O, S

LEMMA OthersKept ==
    ASSUME NEW g \in Names, NEW source, NEW files, NEW h, h # g
    PROVE  SamePart(Run(g, source, files), files, h)
<1>1. \A p \in DOMAIN Outputs(g, source, files) : p[1] = g  BY OutputsAre
<1>2. \A p \in Swept(g, source, files) : p[1] = g  BY SweptAre
<1>3. ASSUME NEW p, p[1] = h
      PROVE  /\ p \in DOMAIN Run(g, source, files) <=> p \in DOMAIN files
             /\ p \in DOMAIN files => Run(g, source, files)[p] = files[p]
  <2>1. p \notin DOMAIN Outputs(g, source, files) /\ p \notin Swept(g, source, files)  BY <1>1, <1>2, <1>3
  <2>2. Merged(Run(g, source, files), Outputs(g, source, files), files, Swept(g, source, files))  BY RunIs
  <2> QED  BY <2>1, <2>2 DEF Merged
<1> QED  BY <1>3 DEF SamePart

-----------------------------------------------------------------------------
LEMMA ScanSame ==
    ASSUME NEW source, NEW files, NEW other,
           \A g \in Names \ ({"registry"} \union Unmarked) : SamePart(files, other, g)
    PROVE  Scan(source, files) = Scan(source, other)
<1>1. \A g \in {"entity", "nest", "config-go"} : SamePart(files, other, g)  BY NamesAre DEF Unmarked
<1>2. \A p : p[1] \in {"entity", "nest", "config-go"} => (p \in Written(files) <=> p \in Written(other))
  BY <1>1 DEF SamePart, Written
<1>3. {q \in Written(files) : q[1] = "entity" /\ files[q][2].registers # <<>>}
       = {q \in Written(other) : q[1] = "entity" /\ other[q][2].registers # <<>>}
  BY <1>1, <1>2 DEF SamePart, Written
<1>4. {q \in Written(files) : q = <<"nest", <<"aggregate">>>>} = {q \in Written(other) : q = <<"nest", <<"aggregate">>>>}
  BY <1>2
<1>5. {q \in Written(files) : q[1] = "config-go"} = {q \in Written(other) : q[1] = "config-go"}  BY <1>2
<1> QED  BY <1>3, <1>4, <1>5 DEF Scan

(* Whether a generator is current, and what it refuses, depends on its own *)
(* files; for the registry on those it scans as well.                      *)
LEMMA CurrentSame ==
    ASSUME NEW g \in Names \ {"registry"}, NEW source, NEW files, NEW other, SamePart(files, other, g)
    PROVE  Current(g, source, files) <=> Current(g, source, other)
<1>1. Outputs(g, source, files) = Outputs(g, source, other)  BY OutputsIgnoreFiles
<1> DEFINE O == Outputs(g, source, files)
<1>2. \A p \in DOMAIN O : p[1] = g  BY OutputsAre
<1> HIDE DEF O
<1>3. (\A p \in DOMAIN O : p \in DOMAIN files /\ files[p] = O[p])
        <=> (\A p \in DOMAIN O : p \in DOMAIN other /\ other[p] = O[p])
  BY <1>2 DEF SamePart
<1>4. Swept(g, source, files) = Swept(g, source, other)  BY DEF SamePart, Swept
<1> QED  BY <1>1, <1>3, <1>4 DEF Current, O

LEMMA RegistrySame ==
    ASSUME NEW source, NEW files, NEW other,
           \A g \in Names \ ({"registry"} \union Unmarked) : SamePart(files, other, g)
    PROVE  /\ Outputs("registry", source, files) = Outputs("registry", source, other)
           /\ Rejected("registry", source, files) <=> Rejected("registry", source, other)
<1>1. Scan(source, files) = Scan(source, other)  BY ScanSame
<1> QED  BY <1>1 DEF Outputs, Rejected, Feature

LEMMA MarkedSame ==
    ASSUME NEW files, NEW other, \A h \in Names \ Unmarked : SamePart(files, other, h),
           NEW g \in Names \ Unmarked, NEW source
    PROVE  /\ Current(g, source, files) <=> Current(g, source, other)
           /\ Rejected(g, source, files) <=> Rejected(g, source, other)
<1>1. CASE g # "registry"  BY <1>1, CurrentSame, OutputsIgnoreFiles
<1>2. CASE g = "registry"
  <2>1. /\ Outputs(g, source, files) = Outputs(g, source, other)
        /\ Rejected(g, source, files) <=> Rejected(g, source, other)
    BY <1>2, RegistrySame
  <2> DEFINE O == Outputs(g, source, files)
  <2>2. \A p \in DOMAIN O : p[1] = g  BY OutputsAre
  <2> HIDE DEF O
  <2>3. (\A p \in DOMAIN O : p \in DOMAIN files /\ files[p] = O[p])
          <=> (\A p \in DOMAIN O : p \in DOMAIN other /\ other[p] = O[p])
    BY <2>2 DEF SamePart
  <2>4. Swept(g, source, files) = {} /\ Swept(g, source, other) = {}  BY <1>2 DEF Swept
  <2> QED  BY <2>1, <2>3, <2>4 DEF Current, O
<1> QED  BY <1>1, <1>2

LEMMA RunCurrent ==
    ASSUME NEW g \in Names, NEW source, NEW files
    PROVE  /\ Current(g, source, Run(g, source, files))
           /\ Rejected(g, source, Run(g, source, files)) <=> Rejected(g, source, files)
<1> DEFINE R == Run(g, source, files)
           O == Outputs(g, source, files)
           S == Swept(g, source, files)
<1>0. /\ Outputs(g, source, R) = O
      /\ Rejected(g, source, R) <=> Rejected(g, source, files)
  <2>1. CASE g # "registry"  BY <2>1, OutputsIgnoreFiles
  <2>2. CASE g = "registry"
    <3>1. \A h \in Names \ {"registry"} : SamePart(R, files, h)  BY <2>2, OthersKept
    <3> QED  BY <3>1, <2>2, RegistrySame
  <2> QED  BY <2>1, <2>2
<1>1. Merged(R, O, files, S)  BY RunIs
<1>2. \A p \in DOMAIN O : p \in DOMAIN R /\ R[p] = O[p]  BY <1>1 DEF Merged
<1>3. Swept(g, source, R) = {}
  <2> SUFFICES ASSUME NEW p \in Swept(g, source, R) PROVE FALSE  OBVIOUS
  <2>0. p \in DOMAIN R /\ g = "dao" /\ p[1] = "dao" /\ Dao!Orphan(source, p[2], R[p][1] = "gen")  BY DEF Swept
  <2>1. /\ p \in DOMAIN R /\ g = "dao" /\ p[1] = "dao" /\ p[2] \notin DOMAIN Dao!Outputs(source)
        /\ Dao!Orphan(source, p[2], R[p][1] = "gen")
    BY <2>0, SweptAre
  <2>2. p \notin DOMAIN O  BY <2>1, DaoOutputs
  <2>3. p \in DOMAIN files \ S /\ R[p] = files[p]  BY <2>1, <2>2, <1>1 DEF Merged
  <2> QED  BY <2>1, <2>3, SweptAre
<1> QED  BY <1>0, <1>2, <1>3 DEF Current

-----------------------------------------------------------------------------
(***************************************************************************)
(* The files of the output directories: hand-written ones, which stay, and *)
(* those of generators.                                                    *)
(***************************************************************************)
FilesOK(files) ==
    /\ IsFiles(files)
    /\ \A p \in DOMAIN files : p[1] \in Names /\ p = <<p[1], p[2]>> /\ (files[p][1] = "gen" \/ p \in HandFiles)
    /\ \A p \in HandFiles : p \in DOMAIN files /\ files[p] = <<"hand">>

(* the declarations a behaviour can give g *)
Declared(g, source) == \E v \in DOMAIN Declarations[Feature(g)] : source = Declarations[Feature(g)][v].source

LEMMA HandFree ==
    ASSUME NEW g \in Names, NEW source, Declared(g, source), NEW files,
           g = "registry" \/ ~Rejected(g, source, files),
           NEW p \in HandFiles
    PROVE  p \notin DOMAIN Outputs(g, source, files)
<1>1. /\ p[1] \in Names /\ p # <<"registry", <<"registry_gen">>>>
      /\ p[1] # "registry" =>
            \A v \in DOMAIN Declarations[Feature(p[1])] :
                \/ Rejected(p[1], Declarations[Feature(p[1])][v].source, NoFiles)
                \/ p \notin DOMAIN Outputs(p[1], Declarations[Feature(p[1])][v].source, NoFiles)
  BY DeclarationsAssumption DEF DeclarationsAssumption
<1>2. CASE p[1] # g  BY <1>2, OutputsAre
<1>3. CASE p[1] = g /\ g = "registry"
  <2>1. DOMAIN Outputs("registry", source, files) = {<<"registry", <<"registry_gen">>>>}
    BY DEF Outputs, Files, Feature
  <2> QED  BY <2>1, <1>1, <1>3
<1>4. CASE p[1] = g /\ g # "registry"
  <2>1. /\ Outputs(g, source, files) = Outputs(g, source, NoFiles)
        /\ ~Rejected(g, source, NoFiles)
    BY <1>4, OutputsIgnoreFiles
  <2> QED  BY <2>1, <1>1, <1>4 DEF Declared
<1> QED  BY <1>2, <1>3, <1>4

LEMMA RunFiles ==
    ASSUME NEW g \in Names, NEW source, Declared(g, source),
           NEW files, FilesOK(files), g = "registry" \/ ~Rejected(g, source, files)
    PROVE  FilesOK(Run(g, source, files))
<1> DEFINE R == Run(g, source, files)
           O == Outputs(g, source, files)
           S == Swept(g, source, files)
<1>1. Merged(R, O, files, S)  BY RunIs
<1>2. \A p \in DOMAIN O : p[1] \in Names /\ p = <<p[1], p[2]>> /\ O[p][1] = "gen"  BY OutputsAre
<1>3. \A p \in HandFiles : p \notin DOMAIN O  BY HandFree
<1>4. \A p \in S : files[p][1] = "gen"  BY SweptAre
<1> HIDE DEF R, O, S
<1>5. \A p \in HandFiles : p \in DOMAIN R /\ R[p] = <<"hand">>
  <2> SUFFICES ASSUME NEW p \in HandFiles PROVE p \in DOMAIN R /\ R[p] = <<"hand">>  OBVIOUS
  <2>1. p \in DOMAIN files /\ files[p] = <<"hand">>  BY DEF FilesOK
  <2>2. files[p][1] # "gen"  BY <2>1
  <2>3. p \in (DOMAIN files \ S) \ DOMAIN O  BY <2>1, <2>2, <1>3, <1>4
  <2> QED  BY <2>1, <2>3, <1>1 DEF Merged
<1>6. \A p \in DOMAIN R : p[1] \in Names /\ p = <<p[1], p[2]>> /\ (R[p][1] = "gen" \/ p \in HandFiles)
  BY <1>1, <1>2 DEF Merged, FilesOK
<1> QED  BY <1>1, <1>5, <1>6 DEF FilesOK, Merged, R

-----------------------------------------------------------------------------
(***************************************************************************)
(* The inductive invariant.                                                *)
(***************************************************************************)
Good(g, files) == Current(g, Source(g), files) /\ ~Rejected(g, Source(g), files)

(* the generators a command has run so far *)
Done == Selected(mode) \ todo

Shape ==
    /\ TypeOK
    /\ DOMAIN decl = Kinds
    /\ FilesOK(out)
    /\ mode # "idle" => FilesOK(stage)

(* what git shows unchanged is current, unless a change was missed *)
Settled == \A g \in Independent \ (missed \union Unmarked) : Watched(g) \intersect changed = {} => Good(g, out)

(* what a successful run, and a check, leave behind *)
AfterRun == last = "ok" => \A g \in Names : Enabled(g) /\ g \notin missed \union Unmarked => Good(g, out)
AfterCheck ==
    last \in {"current", "stale"} =>
       (last = "current" <=> \A g \in Names \ Unmarked : Enabled(g) => Current(g, Source(g), out))

(* the copy of a running command: what has run is current in it, the rest  *)
(* is as it was, and no marked file differs when none was to change        *)
Copied ==
    mode # "idle" =>
       /\ \A g \in Done : Good(g, stage)
       /\ \A g \in Names \ Done : SamePart(stage, out, g)
       /\ (\A g \in Done \ Unmarked : Current(g, Source(g), out)) =>
             \A g \in Names \ Unmarked : SamePart(stage, out, g)

GenInv == Shape /\ Settled /\ AfterRun /\ AfterCheck /\ Copied

-----------------------------------------------------------------------------
LEMMA SourceDeclared ==
    ASSUME TypeOK, NEW g \in Names
    PROVE  Declared(g, Source(g))
BY FeatureKinds DEF TypeOK, Declared, Source

LEMMA RegistryLast ==
    ASSUME TypeOK, todo # {}
    PROVE  "registry" \notin Done
<1>1. PICK g : g \in todo  OBVIOUS
<1>2. g \in Names /\ todo \subseteq Selected(mode)  BY <1>1 DEF TypeOK, Selected
<1>3. CASE g = "registry"  BY <1>1, <1>3 DEF Done
<1>4. CASE g # "registry"
  <2>1. Place[g] < Place["registry"]  BY <1>2, <1>4, Places
  <2> QED  BY <1>1, <1>2, <2>1 DEF TypeOK, Done
<1> QED  BY <1>3, <1>4

LEMMA StepKeeps ==
    ASSUME GenInv, NEW g \in Names, Step(g)
    PROVE  GenInv'
<1>1. /\ Turn(g) /\ ~Rejected(g, Source(g), stage) /\ stage' = Run(g, Source(g), stage) /\ todo' = todo \ {g}
      /\ UNCHANGED <<decl, out, mode, last, changed, missed, focus, edits>>
  BY DEF Step
<1>2. TypeOK /\ g \in todo /\ mode # "idle" /\ Selected(mode)' = Selected(mode) /\ FilesOK(out) /\ FilesOK(stage)
  BY <1>1 DEF GenInv, Shape, TypeOK, Turn, Selected
<1>3. \A h \in Names : Source(h)' = Source(h)  BY <1>1 DEF Source
<1>4. g \in Selected(mode) /\ Done' = Done \union {g} /\ g \notin Done
  BY <1>1, <1>2 DEF TypeOK, Done
<1>5. Declared(g, Source(g))  BY <1>2, SourceDeclared
<1>6. FilesOK(stage')  BY <1>1, <1>2, <1>5, RunFiles
<1>7. TypeOK'
  <2>1. \A h \in Selected(mode), other \in todo' : Place[other] < Place[h] => h \in todo'
    <3> SUFFICES ASSUME NEW h \in Selected(mode), NEW other \in todo', Place[other] < Place[h] PROVE h \in todo'
      OBVIOUS
    <3>1. h \in todo  BY <1>1, <1>2 DEF TypeOK
    <3>2. g \in Names /\ other \in Names  BY <1>1, <1>2 DEF TypeOK, Selected
    <3>3. Place[g] <= Place[other] /\ Place[g] \in Int /\ Place[other] \in Int  BY <1>1, <3>2, Places DEF Turn
    <3>4. h # g  BY <3>3
    <3> QED  BY <1>1, <3>1, <3>4
  <2> QED  BY <1>1, <1>2, <2>1 DEF TypeOK
<1>8. Shape'
  BY <1>1, <1>2, <1>6, <1>7 DEF GenInv, Shape
<1>9. Settled' /\ AfterRun' /\ AfterCheck'
  BY <1>1, <1>3 DEF GenInv, Settled, AfterRun, AfterCheck, Good, Independent, Watched, Current, Names, Unmarked
<1>10. Copied'
  <2>1. \A h \in Done : Good(h, stage) /\ h # "registry"
    <3>1. "registry" \notin Done  BY <1>2, RegistryLast
    <3> QED  BY <3>1, <1>2 DEF GenInv, Copied
  <2>2. \A h \in Names \ {g} : SamePart(stage', stage, h)  BY <1>1, OthersKept
  <2>3. Done \subseteq Names  BY DEF Done, Selected
  <2>4. ASSUME NEW h \in Done PROVE Good(h, stage')
    <3>1. h \in Names \ {"registry"} /\ SamePart(stage', stage, h)  BY <1>4, <2>1, <2>2, <2>3
    <3> QED  BY <2>1, <3>1, CurrentSame, OutputsIgnoreFiles DEF Good
  <2>5. Good(g, stage')  BY <1>1, RunCurrent DEF Good
  <2>6. \A h \in Done' : Good(h, stage)'
    <3>1. \A h \in Done \union {g} : Good(h, stage')  BY <2>4, <2>5
    <3> QED  BY <3>1, <1>3, <1>4, <2>3 DEF Good
  <2>7. \A h \in Names \ Done' : SamePart(stage, out, h)'
    <3>1. \A h \in Names \ Done : SamePart(stage, out, h)  BY <1>2 DEF GenInv, Copied
    <3>2. \A h \in Names \ Done' : SamePart(stage', stage, h) /\ SamePart(stage, out, h)  BY <1>4, <2>2, <3>1
    <3> QED  BY <3>2, <1>1 DEF SamePart
  <2>8. ASSUME \A h \in Done' \ Unmarked : Current(h, Source(h), out)', NEW h \in Names \ Unmarked
        PROVE  SamePart(stage, out, h)'
    <3>1. \A other \in (Done \union {g}) \ Unmarked : Current(other, Source(other), out)
      BY <1>1, <1>3, <1>4, <2>3, <2>8 DEF Current
    <3>2. \A other \in Names \ Unmarked : SamePart(stage, out, other)  BY <3>1, <1>2 DEF GenInv, Copied
    <3>3. CASE h # g
      <4>1. SamePart(stage', stage, h) /\ SamePart(stage, out, h)  BY <2>2, <3>2, <3>3
      <4> QED  BY <4>1, <1>1 DEF SamePart
    <3>4. CASE h = g
      <4>1. Current(g, Source(g), stage)  BY <3>1, <3>2, <3>4, MarkedSame
      <4>2. stage' = stage  BY <4>1, <1>1, <1>2, FreshIff DEF FilesOK
      <4> QED  BY <4>2, <3>2, <1>1 DEF SamePart
    <3> QED  BY <3>3, <3>4
  <2> QED  BY <2>6, <2>7, <2>8 DEF Copied
<1> QED  BY <1>8, <1>9, <1>10 DEF GenInv

(* what a stopped command leaves *)
LEMMA QuietKeeps ==
    ASSUME GenInv, Drop, UNCHANGED <<decl, out, changed, missed, focus, edits>>,
           last' \in {last, "failed"}
    PROVE  GenInv'
<1>1. \A h \in Names : Source(h)' = Source(h)  BY DEF Source
<1>2. Selected("idle")' = Selected("idle")  BY DEF Selected
<1>3. TypeOK'  BY <1>2 DEF GenInv, Shape, TypeOK, Drop
<1>4. Shape'  BY <1>3 DEF GenInv, Shape, Drop
<1>5. Settled' /\ AfterRun' /\ AfterCheck'
  BY <1>1 DEF GenInv, Settled, AfterRun, AfterCheck, Good, Independent, Watched, Current, Names, Unmarked
<1>6. Copied'  BY DEF Copied, Drop
<1> QED  BY <1>4, <1>5, <1>6 DEF GenInv

LEMMA CommitKeeps ==
    ASSUME GenInv, Commit
    PROVE  GenInv'
<1>1. /\ mode = "idle" /\ changed' = {}
      /\ missed' = missed \union {g \in Names : Enabled(g) /\ (Rejected(g, Source(g), out) \/ ~Fresh(g))}
      /\ UNCHANGED <<decl, out, stage, mode, todo, last, focus, edits>>
  BY DEF Commit
<1>2. TypeOK /\ FilesOK(out) /\ IsFiles(out)  BY DEF GenInv, Shape, FilesOK
<1>3. \A g \in Names : Source(g)' = Source(g)  BY <1>1 DEF Source
<1>4. \A g \in Names : Fresh(g) <=> Current(g, Source(g), out)  BY <1>2, FreshIff DEF Fresh
<1>5. Shape'
  <2>1. todo' = {} /\ missed' \subseteq Names  BY <1>1, <1>2 DEF TypeOK
  <2>2. TypeOK'  BY <1>1, <1>2, <2>1 DEF TypeOK
  <2> QED  BY <1>1, <2>2 DEF GenInv, Shape
<1>6. Settled'
  <2> SUFFICES ASSUME NEW g \in Independent \ Unmarked, g \notin missed' PROVE Good(g, out)'
    BY DEF Settled, Independent, Enabled, Unmarked
  <2>1. g \in Names /\ Enabled(g)  BY DEF Independent
  <2> QED  BY <1>1, <1>3, <1>4, <2>1 DEF Good
<1>7. AfterRun' /\ AfterCheck'
  BY <1>1, <1>3 DEF GenInv, AfterRun, AfterCheck, Good, Current, Names, Enabled, Unmarked
<1>8. Copied'  BY <1>1 DEF Copied
<1> QED  BY <1>5, <1>6, <1>7, <1>8 DEF GenInv

LEMMA StartKeeps ==
    ASSUME GenInv, NEW m \in {"full", "changed", "check"}, Start(m)
    PROVE  GenInv'
<1>1. /\ mode = "idle" /\ mode' = m /\ stage' = out /\ todo' = Selected(m)
      /\ UNCHANGED <<decl, out, last, changed, missed, focus, edits>>
  BY DEF Start
<1>2. \A g \in Names : Source(g)' = Source(g)  BY <1>1 DEF Source
<1>3. Selected(mode)' = Selected(m)  BY <1>1 DEF Selected
<1>4. TypeOK'  BY <1>1, <1>3 DEF GenInv, Shape, TypeOK
<1>5. Shape'  BY <1>1, <1>4 DEF GenInv, Shape
<1>6. Settled' /\ AfterRun' /\ AfterCheck'
  BY <1>1, <1>2 DEF GenInv, Settled, AfterRun, AfterCheck, Good, Independent, Watched, Current, Names, Unmarked
<1>7. Copied'
  <2>1. Done' = {}  BY <1>1, <1>3 DEF Done
  <2> QED  BY <1>1, <2>1 DEF Copied, SamePart
<1> QED  BY <1>5, <1>6, <1>7 DEF GenInv

LEMMA RemoveKeeps ==
    ASSUME GenInv, NEW p \in DOMAIN out, RemoveFile(p)
    PROVE  GenInv'
<1>1. /\ mode = "idle" /\ edits < MaxEdits /\ p \in Written(out) /\ Feature(p[1]) = focus
      /\ out' = [q \in DOMAIN out \ {p} |-> out[q]]
      /\ changed' = changed \union {OutDir(p)}
      /\ missed' = IF OutDir(p) \in Watched(p[1]) \/ p[1] = "registry" THEN missed ELSE missed \union {p[1]}
      /\ last' = "none" /\ edits' = edits + 1
      /\ UNCHANGED <<decl, stage, mode, todo, focus>>
  BY DEF RemoveFile
<1>2. TypeOK /\ FilesOK(out)  BY DEF GenInv, Shape
<1>3. \A g \in Names : Source(g)' = Source(g)  BY <1>1 DEF Source
<1>4. p \notin HandFiles /\ p[1] \in Names  BY <1>1, <1>2 DEF FilesOK, Written
<1>5. FilesOK(out')  BY <1>1, <1>2, <1>4 DEF FilesOK, IsFiles
<1>6. Shape'
  <2>1. edits' \in 0..MaxEdits  BY <1>1, <1>2, DeclarationsAssumption DEF TypeOK, DeclarationsAssumption
  <2>2. missed' \subseteq Names /\ todo' = {}  BY <1>1, <1>2, <1>4 DEF TypeOK
  <2>3. \A q \in DOMAIN out' : q \in DOMAIN out /\ out'[q] = out[q]  BY <1>1
  <2>4. TypeOK'  BY <1>1, <1>2, <2>1, <2>2, <2>3 DEF TypeOK
  <2> QED  BY <1>1, <1>5, <2>4 DEF GenInv, Shape
<1>7. Settled'
  <2> SUFFICES ASSUME NEW g \in Independent \ Unmarked, g \notin missed', Watched(g) \intersect changed' = {} PROVE Good(g, out)'
    BY DEF Settled, Independent, Enabled, Watched, Unmarked
  <2>1. g \in Names \ {"registry"}  BY DEF Independent
  <2>2. p[1] # g  BY <1>1, <2>1
  <2>3. SamePart(out', out, g)  BY <1>1, <2>2 DEF SamePart
  <2>4. g \notin missed /\ Watched(g) \intersect changed = {}  BY <1>1
  <2>5. Good(g, out)  BY <2>4 DEF GenInv, Settled
  <2>6. Current(g, Source(g), out') /\ ~Rejected(g, Source(g), out')
    BY <2>1, <2>3, <2>5, CurrentSame, OutputsIgnoreFiles DEF Good
  <2> QED  BY <2>1, <2>6, <1>3 DEF Good
<1>8. AfterRun' /\ AfterCheck' /\ Copied'  BY <1>1 DEF AfterRun, AfterCheck, Copied
<1> QED  BY <1>6, <1>7, <1>8 DEF GenInv

LEMMA CheckKeeps ==
    ASSUME GenInv, Check
    PROVE  GenInv'
<1>1. /\ mode = "check" /\ todo = {}
      /\ last' = (IF diffSnapshot(out, stage) = {} THEN "current" ELSE "stale")
      /\ Drop /\ UNCHANGED <<decl, out, changed, missed, focus, edits>>
  BY DEF Check
<1>2. TypeOK /\ FilesOK(out) /\ FilesOK(stage) /\ Copied  BY <1>1 DEF GenInv, Shape
<1>3. \A g \in Names : Source(g)' = Source(g)  BY <1>1 DEF Source
<1>4. Done = {g \in Names : Enabled(g)}  BY <1>1 DEF Done, Selected
<1>5. diffSnapshot(out, stage) = {} <=> \A h \in Names \ Unmarked : SamePart(stage, out, h)
  <2>1. \A p \in DOMAIN out \union DOMAIN stage : p[1] \in Names  BY <1>2 DEF FilesOK
  <2>2. \A p \in (DOMAIN out \ Written(out)) \union (DOMAIN stage \ Written(stage)) :
           p \in DOMAIN out /\ p \in DOMAIN stage /\ out[p] = <<"hand">> /\ stage[p] = <<"hand">>
    BY <1>2 DEF FilesOK, Written
  <2>3. ASSUME diffSnapshot(out, stage) = {}, NEW h \in Names \ Unmarked, NEW p, p[1] = h
        PROVE  (p \in DOMAIN stage <=> p \in DOMAIN out) /\ (p \in DOMAIN stage => stage[p] = out[p])
    <3>1. p \in Written(out) \union Written(stage) =>
             p \in Written(out) /\ p \in Written(stage) /\ out[p] = stage[p]
      BY <2>3 DEF diffSnapshot, snapshotGenerated
    <3>2. Written(out) \subseteq DOMAIN out /\ Written(stage) \subseteq DOMAIN stage  BY DEF Written
    <3> QED  BY <2>2, <3>1, <3>2
  <2>4. ASSUME \A h \in Names \ Unmarked : SamePart(stage, out, h), NEW p \in diffSnapshot(out, stage)
        PROVE  FALSE
    <3>1. p \in Written(out) \union Written(stage) /\ p[1] \notin Unmarked
          /\ ~(p \in Written(out) /\ p \in Written(stage) /\ out[p] = stage[p])
      BY DEF diffSnapshot, snapshotGenerated
    <3>2. p \in DOMAIN out \union DOMAIN stage  BY <3>1 DEF Written
    <3>3. SamePart(stage, out, p[1])  BY <2>1, <2>4, <3>1, <3>2
    <3>4. p \in DOMAIN out /\ p \in DOMAIN stage /\ out[p] = stage[p]  BY <3>2, <3>3 DEF SamePart
    <3> QED  BY <3>1, <3>4 DEF Written
  <2> QED  BY <2>3, <2>4 DEF SamePart
<1>6. (\A h \in Names \ Unmarked : SamePart(stage, out, h))
        <=> \A g \in Names \ Unmarked : Enabled(g) => Current(g, Source(g), out)
  <2>1. \A g \in Names : Enabled(g) => Current(g, Source(g), stage)  BY <1>1, <1>2, <1>4 DEF Copied, Good
  <2>2. ASSUME \A h \in Names \ Unmarked : SamePart(stage, out, h), NEW g \in Names \ Unmarked, Enabled(g)
        PROVE  Current(g, Source(g), out)
    BY <2>1, <2>2, MarkedSame
  <2>3. ASSUME \A g \in Names \ Unmarked : Enabled(g) => Current(g, Source(g), out)
        PROVE  \A h \in Names \ Unmarked : SamePart(stage, out, h)
    BY <2>3, <1>1, <1>2, <1>4 DEF Copied
  <2> QED  BY <2>2, <2>3
<1>7. AfterCheck'
  BY <1>1, <1>3, <1>5, <1>6 DEF AfterCheck, Current, Names, Enabled, Unmarked
<1>8. TypeOK'
  <2>1. Selected("idle")' = Selected("idle")  BY <1>1 DEF Selected
  <2> QED  BY <1>1, <1>2, <2>1 DEF TypeOK, Drop
<1>9. Shape'  BY <1>1, <1>8 DEF GenInv, Shape, Drop
<1>10. Settled'
  BY <1>1, <1>3 DEF GenInv, Settled, Good, Independent, Watched, Current, Names, Unmarked
<1>11. AfterRun' /\ Copied'  BY <1>1 DEF AfterRun, Copied, Drop
<1> QED  BY <1>7, <1>9, <1>10, <1>11 DEF GenInv

(* what a publication moves, and what it leaves *)
LEMMA PublishedAre ==
    ASSUME FilesOK(out), FilesOK(stage)
    PROVE  /\ FilesOK(Published)
           /\ \A h \in Names \ Unmarked : SamePart(Published, stage, h)
           /\ \A h \in Unmarked : SamePart(Published, out, h)
<1> DEFINE new == snapshotGenerated(stage)
           old == snapshotGenerated(out)
           F == Published
<1>1. /\ IsFiles(F) /\ DOMAIN F = new \union (DOMAIN out \ old)
      /\ \A p \in new : F[p] = stage[p]
      /\ \A p \in (DOMAIN out \ old) \ new : F[p] = out[p]
  <2> HIDE DEF new, old
  <2> QED  BY DEF Published, Over, IsFiles, new, old
<1>2. /\ new \subseteq DOMAIN stage /\ old \subseteq DOMAIN out
      /\ \A p \in new : stage[p][1] = "gen" /\ p[1] \notin Unmarked
      /\ \A p \in DOMAIN stage \ new : p[1] \in Unmarked \/ p \in HandFiles
      /\ \A p \in DOMAIN out \ old : p[1] \in Unmarked \/ p \in HandFiles
  BY DEF snapshotGenerated, Written, FilesOK
<1>3. ASSUME NEW p \in HandFiles
      PROVE  /\ p \in DOMAIN out \ old /\ p \in DOMAIN stage /\ p \notin new
             /\ out[p] = <<"hand">> /\ stage[p] = <<"hand">>
  <2>1. p \in DOMAIN out /\ out[p] = <<"hand">> /\ p \in DOMAIN stage /\ stage[p] = <<"hand">>  BY DEF FilesOK
  <2>2. out[p][1] # "gen" /\ stage[p][1] # "gen"  BY <2>1
  <2> QED  BY <2>1, <2>2 DEF snapshotGenerated, Written
<1> HIDE DEF new, old, F
<1>4. FilesOK(F)
  <2>1. \A p \in HandFiles : p \in DOMAIN F /\ F[p] = <<"hand">>  BY <1>1, <1>3
  <2>2. \A p \in DOMAIN F : p[1] \in Names /\ p = <<p[1], p[2]>> /\ (F[p][1] = "gen" \/ p \in HandFiles)
    BY <1>1, <1>2 DEF FilesOK
  <2> QED  BY <1>1, <2>1, <2>2 DEF FilesOK
<1>5. ASSUME NEW h \in Names \ Unmarked, NEW p, p[1] = h
      PROVE  (p \in DOMAIN F <=> p \in DOMAIN stage) /\ (p \in DOMAIN F => F[p] = stage[p])
  BY <1>1, <1>2, <1>3, <1>5
<1>6. ASSUME NEW h \in Unmarked, NEW p, p[1] = h
      PROVE  (p \in DOMAIN F <=> p \in DOMAIN out) /\ (p \in DOMAIN F => F[p] = out[p])
  <2>1. p \notin new /\ p \notin old  BY <1>6, <1>2 DEF old, snapshotGenerated
  <2> QED  BY <1>1, <2>1
<1> QED  BY <1>4, <1>5, <1>6 DEF SamePart, F

LEMMA PublishKeeps ==
    ASSUME GenInv, Publish
    PROVE  GenInv'
<1>1. /\ mode \in {"full", "changed"} /\ todo = {} /\ out' = Published
      /\ changed \subseteq changed'
      /\ missed' = IF mode = "full" THEN {} ELSE missed \ Selected(mode)
      /\ last' = "ok" /\ Drop
      /\ UNCHANGED <<decl, focus, edits>>
  BY DEF Publish
<1>2. TypeOK /\ FilesOK(out) /\ FilesOK(stage) /\ Copied /\ Settled  BY <1>1 DEF GenInv, Shape
<1>3. \A g \in Names : Source(g)' = Source(g)  BY <1>1 DEF Source
<1>4. Done = Selected(mode)  BY <1>1 DEF Done
<1>5. \A g \in Names \ Unmarked : Enabled(g) /\ g \notin missed' => Good(g, stage)
  <2> SUFFICES ASSUME NEW g \in Names \ Unmarked, Enabled(g), g \notin missed', g \notin Selected(mode)
               PROVE  Good(g, stage)
    BY <1>1, <1>2, <1>4 DEF Copied
  <2>1. mode = "changed" /\ g # "registry" /\ Watched(g) \intersect changed = {} /\ g \notin missed
    BY <1>1 DEF Selected
  <2>2. Good(g, out)  BY <2>1, <1>2 DEF Settled, Independent
  <2>3. SamePart(stage, out, g)  BY <1>1, <1>2, <1>4 DEF Copied
  <2> QED  BY <2>1, <2>2, <2>3, CurrentSame, OutputsIgnoreFiles DEF Good
<1>6. \A g \in Names : Enabled(g) /\ g \notin missed' \union Unmarked => Good(g, out)'
  <2> SUFFICES ASSUME NEW g \in Names \ Unmarked, Enabled(g), g \notin missed' PROVE Good(g, out)'
    BY DEF Enabled
  <2>1. Good(g, stage) /\ \A h \in Names \ Unmarked : SamePart(Published, stage, h)
    BY <1>2, <1>5, PublishedAre
  <2>2. Current(g, Source(g), Published) /\ ~Rejected(g, Source(g), Published)  BY <2>1, MarkedSame DEF Good
  <2> QED  BY <1>1, <1>3, <2>2 DEF Good
<1>7. AfterRun' /\ Settled'
  BY <1>6 DEF AfterRun, Settled, Independent, Names, Enabled, Unmarked
<1>8. AfterCheck' /\ Copied'  BY <1>1 DEF AfterCheck, Copied, Drop
<1>9. TypeOK'
  <2>1. \A p \in DOMAIN Published : p[1] \in Names /\ Published[p][1] \in {"gen", "hand"}
    <3>1. FilesOK(Published)  BY <1>2, PublishedAre
    <3>2. \A p \in HandFiles : Published[p][1] = "hand"  BY <3>1 DEF FilesOK
    <3> QED  BY <3>1, <3>2 DEF FilesOK
  <2>2. missed' \subseteq Names  BY <1>1, <1>2 DEF TypeOK
  <2> QED  BY <1>1, <1>2, <2>1, <2>2 DEF TypeOK, Drop
<1>10. Shape'  BY <1>1, <1>2, <1>9, PublishedAre DEF GenInv, Shape, Drop
<1> QED  BY <1>7, <1>8, <1>10 DEF GenInv

(***************************************************************************)
(* An edit: every generator whose declarations it may change looks at a    *)
(* directory it touches. The tables' Go and template generators do not     *)
(* look at configs/table, and a change of the CSV files is none to them.   *)
(***************************************************************************)
LEMMA TablesAlone ==
    ASSUME NEW g \in {"config-template", "config-go"}, NEW source, NEW other, NEW files,
           source.tables = other.tables
    PROVE  /\ Outputs(g, source, files) = Outputs(g, other, files)
           /\ ~Rejected(g, source, files)
           /\ ~Rejected(g, other, files)
<1>1. CASE g = "config-template"
  <2>1. ~Rejected(g, source, files) /\ ~Rejected(g, other, files)  BY <1>1 DEF Rejected, Feature
  <2>2. Outputs(g, source, files) = Outputs(g, other, files)  BY <1>1 DEF Outputs
  <2> QED  BY <2>1, <2>2
<1>2. CASE g = "config-go"
  <2>1. ~Rejected(g, source, files) /\ ~Rejected(g, other, files)  BY <1>2 DEF Rejected, Feature
  <2>2. Table!Go(source) = Table!Go(other)  BY DEF Table!Go
  <2>3. Outputs(g, source, files) = Outputs(g, other, files)  BY <1>2, <2>2 DEF Outputs
  <2> QED  BY <2>1, <2>3
<1> QED  BY <1>1, <1>2

LEMMA EditKeeps ==
    ASSUME GenInv, NEW v \in 1..10, Edit(v)
    PROVE  GenInv'
<1> DEFINE touched == {Declarations[focus][v].dir, Declarations[focus][decl[focus]].dir}
<1>1. /\ mode = "idle" /\ edits < MaxEdits /\ v \in DOMAIN Declarations[focus]
      /\ decl' = [decl EXCEPT ![focus] = v]
      /\ changed' = changed \union touched
      /\ missed' = missed \union Unseen(focus, touched)
      /\ last' = "none" /\ edits' = edits + 1
      /\ UNCHANGED <<out, stage, mode, todo, focus>>
  BY DEF Edit
<1>2. TypeOK /\ FilesOK(out) /\ DOMAIN decl = Kinds /\ focus \in Kinds  BY DEF GenInv, Shape, TypeOK
<1>3. decl'[focus] = v /\ DOMAIN decl' = Kinds /\ \A kind \in Kinds : kind # focus => decl'[kind] = decl[kind]
  BY <1>1, <1>2
<1>4. Shape'
  <2>1. edits' \in 0..MaxEdits  BY <1>1, <1>2, DeclarationsAssumption DEF TypeOK, DeclarationsAssumption
  <2>2. missed' \subseteq Names /\ todo' = {}  BY <1>1, <1>2 DEF TypeOK, Unseen
  <2>3. \A kind \in Kinds : decl'[kind] \in DOMAIN Declarations[kind]  BY <1>1, <1>2, <1>3 DEF TypeOK
  <2>4. TypeOK'  BY <1>1, <1>2, <2>1, <2>2, <2>3 DEF TypeOK
  <2> QED  BY <1>1, <1>2, <1>3, <2>4 DEF Shape
<1>5. Settled'
  <2> SUFFICES ASSUME NEW g \in Independent \ Unmarked, g \notin missed', Watched(g) \intersect changed' = {}
               PROVE  Good(g, out)'
    BY DEF Settled, Independent, Enabled, Watched, Unmarked
  <2>1. g \in Names \ {"registry"} /\ Feature(g) \in Kinds  BY FeatureKinds DEF Independent
  <2>2. g \notin missed /\ Watched(g) \intersect changed = {} /\ Watched(g) \intersect touched = {}  BY <1>1
  <2>3. Good(g, out)  BY <2>2 DEF GenInv, Settled
  <2>4. CASE Feature(g) # focus
    <3>1. Source(g)' = Source(g)  BY <1>3, <2>1, <2>4 DEF Source
    <3> QED  BY <1>1, <2>3, <3>1 DEF Good
  <2>5. CASE Feature(g) = focus
    <3>1. touched \intersect Reads(g) = {}
      <4>1. g \notin Unseen(focus, touched)  BY <1>1
      <4>2. touched \intersect Reads(g) \subseteq Watched(g)  BY <4>1, <2>1, <2>5 DEF Unseen
      <4> QED  BY <4>2, <2>2
    <3>2. decl[focus] \in DOMAIN Declarations[focus]  BY <1>2 DEF TypeOK
    <3>3. g \in {"config-template", "config-go"}
      <4> SUFFICES ASSUME g \notin {"config-template", "config-go"} PROVE FALSE  OBVIOUS
      <4>1. Reads(g) = {form.dir : form \in Range(Declarations[focus])}  BY <2>5 DEF Reads
      <4>2. Declarations[focus][v] \in Range(Declarations[focus])  BY <1>1 DEF Range
      <4>3. Declarations[focus][v].dir \in Reads(g)  BY <4>1, <4>2
      <4> QED  BY <3>1, <4>3
    <3>4. Reads(g) = {"configs/schema"} /\ focus = "config"  BY <2>5, <3>3 DEF Reads, Feature
    <3>5. Declarations["config"][v].source.tables = Declarations["config"][decl["config"]].source.tables
      <4>1. "configs/schema" \notin {Declarations["config"][v].dir, Declarations["config"][decl["config"]].dir}
        BY <3>1, <3>4
      <4> QED  BY <4>1, <1>1, <3>2, <3>4, DeclarationsAssumption DEF DeclarationsAssumption
    <3> DEFINE before == Source(g)
               after == Declarations["config"][v].source
    <3>6. Source(g)' = after /\ before.tables = after.tables  BY <1>3, <2>5, <3>4, <3>5 DEF Source
    <3>7. Outputs(g, after, out) = Outputs(g, before, out) /\ ~Rejected(g, after, out)
      <4> HIDE DEF before, after
      <4> QED  BY <3>3, <3>6, TablesAlone
    <3>8. Swept(g, after, out) = {}  BY <3>3, SweptAre DEF Swept
    <3>9. Current(g, before, out)  BY <2>3 DEF Good
    <3>10. Current(g, after, out)
      <4> HIDE DEF before, after
      <4> QED  BY <3>7, <3>8, <3>9 DEF Current
    <3> QED  BY <1>1, <3>6, <3>7, <3>10 DEF Good
  <2> QED  BY <2>4, <2>5
<1>6. AfterRun' /\ AfterCheck' /\ Copied'  BY <1>1 DEF AfterRun, AfterCheck, Copied
<1> QED  BY <1>4, <1>5, <1>6 DEF GenInv

-----------------------------------------------------------------------------
(* What the first run made: the outputs of every generator, and the files  *)
(* of the developer.                                                       *)
LEMMA InitGen == Init => GenInv
<1> SUFFICES ASSUME Init PROVE GenInv  OBVIOUS
<1> DEFINE parts == [p \in UNION {DOMAIN Outputs(g, First(g), NoFiles) : g \in Independent} |->
                       Outputs(p[1], First(p[1]), NoFiles)[p]]
           before == Over(HandWritten, parts)
<1>1. /\ decl = [kind \in Kinds |-> 1] /\ out = Run("registry", First("registry"), before)
      /\ stage = NoFiles /\ mode = "idle" /\ todo = {} /\ last = "none"
      /\ changed = {} /\ missed = {} /\ focus \in Kinds /\ edits = 0
  <2>1. focus \in Kinds  BY FeatureKinds DEF Init
  <2> QED  BY <2>1 DEF Init, Generated
<1>2. \A g \in Names : Source(g) = First(g) /\ Declared(g, First(g))
  <2> SUFFICES ASSUME NEW g \in Names PROVE Source(g) = First(g) /\ Declared(g, First(g))  OBVIOUS
  <2>1. Feature(g) \in Kinds /\ 1 \in DOMAIN Declarations[Feature(g)]
    BY FeatureKinds, DeclarationsAssumption DEF DeclarationsAssumption
  <2> QED  BY <1>1, <2>1 DEF Source, First, Declared
<1>3. \A g \in Independent : g \in Names \ {"registry"} /\ ~Rejected(g, First(g), NoFiles)
  BY DeclarationsAssumption DEF DeclarationsAssumption, Independent
<1>4. ASSUME NEW g \in Independent, NEW p \in DOMAIN Outputs(g, First(g), NoFiles)
      PROVE  p[1] = g /\ p \in DOMAIN parts /\ parts[p] = Outputs(g, First(g), NoFiles)[p]
             /\ parts[p][1] = "gen" /\ p = <<p[1], p[2]>> /\ p \notin HandFiles
  <2>1. p[1] = g /\ p = <<p[1], p[2]>> /\ Outputs(g, First(g), NoFiles)[p][1] = "gen"  BY <1>3, OutputsAre
  <2>2. p \notin HandFiles  BY <1>2, <1>3, HandFree
  <2> QED  BY <2>1, <2>2
<1>5. ASSUME NEW p \in DOMAIN parts PROVE p[1] \in Independent /\ p \in DOMAIN Outputs(p[1], First(p[1]), NoFiles)
  <2>1. PICK g \in Independent : p \in DOMAIN Outputs(g, First(g), NoFiles)  OBVIOUS
  <2> QED  BY <2>1, <1>4
<1>6. /\ IsFiles(before) /\ DOMAIN before = HandFiles \union DOMAIN parts
      /\ \A p \in HandFiles : before[p] = <<"hand">>
      /\ \A p \in DOMAIN parts \ HandFiles : before[p] = parts[p]
  <2>1. DOMAIN HandWritten = HandFiles /\ \A p \in HandFiles : HandWritten[p] = <<"hand">>  BY DEF HandWritten
  <2> HIDE DEF parts
  <2> QED  BY <2>1 DEF Over, IsFiles
<1> HIDE DEF parts, before
<1>7. FilesOK(before)
  <2>1. \A p \in HandFiles : p[1] \in Names /\ p = <<p[1], p[2]>>
    BY DeclarationsAssumption DEF DeclarationsAssumption
  <2>2. \A p \in DOMAIN before : p[1] \in Names /\ p = <<p[1], p[2]>> /\ (before[p][1] = "gen" \/ p \in HandFiles)
    BY <2>1, <1>3, <1>4, <1>5, <1>6
  <2> QED  BY <2>2, <1>6 DEF FilesOK
<1>8. FilesOK(out)  BY <1>1, <1>2, <1>7, RunFiles, Places
<1>9. ASSUME NEW g \in Independent PROVE Good(g, out)
  <2>1. \A p \in DOMAIN Outputs(g, First(g), NoFiles) :
           p \in DOMAIN before /\ before[p] = Outputs(g, First(g), NoFiles)[p]
    BY <1>4, <1>6
  <2>2. Outputs(g, First(g), before) = Outputs(g, First(g), NoFiles) /\ ~Rejected(g, First(g), before)
    BY <1>3, OutputsIgnoreFiles
  <2>3. Swept(g, First(g), before) = {}
    <3> SUFFICES ASSUME NEW p \in Swept(g, First(g), before) PROVE FALSE  OBVIOUS
    <3>1. p \in DOMAIN before /\ p[1] = g /\ p[2] \notin DOMAIN Dao!Outputs(First(g)) /\ before[p][1] = "gen"
      BY SweptAre
    <3>2. g = "dao"  BY DEF Swept
    <3>3. p \in DOMAIN parts  BY <3>1, <1>6
    <3>4. p \in DOMAIN Outputs(g, First(g), NoFiles)  BY <3>1, <3>3, <1>5
    <3> QED  BY <3>1, <3>2, <3>4, DaoOutputs
  <2>4. Current(g, First(g), before)  BY <2>1, <2>2, <2>3 DEF Current
  <2>5. SamePart(out, before, g)  BY <1>1, <1>3, OthersKept, Places
  <2>6. Current(g, First(g), out) /\ ~Rejected(g, First(g), out)
    BY <2>2, <2>4, <2>5, <1>3, CurrentSame, OutputsIgnoreFiles
  <2> QED  BY <2>6, <1>2, <1>3 DEF Good
<1>10. TypeOK
  <2>1. \A kind \in Kinds : decl[kind] \in DOMAIN Declarations[kind]
    BY <1>1, DeclarationsAssumption DEF DeclarationsAssumption
  <2>2. \A p \in DOMAIN out : p[1] \in Names /\ out[p][1] \in {"gen", "hand"}  BY <1>8 DEF FilesOK
  <2>3. 0 \in 0..MaxEdits  BY DeclarationsAssumption DEF DeclarationsAssumption
  <2> QED  BY <1>1, <2>1, <2>2, <2>3 DEF TypeOK
<1>11. Shape  BY <1>1, <1>8, <1>10 DEF Shape
<1>12. Settled /\ AfterRun /\ AfterCheck /\ Copied  BY <1>1, <1>9 DEF Settled, AfterRun, AfterCheck, Copied
<1> QED  BY <1>11, <1>12 DEF GenInv

LEMMA GenStep == GenInv /\ [Next]_vars => GenInv'
<1> SUFFICES ASSUME GenInv, [Next]_vars PROVE GenInv'  OBVIOUS
<1>1. CASE \E v \in 1..10 : Edit(v)  BY <1>1, EditKeeps
<1>2. CASE Commit  BY <1>2, CommitKeeps
<1>3. CASE \E p \in DOMAIN out : RemoveFile(p)  BY <1>3, RemoveKeeps
<1>4. CASE \E m \in {"full", "changed", "check"} : Start(m)  BY <1>4, StartKeeps
<1>5. CASE \E g \in Names : Step(g)  BY <1>5, StepKeeps
<1>6. CASE \E g \in Names : Fail(g)
  <2>1. Drop /\ last' = "failed" /\ UNCHANGED <<decl, out, changed, missed, focus, edits>>  BY <1>6 DEF Fail
  <2> QED  BY <2>1, QuietKeeps
<1>7. CASE Publish  BY <1>7, PublishKeeps
<1>8. CASE Check  BY <1>8, CheckKeeps
<1>9. CASE Stop
  <2>1. Drop /\ last' = last /\ UNCHANGED <<decl, out, changed, missed, focus, edits>>  BY <1>9 DEF Stop, Killed
  <2> QED  BY <2>1, QuietKeeps
<1>10. CASE UNCHANGED vars
  <2>1. \A g \in Names : Source(g)' = Source(g)  BY <1>10 DEF Source, vars
  <2>2. Selected(mode)' = Selected(mode)  BY <1>10 DEF Selected, vars
  <2>3. TypeOK' /\ Done' = Done  BY <1>10, <2>2 DEF GenInv, Shape, TypeOK, Done, vars
  <2>4. Shape'  BY <1>10, <2>3 DEF GenInv, Shape, vars
  <2>5. Settled' /\ AfterRun' /\ AfterCheck'
    BY <1>10, <2>1 DEF GenInv, Settled, AfterRun, AfterCheck, Good, Independent, Watched, Current, Names, Unmarked, vars
  <2>6. Done \subseteq Names  BY DEF Done, Selected
  <2>7. Copied'
    BY <1>10, <2>1, <2>3, <2>6 DEF GenInv, Copied, Good, Current, Names, vars, Unmarked
  <2> QED  BY <2>4, <2>5, <2>7 DEF GenInv
<1> QED  BY <1>1, <1>2, <1>3, <1>4, <1>5, <1>6, <1>7, <1>8, <1>9, <1>10 DEF Next

THEOREM GenInvariant == Spec => []GenInv
BY InitGen, GenStep, PTL DEF Spec

-----------------------------------------------------------------------------
(* What a run owes a project, for any declarations and hand-written files: *)
(* after generate, or generate --changed, every output that git's view of  *)
(* the declarations covers is what a run on an empty project would write,  *)
(* the registry included, and no hand-written file was touched. Not so the *)
(* templates of the tables, which a run does not publish (generate.go:     *)
(* GenerateTransactional; project.go: planStagedProjectCommit).            *)
THEOREM OutputsAreCurrent == Spec => []OutputsCurrent
<1>1. GenInv => OutputsCurrent
  <2> SUFFICES ASSUME GenInv PROVE OutputsCurrent  OBVIOUS
  <2>1. FilesOK(out) /\ TypeOK  BY DEF GenInv, Shape
  <2>2. \A g \in Names : Fresh(g) <=> Current(g, Source(g), out)  BY <2>1, FreshIff DEF Fresh, FilesOK
  <2>3. CurrentAfterRun  BY <2>2 DEF GenInv, AfterRun, Good, CurrentAfterRun, Ran, Ended
  <2>4. HandWrittenKept  BY <2>1 DEF FilesOK, HandWrittenKept
  <2> QED  BY <2>1, <2>3, <2>4 DEF OutputsCurrent
<1> QED  BY <1>1, GenInvariant, PTL

(* The verdict of generate --check is right, whatever was edited, removed  *)
(* or missed since the last run: it says current exactly when no enabled   *)
(* generator would change a file, templates of tables aside (generate.go:  *)
(* checkGenerated, snapshotGenerated, diffSnapshot).                       *)
THEOREM CheckTellsTheTruth == Spec => []CheckIsTrue
<1>1. GenInv => CheckIsTrue
  <2> SUFFICES ASSUME GenInv PROVE CheckIsTrue  OBVIOUS
  <2>1. FilesOK(out)  BY DEF GenInv, Shape
  <2>2. \A g \in Names : Fresh(g) <=> Current(g, Source(g), out)  BY <2>1, FreshIff DEF Fresh, FilesOK
  <2> QED  BY <2>2 DEF GenInv, AfterCheck, CheckIsTrue
<1> QED  BY <1>1, GenInvariant, PTL

-----------------------------------------------------------------------------
(***************************************************************************)
(* Sets in an order, and what a loop keeps of a slice (module Ordered).    *)
(***************************************************************************)
(* a strict order in which any two elements of S are comparable *)
Ordering(S, order) ==
    /\ \A x \in S : <<x, x>> \notin order
    /\ \A x, y \in S : x = y \/ <<x, y>> \in order \/ <<y, x>> \in order
    /\ \A x, y, z \in S : <<x, y>> \in order /\ <<y, z>> \in order => <<x, z>> \in order

Rank(S, order, x) == Cardinality(Below(S, order, x))

(* Every element has a place of its own among those of the set. *)
LEMMA RanksAre ==
    ASSUME NEW S, IsFiniteSet(S), NEW order, Ordering(S, order)
    PROVE  /\ Cardinality(S) \in Nat
           /\ \A x \in S : Rank(S, order, x) \in 0..(Cardinality(S) - 1)
           /\ \A x, y \in S : <<x, y>> \in order <=> Rank(S, order, x) < Rank(S, order, y)
           /\ \A n \in 1..Cardinality(S) : \E x \in S : Rank(S, order, x) = n - 1
<1> DEFINE r(x) == Rank(S, order, x)
<1>1. Cardinality(S) \in Nat  BY FS_CardinalityType
<1>2. ASSUME NEW x \in S PROVE IsFiniteSet(Below(S, order, x)) /\ r(x) \in 0..(Cardinality(S) - 1)
  <2>1. Below(S, order, x) \in SUBSET (S \ {x}) /\ IsFiniteSet(S \ {x})
    BY FS_RemoveElement DEF Below, Ordering
  <2>2. IsFiniteSet(Below(S, order, x)) /\ r(x) <= Cardinality(S \ {x})  BY <2>1, FS_Subset DEF Rank
  <2>3. Cardinality(S \ {x}) = Cardinality(S) - 1  BY FS_RemoveElement
  <2>4. r(x) \in Nat  BY <2>2, FS_CardinalityType DEF Rank
  <2> QED  BY <1>1, <2>2, <2>3, <2>4
<1>3. ASSUME NEW x \in S, NEW y \in S, <<x, y>> \in order PROVE r(x) < r(y)
  <2>1. Below(S, order, x) \in SUBSET Below(S, order, y)  BY <1>3 DEF Below, Ordering
  <2>2. x \in Below(S, order, y) /\ x \notin Below(S, order, x)  BY <1>3 DEF Below, Ordering
  <2>3. r(x) <= r(y) /\ r(x) # r(y)  BY <1>2, <2>1, <2>2, FS_Subset DEF Rank
  <2>4. r(x) \in Int /\ r(y) \in Int  BY <1>2
  <2> QED  BY <2>3, <2>4
<1>4. ASSUME NEW x \in S, NEW y \in S, r(x) < r(y) PROVE <<x, y>> \in order
  <2>1. r(x) \in Int /\ r(y) \in Int  BY <1>2
  <2>2. x # y /\ <<y, x>> \notin order  BY <1>3, <1>4, <2>1
  <2> QED  BY <2>2 DEF Ordering
<1>5. \A x, y \in S : <<x, y>> \in order <=> r(x) < r(y)  BY <1>3, <1>4
<1>6. ASSUME NEW n \in 1..Cardinality(S) PROVE \E x \in S : r(x) = n - 1
  <2> DEFINE f == [x \in S |-> r(x) + 1]
             T == 1..Cardinality(S)
  <2>1. f \in [S -> T]  BY <1>1, <1>2
  <2>2. \A x, y \in S : f[x] = f[y] => x = y
    <3> SUFFICES ASSUME NEW x \in S, NEW y \in S, f[x] = f[y] PROVE x = y  OBVIOUS
    <3>1. r(x) = r(y) /\ r(x) \in Int  BY <1>2
    <3>2. <<x, y>> \notin order /\ <<y, x>> \notin order  BY <1>3, <3>1
    <3> QED  BY <3>2 DEF Ordering
  <2>3. f \in Injection(S, T)  BY <2>1, <2>2 DEF Injection, IsInjective
  <2>4. IsFiniteSet(T) /\ Cardinality(T) = Cardinality(S)  BY <1>1, FS_Interval
  <2>5. f \in Surjection(S, T)  BY <2>3, <2>4, FS_Injection
  <2>6. PICK x \in S : f[x] = n  BY <2>5 DEF Surjection
  <2> QED  BY <1>2, <2>6
<1> QED  BY <1>1, <1>2, <1>5, <1>6

(* A set put in order: each element once, and every one after those below. *)
LEMMA InOrderIs ==
    ASSUME NEW S, IsFiniteSet(S), NEW order, Ordering(S, order)
    PROVE  LET row == InOrder(S, order)
           IN  /\ Cardinality(S) \in Nat /\ row \in [1..Cardinality(S) -> S]
               /\ \A x \in S : \E i \in 1..Cardinality(S) : row[i] = x
               /\ \A i, j \in 1..Cardinality(S) : <<row[i], row[j]>> \in order <=> i < j
<1> DEFINE row == InOrder(S, order)
<1>1. /\ Cardinality(S) \in Nat
      /\ \A x \in S : Rank(S, order, x) \in 0..(Cardinality(S) - 1)
      /\ \A x, y \in S : <<x, y>> \in order <=> Rank(S, order, x) < Rank(S, order, y)
      /\ \A n \in 1..Cardinality(S) : \E x \in S : Rank(S, order, x) = n - 1
  BY RanksAre
<1>2. row = [n \in 1..Cardinality(S) |-> CHOOSE x \in S : Rank(S, order, x) = n - 1]  BY DEF InOrder, Rank
<1>3. \A n \in 1..Cardinality(S) : row[n] \in S /\ Rank(S, order, row[n]) = n - 1
  <2> SUFFICES ASSUME NEW n \in 1..Cardinality(S)
               PROVE  row[n] \in S /\ Rank(S, order, row[n]) = n - 1
    OBVIOUS
  <2>1. row[n] = CHOOSE x \in S : Rank(S, order, x) = n - 1  BY <1>2
  <2>2. \E x \in S : Rank(S, order, x) = n - 1  BY <1>1
  <2> HIDE DEF row
  <2> QED  BY <2>1, <2>2
<1>4. \A x \in S : \E i \in 1..Cardinality(S) : row[i] = x
  <2> SUFFICES ASSUME NEW x \in S PROVE \E i \in 1..Cardinality(S) : row[i] = x  OBVIOUS
  <2> DEFINE i == Rank(S, order, x) + 1
  <2>1. i \in 1..Cardinality(S) /\ Rank(S, order, x) = i - 1  BY <1>1
  <2>2. row[i] \in S /\ Rank(S, order, row[i]) = Rank(S, order, x)  BY <1>3, <2>1
  <2>3. <<row[i], x>> \notin order /\ <<x, row[i]>> \notin order
    <3>1. Rank(S, order, x) \in Int  BY <1>1
    <3> QED  BY <1>1, <2>2, <3>1
  <2>4. row[i] = x  BY <2>2, <2>3 DEF Ordering
  <2> QED  BY <2>1, <2>4
<1>5. \A i, j \in 1..Cardinality(S) : <<row[i], row[j]>> \in order <=> i < j
  BY <1>1, <1>3
<1>6. row \in [1..Cardinality(S) -> S]  BY <1>2, <1>3
<1> QED  BY <1>1, <1>4, <1>5, <1>6

(* What a loop keeps, for a finite set of positions: each once, as they    *)
(* stood.                                                                  *)
LEMMA KeptIs ==
    ASSUME NEW P \in SUBSET Int, IsFiniteSet(P)
    PROVE  LET at == [n \in 1..Cardinality(P) |-> Nth(P, n)]
           IN  /\ Cardinality(P) \in Nat /\ at \in [1..Cardinality(P) -> P]
               /\ \A i \in P : \E n \in 1..Cardinality(P) : at[n] = i
               /\ \A m, n \in 1..Cardinality(P) : at[m] < at[n] <=> m < n
<1> DEFINE order == {pair \in Int \X Int : pair[1] < pair[2]}
<1>1. \A i, j \in Int : <<i, j>> \in order <=> i < j  OBVIOUS
<1>2. Ordering(P, order)  BY <1>1 DEF Ordering
<1>3. \A i \in P : Below(P, order, i) = {j \in P : j < i}  BY <1>1 DEF Below
<1> HIDE DEF order
<1>4. InOrder(P, order) = [n \in 1..Cardinality(P) |-> Nth(P, n)]
  <2>1. \A n \in 1..Cardinality(P) :
            (CHOOSE x \in P : Cardinality(Below(P, order, x)) = n - 1) = Nth(P, n)
    <3> SUFFICES ASSUME NEW n \in 1..Cardinality(P)
                 PROVE (CHOOSE x \in P : Cardinality(Below(P, order, x)) = n - 1) = Nth(P, n)
      OBVIOUS
    <3>1. \A x \in P : Cardinality(Below(P, order, x)) = n - 1 <=> Cardinality({j \in P : j < x}) = n - 1
      BY <1>3
    <3> QED  BY <3>1 DEF Nth
  <2> QED  BY <2>1 DEF InOrder
<1>5. LET row == InOrder(P, order)
      IN  /\ Cardinality(P) \in Nat /\ row \in [1..Cardinality(P) -> P]
          /\ \A x \in P : \E i \in 1..Cardinality(P) : row[i] = x
          /\ \A i, j \in 1..Cardinality(P) : <<row[i], row[j]>> \in order <=> i < j
  BY <1>2, InOrderIs
<1>6. \A m, n \in 1..Cardinality(P) : InOrder(P, order)[m] < InOrder(P, order)[n] <=> m < n
  BY <1>1, <1>5
<1> QED  BY <1>4, <1>5, <1>6

LEMMA KeptAre ==
    ASSUME NEW seq, NEW P \in SUBSET Int, IsFiniteSet(P)
    PROVE  /\ Cardinality(P) \in Nat
           /\ Kept(seq, P) = [n \in 1..Cardinality(P) |-> seq[Nth(P, n)]]
           /\ \A n \in 1..Cardinality(P) : Nth(P, n) \in P /\ Kept(seq, P)[n] = seq[Nth(P, n)]
           /\ \A i \in P : \E n \in 1..Cardinality(P) : Kept(seq, P)[n] = seq[i]
<1> DEFINE at == [n \in 1..Cardinality(P) |-> Nth(P, n)]
<1>1. /\ Cardinality(P) \in Nat /\ at \in [1..Cardinality(P) -> P]
      /\ \A i \in P : \E n \in 1..Cardinality(P) : at[n] = i
  BY KeptIs
<1>2. \A n \in 1..Cardinality(P) : at[n] = Nth(P, n)  OBVIOUS
<1> HIDE DEF at
<1>3. Kept(seq, P) = [n \in 1..Cardinality(P) |-> seq[Nth(P, n)]]  BY DEF Kept
<1> QED  BY <1>1, <1>2, <1>3

(* what a loop keeps of a sequence that qualifies is a sequence of that *)
LEMMA RowOf ==
    ASSUME NEW n \in Nat, NEW f, DOMAIN f = 1..n, f = [i \in 1..n |-> f[i]], NEW S, \A i \in 1..n : f[i] \in S
    PROVE  f \in Seq(S) /\ Len(f) = n
<1>1. f \in [1..n -> S]  OBVIOUS
<1>2. f \in Seq(S)  BY <1>1
<1> QED  BY <1>2

LEMMA LeastOf ==
    ASSUME NEW S \in SUBSET Nat, S # {}
    PROVE  \E n \in S : \A k \in S : n <= k
<1>1. PICK R : IsWellFoundedOn(R, Nat) /\ \A a, b \in Nat : <<a, b>> \in R <=> a < b
  BY NatLessThanWellFounded DEF OpToRel
<1>2. PICK n \in S : \A k \in S : ~(<<k, n>> \in R)
  <2>1. IsWellFoundedOn(R, Nat) /\ S \subseteq Nat  BY <1>1
  <2>2. \E x \in S : \A y \in S : ~(<<y, x>> \in R)  BY <2>1, WFMin
  <2> QED  BY <2>2
<1>3. \A k \in S : ~(k < n)  BY <1>1, <1>2
<1> QED  BY <1>3

-----------------------------------------------------------------------------
(***************************************************************************)
(* attribute: the order of the formulas. Every formula the walk has left   *)
(* stands behind the formulas of its inputs, and each step enters or       *)
(* leaves one, so 2 * Len(outputs) steps leave none out.                   *)
(***************************************************************************)
Distinct(s) == \A i, j \in 1..Len(s) : s[i] = s[j] => i = j
In(s, x) == \E i \in 1..Len(s) : s[i] = x

(* every formula behind those of its inputs *)
Topological(inputs, order) ==
    \A i \in 1..Len(order) : \A j \in DOMAIN inputs[order[i]] :
        inputs[order[i]][j] \in DOMAIN inputs => \E k \in 1..(i - 1) : order[k] = inputs[order[i]][j]

(* the walk after n steps *)
Reached(inputs, w, n) ==
    /\ w \in [open : Seq(DOMAIN inputs), order : Seq(DOMAIN inputs), cycle : BOOLEAN]
    /\ ~w.cycle =>
          /\ Distinct(w.open) /\ Distinct(w.order)
          /\ \A x \in DOMAIN inputs : ~(In(w.open, x) /\ In(w.order, x))
          /\ Topological(inputs, w.order)
          /\ (\A x \in DOMAIN inputs : In(w.order, x)) \/ 2 * Len(w.order) + Len(w.open) = n

(* the formulas of a profile, as topoFormulas finds them *)
IsProfile(inputs, outputs, names) ==
    /\ \A o \in DOMAIN inputs : inputs[o] \in Seq(names)
    /\ outputs \in Seq(DOMAIN inputs)
    /\ \A o \in DOMAIN inputs : In(outputs, o)

(* what is left to do in the inputs of the last formula entered, or in all *)
Wanted(inputs, outputs, w) == IF w.open = <<>> THEN outputs ELSE inputs[w.open[Len(w.open)]]
Ready(inputs, outputs, w) ==
    \A i \in DOMAIN Wanted(inputs, outputs, w) :
        Wanted(inputs, outputs, w)[i] \in DOMAIN inputs => In(w.order, Wanted(inputs, outputs, w)[i])

LEMMA Visits ==
    ASSUME NEW inputs, NEW outputs, NEW names, IsProfile(inputs, outputs, names),
           NEW w \in [open : Seq(DOMAIN inputs), order : Seq(DOMAIN inputs), cycle : BOOLEAN]
    PROVE  LET after == Attribute!Visit(inputs, outputs, w)
               ready == Ready(inputs, outputs, w)
           IN  \/ w.cycle /\ after = w
               \/ ready /\ w.open = <<>> /\ after = w
               \/ /\ ~w.cycle /\ ready /\ w.open # <<>>
                  /\ after = [open |-> SubSeq(w.open, 1, Len(w.open) - 1),
                              order |-> Append(w.order, w.open[Len(w.open)]), cycle |-> FALSE]
               \/ ~w.cycle /\ after = [w EXCEPT !.cycle = TRUE]
               \/ \E x \in DOMAIN inputs :
                     /\ ~w.cycle /\ ~In(w.order, x) /\ ~In(w.open, x)
                     /\ after = [open |-> Append(w.open, x), order |-> w.order, cycle |-> FALSE]
<1> DEFINE wanted == Wanted(inputs, outputs, w)
           left == {i \in DOMAIN wanted : wanted[i] \in DOMAIN inputs \ Attribute!Range(w.order)}
           first == wanted[CHOOSE i \in left : \A j \in left : i <= j]
<1>1. w.open \in Seq(DOMAIN inputs) /\ w.order \in Seq(DOMAIN inputs) /\ w.cycle \in BOOLEAN
      /\ w = [open |-> w.open, order |-> w.order, cycle |-> w.cycle]
  OBVIOUS
<1>2. \A x : x \in Attribute!Range(w.order) <=> In(w.order, x)  BY <1>1 DEF Attribute!Range, In
<1>3. \A x : x \in Attribute!Range(w.open) <=> In(w.open, x)  BY <1>1 DEF Attribute!Range, In
<1>4. left = {} <=> Ready(inputs, outputs, w)  BY <1>2 DEF Ready
<1>5. wanted = IF w.open = <<>> THEN outputs ELSE inputs[w.open[Len(w.open)]]
  BY DEF Wanted
<1>7. Attribute!Visit(inputs, outputs, w)
        = IF w.cycle \/ (left = {} /\ w.open = <<>>) THEN w
          ELSE IF left = {} THEN [w EXCEPT !.open = SubSeq(@, 1, Len(w.open) - 1), !.order = Append(@, w.open[Len(w.open)])]
          ELSE IF first \in Attribute!Range(w.open) THEN [w EXCEPT !.cycle = TRUE]
          ELSE [w EXCEPT !.open = Append(@, first)]
  BY <1>5 DEF Attribute!Visit
<1>8. left # {} => first \in DOMAIN inputs /\ ~In(w.order, first)
  <2> SUFFICES ASSUME left # {} PROVE first \in DOMAIN inputs /\ ~In(w.order, first)  OBVIOUS
  <2>1. wanted \in Seq(DOMAIN inputs) \/ wanted \in Seq(names)
    BY <1>1 DEF Wanted, IsProfile
  <2>2. left \in SUBSET Nat  BY <2>1
  <2>3. \E i \in left : \A j \in left : i <= j  BY <2>2, LeastOf
  <2>4. (CHOOSE i \in left : \A j \in left : i <= j) \in left  BY <2>3
  <2> HIDE DEF wanted
  <2>5. first \in DOMAIN inputs /\ first \notin Attribute!Range(w.order)  BY <2>4
  <2> QED  BY <2>5, <1>2
<1> HIDE DEF wanted, left, first
<1>9. CASE w.cycle  BY <1>7, <1>9
<1>10. CASE ~w.cycle /\ left = {} /\ w.open = <<>>  BY <1>4, <1>7, <1>10
<1>11. CASE ~w.cycle /\ left = {} /\ w.open # <<>>
  <2>1. Attribute!Visit(inputs, outputs, w)
          = [w EXCEPT !.open = SubSeq(@, 1, Len(w.open) - 1), !.order = Append(@, w.open[Len(w.open)])]
    BY <1>7, <1>11
  <2>2. Attribute!Visit(inputs, outputs, w)
          = [open |-> SubSeq(w.open, 1, Len(w.open) - 1),
             order |-> Append(w.order, w.open[Len(w.open)]), cycle |-> FALSE]
    BY <1>1, <1>11, <2>1
  <2> QED  BY <1>4, <1>11, <2>2
<1>12. CASE ~w.cycle /\ left # {} /\ first \in Attribute!Range(w.open)  BY <1>7, <1>12
<1>13. CASE ~w.cycle /\ left # {} /\ first \notin Attribute!Range(w.open)
  <2>1. Attribute!Visit(inputs, outputs, w) = [w EXCEPT !.open = Append(@, first)]  BY <1>7, <1>13
  <2>2. Attribute!Visit(inputs, outputs, w) = [open |-> Append(w.open, first), order |-> w.order, cycle |-> FALSE]
    BY <1>1, <1>13, <2>1
  <2> QED  BY <1>3, <1>8, <1>13, <2>2
<1> QED  BY <1>9, <1>10, <1>11, <1>12, <1>13

LEMMA OneMore ==
    ASSUME NEW a \in Nat, NEW b \in Nat, NEW c, c = b + 1, NEW n \in Nat, 2 * a + b = n
    PROVE  2 * a + c = n + 1
OBVIOUS

LEMMA AllThere ==
    ASSUME NEW a \in Nat, NEW b \in Nat, NEW c \in Nat, NEW n \in Nat, 2 * a + b = 2 * n, a + b <= c, c <= n
    PROVE  a = c
OBVIOUS

LEMMA VisitReaches ==
    ASSUME NEW inputs, NEW outputs, NEW names, IsProfile(inputs, outputs, names),
           NEW w, NEW n \in Nat, Reached(inputs, w, n)
    PROVE  Reached(inputs, Attribute!Visit(inputs, outputs, w), n + 1)
<1> DEFINE after == Attribute!Visit(inputs, outputs, w)
           ready == Ready(inputs, outputs, w)
           D == DOMAIN inputs
<1>1. w \in [open : Seq(D), order : Seq(D), cycle : BOOLEAN]  BY DEF Reached
<1>2. w.open \in Seq(D) /\ w.order \in Seq(D) /\ Len(w.open) \in Nat /\ Len(w.order) \in Nat  BY <1>1
<1>3. \/ w.cycle /\ after = w
      \/ ready /\ w.open = <<>> /\ after = w
      \/ /\ ~w.cycle /\ ready /\ w.open # <<>>
         /\ after = [open |-> SubSeq(w.open, 1, Len(w.open) - 1),
                     order |-> Append(w.order, w.open[Len(w.open)]), cycle |-> FALSE]
      \/ ~w.cycle /\ after = [w EXCEPT !.cycle = TRUE]
      \/ \E x \in D :
            /\ ~w.cycle /\ ~In(w.order, x) /\ ~In(w.open, x)
            /\ after = [open |-> Append(w.open, x), order |-> w.order, cycle |-> FALSE]
  BY <1>1, Visits
<1> SUFFICES Reached(inputs, after, n + 1)  OBVIOUS
<1> HIDE DEF after, ready
<1>4. CASE w.cycle /\ after = w  BY <1>1, <1>4 DEF Reached
<1>5. CASE ready /\ w.open = <<>> /\ after = w
  <2>1. \A x \in D : In(w.order, x)
    <3> SUFFICES ASSUME NEW x \in D PROVE In(w.order, x)  OBVIOUS
    <3>1. PICK i \in 1..Len(outputs) : outputs[i] = x  BY DEF IsProfile, In
    <3>2. outputs \in Seq(D)  BY DEF IsProfile
    <3> QED  BY <1>5, <3>1, <3>2 DEF ready, Ready, Wanted
  <2> QED  BY <1>5, <2>1 DEF Reached
<1>6. CASE ~w.cycle /\ after = [w EXCEPT !.cycle = TRUE]
  <2>1. after \in [open : Seq(D), order : Seq(D), cycle : BOOLEAN] /\ after.cycle  BY <1>1, <1>6
  <2> QED  BY <2>1 DEF Reached
<1>7. CASE /\ ~w.cycle /\ ready /\ w.open # <<>>
           /\ after = [open |-> SubSeq(w.open, 1, Len(w.open) - 1),
                       order |-> Append(w.order, w.open[Len(w.open)]), cycle |-> FALSE]
  <2> DEFINE o == w.open
             top == w.open[Len(w.open)]
             front == SubSeq(w.open, 1, Len(w.open) - 1)
             order == Append(w.order, top)
  <2>1. Len(o) \in Nat \ {0} /\ top \in D /\ In(o, top)  BY <1>2, <1>7 DEF In
  <2>2. /\ front \in Seq(D) /\ Len(front) = Len(o) - 1 /\ \A i \in 1..Len(front) : front[i] = o[i]
    BY <1>2, <2>1
  <2>3. /\ order \in Seq(D) /\ Len(order) = Len(w.order) + 1 /\ order[Len(order)] = top
        /\ \A i \in 1..Len(w.order) : order[i] = w.order[i]
    BY <1>2, <2>1
  <2>4. /\ Distinct(o) /\ Distinct(w.order) /\ \A x \in D : ~(In(o, x) /\ In(w.order, x))
        /\ Topological(inputs, w.order)
        /\ (\A x \in D : In(w.order, x)) \/ 2 * Len(w.order) + Len(o) = n
    BY <1>7 DEF Reached
  <2>5. ~In(w.order, top) /\ 2 * Len(w.order) + Len(o) = n  BY <2>1, <2>4
  <2> HIDE DEF front, order, top, o
  <2>6. Distinct(front)  BY <1>2, <2>1, <2>2, <2>4, SMTT(40) DEF Distinct, o
  <2>7. Distinct(order)  BY <1>2, <2>3, <2>4, <2>5, SMTT(40) DEF Distinct, In
  <2>8. \A x \in D : ~(In(front, x) /\ In(order, x))
    <3> SUFFICES ASSUME NEW x \in D, In(front, x), In(order, x) PROVE FALSE  OBVIOUS
    <3>1. PICK i \in 1..Len(front) : front[i] = x  BY DEF In
    <3>2. i \in 1..Len(o) /\ o[i] = x /\ i # Len(o)  BY <2>1, <2>2, <3>1
    <3>3. In(o, x)  BY <3>2 DEF In
    <3>4. x # top  BY <2>1, <2>4, <3>2 DEF Distinct, top, o
    <3>5. In(w.order, x)  BY <1>2, <2>3, <3>4, SMTT(40) DEF In
    <3> QED  BY <2>4, <3>3, <3>5
  <2>9. Topological(inputs, order)
    <3> SUFFICES ASSUME NEW i \in 1..Len(order), NEW j \in DOMAIN inputs[order[i]], inputs[order[i]][j] \in D
                 PROVE  \E k \in 1..(i - 1) : order[k] = inputs[order[i]][j]
      BY DEF Topological
    <3>1. CASE i \in 1..Len(w.order)
      <4>1. PICK k \in 1..(i - 1) : w.order[k] = inputs[order[i]][j]  BY <2>3, <2>4, <3>1 DEF Topological
      <4> QED  BY <1>2, <2>3, <3>1, <4>1
    <3>2. CASE i = Len(order)
      <4>1. order[i] = top  BY <2>3, <3>2
      <4>2. In(w.order, inputs[top][j])  BY <1>7, <4>1 DEF ready, Ready, Wanted, top
      <4>3. PICK k \in 1..Len(w.order) : w.order[k] = inputs[top][j]  BY <4>2 DEF In
      <4>4. k \in 1..(i - 1) /\ order[k] = w.order[k]  BY <1>2, <2>3, <3>2
      <4> QED  BY <4>1, <4>3, <4>4
    <3> QED  BY <1>2, <2>3, <3>1, <3>2
  <2>10. 2 * Len(order) + Len(front) = n + 1
    <3>1. Len(order) = Len(w.order) + 1 /\ Len(front) = Len(o) - 1  BY <2>2, <2>3
    <3>2. Len(w.order) \in Nat /\ Len(o) \in Nat  BY <1>2, <2>1
    <3> QED  BY <2>5, <3>1, <3>2
  <2>11. after.open = front /\ after.order = order /\ ~after.cycle
         /\ after \in [open : Seq(D), order : Seq(D), cycle : BOOLEAN]
    BY <1>7, <2>2, <2>3 DEF front, order, top
  <2> QED  BY <2>6, <2>7, <2>8, <2>9, <2>10, <2>11 DEF Reached
<1>8. ASSUME NEW x \in D, ~w.cycle, ~In(w.order, x), ~In(w.open, x),
             after = [open |-> Append(w.open, x), order |-> w.order, cycle |-> FALSE]
      PROVE  Reached(inputs, after, n + 1)
  <2> DEFINE path == Append(w.open, x)
  <2>1. /\ path \in Seq(D) /\ Len(path) = Len(w.open) + 1 /\ path[Len(path)] = x
        /\ \A i \in 1..Len(w.open) : path[i] = w.open[i]
    BY <1>2
  <2>2. /\ Distinct(w.open) /\ Distinct(w.order) /\ \A y \in D : ~(In(w.open, y) /\ In(w.order, y))
        /\ Topological(inputs, w.order) /\ 2 * Len(w.order) + Len(w.open) = n
    BY <1>8 DEF Reached
  <2> HIDE DEF path
  <2>0. ~In(w.order, x) /\ ~In(w.open, x) /\ Len(w.open) \in Nat /\ Len(w.order) \in Nat  BY <1>2, <1>8
  <2>a. \A i \in 1..Len(path) : i = Len(path) \/ (i \in 1..Len(w.open) /\ path[i] = w.open[i])  BY <2>0, <2>1
  <2>3. Distinct(path)
    <3>1. \A i \in 1..Len(w.open) : path[i] # x  BY <2>0, <2>1 DEF In
    <3> QED  BY <2>0, <2>1, <2>2, <2>a, <3>1 DEF Distinct
  <2>4. \A y \in D : ~(In(path, y) /\ In(w.order, y))  BY <2>0, <2>1, <2>2, <2>a DEF In
  <2>5. 2 * Len(w.order) + Len(path) = n + 1
    <3>1. Len(path) = Len(w.open) + 1 /\ 2 * Len(w.order) + Len(w.open) = n  BY <2>1, <2>2
    <3>2. Len(w.open) \in Nat /\ Len(w.order) \in Nat  BY <2>0
    <3> DEFINE a == Len(w.order)
               b == Len(w.open)
               c == Len(path)
    <3>3. a \in Nat /\ b \in Nat /\ c = b + 1 /\ 2 * a + b = n  BY <3>1, <3>2
    <3> HIDE DEF a, b, c
    <3>4. 2 * a + c = n + 1  BY <3>3
    <3> QED  BY <3>4 DEF a, b, c
  <2>b. after = [open |-> path, order |-> w.order, cycle |-> FALSE]  BY <1>8 DEF path
  <2>6. after.open = path /\ after.order = w.order /\ ~after.cycle
        /\ after \in [open : Seq(D), order : Seq(D), cycle : BOOLEAN]
    BY <1>2, <2>1, <2>b
  <2> QED  BY <2>2, <2>3, <2>4, <2>5, <2>6 DEF Reached
<1> QED  BY <1>3, <1>4, <1>5, <1>6, <1>7, <1>8

Begun == [open |-> <<>>, order |-> <<>>, cycle |-> FALSE]

IsWalk(inputs, outputs, w, m) ==
    w = [n \in 0..m |-> IF n = 0 THEN Begun ELSE Attribute!Visit(inputs, outputs, w[n - 1])]

LEMMA WalkExists ==
    ASSUME NEW inputs, NEW outputs, NEW m \in Nat
    PROVE  \E w : IsWalk(inputs, outputs, w, m)
<1> DEFINE V(x) == Attribute!Visit(inputs, outputs, x)
           Is(w, k) == w = [n \in 0..k |-> IF n = 0 THEN Begun ELSE V(w[n - 1])]
           Bad == {k \in Nat : ~ \E w : Is(w, k)}
<1> HIDE DEF V
<1> SUFFICES ASSUME Bad # {} PROVE FALSE  BY DEF V, IsWalk
<1>1. PICK k \in Bad : \A j \in Bad : k <= j  BY LeastOf
<1>2. Is([n \in 0..0 |-> Begun], 0)  OBVIOUS
<1>3. k \in Nat /\ k # 0  BY <1>2
<1>4. k - 1 \in Nat /\ k - 1 \notin Bad
  <2>1. \A j \in Bad : k <= j  BY <1>1
  <2> HIDE DEF Bad
  <2> QED  BY <1>3, <2>1
<1>5. PICK w : Is(w, k - 1)  BY <1>4
<1> DEFINE more == [n \in 0..k |-> IF n = 0 THEN Begun ELSE V(w[n - 1])]
<1>6. \A n \in 0..(k - 1) : more[n] = w[n]
  <2> SUFFICES ASSUME NEW n \in 0..(k - 1) PROVE more[n] = w[n]  OBVIOUS
  <2>1. n \in 0..k  BY <1>3
  <2>2. more[n] = IF n = 0 THEN Begun ELSE V(w[n - 1])  BY <2>1
  <2>3. w[n] = IF n = 0 THEN Begun ELSE V(w[n - 1])  BY <1>5
  <2> QED  BY <2>2, <2>3
<1>7. \A n \in 0..k : n # 0 => n - 1 \in 0..(k - 1)  BY <1>3
<1>8. Is(more, k)
  <2>1. \A n \in 0..k : (IF n = 0 THEN Begun ELSE V(w[n - 1])) = (IF n = 0 THEN Begun ELSE V(more[n - 1]))
    BY <1>6, <1>7
  <2> QED  BY <2>1
<1> QED  BY <1>1, <1>8

LEMMA WalkIs ==
    ASSUME NEW inputs, NEW outputs, Len(outputs) \in Nat
    PROVE  LET walk == Attribute!Walk(inputs, outputs)
           IN  /\ walk[0] = Begun
               /\ \A n \in 1..(2 * Len(outputs)) : walk[n] = Attribute!Visit(inputs, outputs, walk[n - 1])
<1> DEFINE walk == Attribute!Walk(inputs, outputs)
           V(x) == Attribute!Visit(inputs, outputs, x)
           m == 2 * Len(outputs)
<1>1. m \in Nat  OBVIOUS
<1>2. walk = [n \in 0..m |-> IF n = 0 THEN Begun ELSE V(walk[n - 1])]
  <2>1. \E w : IsWalk(inputs, outputs, w, m)  BY <1>1, WalkExists
  <2> QED  BY <2>1 DEF Attribute!Walk, Begun, IsWalk
<1> HIDE DEF walk, V, m
<1>3. 0 \in 0..m /\ \A n \in 1..m : n \in 0..m /\ n # 0  BY <1>1
<1>4. walk[0] = Begun  BY <1>2, <1>3
<1>5. \A n \in 1..m : walk[n] = V(walk[n - 1])  BY <1>2, <1>3
<1> QED  BY <1>4, <1>5 DEF walk, V, m

LEMMA WalkReaches ==
    ASSUME NEW inputs, NEW outputs, NEW names, IsProfile(inputs, outputs, names)
    PROVE  Reached(inputs, Attribute!Walk(inputs, outputs)[2 * Len(outputs)], 2 * Len(outputs))
<1> DEFINE walk == Attribute!Walk(inputs, outputs)
           m == 2 * Len(outputs)
           Bad == {n \in 0..m : ~Reached(inputs, walk[n], n)}
<1>1. Len(outputs) \in Nat /\ m \in Nat  BY DEF IsProfile
<1>2. /\ walk[0] = Begun
      /\ \A n \in 1..m : walk[n] = Attribute!Visit(inputs, outputs, walk[n - 1])
  BY <1>1, WalkIs
<1>3. Reached(inputs, Begun, 0)
  <2>1. <<>> \in Seq(DOMAIN inputs) /\ Len(<<>>) = 0  OBVIOUS
  <2> QED  BY <2>1 DEF Begun, Reached, Distinct, In, Topological
<1> HIDE DEF walk, m
<1> SUFFICES ASSUME Bad # {} PROVE FALSE  BY <1>1 DEF walk, m
<1>4. PICK n \in Bad : \A j \in Bad : n <= j
  <2>1. Bad \in SUBSET Nat  OBVIOUS
  <2> QED  BY <2>1, LeastOf
<1>5. n # 0 /\ n \in 1..m /\ n - 1 \in 0..m /\ n - 1 \in Nat  BY <1>1, <1>2, <1>3
<1>6. Reached(inputs, walk[n - 1], n - 1)
  <2>1. n - 1 \notin Bad  BY <1>4, <1>5
  <2> QED  BY <1>5, <2>1
<1>7. Reached(inputs, Attribute!Visit(inputs, outputs, walk[n - 1]), (n - 1) + 1)  BY <1>5, <1>6, VisitReaches
<1>8. (n - 1) + 1 = n  BY <1>5
<1> QED  BY <1>2, <1>5, <1>7, <1>8

(* Two sequences without a common element have no more elements than the   *)
(* set they are from.                                                      *)
LEMMA RoomFor ==
    ASSUME NEW D, IsFiniteSet(D), NEW s \in Seq(D), NEW t \in Seq(D), Distinct(s), Distinct(t),
           \A x \in D : ~(In(s, x) /\ In(t, x))
    PROVE  Len(s) + Len(t) <= Cardinality(D)
<1> DEFINE a == Len(s)
           b == Len(t)
           f == [i \in 1..(a + b) |-> IF i <= a THEN s[i] ELSE t[i - a]]
<1>1. a \in Nat /\ b \in Nat  OBVIOUS
<1>2. \A i \in 1..(a + b) : i <= a \/ i - a \in 1..b  BY <1>1
<1>3. f \in [1..(a + b) -> D]  BY <1>1, <1>2
<1>4. ASSUME NEW i \in 1..(a + b), NEW j \in 1..(a + b), f[i] = f[j] PROVE i = j
  <2>1. CASE i <= a /\ j <= a
    <3>1. s[i] = s[j] /\ i \in 1..a /\ j \in 1..a  BY <1>1, <1>4, <2>1
    <3> QED  BY <3>1 DEF Distinct
  <2>2. CASE ~(i <= a) /\ ~(j <= a)
    <3>1. t[i - a] = t[j - a] /\ i - a \in 1..b /\ j - a \in 1..b  BY <1>1, <1>2, <1>4, <2>2
    <3>2. i - a = j - a  BY <3>1 DEF Distinct
    <3> QED  BY <1>1, <3>2
  <2>3. CASE i <= a /\ ~(j <= a)
    <3>1. s[i] = t[j - a] /\ i \in 1..a /\ j - a \in 1..b  BY <1>1, <1>2, <1>4, <2>3
    <3>2. In(s, s[i]) /\ In(t, s[i]) /\ s[i] \in D  BY <3>1 DEF In
    <3> QED  BY <3>2
  <2>4. CASE ~(i <= a) /\ j <= a
    <3>1. s[j] = t[i - a] /\ j \in 1..a /\ i - a \in 1..b  BY <1>1, <1>2, <1>4, <2>4
    <3>2. In(s, s[j]) /\ In(t, s[j]) /\ s[j] \in D  BY <3>1 DEF In
    <3> QED  BY <3>2
  <2> QED  BY <2>1, <2>2, <2>3, <2>4
<1>5. f \in Injection(1..(a + b), D)  BY <1>3, <1>4 DEF Injection, IsInjective
<1>6. Cardinality(1..(a + b)) <= Cardinality(D)  BY <1>5, FS_Injection
<1>7. Cardinality(1..(a + b)) = a + b  BY <1>1, FS_Interval
<1> QED  BY <1>6, <1>7

(* A sequence without repetition that is as long as the set is large holds *)
(* all of it.                                                              *)
LEMMA FullRow ==
    ASSUME NEW D, IsFiniteSet(D), NEW s \in Seq(D), Distinct(s), Len(s) = Cardinality(D), NEW x \in D
    PROVE  In(s, x)
<1>1. s \in [1..Len(s) -> D] /\ Len(s) \in Nat  OBVIOUS
<1>2. s \in Injection(1..Len(s), D)  BY <1>1 DEF Injection, IsInjective, Distinct
<1>3. Cardinality(1..Len(s)) = Len(s)  BY <1>1, FS_Interval
<1>4. s \in Surjection(1..Len(s), D)  BY <1>2, <1>3, FS_Injection
<1> QED  BY <1>1, <1>4 DEF Surjection, In

LEMMA Covered ==
    ASSUME NEW D, NEW s \in Seq(D), \A x \in D : In(s, x)
    PROVE  IsFiniteSet(D) /\ Cardinality(D) <= Len(s) /\ Cardinality(D) \in Nat
<1>1. s \in [1..Len(s) -> D] /\ Len(s) \in Nat  OBVIOUS
<1>2. s \in Surjection(1..Len(s), D)  BY <1>1 DEF Surjection, In
<1>3. IsFiniteSet(1..Len(s)) /\ Cardinality(1..Len(s)) = Len(s)
  <2>1. 1 \in Int /\ Len(s) \in Int  BY <1>1
  <2>2. IsFiniteSet(1..Len(s)) /\ Cardinality(1..Len(s)) = IF 1 > Len(s) THEN 0 ELSE Len(s) - 1 + 1
    BY <2>1, FS_Interval
  <2> QED  BY <1>1, <2>2
<1>4. IsFiniteSet(D) /\ Cardinality(D) <= Len(s)  BY <1>2, <1>3, FS_Surjection
<1> QED  BY <1>4, FS_CardinalityType

(* Unless there is a cycle the order has every formula, once, each behind  *)
(* those of its inputs.                                                    *)
LEMMA OrderComplete ==
    ASSUME NEW inputs, NEW outputs, NEW names, IsProfile(inputs, outputs, names),
           ~Attribute!Walk(inputs, outputs)[2 * Len(outputs)].cycle
    PROVE  LET order == Attribute!Walk(inputs, outputs)[2 * Len(outputs)].order
           IN  /\ order \in Seq(DOMAIN inputs) /\ Distinct(order) /\ Topological(inputs, order)
               /\ \A x \in DOMAIN inputs : In(order, x)
<1> DEFINE w == Attribute!Walk(inputs, outputs)[2 * Len(outputs)]
           D == DOMAIN inputs
           N == Len(outputs)
<1>1. Reached(inputs, w, 2 * N)  BY WalkReaches
<1> HIDE DEF w
<1>2. w.open \in Seq(D) /\ w.order \in Seq(D)  BY <1>1 DEF Reached
<1>3. /\ Distinct(w.open) /\ Distinct(w.order) /\ \A x \in D : ~(In(w.open, x) /\ In(w.order, x))
      /\ Topological(inputs, w.order)
      /\ (\A x \in D : In(w.order, x)) \/ 2 * Len(w.order) + Len(w.open) = 2 * N
  BY <1>1 DEF Reached, w
<1>4. IsFiniteSet(D) /\ Cardinality(D) <= N /\ Cardinality(D) \in Nat /\ N \in Nat
  BY Covered DEF IsProfile
<1>5. ASSUME 2 * Len(w.order) + Len(w.open) = 2 * N PROVE \A x \in D : In(w.order, x)
  <2>1. Len(w.order) + Len(w.open) <= Cardinality(D)  BY <1>2, <1>3, <1>4, RoomFor
  <2>2. Len(w.order) \in Nat /\ Len(w.open) \in Nat  BY <1>2
  <2>3. Len(w.order) = Cardinality(D)  BY <1>4, <1>5, <2>1, <2>2, AllThere
  <2> QED  BY <1>2, <1>3, <1>4, <2>3, FullRow
<1> QED  BY <1>2, <1>3, <1>5 DEF w

-----------------------------------------------------------------------------
(***************************************************************************)
(* attribute: Update. A value is either what it was before the change or   *)
(* marked, and what comes later in the order is not marked yet: a formula  *)
(* that is skipped has inputs that did not change.                         *)
(***************************************************************************)
LEMMA SameValue ==
    ASSUME NEW inputs, NEW u, NEW v, \A i \in DOMAIN inputs : u[inputs[i]] = v[inputs[i]]
    PROVE  Attribute!FormulaValue(inputs, u) = Attribute!FormulaValue(inputs, v)
<1>1. [i \in DOMAIN inputs |-> u[inputs[i]]] = [i \in DOMAIN inputs |-> v[inputs[i]]]  OBVIOUS
<1> QED  BY <1>1 DEF Attribute!FormulaValue

IsUpdated(content, state, s, m) ==
    s = [n \in 0..m |-> IF n = 0 THEN state ELSE Attribute!Recompute(content, s[n - 1], content.order[n])]

LEMMA UpdatedExists ==
    ASSUME NEW content, NEW state, NEW m \in Nat
    PROVE  \E s : IsUpdated(content, state, s, m)
<1> DEFINE R(x, n) == Attribute!Recompute(content, x, content.order[n])
           Is(s, k) == s = [n \in 0..k |-> IF n = 0 THEN state ELSE R(s[n - 1], n)]
           Bad == {k \in Nat : ~ \E s : Is(s, k)}
<1> HIDE DEF R
<1> SUFFICES ASSUME Bad # {} PROVE FALSE  BY DEF R, IsUpdated
<1>1. PICK k \in Bad : \A j \in Bad : k <= j  BY LeastOf
<1>2. Is([n \in 0..0 |-> state], 0)  OBVIOUS
<1>3. k \in Nat /\ k # 0  BY <1>2
<1>4. k - 1 \in Nat /\ k - 1 \notin Bad
  <2>1. \A j \in Bad : k <= j  BY <1>1
  <2> HIDE DEF Bad
  <2> QED  BY <1>3, <2>1
<1>5. PICK s : Is(s, k - 1)  BY <1>4
<1> DEFINE more == [n \in 0..k |-> IF n = 0 THEN state ELSE R(s[n - 1], n)]
<1>6. \A n \in 0..(k - 1) : more[n] = s[n]
  <2> SUFFICES ASSUME NEW n \in 0..(k - 1) PROVE more[n] = s[n]  OBVIOUS
  <2>1. n \in 0..k  BY <1>3
  <2>2. more[n] = IF n = 0 THEN state ELSE R(s[n - 1], n)  BY <2>1
  <2>3. s[n] = IF n = 0 THEN state ELSE R(s[n - 1], n)  BY <1>5
  <2> QED  BY <2>2, <2>3
<1>7. \A n \in 0..k : n # 0 => n - 1 \in 0..(k - 1)  BY <1>3
<1>8. Is(more, k)
  <2>1. \A n \in 0..k : (IF n = 0 THEN state ELSE R(s[n - 1], n)) = (IF n = 0 THEN state ELSE R(more[n - 1], n))
    BY <1>6, <1>7
  <2> QED  BY <2>1
<1> QED  BY <1>1, <1>8

LEMMA UpdatedIs ==
    ASSUME NEW content, NEW state, Len(content.order) \in Nat
    PROVE  LET after == Attribute!Updated(content, state)
           IN  /\ after[0] = state
               /\ \A n \in 1..Len(content.order) :
                     after[n] = Attribute!Recompute(content, after[n - 1], content.order[n])
<1> DEFINE after == Attribute!Updated(content, state)
           R(x, n) == Attribute!Recompute(content, x, content.order[n])
           m == Len(content.order)
<1>1. m \in Nat  OBVIOUS
<1>2. after = [n \in 0..m |-> IF n = 0 THEN state ELSE R(after[n - 1], n)]
  <2>1. \E s : IsUpdated(content, state, s, m)  BY <1>1, UpdatedExists
  <2> QED  BY <2>1 DEF Attribute!Updated, IsUpdated
<1> HIDE DEF after, R, m
<1>3. 0 \in 0..m /\ \A n \in 1..m : n \in 0..m /\ n # 0  BY <1>1
<1>4. after[0] = state  BY <1>2, <1>3
<1>5. \A n \in 1..m : after[n] = R(after[n - 1], n)  BY <1>2, <1>3
<1> QED  BY <1>4, <1>5 DEF after, R, m

(* the formulas of a content, in their order, on the given fields *)
WellOrdered(content, fields) ==
    /\ DOMAIN content.inputs \subseteq fields
    /\ \A o \in DOMAIN content.inputs : content.inputs[o] \in Seq(fields)
    /\ content.order \in Seq(DOMAIN content.inputs) /\ Distinct(content.order)
    /\ Topological(content.inputs, content.order)
    /\ \A o \in DOMAIN content.inputs : In(content.order, o)

(* in step before the change, and after the first n formulas *)
Midway(content, fields, before, s, n) ==
    /\ s.values = [x \in fields |-> s.values[x]]
    /\ \A i \in 1..n :
          s.values[content.order[i]] = Attribute!FormulaValue(content.inputs[content.order[i]], s.values)
    /\ \A x \in fields \ s.dirty : s.values[x] = before[x]
    /\ \A i \in (n + 1)..Len(content.order) : content.order[i] \notin s.dirty

InStep(content, values) ==
    \A o \in DOMAIN content.inputs : values[o] = Attribute!FormulaValue(content.inputs[o], values)

LEMMA RecomputeKeeps ==
    ASSUME NEW content, NEW fields, WellOrdered(content, fields), NEW before, InStep(content, before),
           NEW n \in 1..Len(content.order), NEW s, Midway(content, fields, before, s, n - 1)
    PROVE  Midway(content, fields, before, Attribute!Recompute(content, s, content.order[n]), n)
<1> DEFINE order == content.order
           target == order[n]
           inputs == content.inputs[target]
           next == Attribute!FormulaValue(inputs, s.values)
           after == Attribute!Recompute(content, s, target)
           L == Len(order)
<1>1. order \in Seq(DOMAIN content.inputs) /\ L \in Nat /\ n \in Nat /\ n # 0
      /\ \A i \in 1..L : order[i] \in DOMAIN content.inputs /\ order[i] \in fields
  BY DEF WellOrdered
<1>2. target \in DOMAIN content.inputs /\ target \in fields /\ inputs \in Seq(fields)  BY <1>1 DEF WellOrdered
<1>3. \A i, j \in 1..L : order[i] = order[j] => i = j  BY DEF WellOrdered, Distinct
<1>4. \A i \in 1..n : \A j \in DOMAIN content.inputs[order[i]] : content.inputs[order[i]][j] # target
  <2> SUFFICES ASSUME NEW i \in 1..n, NEW j \in DOMAIN content.inputs[order[i]], content.inputs[order[i]][j] = target
               PROVE FALSE
    OBVIOUS
  <2>1. i \in 1..L  BY <1>1
  <2>2. PICK k \in 1..(i - 1) : order[k] = target
    <3>1. Topological(content.inputs, order)  BY DEF WellOrdered
    <3>2. \A h \in DOMAIN content.inputs[order[i]] :
             content.inputs[order[i]][h] \in DOMAIN content.inputs =>
                \E k \in 1..(i - 1) : order[k] = content.inputs[order[i]][h]
      BY <3>1, <2>1 DEF Topological
    <3> HIDE DEF order, target, inputs
    <3> QED  BY <3>2, <1>2
  <2>3. k \in 1..L /\ k # n  BY <1>1, <2>1
  <2> QED  BY <2>2, <2>3, <1>3
<1>5. /\ s.values = [x \in fields |-> s.values[x]]
      /\ \A i \in 1..(n - 1) : s.values[order[i]] = Attribute!FormulaValue(content.inputs[order[i]], s.values)
      /\ \A x \in fields \ s.dirty : s.values[x] = before[x]
      /\ \A i \in n..L : order[i] \notin s.dirty
  BY <1>1 DEF Midway
<1>6. target \notin s.dirty /\ s.values[target] = before[target]  BY <1>1, <1>2, <1>5
<1>7. \/ after = s /\ \A i \in DOMAIN inputs : inputs[i] \notin s.dirty
      \/ after = s /\ s.values[target] = next
      \/ after = [values |-> [s.values EXCEPT ![target] = next], dirty |-> s.dirty \union {target}]
  BY DEF Attribute!Recompute, Attribute!SetField, Attribute!Range
<1> SUFFICES Midway(content, fields, before, after, n)  OBVIOUS
<1> HIDE DEF after, next
<1>8. CASE after = s /\ s.values[target] = next
  <2>1. \A i \in 1..n : s.values[order[i]] = Attribute!FormulaValue(content.inputs[order[i]], s.values)
    <3>1. \A i \in 1..n : i = n \/ i \in 1..(n - 1)  BY <1>1
    <3> QED  BY <1>5, <1>8, <3>1 DEF next
  <2>2. \A i \in (n + 1)..L : order[i] \notin s.dirty
    <3>1. \A i \in (n + 1)..L : i \in n..L  BY <1>1
    <3> QED  BY <1>5, <3>1
  <2> QED  BY <1>5, <1>8, <2>1, <2>2 DEF Midway
<1>9. CASE after = s /\ \A i \in DOMAIN inputs : inputs[i] \notin s.dirty
  <2>1. \A i \in DOMAIN inputs : s.values[inputs[i]] = before[inputs[i]]
    <3>1. \A i \in DOMAIN inputs : inputs[i] \in fields  BY <1>2
    <3> QED  BY <1>5, <1>9, <3>1
  <2>2. next = Attribute!FormulaValue(inputs, before)  BY <2>1, SameValue DEF next
  <2>3. s.values[target] = next  BY <1>2, <1>6, <2>2 DEF InStep
  <2> QED  BY <1>8, <1>9, <2>3
<1>10. CASE after = [values |-> [s.values EXCEPT ![target] = next], dirty |-> s.dirty \union {target}]
  <2> DEFINE v == [s.values EXCEPT ![target] = next]
  <2>1. after.values = v /\ after.dirty = s.dirty \union {target}  BY <1>10
  <2>2. v = [x \in fields |-> v[x]] /\ v[target] = next /\ \A x \in fields \ {target} : v[x] = s.values[x]
    BY <1>2, <1>5
  <2> HIDE DEF v
  <2>3. ASSUME NEW i \in 1..n
        PROVE  v[order[i]] = Attribute!FormulaValue(content.inputs[order[i]], v)
    <3> DEFINE ins == content.inputs[order[i]]
    <3>1. i \in 1..L /\ order[i] \in DOMAIN content.inputs /\ ins \in Seq(fields)  BY <1>1 DEF WellOrdered
    <3>2. \A j \in DOMAIN ins : ins[j] \in fields \ {target}  BY <1>4, <3>1
    <3>3. \A j \in DOMAIN ins : v[ins[j]] = s.values[ins[j]]  BY <2>2, <3>2
    <3>4. Attribute!FormulaValue(ins, v) = Attribute!FormulaValue(ins, s.values)  BY <3>3, SameValue
    <3>5. CASE i = n  BY <2>2, <3>4, <3>5 DEF next
    <3>6. CASE i # n
      <4>1. i \in 1..(n - 1) /\ n \in 1..L  BY <1>1, <3>6
      <4>2. order[i] # target /\ order[i] \in fields  BY <1>1, <1>3, <3>1, <3>6
      <4> QED  BY <1>5, <2>2, <3>4, <4>1, <4>2
    <3> QED  BY <3>5, <3>6
  <2>4. \A x \in fields \ after.dirty : v[x] = before[x]  BY <1>5, <2>1, <2>2
  <2>5. \A i \in (n + 1)..L : order[i] \notin after.dirty
    <3> SUFFICES ASSUME NEW i \in (n + 1)..L PROVE order[i] \notin after.dirty  OBVIOUS
    <3>1. i \in n..L /\ i \in 1..L /\ n \in 1..L /\ i # n  BY <1>1
    <3> QED  BY <1>3, <1>5, <2>1, <3>1
  <2> QED  BY <2>1, <2>2, <2>3, <2>4, <2>5 DEF Midway
<1> QED  BY <1>7, <1>8, <1>9, <1>10

LEMMA UpdateSettles ==
    ASSUME NEW content, NEW fields, WellOrdered(content, fields), NEW before, InStep(content, before),
           NEW state, Midway(content, fields, before, state, 0)
    PROVE  Attribute!Settled(content, Attribute!Update(content, state))
<1> DEFINE after == Attribute!Updated(content, state)
           L == Len(content.order)
           Bad == {n \in 0..L : ~Midway(content, fields, before, after[n], n)}
<1>1. L \in Nat  BY DEF WellOrdered
<1>2. /\ after[0] = state
      /\ \A n \in 1..L : after[n] = Attribute!Recompute(content, after[n - 1], content.order[n])
  BY <1>1, UpdatedIs
<1> HIDE DEF after
<1>3. Bad = {}
  <2> SUFFICES ASSUME Bad # {} PROVE FALSE  OBVIOUS
  <2>1. PICK n \in Bad : \A j \in Bad : n <= j
    <3>1. Bad \in SUBSET Nat  OBVIOUS
    <3> QED  BY <3>1, LeastOf
  <2>2. n # 0 /\ n \in 1..L /\ n - 1 \in 0..L  BY <1>1, <1>2
  <2>3. Midway(content, fields, before, after[n - 1], n - 1)
    <3>1. n - 1 \notin Bad  BY <2>1, <2>2
    <3> QED  BY <2>2, <3>1
  <2>4. Midway(content, fields, before, Attribute!Recompute(content, after[n - 1], content.order[n]), n)
    BY <2>2, <2>3, RecomputeKeeps
  <2> QED  BY <1>2, <2>2, <2>4
<1>4. Midway(content, fields, before, after[L], L)
  <2>1. L \in 0..L  BY <1>1
  <2> QED  BY <1>3, <2>1
<1>5. ASSUME NEW o \in DOMAIN content.inputs
      PROVE  after[L].values[o] = Attribute!FormulaValue(content.inputs[o], after[L].values)
  <2>1. PICK i \in DOMAIN content.order : content.order[i] = o
    BY DEF WellOrdered, In
  <2>2. i \in 1..L  BY DEF WellOrdered
  <2> QED  BY <1>4, <2>1, <2>2 DEF Midway
<1> QED  BY <1>5 DEF Attribute!Settled, Attribute!Update, after

(* the same for a sequence *)
LEMMA KeptSeq ==
    ASSUME NEW S, NEW seq \in Seq(S), NEW P \in SUBSET (DOMAIN seq)
    PROVE  /\ DOMAIN Kept(seq, P) = 1..Cardinality(P) /\ Cardinality(P) \in Nat
           /\ Kept(seq, P) = [n \in 1..Cardinality(P) |-> Kept(seq, P)[n]]
           /\ \A n \in DOMAIN Kept(seq, P) : \E i \in P : Kept(seq, P)[n] = seq[i]
           /\ \A i \in P : \E n \in DOMAIN Kept(seq, P) : Kept(seq, P)[n] = seq[i]
<1>1. DOMAIN seq = 1..Len(seq) /\ Len(seq) \in Nat  OBVIOUS
<1>2. IsFiniteSet(P)
  <2>1. 1 \in Int /\ Len(seq) \in Int  BY <1>1
  <2>2. IsFiniteSet(1..Len(seq))  BY <2>1, FS_Interval
  <2> QED  BY <1>1, <2>2, FS_Subset
<1>3. P \in SUBSET Int  BY <1>1
<1>4. /\ Cardinality(P) \in Nat
      /\ Kept(seq, P) = [n \in 1..Cardinality(P) |-> seq[Nth(P, n)]]
      /\ \A n \in 1..Cardinality(P) : Nth(P, n) \in P /\ Kept(seq, P)[n] = seq[Nth(P, n)]
      /\ \A i \in P : \E n \in 1..Cardinality(P) : Kept(seq, P)[n] = seq[i]
  BY <1>2, <1>3, KeptAre
<1> QED  BY <1>4

LEMMA AttributeKept ==
    \A seq, P : Attribute!Kept(seq, P) = Kept(seq, P)
<1>1. \A S : Attribute!Cardinality(S) = Cardinality(S)  BY DEF Cardinality, Attribute!Cardinality
<1>2. \A P, n : Attribute!Nth(P, n) = Nth(P, n)  BY <1>1 DEF Nth, Attribute!Nth
<1> QED  BY <1>1, <1>2 DEF Kept, Attribute!Kept

(* Fields and methods are lists, as Go's parser returns them. *)
Listed(profile) ==
    /\ profile.fields \in Seq(Range(profile.fields)) /\ profile.methods \in Seq(Range(profile.methods))
    /\ \A m \in Range(profile.methods) : m.params \in Seq(Range(m.params))

(* A profile the generator accepts is one the walk can order. *)
LEMMA ProfileIs ==
    ASSUME NEW profile, Listed(profile), Attribute!Claimed(profile), ~Attribute!Rejected(profile)
    PROVE  /\ IsProfile(Attribute!Inputs(profile), Attribute!Outputs(profile), Attribute!FieldNames(profile))
           /\ DOMAIN Attribute!Inputs(profile) \subseteq Attribute!FieldNames(profile)
<1> DEFINE F == Attribute!Fields(profile)
           M == Attribute!Formulas(profile)
           names == Attribute!FieldNames(profile)
           inputs == Attribute!Inputs(profile)
           called == [i \in DOMAIN F |-> F[i].name]
           marks == {i \in DOMAIN called : called[i] \in DOMAIN inputs}
<1>1. DOMAIN F = 1..Len(F) /\ Len(F) \in Nat
  <2> DEFINE P == {i \in DOMAIN profile.fields : profile.fields[i].exported /\ ~profile.fields[i].skip}
  <2>1. F = Kept(profile.fields, P)  BY AttributeKept DEF Attribute!Fields, Attribute!Select
  <2>2. P \in SUBSET DOMAIN profile.fields  OBVIOUS
  <2> HIDE DEF P, F
  <2>3. DOMAIN F = 1..Cardinality(P) /\ Cardinality(P) \in Nat
        /\ F = [n \in 1..Cardinality(P) |-> F[n]]
    BY <2>1, <2>2, KeptSeq DEF Listed
  <2>4. F \in Seq({F[n] : n \in 1..Cardinality(P)})  BY <2>3, RowOf
  <2> QED  BY <2>3, <2>4
<1>2. names = {F[i].name : i \in DOMAIN F}  BY DEF Attribute!FieldNames
<1>3. \A n \in DOMAIN M : \E m \in Range(profile.methods) : M[n] = m /\ m.out \in names
  <2> DEFINE P == {i \in DOMAIN profile.methods : profile.methods[i].out \in names}
  <2>1. M = Kept(profile.methods, P)  BY AttributeKept DEF Attribute!Formulas, Attribute!Select
  <2>2. P \in SUBSET DOMAIN profile.methods
        /\ \A i \in P : profile.methods[i].out \in names /\ profile.methods[i] \in Range(profile.methods)
    BY DEF Range
  <2> HIDE DEF P, M, names
  <2>3. \A n \in DOMAIN M : \E i \in P : M[n] = profile.methods[i]
    BY <2>1, <2>2, KeptSeq DEF Listed
  <2> QED  BY <2>2, <2>3
<1>4. ~Attribute!TopoFormulas(profile).cycle
      /\ \A n \in DOMAIN M : ~Attribute!BadFormula(profile, M[n])
  BY DEF Attribute!Rejected
<1>5. DOMAIN inputs = {M[i].out : i \in DOMAIN M}  BY DEF Attribute!Inputs
<1>6. ASSUME NEW o \in DOMAIN inputs PROVE inputs[o] \in Seq(names)
  <2> DEFINE m == CHOOSE f \in Attribute!Range(M) : f.out = o
  <2>1. inputs[o] = [i \in DOMAIN m.params |-> m.params[i].name]  BY DEF Attribute!Inputs
  <2>2. m \in Attribute!Range(M) /\ m.out = o
    <3>1. \E f \in Attribute!Range(M) : f.out = o  BY <1>5 DEF Attribute!Range
    <3> QED  BY <3>1
  <2> HIDE DEF m, M, names, inputs
  <2>3. PICK n \in DOMAIN M : m = M[n]  BY <2>2 DEF Attribute!Range
  <2>4. m.params \in Seq(Range(m.params))  BY <1>3, <2>3 DEF Listed
  <2>5. \A i \in DOMAIN m.params : m.params[i].name \in names
    BY <1>4, <2>3 DEF Attribute!BadFormula, Attribute!Range, names
  <2>6. DOMAIN m.params = 1..Len(m.params) /\ Len(m.params) \in Nat  BY <2>4
  <2>7. DOMAIN inputs[o] = 1..Len(m.params) /\ inputs[o] = [i \in 1..Len(m.params) |-> inputs[o][i]]
        /\ \A i \in 1..Len(m.params) : inputs[o][i] \in names
    BY <2>1, <2>5, <2>6
  <2> QED  BY <2>6, <2>7, RowOf
<1>7. DOMAIN inputs \subseteq names  BY <1>3, <1>5
<1>8. Attribute!Outputs(profile) = Kept(called, marks)
  BY AttributeKept DEF Attribute!Outputs, Attribute!Select, Attribute!Derived
<1>9. called \in Seq(names)  BY <1>1, <1>2, RowOf
<1> HIDE DEF F, M, names, inputs
<1>10. /\ Attribute!Outputs(profile) \in Seq(DOMAIN inputs)
       /\ \A o \in DOMAIN inputs : In(Attribute!Outputs(profile), o)
  <2> DEFINE kept == Kept(called, marks)
             m == Cardinality(marks)
  <2>1. /\ DOMAIN kept = 1..m /\ m \in Nat /\ kept = [n \in 1..m |-> kept[n]]
        /\ \A n \in DOMAIN kept : \E i \in marks : kept[n] = called[i]
        /\ \A i \in marks : \E n \in DOMAIN kept : kept[n] = called[i]
    <3>1. marks \in SUBSET (DOMAIN called)  OBVIOUS
    <3> HIDE DEF called, marks
    <3> QED  BY <1>9, <3>1, KeptSeq
  <2>2. \A i \in marks : called[i] \in DOMAIN inputs  OBVIOUS
  <2>3. \A o \in DOMAIN inputs : \E i \in marks : called[i] = o  BY <1>2, <1>7
  <2> HIDE DEF kept, m, called, marks
  <2>4. \A n \in 1..m : kept[n] \in DOMAIN inputs  BY <2>1, <2>2
  <2>5. kept \in Seq(DOMAIN inputs) /\ Len(kept) = m  BY <2>1, <2>4, RowOf
  <2>6. \A o \in DOMAIN inputs : In(kept, o)  BY <2>1, <2>3, <2>5 DEF In
  <2> QED  BY <1>8, <2>5, <2>6 DEF kept
<1> QED  BY <1>6, <1>7, <1>10 DEF IsProfile, names, inputs

LEMMA ContentOrdered ==
    ASSUME NEW profile, Listed(profile), Attribute!Claimed(profile), ~Attribute!Rejected(profile)
    PROVE  WellOrdered(Attribute!Content(profile), Attribute!FieldNames(profile))
<1> DEFINE inputs == Attribute!Inputs(profile)
           outputs == Attribute!Outputs(profile)
           names == Attribute!FieldNames(profile)
<1>1. IsProfile(inputs, outputs, names) /\ DOMAIN inputs \subseteq names  BY ProfileIs
<1>2. Attribute!TopoFormulas(profile) = Attribute!Walk(inputs, outputs)[2 * Len(outputs)]
  BY DEF Attribute!TopoFormulas
<1>3. ~Attribute!Walk(inputs, outputs)[2 * Len(outputs)].cycle  BY <1>2 DEF Attribute!Rejected
<1>4. Attribute!Content(profile).inputs = inputs
      /\ Attribute!Content(profile).order = Attribute!Walk(inputs, outputs)[2 * Len(outputs)].order
  BY <1>2 DEF Attribute!Content
<1> HIDE DEF inputs, outputs, names
<1>5. LET order == Attribute!Walk(inputs, outputs)[2 * Len(outputs)].order
      IN  /\ order \in Seq(DOMAIN inputs) /\ Distinct(order) /\ Topological(inputs, order)
          /\ \A x \in DOMAIN inputs : In(order, x)
  BY <1>1, <1>3, OrderComplete
<1> SUFFICES WellOrdered(Attribute!Content(profile), names)  BY DEF names
<1> QED  BY <1>1, <1>4, <1>5 DEF WellOrdered, IsProfile

(* Direct values given to a profile in step, and Update after them. *)
LEMMA LoadSettles ==
    ASSUME NEW content, NEW fields, WellOrdered(content, fields), NEW S, NEW values \in [fields -> S],
           Attribute!Settled(content, [values |-> values, dirty |-> {}]),
           NEW change, DOMAIN change \subseteq fields \ DOMAIN content.inputs
    PROVE  Attribute!Settled(content, Attribute!LoadValues(content, [values |-> values, dirty |-> {}], change))
<1> DEFINE state == [values |-> values, dirty |-> {}]
           set == {f \in DOMAIN change \ DOMAIN content.inputs : values[f] # change[f]}
           begun == Attribute!SetDirect(content, state, change)
<1>1. begun = [values |-> [f \in fields |-> IF f \in set THEN change[f] ELSE values[f]], dirty |-> set]
  BY DEF Attribute!SetDirect
<1>2. InStep(content, values)  BY DEF InStep, Attribute!Settled
<1>3. \A i \in 1..Len(content.order) : content.order[i] \in DOMAIN content.inputs  BY DEF WellOrdered
<1>4. set \intersect DOMAIN content.inputs = {}  OBVIOUS
<1> HIDE DEF begun, set
<1>5. Midway(content, fields, values, begun, 0)
  <2>1. begun.values = [x \in fields |-> begun.values[x]]  BY <1>1
  <2>2. \A x \in fields \ begun.dirty : begun.values[x] = values[x]  BY <1>1
  <2>3. \A i \in (0 + 1)..Len(content.order) : content.order[i] \notin begun.dirty  BY <1>1, <1>3, <1>4
  <2> QED  BY <2>1, <2>2, <2>3 DEF Midway
<1>6. Attribute!Settled(content, Attribute!Update(content, begun))  BY <1>2, <1>5, UpdateSettles
<1> QED  BY <1>6 DEF Attribute!LoadValues, begun

(* After a run that succeeded, what lies in the file of a profile is the  *)
(* content of that profile, and no accepted profile fails to settle.      *)
LEMMA ProfilesSettle == GenInv => AttributesSettle
<1> SUFFICES ASSUME GenInv, Ran("attribute"),
                    NEW profile \in {p \in Source("attribute") : Attribute!Claimed(p)}
             PROVE  LET content == At("attribute", <<profile.name>>)
                        fields  == {content.fields[i].name : i \in DOMAIN content.fields}
                        direct  == fields \ DOMAIN content.inputs
                    IN  \A values \in [fields -> 0..2] :
                           Attribute!Settled(content, [values |-> values, dirty |-> {}]) =>
                              \A given \in SUBSET direct : \A change \in [given -> 0..2] :
                                 Attribute!Settled(content,
                                    Attribute!LoadValues(content, [values |-> values, dirty |-> {}], change))
  BY DEF AttributesSettle
<1> DEFINE source == Source("attribute")
           content == At("attribute", <<profile.name>>)
           fields == {content.fields[i].name : i \in DOMAIN content.fields}
<1>1. "attribute" \in Names /\ Feature("attribute") = "attribute"  BY NamesAre DEF Feature
<1>2. Current("attribute", source, out) /\ ~Rejected("attribute", source, out)
  BY <1>1 DEF GenInv, AfterRun, Ran, Ended, Good
<1>3. Listed(profile) /\ \A p, q \in source : p.name = q.name => p = q
  <2>1. PICK v \in DOMAIN Declarations["attribute"] : source = Declarations["attribute"][v].source
    <3>1. TypeOK  BY DEF GenInv, Shape
    <3>2. Declared("attribute", source)  BY <1>1, <3>1, SourceDeclared
    <3> QED  BY <1>1, <3>2 DEF Declared
  <2>2. source \in Sources("attribute")  BY <2>1 DEF Sources, Range
  <2>3. profile \in source  OBVIOUS
  <2> HIDE DEF source
  <2>4. /\ \A p \in source : IsList(p.fields) /\ IsList(p.methods)
        /\ \A p \in source : \A m \in Range(p.methods) : IsList(m.params)
        /\ \A p, q \in source : p.name = q.name => p = q
    BY <2>2, SourcesAssumption DEF SourcesAssumption, ProfilesAssumption
  <2> QED  BY <2>3, <2>4 DEF Listed, IsList
<1>4. ~Attribute!Rejected(profile)
  <2> DEFINE refused == \E p \in source : Attribute!Rejected(p)
  <2> SUFFICES ~refused  OBVIOUS
  <2> HIDE DEF refused
  <2>1. Rejected("attribute", source, out) = refused  BY <1>1 DEF Rejected, refused
  <2> QED  BY <1>2, <2>1
<1>5. content = Attribute!Content(profile)
  <2> DEFINE file == <<"attribute", <<profile.name>>>>
             chosen == CHOOSE p \in source : <<p.name>> = <<profile.name>>
  <2>1. Outputs("attribute", source, out)
          = [p \in {<<"attribute", k>> : k \in {<<q.name>> : q \in {q \in source : Attribute!Claimed(q)}}} |->
                <<"gen", Attribute!Content(CHOOSE q \in source : <<q.name>> = p[2])>>]
    BY DEF Outputs, Files
  <2> HIDE DEF source
  <2>2. file \in DOMAIN Outputs("attribute", source, out)  BY <2>1 DEF source
  <2>3. chosen = profile
    <3>1. profile \in source  BY DEF source
    <3>2. chosen \in source /\ <<chosen.name>> = <<profile.name>>  BY <3>1
    <3> HIDE DEF chosen
    <3> QED  BY <1>3, <3>1, <3>2
  <2>4. Outputs("attribute", source, out)[file] = <<"gen", Attribute!Content(chosen)>>  BY <2>1, <2>2
  <2>5. out[file] = <<"gen", Attribute!Content(profile)>>  BY <1>2, <2>2, <2>3, <2>4 DEF Current
  <2> QED  BY <2>5 DEF At
<1>6. fields = Attribute!FieldNames(profile)  BY <1>5 DEF Attribute!Content, Attribute!FieldNames
<1>7. WellOrdered(content, fields)  BY <1>3, <1>4, <1>5, <1>6, ContentOrdered
<1> SUFFICES ASSUME NEW values \in [fields -> 0..2], Attribute!Settled(content, [values |-> values, dirty |-> {}]),
                    NEW given \in SUBSET (fields \ DOMAIN content.inputs), NEW change \in [given -> 0..2]
             PROVE  Attribute!Settled(content, Attribute!LoadValues(content, [values |-> values, dirty |-> {}], change))
  OBVIOUS
<1> HIDE DEF content, fields
<1>8. DOMAIN change \subseteq fields \ DOMAIN content.inputs  OBVIOUS
<1> QED  BY <1>7, <1>8, LoadSettles

(* AttributesSettle for every set of declarations: Update leaves no formula *)
(* behind, in whatever order the formulas of a profile use one another.     *)
THEOREM ProfilesStaySettled == Spec => []AttributesSettle
BY GenInvariant, ProfilesSettle, PTL

-----------------------------------------------------------------------------
(***************************************************************************)
(* What is declared is wired.                                              *)
(***************************************************************************)
(* After a run the files of a generator are its outputs, from declarations *)
(* it accepts.                                                             *)
LEMMA RanIs ==
    ASSUME GenInv, NEW g \in Names, Ran(g)
    PROVE  /\ Source(g) \in Sources(Feature(g)) /\ ~Rejected(g, Source(g), out)
           /\ \A p \in DOMAIN Outputs(g, Source(g), out) : out[p] = Outputs(g, Source(g), out)[p]
<1>1. Good(g, out)  BY DEF GenInv, AfterRun, Ran, Ended
<1>2. PICK v \in DOMAIN Declarations[Feature(g)] : Source(g) = Declarations[Feature(g)][v].source
  <2>1. TypeOK  BY DEF GenInv, Shape
  <2> QED  BY <2>1, SourceDeclared DEF Declared
<1>3. Source(g) \in Sources(Feature(g))  BY <1>2 DEF Sources, Range
<1> QED  BY <1>1, <1>3 DEF Good, Current

LEMMA InstancesAre ==
    /\ \A S, order : Event!InOrder(S, order) = InOrder(S, order)
    /\ \A S, order : Entity!InOrder(S, order) = InOrder(S, order)
    /\ \A S, order : Registry!InOrder(S, order) = InOrder(S, order)
    /\ \A seq, P : Event!Kept(seq, P) = Kept(seq, P)
    /\ \A seq, P : Registry!Kept(seq, P) = Kept(seq, P)
    /\ \A S : Registry!Cardinality(S) = Cardinality(S)
    /\ \A S : Entity!Cardinality(S) = Cardinality(S)
<1>1. \A S : Event!Cardinality(S) = Cardinality(S)  BY DEF Cardinality, Event!Cardinality
<1>2. \A S : Entity!Cardinality(S) = Cardinality(S)  BY DEF Cardinality, Entity!Cardinality
<1>3. \A S : Registry!Cardinality(S) = Cardinality(S)  BY DEF Cardinality, Registry!Cardinality
<1>4. \A P, n : Event!Nth(P, n) = Nth(P, n)  BY <1>1 DEF Nth, Event!Nth
<1>5. \A P, n : Registry!Nth(P, n) = Nth(P, n)  BY <1>3 DEF Nth, Registry!Nth
<1>6. \A S, order, x : /\ Event!Below(S, order, x) = Below(S, order, x)
                       /\ Entity!Below(S, order, x) = Below(S, order, x)
                       /\ Registry!Below(S, order, x) = Below(S, order, x)
  BY DEF Below, Event!Below, Entity!Below, Registry!Below
<1>7. \A S, order : Event!InOrder(S, order) = InOrder(S, order)  BY <1>1, <1>6 DEF InOrder, Event!InOrder
<1>8. \A S, order : Entity!InOrder(S, order) = InOrder(S, order)  BY <1>2, <1>6 DEF InOrder, Entity!InOrder
<1>9. \A S, order : Registry!InOrder(S, order) = InOrder(S, order)  BY <1>3, <1>6 DEF InOrder, Registry!InOrder
<1>10. \A seq, P : Event!Kept(seq, P) = Kept(seq, P)  BY <1>1, <1>4 DEF Kept, Event!Kept
<1>11. \A seq, P : Registry!Kept(seq, P) = Kept(seq, P)  BY <1>3, <1>5 DEF Kept, Registry!Kept
<1> QED  BY <1>2, <1>3, <1>7, <1>8, <1>9, <1>10, <1>11

(* webroute *)
LEMMA RoutesServe ==
    ASSUME NEW fns, ~Route!Rejected(fns)
    PROVE  Route!Serves(fns, [dir \in Route!Dirs(fns) |-> Route!Content(fns, dir)])
<1> DEFINE files == [dir \in Route!Dirs(fns) |-> Route!Content(fns, dir)]
<1>1. \A fn \in fns : ~Route!BadRoute(fn)  BY DEF Route!Rejected
<1>2. \A fn, other \in fns : fn.dir = other.dir /\ Route!Served(fn) = Route!Served(other) => fn = other
  BY DEF Route!Rejected, Route!Duplicate
<1>3. \A fn \in fns : fn.dir \in DOMAIN files /\ files[fn.dir] = Route!Content(fns, fn.dir)
  BY DEF Route!Dirs
<1>4. ASSUME NEW fn \in fns
      PROVE  /\ {r.handler : r \in {s \in Route!Content(fns, fn.dir) : s.route = Route!Served(fn)}} = {fn.name}
             /\ \E r \in Route!Content(fns, fn.dir) : r.handler = fn.name /\ (r.body = "json" \/ fn.request = "raw")
  <2> DEFINE own == [route |-> Route!Served(fn), handler |-> fn.name, body |-> Route!Value(fn, "body")]
             content == Route!Content(fns, fn.dir)
  <2>1. own \in content  BY DEF Route!Content, Route!InDir
  <2>2. \A r \in content : r.route = Route!Served(fn) => r = own  BY <1>2 DEF Route!Content, Route!InDir
  <2>3. own.handler = fn.name /\ own.route = Route!Served(fn) /\ (own.body = "json" \/ fn.request = "raw")
    BY <1>1 DEF Route!BadRoute
  <2> HIDE DEF own, content
  <2>4. {s \in content : s.route = Route!Served(fn)} = {own}  BY <2>1, <2>2, <2>3
  <2> QED  BY <2>1, <2>3, <2>4 DEF content
<1>5. \A dir \in DOMAIN files : \A r \in files[dir] : ~(r.route[1] = "GET" /\ r.body = "json")
  <2> SUFFICES ASSUME NEW dir \in DOMAIN files, NEW r \in files[dir] PROVE ~(r.route[1] = "GET" /\ r.body = "json")
    OBVIOUS
  <2>1. PICK fn \in fns : r = [route |-> Route!Served(fn), handler |-> fn.name, body |-> Route!Value(fn, "body")]
    BY DEF Route!Content, Route!InDir
  <2> QED  BY <1>1, <2>1 DEF Route!BadRoute, Route!Served
<1> QED  BY <1>3, <1>4, <1>5 DEF Route!Serves

LEMMA RoutesAre == GenInv => RoutesServed
<1> SUFFICES ASSUME GenInv, Ran("webroute") PROVE RoutesServed  BY DEF RoutesServed
<1> DEFINE source == Source("webroute")
<1>1. "webroute" \in Names /\ Feature("webroute") # "config"  BY NamesAre DEF Feature
<1>2. ~Route!Rejected(source)
  <2> DEFINE refused == Route!Rejected(source)
  <2>1. Rejected("webroute", source, out) = refused  BY <1>1 DEF Rejected
  <2> QED  BY <1>1, <2>1, RanIs
<1>3. ASSUME NEW dir \in Route!Dirs(source) PROVE At("webroute", <<dir>>) = Route!Content(source, dir)
  <2>1. Outputs("webroute", source, out)
          = [p \in {<<"webroute", k>> : k \in {<<d>> : d \in Route!Dirs(source)}} |-> <<"gen", Route!Content(source, p[2][1])>>]
    BY <1>1 DEF Outputs, Files
  <2>2. <<"webroute", <<dir>>>> \in DOMAIN Outputs("webroute", source, out)  BY <2>1
  <2>3. out[<<"webroute", <<dir>>>>] = Outputs("webroute", source, out)[<<"webroute", <<dir>>>>]  BY <1>1, <2>2, RanIs
  <2> QED  BY <2>1, <2>2, <2>3 DEF At
<1>4. [dir \in Route!Dirs(source) |-> At("webroute", <<dir>>)] = [dir \in Route!Dirs(source) |-> Route!Content(source, dir)]
  BY <1>3
<1> HIDE DEF source
<1>5. Route!Serves(source, [dir \in Route!Dirs(source) |-> Route!Content(source, dir)])  BY <1>2, RoutesServe
<1> QED  BY <1>4, <1>5 DEF RoutesServed, source

(* errcode *)
LEMMA CodesAre == GenInv => CodesUnique
<1> SUFFICES ASSUME GenInv, Ran("errcode") PROVE CodesUnique  BY DEF CodesUnique
<1> DEFINE source == Source("errcode")
           found == Literal(source)
           order == {pair \in found \X found : pair[1].code < pair[2].code}
           rows == InOrder(found, order)
           m == Cardinality(found)
<1>1. "errcode" \in Names /\ Feature("errcode") = "errcode"  BY NamesAre DEF Feature
<1>2. ~DuplicateCode(source)
  <2> DEFINE refused == DuplicateCode(source)
  <2>1. Rejected("errcode", source, out) = refused  BY <1>1 DEF Rejected
  <2> QED  BY <1>1, <2>1, RanIs
<1>3. IsFiniteSet(found) /\ \A d \in found : d.code \in Int
  <2>1. source \in Sources("errcode")  BY <1>1, RanIs
  <2>2. IsFiniteSet(source) /\ \A d \in source : d.code \in Int  BY <2>1, SourcesAssumption DEF SourcesAssumption, CodesAssumption
  <2>3. found \in SUBSET source  BY DEF Literal
  <2> QED  BY <2>2, <2>3, FS_Subset
<1>4. At("errcode", <<"errcode.csv">>) = [i \in DOMAIN rows |-> <<rows[i].code, rows[i].name>>]
  <2>1. Outputs("errcode", source, out) = [p \in {<<"errcode", k>> : k \in {<<"errcode.csv">>}} |-> <<"gen", Codes(source)>>]
    BY <1>1 DEF Outputs, Files
  <2>2. <<"errcode", <<"errcode.csv">>>> \in DOMAIN Outputs("errcode", source, out)  BY <2>1
  <2>3. out[<<"errcode", <<"errcode.csv">>>>] = <<"gen", Codes(source)>>  BY <1>1, <2>1, <2>2, RanIs
  <2> QED  BY <2>3 DEF At, Codes
<1>5. \A d, e \in found : d.code = e.code => d = e  BY <1>2 DEF DuplicateCode
<1>6. \A d, e \in found : <<d, e>> \in order <=> d.code < e.code  OBVIOUS
<1>7. \A d \in found : d \in source /\ d.literal  BY DEF Literal
<1>8. \A d \in Literal(source) : d \in found  OBVIOUS
<1> HIDE DEF found, order
<1>9. Ordering(found, order)  BY <1>3, <1>5, <1>6 DEF Ordering
<1>10. /\ m \in Nat /\ rows \in [1..m -> found]
       /\ \A x \in found : \E i \in 1..m : rows[i] = x
       /\ \A i, j \in 1..m : <<rows[i], rows[j]>> \in order <=> i < j
  BY <1>3, <1>9, InOrderIs
<1> DEFINE written == [i \in DOMAIN rows |-> <<rows[i].code, rows[i].name>>]
<1> HIDE DEF rows, m
<1>11. \A d \in found : \E i \in DOMAIN written : written[i] = <<d.code, d.name>>  BY <1>10
<1>12. \A i, j \in DOMAIN written : i < j => written[i][1] < written[j][1]
  <2>1. \A i, j \in DOMAIN written : rows[i] \in found /\ rows[j] \in found /\ (i < j => rows[i].code < rows[j].code)
    BY <1>6, <1>10
  <2> QED  BY <2>1
<1> QED  BY <1>4, <1>8, <1>11, <1>12 DEF CodesUnique

(* an order by distinct numbers *)
LEMMA ByNumber ==
    ASSUME NEW S, NEW order, NEW number, \A x \in S : number[x] \in Int,
           \A x, y \in S : <<x, y>> \in order <=> number[x] < number[y],
           \A x, y \in S : number[x] = number[y] => x = y
    PROVE  Ordering(S, order)
<1>1. \A x \in S : <<x, x>> \notin order  OBVIOUS
<1>2. \A x, y \in S : x = y \/ <<x, y>> \in order \/ <<y, x>> \in order
  <2> SUFFICES ASSUME NEW x \in S, NEW y \in S, x # y PROVE <<x, y>> \in order \/ <<y, x>> \in order  OBVIOUS
  <2>1. number[x] \in Int /\ number[y] \in Int /\ number[x] # number[y]  OBVIOUS
  <2>2. number[x] < number[y] \/ number[y] < number[x]  BY <2>1
  <2> QED  BY <2>2
<1>3. \A x, y, z \in S : <<x, y>> \in order /\ <<y, z>> \in order => <<x, z>> \in order
  <2> SUFFICES ASSUME NEW x \in S, NEW y \in S, NEW z \in S, <<x, y>> \in order, <<y, z>> \in order
               PROVE  <<x, z>> \in order
    OBVIOUS
  <2>1. number[x] < number[y] /\ number[y] < number[z]  OBVIOUS
  <2>2. number[x] \in Int /\ number[y] \in Int /\ number[z] \in Int  OBVIOUS
  <2>3. number[x] < number[z]  BY <2>1, <2>2
  <2> QED  BY <2>3
<1> QED  BY <1>1, <1>2, <1>3 DEF Ordering

(* entity *)
LEMMA EntityFiles ==
    ASSUME GenInv, Ran("entity")
    PROVE  /\ Source("entity") \in Sources("entity")
           /\ \A e \in Source("entity") : ~Entity!Rejected(e)
           /\ \A e \in Source("entity") : At("entity", <<e.dir, e.name>>) = Entity!Content(Source("entity"), e)
<1> DEFINE source == Source("entity")
<1>1. "entity" \in Names /\ Feature("entity") = "entity"  BY NamesAre DEF Feature
<1>2. source \in Sources("entity")  BY <1>1, RanIs
<1>3. \A e, f \in source : e.dir = f.dir /\ e.name = f.name => e = f
  BY <1>2, SourcesAssumption DEF SourcesAssumption, EntitiesAssumption
<1>4. \A e \in source : ~Entity!Rejected(e)
  <2> DEFINE refused == \E e \in source : Entity!Rejected(e)
  <2> SUFFICES ~refused  OBVIOUS
  <2> HIDE DEF refused
  <2>1. Rejected("entity", source, out) = refused  BY <1>1 DEF Rejected, refused
  <2> QED  BY <1>1, <2>1, RanIs
<1>5. ASSUME NEW e \in source PROVE At("entity", <<e.dir, e.name>>) = Entity!Content(source, e)
  <2> DEFINE file == <<"entity", <<e.dir, e.name>>>>
             Of(k) == CHOOSE f \in source : <<f.dir, f.name>> = k
  <2>1. Outputs("entity", source, out)
          = [p \in {<<"entity", k>> : k \in {<<f.dir, f.name>> : f \in source}} |->
                <<"gen", Entity!Content(source, Of(p[2]))>>]
    BY <1>1, SMTT(40) DEF Outputs, Files
  <2> HIDE DEF source
  <2>2. Of(<<e.dir, e.name>>) = e
    <3>1. Of(<<e.dir, e.name>>) \in source
          /\ <<Of(<<e.dir, e.name>>).dir, Of(<<e.dir, e.name>>).name>> = <<e.dir, e.name>>
      OBVIOUS
    <3> HIDE DEF Of
    <3> QED  BY <1>3, <3>1
  <2> HIDE DEF Of
  <2>3. file \in DOMAIN Outputs("entity", source, out)  BY <2>1
  <2>4. Outputs("entity", source, out)[file] = <<"gen", Entity!Content(source, e)>>  BY <2>1, <2>2, <2>3
  <2>5. out[file] = <<"gen", Entity!Content(source, e)>>  BY <1>1, <2>3, <2>4, RanIs DEF source
  <2> QED  BY <2>5 DEF At
<1> QED  BY <1>2, <1>4, <1>5

(* the entities of a package, each once; the first of them is primary *)
LEMMA SiblingsAre ==
    ASSUME NEW all \in Sources("entity"), NEW e \in all
    PROVE  LET own == {f \in all : f.dir = e.dir}
           IN  \E first \in own :
                  /\ Entity!Siblings(all, e) # <<>>
                  /\ \A f \in own : Entity!Siblings(all, f) = Entity!Siblings(all, e)
                                    /\ \E i \in DOMAIN Entity!Siblings(all, e) : Entity!Siblings(all, e)[i] = f.name
                  /\ \A f \in own : Entity!Primary(all, f) <=> f = first
<1> DEFINE own == {f \in all : f.dir = e.dir}
           order == {pair \in own \X own : pair[1].rank < pair[2].rank}
           row == InOrder(own, order)
           m == Cardinality(own)
<1>1. IsFiniteSet(all) /\ (\A f \in all : f.rank \in Int)
      /\ \A f, g \in all : f.dir = g.dir /\ (f.name = g.name \/ f.rank = g.rank) => f = g
  BY SourcesAssumption DEF SourcesAssumption, EntitiesAssumption
<1>2. IsFiniteSet(own)
  <2>1. own \in SUBSET all  OBVIOUS
  <2> QED  BY <1>1, <2>1, FS_Subset
<1>3. \A f, g \in own : (<<f, g>> \in order <=> f.rank < g.rank) /\ f.rank \in Int /\ (f.rank = g.rank => f = g)
      /\ (f.name = g.name => f = g)
  BY <1>1
<1>4. e \in own /\ \A f \in own : f \in all /\ f.dir = e.dir  OBVIOUS
<1>5. \A f \in own : {g \in all : g.dir = f.dir} = own  BY <1>4
<1>6. \A f \in own : Entity!Siblings(all, f) = [i \in DOMAIN row |-> row[i].name]
  <2> SUFFICES ASSUME NEW f \in own PROVE Entity!Siblings(all, f) = [i \in DOMAIN row |-> row[i].name]  OBVIOUS
  <2>1. {g \in all : g.dir = f.dir} = own  BY <1>5
  <2> QED  BY <2>1, InstancesAre DEF Entity!Siblings
<1> SUFFICES \E first \in own :
                  /\ Entity!Siblings(all, e) # <<>>
                  /\ \A f \in own : Entity!Siblings(all, f) = Entity!Siblings(all, e)
                                    /\ \E i \in DOMAIN Entity!Siblings(all, e) : Entity!Siblings(all, e)[i] = f.name
                  /\ \A f \in own : Entity!Primary(all, f) <=> f = first
  OBVIOUS
<1> HIDE DEF own, order
<1>7. Ordering(own, order)
  <2> DEFINE number == [f \in own |-> f.rank]
  <2>1. \A f \in own : number[f] = f.rank  OBVIOUS
  <2> HIDE DEF number
  <2>2. \A f \in own : number[f] \in Int  BY <1>3, <2>1
  <2>3. \A f, g \in own : <<f, g>> \in order <=> number[f] < number[g]  BY <1>3, <2>1
  <2>4. \A f, g \in own : number[f] = number[g] => f = g  BY <1>3, <2>1
  <2> QED  BY <2>2, <2>3, <2>4, ByNumber
<1>8. /\ m \in Nat /\ row \in [1..m -> own]
      /\ \A x \in own : \E i \in 1..m : row[i] = x
  BY <1>2, <1>7, InOrderIs
<1> HIDE DEF row, m
<1> DEFINE names == [i \in DOMAIN row |-> row[i].name]
<1>9. DOMAIN names = 1..m /\ 1 \in 1..m  BY <1>4, <1>8
<1>10. names # <<>>
  <2>1. DOMAIN names # {}  BY <1>9
  <2> HIDE DEF names
  <2> QED  BY <2>1
<1>11. row[1] \in own /\ names[1] = row[1].name  BY <1>8, <1>9
<1>12. \A f \in own : \E i \in DOMAIN names : names[i] = f.name  BY <1>8, <1>9
<1> HIDE DEF names
<1>13. \A f \in own : Entity!Primary(all, f) <=> f = row[1]
  BY <1>3, <1>6, <1>11 DEF Entity!Primary, names
<1>14. \A f \in own : Entity!Siblings(all, f) = names  BY <1>6 DEF names
<1> QED  BY <1>4, <1>10, <1>11, <1>12, <1>13, <1>14

LEMMA EntitiesWire ==
    ASSUME NEW all \in Sources("entity"), \A e \in all : ~Entity!Rejected(e),
           NEW files, \A e \in all : files[<<e.dir, e.name>>] = Entity!Content(all, e)
    PROVE  Entity!Wires(all, files)
<1> SUFFICES ASSUME NEW e \in all
             PROVE  LET own == {f \in all : f.dir = e.dir}
                        key(f) == <<f.dir, f.name>>
                    IN  /\ Entity!Cardinality({f \in own : files[key(f)].registers # <<>>}) = 1
                        /\ \E f \in own : \E i \in DOMAIN files[key(f)].registers :
                              files[key(f)].registers[i] = e.name
                        /\ Entity!Written(e) \intersect e.imports \subseteq files[key(e)].imports
                        /\ files[key(e)].topic # <<"", "Capital">>
                        /\ files[key(e)].deletes => files[key(e)].remote # "managed" /\ e.daos # <<>>
  BY DEF Entity!Wires
<1> DEFINE own == {f \in all : f.dir = e.dir}
           File(f) == files[<<f.dir, f.name>>]
<1>1. \A f \in all :
         /\ File(f).registers = IF Entity!Primary(all, f) THEN Entity!Siblings(all, f) ELSE <<>>
         /\ File(f).remote = Entity!RemoteOf(f) /\ File(f).imports = Entity!Imports(f)
         /\ File(f).topic = IF Entity!Flag(f, "sync") THEN Entity!Param(f, "syncTopic") ELSE Entity!None
         /\ File(f).deletes = Entity!PreparesDelete(f)
  <2> SUFFICES ASSUME NEW f \in all
               PROVE  LET content == Entity!Content(all, f)
                      IN  /\ content.registers = IF Entity!Primary(all, f) THEN Entity!Siblings(all, f) ELSE <<>>
                          /\ content.remote = Entity!RemoteOf(f) /\ content.imports = Entity!Imports(f)
                          /\ content.topic = IF Entity!Flag(f, "sync") THEN Entity!Param(f, "syncTopic") ELSE Entity!None
                          /\ content.deletes = Entity!PreparesDelete(f)
    OBVIOUS
  <2> QED  BY DEF Entity!Content
<1>2. PICK first \in own :
         /\ Entity!Siblings(all, e) # <<>>
         /\ \A f \in own : Entity!Siblings(all, f) = Entity!Siblings(all, e)
                           /\ \E i \in DOMAIN Entity!Siblings(all, e) : Entity!Siblings(all, e)[i] = f.name
         /\ \A f \in own : Entity!Primary(all, f) <=> f = first
  BY SiblingsAre
<1>3. e \in own /\ \A f \in own : f \in all  OBVIOUS
<1> HIDE DEF own, File
<1>4. {f \in own : File(f).registers # <<>>} = {first}
  <2>1. \A f \in own : File(f).registers # <<>> <=> f = first  BY <1>1, <1>2, <1>3
  <2> QED  BY <2>1
<1>5. Entity!Cardinality({f \in own : File(f).registers # <<>>}) = 1
  BY <1>4, InstancesAre, FS_Singleton
<1>6. \E f \in own : \E i \in DOMAIN File(f).registers : File(f).registers[i] = e.name
  <2>1. File(first).registers = Entity!Siblings(all, e)  BY <1>1, <1>2, <1>3
  <2> QED  BY <1>2, <1>3, <2>1
<1>7. Entity!Written(e) \intersect e.imports \subseteq File(e).imports
  <2>1. Entity!Written(e) \subseteq (Entity!Named(e) \union {e.comps[i].pkg : i \in DOMAIN e.comps}
                                       \union {e.daos[i].pkg : i \in DOMAIN e.daos}) \ {""}
    BY DEF Entity!Written, Entity!Named
  <2> QED  BY <1>1, <2>1 DEF Entity!Imports
<1>8. File(e).topic # <<"", "Capital">>
  <2>1. Entity!Param(e, "syncTopic") # <<"", "Capital">>
    BY DEF Entity!Rejected, Entity!BadValues, Entity!AmbiguousTopic
  <2>2. Entity!None # <<"", "Capital">>  BY DEF Entity!None
  <2>3. File(e).topic = Entity!Param(e, "syncTopic") \/ File(e).topic = Entity!None  BY <1>1
  <2> QED  BY <2>1, <2>2, <2>3
<1>9. File(e).deletes => File(e).remote # "managed" /\ e.daos # <<>>
  BY <1>1 DEF Entity!PreparesDelete, Entity!Managed
<1> QED  BY <1>5, <1>6, <1>7, <1>8, <1>9 DEF own, File

LEMMA EntitiesAre == GenInv => EntitiesWired
<1> SUFFICES ASSUME GenInv, Ran("entity") PROVE EntitiesWired  BY DEF EntitiesWired
<1> DEFINE source == Source("entity")
           files == [k \in {<<e.dir, e.name>> : e \in source} |-> At("entity", k)]
<1>1. /\ source \in Sources("entity") /\ \A e \in source : ~Entity!Rejected(e)
      /\ \A e \in source : At("entity", <<e.dir, e.name>>) = Entity!Content(source, e)
  BY EntityFiles
<1>2. \A e \in source : files[<<e.dir, e.name>>] = Entity!Content(source, e)  BY <1>1
<1> HIDE DEF files, source
<1>3. Entity!Wires(source, files)  BY <1>1, <1>2, EntitiesWire
<1> QED  BY <1>3 DEF EntitiesWired, files, source

(* event *)
LEMMA EventSources ==
    ASSUME GenInv, Ran("event"), ~Event!Nothing(Source("event"))
    PROVE  /\ Source("event") \in Sources("event") /\ ~Event!Rejected(Source("event"))
           /\ At("event", <<"types">>) = Event!Types(Source("event"))
           /\ \A group \in Event!Groups(Source("event")) :
                 At("event", group) = Event!Subscriptions(Source("event"), group)
<1> DEFINE source == Source("event")
           Content(k) == IF k = <<"types">> THEN Event!Types(source) ELSE Event!Subscriptions(source, k)
           keys == {<<"types">>} \union Event!Groups(source)
<1>1. "event" \in Names /\ Feature("event") = "event"  BY NamesAre DEF Feature
<1>2. ~Event!Rejected(source)
  <2> DEFINE refused == Event!Rejected(source)
  <2>1. Rejected("event", source, out) = refused  BY <1>1 DEF Rejected
  <2> QED  BY <1>1, <2>1, RanIs
<1>3. source \in Sources("event")  BY <1>1, RanIs
<1>4. Outputs("event", source, out) = [p \in {<<"event", k>> : k \in keys} |-> <<"gen", Content(p[2])>>]
  <2>1. Outputs("event", source, out) = EventFiles(source)  BY <1>1 DEF Outputs
  <2> QED  BY <2>1 DEF EventFiles, Files
<1>5. \A group \in Event!Groups(source) : group # <<"types">>
  <2> SUFFICES ASSUME NEW group \in Event!Groups(source) PROVE group # <<"types">>  OBVIOUS
  <2>1. PICK m \in Event!Handlers(source) : group = <<m.dir, m.receiver>>  BY DEF Event!Groups
  <2>2. Len(group) = 2 /\ Len(<<"types">>) = 1  BY <2>1
  <2> QED  BY <2>2
<1> HIDE DEF keys, Content
<1>6. ASSUME NEW k \in keys PROVE At("event", k) = Content(k)
  <2>1. <<"event", k>> \in DOMAIN Outputs("event", source, out)  BY <1>4
  <2>2. Outputs("event", source, out)[<<"event", k>>] = <<"gen", Content(k)>>  BY <1>4, <2>1
  <2>3. out[<<"event", k>>] = <<"gen", Content(k)>>  BY <1>1, <2>1, <2>2, RanIs
  <2> QED  BY <2>3 DEF At
<1>7. At("event", <<"types">>) = Event!Types(source)  BY <1>6 DEF keys, Content
<1>8. \A group \in Event!Groups(source) : At("event", group) = Event!Subscriptions(source, group)
  BY <1>5, <1>6 DEF keys, Content
<1> QED  BY <1>2, <1>3, <1>7, <1>8

(* an event has a number, and no two have the same *)
LEMMA TypesAre ==
    ASSUME NEW source \in Sources("event")
    PROVE  /\ \A i, j \in DOMAIN Event!Types(source) : Event!Types(source)[i] = Event!Types(source)[j] => i = j
           /\ \A suffix \in Event!Declared(source) :
                 \E i \in DOMAIN Event!Types(source) : Event!Types(source)[i] = suffix
<1> DEFINE structs == source.structs
           P == {i \in DOMAIN structs : structs[i].file = "plain" /\ structs[i].struct
                                          /\ structs[i].prefix /\ structs[i].suffix # "Data"}
           kept == Kept(structs, P)
           m == Cardinality(P)
           events == [i \in DOMAIN kept |-> kept[i].suffix]
<1>1. structs \in Seq(Range(structs))
      /\ \A i, j \in DOMAIN structs :
            structs[i].file = "plain" /\ structs[j].file = "plain" /\ structs[i].struct /\ structs[j].struct
              /\ structs[i].prefix /\ structs[j].prefix /\ structs[i].suffix = structs[j].suffix => i = j
  BY SourcesAssumption DEF SourcesAssumption, EventsAssumption, IsList
<1>2. Event!Events(source) = events  BY InstancesAre DEF Event!Events, Event!Select
<1>3. \A i, j \in P : structs[i].suffix = structs[j].suffix => i = j  BY <1>1
<1>4. P \in SUBSET (DOMAIN structs)  OBVIOUS
<1>5. DOMAIN structs = 1..Len(structs) /\ Len(structs) \in Nat  BY <1>1
<1> HIDE DEF P, structs
<1>6. P \in SUBSET Int /\ IsFiniteSet(P)
  <2>1. 1 \in Int /\ Len(structs) \in Int  BY <1>5
  <2>2. IsFiniteSet(1..Len(structs))  BY <2>1, FS_Interval
  <2> QED  BY <1>4, <1>5, <2>2, FS_Subset
<1>7. m \in Nat /\ kept = [n \in 1..m |-> structs[Nth(P, n)]]
      /\ \A n \in 1..m : Nth(P, n) \in P /\ kept[n] = structs[Nth(P, n)]
  BY <1>6, KeptAre
<1>8. \A k, n \in 1..m : Nth(P, k) = Nth(P, n) => k = n
  <2> DEFINE at == [n \in 1..m |-> Nth(P, n)]
  <2>1. m \in Nat /\ at \in [1..m -> P] /\ \A k, n \in 1..m : at[k] < at[n] <=> k < n  BY <1>6, KeptIs
  <2>2. \A n \in 1..m : at[n] = Nth(P, n)  OBVIOUS
  <2> HIDE DEF at, m
  <2> SUFFICES ASSUME NEW k \in 1..m, NEW n \in 1..m, Nth(P, k) = Nth(P, n) PROVE k = n  OBVIOUS
  <2>3. at[k] \in Int /\ at[k] = at[n]  BY <1>6, <2>1, <2>2
  <2>4. ~(k < n) /\ ~(n < k)  BY <2>1, <2>3
  <2> QED  BY <2>1, <2>4
<1> HIDE DEF kept, m
<1>9. DOMAIN events = 1..m /\ \A n \in 1..m : events[n] = structs[Nth(P, n)].suffix  BY <1>7
<1> HIDE DEF events
<1>10. Event!Types(source) = [i \in 1..Len(events) |-> events[i]] /\ Len(events) = m
  <2>1. Len(events) = m  BY <1>7, <1>9
  <2> QED  BY <1>2, <2>1 DEF Event!Types
<1>11. \A i, j \in 1..m : events[i] = events[j] => i = j  BY <1>3, <1>7, <1>8, <1>9
<1>12. \A suffix \in Event!Declared(source) : \E i \in 1..m : events[i] = suffix
  BY <1>2, <1>9 DEF Event!Declared, Event!Range
<1> QED  BY <1>10, <1>11, <1>12

(* a receiver is subscribed to the events its methods are for *)
LEMMA SubscriptionsAre ==
    ASSUME NEW source \in Sources("event"), NEW group
    PROVE  LET own == {h \in Event!Handlers(source) : <<h.dir, h.receiver>> = group}
               row == Event!Subscriptions(source, group)
           IN  /\ \A h \in own : \E i \in DOMAIN row : row[i] = h.suffix
               /\ \A i \in DOMAIN row : \E h \in own : row[i] = h.suffix
<1> DEFINE own == {h \in Event!Handlers(source) : <<h.dir, h.receiver>> = group}
           order == {pair \in own \X own : pair[1].order < pair[2].order}
           row == InOrder(own, order)
           number == [h \in own |-> h.order]
<1>1. /\ IsFiniteSet(source.methods) /\ \A h \in source.methods : h.order \in Int
      /\ \A h, other \in Event!Handlers(source) :
            h.dir = other.dir /\ h.receiver = other.receiver /\ h.order = other.order => h = other
  BY SourcesAssumption DEF SourcesAssumption, EventsAssumption
<1>2. IsFiniteSet(own)
  <2>1. own \in SUBSET source.methods  BY DEF Event!Handlers
  <2> QED  BY <1>1, <2>1, FS_Subset
<1>3. \A h \in own : number[h] = h.order /\ number[h] \in Int  BY <1>1 DEF Event!Handlers
<1>4. \A h, other \in own : h.order = other.order => h = other
  <2> SUFFICES ASSUME NEW h \in own, NEW other \in own, h.order = other.order PROVE h = other  OBVIOUS
  <2>1. <<h.dir, h.receiver>> = <<other.dir, other.receiver>>  OBVIOUS
  <2> QED  BY <1>1, <2>1
<1>5. \A h, other \in own : <<h, other>> \in order <=> h.order < other.order  OBVIOUS
<1>6. Event!Subscriptions(source, group) = [i \in DOMAIN row |-> row[i].suffix]
  BY InstancesAre DEF Event!Subscriptions
<1> SUFFICES /\ \A h \in own : \E i \in DOMAIN Event!Subscriptions(source, group) :
                     Event!Subscriptions(source, group)[i] = h.suffix
             /\ \A i \in DOMAIN Event!Subscriptions(source, group) :
                     \E h \in own : Event!Subscriptions(source, group)[i] = h.suffix
  OBVIOUS
<1> HIDE DEF own, order, number
<1>7. Ordering(own, order)
  <2>1. \A h \in own : number[h] \in Int  BY <1>3
  <2>2. \A h, other \in own : <<h, other>> \in order <=> number[h] < number[other]  BY <1>3, <1>5
  <2>3. \A h, other \in own : number[h] = number[other] => h = other  BY <1>3, <1>4
  <2> QED  BY <2>1, <2>2, <2>3, ByNumber
<1>8. row \in [1..Cardinality(own) -> own] /\ \A x \in own : \E i \in 1..Cardinality(own) : row[i] = x
  BY <1>2, <1>7, InOrderIs
<1> HIDE DEF row
<1> QED  BY <1>6, <1>8

LEMMA EventsAre == GenInv => EventsDelivered
<1> SUFFICES ASSUME GenInv, Ran("event"), ~Event!Nothing(Source("event")) PROVE EventsDelivered
  BY DEF EventsDelivered
<1> DEFINE source == Source("event")
           types == Event!Types(source)
           handlers == [group \in Event!Groups(source) |-> At("event", group)]
<1>1. /\ source \in Sources("event") /\ ~Event!Rejected(source)
      /\ At("event", <<"types">>) = types
      /\ \A group \in Event!Groups(source) : handlers[group] = Event!Subscriptions(source, group)
  BY EventSources
<1>2. DOMAIN handlers = Event!Groups(source) /\ ~Event!Nothing(source)  OBVIOUS
<1> HIDE DEF source, handlers
<1>3. Event!IsInjective(types)  BY <1>1, TypesAre DEF Event!IsInjective
<1>4. ASSUME NEW h \in source.methods, h.file = "plain" /\ h.prefix /\ h.upper
      PROVE  <<h.dir, h.receiver>> \in DOMAIN handlers
             /\ Event!Delivered(types, handlers[<<h.dir, h.receiver>>], h.suffix)
  <2>1. h.receiver # ""  BY <1>1, SourcesAssumption DEF SourcesAssumption, EventsAssumption
  <2>2. h \in Event!Handlers(source) /\ <<h.dir, h.receiver>> \in Event!Groups(source)
    BY <1>4, <2>1 DEF Event!Handlers, Event!Groups
  <2>3. h.suffix \in Event!Declared(source)  BY <1>1, <1>2, <2>2 DEF Event!Rejected, Event!Undeclared
  <2>4. \E i \in DOMAIN types : types[i] = h.suffix  BY <1>1, <2>3, TypesAre
  <2>5. \E i \in DOMAIN handlers[<<h.dir, h.receiver>>] : handlers[<<h.dir, h.receiver>>][i] = h.suffix
    BY <1>1, <2>2, SubscriptionsAre
  <2> QED  BY <1>2, <2>2, <2>4, <2>5 DEF Event!Delivered
<1>5. ASSUME NEW group \in DOMAIN handlers, NEW i \in DOMAIN handlers[group]
      PROVE  \E h \in Event!Handlers(source) : <<h.dir, h.receiver>> = group /\ h.suffix = handlers[group][i]
  BY <1>1, <1>2, SubscriptionsAre
<1>6. Event!Delivers(source, types, handlers)  BY <1>3, <1>4, <1>5 DEF Event!Delivers
<1> QED  BY <1>1, <1>6 DEF EventsDelivered, source, handlers

-----------------------------------------------------------------------------
(* dao: what Select leaves of a list                                       *)
LEMMA DaoKept == \A seq, P : Dao!Kept(seq, P) = Kept(seq, P)
<1>1. \A S : Dao!Cardinality(S) = Cardinality(S)  BY DEF Cardinality, Dao!Cardinality
<1>2. \A P, n : Dao!Nth(P, n) = Nth(P, n)  BY <1>1 DEF Nth, Dao!Nth
<1> QED  BY <1>1, <1>2 DEF Kept, Dao!Kept

LEMMA DaoSelected ==
    ASSUME NEW seq, IsList(seq), NEW P \in SUBSET DOMAIN seq
    PROVE  Dao!Range(Dao!Kept(seq, P)) = {seq[i] : i \in P}
<1> DEFINE kept == Kept(seq, P)
<1>1. /\ \A n \in DOMAIN kept : \E i \in P : kept[n] = seq[i]
      /\ \A i \in P : \E n \in DOMAIN kept : kept[n] = seq[i]
  BY KeptSeq DEF IsList
<1> HIDE DEF kept
<1>2. Dao!Range(kept) = {seq[i] : i \in P}  BY <1>1 DEF Dao!Range
<1> QED  BY <1>2, DaoKept DEF kept

(* the structs a data object's file is searched for *)
NestStart(source, file) ==
    UNION {Dao!Held(st) : st \in {s \in Dao!Range(Dao!Marked(source, "dao")) : s.file <= file}}

Grown(source, file, names) ==
    names \union UNION {Dao!Held(st) : st \in {o \in Dao!InFile(source, file) : o.name \in names}}

IsGrown(source, file, f, m) ==
    f = [n \in 0..m |-> IF n = 0 THEN NestStart(source, file) ELSE Grown(source, file, f[n - 1])]

LEMMA GrownExists ==
    ASSUME NEW source, NEW file, NEW m \in Nat
    PROVE  \E f : IsGrown(source, file, f, m)
<1> DEFINE start == NestStart(source, file)
           R(x) == Grown(source, file, x)
           Is(s, k) == s = [n \in 0..k |-> IF n = 0 THEN start ELSE R(s[n - 1])]
           Bad == {k \in Nat : ~ \E s : Is(s, k)}
<1> HIDE DEF R, start
<1> SUFFICES ASSUME Bad # {} PROVE FALSE  BY DEF R, start, IsGrown
<1>1. PICK k \in Bad : \A j \in Bad : k <= j  BY LeastOf
<1>2. Is([n \in 0..0 |-> start], 0)  OBVIOUS
<1>3. k \in Nat /\ k # 0  BY <1>2
<1>4. k - 1 \in Nat /\ k - 1 \notin Bad
  <2>1. \A j \in Bad : k <= j  BY <1>1
  <2> HIDE DEF Bad
  <2> QED  BY <1>3, <2>1
<1>5. PICK s : Is(s, k - 1)  BY <1>4
<1> DEFINE more == [n \in 0..k |-> IF n = 0 THEN start ELSE R(s[n - 1])]
<1>6. \A n \in 0..(k - 1) : more[n] = s[n]
  <2> SUFFICES ASSUME NEW n \in 0..(k - 1) PROVE more[n] = s[n]  OBVIOUS
  <2>1. n \in 0..k  BY <1>3
  <2>2. more[n] = IF n = 0 THEN start ELSE R(s[n - 1])  BY <2>1
  <2>3. s[n] = IF n = 0 THEN start ELSE R(s[n - 1])  BY <1>5
  <2> QED  BY <2>2, <2>3
<1>7. \A n \in 0..k : n # 0 => n - 1 \in 0..(k - 1)  BY <1>3
<1>8. Is(more, k)
  <2>1. \A n \in 0..k : (IF n = 0 THEN start ELSE R(s[n - 1])) = (IF n = 0 THEN start ELSE R(more[n - 1]))
    BY <1>6, <1>7
  <2> QED  BY <2>1
<1> QED  BY <1>1, <1>8

LEMMA GrownKeeps ==
    ASSUME NEW source, NEW file, NEW m \in Nat, NEW f, IsGrown(source, file, f, m)
    PROVE  \A n \in 0..m : NestStart(source, file) \subseteq f[n]
<1> DEFINE start == NestStart(source, file)
           Bad == {n \in 0..m : ~ start \subseteq f[n]}
<1>1. f[0] = start  BY DEF IsGrown
<1>2. \A n \in 1..m : f[n - 1] \subseteq f[n]
  <2> SUFFICES ASSUME NEW n \in 1..m PROVE f[n - 1] \subseteq f[n]  OBVIOUS
  <2>1. n \in 0..m /\ n # 0  OBVIOUS
  <2>2. f[n] = Grown(source, file, f[n - 1])  BY <2>1 DEF IsGrown
  <2> QED  BY <2>2 DEF Grown
<1> HIDE DEF start
<1> SUFFICES ASSUME Bad # {} PROVE FALSE  BY DEF start
<1>3. Bad \in SUBSET Nat  OBVIOUS
<1>4. PICK k \in Bad : \A j \in Bad : k <= j  BY <1>3, LeastOf
<1>5. k \in 0..m /\ ~ start \subseteq f[k]  OBVIOUS
<1>6. k \in 1..m  BY <1>1, <1>5
<1>7. k - 1 \in 0..m /\ k - 1 \notin Bad
  <2>1. \A j \in Bad : k <= j  BY <1>4
  <2> HIDE DEF Bad
  <2> QED  BY <1>6, <2>1
<1>8. start \subseteq f[k - 1]  BY <1>7
<1> QED  BY <1>2, <1>5, <1>6, <1>8

(* what the files of objects say about a source the generator accepts *)
Structs(source) ==
    /\ IsList(source.structs)
    /\ \A st \in Range(source.structs) : st.name # Dao!NoName /\ st.file \in Int /\ IsList(st.fields)

LEMMA MarkedAre ==
    ASSUME NEW source, Structs(source), NEW kind, NEW st \in Dao!Range(Dao!Marked(source, kind))
    PROVE  st \in Range(source.structs)
<1> DEFINE P == {i \in DOMAIN source.structs : \E m \in source.markers : m.kind = kind /\ source.structs[i].name \in m.binds}
<1>1. Dao!Marked(source, kind) = Dao!Kept(source.structs, P)  BY DEF Dao!Marked, Dao!Select
<1>2. P \in SUBSET DOMAIN source.structs /\ IsList(source.structs)  BY DEF Structs
<1>3. Dao!Range(Dao!Kept(source.structs, P)) = {source.structs[i] : i \in P}
  <2> HIDE DEF P
  <2> QED  BY <1>2, DaoSelected
<1> QED  BY <1>1, <1>2, <1>3 DEF Range

LEMMA HeldNested ==
    ASSUME NEW source, Structs(source), NEW st \in Dao!Range(Dao!Marked(source, "dao")),
           NEW f \in Dao!Range(Dao!Fields(st)),
           NEW o \in Dao!InFile(source, st.file), o.name = f.elem
    PROVE  o \in Dao!Nested(source)
<1> DEFINE m == Len(source.structs)
           all == CHOOSE g : IsGrown(source, st.file, g, m)
<1>1. st \in Range(source.structs) /\ m \in Nat  BY MarkedAre DEF Structs, IsList
<1>2. o \in Range(source.structs)  BY DEF Dao!InFile, Dao!Range, Range
<1>3. o.name # Dao!NoName /\ st.file \in Int  BY <1>1, <1>2 DEF Structs
<1>4. f.elem \in Dao!Held(st)  BY <1>3 DEF Dao!Held, Dao!Range
<1>5. o.name \in NestStart(source, st.file)  BY <1>3, <1>4 DEF NestStart
<1>6. IsGrown(source, st.file, all, m)  BY <1>1, GrownExists
<1>7. Dao!NestedIn(source, st.file) = {s \in Dao!InFile(source, st.file) : s.name \in all[m]}
  BY DEF Dao!NestedIn, IsGrown, Grown, NestStart
<1> HIDE DEF all
<1>8. NestStart(source, st.file) \subseteq all[m]
  <2>1. m \in 0..m  BY <1>1
  <2> QED  BY <1>1, <1>6, <2>1, GrownKeeps
<1>9. o \in Dao!NestedIn(source, st.file)  BY <1>5, <1>7, <1>8
<1>10. st \in Dao!Range(source.structs)  BY <1>1 DEF Dao!Range, Range
<1> QED  BY <1>9, <1>10 DEF Dao!Nested

(* the fields a data object stores *)
LEMMA FieldsStored ==
    ASSUME NEW source, NEW st, IsList(st.fields), ~Dao!BadFields(st), NEW f \in Dao!Range(st.fields)
    PROVE  \/ Dao!Skipped(f)
           \/ f.tag.given /\ "nopersist" \in f.tag.words
           \/ f.tag.given /\ "persist" \notin f.tag.words /\ f.tag.words \intersect {"sync", "nosync"} # {}
           \/ f \in Dao!Range(Dao!Stored(source, st).persist)
<1> DEFINE P == {i \in DOMAIN st.fields : ~Dao!Skipped(st.fields[i])}
           own == Dao!Fields(st)
           Q == {i \in DOMAIN own : Dao!Persists(own[i])}
<1>1. own = Dao!Kept(st.fields, P)  BY DEF Dao!Fields, Dao!Select
<1>2. Dao!Range(own) = {st.fields[i] : i \in P}
  <2>1. P \in SUBSET DOMAIN st.fields  OBVIOUS
  <2> HIDE DEF P, own
  <2> QED  BY <1>1, <2>1, DaoSelected
<1>3. IsList(own)
  <2>1. own = Kept(st.fields, P) /\ P \in SUBSET DOMAIN st.fields  BY <1>1, DaoKept
  <2> HIDE DEF P, own
  <2>2. DOMAIN own = 1..Cardinality(P) /\ Cardinality(P) \in Nat /\ own = [n \in 1..Cardinality(P) |-> own[n]]
    BY <2>1, KeptSeq DEF IsList
  <2> QED  BY <2>2, RowOf DEF IsList, Range
<1>4. Dao!Stored(source, st).persist = Dao!Kept(own, Q)  BY DEF Dao!Stored, Dao!Select
<1>5. Dao!Range(Dao!Kept(own, Q)) = {own[i] : i \in Q}
  <2>1. Q \in SUBSET DOMAIN own  OBVIOUS
  <2> HIDE DEF Q, own
  <2> QED  BY <1>3, <2>1, DaoSelected
<1>6. ~Dao!BadTag(f)  BY DEF Dao!BadFields, Dao!Range
<1>7. ~Dao!Skipped(f) => \E i \in DOMAIN own : own[i] = f
  <2>1. ~Dao!Skipped(f) => f \in Dao!Range(own)
    <3> HIDE DEF own
    <3> QED  BY <1>2 DEF Dao!Range
  <2> QED  BY <2>1 DEF Dao!Range
<1>8. ~Dao!Skipped(f) /\ Dao!Persists(f) => f \in Dao!Range(Dao!Stored(source, st).persist)
  <2> HIDE DEF own
  <2> QED  BY <1>4, <1>5, <1>7
<1>9. ~Dao!Skipped(f) /\ ~Dao!Persists(f) =>
        /\ f.tag.given /\ "persist" \notin f.tag.words
        /\ "nopersist" \in f.tag.words \/ f.tag.words \intersect {"sync", "nosync"} # {}
  BY <1>6 DEF Dao!BadTag, Dao!Persists, Dao!Intents
<1> QED  BY <1>8, <1>9

(* dao: what a project must keep that the generator does not look at: no   *)
(* two data objects, and no data object and Redis object, have one file    *)
ObjectsApart(source) ==
    LET daos == Dao!Marked(source, "dao")
        redis == Dao!Marked(source, "redisdao")
    IN  /\ \A i, j \in DOMAIN daos : Dao!DaoFile(daos[i].name) = Dao!DaoFile(daos[j].name) => i = j
        /\ \A i \in DOMAIN daos, j \in DOMAIN redis : Dao!DaoFile(daos[i].name) # Dao!RedisFile(redis[j].name)

DaoFiles(source) ==
    {Dao!DaoFile(st.name) : st \in Dao!Range(Dao!Marked(source, "dao"))}
      \union {Dao!RedisFile(st.name) : st \in Dao!Range(Dao!Marked(source, "redisdao"))}
      \union {Dao!NestedFile(st.name) : st \in Dao!Nested(source)}

LEMMA DaoEndings ==
    ASSUME NEW source
    PROVE  /\ DOMAIN Dao!Outputs(source)
                = DaoFiles(source) \union (IF Dao!Nested(source) = {} THEN {} ELSE {Dao!HelperFile})
           /\ \A k \in DaoFiles(source) : k[2] \in {"dao", "redis_dao", "nested"}
           /\ Dao!HelperFile[2] = "helpers"
<1>1. DOMAIN Dao!Outputs(source)
        = DaoFiles(source) \union (IF Dao!Nested(source) = {} THEN {} ELSE {Dao!HelperFile})
  BY DEF Dao!Outputs, DaoFiles, Dao!FilesFor, Dao!FileOf
<1>2. \A k \in DaoFiles(source) : k[2] \in {"dao", "redis_dao", "nested"}
  BY DEF DaoFiles, Dao!DaoFile, Dao!RedisFile, Dao!NestedFile
<1>3. Dao!HelperFile[2] = "helpers"  BY DEF Dao!HelperFile
<1> QED  BY <1>1, <1>2, <1>3

(* a data object is in the file named for it *)
LEMMA ObjectFile ==
    ASSUME NEW source, ObjectsApart(source), NEW i \in DOMAIN Dao!Marked(source, "dao")
    PROVE  LET st == Dao!Marked(source, "dao")[i]
           IN  /\ Dao!DaoFile(st.name) \in DOMAIN Dao!Outputs(source)
               /\ Dao!Outputs(source)[Dao!DaoFile(st.name)] = Dao!DaoContent(source, st)
<1> DEFINE daos == Dao!Marked(source, "dao")
           redis == Dao!Marked(source, "redisdao")
           nested == Dao!Nested(source)
           helper == IF nested = {} THEN {} ELSE {Dao!HelperFile}
           ofRedis == {Dao!RedisFile(s.name) : s \in Dao!Range(redis)}
           ofNested == {Dao!NestedFile(s.name) : s \in nested}
           st == daos[i]
           p == Dao!DaoFile(st.name)
           chosen == CHOOSE n \in DOMAIN daos :
                        /\ Dao!DaoFile(daos[n].name) = p
                        /\ \A j \in DOMAIN daos : Dao!DaoFile(daos[j].name) = p => j <= n
<1>1. p \in DaoFiles(source)  BY DEF DaoFiles, Dao!Range
<1>2. p \notin helper  BY <1>1, DaoEndings
<1>3. p \notin ofNested
  <2>1. p[2] # "nested"  BY DEF Dao!DaoFile
  <2>2. \A k \in ofNested : k[2] = "nested"  BY DEF Dao!NestedFile
  <2> QED  BY <2>1, <2>2
<1>4. p \notin ofRedis  BY DEF ObjectsApart, Dao!Range
<1>5. \A n \in DOMAIN daos : Dao!DaoFile(daos[n].name) = p => n = i  BY DEF ObjectsApart
<1>6. i <= i
  <2>1. DOMAIN daos \subseteq Int  BY DEF Dao!Marked, Dao!Select, Dao!Kept
  <2> QED  BY <2>1
<1>7. chosen = i
  <2> HIDE DEF daos
  <2> QED  BY <1>5, <1>6
<1>8. Dao!Latest(daos, "dao", p) = st  BY <1>7 DEF Dao!Latest, Dao!FileOf
<1>9. p \in DOMAIN Dao!Outputs(source)  BY <1>1, DaoEndings
<1>10. Dao!Outputs(source)[p] =
          IF p \in helper THEN [of |-> Dao!NoName]
          ELSE IF p \in ofNested
          THEN LET held == CHOOSE s \in nested : Dao!NestedFile(s.name) = p
               IN  [of |-> held.name, stored |-> Dao!Stored(source, held)]
          ELSE IF p \in ofRedis THEN Dao!RedisContent(source, Dao!Latest(redis, "redisdao", p))
          ELSE Dao!DaoContent(source, Dao!Latest(daos, "dao", p))
  BY <1>9 DEF Dao!Outputs, Dao!FilesFor, Dao!FileOf
<1> QED  BY <1>2, <1>3, <1>4, <1>8, <1>9, <1>10

LEMMA ObjectsStore ==
    ASSUME NEW source, Structs(source), ~Dao!Rejected(source), ObjectsApart(source), NEW files,
           \A k \in DOMAIN Dao!Outputs(source) : k \in DOMAIN files /\ files[k] = Dao!Outputs(source)[k],
           \A k \in DOMAIN files : k[2] # "helpers" => k \in DOMAIN Dao!Outputs(source)
    PROVE  Dao!Stores(source, files)
<1>1. {k \in DOMAIN files : k[2] # "helpers"} = DaoFiles(source)
  <2>1. ASSUME NEW k \in DOMAIN files, k[2] # "helpers" PROVE k \in DaoFiles(source)
    <3> DEFINE helper == IF Dao!Nested(source) = {} THEN {} ELSE {Dao!HelperFile}
    <3>1. DOMAIN Dao!Outputs(source) = DaoFiles(source) \union helper /\ Dao!HelperFile[2] = "helpers"
      BY DaoEndings
    <3>2. k \notin helper  BY <2>1, <3>1
    <3>3. k \in DOMAIN Dao!Outputs(source)  BY <2>1
    <3> HIDE DEF helper
    <3> QED  BY <3>1, <3>2, <3>3
  <2>2. \A k \in DaoFiles(source) : k \in DOMAIN files /\ k[2] # "helpers"  BY DaoEndings
  <2> QED  BY <2>1, <2>2
<1>2. ASSUME NEW st \in Dao!Range(Dao!Marked(source, "dao"))
      PROVE  LET file == files[Dao!DaoFile(st.name)]
             IN  /\ file.of = st.name
                 /\ \A f \in Dao!Range(st.fields) :
                       \/ Dao!Skipped(f)
                       \/ f.tag.given /\ "nopersist" \in f.tag.words
                       \/ f.tag.given /\ "persist" \notin f.tag.words /\ f.tag.words \intersect {"sync", "nosync"} # {}
                       \/ f \in Dao!Range(file.stored.persist)
                 /\ \A f \in Dao!Range(Dao!Fields(st)) :
                       (\E o \in Dao!InFile(source, st.file) : o.name = f.elem)
                          => f \in file.stored.wire /\ Dao!NestedFile(f.elem) \in DOMAIN files
  <2> DEFINE file == files[Dao!DaoFile(st.name)]
  <2>1. PICK i \in DOMAIN Dao!Marked(source, "dao") : st = Dao!Marked(source, "dao")[i]  BY DEF Dao!Range
  <2>2. file = Dao!DaoContent(source, st)  BY <2>1, ObjectFile
  <2>3. file.of = st.name /\ file.stored = Dao!Stored(source, st)
    <3> HIDE DEF file
    <3> QED  BY <2>2 DEF Dao!DaoContent
  <2>4. IsList(st.fields)  BY MarkedAre DEF Structs
  <2>5. ~Dao!BadFields(st)
    <3>1. ~Dao!BadDao(source, st)  BY DEF Dao!Rejected
    <3> QED  BY <3>1 DEF Dao!BadDao
  <2>6. ASSUME NEW f \in Dao!Range(Dao!Fields(st)),
               NEW o \in Dao!InFile(source, st.file), o.name = f.elem
        PROVE  f \in Dao!Stored(source, st).wire /\ Dao!NestedFile(f.elem) \in DOMAIN files
    <3>1. o \in Dao!Nested(source)  BY <2>6, HeldNested
    <3>2. f.elem \in Dao!NestedNames(source)  BY <2>6, <3>1 DEF Dao!NestedNames
    <3>3. Dao!NestedFile(f.elem) \in DaoFiles(source)  BY <2>6, <3>1 DEF DaoFiles
    <3> QED  BY <1>1, <3>2, <3>3 DEF Dao!Stored
  <2> HIDE DEF file
  <2> QED  BY <2>3, <2>4, <2>5, <2>6, FieldsStored DEF file
<1>3. DaoFiles(source) = Dao!FilesFor(Dao!Range(Dao!Marked(source, "dao")), "dao")
                           \union Dao!FilesFor(Dao!Range(Dao!Marked(source, "redisdao")), "redisdao")
                           \union Dao!FilesFor(Dao!Nested(source), "nested")
  BY DEF DaoFiles, Dao!FilesFor, Dao!FileOf
<1> QED  BY <1>1, <1>2, <1>3 DEF Dao!Stores

-----------------------------------------------------------------------------
(* The entity files of a project lie in packages of it, and are finitely   *)
(* many; the generated files of db/ have the endings of such files.         *)
EntityPlaces(files) == {p \in Written(files) : p[1] = "entity"}
DaoPlaces(files) == {p \in Written(files) : p[1] = "dao"}

Housed(files) ==
    /\ IsFiniteSet(EntityPlaces(files))
    /\ \A p \in EntityPlaces(files) : p[2][1] \in Range(PathOrder)
    /\ \A p \in DaoPlaces(files) : p[2][2] \in {"dao", "redis_dao", "nested", "helpers"}

EntityInv == Housed(out) /\ (mode # "idle" => Housed(stage))

LEMMA HousedFewer ==
    ASSUME NEW files, NEW other, Housed(other), EntityPlaces(files) \subseteq EntityPlaces(other),
           DaoPlaces(files) \subseteq DaoPlaces(other)
    PROVE  Housed(files)
BY FS_Subset DEF Housed

LEMMA HousedOutputs ==
    ASSUME NEW source \in Sources("entity"), NEW files
    PROVE  /\ IsFiniteSet(DOMAIN Outputs("entity", source, files))
           /\ \A p \in DOMAIN Outputs("entity", source, files) : p[2][1] \in Range(PathOrder)
<1> DEFINE D == DOMAIN Outputs("entity", source, files)
           f == [e \in source |-> <<"entity", <<e.dir, e.name>>>>]
<1>1. D = {<<"entity", k>> : k \in {<<e.dir, e.name>> : e \in source}}
  BY SMTT(40) DEF Outputs, Files
<1>2. IsFiniteSet(source) /\ \A e \in source : e.dir \in Range(PathOrder)
  BY SourcesAssumption DEF SourcesAssumption, EntitiesAssumption
<1>3. \A p \in D : \E e \in source : p = <<"entity", <<e.dir, e.name>>>>  BY <1>1
<1>4. \A e \in source : <<"entity", <<e.dir, e.name>>>> \in D  BY <1>1
<1> HIDE DEF D
<1>5. f \in Surjection(source, D)  BY <1>3, <1>4 DEF Surjection
<1>6. IsFiniteSet(D)  BY <1>2, <1>5, FS_Surjection
<1>7. \A p \in D : p[2][1] \in Range(PathOrder)  BY <1>2, <1>3
<1> QED  BY <1>6, <1>7 DEF D

LEMMA EndingsKnown ==
    ASSUME NEW source, NEW files
    PROVE  \A p \in DOMAIN Outputs("dao", source, files) : p[2][2] \in {"dao", "redis_dao", "nested", "helpers"}
<1> SUFFICES ASSUME NEW p \in DOMAIN Outputs("dao", source, files)
             PROVE  p[2][2] \in {"dao", "redis_dao", "nested", "helpers"}
  OBVIOUS
<1> DEFINE k == p[2]
           helper == IF Dao!Nested(source) = {} THEN {} ELSE {Dao!HelperFile}
<1>1. k \in DOMAIN Dao!Outputs(source)  BY DaoOutputs
<1>2. /\ DOMAIN Dao!Outputs(source) = DaoFiles(source) \union helper
      /\ \A q \in DaoFiles(source) : q[2] \in {"dao", "redis_dao", "nested"}
      /\ Dao!HelperFile[2] = "helpers"
  BY DaoEndings
<1>3. \A q \in helper : q[2] = "helpers"  BY <1>2
<1> HIDE DEF k, helper
<1>4. k[2] \in {"dao", "redis_dao", "nested", "helpers"}  BY <1>1, <1>2, <1>3
<1> QED  BY <1>4 DEF k

LEMMA HousedRun ==
    ASSUME NEW g \in Names, NEW source \in Sources(Feature(g)), NEW files, Housed(files)
    PROVE  Housed(Run(g, source, files))
<1> DEFINE R == Run(g, source, files)
           O == Outputs(g, source, files)
           E == EntityPlaces(R)
           D == DaoPlaces(R)
<1>1. IsFiniteSet(E) /\ \A p \in E : p[2][1] \in Range(PathOrder)
  <2>1. CASE g # "entity"
    <3>1. SamePart(R, files, "entity")  BY <2>1, OthersKept
    <3>2. E \subseteq EntityPlaces(files)  BY <3>1 DEF EntityPlaces, Written, SamePart
    <3> HIDE DEF E
    <3> QED  BY <3>2, FS_Subset DEF Housed
  <2>2. CASE g = "entity"
    <3>1. Merged(R, O, files, Swept(g, source, files))  BY RunIs
    <3>2. source \in Sources("entity")  BY <2>2 DEF Feature
    <3>3. IsFiniteSet(DOMAIN O) /\ \A p \in DOMAIN O : p[2][1] \in Range(PathOrder)  BY <2>2, <3>2, HousedOutputs
    <3> HIDE DEF R, O
    <3>4. E \subseteq DOMAIN O \union EntityPlaces(files)  BY <3>1 DEF EntityPlaces, Written, Merged
    <3> HIDE DEF E
    <3>5. IsFiniteSet(DOMAIN O \union EntityPlaces(files))  BY <3>3, FS_Union DEF Housed
    <3>6. IsFiniteSet(E)  BY <3>4, <3>5, FS_Subset
    <3> QED  BY <3>3, <3>4, <3>6 DEF Housed
  <2> QED  BY <2>1, <2>2
<1>2. \A p \in D : p[2][2] \in {"dao", "redis_dao", "nested", "helpers"}
  <2>1. CASE g # "dao"
    <3>1. "dao" \in Names  BY NamesAre
    <3>2. SamePart(R, files, "dao")  BY <2>1, <3>1, OthersKept
    <3>3. D \subseteq DaoPlaces(files)  BY <3>2 DEF DaoPlaces, Written, SamePart
    <3> HIDE DEF D
    <3> QED  BY <3>3 DEF Housed
  <2>2. CASE g = "dao"
    <3>1. Merged(R, O, files, Swept(g, source, files))  BY RunIs
    <3>2. \A p \in DOMAIN O : p[2][2] \in {"dao", "redis_dao", "nested", "helpers"}  BY <2>2, EndingsKnown
    <3> HIDE DEF R, O
    <3>3. D \subseteq DOMAIN O \union DaoPlaces(files)  BY <3>1 DEF DaoPlaces, Written, Merged
    <3> HIDE DEF D
    <3> QED  BY <3>2, <3>3 DEF Housed
  <2> QED  BY <2>1, <2>2
<1> QED  BY <1>1, <1>2 DEF Housed

LEMMA SourceOf ==
    ASSUME TypeOK, NEW g \in Names
    PROVE  Source(g) \in Sources(Feature(g))
<1>1. PICK v \in DOMAIN Declarations[Feature(g)] : Source(g) = Declarations[Feature(g)][v].source
  BY SourceDeclared DEF Declared
<1> QED  BY <1>1 DEF Sources, Range

LEMMA HousedFirst == Housed(Generated)
<1> DEFINE parts == [p \in UNION {DOMAIN Outputs(g, First(g), NoFiles) : g \in Independent} |->
                       Outputs(p[1], First(p[1]), NoFiles)[p]]
           before == Over(HandWritten, parts)
           O == Outputs("entity", First("entity"), NoFiles)
<1>1. Generated = Run("registry", First("registry"), before)  BY DEF Generated
<1>2. \A g \in Names : First(g) \in Sources(Feature(g))
  <2> SUFFICES ASSUME NEW g \in Names PROVE First(g) \in Sources(Feature(g))  OBVIOUS
  <2>1. 1 \in DOMAIN Declarations[Feature(g)]
    BY FeatureKinds, DeclarationsAssumption DEF DeclarationsAssumption
  <2> QED  BY <2>1 DEF First, Sources, Range
<1>3. "entity" \in Names /\ "registry" \in Names /\ Feature("entity") = "entity" BY NamesAre DEF Feature
<1>4. IsFiniteSet(DOMAIN O) /\ \A p \in DOMAIN O : p[2][1] \in Range(PathOrder)
  BY <1>2, <1>3, HousedOutputs
<1>5. ASSUME NEW p \in Written(before) PROVE p \in DOMAIN Outputs(p[1], First(p[1]), NoFiles)
  <2>1. p \in DOMAIN before /\ before[p][1] = "gen"  BY DEF Written
  <2>2. p \in DOMAIN HandWritten \union DOMAIN parts
        /\ (p \in DOMAIN HandWritten => before[p] = HandWritten[p])
    <3> HIDE DEF parts
    <3> QED  BY <2>1 DEF Over
  <2>3. p \notin DOMAIN HandWritten
    <3>1. p \in DOMAIN HandWritten => HandWritten[p] = <<"hand">>  BY DEF HandWritten
    <3>2. <<"hand">>[1] # "gen"  OBVIOUS
    <3> QED  BY <2>1, <2>2, <3>1, <3>2
  <2>4. PICK g \in Independent : p \in DOMAIN Outputs(g, First(g), NoFiles)
    <3>1. p \in DOMAIN parts  BY <2>2, <2>3
    <3>2. DOMAIN parts = UNION {DOMAIN Outputs(g, First(g), NoFiles) : g \in Independent}  OBVIOUS
    <3> QED  BY <3>1, <3>2
  <2>5. g \in Names /\ p[1] = g  BY <2>4, OutputsAre DEF Independent
  <2> QED  BY <2>4, <2>5
<1> HIDE DEF before, O
<1>6. EntityPlaces(before) \subseteq DOMAIN O  BY <1>5 DEF EntityPlaces, O
<1>7. IsFiniteSet(EntityPlaces(before))  BY <1>4, <1>6, FS_Subset
<1>8. \A p \in DaoPlaces(before) : p[2][2] \in {"dao", "redis_dao", "nested", "helpers"}
  <2> SUFFICES ASSUME NEW p \in DaoPlaces(before) PROVE p[2][2] \in {"dao", "redis_dao", "nested", "helpers"}  OBVIOUS
  <2>1. p \in DOMAIN Outputs("dao", First("dao"), NoFiles)  BY <1>5 DEF DaoPlaces
  <2> QED  BY <2>1, EndingsKnown
<1>9. Housed(before)  BY <1>4, <1>6, <1>7, <1>8 DEF Housed
<1> QED  BY <1>1, <1>2, <1>3, <1>9, HousedRun

LEMMA EntityKept == GenInv /\ EntityInv /\ [Next]_vars => EntityInv'
<1> SUFFICES ASSUME GenInv, EntityInv, [Next]_vars PROVE EntityInv'  OBVIOUS
<1>1. CASE UNCHANGED <<out, stage, mode>>
  <2>1. Housed(out)' = Housed(out) /\ Housed(stage)' = Housed(stage)
    BY <1>1 DEF Housed, EntityPlaces, DaoPlaces, Written
  <2> QED  BY <1>1, <2>1 DEF EntityInv
<1>2. CASE out' = out /\ mode' = "idle"
  <2>1. Housed(out)' = Housed(out)  BY <1>2 DEF Housed, EntityPlaces, DaoPlaces, Written
  <2> QED  BY <1>2, <2>1 DEF EntityInv
<1>3. CASE \E v \in 1..10 : Edit(v)  BY <1>1, <1>3 DEF Edit
<1>4. CASE Commit  BY <1>1, <1>4 DEF Commit
<1>5. CASE \E p \in DOMAIN out : RemoveFile(p)
  <2>1. PICK p \in DOMAIN out : RemoveFile(p)  BY <1>5
  <2>2. out' = [q \in DOMAIN out \ {p} |-> out[q]] /\ mode = "idle" /\ mode' = mode  BY <2>1 DEF RemoveFile
  <2>3. EntityPlaces(out') \subseteq EntityPlaces(out) /\ DaoPlaces(out') \subseteq DaoPlaces(out)
    BY <2>2 DEF EntityPlaces, DaoPlaces, Written
  <2>4. Housed(out')  BY <2>3, HousedFewer DEF EntityInv
  <2> QED  BY <2>2, <2>4 DEF EntityInv, Housed, EntityPlaces, DaoPlaces, Written
<1>6. CASE \E m \in {"full", "changed", "check"} : Start(m)
  <2>1. stage' = out /\ out' = out  BY <1>6 DEF Start
  <2>2. Housed(out)' /\ Housed(stage)'  BY <2>1 DEF EntityInv, Housed, EntityPlaces, DaoPlaces, Written
  <2> QED  BY <2>2 DEF EntityInv
<1>7. CASE \E g \in Names : Step(g)
  <2>1. PICK g \in Names : Step(g)  BY <1>7
  <2>2. stage' = Run(g, Source(g), stage) /\ out' = out /\ mode' = mode /\ g \in todo  BY <2>1 DEF Step, Turn
  <2>3. TypeOK /\ mode # "idle"  BY <2>2 DEF GenInv, Shape, TypeOK
  <2>4. Source(g) \in Sources(Feature(g))  BY <2>3, SourceOf
  <2>5. Housed(Run(g, Source(g), stage))  BY <2>3, <2>4, HousedRun DEF EntityInv
  <2>6. Housed(stage)' /\ Housed(out)'
    <3>1. Housed(stage')  BY <2>2, <2>5
    <3> QED  BY <3>1, <2>2 DEF EntityInv, Housed, EntityPlaces, DaoPlaces, Written
  <2> QED  BY <2>6 DEF EntityInv
<1>8. CASE \E g \in Names : Fail(g)  BY <1>2, <1>8 DEF Fail, Drop
<1>9. CASE Publish
  <2>1. out' = Published /\ mode # "idle" /\ mode' = "idle"  BY <1>9 DEF Publish, Drop
  <2>2. FilesOK(out) /\ FilesOK(stage)  BY <2>1 DEF GenInv, Shape
  <2>3. "entity" \in Names \ Unmarked /\ "dao" \in Names \ Unmarked  BY NamesAre DEF Unmarked
  <2>4. SamePart(Published, stage, "entity") /\ SamePart(Published, stage, "dao")  BY <2>2, <2>3, PublishedAre
  <2>5. EntityPlaces(Published) \subseteq EntityPlaces(stage) /\ DaoPlaces(Published) \subseteq DaoPlaces(stage)
    BY <2>4 DEF EntityPlaces, DaoPlaces, Written, SamePart
  <2>6. Housed(Published)  BY <2>1, <2>5, HousedFewer DEF EntityInv
  <2> QED  BY <2>1, <2>6 DEF EntityInv, Housed, EntityPlaces, DaoPlaces, Written
<1>10. CASE Check  BY <1>2, <1>10 DEF Check, Drop
<1>11. CASE Stop  BY <1>2, <1>11 DEF Stop, Killed, Drop
<1>12. CASE UNCHANGED vars  BY <1>1, <1>12 DEF vars
<1> QED  BY <1>3, <1>4, <1>5, <1>6, <1>7, <1>8, <1>9, <1>10, <1>11, <1>12 DEF Next

(* The invariant of the entity and db files, with the one it leans on: the  *)
(* paths the registry scans are packages of the project, stale files        *)
(* included, and a generated db file has one of the endings the generator   *)
(* gives, whatever ran before (registry/parse.go: Scan; dao/main.go).       *)
THEOREM EntitiesHoused == Spec => [](GenInv /\ EntityInv)
<1>1. Init => EntityInv  BY HousedFirst DEF Init, EntityInv
<1> QED  BY <1>1, InitGen, GenStep, EntityKept, PTL DEF Spec

(* registry: the names of packages. *)
IsEnding(path, f, m) ==
    f = [k \in 0..m |-> IF k = 0 THEN <<>> ELSE Registry!SanitizeIdent(path[Len(path) - k + 1]) \o f[k - 1]]

LEMMA EndingExists ==
    ASSUME NEW path, NEW m \in Nat
    PROVE  \E f : IsEnding(path, f, m)
<1> DEFINE R(x, n) == Registry!SanitizeIdent(path[Len(path) - n + 1]) \o x
           Is(s, k) == s = [n \in 0..k |-> IF n = 0 THEN <<>> ELSE R(s[n - 1], n)]
           Bad == {k \in Nat : ~ \E s : Is(s, k)}
<1> HIDE DEF R
<1> SUFFICES ASSUME Bad # {} PROVE FALSE  BY DEF R, IsEnding
<1>1. PICK k \in Bad : \A j \in Bad : k <= j  BY LeastOf
<1>2. Is([n \in 0..0 |-> <<>>], 0)  OBVIOUS
<1>3. k \in Nat /\ k # 0  BY <1>2
<1>4. k - 1 \in Nat /\ k - 1 \notin Bad
  <2>1. \A j \in Bad : k <= j  BY <1>1
  <2> HIDE DEF Bad
  <2> QED  BY <1>3, <2>1
<1>5. PICK s : Is(s, k - 1)  BY <1>4
<1> DEFINE more == [n \in 0..k |-> IF n = 0 THEN <<>> ELSE R(s[n - 1], n)]
<1>6. \A n \in 0..(k - 1) : more[n] = s[n]
  <2> SUFFICES ASSUME NEW n \in 0..(k - 1) PROVE more[n] = s[n]  OBVIOUS
  <2>1. n \in 0..k  BY <1>3
  <2>2. more[n] = IF n = 0 THEN <<>> ELSE R(s[n - 1], n)  BY <2>1
  <2>3. s[n] = IF n = 0 THEN <<>> ELSE R(s[n - 1], n)  BY <1>5
  <2> QED  BY <2>2, <2>3
<1>7. \A n \in 0..k : n # 0 => n - 1 \in 0..(k - 1)  BY <1>3
<1>8. Is(more, k)
  <2>1. \A n \in 0..k : (IF n = 0 THEN <<>> ELSE R(s[n - 1], n)) = (IF n = 0 THEN <<>> ELSE R(more[n - 1], n))
    BY <1>6, <1>7
  <2> QED  BY <2>1
<1> QED  BY <1>1, <1>8

LEMMA KeptIn ==
    ASSUME NEW C, NEW seq \in Seq(C), NEW P \in SUBSET (DOMAIN seq)
    PROVE  Kept(seq, P) \in Seq(C)
<1>1. /\ DOMAIN Kept(seq, P) = 1..Cardinality(P) /\ Cardinality(P) \in Nat
      /\ Kept(seq, P) = [n \in 1..Cardinality(P) |-> Kept(seq, P)[n]]
      /\ \A n \in DOMAIN Kept(seq, P) : \E i \in P : Kept(seq, P)[n] = seq[i]
  BY KeptSeq
<1>2. \A i \in P : seq[i] \in C  OBVIOUS
<1> DEFINE row == Kept(seq, P)
           m == Cardinality(P)
<1> HIDE DEF row, m
<1>3. row = [n \in 1..m |-> row[n]] /\ DOMAIN row = 1..m /\ m \in Nat /\ \A n \in 1..m : row[n] \in C
  BY <1>1, <1>2 DEF row, m
<1> QED  BY <1>3, RowOf DEF row

(* the characters of the names of a project *)
Characters ==
    {"p", "k", "g"} \union (UNION {Range(numeral) : numeral \in Range(Numerals)})
      \union (UNION {UNION {Range(segment) : segment \in Range(path)} : path \in Range(PathOrder)})

LEMMA NamesTyped ==
    /\ \A i \in DOMAIN Numerals : Numerals[i] \in Seq(Characters)
    /\ \A path \in Range(PathOrder) :
          /\ path = [i \in 1..Len(path) |-> path[i]] /\ DOMAIN path = 1..Len(path) /\ Len(path) \in Nat
          /\ \A i \in DOMAIN path : path[i] \in Seq(Characters)
<1>1. /\ \A n \in Range(Numerals) : n \in Seq(Range(n))
      /\ \A path \in Range(PathOrder) :
            path \in Seq(Range(path)) /\ \A segment \in Range(path) : segment \in Seq(Range(segment))
  BY SourcesAssumption DEF SourcesAssumption, RegistrationsAssumption, PathsAssumption, IsList
<1>2. \A i \in DOMAIN Numerals : Numerals[i] \in Range(Numerals)  BY DEF Range
<1>3. \A n \in Range(Numerals) : Range(n) \subseteq Characters  BY DEF Characters
<1>4. \A n \in Range(Numerals) : n \in Seq(Characters)  BY <1>1, <1>3, SeqMonotonic
<1>5. ASSUME NEW path \in Range(PathOrder), NEW i \in DOMAIN path PROVE path[i] \in Seq(Characters)
  <2>1. path[i] \in Range(path)  BY DEF Range
  <2> DEFINE inner == {Range(segment) : segment \in Range(path)}
             outer == {UNION {Range(segment) : segment \in Range(p)} : p \in Range(PathOrder)}
  <2>2. Range(path[i]) \subseteq UNION inner  BY <2>1
  <2>3. UNION inner \in outer  OBVIOUS
  <2>4. UNION outer \subseteq Characters  BY DEF Characters
  <2>5. Range(path[i]) \subseteq Characters
    <3> HIDE DEF inner, outer
    <3> QED  BY <2>2, <2>3, <2>4
  <2> QED  BY <1>1, <2>1, <2>5, SeqMonotonic
<1>6. \A path \in Range(PathOrder) :
         path = [i \in 1..Len(path) |-> path[i]] /\ DOMAIN path = 1..Len(path) /\ Len(path) \in Nat
  BY <1>1
<1> QED  BY <1>2, <1>4, <1>5, <1>6

LEMMA SanitizedIs ==
    ASSUME NEW segment \in Seq(Characters)
    PROVE  Registry!SanitizeIdent(segment) \in Seq(Characters)
<1> DEFINE P == {i \in DOMAIN segment : segment[i] \notin {"_", "-", "."}}
           kept == Kept(segment, P)
<1>1. Registry!SanitizeIdent(segment)
        = IF kept # <<>> /\ kept[1] \in Registry!Digits THEN <<"p">> \o kept ELSE kept
  BY InstancesAre DEF Registry!SanitizeIdent, Registry!Select
<1>2. kept \in Seq(Characters)  BY KeptIn
<1> HIDE DEF kept
<1>3. <<"p">> \in Seq(Characters)  BY DEF Characters
<1>4. <<"p">> \o kept \in Seq(Characters)  BY <1>2, <1>3, ConcatProperties
<1> QED  BY <1>1, <1>2, <1>4

LEMMA EndingIs ==
    ASSUME NEW path \in Range(PathOrder)
    PROVE  Registry!Ending(path, Len(path)) \in Seq(Characters)
<1> DEFINE m == Len(path)
           f == CHOOSE f : IsEnding(path, f, m)
           Bad == {n \in Nat : n \in 0..m /\ f[n] \notin Seq(Characters)}
<1>1. m \in Nat /\ \A i \in 1..m : path[i] \in Seq(Characters)  BY NamesTyped
<1>2. Registry!Ending(path, m) = f[m]  BY DEF Registry!Ending, IsEnding
<1>3. IsEnding(path, f, m)  BY <1>1, EndingExists
<1> HIDE DEF f
<1>4. Bad = {}
  <2> SUFFICES ASSUME Bad # {} PROVE FALSE  OBVIOUS
  <2>1. PICK n \in Bad : \A k \in Bad : n <= k  BY LeastOf
  <2>2. n \in 0..m /\ f[n] \notin Seq(Characters) /\ n \in Nat  BY <2>1
  <2>3. f[n] = IF n = 0 THEN <<>> ELSE Registry!SanitizeIdent(path[Len(path) - n + 1]) \o f[n - 1]
    BY <1>3, <2>2 DEF IsEnding
  <2>4. n # 0
    <3>1. <<>> \in Seq(Characters)  OBVIOUS
    <3> QED  BY <2>2, <2>3, <3>1
  <2>5. n - 1 \in 0..m /\ n - 1 \notin Bad
    <3>1. \A k \in Bad : n <= k  BY <2>1
    <3> HIDE DEF Bad
    <3> QED  BY <1>1, <2>2, <2>4, <3>1
  <2>6. f[n - 1] \in Seq(Characters)  BY <1>1, <2>2, <2>4, <2>5
  <2>7. Len(path) - n + 1 \in 1..m  BY <1>1, <2>2, <2>4
  <2>8. Registry!SanitizeIdent(path[Len(path) - n + 1]) \in Seq(Characters)  BY <1>1, <2>7, SanitizedIs
  <2> QED  BY <2>2, <2>3, <2>4, <2>6, <2>8, ConcatProperties
<1> QED  BY <1>1, <1>2, <1>4

LEMMA NumberedIs ==
    ASSUME NEW base \in Seq(Characters), base # <<>>, NEW used, IsFiniteSet(used),
           Cardinality(used) < Len(Numerals)
    PROVE  Registry!Numbered(base, used) \notin used \union {<<>>}
<1> DEFINE free == {i \in DOMAIN Numerals : base \o Numerals[i] \notin used}
           n == CHOOSE i \in free : \A j \in free : i <= j
           m == Len(Numerals)
<1>1. m \in Nat /\ DOMAIN Numerals = 1..m /\ \A i, j \in 1..m : Numerals[i] = Numerals[j] => i = j
  <2>1. Numerals \in Seq(Range(Numerals)) /\ IsInjective(Numerals)
    BY SourcesAssumption DEF SourcesAssumption, RegistrationsAssumption, PathsAssumption, IsList
  <2> QED  BY <2>1 DEF IsInjective
<1>2. \A i \in 1..m : Numerals[i] \in Seq(Characters)  BY <1>1, NamesTyped
<1>3. \A i, j \in 1..m : base \o Numerals[i] = base \o Numerals[j] => i = j
  BY <1>1, <1>2, ConcatSimplifications
<1>4. \A i \in 1..m : base \o Numerals[i] # <<>>  BY <1>2, ConcatSimplifications
<1> HIDE DEF m
<1>5. free # {}
  <2> SUFFICES ASSUME \A i \in 1..m : base \o Numerals[i] \in used PROVE FALSE  BY <1>1
  <2> DEFINE f == [i \in 1..m |-> base \o Numerals[i]]
  <2>1. f \in [1..m -> used] /\ \A i, j \in 1..m : f[i] = f[j] => i = j  BY <1>3
  <2>2. f \in Injection(1..m, used)  BY <2>1 DEF Injection, IsInjective
  <2>3. Cardinality(1..m) <= Cardinality(used)  BY <2>2, FS_Injection
  <2>4. 1 \in Int /\ m \in Int  BY <1>1
  <2>5. Cardinality(1..m) = IF 1 > m THEN 0 ELSE m - 1 + 1  BY <2>4, FS_Interval
  <2>6. Cardinality(used) \in Nat  BY FS_CardinalityType
  <2> QED  BY <1>1, <2>3, <2>5, <2>6 DEF m
<1>6. n \in free
  <2>1. free \in SUBSET Nat  BY <1>1
  <2>2. \E i \in free : \A j \in free : i <= j  BY <1>5, <2>1, LeastOf
  <2> HIDE DEF free
  <2> QED  BY <2>2
<1>7. Registry!Numbered(base, used) = base \o Numerals[n]  BY DEF Registry!Numbered
<1> HIDE DEF n
<1>8. base \o Numerals[n] \notin used /\ n \in 1..m  BY <1>1, <1>6
<1> QED  BY <1>4, <1>7, <1>8

(* An alias is a name, and none that is in use. *)
LEMMA AliasIs ==
    ASSUME NEW path \in Range(PathOrder), NEW used, IsFiniteSet(used), Cardinality(used) < Len(Numerals)
    PROVE  Registry!UniqueAlias(path, used) \notin used \union {<<>>}
<1> DEFINE Name(n) == Registry!Ending(path, n)
           free == {n \in 1..Len(path) : Name(n) # <<>> /\ Name(n) \notin used}
           base == IF Name(Len(path)) = <<>> THEN <<"p", "k", "g">> ELSE Name(Len(path))
           least == CHOOSE n \in free : \A m \in free : n <= m
<1>1. Registry!UniqueAlias(path, used) = IF free = {} THEN Registry!Numbered(base, used) ELSE Name(least)
  BY DEF Registry!UniqueAlias
<1>2. Name(Len(path)) \in Seq(Characters)  BY EndingIs
<1>3. Len(path) \in Nat  BY NamesTyped
<1> HIDE DEF Name
<1>4. base \in Seq(Characters) /\ base # <<>>
  <2>1. <<"p", "k", "g">> \in Seq(Characters)  BY DEF Characters
  <2>2. <<"p", "k", "g">> # <<>>  OBVIOUS
  <2> QED  BY <1>2, <2>1, <2>2
<1>5. CASE free = {}
  <2> HIDE DEF base
  <2> QED  BY <1>1, <1>4, <1>5, NumberedIs
<1>6. CASE free # {}
  <2>1. free \in SUBSET Nat  BY <1>3
  <2>2. \E n \in free : \A m \in free : n <= m  BY <1>6, <2>1, LeastOf
  <2>3. least \in free
    <3> HIDE DEF free
    <3> QED  BY <2>2
  <2> HIDE DEF least
  <2> QED  BY <1>1, <1>6, <2>3
<1> QED  BY <1>5, <1>6

IsRow(s, n) == DOMAIN s = 1..n /\ s = [i \in 1..n |-> s[i]]

LEMMA RowFinite ==
    ASSUME NEW n \in Nat, NEW s, IsRow(s, n)
    PROVE  LET S == {s[i] : i \in 1..n}
           IN  IsFiniteSet(S) /\ Cardinality(S) <= n
<1> DEFINE S == {s[i] : i \in 1..n}
<1>1. s \in Surjection(1..n, S)  BY DEF IsRow, Surjection
<1> HIDE DEF S
<1>2. IsFiniteSet(1..n) /\ Cardinality(1..n) = n
  <2>1. 1 \in Int /\ n \in Int  OBVIOUS
  <2>2. IsFiniteSet(1..n) /\ Cardinality(1..n) = IF 1 > n THEN 0 ELSE n - 1 + 1  BY <2>1, FS_Interval
  <2> QED  BY <2>2
<1>3. IsFiniteSet(S) /\ Cardinality(S) <= n  BY <1>1, <1>2, FS_Surjection
<1> QED  BY <1>3 DEF S

(* the aliases of the first n paths *)
NextAliases(paths, before, n) ==
    Append(before, Registry!UniqueAlias(paths[n],
                      Registry!AggregateReservedNames \union Registry!Range(before)))

IsNamed(paths, f, m) ==
    f = [n \in 0..m |-> IF n = 0 THEN <<>> ELSE NextAliases(paths, f[n - 1], n)]

LEMMA NamedExists ==
    ASSUME NEW paths, NEW m \in Nat
    PROVE  \E f : IsNamed(paths, f, m)
<1> DEFINE R(x, n) == NextAliases(paths, x, n)
           Is(s, k) == s = [n \in 0..k |-> IF n = 0 THEN <<>> ELSE R(s[n - 1], n)]
           Bad == {k \in Nat : ~ \E s : Is(s, k)}
<1> HIDE DEF R
<1> SUFFICES ASSUME Bad # {} PROVE FALSE  BY DEF R, IsNamed
<1>1. PICK k \in Bad : \A j \in Bad : k <= j  BY LeastOf
<1>2. Is([n \in 0..0 |-> <<>>], 0)  OBVIOUS
<1>3. k \in Nat /\ k # 0  BY <1>2
<1>4. k - 1 \in Nat /\ k - 1 \notin Bad
  <2>1. \A j \in Bad : k <= j  BY <1>1
  <2> HIDE DEF Bad
  <2> QED  BY <1>3, <2>1
<1>5. PICK s : Is(s, k - 1)  BY <1>4
<1> DEFINE more == [n \in 0..k |-> IF n = 0 THEN <<>> ELSE R(s[n - 1], n)]
<1>6. \A n \in 0..(k - 1) : more[n] = s[n]
  <2> SUFFICES ASSUME NEW n \in 0..(k - 1) PROVE more[n] = s[n]  OBVIOUS
  <2>1. n \in 0..k  BY <1>3
  <2>2. more[n] = IF n = 0 THEN <<>> ELSE R(s[n - 1], n)  BY <2>1
  <2>3. s[n] = IF n = 0 THEN <<>> ELSE R(s[n - 1], n)  BY <1>5
  <2> QED  BY <2>2, <2>3
<1>7. \A n \in 0..k : n # 0 => n - 1 \in 0..(k - 1)  BY <1>3
<1>8. Is(more, k)
  <2>1. \A n \in 0..k : (IF n = 0 THEN <<>> ELSE R(s[n - 1], n)) = (IF n = 0 THEN <<>> ELSE R(more[n - 1], n))
    BY <1>6, <1>7
  <2> QED  BY <2>1
<1> QED  BY <1>1, <1>8

LEMMA ReservedFinite == IsFiniteSet(Registry!AggregateReservedNames)
<1>1. Registry!AggregateReservedNames
        = (({} \union {<<"r", "e", "g">>}) \union {<<"e", "n", "t">>}) \union {<<"f", "m", "t">>}
  BY DEF Registry!AggregateReservedNames
<1>2. IsFiniteSet({} \union {<<"r", "e", "g">>})  BY FS_EmptySet, FS_AddElement
<1> QED  BY <1>1, <1>2, FS_AddElement

(* the aliases of n paths are n names of their own *)
Named(s, n) ==
    /\ IsRow(s, n)
    /\ \A i \in 1..n : s[i] \notin Registry!AggregateReservedNames \union {<<>>}
    /\ \A i, j \in 1..n : s[i] = s[j] => i = j

LEMMA NamedMore ==
    ASSUME NEW n \in Nat, NEW s, Named(s, n), NEW e, e \notin Registry!AggregateReservedNames \union {<<>>},
           \A i \in 1..n : s[i] # e
    PROVE  Named(Append(s, e), n + 1)
<1> DEFINE S == {s[i] : i \in 1..n} \union {e}
           longer == Append(s, e)
<1>1. s \in Seq(S) /\ Len(s) = n
  <2>1. \A i \in 1..n : s[i] \in S  OBVIOUS
  <2> HIDE DEF S
  <2>2. s \in Seq(S) /\ Len(s) = n  BY <2>1, RowOf DEF Named, IsRow
  <2> QED  BY <2>2
<1>2. e \in S  OBVIOUS
<1> HIDE DEF S
<1>3. /\ longer \in Seq(S) /\ Len(longer) = n + 1
      /\ \A i \in 1..n : longer[i] = s[i]
      /\ longer[n + 1] = e
  BY <1>1, <1>2, AppendProperties
<1> HIDE DEF longer
<1>4. DOMAIN longer = 1..(n + 1) /\ longer \in [1..(n + 1) -> S]  BY <1>3, LenProperties
<1>5. IsRow(longer, n + 1)  BY <1>4 DEF IsRow
<1>6. \A i \in 1..(n + 1) : i = n + 1 \/ i \in 1..n  OBVIOUS
<1>7. Named(longer, n + 1)  BY <1>3, <1>5, <1>6 DEF Named
<1> QED  BY <1>7 DEF longer

LEMMA NamedOne ==
    ASSUME NEW paths, NEW n \in Nat, NEW s, Named(s, n), paths[n + 1] \in Range(PathOrder), n < Len(PathOrder)
    PROVE  Named(NextAliases(paths, s, n + 1), n + 1)
<1> DEFINE used == Registry!AggregateReservedNames \union Registry!Range(s)
           e == Registry!UniqueAlias(paths[n + 1], used)
           S == {s[i] : i \in 1..n}
<1>1. Registry!Range(s) = S  BY DEF Registry!Range, Named, IsRow
<1>2. IsFiniteSet(S) /\ Cardinality(S) <= n  BY RowFinite DEF Named
<1> HIDE DEF S
<1>3. IsFiniteSet(used) /\ Cardinality(used) < Len(Numerals)
  <2> DEFINE A == Registry!AggregateReservedNames
  <2>1. IsFiniteSet(A)  BY ReservedFinite
  <2>2. Cardinality(A) = Registry!Cardinality(A)  BY InstancesAre
  <2>3. Len(Numerals) >= Len(PathOrder) + Cardinality(A) /\ Len(Numerals) \in Nat /\ Len(PathOrder) \in Nat
    BY SourcesAssumption DEF SourcesAssumption, RegistrationsAssumption, PathsAssumption, IsList
  <2> HIDE DEF A
  <2>4. IsFiniteSet(A \union S) /\ Cardinality(A \union S) = Cardinality(A) + Cardinality(S) - Cardinality(A \intersect S)
    BY <1>2, <2>1, FS_Union
  <2>5. IsFiniteSet(A \intersect S)
    <3>1. A \intersect S \in SUBSET A  OBVIOUS
    <3> QED  BY <2>1, <3>1, FS_Subset
  <2>6. Cardinality(A) \in Nat /\ Cardinality(S) \in Nat /\ Cardinality(A \intersect S) \in Nat
    BY <1>2, <2>1, <2>5, FS_CardinalityType
  <2>7. Cardinality(A \union S) < Len(Numerals)
    <3> DEFINE a == Cardinality(A)
               b == Cardinality(S)
               c == Cardinality(A \intersect S)
               d == Cardinality(A \union S)
               l == Len(Numerals)
               k == Len(PathOrder)
    <3>1. a \in Nat /\ b \in Nat /\ c \in Nat /\ d = a + b - c /\ b <= n /\ n < k /\ l >= k + a /\ l \in Nat /\ k \in Nat
      BY <1>2, <2>3, <2>4, <2>6
    <3> HIDE DEF a, b, c, d, l, k
    <3>2. d < l  BY <3>1
    <3> QED  BY <3>2 DEF d, l
  <2> QED  BY <1>1, <2>4, <2>7 DEF A
<1>4. e \notin used \union {<<>>}
  <2> HIDE DEF used
  <2> QED  BY <1>3, AliasIs
<1>5. NextAliases(paths, s, n + 1) = Append(s, e)  BY DEF NextAliases
<1>6. e \notin Registry!AggregateReservedNames \union {<<>>} /\ \A i \in 1..n : s[i] # e
  BY <1>1, <1>4 DEF S
<1> HIDE DEF e, used
<1>7. Named(Append(s, e), n + 1)  BY <1>6, NamedMore
<1> QED  BY <1>5, <1>7

LEMMA AliasesAre ==
    ASSUME NEW paths, NEW m \in Nat, Len(paths) = m, \A n \in 1..m : paths[n] \in Range(PathOrder),
           m <= Len(PathOrder)
    PROVE  Named(Registry!Aliases(paths), m)
<1> DEFINE f == CHOOSE f : IsNamed(paths, f, m)
           Bad == {n \in Nat : n \in 0..m /\ ~Named(f[n], n)}
<1>1. Registry!Aliases(paths) = f[m]  BY DEF Registry!Aliases, IsNamed, NextAliases
<1>2. IsNamed(paths, f, m)  BY NamedExists
<1> HIDE DEF f
<1>3. Len(PathOrder) \in Nat
  BY SourcesAssumption DEF SourcesAssumption, RegistrationsAssumption, PathsAssumption, IsList
<1>4. Bad = {}
  <2> SUFFICES ASSUME Bad # {} PROVE FALSE  OBVIOUS
  <2>1. PICK n \in Bad : \A k \in Bad : n <= k  BY LeastOf
  <2>2. n \in 0..m /\ n \in Nat /\ ~Named(f[n], n)  BY <2>1
  <2>3. f[n] = IF n = 0 THEN <<>> ELSE NextAliases(paths, f[n - 1], n)  BY <1>2, <2>2 DEF IsNamed
  <2>4. n # 0
    <3>1. Named(<<>>, 0)  BY DEF Named, IsRow
    <3> QED  BY <2>2, <2>3, <3>1
  <2>5. n - 1 \in Nat /\ n - 1 \notin Bad
    <3>1. \A k \in Bad : n <= k  BY <2>1
    <3> HIDE DEF Bad
    <3> QED  BY <2>2, <2>4, <3>1
  <2>6. Named(f[n - 1], n - 1)  BY <2>2, <2>4, <2>5
  <2> DEFINE k == n - 1
  <2>7. k \in Nat /\ k + 1 = n /\ k < Len(PathOrder) /\ paths[k + 1] \in Range(PathOrder) /\ Named(f[k], k)
    BY <1>3, <2>2, <2>4, <2>6
  <2>8. f[n] = NextAliases(paths, f[k], k + 1)  BY <2>3, <2>4, <2>7
  <2> HIDE DEF k
  <2>9. Named(NextAliases(paths, f[k], k + 1), k + 1)  BY <2>7, NamedOne
  <2> QED  BY <2>2, <2>7, <2>8, <2>9
<1> QED  BY <1>1, <1>4

LEMMA LexIs ==
    ASSUME NEW a1 \in Int, NEW a2 \in Int, NEW a3 \in Int, NEW a4 \in Int,
           NEW b1 \in Int, NEW b2 \in Int, NEW b3 \in Int, NEW b4 \in Int
    PROVE  (\E i \in 1..4 : /\ <<a1, a2, a3, a4>>[i] < <<b1, b2, b3, b4>>[i]
                            /\ \A j \in 1..(i - 1) : <<a1, a2, a3, a4>>[j] = <<b1, b2, b3, b4>>[j])
           <=> \/ a1 < b1
               \/ a1 = b1 /\ a2 < b2
               \/ a1 = b1 /\ a2 = b2 /\ a3 < b3
               \/ a1 = b1 /\ a2 = b2 /\ a3 = b3 /\ a4 < b4
<1> DEFINE a == <<a1, a2, a3, a4>>
           b == <<b1, b2, b3, b4>>
           P(i) == a[i] < b[i] /\ \A j \in 1..(i - 1) : a[j] = b[j]
<1>1. a[1] = a1 /\ a[2] = a2 /\ a[3] = a3 /\ a[4] = a4 /\ b[1] = b1 /\ b[2] = b2 /\ b[3] = b3 /\ b[4] = b4
  OBVIOUS
<1> HIDE DEF a, b
<1>2. P(1) <=> a1 < b1
  <2>1. 1..(1 - 1) = {}  OBVIOUS
  <2> QED  BY <1>1, <2>1
<1>3. P(2) <=> a1 = b1 /\ a2 < b2
  <2>1. 1..(2 - 1) = {1}  OBVIOUS
  <2> QED  BY <1>1, <2>1
<1>4. P(3) <=> a1 = b1 /\ a2 = b2 /\ a3 < b3
  <2>1. 1..(3 - 1) = {1, 2}  OBVIOUS
  <2> QED  BY <1>1, <2>1
<1>5. P(4) <=> a1 = b1 /\ a2 = b2 /\ a3 = b3 /\ a4 < b4
  <2>1. 1..(4 - 1) = {1, 2, 3}  OBVIOUS
  <2> QED  BY <1>1, <2>1
<1>6. 1..4 = {1, 2, 3, 4}  OBVIOUS
<1>7. (\E i \in 1..4 : P(i)) <=> P(1) \/ P(2) \/ P(3) \/ P(4)
  <2> HIDE DEF P
  <2> QED  BY <1>6
<1> HIDE DEF P
<1>8. (\E i \in 1..4 : P(i)) <=>
               \/ a1 < b1
               \/ a1 = b1 /\ a2 < b2
               \/ a1 = b1 /\ a2 = b2 /\ a3 < b3
               \/ a1 = b1 /\ a2 = b2 /\ a3 = b3 /\ a4 < b4
  BY <1>2, <1>3, <1>4, <1>5, <1>7
<1> QED  BY <1>8 DEF P, a, b

(* an order by four numbers, the first that differs deciding *)
Graded(S, order, a, b, c, d) ==
    /\ \A x \in S : a[x] \in Int /\ b[x] \in Int /\ c[x] \in Int /\ d[x] \in Int
    /\ \A x, y \in S : <<x, y>> \in order <=>
           \/ a[x] < a[y]
           \/ a[x] = a[y] /\ b[x] < b[y]
           \/ a[x] = a[y] /\ b[x] = b[y] /\ c[x] < c[y]
           \/ a[x] = a[y] /\ b[x] = b[y] /\ c[x] = c[y] /\ d[x] < d[y]
    /\ \A x, y \in S : a[x] = a[y] /\ b[x] = b[y] /\ c[x] = c[y] /\ d[x] = d[y] => x = y

LEMMA ByNumbers ==
    ASSUME NEW S, NEW order, NEW a, NEW b, NEW c, NEW d, Graded(S, order, a, b, c, d)
    PROVE  Ordering(S, order)
<1> USE DEF Graded
<1>1. ASSUME NEW x \in S PROVE <<x, x>> \notin order
  <2>1. a[x] \in Int /\ b[x] \in Int /\ c[x] \in Int /\ d[x] \in Int  OBVIOUS
  <2>2. ~(a[x] < a[x]) /\ ~(b[x] < b[x]) /\ ~(c[x] < c[x]) /\ ~(d[x] < d[x])  BY <2>1
  <2> QED  BY <2>2
<1>2. ASSUME NEW x \in S, NEW y \in S, x # y PROVE <<x, y>> \in order \/ <<y, x>> \in order
  <2>1. a[x] \in Int /\ b[x] \in Int /\ c[x] \in Int /\ d[x] \in Int
        /\ a[y] \in Int /\ b[y] \in Int /\ c[y] \in Int /\ d[y] \in Int
    OBVIOUS
  <2>2. a[x] # a[y] \/ b[x] # b[y] \/ c[x] # c[y] \/ d[x] # d[y]  BY <1>2
  <2> QED  BY <2>1, <2>2
<1>3. ASSUME NEW x \in S, NEW y \in S, NEW z \in S, <<x, y>> \in order, <<y, z>> \in order
      PROVE  <<x, z>> \in order
  <2> DEFINE Lower(u, v) == \/ a[u] < a[v]
                            \/ a[u] = a[v] /\ b[u] < b[v]
                            \/ a[u] = a[v] /\ b[u] = b[v] /\ c[u] < c[v]
                            \/ a[u] = a[v] /\ b[u] = b[v] /\ c[u] = c[v] /\ d[u] < d[v]
  <2>1. Lower(x, y) /\ Lower(y, z)  BY <1>3
  <2>2. a[x] \in Int /\ b[x] \in Int /\ c[x] \in Int /\ d[x] \in Int
        /\ a[y] \in Int /\ b[y] \in Int /\ c[y] \in Int /\ d[y] \in Int
        /\ a[z] \in Int /\ b[z] \in Int /\ c[z] \in Int /\ d[z] \in Int
    OBVIOUS
  <2>3. Lower(x, z)  BY <2>1, <2>2
  <2> QED  BY <2>3
<1> QED  BY <1>1, <1>2, <1>3 DEF Ordering

LEMMA PositionIs ==
    ASSUME NEW seq, NEW i \in DOMAIN seq
    PROVE  Registry!Position(seq, seq[i]) \in DOMAIN seq /\ seq[Registry!Position(seq, seq[i])] = seq[i]
BY DEF Registry!Position

(* what the registry generator is given, when it does not refuse it *)
Registrations(fns) ==
    /\ IsFiniteSet(fns) /\ ~Registry!Rejected(fns)
    /\ \A fn \in fns : fn.path \in Range(PathOrder) /\ fn.rank \in Int /\ Registry!Order(fn) \in Int
    /\ \A fn, other \in fns :
          fn.path = other.path /\ fn.rank = other.rank /\ Registry!Phase(fn) = Registry!Phase(other)
             => fn.func = other.func

PhaseAt(fn) == Registry!Position(Registry!Phases, Registry!Phase(fn))
PathAt(fn) == Registry!Position(PathOrder, fn.path)

LEMMA PlacesAre ==
    ASSUME NEW fns, Registrations(fns)
    PROVE  /\ \A fn \in fns : /\ PhaseAt(fn) \in Int /\ Registry!Phases[PhaseAt(fn)] = Registry!Phase(fn)
                              /\ PathAt(fn) \in Int /\ PathOrder[PathAt(fn)] = fn.path
           /\ \A fn, other \in fns : fn.path = other.path /\ fn.func = other.func => fn = other
<1>1. ASSUME NEW fn \in fns PROVE PhaseAt(fn) \in Int /\ Registry!Phases[PhaseAt(fn)] = Registry!Phase(fn)
  <2>1. Registry!Phase(fn) \in Registry!Range(Registry!Phases)
    BY DEF Registrations, Registry!Rejected, Registry!BadMarker
  <2>2. DOMAIN Registry!Phases = 1..9  BY DEF Registry!Phases
  <2>3. PICK i \in DOMAIN Registry!Phases : Registry!Phase(fn) = Registry!Phases[i]  BY <2>1 DEF Registry!Range
  <2> QED  BY <2>2, <2>3, PositionIs DEF PhaseAt
<1>2. ASSUME NEW fn \in fns PROVE PathAt(fn) \in Int /\ PathOrder[PathAt(fn)] = fn.path
  <2>1. PICK i \in DOMAIN PathOrder : fn.path = PathOrder[i]  BY DEF Registrations, Range
  <2>2. DOMAIN PathOrder \subseteq Int
    BY SourcesAssumption DEF SourcesAssumption, RegistrationsAssumption, PathsAssumption, IsList
  <2> QED  BY <2>1, <2>2, PositionIs DEF PathAt
<1>3. \A fn, other \in fns : fn.path = other.path /\ fn.func = other.func => fn = other
  BY DEF Registrations, Registry!Rejected, Registry!Key
<1> QED  BY <1>1, <1>2, <1>3

LEMMA BeforeIs ==
    ASSUME NEW fns, Registrations(fns), NEW fn \in fns, NEW other \in fns
    PROVE  Registry!Before(fn, other) <=>
               \/ PhaseAt(fn) < PhaseAt(other)
               \/ PhaseAt(fn) = PhaseAt(other) /\ Registry!Order(fn) < Registry!Order(other)
               \/ /\ PhaseAt(fn) = PhaseAt(other) /\ Registry!Order(fn) = Registry!Order(other)
                  /\ PathAt(fn) < PathAt(other)
               \/ /\ PhaseAt(fn) = PhaseAt(other) /\ Registry!Order(fn) = Registry!Order(other)
                  /\ PathAt(fn) = PathAt(other) /\ fn.rank < other.rank
<1> DEFINE r(f) == <<PhaseAt(f), Registry!Order(f), PathAt(f), f.rank>>
<1>1. Registry!Before(fn, other)
        <=> \E i \in 1..4 : r(fn)[i] < r(other)[i] /\ \A j \in 1..(i - 1) : r(fn)[j] = r(other)[j]
  BY DEF Registry!Before, PhaseAt, PathAt
<1>2. \A f \in {fn, other} : PhaseAt(f) \in Int /\ Registry!Order(f) \in Int /\ PathAt(f) \in Int /\ f.rank \in Int
  BY PlacesAre DEF Registrations
<1> QED  BY <1>1, <1>2, LexIs

LEMMA CallsOrdered ==
    ASSUME NEW fns, Registrations(fns)
    PROVE  LET row == Registry!Sorted(fns)
           IN  /\ Cardinality(fns) \in Nat /\ row \in [1..Cardinality(fns) -> fns]
               /\ \A fn \in fns : \E i \in 1..Cardinality(fns) : row[i] = fn
               /\ \A i, j \in 1..Cardinality(fns) :
                     i < j => \/ PhaseAt(row[i]) < PhaseAt(row[j])
                              \/ /\ PhaseAt(row[i]) = PhaseAt(row[j])
                                 /\ Registry!Order(row[i]) <= Registry!Order(row[j])
<1> DEFINE order == {pair \in fns \X fns : Registry!Before(pair[1], pair[2])}
           a == [fn \in fns |-> PhaseAt(fn)]
           b == [fn \in fns |-> Registry!Order(fn)]
           c == [fn \in fns |-> PathAt(fn)]
           d == [fn \in fns |-> fn.rank]
           row == InOrder(fns, order)
           m == Cardinality(fns)
<1>1. Registry!Sorted(fns) = row  BY InstancesAre DEF Registry!Sorted
<1>2. \A fn \in fns : a[fn] = PhaseAt(fn) /\ b[fn] = Registry!Order(fn) /\ c[fn] = PathAt(fn) /\ d[fn] = fn.rank
  OBVIOUS
<1>3. \A fn \in fns : PhaseAt(fn) \in Int /\ Registry!Order(fn) \in Int /\ PathAt(fn) \in Int /\ fn.rank \in Int
  BY PlacesAre DEF Registrations
<1>4. \A fn, other \in fns : <<fn, other>> \in order <=> Registry!Before(fn, other)  OBVIOUS
<1> HIDE DEF order, a, b, c, d
<1>5. ASSUME NEW fn \in fns, NEW other \in fns,
             a[fn] = a[other] /\ b[fn] = b[other] /\ c[fn] = c[other] /\ d[fn] = d[other]
      PROVE  fn = other
  <2>1. PhaseAt(fn) = PhaseAt(other) /\ PathAt(fn) = PathAt(other) /\ fn.rank = other.rank  BY <1>2, <1>5
  <2>2. Registry!Phase(fn) = Registry!Phase(other) /\ fn.path = other.path  BY <2>1, PlacesAre
  <2>3. fn.func = other.func  BY <2>1, <2>2 DEF Registrations
  <2> QED  BY <2>2, <2>3, PlacesAre
<1>6. ASSUME NEW x \in fns, NEW y \in fns
      PROVE  <<x, y>> \in order <=>
               \/ a[x] < a[y]
               \/ a[x] = a[y] /\ b[x] < b[y]
               \/ a[x] = a[y] /\ b[x] = b[y] /\ c[x] < c[y]
               \/ a[x] = a[y] /\ b[x] = b[y] /\ c[x] = c[y] /\ d[x] < d[y]
  BY <1>2, <1>4, BeforeIs
<1>7. \A fn \in fns : a[fn] \in Int /\ b[fn] \in Int /\ c[fn] \in Int /\ d[fn] \in Int  BY <1>2, <1>3
<1>8. Ordering(fns, order)
  <2>1. Graded(fns, order, a, b, c, d)  BY <1>5, <1>6, <1>7 DEF Graded
  <2> QED  BY <2>1, ByNumbers
<1>9. /\ m \in Nat /\ row \in [1..m -> fns]
      /\ \A fn \in fns : \E i \in 1..m : row[i] = fn
      /\ \A i, j \in 1..m : <<row[i], row[j]>> \in order <=> i < j
  BY <1>8, InOrderIs DEF Registrations
<1> HIDE DEF row, m
<1>10. ASSUME NEW i \in 1..m, NEW j \in 1..m, i < j
       PROVE  \/ PhaseAt(row[i]) < PhaseAt(row[j])
              \/ /\ PhaseAt(row[i]) = PhaseAt(row[j])
                 /\ Registry!Order(row[i]) <= Registry!Order(row[j])
  <2>1. <<row[i], row[j]>> \in order /\ row[i] \in fns /\ row[j] \in fns  BY <1>9, <1>10
  <2> DEFINE x == row[i]
             y == row[j]
  <2> HIDE DEF x, y
  <2>2. x \in fns /\ y \in fns /\ Registry!Before(x, y)  BY <1>4, <2>1 DEF x, y
  <2>3. Registry!Order(x) \in Int /\ Registry!Order(y) \in Int  BY <1>3, <2>2
  <2>4. PhaseAt(x) < PhaseAt(y) \/ (PhaseAt(x) = PhaseAt(y) /\ Registry!Order(x) <= Registry!Order(y))
    BY <2>2, <2>3, BeforeIs
  <2> QED  BY <2>4 DEF x, y
<1> QED  BY <1>1, <1>9, <1>10 DEF m

LEMMA ImportsAre ==
    ASSUME NEW fns, Registrations(fns)
    PROVE  LET imports == Registry!ImportAliases(fns)
           IN  /\ \A p, q \in DOMAIN imports : imports[p] = imports[q] => p = q
               /\ \A p \in DOMAIN imports : imports[p] \notin Registry!AggregateReservedNames \union {<<>>}
               /\ \A fn \in fns : fn.path # Registry!OwnPath => fn.path \in DOMAIN imports
<1> DEFINE P == {i \in DOMAIN PathOrder : PathOrder[i] # Registry!OwnPath /\ \E fn \in fns : fn.path = PathOrder[i]}
           paths == Kept(PathOrder, P)
           aliases == Registry!Aliases(paths)
           S == Registry!Range(paths)
           imports == [p \in S |-> aliases[Registry!Position(paths, p)]]
           m == Cardinality(P)
<1>1. Registry!ImportAliases(fns) = imports  BY InstancesAre DEF Registry!ImportAliases, Registry!Select
<1>2. PathOrder \in Seq(Range(PathOrder))
  BY SourcesAssumption DEF SourcesAssumption, RegistrationsAssumption, PathsAssumption, IsList
<1>3. DOMAIN PathOrder = 1..Len(PathOrder) /\ Len(PathOrder) \in Nat  BY <1>2
<1>4. P \in SUBSET (DOMAIN PathOrder)  OBVIOUS
<1>5. \A fn \in fns : fn.path # Registry!OwnPath => \E i \in P : PathOrder[i] = fn.path
  BY DEF Registrations, Range
<1> HIDE DEF P
<1>6. /\ DOMAIN paths = 1..m /\ m \in Nat
      /\ paths = [n \in 1..m |-> paths[n]]
      /\ \A n \in DOMAIN paths : \E i \in P : paths[n] = PathOrder[i]
      /\ \A i \in P : \E n \in DOMAIN paths : paths[n] = PathOrder[i]
  BY <1>2, <1>4, KeptSeq
<1>7. m <= Len(PathOrder)
  <2>1. 1 \in Int /\ Len(PathOrder) \in Int  BY <1>3
  <2>2. IsFiniteSet(1..Len(PathOrder))
        /\ Cardinality(1..Len(PathOrder)) = IF 1 > Len(PathOrder) THEN 0 ELSE Len(PathOrder) - 1 + 1
    BY <2>1, FS_Interval
  <2>3. P \in SUBSET (1..Len(PathOrder))  BY <1>3, <1>4
  <2>4. m <= Cardinality(1..Len(PathOrder))  BY <2>2, <2>3, FS_Subset
  <2> QED  BY <1>3, <2>2, <2>4
<1> HIDE DEF m, paths
<1>8. \A n \in 1..m : paths[n] \in Range(PathOrder)  BY <1>4, <1>6 DEF Range
<1>9. Len(paths) = m
  <2>1. \A n \in 1..m : paths[n] \in Range(PathOrder)  BY <1>8
  <2> QED  BY <1>6, <2>1, RowOf
<1>10. Named(aliases, m)  BY <1>6, <1>7, <1>8, <1>9, AliasesAre
<1> HIDE DEF aliases
<1>11. ASSUME NEW p \in S
       PROVE  /\ Registry!Position(paths, p) \in 1..m
              /\ paths[Registry!Position(paths, p)] = p
  <2>1. PICK i \in DOMAIN paths : p = paths[i]  BY DEF Registry!Range
  <2> QED  BY <1>6, <2>1, PositionIs
<1>12. \A p \in S : imports[p] = aliases[Registry!Position(paths, p)]  OBVIOUS
<1>13. DOMAIN imports = S  OBVIOUS
<1>14. \A fn \in fns : fn.path # Registry!OwnPath => fn.path \in S
  BY <1>5, <1>6 DEF Registry!Range
<1> HIDE DEF S, imports
<1>15. \A p, q \in S : imports[p] = imports[q] => p = q
  <2> SUFFICES ASSUME NEW p \in S, NEW q \in S, imports[p] = imports[q] PROVE p = q  OBVIOUS
  <2>1. Registry!Position(paths, p) = Registry!Position(paths, q)  BY <1>10, <1>11, <1>12 DEF Named
  <2> QED  BY <1>11, <2>1
<1>16. \A p \in S : imports[p] \notin Registry!AggregateReservedNames \union {<<>>}
  BY <1>10, <1>11, <1>12 DEF Named
<1> QED  BY <1>1, <1>13, <1>14, <1>15, <1>16

LEMMA RegistersAre ==
    ASSUME NEW fns, Registrations(fns)
    PROVE  Registry!Registers(fns, Registry!Content(fns))
<1> DEFINE row == Registry!Sorted(fns)
           m == Cardinality(fns)
           calls == [i \in DOMAIN row |->
                        [path |-> row[i].path, func |-> row[i].func,
                         phase |-> Registry!Phase(row[i]), checked |-> row[i].results = <<"error">>]]
           content == [imports |-> Registry!ImportAliases(fns), calls |-> calls]
           Of(c) == CHOOSE fn \in fns : fn.path = c.path /\ fn.func = c.func
<1>1. Registry!Content(fns) = content  BY DEF Registry!Content
<1>2. /\ m \in Nat /\ row \in [1..m -> fns]
      /\ \A fn \in fns : \E i \in 1..m : row[i] = fn
      /\ \A i, j \in 1..m :
            i < j => \/ PhaseAt(row[i]) < PhaseAt(row[j])
                     \/ /\ PhaseAt(row[i]) = PhaseAt(row[j])
                        /\ Registry!Order(row[i]) <= Registry!Order(row[j])
  BY CallsOrdered
<1> HIDE DEF row, m
<1>3. DOMAIN calls = 1..m
      /\ \A i \in 1..m : /\ row[i] \in fns /\ calls[i].path = row[i].path /\ calls[i].func = row[i].func
                         /\ calls[i].phase = Registry!Phase(row[i])
                         /\ calls[i].checked = (row[i].results = <<"error">>)
  BY <1>2
<1>4. Len(calls) = m /\ Registry!Cardinality(fns) = m
  <2>1. calls = [i \in 1..m |-> calls[i]]  BY <1>3
  <2> QED  BY <1>2, <2>1, InstancesAre DEF m
<1> HIDE DEF calls
<1>5. ASSUME NEW i \in 1..m PROVE Of(calls[i]) = row[i]
  <2>1. \A fn \in fns : fn.path = calls[i].path /\ fn.func = calls[i].func => fn = row[i]
    BY <1>3, PlacesAre
  <2>2. row[i] \in fns /\ row[i].path = calls[i].path /\ row[i].func = calls[i].func  BY <1>3
  <2> QED  BY <2>1, <2>2
<1> HIDE DEF Of
<1>6. {<<calls[i].path, calls[i].func>> : i \in DOMAIN calls} = {Registry!Key(fn) : fn \in fns}
  <2>1. ASSUME NEW i \in DOMAIN calls PROVE <<calls[i].path, calls[i].func>> \in {Registry!Key(fn) : fn \in fns}
    BY <1>3 DEF Registry!Key
  <2>2. ASSUME NEW fn \in fns PROVE Registry!Key(fn) \in {<<calls[i].path, calls[i].func>> : i \in DOMAIN calls}
    <3>1. PICK i \in 1..m : row[i] = fn  BY <1>2
    <3>2. i \in DOMAIN calls /\ Registry!Key(fn) = <<calls[i].path, calls[i].func>>
      BY <1>3, <3>1 DEF Registry!Key
    <3> QED  BY <3>2
  <2> QED  BY <2>1, <2>2
<1>7. \A i, j \in DOMAIN calls :
         i < j => \/ Registry!Position(Registry!Phases, calls[i].phase)
                        < Registry!Position(Registry!Phases, calls[j].phase)
                  \/ /\ calls[i].phase = calls[j].phase
                     /\ Registry!Order(Of(calls[i])) <= Registry!Order(Of(calls[j]))
  <2> SUFFICES ASSUME NEW i \in 1..m, NEW j \in 1..m, i < j
               PROVE  \/ Registry!Position(Registry!Phases, calls[i].phase)
                           < Registry!Position(Registry!Phases, calls[j].phase)
                      \/ /\ calls[i].phase = calls[j].phase
                         /\ Registry!Order(Of(calls[i])) <= Registry!Order(Of(calls[j]))
    BY <1>3
  <2>1. /\ Registry!Position(Registry!Phases, calls[i].phase) = PhaseAt(row[i])
        /\ Registry!Position(Registry!Phases, calls[j].phase) = PhaseAt(row[j])
    BY <1>3 DEF PhaseAt
  <2>2. CASE PhaseAt(row[i]) < PhaseAt(row[j])  BY <2>1, <2>2
  <2>3. CASE PhaseAt(row[i]) = PhaseAt(row[j]) /\ Registry!Order(row[i]) <= Registry!Order(row[j])
    <3>1. calls[i].phase = calls[j].phase
      <4>1. row[i] \in fns /\ row[j] \in fns  BY <1>3
      <4>2. Registry!Phase(row[i]) = Registry!Phase(row[j])  BY <2>3, <4>1, PlacesAre
      <4> QED  BY <1>3, <4>2
    <3> QED  BY <1>5, <2>3, <3>1
  <2> QED  BY <1>2, <2>2, <2>3
<1>8. \A i \in DOMAIN calls : calls[i].checked = (Of(calls[i]).results # <<>>)
  <2> SUFFICES ASSUME NEW i \in 1..m PROVE calls[i].checked = (row[i].results # <<>>)  BY <1>3, <1>5
  <2>1. row[i].results \in {<<>>, <<"error">>}
    BY <1>3 DEF Registrations, Registry!Rejected, Registry!BadMarker
  <2>2. <<"error">> # <<>>
    <3>1. Len(<<"error">>) = 1 /\ Len(<<>>) = 0  OBVIOUS
    <3> QED  BY <3>1
  <2>3. calls[i].checked = (row[i].results = <<"error">>)  BY <1>3
  <2> QED  BY <2>1, <2>2, <2>3
<1>9. /\ Registry!IsInjective(content.imports)
      /\ \A p \in DOMAIN content.imports :
            content.imports[p] \notin Registry!AggregateReservedNames \union {<<>>}
      /\ \A fn \in fns : fn.path # Registry!OwnPath => fn.path \in DOMAIN content.imports
  BY ImportsAre DEF Registry!IsInjective
<1>10. content.calls = calls  OBVIOUS
<1> HIDE DEF content
<1>11. Registry!Registers(fns, content)
  <2>1. Len(content.calls) = Registry!Cardinality(fns)  BY <1>4, <1>10
  <2>2. {<<content.calls[i].path, content.calls[i].func>> : i \in DOMAIN content.calls}
          = {Registry!Key(fn) : fn \in fns}
    BY <1>6, <1>10
  <2>3. \A i, j \in DOMAIN content.calls :
         i < j => \/ Registry!Position(Registry!Phases, content.calls[i].phase)
                        < Registry!Position(Registry!Phases, content.calls[j].phase)
                  \/ /\ content.calls[i].phase = content.calls[j].phase
                     /\ Registry!Order(Of(content.calls[i])) <= Registry!Order(Of(content.calls[j]))
    BY <1>7, <1>10
  <2>4. \A i \in DOMAIN content.calls :
           content.calls[i].checked = (Of(content.calls[i]).results # <<>>)
    BY <1>8, <1>10
  <2> QED  BY <2>1, <2>2, <2>3, <2>4, <1>9, Zenon DEF Registry!Registers, Of
<1> QED  BY <1>1, <1>11

LEMMA MarkIs ==
    ASSUME NEW path, NEW func, NEW phase, NEW file
    PROVE  LET mark == Marked(path, func, phase, file)
           IN  /\ mark.path = path /\ mark.func = func /\ mark.rank = 0
               /\ Registry!Phase(mark) = phase /\ Registry!Order(mark) = 0
<1> DEFINE mark == Marked(path, func, phase, file)
<1>1. /\ mark.path = path /\ mark.func = func /\ mark.rank = 0
      /\ mark.options = [k \in {"phase"} |-> phase]
  BY DEF Marked
<1> HIDE DEF mark
<1>2. "phase" \in DOMAIN mark.options /\ mark.options["phase"] = phase /\ "order" \notin DOMAIN mark.options
  BY <1>1
<1>3. Registry!Phase(mark) = phase  BY <1>2 DEF Registry!Phase
<1>4. Registry!Order(mark) = 0  BY <1>2 DEF Registry!Order
<1> QED  BY <1>1, <1>3, <1>4 DEF mark

(* A registration a generator wrote is the only one of its phase in its    *)
(* package.                                                                *)
Generic(fn) ==
    /\ fn.rank = 0 /\ Registry!Order(fn) = 0 /\ fn.path \in Range(PathOrder)
    /\ \/ Registry!Phase(fn) = "entity" /\ fn.func = "RegisterEntity"
       \/ Registry!Phase(fn) = "nest" /\ fn.func = "RegisterNestHandlers"
       \/ Registry!Phase(fn) = "config" /\ fn.func = "RegisterConfigData"

LEMMA ScanIs ==
    ASSUME NEW source \in Sources("registry"), NEW files, Housed(files)
    PROVE  /\ IsFiniteSet(Scan(source, files))
           /\ \A fn \in Scan(source, files) : fn \in source.functions \/ Generic(fn)
<1> DEFINE E == {q \in Written(files) : q[1] = "entity" /\ files[q][2].registers # <<>>}
           N == {q \in Written(files) : q = <<"nest", <<"aggregate">>>>}
           C == {q \in Written(files) : q[1] = "config-go"}
           mark == [p \in E |-> Marked(p[2][1], "RegisterEntity", "entity", p[2][2])]
           nest == Marked(Registry!OwnPath, "RegisterNestHandlers", "nest", "nest_gen")
           config == Marked(ConfigPath, "RegisterConfigData", "config", "gen_table_config")
           EM == {mark[p] : p \in E}
           NM == {nest : p \in N}
           CM == {config : p \in C}
<1>1. Scan(source, files) = ((source.functions \union EM) \union NM) \union CM
  <2>1. EM = {Marked(p[2][1], "RegisterEntity", "entity", p[2][2]) : p \in E}  OBVIOUS
  <2> HIDE DEF EM, E, N, C
  <2> QED  BY <2>1 DEF Scan, E, N, C
<1>2. IsFiniteSet(EM)
  <2>1. E \in SUBSET EntityPlaces(files)  BY DEF EntityPlaces
  <2>2. IsFiniteSet(E)  BY <2>1, FS_Subset DEF Housed
  <2> HIDE DEF E
  <2>3. mark \in Surjection(E, EM)  BY DEF Surjection
  <2> QED  BY <2>2, <2>3, FS_Surjection
<1>3. IsFiniteSet(NM)
  <2>1. NM \in SUBSET {nest} /\ IsFiniteSet({nest})  BY FS_Singleton
  <2> QED  BY <2>1, FS_Subset
<1>4. IsFiniteSet(CM)
  <2>1. CM \in SUBSET {config} /\ IsFiniteSet({config})  BY FS_Singleton
  <2> QED  BY <2>1, FS_Subset
<1>5. IsFiniteSet(source.functions)
  BY SourcesAssumption DEF SourcesAssumption, RegistrationsAssumption
<1>6. \A fn \in EM : Generic(fn)
  <2> SUFFICES ASSUME NEW p \in E PROVE Generic(mark[p])  OBVIOUS
  <2>1. p[2][1] \in Range(PathOrder)  BY DEF Housed, EntityPlaces
  <2>2. mark[p] = Marked(p[2][1], "RegisterEntity", "entity", p[2][2])  OBVIOUS
  <2> HIDE DEF mark
  <2> QED  BY <2>1, <2>2, MarkIs DEF Generic
<1>7. Generic(nest) /\ Generic(config)
  <2>1. Registry!OwnPath \in Range(PathOrder) /\ ConfigPath \in Range(PathOrder)
    BY SourcesAssumption DEF SourcesAssumption, RegistrationsAssumption, PathsAssumption
  <2> QED  BY <2>1, MarkIs DEF Generic
<1> HIDE DEF EM, nest, config
<1>8. \A fn \in NM \union CM : Generic(fn)  BY <1>7
<1> HIDE DEF NM, CM
<1>9. IsFiniteSet(source.functions \union EM)  BY <1>2, <1>5, FS_Union
<1>10. IsFiniteSet((source.functions \union EM) \union NM)  BY <1>3, <1>9, FS_Union
<1>11. IsFiniteSet(((source.functions \union EM) \union NM) \union CM)  BY <1>4, <1>10, FS_Union
<1> QED  BY <1>1, <1>6, <1>8, <1>11

LEMMA ScanRegisters ==
    ASSUME NEW source \in Sources("registry"), NEW files, Housed(files),
           ~Registry!Rejected(Scan(source, files))
    PROVE  Registrations(Scan(source, files))
<1> DEFINE fns == Scan(source, files)
<1>1. IsFiniteSet(fns) /\ \A fn \in fns : fn \in source.functions \/ Generic(fn)  BY ScanIs
<1>2. /\ \A fn \in source.functions :
            fn.path \in Range(PathOrder) /\ fn.rank \in Int \ {0} /\ Registry!Order(fn) \in Int
      /\ \A fn, other \in source.functions :
            fn.path = other.path /\ fn.rank = other.rank => fn.func = other.func
  BY SourcesAssumption DEF SourcesAssumption, RegistrationsAssumption
<1>3. ~Registry!Rejected(fns)  OBVIOUS
<1> HIDE DEF fns
<1>4. \A fn \in fns : fn.path \in Range(PathOrder) /\ fn.rank \in Int /\ Registry!Order(fn) \in Int
  BY <1>1, <1>2 DEF Generic
<1>5. ASSUME NEW fn \in fns, NEW other \in fns,
             fn.path = other.path, fn.rank = other.rank, Registry!Phase(fn) = Registry!Phase(other)
      PROVE  fn.func = other.func
  <2>1. CASE fn.rank = 0
    <3>1. Generic(fn) /\ Generic(other)  BY <1>1, <1>2, <1>5, <2>1
    <3> QED  BY <1>5, <3>1 DEF Generic
  <2>2. CASE fn.rank # 0
    <3>1. fn \in source.functions /\ other \in source.functions  BY <1>1, <1>5, <2>2 DEF Generic
    <3> QED  BY <1>2, <1>5, <3>1
  <2> QED  BY <2>1, <2>2
<1> QED  BY <1>1, <1>3, <1>4, <1>5 DEF Registrations, fns

LEMMA RegistrationsAre == GenInv /\ EntityInv => RegistrationsInOrder
<1> SUFFICES ASSUME GenInv, EntityInv, Ran("registry") PROVE RegistrationsInOrder
  BY DEF RegistrationsInOrder
<1> DEFINE source == Source("registry")
           fns == Scan(source, out)
           file == <<"registry", <<"registry_gen">>>>
<1>1. "registry" \in Names /\ Feature("registry") = "registry"  BY NamesAre DEF Feature
<1>2. ~Registry!Rejected(fns)
  <2> DEFINE refused == source.legacy \/ Registry!Rejected(fns)
  <2>1. Rejected("registry", source, out) = refused  BY <1>1 DEF Rejected
  <2>2. ~refused  BY <1>1, <2>1, RanIs
  <2> QED  BY <2>2
<1>3. At("registry", <<"registry_gen">>) = Registry!Content(fns)
  <2>1. Outputs("registry", source, out)
          = [p \in {<<"registry", k>> : k \in {<<"registry_gen">>}} |-> <<"gen", Registry!Content(fns)>>]
    BY <1>1 DEF Outputs, Files
  <2> HIDE DEF fns
  <2>2. file \in DOMAIN Outputs("registry", source, out)  BY <2>1
  <2>3. Outputs("registry", source, out)[file] = <<"gen", Registry!Content(fns)>>  BY <2>1, <2>2
  <2>4. out[file] = <<"gen", Registry!Content(fns)>>  BY <1>1, <2>2, <2>3, RanIs
  <2> QED  BY <2>4 DEF At
<1>4. source \in Sources("registry") /\ Housed(out)  BY <1>1, RanIs DEF EntityInv
<1>5. Registrations(fns)  BY <1>2, <1>4, ScanRegisters
<1> HIDE DEF fns, source
<1>6. Registry!Registers(fns, Registry!Content(fns))  BY <1>5, RegistersAre
<1> QED  BY <1>3, <1>6 DEF RegistrationsInOrder, fns, source

(* What is declared is wired, after any run that covers it: the aggregate  *)
(* calls every marked function once, in the order of phases and of their   *)
(* numbers, under package names no two of which are the same; every event  *)
(* handler is subscribed and every event has a number of its own; a code   *)
(* has one row; a route one function; a package one registration of its    *)
(* entities (registry/parse.go, eventgen/handler.go, errcode/main.go,      *)
(* webroute/gen.go, entity/gen.go).                                        *)
THEOREM WiringIsComplete == Spec => []WiringComplete
<1>1. GenInv /\ EntityInv => WiringComplete
  BY RegistrationsAre, EventsAre, CodesAre, RoutesAre, EntitiesAre DEF WiringComplete
<1> QED  BY <1>1, EntitiesHoused, PTL

-----------------------------------------------------------------------------
(* nest: what a sender packs, and the index of the wrapper that unpacks it *)
IsIndexes(lens, f, m) ==
    f = [k \in 0..m |-> IF k = 0 THEN 0 ELSE f[k - 1] + lens[k]]

IsJoined(rows, f, m) ==
    f = [k \in 0..m |-> IF k = 0 THEN <<>> ELSE f[k - 1] \o rows[k]]

LEMMA IndexesExist ==
    ASSUME NEW lens, NEW m \in Nat
    PROVE  \E f : IsIndexes(lens, f, m)
<1> DEFINE R(x, n) == x + lens[n]
           Is(s, k) == s = [n \in 0..k |-> IF n = 0 THEN 0 ELSE R(s[n - 1], n)]
           Bad == {k \in Nat : ~ \E s : Is(s, k)}
<1> HIDE DEF R
<1> SUFFICES ASSUME Bad # {} PROVE FALSE  BY DEF R, IsIndexes
<1>1. PICK k \in Bad : \A j \in Bad : k <= j  BY LeastOf
<1>2. Is([n \in 0..0 |-> 0], 0)  OBVIOUS
<1>3. k \in Nat /\ k # 0  BY <1>2
<1>4. k - 1 \in Nat /\ k - 1 \notin Bad
  <2>1. \A j \in Bad : k <= j  BY <1>1
  <2> HIDE DEF Bad
  <2> QED  BY <1>3, <2>1
<1>5. PICK s : Is(s, k - 1)  BY <1>4
<1> DEFINE more == [n \in 0..k |-> IF n = 0 THEN 0 ELSE R(s[n - 1], n)]
<1>6. \A n \in 0..(k - 1) : more[n] = s[n]
  <2> SUFFICES ASSUME NEW n \in 0..(k - 1) PROVE more[n] = s[n]  OBVIOUS
  <2>1. n \in 0..k  BY <1>3
  <2>2. more[n] = IF n = 0 THEN 0 ELSE R(s[n - 1], n)  BY <2>1
  <2>3. s[n] = IF n = 0 THEN 0 ELSE R(s[n - 1], n)  BY <1>5
  <2> QED  BY <2>2, <2>3
<1>7. \A n \in 0..k : n # 0 => n - 1 \in 0..(k - 1)  BY <1>3
<1>8. Is(more, k)
  <2>1. \A n \in 0..k : (IF n = 0 THEN 0 ELSE R(s[n - 1], n)) = (IF n = 0 THEN 0 ELSE R(more[n - 1], n))
    BY <1>6, <1>7
  <2> QED  BY <2>1
<1> QED  BY <1>1, <1>8

LEMMA JoinedExists ==
    ASSUME NEW rows, NEW m \in Nat
    PROVE  \E f : IsJoined(rows, f, m)
<1> DEFINE R(x, n) == x \o rows[n]
           Is(s, k) == s = [n \in 0..k |-> IF n = 0 THEN <<>> ELSE R(s[n - 1], n)]
           Bad == {k \in Nat : ~ \E s : Is(s, k)}
<1> HIDE DEF R
<1> SUFFICES ASSUME Bad # {} PROVE FALSE  BY DEF R, IsJoined
<1>1. PICK k \in Bad : \A j \in Bad : k <= j  BY LeastOf
<1>2. Is([n \in 0..0 |-> <<>>], 0)  OBVIOUS
<1>3. k \in Nat /\ k # 0  BY <1>2
<1>4. k - 1 \in Nat /\ k - 1 \notin Bad
  <2>1. \A j \in Bad : k <= j  BY <1>1
  <2> HIDE DEF Bad
  <2> QED  BY <1>3, <2>1
<1>5. PICK s : Is(s, k - 1)  BY <1>4
<1> DEFINE more == [n \in 0..k |-> IF n = 0 THEN <<>> ELSE R(s[n - 1], n)]
<1>6. \A n \in 0..(k - 1) : more[n] = s[n]
  <2> SUFFICES ASSUME NEW n \in 0..(k - 1) PROVE more[n] = s[n]  OBVIOUS
  <2>1. n \in 0..k  BY <1>3
  <2>2. more[n] = IF n = 0 THEN <<>> ELSE R(s[n - 1], n)  BY <2>1
  <2>3. s[n] = IF n = 0 THEN <<>> ELSE R(s[n - 1], n)  BY <1>5
  <2> QED  BY <2>2, <2>3
<1>7. \A n \in 0..k : n # 0 => n - 1 \in 0..(k - 1)  BY <1>3
<1>8. Is(more, k)
  <2>1. \A n \in 0..k : (IF n = 0 THEN <<>> ELSE R(s[n - 1], n)) = (IF n = 0 THEN <<>> ELSE R(more[n - 1], n))
    BY <1>6, <1>7
  <2> QED  BY <2>1
<1> QED  BY <1>1, <1>8

(* each row of a joining stands where the index is when it is reached *)
Placed(rows, ids, index, k) ==
    /\ Len(ids[k]) = index[k] /\ index[k] \in Nat
    /\ \A i \in 1..k :
          /\ index[i - 1] \in Nat /\ index[i] = index[i - 1] + Len(rows[i]) /\ index[i] <= index[k]
          /\ \A j \in 1..Len(rows[i]) : ids[k][index[i - 1] + j] = rows[i][j]

LEMMA JoiningPlaces ==
    ASSUME NEW S, NEW m \in Nat, NEW rows, \A i \in 1..m : rows[i] \in Seq(S),
           NEW lens, \A i \in 1..m : lens[i] = Len(rows[i]),
           NEW index, IsIndexes(lens, index, m), NEW ids, IsJoined(rows, ids, m)
    PROVE  \A k \in 0..m : ids[k] \in Seq(S) /\ Placed(rows, ids, index, k)
<1> DEFINE Fits(k) == ids[k] \in Seq(S) /\ Placed(rows, ids, index, k)
           Bad == {k \in Nat : k \in 0..m /\ ~Fits(k)}
<1> SUFFICES ASSUME Bad # {} PROVE FALSE  OBVIOUS
<1>1. PICK k \in Bad : \A j \in Bad : k <= j  BY LeastOf
<1>2. k \in 0..m /\ k \in Nat /\ ~Fits(k)  BY <1>1
<1>3. index[0] = 0 /\ ids[0] = <<>>  BY DEF IsIndexes, IsJoined
<1>4. k # 0
  <2>1. Fits(0)  BY <1>3 DEF Placed
  <2> QED  BY <1>2, <2>1
<1>5. k - 1 \in 0..m /\ k - 1 \in Nat /\ k - 1 \notin Bad
  <2>1. \A j \in Bad : k <= j  BY <1>1
  <2> HIDE DEF Bad
  <2> QED  BY <1>2, <1>4, <2>1
<1>6. Fits(k - 1)  BY <1>5
<1> DEFINE before == ids[k - 1]
           row == rows[k]
           at == index[k - 1]
<1>7. ids[k] = before \o row /\ index[k] = at + lens[k]  BY <1>2, <1>4 DEF IsIndexes, IsJoined
<1>8. before \in Seq(S) /\ Len(before) = at /\ at \in Nat  BY <1>6 DEF Placed
<1>9. row \in Seq(S) /\ lens[k] = Len(row) /\ Len(row) \in Nat  BY <1>2, <1>4
<1>10. /\ ids[k] \in Seq(S) /\ Len(ids[k]) = at + Len(row)
       /\ \A n \in 1..(at + Len(row)) : ids[k][n] = IF n <= at THEN before[n] ELSE row[n - at]
  <2> HIDE DEF before, row, at
  <2>1. /\ before \o row \in Seq(S) /\ Len(before \o row) = Len(before) + Len(row)
        /\ \A n \in 1..(Len(before) + Len(row)) : (before \o row)[n] = IF n <= Len(before) THEN before[n] ELSE row[n - Len(before)]
    BY <1>8, <1>9, ConcatProperties
  <2> QED  BY <1>7, <1>8, <2>1
<1>11. \A i \in 1..(k - 1) : /\ index[i - 1] \in Nat /\ index[i] = index[i - 1] + Len(rows[i]) /\ index[i] <= at
                             /\ \A j \in 1..Len(rows[i]) : before[index[i - 1] + j] = rows[i][j]
  BY <1>6 DEF Placed
<1> HIDE DEF before, row, at
<1>12. ASSUME NEW i \in 1..k
       PROVE  /\ index[i - 1] \in Nat /\ index[i] = index[i - 1] + Len(rows[i]) /\ index[i] <= at + Len(row)
              /\ \A j \in 1..Len(rows[i]) : ids[k][index[i - 1] + j] = rows[i][j]
  <2>1. CASE i = k
    <3>1. index[i - 1] = at /\ rows[i] = row  BY <2>1 DEF at, row
    <3>2. ASSUME NEW j \in 1..Len(row) PROVE ids[k][at + j] = row[j]
      <4> DEFINE n == at + j
      <4>1. n \in 1..(at + Len(row)) /\ ~(n <= at) /\ n - at = j  BY <1>8, <1>9
      <4> HIDE DEF n
      <4>2. ids[k][n] = IF n <= at THEN before[n] ELSE row[n - at]  BY <1>10, <4>1
      <4>3. ids[k][n] = row[n - at]  BY <4>1, <4>2
      <4>4. ids[k][n] = row[j]  BY <4>1, <4>3
      <4> QED  BY <4>4 DEF n
    <3> QED  BY <1>7, <1>8, <1>9, <2>1, <3>1, <3>2, SMTT(40)
  <2>2. CASE i # k
    <3>1. i \in 1..(k - 1)  BY <1>2, <2>2
    <3> DEFINE from == index[i - 1]
               len == Len(rows[i])
    <3>2. from \in Nat /\ index[i] = from + len /\ index[i] <= at
          /\ \A j \in 1..len : before[from + j] = rows[i][j]
      BY <1>11, <3>1
    <3>3. len \in Nat  BY <1>2, <3>1
    <3> HIDE DEF from, len
    <3>4. \A j \in 1..len : from + j \in 1..(at + Len(row)) /\ from + j <= at  BY <1>8, <1>9, <3>2, <3>3
    <3>5. \A j \in 1..len : ids[k][from + j] = rows[i][j]  BY <1>10, <3>2, <3>4
    <3>6. index[i] <= at + Len(row)  BY <1>8, <1>9, <3>2, <3>3
    <3> QED  BY <3>2, <3>5, <3>6 DEF from, len
  <2> QED  BY <2>1, <2>2
<1>13. index[k] = at + Len(row) /\ at + Len(row) \in Nat  BY <1>7, <1>8, <1>9
<1>14. Fits(k)  BY <1>10, <1>12, <1>13 DEF Placed
<1> QED  BY <1>2, <1>14

IsCall(S, m, content, args, values) ==
    /\ DOMAIN content.entities = 1..m /\ Len(content.entities) = m
    /\ args \in [1..m -> Seq(S)]
    /\ \A i \in 1..m : content.entities[i].group \/ Len(args[i]) = 1
    /\ values \in Seq(Seq(Nat)) /\ Len(values) = Len(content.params)
    /\ \A i \in DOMAIN values : values[i] # <<>>

Arrives(content, args, values) ==
    LET call == Nest!Pack(content, args, values)
    IN  Nest!Accepted(content, call) /\ Nest!Unpack(content, call) = args

(* A call as a sender packs it, for a handler with any number of entities  *)
(* and groups of any size, is unpacked as it was made.                     *)
LEMMA CallsUnpack ==
    ASSUME NEW S, NEW m \in Nat, NEW content, NEW args, NEW values, IsCall(S, m, content, args, values)
    PROVE  Arrives(content, args, values)
<1>0. /\ DOMAIN content.entities = 1..m /\ Len(content.entities) = m
      /\ args \in [1..m -> Seq(S)]
      /\ \A i \in 1..m : content.entities[i].group \/ Len(args[i]) = 1
      /\ values \in Seq(Seq(Nat)) /\ Len(values) = Len(content.params)
      /\ \A i \in DOMAIN values : values[i] # <<>>
  BY DEF IsCall
<1> DEFINE lens == [i \in 1..m |-> IF content.entities[i].group THEN Len(args[i]) ELSE 1]
           call == Nest!Pack(content, args, values)
           index == CHOOSE f : IsIndexes(lens, f, m)
           ids == CHOOSE f : IsJoined(args, f, m)
<1>1. \A i \in 1..m : args[i] \in Seq(S) /\ lens[i] = Len(args[i]) /\ Len(args[i]) \in Nat  BY <1>0
<1>2. args \in Seq(Seq(S)) /\ Len(args) = m  BY <1>0
<1>3. lens \in Seq(Nat) /\ Len(lens) = m
  <2>1. lens \in [1..m -> Nat]  BY <1>1
  <2> QED  BY <2>1
<1>4. call = [ids |-> Nest!Joined(args), lens |-> lens, group |-> content.form = "group", params |-> values]
  BY <1>0 DEF Nest!Pack
<1>5. Nest!Joined(args) = ids[m]  BY <1>2 DEF Nest!Joined, IsJoined
<1>6. Nest!Indexes(lens) = index  BY <1>3 DEF Nest!Indexes, IsIndexes
<1>7. IsIndexes(lens, index, m)  BY IndexesExist
<1>8. IsJoined(args, ids, m)  BY JoinedExists
<1> HIDE DEF lens, index, ids, call
<1>9. m \in 0..m  OBVIOUS
<1>10. ids[m] \in Seq(S) /\ Placed(args, ids, index, m)
  <2>1. \A k \in 0..m : ids[k] \in Seq(S) /\ Placed(args, ids, index, k)  BY <1>1, <1>7, <1>8, JoiningPlaces
  <2> QED  BY <1>9, <2>1
<1> DEFINE all == ids[m]
<1>11. /\ all \in Seq(S) /\ Len(all) = index[m] /\ index[m] \in Nat
       /\ \A i \in 1..m : /\ index[i - 1] \in Nat /\ index[i] = index[i - 1] + Len(args[i]) /\ index[i] <= index[m]
                          /\ \A j \in 1..Len(args[i]) : all[index[i - 1] + j] = args[i][j]
  BY <1>10 DEF Placed
<1> HIDE DEF all
<1>12. call.ids = all /\ call.lens = lens /\ call.params = values /\ call.group = (content.form = "group")
  BY <1>4, <1>5 DEF all
<1>13. Nest!Accepted(content, call)
  <2>1. Nest!Nil \notin Nest!Range(values)  BY <1>0 DEF Nest!Nil, Nest!Range
  <2> QED  BY <1>0, <1>3, <1>6, <1>11, <1>12, <2>1 DEF Nest!Accepted
<1>14. ASSUME NEW i \in 1..m
       PROVE  (IF content.entities[i].group THEN SubSeq(all, index[i - 1] + 1, index[i - 1] + lens[i])
               ELSE <<all[index[i - 1] + 1]>>) = args[i]
  <2> DEFINE from == index[i - 1]
             len == Len(args[i])
             row == args[i]
  <2>1. from \in Nat /\ len \in Nat /\ from + len <= Len(all) /\ row \in Seq(S) /\ Len(row) = len
        /\ \A j \in 1..len : all[from + j] = row[j]
    BY <1>1, <1>11
  <2>2. lens[i] = len /\ (content.entities[i].group \/ len = 1)  BY <1>0, <1>1
  <2> HIDE DEF from, len, row
  <2>3. CASE content.entities[i].group
    <3>1. SubSeq(all, from + 1, from + len) = row
      <4> DEFINE cut == SubSeq(all, from + 1, from + len)
      <4>1. /\ cut \in Seq(S) /\ Len(cut) = len
            /\ \A j \in 1..len : cut[j] = all[from + 1 + j - 1]
        BY <1>11, <2>1, SubSeqProperties
      <4>2. \A j \in 1..len : from + 1 + j - 1 = from + j  BY <2>1
      <4>3. \A j \in 1..len : cut[j] = row[j]  BY <2>1, <4>1, <4>2
      <4> HIDE DEF cut
      <4> QED  BY <2>1, <4>1, <4>3, SeqEqual
    <3> QED  BY <2>2, <2>3, <3>1 DEF from, len, row
  <2>4. CASE ~content.entities[i].group
    <3>1. len = 1 /\ all[from + 1] = row[1]  BY <2>1, <2>2, <2>4
    <3>2. <<all[from + 1]>> = row  BY <2>1, <3>1
    <3> QED  BY <2>4, <3>2 DEF from, row
  <2> QED  BY <2>3, <2>4
<1>15. Nest!Unpack(content, call) = args
  <2>1. Nest!Unpack(content, call)
          = [i \in 1..m |-> IF content.entities[i].group
                            THEN SubSeq(all, index[i - 1] + 1, index[i - 1] + lens[i])
                            ELSE <<all[index[i - 1] + 1]>>]
    BY <1>0, <1>6, <1>12 DEF Nest!Unpack
  <2> QED  BY <1>0, <1>14, <2>1
<1> QED  BY <1>13, <1>15 DEF call, Arrives

LEMMA NestKept == \A seq, P : Nest!Kept(seq, P) = Kept(seq, P)
<1>1. \A S : Nest!Cardinality(S) = Cardinality(S)  BY DEF Cardinality, Nest!Cardinality
<1>2. \A P, n : Nest!Nth(P, n) = Nth(P, n)  BY <1>1 DEF Nth, Nest!Nth
<1> QED  BY <1>1, <1>2 DEF Kept, Nest!Kept

LEMMA KeptRow ==
    ASSUME NEW row, IsList(row), NEW P \in SUBSET (DOMAIN row)
    PROVE  \E n \in Nat : /\ DOMAIN Kept(row, P) = 1..n /\ Len(Kept(row, P)) = n
                          /\ Kept(row, P) \in Seq(Range(row))
<1> DEFINE S == Range(row)
           kept == Kept(row, P)
           n == Cardinality(P)
<1>1. row \in Seq(S)  BY DEF IsList
<1>2. DOMAIN kept = 1..n /\ n \in Nat /\ kept = [i \in 1..n |-> kept[i]]
      /\ \A i \in 1..n : \E j \in P : kept[i] = row[j]
  BY <1>1, KeptSeq
<1>3. \A j \in P : row[j] \in S  BY DEF Range
<1>4. \A i \in 1..n : kept[i] \in S  BY <1>2, <1>3
<1> HIDE DEF kept, n, S
<1>5. kept \in Seq(S) /\ Len(kept) = n  BY <1>2, <1>4, RowOf
<1> QED  BY <1>2, <1>5 DEF kept, S

LEMMA HandlerDispatches ==
    ASSUME NEW fn, IsList(fn.params), IsList(fn.results), ~Nest!BadOptions(fn)
    PROVE  Nest!Dispatches(Nest!Content(fn), {1, 2})
<1> DEFINE content == Nest!Content(fn)
           some == Nest!EntityAt(fn)
           others == DOMAIN fn.params \ some
           good == {i \in DOMAIN fn.results : fn.results[i] # "error"}
<1>1. /\ content.entities = Kept(fn.params, some) /\ content.params = Kept(fn.params, others)
      /\ content.returns = Kept(fn.results, good) /\ content.meta = Nest!Meta(fn)
  BY NestKept DEF Nest!Content, Nest!Entities, Nest!Params, Nest!Returns, Nest!Select
<1>2. some \in SUBSET (DOMAIN fn.params) /\ others \in SUBSET (DOMAIN fn.params)
      /\ good \in SUBSET (DOMAIN fn.results)
  BY DEF Nest!EntityAt
<1> HIDE DEF content, some, others, good
<1>3. PICK m \in Nat : DOMAIN content.entities = 1..m /\ Len(content.entities) = m
  BY <1>1, <1>2, KeptRow
<1>4. PICK q \in Nat : DOMAIN content.params = 1..q /\ Len(content.params) = q
  BY <1>1, <1>2, KeptRow
<1>5. PICK r \in Nat : /\ DOMAIN content.returns = 1..r /\ Len(content.returns) = r
                       /\ content.returns \in Seq(Range(fn.results))
  BY <1>1, <1>2, KeptRow
<1> DEFINE values == [i \in DOMAIN content.params |-> <<i>>]
<1>6. values \in Seq(Seq(Nat)) /\ Len(values) = q /\ \A i \in DOMAIN values : values[i] # <<>>
  <2>1. values = [i \in 1..q |-> <<i>>]  BY <1>4
  <2>2. \A i \in 1..q : <<i>> \in Seq(Nat)  OBVIOUS
  <2> DEFINE D == Seq(Nat)
  <2>3. DOMAIN values = 1..q /\ values = [i \in 1..q |-> values[i]] /\ \A i \in 1..q : values[i] \in D
    BY <2>1, <2>2
  <2>4. \A i \in 1..q : <<i>> # <<>>  OBVIOUS
  <2>5. \A i \in DOMAIN values : values[i] # <<>>  BY <2>1, <2>4
  <2> HIDE DEF values, D
  <2>6. values \in Seq(D) /\ Len(values) = q  BY <2>3, RowOf
  <2> QED  BY <2>5, <2>6 DEF D
<1>7. ASSUME NEW args \in Nest!Shapes(content, {1, 2})
      PROVE  Arrives(content, args, values)
  <2> DEFINE rows == UNION {[1..n -> {1, 2}] : n \in 0..2}
  <2>1. args \in [1..m -> rows] /\ \A i \in 1..m : content.entities[i].group \/ Len(args[i]) = 1
    BY <1>3 DEF Nest!Shapes
  <2>2. rows \subseteq Seq(Nat)
    <3> SUFFICES ASSUME NEW n \in 0..2, NEW row \in [1..n -> {1, 2}] PROVE row \in Seq(Nat)  OBVIOUS
    <3>1. row \in [1..n -> Nat] /\ n \in Nat  OBVIOUS
    <3> QED  BY <3>1
  <2> HIDE DEF rows, values
  <2>3. args \in [1..m -> Seq(Nat)]  BY <2>1, <2>2
  <2>4. Len(values) = Len(content.params)  BY <1>4, <1>6
  <2>5. \A i \in DOMAIN values : values[i] # <<>>  BY <1>6
  <2>6. values \in Seq(Seq(Nat))  BY <1>6
  <2>7. IsCall(Nat, m, content, args, values)  BY <1>3, <2>1, <2>3, <2>4, <2>5, <2>6 DEF IsCall
  <2> QED  BY <2>7, CallsUnpack
<1>8. ASSUME NEW given \in [DOMAIN content.returns -> 1..2]
      PROVE  Nest!Answer(content, Nest!Reply(content, given)) = given
  <2>1. given \in [1..r -> 1..2] /\ given \in Seq(1..2) /\ Len(given) = r  BY <1>5
  <2>2. content.returns = <<>> <=> r = 0  BY <1>5
  <2>3. CASE r = 0
    <3>1. given = <<>>  BY <2>1, <2>3
    <3>2. content.returns = <<>> /\ Len(content.returns) # 1  BY <1>5, <2>2, <2>3
    <3> QED  BY <3>1, <3>2 DEF Nest!Answer, Nest!Reply
  <2>4. CASE r = 1
    <3>1. given = <<given[1]>>  BY <2>1, <2>4
    <3>2. content.returns # <<>> /\ Len(content.returns) = 1  BY <1>5, <2>2, <2>4
    <3> QED  BY <3>1, <3>2 DEF Nest!Answer, Nest!Reply
  <2>5. CASE r # 0 /\ r # 1
    <3>1. content.returns # <<>> /\ Len(content.returns) # 1  BY <1>5, <2>2, <2>5
    <3> QED  BY <3>1 DEF Nest!Answer, Nest!Reply
  <2> QED  BY <2>3, <2>4, <2>5
<1>9. content.meta.rollback = "none" => content.meta.durability = "memory"
  <2>1. Nest!Option(fn, "rollback") \in {"", "state", "undo"}  BY DEF Nest!BadOptions
  <2> DEFINE rollback == Nest!Option(fn, "rollback")
             durability == IF Nest!Option(fn, "durability") = "" THEN "async" ELSE Nest!Option(fn, "durability")
             undone == IF rollback # "" THEN rollback ELSE IF durability = "memory" THEN "none" ELSE "state"
  <2>2. Nest!Meta(fn) = [rollback |-> undone, durability |-> durability]  BY DEF Nest!Meta
  <2>3. rollback \in {"", "state", "undo"}  BY <2>1
  <2> HIDE DEF undone, durability
  <2>4. content.meta.durability = durability /\ content.meta.rollback = undone  BY <1>1, <2>2
  <2> HIDE DEF rollback
  <2>5. CASE rollback # ""  BY <2>3, <2>4, <2>5 DEF undone
  <2>6. CASE rollback = "" /\ durability = "memory"  BY <2>4, <2>6 DEF undone
  <2>7. CASE rollback = "" /\ durability # "memory"  BY <2>4, <2>7 DEF undone
  <2> QED  BY <2>5, <2>6, <2>7
<1> HIDE DEF values
<1> QED  BY <1>7, <1>8, <1>9 DEF Nest!Dispatches, Arrives, content, values

LEMMA HandlersAre == GenInv => HandlersReached
<1> SUFFICES ASSUME GenInv, Ran("nest"), NEW k \in Nest!Files(Source("nest")),
                    NEW handler \in At("nest", k)
             PROVE  Nest!Dispatches(handler[2], {1, 2})
  BY DEF HandlersReached
<1> DEFINE source == Source("nest")
           own == {<<fn.name, Nest!Content(fn)>> : fn \in Same(source, k)}
           file == <<"nest", k>>
<1>1. "nest" \in Names /\ Feature("nest") = "nest"  BY NamesAre DEF Feature
<1>2. source \in Sources("nest")  BY <1>1, RanIs
<1>3. ~Nest!Rejected(source)
  <2> DEFINE refused == Nest!Rejected(source)
  <2> HIDE DEF refused
  <2>1. Rejected("nest", source, out) = refused  BY <1>1 DEF Rejected, refused
  <2> QED  BY <1>1, <2>1, RanIs DEF refused
<1>4. k # <<"aggregate">>  BY DEF Nest!Files
<1>5. At("nest", k) = own
  <2> DEFINE Holds(j) == IF j = <<"aggregate">> THEN Nest!Aggregate(source)
                         ELSE {<<fn.name, Nest!Content(fn)>> : fn \in Same(source, j)}
             keys == {<<"aggregate">>} \union Nest!Files(source)
  <2>1. Outputs("nest", source, out) = [p \in {<<"nest", j>> : j \in keys} |-> <<"gen", Holds(p[2])>>]
    BY <1>1, SMTT(40) DEF Outputs, NestFiles, Files
  <2>2. Holds(k) = own  BY <1>4
  <2>3. k \in keys  OBVIOUS
  <2> HIDE DEF Holds, keys, own, source
  <2>4. file \in DOMAIN Outputs("nest", source, out)  BY <2>1, <2>3
  <2>5. Outputs("nest", source, out)[file] = <<"gen", own>>  BY <2>1, <2>2, <2>4
  <2>6. out[file] = <<"gen", own>>  BY <1>1, <2>4, <2>5, RanIs DEF source
  <2> QED  BY <2>6 DEF At
<1>6. PICK fn \in source : handler = <<fn.name, Nest!Content(fn)>> /\ Nest!IsHandler(fn)
  BY <1>5 DEF Same
<1>7. IsList(fn.params) /\ IsList(fn.results)
  BY <1>2, <1>6, SourcesAssumption DEF SourcesAssumption, HandlersAssumption
<1>8. ~Nest!BadOptions(fn)  BY <1>3, <1>6 DEF Nest!Rejected
<1>9. Nest!Dispatches(Nest!Content(fn), {1, 2})  BY <1>7, <1>8, HandlerDispatches
<1> QED  BY <1>6, <1>9

(* A call of a handler arrives as it was made: whatever handlers a project *)
(* has and however many entities, groups and values they take, the wrapper *)
(* that is generated for one runs it on the entities and values its sender *)
(* was given, and its results go back (nest/gen.go: invoke, the senders).  *)
THEOREM HandlersAreReached == Spec => []HandlersReached
<1> QED  BY GenInvariant, HandlersAre, PTL

(* protocol: the constants of a block; j gives spec i its expression *)
Gives(block, j, i) ==
    /\ j \in 1..i /\ block[j].expr # Protocol!NoExpr
    /\ \A k \in (j + 1)..i : block[k].expr = Protocol!NoExpr

Entry(block, j, i) ==
    [type |-> block[j].type, name |-> block[i].name, value |-> Protocol!Eval(block[j].expr, i - 1)]

Spoken(source, walk, spec) ==
    IF spec.expr = Protocol!NoExpr THEN walk.expr ELSE spec.expr

(* one spec of a block *)
Taken(source, block, walk, i) ==
    LET type == Protocol!TypeOf(source, walk, block[i])
        expr == Spoken(source, walk, block[i])
        entry == [type |-> type, name |-> block[i].name, value |-> Protocol!Eval(expr, i - 1)]
    IN  [type |-> type, expr |-> expr,
         values |-> IF type = Protocol!NoType THEN walk.values ELSE Append(walk.values, entry)]

NoneTaken == [type |-> Protocol!NoType, expr |-> Protocol!NoExpr, values |-> <<>>]

IsTaken(source, block, f, m) ==
    f = [i \in 0..m |-> IF i = 0 THEN NoneTaken ELSE Taken(source, block, f[i - 1], i)]

LEMMA TakenExists ==
    ASSUME NEW source, NEW block, NEW m \in Nat
    PROVE  \E f : IsTaken(source, block, f, m)
<1> DEFINE R(x, n) == Taken(source, block, x, n)
           Is(s, k) == s = [n \in 0..k |-> IF n = 0 THEN NoneTaken ELSE R(s[n - 1], n)]
           Bad == {k \in Nat : ~ \E s : Is(s, k)}
<1> HIDE DEF R
<1> SUFFICES ASSUME Bad # {} PROVE FALSE  BY DEF R, IsTaken
<1>1. PICK k \in Bad : \A j \in Bad : k <= j  BY LeastOf
<1>2. Is([n \in 0..0 |-> NoneTaken], 0)  OBVIOUS
<1>3. k \in Nat /\ k # 0  BY <1>2
<1>4. k - 1 \in Nat /\ k - 1 \notin Bad
  <2>1. \A j \in Bad : k <= j  BY <1>1
  <2> HIDE DEF Bad
  <2> QED  BY <1>3, <2>1
<1>5. PICK s : Is(s, k - 1)  BY <1>4
<1> DEFINE more == [n \in 0..k |-> IF n = 0 THEN NoneTaken ELSE R(s[n - 1], n)]
<1>6. \A n \in 0..(k - 1) : more[n] = s[n]
  <2> SUFFICES ASSUME NEW n \in 0..(k - 1) PROVE more[n] = s[n]  OBVIOUS
  <2>1. n \in 0..k  BY <1>3
  <2>2. more[n] = IF n = 0 THEN NoneTaken ELSE R(s[n - 1], n)  BY <2>1
  <2>3. s[n] = IF n = 0 THEN NoneTaken ELSE R(s[n - 1], n)  BY <1>5
  <2> QED  BY <2>2, <2>3
<1>7. \A n \in 0..k : n # 0 => n - 1 \in 0..(k - 1)  BY <1>3
<1>8. Is(more, k)
  <2>1. \A n \in 0..k : (IF n = 0 THEN NoneTaken ELSE R(s[n - 1], n)) = (IF n = 0 THEN NoneTaken ELSE R(more[n - 1], n))
    BY <1>6, <1>7
  <2> QED  BY <2>1
<1> QED  BY <1>1, <1>8

(* after n specs: what the next one repeats, and a value for each so far *)
Read(source, block, S, walk, n) ==
    /\ walk.values \in Seq(S)
    /\ n # 0 => \E j : Gives(block, j, n)
    /\ \A j : Gives(block, j, n) =>
          /\ walk.expr = block[j].expr
          /\ walk.type = IF block[j].type \in source.enums THEN block[j].type ELSE Protocol!NoType
    /\ \A i \in 1..n : \A j : Gives(block, j, i) /\ block[j].type \in source.enums =>
          \E k \in DOMAIN walk.values : walk.values[k] = Entry(block, j, i)

Entries(source, block) ==
    {Entry(block, j, i) : j \in DOMAIN block, i \in DOMAIN block}

LEMMA GivesOne ==
    ASSUME NEW block, NEW n \in Nat, NEW i, Gives(block, i, n), NEW j, Gives(block, j, n)
    PROVE  i = j
<1>1. i \in 1..n /\ j \in 1..n  BY DEF Gives
<1>2. ~(i < j)  BY <1>1 DEF Gives
<1>3. ~(j < i)  BY <1>1 DEF Gives
<1> QED  BY <1>1, <1>2, <1>3

LEMMA GivesNext ==
    ASSUME NEW block, NEW n \in Nat \ {0}
    PROVE  /\ block[n].expr # Protocol!NoExpr => \A j : Gives(block, j, n) <=> j = n
           /\ block[n].expr = Protocol!NoExpr => \A j : Gives(block, j, n) <=> Gives(block, j, n - 1)
<1>1. ASSUME block[n].expr # Protocol!NoExpr, NEW j PROVE Gives(block, j, n) <=> j = n
  <2>1. Gives(block, n, n)  BY <1>1 DEF Gives
  <2> QED  BY <2>1, GivesOne
<1>2. ASSUME block[n].expr = Protocol!NoExpr, NEW j PROVE Gives(block, j, n) <=> Gives(block, j, n - 1)
  <2>1. ASSUME Gives(block, j, n) PROVE Gives(block, j, n - 1)
    <3>1. j \in 1..(n - 1)  BY <1>2, <2>1 DEF Gives
    <3>2. \A k \in (j + 1)..(n - 1) : k \in (j + 1)..n  BY <3>1
    <3> QED  BY <2>1, <3>1, <3>2 DEF Gives
  <2>2. ASSUME Gives(block, j, n - 1) PROVE Gives(block, j, n)
    <3>1. j \in 1..(n - 1) /\ j \in 1..n  BY <2>2 DEF Gives
    <3>2. \A k \in (j + 1)..n : k = n \/ k \in (j + 1)..(n - 1)  BY <3>1
    <3> QED  BY <1>2, <2>2, <3>1, <3>2 DEF Gives
  <2> QED  BY <2>1, <2>2
<1> QED  BY <1>1, <1>2

LEMMA ReadNext ==
    ASSUME NEW source, Protocol!NoType \notin source.enums, NEW block, IsList(block), NEW n \in DOMAIN block,
           block[1].expr # Protocol!NoExpr,
           NEW walk, Read(source, block, Entries(source, block), walk, n - 1)
    PROVE  Read(source, block, Entries(source, block), Taken(source, block, walk, n), n)
<1> DEFINE S == Entries(source, block)
           next == Taken(source, block, walk, n)
           type == Protocol!TypeOf(source, walk, block[n])
           expr == Spoken(source, walk, block[n])
           entry == [type |-> type, name |-> block[n].name, value |-> Protocol!Eval(expr, n - 1)]
<1>1. n \in Nat \ {0} /\ n - 1 \in Nat /\ \A i \in 1..n : i = n \/ i \in 1..(n - 1)
  <2>1. DOMAIN block = 1..Len(block) /\ Len(block) \in Nat  BY DEF IsList
  <2> QED  BY <2>1
<1>2. PICK j : Gives(block, j, n)
  <2>1. CASE block[n].expr # Protocol!NoExpr  BY <1>1, <2>1, GivesNext
  <2>2. CASE block[n].expr = Protocol!NoExpr
    <3>1. n # 1  BY <2>2
    <3>2. n - 1 # 0  BY <1>1, <3>1
    <3> QED  BY <1>1, <2>2, <3>2, GivesNext DEF Read
  <2> QED  BY <2>1, <2>2
<1>3. j \in DOMAIN block
  <2>1. DOMAIN block = 1..Len(block) /\ Len(block) \in Nat  BY DEF IsList
  <2> QED  BY <1>2, <2>1 DEF Gives
<1>4. expr = block[j].expr /\ type = IF block[j].type \in source.enums THEN block[j].type ELSE Protocol!NoType
  <2>1. CASE block[n].expr # Protocol!NoExpr
    <3>1. j = n  BY <1>1, <1>2, <2>1, GivesNext
    <3> QED  BY <2>1, <3>1 DEF Spoken, Protocol!TypeOf
  <2>2. CASE block[n].expr = Protocol!NoExpr
    <3>1. Gives(block, j, n - 1)  BY <1>1, <1>2, <2>2, GivesNext
    <3> QED  BY <2>2, <3>1 DEF Spoken, Protocol!TypeOf, Read
  <2> QED  BY <2>1, <2>2
<1>5. next.type = type /\ next.expr = expr
      /\ next.values = IF type = Protocol!NoType THEN walk.values ELSE Append(walk.values, entry)
  BY DEF Taken
<1> HIDE DEF next, type, expr
<1>6. type # Protocol!NoType => block[j].type \in source.enums /\ entry = Entry(block, j, n) /\ entry \in S
  BY <1>3, <1>4 DEF Entry, Entries
<1>7. block[j].type \in source.enums => type # Protocol!NoType  BY <1>4
<1> HIDE DEF S, entry
<1>8. walk.values \in Seq(S)  BY DEF Read, S
<1>9. next.values \in Seq(S)  BY <1>5, <1>6, <1>8
<1>10. /\ \A k \in DOMAIN walk.values : k \in DOMAIN next.values /\ next.values[k] = walk.values[k]
       /\ type # Protocol!NoType => \E k \in DOMAIN next.values : next.values[k] = entry
  <2> DEFINE rest == walk.values
             len == Len(rest)
  <2>1. DOMAIN rest = 1..len /\ len \in Nat  BY <1>8
  <2>2. CASE type = Protocol!NoType  BY <1>5, <2>2
  <2>3. CASE type # Protocol!NoType
    <3>1. next.values = Append(rest, entry) /\ entry \in S /\ rest \in Seq(S)  BY <1>5, <1>6, <1>8, <2>3
    <3> HIDE DEF rest
    <3>2. DOMAIN Append(rest, entry) = 1..(len + 1) /\ Append(rest, entry)[len + 1] = entry
          /\ \A k \in 1..len : Append(rest, entry)[k] = rest[k]
      BY <3>1
    <3>3. len + 1 \in 1..(len + 1) /\ \A k \in 1..len : k \in 1..(len + 1)  BY <2>1
    <3> QED  BY <2>1, <3>1, <3>2, <3>3 DEF rest
  <2> QED  BY <2>2, <2>3
<1>11. ASSUME NEW i \in 1..n, NEW g, Gives(block, g, i), block[g].type \in source.enums
       PROVE  \E k \in DOMAIN next.values : next.values[k] = Entry(block, g, i)
  <2>1. CASE i = n
    <3>1. g = j  BY <1>1, <1>2, <1>11, <2>1, GivesOne
    <3> QED  BY <1>6, <1>7, <1>10, <1>11, <2>1, <3>1
  <2>2. CASE i # n
    <3>1. i \in 1..(n - 1)  BY <1>1, <2>2
    <3>2. PICK k \in DOMAIN walk.values : walk.values[k] = Entry(block, g, i)  BY <1>11, <3>1 DEF Read
    <3> QED  BY <1>10, <3>2
  <2> QED  BY <2>1, <2>2
<1>12. ASSUME NEW g, Gives(block, g, n)
       PROVE  next.expr = block[g].expr /\ next.type = IF block[g].type \in source.enums THEN block[g].type ELSE Protocol!NoType
  <2>1. g = j  BY <1>1, <1>2, <1>12, GivesOne
  <2> QED  BY <1>4, <1>5, <2>1
<1> QED  BY <1>2, <1>9, <1>11, <1>12 DEF Read, next, S

LEMMA BlockRead ==
    ASSUME NEW source, Protocol!NoType \notin source.enums, NEW block, IsList(block),
           block # <<>> => block[1].expr # Protocol!NoExpr
    PROVE  LET values == Protocol!BlockValues(source, block)
           IN  /\ values \in Seq(Entries(source, block))
               /\ \A i \in DOMAIN block : \A j : Gives(block, j, i) /\ block[j].type \in source.enums =>
                     \E k \in DOMAIN values : values[k] = Entry(block, j, i)
               /\ \A i \in DOMAIN block : \E j : Gives(block, j, i)
<1> DEFINE m == Len(block)
           walked == CHOOSE f : IsTaken(source, block, f, m)
           S == Entries(source, block)
           Holds(n) == Read(source, block, S, walked[n], n)
           Bad == {n \in Nat : n \in 0..m /\ ~Holds(n)}
<1>1. DOMAIN block = 1..m /\ m \in Nat /\ (m # 0 => block # <<>>)  BY DEF IsList
<1>2. Protocol!BlockValues(source, block) = walked[m].values
  BY DEF Protocol!BlockValues, IsTaken, Taken, NoneTaken, Spoken
<1>3. IsTaken(source, block, walked, m)  BY <1>1, TakenExists
<1> HIDE DEF walked, m
<1>4. Holds(0)
  <2>1. walked[0] = NoneTaken  BY <1>1, <1>3 DEF IsTaken
  <2>2. \A j : ~Gives(block, j, 0)  BY DEF Gives
  <2> QED  BY <2>1, <2>2 DEF Read, NoneTaken
<1>5. Bad = {}
  <2> SUFFICES ASSUME Bad # {} PROVE FALSE  OBVIOUS
  <2>1. PICK n \in Bad : \A j \in Bad : n <= j  BY LeastOf
  <2>2. n \in Nat /\ n \in 0..m /\ ~Holds(n) /\ n # 0  BY <1>4, <2>1
  <2>3. n - 1 \in Nat /\ n - 1 \in 0..m /\ n - 1 \notin Bad
    <3>1. \A j \in Bad : n <= j  BY <2>1
    <3> HIDE DEF Bad
    <3> QED  BY <1>1, <2>2, <3>1
  <2>4. Holds(n - 1)  BY <2>3
  <2>5. n \in DOMAIN block /\ block # <<>>  BY <1>1, <2>2
  <2>6. walked[n] = Taken(source, block, walked[n - 1], n)  BY <2>2, <1>3 DEF IsTaken
  <2>7. Holds(n)  BY <2>4, <2>5, <2>6, ReadNext
  <2> QED  BY <2>2, <2>7
<1>6. \A n \in 0..m : Holds(n)  BY <1>1, <1>5
<1>7. m \in 0..m /\ \A i \in 1..m : i \in 0..m /\ i # 0  BY <1>1
<1> QED  BY <1>1, <1>2, <1>6, <1>7 DEF Read

LEMMA ProtocolKept == \A seq, P : Protocol!Kept(seq, P) = Kept(seq, P)
<1>1. \A S : Protocol!Cardinality(S) = Cardinality(S)  BY DEF Cardinality, Protocol!Cardinality
<1>2. \A P, n : Protocol!Nth(P, n) = Nth(P, n)  BY <1>1 DEF Nth, Protocol!Nth
<1> QED  BY <1>1, <1>2 DEF Kept, Protocol!Kept

(* what the parser of Go lets through: lists, and a value to begin with *)
Compiled(source) ==
    /\ Protocol!NoType \notin source.enums
    /\ IsList(source.blocks)
    /\ \A b \in DOMAIN source.blocks :
          LET block == source.blocks[b]
          IN  IsList(block) /\ (block # <<>> => block[1].expr # Protocol!NoExpr)

LEMMA EnumRead ==
    ASSUME NEW source, Compiled(source), NEW b \in DOMAIN source.blocks,
           NEW i \in DOMAIN source.blocks[b], NEW j, Gives(source.blocks[b], j, i),
           source.blocks[b][j].type \in source.enums
    PROVE  LET values == Protocol!EnumValues(source, source.blocks[b][j].type)
           IN  \E k \in DOMAIN values : values[k] = Entry(source.blocks[b], j, i)
<1> DEFINE blocks == source.blocks
           enum == blocks[b][j].type
           m == Len(blocks)
           rows == [c \in 1..m |-> Protocol!BlockValues(source, blocks[c])]
           all == CHOOSE f : IsJoined(rows, f, m)
           joined == all[m]
           these == {k \in DOMAIN joined : joined[k].type = enum}
           S == UNION {Entries(source, blocks[c]) : c \in 1..m}
           entry == Entry(blocks[b], j, i)
           lens == [c \in 1..m |-> Len(rows[c])]
<1>1. DOMAIN blocks = 1..m /\ m \in Nat /\ b \in 1..m  BY DEF Compiled, IsList
<1>2. \A c \in 1..m : rows[c] \in Seq(Entries(source, blocks[c]))
  BY <1>1, BlockRead DEF Compiled
<1>3. \A c \in 1..m : rows[c] \in Seq(S)
  <2> SUFFICES ASSUME NEW c \in 1..m PROVE rows[c] \in Seq(S)  OBVIOUS
  <2>1. Entries(source, blocks[c]) \subseteq S  OBVIOUS
  <2> DEFINE E == Entries(source, blocks[c])
             row == rows[c]
  <2>2. row \in Seq(E) /\ E \subseteq S  BY <1>2, <2>1
  <2> HIDE DEF E, S, row
  <2>3. row \in Seq(S)  BY <2>2
  <2> QED  BY <2>3 DEF row
<1>4. PICK at \in DOMAIN rows[b] : rows[b][at] = entry
  BY <1>1, BlockRead, SMTT(40) DEF Compiled
<1>5. Protocol!EnumValues(source, enum) = Kept(joined, these)
  <2>1. all = CHOOSE f : f = [c \in 0..m |-> IF c = 0 THEN <<>> ELSE f[c - 1] \o Protocol!BlockValues(source, blocks[c])]
    <3>1. \A f : IsJoined(rows, f, m) <=>
                 f = [c \in 0..m |-> IF c = 0 THEN <<>> ELSE f[c - 1] \o Protocol!BlockValues(source, blocks[c])]
      <4> SUFFICES ASSUME NEW f
                   PROVE  [c \in 0..m |-> IF c = 0 THEN <<>> ELSE f[c - 1] \o rows[c]]
                          = [c \in 0..m |-> IF c = 0 THEN <<>> ELSE f[c - 1] \o Protocol!BlockValues(source, blocks[c])]
        BY DEF IsJoined
      <4>1. \A c \in 0..m : c # 0 => c \in 1..m  BY <1>1
      <4>2. \A c \in 1..m : rows[c] = Protocol!BlockValues(source, blocks[c])  OBVIOUS
      <4> HIDE DEF rows
      <4> QED  BY <4>1, <4>2
    <3> QED  BY <3>1
  <2> HIDE DEF all
  <2> QED  BY <2>1, ProtocolKept DEF Protocol!EnumValues, Protocol!Select
<1> HIDE DEF rows, all, S
<1>6. IsJoined(rows, all, m)  BY <1>1, JoinedExists DEF all
<1>7. PICK index : IsIndexes(lens, index, m)  BY <1>1, IndexesExist
<1>8. all[m] \in Seq(S) /\ Placed(rows, all, index, m)
  <2>1. \A c \in 1..m : lens[c] = Len(rows[c])  OBVIOUS
  <2> HIDE DEF lens
  <2>2. \A k \in 0..m : all[k] \in Seq(S) /\ Placed(rows, all, index, k)
    BY <1>1, <1>3, <1>6, <1>7, <2>1, JoiningPlaces
  <2>3. m \in 0..m  BY <1>1
  <2> QED  BY <2>2, <2>3
<1>9. PICK k \in DOMAIN joined : joined[k] = entry
  <2> DEFINE row == rows[b]
             from == index[b - 1]
             n == from + at
  <2>1. /\ Len(joined) = index[m] /\ index[m] \in Nat /\ from \in Nat
        /\ from + Len(row) <= index[m] /\ \A x \in 1..Len(row) : joined[from + x] = row[x]
    BY <1>1, <1>8 DEF Placed
  <2>2. row \in Seq(S) /\ at \in DOMAIN row /\ row[at] = entry  BY <1>1, <1>3, <1>4
  <2>3. joined \in Seq(S)  BY <1>8
  <2> HIDE DEF row, from, joined
  <2>4. at \in 1..Len(row) /\ Len(row) \in Nat  BY <2>2
  <2>5. n \in 1..index[m]  BY <2>1, <2>4
  <2>6. n \in DOMAIN joined  BY <2>1, <2>3, <2>5
  <2> QED  BY <2>1, <2>2, <2>4, <2>6
<1>10. k \in these  BY <1>9 DEF Entry
<1>11. \A x \in these : \E y \in DOMAIN Kept(joined, these) : Kept(joined, these)[y] = joined[x]
  <2>1. joined \in Seq(S) /\ these \in SUBSET (DOMAIN joined)  BY <1>8
  <2> HIDE DEF joined, these
  <2> QED  BY <2>1, KeptSeq
<1> QED  BY <1>5, <1>9, <1>10, <1>11

ConstantsHold(source) ==
    \A e \in Protocol!Enums(source) : \A b \in DOMAIN source.blocks : \A i \in DOMAIN source.blocks[b] :
        LET block == source.blocks[b]
            given == CHOOSE j \in 1..i : block[j].expr # Protocol!NoExpr
                                         /\ \A k \in (j+1)..i : block[k].expr = Protocol!NoExpr
        IN  block[given].type = e =>
               \E k \in DOMAIN Protocol!EnumValues(source, e) :
                  /\ Protocol!EnumValues(source, e)[k].name = block[i].name
                  /\ Protocol!EnumValues(source, e)[k].value = Protocol!Eval(block[given].expr, i - 1)

LEMMA ConstantsAre ==
    ASSUME NEW source, Compiled(source)
    PROVE  ConstantsHold(source)
<1> SUFFICES ASSUME NEW e \in Protocol!Enums(source), NEW b \in DOMAIN source.blocks,
                    NEW i \in DOMAIN source.blocks[b]
             PROVE  LET block == source.blocks[b]
                        given == CHOOSE j \in 1..i : block[j].expr # Protocol!NoExpr
                                                     /\ \A k \in (j+1)..i : block[k].expr = Protocol!NoExpr
                    IN  block[given].type = e =>
                          \E k \in DOMAIN Protocol!EnumValues(source, e) :
                             /\ Protocol!EnumValues(source, e)[k].name = block[i].name
                             /\ Protocol!EnumValues(source, e)[k].value = Protocol!Eval(block[given].expr, i - 1)
  BY DEF ConstantsHold
<1> DEFINE block == source.blocks[b]
           given == CHOOSE j \in 1..i : block[j].expr # Protocol!NoExpr
                                        /\ \A k \in (j+1)..i : block[k].expr = Protocol!NoExpr
           values == Protocol!EnumValues(source, e)
<1>1. \E j : Gives(block, j, i)
  <2>1. /\ Protocol!NoType \notin source.enums /\ IsList(block)
        /\ block # <<>> => block[1].expr # Protocol!NoExpr
    BY DEF Compiled
  <2>2. i \in DOMAIN block  OBVIOUS
  <2> HIDE DEF block
  <2> QED  BY <2>1, <2>2, BlockRead
<1>2. Gives(block, given, i)  BY <1>1 DEF Gives
<1>3. e \in source.enums  BY DEF Protocol!Enums
<1>4. ASSUME block[given].type = e
      PROVE  \E k \in DOMAIN values : values[k] = Entry(block, given, i)
  BY <1>2, <1>3, <1>4, EnumRead
<1>5. Entry(block, given, i).name = block[i].name
      /\ Entry(block, given, i).value = Protocol!Eval(block[given].expr, i - 1)
  BY DEF Entry
<1> HIDE DEF values, given, block
<1> QED  BY <1>4, <1>5 DEF values, given, block

(* An id means one method to client and server. *)
IdsHold(source, content, handlers, bootstrap) ==
    /\ \A m \in Protocol!Requests(source) :
          /\ content.robot.encode[m.id] = content.bind[m.id].in[1]
          /\ m.resp # <<>> => content.robot.decode[m.id] = content.bind[m.id].out[1]
          /\ Protocol!Cardinality({d \in bootstrap.domains : d \in DOMAIN handlers /\ m.id \in handlers[d]})
                = (IF Protocol!Handler(m) = Protocol!NoDomain THEN 0 ELSE 1)
    /\ \A m \in Protocol!Pushes(source) :
          m.id \in bootstrap.encoders /\ content.robot.decode[m.id] = m.resp[1]

LEMMA IdsAre ==
    ASSUME NEW source, ~Protocol!Rejected(source),
           NEW content, content = [bind |-> Protocol!Bind(source), robot |-> Protocol!Robot(source)],
           NEW handlers,
           handlers = [d \in Protocol!Domains(source) |-> Protocol!DomainHandlers(source, d)],
           NEW bootstrap, bootstrap = Protocol!Bootstrap(source)
    PROVE  IdsHold(source, content, handlers, bootstrap)
<1> DEFINE methods == source.methods
           requests == Protocol!Requests(source)
           answered == {m \in methods : m.resp # <<>>}
<1>1. \A m, other \in methods : m.id = other.id => m = other  BY DEF Protocol!Rejected
<1>2. \A m \in methods : <<Len(m.req), Len(m.resp)>> \in {<<1, 1>>, <<1, 0>>, <<0, 1>>}
  BY DEF Protocol!Rejected, Protocol!BadMethod
<1>3. \A m \in methods : content.bind[m.id] = [in |-> m.req, out |-> m.resp]
  <2> SUFFICES ASSUME NEW m \in methods PROVE content.bind[m.id] = [in |-> m.req, out |-> m.resp]  OBVIOUS
  <2>1. (CHOOSE o \in methods : o.id = m.id) = m  BY <1>1
  <2>2. content.bind[m.id] = Protocol!Types(CHOOSE o \in methods : o.id = m.id)  BY DEF Protocol!Bind
  <2> QED  BY <2>1, <2>2 DEF Protocol!Types
<1>4. \A m \in requests : m \in methods /\ content.robot.encode[m.id] = m.req[1]
  <2> SUFFICES ASSUME NEW m \in requests PROVE m \in methods /\ content.robot.encode[m.id] = m.req[1]  OBVIOUS
  <2>1. \A o \in requests : o \in methods  BY DEF Protocol!Requests
  <2>2. (CHOOSE o \in requests : o.id = m.id) = m  BY <1>1, <2>1
  <2>3. content.robot.encode[m.id] = (CHOOSE o \in requests : o.id = m.id).req[1]  BY DEF Protocol!Robot
  <2> QED  BY <2>1, <2>2, <2>3
<1>5. \A m \in answered : content.robot.decode[m.id] = m.resp[1]
  <2> SUFFICES ASSUME NEW m \in answered PROVE content.robot.decode[m.id] = m.resp[1]  OBVIOUS
  <2>1. (CHOOSE o \in answered : o.id = m.id) = m  BY <1>1
  <2>2. content.robot.decode[m.id] = (CHOOSE o \in answered : o.id = m.id).resp[1]  BY DEF Protocol!Robot
  <2> QED  BY <2>1, <2>2
<1>6. ASSUME NEW m \in requests
      PROVE  Protocol!Cardinality({d \in bootstrap.domains : d \in DOMAIN handlers /\ m.id \in handlers[d]})
               = (IF Protocol!Handler(m) = Protocol!NoDomain THEN 0 ELSE 1)
  <2> DEFINE domains == Protocol!Domains(source)
             own == {d \in bootstrap.domains : d \in DOMAIN handlers /\ m.id \in handlers[d]}
             domain == Protocol!Handler(m)
  <2>1. own = {d \in domains : m.id \in Protocol!DomainHandlers(source, d)}
    BY DEF Protocol!Bootstrap
  <2>2. \A d : m.id \in Protocol!DomainHandlers(source, d) <=> domain = d
    <3> SUFFICES ASSUME NEW d PROVE m.id \in Protocol!DomainHandlers(source, d) <=> domain = d  OBVIOUS
    <3>1. ASSUME m.id \in Protocol!DomainHandlers(source, d) PROVE domain = d
      <4>1. PICK r \in requests : Protocol!Handler(r) = d /\ r.id = m.id
        BY <3>1 DEF Protocol!DomainHandlers
      <4>2. r = m  BY <1>1, <1>4, <4>1
      <4> QED  BY <4>1, <4>2
    <3>2. ASSUME domain = d PROVE m.id \in Protocol!DomainHandlers(source, d)
      BY <3>2 DEF Protocol!DomainHandlers
    <3> QED  BY <3>1, <3>2
  <2>3. domain \in domains <=> domain # Protocol!NoDomain  BY DEF Protocol!Domains
  <2>4. own = IF domain = Protocol!NoDomain THEN {} ELSE {domain}
    <3> HIDE DEF own, domain, domains
    <3> QED  BY <2>1, <2>2, <2>3
  <2>5. \A S : Protocol!Cardinality(S) = Cardinality(S)  BY DEF Cardinality, Protocol!Cardinality
  <2> HIDE DEF own, domain
  <2>6. Cardinality({}) = 0 /\ Cardinality({domain}) = 1  BY FS_EmptySet, FS_Singleton
  <2>7. Protocol!Cardinality(own) = IF domain = Protocol!NoDomain THEN 0 ELSE 1  BY <2>4, <2>5, <2>6
  <2> QED  BY <2>7 DEF own, domain
<1>7. ASSUME NEW m \in Protocol!Pushes(source)
      PROVE  m.id \in bootstrap.encoders /\ content.robot.decode[m.id] = m.resp[1]
  <2>1. m \in methods /\ Len(m.req) = 0  BY DEF Protocol!Pushes
  <2>2. Len(m.resp) = 1  BY <1>2, <2>1
  <2>3. m.resp # <<>>  BY <2>2
  <2> QED  BY <1>5, <2>1, <2>3 DEF Protocol!Bootstrap
<1> HIDE DEF answered, requests
<1>8. ASSUME NEW m \in requests PROVE m.resp # <<>> => content.robot.decode[m.id] = m.resp[1]
  BY <1>4, <1>5 DEF answered
<1>9. ASSUME NEW m \in requests
      PROVE  /\ content.robot.encode[m.id] = content.bind[m.id].in[1]
             /\ m.resp # <<>> => content.robot.decode[m.id] = content.bind[m.id].out[1]
  <2> DEFINE types == content.bind[m.id]
  <2>1. m \in methods  BY <1>4
  <2>2. types = [in |-> m.req, out |-> m.resp]  BY <1>3, <2>1
  <2> HIDE DEF types
  <2>3. types.in = m.req /\ types.out = m.resp  BY <2>2
  <2> QED  BY <1>4, <1>8, <2>3 DEF types
<1> QED  BY <1>6, <1>7, <1>9 DEF requests, IdsHold

LEMMA ProtocolsAre == GenInv => ProtocolAgrees
<1> SUFFICES ASSUME GenInv, Ran("protocol"), ~Protocol!Nothing(Source("protocol"))
             PROVE  LET source == Source("protocol")
                    IN  Protocol!Agrees(source,
                           [bind |-> At("protocol", <<"codec">>).bind, robot |-> Protocol!Robot(source)],
                           [d \in Protocol!Domains(source) |-> At("protocol", <<"handler", d>>)],
                           At("protocol", <<"bootstrap">>))
  BY DEF ProtocolAgrees
<1> DEFINE source == Source("protocol")
           codec == {<<"codec">>} \union {<<"handler", d>> : d \in Protocol!Domains(source)}
           keys == {<<"bootstrap">>} \union codec
           Holds(k) == CASE k = <<"bootstrap">> -> Protocol!Bootstrap(source)
                         [] k = <<"codec">> -> [schema |-> Protocol!Schema(source), bind |-> Protocol!Bind(source)]
                         [] OTHER -> Protocol!DomainHandlers(source, k[2])
<1>1. "protocol" \in Names /\ Feature("protocol") = "protocol"  BY NamesAre DEF Feature
<1>2. source \in Sources("protocol")  BY <1>1, RanIs
<1>3. ~Protocol!Rejected(source)
  <2> DEFINE refused == Protocol!Rejected(source)
  <2> HIDE DEF refused
  <2>1. Rejected("protocol", source, out) = refused  BY <1>1 DEF Rejected, refused
  <2> QED  BY <1>1, <2>1, RanIs DEF refused
<1>4. Compiled(source)
  BY <1>2, SourcesAssumption DEF SourcesAssumption, ConstantsAssumption, Compiled
<1>5. \A k \in keys : At("protocol", k) = Holds(k)
  <2> SUFFICES ASSUME NEW k \in keys PROVE At("protocol", k) = Holds(k)  OBVIOUS
  <2>1. Outputs("protocol", source, out) = [p \in {<<"protocol", j>> : j \in keys} |-> <<"gen", Holds(p[2])>>]
    <3>1. Outputs("protocol", source, out) = ProtocolFiles(source)  BY <1>1 DEF Outputs
    <3> DEFINE some == IF Protocol!Nothing(source) THEN {} ELSE codec
    <3>2. some = codec  OBVIOUS
    <3>3. ProtocolFiles(source) = [p \in {<<"protocol", j>> : j \in {<<"bootstrap">>} \union some} |-> <<"gen", Holds(p[2])>>]
      BY DEF ProtocolFiles, Files
    <3> HIDE DEF some, codec, Holds
    <3> QED  BY <3>1, <3>2, <3>3
  <2> HIDE DEF Holds, keys, source
  <2>2. <<"protocol", k>> \in DOMAIN Outputs("protocol", source, out)  BY <2>1
  <2>3. Outputs("protocol", source, out)[<<"protocol", k>>] = <<"gen", Holds(k)>>  BY <2>1, <2>2
  <2>4. out[<<"protocol", k>>] = <<"gen", Holds(k)>>  BY <1>1, <2>2, <2>3, RanIs DEF source
  <2> QED  BY <2>4 DEF At
<1>6. At("protocol", <<"bootstrap">>) = Protocol!Bootstrap(source)
  <2>1. <<"bootstrap">> \in keys  OBVIOUS
  <2> QED  BY <1>5, <2>1
<1>7. At("protocol", <<"codec">>).bind = Protocol!Bind(source)
  <2>1. <<"codec">> \in keys  OBVIOUS
  <2>2. <<"codec">> # <<"bootstrap">>  OBVIOUS
  <2>3. Holds(<<"codec">>) = [schema |-> Protocol!Schema(source), bind |-> Protocol!Bind(source)]  BY <2>2
  <2> QED  BY <1>5, <2>1, <2>3
<1>8. \A d \in Protocol!Domains(source) : At("protocol", <<"handler", d>>) = Protocol!DomainHandlers(source, d)
  <2> SUFFICES ASSUME NEW d \in Protocol!Domains(source)
               PROVE  At("protocol", <<"handler", d>>) = Protocol!DomainHandlers(source, d)
    OBVIOUS
  <2>1. <<"handler", d>> \in keys  OBVIOUS
  <2>2. <<"handler", d>> # <<"bootstrap">> /\ <<"handler", d>> # <<"codec">> /\ <<"handler", d>>[2] = d  OBVIOUS
  <2>3. Holds(<<"handler", d>>) = Protocol!DomainHandlers(source, d)  BY <2>2
  <2> QED  BY <1>5, <2>1, <2>3
<1> DEFINE content == [bind |-> At("protocol", <<"codec">>).bind, robot |-> Protocol!Robot(source)]
           handlers == [d \in Protocol!Domains(source) |-> At("protocol", <<"handler", d>>)]
           bootstrap == At("protocol", <<"bootstrap">>)
<1>9. /\ content = [bind |-> Protocol!Bind(source), robot |-> Protocol!Robot(source)]
      /\ handlers = [d \in Protocol!Domains(source) |-> Protocol!DomainHandlers(source, d)]
      /\ bootstrap = Protocol!Bootstrap(source)
  BY <1>6, <1>7, <1>8, SMTT(40)
<1> HIDE DEF source, keys, Holds, content, handlers, bootstrap
<1>10. Protocol!Agrees(source, content, handlers, bootstrap)
  <2>1. IdsHold(source, content, handlers, bootstrap)  BY <1>3, <1>9, IdsAre
  <2>2. ConstantsHold(source)  BY <1>4, ConstantsAre
  <2> QED  BY <2>1, <2>2 DEF Protocol!Agrees, ConstantsHold, IdsHold
<1> QED  BY <1>10 DEF source, content, handlers, bootstrap

(* Client and server agree: whatever methods and constants a project       *)
(* declares, an id means one method to both sides, a request is handled    *)
(* where it was declared to be and once, and an enum has the values the    *)
(* compiler gives its constants (protocol/parse.go, gen.go).               *)
THEOREM SidesAgree == Spec => []ProtocolAgrees
<1> QED  BY GenInvariant, ProtocolsAre, PTL

-----------------------------------------------------------------------------
(* rpc: what the generator leaves to who declares a service: no two        *)
(* parameters, and no two results, have one key, and none the key of the   *)
(* status a reply carries                                                  *)
KeysApart(method) ==
    /\ \A i, j \in DOMAIN method.params : method.params[i].json = method.params[j].json => i = j
    /\ \A i, j \in DOMAIN method.results : method.results[i].json = method.results[j].json => i = j
    /\ \A i \in DOMAIN method.results : method.results[i].json \notin Rpc!Status

LEMMA RpcCards == \A S : Rpc!Cardinality(S) = Cardinality(S)
BY DEF Cardinality, Rpc!Cardinality

LEMMA PayloadArrives ==
    ASSUME NEW fields, \A i, j \in DOMAIN fields : fields[i].json = fields[j].json => i = j,
           NEW values, values = [i \in DOMAIN fields |-> values[i]],
           NEW embedded
    PROVE  LET payload == Rpc!Encode(fields, values, embedded)
           IN  /\ Rpc!Decode(fields, payload) = values
               /\ \A key \in DOMAIN embedded : (\A i \in DOMAIN fields : fields[i].json # key) =>
                     key \in DOMAIN payload /\ payload[key] = embedded[key] /\ Rpc!Dominant(fields, key) = {}
<1> DEFINE payload == Rpc!Encode(fields, values, embedded)
           own == {fields[i].json : i \in DOMAIN fields}
           alone == {k \in own : Rpc!Cardinality(Rpc!Dominant(fields, k)) = 1}
<1>1. \A i \in DOMAIN fields : Rpc!Dominant(fields, fields[i].json) = {i}
  BY DEF Rpc!Dominant
<1>2. \A i \in DOMAIN fields : Rpc!Cardinality(Rpc!Dominant(fields, fields[i].json)) = 1
  BY <1>1, RpcCards, FS_Singleton
<1>3. payload = [key \in alone \union (DOMAIN embedded \ own) |->
                    IF key \in own THEN values[CHOOSE i \in Rpc!Dominant(fields, key) : TRUE] ELSE embedded[key]]
  BY DEF Rpc!Encode
<1>4. ASSUME NEW i \in DOMAIN fields
      PROVE  fields[i].json \in DOMAIN payload /\ payload[fields[i].json] = values[i]
  <2> DEFINE key == fields[i].json
  <2>1. key \in own /\ key \in alone  BY <1>2
  <2>2. (CHOOSE j \in Rpc!Dominant(fields, key) : TRUE) = i  BY <1>1
  <2> HIDE DEF key, own, alone, payload
  <2> QED  BY <1>3, <2>1, <2>2 DEF key
<1>5. Rpc!Decode(fields, payload) = values
  <2>1. Rpc!Decode(fields, payload)
          = [i \in DOMAIN fields |->
               IF Rpc!Cardinality(Rpc!Dominant(fields, fields[i].json)) = 1 /\ fields[i].json \in DOMAIN payload
               THEN payload[fields[i].json] ELSE 0]
    BY DEF Rpc!Decode
  <2> HIDE DEF payload
  <2> QED  BY <1>2, <1>4, <2>1
<1>6. ASSUME NEW key \in DOMAIN embedded, \A i \in DOMAIN fields : fields[i].json # key
      PROVE  key \in DOMAIN payload /\ payload[key] = embedded[key] /\ Rpc!Dominant(fields, key) = {}
  <2>1. key \notin own  BY <1>6
  <2>2. Rpc!Dominant(fields, key) = {}  BY <1>6 DEF Rpc!Dominant
  <2> HIDE DEF own, alone, payload
  <2> QED  BY <1>3, <2>1, <2>2
<1> QED  BY <1>5, <1>6

Asked(method, args, results, status, service) ==
    /\ KeysApart(method)
    /\ args \in [DOMAIN method.params -> 1..2] /\ results \in [DOMAIN method.results -> 1..2] /\ status \in [Rpc!Status -> 0..1]
    /\ service = [got \in [DOMAIN args -> 0..2] |->
                     IF got = args THEN [results |-> results, status |-> status]
                     ELSE [results |-> [j \in DOMAIN results |-> 0], status |-> [key \in Rpc!Status |-> 9]]]

LEMMA CallArrives ==
    ASSUME NEW method, NEW args, NEW results, NEW status, NEW service, Asked(method, args, results, status, service)
    PROVE  Rpc!Call(method, args, service) = [results |-> results, status |-> status]
<1> USE DEF Asked
<1> DEFINE request == Rpc!Encode(method.params, args, [key \in {} |-> 0])
           reply == Rpc!Encode(method.results, results, status)
<1>1. Rpc!Decode(method.params, request) = args
  <2>1. args = [i \in DOMAIN method.params |-> args[i]]  OBVIOUS
  <2> QED  BY <2>1, PayloadArrives DEF KeysApart
<1>2. service[args] = [results |-> results, status |-> status]
  <2>1. args \in [DOMAIN args -> 0..2]
    <3>1. \A i \in DOMAIN args : args[i] \in 0..2  OBVIOUS
    <3> QED  BY <3>1
  <2> QED  BY <2>1
<1>3. Rpc!Handle(method, request, service) = reply
  <2> HIDE DEF request
  <2> QED  BY <1>1, <1>2 DEF Rpc!Handle
<1>4. /\ Rpc!Decode(method.results, reply) = results
      /\ \A key \in Rpc!Status :
            key \in DOMAIN reply /\ reply[key] = status[key] /\ Rpc!Dominant(method.results, key) = {}
  <2>1. results = [i \in DOMAIN method.results |-> results[i]]  OBVIOUS
  <2>2. DOMAIN status = Rpc!Status  OBVIOUS
  <2> QED  BY <2>1, <2>2, PayloadArrives, SMTT(40) DEF KeysApart
<1>5. Rpc!DecodeStatus(method.results, reply) = status
  <2>1. Rpc!DecodeStatus(method.results, reply) = [key \in Rpc!Status |-> status[key]]
    <3> HIDE DEF reply
    <3> QED  BY <1>4 DEF Rpc!DecodeStatus
  <2> QED  BY <2>1
<1> HIDE DEF request, reply
<1> QED  BY <1>3, <1>4, <1>5 DEF Rpc!Call, request

-----------------------------------------------------------------------------
(* rpc: the registry of a process in which an owner or a client was first  *)
Assembling(before, mod) ==
    IF mod = "owner" THEN Rpc!OwnerCapabilities(before) ELSE Rpc!ProvideClient(before)

BusOnly == [name \in {"bus"} |-> "bus"]

IsAssembled(mods, f, m) ==
    f = [k \in 0..m |-> IF k = 0 THEN BusOnly ELSE Assembling(f[k - 1], mods[k])]

LEMMA AssembledExists ==
    ASSUME NEW mods, NEW m \in Nat
    PROVE  \E f : IsAssembled(mods, f, m)
<1> DEFINE R(x, n) == Assembling(x, mods[n])
           Is(s, k) == s = [n \in 0..k |-> IF n = 0 THEN BusOnly ELSE R(s[n - 1], n)]
           Bad == {k \in Nat : ~ \E s : Is(s, k)}
<1> HIDE DEF R
<1> SUFFICES ASSUME Bad # {} PROVE FALSE  BY DEF R, IsAssembled
<1>1. PICK k \in Bad : \A j \in Bad : k <= j  BY LeastOf
<1>2. Is([n \in 0..0 |-> BusOnly], 0)  OBVIOUS
<1>3. k \in Nat /\ k # 0  BY <1>2
<1>4. k - 1 \in Nat /\ k - 1 \notin Bad
  <2>1. \A j \in Bad : k <= j  BY <1>1
  <2> HIDE DEF Bad
  <2> QED  BY <1>3, <2>1
<1>5. PICK s : Is(s, k - 1)  BY <1>4
<1> DEFINE more == [n \in 0..k |-> IF n = 0 THEN BusOnly ELSE R(s[n - 1], n)]
<1>6. \A n \in 0..(k - 1) : more[n] = s[n]
  <2> SUFFICES ASSUME NEW n \in 0..(k - 1) PROVE more[n] = s[n]  OBVIOUS
  <2>1. n \in 0..k  BY <1>3
  <2>2. more[n] = IF n = 0 THEN BusOnly ELSE R(s[n - 1], n)  BY <2>1
  <2>3. s[n] = IF n = 0 THEN BusOnly ELSE R(s[n - 1], n)  BY <1>5
  <2> QED  BY <2>2, <2>3
<1>7. \A n \in 0..k : n # 0 => n - 1 \in 0..(k - 1)  BY <1>3
<1>8. Is(more, k)
  <2>1. \A n \in 0..k : (IF n = 0 THEN BusOnly ELSE R(s[n - 1], n)) = (IF n = 0 THEN BusOnly ELSE R(more[n - 1], n))
    BY <1>6, <1>7
  <2> QED  BY <2>1
<1> QED  BY <1>1, <1>8

(* what a process has once its first mod has been assembled *)
Serves(registry, first) ==
    /\ {"bus", "capability"} \subseteq DOMAIN registry
    /\ IF first = "owner" THEN "local" \in DOMAIN registry /\ registry["local"] = "service"
       ELSE "local" \notin DOMAIN registry

LEMMA ServesFirst ==
    ASSUME NEW first \in {"owner", "client"}
    PROVE  Serves(Assembling(BusOnly, first), first)
<1> DEFINE entries == [name \in {"capability", "local"} |-> IF name = "local" THEN "service" ELSE "wrapped service"]
           proxy == [name \in {"capability"} |-> "wrapped client"]
<1>1. DOMAIN BusOnly = {"bus"}  BY DEF BusOnly
<1>2. CASE first = "owner"
  <2>1. DOMAIN entries = {"capability", "local"} /\ entries["local"] = "service"  OBVIOUS
  <2>2. Assembling(BusOnly, first) = Rpc!Register(BusOnly, entries)
    BY <1>2 DEF Assembling, Rpc!OwnerCapabilities
  <2> HIDE DEF entries
  <2>3. DOMAIN BusOnly \intersect DOMAIN entries = {}  BY <1>1, <2>1
  <2>4. Rpc!Register(BusOnly, entries)
          = [name \in DOMAIN BusOnly \union DOMAIN entries |-> IF name \in DOMAIN entries THEN entries[name] ELSE BusOnly[name]]
    BY <2>3 DEF Rpc!Register
  <2> QED  BY <1>1, <1>2, <2>1, <2>2, <2>4 DEF Serves
<1>3. CASE first = "client"
  <2>1. DOMAIN proxy = {"capability"}  OBVIOUS
  <2>2. Assembling(BusOnly, first) = Rpc!Register(BusOnly, proxy)
    BY <1>1, <1>3 DEF Assembling, Rpc!ProvideClient
  <2> HIDE DEF proxy
  <2>3. DOMAIN BusOnly \intersect DOMAIN proxy = {}  BY <1>1, <2>1
  <2>4. Rpc!Register(BusOnly, proxy)
          = [name \in DOMAIN BusOnly \union DOMAIN proxy |-> IF name \in DOMAIN proxy THEN proxy[name] ELSE BusOnly[name]]
    BY <2>3 DEF Rpc!Register
  <2> QED  BY <1>1, <1>3, <2>1, <2>2, <2>4 DEF Serves
<1> QED  BY <1>2, <1>3

LEMMA ServesOn ==
    ASSUME NEW registry, NEW first, Serves(registry, first), NEW mod
    PROVE  Assembling(registry, mod) = registry
<1> DEFINE entries == [name \in {"capability", "local"} |-> IF name = "local" THEN "service" ELSE "wrapped service"]
           proxy == [name \in {"capability"} |-> "wrapped client"]
<1>1. "bus" \in DOMAIN registry /\ "capability" \in DOMAIN registry  BY DEF Serves
<1>2. "capability" \in DOMAIN entries /\ "capability" \in DOMAIN proxy  OBVIOUS
<1>3. Rpc!OwnerCapabilities(registry) = Rpc!Register(registry, entries)  BY DEF Rpc!OwnerCapabilities
<1>4. Rpc!ProvideClient(registry) = Rpc!Register(registry, proxy)  BY <1>1 DEF Rpc!ProvideClient
<1> HIDE DEF entries, proxy
<1>5. Rpc!Register(registry, entries) = registry  BY <1>1, <1>2 DEF Rpc!Register
<1>6. Rpc!Register(registry, proxy) = registry  BY <1>1, <1>2 DEF Rpc!Register
<1> QED  BY <1>3, <1>4, <1>5, <1>6 DEF Assembling

LEMMA OwnersServe ==
    ASSUME NEW m \in Nat, NEW mods \in [1..m -> {"owner", "client"}], m <= 2
    PROVE  Rpc!Init(Rpc!Assembled(mods)) = (IF mods # <<>> /\ mods[1] = "owner" THEN "service" ELSE "refused")
<1> DEFINE registry == CHOOSE f : IsAssembled(mods, f, m)
           final == registry[m]
<1>1. mods \in Seq({"owner", "client"}) /\ Len(mods) = m  OBVIOUS
<1>2. Rpc!Assembled(mods) = final  BY <1>1 DEF Rpc!Assembled, IsAssembled, Assembling, BusOnly
<1>3. IsAssembled(mods, registry, m)  BY AssembledExists
<1> HIDE DEF registry
<1>4. registry[0] = BusOnly  BY <1>3 DEF IsAssembled
<1>5. CASE m = 0
  <2>1. mods = <<>>  BY <1>1, <1>5
  <2>2. final = BusOnly  BY <1>4, <1>5
  <2>3. "local" \notin DOMAIN final  BY <2>2 DEF BusOnly
  <2> HIDE DEF final
  <2> QED  BY <1>2, <2>1, <2>3 DEF Rpc!Init
<1>6. CASE m # 0
  <2>1. mods # <<>> /\ mods[1] \in {"owner", "client"} /\ 1 \in 0..m  BY <1>1, <1>6
  <2>2. registry[1] = Assembling(BusOnly, mods[1])  BY <1>3, <1>4, <2>1 DEF IsAssembled
  <2>3. Serves(registry[1], mods[1])  BY <2>1, <2>2, ServesFirst
  <2>4. final = registry[1]
    <3>1. CASE m = 1  BY <3>1
    <3>2. CASE m = 2
      <4>1. registry[2] = Assembling(registry[1], mods[2])  BY <1>3, <3>2 DEF IsAssembled
      <4> QED  BY <2>3, <3>2, <4>1, ServesOn
    <3> QED  BY <1>6, <3>1, <3>2
  <2>5. Serves(final, mods[1])  BY <2>3, <2>4
  <2> HIDE DEF final
  <2> QED  BY <1>2, <2>1, <2>5 DEF Serves, Rpc!Init
<1> QED  BY <1>5, <1>6

LEMMA ContentTransports ==
    ASSUME NEW content, \A i \in DOMAIN content.methods : KeysApart(content.methods[i]),
           \A i \in DOMAIN content.methods : content.methods[i].affinity # Rpc!NoAffinity => content.affinity
    PROVE  Rpc!Transports(content)
<1>1. ASSUME NEW i \in DOMAIN content.methods,
             NEW args \in [DOMAIN content.methods[i].params -> 1..2],
             NEW results \in [DOMAIN content.methods[i].results -> 1..2], NEW status \in [Rpc!Status -> 0..1]
      PROVE  LET method == content.methods[i]
                 service == [got \in [DOMAIN args -> 0..2] |->
                                    IF got = args THEN [results |-> results, status |-> status]
                                    ELSE [results |-> [j \in DOMAIN results |-> 0], status |-> [key \in Rpc!Status |-> 9]]]
             IN  /\ Rpc!Call(method, args, service) = [results |-> results, status |-> status]
                 /\ method.affinity # Rpc!NoAffinity => Rpc!Cardinality(Rpc!Instances(content, method, args, 2)) = 1
  <2> DEFINE method == content.methods[i]
             service == [got \in [DOMAIN args -> 0..2] |->
                                    IF got = args THEN [results |-> results, status |-> status]
                                    ELSE [results |-> [j \in DOMAIN results |-> 0], status |-> [key \in Rpc!Status |-> 9]]]
  <2>1. KeysApart(method) /\ (method.affinity # Rpc!NoAffinity => content.affinity)  OBVIOUS
  <2>2. args \in [DOMAIN method.params -> 1..2] /\ results \in [DOMAIN method.results -> 1..2]  OBVIOUS
  <2> HIDE DEF method
  <2>3. service = [got \in [DOMAIN args -> 0..2] |->
                      IF got = args THEN [results |-> results, status |-> status]
                      ELSE [results |-> [j \in DOMAIN results |-> 0], status |-> [key \in Rpc!Status |-> 9]]]
    OBVIOUS
  <2> HIDE DEF service
  <2>4. Rpc!Call(method, args, service) = [results |-> results, status |-> status]
    <3>1. Asked(method, args, results, status, service)  BY <2>1, <2>2, <2>3 DEF Asked
    <3> QED  BY <3>1, CallArrives
  <2>5. ASSUME method.affinity # Rpc!NoAffinity
        PROVE  Rpc!Cardinality(Rpc!Instances(content, method, args, 2)) = 1
    <3> DEFINE instance == args[CHOOSE j \in DOMAIN method.params : method.params[j].name = method.affinity[1]] % 2
    <3>1. Rpc!Instances(content, method, args, 2) = {instance}  BY <2>1, <2>5 DEF Rpc!Instances
    <3> HIDE DEF instance
    <3> QED  BY <3>1, RpcCards, FS_Singleton
  <2> QED  BY <2>4, <2>5 DEF method, service
<1>2. ASSUME NEW mods \in UNION {[1..n -> {"owner", "client"}] : n \in 0..2}
      PROVE  Rpc!Init(Rpc!Assembled(mods)) = (IF mods # <<>> /\ mods[1] = "owner" THEN "service" ELSE "refused")
  <2>1. PICK n \in 0..2 : mods \in [1..n -> {"owner", "client"}]  OBVIOUS
  <2> QED  BY <2>1, OwnersServe
<1> QED  BY <1>1, <1>2 DEF Rpc!Transports

-----------------------------------------------------------------------------
(* rpc: the types the generator sees through: below a slice lies no slice, *)
(* below a pointer neither a slice nor a pointer                           *)
Plain(structs, T) ==
    \A t \in T : /\ t[1] = "slice" => t[2][1] # "slice"
                 /\ t[1] = "pointer" => t[2][1] \notin {"slice", "pointer"}
                 /\ Rpc!Parts(structs, t) \subseteq T

SeenThrough(structs, type) == \E T : type \in T /\ Plain(structs, T)

(* the types one step further on: all parts of a type, or what the         *)
(* generator enters from it                                                *)
Further(parts, structs, t) == IF parts THEN Rpc!Parts(structs, t) ELSE Rpc!Entered(structs, t)

IsSpread(parts, structs, type, f, n) ==
    f = [d \in 0..n |-> IF d = 0 THEN {type} ELSE UNION {Further(parts, structs, t) : t \in f[d - 1]}]

LEMMA SpreadExists ==
    ASSUME NEW parts, NEW structs, NEW type, NEW n \in Nat
    PROVE  \E f : IsSpread(parts, structs, type, f, n)
<1> DEFINE R(x) == UNION {Further(parts, structs, t) : t \in x}
           Is(s, k) == s = [d \in 0..k |-> IF d = 0 THEN {type} ELSE R(s[d - 1])]
           Bad == {k \in Nat : ~ \E s : Is(s, k)}
<1> HIDE DEF R
<1> SUFFICES ASSUME Bad # {} PROVE FALSE  BY DEF R, IsSpread
<1>1. PICK k \in Bad : \A j \in Bad : k <= j  BY LeastOf
<1>2. Is([d \in 0..0 |-> {type}], 0)  OBVIOUS
<1>3. k \in Nat /\ k # 0  BY <1>2
<1>4. k - 1 \in Nat /\ k - 1 \notin Bad
  <2>1. \A j \in Bad : k <= j  BY <1>1
  <2> HIDE DEF Bad
  <2> QED  BY <1>3, <2>1
<1>5. PICK s : Is(s, k - 1)  BY <1>4
<1> DEFINE more == [d \in 0..k |-> IF d = 0 THEN {type} ELSE R(s[d - 1])]
<1>6. \A d \in 0..(k - 1) : more[d] = s[d]
  <2> SUFFICES ASSUME NEW d \in 0..(k - 1) PROVE more[d] = s[d]  OBVIOUS
  <2>1. d \in 0..k  BY <1>3
  <2>2. more[d] = IF d = 0 THEN {type} ELSE R(s[d - 1])  BY <2>1
  <2>3. s[d] = IF d = 0 THEN {type} ELSE R(s[d - 1])  BY <1>5
  <2> QED  BY <2>2, <2>3
<1>7. \A d \in 0..k : d # 0 => d - 1 \in 0..(k - 1)  BY <1>3
<1>8. Is(more, k)
  <2>1. \A d \in 0..k : (IF d = 0 THEN {type} ELSE R(s[d - 1])) = (IF d = 0 THEN {type} ELSE R(more[d - 1]))
    BY <1>6, <1>7
  <2> QED  BY <2>1
<1> QED  BY <1>1, <1>8

(* t is r, below r, or where the generator looks from r *)
Seen(t, r) == t = r \/ (r[1] = "slice" /\ t = r[2]) \/ t = Rpc!Base(r)

(* a type that is neither a slice nor a pointer is where it looks *)
LEMMA SeenAsBase ==
    ASSUME NEW structs, NEW T, Plain(structs, T), NEW r \in T, NEW t, Seen(t, r)
    PROVE  /\ t[1] \notin {"slice", "pointer"} => t = Rpc!Base(r)
           /\ t[1] = "slice" => t = r
           /\ t[1] = "pointer" => Rpc!Base(r) = t[2]
<1>1. r[1] = "slice" => r[2] \in T /\ r[2][1] # "slice"
  BY DEF Plain, Rpc!Parts
<1>2. r[1] = "pointer" => r[2][1] \notin {"slice", "pointer"}  BY DEF Plain
<1>3. r[1] = "slice" /\ r[2][1] = "pointer" => r[2][2][1] \notin {"slice", "pointer"}
  BY <1>1 DEF Plain
<1>4. CASE r[1] = "slice" /\ r[2][1] = "pointer"
  <2>1. Rpc!Base(r) = r[2][2]  BY <1>4 DEF Rpc!Base
  <2> QED  BY <1>3, <1>4, <2>1 DEF Seen
<1>5. CASE r[1] = "slice" /\ r[2][1] # "pointer"
  <2>1. Rpc!Base(r) = r[2]  BY <1>5 DEF Rpc!Base
  <2> QED  BY <1>1, <1>5, <2>1 DEF Seen
<1>6. CASE r[1] = "pointer"
  <2>1. Rpc!Base(r) = r[2]  BY <1>6 DEF Rpc!Base
  <2> QED  BY <1>2, <1>6, <2>1 DEF Seen
<1>7. CASE r[1] \notin {"slice", "pointer"}
  <2>1. Rpc!Base(r) = r  BY <1>7 DEF Rpc!Base
  <2> QED  BY <1>7, <2>1 DEF Seen
<1> QED  BY <1>4, <1>5, <1>6, <1>7

(* a part of what it sees from r it sees from r, or from what it enters *)
LEMMA SeenFurther ==
    ASSUME NEW structs, NEW T, Plain(structs, T), NEW r \in T, NEW t, Seen(t, r),
           NEW u \in Rpc!Parts(structs, t)
    PROVE  Seen(u, r) \/ u \in Rpc!Entered(structs, r)
<1>1. CASE t[1] = "slice"
  <2>1. t = r /\ u = r[2]  BY <1>1, SeenAsBase DEF Rpc!Parts
  <2> QED  BY <1>1, <2>1 DEF Seen
<1>2. CASE t[1] = "pointer"
  <2>1. u = t[2] /\ Rpc!Base(r) = t[2]  BY <1>2, SeenAsBase DEF Rpc!Parts
  <2> QED  BY <2>1 DEF Seen
<1>3. CASE t[1] \notin {"slice", "pointer"}
  <2>1. t = Rpc!Base(r)  BY <1>3, SeenAsBase
  <2> QED  BY <1>3, <2>1 DEF Rpc!Parts, Rpc!Entered
<1> QED  BY <1>1, <1>2, <1>3

LEMMA EnteredPlain ==
    ASSUME NEW structs, NEW T, Plain(structs, T), NEW r \in T
    PROVE  Rpc!Entered(structs, r) \subseteq T
<1> DEFINE base == Rpc!Base(r)
<1>1. base \in T
  <2>1. r[1] \in {"slice", "pointer"} => r[2] \in T  BY DEF Plain, Rpc!Parts
  <2>2. r[1] = "slice" /\ r[2][1] = "pointer" => r[2][2] \in T  BY <2>1 DEF Plain, Rpc!Parts
  <2> QED  BY <2>1, <2>2 DEF Rpc!Base
<1>2. Rpc!Entered(structs, r) \subseteq Rpc!Parts(structs, base)  BY DEF Rpc!Entered, Rpc!Parts
<1> QED  BY <1>1, <1>2 DEF Plain

(* what every type at a depth is seen from *)
SeenAt(reached, T, t, d) == \E e \in 0..d : \E r \in reached[e] : r \in T /\ Seen(t, r)

LEMMA AllSeen ==
    ASSUME NEW structs, NEW T, Plain(structs, T), NEW type \in T,
           NEW reached, IsSpread(FALSE, structs, type, reached, 9),
           NEW within, IsSpread(TRUE, structs, type, within, 4)
    PROVE  \A d \in 0..4 : \A t \in within[d] : SeenAt(reached, T, t, d)
<1>1. reached[0] = {type} /\ \A e \in 0..8 : reached[e + 1] = UNION {Rpc!Entered(structs, t) : t \in reached[e]}
  BY DEF IsSpread, Further
<1>2. within[0] = {type} /\ \A d \in 0..3 : within[d + 1] = UNION {Rpc!Parts(structs, t) : t \in within[d]}
  BY DEF IsSpread, Further
<1>3. \A t \in within[0] : SeenAt(reached, T, t, 0)  BY <1>1, <1>2 DEF SeenAt, Seen
<1>4. ASSUME NEW d \in 0..3, \A t \in within[d] : SeenAt(reached, T, t, d)
      PROVE  \A t \in within[d + 1] : SeenAt(reached, T, t, d + 1)
  <2> SUFFICES ASSUME NEW u \in within[d + 1] PROVE SeenAt(reached, T, u, d + 1)  OBVIOUS
  <2>1. PICK t \in within[d] : u \in Rpc!Parts(structs, t)  BY <1>2
  <2>2. PICK e \in 0..d : \E r \in reached[e] : r \in T /\ Seen(t, r)  BY <1>4, <2>1 DEF SeenAt
  <2>3. PICK r \in reached[e] : r \in T /\ Seen(t, r)  BY <2>2
  <2>4. CASE Seen(u, r)  BY <2>3, <2>4 DEF SeenAt
  <2>5. CASE u \in Rpc!Entered(structs, r)
    <3>1. u \in T  BY <2>3, <2>5, EnteredPlain
    <3>2. e \in 0..8 /\ e + 1 \in 0..(d + 1)  OBVIOUS
    <3>3. u \in reached[e + 1]  BY <1>1, <2>3, <2>5, <3>2
    <3> QED  BY <3>1, <3>2, <3>3 DEF SeenAt, Seen
  <2> QED  BY <2>1, <2>3, <2>4, <2>5, SeenFurther
<1>5. \A t \in within[1] : SeenAt(reached, T, t, 1)  BY <1>3, <1>4
<1>6. \A t \in within[2] : SeenAt(reached, T, t, 2)  BY <1>5, <1>4
<1>7. \A t \in within[3] : SeenAt(reached, T, t, 3)  BY <1>6, <1>4
<1>8. \A t \in within[4] : SeenAt(reached, T, t, 4)  BY <1>7, <1>4
<1> QED  BY <1>3, <1>5, <1>6, <1>7, <1>8

(* what is safe to send is whole *)
LEMMA SafeIsWhole ==
    ASSUME NEW structs, NEW type, SeenThrough(structs, type), ~Rpc!Unsafe(structs, type)
    PROVE  Rpc!Whole(structs, type, 4)
<1> DEFINE reached == CHOOSE f : IsSpread(FALSE, structs, type, f, 9)
           within == CHOOSE f : IsSpread(TRUE, structs, type, f, 4)
<1>1. PICK T : type \in T /\ Plain(structs, T)  BY DEF SeenThrough
<1>2. IsSpread(FALSE, structs, type, reached, 9) /\ IsSpread(TRUE, structs, type, within, 4)
  <2>1. 9 \in Nat /\ 4 \in Nat  OBVIOUS
  <2> QED  BY <2>1, SpreadExists
<1>3. reached = CHOOSE f : f = [depth \in 0..9 |->
            IF depth = 0 THEN {type} ELSE UNION {Rpc!Entered(structs, t) : t \in f[depth - 1]}]
  BY DEF IsSpread, Further
<1>4. within = CHOOSE f : f = [d \in 0..4 |-> IF d = 0 THEN {type} ELSE UNION {Rpc!Parts(structs, t) : t \in f[d - 1]}]
  BY SMTT(40) DEF IsSpread, Further
<1> HIDE DEF reached, within
<1>5. \A depth \in 0..8 : \A t \in reached[depth] : ~Rpc!Refused(structs, t)
  BY <1>3 DEF Rpc!Unsafe
<1>6. \A d \in 0..4 : \A t \in within[d] : SeenAt(reached, T, t, d)
  BY <1>1, <1>2, AllSeen
<1>7. ASSUME NEW d \in 0..3, NEW t \in within[d]
      PROVE  /\ t[1] \notin {"unsafe", "unexported"}
             /\ t[1] = "named" /\ t[2] \in DOMAIN structs =>
                  \A i \in DOMAIN structs[t[2]] : structs[t[2]][i].exported
  <2>1. SeenAt(reached, T, t, d)  BY <1>6
  <2>2. PICK e \in 0..d : \E r \in reached[e] : r \in T /\ Seen(t, r)  BY <2>1 DEF SeenAt
  <2>3. PICK r \in reached[e] : r \in T /\ Seen(t, r)  BY <2>2
  <2>4. ~Rpc!Refused(structs, r)  BY <1>5
  <2>5. t[1] \notin {"slice", "pointer"} => t = Rpc!Base(r)  BY <1>1, <2>3, SeenAsBase
  <2> QED  BY <2>4, <2>5 DEF Rpc!Refused
<1>8. \A d \in 0..(4 - 1) : \A t \in within[d] :
            /\ t[1] \notin {"unsafe", "unexported"}
            /\ t[1] = "named" /\ t[2] \in DOMAIN structs =>
                  \A i \in DOMAIN structs[t[2]] : structs[t[2]][i].exported
  BY <1>7
<1> QED  BY <1>4, <1>8 DEF Rpc!Whole

-----------------------------------------------------------------------------
(* rpc: what the generator does not look at and a service must keep: no    *)
(* two fields of one request or reply have one key, and every type of a    *)
(* parameter or result is one it sees through                              *)
ServiceFits(package, iface) ==
    \A i \in DOMAIN iface.methods :
        LET m == iface.methods[i]
        IN  /\ KeysApart(m)
            /\ \A j \in DOMAIN m.params : SeenThrough(package.structs, m.params[j].type)
            /\ \A j \in DOMAIN m.results : SeenThrough(package.structs, m.results[j].type)

ServicesFit ==
    \A source \in Sources("rpc") : \A package \in source :
        \A i \in DOMAIN package.interfaces : ServiceFits(package, package.interfaces[i])

LEMMA ServiceCarries ==
    ASSUME NEW package, NEW iface, NEW content, content.methods = iface.methods,
           ServiceFits(package, iface), ~Rpc!BadService(package, iface)
    PROVE  Rpc!Carries(package, content)
<1> SUFFICES ASSUME NEW i \in DOMAIN content.methods,
                    NEW f \in Rpc!Range(content.methods[i].params) \union Rpc!Range(content.methods[i].results)
             PROVE  Rpc!Whole(package.structs, f.type, 4)
  BY DEF Rpc!Carries
<1> DEFINE m == iface.methods[i]
<1>1. i \in DOMAIN iface.methods /\ content.methods[i] = m  OBVIOUS
<1>2. ~Rpc!BadMethod(package.structs, m)  BY <1>1 DEF Rpc!BadService
<1>3. /\ \A j \in DOMAIN m.params : SeenThrough(package.structs, m.params[j].type)
      /\ \A j \in DOMAIN m.results : SeenThrough(package.structs, m.results[j].type)
  BY <1>1, SMTT(40) DEF ServiceFits
<1>4. /\ \A j \in DOMAIN m.params : ~Rpc!Unsafe(package.structs, m.params[j].type)
      /\ \A j \in DOMAIN m.results : ~Rpc!Unsafe(package.structs, m.results[j].type)
  BY <1>2 DEF Rpc!BadMethod
<1>5. f \in Rpc!Range(m.params) \union Rpc!Range(m.results)  BY <1>1
<1> HIDE DEF m
<1>6. CASE f \in Rpc!Range(m.params)
  <2>1. PICK j \in DOMAIN m.params : f = m.params[j]  BY <1>6 DEF Rpc!Range
  <2>2. SeenThrough(package.structs, f.type) /\ ~Rpc!Unsafe(package.structs, f.type)  BY <1>3, <1>4, <2>1
  <2> QED  BY <2>2, SafeIsWhole
<1>7. CASE f \in Rpc!Range(m.results)
  <2>1. PICK j \in DOMAIN m.results : f = m.results[j]  BY <1>7 DEF Rpc!Range
  <2>2. SeenThrough(package.structs, f.type) /\ ~Rpc!Unsafe(package.structs, f.type)  BY <1>3, <1>4, <2>1
  <2> QED  BY <2>2, SafeIsWhole
<1> QED  BY <1>5, <1>6, <1>7

LEMMA ServicesAre == ServicesFit => (GenInv => RemoteIsLocal /\ NothingDropped)
<1> SUFFICES ASSUME ServicesFit, GenInv, Ran("rpc"), NEW p \in Served
             PROVE  Rpc!Transports(At("rpc", <<p.dir>>)) /\ Rpc!Carries(p, At("rpc", <<p.dir>>))
  BY DEF RemoteIsLocal, NothingDropped
<1> DEFINE source == Source("rpc")
           iface == p.interfaces[1]
           content == Rpc!Content(p)
           keys == {<<q.dir>> : q \in {r \in source : r.interfaces # <<>>}}
           Holds(k) == Rpc!Content(CHOOSE q \in source : <<q.dir>> = k)
           file == <<"rpc", <<p.dir>>>>
<1>1. "rpc" \in Names /\ Feature("rpc") = "rpc"  BY NamesAre DEF Feature
<1>2. source \in Sources("rpc")  BY <1>1, RanIs
<1>3. \A package \in source : ~Rpc!Rejected(package)
  <2>1. ~Rejected("rpc", source, out)  BY <1>1, RanIs
  <2> QED  BY <1>1, <2>1 DEF Rejected
<1>4. p \in source /\ p.interfaces # <<>>  BY DEF Served
<1>5. /\ \A package \in source : IsList(package.interfaces)
      /\ \A package, other \in source : package.dir = other.dir => package = other
  BY <1>2, SourcesAssumption DEF SourcesAssumption, ServicesAssumption
<1>6. 1 \in DOMAIN p.interfaces
  <2>1. IsList(p.interfaces)  BY <1>4, <1>5
  <2> QED  BY <1>4, <2>1 DEF IsList
<1>7. At("rpc", <<p.dir>>) = content
  <2>1. Outputs("rpc", source, out) = [q \in {<<"rpc", k>> : k \in keys} |-> <<"gen", Holds(q[2])>>]
    BY <1>1 DEF Outputs, Files
  <2>2. Holds(<<p.dir>>) = content
    <3>1. (CHOOSE q \in source : <<q.dir>> = <<p.dir>>) = p
      <4>1. \A q \in source : <<q.dir>> = <<p.dir>> => q = p  BY <1>4, <1>5
      <4> QED  BY <1>4, <4>1
    <3> QED  BY <3>1
  <2>3. <<p.dir>> \in keys  BY <1>4
  <2> HIDE DEF Holds, keys, content, source
  <2>4. file \in DOMAIN Outputs("rpc", source, out)  BY <2>1, <2>3
  <2>5. Outputs("rpc", source, out)[file] = <<"gen", content>>  BY <2>1, <2>2, <2>4
  <2>6. out[file] = <<"gen", content>>  BY <1>1, <2>4, <2>5, RanIs DEF source
  <2> QED  BY <2>6 DEF At
<1>8. ServiceFits(p, iface)  BY <1>2, <1>4, <1>6 DEF ServicesFit
<1>9. ~Rpc!BadService(p, iface)
  <2>1. ~Rpc!Rejected(p)  BY <1>3, <1>4
  <2> QED  BY <1>6, <2>1 DEF Rpc!Rejected
<1>10. /\ content.methods = iface.methods
       /\ content.affinity <=> \E i \in DOMAIN iface.methods : iface.methods[i].affinity # Rpc!NoAffinity
  BY DEF Rpc!Content
<1> HIDE DEF content, iface
<1>11. Rpc!Carries(p, content)  BY <1>8, <1>9, <1>10, ServiceCarries
<1>12. Rpc!Transports(content)
  <2>1. \A i \in DOMAIN content.methods : KeysApart(content.methods[i])  BY <1>8, <1>10 DEF ServiceFits
  <2>2. \A i \in DOMAIN content.methods : content.methods[i].affinity # Rpc!NoAffinity => content.affinity
    BY <1>10
  <2> QED  BY <2>1, <2>2, ContentTransports
<1> QED  BY <1>7, <1>11, <1>12

(* What one side packs the other unpacks: a call of a Nest handler arrives *)
(* as it was made, and so does one of a remote service whose requests and  *)
(* replies fit: its caller gets the results and the status of the service, *)
(* calls of one key meet in one instance, a process that serves it is no   *)
(* client of it, and no part of a value is dropped on the way              *)
(* (nest/gen.go; servicerpc/template.go, wiresafe.go: checkWireSafeDeep).  *)
LEMMA CallsComeThrough == ServicesFit => (Spec => []CallsArrive)
<1> SUFFICES ASSUME ServicesFit PROVE Spec => []CallsArrive  OBVIOUS
<1>1. GenInv => CallsArrive  BY HandlersAre, ServicesAre DEF CallsArrive
<1> QED  BY <1>1, GenInvariant, PTL

(* entity: whatever data objects an entity has and whatever a transaction  *)
(* did to them, a remote commit is what it changed, and its                *)
(* acknowledgement moves the versions of those alone (entity/gen.go).      *)
LEMMA CommitsAre == RemoteCommitsExact
<1> SUFFICES ASSUME NEW e PROVE Entity!CommitsChanges(e)  BY DEF RemoteCommitsExact
<1> QED  BY DEF Entity!CommitsChanges, Entity!Present, Entity!Hot, Entity!HasRemoteCommit, Entity!Refuses,
            Entity!BuildRemoteCommit, Entity!Acknowledged

-----------------------------------------------------------------------------
(* What is asked of the project's definitions: two of its data objects have *)
(* two files, and so have a data object and a Redis object.                 *)
ObjectsFit == \A source \in Sources("dao") : ObjectsApart(source)

(* dao: after a run over definitions whose files are apart, what is stored *)
(* is what they declare.                                                   *)
LEMMA ObjectsAre == ObjectsFit => (GenInv /\ EntityInv => NothingLost)
<1> SUFFICES ASSUME ObjectsFit, GenInv, EntityInv, Ran("dao")
             PROVE  LET places == {p \in DOMAIN out : p[1] = "dao" /\ out[p][1] = "gen"}
                    IN  Dao!Stores(Source("dao"), [k \in {p[2] : p \in places} |-> At("dao", k)])
  BY DEF NothingLost
<1> DEFINE source == Source("dao")
           outputs == Outputs("dao", source, out)
           made == Dao!Outputs(source)
           places == {p \in DOMAIN out : p[1] = "dao" /\ out[p][1] = "gen"}
           keys == {p[2] : p \in places}
           files == [k \in keys |-> At("dao", k)]
<1>1. "dao" \in Names /\ Feature("dao") = "dao"  BY NamesAre DEF Feature
<1>2. source \in Sources("dao")  BY <1>1, RanIs
<1>3. ~Dao!Rejected(source)
  <2> DEFINE refused == Dao!Rejected(source)
  <2> HIDE DEF refused
  <2>1. Rejected("dao", source, out) = refused  BY <1>1 DEF Rejected, refused
  <2> QED  BY <1>1, <2>1, RanIs DEF refused
<1>4. Structs(source) /\ ObjectsApart(source)
  BY <1>2, SourcesAssumption DEF SourcesAssumption, ObjectsAssumption, Structs, ObjectsFit
<1>5. Current("dao", source, out)  BY <1>1 DEF GenInv, AfterRun, Good, Ran, Ended
<1>6. outputs = [p \in {<<"dao", k>> : k \in DOMAIN made} |-> <<"gen", made[p[2]]>>]
  BY <1>1 DEF Outputs, Files
<1>7. ASSUME NEW k \in DOMAIN made PROVE k \in keys /\ files[k] = made[k]
  <2> DEFINE p == <<"dao", k>>
  <2>1. p \in DOMAIN outputs /\ outputs[p] = <<"gen", made[k]>>
    <3> HIDE DEF made, outputs
    <3> QED  BY <1>6
  <2>2. p \in DOMAIN out /\ out[p] = <<"gen", made[k]>>
    <3> HIDE DEF outputs
    <3> QED  BY <1>5, <2>1 DEF Current, outputs
  <2> HIDE DEF made, outputs, source
  <2>3. p \in places /\ p[2] = k  BY <2>2
  <2>4. k \in keys  BY <2>3
  <2> QED  BY <2>2, <2>4 DEF At
<1>8. ASSUME NEW k \in keys, k[2] # "helpers" PROVE k \in DOMAIN made
  <2>1. PICK p \in places : p[2] = k  BY <1>8
  <2>2. p \in DaoPlaces(out)  BY DEF DaoPlaces, Written
  <2>3. k[2] \in {"dao", "redis_dao", "nested"}
    <3>1. p[2][2] \in {"dao", "redis_dao", "nested", "helpers"}  BY <2>2 DEF EntityInv, Housed
    <3> QED  BY <1>8, <2>1, <3>1
  <2>4. p \notin Swept("dao", source, out)  BY <1>5 DEF Current
  <2>5. ~Dao!Orphan(source, p[2], out[p][1] = "gen")  BY <2>4, SweptAre
  <2>6. out[p][1] = "gen"  OBVIOUS
  <2> QED  BY <2>1, <2>3, <2>5, <2>6 DEF Dao!Orphan
<1>9. DOMAIN files = keys  OBVIOUS
<1> HIDE DEF source, files, keys, made
<1>10. Dao!Stores(source, files)
  <2>1. /\ \A k \in DOMAIN Dao!Outputs(source) : k \in DOMAIN files /\ files[k] = Dao!Outputs(source)[k]
        /\ \A k \in DOMAIN files : k[2] # "helpers" => k \in DOMAIN Dao!Outputs(source)
    BY <1>7, <1>8, <1>9 DEF made
  <2> QED  BY <1>3, <1>4, <2>1, ObjectsStore
<1> QED  BY <1>10 DEF source, files, keys

(* What a project stores is what it declares, whatever data objects, Redis *)
(* objects and nested structs it had before: each has its file, no         *)
(* generated file is left of one that is gone, and a data object stores    *)
(* each of its fields unless a tag says otherwise, those that hold structs *)
(* with an encoding for them (dao/gen.go; main.go: removeOrphanGenerated). *)
LEMMA NothingIsLost == ObjectsFit => (Spec => []NothingLost)
<1> SUFFICES ASSUME ObjectsFit PROVE Spec => []NothingLost  OBVIOUS
<1>1. GenInv /\ EntityInv => NothingLost  BY ObjectsAre
<1> QED  BY <1>1, EntitiesHoused, PTL
=============================================================================
