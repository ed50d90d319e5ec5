---------------------------- MODULE AttributeGen ----------------------------
(***************************************************************************)
(* The attribute generator (internal/attribute): a marked struct becomes a *)
(* profile with numbered attributes, and methods named _Field become       *)
(* formulas recomputed by the generated Update.                            *)
(*                                                                         *)
(* A profile declaration is a record                                       *)
(*   gap      lines between the marker and the struct                      *)
(*   options  the marker's options, a function of those given              *)
(*   fields   the struct's fields, [name, type, exported, skip]            *)
(*   mask     whether it declares dirtyMask uint64                         *)
(*   methods  its _Field methods, [out, type, params], params being        *)
(*            [name, type] records                                         *)
(***************************************************************************)
EXTENDS Integers, Sequences, Functions, FiniteSets, Ordered

Option(profile, key, fallback) ==
    IF key \in DOMAIN profile.options THEN profile.options[key] ELSE fallback

Claimed(profile) == profile.gap \in 1..2

Fields(profile) ==
    Select(profile.fields, LAMBDA f : f.exported /\ ~f.skip)

(* ids follow the position among the attributes, as do the bits *)
Ids(profile) ==
    [i \in DOMAIN Fields(profile) |-> Option(profile, "index", 1) + i - 1]

FieldNames(profile) == {Fields(profile)[i].name : i \in DOMAIN Fields(profile)}

TypeOf(profile, name) ==
    (CHOOSE f \in Range(Fields(profile)) : f.name = name).type

BadProfile(profile) ==
    \/ \E key \in DOMAIN profile.options : profile.options[key] <= 0
    \/ Len(Fields(profile)) > Option(profile, "max", 64)
    \/ Cardinality(FieldNames(profile)) # Len(Fields(profile))
    \/ ~profile.mask

(* a method whose name is no attribute's is not a formula *)
Formulas(profile) == Select(profile.methods, LAMBDA m : m.out \in FieldNames(profile))

BadFormula(profile, formula) ==
    \/ formula.type # TypeOf(profile, formula.out)
    \/ formula.params = <<>>
    \/ \E p \in Range(formula.params) :
          p.name \notin FieldNames(profile) \/ p.type # TypeOf(profile, p.name)

Inputs(profile) ==
    LET all == Formulas(profile)
    IN  [out \in {all[i].out : i \in DOMAIN all} |->
            LET m == CHOOSE f \in Range(all) : f.out = out
            IN  [i \in DOMAIN m.params |-> m.params[i].name]]

Derived(profile) == DOMAIN Inputs(profile)

(***************************************************************************)
(* topoFormulas: a depth-first walk from the outputs in field order. open  *)
(* is the path of outputs being visited (state 1), order those done (2).   *)
(***************************************************************************)
(* Mutant: an output is done before its inputs are looked at. *)
FaultyVisit(inputs, outputs, walk) ==
    LET left == Select(outputs, LAMBDA i : i \notin Range(walk.order))
    IN  IF left = <<>> THEN walk ELSE [walk EXCEPT !.order = Append(@, left[1])]

(* one call of visit, or the return from one: the first formula that is    *)
(* not done among the inputs of the one visited, or among all outputs      *)
Visit(inputs, outputs, walk) ==
    LET depth  == Len(walk.open)
        innermost == walk.open[depth]
        wanted == IF walk.open = <<>> THEN outputs ELSE inputs[innermost]
        left   == {i \in DOMAIN wanted : wanted[i] \in DOMAIN inputs \ Range(walk.order)}
        first  == wanted[CHOOSE i \in left : \A j \in left : i <= j]
    IN  IF walk.cycle \/ (left = {} /\ walk.open = <<>>) THEN walk
        ELSE IF left = {} THEN [walk EXCEPT !.open = SubSeq(@, 1, depth - 1), !.order = Append(@, innermost)]
        ELSE IF first \in Range(walk.open) THEN [walk EXCEPT !.cycle = TRUE]
        ELSE [walk EXCEPT !.open = Append(@, first)]

(* the walk after each step; every output is entered once and left once *)
Walk(inputs, outputs) ==
    LET walk[n \in 0..2 * Len(outputs)] ==
            IF n = 0 THEN [open |-> <<>>, order |-> <<>>, cycle |-> FALSE]
            ELSE Visit(inputs, outputs, walk[n - 1])
    IN  walk

Outputs(profile) ==
    Select([i \in DOMAIN Fields(profile) |-> Fields(profile)[i].name], LAMBDA f : f \in Derived(profile))

TopoFormulas(profile) == Walk(Inputs(profile), Outputs(profile))[2 * Len(Outputs(profile))]

Rejected(profile) ==
    /\ Claimed(profile)
    /\ \/ BadProfile(profile)
       \/ \E i \in DOMAIN Formulas(profile) :
             \/ BadFormula(profile, Formulas(profile)[i])
             \/ \E j \in DOMAIN Formulas(profile) \ {i} :
                   Formulas(profile)[i].out = Formulas(profile)[j].out
       \/ TopoFormulas(profile).cycle

(* what the generated file holds *)
Content(profile) ==
    [ids |-> Ids(profile), fields |-> Fields(profile),
     inputs |-> Inputs(profile), order |-> TopoFormulas(profile).order]

(***************************************************************************)
(* The generated profile at run time: values and the dirty mask.           *)
(***************************************************************************)
SetField(state, field, value) ==
    IF state.values[field] = value THEN state
    ELSE [values |-> [state.values EXCEPT ![field] = value], dirty |-> state.dirty \union {field}]

(* SetDirectAttr for each value given: it knows the attributes that have   *)
(* no formula; no call is about the field of another, so their order, that *)
(* of a Go map, makes no difference                                        *)
SetDirect(content, state, given) ==
    LET set == {f \in DOMAIN given \ DOMAIN content.inputs : state.values[f] # given[f]}
    IN  [values |-> [f \in DOMAIN state.values |-> IF f \in set THEN given[f] ELSE state.values[f]],
         dirty  |-> state.dirty \union set]

(* a formula of the game: some function of its arguments *)
Formula(args) == (1 + SumFunction(args)) % 3

FormulaValue(inputs, values) == Formula([i \in DOMAIN inputs |-> values[inputs[i]]])

Recompute(content, state, out) ==
    IF Range(content.inputs[out]) \intersect state.dirty = {} THEN state
    ELSE SetField(state, out, FormulaValue(content.inputs[out], state.values))

(* the state after each formula *)
Updated(content, state) ==
    LET after[n \in 0..Len(content.order)] ==
            IF n = 0 THEN state ELSE Recompute(content, after[n - 1], content.order[n])
    IN  after

Update(content, state) == Updated(content, state)[Len(content.order)]

LoadValues(content, state, given) == Update(content, SetDirect(content, state, given))

(***************************************************************************)
(* Every derived value is what its formula makes of the present inputs.    *)
(***************************************************************************)
Settled(content, state) ==
    \A out \in DOMAIN content.inputs :
        state.values[out] = FormulaValue(content.inputs[out], state.values)
=============================================================================
