-------------------------- MODULE ClassNormalizer ---------------------------
(***************************************************************************)
(* How native/src/encoded/named_classes.rs reduces and normalizes class    *)
(* and data-range expressions: the atomic projections that recognise an    *)
(* expression equal to a literal, and the negation normal form from which  *)
(* the generated definitions are built.                                    *)
(*                                                                         *)
(* E describes what the earlier phases kept: E.declared, the declared      *)
(* entities; E.literals, the literals reachable from a semantic root;      *)
(* E.anonymous, the anonymous individuals; E.objectRoles and E.dataRoles,  *)
(* whether the role phases exist; E.maxCardinality, the u32 maximum.       *)
(*                                                                         *)
(* The binary keys of the source are injective encodings of the terms, so  *)
(* a term is its own key once the source nodes are dropped (Key).          *)
(***************************************************************************)
EXTENDS OwlSemantics, FiniteSetsExt

None == <<"none">>
Discardable == <<"discardable">>

-----------------------------------------------------------------------------
(***************************************************************************)
(* Atomic selections <<"selected", source, expression, negative,           *)
(* synthetic>>; a source is a class or nominal node.                       *)
(***************************************************************************)
Selected(source, expression, negative, synthetic) ==
    <<"selected", source, expression, negative, synthetic>>

HasDisplay(s, C) == s[2] = C /\ ~s[4]

SelectionsMatch(s, t) == s[2] = t[2] /\ s[4] = t[4]

BuiltinSelection(expression, C) == Selected(C, expression, FALSE, FALSE)

\* reduction_inputs_are_retained: every entity below a node is declared or
\* built in, no individual is anonymous, every literal is reachable.
EntityRetained(E, name) ==
    name \in {"Thing", "Nothing", "Literal", "top", "bottom", "topData", "bottomData"} \cup E.declared

RECURSIVE InputsRetained(_, _)
InputsRetained(E, e) ==
    CASE e[1] \in {"class", "datatype"} -> EntityRetained(E, e[2])
      [] e[1] = "oneOf" -> e[2] \cap E.anonymous = {}
      [] e[1] = "dataOneOf" -> e[2] \subseteq E.literals
      [] e[1] \in {"not", "dnot"} -> InputsRetained(E, e[2])
      [] e[1] \in {"and", "or", "dand", "dor"} -> \A F \in e[2] : InputsRetained(E, F)
      [] e[1] = "self" -> EntityRetained(E, e[2][1])
      [] e[1] = "value" -> EntityRetained(E, e[2][1]) /\ e[3] \notin E.anonymous
      [] e[1] = "dvalue" -> EntityRetained(E, e[2]) /\ e[3] \in E.literals
      [] e[1] \in {"some", "all"} -> EntityRetained(E, e[2][1]) /\ InputsRetained(E, e[3])
      [] e[1] \in {"dsome", "dall"} -> EntityRetained(E, e[2]) /\ InputsRetained(E, e[3])
      [] e[1] \in {"min", "max", "exact"} -> EntityRetained(E, e[3][1]) /\ InputsRetained(E, e[4])
      [] e[1] \in {"dmin", "dmax", "dexact"} -> EntityRetained(E, e[3]) /\ InputsRetained(E, e[4])

RECURSIVE StripNots(_, _)
StripNots(e, negative) ==
    IF e[1] \in {"not", "dnot"} THEN StripNots(e[2], ~negative) ELSE <<e, negative>>

IsBooleanClass(e) == e[1] \in {"and", "or"}
IsBooleanRange(e) == e[1] \in {"dand", "dor"}

(***************************************************************************)
(* The reduction of a Boolean's operand selections: an absorbing operand   *)
(* wins; otherwise one distinct retained operand, or the identity, is the  *)
(* selection, and anything else can only be discarded by an outer one.     *)
(***************************************************************************)
ReduceOperands(projections, IsAbsorbing(_), IsIdentity(_), Match(_, _)) ==
    LET chosen == {p \in projections : p # None /\ p # Discardable}
        absorbing == {p \in chosen : IsAbsorbing(p)}
        retained == {p \in chosen : ~IsIdentity(p)}
    IN  CASE None \in projections -> None
          [] None \notin projections /\ absorbing # {} -> CHOOSE p \in absorbing : TRUE
          [] OTHER -> IF Discardable \in projections \/ (\E p, q \in retained : ~Match(p, q))
                      THEN Discardable
                      ELSE IF retained # {} THEN CHOOSE p \in retained : TRUE
                      ELSE CHOOSE p \in chosen : TRUE

-----------------------------------------------------------------------------
(***************************************************************************)
(* Data ranges.  A data selection is <<"range", base, negative>>.          *)
(***************************************************************************)
RangeIsTop(s) == s[2] = TopRange /\ ~s[3]
RangeIsBottom(s) == s[2] = TopRange /\ s[3]
ComplementRange(s) == <<"range", s[2], ~s[3]>>

ReduceRange(kind, projections) ==
    LET eq(s, t) == s = t
    IN  IF kind = "dand" THEN ReduceOperands(projections, RangeIsBottom, RangeIsTop, eq)
        ELSE ReduceOperands(projections, RangeIsTop, RangeIsBottom, eq)

SignedRange(p, negative) == IF negative /\ p[1] = "range" THEN ComplementRange(p) ELSE p

RECURSIVE RangeProjection(_)
PositiveRangeProjection(D) ==
    IF ~IsBooleanRange(D) THEN <<"range", D, FALSE>>
    ELSE ReduceRange(D[1], {RangeProjection(F) : F \in D[2]})
RangeProjection(D) ==
    LET s == StripNots(D, FALSE) IN SignedRange(PositiveRangeProjection(s[1]), s[2])

\* A projection outside a Boolean: there is nothing to discard it.
Settled(projection) == IF projection = Discardable THEN None ELSE projection

RangeSelection(D) == Settled(RangeProjection(D))
PositiveRangeSelection(D) == Settled(PositiveRangeProjection(D))

-----------------------------------------------------------------------------
(***************************************************************************)
(* Classes.  `operand` is the BooleanOperand scope, in which a restriction *)
(* that does not reduce is discardable instead of unsupported.             *)
(***************************************************************************)
Unreduced(operand) == IF operand THEN Discardable ELSE None

RECURSIVE ClassProjection(_, _, _)
ClassSelection(E, C) == Settled(ClassProjection(E, C, FALSE))

QuantifierProjection(E, e, operand, filler) ==
    LET empty == IF e[1] = "some" THEN Nothing ELSE Thing
    IN  IF ~InputsRetained(E, e) THEN None
        ELSE IF e[2][1] = "bottom" THEN BuiltinSelection(e, empty)
        ELSE IF filler # None /\ HasDisplay(filler, empty) THEN filler
        ELSE Unreduced(operand)

ValueProjection(E, e, operand) ==
    IF ~InputsRetained(E, e) THEN None
    ELSE IF e[2][1] = "bottom" THEN BuiltinSelection(e, Nothing)
    ELSE IF e[1] = "self" /\ e[2][1] = "top" THEN BuiltinSelection(e, Thing)
    ELSE Unreduced(operand)

DataQuantifierProjection(E, e, operand, filler) ==
    LET empty == IF e[1] = "dsome" THEN Nothing ELSE Thing
        absorbing == /\ filler # None
                     /\ IF e[1] = "dsome" THEN RangeIsBottom(filler) ELSE RangeIsTop(filler)
    IN  IF ~InputsRetained(E, e) THEN None
        ELSE IF e[2] = "bottomData" \/ absorbing THEN BuiltinSelection(e, empty)
        ELSE Unreduced(operand)

DataValueProjection(E, e, operand) ==
    IF e[2] = "bottomData" THEN BuiltinSelection(e, Nothing)
    ELSE IF ~InputsRetained(E, e) THEN None ELSE Unreduced(operand)

\* A cardinality over an empty property or filler, or a minimum of zero, is
\* constant.
CardinalityProjection(E, e, operand, filler) ==
    LET data == e[1] \in {"dmin", "dmax", "dexact"}
        zero == e[2] = 0
        minimum == e[1] \in {"min", "dmin"}
        reduced == IF zero \/ e[1] \in {"max", "dmax"} THEN Thing ELSE Nothing
        empty == /\ filler # None
                 /\ IF data THEN RangeIsBottom(filler) ELSE HasDisplay(filler, Nothing)
    IN  IF ~InputsRetained(E, e) THEN None
        ELSE IF zero /\ minimum THEN BuiltinSelection(e, Thing)
        ELSE IF empty \/ (IF data THEN e[3] = "bottomData" ELSE e[3][1] = "bottom")
             THEN BuiltinSelection(e, reduced)
        ELSE Unreduced(operand)

BooleanProjection(kind, projections) ==
    LET isThing(s) == HasDisplay(s, Thing)
        isNothing(s) == HasDisplay(s, Nothing)
    IN  IF kind = "and" THEN ReduceOperands(projections, isNothing, isThing, SelectionsMatch)
        ELSE ReduceOperands(projections, isThing, isNothing, SelectionsMatch)

PositiveClassProjection(E, e, operand) ==
    CASE e[1] = "class" -> Selected(e, e, FALSE, FALSE)
      [] e[1] = "oneOf" -> IF e[2] \cap E.anonymous = {} THEN Selected(e, e, FALSE, FALSE) ELSE None
      [] e[1] \in {"some", "all"} -> QuantifierProjection(E, e, operand, ClassSelection(E, e[3]))
      [] e[1] \in {"value", "self"} -> ValueProjection(E, e, operand)
      [] e[1] \in {"dsome", "dall"} -> DataQuantifierProjection(E, e, operand, RangeSelection(e[3]))
      [] e[1] = "dvalue" -> DataValueProjection(E, e, operand)
      [] IsBooleanClass(e) -> BooleanProjection(e[1], {ClassProjection(E, F, TRUE) : F \in e[2]})
      [] e[1] \in {"min", "max", "exact"} ->
            CardinalityProjection(E, e, operand, ClassSelection(E, e[4]))
      [] OTHER -> CardinalityProjection(E, e, operand, RangeSelection(e[4]))

ComplementSelection(s, complement, baseIsAtomic) ==
    IF HasDisplay(s, Thing) THEN Selected(Nothing, s[3], FALSE, FALSE)
    ELSE IF HasDisplay(s, Nothing) THEN Selected(Thing, s[3], FALSE, FALSE)
    ELSE IF s[4] THEN Selected(s[2], IF s[5] THEN s[3] ELSE s[3][2], FALSE, FALSE)
    ELSE IF baseIsAtomic THEN Selected(s[2], complement, TRUE, FALSE)
    ELSE Selected(s[2], s[3], TRUE, TRUE)

SignedSelection(p, e, negative) ==
    IF p = None \/ p = Discardable \/ ~negative THEN p
    ELSE ComplementSelection(p, Not(e), e[1] \in {"class", "oneOf"})

ClassProjection(E, C, operand) ==
    LET s == StripNots(C, FALSE)
    IN  SignedSelection(PositiveClassProjection(E, s[1], operand), s[1], s[2])

PositiveClassSelection(E, e) == Settled(PositiveClassProjection(E, e, FALSE))

-----------------------------------------------------------------------------
(***************************************************************************)
(* Normalized data terms: <<"range", base, negative>> or a Boolean over    *)
(* normalized operands.  A Boolean with a top, bottom or repeated operand  *)
(* is not supported.  Complements are pushed to the ranges.                *)
(***************************************************************************)
Dual(kind, complemented) ==
    LET dual == [k \in {"and", "or", "some", "all", "dand", "dor", "dsome", "dall"} |->
                    CASE k = "and" -> "or" [] k = "or" -> "and"
                      [] k = "some" -> "all" [] k = "all" -> "some"
                      [] k = "dand" -> "dor" [] k = "dor" -> "dand"
                      [] k = "dsome" -> "dall" [] k = "dall" -> "dsome"]
    IN  IF complemented THEN dual[kind] ELSE kind

Flattened(kind, terms) == UNION {IF t[1] = kind THEN t[2] ELSE {t} : t \in terms}

DataBooleanTerm(kind, size, nested) ==
    LET operands == Flattened(kind, nested)
        repeated == \/ Cardinality(nested) < size
                    \/ \E t, u \in nested : t # u /\ Flattened(kind, {t}) \cap Flattened(kind, {u}) # {}
    IN  IF None \in nested \/ repeated \/ Cardinality(operands) < 2 THEN None
        ELSE IF \E t \in operands : t[1] = "range" /\ (RangeIsTop(t) \/ RangeIsBottom(t)) THEN None
        ELSE <<kind, operands>>

RECURSIVE DataTerm(_, _)
DataTermFrom(e, complemented, atom) ==
    IF atom # None THEN <<"range", atom[2], atom[3] # complemented>>
    ELSE DataBooleanTerm(Dual(e[1], complemented), Cardinality(e[2]),
                         {DataTerm(F, complemented) : F \in e[2]})
DataTerm(D, inherited) ==
    LET s == StripNots(D, inherited) IN DataTermFrom(s[1], s[2], PositiveRangeSelection(s[1]))

\* flat_data_boolean_expression: the same normal form without nested Booleans
\* of the other kind.  Unlike DataTerm it reads a nested operand's own
\* selection only when it is no Boolean.
RECURSIVE FlatOperands(_, _, _)
FlatOperands(D, inherited, kind) ==
    LET s == StripNots(D, inherited)
        below(F) == FlatOperands(F, s[2], kind)
        append(F, acc) == acc \o below(F)
    IN  IF ~IsBooleanRange(s[1]) THEN <<<<"range", s[1], s[2]>>>>
        ELSE IF Dual(s[1][1], s[2]) # kind \/ (\E F \in s[1][2] : below(F) = <<>>) THEN <<>>
        ELSE FoldSet(append, <<>>, s[1][2])

FlatTerm(kind, operands) ==
    LET set == {operands[i] : i \in DOMAIN operands}
    IN  IF operands = <<>> THEN None
        ELSE IF Cardinality(set) < Len(operands) \/ Len(operands) < 2 THEN None
        ELSE IF \E t \in set : RangeIsTop(t) \/ RangeIsBottom(t) THEN None
        ELSE <<kind, set>>

FlatDataBoolean(D) ==
    LET s == StripNots(D, FALSE)
        kind == Dual(s[1][1], s[2])
    IN  IF ~IsBooleanRange(s[1]) THEN None ELSE FlatTerm(kind, FlatOperands(D, FALSE, kind))

-----------------------------------------------------------------------------
(***************************************************************************)
(* Normalized class terms.  An atom keeps the source node it was reduced   *)
(* from, which is not part of its key.                                     *)
(*   <<"atom", class, negative, node>>   <<"nominal", I, negative>>        *)
(*   <<"self", r, complemented>>         <<"and"|"or", terms>>             *)
(*   <<"some"|"all", r, term>>           <<"min"|"max", n, r, term>>       *)
(*   <<"dsome"|"dall", d, data term>>    <<"dmin"|"dmax", n, d, data term>>*)
(***************************************************************************)
RECURSIVE Key(_)
Key(t) ==
    CASE t[1] = "atom" -> <<"atom", t[2], t[3]>>
      [] t[1] \in {"and", "or"} -> <<t[1], {Key(u) : u \in t[2]}>>
      [] t[1] \in {"some", "all"} -> <<t[1], t[2], Key(t[3])>>
      [] t[1] \in {"min", "max"} -> <<t[1], t[2], t[3], Key(t[4])>>
      [] OTHER -> t

IsAtom(t, C) == t[1] = "atom" /\ t[2] = C /\ ~t[3]

DedupByKey(terms) ==
    {CHOOSE t \in terms : Key(t) = k : k \in {Key(t) : t \in terms}}

\* normalized_class_boolean_term: absorb, drop the identity, flatten, dedup;
\* an empty Boolean is its identity and a singleton its operand.
BooleanTerm(kind, terms) ==
    LET absorbing == {t \in terms : IsAtom(t, IF kind = "and" THEN Nothing ELSE Thing)}
        identity == {t \in terms : IsAtom(t, IF kind = "and" THEN Thing ELSE Nothing)}
        operands == DedupByKey(Flattened(kind, terms \ identity))
    IN  IF absorbing # {} THEN CHOOSE t \in absorbing : TRUE
        ELSE IF operands = {} THEN CHOOSE t \in identity : TRUE
        ELSE IF Cardinality(operands) = 1 THEN CHOOSE t \in operands : TRUE
        ELSE <<kind, operands>>

RECURSIVE ClassTerm(_, _, _)

\* A restriction kind over a filler, after the cardinality was rewritten: a
\* plan is <<kind, n, complementFiller>> and quantifiers ignore n.
Overflow == <<"overflow", 0, FALSE>>
Quantifier(kind) == kind \in {"some", "all", "dsome", "dall"}

RestrictionOver(plan, role, t) ==
    IF t = None THEN None
    ELSE IF Quantifier(plan[1]) THEN <<plan[1], role, t>>
    ELSE IF t[1] = "range" /\ RangeIsBottom(t) THEN None
    ELSE <<plan[1], plan[2], role, t>>

ObjectRestrictionTerm(E, plan, role, filler) == RestrictionOver(plan, role, ClassTerm(E, filler, plan[3]))

DataRestrictionTerm(plan, role, filler) == RestrictionOver(plan, role, DataTerm(filler, plan[3]))

\* Mutant: the complement of "at most n" asks for n.
CardinalityPlanOffByOne(kind, complemented, n, limit) ==
    IF kind = "max" /\ complemented THEN <<"min", n, FALSE>>
    ELSE IF kind = "max" THEN <<IF n = 0 THEN "all" ELSE "max", n, n = 0>>
    ELSE IF complemented THEN <<IF n = 1 THEN "all" ELSE "max", n - 1, n = 1>>
    ELSE <<IF n = 1 THEN "some" ELSE "min", n, FALSE>>

\* The rewriting of min and max under an optional complement, with u32
\* overflow; some/all stand for the object or the data quantifier.
CardinalityPlan(kind, complemented, n, limit) ==
    LET minimum(m) == IF m = 1 THEN <<"some", 1, FALSE>> ELSE <<"min", m, FALSE>>
        none == <<"all", 0, TRUE>>
    IN  CASE kind = "min" /\ ~complemented -> minimum(n)
          [] kind = "min" /\ complemented -> IF n = 1 THEN none ELSE <<"max", n - 1, FALSE>>
          [] kind = "max" /\ ~complemented ->
                IF n = 0 THEN none ELSE IF n = limit THEN Overflow ELSE <<"max", n, FALSE>>
          [] kind = "max" /\ complemented -> IF n = limit THEN Overflow ELSE minimum(n + 1)

ObjectCardinalityPlan(kind, complemented, n, limit) == CardinalityPlan(kind, complemented, n, limit)

DataPlan(plan) ==
    LET data == [some |-> "dsome", all |-> "dall", min |-> "dmin", max |-> "dmax"]
    IN  IF plan = Overflow THEN plan ELSE <<data[plan[1]], plan[2], plan[3]>>

DataCardinalityPlan(kind, complemented, n, limit) ==
    DataPlan(CardinalityPlan(kind, complemented, n, limit))

\* An exact cardinality is the conjunction of its bounds, or, complemented,
\* the disjunction of the bounds just outside it.
ExactPlans(complemented, n, limit) ==
    IF n = limit THEN {Overflow}
    ELSE {CardinalityPlan(k, complemented, n, limit) : k \in IF n = 0 THEN {"max"} ELSE {"min", "max"}}

ExactTerm(complemented, terms) ==
    IF None \in terms THEN None ELSE BooleanTerm(IF complemented THEN "or" ELSE "and", terms)

ObjectSelfTerm(E, e, complemented) ==
    IF ~E.objectRoles THEN None ELSE <<"self", e[2], complemented>>

ObjectValueTerm(E, e, complemented) ==
    IF ~E.objectRoles \/ ~InputsRetained(E, e) THEN None
    ELSE <<Dual("some", complemented), e[2], <<"nominal", {e[3]}, complemented>>>>

DataValueTerm(E, e, complemented) ==
    IF ~E.dataRoles \/ ~EntityRetained(E, e[2]) \/ e[2] = "bottomData" \/ e[3] \notin E.literals THEN None
    ELSE <<Dual("dsome", complemented), e[2], <<"range", <<"dataOneOf", {e[3]}>>, complemented>>>>

ObjectQuantifierTerm(E, e, complemented) ==
    IF ~E.objectRoles \/ ~InputsRetained(E, e) THEN None
    ELSE ObjectRestrictionTerm(E, <<Dual(e[1], complemented), 0, complemented>>, e[2], e[3])

DataQuantifierTerm(E, e, complemented) ==
    IF ~E.dataRoles \/ ~EntityRetained(E, e[2]) THEN None
    ELSE DataRestrictionTerm(<<Dual(e[1], complemented), 0, complemented>>, e[2], e[3])

ObjectExactTerm(E, e, complemented) ==
    LET plans == ExactPlans(complemented, e[2], E.maxCardinality)
    IN  IF ~E.objectRoles \/ ~InputsRetained(E, e) \/ Overflow \in plans THEN None
        ELSE ExactTerm(complemented, {ObjectRestrictionTerm(E, p, e[3], e[4]) : p \in plans})

DataExactTerm(E, e, complemented) ==
    LET plans == ExactPlans(complemented, e[2], E.maxCardinality)
    IN  IF ~E.dataRoles \/ ~InputsRetained(E, e) \/ Overflow \in plans THEN None
        ELSE ExactTerm(complemented, {DataRestrictionTerm(DataPlan(p), e[3], e[4]) : p \in plans})

ObjectCardinalityTerm(E, e, complemented) ==
    LET plan == ObjectCardinalityPlan(e[1], complemented, e[2], E.maxCardinality)
    IN  IF ~E.objectRoles \/ ~InputsRetained(E, e) \/ plan = Overflow THEN None
        ELSE ObjectRestrictionTerm(E, plan, e[3], e[4])

DataCardinalityTerm(E, e, complemented) ==
    LET plan == DataCardinalityPlan(IF e[1] = "dmin" THEN "min" ELSE "max", complemented, e[2], E.maxCardinality)
    IN  IF ~E.dataRoles \/ ~InputsRetained(E, e) \/ plan = Overflow THEN None
        ELSE DataRestrictionTerm(plan, e[3], e[4])

\* An atomic selection under a complement: the built-in classes swap, a named
\* class or nominal is negated, and any other reduced node is unsupported.
AtomicTerm(e, s, complemented) ==
    LET negated == complemented /\ ~HasDisplay(s, Thing) /\ ~HasDisplay(s, Nothing)
        source == IF complemented /\ HasDisplay(s, Thing) THEN Nothing
                  ELSE IF complemented /\ HasDisplay(s, Nothing) THEN Thing ELSE s[2]
    IN  IF negated /\ e[1] \notin {"class", "oneOf"} THEN None
        ELSE IF source[1] = "oneOf" THEN <<"nominal", source[2], negated \/ s[4]>>
        ELSE <<"atom", source, negated \/ s[4], IF negated THEN e ELSE s[3]>>

AllOrNone(kind, operands) == IF None \in operands THEN None ELSE BooleanTerm(kind, operands)

RestrictionTerm(E, e, complemented) ==
    CASE e[1] = "self" -> ObjectSelfTerm(E, e, complemented)
      [] e[1] = "value" -> ObjectValueTerm(E, e, complemented)
      [] e[1] = "dvalue" -> DataValueTerm(E, e, complemented)
      [] e[1] \in {"some", "all"} -> ObjectQuantifierTerm(E, e, complemented)
      [] e[1] \in {"dsome", "dall"} -> DataQuantifierTerm(E, e, complemented)
      [] e[1] = "exact" -> ObjectExactTerm(E, e, complemented)
      [] e[1] = "dexact" -> DataExactTerm(E, e, complemented)
      [] e[1] \in {"min", "max"} -> ObjectCardinalityTerm(E, e, complemented)
      [] e[1] \in {"dmin", "dmax"} -> DataCardinalityTerm(E, e, complemented)
      [] OTHER -> None

TermOf(E, e, complemented, selection) ==
    IF selection # None THEN AtomicTerm(e, selection, complemented)
    ELSE RestrictionTerm(E, e, complemented)

ClassTerm(E, C, inherited) ==
    LET s == StripNots(C, inherited)
        e == s[1]
    IN  IF IsBooleanClass(e)
        THEN AllOrNone(Dual(e[1], s[2]), {ClassTerm(E, F, s[2]) : F \in e[2]})
        ELSE TermOf(E, e, s[2], PositiveClassSelection(E, e))

-----------------------------------------------------------------------------
(***************************************************************************)
(* The generated definitions of native/src/encoded/named_classes.rs: every *)
(* complex class or data range of an axiom gets a generated name, once for *)
(* each polarity it occurs in, and a definition that is emitted only in    *)
(* the direction this polarity needs.                                      *)
(*                                                                         *)
(* A definition is named by the key of its term and its polarity, in place *)
(* of the source's namespaced SHA-256 symbol.  Its body is over operands   *)
(*   <<"atomic", class, negative, node>>   <<"nominal", I, negative>>      *)
(*   <<"generated", name, negative>>                                       *)
(* and, for data, over range literals <<base, negative>>, where the base   *)
(* is a data range or the name of a generated one.                         *)
(***************************************************************************)
Positive == "positive"
Negative == "negative"
Opposite(polarity) == IF polarity = Positive THEN Negative ELSE Positive

GeneratedClass(key, polarity) == <<"gen", key, polarity>>
GeneratedRange(key, polarity) == <<"dgen", key, polarity>>

\* ClassBooleanDefinition: `expressions` are the source nodes it stands for,
\* `ranges` the data definitions it depends on.
Definition(key, polarity, expressions, body, ranges) ==
    [key |-> key, polarity |-> polarity, expressions |-> expressions, roots |-> {},
     body |-> body, ranges |-> ranges]

\* DataBooleanDefinition.
RangeDefinition(key, polarity, expressions, body) ==
    [key |-> key, polarity |-> polarity, expressions |-> expressions, body |-> body]

-----------------------------------------------------------------------------
(***************************************************************************)
(* Atomization of a normalized term: a set of definitions, the term's own  *)
(* among them.  Nested terms get definitions of their own, which stand for *)
(* no source node.                                                         *)
(***************************************************************************)
RangeLiteral(t, polarity) ==
    IF t[1] = "range" THEN <<t[2], t[3]>> ELSE <<GeneratedRange(t, polarity), FALSE>>

RECURSIVE AtomizeDataBoolean(_, _, _)
AtomizeDataBoolean(t, polarity, expressions) ==
    {RangeDefinition(t, polarity, expressions, <<t[1], {RangeLiteral(u, polarity) : u \in t[2]}>>)}
    \cup UNION {AtomizeDataBoolean(u, polarity, {}) : u \in {v \in t[2] : v[1] # "range"}}

RangeDependencies(t, polarity) == IF t[1] = "range" THEN {} ELSE AtomizeDataBoolean(t, polarity, {})

\* Mutant: the polarity of a filler is its restriction's.
FillerPolarityKept(kind, polarity) == polarity

\* Under a maximum the filler occurs with the opposite polarity.
FillerPolarity(kind, polarity) == IF kind \in {"max", "dmax"} THEN Opposite(polarity) ELSE polarity

Atomic(t) == t[1] \in {"atom", "nominal"}
Operand(t, polarity) ==
    CASE t[1] = "atom" -> <<"atomic", t[2], t[3], t[4]>>
      [] t[1] = "nominal" -> t
      [] OTHER -> <<"generated", GeneratedClass(Key(t), polarity), FALSE>>

RECURSIVE Atomize(_, _, _)
Nested(t, polarity) == IF Atomic(t) THEN {} ELSE Atomize(t, polarity, {})

AtomizeBoolean(t, polarity, expressions) ==
    {Definition(Key(t), polarity, expressions, <<t[1], {Operand(u, polarity) : u \in t[2]}>>, {})}
    \cup UNION {Nested(u, polarity) : u \in t[2]}

AtomizeSelf(t, polarity, expressions) ==
    LET inner == <<"self", t[2], FALSE>>
    IN  IF ~t[3] THEN {Definition(Key(t), polarity, expressions, <<"self", t[2]>>, {})}
        ELSE {Definition(Key(t), polarity, expressions,
                         <<"not", <<"generated", GeneratedClass(Key(inner), Opposite(polarity)), TRUE>>>>, {}),
              Definition(Key(inner), Opposite(polarity), {}, <<"self", t[2]>>, {})}

AtomizeObjectQuantifier(t, polarity, expressions) ==
    {Definition(Key(t), polarity, expressions, <<t[1], t[2], Operand(t[3], polarity)>>, {})}
    \cup Nested(t[3], polarity)

AtomizeObjectCardinality(t, polarity, expressions) ==
    LET below == FillerPolarity(t[1], polarity)
    IN  {Definition(Key(t), polarity, expressions, <<t[1], t[2], t[3], Operand(t[4], below)>>, {})}
        \cup Nested(t[4], below)

AtomizeDataQuantifier(t, polarity, expressions) ==
    {Definition(Key(t), polarity, expressions, <<t[1], t[2], RangeLiteral(t[3], polarity)>>,
                RangeDependencies(t[3], polarity))}

AtomizeDataCardinality(t, polarity, expressions) ==
    LET below == FillerPolarity(t[1], polarity)
    IN  {Definition(Key(t), polarity, expressions, <<t[1], t[2], t[3], RangeLiteral(t[4], below)>>,
                    RangeDependencies(t[4], below))}

Atomize(t, polarity, expressions) ==
    CASE t[1] \in {"and", "or"} -> AtomizeBoolean(t, polarity, expressions)
      [] t[1] = "self" -> AtomizeSelf(t, polarity, expressions)
      [] t[1] \in {"some", "all"} -> AtomizeObjectQuantifier(t, polarity, expressions)
      [] t[1] \in {"min", "max"} -> AtomizeObjectCardinality(t, polarity, expressions)
      [] t[1] \in {"dsome", "dall"} -> AtomizeDataQuantifier(t, polarity, expressions)
      [] t[1] \in {"dmin", "dmax"} -> AtomizeDataCardinality(t, polarity, expressions)

-----------------------------------------------------------------------------
(***************************************************************************)
(* Which definitions a root asks for: the complex members of its axiom in  *)
(* the polarities of their occurrences, or none at all when one of them    *)
(* has no normal form (the root is then deferred).                         *)
(***************************************************************************)
IsSelected(E, C) == ClassSelection(E, C) # None

\* class_boolean_definition_candidates
IsComplex(t) == t # None /\ ~Atomic(t)
HasCandidates(E, C) == IsComplex(ClassTerm(E, C, FALSE))
Candidates(E, C, polarity) == Atomize(ClassTerm(E, C, FALSE), polarity, {C})

AllOrNothing(E, complex) ==
    IF \A o \in complex : HasCandidates(E, o[1])
    THEN UNION {Candidates(E, o[1], o[2]) : o \in complex} ELSE {}

SeqSet(s) == {s[i] : i \in DOMAIN s}

\* The occurrences <<expression, polarity>> each kind of root retains.
RetainSubclass(a) == {<<a[2], Negative>>, <<a[3], Positive>>}
RetainEquivalent(a) == SeqSet(a[2]) \X {Negative, Positive}
RetainDisjoint(a) == SeqSet(a[2]) \X {Negative}
RetainClassAssertion(a) == {<<a[2], Positive>>}

RetainClassConstraint(E, a) ==
    IF (IF a[1] = "DataPropertyDomain" THEN E.dataRoles ELSE E.objectRoles) THEN {<<a[3], Positive>>} ELSE {}

KeyRolesKept(E, a) == (a[3] # {} => E.objectRoles) /\ (a[4] # {} => E.dataRoles)
RetainKey(E, a) == IF KeyRolesKept(E, a) THEN {<<a[2], Negative>>} ELSE {}

Occurrences(E, a) ==
    CASE a[1] = "SubClassOf" -> RetainSubclass(a)
      [] a[1] = "EquivalentClasses" -> RetainEquivalent(a)
      [] a[1] = "DisjointClasses" -> RetainDisjoint(a)
      [] a[1] = "ClassAssertion" -> RetainClassAssertion(a)
      [] a[1] \in {"ObjectPropertyDomain", "ObjectPropertyRange", "DataPropertyDomain"} ->
            RetainClassConstraint(E, a)
      [] a[1] = "HasKey" -> RetainKey(E, a)
      [] OTHER -> {}

\* The union of a DisjointUnion's members is no source node: its definition
\* belongs to the root.
MemberTerms(E, a) == [C \in SeqSet(a[3]) |-> ClassTerm(E, C, FALSE)]
UnionTerm(members) == IF None \in members THEN None ELSE BooleanTerm("or", members)
UnionSelection(E, a) == BooleanProjection("or", {ClassProjection(E, C, TRUE) : C \in SeqSet(a[3])})
UnionReduces(E, a) == UnionSelection(E, a) \notin {None, Discardable}

\* The definitions of the union, and of the members it is the union of.
RootDefinitions(a, union, definitions) ==
    {IF d.key = Key(union) /\ d.polarity = Positive THEN [d EXCEPT !.roots = {a}] ELSE d : d \in definitions}
UnionDefinitions(a, terms, union) ==
    IF union = None THEN {}
    ELSE IF union[1] \notin {"and", "or"} THEN {}
    ELSE UNION {Atomize(terms[C], Negative, {C}) : C \in {F \in DOMAIN terms : ~Atomic(terms[F])}}
         \cup RootDefinitions(a, union, AtomizeBoolean(union, Positive, {}))
UnionOf(a, terms) == UnionDefinitions(a, terms, UnionTerm({terms[C] : C \in DOMAIN terms}))

RetainDisjointUnion(E, a) ==
    IF ~IsSelected(E, a[2]) \/ UnionReduces(E, a) THEN {} ELSE UnionOf(a, MemberTerms(E, a))

\* class_boolean_definitions: the definitions root a asks for.
RetainRoot(E, a) ==
    IF a[1] = "DisjointUnion" THEN RetainDisjointUnion(E, a)
    ELSE AllOrNothing(E, {o \in Occurrences(E, a) : ~IsSelected(E, o[1])})

\* retain_class_boolean_definition: definitions of one name are one, with the
\* nodes, roots and axioms of all; they must agree on the body.
SameName(d, e) == d.key = e.key /\ d.polarity = e.polarity
Agree(d, e) == SameName(d, e) => d.body = e.body
Disagree(definitions) == \E d, e \in definitions : ~Agree(d, e)

\* `asked` is a set of <<definition, axiom>>.
Merged(d, same) ==
    [definition |-> [d EXCEPT !.expressions = UNION {p[1].expressions : p \in same},
                              !.roots = UNION {p[1].roots : p \in same}],
     provenance |-> {p[2] : p \in same}]
MergeDefinitions(asked) == {Merged(p[1], {q \in asked : SameName(q[1], p[1])}) : p \in asked}

ClassDefinitionsOf(E, axioms) == UNION {RetainRoot(E, a) \X {a} : a \in axioms}

-----------------------------------------------------------------------------
(***************************************************************************)
(* Data definitions: those the class definitions depend on, with the same  *)
(* provenance; one for each complex data-property range; and the nested    *)
(* ones of a complex datatype definition, in both polarities.              *)
(***************************************************************************)
\* A flat definition's body is over range literals, as an atomized one's.
FlatBody(flat) == <<flat[1], {<<t[2], t[3]>> : t \in flat[2]}>>

DataCandidate(D, flat, term) ==
    IF flat # None THEN {RangeDefinition(flat, Positive, {D}, FlatBody(flat))}
    ELSE IF term = None THEN {}
    ELSE IF term[1] = "range" THEN {}
    ELSE AtomizeDataBoolean(term, Positive, {D})

RangeDefinitions(E, a) ==
    IF a[1] # "DataPropertyRange" \/ ~E.dataRoles \/ RangeSelection(a[3]) # None THEN {}
    ELSE DataCandidate(a[3], FlatDataBoolean(a[3]), DataTerm(a[3], FALSE))

\* The operands of a complex datatype definition in each polarity; a flat one
\* needs no definitions.
BodyOf(flat, term, polarity) ==
    IF flat # None THEN FlatBody(flat)
    ELSE <<term[1], {RangeLiteral(u, polarity) : u \in term[2]}>>
DatatypeBody(D, polarity) == BodyOf(FlatDataBoolean(D), DataTerm(D, FALSE), polarity)

IsBooleanTerm(t) == t # None /\ IsBooleanRange(t)
DatatypeIsBoolean(D) ==
    /\ RangeSelection(D) = None
    /\ FlatDataBoolean(D) # None \/ IsBooleanTerm(DataTerm(D, FALSE))

DatatypeDefinitions(a) ==
    IF a[1] # "DatatypeDefinition" THEN {}
    ELSE IF RangeSelection(a[3]) # None \/ FlatDataBoolean(a[3]) # None \/ ~DatatypeIsBoolean(a[3]) THEN {}
    ELSE UNION {UNION {RangeDependencies(u, p) : u \in DataTerm(a[3], FALSE)[2]} : p \in {Positive, Negative}}

DataDefinitionsOf(E, axioms, classDefinitions) ==
    UNION {UNION {m.definition.ranges \X {p} : p \in m.provenance} : m \in classDefinitions}
    \cup UNION {(RangeDefinitions(E, a) \cup DatatypeDefinitions(a)) \X {a} : a \in axioms}

MergedRange(d, same) ==
    [definition |-> [d EXCEPT !.expressions = UNION {p[1].expressions : p \in same}],
     provenance |-> {p[2] : p \in same}]
MergeDataDefinitions(asked) == {MergedRange(p[1], {q \in asked : SameName(q[1], p[1])}) : p \in asked}

=============================================================================
