--------------------------- MODULE ProgramClauses ---------------------------
(***************************************************************************)
(* freeze_predicates, freeze_clauses and freeze_*_facts of                 *)
(* native/src/encoded/named_classes.rs: normalized rows become predicates, *)
(* clauses (a set of body atoms implies a set of head atoms) and ground    *)
(* facts.  An atom starts with the predicate's kind and ends with terms    *)
(*   <<"concept", symbol, negative, t>>   <<"range", symbol, negative, t>> *)
(*   <<"role", r, t, u>>                  <<"drole", d, t, u>>             *)
(*   <<"negatedRole", r, t, u>>           <<"negatedDrole", d, t, u>>      *)
(*   <<"atLeast", n, r, filler, t>>       <<"atLeastData", n, d, range, t>>*)
(*   <<"annotated", n, r, filler, t, u>>  <<"equal"|"unequal", sort, t, u>>*)
(*   <<"ordering", t, u>>  <<"named", t>>  <<"guard", classes, k, t>>      *)
(* where a term is a variable <<"v", k>>, an individual <<"i", a>> or a    *)
(* literal <<"l", l>>.                                                     *)
(***************************************************************************)
EXTENDS ClassPhase

LOCAL INSTANCE SequencesExt

V(k) == <<"v", k>>
Ind(i) == <<"i", i>>

Concept(literal, t) == <<"concept", literal[1], literal[2], t>>
InRange(literal, t) == <<"range", literal[1], literal[2], t>>
RoleAtom(r, t, u) == <<"role", r, t, u>>
DataRoleAtom(d, t, u) == <<"drole", d, t, u>>
Equal(sort, t, u) == <<"equal", sort, t, u>>
Unequal(sort, t, u) == <<"unequal", sort, t, u>>
AtLeast(n, r, filler, t) == <<"atLeast", n, r, filler, t>>
AtLeastData(n, d, range, t) == <<"atLeastData", n, d, range, t>>
Annotated(n, r, filler, t, u) == <<"annotated", n, r, filler, t, u>>
Guard(classes, k, t) == <<"guard", classes, k, t>>

RowsOf(rows, tag) == {x.row : x \in {y \in rows : y.row[1] = tag}}

-----------------------------------------------------------------------------
(***************************************************************************)
(* The predicates, read off the rows: freeze_predicates.                   *)
(***************************************************************************)
\* The class literals of a row.
ClassLiterals(row) ==
    CASE row[1] = "edge" -> {row[2], row[3]}
      [] row[1] = "boolean" -> row[2] \cup row[3]
      [] row[1] = "disjoint" -> SeqSet(row[2])
      [] row[1] = "object" -> {row[4]} \cup (IF row[5] = None THEN {} ELSE {row[5]})
      [] row[1] = "data" -> {row[4]}
      [] row[1] = "dataDomain" -> {row[3]}
      [] row[1] \in {"key", "fact"} -> {row[2]}
      [] OTHER -> {}

RangeLiterals(row) ==
    CASE row[1] = "data" -> {row[5]}
      [] row[1] = "dataRange" -> {row[3]}
      [] row[1] = "dboolean" -> row[2] \cup row[3]
      [] row[1] = "datatype" -> {row[2], row[3]}
      [] OTHER -> {}

Kinds(rows, tag) == {r[2] : r \in RowsOf(rows, tag)}

NegativeClasses(rows) ==
    {l[1] : l \in {m \in UNION {ClassLiterals(x.row) : x \in rows} : m[2]}}
NegativeRanges(rows) ==
    {l[1] : l \in {m \in UNION {RangeLiterals(x.row) : x \in rows} : m[2]}}

NeedsThing(rows, individuals) ==
    \/ individuals # {}
    \/ "ReflexiveObjectProperty" \in Kinds(rows, "characteristic")
    \/ {"UniversalAntecedent", "MaximumAntecedent"} \cap (Kinds(rows, "object") \cup Kinds(rows, "data")) # {}
    \/ NegativeClasses(rows) # {}

ConceptPredicates(rows, individuals) ==
    {<<"concept", l[1], FALSE>> : l \in UNION {ClassLiterals(x.row) : x \in rows}}
    \cup {<<"concept", C, TRUE>> : C \in NegativeClasses(rows)}
    \cup {<<"concept", Nothing, FALSE>>}
    \cup (IF NeedsThing(rows, individuals) THEN {<<"concept", Thing, FALSE>>} ELSE {})

\* The number an object or data constraint's at-least predicate asks for.
AtLeastBound(row) ==
    CASE row[2] \in {"ExistentialConsequent", "UniversalAntecedent"} -> 1
      [] row[2] \in {"MinimumAntecedent", "MinimumConsequent"} -> row[6]
      [] row[2] = "MaximumAntecedent" -> row[6] + 1
      [] OTHER -> 0

AtLeastPredicates(rows) ==
    {<<"atLeast", AtLeastBound(r), r[3], r[5]>> : r \in {s \in RowsOf(rows, "object") : AtLeastBound(s) > 0}}
AtLeastDataPredicates(rows) ==
    {<<"atLeastData", AtLeastBound(r), r[3], r[5]>> : r \in {s \in RowsOf(rows, "data") : AtLeastBound(s) > 0}}
AnnotatedPredicates(rows) ==
    {<<"annotated", r[6], r[3], r[5]>> : r \in {s \in RowsOf(rows, "object") : s[2] = "MaximumConsequent"}}

RolePredicates(rows) ==
    {<<"role", r[3]>> : r \in RowsOf(rows, "object") \cup RowsOf(rows, "characteristic")}
    \cup {<<"role", r[2]>> : r \in RowsOf(rows, "objectFact")}
    \cup {<<"role", r>> : r \in UNION {k[3] : k \in RowsOf(rows, "key")}}
    \cup {<<"negatedRole", r[2]>> : r \in RowsOf(rows, "negatedObjectFact")}
DataRolePredicates(rows) ==
    {<<"drole", r[3]>> : r \in RowsOf(rows, "data")}
    \cup {<<"drole", r[2]>> : r \in RowsOf(rows, "dataDomain") \cup RowsOf(rows, "dataRange")
                                   \cup RowsOf(rows, "functionality") \cup RowsOf(rows, "dataFact")}
    \cup {<<"drole", d>> : d \in UNION {k[4] : k \in RowsOf(rows, "key")}}
    \cup {<<"negatedDrole", r[2]>> : r \in RowsOf(rows, "negatedDataFact")}

RangePredicates(rows) ==
    {<<"range", l[1], FALSE>> : l \in UNION {RangeLiterals(x.row) : x \in rows}}
    \cup {<<"range", D, TRUE>> : D \in NegativeRanges(rows)}
    \cup (IF NegativeRanges(rows) # {} THEN {<<"range", TopRange, FALSE>>} ELSE {})

GuardPredicates(rows) ==
    UNION {{<<"guard", r[2], k>> : k \in DOMAIN r[2]} : r \in RowsOf(rows, "disjoint")}

NeedsEquality(rows, nominals) ==
    \/ RowsOf(rows, "equality") # {} \/ nominals # {} \/ RowsOf(rows, "key") # {}
    \/ Kinds(rows, "characteristic") \ {"ReflexiveObjectProperty"} # {}
NeedsDataEquality(rows) ==
    RowsOf(rows, "functionality") # {} \/ "MaximumConsequent" \in Kinds(rows, "data")
\* Witnesses of a number above one are told apart.
Distinguishes(row) ==
    \/ row[2] \in {"MinimumAntecedent", "MinimumConsequent"} /\ row[6] > 1
    \/ row[2] = "MaximumAntecedent"
NeedsInequality(rows, nominals) ==
    \/ RowsOf(rows, "inequality") # {} \/ NegativeClasses(rows) \cap nominals # {}
    \/ \E r \in RowsOf(rows, "object") : Distinguishes(r)
NeedsDataInequality(rows) ==
    \/ RowsOf(rows, "negatedDataFact") # {}
    \/ \E k \in RowsOf(rows, "key") : k[4] # {}
    \/ \E r \in RowsOf(rows, "data") : Distinguishes(r)
NeedsOrdering(rows) ==
    \/ RowsOf(rows, "key") # {}
    \/ \E r \in RowsOf(rows, "object") : r[2] = "MaximumConsequent" /\ r[6] > 1
NeedsNamed(rows, named) == named # {} \/ RowsOf(rows, "key") # {}

When(condition, predicate) == IF condition THEN {predicate} ELSE {}

Predicates(rows, nominals, individuals, named) ==
    ConceptPredicates(rows, individuals) \cup AtLeastPredicates(rows) \cup AtLeastDataPredicates(rows)
    \cup AnnotatedPredicates(rows) \cup RolePredicates(rows) \cup DataRolePredicates(rows)
    \cup RangePredicates(rows) \cup GuardPredicates(rows)
    \cup When(NeedsEquality(rows, nominals), <<"equal", "object">>)
    \cup When(NeedsDataEquality(rows), <<"equal", "data">>)
    \cup When(NeedsInequality(rows, nominals), <<"unequal", "object">>)
    \cup When(NeedsDataInequality(rows), <<"unequal", "data">>)
    \cup When(NeedsOrdering(rows), <<"ordering">>)
    \cup When(NeedsNamed(rows, named), <<"named">>)

-----------------------------------------------------------------------------
(***************************************************************************)
(* The clauses of each row: freeze_clauses.                                *)
(***************************************************************************)
Clause(body, head) == [body |-> body, head |-> head]

\* push_clause, push_typed_clause and push_mixed_clause drop a tautology.
PushClause(body, head) == IF body \cap head # {} THEN {} ELSE {Clause(body, head)}
PushTypedClause(body, head) == IF body \cap head # {} THEN {} ELSE {Clause(body, head)}
PushMixedClause(body, head) == IF body \cap head # {} THEN {} ELSE {Clause(body, head)}

Unary(literals) == {Concept(l, V(0)) : l \in literals}
UnaryRange(literals) == {InRange(l, V(0)) : l \in literals}

BottomClause == PushClause(Unary({NothingLiteral}), {})

\* Mutant: the complements of asserted classes are forgotten.
ComplementClassesOfAxioms(rows) ==
    {l[1] : l \in {m \in UNION {ClassLiterals(x.row) : x \in {y \in rows : y.row[1] \notin {"data", "fact"}}} : m[2]}}

\* The classes whose complement occurs; a data constraint's class is never
\* negative.
ComplementClasses(rows) ==
    {l[1] : l \in {m \in UNION {ClassLiterals(x.row) : x \in {y \in rows : y.row[1] # "data"}} : m[2]}}

ComplementClauses(rows) ==
    UNION {PushClause(Unary({<<C, FALSE>>, <<C, TRUE>>}), {})
           \cup PushClause(Unary({ThingLiteral}), Unary({<<C, FALSE>>, <<C, TRUE>>})) : C \in ComplementClasses(rows)}

NominalClauses(N, negated) ==
    LET nominal == Unary({<<N, FALSE>>})
        is(i) == Equal("object", V(0), Ind(i))
    IN  PushMixedClause(nominal, {is(i) : i \in N[2]})
        \cup UNION {PushMixedClause({is(i)}, nominal) : i \in N[2]}
        \cup (IF negated THEN UNION {PushMixedClause(Unary({<<N, TRUE>>}), {Unequal("object", V(0), Ind(i))}) : i \in N[2]}
              ELSE {})

RangeComplementClauses(rows) ==
    UNION {PushTypedClause(UnaryRange({<<D, FALSE>>, <<D, TRUE>>}), {})
           \cup PushTypedClause(UnaryRange({<<TopRange, FALSE>>}), UnaryRange({<<D, FALSE>>, <<D, TRUE>>})) :
                D \in NegativeRanges(rows)}

EdgeClause(row) == PushClause(Unary({row[2]}), Unary({row[3]}))
BooleanClause(row) == PushClause(Unary(row[2]), Unary(row[3]))
DataBooleanClause(row) == PushTypedClause(UnaryRange(row[2]), UnaryRange(row[3]))

\* The clauses that put an at-least atom in the head or, for a minimum in the
\* antecedent, in the body.
AtLeastClause(kind, atLeast, class) ==
    CASE kind \in {"ExistentialConsequent", "MinimumConsequent"} -> PushClause(class, {atLeast})
      [] kind = "MinimumAntecedent" -> PushClause({atLeast}, class)
      [] kind \in {"UniversalAntecedent", "MaximumAntecedent"} ->
            PushClause(Unary({ThingLiteral}), {atLeast} \cup class)

\* push_object_at_most_clause: n + 1 successors in the filler, ordered when
\* there are more than two, and some pair equal.
ObjectAtMostClause(row) ==
    LET n == row[6]
        targets == 1..(n + 1)
        pairs == {p \in targets \X targets : p[1] < p[2]}
    IN  {Clause(Unary({row[4]})
                \cup UNION {{RoleAtom(row[3], V(0), V(k)), Concept(row[5], V(k))} : k \in targets}
                \cup (IF n > 1 THEN {<<"ordering", V(k), V(k + 1)>> : k \in 1..n} ELSE {}),
                {Annotated(n, row[3], row[5], V(p[1]), V(p[2])) : p \in pairs})}

DataAtMostClause(row) ==
    LET targets == 1..(row[6] + 1)
        pairs == {p \in targets \X targets : p[1] < p[2]}
    IN  {Clause(Unary({row[4]})
                \cup UNION {{DataRoleAtom(row[3], V(0), V(k)), InRange(row[5], V(k))} : k \in targets},
                {Equal("data", V(p[1]), V(p[2])) : p \in pairs})}

ObjectConstraintClause(row) ==
    LET edge == RoleAtom(row[3], V(0), V(1))
        loop == RoleAtom(row[3], V(0), V(0))
        class == Unary({row[4]})
        filler == {Concept(row[5], V(1))}
    IN  CASE row[2] = "Domain" -> {Clause({edge}, class)}
          [] row[2] = "Range" -> {Clause({edge}, {Concept(row[4], V(1))})}
          [] row[2] = "SelfAntecedent" -> {Clause({loop}, class)}
          [] row[2] = "SelfConsequent" -> {Clause(class, {loop})}
          [] row[2] = "ExistentialAntecedent" -> {Clause({edge} \cup filler, class)}
          [] row[2] = "UniversalConsequent" -> {Clause(class \cup {edge}, filler)}

ObjectRowClauses(row) ==
    IF AtLeastBound(row) > 0
    THEN AtLeastClause(row[2], AtLeast(AtLeastBound(row), row[3], row[5], V(0)), Unary({row[4]}))
    ELSE IF row[2] = "MaximumConsequent" THEN ObjectAtMostClause(row)
    ELSE ObjectConstraintClause(row)

DataConstraintClause(row) ==
    LET edge == DataRoleAtom(row[3], V(0), V(1))
        filler == {InRange(row[5], V(1))}
    IN  IF row[2] = "ExistentialAntecedent" THEN {Clause({edge} \cup filler, Unary({row[4]}))}
        ELSE {Clause(Unary({row[4]}) \cup {edge}, filler)}

DataRowClauses(row) ==
    IF AtLeastBound(row) > 0
    THEN AtLeastClause(row[2], AtLeastData(AtLeastBound(row), row[3], row[5], V(0)), Unary({row[4]}))
    ELSE IF row[2] = "MaximumConsequent" THEN DataAtMostClause(row)
    ELSE DataConstraintClause(row)

CharacteristicClause(row) ==
    CASE row[2] = "FunctionalObjectProperty" ->
            {Clause({RoleAtom(row[3], V(0), V(1)), RoleAtom(row[3], V(0), V(2))}, {Equal("object", V(1), V(2))})}
      [] row[2] = "InverseFunctionalObjectProperty" ->
            {Clause({RoleAtom(row[3], V(0), V(1)), RoleAtom(row[3], V(2), V(1))}, {Equal("object", V(0), V(2))})}
      [] row[2] = "ReflexiveObjectProperty" ->
            {Clause(Unary({ThingLiteral}), {RoleAtom(row[3], V(0), V(0))})}

DataDomainClause(row) == {Clause({DataRoleAtom(row[2], V(0), V(1))}, Unary({row[3]}))}
DataRangeClause(row) == {Clause({DataRoleAtom(row[2], V(0), V(1))}, {InRange(row[3], V(1))})}
DatatypeClauses(row) ==
    IF row[2] = row[3] THEN {}
    ELSE PushTypedClause(UnaryRange({row[2]}), UnaryRange({row[3]}))
         \cup PushTypedClause(UnaryRange({row[3]}), UnaryRange({row[2]}))

\* push_key_clause: variables 0 and 1 are the keyed individuals, each object
\* role shares a named value and each data role has a value on either side.
KeyClause(row) ==
    LET objects == SetToSeq(row[3])
        values == SetToSeq(row[4])
        shared(k) == V(1 + k)
        left(k) == V(Len(objects) + 2 * k)
        right(k) == V(Len(objects) + 2 * k + 1)
    IN  {Clause({Concept(row[2], V(0)), Concept(row[2], V(1)), <<"named", V(0)>>, <<"named", V(1)>>,
                 <<"ordering", V(0), V(1)>>}
                \cup UNION {{RoleAtom(objects[k], V(0), shared(k)), RoleAtom(objects[k], V(1), shared(k)),
                             <<"named", shared(k)>>} : k \in DOMAIN objects}
                \cup UNION {{DataRoleAtom(values[k], V(0), left(k)), DataRoleAtom(values[k], V(1), right(k))} :
                             k \in DOMAIN values},
                {Equal("object", V(0), V(1))} \cup {Unequal("data", left(k), right(k)) : k \in DOMAIN values})}

FunctionalityClause(row) ==
    {Clause({DataRoleAtom(row[2], V(0), V(1)), DataRoleAtom(row[2], V(0), V(2))}, {Equal("data", V(1), V(2))})}

\* The guards of a disjoint row collect the members seen so far.
DisjointClauses(row) ==
    LET classes == row[2]
        guard(k) == Guard(classes, k, V(0))
        member(k) == Concept(classes[k], V(0))
    IN  UNION {PushClause({member(k)}, {guard(k)})
               \cup (IF k = 1 THEN {} ELSE PushClause({guard(k - 1), member(k)}, {})
                                           \cup PushClause({guard(k - 1)}, {guard(k)})) : k \in DOMAIN classes}

RowClauses(row) ==
    CASE row[1] = "edge" -> EdgeClause(row)
      [] row[1] = "boolean" -> BooleanClause(row)
      [] row[1] = "dboolean" -> DataBooleanClause(row)
      [] row[1] = "object" -> ObjectRowClauses(row)
      [] row[1] = "data" -> DataRowClauses(row)
      [] row[1] = "characteristic" -> CharacteristicClause(row)
      [] row[1] = "dataDomain" -> DataDomainClause(row)
      [] row[1] = "dataRange" -> DataRangeClause(row)
      [] row[1] = "datatype" -> DatatypeClauses(row)
      [] row[1] = "key" -> KeyClause(row)
      [] row[1] = "functionality" -> FunctionalityClause(row)
      [] row[1] = "disjoint" -> DisjointClauses(row)
      [] OTHER -> {}

FreezeClauses(rows, nominals) ==
    BottomClause \cup ComplementClauses(rows) \cup RangeComplementClauses(rows)
    \cup UNION {NominalClauses(N, N \in ComplementClasses(rows)) : N \in nominals}
    \cup UNION {RowClauses(x.row) : x \in rows}

-----------------------------------------------------------------------------
(***************************************************************************)
(* Facts: every individual is a Thing, the named ones are named.           *)
(***************************************************************************)
ThingFacts(individuals) == {Concept(ThingLiteral, Ind(i)) : i \in individuals}
NamedFacts(named) == {<<"named", Ind(i)>> : i \in named}
ClassFacts(rows, negative) ==
    {Concept(f[2], Ind(f[3])) : f \in {r \in RowsOf(rows, "fact") : r[2][2] = negative}}
ObjectFacts(rows) == {RoleAtom(f[2], Ind(f[3]), Ind(f[4])) : f \in RowsOf(rows, "objectFact")}
DataFacts(rows) == {DataRoleAtom(f[2], Ind(f[3]), <<"l", f[4]>>) : f \in RowsOf(rows, "dataFact")}
EqualityFacts(rows) == {Equal("object", Ind(f[2]), Ind(f[3])) : f \in RowsOf(rows, "equality")}
InequalityFacts(rows) == {Unequal("object", Ind(f[2]), Ind(f[3])) : f \in RowsOf(rows, "inequality")}

PositiveFacts(rows, individuals, named) ==
    ThingFacts(individuals) \cup NamedFacts(named) \cup ClassFacts(rows, FALSE) \cup ObjectFacts(rows)
    \cup DataFacts(rows) \cup EqualityFacts(rows) \cup InequalityFacts(rows)

NegatedObjectFacts(rows) ==
    {<<"negatedRole", f[2], Ind(f[3]), Ind(f[4])>> : f \in RowsOf(rows, "negatedObjectFact")}
NegatedDataFacts(rows) ==
    {<<"negatedDrole", f[2], Ind(f[3]), <<"l", f[4]>>>> : f \in RowsOf(rows, "negatedDataFact")}
NegativeFacts(rows) == ClassFacts(rows, TRUE) \cup NegatedObjectFacts(rows) \cup NegatedDataFacts(rows)

\* freeze_provenance: the axioms behind the frozen program.
FreezeProvenance(rows) == UNION {x.provenance : x \in rows}

=============================================================================
