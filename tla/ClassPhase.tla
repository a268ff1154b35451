----------------------------- MODULE ClassPhase -----------------------------
(***************************************************************************)
(* compile_named_class_phase of native/src/encoded/named_classes.rs: one   *)
(* slice of axioms is compiled to normalized rows over its published       *)
(* symbols.  The rows of the phase, each with the axiom it comes from:     *)
(*   <<"edge", sub, super>>            <<"boolean", body, head>>           *)
(*   <<"disjoint", classes>>           <<"object", kind, r, class, filler, n>> *)
(*   <<"characteristic", kind, r>>     <<"data", kind, d, class, range, n>>    *)
(*   <<"dataDomain", d, class>>        <<"dataRange", d, range>>           *)
(*   <<"dboolean", body, head>>        <<"datatype", left, right>>         *)
(*   <<"key", class, R, D>>            <<"functionality", d>>              *)
(*   <<"fact", class, i>>              <<"equality"|"inequality", i, j, a>>*)
(*   <<"objectFact"|"negatedObjectFact", r, i, j>>                         *)
(*   <<"dataFact"|"negatedDataFact", d, i, l>>                             *)
(* A class or range literal is <<symbol, negative>>.  The symbol of a      *)
(* literal is a class, a nominal, a data range or a generated name.        *)
(***************************************************************************)
EXTENDS ClassNormalizer

LOCAL INSTANCE SequencesExt

Deferred == {<<"deferred">>}

ThingLiteral == <<Thing, FALSE>>
NothingLiteral == <<Nothing, FALSE>>

IsGenerated(symbol) == symbol[1] \in {"gen", "dgen"}

-----------------------------------------------------------------------------
(***************************************************************************)
(* Literals of the expressions of an axiom: the atomic selection if there  *)
(* is one, else the definition of the node in the occurrence's polarity.   *)
(* Definitions are given as MergeDefinitions returns them.                 *)
(***************************************************************************)
DefinitionFor(definitions, C, polarity) ==
    {m.definition : m \in {n \in definitions : /\ C \in n.definition.expressions
                                               /\ n.definition.polarity = polarity}}

DefinitionForRoot(definitions, a) ==
    {m.definition : m \in {n \in definitions : a \in n.definition.roots}}

NameOf(found) == LET d == CHOOSE e \in found : TRUE IN <<GeneratedClass(d.key, d.polarity), FALSE>>

LiteralFrom(s, found) ==
    IF s # None THEN <<s[2], s[4]>> ELSE IF found # {} THEN NameOf(found) ELSE None
ClassLiteral(E, definitions, C, polarity) ==
    LiteralFrom(ClassSelection(E, C), DefinitionFor(definitions, C, polarity))
Literals(E, definitions, members, polarity) ==
    [i \in DOMAIN members |-> ClassLiteral(E, definitions, members[i], polarity)]

RangeLiteralFrom(s, found) ==
    LET d == CHOOSE e \in found : TRUE
    IN  IF s # None THEN <<s[2], s[3]>>
        ELSE IF found # {} THEN <<GeneratedRange(d.key, d.polarity), FALSE>> ELSE None
DataRangeLiteral(definitions, D, polarity) ==
    RangeLiteralFrom(RangeSelection(D), DefinitionFor(definitions, D, polarity))

-----------------------------------------------------------------------------
(***************************************************************************)
(* The handlers: the rows of one root, or Deferred when a member has no    *)
(* literal or the role phase it needs is absent.                           *)
(***************************************************************************)
Edge(sub, super) == <<"edge", sub, super>>

\* retain_edge drops the trivial edges.
RetainEdge(edges) ==
    {e \in edges : e[2] # NothingLiteral /\ e[3] # ThingLiteral /\ e[2] # e[3]}

\* A subclass axiom that says nothing.
TrivialSelections(s, t) ==
    s # None /\ t # None /\ (SelectionsMatch(s, t) \/ HasDisplay(s, Nothing) \/ HasDisplay(t, Thing))
TrivialPair(E, sub, super) == TrivialSelections(ClassSelection(E, sub), ClassSelection(E, super))

SubclassRows(sub, super, trivial) ==
    IF sub = None \/ super = None THEN Deferred
    ELSE IF trivial THEN {} ELSE RetainEdge({Edge(sub, super)})
NamedSubclass(E, definitions, a) ==
    SubclassRows(ClassLiteral(E, definitions, a[2], Negative), ClassLiteral(E, definitions, a[3], Positive),
                 TrivialPair(E, a[2], a[3]))

EquivalentRows(n, sub, super) ==
    IF \E i \in 1..n : sub[i] = None \/ super[i] = None THEN Deferred
    ELSE RetainEdge({Edge(sub[i], super[(i % n) + 1]) : i \in 1..n})
NamedEquivalentClasses(E, definitions, a) ==
    EquivalentRows(Len(a[2]), Literals(E, definitions, a[2], Negative), Literals(E, definitions, a[2], Positive))

\* normalize_disjoint_class_literals: a repeated literal is empty; Thing
\* empties the others; two or more live literals make a disjoint row.
NormalizeDisjointLiterals(literals) ==
    LET times(l) == Cardinality({i \in DOMAIN literals : literals[i] = l})
        distinct == SeqSet(literals) \ {NothingLiteral}
        live == {l \in distinct : times(l) = 1}
        repeated == {Edge(l, NothingLiteral) : l \in distinct \ live}
    IN  IF ThingLiteral \in live
        THEN repeated \cup {Edge(l, NothingLiteral) : l \in live \ {ThingLiteral}}
        ELSE repeated \cup (IF Cardinality(live) >= 2 THEN {<<"disjoint", SetToSeq(live)>>} ELSE {})

Missing(literals) == \E i \in DOMAIN literals : literals[i] = None
LiveLiterals(literals) == Cardinality({i \in DOMAIN literals : literals[i] # NothingLiteral})
DisjointRows(literals) ==
    IF Missing(literals) THEN Deferred
    ELSE IF LiveLiterals(literals) < 2 THEN {} ELSE NormalizeDisjointLiterals(literals)
NamedDisjointClasses(E, definitions, a) == DisjointRows(Literals(E, definitions, a[2], Negative))

\* The defined class is the union of its members, and these are disjoint.
UnionLiteral(selection, own) ==
    LiteralFrom(IF selection = Discardable THEN None ELSE selection, own)
UnionRows(self, union, members) ==
    IF self = None \/ union = None \/ Missing(members) THEN Deferred
    ELSE RetainEdge({Edge(self, union)} \cup {Edge(members[i], self) : i \in DOMAIN members})
         \cup NormalizeDisjointLiterals(members)
NamedDisjointUnion(E, definitions, a) ==
    UnionRows(LiteralFrom(ClassSelection(E, a[2]), {}),
              UnionLiteral(UnionSelection(E, a), DefinitionForRoot(definitions, a)),
              Literals(E, definitions, a[3], Negative))

ObjectRow(kind, r, class, filler, n) == <<"object", kind, r, class, filler, n>>
DataRow(kind, d, class, range, n) == <<"data", kind, d, class, range, n>>

RowOrDeferred(kept, literal, row) == IF ~kept \/ literal = None THEN Deferred ELSE {row}

ObjectConstraintRow(E, a, class) ==
    RowOrDeferred(E.objectRoles, class,
                  ObjectRow(IF a[1] = "ObjectPropertyDomain" THEN "Domain" ELSE "Range", a[2], class, None, 0))
NamedObjectConstraint(E, definitions, a) ==
    ObjectConstraintRow(E, a, ClassLiteral(E, definitions, a[3], Positive))

NamedObjectCharacteristic(E, a) ==
    IF ~E.objectRoles THEN Deferred ELSE {<<"characteristic", a[1], a[2]>>}

DataConstraintRow(E, a, tag, literal) == RowOrDeferred(E.dataRoles, literal, <<tag, a[2], literal>>)
NamedDataDomain(E, definitions, a) ==
    DataConstraintRow(E, a, "dataDomain", ClassLiteral(E, definitions, a[3], Positive))
NamedDataRange(E, dataDefinitions, a) ==
    DataConstraintRow(E, a, "dataRange", DataRangeLiteral(dataDefinitions, a[3], Positive))

\* emit_datatype_boolean: both directions of the definition, over the operands
\* of the polarity each needs.
DatatypeBoolean(T, positive, negative) ==
    LET clause(body, head) == <<"dboolean", body, head>>
    IN  IF positive[1] = "dand"
        THEN {clause({T}, {l}) : l \in positive[2]} \cup {clause(negative[2], {T})}
        ELSE {clause({T}, positive[2])} \cup {clause({l}, {T}) : l \in negative[2]}

NamedDatatypeDefinition(a) ==
    LET T == <<a[2], FALSE>>
    IN  IF DatatypeIsBoolean(a[3])
        THEN DatatypeBoolean(T, DatatypeBody(a[3], Positive), DatatypeBody(a[3], Negative))
        ELSE {<<"datatype", T, RangeLiteralFrom(RangeSelection(a[3]), {})>>}

KeyRow(E, a, class) == RowOrDeferred(KeyRolesKept(E, a), class, <<"key", class, a[3], a[4]>>)
NamedKey(E, definitions, a) == KeyRow(E, a, ClassLiteral(E, definitions, a[2], Negative))

NamedDataFunctionality(E, a) == IF ~E.dataRoles THEN Deferred ELSE {<<"functionality", a[2]>>}

\* Only named individuals may be equated or told apart.
NamedSameIndividuals(E, a) ==
    IF SeqSet(a[2]) \cap E.anonymous # {} THEN Deferred
    ELSE {<<"equality", a[2][1], a[2][i], a>> : i \in 2..Len(a[2])}

NamedDifferentIndividuals(E, a) ==
    IF SeqSet(a[2]) \cap E.anonymous # {} THEN Deferred
    ELSE {<<"inequality", a[2][p[1]], a[2][p[2]], a>> :
            p \in {q \in (DOMAIN a[2]) \X (DOMAIN a[2]) : q[1] < q[2]}}

FactRow(a, class) == RowOrDeferred(TRUE, class, <<"fact", class, a[3]>>)
NamedClassAssertion(E, definitions, a) == FactRow(a, ClassLiteral(E, definitions, a[2], Positive))

\* An inverse role swaps the arguments of an assertion.
AssertionRole(a) == IF a[2][2] THEN <<InverseOf(a[2]), a[4], a[3]>> ELSE <<a[2], a[3], a[4]>>

NamedObjectAssertion(E, a) ==
    LET f == AssertionRole(a)
        negated == a[1] = "NegativeObjectPropertyAssertion"
    IN  IF ~E.objectRoles \/ (negated /\ {f[2], f[3]} \cap E.anonymous # {}) THEN Deferred
        ELSE {<<IF negated THEN "negatedObjectFact" ELSE "objectFact", f[1], f[2], f[3]>>}

NamedDataAssertion(E, a) ==
    LET negated == a[1] = "NegativeDataPropertyAssertion"
    IN  IF ~E.dataRoles \/ a[4] \notin E.literals \/ (negated /\ a[3] \in E.anonymous) THEN Deferred
        ELSE {<<IF negated THEN "negatedDataFact" ELSE "dataFact", a[2], a[3], a[4]>>}

\* The arms of the root loop.
CompileClassRoot(E, definitions, a) ==
    CASE a[1] = "SubClassOf" -> NamedSubclass(E, definitions, a)
      [] a[1] = "EquivalentClasses" -> NamedEquivalentClasses(E, definitions, a)
      [] a[1] = "DisjointClasses" -> NamedDisjointClasses(E, definitions, a)
      [] a[1] = "DisjointUnion" -> NamedDisjointUnion(E, definitions, a)

CompilePropertyRoot(E, definitions, dataDefinitions, a) ==
    CASE a[1] \in {"ObjectPropertyDomain", "ObjectPropertyRange"} -> NamedObjectConstraint(E, definitions, a)
      [] a[1] = "DataPropertyDomain" -> NamedDataDomain(E, definitions, a)
      [] a[1] = "DataPropertyRange" -> NamedDataRange(E, dataDefinitions, a)
      [] OTHER -> NamedObjectCharacteristic(E, a)

CompileDefinitionRoot(E, definitions, a) ==
    CASE a[1] = "DatatypeDefinition" -> NamedDatatypeDefinition(a)
      [] a[1] = "HasKey" -> NamedKey(E, definitions, a)
      [] a[1] = "FunctionalDataProperty" -> NamedDataFunctionality(E, a)

CompileIndividualRoot(E, definitions, a) ==
    CASE a[1] = "SameIndividual" -> NamedSameIndividuals(E, a)
      [] a[1] = "DifferentIndividuals" -> NamedDifferentIndividuals(E, a)
      [] a[1] = "ClassAssertion" -> NamedClassAssertion(E, definitions, a)

CompileRoot(E, definitions, dataDefinitions, a) ==
    CASE a[1] \in {"SubClassOf", "EquivalentClasses", "DisjointClasses", "DisjointUnion"} ->
            CompileClassRoot(E, definitions, a)
      [] a[1] \in {"DatatypeDefinition", "HasKey", "FunctionalDataProperty"} ->
            CompileDefinitionRoot(E, definitions, a)
      [] a[1] \in {"SameIndividual", "DifferentIndividuals", "ClassAssertion"} ->
            CompileIndividualRoot(E, definitions, a)
      [] a[1] \in {"ObjectPropertyAssertion", "NegativeObjectPropertyAssertion"} ->
            NamedObjectAssertion(E, a)
      [] a[1] \in {"DataPropertyAssertion", "NegativeDataPropertyAssertion"} ->
            NamedDataAssertion(E, a)
      [] OTHER -> CompilePropertyRoot(E, definitions, dataDefinitions, a)

-----------------------------------------------------------------------------
(***************************************************************************)
(* emit_class_boolean_definitions and emit_data_boolean_definitions: the   *)
(* direction of a definition its polarity asks for, once for every axiom   *)
(* that asked.                                                             *)
(***************************************************************************)
OperandLiteral(o) == IF o[1] = "nominal" THEN <<OneOf(o[2]), o[3]>> ELSE <<o[2], o[3]>>

EmitSelf(gen, polarity, r) ==
    {ObjectRow(IF polarity = Positive THEN "SelfConsequent" ELSE "SelfAntecedent", r, gen, None, 0)}

\* An antecedent universal is an existential over the complement.
EmitObjectQuantifier(gen, polarity, kind, r, filler) ==
    IF kind = "some"
    THEN {ObjectRow(IF polarity = Positive THEN "ExistentialConsequent" ELSE "ExistentialAntecedent",
                    r, gen, filler, 0)}
    ELSE IF polarity = Positive THEN {ObjectRow("UniversalConsequent", r, gen, filler, 0)}
    ELSE {ObjectRow("UniversalAntecedent", r, gen, <<filler[1], ~filler[2]>>, 0)}

CardinalityKind(kind, polarity) ==
    IF kind \in {"min", "dmin"}
    THEN IF polarity = Positive THEN "MinimumConsequent" ELSE "MinimumAntecedent"
    ELSE IF polarity = Positive THEN "MaximumConsequent" ELSE "MaximumAntecedent"

EmitObjectCardinality(gen, polarity, kind, n, r, filler) ==
    {ObjectRow(CardinalityKind(kind, polarity), r, gen, filler, n)}

EmitDataQuantifier(gen, polarity, kind, d, range) ==
    IF kind = "dsome"
    THEN {DataRow(IF polarity = Positive THEN "ExistentialConsequent" ELSE "ExistentialAntecedent",
                  d, gen, range, 0)}
    ELSE IF polarity = Positive THEN {DataRow("UniversalConsequent", d, gen, range, 0)}
    ELSE {DataRow("UniversalAntecedent", d, gen, <<range[1], ~range[2]>>, 0)}

EmitDataCardinality(gen, polarity, kind, n, d, range) ==
    {DataRow(CardinalityKind(kind, polarity), d, gen, range, n)}

EmitComplement(gen, polarity, operand) ==
    {IF polarity = Positive THEN Edge(gen, operand) ELSE Edge(operand, gen)}

EmitBoolean(gen, polarity, kind, operands) ==
    CASE kind = "and" /\ polarity = Positive -> {Edge(gen, l) : l \in operands}
      [] kind = "or" /\ polarity = Negative -> {Edge(l, gen) : l \in operands}
      [] kind = "or" /\ polarity = Positive -> {<<"boolean", {gen}, operands>>}
      [] kind = "and" /\ polarity = Negative -> {<<"boolean", operands, {gen}>>}

EmitDefinition(d) ==
    LET gen == <<GeneratedClass(d.key, d.polarity), FALSE>>
        b == d.body
        p == d.polarity
    IN  CASE b[1] = "self" -> EmitSelf(gen, p, b[2])
          [] b[1] = "not" -> EmitComplement(gen, p, OperandLiteral(b[2]))
          [] b[1] \in {"some", "all"} -> EmitObjectQuantifier(gen, p, b[1], b[2], OperandLiteral(b[3]))
          [] b[1] \in {"min", "max"} -> EmitObjectCardinality(gen, p, b[1], b[2], b[3], OperandLiteral(b[4]))
          [] b[1] \in {"dsome", "dall"} -> EmitDataQuantifier(gen, p, b[1], b[2], b[3])
          [] b[1] \in {"dmin", "dmax"} -> EmitDataCardinality(gen, p, b[1], b[2], b[3], b[4])
          [] OTHER -> EmitBoolean(gen, p, b[1], {OperandLiteral(o) : o \in b[2]})

EmitDataDefinition(d) ==
    LET gen == <<GeneratedRange(d.key, d.polarity), FALSE>>
        clause(body, head) == <<"dboolean", body, head>>
    IN  CASE d.body[1] = "dand" /\ d.polarity = Positive -> {clause({gen}, {l}) : l \in d.body[2]}
          [] d.body[1] = "dor" /\ d.polarity = Negative -> {clause({l}, {gen}) : l \in d.body[2]}
          [] d.body[1] = "dor" /\ d.polarity = Positive -> {clause({gen}, d.body[2])}
          [] d.body[1] = "dand" /\ d.polarity = Negative -> {clause(d.body[2], {gen})}

\* Raw rows are <<row, axiom, generated>>.
EmitDefinitions(definitions) ==
    UNION {EmitDefinition(m.definition) \X m.provenance \X {TRUE} : m \in definitions}
EmitDataDefinitions(definitions) ==
    UNION {EmitDataDefinition(m.definition) \X m.provenance \X {TRUE} : m \in definitions}

-----------------------------------------------------------------------------
(***************************************************************************)
(* The published symbols of a slice.  A class constructor that reduces to  *)
(* a built-in class is not descended into, so what only occurs below it is *)
(* published only if it is declared.                                       *)
(***************************************************************************)
DisplaysBuiltin(s) == s # None /\ (HasDisplay(s, Thing) \/ HasDisplay(s, Nothing))
IsBuiltinSelection(E, C) == C[1] \notin {"class", "oneOf"} /\ DisplaysBuiltin(ClassSelection(E, C))

RECURSIVE RangeReachable(_)
RangeReachable(D) ==
    LET s == RangeSelection(D)
    IN  CASE D[1] \in {"datatype", "dataOneOf"} -> {D}
          [] D[1] = "dnot" -> RangeReachable(D[2])
          [] OTHER -> IF s # None THEN RangeReachable(s[2])
                      ELSE UNION {RangeReachable(F) : F \in D[2]}

RECURSIVE ClassReachable(_, _)
ClassReachable(E, C) ==
    IF IsBuiltinSelection(E, C) THEN {}
    ELSE CASE C[1] \in {"class", "oneOf"} -> {C}
           [] C[1] = "not" -> ClassReachable(E, C[2])
           [] C[1] \in {"and", "or"} -> UNION {ClassReachable(E, F) : F \in C[2]}
           [] C[1] = "value" -> {OneOf({C[3]})}
           [] C[1] = "dvalue" -> {<<"dataOneOf", {C[3]}>>}
           [] C[1] \in {"some", "all"} -> ClassReachable(E, C[3])
           [] C[1] \in {"min", "max", "exact"} -> ClassReachable(E, C[4])
           [] C[1] \in {"dsome", "dall"} -> RangeReachable(C[3])
           [] C[1] \in {"dmin", "dmax", "dexact"} -> RangeReachable(C[4])
           [] OTHER -> {}

\* The class and range members of an axiom, and the individuals it names.
ClassMembers(a) ==
    CASE a[1] = "SubClassOf" -> {a[2], a[3]}
      [] a[1] \in {"EquivalentClasses", "DisjointClasses"} -> SeqSet(a[2])
      [] a[1] = "DisjointUnion" -> {a[2]} \cup SeqSet(a[3])
      [] a[1] \in {"ObjectPropertyDomain", "ObjectPropertyRange", "DataPropertyDomain"} -> {a[3]}
      [] a[1] \in {"HasKey", "ClassAssertion"} -> {a[2]}
      [] OTHER -> {}
RangeMembers(a) ==
    CASE a[1] = "DataPropertyRange" -> {a[3]}
      [] a[1] = "DatatypeDefinition" -> {a[2], a[3]}
      [] OTHER -> {}
IndividualMembers(a) ==
    CASE a[1] \in {"SameIndividual", "DifferentIndividuals"} -> SeqSet(a[2])
      [] a[1] = "ClassAssertion" -> {a[3]}
      [] a[1] \in {"ObjectPropertyAssertion", "NegativeObjectPropertyAssertion"} -> {a[3], a[4]}
      [] a[1] \in {"DataPropertyAssertion", "NegativeDataPropertyAssertion"} -> {a[3]}
      [] OTHER -> {}

\* normalized_reachability: the leaves reachable from the semantic roots.
Reachable(E, axioms) ==
    UNION {UNION {ClassReachable(E, C) : C \in ClassMembers(a)}
           \cup UNION {RangeReachable(D) : D \in RangeMembers(a)} : a \in axioms}

\* The class entities and datatypes phase_entity_domain publishes.
PublishedClasses(E, reachable) ==
    {Thing, Nothing} \cup {C \in reachable : C[1] = "class"}
    \cup {Class(A) : A \in E.declared \cap E.classNames}
PublishedDatatypes(reachable) == {TopRange} \cup {D \in reachable : D[1] = "datatype"}

-----------------------------------------------------------------------------
(***************************************************************************)
(* The symbol domains: every row refers into them by position.             *)
(***************************************************************************)
\* push_atomic_class_selection: a nominal's base, and the symbol of a negative
\* selection.
SelectionSymbols(s) ==
    (IF s[2][1] = "oneOf" THEN {s[2]} ELSE {}) \cup (IF s[4] THEN {<<"complement", s[2]>>} ELSE {})

MemberSymbols(E, members) ==
    UNION {SelectionSymbols(ClassSelection(E, C)) : C \in {F \in members : IsSelected(E, F)}}

\* The members whose symbols each kind of root publishes.
SignatureOfAssertion(a) == {a[2]}

SignatureOfSubclass(E, definitions, a) ==
    IF /\ ClassLiteral(E, definitions, a[2], Negative) # None
       /\ ClassLiteral(E, definitions, a[3], Positive) # None
       /\ ~TrivialPair(E, a[2], a[3])
    THEN {a[2], a[3]} ELSE {}

SignatureOfEquivalent(E, definitions, a) ==
    IF \E p \in {Negative, Positive} : Missing(Literals(E, definitions, a[2], p)) THEN {} ELSE SeqSet(a[2])

DisjointMembers(a, literals) == IF Missing(literals) \/ LiveLiterals(literals) < 2 THEN {} ELSE SeqSet(a[2])
SignatureOfDisjoint(E, definitions, a) == DisjointMembers(a, Literals(E, definitions, a[2], Negative))

\* The members are read in order up to the first without a literal.
MembersRead(a, literals) ==
    {a[3][i] : i \in {k \in DOMAIN a[3] : \A j \in 1..k : literals[j] # None}}
SignatureOfDisjointUnion(E, definitions, a) ==
    IF IsSelected(E, a[2]) /\ (UnionReduces(E, a) \/ DefinitionForRoot(definitions, a) # {})
    THEN {a[2]} \cup MembersRead(a, Literals(E, definitions, a[3], Negative)) ELSE {}

SignatureOfConstraint(E, a) ==
    IF (IF a[1] = "DataPropertyDomain" THEN E.dataRoles ELSE E.objectRoles) THEN {a[3]} ELSE {}

SignatureOfKey(E, a) == IF KeyRolesKept(E, a) THEN {a[2]} ELSE {}

SignatureMembers(E, definitions, a) ==
    CASE a[1] = "ClassAssertion" -> SignatureOfAssertion(a)
      [] a[1] = "SubClassOf" -> SignatureOfSubclass(E, definitions, a)
      [] a[1] = "EquivalentClasses" -> SignatureOfEquivalent(E, definitions, a)
      [] a[1] = "DisjointClasses" -> SignatureOfDisjoint(E, definitions, a)
      [] a[1] = "DisjointUnion" -> SignatureOfDisjointUnion(E, definitions, a)
      [] a[1] \in {"ObjectPropertyDomain", "ObjectPropertyRange", "DataPropertyDomain"} ->
            SignatureOfConstraint(E, a)
      [] a[1] = "HasKey" -> SignatureOfKey(E, a)
      [] OTHER -> {}
SignatureOf(E, definitions, a) == MemberSymbols(E, SignatureMembers(E, definitions, a))

\* The bases of nominal operands and the generated name of a definition.
DefinitionOperands(d) ==
    CASE d.body[1] \in {"and", "or"} -> d.body[2]
      [] d.body[1] = "not" -> {d.body[2]}
      [] d.body[1] \in {"some", "all"} -> {d.body[3]}
      [] d.body[1] \in {"min", "max"} -> {d.body[4]}
      [] OTHER -> {}
DefinitionSymbols(d) ==
    {GeneratedClass(d.key, d.polarity)}
    \cup {OneOf(o[2]) : o \in {p \in DefinitionOperands(d) : p[1] = "nominal"}}

\* class_signature
ClassDomain(E, axioms, definitions, reachable) ==
    PublishedClasses(E, reachable) \cup UNION {SignatureOf(E, definitions, a) : a \in axioms}
    \cup UNION {DefinitionSymbols(m.definition) : m \in definitions}

\* The ranges a class definition's data filler mentions.
DefinitionRanges(d) ==
    CASE d.body[1] \in {"dsome", "dall"} -> {d.body[3][1]}
      [] d.body[1] \in {"dmin", "dmax"} -> {d.body[4][1]}
      [] OTHER -> {}

\* The selected bases of the range axioms, and the operands of flat datatype
\* definitions.
RangeSymbols(E, a) ==
    LET D == a[3]
        s == RangeSelection(D)
    IN  IF a[1] \notin {"DataPropertyRange", "DatatypeDefinition"} \/ (a[1] = "DataPropertyRange" /\ ~E.dataRoles)
        THEN {}
        ELSE IF s # None THEN {s[2]}
        ELSE IF a[1] = "DatatypeDefinition" /\ DatatypeIsBoolean(D)
        THEN UNION {{l[1] : l \in DatatypeBody(D, p)[2]} : p \in {Positive, Negative}}
        ELSE {}

\* data_range_domain
RangeDomain(E, axioms, definitions, dataDefinitions, reachable) ==
    PublishedDatatypes(reachable) \cup UNION {RangeSymbols(E, a) : a \in axioms}
    \cup UNION {DefinitionRanges(m.definition) : m \in definitions}
    \cup UNION {{GeneratedRange(m.definition.key, m.definition.polarity)}
                \cup {l[1] : l \in m.definition.body[2]} : m \in dataDefinitions}

\* individual_signature: the published individuals, and the anonymous ones of
\* the assertions that are compiled.
IndividualDomain(E, axioms, reachable) ==
    LET nominals == UNION {N[2] : N \in {C \in reachable : C[1] = "oneOf"}}
        named == UNION {IndividualMembers(a) : a \in axioms} \ E.anonymous
        asserted(a) == CASE a[1] = "ClassAssertion" -> TRUE
                         [] a[1] = "ObjectPropertyAssertion" -> E.objectRoles
                         [] a[1] = "DataPropertyAssertion" -> E.dataRoles
                         [] OTHER -> FALSE
    IN  (nominals \ E.anonymous) \cup named
        \cup UNION {IndividualMembers(a) : a \in {b \in axioms : asserted(b)}}

\* nominal_bindings: the individuals of every nominal of the class domain.
NominalBindings(classDomain) == {N \in classDomain : N[1] = "oneOf"}

-----------------------------------------------------------------------------
(***************************************************************************)
(* normalize_*: equal rows become one, with every axiom that asked for it. *)
(***************************************************************************)
Normalized(raw, tag) ==
    LET of == {r \in raw : r[1][1] = tag}
    IN  {[row |-> x, provenance |-> {r[2] : r \in {s \in of : s[1] = x}},
          generated |-> \E r \in of : r[1] = x /\ r[3]] : x \in {r[1] : r \in of}}

NormalizeEdges(raw) == Normalized(raw, "edge")
NormalizeBooleanClauses(raw) == Normalized(raw, "boolean")
NormalizeDataBooleanClauses(raw) == Normalized(raw, "dboolean")
NormalizeDisjoints(raw) == Normalized(raw, "disjoint")
NormalizeFacts(raw) == Normalized(raw, "fact")
NormalizeObjectConstraints(raw) == Normalized(raw, "object")
NormalizeDataConstraints(raw) == Normalized(raw, "data")
NormalizeObjectCharacteristics(raw) == Normalized(raw, "characteristic")
NormalizeDataDomains(raw) == Normalized(raw, "dataDomain")
NormalizeDataRanges(raw) == Normalized(raw, "dataRange")
NormalizeDatatypeDefinitions(raw) == Normalized(raw, "datatype")
NormalizeKeys(raw) == Normalized(raw, "key")
NormalizeDataFunctionalities(raw) == Normalized(raw, "functionality")
NormalizeObjectFacts(raw) == Normalized(raw, "objectFact") \cup Normalized(raw, "negatedObjectFact")
NormalizeDataFacts(raw) == Normalized(raw, "dataFact") \cup Normalized(raw, "negatedDataFact")
NormalizeEqualities(raw) == Normalized(raw, "equality")
NormalizeInequalities(raw) == Normalized(raw, "inequality")

NormalizeRows(raw) ==
    NormalizeEdges(raw) \cup NormalizeBooleanClauses(raw) \cup NormalizeDataBooleanClauses(raw)
    \cup NormalizeDisjoints(raw) \cup NormalizeFacts(raw) \cup NormalizeObjectConstraints(raw)
    \cup NormalizeDataConstraints(raw) \cup NormalizeObjectCharacteristics(raw)
    \cup NormalizeDataDomains(raw) \cup NormalizeDataRanges(raw) \cup NormalizeDatatypeDefinitions(raw)
    \cup NormalizeKeys(raw) \cup NormalizeDataFunctionalities(raw) \cup NormalizeObjectFacts(raw)
    \cup NormalizeDataFacts(raw) \cup NormalizeEqualities(raw) \cup NormalizeInequalities(raw)

-----------------------------------------------------------------------------
(***************************************************************************)
(* The phase of one slice.                                                 *)
(***************************************************************************)
\* source_datatype_definition_pairs: a datatype has one defining range.
DatatypeUnsupported(a) ==
    a[1] = "DatatypeDefinition" /\ ~DatatypeIsBoolean(a[3]) /\ RangeSelection(a[3]) = None
DefiningRange(D) ==
    IF ~DatatypeIsBoolean(D) THEN RangeSelection(D)
    ELSE IF FlatDataBoolean(D) # None THEN FlatDataBoolean(D) ELSE DataTerm(D, FALSE)
DatatypePairs(axioms) ==
    {<<a[2], DefiningRange(a[3])>> : a \in {b \in axioms : b[1] = "DatatypeDefinition"}}
Conflicting(pairs) == \E p, q \in pairs : p[1] = q[1] /\ p[2] # q[2]

FailedPhase == [failed |-> TRUE, rows |-> {}, compiled |-> {}, deferred |-> {},
                classes |-> {}, ranges |-> {}, individuals |-> {}, pairs |-> {}]

\* The rows of the roots (a function on the axioms) with those of the definitions.
PhaseRows(definitions, dataDefinitions, rows, deferred) ==
    NormalizeRows(EmitDefinitions(definitions) \cup EmitDataDefinitions(dataDefinitions)
                  \cup UNION {rows[a] \X {a} \X {FALSE} : a \in DOMAIN rows \ deferred})

PhaseFrom(E, axioms, definitions, dataDefinitions, reachable, rows) ==
    LET deferred == {a \in axioms : rows[a] = Deferred}
    IN  [failed |-> FALSE, rows |-> PhaseRows(definitions, dataDefinitions, rows, deferred),
         compiled |-> axioms \ deferred, deferred |-> deferred,
         classes |-> ClassDomain(E, axioms, definitions, reachable),
         ranges |-> RangeDomain(E, axioms, definitions, dataDefinitions, reachable),
         individuals |-> IndividualDomain(E, axioms, reachable), pairs |-> DatatypePairs(axioms)]

CompileRoots(E, axioms, definitions, dataDefinitions) ==
    PhaseFrom(E, axioms, definitions, dataDefinitions, Reachable(E, axioms),
              [a \in axioms |-> CompileRoot(E, definitions, dataDefinitions, a)])

CompileWith(E, axioms, definitions) ==
    CompileRoots(E, axioms, definitions, MergeDataDefinitions(DataDefinitionsOf(E, axioms, definitions)))

CompileAsked(E, axioms, asked) ==
    IF \/ Disagree({p[1] : p \in asked})
       \/ \E a \in axioms : DatatypeUnsupported(a)
       \/ Conflicting(DatatypePairs(axioms))
    THEN FailedPhase
    ELSE CompileWith(E, axioms, MergeDefinitions(asked))

CompilePhase(E, axioms) == CompileAsked(E, axioms, ClassDefinitionsOf(E, axioms))

=============================================================================
