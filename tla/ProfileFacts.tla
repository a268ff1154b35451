---------------------------- MODULE ProfileFacts ----------------------------
(***************************************************************************)
(* The facts the native OWL 2 DL profile phase retains from the roots of   *)
(* one encoded slice (encoded/profile.rs).  A slice alone proves nothing:  *)
(* entities, anonymous individuals, datatypes and roles are facts until    *)
(* every slice is merged; the rules that need one axiom only are issues at *)
(* once.                                                                   *)
(*                                                                         *)
(* A root is a record with a `kind' and a `source' (its canonical key, and *)
(* the digest of it, with annotations); the object-role axioms are those   *)
(* of RoleInclusions, every other root has its `fields', a sequence of     *)
(* nodes.  A node is [tag, sort, key, kids]; sort is an entity kind, the   *)
(* lexical class of a literal or the facet of a facet.                     *)
(***************************************************************************)
EXTENDS RoleInclusions

LOCAL INSTANCE SequencesExt

Node(tag, sort, key, kids) == [tag |-> tag, sort |-> sort, key |-> key, kids |-> kids]

Entity(kind, iri) == Node("entity", kind, iri, <<>>)

RoleNode(e) ==
  IF e.inverse THEN Node("inverseOf", "", 0, <<Entity("objectProperty", e.property)>>)
  ELSE Entity("objectProperty", e.property)

Characteristics == {"symmetric", "transitive", "functional", "inverseFunctional",
                    "irreflexive", "asymmetric"}

Fields(root) ==
  CASE root.kind = "subObject" -> {RoleNode(e) : e \in {root.super} \cup Keys(root.chain)}
    [] root.kind \in {"equivalentObject", "disjointObject"} -> {RoleNode(e) : e \in root.members}
    [] root.kind = "inverseObject" -> {RoleNode(root.first), RoleNode(root.second)}
    [] root.kind \in Characteristics -> {RoleNode(root.first)}
    [] OTHER -> Keys(root.fields)

\* The traversal of enqueue_node and enqueue_component, one node once.
RECURSIVE Below(_)
Below(node) == {node} \cup UNION {Below(kid) : kid \in Keys(node.kids)}

Nodes(root) == UNION {Below(field) : field \in Fields(root)}

Tagged(nodes, tags) == {n \in nodes : n.tag \in tags}

Issue(rule, severity, constructor, iri, provenance) ==
  [rule |-> rule, severity |-> severity, constructor |-> constructor, iri |-> iri,
   provenance |-> provenance, documents |-> {}]

Error(rule, constructor, provenance) == Issue(rule, "error", constructor, 0, provenance)

\* Equal issues are raised once for every place that raises them; a phase drops
\* the copies only when it is finished.
At(issue, place) == <<issue, place>>

IssuesOf(raised) == {r[1] : r \in raised}

-----------------------------------------------------------------------------
\* Vocabulary.  IRIs are numbers; those from 45 on lie in a reserved namespace.

ReservedIri(iri) == iri \in 45..69

TopDataIri == 52

BuiltinEntityKind(iri) ==
  CASE iri \in {TopKey, BottomKey} -> "objectProperty"
    [] iri \in {TopDataIri, 51} -> "dataProperty"
    [] iri = 53 -> "class"
    [] iri \in 54..69 -> "datatype"
    [] OTHER -> "none"

ProfileEntityIdentity(node) == [kind |-> node.sort, iri |-> node.key]

IsTopDataProperty(node) == node.sort = "dataProperty" /\ node.key = TopDataIri

-----------------------------------------------------------------------------
\* Roles.  The inverse of a built-in is the built-in.

ProfileObjectRole(e) ==
  [iri |-> e.property, inverse |-> e.inverse /\ e.property \notin Builtins]

InverseProfileObjectRole(role) ==
  IF role.iri \in Builtins THEN role ELSE [role EXCEPT !.inverse = ~@]

\* Mutant: the inverse inclusion is not added.
SimpleInclusionAlone(sub, sup) == {[sub |-> sub, super |-> sup]}

AddProfileSimpleInclusion(sub, sup) ==
  {[sub |-> sub, super |-> sup],
   [sub |-> InverseProfileObjectRole(sub), super |-> InverseProfileObjectRole(sup)]}

AddNonSimpleRoleSeedPair(role) == {role, InverseProfileObjectRole(role)}

AddProfileComplexRoleInclusionPair(chain, super, source) ==
  LET inverseChain == Reverse([i \in DOMAIN chain |-> InverseProfileObjectRole(chain[i])])
      inverseSuper == InverseProfileObjectRole(super)
      written      == [super |-> super, chain |-> chain, generated |-> FALSE, source |-> source]
  IN  IF inverseChain = chain /\ inverseSuper = super THEN {written}
      ELSE {written, [super |-> inverseSuper, chain |-> inverseChain, generated |-> TRUE,
                      source |-> source]}

SameProfileComplexRoleSemantics(x, y) ==
  x.super = y.super /\ x.chain = y.chain /\ x.generated = y.generated

\* Of the same inclusion written twice, the greatest statement key is retained.
CanonicalizeComplexRoleInclusions(values) ==
  {x \in values : \A y \in values : SameProfileComplexRoleSemantics(x, y) => y.source <= x.source}

NoRoleFacts == [inclusions |-> {}, complex |-> {}, seeds |-> {}]

SubObjectPropertyFacts(root) ==
  LET super == ProfileObjectRole(root.super)
      chain == [i \in DOMAIN root.chain |-> ProfileObjectRole(root.chain[i])]
  IN  IF Len(chain) = 1
      THEN [NoRoleFacts EXCEPT !.inclusions = AddProfileSimpleInclusion(chain[1], super)]
      ELSE [NoRoleFacts EXCEPT
              !.complex = AddProfileComplexRoleInclusionPair(chain, super, root.source),
              !.seeds   = AddNonSimpleRoleSeedPair(super)]

\* Two roles included in each other.
MutualInclusions(a, b) == AddProfileSimpleInclusion(a, b) \cup AddProfileSimpleInclusion(b, a)

EquivalentObjectPropertiesFacts(root) ==
  LET roles == [i \in DOMAIN Members(root) |-> ProfileObjectRole(Members(root)[i])]
  IN  [NoRoleFacts EXCEPT !.inclusions =
         UNION {MutualInclusions(roles[1], roles[i]) : i \in 2..Len(roles)}]

InverseObjectPropertiesFacts(root) ==
  [NoRoleFacts EXCEPT !.inclusions =
     MutualInclusions(ProfileObjectRole(root.first),
                      InverseProfileObjectRole(ProfileObjectRole(root.second)))]

SymmetricObjectPropertyFacts(root) ==
  LET role == ProfileObjectRole(root.first)
  IN  [NoRoleFacts EXCEPT !.inclusions = MutualInclusions(role, InverseProfileObjectRole(role))]

TransitiveObjectPropertyFacts(root) ==
  LET role == ProfileObjectRole(root.first)
  IN  [NoRoleFacts EXCEPT
         !.complex = AddProfileComplexRoleInclusionPair(<<role, role>>, role, root.source),
         !.seeds   = AddNonSimpleRoleSeedPair(role)]

ProfileRoleAxiomFacts(root) ==
  CASE root.kind = "subObject"        -> SubObjectPropertyFacts(root)
    [] root.kind = "equivalentObject" -> EquivalentObjectPropertiesFacts(root)
    [] root.kind = "inverseObject"    -> InverseObjectPropertiesFacts(root)
    [] root.kind = "symmetric"        -> SymmetricObjectPropertyFacts(root)
    [] root.kind = "transitive"       -> TransitiveObjectPropertyFacts(root)
    [] OTHER                          -> NoRoleFacts

\* The role of an object-self restriction or of a cardinality.
RestrictedRole(node) ==
  LET role == node.kids[1]
  IN  IF role.tag = "inverseOf"
      THEN ProfileObjectRole(InverseOf(role.kids[1].key)) ELSE ProfileObjectRole(Named(role.key))

SimpleRoleRequirements(root) ==
  LET axiomRoles == CASE root.kind \in {"functional", "inverseFunctional", "irreflexive", "asymmetric"} ->
                           {ProfileObjectRole(root.first)}
                      [] root.kind = "disjointObject" -> {ProfileObjectRole(e) : e \in root.members}
                      [] OTHER -> {}
      nodeRoles  == {RestrictedRole(n) : n \in Tagged(Nodes(root), {"hasSelf", "cardinality"})}
  IN  {[role |-> r, constructor |-> root.kind, provenance |-> root.source]
         : r \in axiomRoles \cup nodeRoles}

-----------------------------------------------------------------------------
(***************************************************************************)
(* Datatypes in the profile phase: literals, data ranges and facets as     *)
(* facts of a slice, and the datatype pass over the merged facts           *)
(* (encoded/profile.rs, and profile_literal_validation of                  *)
(* encoded/named_classes.rs).  "" stands for no failure.                   *)
(***************************************************************************)
\* One supported datatype of every facet family.
Families == [d \in 54..62 |->
               <<"numeric", "string", "binary", "float", "none", "plain", "dateTime",
                 "double", "uri">>[d - 53]]

IsSupportedProfileDatatype(iri) == iri \in DOMAIN Families

IsProfileNumericDatatype(iri) == Families[iri] = "numeric"

IsProfileStringDatatype(iri) == Families[iri] \in {"string", "plain"}

\* The lexical class of a literal of a supported datatype is its sort.  A
\* literal whose datatype has no lexical form of its own is always invalid.
ProfileLiteralValidation(datatype, sort) ==
  IF ~IsSupportedProfileDatatype(datatype) THEN [result |-> "unsupportedLiteral", meaning |-> ""]
  ELSE IF sort = "malformed" \/ Families[datatype] = "none"
       THEN [result |-> "invalidLiteral", meaning |-> ""]
  ELSE [result  |-> "",
        meaning |-> CASE IsProfileNumericDatatype(datatype) ->
                           IF sort = "natural" THEN "natural" ELSE "numeric"
                      [] Families[datatype] = "float"       -> "ieee32"
                      [] Families[datatype] = "double"      -> "ieee64"
                      [] Families[datatype] = "dateTime"    -> "dateTime"
                      [] IsProfileStringDatatype(datatype)  -> sort
                      [] OTHER                              -> "other"]

ClassifyProfileLiteral(literal) == ProfileLiteralValidation(literal.kids[1].key, literal.sort)

ProfileLiteralFailure(literal) == ClassifyProfileLiteral(literal).result

RetainProfileLiteral(literal) ==
  [key |-> literal.key, datatype |-> literal.kids[1].key, failure |-> ProfileLiteralFailure(literal)]

-----------------------------------------------------------------------------
\* Facets.

BoundFacets == {"minInclusive", "minExclusive", "maxInclusive", "maxExclusive"}

LengthFacets == {"length", "minLength", "maxLength"}

ValidLanguageRange(meaning) == meaning # "badRange"

CompilesAsPattern(meaning) == meaning # "badPattern"

\* An untagged text; a malformed pattern ends the diagnosis without an issue.
ProfileTextFacetFailure(facet, meaning) ==
  IF facet \in LengthFacets THEN IF meaning = "natural" THEN "" ELSE "invalidFacetValue"
  ELSE IF meaning \notin {"text", "badPattern", "badRange"} THEN "invalidFacetValue"
  ELSE IF facet = "langRange"
       THEN IF ValidLanguageRange(meaning) THEN "" ELSE "invalidLanguageRange"
  ELSE IF CompilesAsPattern(meaning) THEN "" ELSE "suppressed"

BoundFacetFailure(facet, meaning, meanings) ==
  IF facet \notin BoundFacets THEN "illegalFacet"
  ELSE IF meaning \in meanings THEN "" ELSE "invalidFacetValue"

ProfileFacetFailure(datatype, facet, meaning) ==
  LET family == Families[datatype]
  IN  CASE family = "numeric"  -> BoundFacetFailure(facet, meaning, {"numeric", "natural"})
        [] family = "float"    -> BoundFacetFailure(facet, meaning, {"ieee32"})
        [] family = "double"   -> BoundFacetFailure(facet, meaning, {"ieee64"})
        [] family = "dateTime" -> BoundFacetFailure(facet, meaning, {"dateTime"})
        [] family = "binary"   -> IF facet \notin LengthFacets THEN "illegalFacet"
                                  ELSE IF meaning = "natural" THEN "" ELSE "invalidFacetValue"
        [] IsProfileStringDatatype(datatype) ->
             IF \/ facet \in LengthFacets \cup {"pattern"}
                \/ facet = "langRange" /\ family = "plain"
             THEN ProfileTextFacetFailure(facet, meaning) ELSE "illegalFacet"
        [] family = "uri"      -> IF facet \in LengthFacets \cup {"pattern"}
                                  THEN ProfileTextFacetFailure(facet, meaning) ELSE "illegalFacet"
        [] OTHER               -> "illegalFacet"

FirstFailure(failures) ==
  LET found == {i \in DOMAIN failures : failures[i] # ""}
  IN  IF found = {} THEN "" ELSE failures[Min(found)]

\* Every facet's literal is classified before the first facet is judged.
ProfileDatatypeRestrictionFailure(range) ==
  LET datatype == range.kids[1].key
      facets   == Tail(range.kids)
      literals == FirstFailure([i \in DOMAIN facets |-> ProfileLiteralFailure(facets[i].kids[1])])
  IN  IF ~IsSupportedProfileDatatype(datatype) THEN "unsupportedRange"
      ELSE IF literals # "" THEN literals
      ELSE FirstFailure([i \in DOMAIN facets |->
             ProfileFacetFailure(datatype, facets[i].sort,
                                 ClassifyProfileLiteral(facets[i].kids[1]).meaning)])

ComplexDataRanges == {"dataAnd", "dataOr", "dataNot", "dataOneOf", "restriction"}

RECURSIVE ProfileDataRangeFailure(_)
ProfileDataRangeFailure(range) ==
  CASE range.tag = "entity" -> ""
    [] range.tag \in {"dataAnd", "dataOr", "dataNot"} ->
         FirstFailure([i \in DOMAIN range.kids |-> ProfileDataRangeFailure(range.kids[i])])
    [] range.tag = "dataOneOf" ->
         FirstFailure([i \in DOMAIN range.kids |-> ProfileLiteralFailure(range.kids[i])])
    [] OTHER -> ProfileDatatypeRestrictionFailure(range)

RetainProfileDatatypeRangeFailure(range) ==
  IF ProfileDataRangeFailure(range) = "" THEN {}
  ELSE {[key |-> range.key, failure |-> ProfileDataRangeFailure(range)]}

-----------------------------------------------------------------------------
\* Definitions.

RECURSIVE CollectProfileDatatypeReferences(_)
CollectProfileDatatypeReferences(range) ==
  CASE range.tag = "entity" -> {range.key}
    [] range.tag \in {"dataAnd", "dataOr", "dataNot"} ->
         UNION {CollectProfileDatatypeReferences(kid) : kid \in Keys(range.kids)}
    [] range.tag = "restriction" -> {range.kids[1].key}
    [] OTHER -> {}

RetainProfileDatatypeDefinition(root) ==
  [statement  |-> root.source, head |-> root.fields[1].key,
   references |-> CollectProfileDatatypeReferences(root.fields[2]),
   failure    |-> ProfileDataRangeFailure(root.fields[2])]

\* The second statement of a head that has several; the least over the heads.
DuplicateStatement(definitions) ==
  LET of(head)  == {d.statement : d \in {e \in definitions : e.head = head}}
      seconds   == {Min(of(h) \ {Min(of(h))})
                      : h \in {d.head : d \in {e \in definitions : Cardinality(of(e.head)) > 1}}}
  IN  IF seconds = {} THEN 0 ELSE Min(seconds)

BuiltinStatement(definitions) ==
  LET found == {d.statement : d \in {e \in definitions : IsSupportedProfileDatatype(e.head)}}
  IN  IF found = {} THEN 0 ELSE Min(found)

DefinedDatatypes(definitions) == {d.head : d \in definitions}

Unsupported(iris, definitions) ==
  {i \in iris : ~IsSupportedProfileDatatype(i) /\ i \notin DefinedDatatypes(definitions)}

UnsupportedIris(uses, definitions) ==
  Unsupported({u.iri : u \in {v \in uses : v.kind = "datatype"}}, definitions)

\* Mutant: an opaque datatype is tolerated inside a definition too.
OpaqueDefinitionsTolerated(definitions) == FALSE

DefinitionsReferenceUnsupported(definitions) ==
  Unsupported(UNION {d.references : d \in definitions}, definitions) # {}

\* Kahn's algorithm over the defined heads: what is left lies on or behind a cycle.
RECURSIVE Unresolved(_, _)
Unresolved(definitions, heads) ==
  LET ready == {h \in heads : \A d \in definitions : d.head = h => d.references \cap heads = {}}
  IN  IF ready = {} THEN heads ELSE Unresolved(definitions, heads \ ready)

ProfileDatatypeDefinitionsHaveCycle(definitions) ==
  Unresolved(definitions, DefinedDatatypes(definitions)) # {}

ProfileDatatypeFailureIssue(failure) ==
  CASE failure = "invalidLiteral"      -> "INVALID_LITERAL"
    [] failure = "unsupportedLiteral"  -> "UNSUPPORTED_DATATYPE"
    [] failure = "unsupportedRange"    -> "UNSUPPORTED_DATATYPE"
    [] failure = "illegalFacet"        -> "ILLEGAL_DATATYPE_FACET"
    [] failure = "invalidFacetValue"   -> "INVALID_FACET_VALUE"
    [] failure = "invalidLanguageRange" -> "INVALID_FACET_VALUE"
    [] OTHER                           -> ""

\* Definitions by head, then ranges by canonical key.
FirstDatatypeFailure(definitions, rangeFailures) ==
  LET inHeadOrder == Sorted(definitions, LAMBDA a, b : a.head < b.head)
      inKeyOrder  == Sorted(rangeFailures, LAMBDA a, b : a.key < b.key)
  IN  FirstFailure([i \in DOMAIN inHeadOrder |-> inHeadOrder[i].failure]
                     \o [i \in DOMAIN inKeyOrder |-> inKeyOrder[i].failure])

\* At most one error about the data ranges, in the scalar validator's precedence.
SemanticError(facts, policy) ==
  LET definitions == facts.definitions
      builtin     == BuiltinStatement(definitions)
      duplicate   == DuplicateStatement(definitions)
      unsupported == IF policy = "error" THEN UnsupportedIris(facts.uses, definitions) # {}
                     ELSE DefinitionsReferenceUnsupported(definitions)
  IN  IF builtin # 0 /\ (duplicate = 0 \/ builtin < duplicate) THEN "BUILTIN_DATATYPE_REDEFINITION"
      ELSE IF duplicate # 0 THEN "DUPLICATE_DATATYPE_DEFINITION"
      ELSE IF unsupported THEN "UNSUPPORTED_DATATYPE"
      ELSE IF ProfileDatatypeDefinitionsHaveCycle(definitions) THEN "RECURSIVE_DATATYPE_DEFINITION"
      ELSE ProfileDatatypeFailureIssue(FirstDatatypeFailure(definitions, facts.rangeFailures))

OpaqueWarnings(facts, policy) ==
  IF policy = "error" THEN {}
  ELSE {At(Issue("UNSUPPORTED_DATATYPE_OPAQUE", "warning", "Datatype", iri, 0), 0)
          : iri \in UnsupportedIris(facts.uses, facts.definitions)}

LiteralIssue(literal, defined, policy) ==
  LET issue(rule, iri) == {At(Issue(rule, "error", "Literal", iri, 0), literal.key)}
  IN  IF literal.datatype \in defined THEN issue("CUSTOM_DATATYPE_LITERAL", literal.datatype)
      ELSE IF literal.failure = "invalidLiteral" THEN issue("INVALID_LITERAL", 0)
      ELSE IF literal.failure = "unsupportedLiteral" /\ policy = "error" THEN issue("UNSUPPORTED_DATATYPE", 0)
      ELSE {}

AppendDatatypeIssues(facts, policy) ==
  LET error == SemanticError(facts, policy)
  IN  OpaqueWarnings(facts, policy)
        \cup (IF error = "" THEN {} ELSE {At(Error(error, "DataRange", 0), 0)})
        \cup UNION {LiteralIssue(l, DefinedDatatypes(facts.definitions), policy) : l \in facts.literals}

=============================================================================
