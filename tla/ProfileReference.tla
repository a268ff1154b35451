-------------------------- MODULE ProfileReference --------------------------
(***************************************************************************)
(* What the OWL 2 DL profile asks of a set of roots, stated over the roots *)
(* themselves: no slices, no passes and no order.  The compiled profile is *)
(* compared with it.                                                       *)
(***************************************************************************)
EXTENDS ProfileRules, RoleReference

AllNodes(roots) == UNION {Nodes(r) : r \in roots}

AxiomRoots(roots) == {r \in roots : r.kind \notin {"ontologyAnnotation", "swrlRule"}}

-----------------------------------------------------------------------------
\* Anonymous individuals: a multigraph with one edge per assertion.

AnonymousVertices(roots) ==
  {n.key : n \in Tagged(AllNodes(AxiomRoots(roots)), {"anonymous"})}

AssertionRoots(roots) == OfKind(roots, "objectAssertion")

IsAnonymousEdge(r) == r.fields[2].tag = "anonymous" /\ r.fields[3].tag = "anonymous"

EdgeRoots(roots) == {r \in AssertionRoots(roots) : IsAnonymousEdge(r)}

Touched(r) == {r.fields[i].key : i \in {j \in {2, 3} : r.fields[j].tag = "anonymous"}}

NamedLinkCount(roots, v) ==
  Cardinality({r \in AssertionRoots(roots) \ EdgeRoots(roots) : v \in Touched(r)})

ConnectedPairs(roots) ==
  TransitivePairs({<<v, v>> : v \in AnonymousVertices(roots)}
                    \cup UNION {Touched(r) \X Touched(r) : r \in EdgeRoots(roots)})

ComponentsOf(roots) ==
  {{w \in AnonymousVertices(roots) : <<v, w>> \in ConnectedPairs(roots)}
     : v \in AnonymousVertices(roots)}

\* A forest: any assertions touch more vertices than there are assertions.
LegalForest(roots) ==
  /\ \A E \in SUBSET EdgeRoots(roots) :
       E # {} => Cardinality(UNION {Touched(r) : r \in E}) > Cardinality(E)
  /\ \A C \in ComponentsOf(roots) : \E v \in C : NamedLinkCount(roots, v) <= 1

-----------------------------------------------------------------------------
\* Entities, with every use of the ontology in view.

KindsOf(roots, iri) ==
  {n.sort : n \in {m \in Tagged(AllNodes(roots), {"entity"}) : m.key = iri}}

DeclaredIn(roots) == {<<r.fields[1].sort, r.fields[1].key>> : r \in OfKind(roots, "declaration")}

LegalEntities(roots) ==
  \A iri \in {n.key : n \in Tagged(AllNodes(roots), {"entity"})} :
    IF BuiltinEntityKind(iri) # "none" THEN KindsOf(roots, iri) = {BuiltinEntityKind(iri)}
    ELSE /\ ~ReservedIri(iri)
         /\ \A k \in KindsOf(roots, iri) \ {"namedIndividual"} : <<k, iri>> \in DeclaredIn(roots)
         /\ \A j, k \in KindsOf(roots, iri) \cap PropertyKinds : j = k
         /\ ~({"class", "datatype"} \subseteq KindsOf(roots, iri))

-----------------------------------------------------------------------------
\* Datatypes.

DefinitionRoots(roots) == OfKind(roots, "datatypeDefinition")

Heads(roots) == {r.fields[1].key : r \in DefinitionRoots(roots)}

\* The datatypes a range is made of, and the literals it lists or compares with.
RangeDatatypes(range) ==
  {n.key : n \in Tagged(Below(range) \ UNION {Below(l) : l \in Tagged(Below(range), {"literal"})},
                        {"entity"})}

\* A definition that depends on itself: a set of heads each of which needs one of them.
Circular(roots) ==
  \E H \in SUBSET Heads(roots) \ {{}} :
    \A h \in H : \E r \in DefinitionRoots(roots) :
      r.fields[1].key = h /\ RangeDatatypes(r.fields[2]) \cap H # {}

FacetAllowed == {<<"numeric", "minInclusive">>, <<"float", "minInclusive">>,
                 <<"double", "minInclusive">>, <<"dateTime", "minInclusive">>,
                 <<"string", "length">>, <<"plain", "length">>, <<"binary", "length">>, <<"uri", "length">>,
                 <<"string", "pattern">>, <<"plain", "pattern">>, <<"uri", "pattern">>,
                 <<"plain", "langRange">>}

\* The value space a facet's value is taken from.
FacetValue(family, facet) ==
  CASE facet = "minInclusive" -> {family}
    [] facet = "length"       -> {"numeric"}
    [] OTHER                  -> {"string", "plain"}

WellFormed(literal) ==
  /\ literal.kids[1].key \in DOMAIN Families
  /\ Families[literal.kids[1].key] # "none"
  /\ literal.sort # "malformed"

LegalFacet(family, facet) ==
  LET literal == facet.kids[1]
  IN  /\ <<family, facet.sort>> \in FacetAllowed
      /\ WellFormed(literal)
      /\ Families[literal.kids[1].key] \in FacetValue(family, facet.sort)
      /\ facet.sort = "length" => literal.sort = "natural"
      /\ facet.sort \in {"pattern", "langRange"} => literal.sort # "tagged"
      /\ facet.sort = "langRange" => literal.sort # "badRange"

LegalRange(range) ==
  /\ \A r \in Tagged(Below(range), {"restriction"}) :
       /\ r.kids[1].key \in DOMAIN Families
       /\ \A i \in 2..Len(r.kids) : LegalFacet(Families[r.kids[1].key], r.kids[i])
  /\ \A e \in Tagged(Below(range), {"dataOneOf"}) : \A l \in Keys(e.kids) : WellFormed(l)

UsedDatatypes(roots) ==
  {n.key : n \in {m \in Tagged(AllNodes(roots), {"entity"}) : m.sort = "datatype"}}

Opaque(roots) == UsedDatatypes(roots) \ (DOMAIN Families \cup Heads(roots))

\* An opaque datatype may be tolerated, yet not inside a definition.
LegalDatatypes(roots, policy) ==
  /\ \A h \in Heads(roots) :
       /\ h \notin DOMAIN Families
       /\ Cardinality({r \in DefinitionRoots(roots) : r.fields[1].key = h}) = 1
  /\ ~Circular(roots)
  /\ policy = "error" => Opaque(roots) = {}
  /\ \A r \in DefinitionRoots(roots) : RangeDatatypes(r.fields[2]) \cap Opaque(roots) = {}
  /\ \A n \in Tagged(AllNodes(roots), ComplexDataRanges) : LegalRange(n)
  /\ \A l \in Tagged(AllNodes(roots), {"literal"}) :
       l.kids[1].key \in DOMAIN Families => WellFormed(l)
  /\ \A l \in Tagged(AllNodes(roots), {"literal"}) : l.kids[1].key \notin Heads(roots)

\* A pattern that does not compile is not the profile's to report.
HasMalformedPattern(roots) ==
  \E n \in Tagged(AllNodes(roots), {"facet"}) : n.sort = "pattern" /\ n.kids[1].sort = "badPattern"

-----------------------------------------------------------------------------
\* Roles.

RoleKeyOfNode(n) ==
  IF n.tag = "inverseOf" THEN CounterpartKey(n.kids[1].key) ELSE n.key

SimpleUses(root) ==
  {RoleKeyOfNode(n.kids[1]) : n \in Tagged(Nodes(root), {"hasSelf", "cardinality"})}
    \cup (IF root.kind \in {"functional", "inverseFunctional", "irreflexive", "asymmetric", "disjointObject"}
          THEN {RoleKeyOfNode(n) : n \in Fields(root)} ELSE {})

LegalRoles(roots) ==
  /\ RegularHierarchy(roots)
  /\ \A r \in AxiomRoots(roots) : SimpleUses(r) \cap (Builtins \cup CompositeRoles(roots)) = {}

-----------------------------------------------------------------------------
\* Single axioms.

HasAnonymous(nodes) == Tagged(nodes, {"anonymous"}) # {}

LegalAxiom(root) ==
  /\ \A n \in Tagged(Nodes(root), {"oneOf", "hasValue"}) :
       ~HasAnonymous(Keys(n.kids))
  /\ root.kind \in {"same", "different", "negativeObject", "negativeData"} => ~HasAnonymous(Nodes(root))
  /\ \A n \in Tagged(Nodes(root), {"dataSome", "dataAll"}) : Len(n.kids) = 2
  /\ \A n \in Tagged(Nodes(root), {"entity"}) :
       (n.key = TopDataIri /\ n.sort = "dataProperty") =>
         /\ root.kind = "subData"
         /\ root.fields[2] = n
         /\ root.fields[1] # n

Legal(roots, policy) ==
  /\ OfKind(roots, "swrlRule") = {}
  /\ \A r \in AxiomRoots(roots) : LegalAxiom(r)
  /\ LegalForest(roots)
  /\ LegalEntities(roots)
  /\ LegalDatatypes(roots, policy)
  /\ LegalRoles(AxiomRoots(roots))
=============================================================================
