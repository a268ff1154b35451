----------------------------- MODULE MCProfile -----------------------------
(***************************************************************************)
(* Ontologies of two slices that share a root.  Object properties are 1..9, *)
(* data properties 11..19, classes 21..29, individuals 31..39, datatypes   *)
(* 41..44; anonymous individuals are a, b, c with keys 1, 2, 3.            *)
(***************************************************************************)
EXTENDS ProfileCompiler

N(property) == Named(property)

I(property) == InverseOf(property)

Root(n, kind, fields) == [kind |-> kind, fields |-> fields, statement |-> n, source |-> n]

Declare(n, kind, iri) == Root(n, "declaration", <<Entity(kind, iri)>>)

Anonymous(key) == Node("anonymous", "", key, <<>>)

Individual(iri) == Entity("namedIndividual", iri)

Role(iri) == Entity("objectProperty", iri)

Data(iri) == Entity("dataProperty", iri)

Class(iri) == Entity("class", iri)

Assert(n, role, source, target) == Root(n, "objectAssertion", <<Role(role), source, target>>)

Literal(datatype, sort) ==
  Node("literal", sort, 100 * datatype + Len(sort), <<Entity("datatype", datatype)>>)

Facet(facet, literal) == Node("facet", facet, literal.key, <<literal>>)

DataRange(n, tag, kids) == Node(tag, "", n, kids)

Datatype(iri) == Entity("datatype", iri)

Define(n, head, range) == Root(n, "datatypeDefinition", <<Datatype(head), range>>)

\* A class axiom over one class expression.
SubClass(n, expression) == Root(n, "subClass", <<Class(53), expression>>)

Values(n, range) == SubClass(n, Node("dataSome", "", 0, <<Data(11), range>>))

Chain(n, chain, super) ==
  [kind |-> "subObject", chain |-> chain, super |-> super, statement |-> n, source |-> n]

Single(n, kind, first) == [kind |-> kind, first |-> first, statement |-> n, source |-> n]

Of(n, kind, members) == [kind |-> kind, members |-> members, statement |-> n, source |-> n]

Copy(axiom) == [axiom EXCEPT !.source = @ + 100]

Declarations == {Declare(201, "objectProperty", 1), Declare(202, "objectProperty", 2),
                 Declare(203, "dataProperty", 11), Declare(206, "class", 21)}

DatatypeDeclarations ==
  {Declare(204, "datatype", 41), Declare(205, "datatype", 42), Declare(207, "datatype", 43)}

-----------------------------------------------------------------------------
\* The families of roots.

Graph ==
  {Assert(1, 1, Anonymous(1), Anonymous(2)), Assert(2, 2, Anonymous(2), Anonymous(1)),
   Assert(3, 1, Anonymous(2), Anonymous(3)), Assert(4, 1, Anonymous(3), Anonymous(1)),
   Assert(5, 1, Anonymous(1), Individual(31)), Assert(6, 1, Individual(32), Anonymous(1)),
   Assert(7, 1, Anonymous(4), Anonymous(3)), Assert(8, 1, Anonymous(2), Anonymous(2)),
   Assert(9, 1, Anonymous(4), Anonymous(1))}

Ranges ==
  {Define(11, 41, DataRange(301, "dataNot", <<Datatype(42)>>)),
   Define(12, 42, DataRange(302, "dataAnd", <<Datatype(54), Datatype(43)>>)),
   Define(13, 43, DataRange(303, "dataOr", <<Datatype(41), Datatype(55)>>)),
   Define(14, 41, Datatype(55)),
   Define(15, 54, Datatype(55)),
   Values(16, DataRange(304, "dataOneOf", <<Literal(43, "other")>>)),
   Values(17, DataRange(305, "restriction", <<Datatype(54), Facet("minInclusive", Literal(54, "natural"))>>)),
   Values(18, Datatype(44))}

\* One facet of one literal, for every family of datatypes.
Facets ==
  {Values(19, DataRange(306, "restriction", <<Datatype(d), Facet(f, Literal(v[1], v[2]))>>))
     : <<d, f, v>> \in (54..62) \X {"minInclusive", "length", "pattern", "langRange"}
                         \X {<<54, "natural">>, <<54, "other">>, <<55, "text">>, <<59, "tagged">>,
                             <<57, "other">>, <<61, "other">>, <<60, "other">>, <<55, "badRange">>,
                             <<55, "badPattern">>, <<54, "malformed">>, <<58, "other">>}}

Hierarchy ==
  {Chain(21, <<N(1), N(2)>>, N(1)), Chain(22, <<N(1), N(2), N(1)>>, N(1)), Chain(23, <<N(1), N(1)>>, N(2)),
   Chain(24, <<I(1), N(2)>>, N(1)), Chain(25, <<N(2)>>, I(1)), Chain(29, <<N(2), N(1)>>, I(1)),
   Single(26, "symmetric", N(1)), Single(27, "transitive", I(2)),
   Of(28, "equivalentObject", {N(2), I(1)}), Chain(30, <<N(1), N(1)>>, N(TopKey)),
   [kind |-> "inverseObject", first |-> N(1), second |-> N(2), statement |-> 20, source |-> 20]}

SimpleNeeds ==
  {Single(41, "functional", I(1)), Single(42, "asymmetric", N(2)), Of(43, "disjointObject", {N(1), I(2)}),
   Single(44, "irreflexive", N(BottomKey)),
   SubClass(45, Node("cardinality", "", 0, <<RoleNode(I(2)), Class(21)>>)),
   SubClass(46, Node("hasSelf", "", 0, <<RoleNode(N(1))>>))}

Typing ==
  {Declare(51, "class", 41), Declare(52, "dataProperty", 1), Declare(53, "class", 47),
   SubClass(54, Class(22)), SubClass(55, Class(54)), Declare(56, "class", 22),
   Root(57, "ontologyAnnotation", <<Entity("annotationProperty", 11)>>),
   Root(58, "ontologyAnnotation", <<Literal(54, "malformed")>>)}

Local ==
  {SubClass(61, Node("oneOf", "", 0, <<Individual(31), Anonymous(1)>>)),
   SubClass(62, Node("hasValue", "", 0, <<Role(1), Individual(31)>>)),
   Root(63, "same", <<Individual(31), Anonymous(1)>>), Root(64, "different", <<Individual(31), Individual(32)>>),
   Root(65, "subData", <<Data(11), Data(TopDataIri)>>), Root(66, "subData", <<Data(TopDataIri), Data(TopDataIri)>>),
   Root(67, "subData", <<Data(TopDataIri), Data(11)>>), Root(68, "swrlRule", <<>>),
   SubClass(69, Node("dataAll", "", 0, <<Data(11), Data(11), Datatype(54)>>)),
   Root(70, "negativeObject", <<Role(1), Anonymous(1), Individual(31)>>)}

-----------------------------------------------------------------------------
Subsets(S, n) == {T \in SUBSET S : Cardinality(T) <= n}

InKeyOrder(roots) == Sorted(roots, LAMBDA a, b : a.source < b.source)

Slice(roots) == [roots |-> InKeyOrder(roots), mode |-> "all", postings |-> <<>>]

\* The roots split in two by the parity of their keys, in slices that hold more
\* than they select: the first excludes what the second includes.
Parts(roots) ==
  LET order == InKeyOrder(roots)
      odd   == SelectSeq([i \in DOMAIN order |-> i], LAMBDA i : order[i].source % 2 = 1)
  IN  IF odd = <<>> THEN <<Slice(roots)>>
      ELSE <<[roots |-> order, mode |-> "exclude", postings |-> odd],
             [roots |-> order, mode |-> "include", postings |-> odd]>>

Ontology(slices, policy) ==
  [slices |-> slices, policy |-> policy, rows |-> <<>>, domain |-> "none", identities |-> <<>>,
   owned |-> 1000, issues |-> 100]

\* The declarations come in a slice of their own.
Declared(roots) == <<Slice(Declarations)>> \o Parts(roots)

WithDatatypes(roots) == <<Slice(Declarations \cup DatatypeDeclarations)>> \o Parts(roots)

Pools ==
  {Ontology(Parts(G \cup {Declare(201, "objectProperty", 1), Declare(202, "objectProperty", 2)}), "error")
     : G \in Subsets(Graph, 4)}
  \cup {Ontology(WithDatatypes(D), p) : <<D, p>> \in Subsets(Ranges, 3) \X {"error", "ignore"}}
  \cup {Ontology(<<Slice(Declarations \cup {v})>>, "ignore") : v \in Facets}
  \cup {Ontology(Declared(H \cup S), "error") : <<H, S>> \in Subsets(Hierarchy, 2) \X Subsets(SimpleNeeds, 1)}
  \cup {Ontology(Declared(H), "error") : H \in Subsets(Hierarchy, 3)}
  \cup {Ontology(WithDatatypes(T), "ignore") : T \in Subsets(Typing, 3)}
  \cup {Ontology(Declared(L), "error") : L \in Subsets(Local, 2)}

\* Annotated copies of one chain, which recurs badly, in two slices and in one.
Copied ==
  LET chain == Chain(22, <<N(1), N(2), N(1)>>, N(1))
  IN  <<Slice({chain} \cup Declarations), Slice({Copy(chain), Assert(1, 1, Anonymous(1), Anonymous(1)),
               Root(71, "same", <<Individual(32), Anonymous(1)>>)}),
        Slice({chain, Copy(chain), Root(63, "same", <<Individual(31), Anonymous(1)>>)})>>

\* The rows of an origin context, in the digests of one domain.
OriginRows(slices, Digest(_)) ==
  LET of(i)   == {Digest(r.source) : r \in Selected(slices[i])}
      digests == UNION {of(i) : i \in DOMAIN slices}
  IN  [d \in digests |-> {i \in DOMAIN slices : d \in of(i)}]

Raw(key) == key

Half(key) == IF key > 100 THEN StructuralDigest(key) ELSE key

WithRows(rows) ==
  [Ontology(Copied, "error") EXCEPT !.rows = rows, !.domain = "rows",
     !.identities = <<[document |-> 1, iri |-> 0, version |-> 0], [document |-> 2, iri |-> 48, version |-> 33]>>]

Contexts ==
  {WithRows(OriginRows(Copied, Raw)), WithRows(OriginRows(Copied, StructuralDigest)),
   WithRows(OriginRows(Copied, Half))}
  \cup {WithRows([d \in DOMAIN OriginRows(Copied, Raw) \ {lost} |-> OriginRows(Copied, Raw)[d]])
          : lost \in {1, 63, 122, 201}}
  \cup {[Ontology(<<Slice(Declarations)>>, "error") EXCEPT
          !.identities = <<[document |-> 1, iri |-> iri, version |-> version]>>]
        : <<iri, version>> \in {0, 33, 48} \X {0, 46}}
  \cup {[WithRows(OriginRows(Copied, Raw)) EXCEPT !.identities = <<@[2], @[1]>>],
        [WithRows(OriginRows(Copied, Raw)) EXCEPT !.rows[1] = {}]}

\* Selections that are refused.
Misselected ==
  {Ontology(<<Slice(Declarations), [Slice(Declarations) EXCEPT !.mode = mode, !.postings = postings]>>, "error")
     : <<mode, postings>> \in {"all", "include", "exclude"} \X {<<>>, <<2, 1>>, <<3, 5>>, <<1, 3>>}}

\* One ontology under every limit up to more than it needs.
Limited ==
  {[Ontology(Copied, "error") EXCEPT !.owned = 5 * limit] : limit \in 1..40}
  \cup {[Ontology(Copied, "error") EXCEPT !.issues = limit] : limit \in 0..9}

MCOntologies == Pools \cup Contexts \cup Misselected \cup Limited
=============================================================================
