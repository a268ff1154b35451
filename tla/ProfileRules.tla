---------------------------- MODULE ProfileRules ----------------------------
(***************************************************************************)
(* The passes of the profile phase over retained facts: the forest of the  *)
(* anonymous individuals, the typing constraints on entities, the          *)
(* regularity of the role hierarchy and the simplicity of roles            *)
(* (encoded/profile.rs).  Each pass runs on the facts of a slice and again *)
(* on the merged facts.                                                    *)
(***************************************************************************)
EXTENDS ProfileFacts, RoleHierarchy

LOCAL INSTANCE SequencesExt

-----------------------------------------------------------------------------
\* Anonymous individuals.  An endpoint that is not anonymous is 0.

AnonymousAssertionEndpoints(root) ==
  LET end(i) == IF root.fields[i].tag = "anonymous" THEN root.fields[i].key ELSE 0
  IN  [key |-> root.source, source |-> end(2), target |-> end(3)]

InAxiomOrder(assertions) == Sorted(assertions, LAMBDA a, b : a.key < b.key)

BothAnonymous(assertions) == {a \in assertions : a.source # 0 /\ a.target # 0}

\* A vertex is its own root or leads to it; paths are compressed on the way.
RECURSIVE AnonymousRoot(_, _)
AnonymousRoot(parent, vertex) ==
  IF parent[vertex] = vertex THEN vertex ELSE AnonymousRoot(parent, parent[vertex])

Link(search, a) ==
  LET from == AnonymousRoot(search.parent, a.source)
      to   == AnonymousRoot(search.parent, a.target)
  IN  IF from = to THEN [search EXCEPT !.cycles = @ \cup {a.key}]
      ELSE [search EXCEPT !.parent[to] = from]

UnionFind(vertices, assertions) ==
  FoldLeft(Link, [parent |-> [v \in vertices |-> v], cycles |-> {}],
           InAxiomOrder(BothAnonymous(assertions)))

Ends(a) == {a.source, a.target}

\* One issue for each pair of vertices that several assertions connect.
ParallelEdges(assertions) ==
  LET edges    == BothAnonymous(assertions)
      same(a)  == {b.key : b \in {c \in edges : Ends(c) = Ends(a)}}
  IN  {Min(same(a)) : a \in {e \in edges : Cardinality(same(e)) > 1}}

NamedLinks(assertions, vertex) ==
  {a.key : a \in {b \in assertions \ BothAnonymous(assertions) : vertex \in Ends(b)}}

\* A component needs a vertex with at most one link to a named individual.
RootlessComponents(vertices, assertions, parent) ==
  LET component(r) == {v \in vertices : AnonymousRoot(parent, v) = r}
      rootless     == {r \in vertices : component(r) # {} /\
                         \A v \in component(r) : Cardinality(NamedLinks(assertions, v)) > 1}
  IN  {Min(UNION {NamedLinks(assertions, v) : v \in component(r)}) : r \in rootless}

AppendAnonymousGraphIssues(facts) ==
  LET search == UnionFind(facts.vertices, facts.assertions)
      issues(rule, keys) == {At(Error(rule, "objectAssertion", k), 0) : k \in keys}
  IN  issues("ANONYMOUS_GRAPH_CYCLE", search.cycles)
        \cup issues("ANONYMOUS_PARALLEL_EDGE", ParallelEdges(facts.assertions))
        \cup issues("ANONYMOUS_TREE_ROOT",
                    RootlessComponents(facts.vertices, facts.assertions, search.parent))

-----------------------------------------------------------------------------
\* Entities.

PropertyKinds == {"objectProperty", "dataProperty", "annotationProperty"}

PushDynamicProfileIssue(rule, iri) == {At(Issue(rule, "error", "", iri, 0), 0)}

EntityIssues(iri, kinds, declarations) ==
  LET issue(rule, found) == IF found THEN PushDynamicProfileIssue(rule, iri) ELSE {}
      builtin == IF ReservedIri(iri) THEN BuiltinEntityKind(iri) ELSE "none"
      missing == {k \in kinds \ {"namedIndividual"} : [kind |-> k, iri |-> iri] \notin declarations}
  IN  issue("PROPERTY_PUNNING", Cardinality(kinds \cap PropertyKinds) > 1)
        \cup issue("CLASS_DATATYPE_PUNNING", {"class", "datatype"} \subseteq kinds)
        \cup issue("BUILTIN_ENTITY_KIND", builtin # "none" /\ kinds # {builtin})
        \cup issue("RESERVED_VOCABULARY", ReservedIri(iri) /\ builtin = "none")
        \cup (IF builtin # "none" THEN {}
              ELSE {At(Issue("MISSING_DECLARATION", "error", k, iri, 0), 0) : k \in missing})

AppendEntityIssues(facts) ==
  UNION {EntityIssues(iri, {u.kind : u \in {v \in facts.uses : v.iri = iri}}, facts.declarations)
           : iri \in {u.iri : u \in facts.uses}}

-----------------------------------------------------------------------------
\* Regularity.  Only the roles the inclusions mention get an identifier.

ProfileRoleCanonicalKey(role) == IF role.inverse THEN InverseKey(role.iri) ELSE role.iri

SemanticRoles(facts) ==
  UNION {{x.sub, x.super} : x \in facts.inclusions}
    \cup UNION {{x.super} \cup Keys(x.chain) : x \in facts.complex}

ProfileCanonicalRoleId(domain, role) == IdOf(domain, ProfileRoleCanonicalKey(role))

ProfileInverseCanonicalRoleId(domain, role) ==
  IdOf(domain, ProfileRoleCanonicalKey(InverseProfileObjectRole(role)))

ProfileRoleComponents(count, edges) ==
  ComponentByRole(count, Components(FinishOrder(count, Rows(count, edges)),
                                    Rows(count, Reversed(edges))))

IndexedComplexRoleInclusions(domain, complex) ==
  LET indexed == {[super     |-> ProfileCanonicalRoleId(domain, x.super),
                   chain     |-> [i \in DOMAIN x.chain |-> ProfileCanonicalRoleId(domain, x.chain[i])],
                   generated |-> x.generated, source |-> x.source,
                   inverse   |-> ProfileInverseCanonicalRoleId(domain, x.super),
                   top       |-> x.super.iri = TopKey] : x \in complex}
      key(x)  == <<x.super>> \o x.chain
      rank(x) == <<IF x.generated THEN 1 ELSE 0, x.source>>
  IN  Sorted(indexed, LAMBDA a, b : LexLess(key(a), key(b)) \/ (key(a) = key(b) /\ LexLess(rank(a), rank(b))))

\* Inclusions into the universal role are skipped.
ProfileDependencyEdges(simple, chains, component) ==
  {e \in {<<component[p[1]], component[p[2]], 0>> : p \in simple} : e[1] # e[2]}
    \cup UNION {{e \in {<<component[chains[i].chain[j]], component[chains[i].super], i>>
                         : j \in DOMAIN chains[i].chain} : e[1] # e[2]}
                  : i \in {k \in DOMAIN chains : ~chains[k].top}}

RecursionIssues(x, component) ==
  LET target    == component[x.super]
      inverse   == component[x.inverse]
      positions == {j \in DOMAIN x.chain : component[x.chain[j]] = target}
      recurs    == inverse # target /\ \E j \in DOMAIN x.chain : component[x.chain[j]] = inverse
      issue(rule, found) == IF found /\ ~x.top THEN {At(Error(rule, "subObject", x.source), <<x.super, x.chain>>)} ELSE {}
  IN  issue("RIA_INVERSE_RECURSION", recurs)
        \cup issue("RIA_NON_REGULAR_RECURSION", ~ValidRecursivePositions(positions, Len(x.chain)))

ProfileCanonicalEdges(edges) == CanonicalEdges(edges)

ProfileAdjacency(component, edges) ==
  [c \in {component[r] : r \in DOMAIN component} |->
     Dense({e[2] : e \in {f \in edges : f[1] = c}})]

ProfileShortestCycle(adjacency) == ShortestCycle(adjacency)

ProfileDependencyEdgeSource(edges, from, to) == EdgeSource(edges, from, to)

\* The edges of the cycle that an inclusion is the source of.
CycleSources(edges, cycle) ==
  {i \in 1..(Len(cycle) - 1) : ProfileDependencyEdgeSource(edges, cycle[i], cycle[i + 1]) # 0}

\* A cycle without such an edge is an error of the compiler.
UnsourcedCycle == At(Issue("", "invariant", "", 0, 0), 0)

CycleIssues(edges, chains, cycle) ==
  LET first == Min(CycleSources(edges, cycle))
  IN  IF CycleSources(edges, cycle) = {} THEN {UnsourcedCycle}
      ELSE {At(Error("RIA_DEPENDENCY_CYCLE", "subObject",
                     chains[ProfileDependencyEdgeSource(edges, cycle[first], cycle[first + 1])].source), <<>>)}

AppendRoleRegularityIssues(facts) ==
  LET domain    == Dense({ProfileRoleCanonicalKey(r) : r \in SemanticRoles(facts)})
      simple    == {<<ProfileCanonicalRoleId(domain, x.sub), ProfileCanonicalRoleId(domain, x.super)>>
                      : x \in facts.inclusions}
      component == ProfileRoleComponents(Len(domain), simple)
      chains    == IndexedComplexRoleInclusions(domain, facts.complex)
      edges     == ProfileCanonicalEdges(ProfileDependencyEdges(simple, chains, component))
      cycle     == ProfileShortestCycle(ProfileAdjacency(component, edges))
  IN  IF facts.complex = {} THEN {}
      ELSE UNION {RecursionIssues(chains[i], component) : i \in DOMAIN chains}
             \cup (IF cycle = <<>> THEN {} ELSE CycleIssues(edges, chains, cycle))

-----------------------------------------------------------------------------
\* Simplicity: the seeds and the built-ins in use, closed along the inclusions.

RECURSIVE MarkNonSimple(_, _)
MarkNonSimple(inclusions, marked) ==
  LET more == {x.super : x \in {y \in inclusions : y.sub \in marked}}
  IN  IF more \subseteq marked THEN marked ELSE MarkNonSimple(inclusions, marked \cup more)

NonSimpleRoleSeeds(facts) ==
  facts.seeds \cup {r \in UNION {{x.sub, x.super} : x \in facts.inclusions}
                          \cup {q.role : q \in facts.requirements} : r.iri \in Builtins}

AppendNonSimpleRoleIssues(facts) ==
  LET marked == MarkNonSimple(facts.inclusions, NonSimpleRoleSeeds(facts))
  IN  {At(Error("NON_SIMPLE_PROPERTY", q.constructor, q.provenance), q.role)
         : q \in {r \in facts.requirements : r.role \in marked}}
=============================================================================
