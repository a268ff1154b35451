---------------------------- MODULE Classification ----------------------------
(***************************************************************************)
(* Classification of one public domain (services/classification.rs and     *)
(* classification_bridge.rs): what the program already tells of the        *)
(* domain, the test for when that is all, the taxonomy built from a        *)
(* complete relation, the oracle that asks the tableau for the rest, and   *)
(* the hierarchy its answers are inserted into.                            *)
(*                                                                         *)
(* A mutable hierarchy numbers its nodes in insertion order, the top node  *)
(* first and the bottom node second.  A published one names a node by its  *)
(* members, in the place of their rank in the sorted list of nodes.        *)
(***************************************************************************)
EXTENDS ServicePrograms

(***************************************************************************)
(* classification_bridge.rs: the problem of a domain.                      *)
(***************************************************************************)
DomainKind(domain) ==
  CASE domain = "classes" -> "concept" [] domain = "roles" -> "object" [] domain = "properties" -> "data"

PositiveDomainIdentifier(domain, atom) ==
  /\ atom[1] = DomainKind(domain)
  /\ atom[3] = [i \in DOMAIN atom[3] |-> i]

ClauseIsDomainInclusion(p, domain, c) ==
  \E a \in c.body, b \in c.head :
    /\ c.body = {a} /\ c.head = {b} /\ a[3] = b[3]
    /\ PositiveDomainIdentifier(domain, a) /\ PositiveDomainIdentifier(domain, b)
    /\ a[2] \in Public(p, domain) /\ b[2] \in Public(p, domain)

ToldRelationIsComplete(p, domain) ==
  /\ p.facts = {} /\ p.disjunctions = {}
  /\ \E c \in p.clauses : c.builtin
  /\ \A c \in p.clauses : c.builtin \/ ClauseIsDomainInclusion(p, domain, c)

ClassProblemKnown(p) ==
  {<<c, d>> \in p.classes \X p.classes :
     \E k \in p.clauses, x \in 1..(FirstConstant - 1) :
       k.body = {Concept(c, x)} /\ k.head = {Concept(d, x)}}

CanonicalRelations(relation, elements) == relation \cap (elements \X elements)

Known(p, domain) ==
  CASE domain = "classes"    -> ClassProblemKnown(p)
    [] domain = "roles"      -> CanonicalRelations(p.inclusions, p.roles)
    [] domain = "properties" -> CanonicalRelations(p.dataInclusions, p.properties)

ValidElements(p, domain) ==
  /\ Top(p, domain) # Bottom(p, domain)
  /\ {Top(p, domain), Bottom(p, domain)} \subseteq Public(p, domain)

(***************************************************************************)
(* classification_bridge.rs: child is subsumed by parent when the tableau  *)
(* finds no individual that is in child and not in parent.                 *)
(***************************************************************************)
Witness(domain) ==
  CASE domain = "classes"    -> <<FreshIndividual>>
    [] domain = "roles"      -> <<FreshIndividual, FreshTarget>>
    [] domain = "properties" -> <<FreshIndividual, FreshValue>>

CounterexampleQuery(p, domain, child, parent) ==
  LET witness   == Witness(domain)
      variables == [i \in DOMAIN witness |-> i]
      positive(id, arguments) == <<DomainKind(domain), id, arguments>>
  IN  [fresh   |-> {witness[i] : i \in DOMAIN witness},
       facts   |-> (IF domain = "classes" /\ child = p.topClass THEN {} ELSE {positive(child, witness)})
                     \cup (IF parent = Bottom(p, domain) THEN {} ELSE {Opposite(positive(parent, witness))}),
       clauses |-> IF parent = Bottom(p, domain) THEN {}
                   ELSE {Clause({positive(parent, variables), Opposite(positive(parent, variables))}, {})}]

TestSubsumption(p, domain, pair) ==
  LET query == CounterexampleQuery(p, domain, pair[1], pair[2])
  IN  ~ Satisfiable(p, query.fresh, query.clauses, query.facts)

TestSubsumptions(p, domain, pairs) == {pair \in pairs : TestSubsumption(p, domain, pair)}

(***************************************************************************)
(* classification.rs: the taxonomy of a complete relation.                 *)
(***************************************************************************)
RECURSIVE ReachableFrom(_, _)
ReachableFrom(edges, from) ==
  LET next == from \cup {e[2] : e \in {f \in edges : f[1] \in from}}
  IN  IF next = from THEN from ELSE ReachableFrom(edges, next)

IsAcyclic(edges) ==
  \A e \in edges : e[1] \notin ReachableFrom(edges, {e[2]})

ReduceQuotient(edges) ==
  {e \in edges : e[2] \notin ReachableFrom(edges \ {e}, {e[1]})}

Components(elements, successors) ==
  LET reach == UNION {{c} \X ReachableFrom(successors, {c}) : c \in elements}
  IN  {{d \in elements : <<c, d>> \in reach /\ <<d, c>> \in reach} : c \in elements}

ComponentOf(components, c) == CHOOSE n \in components : c \in n

Quotient(components, known, top, bottom) ==
  LET lower == ComponentOf(components, bottom)
      upper == ComponentOf(components, top)
      told  == {<<ComponentOf(components, e[1]), ComponentOf(components, e[2])>> : e \in known}
      inner == {e \in told : e[1] # e[2] /\ e[1] # lower /\ e[2] # upper}
      middle == components \ {lower, upper}
      all   == inner \cup {<<lower, m>> : m \in middle \ {e[2] : e \in inner}}
                     \cup {<<m, upper>> : m \in middle \ {e[1] : e \in inner}}
  IN  IF lower # upper /\ all = {} THEN {<<lower, upper>>} ELSE all

\* What is known before anything is tested.
Seed(elements, top, bottom, known) ==
  known \cup {<<bottom, c>> : c \in elements} \cup {<<c, top>> : c \in elements}
        \cup {<<c, c>> : c \in elements}

ToldComponents(elements, top, bottom, known) == Components(elements, Seed(elements, top, bottom, known))

ToldQuotient(elements, top, bottom, known) ==
  Quotient(ToldComponents(elements, top, bottom, known), known, top, bottom)

BuildCompleteHierarchy(elements, top, bottom, known) ==
  LET components == ToldComponents(elements, top, bottom, known)
  IN  [nodes |-> components, edges |-> ReduceQuotient(ToldQuotient(elements, top, bottom, known)),
       top |-> ComponentOf(components, top), bottom |-> ComponentOf(components, bottom)]

\* What a published hierarchy must satisfy.
ValidHierarchy(h) ==
  /\ h.nodes # {} /\ {} \notin h.nodes
  /\ \A n, m \in h.nodes : n # m => n \cap m = {}
  /\ {h.top, h.bottom} \subseteq h.nodes
  /\ h.edges \subseteq h.nodes \X h.nodes /\ \A e \in h.edges : e[1] # e[2]
  /\ IsAcyclic(h.edges) /\ ReduceQuotient(h.edges) = h.edges

(***************************************************************************)
(* classification.rs: the oracle.  yes and no are the answers it holds,    *)
(* known the relation it takes the closure of.  Memory is estimated in     *)
(* words of four bytes.                                                    *)
(***************************************************************************)
NewOracle(seed) == [known |-> seed, yes |-> seed, no |-> {}, tests |-> 0]

EstimateInitialMemory(elements, relations) == 7 * elements + 8 * relations

EstimateOracleMemory(oracle) ==
  4 * Cardinality(oracle.known) + 6 * Cardinality(oracle.yes \cup oracle.no)

IsKnown(oracle, pair) == pair[2] \in ReachableFrom(oracle.known, {pair[1]})

\* The pairs of a batch that only the tableau can decide.
Missing(oracle, pairs) ==
  {pair \in pairs \ (oracle.yes \cup oracle.no) : ~ IsKnown(oracle, pair)}

Evaluated(oracle, pairs, missing, proven) ==
  [known |-> oracle.known \cup proven,
   yes   |-> oracle.yes \cup ((pairs \ missing) \ oracle.no) \cup proven,
   no    |-> oracle.no \cup (missing \ proven),
   tests |-> oracle.tests + Cardinality(missing)]

(***************************************************************************)
(* classification.rs: the hierarchy under construction.                    *)
(***************************************************************************)
TopNode == 1
BottomNode == 2

NewHierarchy(top, bottom) == [members |-> <<{top}, {bottom}>>, edges |-> {<<BottomNode, TopNode>>}]

Representative(h, node) == Min(h.members[node])

\* The order elements are inserted in: few told parents first.
InsertionOrder(elements, top, bottom, seed) ==
  LET count(c) == Cardinality({pair \in seed : pair[1] = c})
      before(c, d) == count(c) < count(d) \/ (count(c) = count(d) /\ c < d)
      rest == elements \ {top, bottom}
  IN  [i \in 1..Cardinality(rest) |->
         CHOOSE c \in rest : Cardinality({d \in rest : before(d, c)}) = i - 1]

Search(upward) ==
  LET start == IF upward THEN BottomNode ELSE TopNode
  IN  [upward |-> upward, frontier |-> {start}, visited |-> {}, proven |-> {start}, boundary |-> {}]

Neighbours(h, upward, node) ==
  IF upward THEN {e[2] : e \in {f \in h.edges : f[1] = node}}
  ELSE {e[1] : e \in {f \in h.edges : f[2] = node}}

SearchCandidates(h, s) ==
  UNION {Neighbours(h, s.upward, n) : n \in s.frontier} \ s.visited

Relation(h, s, element, candidate) ==
  IF s.upward THEN <<Representative(h, candidate), element>>
  ELSE <<element, Representative(h, candidate)>>

SearchRelations(h, s, element) == {Relation(h, s, element, c) : c \in SearchCandidates(h, s)}

\* Mutant: a node is on the boundary when no candidate of this round holds.
BoundaryThisRound(h, s, element, oracle) ==
  LET holds  == {c \in SearchCandidates(h, s) : Relation(h, s, element, c) \in oracle.yes}
      visited == s.visited \cup s.frontier
  IN  [s EXCEPT !.proven = @ \cup holds, !.visited = visited, !.frontier = holds \ visited,
                !.boundary = @ \cup {n \in s.frontier : Neighbours(h, s.upward, n) \cap holds = {}}]

\* Mutant: the nodes of the frontier are not recorded as visited.
BoundaryUnvisited(h, s, element, oracle) ==
  LET holds  == {c \in SearchCandidates(h, s) : Relation(h, s, element, c) \in oracle.yes}
      proven == s.proven \cup holds
  IN  [s EXCEPT !.proven = proven, !.frontier = holds,
                !.boundary = @ \cup {n \in s.frontier : Neighbours(h, s.upward, n) \cap proven = {}}]

\* One round of the search, with the answers the oracle now has.
BoundaryRound(h, s, element, oracle) ==
  LET holds  == {c \in SearchCandidates(h, s) : Relation(h, s, element, c) \in oracle.yes}
      proven == s.proven \cup holds
      visited == s.visited \cup s.frontier
  IN  [s EXCEPT !.proven = proven, !.visited = visited, !.frontier = holds \ visited,
                !.boundary = @ \cup {n \in s.frontier : Neighbours(h, s.upward, n) \cap proven = {}}]

InsertionSound(parents, children) ==
  parents \cap children = {} \/ (parents = children /\ Cardinality(parents) = 1)

Insert(h, element, parents, children) ==
  LET node == Len(h.members) + 1
  IN  IF parents \cap children # {}
      THEN [h EXCEPT !.members[CHOOSE n \in parents \cap children : TRUE] = @ \cup {element}]
      ELSE [members |-> Append(h.members, {element}),
            edges   |-> (h.edges \ (children \X parents)) \cup (children \X {node}) \cup ({node} \X parents)]

Freeze(h) ==
  [nodes |-> {h.members[n] : n \in DOMAIN h.members},
   edges |-> {<<h.members[e[1]], h.members[e[2]]>> : e \in h.edges},
   top |-> h.members[TopNode], bottom |-> h.members[BottomNode]]

-----------------------------------------------------------------------------
(***************************************************************************)
(* Realization of the named individuals (realization_bridge.rs and         *)
(* services/realization.rs): the same-as groups, and for every group its   *)
(* direct types, its object and data values and the groups it differs      *)
(* from.  Every fact is one the tableau refutes the opposite of.           *)
(***************************************************************************)
\* The tableau refutes the opposite of the assertion.
Entails(p, assertion) == ~ Satisfiable(p, {}, {}, {Opposite(assertion)})

EntailsMany(p, assertions) == {a \in assertions : Entails(p, a)}

(***************************************************************************)
(* Whether anything in the program can derive an atom of a kind.           *)
(***************************************************************************)
SemanticPredicateCanBeProduced(p, kind, asserted) ==
  \/ asserted /\ \E f \in p.facts : f[1] = kind
  \/ \E c \in p.clauses : \E h \in c.head : h[1] = kind
  \/ \E d \in p.disjunctions : \E h \in d : h[1] = kind

\* Mutant: a rule that derives an equality is not looked for.
EqualityFromConstructs(p) == p.equality

SemanticEqualityPossible(p) ==
  p.equality \/ SemanticPredicateCanBeProduced(p, "equality", FALSE)

SemanticInequalityPossible(p) == SemanticPredicateCanBeProduced(p, "inequality", TRUE)

(***************************************************************************)
(* Same-as groups: the asserted equalities, then a test for every pair of  *)
(* the groups they leave.                                                  *)
(***************************************************************************)
RECURSIVE UnionAll(_, _)
UnionAll(groups, pairs) ==
  IF pairs = {} THEN groups
  ELSE LET pair  == CHOOSE q \in pairs : TRUE
           joined == {g \in groups : pair[1] \in g \/ pair[2] \in g}
       IN  UnionAll((groups \ joined) \cup {UNION joined}, pairs \ {pair})

AssertedEqualities(p) ==
  {<<x, y>> \in p.named \X p.named : Equal(x, y) \in p.facts}

GroupRepresentatives(groups) == {Min(g) : g \in groups}

SameAsGroups(p) ==
  LET seeded == UnionAll({{x} : x \in p.named}, AssertedEqualities(p))
      tested == {<<x, y>> \in GroupRepresentatives(seeded) \X GroupRepresentatives(seeded) : x < y}
  IN  IF ~ SemanticEqualityPossible(p) THEN seeded
      ELSE UnionAll(seeded, {q \in tested : Entails(p, Equal(q[1], q[2]))})

(***************************************************************************)
(* The facts of the groups, by the least individual of a group.            *)
(***************************************************************************)
SelectedTypes(p, hierarchy, x) ==
  {hierarchy.top}
    \cup {n \in hierarchy.nodes \ {hierarchy.top, hierarchy.bottom} : Entails(p, Concept(Min(n), x))}

HierarchyChildren(hierarchy, node) == {e[1] : e \in {f \in hierarchy.edges : f[2] = node}}

DirectTypeFacts(p, hierarchy, groups) ==
  UNION {LET selected == SelectedTypes(p, hierarchy, x)
         IN  {<<x, n>> : n \in {m \in selected : HierarchyChildren(hierarchy, m) \cap selected = {}}}
           : x \in GroupRepresentatives(groups)}

ObjectTargetFacts(p, groups) ==
  LET representatives == GroupRepresentatives(groups)
  IN  {<<x, R, y>> \in representatives \X (p.roles \ {p.bottomRole}) \X representatives :
         R = p.topRole \/ Entails(p, Object(R, x, y))}

DataTargetFacts(p, groups) ==
  {<<x, P, l>> \in GroupRepresentatives(groups) \X (p.properties \ {p.bottomProperty}) \X DOMAIN p.literals :
     P = p.topProperty \/ Entails(p, Data(P, x, p.literals[l]))}

DifferentFromFacts(p, groups) ==
  LET representatives == GroupRepresentatives(groups)
  IN  IF ~ SemanticInequalityPossible(p) THEN {}
      ELSE {<<x, y>> \in representatives \X representatives : x < y /\ Entails(p, Unequal(x, y))}

(***************************************************************************)
(* services/realization.rs: the facts of individuals become facts of       *)
(* groups.  A group that differs from itself is an inconsistency.          *)
(***************************************************************************)
GroupOf(groups, x) == CHOOSE g \in groups : x \in g

ValidFacts(groups, facts) ==
  \A pair \in facts.different : GroupOf(groups, pair[1]) # GroupOf(groups, pair[2])

BuildRealizationIds(groups, facts) ==
  [same      |-> groups,
   types     |-> {<<GroupOf(groups, f[1]), f[2]>> : f \in facts.types},
   objects   |-> {<<GroupOf(groups, f[1]), f[2], GroupOf(groups, f[3])>> : f \in facts.objects},
   data      |-> {<<GroupOf(groups, f[1]), f[2], f[3]>> : f \in facts.data},
   different |-> {{GroupOf(groups, f[1]), GroupOf(groups, f[2])} : f \in facts.different}]

=============================================================================
