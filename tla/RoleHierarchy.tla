--------------------------- MODULE RoleHierarchy ---------------------------
(***************************************************************************)
(* The role hierarchy: strongly connected components of the simple         *)
(* inclusions, the closure of the quotient graph and, for object roles,    *)
(* the inverse of every component                                          *)
(* (encoded/object_role_hierarchy.rs, data_role_hierarchy.rs).  Components *)
(* are sets of role identifiers, numbered by their least member; the       *)
(* sparse and the dense encoding of a reachability row are the same set.   *)
(***************************************************************************)
EXTENDS RoleInclusions

LOCAL INSTANCE SequencesExt

Edges(inclusions) == {<<x.sub, x.super>> : x \in inclusions}

\* Outgoing and incoming rows, each in order.
Rows(count, edges) == [i \in 1..count |-> Dense({e[2] : e \in {f \in edges : f[1] = i}})]

Reversed(edges) == {<<e[2], e[1]>> : e \in edges}

\* Depth-first search: a role is finished after all it leads to.
RECURSIVE Visit(_, _, _)
Visit(outgoing, search, role) ==
  IF role \in search.visited THEN search
  ELSE LET enter  == [search EXCEPT !.visited = @ \cup {role}]
           inside == FoldLeft(LAMBDA s, next : Visit(outgoing, s, next), enter, outgoing[role])
       IN  [inside EXCEPT !.finish = Append(@, role)]

\* Mutant: every role is finished as soon as it is entered.
FinishOrderOnEntry(count, outgoing) == [i \in 1..count |-> i]

FinishOrder(count, outgoing) ==
  FoldLeft(LAMBDA s, role : Visit(outgoing, s, role), [visited |-> {}, finish |-> <<>>],
           [i \in 1..count |-> i]).finish

RECURSIVE Collect(_, _, _)
Collect(incoming, assigned, members) ==
  LET next == UNION {Keys(incoming[m]) : m \in members} \ (assigned \cup members)
  IN  IF next = {} THEN members ELSE Collect(incoming, assigned, members \cup next)

\* Roots are taken in reverse finish order, members along incoming edges.
Components(finish, incoming) ==
  LET step(cs, root) == IF root \in UNION cs THEN cs
                        ELSE cs \cup {Collect(incoming, UNION cs, {root})}
      found == FoldLeft(step, {}, Reverse(finish))
  IN  Sorted(found, LAMBDA a, b : Min(a) < Min(b))

ComponentByRole(count, components) ==
  [r \in 1..count |-> CHOOSE c \in DOMAIN components : r \in components[c]]

QuotientEdges(edges, byRole) ==
  {e \in {<<byRole[e[1]], byRole[e[2]]>> : e \in edges} : e[1] # e[2]}

\* The least component none of whose predecessors is missing comes next.
RECURSIVE TopologicalOrder(_, _, _)
TopologicalOrder(nodes, quotient, order) ==
  LET rest  == nodes \ Keys(order)
      ready == {n \in rest : \A e \in quotient : e[2] = n => e[1] \in Keys(order)}
  IN  IF ready = {} THEN order ELSE TopologicalOrder(nodes, quotient, Append(order, Min(ready)))

Closure(order, quotient) ==
  LET step(rows, c) ==
        [rows EXCEPT ![c] = {c} \cup UNION {rows[e[2]] : e \in {f \in quotient : f[1] = c}}]
  IN  FoldLeft(step, [c \in Keys(order) |-> {}], Reverse(order))

InverseComponents(components, byRole, inverse) ==
  [c \in DOMAIN components |-> byRole[inverse[Min(components[c])]]]

BuildComponents(count, edges) ==
  LET components == Components(FinishOrder(count, Rows(count, edges)), Rows(count, Reversed(edges)))
      byRole     == ComponentByRole(count, components)
      quotient   == QuotientEdges(edges, byRole)
      order      == TopologicalOrder(DOMAIN components, quotient, <<>>)
  IN  [components |-> components, byRole |-> byRole, order |-> order,
       supers     |-> Closure(order, quotient)]

ObjectHierarchy(roles, built) ==
  [components |-> built.components, byRole |-> built.byRole, supers |-> built.supers,
   order      |-> built.order,
   inverse    |-> InverseComponents(built.components, built.byRole, roles.inverse),
   top        |-> built.byRole[roles.top],
   bottom     |-> built.byRole[roles.bottom]]

BuildHierarchy(roles, simple) ==
  ObjectHierarchy(roles, BuildComponents(Len(roles.values), Edges(simple.inclusions)))

ValidHierarchy(roles, h) ==
  /\ Keys(h.order) = DOMAIN h.components
  /\ \A c \in DOMAIN h.components :
       /\ h.components[c] # {}
       /\ c \in h.supers[c]
       /\ \A r \in h.components[c] : h.byRole[roles.inverse[r]] = h.inverse[c]
       /\ h.inverse[h.inverse[c]] = c
  /\ UNION Keys(h.components) = DOMAIN roles.values

\* The data hierarchy is built by code of its own, along the same steps.
DataComponents(roles, inclusions) ==
  BuildComponents(Len(roles.values), Edges(inclusions.inclusions))

BuildDataHierarchy(roles, inclusions) == DataComponents(roles, inclusions)

ValidDataHierarchy(roles, h) ==
  /\ Keys(h.order) = DOMAIN h.components
  /\ \A c \in DOMAIN h.components : h.components[c] # {} /\ c \in h.supers[c]
  /\ UNION Keys(h.components) = DOMAIN roles.values

-----------------------------------------------------------------------------
(***************************************************************************)
(* Regularity and simplicity (encoded/role_semantics.rs).  A dependency    *)
(* edge leads from a component to one that consumes it; it remembers the   *)
(* first complex inclusion it comes from, 0 for none.                      *)
(***************************************************************************)
SimpleDependencyEdges(h, simple) ==
  {e \in {<<h.byRole[x.sub], h.byRole[x.super], 0>> : x \in simple.inclusions} : e[1] # e[2]}

\* The inclusions into the universal role restrict nothing.
Restricting(roles, chains) == {i \in DOMAIN chains : chains[i].super # roles.top}

ChainDependencyEdges(roles, h, chains) ==
  UNION {{e \in {<<h.byRole[chains[i].chain[j]], h.byRole[chains[i].super], i>>
                   : j \in DOMAIN chains[i].chain} : e[1] # e[2]}
           : i \in Restricting(roles, chains)}

Violation(code, inclusion, position, cycle) ==
  [code |-> code, super |-> inclusion.super, chain |-> inclusion.chain,
   provenance |-> inclusion.provenance, position |-> position, cycle |-> cycle]

InverseRecursions(roles, h, chains) ==
  LET inverseOf(i) == h.byRole[roles.inverse[chains[i].super]]
  IN  UNION {{Violation("RIA_INVERSE_RECURSION", chains[i], j, <<>>)
                : j \in {k \in DOMAIN chains[i].chain :
                           /\ h.byRole[chains[i].chain[k]] = inverseOf(i)
                           /\ inverseOf(i) # h.byRole[chains[i].super]}}
               : i \in Restricting(roles, chains)}

TargetPositions(h, inclusion) ==
  {j \in DOMAIN inclusion.chain : h.byRole[inclusion.chain[j]] = h.byRole[inclusion.super]}

ValidRecursivePositions(positions, length) ==
  \/ positions \in {{}, {1}, {length}}
  \/ length = 2 /\ positions = {1, 2}

NonRegularRecursions(roles, h, chains) ==
  {Violation("RIA_NON_REGULAR_RECURSION", chains[i], Min(TargetPositions(h, chains[i])), <<>>)
     : i \in {k \in Restricting(roles, chains) :
                ~ValidRecursivePositions(TargetPositions(h, chains[k]), Len(chains[k].chain))}}

\* One edge between two components, with its first source.
CanonicalEdges(edges) ==
  {<<e[1], e[2], LET sources == {f[3] : f \in {g \in edges : g[1] = e[1] /\ g[2] = e[2]}} \ {0}
                 IN  IF sources = {} THEN 0 ELSE Min(sources)>> : e \in edges}

DependencyRows(h, edges) ==
  [c \in DOMAIN h.components |-> {e[1] : e \in {f \in edges : f[2] = c}}]

AdjacencyRows(h, edges) ==
  [c \in DOMAIN h.components |-> Dense({e[2] : e \in {f \in edges : f[1] = c}})]

\* Breadth-first search for the way back to `start': the queue is scanned in
\* order, the row of the first node that has `start' as a successor ends it.
RECURSIVE CycleSearch(_, _, _, _)
CycleSearch(adjacency, start, queue, parents) ==
  IF queue = <<>> THEN <<>>
  ELSE LET node == Head(queue)
           row  == adjacency[node]
           new  == SelectSeq(row, LAMBDA s : s \notin DOMAIN parents)
       IN  IF start \in Keys(row) THEN Append(parents[node], start)
           ELSE CycleSearch(adjacency, start, Tail(queue) \o new,
                  [c \in DOMAIN parents \cup Keys(new) |->
                     IF c \in DOMAIN parents THEN parents[c] ELSE Append(parents[node], c)])

\* The witness of reconstruct_cycle is kept with each node as the path to it.
ShortestCycle(adjacency) ==
  LET found == {CycleSearch(adjacency, s, <<s>>, [c \in {s} |-> <<s>>]) : s \in DOMAIN adjacency}
                 \ {<<>>}
  IN  IF found = {} THEN <<>>
      ELSE CHOOSE c \in found : \A d \in found :
             Len(c) < Len(d) \/ (Len(c) = Len(d) /\ ~LexLess(d, c))

EdgeSource(edges, from, to) == (CHOOSE e \in edges : e[1] = from /\ e[2] = to)[3]

CycleViolations(h, chains, edges, cycle) ==
  LET sources == {i \in 1..(Len(cycle) - 1) : EdgeSource(edges, cycle[i], cycle[i + 1]) # 0}
      source  == IF sources = {} THEN 1
                 ELSE EdgeSource(edges, cycle[Min(sources)], cycle[Min(sources) + 1])
  IN  IF cycle = <<>> \/ chains = <<>> THEN {}
      ELSE {Violation("RIA_DEPENDENCY_CYCLE", chains[source], 0, cycle)}

NonSimpleComponents(h, chains) ==
  LET seeds == {h.top, h.bottom} \cup {h.byRole[chains[i].super] : i \in DOMAIN chains}
  IN  UNION {h.supers[s] : s \in seeds}

CompileRoleSemantics(roles, simple, complex, h) ==
  LET chains    == InOrder(complex)
      edges     == CanonicalEdges(SimpleDependencyEdges(h, simple)
                                    \cup ChainDependencyEdges(roles, h, chains))
      cycle     == ShortestCycle(AdjacencyRows(h, edges))
  IN  [violations   |-> InverseRecursions(roles, h, chains)
                          \cup NonRegularRecursions(roles, h, chains)
                          \cup CycleViolations(h, chains, edges, cycle),
       dependencies |-> DependencyRows(h, edges),
       nonSimple    |-> NonSimpleComponents(h, chains)]

ValidSemantics(h, semantics) ==
  /\ semantics.nonSimple \subseteq DOMAIN h.components
  /\ {h.top, h.bottom} \subseteq semantics.nonSimple
  /\ DOMAIN semantics.dependencies = DOMAIN h.components
  /\ \A v \in semantics.violations :
       IF v.code = "RIA_DEPENDENCY_CYCLE"
       THEN v.position = 0 /\ Len(v.cycle) >= 2 /\ v.cycle[1] = v.cycle[Len(v.cycle)]
       ELSE v.position \in DOMAIN v.chain /\ v.cycle = <<>>
=============================================================================
