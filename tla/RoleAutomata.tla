---------------------------- MODULE RoleAutomata ----------------------------
(***************************************************************************)
(* The automata of the composite roles (encoded/role_automata.rs), the     *)
(* role model they are published in (encoded/role_model.rs) and the        *)
(* runtime that reads words with them (roles/mod.rs).  A transition is     *)
(* <<source, role, target>>; role 0 is the empty word, which sorts before  *)
(* every role.  States are numbered from 1.                                *)
(***************************************************************************)
EXTENDS RoleHierarchy

LOCAL INSTANCE SequencesExt

SubroleDependencies(simple, h) ==
  [c \in DOMAIN h.components |->
     Dense({h.byRole[x.sub] : x \in {y \in simple.inclusions : h.byRole[y.super] = c}} \ {c})]

Productions(complex, h) ==
  {[target |-> h.byRole[x.super], chain |-> [i \in DOMAIN x.chain |-> h.byRole[x.chain[i]]]]
     : x \in complex.inclusions}

ProductionsForTarget(productions, target) ==
  Sorted({p.chain : p \in {q \in productions : q.target = target}}, LexLess)

\* Composite components and everything they depend on, but nothing for the sake
\* of the universal role alone.
RECURSIVE SelectMore(_, _)
SelectMore(dependencies, selected) ==
  LET next == UNION {dependencies[c] : c \in selected} \ selected
  IN  IF next = {} THEN selected ELSE SelectMore(dependencies, selected \cup next)

SelectComponents(h, semantics) ==
  {h.top} \cup SelectMore([semantics.dependencies EXCEPT ![h.top] = {}], semantics.nonSimple)

DependencyOrder(h, dependencies) ==
  TopologicalOrder(DOMAIN h.components,
    {<<d, c>> : <<d, c>> \in {e \in (DOMAIN h.components) \X (DOMAIN h.components) :
                                e[1] \in dependencies[e[2]]}}, <<>>)

-----------------------------------------------------------------------------
\* MutableNfa: states are added at the end.
NewNfa(states) == [states |-> states, moves |-> {}, irregular |-> FALSE]

Transition(nfa, from, role, to) == [nfa EXCEPT !.moves = @ \cup {<<from, role, to>>}]

CopyBetween(nfa, automaton, from, to) ==
  LET at(s) == nfa.states + s
  IN  [nfa EXCEPT
         !.states = @ + automaton.states,
         !.moves  = @ \cup {<<from, 0, at(automaton.initial)>>}
                      \cup {<<at(m[1]), m[2], at(m[3])>> : m \in automaton.moves}
                      \cup {<<at(f), 0, to>> : f \in automaton.finals}]

CopySequence(nfa, complete, chain, from, to) ==
  LET step(s, i) ==
        LET last      == i = Len(chain)
            following == IF last THEN to ELSE s.nfa.states + 1
            room      == IF last THEN s.nfa ELSE [s.nfa EXCEPT !.states = @ + 1]
        IN  [nfa |-> CopyBetween(room, complete[chain[i]], s.at, following), at |-> following]
  IN  IF chain = <<>> THEN Transition(nfa, from, 0, to)
      ELSE FoldLeft(step, [nfa |-> nfa, at |-> from], [i \in DOMAIN chain |-> i]).nfa

Initial == 1

Final == 2

\* Mutant: a left-recursive chain loops at the start like a right-recursive one.
AddProductionLeftAtStart(nfa, complete, target, chain) ==
  LET positions == {i \in DOMAIN chain : chain[i] = target}
      rest      == SelectSeq(chain, LAMBDA c : c # target)
  IN  IF Len(chain) = 2 /\ positions = {1, 2} THEN Transition(nfa, Final, 0, Initial)
      ELSE IF positions # {} THEN CopySequence(nfa, complete, rest, Initial, Initial)
      ELSE CopySequence(nfa, complete, chain, Initial, Final)

\* A chain that recurs anywhere else is an error: the regularity check has
\* rejected it before.
AddProduction(nfa, complete, target, chain) ==
  LET positions == {i \in DOMAIN chain : chain[i] = target}
  IN  IF Len(chain) = 2 /\ positions = {1, 2} THEN Transition(nfa, Final, 0, Initial)
      ELSE IF positions = {1} THEN CopySequence(nfa, complete, Tail(chain), Final, Final)
      ELSE IF positions = {Len(chain)} THEN CopySequence(nfa, complete, Front(chain), Initial, Initial)
      ELSE IF positions # {} THEN [nfa EXCEPT !.irregular = TRUE]
      ELSE CopySequence(nfa, complete, chain, Initial, Final)

TopAutomaton(roles) ==
  [NewNfa(2) EXCEPT
     !.moves = {<<Initial, r, Final>> : r \in DOMAIN roles.values} \cup {<<Final, 0, Initial>>}]

ComponentAutomaton(h, complete, dependencies, chains, c) ==
  LET members == [NewNfa(2) EXCEPT !.moves = {<<Initial, r, Final>> : r \in h.components[c]}]
      simple  == FoldLeft(LAMBDA nfa, d : CopyBetween(nfa, complete[d], Initial, Final),
                          members, dependencies)
  IN  FoldLeft(LAMBDA nfa, chain : AddProduction(nfa, complete, c, chain), simple, chains)

\* freeze_automaton: states on no accepting path are dropped, the others are
\* numbered breadth-first along the sorted transitions.
RECURSIVE ReachedFrom(_, _)
ReachedFrom(moves, states) ==
  LET next == {m[3] : m \in {n \in moves : n[1] \in states}} \ states
  IN  IF next = {} THEN states ELSE ReachedFrom(moves, states \cup next)

RECURSIVE Renumber(_, _, _)
Renumber(moves, queue, order) ==
  IF queue = <<>> THEN order
  ELSE LET out  == Sorted({m \in moves : m[1] = Head(queue)}, LexLess)
           step(s, m) == IF m[3] \in Keys(s) THEN s ELSE Append(s, m[3])
           seen == order \o queue
           all  == FoldLeft(step, seen, out)
       IN  Renumber(moves, Tail(queue) \o SubSeq(all, Len(seen) + 1, Len(all)),
                    Append(order, Head(queue)))

FreezeAutomaton(c, nfa) ==
  LET kept    == ReachedFrom(nfa.moves, {Initial})
                   \cap ReachedFrom({<<m[3], m[2], m[1]>> : m \in nfa.moves}, {Final})
      moves   == {m \in nfa.moves : m[1] \in kept /\ m[3] \in kept}
      order   == Renumber(moves, <<Initial>>, <<>>)
      new(s)  == IdOf(order, s)
  IN  [component |-> c, states |-> Len(order), initial |-> new(Initial), finals |-> {new(Final)},
       moves     |-> {<<new(m[1]), m[2], new(m[3])>> : m \in moves}, irregular |-> nfa.irregular]

\* The automata are built in dependency order, each from those it depends on.
BuildAutomata(roles, simple, complex, h, semantics) ==
  LET productions  == Productions(complex, h)
      dependencies == SubroleDependencies(simple, h)
      selected     == SelectComponents(h, semantics)
      order        == SelectSeq(DependencyOrder(h, semantics.dependencies), LAMBDA c : c \in selected)
      build(done, c) ==
        LET nfa == IF c = h.top THEN TopAutomaton(roles)
                   ELSE ComponentAutomaton(h, done, dependencies[c],
                                           ProductionsForTarget(productions, c), c)
        IN  [d \in DOMAIN done \cup {c} |-> IF d = c THEN FreezeAutomaton(c, nfa) ELSE done[d]]
  IN  FoldLeft(build, [c \in {} |-> {}], order)

CompileRoleAutomata(roles, simple, complex, h, semantics) ==
  IF semantics.violations # {} THEN [c \in {} |-> {}]
  ELSE BuildAutomata(roles, simple, complex, h, semantics)

ValidAutomaton(roles, a) ==
  /\ ~a.irregular
  /\ a.initial \in 1..a.states
  /\ a.finals # {} /\ a.finals \subseteq 1..a.states
  /\ a.moves \subseteq (1..a.states) \X (0..Len(roles.values)) \X (1..a.states)
  /\ a.finals \cap ReachedFrom(a.moves, {a.initial}) # {}

ValidAutomata(roles, automata) ==
  \A c \in DOMAIN automata : automata[c].component = c /\ ValidAutomaton(roles, automata[c])

-----------------------------------------------------------------------------
\* Reading a word.

RECURSIVE EpsilonClosure(_, _)
EpsilonClosure(a, states) ==
  LET next == {m[3] : m \in {n \in a.moves : n[1] \in states /\ n[2] = 0}} \ states
  IN  IF next = {} THEN states ELSE EpsilonClosure(a, states \cup next)

AutomatonAccepts(a, word) ==
  LET step(states, r) ==
        EpsilonClosure(a, {m[3] : m \in {n \in a.moves : n[1] \in states /\ n[2] = r}})
  IN  FoldLeft(step, EpsilonClosure(a, {a.initial}), word) \cap a.finals # {}

\* RoleAutomataPhase::accepts: what has no automaton is decided by the hierarchy.
PhaseAccepts(roles, h, automata, role, word) ==
  LET target == h.byRole[role]
  IN  IF roles.bottom \in Keys(word) THEN TRUE
      ELSE IF target \in DOMAIN automata THEN AutomatonAccepts(automata[target], word)
      ELSE /\ Len(word) = 1
           /\ role = roles.top \/ target \in h.supers[h.byRole[word[1]]]

\* The role model: the inverse flag of a complex inclusion is forgotten and the
\* transitions are put in wire order.
FreezeComplexInclusions(complex) == {<<x.chain, x.super>> : x \in complex.inclusions}

FreezeAutomata(automata) ==
  [c \in DOMAIN automata |->
     [component |-> automata[c].component, states |-> automata[c].states,
      initial   |-> automata[c].initial, finals |-> automata[c].finals,
      moves     |-> automata[c].moves]]

ValidModelInputs(roles, h, semantics, automata) ==
  /\ DOMAIN h.byRole = DOMAIN roles.values
  /\ \A r \in DOMAIN roles.inverse : roles.inverse[roles.inverse[r]] = r
  /\ semantics.nonSimple \subseteq DOMAIN h.components
  /\ semantics.violations # {} => DOMAIN automata = {}

CompileRoleModel(roles, data, simple, dataInclusions, complex, h, semantics, automata) ==
  [objectCount |-> Len(roles.values), dataCount |-> Len(data.values),
   inverse     |-> roles.inverse, top |-> roles.top, bottom |-> roles.bottom,
   byRole      |-> h.byRole,
   simple      |-> Edges(simple.inclusions), data |-> Edges(dataInclusions.inclusions),
   complex     |-> FreezeComplexInclusions(complex),
   nonSimple   |-> semantics.nonSimple, regular |-> semantics.violations = {},
   automata    |-> FreezeAutomata(automata)]

ValidRoleModel(model) ==
  /\ model.inverse[model.top] = model.top /\ model.inverse[model.bottom] = model.bottom
  /\ \A e \in model.simple : {e[1], e[2]} \subseteq 1..model.objectCount
  /\ \A e \in model.data : {e[1], e[2]} \subseteq 1..model.dataCount
  /\ \A x \in model.complex : Len(x[1]) >= 2
  /\ DOMAIN model.automata \subseteq Keys(model.byRole)

\* RoleRuntime: a cursor is the set of active states.
RuntimeAutomaton(model, a) ==
  /\ a.states > 0 /\ a.initial \in 1..a.states /\ a.finals \subseteq 1..a.states
  /\ \A m \in a.moves : m[2] \in 0..model.objectCount
  /\ a.finals \cap ReachedFrom(a.moves, {a.initial}) # {}

RuntimeLoads(model) ==
  /\ \A r \in DOMAIN model.inverse : model.inverse[model.inverse[r]] = r
  /\ model.inverse[model.top] = model.top /\ model.inverse[model.bottom] = model.bottom
  /\ \A c \in DOMAIN model.automata : RuntimeAutomaton(model, model.automata[c])

Cursor(a) == EpsilonClosure(a, {a.initial})

Advance(a, active, role) ==
  EpsilonClosure(a, {m[3] : m \in {n \in a.moves : n[1] \in active /\ n[2] = role}})

\* A word dies as soon as no state is active.
RuntimeReads(a, word) ==
  LET step(s, r) == IF s.live THEN LET next == Advance(a, s.active, r)
                                   IN  [active |-> next, live |-> next # {}]
                    ELSE s
      end == FoldLeft(step, [active |-> Cursor(a), live |-> TRUE], word)
  IN  end.live /\ end.active \cap a.finals # {}

RuntimeAccepts(model, component, word) ==
  model.bottom \in Keys(word) \/ RuntimeReads(model.automata[component], word)

AcceptedComponents(model, word) ==
  {c \in DOMAIN model.automata : model.bottom \in Keys(word) \/ RuntimeReads(model.automata[c], word)}

InverseWord(model, word) == Reverse([i \in DOMAIN word |-> model.inverse[word[i]]])

-----------------------------------------------------------------------------
(***************************************************************************)
(* The clauses of the role axioms (encoded/role_clauses.rs): predicates    *)
(* for every object role and for the data properties that need one, one    *)
(* clause per inclusion or clash, alpha-canonical, merged by their text,   *)
(* with every source they come from and a join plan.                       *)
(***************************************************************************)
\* A data property gets a predicate only where a clause mentions it.
RetainedData(data, inclusions, characteristics) ==
  {data.bottom}
    \cup UNION {{x.sub, x.super} : x \in {y \in inclusions.inclusions : y.sub # y.super}}
    \cup UNION {{x.first, x.second} : x \in {y \in characteristics.clashes : y.kind = "disjointData"}}

\* predicate_key puts data roles first and writes the role in decimal.
Numbered(ids) == Sorted(ids, LAMBDA a, b : TextRank(a - 1) < TextRank(b - 1))

FreezePredicates(roles, retained) ==
  LET properties == Numbered(retained)
      objects    == Numbered(DOMAIN roles.values)
  IN  [data   |-> [d \in retained |-> IdOf(properties, d) - 1],
       object |-> [r \in DOMAIN roles.values |-> Len(properties) + IdOf(objects, r) - 1]]

ObjectAtom(p, role, i, j) == Atom(p.object[role], <<Object(i), Object(j)>>)

DataAtom(p, property, i, j) == Atom(p.data[property], <<Object(i), Datum(j)>>)

BuiltinProvenance == [sources |-> {BuiltinDigest}, generated |-> TRUE]

InclusionProvenance(digest) == [sources |-> {digest}, generated |-> FALSE]

PendingClause(body, head, provenance) == [body |-> body, head |-> head, provenance |-> provenance]

\* push_clause: the clause is canonicalized, and dropped when its head holds
\* whenever its body does.
Pushed(canonical, provenance) ==
  IF Items(canonical.body) \cap Items(canonical.head) # {} THEN {}
  ELSE {[ok |-> canonical.ok, body |-> canonical.body, head |-> canonical.head,
         provenance |-> provenance]}

PushRoleClause(c) == Pushed(CanonicalizeClause(c.body, c.head), c.provenance)

InverseClauses(p, roles) ==
  UNION {LET i == roles.inverse[r]
         IN  {PendingClause({ObjectAtom(p, r, 0, 1)}, {ObjectAtom(p, i, 1, 0)}, BuiltinProvenance),
              PendingClause({ObjectAtom(p, i, 0, 1)}, {ObjectAtom(p, r, 1, 0)}, BuiltinProvenance)}
           : r \in {s \in DOMAIN roles.inverse : s <= roles.inverse[s]}}

SimpleInclusionClauses(p, simple) ==
  {PendingClause({ObjectAtom(p, x.sub, 0, 1)}, {ObjectAtom(p, x.super, 0, 1)},
                 InclusionProvenance(x.provenance))
     : x \in {y \in simple.inclusions : y.sub # y.super}}

DataInclusionClauses(p, inclusions) ==
  {PendingClause({DataAtom(p, x.sub, 0, 1)}, {DataAtom(p, x.super, 0, 1)},
                 InclusionProvenance(x.provenance))
     : x \in {y \in inclusions.inclusions : y.sub # y.super}}

ComplexInclusionClauses(p, complex) ==
  {PendingClause({ObjectAtom(p, x.chain[i], i - 1, i) : i \in DOMAIN x.chain},
                 {ObjectAtom(p, x.super, 0, Len(x.chain))},
                 IF x.builtin THEN BuiltinProvenance ELSE InclusionProvenance(x.provenance))
     : x \in complex.inclusions}

PushCharacteristicClause(p, x, provenance) ==
  LET body ==
        CASE x.kind = "disjointObject" -> {ObjectAtom(p, x.first, 0, 1), ObjectAtom(p, x.second, 0, 1)}
          [] x.kind = "irreflexive"    -> {ObjectAtom(p, x.first, 0, 0)}
          [] x.kind = "asymmetric"     -> {ObjectAtom(p, x.first, 0, 1), ObjectAtom(p, x.first, 1, 0)}
          [] x.kind = "disjointData"   -> {DataAtom(p, x.first, 0, 1), DataAtom(p, x.second, 0, 1)}
  IN  PendingClause(body, {}, provenance)

\* The sources of the same statement about the same roles become one clause.
SameCharacteristic(x, y) ==
  x.kind = y.kind /\ x.first = y.first /\ x.second = y.second /\ x.statement = y.statement

CharacteristicClauses(p, characteristics) ==
  {PushCharacteristicClause(p, x,
     [sources   |-> {y.source : y \in {z \in characteristics.clashes : SameCharacteristic(x, z)}},
      generated |-> FALSE]) : x \in characteristics.clashes}

BottomRoleClauses(p, roles, data) ==
  {PendingClause({ObjectAtom(p, roles.bottom, 0, 1)}, {}, BuiltinProvenance),
   PendingClause({DataAtom(p, data.bottom, 0, 1)}, {}, BuiltinProvenance)}

CompileClauses(p, roles, data, simple, inclusions, complex, characteristics) ==
  UNION {PushRoleClause(c)
           : c \in InverseClauses(p, roles) \cup SimpleInclusionClauses(p, simple)
                     \cup DataInclusionClauses(p, inclusions) \cup ComplexInclusionClauses(p, complex)
                     \cup CharacteristicClauses(p, characteristics)
                     \cup BottomRoleClauses(p, roles, data)}

\* Mutant: of equal clauses the first is kept with its own sources.
MergeClausesFirst(pushed) ==
  {[body |-> c.body, head |-> c.head,
    provenance |-> {(CHOOSE d \in pushed : d.body = c.body /\ d.head = c.head).provenance}]
     : c \in pushed}

\* Equal clauses become one, with all their provenance.
MergeClauses(pushed) ==
  {[body |-> c.body, head |-> c.head,
    provenance |-> {d.provenance : d \in {e \in pushed : e.body = c.body /\ e.head = c.head}}]
     : c \in pushed}

FreezeRoleProvenance(clauses) == UNION {c.provenance : c \in clauses}

FreezeRoleClauses(clauses) ==
  {[body |-> c.body, head |-> c.head, provenance |-> c.provenance,
    join |-> PlanJoinOrder(c.body, {})] : c \in clauses}

\* The inputs are the ones the role model was frozen from.
ValidClauseInputs(roles, data, simple, inclusions, complex, characteristics, model) ==
  /\ model.objectCount = Len(roles.values) /\ model.dataCount = Len(data.values)
  /\ model.inverse = roles.inverse
  /\ model.simple = Edges(simple.inclusions) /\ model.data = Edges(inclusions.inclusions)
  /\ model.complex = FreezeComplexInclusions(complex)
  /\ ValidCharacteristics(characteristics)

ValidAtoms(atoms) == AtomsAreCanonical(atoms)

ValidClauses(clauses) ==
  \A c \in clauses :
    /\ c.body # <<>> /\ c.provenance # {}
    /\ ValidAtoms(c.body) /\ ValidAtoms(c.head)
    /\ Items(c.body) \cap Items(c.head) = {}
    /\ Items(c.join) = Items(c.body) /\ Len(c.join) = Len(c.body)

\* The phase from the clauses pushed: merged, given their join orders, validated.
Frozen(p, valid, pushed) ==
  LET merged  == MergeClauses(pushed)
      clauses == FreezeRoleClauses(merged)
  IN  [ok         |-> valid /\ (\A c \in pushed : c.ok) /\ ValidClauses(clauses),
       predicates |-> p, clauses |-> clauses, provenance |-> FreezeRoleProvenance(merged)]

CompileRoleClauses(roles, data, simple, inclusions, complex, characteristics, model) ==
  LET p == FreezePredicates(roles, RetainedData(data, inclusions, characteristics))
  IN  Frozen(p, ValidClauseInputs(roles, data, simple, inclusions, complex, characteristics, model),
             CompileClauses(p, roles, data, simple, inclusions, complex, characteristics))

=============================================================================
