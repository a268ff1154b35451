--------------------------- MODULE ServicePrograms ---------------------------
(***************************************************************************)
(* The compiled programs the native services read, the tableau that        *)
(* answers their queries, and what a program entails.                      *)
(*                                                                         *)
(* An atom is <<kind, identifier, arguments>>.  An argument below          *)
(* FirstConstant is a variable of a clause, any other one is an individual *)
(* or a data value.  A program is a record of                              *)
(*   classes, roles, properties   the public identifiers of each domain,   *)
(*                                with their top and bottom identifiers;   *)
(*   named, anonymous             the individuals;                         *)
(*   literals                     source literal -> data value;            *)
(*   clauses                      records of body, head and builtin, which *)
(*                                is the provenance the services look at;  *)
(*   facts, disjunctions          ground atoms, and sets of ground atoms;  *)
(*   inclusions, dataInclusions   the simple inclusions of the role model; *)
(*   equality                     nominals, number restrictions or keys    *)
(*                                occur.                                   *)
(*                                                                         *)
(* The tableau derives owl:Thing only where the program asserts it, which  *)
(* is the difference between Satisfiable and the meaning of a program.     *)
(***************************************************************************)
EXTENDS Integers, Sequences, FiniteSets, FiniteSetsExt

FirstConstant == 10

IsVariable(term) == term < FirstConstant

Concept(C, x)  == <<"concept", C, <<x>>>>
Object(R, x, y) == <<"object", R, <<x, y>>>>
Data(P, x, v)  == <<"data", P, <<x, v>>>>
Equal(x, y)    == <<"equality", 0, <<x, y>>>>
Unequal(x, y)  == <<"inequality", 0, <<x, y>>>>

OppositeKind(kind) ==
  CASE kind = "concept" -> "negated_concept"
    [] kind = "object"  -> "negated_object"
    [] kind = "data"    -> "negated_data"
    [] kind = "equality" -> "inequality"
    [] kind = "inequality" -> "equality"

Opposite(atom) == <<OppositeKind(atom[1]), atom[2], atom[3]>>

Clause(body, head) == [body |-> body, head |-> head, builtin |-> FALSE]

Builtin(body, head) == [body |-> body, head |-> head, builtin |-> TRUE]

Arguments(atoms) == UNION {{atom[3][i] : i \in DOMAIN atom[3]} : atom \in atoms}

(***************************************************************************)
(* The tableau: a branch holds the groups of merged individuals and the    *)
(* atoms over their representatives.                                       *)
(***************************************************************************)
Rep(groups, x) == Min(CHOOSE g \in groups : x \in g)

Mapped(atom, f(_)) ==
  <<atom[1], atom[2], IF Len(atom[3]) = 1 THEN <<f(atom[3][1])>> ELSE <<f(atom[3][1]), f(atom[3][2])>>>>

Renamed(groups, atom) == Mapped(atom, LAMBDA x : Rep(groups, x))

Holds(branch, atom) ==
  IF atom[1] = "equality" THEN Rep(branch.groups, atom[3][1]) = Rep(branch.groups, atom[3][2])
  ELSE Renamed(branch.groups, atom) \in branch.atoms

Merge(branch, x, y) ==
  LET joined == {g \in branch.groups : x \in g \/ y \in g}
      groups == (branch.groups \ joined) \cup {UNION joined}
  IN  [groups |-> groups, atoms |-> {Renamed(groups, a) : a \in branch.atoms}]

Derive(branch, atom) ==
  IF atom[1] = "equality" THEN Merge(branch, atom[3][1], atom[3][2])
  ELSE [branch EXCEPT !.atoms = @ \cup {Renamed(branch.groups, atom)}]

Clashes(branch) ==
  \E atom \in branch.atoms :
    IF atom[1] = "inequality" THEN atom[3][1] = atom[3][2]
    ELSE atom[1] \in {"concept", "object", "data"} /\ Opposite(atom) \in branch.atoms

Ground(atom, values) == Mapped(atom, LAMBDA t : IF IsVariable(t) THEN values[t] ELSE t)

\* The heads of the clause instances a branch does not satisfy yet.
Unsatisfied(clauses, branch) ==
  UNION {LET variables == {t \in Arguments(c.body) : IsVariable(t)}
             open == {v \in [variables -> {Min(g) : g \in branch.groups}] :
                        /\ \A b \in c.body : Holds(branch, Ground(b, v))
                        /\ \A h \in c.head : ~ Holds(branch, Ground(h, v))}
         IN  {{Ground(h, v) : h \in c.head} : v \in open}
           : c \in clauses}

RECURSIVE DeriveAll(_, _)
DeriveAll(branch, atoms) ==
  LET equalities == {a \in atoms : a[1] = "equality"}
  IN  IF equalities = {} THEN [branch EXCEPT !.atoms = @ \cup {Renamed(branch.groups, a) : a \in atoms}]
      ELSE LET a == CHOOSE b \in equalities : TRUE IN DeriveAll(Derive(branch, a), atoms \ {a})

\* The saturated branches without a clash; heads of one atom come first.
RECURSIVE Completions(_, _)
Completions(clauses, branch) ==
  IF Clashes(branch) THEN {}
  ELSE LET open  == Unsatisfied(clauses, branch)
           units == UNION {h \in open : Cardinality(h) = 1}
       IN  CASE open = {}   -> {branch}
             [] {} \in open -> {}
             [] units # {}  -> Completions(clauses, DeriveAll(branch, units))
             [] OTHER       -> LET head == CHOOSE h \in open : TRUE
                               IN  UNION {Completions(clauses, Derive(branch, h1)) : h1 \in head}

Elements(p) == p.named \cup p.anonymous \cup {p.literals[l] : l \in DOMAIN p.literals}

\* A query's clauses and facts are added to the program's; an atom or a
\* clause both have is there once.
CombinedClauses(p, clauses) ==
  p.clauses \cup clauses \cup {[body |-> {}, head |-> d, builtin |-> FALSE] : d \in p.disjunctions}

CombinedFacts(p, facts) == p.facts \cup facts

BranchesOf(p, fresh, clauses, facts) ==
  LET elements == Elements(p) \cup fresh
      root     == DeriveAll([groups |-> {{e} : e \in elements}, atoms |-> {}], CombinedFacts(p, facts))
  IN  Completions(CombinedClauses(p, clauses), root)

\* The tableau's answer to a query that adds individuals, clauses and facts.
Satisfiable(p, fresh, clauses, facts) == BranchesOf(p, fresh, clauses, facts) # {}

CheckPermanent(p) == Satisfiable(p, {}, {}, {})

(***************************************************************************)
(* What a program means: the top class, role and property hold everywhere, *)
(* and an atom is entailed when every model has it.                        *)
(***************************************************************************)
Universal(p, objects, values) ==
  {Concept(p.topClass, x) : x \in objects}
    \cup {Object(p.topRole, x, y) : x, y \in objects}
    \cup {Data(p.topProperty, x, v) : x \in objects, v \in values}

Models(p, objects, values, facts) ==
  BranchesOf(p, objects \cup values, {},
             facts \cup Universal(p, p.named \cup p.anonymous \cup objects,
                                  {p.literals[l] : l \in DOMAIN p.literals} \cup values))

Entailed(models, atom) == \A m \in models : Holds(m, atom)

\* An individual, another one and a data value nothing is known of.
FreshIndividual == 97
FreshTarget     == 98
FreshValue      == 99

\* child is subsumed by parent in a domain.
Subsumed(p, domain, child, parent) ==
  CASE domain = "classes" ->
         Entailed(Models(p, {FreshIndividual}, {}, {Concept(child, FreshIndividual)}),
                  Concept(parent, FreshIndividual))
    [] domain = "roles" ->
         Entailed(Models(p, {FreshIndividual, FreshTarget}, {},
                         {Object(child, FreshIndividual, FreshTarget)}),
                  Object(parent, FreshIndividual, FreshTarget))
    [] domain = "properties" ->
         Entailed(Models(p, {FreshIndividual}, {FreshValue}, {Data(child, FreshIndividual, FreshValue)}),
                  Data(parent, FreshIndividual, FreshValue))

Public(p, domain) ==
  CASE domain = "classes" -> p.classes [] domain = "roles" -> p.roles
    [] domain = "properties" -> p.properties

Top(p, domain) ==
  CASE domain = "classes" -> p.topClass [] domain = "roles" -> p.topRole
    [] domain = "properties" -> p.topProperty

Bottom(p, domain) ==
  CASE domain = "classes" -> p.bottomClass [] domain = "roles" -> p.bottomRole
    [] domain = "properties" -> p.bottomProperty

Subsumption(p, domain) ==
  {<<c, d>> \in Public(p, domain) \X Public(p, domain) : Subsumed(p, domain, c, d)}

\* The taxonomy of a subsumption over some elements: its equivalence
\* classes, and the transitive reduction of the order between them.
Taxonomy(subsumption, elements) ==
  LET class(c) == {d \in elements : <<c, d>> \in subsumption /\ <<d, c>> \in subsumption}
      nodes    == {class(c) : c \in elements}
      below(n, m) == n # m /\ \A c \in n, d \in m : <<c, d>> \in subsumption
  IN  [nodes |-> nodes,
       edges |-> {<<n, m>> \in nodes \X nodes :
                    below(n, m) /\ ~ \E k \in nodes : below(n, k) /\ below(k, m)}]
=============================================================================
