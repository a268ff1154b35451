--------------------------- MODULE RoleReference ---------------------------
(***************************************************************************)
(* What the role axioms mean, stated over the axioms themselves: role      *)
(* keys instead of identifiers, sets and relations instead of graphs.      *)
(* The compiled phases are compared with it.                               *)
(***************************************************************************)
EXTENDS RoleInclusions

LOCAL INSTANCE SequencesExt

\* The role an expression denotes, by key.
RoleKey(e) == IF e.inverse THEN CounterpartKey(e.property) ELSE e.property

SourceChain(a) == [i \in DOMAIN a.chain |-> RoleKey(a.chain[i])]

ObjectExpressions(a) ==
  CASE a.kind = "subObject" -> {a.super} \cup Keys(a.chain)
    [] a.kind \in {"equivalentObject", "disjointObject"} -> a.members
    [] a.kind = "inverseObject" -> {a.first, a.second}
    [] a.kind \in {"symmetric", "transitive", "irreflexive", "asymmetric"} -> {a.first}
    [] OTHER -> {}

DataExpressions(a) ==
  CASE a.kind = "subData" -> {a.first, a.second}
    [] a.kind \in {"equivalentData", "disjointData"} -> a.members
    [] OTHER -> {}

ObjectProperties(axioms) == {e.property : e \in UNION {ObjectExpressions(a) : a \in axioms}}

DataProperties(axioms) == {e.property : e \in UNION {DataExpressions(a) : a \in axioms}}

RoleKeys(axioms) ==
  LET properties == ObjectProperties(axioms) \ Builtins
  IN  properties \cup {InverseKey(p) : p \in properties} \cup Builtins

\* The inclusions between two roles, with their inverses.
RoleInclusionPairs(a) ==
  CASE a.kind = "subObject" /\ Len(a.chain) = 1 -> {<<RoleKey(a.chain[1]), RoleKey(a.super)>>}
    [] a.kind = "equivalentObject" -> {<<RoleKey(p[1]), RoleKey(p[2])>> : p \in a.members \X a.members}
    [] a.kind = "inverseObject" ->
         {<<RoleKey(a.first), CounterpartKey(RoleKey(a.second))>>,
          <<CounterpartKey(RoleKey(a.second)), RoleKey(a.first)>>}
    [] a.kind = "symmetric" -> {<<RoleKey(a.first), CounterpartKey(RoleKey(a.first))>>}
    [] OTHER -> {}

DataInclusionPairs(a) ==
  CASE a.kind = "subData" -> {<<a.first.property, a.second.property>>}
    [] a.kind = "equivalentData" -> {<<p[1].property, p[2].property>> : p \in a.members \X a.members}
    [] OTHER -> {}

WithInverses(pairs) == pairs \cup {<<CounterpartKey(p[1]), CounterpartKey(p[2])>> : p \in pairs}

\* The chains, with their inverses.
SourceChains(axioms) ==
  LET written == {<<SourceChain(a), RoleKey(a.super)>>
                    : a \in {b \in OfKind(axioms, "subObject") : Len(b.chain) > 1}}
                 \cup {<<<<RoleKey(a.first), RoleKey(a.first)>>, RoleKey(a.first)>>
                         : a \in OfKind(axioms, "transitive")}
  IN  written \cup {<<Reverse([i \in DOMAIN c[1] |-> CounterpartKey(c[1][i])]), CounterpartKey(c[2])>>
                      : c \in written}

RECURSIVE TransitivePairs(_)
TransitivePairs(pairs) ==
  LET more == pairs \cup {<<p[1], q[2]>> : <<p, q>> \in {x \in pairs \X pairs : x[1][2] = x[2][1]}}
  IN  IF more = pairs THEN pairs ELSE TransitivePairs(more)

\* S is included in R, along the simple inclusions.
Included(keys, pairs) == TransitivePairs(pairs \cup {<<k, k>> : k \in keys})

ObjectPairs(axioms) == WithInverses(UNION {RoleInclusionPairs(a) : a \in axioms})

DataPairs(axioms) == UNION {DataInclusionPairs(a) : a \in axioms}

\* A role is composite when some chain ends in a role it includes, or a built-in.
CompositeRoles(axioms) ==
  LET included == Included(RoleKeys(axioms), ObjectPairs(axioms))
  IN  {r \in RoleKeys(axioms) :
         \E s \in Builtins \cup {c[2] : c \in SourceChains(axioms)} : <<s, r>> \in included}

\* The order the axioms force on the roles: every role of a chain that is not
\* equivalent to its super-role comes strictly before it, as does a strictly
\* smaller subrole.  Regular: the super-role recurs only at one end, or as
\* R R, never as its inverse, and the order has no cycle.
RegularHierarchy(axioms) ==
  LET included == Included(RoleKeys(axioms), ObjectPairs(axioms))
      same(r, s) == <<r, s>> \in included /\ <<s, r>> \in included
      chains   == {c \in SourceChains(axioms) : c[2] # TopKey}
      recurs(c) == {i \in DOMAIN c[1] : same(c[1][i], c[2])}
      before   == UNION {{<<c[1][i], c[2]>> : i \in DOMAIN c[1] \ recurs(c)} : c \in chains}
                  \cup {p \in included : ~same(p[1], p[2])}
      order    == TransitivePairs(before \cup {p \in included : same(p[1], p[2])})
  IN  /\ \A c \in chains :
           /\ \/ recurs(c) \in {{}, {1}, {Len(c[1])}}
              \/ Len(c[1]) = 2 /\ recurs(c) = {1, 2}
           /\ \A i \in DOMAIN c[1] : same(c[1][i], CounterpartKey(c[2])) => same(c[2], CounterpartKey(c[2]))
      /\ \A p \in before : <<p[2], p[1]>> \notin order

\* The words a role contains, up to a length, by derivation from the axioms.  The
\* universal role contains every word, and an empty role makes a word empty.
Words(alphabet, length) == UNION {[1..n -> alphabet] : n \in 1..length}

UpTo(words, length) == {w \in words : Len(w) <= length}

RECURSIVE WordsOfChain(_, _, _)
WordsOfChain(derived, chain, length) ==
  IF Len(chain) > length THEN {}
  ELSE IF Len(chain) = 1 THEN UpTo(derived[chain[1]], length)
  ELSE UNION {{v \o w : w \in WordsOfChain(derived, Tail(chain), length - Len(v))}
                : v \in UpTo(derived[chain[1]], length - 1)}

RECURSIVE DeriveWords(_, _, _)
DeriveWords(derived, rules, length) ==
  LET more == [r \in DOMAIN derived |->
                 derived[r] \cup UNION {WordsOfChain(derived, c[1], length) : c \in {d \in rules : d[2] = r}}]
  IN  IF more = derived THEN derived ELSE DeriveWords(more, rules, length)

\* The words derived for every role.
ContainedWords(axioms, alphabet, length) ==
  LET rules == SourceChains(axioms) \cup {<<<<p[1]>>, p[2]>> : p \in ObjectPairs(axioms)}
      seed  == [r \in RoleKeys(axioms) |->
                  IF r = TopKey THEN Words(alphabet, length) ELSE {<<r>>}]
  IN  DeriveWords(seed, {c \in rules : c[2] # TopKey}, length)

-----------------------------------------------------------------------------
\* Interpretations: a relation for every object role and data property, by key.

Extension(I, e) ==
  IF e.inverse THEN {<<p[2], p[1]>> : p \in I.object[e.property]} ELSE I.object[e.property]

RECURSIVE Composed(_, _)
Composed(I, chain) ==
  IF Len(chain) = 1 THEN Extension(I, chain[1])
  ELSE {<<x[1][1], x[2][2]>> : x \in {y \in Extension(I, chain[1]) \X Composed(I, Tail(chain)) :
                                        y[1][2] = y[2][1]}}

SatisfiesRoleAxiom(I, a) ==
  CASE a.kind = "subObject" -> Composed(I, a.chain) \subseteq Extension(I, a.super)
    [] a.kind = "equivalentObject" -> \A e, f \in a.members : Extension(I, e) = Extension(I, f)
    [] a.kind = "disjointObject" ->
         \A e, f \in a.members : e # f => Extension(I, e) \cap Extension(I, f) = {}
    [] a.kind = "inverseObject" ->
         Extension(I, a.first) = {<<p[2], p[1]>> : p \in Extension(I, a.second)}
    [] a.kind = "symmetric" -> \A p \in Extension(I, a.first) : <<p[2], p[1]>> \in Extension(I, a.first)
    [] a.kind = "transitive" ->
         \A p, q \in Extension(I, a.first) : p[2] = q[1] => <<p[1], q[2]>> \in Extension(I, a.first)
    [] a.kind = "irreflexive" -> \A p \in Extension(I, a.first) : p[1] # p[2]
    [] a.kind = "asymmetric" -> \A p \in Extension(I, a.first) : <<p[2], p[1]>> \notin Extension(I, a.first)
    [] a.kind = "subData" -> I.data[a.first.property] \subseteq I.data[a.second.property]
    [] a.kind = "equivalentData" ->
         \A e, f \in a.members : I.data[e.property] = I.data[f.property]
    [] a.kind = "disjointData" ->
         \A e, f \in a.members : e # f => I.data[e.property] \cap I.data[f.property] = {}

\* The built-ins and the inverses mean what they should.
Standard(I, domain, values) ==
  /\ I.object[BottomKey] = {} /\ I.data[BottomKey] = {}
  /\ I.object[TopKey] = domain \X domain /\ I.data[TopKey] = domain \X values
  /\ \A k \in DOMAIN I.object : I.object[CounterpartKey(k)] = {<<p[2], p[1]>> : p \in I.object[k]}
=============================================================================
