--------------------------- MODULE RoleInclusions ---------------------------
(***************************************************************************)
(* The per-slice role phases of the native compiler: the dense object-role *)
(* and data-property domains, the simple and complex inclusions, the role  *)
(* clashes, and how the phases of several slices are merged               *)
(* (encoded/object_roles.rs, data_roles.rs, simple_roles.rs,               *)
(* complex_roles.rs, data_inclusions.rs, role_characteristics.rs).         *)
(*                                                                         *)
(* A canonical key is a number: the key of a property is its own number,   *)
(* the key of its inverse lies above every forward key, as the tag of      *)
(* ObjectInverseOf sorts above the entity tag.  An identifier is a         *)
(* position in a sorted domain (counted from 1), so the identifiers of two *)
(* slices differ whenever their signatures do, and merging has to go       *)
(* through the keys.  Digests are numbers too: an axiom has a `statement'  *)
(* (its digest without annotations) and a `source' (with them).            *)
(***************************************************************************)
EXTENDS Naturals, Sequences, FiniteSets, FiniteSetsExt

LOCAL INSTANCE SequencesExt

(***************************************************************************)
(* The alpha-canonical form of a rule and its join plan, as the native     *)
(* compiler computes them for role clauses (encoded/role_clauses.rs).      *)
(* Variables are renamed by first occurrence and the atoms are sorted      *)
(* again, until neither changes anything.  The atoms are sorted by their   *)
(* JSON text, so variable 10 comes before variable 2.                      *)
(*                                                                         *)
(* An atom is a record: predicate (its identifier) and terms (a sequence   *)
(* of <<index, sort>>, sort 0 for data and 1 for objects).                 *)
(***************************************************************************)
LexLess(s, t) ==
  LET common == 1..(IF Len(s) < Len(t) THEN Len(s) ELSE Len(t))
  IN  \/ \E i \in common : s[i] < t[i] /\ \A j \in 1..(i - 1) : s[j] = t[j]
      \/ Len(s) < Len(t) /\ \A j \in common : s[j] = t[j]

\* The members of S in increasing order.
Sorted(S, Less(_, _)) ==
  LET rank == [x \in S |-> Cardinality({y \in S : Less(y, x)})]
  IN  [i \in 1..Cardinality(S) |-> CHOOSE x \in S : rank[x] = i - 1]

Items(s) == {s[i] : i \in DOMAIN s}

\* The order of two numbers below 100 written in decimal.
TextRank(n) == IF n < 10 THEN n * 11 ELSE (n \div 10) * 11 + 1 + (n % 10)

Object(index) == <<index, 1>>

Datum(index) == <<index, 0>>

Atom(predicate, terms) == [predicate |-> predicate, terms |-> terms]

Flat(parts) == FoldLeft(LAMBDA s, part : s \o part, <<>>, parts)

\* alpha_skeleton_compare: by predicate, then by the terms as numbers.
AlphaSkeleton(a) ==
  <<a.predicate>> \o Flat([i \in DOMAIN a.terms |-> <<a.terms[i][2], a.terms[i][1]>>])

\* canonical_atom_key: the terms come first in the text, and where one list of
\* terms ends the longer one continues with a comma, which sorts first.
CanonicalAtomKey(a) ==
  Flat([i \in DOMAIN a.terms |->
          <<TextRank(a.terms[i][1]), a.terms[i][2], IF i = Len(a.terms) THEN 1 ELSE 0>>])
    \o <<TextRank(a.predicate)>>

SortBySkeleton(atoms) ==
  Sorted(atoms, LAMBDA a, b : LexLess(AlphaSkeleton(a), AlphaSkeleton(b)))

CanonicalSort(atoms) ==
  Sorted(atoms, LAMBDA a, b : LexLess(CanonicalAtomKey(a), CanonicalAtomKey(b)))

AtomsAreCanonical(atoms) ==
  \A i \in 2..Len(atoms) : LexLess(CanonicalAtomKey(atoms[i - 1]), CanonicalAtomKey(atoms[i]))

\* The variables of a list of atoms, in the order of their first occurrence.
FirstOccurrences(atoms) ==
  FoldLeft(LAMBDA seen, t : IF t \in Items(seen) THEN seen ELSE Append(seen, t),
           <<>>, Flat([i \in DOMAIN atoms |-> atoms[i].terms]))

RenameAtom(a, mapping) ==
  [a EXCEPT !.terms = [i \in DOMAIN @ |->
     <<(CHOOSE k \in DOMAIN mapping : mapping[k] = @[i]) - 1, @[i][2]>>]]

Diverged == [ok |-> FALSE, body |-> <<>>, head |-> <<>>]

-----------------------------------------------------------------------------
\* canonicalize_clause of role_clauses.rs.

RECURSIVE AlphaPasses(_, _, _)
AlphaPasses(body, head, passes) ==
  LET mapping  == FirstOccurrences(body \o head)
      identity == \A k \in DOMAIN mapping : mapping[k][1] = k - 1
      next(atoms) == CanonicalSort({RenameAtom(a, mapping) : a \in Items(atoms)})
  IN  IF passes = 0 THEN Diverged
      ELSE IF identity /\ AtomsAreCanonical(body) /\ AtomsAreCanonical(head)
      THEN [ok |-> TRUE, body |-> body, head |-> head]
      ELSE AlphaPasses(next(body), next(head), passes - 1)

CanonicalizeClause(body, head) ==
  LET first == SortBySkeleton(body)
      then  == SortBySkeleton(head)
  IN  AlphaPasses(first, then, Len(FirstOccurrences(first \o then)) + 2)

-----------------------------------------------------------------------------
\* Join plans: the next atom is one that is no unbound filter, shares a bound
\* variable, and brings the fewest new ones.

NewTerms(a, bound) == {i \in DOMAIN a.terms : a.terms[i] \notin bound}

JoinRank(a, bound, filters, new, shared) ==
  <<IF a.predicate \in filters /\ new > 0 THEN 1 ELSE 0, IF shared = 0 THEN 1 ELSE 0,
    new, Len(a.terms)>> \o CanonicalAtomKey(a)

\* plan_join_order counts the terms of an atom one by one.
PlanRank(a, bound, filters) ==
  JoinRank(a, bound, filters, Cardinality(NewTerms(a, bound)),
           Cardinality(DOMAIN a.terms \ NewTerms(a, bound)))

Best(atoms, Rank(_)) ==
  CHOOSE a \in atoms : \A b \in atoms \ {a} : LexLess(Rank(a), Rank(b))

RECURSIVE PlanFrom(_, _, _, _)
PlanFrom(remaining, bound, filters, plan) ==
  IF remaining = {} THEN plan
  ELSE LET best == Best(remaining, LAMBDA a : PlanRank(a, bound, filters))
       IN  PlanFrom(remaining \ {best}, bound \cup Items(best.terms), filters, Append(plan, best))

PlanJoinOrder(body, filters) == PlanFrom(Items(body), {}, filters, <<>>)

\* A plan that never joins two unrelated relations, and evaluates no filter
\* before its terms are bound.
PlanConnected(plan, filters) ==
  \A i \in 2..Len(plan) :
    LET bound == UNION {Items(plan[j].terms) : j \in 1..(i - 1)}
    IN  /\ Items(plan[i].terms) \cap bound # {}
        /\ plan[i].predicate \in filters => Items(plan[i].terms) \subseteq bound

-----------------------------------------------------------------------------
TopKey == 50

BottomKey == 49

Builtins == {TopKey, BottomKey}

InverseTag == 100

InverseKey(property) == InverseTag + property

\* The digest of the seed from which built-in provenance is computed.
BuiltinDigest == 0

\* A domain: every key once, in key order.
Dense(keys) == Sorted(keys, LAMBDA a, b : a < b)

Keys(domain) == {domain[i] : i \in DOMAIN domain}

HasId(domain, key) == key \in Keys(domain)

IdOf(domain, key) == CHOOSE i \in DOMAIN domain : domain[i] = key

DenseDomain(domain) == \A i \in 2..Len(domain) : domain[i - 1] < domain[i]

-----------------------------------------------------------------------------
\* Object roles: every named property with its inverse, and the two
\* self-inverse built-ins.

CounterpartKey(key) ==
  IF key \in Builtins THEN key
  ELSE IF key > InverseTag THEN key - InverseTag ELSE InverseKey(key)

RoleIdByKey(values, key) == IdOf(values, key)

FreezeRoles(candidates) ==
  LET values == Dense(candidates)
  IN  [values  |-> values,
       inverse |-> [i \in DOMAIN values |-> RoleIdByKey(values, CounterpartKey(values[i]))],
       top     |-> RoleIdByKey(values, TopKey),
       bottom  |-> RoleIdByKey(values, BottomKey)]

CompileObjectRoles(properties) ==
  FreezeRoles(properties \cup {InverseKey(p) : p \in properties \ Builtins} \cup Builtins)

MergeObjectRoles(phases) ==
  FreezeRoles(UNION {Keys(phases[i].values) : i \in DOMAIN phases})

ValidObjectRoles(roles) ==
  /\ DenseDomain(roles.values)
  /\ DOMAIN roles.inverse = DOMAIN roles.values
  /\ \A i \in DOMAIN roles.inverse : roles.inverse[roles.inverse[i]] = i
  /\ roles.values[roles.top] = TopKey
  /\ roles.values[roles.bottom] = BottomKey
  /\ \A b \in {roles.top, roles.bottom} : roles.inverse[b] = b

-----------------------------------------------------------------------------
\* Data properties: the same domain without inverses.

FreezeProperties(candidates) ==
  LET values == Dense(candidates)
  IN  [values |-> values, top |-> IdOf(values, TopKey), bottom |-> IdOf(values, BottomKey)]

CompileDataRoles(properties) == FreezeProperties(properties \cup Builtins)

MergeDataRoles(phases) ==
  FreezeProperties(UNION {Keys(phases[i].values) : i \in DOMAIN phases})

ValidDataRoles(roles) ==
  /\ DenseDomain(roles.values)
  /\ roles.values[roles.top] = TopKey
  /\ roles.values[roles.bottom] = BottomKey

-----------------------------------------------------------------------------
\* Expressions.  An object-property expression is a named property or its
\* inverse; the inverse of a built-in is written in the source but denotes the
\* built-in itself.

Named(property) == [property |-> property, inverse |-> FALSE]

InverseOf(property) == [property |-> property, inverse |-> TRUE]

StructuralKey(e) == IF e.inverse THEN InverseKey(e.property) ELSE e.property

InverseRoleId(roles, id) == roles.inverse[id]

\* simple_roles.rs, complex_roles.rs and role_characteristics.rs each resolve
\* an expression through the slice's own domain.
Resolve(roles, e) ==
  LET id == IdOf(roles.values, e.property)
  IN  IF e.inverse THEN InverseRoleId(roles, id) ELSE id

SimpleRoleExpression(roles, e) == Resolve(roles, e)

ComplexRoleExpression(roles, e) == Resolve(roles, e)

ClashRoleExpression(roles, e) == Resolve(roles, e)

DataPropertyExpression(roles, e) == IdOf(roles.values, e.property)

ClashDataExpression(roles, e) == IdOf(roles.values, e.property)

\* A set-valued field arrives in the canonical order of its members.
Members(axiom) ==
  Sorted(axiom.members, LAMBDA a, b : StructuralKey(a) < StructuralKey(b))

-----------------------------------------------------------------------------
\* Simple inclusions.

AddSimple(roles, sub, sup, digest) ==
  {[sub |-> sub, super |-> sup, provenance |-> digest],
   [sub |-> InverseRoleId(roles, sub), super |-> InverseRoleId(roles, sup),
    provenance |-> digest]}

CompileSubObjectProperty(roles, axiom) ==
  IF Len(axiom.chain) > 1 THEN {}
  ELSE AddSimple(roles, SimpleRoleExpression(roles, axiom.chain[1]),
                 SimpleRoleExpression(roles, axiom.super), axiom.statement)

\* The first member is made equivalent to each of the others.
CompileEquivalentObjectProperties(roles, axiom) ==
  LET ids == [i \in DOMAIN Members(axiom) |-> SimpleRoleExpression(roles, Members(axiom)[i])]
  IN  UNION {AddSimple(roles, ids[1], ids[i], axiom.statement)
               \cup AddSimple(roles, ids[i], ids[1], axiom.statement) : i \in 2..Len(ids)}

CompileInverseObjectProperties(roles, axiom) ==
  LET first   == SimpleRoleExpression(roles, axiom.first)
      inverse == InverseRoleId(roles, SimpleRoleExpression(roles, axiom.second))
  IN  AddSimple(roles, first, inverse, axiom.statement)
        \cup AddSimple(roles, inverse, first, axiom.statement)

CompileSymmetricObjectProperty(roles, axiom) ==
  LET role    == SimpleRoleExpression(roles, axiom.first)
      inverse == InverseRoleId(roles, role)
  IN  AddSimple(roles, role, inverse, axiom.statement)
        \cup AddSimple(roles, inverse, role, axiom.statement)

\* Of the inclusions between the same two roles the least digest is kept.
KeepFirst(raw) ==
  {x \in raw : \A y \in raw :
     (y.sub = x.sub /\ y.super = x.super) => x.provenance <= y.provenance}

FreezeSimple(raw, digests) == [inclusions |-> KeepFirst(raw), digests |-> digests]

OfKind(axioms, kind) == {a \in axioms : a.kind = kind}

CompileSimpleRoles(roles, axioms) ==
  LET direct     == {a \in OfKind(axioms, "subObject") : Len(a.chain) = 1}
      equivalent == OfKind(axioms, "equivalentObject")
      inverse    == OfKind(axioms, "inverseObject")
      symmetric  == OfKind(axioms, "symmetric")
  IN  FreezeSimple(UNION ({CompileSubObjectProperty(roles, a) : a \in direct}
                     \cup {CompileEquivalentObjectProperties(roles, a) : a \in equivalent}
                     \cup {CompileInverseObjectProperties(roles, a) : a \in inverse}
                     \cup {CompileSymmetricObjectProperty(roles, a) : a \in symmetric}),
                   {a.statement : a \in direct \cup equivalent \cup inverse \cup symmetric})

\* Mutant: a slice's identifiers are used in the merged domain as they are.
RemapRoleUnchanged(source, merged, id) == id

RemapRole(source, merged, id) == RoleIdByKey(merged.values, source.values[id])

MergeSimpleRoles(roles, phases, merged) ==
  FreezeSimple(UNION {{[sub        |-> RemapRole(roles[i], merged, x.sub),
                        super      |-> RemapRole(roles[i], merged, x.super),
                        provenance |-> x.provenance] : x \in phases[i].inclusions}
                       : i \in DOMAIN phases},
               UNION {phases[i].digests : i \in DOMAIN phases})

-----------------------------------------------------------------------------
\* Complex inclusions.  Every chain comes with the inverse chain, unless that is
\* the same inclusion; the universal role is transitive by itself.

AddChain(roles, chain, super, digest, builtin) ==
  LET mirrored == Reverse([i \in DOMAIN chain |-> InverseRoleId(roles, chain[i])])
      mirror   == InverseRoleId(roles, super)
      plain    == [chain |-> chain, super |-> super, provenance |-> digest,
                   generated |-> FALSE, builtin |-> builtin]
  IN  {plain} \cup IF mirrored = chain /\ mirror = super THEN {}
                   ELSE {[plain EXCEPT !.chain = mirrored, !.super = mirror, !.generated = TRUE]}

RoleChain(roles, chain) == [i \in DOMAIN chain |-> ComplexRoleExpression(roles, chain[i])]

CompileChainInclusion(roles, axiom) ==
  AddChain(roles, RoleChain(roles, axiom.chain), ComplexRoleExpression(roles, axiom.super),
           axiom.statement, FALSE)

CompileTransitiveObjectProperty(roles, axiom) ==
  LET role == ComplexRoleExpression(roles, axiom.first)
  IN  AddChain(roles, <<role, role>>, role, axiom.statement, FALSE)

AddBuiltinTopTransitivity(roles) ==
  AddChain(roles, <<roles.top, roles.top>>, roles.top, BuiltinDigest, TRUE)

SameSemanticInclusion(x, y) ==
  x.super = y.super /\ x.chain = y.chain /\ x.generated = y.generated

\* Of equal inclusions the last in order survives: the built-in one, or the one
\* with the greatest statement key.
SortsAfter(x, y) ==
  IF x.builtin # y.builtin THEN x.builtin ELSE x.provenance > y.provenance

FreezeComplex(raw, digests) ==
  [inclusions |-> {x \in raw : \A y \in raw : SameSemanticInclusion(x, y) => ~SortsAfter(y, x)},
   digests    |-> digests]

CompileComplexRoles(roles, axioms) ==
  LET chains     == {a \in OfKind(axioms, "subObject") : Len(a.chain) > 1}
      transitive == OfKind(axioms, "transitive")
  IN  FreezeComplex(UNION {CompileChainInclusion(roles, a) : a \in chains}
                      \cup UNION {CompileTransitiveObjectProperty(roles, a) : a \in transitive}
                      \cup AddBuiltinTopTransitivity(roles),
                    {a.statement : a \in chains \cup transitive})

MergeComplexRoles(roles, phases, merged) ==
  FreezeComplex(UNION {{[x EXCEPT !.chain = [j \in DOMAIN @ |-> RemapRole(roles[i], merged, @[j])],
                                  !.super = RemapRole(roles[i], merged, @)]
                          : x \in phases[i].inclusions} : i \in DOMAIN phases},
                UNION {phases[i].digests : i \in DOMAIN phases})

\* compare_raw: by super-role, then chain, then the generated ones last.
CompareComplex(x, y) ==
  IF x.super # y.super THEN x.super < y.super
  ELSE IF x.chain # y.chain THEN LexLess(x.chain, y.chain)
  ELSE ~x.generated /\ y.generated

InOrder(phase) == Sorted(phase.inclusions, CompareComplex)

ValidSimple(phase) ==
  \A x, y \in phase.inclusions : (x.sub = y.sub /\ x.super = y.super) => x = y

ValidComplex(phase) ==
  /\ \A x \in phase.inclusions : Len(x.chain) >= 2 /\ ~(x.builtin /\ x.generated)
  /\ \A x, y \in phase.inclusions : SameSemanticInclusion(x, y) => x = y

-----------------------------------------------------------------------------
\* Data-property inclusions.

AddInclusion(sub, sup, digest) == {[sub |-> sub, super |-> sup, provenance |-> digest]}

CompileSubDataProperty(roles, axiom) ==
  AddInclusion(DataPropertyExpression(roles, axiom.first),
               DataPropertyExpression(roles, axiom.second), axiom.statement)

CompileEquivalentDataProperties(roles, axiom) ==
  LET ids == [i \in DOMAIN Members(axiom) |-> DataPropertyExpression(roles, Members(axiom)[i])]
  IN  UNION {AddInclusion(ids[1], ids[i], axiom.statement)
               \cup AddInclusion(ids[i], ids[1], axiom.statement) : i \in 2..Len(ids)}

FreezeDataInclusions(raw, digests) == [inclusions |-> KeepFirst(raw), digests |-> digests]

CompileDataInclusions(roles, axioms) ==
  LET sub        == OfKind(axioms, "subData")
      equivalent == OfKind(axioms, "equivalentData")
  IN  FreezeDataInclusions(UNION ({CompileSubDataProperty(roles, a) : a \in sub}
                             \cup {CompileEquivalentDataProperties(roles, a) : a \in equivalent}),
                           {a.statement : a \in sub \cup equivalent})

RemapProperty(source, merged, id) == IdOf(merged.values, source.values[id])

MergeDataInclusions(roles, phases, merged) ==
  FreezeDataInclusions(
    UNION {{[sub        |-> RemapProperty(roles[i], merged, x.sub),
             super      |-> RemapProperty(roles[i], merged, x.super),
             provenance |-> x.provenance] : x \in phases[i].inclusions} : i \in DOMAIN phases},
    UNION {phases[i].digests : i \in DOMAIN phases})

-----------------------------------------------------------------------------
\* Role clashes: disjoint, irreflexive and asymmetric roles.  A clash carries
\* its statement and its annotated source; 0 stands for no second role.

Clash(kind, first, second, axiom) ==
  [kind |-> kind, first |-> first, second |-> second,
   statement |-> axiom.statement, source |-> axiom.source]

Pairs(kind, ids, axiom) ==
  {Clash(kind, ids[i], ids[j], axiom) :
     <<i, j>> \in {p \in (DOMAIN ids) \X (DOMAIN ids) : p[1] < p[2]}}

AppendObjectPairs(ids, axiom) == Pairs("disjointObject", ids, axiom)

AppendDataPairs(ids, axiom) == Pairs("disjointData", ids, axiom)

CompileDisjointObjectProperties(roles, axiom) ==
  AppendObjectPairs([i \in DOMAIN Members(axiom) |-> ClashRoleExpression(roles, Members(axiom)[i])],
                    axiom)

CompileDisjointDataProperties(roles, axiom) ==
  AppendDataPairs([i \in DOMAIN Members(axiom) |-> ClashDataExpression(roles, Members(axiom)[i])],
                  axiom)

CompileSingleObjectCharacteristic(roles, axiom) ==
  {Clash(axiom.kind, ClashRoleExpression(roles, axiom.first), 0, axiom)}

FreezeCharacteristics(raw, digests) == [clashes |-> raw, digests |-> digests]

CompileRoleCharacteristics(objects, data, axioms) ==
  LET disjoint     == OfKind(axioms, "disjointObject")
      single       == OfKind(axioms, "irreflexive") \cup OfKind(axioms, "asymmetric")
      disjointData == OfKind(axioms, "disjointData")
  IN  FreezeCharacteristics(
        UNION ({CompileDisjointObjectProperties(objects, a) : a \in disjoint}
          \cup {CompileSingleObjectCharacteristic(objects, a) : a \in single}
          \cup {CompileDisjointDataProperties(data, a) : a \in disjointData}),
        {a.source : a \in disjoint \cup single \cup disjointData})

RemapClashRole(source, merged, id) ==
  IF id = 0 THEN 0 ELSE IdOf(merged.values, source.values[id])

MergeRoleCharacteristics(objects, data, phases, mergedObjects, mergedData) ==
  FreezeCharacteristics(
    UNION {{LET source == IF x.kind = "disjointData" THEN data[i] ELSE objects[i]
                merged == IF x.kind = "disjointData" THEN mergedData ELSE mergedObjects
            IN  [x EXCEPT !.first  = RemapClashRole(source, merged, @),
                          !.second = RemapClashRole(source, merged, @)]
              : x \in phases[i].clashes} : i \in DOMAIN phases},
    UNION {phases[i].digests : i \in DOMAIN phases})

ValidCharacteristics(phase) ==
  \A x \in phase.clashes : (x.kind \in {"disjointObject", "disjointData"}) = (x.second # 0)
=============================================================================
