--------------------------- MODULE MCRoleCompiler ---------------------------
(***************************************************************************)
(* Programs of one to three slices over the object properties 1, 2 and 60  *)
(* (60 sorts after the built-ins) and two data properties.                 *)
(***************************************************************************)
EXTENDS RoleReference

N(property) == Named(property)

I(property) == InverseOf(property)

\* An axiom with statement n; `source' tells its annotated copies apart.
Chain(n, chain, super) ==
  [kind |-> "subObject", chain |-> chain, super |-> super, statement |-> n, source |-> n]

Sub(n, sub, super) == Chain(n, <<sub>>, super)

Of(n, kind, members) == [kind |-> kind, members |-> members, statement |-> n, source |-> n]

Single(n, kind, first) == [kind |-> kind, first |-> first, statement |-> n, source |-> n]

Two(n, kind, first, second) ==
  [kind |-> kind, first |-> first, second |-> second, statement |-> n, source |-> n]

Annotated(axiom) == [axiom EXCEPT !.source = @ + 100]

Hierarchies ==
  {Sub(11, N(1), N(2)), Sub(12, I(1), N(2)), Sub(13, N(2), I(1)), Sub(14, N(1), I(1)),
   Of(15, "equivalentObject", {N(1), I(2)}), Two(16, "inverseObject", N(1), N(2)),
   Single(17, "symmetric", I(2)), Sub(18, N(1), N(BottomKey)), Sub(19, N(TopKey), N(2)),
   Sub(20, N(BottomKey), N(1)), Of(21, "equivalentObject", {N(1), N(2), N(TopKey)})}

Chains ==
  {Single(31, "transitive", N(1)), Chain(32, <<N(1), N(2)>>, N(1)), Chain(33, <<N(2), N(1)>>, N(1)),
   Chain(34, <<N(1), N(1)>>, N(2)), Chain(35, <<I(1), N(1)>>, N(2)), Chain(36, <<N(1), N(2)>>, I(1)),
   Chain(37, <<N(1), N(2), N(1)>>, N(1)), Chain(38, <<N(2), N(1), N(2)>>, N(1)),
   Chain(39, <<N(1), N(2), I(2)>>, N(1)), Chain(40, <<N(1), N(2)>>, N(TopKey)),
   Chain(41, <<N(2), N(2)>>, N(BottomKey)), Chain(42, <<N(2), N(2)>>, N(1)),
   Chain(43, <<I(2), N(1)>>, I(2))}

Clashes ==
  {Of(51, "disjointObject", {N(1), N(2)}), Of(52, "disjointObject", {N(1), I(1), N(2)}),
   Single(53, "irreflexive", N(1)), Single(54, "asymmetric", I(1)),
   Of(55, "disjointObject", {N(2), N(BottomKey)})}

DataAxioms ==
  {Two(61, "subData", N(1), N(2)), Of(62, "equivalentData", {N(1), N(2)}),
   Of(63, "disjointData", {N(1), N(2)}), Two(64, "subData", N(TopKey), N(1)),
   Two(65, "subData", N(2), N(BottomKey))}

Program(slices, limit) == [slices |-> slices, limit |-> limit]

Unlimited == 1000

\* Two axioms, one in each slice.
Split(left, right) == {Program(<<{a}, {b}>>, Unlimited) : <<a, b>> \in left \X right}

\* Dependency cycles of two and three roles, and identifiers that move.
Moving ==
  {Program(<<{Chain(71, <<N(60), N(60)>>, N(1))}, {Chain(72, <<N(1), N(1)>>, N(2))},
             {Chain(73, <<N(2), N(2)>>, N(60)), Chain(74, <<N(60), N(60)>>, N(2))}>>, Unlimited),
   Program(<<{Sub(75, N(60), I(2))}, {Sub(76, I(2), N(1)), Single(77, "transitive", N(2))},
             {Sub(75, N(60), I(2)), Two(61, "subData", N(2), N(1))}>>, Unlimited),
   Program(<<{Of(78, "disjointObject", {N(60), N(2)})},
             {Annotated(Of(78, "disjointObject", {N(60), N(2)})), Single(79, "irreflexive", N(1))},
             {Of(80, "disjointObject", {N(2), N(60)}), Of(63, "disjointData", {N(1), N(2)})}>>,
           Unlimited)}

\* Chains whose clauses have ten, eleven and twelve variables.
EvenChain(length) == Program(<<{Chain(91, [i \in 1..length |-> N(1)], N(2))}>>, Unlimited)

MixedChain(length) ==
  Program(<<{Chain(91, [i \in 1..length |-> N(IF i % 2 = 0 THEN 1 ELSE 60)], N(2))}>>, Unlimited)

WideChains == {EvenChain(10), EvenChain(11), MixedChain(9), MixedChain(10)}

\* One program under every ownership limit up to more than it needs.
Limited ==
  {Program(<<{Sub(11, N(1), N(2)), Single(31, "transitive", N(1))}, {Single(53, "irreflexive", N(2))}>>,
           limit) : limit \in 5..75}

MCPrograms ==
  Split(Chains, Hierarchies) \cup Split(Hierarchies, Clashes) \cup Split(DataAxioms, DataAxioms)
    \cup Split({Single(31, "transitive", N(1)), Chain(32, <<N(1), N(2)>>, N(1))}, Chains)
    \cup Moving \cup Limited \cup WideChains

-----------------------------------------------------------------------------
Square == {1, 2} \X {1, 2}

Relations(count) ==
  IF count < 3 THEN SUBSET Square
  ELSE {{}, {<<1, 2>>}, {<<1, 1>>, <<1, 2>>}, {<<1, 2>>, <<2, 1>>}, Square}

Turned(relation) == {<<p[2], p[1]>> : p \in relation}

ObjectExtensions(forward) ==
  [k \in DOMAIN forward \cup {InverseKey(p) : p \in DOMAIN forward} \cup Builtins |->
     IF k = TopKey THEN Square ELSE IF k = BottomKey THEN {}
     ELSE IF k > InverseTag THEN Turned(forward[k - InverseTag]) ELSE forward[k]]

DataExtensions(forward) ==
  [k \in DOMAIN forward \cup Builtins |->
     IF k = TopKey THEN Square ELSE IF k = BottomKey THEN {} ELSE forward[k]]

Constantly(properties, relation) == [p \in properties |-> relation]

\* Every interpretation of the object properties beside a fixed one of the data
\* properties, the other way round, and some in which the empty roles or the
\* inverses do not mean what they should.
MCInterpretations(axioms) ==
  LET objects == ObjectProperties(axioms) \ Builtins
      data    == DataProperties(axioms) \ Builtins
      plain   == [object |-> ObjectExtensions(Constantly(objects, {<<1, 2>>})),
                  data   |-> DataExtensions(Constantly(data, {<<1, 2>>}))]
      empty   == [object |-> ObjectExtensions(Constantly(objects, {})),
                  data   |-> DataExtensions(Constantly(data, {}))]
  IN  {[empty EXCEPT !.object = ObjectExtensions(f)] : f \in [objects -> Relations(Cardinality(objects))]}
      \cup {[empty EXCEPT !.data = DataExtensions(f)] : f \in [data -> Relations(Cardinality(data))]}
      \cup {[empty EXCEPT !.object[BottomKey] = {<<1, 1>>}], [empty EXCEPT !.data[BottomKey] = {<<1, 1>>}],
            plain}
      \cup {[plain EXCEPT !.object[InverseKey(p)] = {}] : p \in objects}
      \cup {[plain EXCEPT !.object[p] = {}] : p \in objects}
=============================================================================
