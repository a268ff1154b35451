------------------------------ MODULE MCServices ------------------------------
(***************************************************************************)
(* Sessions for the native services.  In every domain 2 is the top and 4   *)
(* the bottom identifier, so that an ordinary one may come before, between *)
(* and after them.  Role 5 is the inverse of role 1 and role 6 of role 3.  *)
(***************************************************************************)
EXTENDS NativeServices

BaseClauses ==
  {Builtin({Concept(4, 1)}, {}), Builtin({Object(4, 1, 2)}, {}), Builtin({Data(4, 1, 2)}, {})}

Empty ==
  [classes |-> {2, 4}, topClass |-> 2, bottomClass |-> 4,
   roles |-> {2, 4}, topRole |-> 2, bottomRole |-> 4,
   properties |-> {2, 4}, topProperty |-> 2, bottomProperty |-> 4,
   named |-> {}, anonymous |-> {}, literals |-> <<>>,
   clauses |-> BaseClauses, facts |-> {}, disjunctions |-> {},
   inclusions |-> {}, dataInclusions |-> {}, equality |-> FALSE]

With(p, clauses) == [p EXCEPT !.clauses = @ \cup clauses]

(***************************************************************************)
(* Class taxonomies.                                                       *)
(***************************************************************************)
Told(pairs) == {Clause({Concept(q[1], 1)}, {Concept(q[2], 1)}) : q \in pairs}

ClassVocabulary == [Empty EXCEPT !.classes = {1, 2, 3, 4, 5}]

ToldPairs == {<<1, 3>>, <<3, 5>>, <<5, 1>>, <<1, 5>>, <<3, 1>>}

SixTold == With([Empty EXCEPT !.classes = {1, 2, 3, 4, 5, 6}], Told({<<1, 3>>, <<3, 5>>, <<5, 6>>, <<1, 6>>}))

ToldOnly == {With(ClassVocabulary, Told(pairs)) :
               pairs \in SUBSET (ToldPairs \cup {<<5, 4>>, <<2, 3>>})} \cup {SixTold}

Both(C, D, head) == Clause({Concept(C, 1), Concept(D, 1)}, head)

Untold ==
  {{Both(1, 3, {Concept(5, 1)})}, {Both(1, 3, {})},
   {Clause({Concept(1, 1)}, {Concept(3, 1), Concept(5, 1)})},
   {Clause({Concept(5, 1)}, {Concept(1, 1), Concept(3, 1)}), Both(1, 3, {Concept(4, 1)}), Both(3, 5, {Concept(1, 1)})}}

Searched == {With(ClassVocabulary, Told(pairs) \cup extra) :
               pairs \in SUBSET (ToldPairs \cup {<<5, 4>>}), extra \in Untold}

\* Four classes, where a new class can come between several others.
Wide ==
  {With([Empty EXCEPT !.classes = {1, 2, 3, 4, 5, 6}], Told(pairs) \cup {Both(1, 3, {Concept(5, 1)})})
     : pairs \in {{<<1, 3>>, <<5, 6>>}, {<<1, 5>>, <<3, 5>>, <<1, 6>>, <<3, 6>>},
                  {<<5, 1>>, <<5, 3>>, <<6, 5>>}, {<<6, 1>>, <<6, 3>>}, {<<3, 1>>, <<6, 3>>, <<5, 6>>},
                  {<<6, 3>>, <<5, 1>>, <<5, 3>>}, {<<1, 3>>, <<3, 6>>, <<5, 6>>}}}

\* Class 7 goes below class 6, which has a short and a long way to the top.
Uneven ==
  {With([Empty EXCEPT !.classes = 1..8], {Both(1, 8, {Concept(6, 1)})}
          \cup Told({<<5, 3>>, <<8, 5>>, <<6, 8>>, <<6, 1>>, <<7, 6>>, <<7, 1>>}))}

(***************************************************************************)
(* Roles and data properties.                                              *)
(***************************************************************************)
RoleInverse(r) == CASE r = 1 -> 5 [] r = 5 -> 1 [] r = 3 -> 6 [] r = 6 -> 3 [] OTHER -> r

RoleInclusions(pairs) ==
  LET closed == pairs \cup {<<RoleInverse(q[1]), RoleInverse(q[2])>> : q \in pairs}
  IN  [Empty EXCEPT !.roles = {1, 2, 3, 4, 5, 6}, !.inclusions = closed,
         !.clauses = @ \cup {Clause({Object(q[1], 1, 2)}, {Object(q[2], 1, 2)}) : q \in closed}
                       \cup {Builtin({Object(r, 1, 2)}, {Object(RoleInverse(r), 2, 1)}) : r \in {1, 3, 5, 6}}]

RolePrograms ==
  {RoleInclusions(pairs) : pairs \in SUBSET {<<1, 3>>, <<1, 6>>, <<3, 1>>, <<1, 5>>}}
    \cup {With(RoleInclusions(pairs), {Clause({Object(1, 1, 2), Object(3, 1, 2)}, {})})
            : pairs \in {{}, {<<1, 3>>}, {<<1, 5>>}}}

Properties(pairs, extra) ==
  [Empty EXCEPT !.properties = {1, 2, 3, 4}, !.dataInclusions = pairs,
     !.clauses = @ \cup {Clause({Data(q[1], 1, 2)}, {Data(q[2], 1, 2)}) : q \in pairs} \cup extra]

PropertyPrograms ==
  {Properties(pairs, extra) :
     pairs \in {{}, {<<1, 3>>}, {<<1, 3>>, <<3, 1>>}, {<<3, 4>>}},
     extra \in {{}, {Clause({Data(1, 1, 2), Data(3, 1, 2)}, {})}, {Clause({Data(1, 1, 2)}, {Concept(2, 1)})}}}

(***************************************************************************)
(* Individuals.                                                            *)
(***************************************************************************)
Individuals ==
  [Empty EXCEPT !.classes = {1, 2, 3, 4}, !.roles = {1, 2, 4, 5}, !.properties = {1, 2, 3, 4},
     !.named = {11, 12, 13}, !.anonymous = {15}, !.literals = [l \in {31, 32, 33} |-> IF l = 33 THEN 42 ELSE 41],
     !.facts = {Concept(2, x) : x \in {11, 12, 13, 15}},
     !.clauses = @ \cup {Builtin({Object(r, 1, 2)}, {Object(RoleInverse(r), 2, 1)}) : r \in {1, 5}}]

Knowing(facts, clauses) ==
  [Individuals EXCEPT !.facts = @ \cup facts, !.clauses = @ \cup clauses]

Functional == Clause({Object(1, 1, 2), Object(1, 1, 3)}, {Equal(2, 3)})
Transitive == Clause({Object(1, 1, 2), Object(1, 2, 3)}, {Object(1, 1, 3)})
Disjoint   == Clause({Concept(1, 1), Concept(3, 1)}, {})
Within     == Clause({Concept(1, 1)}, {Concept(3, 1)})
Domain     == Clause({Object(1, 1, 2)}, {Concept(1, 1)})

Realized ==
  {Knowing({Object(1, 11, 12), Object(1, 11, 13)}, {Functional, Domain, Within}),
   Knowing({Object(1, 15, 12), Object(1, 15, 13), Concept(1, 13)}, {Functional}),
   Knowing({Object(1, 11, 12), Object(1, 12, 11)}, {Transitive, Domain}),
   Knowing({Object(1, 11, 15), Object(1, 15, 13)}, {Transitive, Within}),
   Knowing({Concept(1, 11), Concept(3, 12), Unequal(11, 13)}, {Disjoint}),
   Knowing({Unequal(11, 12), Concept(3, 12)}, {Clause({Concept(3, 1)}, {Unequal(1, 13)})}),
   Knowing({Equal(11, 13), Equal(12, 13), Concept(1, 12)}, {Within}),
   Knowing({Equal(11, 13), Concept(1, 12), Concept(3, 13), Unequal(12, 13)}, {Disjoint}),
   [Knowing({Concept(1, 12), Concept(1, 13)}, {Clause({Concept(1, 1)}, {Equal(1, 11)})}) EXCEPT !.equality = TRUE],
   Knowing({Data(1, 11, 41), Data(3, 12, 42), Equal(11, 12)}, {Clause({Data(1, 1, 2)}, {Data(3, 1, 2)})}),
   Knowing({Concept(1, 11), Concept(3, 11)}, {Disjoint}),
   [Knowing({}, {Within}) EXCEPT !.disjunctions = {{Concept(1, 11), Concept(3, 11)}}],
   [Knowing({Unequal(11, 12)}, {Functional, Within})
      EXCEPT !.disjunctions = {{Equal(11, 12), Equal(12, 13)}}]}

(***************************************************************************)
(* Sessions.                                                               *)
(***************************************************************************)
Ample == [elements |-> 100, seeds |-> 100, tests |-> 100, memory |-> 1000]

\* Each limit below what six classes need; the memory is short at the start or
\* after some answers.
Scarce ==
  {[Ample EXCEPT !.elements = 5], [Ample EXCEPT !.seeds = 16], [Ample EXCEPT !.tests = 3]}
    \cup {[Ample EXCEPT !.memory = words] : words \in {100, 200, 220}}

Session(p, limits, count, domains, realizes) ==
  [program |-> p, limits |-> limits, calls |-> count, domains |-> domains, realizes |-> realizes]

MCSessions ==
  {Session(p, Ample, 1, {"classes"}, FALSE) : p \in ToldOnly \cup Searched \cup Wide \cup Uneven}
    \cup {Session(p, limits, 2, {"classes"}, TRUE) : p \in Wide \cup {SixTold}, limits \in Scarce}
    \cup {Session(p, Ample, 1, {"roles"}, FALSE) : p \in RolePrograms}
    \cup {Session(p, Ample, 1, {"properties"}, FALSE) : p \in PropertyPrograms}
    \cup {Session(p, Ample, 2, {"classes"}, TRUE) : p \in Realized}
    \cup {Session(p, Ample, 3, Domains, TRUE) : p \in {RoleInclusions({<<1, 3>>}), Knowing({Object(1, 11, 12)}, {Functional})}}

\* owl:Thing is below class 3, and 5 is above what is in both 1 and 3.
UniversalSessions ==
  {Session(With(ClassVocabulary, Told({<<2, 3>>}) \cup {Both(1, 3, {Concept(5, 1)})}), Ample, 1, {"classes"}, FALSE)}

\* Two individuals that differ because their classes are disjoint.
DisjointSessions ==
  {Session(Knowing({Concept(1, 11), Concept(3, 12)}, {Disjoint}), Ample, 1, {"classes"}, TRUE)}
=============================================================================
