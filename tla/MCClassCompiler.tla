-------------------------- MODULE MCClassCompiler --------------------------
EXTENDS OwlSemantics

A == Class("A")
B == Class("B")
C == Class("C")
R == Role("R")
RInv == InverseOf(R)
T == Datatype("T")
L1 == <<"dataOneOf", {"l1"}>>
Some(r, F) == <<"some", r, F>>
All(r, F) == <<"all", r, F>>
Minimum(n, r, F) == <<"min", n, r, F>>
Maximum(n, r, F) == <<"max", n, r, F>>
Exact(n, r, F) == <<"exact", n, r, F>>
Self(r) == <<"self", r>>
HasValue(r, i) == <<"value", r, i>>
DSome(F) == <<"dsome", "d", F>>
DAll(F) == <<"dall", "d", F>>
DMin(n, F) == <<"dmin", n, "d", F>>
DMax(n, F) == <<"dmax", n, "d", F>>
DExact(n, F) == <<"dexact", n, "d", F>>
DAnd(S) == <<"dand", S>>
DOr(S) == <<"dor", S>>
Sub(X, Y) == <<"SubClassOf", X, Y>>
Equiv(X, Y) == <<"EquivalentClasses", <<X, Y>>>>

Environment ==
    [declared |-> {"A", "B", "C", "R", "d", "T", "a", "b"}, classNames |-> {"A", "B", "C"},
     literals |-> {"l1", "l2"}, anonymous |-> {"z"},
     objectRoles |-> TRUE, dataRoles |-> TRUE, maxCardinality |-> 3]

\* A program is judged over the symbols it uses; stars are the interpretations
\* of three objects whose role has edges from the first one only.
Uses(cls, role, drole, dt, ind) ==
    [cls |-> cls, role |-> role, drole |-> drole, dt |-> dt, ind |-> ind, star |-> FALSE]
AB == Uses({"A", "B"}, {}, {}, {}, {})
ABC == Uses({"A", "B", "C"}, {}, {}, {}, {})
ABR == Uses({"A", "B"}, {"R"}, {}, {}, {})
AR == Uses({"A"}, {"R"}, {}, {}, {})
Aa == Uses({"A"}, {}, {}, {}, {"a"})
Aab == Uses({"A"}, {}, {}, {}, {"a", "b"})
ARa == Uses({"A"}, {"R"}, {}, {}, {"a"})
ARab == Uses({"A"}, {"R"}, {}, {}, {"a", "b"})
Rab == Uses({}, {"R"}, {}, {}, {"a", "b"})
Rz == Uses({}, {"R"}, {}, {}, {"a", "z"})
ad == Uses({}, {}, {"d"}, {}, {"a"})
Ad == Uses({"A"}, {}, {"d"}, {"T"}, {})
Aabd == Uses({"A"}, {}, {"d"}, {}, {"a", "b"})
ARabd == Uses({}, {"R"}, {"d"}, {}, {"a", "b"})
D == Uses({}, {}, {"d"}, {"T"}, {})
Star == [AR EXCEPT !.star = TRUE]

P(axioms, uses) == [axioms |-> axioms, E |-> Environment, uses |-> uses]

\* A program of one slice.
Reflexive == P({<<"ReflexiveObjectProperty", R>>}, AR)

Subclasses ==
    {P({Sub(x, y)}, ABR) :
        <<x, y>> \in {<<A, Some(R, B)>>, <<Some(R, B), A>>, <<A, All(R, B)>>, <<All(R, B), A>>,
                      <<A, Minimum(2, R, B)>>, <<Minimum(2, R, B), A>>, <<A, Maximum(1, R, B)>>, <<Maximum(1, R, B), A>>,
                      <<A, Exact(1, R, B)>>, <<Exact(1, R, B), A>>, <<A, Maximum(0, R, B)>>,
                      <<A, Some(RInv, And({A, Not(B)}))>>, <<Some(R, Or({A, Not(B)})), B>>,
                      <<A, Not(Minimum(2, R, Not(B)))>>, <<Not(Maximum(1, R, And({A, B}))), B>>,
                      <<Or({B, All(R, Some(R, A))}), A>>, <<A, And({B, Not(Some(R, B))})>>}}
    \cup {P({Sub(x, y)}, AR) : <<x, y>> \in {<<A, Self(R)>>, <<Self(R), A>>, <<Not(Self(R)), A>>,
                                              <<A, Not(Self(RInv))>>, <<A, Some(R, Nothing)>>, <<All(R, Thing), A>>,
                                              <<Minimum(0, R, A), A>>, <<Not(Not(Some(R, Thing))), A>>}}
    \cup {P({Sub(x, y)}, AB) : <<x, y>> \in {<<And({A, B}), Nothing>>, <<Thing, Or({A, B})>>, <<Not(A), B>>,
                                              <<And({A, Thing}), Not(B)>>, <<A, And({A, A})>>}}
    \cup {P({Sub(A, Maximum(2, R, Thing))}, Star), P({Sub(A, Maximum(2, R, A))}, Star),
          P({Sub(Maximum(2, R, A), Nothing)}, Star), P({Sub(A, Exact(2, R, Thing))}, Star)}

Nominals ==
    {P({Sub(x, y)}, Aab) : <<x, y>> \in {<<A, OneOf({"a"})>>, <<OneOf({"a", "b"}), A>>, <<Not(OneOf({"a", "b"})), A>>,
                                          <<A, Not(OneOf({"a"}))>>, <<Nothing, OneOf({"a"})>>}}
    \cup {P({Sub(x, y)}, ARa) : <<x, y>> \in {<<A, HasValue(R, "a")>>, <<HasValue(RInv, "a"), A>>,
                                               <<Not(HasValue(R, "a")), A>>, <<All(R, Not(OneOf({"a"}))), A>>}}

Lists ==
    {P({<<"EquivalentClasses", <<A, B, C>>>>}, ABC), P({Equiv(A, Some(R, B))}, ABR),
     P({Equiv(And({A, Not(B)}), All(R, A))}, ABR), P({Equiv(A, And({A, Thing}))}, AB),
     P({<<"DisjointClasses", <<A, B, C>>>>}, ABC), P({<<"DisjointClasses", <<A, And({A, Thing}), B>>>>}, AB),
     P({<<"DisjointClasses", <<A, Thing, B>>>>}, AB), P({<<"DisjointClasses", <<A, Nothing>>>>}, AB),
     P({<<"DisjointClasses", <<Not(A), Some(R, B), B>>>>}, ABR),
     P({<<"DisjointUnion", A, <<B, C>>>>}, ABC), P({<<"DisjointUnion", A, <<B, Not(B)>>>>}, AB),
     P({<<"DisjointUnion", A, <<B, Some(R, B)>>>>}, ABR), P({<<"DisjointUnion", A, <<B, Nothing>>>>}, AB)}

Properties ==
    {P({<<tag, R, F>>}, ABR) : tag \in {"ObjectPropertyDomain", "ObjectPropertyRange"}, F \in {A, Not(A), Or({A, B})}}
    \cup {P({<<"ObjectPropertyRange", RInv, A>>}, AR)}
    \cup {P({<<tag, R>>}, AR) : tag \in {"FunctionalObjectProperty", "InverseFunctionalObjectProperty",
                                          "ReflexiveObjectProperty"}}
    \cup {P({<<"DataPropertyDomain", "d", F>>}, Ad) : F \in {A, Not(A)}}
    \cup {P({<<"FunctionalDataProperty", "d">>}, Ad)}

DataPrograms ==
    {P({Sub(x, y)}, Ad) :
        <<x, y>> \in {<<A, DSome(T)>>, <<DSome(DataNot(T)), A>>, <<A, DAll(T)>>, <<DAll(T), A>>,
                      <<A, DMin(2, TopRange)>>, <<DMin(2, TopRange), A>>, <<A, DMax(1, T)>>, <<DMax(1, T), A>>,
                      <<DExact(1, T), A>>, <<A, <<"dvalue", "d", "l1">>>>,
                      <<A, DSome(DAnd({T, DataNot(L1)}))>>, <<DSome(DOr({T, L1})), A>>,
                      <<A, DMax(1, DOr({L1, DataNot(T)}))>>, <<A, DAll(DOr({L1, DAnd({T, DataNot(L1)})}))>>}}
    \cup {P({<<"DataPropertyRange", "d", F>>}, D) :
            F \in {T, DataNot(T), DAnd({T, L1}), DOr({DataNot(T), L1}), DOr({L1, DAnd({T, DataNot(L1)})})}}
    \cup {P({<<"DatatypeDefinition", T, F>>}, D) :
            F \in {L1, DataNot(L1), DOr({L1, DataNot(<<"dataOneOf", {"l2"}>>)}),
                   DAnd({L1, DOr({DataNot(L1), <<"dataOneOf", {"l2"}>>})})}}

Keys ==
    {P({<<"HasKey", A, {R}, {}>>, <<"ClassAssertion", A, "a">>, <<"ClassAssertion", A, "b">>}, ARab),
     P({<<"HasKey", A, {}, {"d"}>>, <<"ClassAssertion", A, "a">>, <<"ClassAssertion", A, "b">>}, Aabd),
     P({<<"HasKey", Thing, {R}, {"d"}>>, <<"DifferentIndividuals", <<"a", "b">>>>}, ARabd)}

Assertions ==
    {P({<<"SameIndividual", <<"a", "b">>>>}, Rab), P({<<"DifferentIndividuals", <<"a", "b">>>>}, Rab),
     P({<<"SameIndividual", <<"a", "z">>>>, <<"ObjectPropertyAssertion", R, "a", "z">>}, Rz),
     P({<<"ObjectPropertyAssertion", RInv, "a", "b">>}, Rab),
     P({<<"NegativeObjectPropertyAssertion", RInv, "a", "b">>, <<"ObjectPropertyAssertion", R, "a", "b">>}, Rab),
     P({<<"NegativeObjectPropertyAssertion", R, "a", "z">>}, Rz),
     P({<<"DataPropertyAssertion", "d", "a", "l1">>, <<"NegativeDataPropertyAssertion", "d", "a", "l2">>}, ad)}
    \cup {P({<<"ClassAssertion", F, "a">>}, ARa) : F \in {A, Not(A), Some(R, A), Not(Some(R, Not(A))), OneOf({"a"})}}

Shared ==
    {P({Sub(A, Some(R, B)), Sub(B, Some(R, B))}, ABR), P({Sub(A, Some(R, B)), Sub(Some(R, B), B)}, ABR),
     P({Sub(A, All(R, And({A, B}))), Sub(Not(All(R, And({B, A}))), B)}, ABR),
     P({Sub(A, Not(B)), <<"ClassAssertion", Not(B), "a">>}, [AB EXCEPT !.ind = {"a"}]),
     P({<<"DisjointClasses", <<A, B>>>>, <<"DisjointUnion", C, <<A, B>>>>}, ABC)}

Deferring ==
    {[P({Sub(A, Some(R, B)), Sub(B, A)}, ABR) EXCEPT !.E.objectRoles = FALSE],
     [P({Equiv(A, DSome(T))}, Ad) EXCEPT !.E.dataRoles = FALSE],
     [P({Equiv(Not(Some(R, A)), DSome(T)), Sub(A, Some(R, A))}, [AR EXCEPT !.drole = {"d"}, !.dt = {"T"}])
        EXCEPT !.E.dataRoles = FALSE],
     [P({Equiv(A, Some(R, B))}, ABR) EXCEPT !.E.declared = @ \ {"B"}],
     P({Sub(A, Maximum(3, R, B)), Sub(A, Minimum(3, R, B))}, ABR)}

MCPrograms ==
    Subclasses \cup Nominals \cup Lists \cup Properties \cup DataPrograms \cup Keys \cup Assertions \cup Shared
    \cup Deferring

MCInterpretations(p) ==
    LET u == p.uses
        objects == IF u.star THEN 1..3 ELSE 1..2
        values == IF u.drole \cup u.dt = {} THEN {} ELSE {11, 12}
    IN  [objects : {objects}, values : {values}, cls : [u.cls -> SUBSET objects],
         role : [u.role -> SUBSET ((IF u.star THEN {1} ELSE objects) \X objects)],
         drole : [u.drole -> SUBSET (objects \X values)], dt : [u.dt -> SUBSET values],
         ind : [u.ind -> objects], lit : {[l1 |-> 11, l2 |-> 12]}]

=============================================================================
