------------------------------ MODULE MCSearch ------------------------------
(***************************************************************************)
(* The two searches on small instances: Branching (Tableau.run) with every *)
(* program made of the clauses below, with learning on and off, and        *)
(* NativeTableau (drive_tableau) with the families of programs below.  One *)
(* of the two runs; the other one rests before its first step.             *)
(***************************************************************************)
EXTENDS Branching, SequencesExt

CONSTANTS
    Searches,        \* the searches that may run, of {"python", "native"}
    NativePrograms   \* the programs of the native search

VARIABLES
    search,          \* the search that runs
    nativeProgram, tableau, phase, acted, nativeTodo, checked, nativeAnswer, models

native == <<nativeProgram, tableau, phase, acted, nativeTodo, checked, nativeAnswer, models>>

-----------------------------------------------------------------------------
(* Branching. *)

MCAtoms == 1..8

\* 1-2, 3-4 and 5-6 are complementary, 7 and 8 have no opposite.
MCOpposite == <<2, 1, 4, 3, 6, 5, 0, 0>>

Clause(B, H) == [body |-> B, head |-> H]

MCClauses ==
    { Clause({}, {1, 3}),
      Clause({}, {5, 7}),
      Clause({}, {3, 6, 8}),
      Clause({1, 3}, {}),
      Clause({5}, {8}),
      Clause({5}, {4}),
      Clause({1, 5}, {4, 7}),
      Clause({8}, {4, 7}),
      Clause({4, 5}, {2}),
      Clause({7}, {6}),
      Clause({7}, {5}) }

-----------------------------------------------------------------------------
(* NativeTableau. *)

\* 1, 2, 3 are complementary to 4, 5, 6; 7 and 10 are annotated equalities with
\* three and two choices; 8, 9, 11 and 12 are at-least atoms, 8 and 11 with one
\* reusable predicate on two nodes, 9 on a node that can be blocked, 12 with a
\* bottom role; 5 and 6 constrain one concrete node and exclude each other.
NativeAtoms == 1..12
NativeOpposite ==
    [a \in NativeAtoms |-> CASE a <= 3 -> a + 3 [] a \in 4..6 -> a - 3 [] OTHER -> 0]
NativeMerges == (7 :> <<{3}, {5}, {9}>>) @@ (10 :> <<{6}, {2}>>)
NativeWitness == (8 :> {2}) @@ (9 :> {4}) @@ (11 :> {6}) @@ (12 :> {})
NativeReuse == (8 :> {1}) @@ (9 :> {}) @@ (11 :> {3}) @@ (12 :> {})
NativePredicate == (8 :> 8) @@ (9 :> 9) @@ (11 :> 8) @@ (12 :> 12)
NativeBottomRole == {12}
NativeBlocker == (8 :> {}) @@ (9 :> {6}) @@ (11 :> {}) @@ (12 :> {})
NativeDataNodes == {{5, 6}}
NativeConflicts == {{5, 6}}

Rule(B, H) == [body |-> B, head |-> H]

Family(atoms, core, pool, flags) ==
    {[clauses |-> C \cup core, learning |-> l, atoms |-> atoms] : C \in SUBSET pool, l \in flags}

\* Ground disjunctions only, with and without learning.
GroundPrograms ==
    Family(1..6, {Rule({}, {1, 2})},
              {Rule({}, {3, 5}), Rule({3}, {4, 6}), Rule({1, 3}, {}), Rule({2}, {3}),
               Rule({2, 3}, {}), Rule({5}, {}), Rule({6}, {5})},
              BOOLEAN)

\* Annotated equalities, obligations with and without reuse, datatypes.
MergePrograms ==
    Family(1..9, {Rule({}, {8})},
           {Rule({}, {7}), Rule({1}, {7}), Rule({3}, {}), Rule({3}, {4}), Rule({5}, {6}),
            Rule({1, 5}, {}), Rule({2}, {9}), Rule({2}, {3}), Rule({9}, {3, 6})},
           {TRUE})

\* Two annotated equalities, and one that is derived again after a backjump.
NominalPrograms ==
    Family(1..10, {Rule({}, {8}), Rule({1}, {7})},
           {Rule({2}, {7}), Rule({}, {10}), Rule({1}, {10}), Rule({1}, {6}), Rule({3}, {}),
            Rule({1, 5}, {}), Rule({9}, {})},
           {TRUE})

\* Two nodes that owe a witness of one predicate, and a bottom role.
ObligationPrograms ==
    Family((1..6) \cup {8, 11, 12}, {Rule({}, {8}), Rule({}, {11})},
           {Rule({1}, {}), Rule({3}, {}), Rule({1, 3}, {}), Rule({2, 3}, {}), Rule({6}, {5}),
            Rule({1}, {12}), Rule({2, 6}, {12})},
           {TRUE})

\* A clause without a body and a head.
Inconsistent == [clauses |-> {Rule({}, {})}, learning |-> TRUE, atoms |-> {}]

AllPrograms ==
    GroundPrograms \cup MergePrograms \cup NominalPrograms \cup ObligationPrograms \cup {Inconsistent}

Program(clauses) == [clauses |-> clauses, learning |-> TRUE, atoms |-> 1..9]

\* Under the first disjunct 3 \/ 6 becomes the second ground disjunction; under
\* the second one 1 \/ 4 takes its identifier before 3 \/ 6 is derived again.
StalePrograms ==
    {Program({Rule({}, {1, 2}), Rule({1}, {3, 6}), Rule({1}, {}),
              Rule({2}, {1, 4}), Rule({2}, {3, 6})})}

\* A ground disjunction is exhausted above the choice of an annotated equality.
MisroutedPrograms ==
    {Program({Rule({}, {7}), Rule({3}, {1, 2}), Rule({1}, {}), Rule({2}, {}), Rule({9}, {})})}

\* The clash of the last choice of 7 goes back to the reuse of 8, past the
\* branching point of 7, and the fallback derives 7 again.
RepeatedPrograms ==
    {Program({Rule({}, {8}), Rule({1}, {7}), Rule({3}, {}), Rule({1, 5}, {}), Rule({2}, {7})})}

Native == INSTANCE NativeTableau WITH
    Atoms <- NativeAtoms, Opposite <- NativeOpposite, Merges <- NativeMerges,
    Witness <- NativeWitness, Reuse <- NativeReuse, Predicate <- NativePredicate,
    BottomRole <- NativeBottomRole, Blocker <- NativeBlocker, DataNodes <- NativeDataNodes,
    Conflicts <- NativeConflicts, Programs <- NativePrograms,
    program <- nativeProgram, todo <- nativeTodo, answer <- nativeAnswer

-----------------------------------------------------------------------------
SearchInit ==
    /\ search \in Searches
    /\ \/ search = "python" /\ nativeProgram = Inconsistent /\ Native!Init /\ Init
       \/ search = "native" /\ program = {} /\ learning = FALSE /\ Init /\ Native!Init

SearchNext ==
    \/ search = "python" /\ Next /\ UNCHANGED <<search, native>>
    \/ search = "native" /\ Native!Next /\ UNCHANGED <<search, vars>>

\* Both searches are loops that take another turn until they return.
SearchSpec == SearchInit /\ [][SearchNext]_<<search, vars, native>>
                         /\ WF_<<search, vars, native>>(SearchNext)

\* Tableau.run returns.
PythonTerminates == search = "python" => Terminates

\* drive_tableau returns: no assignment of choices is tried twice.
NativeTerminates == search = "native" => Native!Terminates

\* drive_tableau returns "sat" only when the rows satisfy the program,
\* obligations of blocked nodes excepted: no clause instance, annotated
\* equality, obligation or disjunction is lost on a backtrack.
SatIsModel == search = "native" => Native!SatIsModel

\* drive_tableau returns "unsat" only for a program without a model: no
\* backjump over any kind of branching point discards a satisfiable choice
\* (specs/hypertableau.md:140).
UnsatIsRefuted == search = "native" => Native!UnsatIsRefuted

\* The dependency sets of rows, disjunctions and clashes are explanations in
\* every model, whoever owns the branching points they name.
NativeDependenciesExplain == search = "native" => Native!DependenciesExplain


\* A program never makes drive_tableau fail (specs/hypertableau.md:203-208).
NeverFails == search = "native" => Native!NeverFails
=============================================================================
