------------------------------- MODULE Branching -------------------------------
(***************************************************************************)
(* The ground search of the tableau: hyperresolution over delta            *)
(* generations, ground disjunctions, dependency-directed backjumping and    *)
(* learning (HyperresolutionEngine, DisjunctionBrancher, the scheduler of   *)
(* Tableau.run restricted to these phases, and the branch stack of          *)
(* TableauSession).                                                         *)
(*                                                                          *)
(* Data abstraction: a ground atom is a positive number, its place in the   *)
(* order _disjunct_rank sorts by; a clause instance is a set of body atoms  *)
(* and a set of head atoms, so one clause has one match per choice of       *)
(* supports; an input fact is a clause with an empty body.  The undo trail  *)
(* is abstracted to the snapshot a checkpoint denotes; module TableauTrail  *)
(* shows that rolling the trail back restores exactly that snapshot.        *)
(* Branch levels count from 1 here and from 0 in the code.                  *)
(***************************************************************************)
EXTENDS Integers, Sequences, FiniteSets, DependencySets

CONSTANTS
    Atoms,      \* ground atoms, numbered by their disjunct rank
    Opposite,   \* the complementary atom of each atom, 0 when it has none
    Clauses     \* ground clauses a program may be made of

ASSUME AtomsAssumption == Atoms \subseteq Nat \ {0}

ASSUME OppositeAssumption ==
    /\ Opposite \in [Atoms -> Atoms \cup {0}]
    /\ \A a \in Atoms : Opposite[a] # 0 => /\ Opposite[a] # a
                                           /\ Opposite[Opposite[a]] = a

ASSUME ClausesAssumption ==
    \A c \in Clauses : /\ c \in [body : SUBSET Atoms, head : SUBSET Atoms]
                       /\ IsFiniteSet(c.body)

VARIABLES
    program,    \* the clauses of this run
    learning,   \* the configuration flag disjunction_learning
    facts,      \* atom -> the supports of its row, {} when there is no row
    gen,        \* atom -> derivation generation of its row
    read,       \* read generation of the extension store
    write,      \* write generation of the extension store
    todo,       \* clauses the current delta generation has still to apply
    disjs,      \* ground-disjunction records in creation order
    clash,      \* {} or the singleton holding the dependency of the clash
    branches,   \* branching points, outermost first
    answer      \* "none" while running, then "sat" or "unsat"

config == <<program, learning>>
trailed == <<facts, gen, read, write, disjs, clash>>
vars == <<program, learning, facts, gen, read, write, todo, disjs, clash,
          branches, answer>>

-----------------------------------------------------------------------------
(* What the extension store f says of atoms. *)

Supports(f, a) == IF a \in Atoms THEN f[a] ELSE {}
Satisfied(f, H) == \E a \in H : f[a] # {}
Refuted(f, a) == Supports(f, Opposite[a]) # {}
RefutationDependency(f, a) == LeastRank(Supports(f, Opposite[a]))

Unrefuted(f, H) == {a \in H : ~Refuted(f, a)}
RefutationDependencies(f, H) ==
    UNION {RefutationDependency(f, a) : a \in {b \in H : Refuted(f, b)}}

\* Dispatching atom a with support d: add the row (or a support to it) ...
WithRow(f, a, d) == [f EXCEPT ![a] = AddSupport(@, d)]
WithGeneration(f, g, w, a) == [g EXCEPT ![a] = IF f[a] = {} THEN w ELSE @]
\* ... then look for the complementary row.
ClashOf(f, a, d) ==
    IF Refuted(f, a) THEN {d \cup RefutationDependency(f, a)} ELSE {}

Dispatch(f, g, w, a, d) ==
    /\ facts' = WithRow(f, a, d)
    /\ gen' = WithGeneration(f, g, w, a)
    /\ clash' = ClashOf(f, a, d)

-----------------------------------------------------------------------------
Init ==
    /\ program \in SUBSET Clauses
    /\ learning \in BOOLEAN
    /\ facts = [a \in Atoms |-> {}]
    /\ gen = [a \in Atoms |-> 0]
    /\ read = 0
    /\ write = 0
    /\ todo = {c \in program : c.body = {}}
    /\ disjs = <<>>
    /\ clash = {}
    /\ branches = <<>>
    /\ answer = "none"

Running == answer = "none" /\ clash = {}

-----------------------------------------------------------------------------
(* apply_next_delta: one generation of semi-naive hyperresolution. *)

NextRead == IF write = read THEN read ELSE write

\* Rows the next generation would read.
NewRows == {a \in Atoms : facts[a] # {} /\ gen[a] = NextRead}

\* The body has rows no younger than generation r, one of them of r itself.
Triggered(c, r) ==
    /\ \A a \in c.body : facts[a] # {} /\ gen[a] <= r
    /\ \E a \in c.body : gen[a] = r

PrepareNextDelta == read' = NextRead /\ write' = write + 1

ApplyNextDelta ==
    /\ Running
    /\ todo = {}
    /\ NewRows # {}
    /\ PrepareNextDelta
    /\ todo' = {c \in program : Triggered(c, NextRead)}
    /\ UNCHANGED <<config, facts, gen, disjs, clash, branches, answer>>

\* The dependencies of the matches of c: one support per premise, united.
MatchDependencies(c) ==
    LET chosen == {s \in [c.body -> UNION {facts[a] : a \in c.body}] :
                       \A a \in c.body : s[a] \in facts[a]}
    IN  {UNION {s[a] : a \in c.body} : s \in chosen}

\* The dependencies the matches give the head, refuted disjuncts included.
HeadDependencies(c) ==
    {d \cup RefutationDependencies(facts, c.head) : d \in MatchDependencies(c)}

HeadSatisfied(c) ==
    /\ Satisfied(facts, c.head)
    /\ todo' = todo \ {c}
    /\ UNCHANGED <<facts, gen, disjs, clash>>

HeadEmpty(c) ==
    /\ ~Satisfied(facts, c.head)
    /\ Unrefuted(facts, c.head) = {}
    /\ clash' = {LeastBits(HeadDependencies(c))}
    /\ todo' = {}
    /\ UNCHANGED <<facts, gen, disjs>>

HeadUnit(c) ==
    /\ ~Satisfied(facts, c.head)
    /\ \E a \in c.head :
          /\ Unrefuted(facts, c.head) = {a}
          /\ Dispatch(facts, gen, write, a, LeastBits(HeadDependencies(c)))
    /\ todo' = IF clash' = {} THEN todo \ {c} ELSE {}
    /\ UNCHANGED disjs

\* A record for the same disjuncts is reused; only its base can go down in
\* rank.  The code also re-supports the live branches of a reused record:
\* their current disjunct is a row (LiveChoicesHold), so the head would have
\* been satisfied and there are none.
WithDisjunction(D, H, d) ==
    IF \E i \in DOMAIN D : D[i].atoms = H
    THEN [i \in DOMAIN D |-> IF D[i].atoms = H /\ LowerRank(d, D[i].base)
                             THEN [D[i] EXCEPT !.base = d]
                             ELSE D[i]]
    ELSE Append(D, [atoms |-> H, base |-> d, processed |-> FALSE])

HeadDisjunctive(c) ==
    /\ ~Satisfied(facts, c.head)
    /\ \E a, b \in Unrefuted(facts, c.head) : a # b
    /\ disjs' = WithDisjunction(disjs, Unrefuted(facts, c.head),
                                LeastRank(HeadDependencies(c)))
    /\ todo' = todo \ {c}
    /\ UNCHANGED <<facts, gen, clash>>

ApplyMatch(c) ==
    /\ Running
    /\ c \in todo
    /\ \/ HeadSatisfied(c)
       \/ HeadEmpty(c)
       \/ HeadUnit(c)
       \/ HeadDisjunctive(c)
    /\ UNCHANGED <<config, read, write, branches, answer>>

-----------------------------------------------------------------------------
(* process_next_disjunction, reached after an empty delta generation. *)

Unprocessed == {i \in DOMAIN disjs : ~disjs[i].processed}

Saturated == Running /\ todo = {} /\ NewRows = {}

WithProcessed(D, i) == [D EXCEPT ![i].processed = TRUE]

\* The queue hands out the unprocessed records in creation order.
TakeDisjunction(i) ==
    /\ i \in Unprocessed
    /\ \A j \in Unprocessed : i <= j
    /\ disjs' = WithProcessed(disjs, i)

Combined(i) == disjs[i].base \cup RefutationDependencies(facts, disjs[i].atoms)

DisjunctionSatisfied(i) ==
    /\ Satisfied(facts, disjs[i].atoms)
    /\ UNCHANGED <<facts, gen, clash, branches>>

DisjunctionEmpty(i) ==
    /\ ~Satisfied(facts, disjs[i].atoms)
    /\ Unrefuted(facts, disjs[i].atoms) = {}
    /\ clash' = {Combined(i)}
    /\ UNCHANGED <<facts, gen, branches>>

DisjunctionUnit(i) ==
    /\ ~Satisfied(facts, disjs[i].atoms)
    /\ \E a \in disjs[i].atoms :
          /\ Unrefuted(facts, disjs[i].atoms) = {a}
          /\ Dispatch(facts, gen, write', a, Combined(i))
    /\ UNCHANGED branches

Checkpoint ==
    [facts |-> facts, gen |-> gen, read |-> read', write |-> write', disjs |-> disjs']

\* The alternative a branching point is on: the first of those remaining.
Current(b) == CHOOSE a \in b.remaining : \A c \in b.remaining : a <= c

PushBranch(i) ==
    /\ ~Satisfied(facts, disjs[i].atoms)
    /\ \E a, b \in Unrefuted(facts, disjs[i].atoms) : a # b
    /\ LET branch == [source    |-> i,
                      remaining |-> Unrefuted(facts, disjs[i].atoms),
                      base      |-> Combined(i),
                      learned   |-> {},
                      saved     |-> Checkpoint]
           level  == Len(branches) + 1
       IN  /\ branches' = Append(branches, branch)
           /\ Dispatch(facts, gen, write', Current(branch), branch.base \cup {level})

ProcessDisjunction ==
    /\ Saturated
    /\ PrepareNextDelta
    /\ \E i \in DOMAIN disjs :
          /\ TakeDisjunction(i)
          /\ \/ DisjunctionSatisfied(i)
             \/ DisjunctionEmpty(i)
             \/ DisjunctionUnit(i)
             \/ PushBranch(i)
    /\ UNCHANGED <<config, todo, answer>>

\* Nothing is left to do and no clash is installed.
CompleteSat ==
    /\ Saturated
    /\ Unprocessed = {}
    /\ PrepareNextDelta
    /\ answer' = "sat"
    /\ UNCHANGED <<config, facts, gen, todo, disjs, clash, branches>>

-----------------------------------------------------------------------------
(* resolve_clash: backjump, learn, advance. *)

Clashed(d) == answer = "none" /\ clash = {d}

CompleteUnsat ==
    /\ Clashed({})
    /\ answer' = "unsat"
    /\ UNCHANGED <<config, trailed, todo, branches>>

BackjumpLevel(d) == IF learning THEN Maximum(d) ELSE Len(branches)

\* Mutant: nothing is learned from the clash.
AdvancedUnlearned(t, d) ==
    [branches[t] EXCEPT !.remaining = @ \ {Current(branches[t])}]

\* Mutant: the branch stays on its alternative.
AdvancedInPlace(t, d) == [branches[t] EXCEPT !.learned = @ \cup (d \ {t})]

\* The branch at level t after the clash d: one alternative less, one lesson
\* more.
Advanced(t, d) ==
    [branches[t] EXCEPT !.remaining = @ \ {Current(branches[t])},
                        !.learned = @ \cup (d \ {t})]

Restore(s) == read' = s.read /\ write' = s.write /\ disjs' = s.disjs

AdvanceBranch(t, d) ==
    LET b == Advanced(t, d) IN
    /\ b.remaining # {}
    /\ branches' = Append(SubSeq(branches, 1, t - 1), b)
    /\ Restore(b.saved)
    /\ Dispatch(b.saved.facts, b.saved.gen, b.saved.write, Current(b), b.base \cup {t})

ExhaustBranch(t, d) ==
    LET b == Advanced(t, d) IN
    /\ b.remaining = {}
    /\ branches' = SubSeq(branches, 1, t - 1)
    /\ Restore(b.saved)
    /\ facts' = b.saved.facts
    /\ gen' = b.saved.gen
    /\ clash' = {b.base \cup b.learned}

ResolveClash ==
    /\ \E d \in clash :
          /\ Clashed(d)
          /\ d # {}
          /\ \/ AdvanceBranch(BackjumpLevel(d), d)
             \/ ExhaustBranch(BackjumpLevel(d), d)
    /\ UNCHANGED <<config, todo, answer>>

-----------------------------------------------------------------------------
Done == answer # "none" /\ UNCHANGED vars

Next ==
    \/ ApplyNextDelta
    \/ \E c \in program : ApplyMatch(c)
    \/ ProcessDisjunction
    \/ CompleteSat
    \/ CompleteUnsat
    \/ ResolveClash
    \/ Done

Spec == Init /\ [][Next]_vars

\* Tableau.run is a loop that always takes another step until it returns.
FairSpec == Spec /\ WF_vars(Next)

-----------------------------------------------------------------------------
(* Properties *)

Store == [Atoms -> SUBSET SUBSET Nat]
Disjunction == [atoms : SUBSET Atoms, base : SUBSET Nat, processed : BOOLEAN]
Snapshot == [facts : Store, gen : [Atoms -> Nat], read : Nat, write : Nat,
             disjs : Seq(Disjunction)]
Branch == [source : Nat, remaining : SUBSET Atoms, base : SUBSET Nat,
           learned : SUBSET Nat, saved : Snapshot]

\* Every variable of the search keeps its type.
TypeOK ==
    /\ program \in SUBSET Clauses
    /\ learning \in BOOLEAN
    /\ facts \in Store
    /\ gen \in [Atoms -> Nat]
    /\ read \in Nat
    /\ write \in Nat
    /\ todo \in SUBSET program
    /\ disjs \in Seq(Disjunction)
    /\ clash \in SUBSET SUBSET Nat
    /\ branches \in Seq(Branch)
    /\ answer \in {"none", "sat", "unsat"}

\* The rows f and the disjunctions D depend on the first n levels only.
DependsBelow(f, D, n) ==
    /\ \A a \in Atoms : \A d \in f[a] : d \subseteq 1..n
    /\ \A i \in DOMAIN D : D[i].base \subseteq 1..n

BranchLive(b, l) ==
    /\ DependsBelow(b.saved.facts, b.saved.disjs, l - 1)
    /\ b.base \subseteq 1..(l - 1)
    /\ b.learned \subseteq 1..(l - 1)
    /\ b.source \in DOMAIN b.saved.disjs
    /\ b.remaining # {}
    /\ b.remaining \subseteq b.saved.disjs[b.source].atoms

\* Every dependency names live branch levels only, what a branching point
\* keeps names only levels below its own, and a live point is on an
\* alternative of its disjunction: the checks of check_invariants,
\* install_clash, add_ground_disjunction and push_branch never raise.
LevelsLive ==
    /\ DependsBelow(facts, disjs, Len(branches))
    /\ \A d \in clash : d \subseteq 1..Len(branches)
    /\ \A d, e \in clash : d = e
    /\ \A l \in DOMAIN branches : BranchLive(branches[l], l)

\* The consistent sets of atoms that satisfy every clause of the program.
IsModel(M) ==
    /\ \A a \in M : Opposite[a] \notin M
    /\ \A c \in program : c.body \subseteq M => c.head \cap M # {}

Models == {M \in SUBSET Atoms : IsModel(M)}

Rows(f) == {a \in Atoms : f[a] # {}}

\* The verdict of Tableau.run is the right one: "unsat" is returned only for a
\* program without a model, and "sat" only when the rows form one.  No
\* combination of backjumping, learning, subsumed supports and reused
\* disjunctions discards a satisfiable choice or forgets a clause instance.
VerdictCorrect ==
    /\ answer = "unsat" => Models = {}
    /\ answer = "sat" => IsModel(Rows(facts))

\* M agrees with the choices made at the levels of d.
Agrees(M, d) == \A l \in d : Current(branches[l]) \in M

\* Dependency sets are explanations: a row holds in every model that agrees
\* with the choices one of its supports names, a disjunction in every model
\* that agrees with its base, a clash excludes every model that agrees with
\* its dependency, and the alternatives a branch has not tried cover every
\* model that agrees with its base and what it has learned.
DependenciesExplain ==
    \A M \in Models :
       /\ \A a \in Atoms : \A d \in facts[a] : Agrees(M, d) => a \in M
       /\ \A i \in DOMAIN disjs :
             Agrees(M, disjs[i].base) => disjs[i].atoms \cap M # {}
       /\ \A d \in clash : ~Agrees(M, d)
       /\ \A l \in DOMAIN branches :
             Agrees(M, branches[l].base \cup branches[l].learned)
                => branches[l].remaining \cap M # {}

\* The disjunct a live branching point has chosen is a row of the store: no
\* rollback to another level takes it away, so the code's re-support of the
\* live branches of a reused disjunction has nothing to do.
LiveChoicesHold ==
    \A l \in DOMAIN branches : facts[Current(branches[l])] # {}

\* The branching stack moves forward: it grows by one point, or is cut at one
\* level at which either the next alternative is taken or the point is given
\* up and a clash about outer levels stays installed.
StackAdvances ==
    \/ /\ Len(branches') = Len(branches) + 1
       /\ \A l \in DOMAIN branches : branches'[l] = branches[l]
    \/ \E t \in DOMAIN branches :
          /\ \A l \in 1..(t - 1) : branches'[l] = branches[l]
          /\ \/ /\ Len(branches') = t
                /\ branches'[t].remaining \subseteq branches[t].remaining
                /\ branches'[t].remaining # branches[t].remaining
                /\ branches[t].learned \subseteq branches'[t].learned
             \/ /\ Len(branches') = t - 1
                /\ clash' # {}

\* Every change of the branching stack moves it forward (_resolve_clash and
\* _process_next): no alternative is tried twice on the same outer choices.
SearchAdvances == [][StackAdvances]_branches

\* Tableau.run returns: the search visits no assignment of choices twice and
\* every delta generation is followed by a smaller one.
Terminates == <>(answer # "none")
=============================================================================
