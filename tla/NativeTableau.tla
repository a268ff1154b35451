----------------------------- MODULE NativeTableau -----------------------------
(***************************************************************************)
(* The search of the Rust kernel: drive_tableau over ProductionTableau,     *)
(* with the rule engine, the ground-disjunction brancher, nominal           *)
(* introduction, existential expansion with individual reuse, the datatype  *)
(* check, and the branch stack of TableauKernel they share.                 *)
(*                                                                          *)
(* What sets it apart from the Python search (module Branching): a branch   *)
(* keeps a snapshot of the kernel, but the atom registry and the            *)
(* disjunction keys of the rule engine and the branch contexts of nominal   *)
(* introduction live outside the kernel and survive a backtrack; three      *)
(* components own branching points; and a clash is routed to its owner.     *)
(*                                                                          *)
(* Data abstraction: a ground atom is a number, its disjunct rank.  A       *)
(* clause instance is a set of body atoms and a set of head atoms.  An      *)
(* annotated equality with n alternatives is an atom with n sets of         *)
(* consequences, the rows its i-th merge re-dispatches; an at-least         *)
(* obligation, object or data, is an atom with the rows of its fresh        *)
(* witnesses, with their inequalities when there are several, and, when     *)
(* its filler is reusable, those of a reused one.  Data constraints on one  *)
(* node are a set of atoms with unsatisfiable subsets.  The limits on       *)
(* witnesses, choices and steps are not modelled.  Merging itself is        *)
(* module Merging.  Levels, atom and disjunction identifiers count from 1   *)
(* here and from 0 in the code.                                             *)
(***************************************************************************)
EXTENDS Integers, Sequences, FiniteSets, DependencySets, SequencesExt, FiniteSetsExt

CONSTANTS
    Atoms,      \* ground atoms
    Opposite,   \* complementary atom, 0 when there is none
    Merges,     \* annotated equality -> sequence of sets of consequences
    Witness,    \* at-least atom -> rows of a fresh witness
    Reuse,      \* at-least atom -> rows of a reused witness, {} when not reusable
    Predicate,  \* at-least atom -> its predicate identifier
    BottomRole, \* at-least atoms of a bottom role
    Blocker,    \* at-least atom -> rows that block its node, {} when nothing does
    DataNodes,  \* for each concrete node, its data-range and inequality atoms
    Conflicts,  \* unsatisfiable sets of data atoms
    Programs    \* programs: [clauses, learning, atoms], atoms the ones it is about

Annotated == DOMAIN Merges
Obligations == DOMAIN Witness
DataAtoms == UNION DataNodes

VARIABLES
    program,    \* the clauses and configuration of this run
    tableau,    \* kernel, registries and branch stack
    phase,      \* where drive_tableau stands
    acted,      \* nominal introduction did something in this call
    todo,       \* clauses the current generation has still to apply
    checked,    \* {} or the last satisfiable datatype signature
    answer,     \* "none", then "sat", "unsat" or "error"
    models      \* the models of the program, which the properties refer to

vars == <<program, tableau, phase, acted, todo, checked, answer, models>>

-----------------------------------------------------------------------------
(* TableauKernel: rows, clash, branch stack. *)

\* The fields of MutableState; the others survive a restore.
Trailed == {"rows", "gen", "read", "write", "disjs", "annotated", "pending",
            "disabled", "reuse", "clash"}

Empty ==
    [rows      |-> [a \in Atoms |-> {}],   \* supports of each row
     gen       |-> [a \in Atoms |-> 0],    \* derivation generation
     read      |-> 0, write |-> 0,
     disjs     |-> <<>>,                   \* ground disjunctions, by identifier
     annotated |-> {},                     \* queue annotated_equalities
     pending   |-> {},                     \* unprocessed existentials
     disabled  |-> {},                     \* predicates that may not reuse
     reuse     |-> {},                     \* existential reuse branches
     clash     |-> {},                     \* {} or {dependency}
     branches  |-> <<>>,
     atoms     |-> <<>>,                   \* RuleEngine.atoms, by identifier
     keys      |-> {},                     \* RuleEngine.disjunction_keys
     contexts  |-> {},                     \* nominal branch contexts, by action
     error     |-> "none"]                 \* the error a component returned

Snapshot(T) == [f \in Trailed |-> T[f]]
Restore(T, s) == [f \in DOMAIN T |-> IF f \in Trailed THEN s[f] ELSE T[f]]

Fail(T, error) == [T EXCEPT !.error = error]

Highest(T) == Len(T.branches)
Present(T, A) == \A a \in A : T.rows[a] # {}
Supports(T, a) == IF a \in Atoms THEN T.rows[a] ELSE {}
FactDependency(T, a) == LeastRank(T.rows[a])

\* A new row gets the write generation; a known one keeps its generation.
AddFact(T, a, d) ==
    [T EXCEPT !.rows[a] = AddSupport(@, d),
              !.gen[a] = IF T.rows[a] = {} THEN T.write ELSE @]

\* The better of two clashes: a subset has a lower rank than its superset.
InstallClash(T, d) == [T EXCEPT !.clash = {LeastRank(@ \cup {d})}]

PushBranch(T, kind, alternatives, source, base) ==
    IF T.clash # {} THEN Fail(T, "clash installed")
    ELSE IF \E l \in base : l > Highest(T) THEN Fail(T, "future level")
    ELSE [T EXCEPT !.branches =
             Append(@, [kind |-> kind, alternatives |-> alternatives, next |-> 1,
                        source |-> source, base |-> base, learned |-> {},
                        saved |-> Snapshot(T)])]

Current(b) == b.alternatives[b.next]

\* Mutant: the alternative is not advanced.
AdvanceInPlace(T, l, learned) ==
    LET b == T.branches[l] IN
    [Restore(T, b.saved) EXCEPT
        !.branches = Append(SubSeq(@, 1, l - 1),
                            [b EXCEPT !.learned = @ \cup learned])]

\* advance_branch: restore the snapshot, learn, take the next alternative or
\* give the branch up.  The base of a live branch that strengthen_disjunction
\* lowers is reset here before anyone reads it, so it is not modelled.
AdvanceBranch(T, l, learned) ==
    LET b == T.branches[l]
        R == Restore(T, b.saved)
        outer == SubSeq(T.branches, 1, l - 1)
    IN  IF b.next = Len(b.alternatives) THEN [R EXCEPT !.branches = outer]
        ELSE [R EXCEPT !.branches =
                 Append(outer, [b EXCEPT !.next = @ + 1, !.learned = @ \cup learned])]

\* Mutant: only the last alternative's clash is passed on.
PropagatedUnlearned(b, learned) == b.base \cup learned

\* The clash a branch leaves when its alternatives are exhausted.
Propagated(b, learned) == b.base \cup b.learned \cup learned

-----------------------------------------------------------------------------
(* RuleEngine: registries and ground heads. *)

AtomId(T, a) ==
    IF a \in ToSet(T.atoms) THEN T ELSE [T EXCEPT !.atoms = Append(@, a)]

IdOf(T, a) == CHOOSE i \in DOMAIN T.atoms : T.atoms[i] = a

WithClashOf(T, a, d) ==
    IF Supports(T, Opposite[a]) = {} THEN T
    ELSE InstallClash(AtomId(T, a), d \cup FactDependency(T, Opposite[a]))

\* dispatch_normalized: an annotated equality is queued, anything else is
\* compared with its complement, and an at-least atom becomes an obligation,
\* again even if it was processed before.
Dispatch(T, a, d) ==
    LET R == AddFact(T, a, d) IN
    IF a \in Annotated
    THEN [AtomId(R, a) EXCEPT !.annotated = @ \cup {a}]
    ELSE [WithClashOf(R, a, d) EXCEPT
             !.pending = @ \cup ({a} \cap Obligations)]

DispatchAtom(T, id, d) ==
    IF id \in DOMAIN T.atoms THEN Dispatch(T, T.atoms[id], d) ELSE Fail(T, "unknown atom")

DispatchAll(T, A, d) ==
    FoldLeft(LAMBDA R, a : Dispatch(R, a, d), T, SetToSortSeq(A, <))

\* A merge stops re-dispatching at the first clash.
DispatchUntilClash(T, A, d) ==
    FoldLeft(LAMBDA R, a : IF R.clash = {} THEN Dispatch(R, a, d) ELSE R,
             T, SetToSortSeq(A, <))

\* branch_choices_for_source: every live branch with this source, of any kind.
ChoicesForSource(T, source) == {l \in 1..Highest(T) : T.branches[l].source = source}

\* The number a branch is on, read as an atom identifier.
ChoiceAsAtom(b) == IF b.kind = "ground" THEN Current(b) ELSE Current(b) + 1

KnownKey(T, H) == {k \in T.keys : k.atoms = H}

Strengthen(T, id, d) ==
    IF ~LowerRank(d, T.disjs[id].base) THEN T
    ELSE FoldLeft(LAMBDA R, l : DispatchAtom(R, ChoiceAsAtom(R.branches[l]), d \cup {l}),
                  [T EXCEPT !.disjs[id].base = d],
                  SetToSortSeq(ChoicesForSource(T, id), <))

AddDisjunction(T, H, d) ==
    LET R == FoldLeft(AtomId, T, SetToSortSeq(H, <)) IN
    [R EXCEPT
        !.disjs = Append(@, [atoms |-> [i \in 1..Cardinality(H) |->
                                          IdOf(R, SetToSortSeq(H, <)[i])],
                             base |-> d, processed |-> FALSE]),
        !.keys = (@ \ KnownKey(T, H))
                     \cup {[atoms |-> H, id |-> Len(T.disjs) + 1]}]

\* A key whose record is gone is replaced; a key whose identifier is in use is
\* taken to name the disjunction it was stored for.
InstallDisjunction(T, H, d) ==
    IF \E k \in KnownKey(T, H) : k.id \in DOMAIN T.disjs
    THEN LET k == CHOOSE k \in KnownKey(T, H) : TRUE IN Strengthen(T, k.id, d)
    ELSE AddDisjunction(T, H, d)

Satisfied(T, H) == \E a \in H : T.rows[a] # {}
Refuted(T, H) == {a \in H : Supports(T, Opposite[a]) # {}}

Refutations(T, H) == UNION {FactDependency(T, Opposite[a]) : a \in Refuted(T, H)}

ApplyGroundHead(T, H, d) ==
    LET open == H \ Refuted(T, H)
        support == d \cup Refutations(T, H)
    IN  CASE Satisfied(T, H)        -> T
          [] open = {}              -> InstallClash(T, support)
          [] Cardinality(open) = 1  -> Dispatch(T, CHOOSE a \in open : TRUE, support)
          [] OTHER                  -> InstallDisjunction(T, open, support)

\* The matches of a clause instance: one support per premise, united.
MatchDependencies(T, c) ==
    LET chosen == {s \in [c.body -> UNION {T.rows[a] : a \in c.body}] :
                       \A a \in c.body : s[a] \in T.rows[a]}
    IN  {UNION {s[a] : a \in c.body} : s \in chosen}

\* Matches are applied in the order of their dependencies, up to a clash.
ApplyMatches(T, c) ==
    FoldLeft(LAMBDA R, d : IF R.clash = {} THEN ApplyGroundHead(R, c.head, d) ELSE R,
             T, SetToSortSeq(MatchDependencies(T, c), BitsLess))

-----------------------------------------------------------------------------
(* The meaning of a program *)

Witnessed(M, o) ==
    /\ o \notin BottomRole
    /\ Witness[o] \subseteq M \/ (Reuse[o] # {} /\ Reuse[o] \subseteq M)

\* M satisfies the clauses of P, takes a choice for every annotated equality,
\* respects complements and data constraints, and witnesses the obligations
\* outside B.
Satisfies(P, M, B) ==
    /\ \A a \in M : Opposite[a] \notin M
    /\ \A c \in P.clauses : c.body \subseteq M => c.head \cap M # {}
    /\ \A a \in M \cap Annotated : \E i \in DOMAIN Merges[a] : Merges[a][i] \subseteq M
    /\ \A o \in (M \cap Obligations) \ B : Witnessed(M, o)
    /\ \A c \in Conflicts : ~(c \subseteq M)

\* A model of P, in which the fresh witness of each obligation names an element
\* that has its rows, possibly the one a reuse would have taken.
IsModel(P, M) ==
    /\ Satisfies(P, M, {})
    /\ \A o \in M \cap Obligations : Witness[o] \subseteq M

-----------------------------------------------------------------------------
(* drive_tableau *)

\* The head of the loop: resolve an installed clash, else start the phases.
LoopHead(T) == IF T.clash = {} THEN "nominals" ELSE "resolve"

\* A component that returns an error ends the operation.
Continue(T, where) ==
    /\ tableau' = T
    /\ IF T.error # "none" THEN answer' = "error" /\ phase' = "done"
                  ELSE answer' = "none" /\ phase' = where

Init ==
    /\ program \in Programs
    /\ tableau = Empty
    /\ phase = "load"
    /\ acted = FALSE
    /\ todo = {c \in program.clauses : c.body = {}}
    /\ checked = {}
    /\ answer = "none"
    /\ models = {M \in SUBSET program.atoms : IsModel(program, M)}

\* fire_unconditional, at load: returns at the first clash.
FireUnconditional(c) ==
    /\ phase = "load"
    /\ c \in todo
    /\ LET T == ApplyMatches(tableau, c) IN
       /\ todo' = IF T.clash = {} THEN todo \ {c} ELSE {}
       /\ Continue(T, "load")
    /\ UNCHANGED <<program, models, acted, checked>>

Initialized ==
    /\ phase = "load"
    /\ todo = {}
    /\ phase' = LoopHead(tableau)
    /\ UNCHANGED <<program, models, tableau, acted, todo, checked, answer>>

-----------------------------------------------------------------------------
(* Nominal introduction *)

ApplyChoice(T, a, i, d) == DispatchUntilClash(T, Merges[a][i], d)

\* The queued action with the lowest atom identifier.
NextAction(T) == CHOOSE a \in T.annotated : \A b \in T.annotated : IdOf(T, a) <= IdOf(T, b)

Introduce(T, a, d) ==
    IF Len(Merges[a]) = 1 THEN ApplyChoice(T, a, 1, d)
    ELSE IF a \in T.contexts THEN Fail(T, "branch owned")
    ELSE LET R == PushBranch([T EXCEPT !.contexts = @ \cup {a}], "merge",
                             [i \in 1..Len(Merges[a]) |-> i], IdOf(T, a), d)
         IN  IF R.error # "none" THEN R
             ELSE ApplyChoice(R, a, 1, d \cup {Highest(R)})

\* One step of process_all, which does not stop at a clash.
ProcessNominal ==
    /\ phase = "nominals"
    /\ tableau.annotated # {}
    /\ LET a == NextAction(tableau)
           T == [tableau EXCEPT !.annotated = @ \ {a}]
       IN  Continue(Introduce(T, a, FactDependency(T, a)), "nominals")
    /\ acted' = TRUE
    /\ UNCHANGED <<program, models, todo, checked>>

NominalsDone ==
    /\ phase = "nominals"
    /\ tableau.annotated = {}
    /\ phase' = IF acted THEN LoopHead(tableau) ELSE "delta"
    /\ acted' = FALSE
    /\ UNCHANGED <<program, models, tableau, todo, checked, answer>>

-----------------------------------------------------------------------------
(* Delta generations and the datatype check *)

PrepareNextDelta(T) ==
    [T EXCEPT !.read = IF T.write = T.read THEN @ ELSE T.write, !.write = @ + 1]

DeltaRows(T) == {a \in Atoms : T.rows[a] # {} /\ T.gen[a] = T.read}

\* Mutant: every premise has to be new.
TriggeredAllNew(T, c) ==
    /\ c.body # {}
    /\ \A a \in c.body : T.rows[a] # {} /\ T.gen[a] = T.read

Triggered(T, c) ==
    /\ \A a \in c.body : T.rows[a] # {} /\ T.gen[a] <= T.read
    /\ \E a \in c.body : T.gen[a] = T.read

ApplyNextDelta ==
    /\ phase = "delta"
    /\ LET T == PrepareNextDelta(tableau) IN
       /\ tableau' = T
       /\ todo' = {c \in program.clauses : Triggered(T, c)}
       /\ phase' = IF DeltaRows(T) = {} THEN "idle" ELSE "match"
    /\ UNCHANGED <<program, models, acted, checked, answer>>

ApplyMatch(c) ==
    /\ phase = "match"
    /\ c \in todo
    /\ LET T == ApplyMatches(tableau, c) IN
       /\ todo' = IF T.clash = {} /\ T.error = "none" THEN todo \ {c} ELSE {}
       /\ Continue(T, "match")
    /\ UNCHANGED <<program, models, acted, checked>>

Signature(T) == {<<a, T.rows[a]>> : a \in {b \in DataAtoms : T.rows[b] # {}}}

Constraints(T, n) == {a \in n : T.rows[a] # {}}
Unsatisfiable(T) ==
    {n \in DataNodes : \E c \in Conflicts : c \subseteq Constraints(T, n)}

\* Every constraint of the node explains the clash.
DatatypeClash(T, n) ==
    InstallClash(T, UNION {FactDependency(T, a) : a \in Constraints(T, n)})

\* An unchanged satisfiable signature is not solved again.
CheckDatatypes(T, unchanged, changed) ==
    IF DataAtoms = {} \/ checked = {Signature(T)}
    THEN Continue(T, unchanged) /\ UNCHANGED checked
    ELSE IF Unsatisfiable(T) = {}
    THEN Continue(T, changed) /\ checked' = {Signature(T)}
    ELSE /\ \E n \in Unsatisfiable(T) : Continue(DatatypeClash(T, n), "resolve")
         /\ UNCHANGED checked

\* After a generation with rows: datatypes, nominals unless a clash, next turn.
EndDelta ==
    /\ phase = "match"
    /\ todo = {}
    /\ CheckDatatypes(tableau, LoopHead(tableau), LoopHead(tableau))
    /\ acted' = TRUE
    /\ UNCHANGED <<program, models, todo>>

\* After an empty generation: a changed signature starts the next turn.
CheckIdle ==
    /\ phase = "idle"
    /\ CheckDatatypes(tableau, "existential", LoopHead(tableau))
    /\ UNCHANGED <<program, models, acted, todo>>

-----------------------------------------------------------------------------
(* Existential expansion *)

Blocked(T) ==
    {o \in T.pending : Blocker[o] # {} /\ Present(T, Blocker[o])}

\* Either a fresh or a reused witness is there.
Fulfilled(T, o) ==
    /\ o \notin BottomRole
    /\ Present(T, Witness[o]) \/ (Reuse[o] # {} /\ Present(T, Reuse[o]))

ExpandObject(T, o, supports) ==
    FoldLeft(LAMBDA R, d : DispatchAll(R, Witness[o], d), T,
             SetToSortSeq(supports, BitsLess))

CanReuse(T, o) == Reuse[o] # {} /\ Predicate[o] \notin T.disabled

\* The record is stored before the snapshot of its branch is taken.
ExpandWithReuse(T, o) ==
    LET level == Highest(T) + 1
        base == FactDependency(T, o)
        R == PushBranch([T EXCEPT !.reuse = @ \cup {[level |-> level, root |-> o]}],
                        "merge", <<0, 1>>, Predicate[o], base)
    IN  IF R.error # "none" THEN R ELSE DispatchAll(R, Reuse[o], base \cup {level})

\* process_next: an obligation of a bottom role is a clash, and stays pending; a
\* reused obligation is marked processed before its branch, so
\* that its fallback does not expand it twice.
Expand(T, o) ==
    LET marked == [T EXCEPT !.pending = @ \ {o}] IN
    CASE Fulfilled(T, o) -> marked
      [] o \in BottomRole -> InstallClash(T, FactDependency(T, o))
      [] ~Fulfilled(T, o) /\ o \notin BottomRole /\ CanReuse(T, o) -> ExpandWithReuse(marked, o)
      [] OTHER -> [ExpandObject(T, o, T.rows[o]) EXCEPT !.pending = @ \ {o}]

ProcessExistential ==
    /\ phase = "existential"
    /\ LET open == tableau.pending \ Blocked(tableau) IN
       IF open = {} THEN Continue(tableau, "disjunction")
       ELSE LET T == Expand(tableau, Min(open)) IN Continue(T, LoopHead(T))
    /\ acted' = FALSE
    /\ UNCHANGED <<program, models, todo, checked>>

-----------------------------------------------------------------------------
(* Ground disjunctions *)

Unprocessed(T) == {i \in DOMAIN T.disjs : ~T.disjs[i].processed}

Disjuncts(T, i) == {T.atoms[id] : id \in ToSet(T.disjs[i].atoms)}

Branch(T, i, open, d) ==
    LET R == PushBranch(T, "ground", SelectSeq(T.disjs[i].atoms,
                                               LAMBDA id : T.atoms[id] \in open), i, d)
    IN  IF R.error # "none" THEN R
        ELSE DispatchAtom(R, Current(Last(R.branches)), d \cup {Highest(R)})

ProcessNextDisjunction(T, i) ==
    LET R == [T EXCEPT !.disjs[i].processed = TRUE]
        H == Disjuncts(T, i)
        open == H \ Refuted(T, H)
        combined == T.disjs[i].base \cup Refutations(T, H)
    IN  CASE Satisfied(T, H)       -> R
          [] open = {}             -> InstallClash(R, combined)
          [] Cardinality(open) = 1 -> Dispatch(R, CHOOSE a \in open : TRUE, combined)
          [] OTHER                 -> Branch(R, i, open, combined)

ProcessDisjunction ==
    /\ phase = "disjunction"
    /\ IF Unprocessed(tableau) = {} THEN Continue(tableau, "complete")
       ELSE LET T == ProcessNextDisjunction(tableau, Min(Unprocessed(tableau)))
            IN  Continue(T, LoopHead(T))
    /\ UNCHANGED <<program, models, acted, todo, checked>>

-----------------------------------------------------------------------------
(* ready_for_sat, then the verdict *)

ReadyForSat(T) ==
    /\ T.clash = {}
    /\ T.pending \subseteq Blocked(T)
    /\ T.annotated = {}
    /\ Unprocessed(T) = {}

CompleteSat ==
    /\ phase = "complete"
    /\ answer' = IF ReadyForSat(tableau) THEN "sat" ELSE "error"
    /\ phase' = "done"
    /\ UNCHANGED <<program, models, tableau, acted, todo, checked>>

-----------------------------------------------------------------------------
(* resolve_clash: the owner of the highest level of the clash resolves it. *)

ReuseRecord(T, l) == {r \in T.reuse : r.level = l}


ForgetReuse(T, l) == [T EXCEPT !.reuse = @ \ ReuseRecord(T, l)]

\* Backtracked: blocking and the datatype signature are invalidated.
Backtracked(T) ==
    /\ Continue(T, LoopHead(T))
    /\ checked' = {}

Exhausted(T, where) ==
    /\ Continue(T, where)
    /\ UNCHANGED checked

\* Alternative 1: no more reuse for this predicate, whichever node owes it, and a fresh witness.
ReuseFallback(T, l, o, d) ==
    ExpandObject([T EXCEPT !.disabled = @ \cup {Predicate[o]}], o,
                 {T.branches[l].base \cup d \cup {l}})

ResolveReuse(l, d) ==
    LET b == tableau.branches[l]
        o == (CHOOSE r \in ReuseRecord(tableau, l) : TRUE).root
        T == AdvanceBranch(tableau, l, d \ {l})
    IN  IF Highest(T) = l THEN Backtracked(ReuseFallback(T, l, o, d \ {l}))
        ELSE Exhausted(InstallClash(ForgetReuse(T, l), Propagated(b, d \ {l})), "resolve")

\* A merge branch of an action with a context is nominal introduction's.
OwnedByNominals(l) ==
    /\ tableau.branches[l].kind = "merge"
    /\ \E a \in tableau.contexts : IdOf(tableau, a) = tableau.branches[l].source

\* Mutant: the last choice is taken as if it needed no refutation of the others.
LastChoiceUnexplained(a, i, d, l) == IF i = Len(Merges[a]) THEN {} ELSE d

\* The last choice follows from the refutations of the others.
ChoiceDependency(a, i, d, l) == IF i = Len(Merges[a]) THEN d \ {l} ELSE d

ResolveNominal(l, d) ==
    LET b == tableau.branches[l]
        a == tableau.atoms[b.source]
        T == AdvanceBranch(tableau, l, d \ {l})
    IN  IF Highest(T) = l
        THEN LET i == Current(T.branches[l]) IN
             Backtracked(ApplyChoice(T, a, i, ChoiceDependency(a, i, d, l)))
        ELSE Exhausted(InstallClash([T EXCEPT !.contexts = @ \ {a}],
                                    Propagated(b, d \ {l})), "resolve")

\* The engine advances whatever branch is its target, and keeps the clash of
\* an exhausted branch to itself (resolve_until_choice_or_unsat).
ResolveGround(l, d) ==
    LET b == tableau.branches[l]
        T == AdvanceBranch(tableau, l, d \ {l})
    IN  IF Highest(T) = l
        THEN Backtracked(DispatchAtom(T, ChoiceAsAtom(T.branches[l]),
                                      T.branches[l].base \cup {l}))
        ELSE Exhausted(InstallClash(T, Propagated(b, d \ {l})), "engine")

Target(d) == IF program.learning THEN Maximum(d) ELSE Highest(tableau)

Unsat ==
    /\ answer' = "unsat"
    /\ phase' = "done"
    /\ UNCHANGED <<tableau, checked>>

ResolveOwned(d) ==
    /\ d # {}
    /\ LET l == Maximum(d) IN
       \/ ReuseRecord(tableau, l) # {} /\ ResolveReuse(l, d)
       \/ ReuseRecord(tableau, l) = {} /\ OwnedByNominals(l) /\ ResolveNominal(l, d)
       \/ ReuseRecord(tableau, l) = {} /\ ~OwnedByNominals(l) /\ ResolveGround(Target(d), d)

\* Inside the engine: without learning the target is the highest branch, also
\* for a clash that depends on nothing.
ResolveInEngine(d) ==
    IF program.learning THEN d # {} /\ ResolveGround(Maximum(d), d)
    ELSE Highest(tableau) > 0 /\ ResolveGround(Highest(tableau), d)

ResolveClash ==
    /\ phase \in {"resolve", "engine"}
    /\ \E d \in tableau.clash :
          \/ phase = "resolve" /\ ResolveOwned(d)
          \/ phase = "engine" /\ ResolveInEngine(d)
          \/ phase = "resolve" /\ d = {} /\ Unsat
          \/ phase = "engine" /\ (IF program.learning THEN d = {} ELSE Highest(tableau) = 0) /\ Unsat
    /\ acted' = FALSE
    /\ UNCHANGED <<program, models, todo>>

-----------------------------------------------------------------------------
Done == phase = "done" /\ UNCHANGED vars

Next ==
    \/ \E c \in program.clauses : FireUnconditional(c) \/ ApplyMatch(c)
    \/ Initialized
    \/ ProcessNominal
    \/ NominalsDone
    \/ ApplyNextDelta
    \/ EndDelta
    \/ CheckIdle
    \/ ProcessExistential
    \/ ProcessDisjunction
    \/ CompleteSat
    \/ ResolveClash
    \/ Done

\* drive_tableau is a loop that takes another turn until it returns.
Spec == Init /\ [][Next]_vars /\ WF_vars(Next)

-----------------------------------------------------------------------------
(* Properties *)

Rows(T) == {a \in Atoms : T.rows[a] # {}}

\* Everything the search keeps has its type.
TypeOK ==
    /\ tableau.rows \in [Atoms -> SUBSET SUBSET (1..Highest(tableau))]
    /\ Rows(tableau) \subseteq program.atoms
    /\ tableau.pending \subseteq Obligations
    /\ tableau.annotated \subseteq Annotated
    /\ Cardinality(tableau.clash) <= 1
    /\ todo \subseteq program.clauses
    /\ phase \in {"load", "nominals", "delta", "match", "idle", "existential",
                  "disjunction", "complete", "resolve", "engine", "done"}

\* "sat" is returned only when the rows satisfy the program, obligations of
\* blocked nodes excepted: no clause instance, annotated equality, obligation
\* or disjunction is lost on a backtrack.
SatIsModel ==
    answer = "sat" => Satisfies(program, Rows(tableau), Blocked(tableau))

\* "unsat" is returned only for a program without a model: no backjump over
\* any kind of branching point discards a satisfiable choice ("Learning may
\* reduce work but cannot discard a potentially satisfiable choice",
\* specs/hypertableau.md:140).  It holds while resolve_until_choice_or_unsat
\* meets ground disjunctions only (the programs of the passing run), and fails
\* when the clash of an exhausted one goes back to an annotated equality.
UnsatIsRefuted == answer = "unsat" => models = {}

\* M takes the alternative the branching point at level l is on.
TakesChoice(M, l) ==
    LET b == tableau.branches[l] IN
    CASE b.kind = "ground" -> tableau.atoms[Current(b)] \in M
      [] ReuseRecord(tableau, l) # {} ->
            \A r \in ReuseRecord(tableau, l) :
               (IF Current(b) = 0 THEN Reuse[r.root] ELSE Witness[r.root]) \subseteq M
      [] OTHER -> Merges[tableau.atoms[b.source]][Current(b)] \subseteq M

Agrees(M, d) == \A l \in d : TakesChoice(M, l)

\* Dependency sets are explanations, whoever owns the branching points they
\* name: a row holds in every model that takes the choices of one of its
\* supports, a disjunction in every model that takes those of its base, and no
\* model takes the choices of a clash.  The last choice of an annotated
\* equality, which does not name its own level, is included.  It has the
\* restriction of UnsatIsRefuted.
DependenciesExplain ==
    \A M \in models :
       /\ \A a \in Atoms : \A d \in tableau.rows[a] : Agrees(M, d) => a \in M
       /\ \A i \in DOMAIN tableau.disjs :
             Agrees(M, tableau.disjs[i].base) => Disjuncts(tableau, i) \cap M # {}
       /\ \A d \in tableau.clash : ~Agrees(M, d)

\* What a branching point keeps refers to outer levels only, so that restoring
\* its snapshot leaves no dependency on a level that is gone.
OuterLevels(l) ==
    LET b == tableau.branches[l]
        S == b.saved
        below == 1..(l - 1)
    IN  /\ b.base \cup b.learned \subseteq below
        /\ \A a \in Atoms : \A d \in S.rows[a] : d \subseteq below
        /\ \A i \in DOMAIN S.disjs : S.disjs[i].base \subseteq below
        /\ \A r \in S.reuse : r.level <= l

\* check_invariants holds at every step: every dependency and every reuse
\* record names a live level of the right kind.
LevelsLive ==
    LET live == 1..Highest(tableau) IN
    /\ \A a \in Atoms : \A d \in tableau.rows[a] : d \subseteq live
    /\ \A i \in DOMAIN tableau.disjs : tableau.disjs[i].base \subseteq live
    /\ \A d \in tableau.clash : d \subseteq live
    /\ \A r \in tableau.reuse :
          /\ r.level \in live
          /\ tableau.branches[r.level].kind = "merge"
          /\ tableau.branches[r.level].source = Predicate[r.root]
    /\ \A l \in live : OuterLevels(l)

\* The branching point of the annotated equality a is still there.
HasBranch(a) ==
    \E l \in 1..Highest(tableau) :
        /\ tableau.branches[l].kind = "merge"
        /\ tableau.branches[l].source = IdOf(tableau, a)


\* A program never makes drive_tableau fail: "annotated equality already owns a
\* nominal branch" (nominals/mod.rs:368) and the other errors are for states
\* that are not reached, "including repeated annotations, merges before/after
\* processing, and rollback" (specs/hypertableau.md:207-208).
NeverFails == answer # "error"

\* The call returns: no assignment of choices is tried twice.
Terminates == <>(answer # "none")
=============================================================================
