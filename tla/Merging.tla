-------------------------------- MODULE Merging --------------------------------
(***************************************************************************)
(* Equality, trees and obligations of the tableau: rows dispatched by the  *)
(* rule engine, merges that prune the subtree of the node given up and     *)
(* rewrite its rows (MergingManager, TableauSession.merge_nodes and        *)
(* prune_subtree), expansion of at-least obligations in creation order     *)
(* (ExistentialExpansionManager), queued ground disjunctions, and the      *)
(* checks made before the answer is satisfiable.  The native engine        *)
(* (merging/mod.rs, store/state.rs, rules/engine.rs) does the same steps.  *)
(*                                                                         *)
(* Which conclusions the clauses draw is left open: a conclusion is any    *)
(* atom, and the k-th one depends on branch level k, the choice of its     *)
(* own.  A clash ends a behaviour: the search goes back to a state before  *)
(* the choice it blames (modules Branching and TableauTrail), which is a   *)
(* state of this model too.                                                *)
(*                                                                         *)
(* Data abstraction: object nodes, named by their creation ids; one role,  *)
(* "r", and obligations of cardinality one; no blocking.  Row ids are not  *)
(* kept: when several rows clash after a merge any of them may be the      *)
(* first, and any pending obligation of a node the next.  The reflexive    *)
(* equality rows are left out: they hold of every node.                    *)
(***************************************************************************)
EXTENDS Integers, Sequences, FiniteSets, DependencySets

CONSTANTS
    Workloads,      \* the instances: initial nodes, predicates of conclusions
    Opposite,       \* concept -> its complement, for those that have one
    Filler,         \* obligation -> the concept its witness must have
    MaxNodes,       \* bound: nodes
    MaxLevels       \* bound: conclusions

VARIABLES
    workload,   \* roots: kind and nominal level of the initial nodes, in creation
                \* order; conclusions, deferrable: the predicates the clauses draw
                \* conclusions and queue disjuncts with
    tableau,    \* nodes, rows, candidate queue, clash; raised: an exception
    deferred,   \* disjuncts of queued ground disjunctions
    drawn,      \* the conclusions, by branch level
    answer      \* "none", or "sat" when the loop has returned

vars == <<workload, tableau, deferred, drawn, answer>>

Obligations == DOMAIN Filler
Ids == 1..MaxNodes
Atom(p, args) == [pred |-> p, args |-> args]

-----------------------------------------------------------------------------
(* NodeArena and ExtensionStore.  N is an arena, R a store of rows. *)

NoNode == [life |-> "none", parent |-> 0, cause |-> "none", rep |-> 0,
           dep |-> {}, pending |-> {}]

Existing(N) == {x \in Ids : N[x].life # "none"}
Active(N) == {x \in Ids : N[x].life = "active"}
IsRoot(x) == x <= Len(workload.roots)

Representative(N, x) ==
    LET follow[y \in Ids] == IF N[y].rep = 0 THEN y ELSE follow[N[y].rep]
    IN  follow[x]

\* The dependencies of the merges between x and its representative.
PathDependency(N, x) ==
    LET follow[y \in Ids] ==
            IF N[y].rep = 0 THEN {} ELSE N[y].dep \cup follow[N[y].rep]
    IN  follow[x]

Path(N, a) == UNION {PathDependency(N, a.args[i]) : i \in DOMAIN a.args}

HasAncestor(N, x, ancestor) ==
    LET above[y \in Ids] == N[y].parent # 0 /\
                (N[y].parent = ancestor \/ above[N[y].parent])
    IN  above[x]

Supports(R, a) == IF a \in DOMAIN R THEN R[a] ELSE {}

WithRow(R, a, d) ==
    [b \in DOMAIN R \cup {a} |-> IF b = a THEN AddSupport(Supports(R, a), d) ELSE R[b]]

Mentions(a, X) == \E i \in DOMAIN a.args : a.args[i] \in X

\* The rows without those on the nodes X.
WithoutNodes(R, X) == [a \in {b \in DOMAIN R : ~Mentions(b, X)} |-> R[a]]

Sorted(a) ==
    IF a.pred \in {"neq", "eq"} /\ a.args[2] < a.args[1]
    THEN Atom(a.pred, <<a.args[2], a.args[1]>>) ELSE a

Canonical(N, a) == Sorted([a EXCEPT !.args = [i \in DOMAIN a.args |-> Representative(N, a.args[i])]])

\* Every representative passes require_active.
Canonicalizable(N, a) ==
    \A i \in DOMAIN a.args : Representative(N, a.args[i]) \in Active(N)

-----------------------------------------------------------------------------
(* dispatch_ground_atom for anything but an equality. *)

Complement(a) ==
    IF a.pred \in DOMAIN Opposite THEN {[a EXCEPT !.pred = Opposite[@]]} ELSE {}

\* The dependencies of the clashes a row a with support d gives rise to.
ClashDependencies(R, a, d) ==
    {d : x \in {y \in Ids : a = Atom("neq", <<y, y>>)}}
      \cup {d \cup LeastRank(R[b]) : b \in Complement(a) \cap DOMAIN R}

Pend(N, a) ==
    IF a.pred \in Obligations
    THEN [N EXCEPT ![a.args[1]].pending = @ \cup {a.pred}] ELSE N

Dispatched(T, a, d) ==
    [T EXCEPT !.rows = WithRow(@, a, d),
              !.clash = @ \cup ClashDependencies(T.rows, a, d),
              !.nodes = Pend(@, a),
              !.candidates = IF a.pred \in Obligations THEN @ \cup {a.args[1]} ELSE @]

-----------------------------------------------------------------------------
(* MergingManager *)

KindRank(x) ==
    IF ~IsRoot(x) THEN 3
    ELSE CASE workload.roots[x].kind = "named" -> 0 [] workload.roots[x].kind = "ni" -> 1 [] OTHER -> 2

\* Only the roots the nominal rule made have a nominal level; among nodes
\* without one the creation id decides.
NominalLevel(x) == IF IsRoot(x) /\ workload.roots[x].kind = "ni" THEN workload.roots[x].level ELSE 0

RankedBefore(x, y) ==
    \/ KindRank(x) < KindRank(y)
    \/ /\ KindRank(x) = KindRank(y)
       /\ \/ NominalLevel(x) < NominalLevel(y)
          \/ NominalLevel(x) = NominalLevel(y) /\ x <= y

\* The node that survives the merge of x and y.
Target(N, x, y) ==
    IF HasAncestor(N, x, y) THEN y
    ELSE IF HasAncestor(N, y, x) THEN x
    ELSE IF RankedBefore(x, y) THEN x ELSE y

Children(N, x) == {y \in Active(N) : N[y].parent = x}

Subtree(N, x) == {y \in Active(N) : y = x \/ HasAncestor(N, y, x)}

PruneAll(T, X) ==
    [T EXCEPT !.nodes = [x \in Ids |-> IF x \in X THEN [@[x] EXCEPT !.life = "pruned"] ELSE @[x]],
              !.rows = WithoutNodes(@, X)]

PruneChildren(T, source) ==
    PruneAll(T, UNION {Subtree(T.nodes, x) : x \in Children(T.nodes, source)})

\* The pending obligations of the source become the target's.
TransferObligations(T, source, target) ==
    LET N == [T.nodes EXCEPT ![target].pending = @ \cup T.nodes[source].pending] IN
    [T EXCEPT !.nodes = N,
              !.candidates = IF N[target].pending # {} THEN @ \cup {target} ELSE @]

Substitute(a, source, target) ==
    [a EXCEPT !.args = [i \in DOMAIN a.args |-> IF a.args[i] = source THEN target ELSE a.args[i]]]

Minimal(D) == {d \in D : \A e \in D : e \subseteq d => e = d}

\* Mutant: the copies do not depend on the equality.
RewriteWithoutEquality(R, source, target, d) ==
    LET moved == {a \in DOMAIN R : Mentions(a, {source})}
        Copies(b) == {a \in moved : Substitute(a, source, target) = b}
    IN  [b \in (DOMAIN R \ moved) \cup {Substitute(a, source, target) : a \in moved} |->
            Minimal(Supports(R, b) \cup UNION {R[a] : a \in Copies(b)})]

\* Mutant: only the first argument is rewritten.
RewriteFirstArgument(R, source, target, d) ==
    LET moved == {a \in DOMAIN R : a.args[1] = source}
        Copies(b) == {a \in moved : Substitute(a, source, target) = b}
    IN  [b \in (DOMAIN WithoutNodes(R, {source})) \cup {Substitute(a, source, target) : a \in moved} |->
            Minimal(Supports(R, b) \cup {e \cup d : e \in UNION {R[a] : a \in Copies(b)}})]

\* rewrite_node: every row on source is copied to target, each support united
\* with the dependency of the equality, and deactivated.
Rewrite(R, source, target, d) ==
    LET moved == {a \in DOMAIN R : Mentions(a, {source})}
        Copies(b) == {a \in moved : Substitute(a, source, target) = b}
    IN  [b \in (DOMAIN R \ moved) \cup {Substitute(a, source, target) : a \in moved} |->
            Minimal(Supports(R, b) \cup {e \cup d : e \in UNION {R[a] : a \in Copies(b)}})]

MergeNodes(T, source, target, d) ==
    [T EXCEPT !.rows = Rewrite(@, source, target, d),
              !.nodes = [@ EXCEPT ![source].life = "merged", ![source].rep = target,
                                  ![source].dep = d]]

\* Mutant: the survivor's rows are not dispatched again.
NotRedispatched(T, target) == {T}

\* The rows of the survivor are dispatched again in canonical form, up to the
\* first clash; the obligations among them are pending again.
Redispatched(T, target) ==
    LET incident == {a \in DOMAIN T.rows : Mentions(a, {target})}
        clashes == UNION {UNION {ClashDependencies(T.rows, a, d) : d \in T.rows[a]} :
                              a \in incident}
        due == {a.pred : a \in incident} \cap Obligations
        Same(b) == {a \in incident : Sorted(a) = b}
    IN  IF clashes # {} THEN {[T EXCEPT !.clash = {d}] : d \in clashes}
        ELSE {[T EXCEPT
            !.rows = [b \in DOMAIN @ \cup {Sorted(a) : a \in incident} |->
                         Minimal(Supports(@, b) \cup UNION {@[a] : a \in Same(b)})],
            !.nodes[target].pending = @ \cup due,
            !.candidates = IF due # {} THEN @ \cup {target} ELSE @]}

\* The equality of two different active nodes.
Merge(T, x, y, d) ==
    LET inequality == Supports(T.rows, Sorted(Atom("neq", <<x, y>>)))
        target == Target(T.nodes, x, y)
        source == IF target = x THEN y ELSE x
    IN  IF inequality # {} THEN {[T EXCEPT !.clash = {d \cup LeastRank(inequality)}]}
        ELSE Redispatched(
                MergeNodes(TransferObligations(PruneChildren(T, source), source, target),
                           source, target, d),
                target)

\* dispatch_ground_atom: the outcomes for the atom a with dependency d.
Dispatch(T, a, d) ==
    LET c == Canonical(T.nodes, a)
        support == d \cup Path(T.nodes, a)
    IN  CASE ~Canonicalizable(T.nodes, a) -> {[T EXCEPT !.raised = TRUE]}
          [] Canonicalizable(T.nodes, a) /\ a.pred # "eq" -> {Dispatched(T, c, support)}
          [] Canonicalizable(T.nodes, a) /\ a.pred = "eq" /\ c.args[1] = c.args[2] -> {T}
          [] OTHER -> Merge(T, c.args[1], c.args[2], support)

-----------------------------------------------------------------------------
Init ==
    /\ workload \in Workloads
    /\ tableau = [nodes |-> [x \in Ids |-> IF IsRoot(x) THEN [NoNode EXCEPT !.life = "active"]
                                           ELSE NoNode],
                  rows |-> <<>>, candidates |-> {}, clash |-> {}, raised |-> FALSE]
    /\ deferred = {}
    /\ drawn = <<>>
    /\ answer = "none"

Running == answer = "none" /\ tableau.clash = {} /\ ~tableau.raised

\* The equalities the clauses can draw: with a root, between siblings, and
\* between a tree node and its parent or grandparent.
Equatable(N, x, y) ==
    \/ IsRoot(x) \/ IsRoot(y)
    \/ N[x].parent = N[y].parent
    \/ N[x].parent = y \/ N[N[x].parent].parent = y

\* Conclusions about the nodes X with the predicates P.  Role atoms lead
\* from a root to another node: the edges of tree nodes come from expansion.
Drawable(N, X, P) ==
    {Atom(p, <<x>>) : p \in P \ {"r", "neq", "eq"}, x \in X}
      \cup {Atom("r", xy) : xy \in {xy \in X \X X : "r" \in P /\ IsRoot(xy[1]) /\ xy[1] # xy[2]}}
      \cup {Atom(p, xy) : p \in P \cap {"neq", "eq"},
                          xy \in {xy \in X \X X : xy[1] < xy[2] /\ Equatable(N, xy[2], xy[1])}}

\* The dependency of the next conclusion: a branch level of its own.
NextLevel == Len(drawn) + 1

\* A clause draws a conclusion about active nodes.
Conclude ==
    /\ Running
    /\ NextLevel <= MaxLevels
    /\ \E a \in Drawable(tableau.nodes, Active(tableau.nodes), workload.conclusions) :
          /\ tableau' \in Dispatch(tableau, a, {NextLevel})
          /\ drawn' = Append(drawn, a)
    /\ UNCHANGED <<workload, deferred, answer>>

\* A clause derives a disjunction: one of its disjuncts, to be chosen later.
Defer ==
    /\ Running
    /\ deferred = {}
    /\ NextLevel <= MaxLevels
    /\ \E a \in Drawable(tableau.nodes, Active(tableau.nodes), workload.deferrable) : deferred' = {a}
    /\ UNCHANGED <<workload, tableau, drawn, answer>>

-----------------------------------------------------------------------------
(* ExistentialExpansionManager *)

\* The candidates that are still active and have something pending; the
\* others are dropped from the queue when they come up.
Eligible(T) == {x \in T.candidates \cap Active(T.nodes) : T.nodes[x].pending # {}}

Satisfied(T, x, e) ==
    \E y \in Active(T.nodes) : /\ Atom("r", <<x, y>>) \in DOMAIN T.rows
                               /\ Atom(Filler[e], <<y>>) \in DOMAIN T.rows

Least(X) == CHOOSE x \in X : \A y \in X : x <= y

\* The queue with its first eligible candidate x taken out, and put back when
\* more is pending on it.
Taken(T, x, e) ==
    LET N == [T.nodes EXCEPT ![x].pending = @ \ {e}] IN
    [T EXCEPT !.nodes = N,
              !.candidates = {y \in @ : y > x} \cup {y \in {x} : N[x].pending # {}}]

\* A new tree node below x with the role and the filler, for each support.
Expanded(T, x, e) ==
    LET w == Least(Ids \ Existing(T.nodes))
        supports == Supports(T.rows, Atom(e, <<x>>))
    IN  [T EXCEPT !.nodes[w] = [NoNode EXCEPT !.life = "active", !.parent = x, !.cause = e],
                  !.rows = [b \in DOMAIN @ \cup {Atom("r", <<x, w>>), Atom(Filler[e], <<w>>)} |->
                               IF b \in DOMAIN @ THEN @[b] ELSE supports]]

ProcessNext ==
    /\ Running
    /\ Eligible(tableau) # {}
    /\ LET x == Least(Eligible(tableau)) IN
       \E e \in tableau.nodes[x].pending :
          \/ /\ Supports(tableau.rows, Atom(e, <<x>>)) = {} \/ Satisfied(tableau, x, e)
             /\ tableau' = Taken(tableau, x, e)
          \/ /\ Supports(tableau.rows, Atom(e, <<x>>)) # {} /\ ~Satisfied(tableau, x, e)
             /\ Existing(tableau.nodes) # Ids
             /\ tableau' = Taken(Expanded(tableau, x, e), x, e)
    /\ UNCHANGED <<workload, deferred, drawn, answer>>

-----------------------------------------------------------------------------
(* What the loop does when there is nothing to expand. *)

Settled == Running /\ Eligible(tableau) = {}

Refuted(T, c) == Complement(c) \cap DOMAIN T.rows # {}
                    \/ (c.pred = "eq" /\ Supports(T.rows, Atom("neq", c.args)) # {})

Holds(T, c) == c \in DOMAIN T.rows \/ (c.pred = "eq" /\ c.args[1] = c.args[2])

\* process_next of the brancher on a queued disjunct: nothing when it holds,
\* another disjunct when it is refuted, else it is chosen at a new level.
ChooseDeferred ==
    /\ Settled
    /\ NextLevel <= MaxLevels
    /\ \E a \in deferred :
          LET c == Canonical(tableau.nodes, a) IN
          IF /\ Canonicalizable(tableau.nodes, a)
             /\ Holds(tableau, c) \/ Refuted(tableau, c)
          THEN UNCHANGED <<tableau, drawn>>
          ELSE /\ tableau' \in Dispatch(tableau, a, {NextLevel})
               /\ drawn' = Append(drawn, a)
    /\ deferred' = {}
    /\ UNCHANGED <<workload, answer>>

\* NodeArena.check_invariants on merged nodes.
RepresentativesChecked(N) ==
    \A x \in Existing(N) : N[x].life = "merged" => Representative(N, x) \in Active(N)

\* The invariants are checked, then the loop returns.
CompleteSat ==
    /\ Settled
    /\ deferred = {}
    /\ IF RepresentativesChecked(tableau.nodes)
       THEN answer' = "sat" /\ UNCHANGED tableau
       ELSE tableau' = [tableau EXCEPT !.raised = TRUE] /\ UNCHANGED answer
    /\ UNCHANGED <<workload, deferred, drawn>>

\* The behaviour is over, or the bounds on nodes and levels end it.
Done ==
    /\ \/ ~Running
       \/ Existing(tableau.nodes) = Ids
       \/ NextLevel > MaxLevels
    /\ UNCHANGED vars

Next == Conclude \/ Defer \/ ProcessNext \/ ChooseDeferred \/ CompleteSat \/ Done

Spec == Init /\ [][Next]_vars
-----------------------------------------------------------------------------
(* Properties *)

Row == [pred : STRING, args : Seq(Ids)]
Levels == 1..MaxLevels

\* Nodes, rows and queues keep their types; the supports of a row are a nonempty
\* antichain.
TypeOK ==
    /\ tableau.nodes \in [Ids -> [life : {"none", "active", "merged", "pruned"},
                                  parent : Ids \cup {0},
                                  cause : Obligations \cup {"none"},
                                  rep : Ids \cup {0},
                                  dep : SUBSET Levels,
                                  pending : SUBSET Obligations]]
    /\ \A a \in DOMAIN tableau.rows :
          /\ a \in Row
          /\ tableau.rows[a] \in SUBSET SUBSET Levels \ {{}}
          /\ \A d, e \in tableau.rows[a] : d \subseteq e => d = e
    /\ tableau.candidates \subseteq Ids
    /\ tableau.clash \in SUBSET SUBSET Levels /\ Cardinality(tableau.clash) <= 1
    /\ tableau.raised \in BOOLEAN
    /\ deferred \subseteq Row
    /\ drawn \in Seq(Row) /\ Len(drawn) <= MaxLevels
    /\ answer \in {"none", "sat"}

\* The active nodes are a forest and carry every row: merging and pruning leave
\* no active node below one that is not, and no active row on a node that is
\* not (the precondition of ExtensionStore.add and NodeArena.require_active).
ForestSound ==
    LET N == tableau.nodes IN
    /\ \A x \in Active(N) : ~IsRoot(x) => N[x].parent \in Active(N)
    /\ \A a \in DOMAIN tableau.rows : \A i \in DOMAIN a.args : a.args[i] \in Active(N)

\* x and y are equal if the conclusions of the levels D hold.
SameAs(D, x, y) ==
    LET Closed(X) == \A k \in D : drawn[k].pred = "eq" =>
                        (drawn[k].args[1] \in X <=> drawn[k].args[2] \in X)
    IN  x = y \/ \A X \in SUBSET Ids : x \in X /\ Closed(X) => y \in X

SameArguments(D, u, v) ==
    Len(u) = Len(v) /\ \A i \in DOMAIN u : SameAs(D, u[i], v[i])

Drawn(D, a) ==
    \E k \in D : /\ drawn[k].pred = a.pred
                 /\ \/ SameArguments(D, drawn[k].args, a.args)
                    \/ a.pred = "neq" /\ SameArguments(D, drawn[k].args, <<a.args[2], a.args[1]>>)

\* The atom a follows from the conclusions of the levels D, by equality and
\* because a witness has its role and its filler if its obligation holds.
Entailed(D, a) ==
    \/ Drawn(D, a)
    \/ \E w \in Existing(tableau.nodes) :
          LET n == tableau.nodes[w] IN
          /\ n.cause # "none"
          /\ Drawn(D, Atom(n.cause, <<n.parent>>))
          /\ \/ a.pred = "r" /\ SameArguments(D, <<n.parent, w>>, a.args)
             \/ a.pred = Filler[n.cause] /\ SameArguments(D, <<w>>, a.args)

Contradictory(D) ==
    \/ \E k \in D : drawn[k].pred = "neq" /\ SameAs(D, drawn[k].args[1], drawn[k].args[2])
    \/ \E p \in DOMAIN Opposite : \E x \in Existing(tableau.nodes) :
          Entailed(D, Atom(p, <<x>>)) /\ Entailed(D, Atom(Opposite[p], <<x>>))

\* Merging is dependency-exact (the promise of merging.py): each support of a
\* row, each merge dependency and each clash names conclusions from which the
\* row, the equality or the contradiction follows.
DependenciesExact ==
    /\ \A a \in DOMAIN tableau.rows : \A d \in tableau.rows[a] : Entailed(d, a)
    /\ \A x \in Existing(tableau.nodes) :
          LET n == tableau.nodes[x] IN n.life = "merged" => SameAs(n.dep, x, n.rep)
    /\ \A d \in tableau.clash : Contradictory(d)

\* Each conclusion is a row of the representatives of its arguments, with a
\* support that needs nothing but the conclusion and the merges in between,
\* unless such a node was pruned.
RowsKept ==
    Running =>
        \A k \in DOMAIN drawn :
            LET a == drawn[k]
                c == Canonical(tableau.nodes, a)
            IN  Canonicalizable(tableau.nodes, a) =>
                   IF a.pred = "eq" THEN c.args[1] = c.args[2]
                   ELSE \E d \in Supports(tableau.rows, c) :
                           d \subseteq {k} \cup Path(tableau.nodes, a)

\* No contradiction goes unnoticed: while no clash is installed, no two
\* conclusions or rows contradict each other, whatever nodes were merged since.
NoMissedClash ==
    LET N == tableau.nodes
        held == DOMAIN tableau.rows \cup
                {Canonical(N, drawn[k]) : k \in {j \in DOMAIN drawn : Canonicalizable(N, drawn[j])}}
    IN  Running =>
           \A a \in held : /\ Complement(a) \cap held = {}
                           /\ a.pred = "neq" => a.args[1] # a.args[2]

\* Merging loses nothing: while no clash is installed every conclusion is still a
\* row, however many merges rewrote it, and no two of them contradict each other.
ConclusionsKept == RowsKept /\ NoMissedClash

\* The obligation e of the active node x is waiting in the queue, or has a witness.
WaitingOrMet(x, e) ==
    \/ e \in tableau.nodes[x].pending /\ x \in tableau.candidates
    \/ Satisfied(tableau, x, e)

\* An edge a clause drew from x led to a node that has been pruned since.
EdgePruned(x) ==
    \E k \in DOMAIN drawn :
        /\ drawn[k].pred = "r"
        /\ Representative(tableau.nodes, drawn[k].args[1]) = x
        /\ tableau.nodes[Representative(tableau.nodes, drawn[k].args[2])].life = "pruned"

Owed(x) == {e \in Obligations : Atom(e, <<x>>) \in DOMAIN tableau.rows}

\* Merging and pruning keep the forest whole, and the witnesses that expansion
\* made are never lost: an obligation of an active node is in the queue or has a
\* witness, unless a clause had drawn an edge from the node to a witness that
\* was pruned (ObligationsMet makes no such exception).
WitnessesKept ==
    /\ TypeOK /\ ForestSound
    /\ Running => \A x \in Active(tableau.nodes) : \A e \in Owed(x) :
                      WaitingOrMet(x, e) \/ EdgePruned(x)

\* "For an active, unblocked node with an unsatisfied obligation: create/reuse
\* exactly enough witnesses" (specs/hypertableau.md:148-150): every obligation
\* of an active node is in the queue or has a witness.
ObligationsMet ==
    Running => \A x \in Active(tableau.nodes) : \A e \in Owed(x) : WaitingOrMet(x, e)

\* The check of NodeArena.check_invariants "merge representative is not active"
\* (nodes.py:425), made before the answer is satisfiable, never fires.
RepresentativesActive ==
    answer = "none" /\ Settled => RepresentativesChecked(tableau.nodes)

\* "Pruned disjunctions are skipped" (specs/tableau-state.md:186): choosing
\* from a queued disjunction never raises.
PrunedDisjunctionsSkipped ==
    [][deferred # {} /\ deferred' = {} => ~tableau'.raised]_vars
=============================================================================
