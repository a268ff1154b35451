------------------------------- MODULE MCState -------------------------------
(***************************************************************************)
(* The tableau's state on small instances, seen from below and from above: *)
(* TableauTrail (the stores over the undo trail, in every order of method  *)
(* calls, branches and rollbacks) and Merging (what the managers write to  *)
(* them while nodes are merged and pruned).  One of the two moves; the     *)
(* other one rests in its initial state.                                   *)
(***************************************************************************)
EXTENDS TableauTrail

CONSTANTS
    Layers,           \* the layers that may move, of {"trail", "merging"}
    MergingInstances  \* the workloads of Merging

VARIABLES
    layer,            \* the layer that moves
    instance, tableau, deferred, drawn, answer

merging == <<instance, tableau, deferred, drawn, answer>>

-----------------------------------------------------------------------------
(* TableauTrail: the methods of the node arena and of the fact store below  *)
(* one branching point; merges and prunings of nodes with facts and blockers *)
(* below one branching point, and in a forest of three nodes; and the       *)
(* session with nested branching points, operations, disjunctions, queues.  *)

MethodsWorkload ==
    [methods |-> {"create", "block", "unblock", "mark", "delta", "add", "core", "index"},
     flags |-> BOOLEAN, slots |-> 2, generations |-> 2, branches |-> 1, trail |-> 4]

SectionsWorkload ==
    [methods |-> {"create", "block", "add", "merge", "prune"},
     flags |-> {TRUE}, slots |-> 2, generations |-> 1, branches |-> 1, trail |-> 6]

PruneWorkload ==
    [methods |-> {"create", "add", "merge", "prune"},
     flags |-> {TRUE}, slots |-> 3, generations |-> 1, branches |-> 0, trail |-> 7]

SessionWorkload ==
    [methods |-> {"create", "disjunction", "clash", "queue", "operation"},
     flags |-> {}, slots |-> 1, generations |-> 2, branches |-> 2, trail |-> 4]

TrailWorkloads == {MethodsWorkload, SectionsWorkload, PruneWorkload, SessionWorkload}

-----------------------------------------------------------------------------
(* Merging: two or three roots of different kinds, one concept with its     *)
(* complement, two obligations.                                             *)

Root(kind, level) == [kind |-> kind, level |-> level]

TwoRoots == <<Root("root", 0), Root("named", 0)>>

\* Equalities, inequalities and queued disjunctions over a forest.
ForestWorkload ==
    [roots |-> TwoRoots, conclusions |-> {"neq", "eq", "someA"}, deferrable |-> {"notA"}]

\* Nodes that owe two witnesses.
ObligationWorkload ==
    [roots |-> TwoRoots, conclusions |-> {"eq", "someA", "someB"}, deferrable |-> {}]

\* Clauses that add edges between the nodes of three trees.
EdgeWorkload ==
    [roots |-> <<Root("root", 0), Root("ni", 2), Root("ni", 1)>>,
     conclusions |-> {"r", "eq", "someA"}, deferrable |-> {}]

MergeWorkloads == {ForestWorkload, ObligationWorkload, EdgeWorkload}
EdgeWorkloads == {EdgeWorkload}

Complements == [p \in {"A", "notA"} |-> IF p = "A" THEN "notA" ELSE "A"]

TwoFillers == [e \in {"someA", "someB"} |-> IF e = "someA" THEN "A" ELSE "B"]

Merges == INSTANCE Merging WITH
    workload <- instance, Workloads <- MergingInstances, Opposite <- Complements,
    Filler <- TwoFillers, MaxNodes <- 5, MaxLevels <- 4

-----------------------------------------------------------------------------
StateInit ==
    /\ layer \in Layers
    /\ \/ layer = "trail" /\ instance = ForestWorkload /\ Merges!Init /\ Init
       \/ layer = "merging" /\ workload = SessionWorkload /\ Init /\ Merges!Init

StateNext ==
    \/ layer = "trail" /\ Next /\ UNCHANGED <<layer, merging>>
    \/ layer = "merging" /\ Merges!Next /\ UNCHANGED <<layer, vars>>

StateSpec == StateInit /\ [][StateNext]_<<layer, vars, merging>>

\* Merging is dependency-exact (the promise of merging.py): each support of a
\* row, each merge dependency and each clash names conclusions from which the
\* row, the equality or the contradiction follows.
DependenciesExact == layer = "merging" => Merges!DependenciesExact

\* Merging loses nothing: while no clash is installed every conclusion is still a
\* row, however many merges rewrote it, and no two of them contradict each other.
ConclusionsKept == layer = "merging" => Merges!ConclusionsKept

\* Merging and pruning keep the forest whole, and the witnesses that expansion
\* made are never lost: an obligation of an active node is in the queue or has a
\* witness, unless a clause had drawn an edge from the node to a witness that
\* was pruned.
WitnessesKept == layer = "merging" => Merges!WitnessesKept

\* "For an active, unblocked node with an unsatisfied obligation: create/reuse
\* exactly enough witnesses" (specs/hypertableau.md:148-150): every obligation
\* of an active node is in the queue or has a witness.
ObligationsMet == layer = "merging" => Merges!ObligationsMet
=============================================================================
