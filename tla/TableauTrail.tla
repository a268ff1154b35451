------------------------------ MODULE TableauTrail ------------------------------
(***************************************************************************)
(* The rollback-safe state of the tableau: the undo trail (Trail), the      *)
(* stores that write to it (NodeArena, ExtensionStore,                      *)
(* GroundDisjunctionStore, ClashStore, StableQueue) and the checkpoints     *)
(* TableauSession takes of them (branching points, the operation root, the  *)
(* atomic sections of merge_nodes and prune_subtree).                       *)
(*                                                                          *)
(* The managers above call the methods in any order their preconditions     *)
(* allow, so every method they call is an action.  merge_nodes and          *)
(* prune_subtree call several methods of the stores under a checkpoint: one *)
(* action does all of it, or a part of it and then fails.  A trail entry is *)
(* the closure a method records: the kind, the place it changed and the old *)
(* values it captured.  A rollback undoes one entry per step.  What no undo *)
(* touches (slot generations, the length of the arena, the free list) is    *)
(* kept outside store.                                                      *)
(*                                                                          *)
(* Data abstraction: object nodes only, a node with a parent being a tree   *)
(* node and one without a root; a fact has one argument, its own            *)
(* representative; one registered index stands for each of them; provenance *)
(* and the disjuncts of a ground disjunction are left out.  Branch levels   *)
(* count from 0, as in the code.                                            *)
(***************************************************************************)
EXTENDS Integers, Sequences, FiniteSets, DependencySets

LOCAL INSTANCE SequencesExt

CONSTANTS
    Predicates,     \* unary predicates of facts
    Existentials,   \* at-least predicates a node may have to expand
    Workloads,      \* what the managers do: the store methods they call,
                    \* the flags they pass, bounds on slots, nodes created in a
                    \* slot, live branching points and trail entries
    MaxSlots,       \* bound: slots of the node arena
    MaxAlternatives \* bound: alternatives of a branching point

ASSUME SlotsAssumption ==
    MaxSlots \in Nat /\ \A w \in Workloads : w.slots \in 0..MaxSlots

VARIABLES
    workload,       \* the managers' workload
    store,          \* the trailed state, by component
    trail,          \* undo entries, oldest first
    branches,       \* branching points, outermost first
    root,           \* the operation root
    atomic,         \* the checkpoint of a merge_nodes or prune_subtree that
                    \* has failed and is being undone, else <<>>
    mode,           \* running, or the rollback under way
    generations,    \* slot -> generation of the last node created in it
    allocated,      \* length of the list of slots
    free,           \* the free list
    issued          \* history variable: the handles create has returned

arena == <<generations, allocated, free, issued>>
points == <<branches, root, atomic>>
vars == <<workload, store, trail, branches, root, atomic, mode, generations, allocated,
          free, issued>>

-----------------------------------------------------------------------------
(* Nodes and rows *)

Slots == 0..(MaxSlots - 1)
Handle == [slot : Nat, gen : Nat]
NoHandle == [slot |-> 0, gen |-> 0]     \* None: generations start at 1

NoNode == [gen |-> 0, id |-> 0, level |-> 0, parent |-> NoHandle,
           life |-> "none", rep |-> NoHandle, dep |-> {}, blocker |-> NoHandle,
           direct |-> FALSE, bgen |-> 0, exist |-> {}]

NewNode(g, i, l, p) ==
    [NoNode EXCEPT !.gen = g, !.id = i, !.level = l, !.parent = p, !.life = "active"]

Least(S) == CHOOSE s \in S : \A t \in S : s <= t

\* NodeArena.get and require_active accept the handle h.
Exists(n, h) ==
    h.slot \in Slots /\ n.slots[h.slot].life # "none" /\ n.slots[h.slot].gen = h.gen
IsActive(n, h) == Exists(n, h) /\ n.slots[h.slot].life = "active"

HandleAt(n, s) == [slot |-> s, gen |-> n.slots[s].gen]
ActiveSlots(n) == {s \in Slots : n.slots[s].life = "active"}
ActiveHandles(n) == {HandleAt(n, s) : s \in ActiveSlots(n)}

\* TableauSession._has_ancestor, and the depth of a node in its tree.
RECURSIVE HasAncestor(_, _, _)
HasAncestor(n, h, ancestor) ==
    LET parent == n.slots[h.slot].parent IN
    parent # NoHandle /\ (parent = ancestor \/ HasAncestor(n, parent, ancestor))

RECURSIVE Depth(_, _)
Depth(n, h) ==
    LET parent == n.slots[h.slot].parent IN
    IF parent = NoHandle THEN 0 ELSE 1 + Depth(n, parent)

\* NodeArena.representative.
RECURSIVE Representative(_, _)
Representative(n, h) ==
    LET rep == n.slots[h.slot].rep IN
    IF rep = NoHandle THEN h ELSE Representative(n, rep)

\* _merge_direction: a descendant goes into its ancestor, otherwise a tree
\* node into a root and the younger node into the older one.
MergeTarget(n, h, g) ==
    LET rank(x) == <<IF n.slots[x.slot].parent = NoHandle THEN 0 ELSE 1, n.slots[x.slot].id>>
        before  == \/ rank(h)[1] < rank(g)[1]
                   \/ rank(h)[1] = rank(g)[1] /\ rank(h)[2] <= rank(g)[2]
    IN  IF HasAncestor(n, h, g) THEN g
        ELSE IF HasAncestor(n, g, h) \/ before THEN h ELSE g

Index(f, ids) == [f EXCEPT !.index.ids = IF f.index.on THEN ids ELSE @]

\* The fact store f without the key k in its key map.
Unkeyed(f, k) == {p \in f.byKey : p.key # k}

-----------------------------------------------------------------------------
(* What the methods of a store do to it. *)

Created(n, s, node) ==
    [slots |-> [n.slots EXCEPT ![s] = node], nextId |-> n.nextId + 1]

Merged(n, s, target, d) ==
    [n EXCEPT !.slots[s] =
        [@ EXCEPT !.life = "merged", !.rep = target, !.dep = d,
                  !.blocker = NoHandle, !.direct = FALSE, !.bgen = @ + 1]]

Pruned(n, s) ==
    [n EXCEPT !.slots[s] =
        [@ EXCEPT !.life = "pruned", !.blocker = NoHandle, !.direct = FALSE,
                  !.bgen = @ + 1]]

Blocked(n, s, blocker, directly) ==
    [n EXCEPT !.slots[s] =
        [@ EXCEPT !.blocker = blocker, !.direct = blocker # NoHandle /\ directly,
                  !.bgen = @ + 1]]

Marked(n, s, x, pending) ==
    [n EXCEPT !.slots[s] =
        [@ EXCEPT !.exist = IF pending THEN @ \cup {x} ELSE @ \ {x}]]

NextDelta(f) ==
    [f EXCEPT !.read = IF f.write = f.read THEN @ ELSE f.write,
              !.write = @ + 1]

RowAdded(f, k, d, core) ==
    LET r == Len(f.rows) + 1 IN
    Index([f EXCEPT !.rows = Append(@, [key |-> k, supports |-> {d}, core |-> core,
                                        active |-> TRUE, gen |-> f.write]),
                    !.byKey = Unkeyed(f, k) \cup {[key |-> k, row |-> r]}],
          f.index.ids \cup {r})

RowSupported(f, r, d, core) ==
    [f EXCEPT !.rows[r] = [@ EXCEPT !.supports = AddSupport(@, d),
                                    !.core = @ \/ core]]

RowDeactivated(f, r) ==
    Index([f EXCEPT !.rows[r] = [@ EXCEPT !.active = FALSE],
                    !.byKey = Unkeyed(f, f.rows[r].key)],
          f.index.ids \ {r})

CoreSet(f, r, core) == [f EXCEPT !.rows[r] = [@ EXCEPT !.core = core]]

ActiveRows(f) == {r \in DOMAIN f.rows : f.rows[r].active}

IndexRegistered(f) == [f EXCEPT !.index = [on |-> TRUE, ids |-> ActiveRows(f)]]

\* ClashStore._select: the smaller dependency, by subset and then by rank.
Selected(c, d) ==
    IF \E e \in c : e \subseteq d \/ (LowerRank(e, d) /\ ~(d \subseteq e))
    THEN c ELSE {d}

-----------------------------------------------------------------------------
(* Undo entries *)

Entry(component, kind, at, old) ==
    [component |-> component, kind |-> kind, at |-> at, old |-> old]

MergeCapture(x) == [life |-> x.life, rep |-> x.rep, dep |-> x.dep,
                    blocker |-> x.blocker, direct |-> x.direct, bgen |-> x.bgen]
PruneCapture(x) == [life |-> x.life, blocker |-> x.blocker, direct |-> x.direct,
                    bgen |-> x.bgen]
\* Mutant: the undo clears the blocker instead of restoring it.
BlockCaptureCleared(x) == [blocker |-> NoHandle, direct |-> FALSE, bgen |-> x.bgen]
BlockCapture(x) == [blocker |-> x.blocker, direct |-> x.direct, bgen |-> x.bgen]

UndoNode(e, n) ==
    CASE e.kind = "create" ->
            [slots |-> [n.slots EXCEPT ![e.at] = NoNode], nextId |-> e.old.id]
      [] e.kind = "merge" ->
            [n EXCEPT !.slots[e.at] =
               [@ EXCEPT !.life = e.old.life, !.rep = e.old.rep, !.dep = e.old.dep,
                         !.blocker = e.old.blocker, !.direct = e.old.direct,
                         !.bgen = e.old.bgen]]
      [] e.kind = "prune" ->
            [n EXCEPT !.slots[e.at] =
               [@ EXCEPT !.life = e.old.life, !.blocker = e.old.blocker,
                         !.direct = e.old.direct, !.bgen = e.old.bgen]]
      [] e.kind = "blocking" ->
            [n EXCEPT !.slots[e.at] =
               [@ EXCEPT !.blocker = e.old.blocker, !.direct = e.old.direct,
                         !.bgen = e.old.bgen]]
      [] e.kind = "existential" ->
            [n EXCEPT !.slots[e.at] =
               [@ EXCEPT !.exist = IF e.old.existed THEN @ \cup {e.old.id}
                                   ELSE @ \ {e.old.id}]]

UndoFact(e, f) ==
    CASE e.kind = "delta" -> [f EXCEPT !.read = e.old.read, !.write = e.old.write]
      [] e.kind = "create" ->
            Index([f EXCEPT !.rows = SubSeq(@, 1, Len(@) - 1),
                            !.byKey = Unkeyed(f, e.old)],
                  f.index.ids \ {e.at})
      [] e.kind = "support" ->
            [f EXCEPT !.rows[e.at] = [@ EXCEPT !.supports = e.old.supports,
                                               !.core = e.old.core]]
      [] e.kind = "deactivate" ->
            Index([f EXCEPT !.rows[e.at] = [@ EXCEPT !.active = TRUE],
                            !.byKey = Unkeyed(f, f.rows[e.at].key)
                                      \cup {[key |-> f.rows[e.at].key, row |-> e.at]}],
                  f.index.ids \cup {e.at})
      [] e.kind = "core" -> [f EXCEPT !.rows[e.at] = [@ EXCEPT !.core = e.old]]
      [] e.kind = "index" -> [f EXCEPT !.index = [on |-> FALSE, ids |-> {}]]

UndoDisjunction(e, D) ==
    CASE e.kind = "create" -> SubSeq(D, 1, Len(D) - 1)
      [] e.kind = "processed" -> [D EXCEPT ![e.at] = [@ EXCEPT !.processed = e.old]]

UndoQueue(e, Q) ==
    CASE e.kind = "enqueue" -> Q \ {e.at}
      [] e.kind = "pop" -> Q \cup {e.at}

Undo(e, x) ==
    CASE e.component = "nodes" -> UndoNode(e, x)
      [] e.component = "facts" -> UndoFact(e, x)
      [] e.component = "disjunctions" -> UndoDisjunction(e, x)
      [] e.component \in {"queue", "candidates"} -> UndoQueue(e, x)
      [] e.component = "clash" -> e.old

\* The checks an undo closure makes before it changes anything: the slot
\* still holds the node created there and is not free, the last row or record
\* is the one to remove, an indexed row is in its index, a queued value is in
\* its queue.
UndoChecks(e, s) ==
    CASE e.component = "nodes" /\ e.kind = "create" ->
            /\ s.nodes.slots[e.at].life # "none"
            /\ s.nodes.slots[e.at].gen = e.old.gen
            /\ e.at \notin free
      [] e.component = "facts" /\ e.kind = "create" ->
            /\ e.at = Len(s.facts.rows)
            /\ s.facts.index.on => e.at \in s.facts.index.ids
            /\ [key |-> e.old, row |-> e.at] \in s.facts.byKey
      [] e.component = "disjunctions" /\ e.kind = "create" ->
            e.at = Len(s.disjunctions)
      [] e.component = "queue" /\ e.kind = "enqueue" -> e.at \in s.queue
      [] e.component = "candidates" /\ e.kind = "enqueue" -> e.at \in s.candidates
      [] OTHER -> TRUE

-----------------------------------------------------------------------------
Init ==
    /\ workload \in Workloads
    /\ store = [nodes        |-> [slots |-> [s \in Slots |-> NoNode], nextId |-> 0],
                facts        |-> [rows |-> <<>>, byKey |-> {},
                                  index |-> [on |-> FALSE, ids |-> {}],
                                  read |-> 0, write |-> 0],
                disjunctions |-> <<>>,
                queue        |-> {},
                candidates   |-> {},
                clash        |-> {}]
    /\ trail = <<>>
    /\ branches = <<>>
    /\ root = [length |-> 0, saved |-> store]
    /\ atomic = <<>>
    /\ mode = [op |-> "run", to |-> 0, level |-> 0]
    /\ generations = [s \in Slots |-> 0]
    /\ allocated = 0
    /\ free = {}
    /\ issued = {}

Running == mode.op = "run"

Called(method) == Running /\ method \in workload.methods /\ UNCHANGED workload

\* What a method does before it returns: the states of the store it goes
\* through, and the undo entry it records for each.
Start == [states |-> <<store>>, entries |-> <<>>]

\* It changes component c to v and records the entry e.
Then(run, c, v, e) ==
    [states  |-> Append(run.states, [Last(run.states) EXCEPT ![c] = v]),
     entries |-> Append(run.entries, e)]

\* The first k changes of a run are made.
Made(run, k) ==
    /\ Len(trail) + k <= workload.trail
    /\ store' = run.states[k + 1]
    /\ trail' = trail \o SubSeq(run.entries, 1, k)

Recorded(run) == run.entries # <<>> /\ Made(run, Len(run.entries))
Record(c, v, e) == Recorded(Then(Start, c, v, e))

Levels == 0..(Len(branches) - 1)

CurrentLevel == IF branches = <<>> THEN 0 ELSE Len(branches) - 1

-----------------------------------------------------------------------------
(* NodeArena *)

\* The lowest free slot is reused, else the arena grows by one.
NextSlot == IF free # {} THEN Least(free) ELSE allocated

\* Mutant: the generation continues from what the slot holds now.
NextGenerationOfSlot(s) == store.nodes.slots[s].gen + 1

NextGeneration(s) == generations[s] + 1

CreateNode(parent) ==
    LET s == NextSlot
        g == NextGeneration(s)
        n == store.nodes
    IN  /\ Called("create")
        /\ s < workload.slots
        /\ g <= workload.generations
        /\ allocated' = IF free # {} THEN allocated ELSE allocated + 1
        /\ free' = free \ {s}
        /\ generations' = [generations EXCEPT ![s] = g]
        /\ issued' = issued \cup {[slot |-> s, gen |-> g]}
        /\ Record("nodes", Created(n, s, NewNode(g, n.nextId, CurrentLevel, parent)),
                  Entry("nodes", "create", s, [id |-> n.nextId, gen |-> g]))
        /\ UNCHANGED <<points, mode>>

SetBlocked(h, blocker, directly) ==
    LET n == store.nodes IN
    /\ Called(IF blocker = NoHandle THEN "unblock" ELSE "block")
    /\ Record("nodes", Blocked(n, h.slot, blocker, directly),
              Entry("nodes", "blocking", h.slot, BlockCapture(n.slots[h.slot])))
    /\ UNCHANGED <<arena, points, mode>>

MarkExistential(h, x, pending) ==
    LET n       == store.nodes
        existed == x \in n.slots[h.slot].exist
    IN  /\ Called("mark")
        /\ existed # pending
        /\ Record("nodes", Marked(n, h.slot, x, pending),
                  Entry("nodes", "existential", h.slot, [id |-> x, existed |-> existed]))
        /\ UNCHANGED <<arena, points, mode>>

-----------------------------------------------------------------------------
(* ExtensionStore *)

PrepareNextDelta ==
    LET f == store.facts IN
    /\ Called("delta")
    /\ Record("facts", NextDelta(f),
              Entry("facts", "delta", 0, [read |-> f.read, write |-> f.write]))
    /\ UNCHANGED <<arena, points, mode>>

\* add: a new row, or another support of the row with this key.
FactAdded(run, k, d, core) ==
    LET f    == Last(run.states).facts
        rows == {p.row : p \in {q \in f.byKey : q.key = k}}
        r    == Least(rows)
        old  == [supports |-> f.rows[r].supports, core |-> f.rows[r].core]
    IN  IF rows = {}
        THEN Then(run, "facts", RowAdded(f, k, d, core),
                  Entry("facts", "create", Len(f.rows) + 1, k))
        ELSE IF RowSupported(f, r, d, core) = f THEN run
        ELSE Then(run, "facts", RowSupported(f, r, d, core), Entry("facts", "support", r, old))

AddFact(k, d, core) ==
    /\ Called("add")
    /\ Recorded(FactAdded(Start, k, d, core))
    /\ UNCHANGED <<arena, points, mode>>

SetCore(r) ==
    LET f == store.facts IN
    /\ Called("core")
    /\ ~f.rows[r].core
    /\ Record("facts", CoreSet(f, r, TRUE), Entry("facts", "core", r, FALSE))
    /\ UNCHANGED <<arena, points, mode>>

RegisterIndex ==
    /\ Called("index")
    /\ ~store.facts.index.on
    /\ Record("facts", IndexRegistered(store.facts), Entry("facts", "index", 0, 0))
    /\ UNCHANGED <<arena, points, mode>>

-----------------------------------------------------------------------------
(* GroundDisjunctionStore, ClashStore, StableQueue *)

\* add_ground_disjunction: a record, then its place in the queue.
AddGroundDisjunction(d) ==
    LET D == store.disjunctions
        i == Len(D) + 1
    IN  /\ Called("disjunction")
        /\ Recorded(Then(Then(Start, "disjunctions",
                              Append(D, [base |-> d, level |-> CurrentLevel, processed |-> FALSE]),
                              Entry("disjunctions", "create", i, 0)),
                         "queue", store.queue \cup {i}, Entry("queue", "enqueue", i, 0)))
        /\ UNCHANGED <<arena, points, mode>>

\* take_ground_disjunction: pop the first record and mark it processed.  The
\* queue holds exactly the unprocessed records (StoreConsistent), so pop never
\* has to skip one.
TakeGroundDisjunction ==
    LET D == store.disjunctions
        i == Least(store.queue)
    IN  /\ Called("disjunction")
        /\ store.queue # {}
        /\ ~D[i].processed
        /\ Recorded(Then(Then(Start, "queue", store.queue \ {i}, Entry("queue", "pop", i, 0)),
                         "disjunctions", [D EXCEPT ![i] = [@ EXCEPT !.processed = TRUE]],
                         Entry("disjunctions", "processed", i, FALSE)))
        /\ UNCHANGED <<arena, points, mode>>

InstallClash(d) ==
    /\ Called("clash")
    /\ Selected(store.clash, d) # store.clash
    /\ Record("clash", Selected(store.clash, d), Entry("clash", "install", 0, store.clash))
    /\ UNCHANGED <<arena, points, mode>>

EnqueueCandidate(h) ==
    /\ Called("queue")
    /\ h \notin store.candidates
    /\ Record("candidates", store.candidates \cup {h}, Entry("candidates", "enqueue", h, 0))
    /\ UNCHANGED <<arena, points, mode>>

\* The priority of a candidate begins with its creation id, which is unique.
PopCandidate ==
    /\ Called("queue")
    /\ \E h \in store.candidates :
          /\ \A g \in store.candidates :
                store.nodes.slots[h.slot].id <= store.nodes.slots[g.slot].id
          /\ Record("candidates", store.candidates \ {h}, Entry("candidates", "pop", h, 0))
    /\ UNCHANGED <<arena, points, mode>>

-----------------------------------------------------------------------------
(* Checkpoints of the session *)

\* Mutant: the checkpoint lies one entry too low.
MarkEarly == [length |-> IF trail = <<>> THEN 0 ELSE Len(trail) - 1, saved |-> store]

Mark == [length |-> Len(trail), saved |-> store]

\* merge_nodes and prune_subtree: the whole section, or an exception after k
\* changes and the beginning of the rollback to the section's checkpoint.
Atomically(run) ==
    \/ Recorded(run) /\ UNCHANGED <<arena, points, mode>>
    \/ \E k \in 0..(Len(run.entries) - 1) :
          /\ Made(run, k)
          /\ atomic' = <<Mark>>
          /\ mode' = [op |-> "fail", to |-> Mark.length, level |-> 0]
          /\ UNCHANGED <<arena, branches, root>>

\* Mutant: only the merged or pruned nodes themselves are unblocked.
OwnBlockingCleared(run, H) ==
    LET n == Last(run.states).nodes IN
    FoldLeft(LAMBDA q, s : Then(q, "nodes", Blocked(Last(q.states).nodes, s, NoHandle, FALSE),
                                Entry("nodes", "blocking", s, BlockCapture(n.slots[s]))),
             run, SetToSortSeq({s \in ActiveSlots(n) : HandleAt(n, s) \in H}, <))

\* _clear_blocking_references: no active node stays blocked by one of H.
BlockingCleared(run, H) ==
    LET n == Last(run.states).nodes IN
    FoldLeft(LAMBDA q, s : Then(q, "nodes", Blocked(Last(q.states).nodes, s, NoHandle, FALSE),
                                Entry("nodes", "blocking", s, BlockCapture(n.slots[s]))),
             run, SetToSortSeq({s \in ActiveSlots(n) : n.slots[s].blocker \in H}, <))

RowsOf(f, H) == SetToSortSeq({r \in ActiveRows(f) : f.rows[r].key.argument \in H}, <)

RowRemoved(run, r) ==
    Then(run, "facts", RowDeactivated(Last(run.states).facts, r),
         Entry("facts", "deactivate", r, 0))

\* rewrite_node: each row of the source is added to the target under each of
\* its supports, and deactivated.
Rewritten(run, source, target, d) ==
    LET f == Last(run.states).facts
        Moved(q, r) ==
            FoldLeft(LAMBDA p, e : FactAdded(p, [f.rows[r].key EXCEPT !.argument = target],
                                             e \cup d, f.rows[r].core),
                     q, SetToSortSeq(f.rows[r].supports, BitsLess))
    IN  FoldLeft(LAMBDA q, r : RowRemoved(Moved(q, r), r), run, RowsOf(f, {source}))

\* h and g are the representatives; d includes the dependencies of the paths
\* to them.
MergeNodes(h, g, d) ==
    LET n      == store.nodes
        target == MergeTarget(n, h, g)
        source == IF target = h THEN g ELSE h
        before == Rewritten(BlockingCleared(Start, {source}), source, target, d)
        m      == Last(before.states).nodes
    IN  /\ Called("merge")
        /\ h # g
        /\ Atomically(Then(before, "nodes", Merged(m, source.slot, target, d),
                           Entry("nodes", "merge", source.slot,
                                 MergeCapture(m.slots[source.slot]))))

\* The active nodes below h go, the deepest first, with their rows.
PruneSubtree(h) ==
    LET n == store.nodes
        H == {g \in ActiveHandles(n) : g = h \/ HasAncestor(n, g, h)}
        Deeper(g, i) == \/ Depth(n, g) > Depth(n, i)
                        \/ Depth(n, g) = Depth(n, i) /\ n.slots[g.slot].id < n.slots[i.slot].id
        cleared == BlockingCleared(Start, H)
        removed == FoldLeft(RowRemoved, cleared, RowsOf(store.facts, H))
        PruneOne(q, g) ==
            LET m == Last(q.states).nodes IN
            Then(q, "nodes", Pruned(m, g.slot),
                 Entry("nodes", "prune", g.slot, PruneCapture(m.slots[g.slot])))
    IN  /\ Called("prune")
        /\ Atomically(FoldLeft(PruneOne, removed, SetToSortSeq(H, Deeper)))

BeginOperation ==
    /\ Running
    /\ "operation" \in workload.methods
    /\ branches = <<>>
    /\ root' = Mark
    /\ UNCHANGED <<workload, store, trail, branches, atomic, mode, arena>>

PushBranch(n) ==
    /\ Running
    /\ Len(branches) < workload.branches
    /\ store.clash = {}
    /\ branches' = Append(branches, [alternatives |-> n, next |-> 0, mark |-> Mark])
    /\ UNCHANGED <<workload, store, trail, root, atomic, mode, arena>>

\* Trail.rollback begins: for a backtrack to the branch at some level, for an
\* abort to the operation root.
RollBack(op, to, level) ==
    /\ Running
    /\ mode' = [op |-> op, to |-> to, level |-> level]
    /\ UNCHANGED <<workload, store, trail, points, arena>>

BacktrackTo(level) == RollBack("advance", branches[level + 1].mark.length, level)

ResetToRoot == RollBack("reset", root.length, 0)

UndoLast ==
    LET e == trail[Len(trail)] IN
    /\ ~Running
    /\ Len(trail) > mode.to
    /\ store' = [store EXCEPT ![e.component] = Undo(e, @)]
    /\ trail' = SubSeq(trail, 1, Len(trail) - 1)
    /\ free' = IF e.component = "nodes" /\ e.kind = "create" THEN free \cup {e.at} ELSE free
    /\ UNCHANGED <<workload, generations, allocated, issued, points, mode>>

\* advance_branch after its rollback: the inner points go, and the point
\* moves to its next alternative or goes too.
Advanced(level) ==
    LET b == [branches[level + 1] EXCEPT !.next = @ + 1] IN
    SubSeq(branches, 1, level) \o (IF b.next < b.alternatives THEN <<b>> ELSE <<>>)

RolledBack ==
    /\ ~Running
    /\ Len(trail) = mode.to
    /\ mode' = [op |-> "run", to |-> 0, level |-> 0]
    /\ branches' = CASE mode.op = "advance" -> Advanced(mode.level)
                     [] mode.op = "reset" -> <<>>
                     [] mode.op = "fail" -> branches
    /\ atomic' = <<>>
    /\ UNCHANGED <<workload, store, trail, root, arena>>

-----------------------------------------------------------------------------
Next ==
    LET active == ActiveHandles(store.nodes) IN
    \/ \E parent \in active \cup {NoHandle} : CreateNode(parent)
    \/ \E h, g \in active, d \in SUBSET Levels : MergeNodes(h, g, d)
    \/ \E h \in active : PruneSubtree(h)
    \/ \E h \in active : \E blocker \in (active \ {h}) \cup {NoHandle}, directly \in workload.flags :
          SetBlocked(h, blocker, directly)
    \/ \E h \in active, x \in Existentials, pending \in BOOLEAN :
          MarkExistential(h, x, pending)
    \/ PrepareNextDelta
    \/ \E p \in Predicates, h \in active, d \in SUBSET Levels, core \in workload.flags :
          AddFact([predicate |-> p, argument |-> h], d, core)
    \/ \E r \in ActiveRows(store.facts) : SetCore(r)
    \/ RegisterIndex
    \/ \E d \in SUBSET Levels : AddGroundDisjunction(d) \/ InstallClash(d)
    \/ TakeGroundDisjunction
    \/ \E h \in active : EnqueueCandidate(h)
    \/ PopCandidate
    \/ BeginOperation
    \/ \E n \in 2..MaxAlternatives : PushBranch(n)
    \/ \E level \in Levels : BacktrackTo(level)
    \/ ResetToRoot
    \/ UndoLast
    \/ RolledBack

Spec == Init /\ [][Next]_vars

-----------------------------------------------------------------------------
(* Properties *)

Node == [gen : Nat, id : Nat, level : Nat, parent : Handle,
         life : {"none", "active", "merged", "pruned"}, rep : Handle,
         dep : SUBSET Nat, blocker : Handle, direct : BOOLEAN, bgen : Nat,
         exist : SUBSET Existentials]
Nodes == [slots : [Slots -> Node], nextId : Nat]
Key == [predicate : Predicates, argument : Handle]
Row == [key : Key, supports : SUBSET SUBSET Nat, core : BOOLEAN,
        active : BOOLEAN, gen : Nat]
Facts == [rows : Seq(Row), byKey : SUBSET [key : Key, row : Nat],
          index : [on : BOOLEAN, ids : SUBSET Nat], read : Nat, write : Nat]
Disjunction == [base : SUBSET Nat, level : Nat, processed : BOOLEAN]
Store == [nodes : Nodes, facts : Facts, disjunctions : Seq(Disjunction),
          queue : SUBSET Nat, candidates : SUBSET Handle,
          clash : SUBSET SUBSET Nat]
Point == [length : Nat, saved : Store]
Branch == [alternatives : Nat, next : Nat, mark : Point]

\* Every variable keeps its type.
TypeOK ==
    /\ store \in Store
    /\ branches \in Seq(Branch)
    /\ root \in Point
    /\ atomic \in Seq(Point)
    /\ mode \in [op : {"run", "advance", "reset", "fail"}, to : Nat, level : Nat]
    /\ generations \in [Slots -> Nat]
    /\ allocated \in Nat
    /\ free \in SUBSET Slots
    /\ issued \in SUBSET Handle

\* The state a rollback under way has to restore.
Target ==
    CASE mode.op = "advance" -> branches[mode.level + 1].mark.saved
      [] mode.op = "reset" -> root.saved
      [] mode.op = "fail" -> atomic[1].saved

\* Rollback is exact: when Trail.rollback has undone the last entry above a
\* checkpoint, every trailed store is what it was when the checkpoint was
\* taken, whatever methods were called and undone in between.  On the way no
\* undo closure raises: nodes, rows and records are removed in the reverse
\* order of their creation, from the place they were put, and no slot is
\* freed twice.
RollbackExact ==
    /\ ~Running /\ Len(trail) = mode.to => store = Target
    /\ ~Running /\ Len(trail) > mode.to => UndoChecks(trail[Len(trail)], store)

\* Checkpoints nest: the operation root, the branching points and the section
\* being undone have trail lengths that never decrease and, between
\* rollbacks, never exceed the trail.
CheckpointsNest ==
    /\ root.length <= Len(trail)
    /\ \A i \in DOMAIN branches :
          /\ root.length <= branches[i].mark.length
          /\ Running => branches[i].mark.length <= Len(trail)
          /\ \A j \in 1..i : branches[j].mark.length <= branches[i].mark.length
          /\ branches[i].next < branches[i].alternatives
    /\ \A i \in DOMAIN atomic :
          /\ root.length <= atomic[i].length
          /\ atomic[i].length <= Len(trail)
          /\ \A j \in DOMAIN branches : branches[j].mark.length <= atomic[i].length

\* A handle is given out once: a slot that rollback freed is reused under a
\* generation no handle of that slot has had, so a handle kept across the
\* rollback is recognised as stale by NodeArena.get.
HandlesFresh ==
    [][\A s \in Slots :
          store'.nodes.slots[s].gen # store.nodes.slots[s].gen
             => \/ store'.nodes.slots[s] = NoNode
                \/ HandleAt(store'.nodes, s) \notin issued]_vars

\* The checks of NodeArena.check_invariants: the free list is the set of
\* empty slots, creation ids are unique and below the next one, a node's
\* generation was issued by its slot, parents exist and are older; a merged
\* node, and no other, has a representative; a blocker is active.
\* One check is weaker here: the code asks for an active representative
\* (nodes.py:424), and prune_subtree may prune it (RepresentativesActive of
\* Merging); what holds is that the chain ends in a node that is not merged.
ArenaConsistent ==
    LET n == store.nodes IN
    /\ allocated <= workload.slots
    /\ free = {s \in 0..(allocated - 1) : n.slots[s].life = "none"}
    /\ \A s \in Slots : n.slots[s].life # "none" =>
          /\ s < allocated
          /\ n.slots[s].gen <= generations[s]
          /\ n.slots[s].id < n.nextId
          /\ \A t \in Slots \ {s} :
                n.slots[t].life # "none" => n.slots[t].id # n.slots[s].id
          /\ n.slots[s].parent # NoHandle =>
                /\ Exists(n, n.slots[s].parent)
                /\ n.slots[n.slots[s].parent.slot].id < n.slots[s].id
          /\ n.slots[s].rep # NoHandle <=> n.slots[s].life = "merged"
          /\ n.slots[s].life = "merged" =>
                /\ Exists(n, Representative(n, n.slots[s].rep))
                /\ n.slots[Representative(n, n.slots[s].rep).slot].life \in {"active", "pruned"}
          /\ Running /\ n.slots[s].blocker # NoHandle =>
                n.slots[s].life = "active" /\ IsActive(n, n.slots[s].blocker)

\* The checks of ExtensionStore and the queues: the key map and the index
\* are those of the active rows, keys are unique, supports are a nonempty
\* antichain, active facts are about active nodes, queued candidates name
\* nodes that exist, the queue holds the unprocessed disjunctions.
StoreConsistent ==
    LET f == store.facts IN
    /\ f.byKey = {[key |-> f.rows[r].key, row |-> r] : r \in ActiveRows(f)}
    /\ \A p, q \in f.byKey : p.key = q.key => p = q
    /\ f.index.ids = IF f.index.on THEN ActiveRows(f) ELSE {}
    /\ \A r \in DOMAIN f.rows :
          /\ f.rows[r].supports # {}
          /\ \A d, e \in f.rows[r].supports : d \subseteq e => d = e
          /\ f.rows[r].gen <= f.write
          /\ Running /\ f.rows[r].active => IsActive(store.nodes, f.rows[r].key.argument)
    /\ f.read <= f.write
    /\ \A h \in store.candidates : Exists(store.nodes, h)
    /\ Running => store.queue = {i \in DOMAIN store.disjunctions : ~store.disjunctions[i].processed}

\* What a store says of branch levels stays below n.
LevelsBelow(s, n) ==
    /\ \A t \in Slots : s.nodes.slots[t].dep \subseteq 0..(n - 1)
    /\ \A t \in Slots : s.nodes.slots[t].level = 0 \/ s.nodes.slots[t].level < n
    /\ \A r \in DOMAIN s.facts.rows :
          \A d \in s.facts.rows[r].supports : d \subseteq 0..(n - 1)
    /\ \A i \in DOMAIN s.disjunctions :
          /\ s.disjunctions[i].base \subseteq 0..(n - 1)
          /\ s.disjunctions[i].level = 0 \/ s.disjunctions[i].level < n
    /\ \A d \in s.clash : d \subseteq 0..(n - 1)

\* No dependency and no creation stamp names a branch that is gone: the
\* "future branch" checks that follow every backtrack do not raise.
LevelsLive ==
    /\ Running => LevelsBelow(store, Len(branches))
    /\ \A i \in DOMAIN branches : LevelsBelow(branches[i].mark.saved, i - 1)

-----------------------------------------------------------------------------
(* The interface the trail implements: while a rollback is under way the    *)
(* abstract state is already the one it restores.                           *)

Remaining(b) == [remaining |-> b.alternatives - b.next, saved |-> b.mark.saved]
Abstracted(B) == [i \in DOMAIN B |-> Remaining(B[i])]

Surviving ==
    CASE mode.op = "advance" -> Advanced(mode.level)
      [] mode.op = "reset" -> <<>>
      [] OTHER -> branches

Snapshots == INSTANCE CheckpointStore WITH
    current   <- IF Running THEN store ELSE Target,
    points    <- Abstracted(Surviving),
    base      <- root.saved,
    restoring <- ~Running

\* The stores over the undo trail implement snapshots: backtracking, an abort
\* and the failure of an atomic section leave exactly the remembered state.
ImplementsSnapshots == Snapshots!Spec

\* What TableauSession.check_invariants checks holds whenever a method has
\* returned, not only where it is called, with one exception (the active
\* representative, see ArenaConsistent): the checkpoints nest, the arena, the
\* rows, the key map, the index and the queues fit together, facts and
\* blockers are about active nodes, and no dependency names a branch that is
\* gone.
InvariantsHold ==
    TypeOK /\ CheckpointsNest /\ ArenaConsistent /\ StoreConsistent /\ LevelsLive

=============================================================================
