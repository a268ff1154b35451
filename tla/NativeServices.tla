---------------------------- MODULE NativeServices ----------------------------
(***************************************************************************)
(* The classification and realization calls of a native session, one at a  *)
(* time: the poll and the consistency check a call starts with, the cache  *)
(* it looks into, the operation it opens on the cache, the tests it asks   *)
(* of the tableau round by round, and the publication of a complete        *)
(* result.  A cancellation may arrive at any moment and is noticed at the  *)
(* next poll, and any limit may end a call.                                *)
(*                                                                         *)
(* truth holds what the program entails.  Nothing but the properties       *)
(* looks at it.                                                            *)
(***************************************************************************)
EXTENDS Classification

CONSTANT
  Sessions \* the sessions: their program, the limits of one call on elements,
           \* seeds, tests and memory, and as bounds the calls made and
           \* their domains

Domains == {"classes", "roles", "properties"}

VARIABLES
  session,   \* the session
  truth,     \* what the program entails
  taxonomy,  \* the committed taxonomies
  realized,  \* the committed realization, if there is one
  active,    \* the caches with an open operation
  call,      \* the call in flight: its name, its domain and its phase
  cancelled, \* the call in flight has been cancelled
  work,      \* what the call in flight has computed
  outcome,   \* how the last call ended
  calls      \* the calls made

program == session.program

vars == <<session, truth, taxonomy, realized, active, call, cancelled, work, outcome, calls>>

NoHierarchy == [nodes |-> {}, edges |-> {}, top |-> {}, bottom |-> {}]
NoFacts == [types |-> {}, objects |-> {}, data |-> {}, different |-> {}]
NoWork ==
  [oracle |-> NewOracle({}), tree |-> NewHierarchy(0, 0), order |-> <<>>, done |-> {}, search |-> Search(FALSE),
   parents |-> {}, result |-> NoHierarchy, groups |-> {}, facts |-> NoFacts]
Idle == [name |-> "none", domain |-> "none", phase |-> "idle"]

(***************************************************************************)
(* The meaning of a program, computed once.                                *)
(***************************************************************************)
Truth(p) ==
  LET models == Models(p, {}, {}, {})
      groups == {{y \in p.named : Entailed(models, Equal(x, y))} : x \in p.named}
      sub    == [d \in Domains |-> Subsumption(p, d)]
      nodes  == Taxonomy(sub["classes"], p.classes).nodes
      typed(g) == {n \in nodes : \A C \in n, x \in g : Entailed(models, Concept(C, x))}
      lower(n, m) == n # m /\ \A C \in n, D \in m : <<C, D>> \in sub["classes"]
  IN  [consistent |-> models # {},
       sub |-> sub,
       realization |->
         [same      |-> groups,
          types     |-> {<<g, n>> \in groups \X nodes :
                           n \in typed(g) /\ ~ \E m \in typed(g) : lower(m, n)},
          objects   |-> {<<g, R, h>> \in groups \X p.roles \X groups :
                           \A x \in g, y \in h : Entailed(models, Object(R, x, y))},
          data      |-> {<<g, P, l>> \in groups \X p.properties \X DOMAIN p.literals :
                           \A x \in g : Entailed(models, Data(P, x, p.literals[l]))},
          different |-> {{g, h} : <<g, h>> \in {q \in groups \X groups :
                           q[1] # q[2] /\ Models(p, {}, {}, {Equal(Min(q[1]), Min(q[2]))}) = {}}}]]

Init ==
  /\ session \in Sessions /\ truth = Truth(session.program)
  /\ taxonomy = [d \in Domains |-> NoHierarchy] /\ realized = {}
  /\ active = {} /\ call = Idle /\ cancelled = FALSE /\ work = NoWork /\ outcome = "none" /\ calls = 0

(***************************************************************************)
(* The life of a call.                                                     *)
(***************************************************************************)
Begin(name, domain) ==
  /\ call.phase = "idle" /\ calls < session.calls
  /\ call' = [name |-> name, domain |-> domain, phase |-> IF name = "realize" THEN "lookup" ELSE "start"]
  /\ calls' = calls + 1 /\ cancelled' = FALSE /\ outcome' = "none"
  /\ UNCHANGED <<session, truth, taxonomy, realized, active, work>>

Classify == \E d \in session.domains : Begin("classify", d)

Realize == session.realizes /\ Begin("realize", "classes")

RequestCancel ==
  /\ call.phase # "idle" /\ ~ cancelled /\ cancelled' = TRUE
  /\ UNCHANGED <<session, truth, taxonomy, realized, active, call, work, outcome, calls>>

Return(status) ==
  /\ call' = Idle /\ work' = NoWork /\ outcome' = status /\ cancelled' = FALSE

\* Mutant: the rollback of an error empties the cache.
FailInvalidating(status) ==
  /\ Return(status) /\ active' = {}
  /\ taxonomy' = [d \in Domains |-> NoHierarchy] /\ realized' = {}
  /\ UNCHANGED <<session, truth, calls>>

\* An error closes the operation on the cache and publishes nothing.
Fail(status) ==
  /\ Return(status) /\ active' = {}
  /\ UNCHANGED <<session, truth, taxonomy, realized, calls>>

Polls(phase) == call.phase = phase /\ ~ cancelled

\* The next poll of a cancelled call ends it.
Cancelled ==
  /\ call.phase # "idle" /\ cancelled
  /\ Fail("cancelled")

Advance(phase, step) ==
  /\ call' = [call EXCEPT !.phase = phase] /\ work' = step
  /\ UNCHANGED <<session, truth, taxonomy, realized, active, cancelled, outcome, calls>>

\* A classification that a realization asked for goes on with it.
Classified ==
  /\ call' = [call EXCEPT !.phase = IF call.name = "realize" THEN "same_as" ELSE "encode"]
  /\ UNCHANGED <<outcome, cancelled>>

\* A result is polled for once more before it is handed over.
Encode ==
  /\ Polls("encode") /\ Return("ok")
  /\ UNCHANGED <<session, truth, taxonomy, realized, active, calls>>

(***************************************************************************)
(* classify_domain and classify_cached.                                    *)
(***************************************************************************)
BeginOperation(phase) ==
  IF "classification" \in active THEN Fail("busy")
  ELSE /\ active' = active \cup {"classification"} /\ call' = [call EXCEPT !.phase = phase]
       /\ UNCHANGED <<session, truth, taxonomy, realized, cancelled, work, outcome, calls>>

StartClassification ==
  /\ Polls("start")
  /\ IF ~ CheckPermanent(program) THEN Fail("inconsistent")
     ELSE IF ~ ValidElements(program, call.domain) THEN Fail("wire")
     ELSE IF taxonomy[call.domain] # NoHierarchy
     THEN /\ Classified /\ work' = [NoWork EXCEPT !.result = taxonomy[call.domain]]
          /\ UNCHANGED <<session, truth, taxonomy, realized, active, calls>>
     ELSE BeginOperation(IF ToldRelationIsComplete(program, call.domain) THEN "told" ELSE "seed")

\* The domain and its seed fit into the limits of the call.
DomainFits(elements, seed) ==
  /\ Cardinality(elements) <= session.limits.elements
  /\ EstimateInitialMemory(Cardinality(elements), Cardinality(seed)) <= session.limits.memory

BuildFromTold ==
  /\ Polls("told")
  /\ LET elements == Public(program, call.domain)
         top      == Top(program, call.domain)
         bottom   == Bottom(program, call.domain)
         known    == Known(program, call.domain)
         built    == BuildCompleteHierarchy(elements, top, bottom, known)
     IN  IF ~ DomainFits(elements, Seed(elements, top, bottom, known)) THEN Fail("resource")
         ELSE IF IsAcyclic(ToldQuotient(elements, top, bottom, known)) /\ ValidHierarchy(built)
         THEN Advance("publish", [work EXCEPT !.result = built])
         ELSE Fail("invariant")

SeedOracle ==
  /\ Polls("seed")
  /\ LET elements == Public(program, call.domain)
         top      == Top(program, call.domain)
         bottom   == Bottom(program, call.domain)
         seed     == Seed(elements, top, bottom, Known(program, call.domain))
     IN  IF Cardinality(seed) > session.limits.seeds \/ ~ DomainFits(elements, seed) THEN Fail("resource")
         ELSE Advance("insert", [work EXCEPT !.oracle = NewOracle(seed), !.tree = NewHierarchy(top, bottom),
                                             !.order = InsertionOrder(elements, top, bottom, seed),
                                             !.done = {top, bottom}])

\* The search of an element's parents starts, or all elements are placed.
NextElement ==
  /\ Polls("insert")
  /\ IF work.order # <<>> THEN Advance("search", [work EXCEPT !.search = Search(FALSE)])
     ELSE LET frozen == Freeze(work.tree)
          IN  IF ValidHierarchy(frozen) THEN Advance("publish", [work EXCEPT !.result = frozen])
              ELSE Fail("invariant")

\* One batch of tests: the pairs nobody can answer go to the tableau.
SearchRound ==
  /\ Polls("search") /\ work.search.frontier # {}
  /\ LET pairs   == SearchRelations(work.tree, work.search, Head(work.order))
         missing == Missing(work.oracle, pairs)
         oracle  == Evaluated(work.oracle, pairs, missing,
                              TestSubsumptions(program, call.domain, missing))
     IN  IF \/ oracle.tests > session.limits.tests
            \/ missing # {} /\ EstimateOracleMemory(oracle) > session.limits.memory
         THEN Fail("resource")
         ELSE Advance("search",
                [work EXCEPT !.oracle = oracle,
                             !.search = BoundaryRound(work.tree, work.search, Head(work.order), oracle)])

ParentsFound ==
  /\ Polls("search") /\ work.search.frontier = {} /\ ~ work.search.upward
  /\ Advance("search", [work EXCEPT !.parents = work.search.boundary, !.search = Search(TRUE)])

InsertElement ==
  /\ Polls("search") /\ work.search.frontier = {} /\ work.search.upward
  /\ IF ~ InsertionSound(work.parents, work.search.boundary) THEN Fail("invariant")
     ELSE Advance("insert",
            [work EXCEPT !.tree = Insert(@, Head(work.order), work.parents, work.search.boundary),
                         !.done = @ \cup {Head(work.order)}, !.order = Tail(@)])

\* The result is staged and promoted in one step after the last poll.
PublishTaxonomy ==
  /\ Polls("publish")
  /\ taxonomy' = [taxonomy EXCEPT ![call.domain] = work.result] /\ active' = active \ {"classification"}
  /\ work' = [NoWork EXCEPT !.result = work.result] /\ Classified
  /\ UNCHANGED <<session, truth, realized, calls>>

(***************************************************************************)
(* realize_ontology and realize_cached.                                    *)
(***************************************************************************)
LookupRealization ==
  /\ Polls("lookup")
  /\ IF realized # {} THEN Advance("encode", work)
     ELSE IF ~ CheckPermanent(program) THEN Fail("inconsistent")
     ELSE Advance("start", work)

FindSameAs ==
  /\ Polls("same_as")
  /\ Advance("types", [work EXCEPT !.groups = SameAsGroups(program)])

FindTypes ==
  /\ Polls("types")
  /\ Advance("objects", [work EXCEPT !.facts.types = DirectTypeFacts(program, work.result, work.groups)])

FindObjectTargets ==
  /\ Polls("objects")
  /\ Advance("data", [work EXCEPT !.facts.objects = ObjectTargetFacts(program, work.groups)])

FindDataTargets ==
  /\ Polls("data")
  /\ Advance("different", [work EXCEPT !.facts.data = DataTargetFacts(program, work.groups)])

FindDifferent ==
  /\ Polls("different")
  /\ Advance("build", [work EXCEPT !.facts.different = DifferentFromFacts(program, work.groups)])

BeginRealization ==
  /\ Polls("build")
  /\ IF "realization" \in active THEN Fail("busy")
     ELSE /\ active' = active \cup {"realization"} /\ call' = [call EXCEPT !.phase = "promote"]
          /\ UNCHANGED <<session, truth, taxonomy, realized, cancelled, work, outcome, calls>>

PublishRealization ==
  /\ Polls("promote")
  /\ IF ~ ValidFacts(work.groups, work.facts) THEN Fail("invariant")
     ELSE /\ realized' = {BuildRealizationIds(work.groups, work.facts)} /\ active' = active \ {"realization"}
          /\ call' = [call EXCEPT !.phase = "encode"]
          /\ UNCHANGED <<session, truth, taxonomy, cancelled, work, outcome, calls>>

Step ==
  \/ Cancelled
  \/ StartClassification \/ BuildFromTold \/ SeedOracle \/ NextElement \/ SearchRound
  \/ ParentsFound \/ InsertElement \/ PublishTaxonomy
  \/ LookupRealization \/ FindSameAs \/ FindTypes \/ FindObjectTargets \/ FindDataTargets
  \/ FindDifferent \/ BeginRealization \/ PublishRealization \/ Encode

\* The bound on the calls is reached.
Finished == call.phase = "idle" /\ calls = session.calls /\ UNCHANGED vars

Next == Classify \/ Realize \/ RequestCancel \/ Step \/ Finished

Spec == Init /\ [][Next]_vars

(***************************************************************************)
(* Properties.                                                             *)
(***************************************************************************)
Phases == {"idle", "lookup", "start", "told", "seed", "insert", "search", "publish",
           "same_as", "types", "objects", "data", "different", "build", "promote", "encode"}

\* The variables keep their types, a cache is open only for the call in
\* flight, and no call ever asks more tests than the limit allows.
TypeOK ==
  /\ DOMAIN taxonomy = Domains /\ Cardinality(realized) <= 1
  /\ call.phase \in Phases /\ call.name \in {"none", "classify", "realize"}
  /\ cancelled \in BOOLEAN /\ calls \in 0..session.calls
  /\ work.oracle.tests <= session.limits.tests
  /\ active = (CASE call.phase \in {"told", "seed", "insert", "search", "publish"} -> {"classification"}
                 [] call.phase = "promote" -> {"realization"}
                 [] OTHER -> {})

SameTaxonomy(h, subsumption, elements) ==
  LET exact == Taxonomy(subsumption, elements)
  IN  h.nodes = exact.nodes /\ h.edges = exact.edges

\* A committed taxonomy is the taxonomy of what the program entails: its
\* nodes are the equivalence classes, its edges the transitive reduction,
\* whether it came from the told relation or from the search.
CommittedExact ==
  \A d \in Domains :
    taxonomy[d] # NoHierarchy =>
      /\ SameTaxonomy(taxonomy[d], truth.sub[d], Public(program, d))
      /\ Top(program, d) \in taxonomy[d].top /\ Bottom(program, d) \in taxonomy[d].bottom

\* Between two insertions the hierarchy under construction is the exact
\* taxonomy of the elements inserted so far, whatever their order.
PartialTaxonomyExact ==
  call.phase \in {"insert", "search"} =>
    SameTaxonomy(Freeze(work.tree), truth.sub[call.domain], work.done)

\* Every answer the oracle holds or has inferred is right: what it knows is
\* entailed, what it has ruled out is not.
OracleSound ==
  call.phase \in {"insert", "search"} =>
    /\ work.oracle.known \cup work.oracle.yes \subseteq truth.sub[call.domain]
    /\ work.oracle.no \cap truth.sub[call.domain] = {}

\* Classification is exact at every step (classification.rs: "Build an exact
\* taxonomy"): what is committed, the hierarchy between two insertions, and the
\* answers known so far are those of the program.
TaxonomyExact == CommittedExact /\ PartialTaxonomyExact /\ OracleSound

\* A committed realization holds exactly the entailed groups, minimal types,
\* object values, source literals and differences between groups
\* (specs/contracts.md, 6.3).
RealizationExact ==
  \A r \in realized :
    LET exact == truth.realization
    IN  /\ r.same = exact.same /\ r.types = exact.types
        /\ r.objects = exact.objects /\ r.data = exact.data
        /\ r.different = exact.different

\* No call ends in an internal error or finds its cache busy, whatever ended
\* the calls before it, and a call is refused as inconsistent exactly when
\* the program has no model.
EndsForCause ==
  /\ outcome \notin {"busy", "invariant", "wire"}
  /\ outcome = "inconsistent" => ~ truth.consistent
  /\ outcome = "ok" => truth.consistent

\* What is committed stays, also when the call that committed it is
\* cancelled before it returns; the step that fails commits nothing, and no
\* call fails because of how an earlier one ended.
CommitsAreFinal ==
  [][/\ TypeOK' /\ EndsForCause'
     /\ \A d \in Domains : taxonomy[d] # NoHierarchy => taxonomy'[d] = taxonomy[d]
     /\ realized # {} => realized' = realized
     /\ outcome' \notin {"none", "ok"} => taxonomy' = taxonomy /\ realized' = realized]_vars

\* What is left of a call: the phases to come, and in the search the
\* elements to insert, the searches of this one and the nodes not visited.
Rank(phase) ==
  CASE phase = "lookup" -> 11 [] phase = "start" -> 10 [] phase = "told" -> 8 [] phase = "seed" -> 9
    [] phase \in {"insert", "search"} -> 8 [] phase = "publish" -> 7 [] phase = "same_as" -> 6
    [] phase = "types" -> 5 [] phase = "objects" -> 4 [] phase = "data" -> 3
    [] phase = "different" -> 2 [] phase = "build" -> 1 [] phase = "promote" -> 0 [] phase = "encode" -> -1
    [] phase = "idle" -> -2

Nodes == Cardinality(DOMAIN work.tree.members)

Remaining ==
  LET round == 3 * (Nodes + Len(work.order) + 1)
  IN  CASE call.phase = "insert" -> (Len(work.order) + 1) * round
        [] call.phase = "search" ->
             Len(work.order) * round + (IF work.search.upward THEN 0 ELSE Nodes + 1)
               + 1 + Nodes - Cardinality(work.search.visited)
        [] OTHER -> 0

\* Every call returns: each step of a call leaves less to do, and no search
\* goes round in the hierarchy.
CallsProgress ==
  [][call.phase # "idle" /\ cancelled' = cancelled =>
       \/ Rank(call'.phase) < Rank(call.phase)
       \/ Rank(call'.phase) = Rank(call.phase) /\ Remaining' < Remaining]_vars
=============================================================================
