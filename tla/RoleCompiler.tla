---------------------------- MODULE RoleCompiler ----------------------------
(***************************************************************************)
(* The role passes of compile_encoded_slice_program (native/src/lib.rs).   *)
(* Every slice of an ontology view is compiled on its own; the phases are  *)
(* merged through their canonical keys; the merged phases feed the         *)
(* hierarchies, the regularity check, the automata, the role model and the *)
(* role clauses.  A phase may claim no more than the ownership limit       *)
(* leaves, counted over the sources and again over the merged phases.      *)
(* After every phase the cancellation token is polled, and nothing is      *)
(* published before the last poll.  The class phases of the same function  *)
(* are in ClassCompiler.                                                   *)
(***************************************************************************)
EXTENDS RoleAutomata, RoleReference

LOCAL INSTANCE SequencesExt

CONSTANTS
  Programs,            \* records [slices, limit]; a slice is a set of axioms
  Interpretations(_),  \* the interpretations the clauses of some axioms are tried on
  WordLength           \* how long the words are that the automata are tried on

VARIABLES
  program,
  stage,     \* the phase that runs next
  slice,     \* the slice it belongs to, while the sources are compiled
  source,    \* the phases of the slices, one sequence per kind
  merged,    \* the merged phases
  owned,     \* what the phases of this pass have claimed
  token,     \* the cancellation token
  outcome    \* running, published, cancelled, exhausted (over the limit) or failed

vars == <<program, stage, slice, source, merged, owned, token, outcome>>

NoSources ==
  [objects |-> <<>>, data |-> <<>>, inclusions |-> <<>>, simple |-> <<>>, complex |-> <<>>,
   characteristics |-> <<>>]

Unmerged == [k \in {} |-> {}]

Init ==
  /\ program \in Programs
  /\ stage = "objects" /\ slice = 1
  /\ source = NoSources /\ merged = Unmerged
  /\ owned = 0 /\ token = FALSE /\ outcome = "running"

Axioms == UNION {program.slices[i] : i \in DOMAIN program.slices}

\* What the limit leaves for the next phase.
Remaining == program.limit - owned

\* How a phase of the given size ends.
\* Mutant: the token is not polled.
EndsUnpolled(size, valid, last) ==
  IF size > Remaining THEN "exhausted"
  ELSE IF ~valid THEN "failed"
  ELSE IF last THEN "published" ELSE "running"

Ends(size, valid, last) ==
  IF size > Remaining THEN "exhausted"
  ELSE IF ~valid THEN "failed"
  ELSE IF token THEN "cancelled"
  ELSE IF last THEN "published" ELSE "running"

Phase(at, size, valid, next) ==
  /\ stage = at /\ outcome = "running"
  /\ stage'   = next
  /\ owned'   = IF size <= Remaining THEN owned + size ELSE owned
  /\ outcome' = Ends(size, valid, next = "done")
  /\ UNCHANGED <<program, token>>

Completed == outcome' \in {"running", "published"}

\* A phase of the current slice, with the values it owns and its validator.
SourcePhase(at, phase, Size(_), Valid(_), next) ==
  /\ Phase(at, Size(phase), Valid(phase), next)
  /\ source' = IF Completed THEN [source EXCEPT ![at] = Append(@, phase)] ELSE source
  /\ UNCHANGED <<slice, merged>>

\* What the phases charge to the owned values.
RoleCount(phase)      == Len(phase.values)
InclusionCount(phase) == Cardinality(phase.inclusions)
ComponentCount(phase) == Len(phase.components)
ClashCount(phase)     == Cardinality(phase.clashes)

Here == program.slices[slice]

ObjectsHere == source.objects[slice]

DataHere == source.data[slice]

SourceObjectRoles ==
  SourcePhase("objects", CompileObjectRoles(ObjectProperties(Here)),
              RoleCount, ValidObjectRoles, "data")

SourceDataRoles ==
  SourcePhase("data", CompileDataRoles(DataProperties(Here)),
              RoleCount, ValidDataRoles, "inclusions")

SourceDataInclusions ==
  SourcePhase("inclusions", CompileDataInclusions(DataHere, Here),
              InclusionCount, ValidSimple, "simple")

SourceSimpleRoles ==
  SourcePhase("simple", CompileSimpleRoles(ObjectsHere, Here),
              InclusionCount, ValidSimple, "complex")

SourceComplexRoles ==
  SourcePhase("complex", CompileComplexRoles(ObjectsHere, Here),
              InclusionCount, ValidComplex, "characteristics")

\* The last phase of a slice; then the next slice, or the merges.
LastPhase(phase, size) ==
  LET last == slice = Len(program.slices)
  IN  /\ stage = "characteristics" /\ outcome = "running"
      /\ outcome' = Ends(size, ValidCharacteristics(phase), FALSE)
      /\ stage'   = IF last THEN "mergeObjects" ELSE "objects"
      /\ slice'   = IF Completed /\ ~last THEN slice + 1 ELSE slice
      /\ owned'   = IF size > Remaining THEN owned ELSE IF last THEN 0 ELSE owned + size
      /\ source'  = IF Completed THEN [source EXCEPT !.characteristics = Append(@, phase)] ELSE source
      /\ UNCHANGED <<program, merged, token>>

SourceCharacteristics ==
  LET phase == CompileRoleCharacteristics(ObjectsHere, DataHere, Here)
  IN  LastPhase(phase, ClashCount(phase))

-----------------------------------------------------------------------------
\* A merged phase, kept under its name.
MergedPhase(at, phase, size, valid, next) ==
  /\ Phase(at, size, valid, next)
  /\ merged' = IF Completed THEN [k \in DOMAIN merged \cup {at} |->
                                    IF k = at THEN phase ELSE merged[k]]
               ELSE merged
  /\ UNCHANGED <<slice, source>>

Total(Size(_), phases) == FoldLeft(LAMBDA sum, phase : sum + Size(phase), 0, phases)

\* A merge claims the phases it merges before it claims what it builds.
MergeObjectRolePhases ==
  LET phase == MergeObjectRoles(source.objects)
  IN  MergedPhase("mergeObjects", phase, Total(RoleCount, Append(source.objects, phase)),
                  ValidObjectRoles(phase), "mergeData")

MergeDataRolePhases ==
  LET phase == MergeDataRoles(source.data)
  IN  MergedPhase("mergeData", phase, Total(RoleCount, Append(source.data, phase)),
                  ValidDataRoles(phase), "mergeInclusions")

MergeDataInclusionPhases ==
  LET phase == MergeDataInclusions(source.data, source.inclusions, merged.mergeData)
  IN  MergedPhase("mergeInclusions", phase, Total(InclusionCount, Append(source.inclusions, phase)),
                  ValidSimple(phase), "dataHierarchy")

DataRoleHierarchy ==
  LET h == BuildDataHierarchy(merged.mergeData, merged.mergeInclusions)
  IN  MergedPhase("dataHierarchy", h, ComponentCount(h), ValidDataHierarchy(merged.mergeData, h),
                  "mergeSimple")

MergeSimpleRolePhases ==
  LET phase == MergeSimpleRoles(source.objects, source.simple, merged.mergeObjects)
  IN  MergedPhase("mergeSimple", phase, Total(InclusionCount, Append(source.simple, phase)),
                  ValidSimple(phase), "mergeComplex")

MergeComplexRolePhases ==
  LET phase == MergeComplexRoles(source.objects, source.complex, merged.mergeObjects)
  IN  MergedPhase("mergeComplex", phase, Total(InclusionCount, Append(source.complex, phase)),
                  ValidComplex(phase), "mergeCharacteristics")

MergeCharacteristicPhases ==
  LET phase == MergeRoleCharacteristics(source.objects, source.data, source.characteristics,
                                        merged.mergeObjects, merged.mergeData)
  IN  MergedPhase("mergeCharacteristics", phase, Total(ClashCount, Append(source.characteristics, phase)),
                  ValidCharacteristics(phase), "hierarchy")

ObjectRoleHierarchy ==
  LET h == BuildHierarchy(merged.mergeObjects, merged.mergeSimple)
  IN  MergedPhase("hierarchy", h, ComponentCount(h), ValidHierarchy(merged.mergeObjects, h), "semantics")

RoleSemantics ==
  LET r == CompileRoleSemantics(merged.mergeObjects, merged.mergeSimple, merged.mergeComplex,
                                merged.hierarchy)
  IN  MergedPhase("semantics", r, Cardinality(r.violations), ValidSemantics(merged.hierarchy, r),
                  "automata")

RoleAutomataPhase ==
  LET a == CompileRoleAutomata(merged.mergeObjects, merged.mergeSimple, merged.mergeComplex,
                               merged.hierarchy, merged.semantics)
  IN  MergedPhase("automata", a, Cardinality(DOMAIN a), ValidAutomata(merged.mergeObjects, a), "model")

RoleModel ==
  LET m == CompileRoleModel(merged.mergeObjects, merged.mergeData, merged.mergeSimple,
                            merged.mergeInclusions, merged.mergeComplex, merged.hierarchy,
                            merged.semantics, merged.automata)
      valid == /\ ValidModelInputs(merged.mergeObjects, merged.hierarchy, merged.semantics,
                                   merged.automata)
               /\ ValidRoleModel(m) /\ RuntimeLoads(m)
  IN  MergedPhase("model", m, 1, valid, "clauses")

\* The poll after the last phase is the publication checkpoint.
RoleClausePhase ==
  LET c == CompileRoleClauses(merged.mergeObjects, merged.mergeData, merged.mergeSimple,
                              merged.mergeInclusions, merged.mergeComplex,
                              merged.mergeCharacteristics, merged.model)
  IN  MergedPhase("clauses", c, Cardinality(c.clauses), c.ok, "done")

\* Another thread sets the token, at any time.
CancelRequest ==
  /\ ~token /\ outcome = "running"
  /\ token' = TRUE
  /\ UNCHANGED <<program, stage, slice, source, merged, owned, outcome>>

SourceStep ==
  \/ SourceObjectRoles \/ SourceDataRoles \/ SourceDataInclusions
  \/ SourceSimpleRoles \/ SourceComplexRoles \/ SourceCharacteristics

MergeStep ==
  \/ MergeObjectRolePhases \/ MergeDataRolePhases \/ MergeDataInclusionPhases
  \/ DataRoleHierarchy \/ MergeSimpleRolePhases \/ MergeComplexRolePhases
  \/ MergeCharacteristicPhases \/ ObjectRoleHierarchy \/ RoleSemantics
  \/ RoleAutomataPhase \/ RoleModel \/ RoleClausePhase

Next == SourceStep \/ MergeStep \/ CancelRequest

Spec == Init /\ [][Next]_vars

-----------------------------------------------------------------------------
(***************************************************************************)
(* Properties.                                                             *)
(***************************************************************************)
Published == outcome = "published"

Id(key) == IdOf(merged.mergeObjects.values, key)

KeyOf(id) == merged.mergeObjects.values[id]

\* The state has its shape: the stage names a phase, a slice of the program is
\* compiled, and the phases done so far are the ones before it.
TypeOK ==
  /\ slice \in DOMAIN program.slices
  /\ outcome \in {"running", "published", "cancelled", "exhausted", "failed"}
  /\ token \in BOOLEAN /\ owned \in 0..program.limit
  /\ \A f \in DOMAIN source : Len(source[f]) \in {slice - 1, slice}
  /\ DOMAIN merged \subseteq {"mergeObjects", "mergeData", "mergeInclusions", "dataHierarchy",
       "mergeSimple", "mergeComplex", "mergeCharacteristics", "hierarchy", "semantics",
       "automata", "model", "clauses"}

\* No phase rejects what the phases before it produced (the validators only guard
\* against defects of the compiler), with one exception: a chain of ten or more
\* roles gives a clause of eleven or more variables.  Their numbers are compared as
\* decimal text, and the alpha-ordering of most such clauses never settles
\* (role_clauses.rs: "alpha ordering exceeded its bounded passes").
FailsOnlyOnWideClauses ==
  outcome = "failed" => \E x \in merged.mergeComplex.inclusions : Len(x.chain) >= 10

\* A view compiled slice by slice and merged is the same program, identifier by
\* identifier, as the view compiled as one slice (the merge functions of every
\* role phase).
SlicesIrrelevant ==
  Published /\ Len(program.slices) > 1 =>
    LET objects == CompileObjectRoles(ObjectProperties(Axioms))
        data    == CompileDataRoles(DataProperties(Axioms))
    IN  /\ merged.mergeObjects = objects
        /\ merged.mergeData = data
        /\ merged.mergeInclusions = CompileDataInclusions(data, Axioms)
        /\ merged.mergeSimple = CompileSimpleRoles(objects, Axioms)
        /\ merged.mergeComplex = CompileComplexRoles(objects, Axioms)
        /\ merged.mergeCharacteristics = CompileRoleCharacteristics(objects, data, Axioms)

\* The closure of the component graph is exactly reachability along the
\* inclusions the axioms state, components are the roles that include each other,
\* and the inverse of a component holds the inverse roles.
ClosureExact ==
  Published =>
    LET included == Included(RoleKeys(Axioms), ObjectPairs(Axioms))
        h        == merged.hierarchy
        dh       == merged.dataHierarchy
        dataKeys == Keys(merged.mergeData.values)
        dataIncluded == Included(dataKeys, DataPairs(Axioms))
        d(key)   == dh.byRole[IdOf(merged.mergeData.values, key)]
    IN  /\ \A r, s \in RoleKeys(Axioms) :
             /\ (h.byRole[Id(s)] \in h.supers[h.byRole[Id(r)]]) = (<<r, s>> \in included)
             /\ (h.byRole[Id(s)] = h.byRole[Id(r)]) = (<<r, s>> \in included /\ <<s, r>> \in included)
        /\ \A r \in RoleKeys(Axioms) : h.inverse[h.byRole[Id(r)]] = h.byRole[Id(CounterpartKey(r))]
        /\ \A r, s \in dataKeys : (d(s) \in dh.supers[d(r)]) = (<<r, s>> \in dataIncluded)

\* The roles the compiler calls non-simple are exactly those that include a
\* chain, and the ontology is called regular exactly when its chains admit the
\* order OWL 2 asks for.
RestrictionsExact ==
  Published =>
    /\ {k \in RoleKeys(Axioms) : merged.hierarchy.byRole[Id(k)] \in merged.semantics.nonSimple}
         = CompositeRoles(Axioms)
    /\ merged.model.regular = RegularHierarchy(Axioms)

\* A reported dependency cycle is a cycle of the dependencies, and no cycle is
\* shorter (shortest_cycle: breadth-first from every component).
CycleWitness ==
  Published =>
    \A v \in {w \in merged.semantics.violations : w.code = "RIA_DEPENDENCY_CYCLE"} :
      LET edges == {<<d, c>> : <<d, c>> \in {e \in (DOMAIN merged.hierarchy.components)
                                                  \X (DOMAIN merged.hierarchy.components) :
                                              e[1] \in merged.semantics.dependencies[e[2]]}}
          steps == Len(v.cycle) - 1
      IN  /\ v.cycle[1] = v.cycle[Len(v.cycle)]
          /\ \A i \in 1..steps : <<v.cycle[i], v.cycle[i + 1]>> \in edges
          /\ steps > 2 => \A e \in edges : <<e[2], e[1]>> \notin edges

\* What the hierarchy phases say of the roles is what the axioms say: inclusion,
\* equivalence and inverses, simplicity, and regularity with a shortest witness
\* against it.
HierarchyExact == ClosureExact /\ RestrictionsExact /\ CycleWitness

\* The words tried: over the user's roles, and one that holds the empty role.
TriedWords(axioms) ==
  Words(RoleKeys(axioms) \ Builtins, WordLength) \cup {<<BottomKey>>}
    \cup {<<k, BottomKey>> : k \in RoleKeys(axioms)}

\* The automata of a regular ontology read exactly the words that the axioms
\* derive for the role, both as compiled and as the runtime loads them; the
\* inverse word belongs to the inverse role.
AutomataExact ==
  Published /\ merged.model.regular =>
    LET contained == ContainedWords(Axioms, RoleKeys(Axioms) \ Builtins, WordLength)
        h         == merged.hierarchy
        ids(w)    == [i \in DOMAIN w |-> Id(w[i])]
        belongs(r, w) == BottomKey \in Keys(w) \/ w \in contained[r]
    IN  \A r \in RoleKeys(Axioms), w \in TriedWords(Axioms) :
          /\ PhaseAccepts(merged.mergeObjects, h, merged.automata, Id(r), ids(w)) = belongs(r, w)
          /\ h.byRole[Id(r)] \in DOMAIN merged.model.automata =>
               /\ RuntimeAccepts(merged.model, h.byRole[Id(r)], ids(w)) = belongs(r, w)
               /\ RuntimeAccepts(merged.model, h.inverse[h.byRole[Id(r)]],
                                 InverseWord(merged.model, ids(w))) = belongs(r, w)

\* What a clause says of an interpretation.
Holds(I, p, a, v) ==
  LET pair == <<v[a.terms[1][1] + 1], v[a.terms[2][1] + 1]>>
  IN  \/ \E d \in DOMAIN p.data : /\ p.data[d] = a.predicate
                                  /\ pair \in I.data[merged.mergeData.values[d]]
      \/ \E r \in DOMAIN p.object : p.object[r] = a.predicate /\ pair \in I.object[KeyOf(r)]

SatisfiesClause(I, p, c) ==
  LET variables == {t[1] : t \in UNION {Items(a.terms) : a \in Items(c.body) \cup Items(c.head)}}
  IN  \A v \in [1..Cardinality(variables) -> {1, 2}] :
        (\A a \in Items(c.body) : Holds(I, p, a, v)) => \E a \in Items(c.head) : Holds(I, p, a, v)

\* An interpretation satisfies the role clauses exactly when it satisfies the
\* axioms and gives the inverses and the empty roles their meaning.
ClausesMean ==
  Published =>
    \A I \in Interpretations(Axioms) :
      (\A c \in merged.clauses.clauses : SatisfiesClause(I, merged.clauses.predicates, c))
        = (Standard(I, {1, 2}, {1, 2}) /\ \A a \in Axioms : SatisfiesRoleAxiom(I, a))

\* Every clash and every inclusion that the merged phases keep is a source of
\* some clause, so a refutation that uses the clause is traced to it, although
\* equal clauses are merged; no join plan forms a product.
ClausesTraced ==
  Published =>
    /\ \A x \in merged.mergeCharacteristics.clashes :
         \E q \in merged.clauses.provenance : x.source \in q.sources
    /\ \A x \in merged.mergeSimple.inclusions :
         x.sub # x.super => \E q \in merged.clauses.provenance : x.provenance \in q.sources
    /\ \A x \in merged.mergeComplex.inclusions :
         ~x.builtin => \E q \in merged.clauses.provenance : x.provenance \in q.sources
    /\ \A c \in merged.clauses.clauses : PlanConnected(c.join, {})

\* The role clauses have the models of the role axioms, and every axiom can be
\* found again in the clauses it gave rise to.
ClausesExact == ClausesMean /\ ClausesTraced

\* A call that was cancelled while it ran publishes nothing ("Nothing escapes the
\* coarse call before this final publication checkpoint").
CancelHonoured == Published => ~token

\* What the merged phases hold, together with the phases they were merged from,
\* stays within the limit.
WithinOwnedLimit ==
  Published =>
    Total(RoleCount, source.objects) + Total(RoleCount, source.data)
      + Total(InclusionCount, source.inclusions) + Total(InclusionCount, source.simple)
      + Total(InclusionCount, source.complex) + Total(ClashCount, source.characteristics)
      + Len(merged.mergeObjects.values) + Len(merged.mergeData.values)
      + Cardinality(merged.mergeInclusions.inclusions) + Len(merged.dataHierarchy.components)
      + Cardinality(merged.mergeSimple.inclusions) + Cardinality(merged.mergeComplex.inclusions)
      + Cardinality(merged.mergeCharacteristics.clashes) + Len(merged.hierarchy.components)
      + Cardinality(merged.semantics.violations) + Cardinality(DOMAIN merged.automata) + 1
      + Cardinality(merged.clauses.clauses) <= program.limit

\* A call publishes only within the limit and before the cancellation, and ends in
\* an internal error for no ontology whose chains have fewer than ten roles.
PublicationSound == TypeOK /\ FailsOnlyOnWideClauses /\ CancelHonoured /\ WithinOwnedLimit
=============================================================================
