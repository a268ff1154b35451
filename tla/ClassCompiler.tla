---------------------------- MODULE ClassCompiler ----------------------------
(***************************************************************************)
(* The class compiler as the native backend drives it: the axioms of an    *)
(* ontology arrive in slices (the ontology and its imports), each slice is *)
(* compiled on its own (compile_named_class_phase), the phases are merged  *)
(* (merge_named_class_phases) and the merged rows are frozen to clauses    *)
(* and facts.  The result is then judged against the direct semantics, one *)
(* interpretation at a time.                                               *)
(***************************************************************************)
EXTENDS ProgramClauses

CONSTANTS
    Programs,      \* records: axioms (a set), E (see ClassNormalizer)
    Interpretations(_)   \* the interpretations a program is judged by

VARIABLES
    program,       \* the program being compiled
    slices,        \* the slices still to compile
    phases,        \* the phases compiled so far
    result,        \* the frozen program, once merged
    judged         \* the interpretation it is judged by

vars == <<program, slices, phases, result, judged>>

Unfrozen == [done |-> FALSE]
Unjudged == [done |-> FALSE]

\* A program arrives whole or with one axiom in a slice of its own.
Splits(axioms) ==
    {{axioms}} \cup {{{a}, axioms \ {a}} : a \in IF Cardinality(axioms) > 1 THEN axioms ELSE {}}

Init ==
    /\ program \in Programs
    /\ slices \in Splits(program.axioms)
    /\ phases = {}
    /\ result = Unfrozen
    /\ judged = Unjudged

\* A row with its classes, data ranges and individuals renamed by the maps of to.
Renamed(row, to) ==
    LET c(l) == <<to.classes[l[1]], l[2]>>
        d(l) == <<to.ranges[l[1]], l[2]>>
    IN  CASE row[1] = "edge" -> <<"edge", c(row[2]), c(row[3])>>
          [] row[1] = "boolean" -> <<"boolean", {c(l) : l \in row[2]}, {c(l) : l \in row[3]}>>
          [] row[1] = "disjoint" -> <<"disjoint", [k \in DOMAIN row[2] |-> c(row[2][k])]>>
          [] row[1] = "object" -> [row EXCEPT ![4] = c(@), ![5] = IF @ = None THEN None ELSE c(@)]
          [] row[1] = "data" -> [row EXCEPT ![4] = c(@), ![5] = d(@)]
          [] row[1] = "dataDomain" -> [row EXCEPT ![3] = c(@)]
          [] row[1] = "dataRange" -> [row EXCEPT ![3] = d(@)]
          [] row[1] = "dboolean" -> <<"dboolean", {d(l) : l \in row[2]}, {d(l) : l \in row[3]}>>
          [] row[1] = "datatype" -> <<"datatype", d(row[2]), d(row[3])>>
          [] row[1] = "key" -> [row EXCEPT ![2] = c(@)]
          [] row[1] = "fact" -> <<"fact", c(row[2]), to.individuals[row[3]]>>
          [] row[1] \in {"equality", "inequality"} -> [row EXCEPT ![2] = to.individuals[@], ![3] = to.individuals[@]]
          [] row[1] \in {"objectFact", "negatedObjectFact"} ->
                [row EXCEPT ![3] = to.individuals[@], ![4] = to.individuals[@]]
          [] row[1] \in {"dataFact", "negatedDataFact"} -> [row EXCEPT ![3] = to.individuals[@]]
          [] OTHER -> row

RenamedRows(rows, to) == {[x EXCEPT !.row = Renamed(x.row, to)] : x \in rows}

\* Symbols are numbered densely in the order of their keys.
Numbered(symbols) == FoldSet(LAMBDA key, table : Append(table, key), <<>>, symbols)
Identifier(table, key) == CHOOSE n \in DOMAIN table : table[n] = key

\* The identifiers of the keys of a table, and those of one table in another.
Identifiers(table) == [key \in Range(table) |-> Identifier(table, key)]
Remap(own, merged) == [n \in DOMAIN own |-> Identifier(merged, own[n])]

SymbolsOf(ps) ==
    [classes |-> Numbered(UNION {p.classes : p \in ps}), ranges |-> Numbered(UNION {p.ranges : p \in ps}),
     individuals |-> Numbered(UNION {p.individuals : p \in ps})]

\* The rows of a phase name their symbols by the identifiers of its own domains.
Published(p) ==
    LET own == SymbolsOf({p})
    IN  [p EXCEPT !.rows = RenamedRows(p.rows, [domain \in DOMAIN own |-> Identifiers(own[domain])])]

CompileSlice ==
    \E s \in slices :
        /\ slices' = slices \ {s}
        /\ phases' = phases \cup {Published(CompilePhase(program.E, s))}
        /\ UNCHANGED <<program, result, judged>>

-----------------------------------------------------------------------------
(***************************************************************************)
(* Merging: symbol domains are united by key, rows are mapped to the       *)
(* merged symbols and normalized again.  A row keeps its provenance and    *)
(* whether it was generated.                                               *)
(***************************************************************************)
\* Mutant: the individuals of a row keep the identifiers of its slice.
MappedClassesOnly(p, merged) ==
    LET own == SymbolsOf({p})
    IN  RenamedRows(p.rows, [domain \in DOMAIN own |->
            Remap(own[domain], IF domain = "individuals" THEN own[domain] ELSE merged[domain])])

\* The rows of a phase in the identifiers of the merged domains, by their keys.
Mapped(p, merged) ==
    LET own == SymbolsOf({p})
    IN  RenamedRows(p.rows, [domain \in DOMAIN own |-> Remap(own[domain], merged[domain])])

\* A row for every axiom it comes from.
Raw(rows) == UNION {{<<x.row, p, x.generated>> : p \in x.provenance} : x \in rows}

MergeEdges(sources) == Raw({x \in sources : x.row[1] = "edge"})
MergeBooleanClauses(sources) == Raw({x \in sources : x.row[1] = "boolean"})
MergeDisjoints(sources) == Raw({x \in sources : x.row[1] = "disjoint"})
MergeObjectConstraints(sources) == Raw({x \in sources : x.row[1] = "object"})
MergeDataConstraints(sources) == Raw({x \in sources : x.row[1] = "data"})
MergeCharacteristics(sources) == Raw({x \in sources : x.row[1] = "characteristic"})
MergeDataDomains(sources) == Raw({x \in sources : x.row[1] = "dataDomain"})
MergeDataRanges(sources) == Raw({x \in sources : x.row[1] = "dataRange"})
MergeDataBooleanClauses(sources) == Raw({x \in sources : x.row[1] = "dboolean"})
MergeDatatypeDefinitions(sources) == Raw({x \in sources : x.row[1] = "datatype"})
MergeKeys(sources) == Raw({x \in sources : x.row[1] = "key"})
MergeFunctionalities(sources) == Raw({x \in sources : x.row[1] = "functionality"})
MergeFacts(sources) == Raw({x \in sources : x.row[1] = "fact"})
MergeObjectFacts(sources) == Raw({x \in sources : x.row[1] \in {"objectFact", "negatedObjectFact"}})
MergeDataFacts(sources) == Raw({x \in sources : x.row[1] \in {"dataFact", "negatedDataFact"}})
MergeEqualities(sources) == Raw({x \in sources : x.row[1] = "equality"})
MergeInequalities(sources) == Raw({x \in sources : x.row[1] = "inequality"})

MergedRows(sources) ==
    NormalizeRows(
        MergeEdges(sources) \cup MergeBooleanClauses(sources) \cup MergeDisjoints(sources)
        \cup MergeObjectConstraints(sources) \cup MergeDataConstraints(sources)
        \cup MergeCharacteristics(sources) \cup MergeDataDomains(sources) \cup MergeDataRanges(sources)
        \cup MergeDataBooleanClauses(sources) \cup MergeDatatypeDefinitions(sources) \cup MergeKeys(sources)
        \cup MergeFunctionalities(sources) \cup MergeFacts(sources) \cup MergeObjectFacts(sources)
        \cup MergeDataFacts(sources) \cup MergeEqualities(sources) \cup MergeInequalities(sources))

\* The rows of a program with the keys of its symbols.
Resolved(rows, symbols) == RenamedRows(rows, symbols)

MergedClasses(ps) == UNION {p.classes : p \in ps}
MergedRanges(ps) == UNION {p.ranges : p \in ps}
MergedIndividuals(ps) == UNION {p.individuals : p \in ps}
MergedNominals(ps) == NominalBindings(MergedClasses(ps))
MergedPairs(ps) == UNION {p.pairs : p \in ps}

\* The predicate of an atom is the atom without its terms.
PredicateOf(atom) ==
    LET length == CASE atom[1] \in {"concept", "range", "guard"} -> 3
                    [] atom[1] \in {"atLeast", "atLeastData", "annotated"} -> 4
                    [] atom[1] \in {"ordering", "named"} -> 1
                    [] OTHER -> 2
    IN  SubSeq(atom, 1, length)

\* The merged phase is frozen; a clause or fact over a predicate that was not
\* collected fails the compilation.
Used(clauses, facts) == {PredicateOf(a) : a \in facts \cup UNION {c.body \cup c.head : c \in clauses}}

Frozen(ps, rows, predicates, clauses, facts) ==
    [done |-> TRUE,
     failed |-> \/ \E p \in ps : p.failed
                \/ ~(Used(clauses, facts) \subseteq predicates)
                \/ Conflicting(MergedPairs(ps)),
     rows |-> rows, predicates |-> predicates, clauses |-> clauses, facts |-> facts,
     provenance |-> FreezeProvenance(rows),
     compiled |-> UNION {p.compiled : p \in ps}, deferred |-> UNION {p.deferred : p \in ps}]

FreezeRows(E, ps, rows) ==
    LET individuals == MergedIndividuals(ps)
        named == individuals \ E.anonymous
        nominals == MergedNominals(ps)
    IN  Frozen(ps, rows, Predicates(rows, nominals, individuals, named), FreezeClauses(rows, nominals),
               PositiveFacts(rows, individuals, named) \cup NegativeFacts(rows))

FreezePhase(E, ps) ==
    LET merged == SymbolsOf(ps)
        rows == MergedRows(UNION {Mapped(p, merged) : p \in ps})
    IN  FreezeRows(E, ps, Resolved(rows, merged))

Merge ==
    /\ slices = {}
    /\ ~result.done
    /\ result' = FreezePhase(program.E, phases)
    /\ UNCHANGED <<program, slices, phases, judged>>

\* The judge is no part of the system: it chooses what the result means.
Judge ==
    /\ result.done
    /\ ~judged.done
    /\ ~result.failed
    /\ \E I \in Interpretations(program) : judged' = [done |-> TRUE, I |-> I]
    /\ UNCHANGED <<program, slices, phases, result>>

Next == CompileSlice \/ Merge \/ Judge

Spec == Init /\ [][Next]_vars

-----------------------------------------------------------------------------
(***************************************************************************)
(* What the frozen program means in an interpretation I.  A generated name *)
(* and a disjointness guard may have any extension X; a negative predicate *)
(* is the complement of its positive one (ComplementsDefined).             *)
(***************************************************************************)
RECURSIVE RangeKeyExtension(_, _)
RangeKeyExtension(I, t) ==
    CASE t[1] = "range" -> IF t[3] THEN I.values \ RangeExtension(I, t[2]) ELSE RangeExtension(I, t[2])
      [] t[1] = "dand" -> {v \in I.values : \A u \in t[2] : v \in RangeKeyExtension(I, u)}
      [] t[1] = "dor" -> UNION {RangeKeyExtension(I, u) : u \in t[2]}

\* The extension of a normalized term.
RECURSIVE KeyExtension(_, _)
KeyExtension(I, t) ==
    LET complement(S, negative) == IF negative THEN I.objects \ S ELSE S
    IN  CASE t[1] = "atom" -> complement(ClassExtension(I, t[2]), t[3])
          [] t[1] = "nominal" -> complement({I.ind[i] : i \in t[2]}, t[3])
          [] t[1] = "self" -> complement(ClassExtension(I, <<"self", t[2]>>), t[3])
          [] t[1] = "and" -> {x \in I.objects : \A u \in t[2] : x \in KeyExtension(I, u)}
          [] t[1] = "or" -> UNION {KeyExtension(I, u) : u \in t[2]}
          [] t[1] \in {"some", "all"} -> Restricted(I, t[1], 0, RoleExtension(I, t[2]), KeyExtension(I, t[3]))
          [] t[1] \in {"min", "max"} -> Restricted(I, t[1], t[2], RoleExtension(I, t[3]), KeyExtension(I, t[4]))
          [] t[1] \in {"dsome", "dall"} ->
                Restricted(I, t[1], 0, DataRoleExtension(I, t[2]), RangeKeyExtension(I, t[3]))
          [] t[1] \in {"dmin", "dmax"} ->
                Restricted(I, t[1], t[2], DataRoleExtension(I, t[3]), RangeKeyExtension(I, t[4]))

\* The predicates X interprets.
FreePredicates(predicates) ==
    {p \in predicates : p[1] = "guard" \/ (p[1] \in {"concept", "range"} /\ IsGenerated(p[2]) /\ ~p[3])}

LiteralExtension(I, X, kind, l) ==
    LET all == IF kind = "concept" THEN I.objects ELSE I.values
        positive == IF IsGenerated(l[1]) THEN X[<<kind, l[1], FALSE>>]
                    ELSE IF kind = "concept" THEN ClassExtension(I, l[1]) ELSE RangeExtension(I, l[1])
    IN  IF l[2] THEN all \ positive ELSE positive

Value(I, v, t) == CASE t[1] = "v" -> v[t[2]] [] t[1] = "i" -> I.ind[t[2]] [] t[1] = "l" -> I.lit[t[2]]

Holds(I, X, named, atom, v) ==
    LET val(k) == Value(I, v, atom[k])
    IN  CASE atom[1] \in {"concept", "range"} -> val(4) \in LiteralExtension(I, X, atom[1], <<atom[2], atom[3]>>)
          [] atom[1] = "role" -> <<val(3), val(4)>> \in RoleExtension(I, atom[2])
          [] atom[1] = "drole" -> <<val(3), val(4)>> \in DataRoleExtension(I, atom[2])
          [] atom[1] = "negatedRole" -> <<val(3), val(4)>> \notin RoleExtension(I, atom[2])
          [] atom[1] = "negatedDrole" -> <<val(3), val(4)>> \notin DataRoleExtension(I, atom[2])
          [] atom[1] = "atLeast" ->
                val(5) \in Restricted(I, "min", atom[2], RoleExtension(I, atom[3]),
                                      LiteralExtension(I, X, "concept", atom[4]))
          [] atom[1] = "atLeastData" ->
                val(5) \in Restricted(I, "min", atom[2], DataRoleExtension(I, atom[3]),
                                      LiteralExtension(I, X, "range", atom[4]))
          [] atom[1] = "annotated" -> val(5) = val(6)
          [] atom[1] = "equal" -> val(3) = val(4)
          [] atom[1] = "unequal" -> val(3) # val(4)
          [] atom[1] = "ordering" -> val(2) < val(3)
          [] atom[1] = "named" -> val(2) \in named
          [] atom[1] = "guard" -> val(4) \in X[<<"guard", atom[2], atom[3]>>]

TermsOf(atom) == {atom[k] : k \in (Len(PredicateOf(atom)) + 1)..Len(atom)}
VariablesOf(atoms) == {t[2] : t \in {u \in UNION {TermsOf(a) : a \in atoms} : u[1] = "v"}}

SatisfiesProgram(I, X) ==
    LET named == {I.ind[i] : i \in DOMAIN I.ind \ program.E.anonymous}
    IN  /\ \A f \in result.facts : Holds(I, X, named, f, <<>>)
        /\ \A c \in result.clauses :
              \A v \in [VariablesOf(c.body \cup c.head) -> I.objects \cup I.values] :
                  \/ \E a \in c.body : ~Holds(I, X, named, a, v)
                  \/ \E a \in c.head : Holds(I, X, named, a, v)

\* Every generated name means its term, every guard the members so far.
Canonical(I) ==
    LET free == FreePredicates(result.predicates)
        members(p) == {p[2][k] : k \in 1..p[3]}
        meaning(p) == CASE p[1] = "range" -> RangeKeyExtension(I, p[2][2])
                        [] p[1] = "concept" -> KeyExtension(I, p[2][2])
        X == [p \in {q \in free : q[1] # "guard"} |-> meaning(p)]
    IN  [p \in free |-> IF p[1] # "guard" THEN X[p]
                        ELSE UNION {LiteralExtension(I, X, "concept", l) : l \in members(p)}]

Extensions(I) ==
    LET free == FreePredicates(result.predicates)
        ranges == {p \in free : p[1] = "range"}
    IN  {[p \in free |-> IF p \in ranges THEN g[p] ELSE f[p]] :
            f \in [free \ ranges -> SUBSET I.objects], g \in [ranges -> SUBSET I.values]}

Accepted == judged.done /\ \A a \in result.compiled : Satisfies(judged.I, a)
Rejected == judged.done /\ \E a \in result.compiled : ~Satisfies(judged.I, a)

-----------------------------------------------------------------------------
(***************************************************************************)
(* Properties.                                                             *)
(***************************************************************************)
\* The clauses follow from the axioms: a model of the compiled axioms is a
\* model of the program, with the generated names read as their terms.  A
\* negation pushed past a restriction or a cardinality the wrong way would
\* exclude a model.
ModelsKept == Accepted => SatisfiesProgram(judged.I, Canonical(judged.I))

\* The axioms follow from the clauses: what violates a compiled axiom violates
\* the program however the generated names are read.  A definition dropped in
\* the polarity its occurrence needs would admit a non-model.
NonModelsExcluded == Rejected => \A X \in Extensions(judged.I) : ~SatisfiesProgram(judged.I, X)

SameUnlessFailed(sliced, whole) == ~sliced.failed /\ ~whole.failed => sliced = whole

\* Compiling slice by slice and merging gives the rows, the clauses, the facts
\* and the deferrals of compiling the ontology at once.
SlicesIrrelevant ==
    result.done =>
        SameUnlessFailed(result, FreezePhase(program.E, {Published(CompilePhase(program.E, program.axioms))}))

\* Every symbol a row refers to was published in the merged domains, so no
\* identifier of the frozen program dangles.
SymbolsPublished ==
    result.done /\ ~result.failed =>
        LET literals(Of(_)) == UNION {Of(x.row) : x \in result.rows}
        IN  /\ {l[1] : l \in literals(ClassLiterals)} \subseteq MergedClasses(phases)
            /\ {l[1] : l \in literals(RangeLiterals)} \subseteq MergedRanges(phases)
            /\ \A N \in MergedNominals(phases) : N[2] \subseteq MergedIndividuals(phases)

\* A negative predicate is used only together with the clauses that make it
\* the complement of its positive one.
ComplementsDefined ==
    result.done /\ ~result.failed =>
        \A p \in {q \in result.predicates : q[1] \in {"concept", "range"} /\ q[3]} :
            LET atom(negative) == <<p[1], p[2], negative, V(0)>>
                top == IF p[1] = "concept" THEN Concept(ThingLiteral, V(0)) ELSE InRange(<<TopRange, FALSE>>, V(0))
            IN  /\ Clause({atom(TRUE), atom(FALSE)}, {}) \in result.clauses
                /\ p[2] \in {Thing, TopRange} \/ Clause({top}, {atom(TRUE), atom(FALSE)}) \in result.clauses

\* A root that is deferred leaves nothing behind: every row comes from a root
\* counted as compiled, and every root is counted once.
DeferredLeaveNothing ==
    result.done /\ ~result.failed =>
        /\ result.provenance \subseteq result.compiled
        /\ result.compiled \cup result.deferred = program.axioms
        /\ result.compiled \cap result.deferred = {}

\* Compilation of a supported program never ends in an internal error.
CompilesCleanly == result.done => ~result.failed

\* The frozen program is whole: it compiles, every symbol and every complement
\* it refers to is there, and a deferred root left nothing in it.
ProgramClosed ==
    CompilesCleanly /\ SymbolsPublished /\ ComplementsDefined /\ DeferredLeaveNothing

=============================================================================
