--------------------------- MODULE ProfileCompiler ---------------------------
(***************************************************************************)
(* The OWL 2 DL profile gate of an encoded session (encoded/profile.rs and *)
(* its callers in lib.rs): every slice is compiled within what is left of  *)
(* the shared budget, the phases are merged and the global passes are run  *)
(* again on the merged facts, the ontology identities and the origins are  *)
(* applied, and a session is constructed only for a conforming ontology.   *)
(* The token is polled in every step.                                      *)
(***************************************************************************)
EXTENDS ProfileReference

LOCAL INSTANCE SequencesExt

CONSTANT Ontologies
  \* [slices, policy, rows, domain, identities, owned, issues]: the slices are
  \* [roots, mode, postings]; rows gives the documents of a root by digest, in
  \* one digest domain ("none": no origin context).

VARIABLES ontology, stage, merging, slice, root, cursor, facts, raised, owned, phases, token, outcome
  \* raised: how many issues the phase has raised, equal ones included

vars == <<ontology, stage, merging, slice, root, cursor, facts, raised, owned, phases, token, outcome>>

-----------------------------------------------------------------------------
\* Root selection.

NoFacts == [axioms |-> {}, extensions |-> {}, vertices |-> {}, assertions |-> {}, uses |-> {},
            declarations |-> {}, definitions |-> {}, rangeFailures |-> {}, literals |-> {},
            inclusions |-> {}, complex |-> {}, seeds |-> {}, requirements |-> {}, issues |-> {}]

\* Postings are sorted, so one cursor suffices.
PostingContains(postings, at, index) ==
  LET found == at <= Len(postings) /\ postings[at] = index
  IN  [found |-> found, cursor |-> IF found THEN at + 1 ELSE at]

RootPostingsValid(postings, count) ==
  /\ postings # <<>>
  /\ \A i \in DOMAIN postings : postings[i] \in 1..count /\ (i > 1 => postings[i - 1] < postings[i])

SelectionValid(s) ==
  IF s.mode = "all" THEN s.postings = <<>> ELSE RootPostingsValid(s.postings, Len(s.roots))

Excludes(s, at, index) ==
  LET hit == PostingContains(s.postings, at, index)
  IN  [skip   |-> CASE s.mode = "all"     -> FALSE
                    [] s.mode = "include" -> ~hit.found
                    [] s.mode = "exclude" -> hit.found,
       cursor |-> hit.cursor]

-----------------------------------------------------------------------------
\* The facts of one root.

\* Entities, literals and data ranges count in every root, annotations included.
ValueFacts(nodes) ==
  [NoFacts EXCEPT
     !.uses          = {ProfileEntityIdentity(n) : n \in Tagged(nodes, {"entity"})},
     !.literals      = {RetainProfileLiteral(n) : n \in Tagged(nodes, {"literal"})},
     !.rangeFailures = UNION {RetainProfileDatatypeRangeFailure(n) : n \in Tagged(nodes, ComplexDataRanges)}]

OntologyAnnotationFacts(r) == ValueFacts(Nodes(r))

ExtensionFacts(r) ==
  [NoFacts EXCEPT !.extensions = {r.source},
                  !.issues     = {Error("EXTENSION_COMPONENT", "SWRLRule", r.source)}]

AnonymousAxiomForbidden(r) == r.kind \in {"same", "different", "negativeObject", "negativeData"}

ForbiddenAnonymousExpression(node) ==
  /\ node.tag \in {"oneOf", "hasValue"}
  /\ \E kid \in Keys(node.kids) : kid.tag = "anonymous"

AllowsTopDataProperty(r) ==
  /\ r.kind = "subData"
  /\ IsTopDataProperty(r.fields[2])
  /\ ~IsTopDataProperty(r.fields[1])

\* A data restriction has its properties first and its range last.
ArityViolated(node) == node.tag \in {"dataSome", "dataAll"} /\ Len(node.kids) # 2

AxiomIssues(r) ==
  LET nodes == Nodes(r)
      issue(rule, found) == IF found THEN {At(Error(rule, r.kind, r.source), 0)} ELSE {}
  IN  {At(Error("ANONYMOUS_CLASS_EXPRESSION", n.tag, r.source), n)
         : n \in {m \in nodes : ForbiddenAnonymousExpression(m)}}
        \cup {At(Error("DATA_RANGE_ARITY", n.tag, r.source), n) : n \in {m \in nodes : ArityViolated(m)}}
        \cup issue("ANONYMOUS_AXIOM_POSITION",
                   AnonymousAxiomForbidden(r) /\ Tagged(nodes, {"anonymous"}) # {})
        \cup issue("TOP_DATA_PROPERTY_POSITION",
                   /\ \E n \in Tagged(nodes, {"entity"}) : IsTopDataProperty(n)
                   /\ ~AllowsTopDataProperty(r))

AxiomFacts(r) ==
  LET nodes     == Nodes(r)
      roles     == ProfileRoleAxiomFacts(r)
      assertion == IF r.kind = "objectAssertion" THEN {AnonymousAssertionEndpoints(r)} ELSE {}
  IN  [ValueFacts(nodes) EXCEPT
         !.axioms       = {r.source},
         !.declarations = IF r.kind = "declaration" THEN {ProfileEntityIdentity(r.fields[1])} ELSE {},
         !.definitions  = IF r.kind = "datatypeDefinition" THEN {RetainProfileDatatypeDefinition(r)} ELSE {},
         !.inclusions   = roles.inclusions,
         !.complex      = roles.complex,
         !.seeds        = roles.seeds,
         !.assertions   = {a \in assertion : a.source # 0 \/ a.target # 0},
         !.vertices     = {n.key : n \in Tagged(nodes, {"anonymous"})},
         !.requirements = SimpleRoleRequirements(r),
         !.issues       = IssuesOf(AxiomIssues(r))]

RootFacts(r) ==
  CASE r.kind = "ontologyAnnotation" -> OntologyAnnotationFacts(r)
    [] r.kind = "swrlRule"           -> ExtensionFacts(r)
    [] OTHER                         -> AxiomFacts(r)

RaisedIn(r) ==
  CASE r.kind = "ontologyAnnotation" -> 0
    [] r.kind = "swrlRule"           -> 1
    [] OTHER                         -> Cardinality(AxiomIssues(r))

Join(f, g) == [x \in DOMAIN f |-> f[x] \cup g[x]]

Size(f) == MapThenSumSet(LAMBDA x : Cardinality(f[x]), DOMAIN f)

-----------------------------------------------------------------------------
\* Merging.

LocalRules == {"EXTENSION_COMPONENT", "ANONYMOUS_CLASS_EXPRESSION", "ANONYMOUS_AXIOM_POSITION",
               "DATA_RANGE_ARITY", "TOP_DATA_PROPERTY_POSITION"}

\* Mutant: a missing declaration is taken over from the slice.
RecomputedExceptDeclarations(rule) == rule \notin LocalRules \cup {"MISSING_DECLARATION"}

IsRecomputedProfileRule(rule) == rule \notin LocalRules

\* Mutant: the first of the merged phases is not claimed again.
ClaimAllButFirst(ps) == FoldLeft(LAMBDA n, p : n + p.owned, 0, SubSeq(ps, 2, Len(ps)))

\* The merge claims what its sources own again, beside its own copy of the facts.
ClaimSources(ps) == FoldLeft(LAMBDA n, p : n + p.owned, 0, ps)

Kept(f) == [f EXCEPT !.issues = {i \in @ : ~IsRecomputedProfileRule(i.rule)}]

MergedFacts(ps) == FoldLeft(Join, NoFacts, [i \in DOMAIN ps |-> Kept(ps[i].facts)])

MergedAllocation(ps) == FoldLeft(LAMBDA n, p : n + Size(Kept(p.facts)), 0, ps)

\* The issues are counted before equal ones are dropped.
MergedIssueCount(ps) == FoldLeft(LAMBDA n, p : n + Cardinality(Kept(p.facts).issues), 0, ps)

ProfileIssuesConform(issues) == \A i \in issues : i.severity # "error"

ValidatePhase(f) ==
  /\ \A i \in f.issues : i.severity \in {"error", "warning"}
  /\ \A x \in f.complex : Len(x.chain) >= 2
  /\ \A x, y \in f.complex : SameProfileComplexRoleSemantics(x, y) => x = y

-----------------------------------------------------------------------------
\* Contexts.

DecodeOntologyIdentities(rows) ==
  /\ \A i \in DOMAIN rows : rows[i].iri = 0 => rows[i].version = 0
  /\ \A i \in 2..Len(rows) : rows[i - 1].document < rows[i].document

DecodeOrigins(rows) == \A digest \in DOMAIN rows : rows[digest] # {}

IdentityIssues(identity, withDocuments) ==
  LET issue(rule, iri) ==
        IF iri = 0 \/ ~ReservedIri(iri) THEN {}
        ELSE {[Issue(rule, "error", "OntologyID", iri, 0) EXCEPT
                 !.documents = IF withDocuments THEN {identity.document} ELSE {}]}
  IN  issue("RESERVED_ONTOLOGY_IRI", identity.iri) \cup issue("RESERVED_VERSION_IRI", identity.version)

\* The digest a core document gives a root; its own prefix keeps the domains apart.
StructuralDigest(key) == 1000 + key

\* The position of a provenance in the rows, by one domain only.
OriginDigest(rows, provenance) ==
  LET structural == StructuralDigest(provenance)
  IN  CASE provenance \in DOMAIN rows /\ structural \notin DOMAIN rows -> provenance
        [] provenance \notin DOMAIN rows /\ structural \in DOMAIN rows -> structural
        [] OTHER -> 0

Provenances(issues) == {i.provenance : i \in issues} \ {0}

OriginsResolve(rows, issues) ==
  LET digests == {OriginDigest(rows, p) : p \in Provenances(issues)}
  IN  0 \notin digests /\ (digests \subseteq 1..999 \/ digests \cap 1..999 = {})

WithOrigins(rows, issues) ==
  {IF i.provenance = 0 THEN i ELSE [i EXCEPT !.documents = rows[OriginDigest(rows, i.provenance)]]
     : i \in issues}

-----------------------------------------------------------------------------
\* The cursors stay within the slice they walk.
TypeOK ==
  /\ stage \in {"contexts", "preflight", "root", "graph", "entity", "datatype", "regularity", "simple", "freeze",
                "identity", "origin", "gate", "done"}
  /\ merging \in BOOLEAN
  /\ token \in {"clear", "set"}
  /\ outcome \in {"", "conforms", "violation", "cancelled", "resource", "protocol", "invariant"}
  /\ DOMAIN facts = DOMAIN NoFacts
  /\ slice \in DOMAIN ontology.slices
  /\ root \in 1..(Len(ontology.slices[slice].roots) + 1)
  /\ cursor \in 1..(Len(ontology.slices[slice].postings) + 1)
  /\ owned \in Nat /\ raised >= Cardinality(facts.issues)

Init ==
  /\ ontology \in Ontologies
  /\ stage = "contexts"
  /\ merging = FALSE
  /\ slice = 1
  /\ root = 1
  /\ cursor = 1
  /\ facts = NoFacts
  /\ raised = 0
  /\ owned = 0
  /\ phases = <<>>
  /\ token = "clear"
  /\ outcome = ""

Current == ontology.slices[slice]

\* What the phases before this one leave of the shared ownership limit; a merged
\* phase claims theirs again, so it starts from the whole limit.
OwnedLimit == IF merging THEN ontology.owned ELSE ontology.owned - ClaimSources(phases)

End(result) ==
  /\ stage' = "done"
  /\ outcome' = result
  /\ UNCHANGED <<merging, slice, root, cursor, facts, raised, owned, phases>>

\* A step of the stage begins with a poll that finds the token clear.
Polled(here) == stage = here /\ token = "clear"

\* The step moves on and leaves what has been retained alone.
Proceed(following) ==
  /\ stage' = following
  /\ UNCHANGED <<merging, slice, root, cursor, facts, raised, owned, phases, outcome>>

\* The step retains `more', whose issues were raised `count' times, within the
\* limits and goes on at that root and posting.
Retain(more, count, following, nextRoot, nextCursor) ==
  LET claim == Size([more EXCEPT !.issues = {}]) + count
  IN  IF owned + claim > OwnedLimit \/ raised + count > ontology.issues THEN End("resource")
      ELSE /\ facts' = Join(facts, more)
           /\ raised' = raised + count
           /\ owned' = owned + claim
           /\ stage' = following
           /\ root' = nextRoot
           /\ cursor' = nextCursor
           /\ UNCHANGED <<merging, slice, phases, outcome>>

CancelRequest ==
  /\ stage # "done"
  /\ token = "clear"
  /\ token' = "set"
  /\ UNCHANGED <<ontology, stage, merging, slice, root, cursor, facts, raised, owned, phases, outcome>>

\* The poll of the next step, whichever it is, finds the token set.
Cancelled ==
  /\ stage \notin {"gate", "done"}
  /\ token = "set"
  /\ End("cancelled")
  /\ UNCHANGED <<ontology, token>>

DecodeContexts ==
  /\ Polled("contexts")
  /\ IF DecodeOntologyIdentities(ontology.identities) /\ DecodeOrigins(ontology.rows)
     THEN Proceed("preflight") ELSE End("protocol")
  /\ UNCHANGED <<ontology, token>>

Preflight ==
  /\ Polled("preflight")
  /\ IF SelectionValid(Current) THEN Proceed("root") ELSE End("protocol")
  /\ UNCHANGED <<ontology, token>>

CompileRoot ==
  /\ Polled("root")
  /\ IF root > Len(Current.roots) THEN Proceed("graph")
     ELSE LET hit == Excludes(Current, cursor, root)
              r   == Current.roots[root]
          IN  IF hit.skip THEN Retain(NoFacts, 0, "root", root + 1, hit.cursor)
              ELSE Retain(RootFacts(r), RaisedIn(r), "root", root + 1, hit.cursor)
  /\ UNCHANGED <<ontology, token>>

\* One of the passes: what it raises is added to the issues of the phase.
Pass(here, found, following) ==
  /\ Polled(here)
  /\ IF UnsourcedCycle \in found THEN End("invariant")
     ELSE Retain([NoFacts EXCEPT !.issues = IssuesOf(found)], Cardinality(found), following, root, cursor)
  /\ UNCHANGED <<ontology, token>>

Canonical == [facts EXCEPT !.complex = CanonicalizeComplexRoleInclusions(@)]

GraphPass == Pass("graph", AppendAnonymousGraphIssues(facts), "entity")

EntityPass == Pass("entity", AppendEntityIssues(facts), "datatype")

DatatypePass == Pass("datatype", AppendDatatypeIssues(facts, ontology.policy), "regularity")

RegularityPass == Pass("regularity", AppendRoleRegularityIssues(Canonical), "simple")

SimplePass == Pass("simple", AppendNonSimpleRoleIssues(facts), "freeze")

\* A finished slice is kept; after the last one the phases are merged.
FreezeSlice ==
  LET finished == Append(phases, [facts |-> Canonical, owned |-> owned])
      last     == slice = Len(ontology.slices)
      claimed  == ClaimSources(finished) + MergedAllocation(finished)
  IN  /\ Polled("freeze")
      /\ ~merging
      /\ IF ~ValidatePhase(Canonical) THEN End("invariant")
         ELSE IF last /\ (claimed > ontology.owned \/ MergedIssueCount(finished) > ontology.issues)
              THEN End("resource")
         ELSE /\ phases' = finished
              /\ merging' = last
              /\ slice' = IF last THEN slice ELSE slice + 1
              /\ stage' = IF last THEN "graph" ELSE "preflight"
              /\ facts' = IF last THEN MergedFacts(finished) ELSE NoFacts
              /\ raised' = IF last THEN MergedIssueCount(finished) ELSE 0
              /\ owned' = IF last THEN claimed ELSE 0
              /\ root' = 1
              /\ cursor' = 1
              /\ UNCHANGED outcome
      /\ UNCHANGED <<ontology, token>>

FreezeMerged ==
  /\ Polled("freeze")
  /\ merging
  /\ IF ~ValidatePhase(Canonical) THEN End("invariant")
     ELSE /\ facts' = Canonical
          /\ raised' = Cardinality(facts.issues)
          /\ stage' = "identity"
          /\ UNCHANGED <<merging, slice, root, cursor, owned, phases, outcome>>
  /\ UNCHANGED <<ontology, token>>

IdentityContext ==
  Pass("identity",
       UNION {{At(issue, i) : issue \in IdentityIssues(ontology.identities[i], ontology.domain # "none")}
                : i \in DOMAIN ontology.identities},
       "origin")

OriginContext ==
  /\ Polled("origin")
  /\ IF ontology.domain = "none" THEN Proceed("gate")
     ELSE IF owned + Cardinality(DOMAIN ontology.rows) > OwnedLimit THEN End("resource")
     ELSE IF ~OriginsResolve(ontology.rows, facts.issues) THEN End("protocol")
     ELSE /\ facts' = [facts EXCEPT !.issues = WithOrigins(ontology.rows, @)]
          /\ owned' = owned + Cardinality(DOMAIN ontology.rows)
          /\ stage' = "gate"
          /\ UNCHANGED <<merging, slice, root, cursor, raised, phases, outcome>>
  /\ UNCHANGED <<ontology, token>>

\* The construction of the session goes on, or is refused with the rules that
\* are violated; this step does not poll.
EnsureEncodedProfileConforms ==
  /\ stage = "gate"
  /\ End(IF ProfileIssuesConform(facts.issues) THEN "conforms" ELSE "violation")
  /\ UNCHANGED <<ontology, token>>

Finished == stage = "done" /\ UNCHANGED vars

Next ==
  \/ CancelRequest
  \/ Cancelled
  \/ DecodeContexts
  \/ Preflight
  \/ CompileRoot
  \/ GraphPass
  \/ EntityPass
  \/ DatatypePass
  \/ RegularityPass
  \/ SimplePass
  \/ FreezeSlice
  \/ FreezeMerged
  \/ IdentityContext
  \/ OriginContext
  \/ EnsureEncodedProfileConforms
  \/ Finished

Spec == Init /\ [][Next]_vars

-----------------------------------------------------------------------------
\* What the slices select, whatever way they select it.
Selected(s) ==
  {s.roots[i] : i \in {j \in DOMAIN s.roots :
     CASE s.mode = "all"     -> TRUE
       [] s.mode = "include" -> j \in Keys(s.postings)
       [] s.mode = "exclude" -> j \notin Keys(s.postings)}}

Roots == UNION {Selected(ontology.slices[i]) : i \in DOMAIN ontology.slices}

LegalIdentities ==
  \A i \in DOMAIN ontology.identities :
    ~ReservedIri(ontology.identities[i].iri) /\ ~ReservedIri(ontology.identities[i].version)

\* A session is constructed exactly for an ontology within OWL 2 DL, stated over
\* the axioms (ensure_encoded_profile_conforms); a pattern that does not compile
\* ends the diagnosis of the data ranges, so there only refusals are exact.
ConformsExactly ==
  /\ outcome = "violation" => ~(Legal(Roots, ontology.policy) /\ LegalIdentities)
  /\ outcome = "conforms" /\ ~HasMalformedPattern(Roots) =>
       Legal(Roots, ontology.policy) /\ LegalIdentities

\* The issues of the merged phases are those of one slice with all the axioms
\* (merge_profile_phases), although every rule over several axioms was also
\* applied to each slice alone.
ProfileSlicesIrrelevant ==
  stage = "identity" =>
    LET all    == FoldSet(LAMBDA r, f : Join(RootFacts(r), f), NoFacts, Roots)
        single == [all EXCEPT !.complex = CanonicalizeComplexRoleInclusions(@)]
        raises == AppendAnonymousGraphIssues(single) \cup AppendEntityIssues(single)
                    \cup AppendDatatypeIssues(single, ontology.policy)
                    \cup AppendRoleRegularityIssues(single) \cup AppendNonSimpleRoleIssues(single)
    IN  facts.issues = single.issues \cup IssuesOf(raises)

Violating(rule) == {i \in facts.issues : i.rule = rule}

RegularityRules == {"RIA_NON_REGULAR_RECURSION", "RIA_INVERSE_RECURSION", "RIA_DEPENDENCY_CYCLE"}

\* The profile phase and the role compiler, which decide regularity and simplicity
\* on graphs of their own, never disagree: the same rule is violated by the same
\* statements (append_role_regularity_issues and compile_role_semantics).
RolesAgree ==
  stage = "identity" =>
    LET axioms    == {r \in Roots : r.kind \in {"subObject", "equivalentObject", "inverseObject",
                                                "disjointObject"} \cup Characteristics}
        used      == {n \in Tagged(AllNodes(Roots), {"entity"}) : n.sort = "objectProperty"}
        roles     == CompileObjectRoles({n.key : n \in used})
        simple    == CompileSimpleRoles(roles, axioms)
        hierarchy == BuildHierarchy(roles, simple)
        semantics == CompileRoleSemantics(roles, simple, CompileComplexRoles(roles, axioms), hierarchy)
        component(key) == hierarchy.byRole[IdOf(roles.values, key)]
        statement(i)   == (CHOOSE r \in Roots : r.source = i.provenance).statement
    IN  /\ {<<i.rule, statement(i)>> : i \in UNION {Violating(rule) : rule \in RegularityRules}}
             = {<<v.code, v.provenance>> : v \in semantics.violations}
        /\ {i.provenance : i \in Violating("NON_SIMPLE_PROPERTY")}
             = {r.source : r \in {a \in AxiomRoots(Roots) :
                  \E k \in SimpleUses(a) : component(k) \in semantics.nonSimple}}

\* The union-find reports as many assertions as have to go to leave a forest, and
\* the parallel ones among them (append_anonymous_graph_issues).
GraphIssuesExact ==
  stage = "identity" =>
    LET edges      == EdgeRoots(Roots)
        components == Cardinality(ComponentsOf(Roots))
        joined     == {Touched(r) : r \in edges}
    IN  /\ Cardinality(Violating("ANONYMOUS_GRAPH_CYCLE"))
             = Cardinality(edges) + components - Cardinality(AnonymousVertices(Roots))
        /\ Cardinality(Violating("ANONYMOUS_PARALLEL_EDGE"))
             = Cardinality({p \in joined : Cardinality({r \in edges : Touched(r) = p}) > 1})
        /\ Cardinality(Violating("ANONYMOUS_TREE_ROOT"))
             = Cardinality({C \in ComponentsOf(Roots) : \A v \in C : NamedLinkCount(Roots, v) > 1})

\* The documents whose slices select the root.
DocumentsOf(provenance) ==
  {i \in DOMAIN ontology.slices : \E r \in Selected(ontology.slices[i]) : r.source = provenance}

RowsComplete ==
  \/ \A r \in Roots : r.source \in DOMAIN ontology.rows /\ StructuralDigest(r.source) \notin DOMAIN ontology.rows
  \/ \A r \in Roots : r.source \notin DOMAIN ontology.rows /\ StructuralDigest(r.source) \in DOMAIN ontology.rows

\* With an origin context, an issue about an axiom names exactly the documents
\* that contain it, and complete rows of one digest domain are never refused
\* (apply_profile_origin_context).
OriginsExact ==
  /\ outcome \in {"conforms", "violation"} /\ ontology.domain # "none" =>
       \A i \in facts.issues : i.provenance # 0 => i.documents = DocumentsOf(i.provenance)
  /\ outcome = "protocol" =>
       \/ \E i \in DOMAIN ontology.slices : ~SelectionValid(ontology.slices[i])
       \/ ontology.domain # "none" /\ ~RowsComplete
       \/ \E digest \in DOMAIN ontology.rows : ontology.rows[digest] = {}
       \/ \E i \in DOMAIN ontology.identities :
            ontology.identities[i].iri = 0 /\ ontology.identities[i].version # 0
       \/ \E i, j \in DOMAIN ontology.identities :
            i < j /\ ontology.identities[i].document >= ontology.identities[j].document

\* Every issue is reported for the right reason: regularity and simplicity as the
\* role compiler decides them, cycles and parallel assertions as often as they
\* occur, and each with the documents that contain its axiom.
IssuesExact == RolesAgree /\ GraphIssuesExact /\ OriginsExact

\* What the phases retain together stays within the one limit of the call, and no
\* phase reports more issues than allowed (ProfileLimits; the slices share them).
OwnedWithinLimits ==
  /\ MapThenSumSet(LAMBDA i : phases[i].owned, DOMAIN phases) <= ontology.owned
  /\ (IF merging THEN 0 ELSE MapThenSumSet(LAMBDA i : phases[i].owned, DOMAIN phases)) + owned
       <= ontology.owned
  /\ Cardinality(facts.issues) <= ontology.issues

\* No phase the compiler built is refused by the validation before the merge and
\* at publication (validate_phase).
PhasesValid == outcome # "invariant"

\* The compilation stays within the limits of the call and never breaks on a
\* phase of its own making.
WithinLimits == TypeOK /\ OwnedWithinLimits /\ PhasesValid
=============================================================================
