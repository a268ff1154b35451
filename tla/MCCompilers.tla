----------------------------- MODULE MCCompilers -----------------------------
(***************************************************************************)
(* The compilers of the encoded slices on the ontologies of MCProfile,     *)
(* MCRoleCompiler and MCClassCompiler: the profile phase, the role phases  *)
(* and the class phase with the clauses.  One of them runs; the others     *)
(* rest before their first step.                                           *)
(***************************************************************************)
EXTENDS MCProfile

VARIABLES
    compiler,    \* the compiler that runs: "profile", "role" or "class"
    roleProgram, roleStage, roleSlice, roleSource, roleMerged, roleOwned, roleToken, roleOutcome,
    classProgram, classSlices, classPhases, classResult, judged

role == <<roleProgram, roleStage, roleSlice, roleSource, roleMerged, roleOwned, roleToken, roleOutcome>>
class == <<classProgram, classSlices, classPhases, classResult, judged>>

RoleInstance == INSTANCE MCRoleCompiler

RoleInterpretations(axioms) == RoleInstance!MCInterpretations(axioms)

ClassInstance == INSTANCE MCClassCompiler

ClassInterpretations(p) == ClassInstance!MCInterpretations(p)

RoleCompilation == INSTANCE RoleCompiler WITH
    Programs <- RoleInstance!MCPrograms, Interpretations <- RoleInterpretations, WordLength <- 3,
    program <- roleProgram, stage <- roleStage, slice <- roleSlice, source <- roleSource,
    merged <- roleMerged, owned <- roleOwned, token <- roleToken, outcome <- roleOutcome

ClassCompilation == INSTANCE ClassCompiler WITH
    Programs <- ClassInstance!MCPrograms, Interpretations <- ClassInterpretations,
    program <- classProgram, slices <- classSlices, phases <- classPhases, result <- classResult

-----------------------------------------------------------------------------
RoleRests == roleProgram = RoleInstance!EvenChain(10) /\ RoleCompilation!Init

ClassRests == classProgram = ClassInstance!Reflexive /\ ClassCompilation!Init

ProfileRests == ontology = Ontology(Declared({}), "error") /\ Init

CompilersInit ==
    \/ compiler = "profile" /\ RoleRests /\ ClassRests /\ Init
    \/ compiler = "role" /\ ProfileRests /\ ClassRests /\ RoleCompilation!Init
    \/ compiler = "class" /\ ProfileRests /\ RoleRests /\ ClassCompilation!Init

CompilersNext ==
    \/ compiler = "profile" /\ Next /\ UNCHANGED <<compiler, role, class>>
    \/ compiler = "role" /\ RoleCompilation!Next /\ UNCHANGED <<compiler, vars, class>>
    \/ compiler = "class" /\ ClassCompilation!Next /\ UNCHANGED <<compiler, vars, role>>

CompilersSpec == CompilersInit /\ [][CompilersNext]_<<compiler, vars, role, class>>

-----------------------------------------------------------------------------
\* The role phases merged from slices are those of one slice, identifier by
\* identifier (the merge functions of every role phase).
RoleSlicesIrrelevant == compiler = "role" => RoleCompilation!SlicesIrrelevant

\* What the role hierarchy says is what the axioms say: inclusion, equivalence
\* and inverses, simplicity, and regularity with a shortest witness against it.
HierarchyExact == compiler = "role" => RoleCompilation!HierarchyExact

\* The automata of a regular ontology read exactly the words the axioms derive
\* for a role, as compiled and as the runtime loads them.
AutomataExact == compiler = "role" => RoleCompilation!AutomataExact

\* The role clauses have the models of the role axioms, and every axiom can be
\* found again in the clauses it gave rise to.
ClausesExact == compiler = "role" => RoleCompilation!ClausesExact

\* A role compilation publishes only within the limit and before the
\* cancellation, and ends in an internal error for no ontology whose chains have
\* fewer than ten roles.
PublicationSound == compiler = "role" => RoleCompilation!PublicationSound

\* A model of the compiled axioms is a model of the program, with the generated
\* names read as their terms: no clause says too much.
ModelsKept == compiler = "class" => ClassCompilation!ModelsKept

\* What violates a compiled axiom violates the program however the generated
\* names are read: no clause says too little.
NonModelsExcluded == compiler = "class" => ClassCompilation!NonModelsExcluded

\* Compiling slice by slice and merging gives the class rows, the clauses, the
\* facts and the deferrals of compiling the ontology at once.
ClassSlicesIrrelevant == compiler = "class" => ClassCompilation!SlicesIrrelevant

\* The frozen program is whole: it compiles, every symbol and every complement
\* it refers to is there, and a deferred root left nothing in it.
ProgramClosed == compiler = "class" => ClassCompilation!ProgramClosed
=============================================================================
