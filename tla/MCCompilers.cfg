SPECIFICATION CompilersSpec
CONSTANTS
    Ontologies <- MCOntologies
CHECK_DEADLOCK FALSE

INVARIANTS
    ModelsKept
    NonModelsExcluded
    ClassSlicesIrrelevant
    ProgramClosed
    RoleSlicesIrrelevant
    HierarchyExact
    AutomataExact
    ClausesExact
    PublicationSound
    ConformsExactly
    ProfileSlicesIrrelevant
    IssuesExact
    WithinLimits
