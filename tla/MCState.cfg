CONSTANTS
    Predicates = {p}
    Existentials = {x}
    Workloads <- TrailWorkloads
    MaxSlots = 3
    MaxAlternatives = 2
    Layers = {"trail", "merging"}
    MergingInstances <- MergeWorkloads
SPECIFICATION StateSpec

INVARIANTS
    RollbackExact
    InvariantsHold
    DependenciesExact
    ConclusionsKept
    WitnessesKept

PROPERTIES
    HandlesFresh
    ImplementsSnapshots
