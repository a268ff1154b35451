CONSTANTS
    Predicates = {p}
    Existentials = {x}
    Workloads <- TrailWorkloads
    MaxSlots = 3
    MaxAlternatives = 2
    Layers = {"merging"}
    MergingInstances <- EdgeWorkloads
SPECIFICATION StateSpec

INVARIANT
    ObligationsMet
