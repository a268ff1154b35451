SPECIFICATION Spec

CONSTANTS
    t1 = t1
    t2 = t2
    t3 = t3
    Threads = {t1, t2, t3}
    Axioms = {"a", "b", "note"}
    Inert = {"note"}
    Loaded = {"a"}
    InferenceTypes = {"classes", "types"}
    Backends <- AllBackends
    Workloads <- AllWorkloads
    MaxSessions = 5

SYMMETRY Callers

INVARIANTS
    SessionsSound
    InterruptsExact
    UpdatesExact

PROPERTIES
    CallsReturn
