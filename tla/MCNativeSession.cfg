SPECIFICATION SessionSpec

CONSTANTS
    t1 = t1
    t2 = t2
    nobody = nobody
    q1 = q1
    permanent = permanent
    Threads = {t1, t2}
    Queries = {q1}
    Permanent = permanent
    Nobody = nobody
    EventCapacity = 3
    MaxBatchQueries = 2
    MaxCalls = 2
    MaxSignals = 1
    Faults = {"wire", "resource", "invariant", "panic", "finish"}

CHECK_DEADLOCK FALSE

INVARIANTS
    Isolation
    TruthfulAnswers
    EventStream

PROPERTIES
    RefinesSerialSession
    EveryCallReturns
