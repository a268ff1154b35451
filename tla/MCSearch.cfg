CONSTANTS
    Atoms <- MCAtoms
    Opposite <- MCOpposite
    Clauses <- MCClauses
    Searches = {"python", "native"}
    NativePrograms <- AllPrograms
SPECIFICATION SearchSpec

INVARIANTS
    VerdictCorrect
    SatIsModel
    UnsatIsRefuted
    
    NativeDependenciesExplain

PROPERTIES
    PythonTerminates
    NativeTerminates
