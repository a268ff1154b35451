CONSTANTS
    Atoms <- MCAtoms
    Opposite <- MCOpposite
    Clauses <- MCClauses
    Searches = {"native"}
    NativePrograms <- StalePrograms
SPECIFICATION SearchSpec

INVARIANT
    SatIsModel
