CONSTANTS
    Atoms <- MCAtoms
    Opposite <- MCOpposite
    Clauses <- MCClauses
    Searches = {"native"}
    NativePrograms <- MisroutedPrograms
SPECIFICATION SearchSpec

INVARIANT
    UnsatIsRefuted
