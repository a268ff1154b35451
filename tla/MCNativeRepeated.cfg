CONSTANTS
    Atoms <- MCAtoms
    Opposite <- MCOpposite
    Clauses <- MCClauses
    Searches = {"native"}
    NativePrograms <- RepeatedPrograms
SPECIFICATION SearchSpec

INVARIANT
    NeverFails
