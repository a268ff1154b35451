SPECIFICATION Spec
CONSTANT Sessions <- DisjointSessions
INVARIANT
  RealizationExact
