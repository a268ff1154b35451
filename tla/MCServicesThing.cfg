SPECIFICATION Spec
CONSTANT Sessions <- UniversalSessions
INVARIANT
  TaxonomyExact
