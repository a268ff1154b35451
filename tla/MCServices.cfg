SPECIFICATION Spec
CONSTANT
  Sessions <- MCSessions

INVARIANTS
    TaxonomyExact
    RealizationExact

PROPERTIES
    CommitsAreFinal
    CallsProgress
