SPECIFICATION WSpec
CONSTANTS
  w1 = w1
  w2 = w2
  a1 = a1
  aligned = aligned
  sparse = sparse
  v1 = v1
  Default = Default
  WorldSet <- TwoWorlds
  Archetypes <- Archetype
  Components <- Both
  Sparse <- OnlySparse
  Values <- ValueSet
  GenLimit = 8
  MaxGen = 1
  MaxSlots = 2
SYMMETRY Symmetry
INVARIANTS WTypeOK IndexConsistent
PROPERTY ImplementsStore
CHECK_DEADLOCK FALSE
