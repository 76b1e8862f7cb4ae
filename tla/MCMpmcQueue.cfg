SPECIFICATION Spec
CONSTANTS
  a = a
  b = b
  c = c
  x = x
  y = y
  NoValue = NoValue
  Threads <- ThreadSet
  Values <- ValueSet
  Capacity = 2
  MaxPush = 4
SYMMETRY Symmetry
INVARIANTS TypeOK SlotExclusive CellReady Accounted
PROPERTY ImplementsFifo
