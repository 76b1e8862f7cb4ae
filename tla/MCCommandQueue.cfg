SPECIFICATION FairSpec
CONSTANTS
  p1 = p1
  p2 = p2
  world = world
  c1 = c1
  c2 = c2
  c3 = c3
  c4 = c4
  NoValue = NoValue
  Threads <- ThreadSet
  Values <- ValueSet
  World = world
  Program <- Commands
  Capacity = 2
  MaxPush = 100
INVARIANT ExecutedOnce
PROPERTIES LeftBehindHalfPush EmptyHidesNothing EveryCommandRuns
