SPECIFICATION CooperativeSpec
CONSTANTS
  c1 = c1
  c2 = c2
  Conns <- First
  Intents <- Direct
  Enforce = FALSE
  Compress = FALSE
  Eager <- Nobody
  Registries = 1
  SpawnChunks = 0
  MaxMoves = 0
  InCap = 2
  SockCap = 1
  OutCap = 3
PROPERTY EveryCloseHandled
