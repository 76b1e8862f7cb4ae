SPECIFICATION CooperativeSpec
CONSTANTS
  c1 = c1
  c2 = c2
  Conns <- First
  Intents <- Visits
  Enforce = FALSE
  Compress = TRUE
  Eager <- Nobody
  Registries = 2
  SpawnChunks = 2
  MaxMoves = 2
  InCap = 2
  SockCap = 2
  OutCap = 9
INVARIANT ServerReadsFormat
PROPERTIES NothingLost ClosedForgotten Served
