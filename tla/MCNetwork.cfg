SPECIFICATION NSpec
CONSTANTS
  c1 = c1
  c2 = c2
  Conns <- ConnSet
  Intents <- Mixed
  Enforce = TRUE
  Compress = TRUE
  Eager <- ConnSet
  Registries = 1
  SpawnChunks = 1
  MaxMoves = 1
  InCap = 1
  SockCap = 1
  OutCap = 3
INVARIANTS NTypeOK PlayersOwned NoGhost EventsPaired GameBehindListener ClientReadsFormat
