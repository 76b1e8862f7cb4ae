SPECIFICATION TSpec
CONSTANTS
  Conns <- ThreeConns
  Positions <- Heights
  Ground <- Floor
  Propped <- Above
  Origin = 0
  Unseen = Unseen
  MaxPackets = 2
INVARIANTS TTypeOK MutualVisibility WorldAfterLogin PositionsApplied DigsPassedOn

