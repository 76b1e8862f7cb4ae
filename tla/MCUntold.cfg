SPECIFICATION TSpec
CONSTANTS
  Conns <- TwoConns
  Positions <- Line
  Ground <- Line
  Propped <- Line
  Origin = 0
  Unseen = Unseen
  MaxPackets = 1
INVARIANT OthersShown

