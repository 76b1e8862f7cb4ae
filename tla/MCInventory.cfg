SPECIFICATION ISpec
CONSTANTS
  Materials <- Mats
  MaxStack = 2
  Limit <- Limits
  H = 1
  B = 2
  Initial <- Start
  Creative = TRUE
  Watched = 3
  MaxGiven = 5
  MaxOps = 5
INVARIANTS NoneFromNothing ItemsConserved ViewTrue
CHECK_DEADLOCK FALSE
