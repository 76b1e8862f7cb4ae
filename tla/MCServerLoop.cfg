SPECIFICATION FairLoop
CONSTANTS
  caller1 = caller1
  caller2 = caller2
  cmd1 = cmd1
  cmd2 = cmd2
  WorldIds = {0, 1, 2}
  Callers = {caller1, caller2}
  N = 2
  Mode = "SharedPool"
  Cmds = {cmd1, cmd2}
  Capacity = 2
  Free = Free
  NoWorld = NoWorld
  Delays = {1}
  Periods = {1}
  MaxOps = 4
  MaxTicks = 2
INVARIANTS STypeOK OneInside CommandsNextTick RunsWhenDue TasksInOrder
PROPERTIES ImplementsRounds TurnEnds
