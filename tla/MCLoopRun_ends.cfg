\* MCLoopRun_ends
CONSTANTS
  nStart = nStart
  nAgent = nAgent
  nCond = nCond
  nEnd = nEnd
  nCheck = nCheck
  NoNode = NoNode
  Node = {nStart, nAgent, nCond, nEnd}
  StartNode = nStart
  Kind <- CycleKind
  Edges <- CycleEdges
  MaxRows = 5
  MaxDeliveries = 6
  MaxSteps = 3
  MaxIterations = 2
  WatchdogEnabled = FALSE
  WatchdogBudget = 1
  MaxControls = 0
  MaxFaults = 1
  MaxSweeps = 0
  MaxChanges = 0
SPECIFICATION FairSpec
CHECK_DEADLOCK FALSE
PROPERTIES
  RunEnds
