\* MCLoopRun_watchdog
CONSTANTS
  nStart = nStart
  nAgent = nAgent
  nCond = nCond
  nEnd = nEnd
  nCheck = nCheck
  NoNode = NoNode
  Node = {nStart, nAgent, nEnd}
  StartNode = nStart
  Kind <- LineKind
  Edges <- LineEdges
  MaxRows = 4
  MaxDeliveries = 3
  MaxSteps = 6
  MaxIterations = 3
  WatchdogEnabled = TRUE
  WatchdogBudget = 1
  MaxControls = 0
  MaxFaults = 1
  MaxSweeps = 1
  MaxChanges = 1
SPECIFICATION Spec
CHECK_DEADLOCK FALSE
INVARIANTS
  SkipHasNowhereToGo
  NoPhantomRetry
PROPERTIES
  DeletedIsHistory
  VerdictStands
