\* MCLoopRun_resume
CONSTANTS
  nStart = nStart
  nAgent = nAgent
  nCond = nCond
  nEnd = nEnd
  nCheck = nCheck
  NoNode = NoNode
  Node = {nStart, nAgent, nEnd}
  StartNode = nStart
  Kind <- LineKind
  Edges <- LineEdges
  MaxRows = 4
  MaxDeliveries = 5
  MaxSteps = 6
  MaxIterations = 3
  WatchdogEnabled = FALSE
  WatchdogBudget = 1
  MaxControls = 2
  MaxFaults = 0
  MaxSweeps = 0
  MaxChanges = 0
SPECIFICATION Spec
CHECK_DEADLOCK FALSE
INVARIANTS
  ResumeContinues
