\* MCLoopRun_faults
CONSTANTS
  nStart = nStart
  nAgent = nAgent
  nCond = nCond
  nEnd = nEnd
  nCheck = nCheck
  NoNode = NoNode
  Node = {nStart, nAgent, nCheck, nEnd}
  StartNode = nStart
  Kind <- CheckKind
  Edges <- CheckEdges
  MaxRows = 5
  MaxDeliveries = 6
  MaxSteps = 3
  MaxIterations = 3
  WatchdogEnabled = FALSE
  WatchdogBudget = 1
  MaxControls = 0
  MaxFaults = 2
  MaxSweeps = 0
  MaxChanges = 0
SPECIFICATION Spec
CHECK_DEADLOCK FALSE
INVARIANTS
  TypeOK
  CountersExact
  WithinGuardrails
  ExecutesOnce
  OneAgentAtWork
