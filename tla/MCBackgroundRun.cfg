\* MCBackgroundRun
CONSTANTS
  one = one
  tick = tick
  Process = {one, tick}
  Casts <- Scenarios
  MaxDeliveries = 2
  MaxFaults = 1
  TokenTurns = 3
  GraceTurns = 1
  FinalizeTurns = 2
SPECIFICATION FairSpec
INVARIANTS
  TypeOK
  OneEnding
  SandboxReleased
  FinalizeTurnsGranted
PROPERTIES
  RunEnds
  
