\* MCSandbox_archive
CONSTANTS
  Proc = {1, 2, 3}
  Scenes <- Archiving
  MaxLives = 2
  MaxFaults = 1
SPECIFICATION Spec
INVARIANTS
  HandleKept
