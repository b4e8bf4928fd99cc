\* MCSandbox_turns
CONSTANTS
  Proc = {1, 2, 3}
  Scenes <- Turns
  MaxLives = 2
  MaxFaults = 1
SPECIFICATION Spec
INVARIANTS
  TypeOK
  SparesOlderStreams
  SparesFreshActivity
