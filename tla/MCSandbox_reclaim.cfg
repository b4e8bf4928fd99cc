\* MCSandbox_reclaim
CONSTANTS
  Proc = {1, 2, 3, 4}
  Scenes <- Polled
  MaxLives = 1
  MaxFaults = 1
SPECIFICATION FairSpec
PROPERTIES
  Reclaimed
