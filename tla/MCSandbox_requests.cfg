\* MCSandbox_requests
CONSTANTS
  Proc = {1, 2, 3, 4}
  Scenes <- Requests
  MaxLives = 3
  MaxFaults = 0
SPECIFICATION Spec
INVARIANTS
  LeaseHasHolder
  Attended
