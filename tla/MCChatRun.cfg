SPECIFICATION FairSpec
CONSTANTS
  one = one
  two = two
  MaxRuns = 2
  Request = {one, two}
  Casts <- Traffic
  MaxAttempts = 2
  MaxFaults = 1
INVARIANTS
  TypeOK
  OneRunPerChat
  WorkIsVisible
  StaleIsStale
PROPERTIES
  StopIsHonest
  Freed
