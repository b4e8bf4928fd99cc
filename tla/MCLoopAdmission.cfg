\* MCLoopAdmission
CONSTANTS
  Dispatcher = {d1, d2, d3}
  Key = {k1, k2}
  MaxRuns = 3
  MaxMoves = 3
SPECIFICATION Spec
SYMMETRY Symmetry
CHECK_DEADLOCK FALSE
INVARIANTS
  TypeOK
  AdmitsOneAtATime
  OneRunPerKey
  StartedOnce
  NoFalseSuccess
