SPECIFICATION Spec
CONSTANTS
  Matrices <- MCMatrices
  max_iterations = 6
  restart_check_period = 2
  TopResidual = 4
  Tolerance = 1
  TimeLimited = TRUE
INVARIANT OptimumIsFinite
