SPECIFICATION FairSolve
CONSTANTS
  AlwaysBland = FALSE
  BlandAfter = 1
  RefactorFrequency = 2
  StallLimit = 2
  MaxIterations = 0
  TimeLimited = TRUE
  max_iterations = 4
  Tolerance = 1
  Matrices <- MCMatrices
  restart_check_period = 2
  TopResidual = 4
  MaxAttempts = 3
  TopMerit = 2
INVARIANTS
  UnboundedIsSound
  PhaseOneEndsAtLeast
  OptimumIsVerified
  WindowIsExact
  RestartsGain
  OptimumWasOffered
  PointUnlessBroken
  BestIsReported
PROPERTIES
  ImplementsEngine
  SolveEnds
