SPECIFICATION Spec
CONSTANTS
  NumRows = 2
  NumCols = 2
  kInfinity = 1000
  Problems <- MCProblems
  Grid <- MCGrid
  Multipliers <- MCMultipliers
INVARIANTS
  CertificateIsSound
  InfeasibleHasCertificate
  GenuinePairsPass
  MinimumIsBounded
CHECK_DEADLOCK FALSE
