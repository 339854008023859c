SPECIFICATION Spec
CONSTANTS
  NumRows = 2
  NumCols = 2
  kInfinity = 1000
  MaxRounds = 3
  Scale = 2
  Problems <- MCProblems
  Grid <- MCGrid
  DualGrid <- MCDualGrid
INVARIANT DualSignsAreRestored
