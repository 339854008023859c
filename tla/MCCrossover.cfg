SPECIFICATION FairSpec
CONSTANTS
  MaxCheckpoints = 3
  Window = 2
  SpiralJump = TRUE
  DeviceMayFail = TRUE
INVARIANTS
  CountsAreExact
  AloneWithoutWinner
PROPERTIES
  ImplementsFirstAnswer
  WinnerEndsTheSolve
  EndIsNoticed
