CONSTANTS
  AlwaysBland = FALSE
  BlandAfter = 1
  RefactorFrequency = 2
  StallLimit = 2
  MaxIterations = 0
  TimeLimited = FALSE
SPECIFICATION FairSpec
PROPERTY StallIsGenuine
