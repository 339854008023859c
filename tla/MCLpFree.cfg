SPECIFICATION InspectSpec
CONSTANTS
  Jobs <- FreeJobs
  Number <- MCNumber
  Stem <- MCStem
  Looks <- MCLooks
  kInfinity = 99
  degree_threshold_factor = 1
  min_degree_threshold = 2
  min_blocks = 2
  max_linking_row_fraction <- MCFraction
INVARIANT
  LpReadsAsWritten
