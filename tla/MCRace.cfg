SPECIFICATION FairSpec
CONSTANTS
  entrants <- MCEntrants
  TimeLimited = TRUE
  LaunchMayFail = TRUE
INVARIANTS
  RemainingIsExact
  LosersAreTold
  NothingOutlivesTheCall
PROPERTIES
  ImplementsFirstAnswer
  DecidedRaceEnds
