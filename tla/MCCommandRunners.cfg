CONSTANTS
  Step <- MCStep
  FailuresAllowed = 2
  Scenario <- MCScenario
  Pool <- MCPool
  NoPool <- MCNoPool
  PoolDepth <- MCPoolDepth
  PoolName <- MCPoolName
  Parallelism = 3
  LoadLimited = TRUE
SPECIFICATION RFairSpec
INVARIANTS
  NoCommandIsLost
  PoolsAreRespected
PROPERTIES
  BuildSpec
  RTerminates
