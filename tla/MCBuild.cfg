CONSTANTS
  Step <- MCStep
  FailuresAllowed = 2
  Scenario <- MCScenario
SPECIFICATION FairSpec
INVARIANTS
  DependenciesFirst
  SuccessIsComplete
  FastPathIsSound
PROPERTIES
  Terminates
