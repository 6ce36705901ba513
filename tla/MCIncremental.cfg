CONSTANTS
  Step <- MCStep
  FailuresAllowed = 1
  Scenario <- MCScenario
  Def <- MCDef
  File <- MCFile
  Sources = {"src", "cfg"}
  Value <- MCValue
  Manifests <- MCManifests
  Inputs <- MCInputs
  Outputs <- MCOutputs
  Reads <- MCReads
  Writes <- MCWrites
  Compute <- MCCompute
  Phony = {"hdrs"}
  Console = {"show"}
  Partial = "0"
  TargetSets <- MCTargetSets
  Edits <- MCEdits
SPECIFICATION ISpec
INVARIANTS
  SuccessIsUpToDate
  SuccessLeavesNoWork
PROPERTIES
  SkippedStepsAreClean
  NoNeedlessRebuild
  NoSpuriousCycle
