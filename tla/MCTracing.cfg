SPECIFICATION Spec
CONSTANTS
  c1 = c1
  c2 = c2
  Commands <- BothCommands
  Builds <- MCBuilds
  Pids = {1, 2, 3}
  BufferSize = 16
  kMaxPathComponents = 3
  Directories <- MCDirectories
  Home <- MCHome
  Other <- MCOther
  Kills = 1
INVARIANTS
  InputsAreComplete
  OutputsAreExact
PROPERTIES
  RequestsAreAnswered
