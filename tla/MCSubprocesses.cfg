SPECIFICATION Spec
CONSTANTS
  c1 = c1
  c2 = c2
  c3 = c3
  Command = {c1, c2, c3}
  Builds <- MCBuilds
  PipeSize = 1
  Sent = {"INT", "TERM"}
  Interrupts = 2
INVARIANTS
  ResultsAreWhole
  NobodyIsLeft
PROPERTIES
  KeepsThePromise
  InterruptsEndTheBuild
