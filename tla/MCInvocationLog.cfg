SPECIFICATION HistorySpec
CONSTANTS
  a = a
  d = d
  f1 = f1
  f2 = f2
  h1 = h1
  h2 = h2
  Directory = Directory
  NoEntry = NoEntry
  Hashes <- MCHashes
  Paths <- MCPaths
  Directories <- MCDirectories
  Commands <- MCCommands
  MinCompactionEntryCount = 3
  CompactionRatio = 1
  AtomicRecompaction = FALSE
  MaxRecords = 7
SYMMETRY Symmetry
INVARIANTS
  WholeRecordsParse
  IdsAreTheFiles
PROPERTIES
  KeepsItsPromise
