SPECIFICATION FairSpec
CONSTANTS
  MaxLines = 0
  MaxFailures = 0
  Source <- MissingModule
  Module <- MCModule
INVARIANTS
  SafeInMemory
