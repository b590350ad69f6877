SPECIFICATION FairSpec
CONSTANTS
  MaxLines = 0
  MaxFailures = 0
  Source <- EmptyDefine
  Module <- MCModule
INVARIANTS
  NewLinesConsumed
