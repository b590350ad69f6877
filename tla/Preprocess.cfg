SPECIFICATION FairSpec
CONSTANTS
  MaxLines = 3
  MaxFailures = 1
  Source <- Sources
  Module <- MCModule
INVARIANTS
  TypeOK
  SafeInMemory
  FaultsExplained
  SoleOwner
  NoLeak
  NewLinesConsumed
  Regular
PROPERTIES
  OnlyForward
  ImplementsExpansion
  Terminates
