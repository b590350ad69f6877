SPECIFICATION FairSpec
CONSTANTS
  Addr = {1, 2, 3, 4, 5, 6, 7, 8, 9, 10, 11, 12, 13, 14}
  NULL = 0
  Garbage = {0}
  FloatUnit = 2
  DefaultSize = 2
  GlobalScope = 0
  Body = {1, 2, 3, 4}
  Id = {0, 1, 2, 3, 4}
  MaxFailures = 0
  Program <- PlainPrograms
  Node <- PlainNodes
  Name <- PlainName
INVARIANTS
  NoFault
  ErrorUnwinds
  Remembered
PROPERTIES
  FailStop
  Terminates
