SPECIFICATION FairSpec
CONSTANTS
  MaxLength = 3
  Source <- Sources
  Char <- MCChar
  Digit <- MCDigit
  Keyword <- MCKeyword
  Define <- MCDefine
  Include <- MCInclude
INVARIANTS
  TypeOK
  TokenisesOrdinary
  NewLinesPaired
  UnsetOnlyAtStart
PROPERTIES
  Terminates
