SPECIFICATION FairSpec
CONSTANTS
  MaxStatements = 3
  MaxTokens = 3
  MaxVariables = 7
  FloatUnit = 2
  Address = {1, 2, 3, 4}
  GlobalScope = 0
  Source <- Sources
INVARIANTS
  TypeOK
  NamesResolve
  CallsMeetFunctions
  TokensKept
PROPERTIES
  ScopesUnlessLoopVariable
  ImplementsLexicalScopes
  Terminates
