SPECIFICATION Spec
CONSTANTS
  Word <- MCWord
  Spelling <- MCSpelling
  EfiVars <- MCEfiVars
  Uuid = {"u1", "u2"}
  Number = {"1", "2"}
  Normal <- MCNormal
  Burst = 2
  Lines <- AllLines
INVARIANTS
  TypeOK
  FirstWins
  FirstLevelWins
  LastOptionWins
  ParamsKept
  MalformedFails
  SourcesAsDocumented
  WarningsShown
CHECK_DEADLOCK FALSE
