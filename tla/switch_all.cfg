SPECIFICATION Spec
CONSTANTS
  InitPath <- SbinInit
  LinkTrees <- MCLinkTrees
  MaxLinks = 2
INVARIANTS
  TypeOK
  EndsInTarget
  ShellStillThere
  InitResolved
  StateReadable
PROPERTIES
  ImplementsStages
CHECK_DEADLOCK FALSE
