SPECIFICATION Spec
CONSTANTS
  InitPath <- SbinInit
  LinkTrees <- MCLinkTrees
  MaxLinks = 2
INVARIANTS
  SystemdGetsState
CHECK_DEADLOCK FALSE
