SPECIFICATION Spec
CONSTANTS
  InitPath <- SbinInit
  LinkTrees <- MCLinkTrees
  MaxLinks = 2
INVARIANTS
  RamfsRemoved
CHECK_DEADLOCK FALSE
