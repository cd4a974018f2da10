SPECIFICATION FairSpec
CONSTANTS
  MountTimeout = 2
  Walkers = {"ready"}
  Faults = {}
  Panics = {}
PROPERTY TimeoutEnds
CHECK_DEADLOCK FALSE
