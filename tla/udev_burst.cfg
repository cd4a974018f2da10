SPECIFICATION FairSpec
CONSTANTS
  MaxEvents = 2
  Bad = {}
  Capacity = 2
  Faults = {}
PROPERTY EveryEventHandled
CHECK_DEADLOCK FALSE
