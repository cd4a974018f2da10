SPECIFICATION FairSpec
CONSTANTS
  MaxEvents = 4
  Bad = {3}
  Capacity = 2
  Faults = {"console", "evloop", "waker", "bind", "register", "spawn", "wake"}
INVARIANTS TypeOK NoEmptyRecv
PROPERTIES ImplementsFeed ListenReturns StopReturns SpacedEventsHandled
CHECK_DEADLOCK FALSE
