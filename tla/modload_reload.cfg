CONSTANTS
  m1 = m1  m2 = m2  m3 = m3  main = main  ev1 = ev1  a1 = a1
  Module <- MCModule2
  Main = main
  Uevent <- MCUevent1
  Alias = {a1}
  Configs <- BootThenDevice
  Faults = {}
SPECIFICATION Spec
INVARIANT LoadedOnce
CHECK_DEADLOCK FALSE
