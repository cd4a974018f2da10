CONSTANTS
  m1 = m1  m2 = m2  m3 = m3  main = main  ev1 = ev1  a1 = a1
  Module <- MCModule3
  Main = main
  Uevent <- MCUevent1
  Alias = {a1}
  Configs <- AnyGraph
  Faults = {"kmsg", "finit", "spawn"}
SPECIFICATION FairSpec
INVARIANTS TypeOK DepsFirst ReturnMeansLoaded PostDepsAwaited SoleLoader
PROPERTIES ImplementsContract WaitEnds
CHECK_DEADLOCK FALSE
