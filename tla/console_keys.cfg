SPECIFICATION CallsSpec
CONSTANTS
  MountTimeout = 2
  Walkers = {"ready", "error", "dropped"}
  Faults = {"sanity", "devtmpfs", "console", "sysfs", "proc", "run", "efivars", 
    "config", "kver", "aliases", "pivot", "cmdline", "evloop", "waker", 
    "vconsole", "move", "delete", "chdir", "rootmove", "chroot", 
    "newroot", "state", "listen", "force", "poll", "interrupt", "exec", 
    "wake", "busybox", "toybox"}
  Panics = {"cmdline", "listen", "force", "modalias", "block", "vconsole"}
  Machines <- MCKeymapMachines
  Trees <- MCTrees
  Sysfs <- MCSysfs
  Consoles <- MCConsoles
  NrKeymaps = 3
  NrKeys = 2
  ByteSize = 4
INVARIANT KeysFromFile
CHECK_DEADLOCK FALSE
