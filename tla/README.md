# ignited: formal models and proofs

`ignited` is the `/init` of an initramfs: it mounts the API filesystems, reads
`/etc/ignited/engine.toml` and the kernel command line, loads kernel modules,
listens to uevents, waits for the root filesystem and switches to it. It runs as
PID 1, before anything that could restart it, and most of what can go wrong in
it is a matter of order: threads that load modules for each other, a listener
that must be stopped before its devices move away, errors on the way that must
end in the emergency shell. This directory holds TLA+ models of that program,
the TLC runs that check them, and the TLAPS proofs about them. Paths of the form
`module.rs:260` are relative to `src/src/`.

## The system

| Part | State | Operations | Talks to |
|---|---|---|---|
| Module loading, `module.rs` | `ModLoadingInner` (`loaded`, `loading`) under a mutex, WaitGroups, `ModAliases::bookkeeping_processed` | `load_modules`, `load_modalias`, `ModWg::wait`; internally `load_modules_unlocked`, a thread per module in `load_module`, `finit` | called by main and by uevent threads; the kernel through `finit_module(2)` |
| Boot sequence, `main.rs` | the stage reached, the listener's and walkers' handles, the `ModWg` of the forced modules, `start`/`now` of the event loop | `main`, `init`, `exec_target_init`, `calculate_evloop_timeout` | every other part; exit codes 1-14, 50-55, 100, 101 |
| uevent listener, `udev.rs`, `common.rs` | netlink socket, its own mio poll and waker, quit flag | `listen` (spawn and handshake), the loop of `spawn`, a thread per uevent, `stop` | kernel, main (handshake channel, waker, join), module loading |
| sysfs walker, `sysfs.rs` | two thread handles | `walk`, `stop`; the bodies of both threads are `todo!()` | main |
| Command line, `config.rs` | the `Option`s of one parse | `parse_current`, `parse_inner` and one parser per key | `RootOptsBuilder`, `KmsgBuf`, `ModParams` |
| Early logging, `early_logging/` | level of each `KConsole`, buffered messages | `kdebug!`..., `KmsgBuf`, `flush_with_level`, `disable_throttling_on_verbose` | `/dev/kmsg` |
| Partition sources, `mount.rs` | none | `PartitionSourceBuilder::parse`, `autodiscover_root` | command line |
| Mounting, `mount.rs`, `util.rs` | the mount table and directories | `mount`, `mkdirall`, `make_shutdown_pivot_dir` | kernel |
| Switching root, `main.rs`, `mount.rs`, `util.rs` | mount table, current and root directory | `move_mount`, `delete_ramfs`, `move_mount_currdir`, `chroot`, `is_systemd_compatible`, `execv` | kernel |
| Console, `vconsole.rs` | font, keyboard mode and key tables of the console | `setup_vconsole`, `set_font`, `load_keymap`, `load_keymap_file` | kernel |
| Timer, `time.rs` | two clock values | `start`, `log`, `write` | systemd's state memfd |

What makes each part correct, and what is hard about it:

* Module loading: a module goes to the kernel once and after its dependencies, a
  waiter goes on only when all it asked for is there, and every waiter goes on in
  the end. Hard: any number of threads hold each other's WaitGroups; the mutex is
  released while modules load; threads fail and panic.
* Boot: each stage runs once, in order, and only after the ones it depends on;
  the first failure decides the exit code; nothing still runs against `/dev` or
  `/sys` when they are moved. Hard: the listener, the loader threads and the
  walkers run meanwhile; the mount timeout.
* uevent listener: every device event is handled, and the listener ends when told
  to. Hard: events that arrive before the socket is bound, together, or while the
  listener is being stopped.
* Command line: which of several arguments wins. Early logging: which messages
  get out.
* Partition sources: a value names the partition its documentation says. Mounting: the
  tree is complete when the target takes it over, whatever the initramfs held; each
  mount hides what is below it. Switching root: init runs in the target, and until then
  there is a shell. Console: the keys get the entries of the keymap file. Timer:
  systemd reads what was written. All this is sequential code; hard are the conversions
  and the error paths: PID 1 may stop half-way, panic or loop, with threads running.

## Modules

| Module | Models |
|---|---|
| `ModLoading` | module loading with its callers, one loader thread per module, the kernel |
| `LoadContract` | what module loading promises, without threads |
| `MCModLoading` | families of dependency graphs for TLC |
| `ModLoadingProofs` | theorems about `ModLoading`, and that it implements `LoadContract` |
| `UdevListener` | the uevent listener's thread, its socket and poll, `listen` and `stop` |
| `EventFeed` | what a listener promises to the handlers of events |
| `UdevListenerProofs` | theorems about `UdevListener` |
| `Boot` | the main thread from its first check to `execv`, with the threads it starts |
| `Mounts` | `Mount::mount`, `mkdirall` and `make_shutdown_pivot_dir` on a tree of directories |
| `Vconsole` | `setup_vconsole`, one action per call to the kernel |
| `BootCalls` | `Boot` with `Mounts` and `Vconsole` in the place of their stages |
| `MCBootCalls` | initramfs trees, machines and keymap files for TLC |
| `MountsProofs` | what `mkdirall` makes, and what mounts do to a tree |
| `VconsoleProofs` | the lemmas about the loops over a keymap |
| `BootCallsProofs` | theorems about `Boot` and `BootCalls` |
| `RootSource` | what a value of `root=` or `resume=` names, and the EFI variable that stands in for it |
| `Cmdline` | the kernel command line and the buffered log it starts with |
| `MCCmdline` | command lines for TLC |
| `CmdlineProofs` | theorems about `Cmdline` |
| `SwitchRoot` | `exec_target_init`, call by call |
| `MCSwitchRoot` | how a target names its init, for TLC |
| `SwitchRootProofs` | theorems about `SwitchRoot` |
| `Induction` | induction and recursion over numbers, for the proofs |

### ModLoading

A state component is a field of the code, or the program counter of a thread:

| Variable | In the code |
|---|---|
| `config` | `Arc<RuntimeConfig>` and the alias list: forced modules, dependencies, post-dependencies, built-in modules, what each alias matches |
| `processed` | `ModAliases::bookkeeping_processed` |
| `loaded`, `loading` | the fields of `ModLoadingInner`; an entry is a non-empty vector, so the empty set stands for a vacant one |
| `poisoned` | a thread panicked with the mutex held |
| `stack` | the activations of `load_modules_unlocked`; it is not empty exactly while the mutex is held |
| `thread` | the loader threads: where in `load_module` each is, its module, and whose WaitGroup is its `orig_wg` |
| `caller` | where in `load_modules`/`ModWg::wait` each caller is, and its modules |
| `kernel` | the modules `finit_module` has inserted (external) |

A WaitGroup is named by its creator, a caller or the loader thread whose
`deps_wg` it is. Its count is not a variable: a clone of it lives in `loading`, or
in the `orig_wg` of a thread that has not ended, so `Released(w)` (nobody holds a
clone) is a state function. Two clones in one entry count as one, which does not
change when the count is zero.

Each iteration of the loop in `load_modules_unlocked` is an action (`SkipModule`,
`JoinModule`, `BeginModule`), and so are the return from the recursion
(`Spawn`), the panic of `thread::spawn` (`SpawnPanics`, which unwinds every
activation and poisons the mutex) and the return of the outermost activation
(`Unlock`). Iterations are separate actions although the mutex is held because
threads that need no mutex (waiting, `finit_module`) run in between. Callers are
the main thread, which asks for the forced modules, and uevent threads, which ask
for an alias. At this commit `handle_uevent_load_modalias` is `todo!()`; its
signature hands it a `ModLoading` and a modalias, and the model takes it to call
`load_modalias` and to wait.

Abstracted: glob matching (an alias maps to the modules it matches), module
parameters, file names; the reasons for which `finit` fails are one choice, except
EEXIST, which the model derives from `kernel`.

### UdevListener

`main` and `listener` are the program counters of the two threads, `channel` is the
mpsc channel of the handshake, `batch` what is left of the `evs` being iterated,
`quit` is `quit_thread`. `ready`, `queue` and `overrun` stand for mio and the
kernel: a source is put in `ready` when it becomes ready and taken out when `poll`
reports it (epoll with EPOLLET, which is what mio uses); the socket holds
`Capacity` packets and turns the first loss into an error of the next `recv`.
Receiving, parsing and spawning the handler of one packet is one action
(`Handle`): nothing the other threads do can be told apart in between. Setting up
(`SetUp`, `Announce`, `Bind`, `Register`) is a step per call because main and the
kernel go on meanwhile. Events are numbered in the order of their emission; `Bad`
are those `UEvent::from_netlink_packet` rejects. An interrupted poll is retried at
once and is no step. The `is_err()` of line 64 cannot happen: main is in `recv()`.

### Boot

`stage` is the program counter of the main thread. The stages whose effect lies
outside the model (mounts, files, `chdir`...) are rows of two tables, `EarlySteps` and
`SwitchSteps`, with their successor and exit code; `Pass` and `Fail` are the actions of a
row. `efivars` and `state` are done or skipped (EFI, systemd), which the table does not
tell apart. The other stages have actions of their own. `thread` is what
main knows of the listener and the two walkers, `forced` of the forced modules:
that `listen` and `stop` return is what `udev_feed` shows, that the forced modules are
loaded in the end what `modload_all` shows under its conditions. `Tell` and `TellFails` are the two outcomes
of the wake in `join_now` (`common.rs:24-36`): main joins the thread either way, and one it has "missed" ends of its own
accord or never. `Panic` is a panic of the main thread, which passes by `bail` and the shell; `Panicking` are the
stages where the code has one: the luks parsers (`todo!()`) and the slice of the EFI variable (`mount.rs:110`),
`thread::spawn` without a thread to be had (`udev.rs:179`, `module.rs:287`, `sysfs.rs:56`, `:71`), and the
keymap file. `clock` and `left`
count the ticks since `start` and until the poll's timeout; `clock` stops one above
the timeout, where no comparison changes any more.

`Boot` is what the more detailed models implement: `BootCalls` its stages before the event loop,
`SwitchRoot` those after it, `UdevListener` and `ModLoading` the threads.

The walkers' bodies are `todo!()`: at this commit the handshake is always "dropped"
and every boot ends at stage 13. `Walkers` leaves it open, so that the code after it, which
is written, is checked too.

### Cmdline

`line` is the command line, `pos` the argument the loop of `parse_inner` is at, `stage` where
`parse_current` is. `level` is `verbosity_level`; `args` gathers the other local variables
that become the `CmdlineArgs`, the fields of `RootOptsBuilder` among them (an init of `"none"` is
the default path). `buffer` is `KmsgBuf::inner_buf`, `threshold` the `current_level` of
main's `KConsole`; `devkmsg` and `kmsg` are the kernel's setting and what it has taken. Each
parser of `parse_inner` is an action, each turn of the loop one of them (`Keep` is what the four
parsers of a single value have in common; `KeyIsEmpty` and `ParseFails` are their other exits).
The flush, the autodiscovery of the root and the end of throttling follow. An argument is a key, a choice of the match, and the words of its value:
what is split at `=`, `,` or `.` in the code comes split. `Sources` are the words `RootSource` can
parse. NUL characters (an error in `parse_init`) do not occur in `/proc/cmdline`.

### RootSource

A value is a sequence of tokens: the prefixes `_parse` looks for, slashes, quotes, and words that are a
UUID (`Uuid`), a number (`Number`) or neither. A prefix is a prefix of the sequence, as
`strip_prefix` sees it: `/dev/disk/by-uuid` is cut off without the slash behind it. `Arms` are the arms of
`_parse` in their order. `Meanings` is the reference: what the comment over `parse` (`mount.rs:183-189`)
says a value names, as a set, built in the other direction (from sources to their spellings).
`GetCurrent` says how `autodiscover_root` ends for the length and text of `LoaderDevicePartUUID`.

### Mounts, Vconsole and BootCalls

`tree` gives each path its kind, a path being the sequence of its names; `mounted` are the
filesystems mounted so far, `sysfs` the directories the kernel shows below `/sys`. `Mkdir` and
`Covered` say what `mkdir(2)` and `mount(2)` do to the tree (external); `MkdirAll` is the recursion of
`mkdirall`, as a function of how much of the path is left. Any set of directories
may be refused for reasons of the kernel's own. That initramfs and sysfs are trees, and that the kernel
keeps `/sys/firmware/efi/efivars` empty, are facts of the kernel (`TreesAssumption`). One `Mount::mount` is one action: main has started no
thread yet.

`vcon` is the program counter of `setup_vconsole`, `table`, `key` and `pos` are `i`, `j` and `pos` of
`load_keymap_file`; `keyboard` and `keys` are the kernel's state. Threads run by then, so each call to the
kernel is an action. A keymap is the bytes of the file after `bkeymap`, and the address
`fs::read` has put them at, because `vconsole.rs:109` makes the key's value of the *address* of a byte. Which tables
are `Enabled` is read from the header, as in the code; a byte has `ByteSize` values.

`BootCalls` has the variables of all three. At the stages `devtmpfs`, `sysfs`, `proc`, `run`, `efivars`,
`pivot` and `vconsole` main takes the steps of `Mounts` and `Vconsole`; everywhere else, and for all
other threads, a step is one of `Boot`. Because it keeps `Boot`'s variables, "implements" needs no
mapping: `ImplementsBoot` is `Boot!FairSpec`.

### SwitchRoot

`stage` is the program counter of `exec_target_init`, `moved` the turns of `move_mount`'s loop, and
`path` and `followed` are `init_path` and the loop counter of `is_systemd_compatible`. `clocks` are those
`InitramfsTimer::start` could read, `memfd` is the text and the offset of the descriptor that systemd gets. The
kernel's side is external: `at` (where `/run`, `/dev`, `/proc`, `/sys` are mounted), `top` (what
covers `/`), `cwd`, `root`, `ramfs` (files of the initramfs), and what was there before: `mounted`,
`dirs` (which directories the target has), `fstype`, `links`. Nothing at this commit mounts anything at
`/system_root`, so `mounted` is a choice. Every call may fail, also when it need not. `Removed` is what
`delete_recursive` deletes; since a call of it may fail half-way, `DeleteRamfsFails` would have to
choose a part of it, were it not empty. `Walk`, `Absolute`, `Target` and `RealPath` say where the kernel's
path lookup ends, `InitFile` where it does for init, unless the links are a loop (`InitExists`; `canonicalize` and
`execv` fail then). Paths are sequences of components, which is what `Path::ends_with` compares.
`BootStage` maps the program counter to the stages of `Boot`, whose other variables have the values
`QuietWhenSwitching` gives them there.

## Runs

| Run | Question | Bounds |
|---|---|---|
| `modload_all` | Do the safety properties and the contract hold whatever the graph? Does every wait end? | two modules: all 16 dependency graphs (cycles and self-loops too), all 16 post-dependency graphs, all 4 sets of built-in modules; three modules: acyclic dependencies with all post-dependency graphs that keep the walks apart, and walks that meet over a chain, a diamond and two dependencies, each module with at most one post-dependency; main and one uevent thread; all failures |
| `modload_reload` | Is a loaded module recorded as loaded? No | one module asked for twice |
| `modload_postdep` | Does every wait end? No | `hid`/`hid_generic`: a post-dependency that depends on its provider and is asked for first |
| `udev_feed` | Is the listener safe, do `listen` and `stop` return, whatever the rhythm and whatever fails, and is each event handled that comes when the one before has been read? | four events (one unparseable), a socket of two packets, all failures |
| `udev_burst` | Is each event handled when they come together? No | two events |
| `boot_all` (on `MCBootCalls`) | Does main switch only when all is quiet, does a mounted root end the boot? Is the tree complete by then, does only a short keymap file panic, and do the calls implement their stages and end? | timeout of two ticks, every handshake outcome, a failure at any call, panics and failed wakes included; six initramfs trees by three machines (BIOS, EFI with and without a mount point), and 19 `[console]` sections: three tables of two keys, all eight headers, files of any length, addresses that wrap |
| `console_keys` (on `MCBootCalls`) | Do the keys get the entries of the keymap file? No | one complete file with one table |
| `boot_timeout` | Does the mount timeout end the loop? No | timeout of two ticks, no failures |
| `cmdline_all` | Which of several arguments counts, what is fatal, and what is logged? | all lines of up to three of 22 arguments, every arm of `parse_inner` and two values for every setting; all lines of up to four of six that matter to the log; any two `root=`/`resume=` of 23 spellings; the EFI variable missing, empty, good or with a NUL; a kernel that throttles after two messages or never |
| `switch_all` | Does init run in the target, is there a shell when something fails, is init's real file looked at, does systemd read the timestamps, and do the calls implement the stages of `Boot`? | eight ways to name init (a loop of links among them), all sets of directories, any clock unreadable, any failure |
| `switch_ramfs` | Is the initramfs deleted? No | the same |
| `switch_systemd` | Does systemd get its state? No | the same |

Why these bounds: two modules have every shape of edge between a module and
another or itself, and the two callers make every meeting of two requests in one
entry; a third module adds chains and diamonds, and post-dependencies of post-dependencies. All graphs over three
modules are too many for one run; the safety properties are proved for any. TLC stops by itself in all runs;
in `ModLoading` nothing is bounded by a counter, in `UdevListener` the number of events is. Deadlock is not checked because the system
stops: its threads end.

The trees are an empty one, one with the usual mount points, one that already has `/run/initramfs`, one with
files below `/dev`, and two with a file where a mount point should be; `MkdirAllMakesPath` tries in each
state all targets, and `/dev/shm`, with every set of refused directories. Three tables have one left out
before, between and after two others. A byte of four values stands for one of 256, so that addresses wrap. The two halves, trees and consoles, are not
combined: `setup_vconsole` does not look at the tree.

Four events fill the socket, overrun it and leave one for after a recovery that never
comes; a batch holds at most two reports, so longer runs of events repeat the same
states. Two ticks are the smallest timeout with a tick in the middle.

Three arguments are two that compete and one before, between or after them; four messages are more than
`Burst`, which stands for the kernel's ten in five seconds, and two arguments on either side of the one
that sets the level. `MaxLinks` of two stands for ten: there are chains of none, one, two, three and endless links.

What they show:

* `DepsFirst`, `ReturnMeansLoaded`, `PostDepsAwaited`, `SoleLoader`: hold. A failed
  load never lets anybody through who needs it.
* `ImplementsContract`: every step of the threads is a step of `LoadContract` or
  invisible there.
* `WaitEnds`: a wait ends if of the modules it needs (`NeededBy`) none wait for each other or for themselves (`Circular`:
  through dependencies, and through post-dependencies, which are requested on behalf of the first requester), unless
  a loader thread of one of them fails or the mutex is poisoned. To be loaded a second time (EEXIST) is a failure
  too. It holds with failures elsewhere, and whether the walks of several callers meet or not.
* `modload_reload`: `loaded` (`module.rs:194`) is read and never written. The
  second request for a loaded module starts a second thread, `finit_module` returns
  EEXIST, the entry in `loading` stays, and whoever waits on it waits for ever.
  `module.rs:207` says that loaded modules are recorded.
* `modload_postdep`: without any failure a loader thread can wait for its own
  WaitGroup, because post-dependencies are requested with the WaitGroup of the first
  requester (`module.rs:313`).

* `NoEmptyRecv`, `ImplementsFeed`, `ListenReturns`, `StopReturns` hold for the listener.
  One packet per report is what makes `recv().unwrap()` safe (a loop that drained the
  socket would meet EWOULDBLOCK), and it is also what `udev_burst` shows
  to be too little: the backlog of a burst stays in the socket.
* `SpacedEventsHandled`: an event that comes when the one before has been read is handled, also during
  registration and while a report is being worked on.
* By construction of the model, as of the code: the handshake comes before `bind` (`udev.rs:64`, `:74`), so
  events between the two are lost although `listen` has returned.
* `QuietWhenSwitching`, `MountedRootBoots` hold for the boot, also call by call. The handlers of uevents and
  what they load are not meant: nobody joins them. Once woken main can be held up for ever in two
  places, which `MountedRootBoots` names: by forced modules that never load, and in the join of a thread whose wake
  has failed.
* `TreeComplete`, `MountsVisible`, `EfivarsWhereEfi`, `MkdirAllMakesPath`: hold. The order of the mounts is what makes
  them hold: `/run/initramfs` of an initramfs is hidden by the tmpfs and made anew.
* `ImplementsBoot`: neither `make_shutdown_pivot_dir`, which repeats `mkdir` while `/run` is missing
  (`util.rs:220`), nor the loops over a keymap can hold up the boot.
* `PanicsIffShort`: `load_keymap_file` panics only where keys are missing, PID 1 is gone then, without the emergency
  shell; and where it succeeds it has set every key of the enabled tables and no other.
* `console_keys`: what it sets them to is the low 16 bits of the address of the key's place, not the entry there
  (`vconsole.rs:109`, `ValueAt`). `vconsole.rs:121` says that the keymap file updates the translation table.
* Not a run: the keyboard mode is set before the file is read, so a failure leaves the console half changed for
  the emergency shell, of which no doc says anything; `b"\033%G"` (`vconsole.rs:136`) is in Rust a NUL and `33%G`,
  no escape sequence.
* `boot_timeout`: in `start - now` (`main.rs:284`) the operands are swapped. `Instant`
  subtraction saturates, `elapsed` is always zero, and each poll gets the whole timeout
  again. Toolchains before Rust 1.60 panic there instead.

* `FirstWins`, `FirstLevelWins`, `LastOptionWins`, `ParamsKept`: the first value counts for `init`, `root`,
  `resume`, `rootfstype` and the level, the last word for mount flags and `ro`/`rw`, and all of a module's
  parameters. `MalformedFails`: a malformed `root=` is fatal even where another one counts.
* `SourcesAsDocumented`: what is written as documented names what it is documented to name, and anything else is
  refused, except for the links below `/dev/disk` (`IsLink`). Their prefixes lack a slash at the end
  (`mount.rs:197`): by-uuid and by-partuuid links are refused, and a label gets a slash in front.
* Not a run: `LoaderDevicePartUUID` with a NUL at the end of its text, as UEFI strings have it, is no UUID for
  `Uuid::from_str`, and one with less than its four bytes of attributes panics (`mount.rs:110`).
* `WarningsShown`: what is logged about an argument does not depend on where the level is set. It is lost
  only to throttling, which `parse_current` ends after the flush and not before it; what is lost then is the
  end.
* Not a run: `flush_with_level` says it sets the global threshold (`buf.rs:41`), but that of one console
  out of many. The loader threads, the listener and the handlers of events open their own, with the default
  level, and log at debug only: what they log is never written.
* `EndsInTarget`, `ShellStillThere`, `InitResolved`, `StateReadable` hold, and each call is a step of `Boot`
  (`ImplementsStages`). `ShellStillThere` holds because of what
  `switch_ramfs` shows: `delete_recursive` skips every entry it should descend into. A corrected condition
  would leave no shell for the failures of stages 52 and 53, as its mutant shows.
* `switch_systemd`: `ends_with("/systemd")` is true of one path only, `/systemd`.

Fairness of `ModLoading`: `FairSpec` asks only that some step of `Progress` is taken as long as
there is one: threads that can run are scheduled, and `finit_module` returns.
Device events, panics and failures are never required. `Progress` steps either end
an iteration, move a thread on or create one of finitely many, so no fairness for
single threads is needed.

Fairness of `UdevListener`: each of the two threads is scheduled; events, failures and the
call of `stop` are not required. Fairness of `Boot`: the main thread is scheduled, time
passes, and a thread that was told to stop does (`StopReturns` for the listener); that the root
is mounted or the modules load is not assumed. `FairCalls` asks the same of `BootCalls`: main's calls return.

## Proofs

`ModLoadingProofs` proves, for any modules, callers, graphs and failures:

* `TypeCorrect`: `TypeOK`, whose content is that frames and WaitGroups belong to
  callers and threads that exist.
* `DependenciesFirst` and `CallersSeeTheirModules`: `DepsFirst` and
  `ReturnMeansLoaded`.
* `OneLoaderPerEntry`: `SoleLoader`.

The only assumption is `ConstantsAssumption` of `ModLoading`: the configurations
are well formed and the names of callers are not numbers (threads are numbered).

Neither `DepsFirst` nor `ReturnMeansLoaded` is inductive: that a wait has ended
says something only if what it waited for was complete. The inductive invariant
`WaitInv` follows a WaitGroup through its life. Its owner, a caller or a loader
thread, needs a set of modules, and at any time each of them is
still ahead in the owner's walk (`WalkInv`), or in the kernel or holding the owner's
WaitGroup in its entry (`HeldInv` once the walk is over), or, when the wait is
over, in the kernel (`ThroughInv`). An entry is emptied only by a thread whose module
is in the kernel (`LoadedInv`, lemma `CoveredKept`), and that the walk under way is the
owner's own is the shape of the call stack (`StackInv`). The five actions that touch
the stack are the ones where the argument has content; the lemmas `AdvancedShape`
and `ReturnedShape` say what they do to it.

`OneLoaderPerEntry` rests on `EntryInv`: an answering thread's `orig_wg` is in its
entry, answering threads have different modules, and a non-empty entry has one.

Two more theorems follow from the same assumption. The lemma `FrameStep` says once where each
frame of the call stack comes from in a step; the walk invariants below are proved by cases on it.

* `LoadingImplementsContract`: `ImplementsContract`. That a loader thread is begun only for a module the contract
  lets be demanded is `DemandInv`: what a frame has left to do is part of what its invocation was asked
  for (the caller's modules, a thread's dependencies, or the post-dependencies of a thread whose
  module is in the kernel). `Finit` maps to `Insert` by `ThroughInv`, `Wait` to `Return` by `ThroughInv'`.
* `PostDependenciesAwaited`: `PostDepsAwaited`, by `PostInv`. A post-dependency is ahead in the walk, in the
  kernel, or holds `orig_wg` in its entry (`PostWalkInv`, `PostHeldInv`); nobody holds the WaitGroup of a caller that
  has come back (`FreedInv`). The case a test would miss is a panic in `thread::spawn` while post-dependencies
  are requested: the requesting thread ends without having asked for all of them, and what keeps its caller
  from coming back is the failed thread of the first post-dependency met, whose entry holds the same
  WaitGroup (`FirstInv`, `AbortedInv`).

`UdevListenerProofs` proves, for any number of events, any capacity and any
failures (`ListenerAssumption`): `ListenerTypeCorrect`; `RecvFindsPacket`, that `recv`
finds a packet, whose inductive invariant `SocketInv` gives each report of the socket, in
`batch` or still in `ready`, a packet of its own; and `ListenerImplementsFeed`, the
refinement of `EventFeed`, which rests on `FeedInv`: handled before queued, both in
emission order.

`Induction` is what the next three modules rest on: every set of numbers has a least one (from the library's
theorem that `<` is well-founded), hence induction over an interval, stated for a set in place of a predicate, and
hence that a function defined by recursion over `0..n` exists and follows its definition.

`CmdlineProofs` proves, for any set of command lines of any length, any words and any kernel
(`CmdlineAssumption`, `RootSourceAssumption`), every property of `Cmdline` that the runs check:

* `FirstArgumentWins` and `AcceptedIsWellFormed`. The invariant `CmdlineInv` says of each field that it is the
  first value among the arguments read (`IsFirst`, extended by one argument in the lemmas), and that all sources
  read are well formed.
* `FirstLevelCounts`. One turn of the loop keeps a level that is set and else takes the first of its own
  (`LevelTurn`); within one argument this is the induction `LevelAfterFirst` over its words.
* `LastOptionCounts`. `Reflects` says of flags and options that they are what a list of words leaves;
  `AddOptCases` adds a word, `AddOptsReflects` an argument, by induction, and `OptionInvariant` a turn.
* `ParametersKept` and the others speak of the arguments of one sort, in their order (`Chosen`). `ChosenPlaces` is
  what makes this usable: the elements of `Chosen` are those at the chosen places, increasing.
* `WarningsAreShown`. `LogInv` follows a message from the buffer to the kernel: what is in the buffer is what the
  arguments read report (`Reports`), and what the kernel has is a beginning of what the threshold lets through
  (`Published`). That the threshold is set before the flush, and throttling ended after it, is what decides.
* `CmdlineTypeCorrect`: `TypeOK`, with the name of each field of `args` (`ArgsIsFunction`).
* `SourcesAreDocumented`. A spelling is taken apart by its first token (`ParseByHead`); each arm of `_parse` and each
  documented meaning (`MeaningsIs`) is reduced to the tokens it asks for, and the two agree (`ParseIsDocumented`).

`MountsProofs` proves `MkdirAllMakes`: on any tree, for any path and any refused directories, `mkdirall` makes what
is missing above and at the path, in its order, and stops where something is in the way. It is an induction over the
activations of the recursion (`ActivationStep`); how deep it goes before a directory is found is `Depth`. The other
lemmas say what a mount hides and shows, and that the result is again a tree.

`BootCallsProofs` proves of `Boot`, for any timeout, any outcome of the handshakes and any failures
(`BootAssumption`): `BootTypeCorrect`, with the lemma `NeverExpires` that no arguments
make `calculate_evloop_timeout` expire; and `SwitchIsQuiet`, by an invariant that says for
each thread from which stage on it is over.

Of `BootCalls` it proves, for any initramfs, any sysfs and any console (`TreesAssumption`, `CallsAssumption`,
`ConsoleAssumption`):

* `CallsImplementBoot`, the safety part of the refinement, whence `CallsSwitchIsQuiet`.
* `ConsoleTypeCorrect` and `KeymapPanicsIffShort`, for any number of tables and keys, by
  `ConsoleInv` of `VconsoleProofs`: `pos` is the place of the key the loops are at (`PlaceOf`), a key
  passed lies within the file, and the keys set are those passed in the enabled tables (`KeysSet`); how a place moves from one key to the next is the lemma `PlaceNext`, on
  cardinalities of the tables before it.
* `TargetGetsTree`, by `MountedInv`: from which stage on each filesystem is mounted, and `/run/initramfs` a
  directory.
* `TreeTypeCorrect` and `EveryPathIsMade`, by `TreeInv`: whatever is made or mounted, each path has its directories.
* `NoMountIsHidden` and `EfivarsAreFound`. No target is above another one or above what is shown there (`Apart`,
  `ShownMounts`), except `/sys`, which is above that of efivarfs; so `MountsVisible` needs `EfiInv`: efivarfs is not
  mounted before sysfs is. `EfiInv` adds that until then nothing that is mounted or made adds
  `/sys/firmware/efi` to the tree (`OthersAddNoEfi`), so that what `is_dir` sees there is what sysfs shows, which
  takes `MountsVisible` in turn.

`SwitchRootProofs` proves, for any links and any `MaxLinks` (`SwitchAssumption`): `InitRunsInTarget` and `EmergencyShellKept`, by the
invariant `SwitchInv`, which says for each stage what has been done by then. That a move of `.` needs a
mount point is what excludes a switch to nothing. `SystemdReadsState` follows the memfd through its
stages (`MemfdInv`); `SwitchTypeCorrect` is the type invariant. `SwitchImplementsStages` needs no
invariant: the lemmas `BootPasses` and `BootBails` turn a change of `BootStage` into a step of `Boot`.
`DecidesAboutInit`: a link followed leads to a place from which the kernel ends up at the same file
(`RealPathOfTarget`, on the chains of links that `RealPath` computes), so `canonicalize` ends at init's file however
far the loop has come (`LeadsToInit`).

Only model-checked: liveness (`WaitEnds`, `ListenReturns`, `StopReturns`,
`SpacedEventsHandled`, `MountedRootBoots`, the fairness of `ImplementsBoot`), which is out of the prover's
reach. Every other property that a passing run checks is a theorem.

## Not modelled

* The bodies of the sysfs walkers, of the uevent handlers and of the luks parsers, `PartitionSourceBuilder::build`,
  `Mount::DevPts` and `Mount::Root`: `todo!()` at this commit. Where the code around them goes on, a
  choice stands for them (`Walkers`, `mounted`), and for the luks parsers their panic; `RootOptsBuilder::build` and `try_build` are called by nobody.
* `engine.toml` and its accessors in `config.rs`, generated by serde: their results are constants.
* The text of messages, mount flags and options, module parameters as bytes, the arguments of `setfont`.
* `KConsole`s of other threads: they keep the default level, a property would restate their constructor. `KmsgBuf`
  after its flush and `KmsgFmt::clone`: nothing uses them.
