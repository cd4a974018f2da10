----------------------------- MODULE BootCalls -----------------------------
(***************************************************************************)
(* Boot with the stages of main that work on the mount tree and on the     *)
(* console call by call: what a stage of Boot takes for one step that      *)
(* succeeds or fails, main makes here of the operations of Mounts and of   *)
(* Vconsole, while the threads it has started by then go on.               *)
(***************************************************************************)
EXTENDS Boot, Mounts, Vconsole

CONSTANT Machines  \* what main may be started on: a tree, a sysfs, a [console]

(* The rows of Boot's table that stand for one Mount::mount. *)
MountStages == {"devtmpfs", "sysfs", "proc", "run", "efivars"}
CallStages == MountStages \cup {"pivot", "vconsole"}

(* Every call may fail, and the console's panic. *)
ASSUME CallsAssumption == CallStages \subseteq Faults /\ "vconsole" \in Panics

callVars == <<treeVars, vconVars>>
allVars == <<vars, callVars>>

\* [console] is optional and read with the rest of the configuration.
CallsInit ==
  /\ Init /\ TreeInit /\ ConsoleInit
  /\ [tree |-> tree, sysfs |-> sysfs, console |-> console] \in Machines

(* Main is at this row; how it goes on after a call returns, `?` and .bail(). *)
At(p, stages) == stage = p[1] /\ stage \in stages
Returns(p) == Goto(p[2])
Bails(p) == Bail(p[3])
OtherVars == UNCHANGED <<thread, forced, woken, clock, left>>

\* (Variant: it looks for the mount point itself.)
EfiMode_MountPoint == Target["efivars"] \in DOMAIN tree

EfiMode == <<"sys", "firmware", "efi">> \in DOMAIN tree

(* Mount::...mount().bail(c)? *)
MountCall(p) ==
  /\ At(p, MountStages)
  /\ p[1] = "efivars" => EfiMode
  /\ \/ MountOk(p[1]) /\ Returns(p)
     \/ MountErr(p[1]) /\ Bails(p)
  /\ OtherVars /\ UNCHANGED vconVars

(* Without /sys/firmware/efi there are no variables to mount. *)
NoEfivars(p) ==
  /\ At(p, {"efivars"}) /\ ~ EfiMode
  /\ Returns(p)
  /\ OtherVars /\ UNCHANGED callVars

\* (Variant: main does not look at its result.)
PivotCall_Ignored(p) ==
  /\ At(p, {"pivot"})
  /\ PivotOk \/ PivotErr
  /\ Returns(p)
  /\ OtherVars /\ UNCHANGED vconVars

PivotCall(p) ==
  /\ At(p, {"pivot"})
  /\ \/ PivotOk /\ Returns(p)
     \/ PivotErr /\ Bails(p)
  /\ OtherVars /\ UNCHANGED vconVars

(* setup_vconsole is under way, *)
ConsoleCall ==
  /\ stage = "vconsole" /\ ConsoleStep
  /\ UNCHANGED <<vars, treeVars>>

(* and returns, or panics. *)
ConsoleReturns(p) ==
  /\ At(p, {"vconsole"})
  /\ \/ vcon = "ok" /\ Returns(p)
     \/ vcon = "err" /\ Bails(p)
  /\ OtherVars /\ UNCHANGED callVars

ConsolePanics ==
  /\ stage = "vconsole" /\ vcon = "panic"
  /\ Panic("vconsole") /\ UNCHANGED callVars

Calls ==
  \/ \E p \in Plain : MountCall(p) \/ NoEfivars(p) \/ PivotCall(p) \/ ConsoleReturns(p)
  \/ ConsoleCall \/ ConsolePanics

(* Main does as in Boot unless it is at one of these stages. *)
MainElsewhere == stage \notin CallStages /\ MainThread /\ UNCHANGED callVars
FailureElsewhere == stage \notin CallStages /\ Failure /\ UNCHANGED callVars
Others == (Background \/ Tick) /\ UNCHANGED callVars

CallsNext == Calls \/ MainElsewhere \/ FailureElsewhere \/ Others

CallsSpec == CallsInit /\ [][CallsNext]_allVars

(* As in Boot: main and time go on, a thread that was told to stop does. *)
FairCalls ==
  /\ CallsSpec
  /\ WF_allVars(Calls \/ MainElsewhere)
  /\ WF_allVars(Tick /\ UNCHANGED callVars)
  /\ WF_allVars(\E t \in Thread : ThreadStops(t) /\ UNCHANGED callVars)

(***************************************************************************)
(* Properties.                                                             *)
(***************************************************************************)
(* The calls implement the stages: main goes on or fails as Boot says, and  *)
(* also under Boot's fairness: no stage lasts for ever.  make_shutdown_     *)
(* pivot_dir repeats mkdir as long as /run is missing (util.rs:220), which  *)
(* it never is, and load_keymap_file comes to an end.                      *)
ImplementsBoot == FairSpec

(* mkdirall makes any path, wherever a directory may not be created and     *)
(* however far the tree is built.                                          *)
MkdirAllMakesPath ==
  stage \in MountStages =>
    \A p \in {Target[m] : m \in DOMAIN Target} \cup {<<"dev", "shm">>} :
      \A refused \in SUBSET Prefixes(p) : MakesPath(p, refused)

(* exec_target_init takes over a complete tree, whatever the initramfs had: *)
(* /dev, /proc, /sys and /run are mounted and nothing hides them, and       *)
(* /run/initramfs, for systemd's shutdown, is in the /run that moves to the *)
(* target (main.rs:299-325).                                               *)
TreeComplete ==
  stage \in Switching =>
    /\ {"devtmpfs", "sysfs", "proc", "run"} \subseteq mounted
    /\ IsDir(tree, Pivot)

(* main.rs:310: when the EFI variables are wanted, for the root partition    *)
(* that the command line does not name, they are mounted just where the    *)
(* kernel has some.                                                        *)
EfivarsWhereEfi ==
  stage = "cmdline" =>
    ("efivars" \in mounted <=> <<"firmware", "efi">> \in sysfs)
=============================================================================
