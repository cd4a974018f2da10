----------------------------- MODULE SwitchRoot -----------------------------
(***************************************************************************)
(* exec_target_init (main.rs): the API filesystems move to the target, the *)
(* initramfs is deleted, the target becomes the root and its init is       *)
(* executed; with move_mount and move_mount_currdir of mount.rs,           *)
(* delete_ramfs, is_systemd_compatible and get_systemd_state of util.rs,   *)
(* and InitramfsTimer of time.rs.  Any call may fail.  A path is the       *)
(* sequence of its components; that of an absolute one starts with "/".    *)
(***************************************************************************)
EXTENDS Integers, SequencesExt

CONSTANTS
  InitPath,   \* args.init(), an absolute path of the target
  LinkTrees,  \* the symbolic links of the target: functions from absolute paths
  MaxLinks    \* how many links is_systemd_compatible follows (10)

ASSUME SwitchAssumption ==
  /\ MaxLinks \in Nat
  /\ \A l \in LinkTrees : IsFiniteSet(DOMAIN l)

(* The mount points main passes to move_mount, in its order. *)
Api == <<"run", "dev", "proc", "sys">>

(* The files of the initramfs, those ignited needs and some others. *)
InitrdFiles ==
  {<<"etc">>, <<"etc", "initrd-release">>, <<"etc", "engine.toml">>, <<"init">>,
   <<"bin">>, <<"bin", "busybox">>, <<"system_root">>}
  \cup {<<Api[i]>> : i \in DOMAIN Api}

(* What delete_ramfs wants to see before it deletes anything. *)
Expected == {<<"etc", "initrd-release">>, <<"etc", "engine.toml">>, <<"init">>}

VARIABLES
  stage,    \* where exec_target_init is
  moved,    \* how many of Api move_mount is through with
  at,       \* where each API filesystem is mounted
  dirs,     \* which of them have a directory in the target
  mounted,  \* the target is mounted at /system_root (external)
  fstype,   \* filesystem type of the initramfs (external)
  ramfs,    \* the files in the initramfs
  top,      \* the filesystem mounted over all others at /
  cwd, root,  \* the filesystems of the current and of the root directory
  links,    \* the symbolic links of the target
  path,     \* init_path in is_systemd_compatible
  followed, \* how often its loop has run
  clocks,   \* which clocks InitramfsTimer::start could read
  memfd,    \* the systemd-state: what is in it and the offset of its descriptor
  exit      \* exit code, 0 while there is none

vars == <<stage, moved, at, dirs, mounted, fstype, ramfs, top, cwd, root,
          links, path, followed, clocks, memfd, exit>>

given == <<dirs, mounted, fstype, links, clocks>>
place == <<top, cwd, root>>
handover == <<path, followed, memfd>>

Names == {Api[i] : i \in DOMAIN Api}
Clocks == {"realtime", "monotonic"}

Init ==
  /\ stage = "move" /\ moved = 0 /\ at = [m \in Names |-> "initramfs"]
  /\ mounted \in BOOLEAN
  /\ dirs \in SUBSET Names /\ (mounted \/ dirs = {})
  /\ fstype \in {"ramfs", "tmpfs", "other"}
  /\ ramfs \in {InitrdFiles, InitrdFiles \ {<<"init">>}}
  /\ top = "initramfs" /\ cwd = "initramfs" /\ root = "initramfs"
  /\ links \in LinkTrees
  /\ path = InitPath /\ followed = 0
  /\ clocks \in [Clocks -> BOOLEAN]
  /\ memfd = [text |-> <<>>, offset |-> 0]
  /\ exit = 0

(* `?` with .bail(code): exec_target_init returns, main drops to a shell. *)
Bail(code) == stage' = "failed" /\ exit' = code

(***************************************************************************)
(* Mount::move_mount                                                       *)
(***************************************************************************)
\* (Variant: a filesystem without a directory in the target is only warned about.)
MoveMount_OnlyWarns ==
  /\ stage = "move" /\ moved < Len(Api)
  /\ LET m == Api[moved + 1]
     IN at' = [at EXCEPT ![m] = IF m \in dirs THEN "target" ELSE @]
  /\ moved' = moved + 1
  /\ UNCHANGED <<stage, given, ramfs, place, handover, exit>>

(* One turn of its loop: a filesystem whose directory the target lacks is  *)
(* detached, the others move.                                              *)
MoveMount ==
  /\ stage = "move" /\ moved < Len(Api)
  /\ LET m == Api[moved + 1]
     IN at' = [at EXCEPT ![m] = IF m \in dirs THEN "target" ELSE "detached"]
  /\ moved' = moved + 1
  /\ UNCHANGED <<stage, given, ramfs, place, handover, exit>>

\* (Variant: a filesystem that cannot be moved is only warned about.)
MoveMountFails_Continues ==
  /\ stage = "move" /\ moved < Len(Api)
  /\ stage' = "delete"
  /\ UNCHANGED <<moved, at, given, ramfs, place, handover, exit>>

MoveMountFails ==
  /\ stage = "move" /\ moved < Len(Api)
  /\ Bail(50)
  /\ UNCHANGED <<moved, at, given, ramfs, place, handover>>

MoveMountEnds ==
  /\ stage = "move" /\ moved = Len(Api)
  /\ stage' = "delete"
  /\ UNCHANGED <<moved, at, given, ramfs, place, handover, exit>>

(***************************************************************************)
(* delete_ramfs                                                            *)
(***************************************************************************)
(* st_dev differs between the initramfs and whatever is at /system_root. *)
Device(p) == IF mounted /\ p[1] = "system_root" THEN "target" ELSE "initramfs"

FullSanityCheck ==
  /\ Device(<<"system_root">>) # "initramfs"
  /\ Expected \subseteq ramfs
  /\ fstype \in {"ramfs", "tmpfs"}

\* (Variant: the entries . and .. are skipped.)
Descends_AllOthers(name) == name \notin {".", ".."}

(* The entries of a directory that delete_recursive descends into; read_dir *)
(* never returns either of them (external).                                *)
Descends(name) == name \in {".", ".."}

(* delete_recursive removes what it reaches from / without leaving its device. *)
Removed ==
  {p \in ramfs : \A k \in 1..Len(p) :
                   Descends(p[k]) /\ Device(SubSeq(p, 1, k)) = "initramfs"}

DeleteRamfs ==
  /\ stage = "delete"
  /\ FullSanityCheck
  /\ ramfs' = ramfs \ Removed
  /\ stage' = "chdir"
  /\ UNCHANGED <<moved, at, given, place, handover, exit>>

(* The check fails, or one of the calls does. *)
DeleteRamfsFails ==
  /\ stage = "delete"
  /\ Bail(51)
  /\ UNCHANGED <<moved, at, given, ramfs, place, handover>>

(***************************************************************************)
(* The target becomes the root.                                            *)
(***************************************************************************)
SystemRoot == IF mounted THEN "target" ELSE "initramfs"

\* (Variant: without the call of move_mount_currdir after it.)
Chdir_SkipsMove ==
  /\ stage = "chdir"
  /\ cwd' = SystemRoot /\ stage' = "chroot"
  /\ UNCHANGED <<moved, at, given, ramfs, top, root, handover, exit>>

Chdir ==
  /\ stage = "chdir"
  /\ cwd' = SystemRoot /\ stage' = "currdir"
  /\ UNCHANGED <<moved, at, given, ramfs, top, root, handover, exit>>

(* move_mount_currdir: only a mount point can be moved. *)
MoveMountCurrdir ==
  /\ stage = "currdir" /\ cwd = "target"
  /\ top' = cwd /\ stage' = "chroot"
  /\ UNCHANGED <<moved, at, given, ramfs, cwd, root, handover, exit>>

(* chroot(".") and chdir("."). *)
Chroot ==
  /\ stage = "chroot"
  /\ root' = cwd /\ stage' = "rootdir"
  /\ UNCHANGED <<moved, at, given, ramfs, top, cwd, handover, exit>>

ChdirRoot ==
  /\ stage = "rootdir"
  /\ stage' = "compatible"
  /\ UNCHANGED <<moved, at, given, ramfs, place, handover, exit>>

SwitchFails ==
  /\ \/ stage = "chdir" /\ Bail(52)
     \/ stage = "currdir" /\ Bail(53)
     \/ stage = "chroot" /\ Bail(54)
     \/ stage = "rootdir" /\ Bail(55)
  /\ UNCHANGED <<moved, at, given, ramfs, place, handover>>

(***************************************************************************)
(* is_systemd_compatible                                                   *)
(***************************************************************************)
(* The kernel's view of a path without symbolic links in it (external): the *)
(* directory it starts from, then each component, `..` going up.            *)
Walk(from, p) ==
  FoldLeft(LAMBDA d, c : CASE c = "/"  -> <<"/">>
                           [] c = ".." -> IF Len(d) > 1 THEN Front(d) ELSE d
                           [] OTHER    -> Append(d, c),
           from, p)

(* Where a path of this process leads: the current directory is /. *)
Absolute(p) == Walk(<<"/">>, p)

FollowLink ==
  /\ stage = "compatible" /\ followed < MaxLinks
  /\ Absolute(path) \in DOMAIN links
  /\ path' = links[Absolute(path)]
  /\ followed' = followed + 1
  /\ UNCHANGED <<stage, moved, at, given, ramfs, place, memfd, exit>>

(* What a link leads to, a relative one from its own directory, and where   *)
(* the kernel ends up that way: at a file, or at a link of a loop (external). *)
Target(l, q) == IF q \in DOMAIN l THEN Walk(Front(q), l[q]) ELSE q

RealPath(p) ==
  LET step[n \in 0..Cardinality(DOMAIN links)] ==
        IF n = 0 THEN p ELSE Target(links, step[n - 1])
  IN step[Cardinality(DOMAIN links)]

(* The file that init is; there is none when its links are a loop. *)
InitFile == RealPath(Absolute(InitPath))
InitExists == InitFile \notin DOMAIN links

Exists(p) == InitExists /\ p = InitFile

\* (Variant: without the canonicalize after the loop.)
Canonical_Missing(p) == p

(* canonicalize fails where nothing is, and the path stays as it is. *)
Canonical(p) == IF Exists(RealPath(Absolute(p))) THEN RealPath(Absolute(p)) ELSE p

(* Path::ends_with compares whole components, the root among them. *)
IsSystemd(p) == IsSuffix(<<"/", "systemd">>, p)

Decide ==
  /\ stage = "compatible"
  /\ followed = MaxLinks \/ Absolute(path) \notin DOMAIN links
  /\ path' = Canonical(path)
  /\ stage' = IF IsSystemd(path') THEN "memfd" ELSE "exec"
  /\ UNCHANGED <<moved, at, given, ramfs, place, followed, memfd, exit>>

(***************************************************************************)
(* get_systemd_state, InitramfsTimer::write, execv                         *)
(***************************************************************************)
GetSystemdState ==
  /\ stage = "memfd"
  /\ stage' = "timer"
  /\ UNCHANGED <<moved, at, given, ramfs, place, handover, exit>>

(* A clock that could not be read is written as 0. *)
Timestamp(c) == IF clocks[c] THEN c ELSE "0"

(* The line goes where the offset is and takes the offset with it. *)
TimerWrite ==
  /\ stage = "timer"
  /\ LET line == <<Timestamp("realtime"), Timestamp("monotonic")>>
     IN memfd' = [text |-> SubSeq(memfd.text, 1, memfd.offset) \o line,
                  offset |-> memfd.offset + Len(line)]
  /\ stage' = "seek"
  /\ UNCHANGED <<moved, at, given, ramfs, place, path, followed, exit>>

\* (Variant: the descriptor is handed over where the write has left it.)
TimerSeek_Missing ==
  /\ stage = "seek"
  /\ stage' = "exec_systemd"
  /\ UNCHANGED <<moved, at, given, ramfs, place, handover, exit>>

TimerSeek ==
  /\ stage = "seek"
  /\ memfd' = [memfd EXCEPT !.offset = 0]
  /\ stage' = "exec_systemd"
  /\ UNCHANGED <<moved, at, given, ramfs, place, path, followed, exit>>

SystemdStateFails ==
  /\ stage \in {"memfd", "timer", "seek"}
  /\ Bail(100)
  /\ UNCHANGED <<moved, at, given, ramfs, place, handover>>

(* init takes over, if there is one, with the descriptor of the state or    *)
(* without arguments.                                                       *)
Execute(as) ==
  /\ \/ InitExists /\ stage' = as /\ UNCHANGED exit
     \/ Bail(101)
  /\ UNCHANGED <<moved, at, given, ramfs, place, handover>>

ExecSystemd == stage = "exec_systemd" /\ Execute("systemd")
Exec == stage = "exec" /\ Execute("init")

Next ==
  \/ MoveMount \/ MoveMountFails \/ MoveMountEnds
  \/ DeleteRamfs \/ DeleteRamfsFails
  \/ Chdir \/ MoveMountCurrdir \/ Chroot \/ ChdirRoot \/ SwitchFails
  \/ FollowLink \/ Decide
  \/ GetSystemdState \/ TimerWrite \/ TimerSeek \/ SystemdStateFails
  \/ ExecSystemd \/ Exec

Spec == Init /\ [][Next]_vars

(***************************************************************************)
(* Properties.                                                             *)
(***************************************************************************)
Stages == {"move", "delete", "chdir", "currdir", "chroot", "rootdir",
           "compatible", "memfd", "timer", "seek", "exec_systemd", "exec",
           "systemd", "init", "failed"}

(* The target's init has been executed. *)
Executed == stage \in {"systemd", "init"}

TypeOK ==
  /\ stage \in Stages /\ moved \in 0..Len(Api) /\ mounted \in BOOLEAN
  /\ dirs \subseteq Names /\ fstype \in {"ramfs", "tmpfs", "other"}
  /\ at \in [Names -> {"initramfs", "target", "detached"}]
  /\ \A i \in DOMAIN Api : i <= moved <=> at[Api[i]] # "initramfs"
  /\ ramfs \subseteq InitrdFiles
  /\ {top, cwd, root} \subseteq {"initramfs", "target"}
  /\ links \in LinkTrees /\ followed \in 0..MaxLinks
  /\ clocks \in [Clocks -> BOOLEAN]
  /\ memfd.offset \in 0..Len(memfd.text)
  /\ exit \in {0, 50, 51, 52, 53, 54, 55, 100, 101}
  /\ exit # 0 <=> stage = "failed"

(* exec_target_init: init starts in the target, from its root, with each    *)
(* API filesystem in the target's own directory for it or, when it has none, *)
(* detached, and nothing mounted at /system_root is taken for a target when *)
(* nothing is mounted there.                                               *)
EndsInTarget ==
  Executed =>
    /\ mounted /\ top = "target" /\ cwd = "target" /\ root = "target"
    /\ \A m \in Names : at[m] = IF m \in dirs THEN "target" ELSE "detached"

(* spawn_emergency_shell: whichever call fails before the target is the     *)
(* root directory, /bin/busybox of the initramfs is still there to execute. *)
ShellStillThere ==
  stage = "failed" /\ root = "initramfs" => <<"bin", "busybox">> \in ramfs

(* What is_systemd_compatible says is known. *)
DecidedStages == {"memfd", "timer", "seek", "exec_systemd", "exec", "systemd", "init"}

(* A link reads the same from / as from the directory it is in. *)
PlainLinks ==
  \A q \in DOMAIN links : Walk(Front(q), links[q]) = Absolute(links[q])

(* is_systemd_compatible decides about the file that execv will execute,    *)
(* also when it is more than MaxLinks links away, as long as there is one   *)
(* and no link depends on the directory it is in.                          *)
InitResolved ==
  stage \in DecidedStages /\ PlainLinks /\ InitExists => path = InitFile

(* InitramfsTimer::write: an init executed as systemd reads both timestamps *)
(* from the start of the descriptor it is given, 0 for a clock that could   *)
(* not be read; no other init is handed anything.                          *)
StateReadable ==
  /\ stage = "systemd" =>
       SubSeq(memfd.text, memfd.offset + 1, Len(memfd.text))
         = <<Timestamp("realtime"), Timestamp("monotonic")>>
  /\ stage = "init" => memfd.text = <<>>

(* "Remove ramfs without touching the target root" (delete_ramfs): what is  *)
(* left of the initramfs are directories that other filesystems need.       *)
RamfsRemoved ==
  stage \in {"chdir", "currdir", "chroot", "rootdir", "systemd", "init"} =>
    ramfs \subseteq {<<"system_root">>}

(* exec_target_init: an init that is systemd gets the systemd-state memfd.  *)
SystemdGetsState ==
  Executed /\ Last(InitFile) = "systemd" => stage = "systemd"

(***************************************************************************)
(* The stage of Boot that this is a part of.                               *)
(***************************************************************************)
BootStage ==
  CASE stage = "currdir"                              -> "rootmove"
    [] stage = "rootdir"                              -> "newroot"
    [] stage \in {"compatible", "memfd", "timer", "seek"} -> "state"
    [] stage \in {"exec_systemd", "exec"}             -> "exec"
    [] Executed                                       -> "target"
    [] stage = "failed"                               -> "busybox"
    [] stage \in {"move", "delete", "chdir", "chroot"} -> stage

(* Boot from where the threads are over and the modules loaded. *)
Main == INSTANCE Boot WITH
  MountTimeout <- 0, Walkers <- {},
  Faults <- {"move", "delete", "chdir", "rootmove", "chroot", "newroot", "state", "exec"},
  Panics <- {},
  stage <- BootStage, code <- exit, thread <- [t \in {"udev", "modalias", "block"} |-> "over"],
  forced <- "loaded", woken <- TRUE, clock <- 0, left <- 0

(* exec_target_init, call by call, does what Boot takes its stages for: it  *)
(* begins where main goes on after the wait, the stages come one after the  *)
(* other, none is left out or comes again, and the first that fails ends    *)
(* it, with the exit code of its bail (main.rs:399-458).                   *)
ImplementsStages ==
  /\ BootStage = "move" /\ exit = 0
  /\ [][Main!MainThread \/ Main!Failure]_<<BootStage, exit>>
=============================================================================
