------------------------------- MODULE Mounts -------------------------------
(***************************************************************************)
(* The tree main builds before it starts its first thread: Mount::mount    *)
(* and mkdirall (mount.rs), make_shutdown_pivot_dir (util.rs).  A path is  *)
(* the sequence of its names, <<>> the root directory.  The operations are *)
(* called by BootCalls; each is atomic because nothing else runs yet.      *)
(***************************************************************************)
EXTENDS Integers, SequencesExt

CONSTANTS
  Trees,   \* what the initramfs may hold: functions from its paths to kinds
  Sysfs    \* what sysfs may show: sets of paths, those of its directories

(* A kind of file: a directory (or a link to one), or anything else. *)
Kind == {"dir", "other"}

Device == [p \in {<<"kmsg">>, <<"tty0">>} |-> "other"]

IsDir(t, p) == p \in DOMAIN t /\ t[p] = "dir"

(* A tree of files: there is a root, and every file is in directories. *)
IsTree(t) ==
  /\ t \in [DOMAIN t -> Kind]
  /\ <<>> \in DOMAIN t
  /\ \A p \in DOMAIN t : \A q \in Prefixes(p) \ {p} : IsDir(t, q)

(* The initramfs is a tree, and so is sysfs; the kernel keeps the directory *)
(* it has for the EFI variables empty (sysfs_create_mount_point).          *)
ASSUME TreesAssumption ==
  /\ \A t \in Trees : IsTree(t) /\ DOMAIN t \subseteq Seq(STRING)
  /\ \A s \in Sysfs :
       /\ s \subseteq Seq(STRING)
       /\ \A p \in s : /\ Prefixes(p) \subseteq s \cup {<<>>}
                       /\ ~ IsStrictPrefix(<<"firmware", "efi", "efivars">>, p)

VARIABLES
  tree,     \* the kind of each path that exists
  mounted,  \* the filesystems main has mounted
  sysfs     \* what sysfs shows on this machine

treeVars == <<tree, mounted, sysfs>>

TreeInit == tree \in Trees /\ mounted = {} /\ sysfs \in Sysfs

\* (Variant: `Mount::Tmpfs` mounts /tmp.)
Target_Tmp == [devtmpfs |-> <<"dev">>, sysfs |-> <<"sys">>, proc |-> <<"proc">>,
               run |-> <<"tmp">>, efivars |-> <<"sys", "firmware", "efi", "efivars">>]

\* (Variant: sysfs has the target of devtmpfs.)
Target_SysOnDev == [devtmpfs |-> <<"dev">>, sysfs |-> <<"dev">>, proc |-> <<"proc">>,
                    run |-> <<"run">>, efivars |-> <<"sys", "firmware", "efi", "efivars">>]

(* Mount::target; a RootOpts has none yet, and DevPts no flags (todo!()). *)
Target == [devtmpfs |-> <<"dev">>, sysfs |-> <<"sys">>, proc |-> <<"proc">>,
           run |-> <<"run">>, efivars |-> <<"sys", "firmware", "efi", "efivars">>]

(* What appears under the mount point (external). *)
Content(m) ==
  CASE m = "devtmpfs" -> Device
    [] m = "sysfs"    -> [p \in sysfs |-> "dir"]
    [] OTHER          -> [p \in {} |-> "dir"]

(***************************************************************************)
(* mkdir(2) on tree t (external).  `refused` are the directories it may not *)
(* create for reasons of its own: a read-only or full filesystem, sysfs.   *)
(***************************************************************************)
Mkdir(t, p, refused) ==
  LET deepest == CHOOSE q \in Prefixes(p) \cap DOMAIN t :
                   \A r \in Prefixes(p) \cap DOMAIN t : Len(r) <= Len(q)
  IN CASE deepest = p                               -> "EEXIST"
       [] deepest # p /\ t[deepest] # "dir"         -> "ENOTDIR"
       [] Len(deepest) < Len(p) - 1 /\ t[deepest] = "dir" -> "ENOENT"
       [] Len(deepest) = Len(p) - 1 /\ t[deepest] = "dir" ->
            IF p \in refused THEN "EPERM" ELSE "ok"

(* The tree once directory p has been created. *)
Made(t, p) == [q \in DOMAIN t \cup {p} |-> IF q = p THEN "dir" ELSE t[q]]

(* mkdir, and no error when there is a directory already. *)
MkdirOnce(t, p, refused) ==
  LET made == Mkdir(t, p, refused) = "ok" IN
  [tree |-> IF made THEN Made(t, p) ELSE t, ok |-> made \/ IsDir(t, p)]

\* (Variant: the path is not tried again after its parent has been made.)
MkdirAll_ParentOnly(t, path, refused) ==
  LET made[n \in 0..Len(path)] ==
        LET p == SubSeq(path, 1, n) IN
        IF Mkdir(t, p, refused) # "ENOENT" THEN MkdirOnce(t, p, refused) ELSE made[n - 1]
  IN made[Len(path)]

(* mkdirall: what it leaves, and whether it returns Ok.  made[n] is the     *)
(* activation for the first n names of the path.                           *)
MkdirAll(t, path, refused) ==
  LET made[n \in 0..Len(path)] ==
        LET p  == SubSeq(path, 1, n)
            up == made[n - 1]
        IN IF Mkdir(t, p, refused) # "ENOENT" THEN MkdirOnce(t, p, refused)
           ELSE IF up.ok THEN MkdirOnce(up.tree, p, refused) ELSE up
  IN made[Len(path)]

(* The tree with filesystem m mounted: it hides what was under its target. *)
Covered(t, m) ==
  LET kept  == {q \in DOMAIN t : ~ IsStrictPrefix(Target[m], q)}
      shown == {Target[m] \o p : p \in DOMAIN Content(m)}
  IN [q \in kept \cup shown |->
        IF q \in kept THEN t[q] ELSE Content(m)[SubSeq(q, Len(Target[m]) + 1, Len(q))]]

\* (Variant: mount(2) without mkdirall before it.)
MountOk_NoMkdir(m) ==
  /\ tree' = Covered(tree, m)
  /\ mounted' = mounted \cup {m}
  /\ UNCHANGED sysfs

(* Mount::mount returns Ok: the target is made, mount(2) succeeds. *)
MountOk(m) ==
  /\ \E refused \in SUBSET Prefixes(Target[m]) :
       LET made == MkdirAll(tree, Target[m], refused) IN
       made.ok /\ tree' = Covered(made.tree, m)
  /\ mounted' = mounted \cup {m}
  /\ UNCHANGED sysfs

(* It returns an error, of mkdirall or of mount(2). *)
MountErr(m) ==
  /\ \E refused \in SUBSET Prefixes(Target[m]) :
       tree' = MkdirAll(tree, Target[m], refused).tree
  /\ UNCHANGED <<mounted, sysfs>>

Pivot == <<"run", "initramfs">>

(* make_shutdown_pivot_dir: Ok, or any error but ENOENT, on which it tries  *)
(* again and again; nobody else would make the directory.                  *)
PivotOk ==
  /\ Mkdir(tree, Pivot, {}) = "ok"
  /\ tree' = Made(tree, Pivot)
  /\ UNCHANGED <<mounted, sysfs>>

PivotErr ==
  /\ Mkdir(tree, Pivot, {Pivot}) # "ENOENT"
  /\ UNCHANGED treeVars

(***************************************************************************)
(* Properties.                                                             *)
(***************************************************************************)
(* What main leaves of the initramfs is a tree at any time: nothing is made  *)
(* or mounted where there is no directory (mount.rs:556-573).              *)
TreeTypeOK == IsTree(tree) /\ sysfs \in Sysfs /\ mounted \subseteq DOMAIN Target

(* Where the creation of a path stops: its first prefix that is no directory *)
(* and cannot be made one, or the path itself.                             *)
Blocked(p, refused) ==
  {q \in Prefixes(p) : ~ IsDir(tree, q) /\ (q \in DOMAIN tree \/ q \in refused)}

(* mkdirall(p) succeeds just when nothing is in the way, makes every        *)
(* directory up to the obstacle and nothing else, and keeps what there was. *)
MakesPath(p, refused) ==
  LET made == MkdirAll(tree, p, refused)
      stops == Blocked(p, refused)
      reached == {q \in Prefixes(p) : \A s \in stops : Len(q) < Len(s)}
  IN /\ made.ok <=> stops = {}
     /\ made.tree = [q \in DOMAIN tree \cup reached |->
                       IF q \in DOMAIN tree THEN tree[q] ELSE "dir"]

(* Every filesystem main has mounted is in the tree for all to see: none    *)
(* has been mounted over another or where its mount point is hidden.       *)
MountsVisible ==
  \A m \in mounted :
    /\ IsDir(tree, Target[m])
    /\ \A p \in DOMAIN Content(m) : Target[m] \o p \in DOMAIN tree
=============================================================================
