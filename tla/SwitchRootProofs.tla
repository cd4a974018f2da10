-------------------------- MODULE SwitchRootProofs --------------------------
(***************************************************************************)
(* What SwitchRoot guarantees for any target: any set of directories, any  *)
(* symbolic links, any initramfs, and whichever call fails.                *)
(***************************************************************************)
EXTENDS SwitchRoot, SequenceTheorems, Induction

(* The stages at which the current directory is known to be the target. *)
InTarget == {"chroot", "rootdir", "compatible", "memfd", "timer", "seek",
             "exec_systemd", "exec", "systemd", "init"}

(* What each stage may rely on.  The sanity check of delete_ramfs is what   *)
(* makes `mounted` known, and the order of the calls does the rest.        *)
SwitchInv ==
  /\ moved \in 0..4
  /\ at \in [Names -> {"initramfs", "target", "detached"}]
  /\ stage \notin {"move", "failed"} => moved = 4
  /\ \A i \in 1..4 : i <= moved =>
       at[Api[i]] = IF Api[i] \in dirs THEN "target" ELSE "detached"
  /\ \A i \in 1..4 : i > moved => at[Api[i]] = "initramfs"
  /\ stage \in InTarget \cup {"currdir", "chdir"} => mounted
  /\ stage \in InTarget => top = "target" /\ cwd = "target"
  /\ stage \in InTarget \ {"chroot"} => root = "target"
  /\ <<"bin", "busybox">> \in ramfs

LEMMA ApiMounts ==
  /\ Len(Api) = 4
  /\ Names = {Api[1], Api[2], Api[3], Api[4]}
  /\ Api[1] = "run" /\ Api[2] = "dev" /\ Api[3] = "proc" /\ Api[4] = "sys"
  BY DEF Api, Names

(* delete_recursive does not get below the first level, whatever it removes. *)
LEMMA ShellKept == <<"bin", "busybox">> \notin Removed
<1>. SUFFICES ASSUME <<"bin", "busybox">> \in Removed PROVE FALSE
  OBVIOUS
<1>. DEFINE b == <<"bin", "busybox">>
<1>1. Len(b) = 2 /\ b[1] = "bin"
  OBVIOUS
<1>2. Descends(b[1])
  BY <1>1 DEF Removed
<1>. QED
  BY <1>1, <1>2 DEF Descends

LEMMA SwitchInit == Init => SwitchInv
<1>. SUFFICES ASSUME Init PROVE SwitchInv
  OBVIOUS
<1>1. <<"bin", "busybox">> \in ramfs
  <2>1. <<"bin", "busybox">> # <<"init">>
    <3>1. Len(<<"bin", "busybox">>) = 2 /\ Len(<<"init">>) = 1
      OBVIOUS
    <3>. QED  BY <3>1
  <2>. QED  BY <2>1 DEF Init, InitrdFiles
<1>. QED
  BY <1>1, ApiMounts DEF Init, SwitchInv, InTarget

LEMMA SwitchStep == SwitchInv /\ [Next]_vars => SwitchInv'
<1>. SUFFICES ASSUME SwitchInv, [Next]_vars PROVE SwitchInv'
  OBVIOUS
<1>. USE DEF SwitchInv, InTarget, given, place, handover
<1>1. CASE MoveMount
  <2>. DEFINE m == Api[moved + 1]
  <2>1. /\ stage = "move" /\ moved < 4 /\ moved' = moved + 1
        /\ at' = [at EXCEPT ![m] = IF m \in dirs THEN "target" ELSE "detached"]
        /\ UNCHANGED <<stage, dirs, mounted, top, cwd, root, ramfs>>
    BY <1>1, ApiMounts DEF MoveMount
  <2>2. m \in Names
    BY <2>1, ApiMounts
  <2>3. ASSUME NEW i \in 1..4, i <= moved'
        PROVE  at'[Api[i]] = IF Api[i] \in dirs THEN "target" ELSE "detached"
    <3>1. CASE i = moved + 1
      BY <3>1, <2>1, <2>2
    <3>2. CASE i <= moved
      <4>1. Api[i] \in Names /\ Api[i] # m
        BY <3>2, <2>1, ApiMounts
      <4>. QED  BY <4>1, <3>2, <2>1
    <3>. QED  BY <3>1, <3>2, <2>1, <2>3
  <2>4. ASSUME NEW i \in 1..4, i > moved'
        PROVE  at'[Api[i]] = "initramfs"
    <3>1. i > moved /\ Api[i] \in Names /\ Api[i] # m
      BY <2>1, <2>4, ApiMounts
    <3>. QED  BY <3>1, <2>1
  <2>. QED  BY <2>1, <2>2, <2>3, <2>4
<1>2. CASE MoveMountFails
  BY <1>2 DEF MoveMountFails, Bail
<1>3. CASE MoveMountEnds
  BY <1>3, ApiMounts DEF MoveMountEnds
<1>4. CASE DeleteRamfs
  BY <1>4, ShellKept DEF DeleteRamfs, FullSanityCheck, Device
<1>5. CASE DeleteRamfsFails
  BY <1>5 DEF DeleteRamfsFails, Bail
<1>6. CASE Chdir
  BY <1>6 DEF Chdir
<1>7. CASE MoveMountCurrdir
  BY <1>7 DEF MoveMountCurrdir
<1>8. CASE Chroot
  BY <1>8 DEF Chroot
<1>9. CASE ChdirRoot
  BY <1>9 DEF ChdirRoot
<1>10. CASE SwitchFails
  BY <1>10 DEF SwitchFails, Bail
<1>11. CASE FollowLink
  BY <1>11 DEF FollowLink
<1>12. CASE Decide
  BY <1>12 DEF Decide
<1>13. CASE GetSystemdState
  BY <1>13 DEF GetSystemdState
<1>14. CASE TimerWrite
  BY <1>14 DEF TimerWrite
<1>15. CASE TimerSeek
  BY <1>15 DEF TimerSeek
<1>16. CASE SystemdStateFails
  BY <1>16 DEF SystemdStateFails, Bail
<1>17. CASE ExecSystemd
  BY <1>17 DEF ExecSystemd, Execute, Bail
<1>18. CASE Exec
  BY <1>18 DEF Exec, Execute, Bail
<1>19. CASE UNCHANGED vars
  BY <1>19 DEF vars
<1>. QED
  BY <1>1, <1>2, <1>3, <1>4, <1>5, <1>6, <1>7, <1>8, <1>9, <1>10, <1>11,
     <1>12, <1>13, <1>14, <1>15, <1>16, <1>17, <1>18, <1>19 DEF Next

LEMMA SwitchInvariant == Spec => []SwitchInv
  BY SwitchInit, SwitchStep, PTL DEF Spec

(* The two actions that compute a new value, and what they leave alone. *)
LEMMA MoveMountFrame ==
  MoveMount => stage = "move" /\ UNCHANGED <<stage, given, ramfs, place, handover, exit>>
  BY Zenon DEF MoveMount

LEMMA TimerWriteFrame ==
  TimerWrite => /\ stage = "timer" /\ stage' = "seek"
                /\ UNCHANGED <<given, ramfs, place, path, followed, exit>>
  BY Zenon DEF TimerWrite

LEMMA WholeLine ==
  ASSUME NEW a, NEW b
  PROVE  Len(<<a, b>>) = 2 /\ SubSeq(<<a, b>>, 1, 2) = <<a, b>>
<1>1. <<a, b>> \in Seq({a, b}) /\ Len(<<a, b>>) = 2
  OBVIOUS
<1>. QED
  BY <1>1, SubSeqFull

(* What the systemd-state holds at each stage. *)
Written == <<Timestamp("realtime"), Timestamp("monotonic")>>

MemfdInv ==
  LET empty == [text |-> <<>>, offset |-> 0]
      line  == [text |-> Written, offset |-> 2]
      ready == [text |-> Written, offset |-> 0]
  IN /\ memfd \in {empty, line, ready}
     /\ stage \notin {"seek", "exec_systemd", "systemd", "failed"} => memfd = empty
     /\ stage = "seek" => memfd = line
     /\ stage \in {"exec_systemd", "systemd"} => memfd = ready

LEMMA MemfdStep == MemfdInv /\ [Next]_vars => MemfdInv'
<1>. SUFFICES ASSUME MemfdInv, [Next]_vars PROVE MemfdInv'
  OBVIOUS
<1>. USE DEF MemfdInv, Written, given, place, handover, Timestamp
<1>1. CASE MoveMount \/ MoveMountFails \/ MoveMountEnds
  BY <1>1, MoveMountFrame DEF MoveMountFails, MoveMountEnds, Bail
<1>2. CASE DeleteRamfs \/ DeleteRamfsFails
  BY <1>2 DEF DeleteRamfs, DeleteRamfsFails, Bail
<1>3. CASE Chdir \/ MoveMountCurrdir \/ Chroot \/ ChdirRoot
  BY <1>3 DEF Chdir, MoveMountCurrdir, Chroot, ChdirRoot
<1>4. CASE SwitchFails
  BY <1>4 DEF SwitchFails, Bail
<1>5. CASE FollowLink \/ Decide
  BY <1>5 DEF FollowLink, Decide
<1>6. CASE GetSystemdState \/ SystemdStateFails
  BY <1>6 DEF GetSystemdState, SystemdStateFails, Bail
<1>7. CASE TimerWrite
  <2>1. /\ stage = "timer" /\ stage' = "seek" /\ clocks' = clocks
        /\ memfd.text = <<>> /\ memfd.offset = 0
        /\ memfd' = [text |-> SubSeq(memfd.text, 1, memfd.offset) \o Written,
                     offset |-> memfd.offset + Len(Written)]
    BY <1>7 DEF TimerWrite
  <2>2. SubSeq(memfd.text, 1, memfd.offset) = <<>>
    BY <2>1
  <2>3. <<>> \o Written = Written /\ Len(Written) = 2
    OBVIOUS
  <2>4. Written' = Written
    BY <2>1
  <2>5. memfd' = [text |-> Written', offset |-> 2]
    BY <2>1, <2>2, <2>3, <2>4
  <2>. QED  BY <2>1, <2>5
<1>8. CASE TimerSeek
  BY <1>8 DEF TimerSeek
<1>9. CASE ExecSystemd \/ Exec
  BY <1>9 DEF ExecSystemd, Exec, Execute, Bail
<1>10. CASE UNCHANGED vars
  BY <1>10 DEF vars
<1>. QED
  BY <1>1, <1>2, <1>3, <1>4, <1>5, <1>6, <1>7, <1>8, <1>9, <1>10 DEF Next

LEMMA MemfdInvariant == Spec => []MemfdInv
<1>1. Init => MemfdInv
  BY DEF Init, MemfdInv
<1>. QED
  BY <1>1, MemfdStep, PTL DEF Spec

(***************************************************************************)
(* systemd reads both timestamps from the start of the descriptor it is    *)
(* given, whichever clocks could be read (InitramfsTimer::write).          *)
(***************************************************************************)
THEOREM SystemdReadsState == Spec => []StateReadable
<1>1. MemfdInv => StateReadable
  <2>. SUFFICES ASSUME MemfdInv PROVE StateReadable
    OBVIOUS
  <2>1. CASE stage = "systemd"
    <3>1. memfd.text = Written /\ memfd.offset = 0
      BY <2>1 DEF MemfdInv
    <3>2. Len(Written) = 2 /\ SubSeq(Written, 1, 2) = Written
      BY WholeLine DEF Written
    <3>. QED  BY <2>1, <3>1, <3>2 DEF StateReadable, Written
  <2>2. CASE stage # "systemd"
    BY <2>2 DEF MemfdInv, StateReadable
  <2>. QED  BY <2>1, <2>2
<1>. QED
  BY <1>1, MemfdInvariant, PTL

(***************************************************************************)
(* What TypeOK says of the stages of MoveMount is in SwitchInv.            *)
(***************************************************************************)
TypeInv ==
  /\ stage \in Stages
  /\ ramfs \subseteq InitrdFiles
  /\ top \in {"initramfs", "target"}
  /\ cwd \in {"initramfs", "target"}
  /\ root \in {"initramfs", "target"}
  /\ followed \in 0..MaxLinks
  /\ exit \in {0, 50, 51, 52, 53, 54, 55, 100, 101}
  /\ exit # 0 <=> stage = "failed"

GivenInv ==
  /\ mounted \in BOOLEAN
  /\ dirs \subseteq Names /\ fstype \in {"ramfs", "tmpfs", "other"}
  /\ links \in LinkTrees
  /\ clocks \in [Clocks -> BOOLEAN]

LEMMA GivenKept == [Next]_vars => UNCHANGED given
  BY Zenon
     DEF Next, MoveMount, MoveMountFails, MoveMountEnds, DeleteRamfs,
         DeleteRamfsFails, Chdir, MoveMountCurrdir, Chroot, ChdirRoot,
         SwitchFails, FollowLink, Decide, GetSystemdState, TimerWrite,
         TimerSeek, SystemdStateFails, ExecSystemd, Exec, Execute, vars, given

LEMMA GivenStep == GivenInv /\ [Next]_vars => GivenInv'
<1>1. ASSUME GivenInv, UNCHANGED given PROVE GivenInv'
  BY <1>1 DEF GivenInv, given
<1>. QED
  BY <1>1, GivenKept

LEMMA TypeStep == TypeInv /\ [Next]_vars => TypeInv'
<1>. SUFFICES ASSUME TypeInv, [Next]_vars PROVE TypeInv'
  OBVIOUS
<1>. USE SwitchAssumption DEF TypeInv, Stages, given, place, handover
<1>1. CASE MoveMount \/ MoveMountFails \/ MoveMountEnds
  BY <1>1, MoveMountFrame DEF MoveMountFails, MoveMountEnds, Bail
<1>2. CASE DeleteRamfs \/ DeleteRamfsFails
  BY <1>2 DEF DeleteRamfs, DeleteRamfsFails, Bail
<1>3. CASE Chdir \/ MoveMountCurrdir \/ Chroot \/ ChdirRoot
  BY <1>3 DEF Chdir, MoveMountCurrdir, Chroot, ChdirRoot, SystemRoot
<1>4. CASE SwitchFails
  BY <1>4 DEF SwitchFails, Bail
<1>5. CASE FollowLink
  BY <1>5 DEF FollowLink
<1>6. CASE Decide
  BY <1>6 DEF Decide
<1>7. CASE GetSystemdState \/ TimerWrite \/ TimerSeek \/ SystemdStateFails
  BY <1>7, TimerWriteFrame DEF GetSystemdState, TimerSeek, SystemdStateFails, Bail
<1>8. CASE ExecSystemd \/ Exec
  BY <1>8 DEF ExecSystemd, Exec, Execute, Bail
<1>9. CASE UNCHANGED vars
  BY <1>9 DEF vars
<1>. QED
  BY <1>1, <1>2, <1>3, <1>4, <1>5, <1>6, <1>7, <1>8, <1>9 DEF Next

(***************************************************************************)
(* Every reachable state is well typed, and an API filesystem has left the *)
(* initramfs exactly when the loop of move_mount is past it.               *)
(***************************************************************************)
THEOREM SwitchTypeCorrect == Spec => []TypeOK
<1>1. Init => TypeInv
  BY SwitchAssumption DEF Init, TypeInv, Stages
<1>2. Spec => []TypeInv
  BY <1>1, TypeStep, PTL DEF Spec
<1>3. Spec => []GivenInv
  <2>1. Init => GivenInv
    BY DEF Init, GivenInv
  <2>. QED  BY <2>1, GivenStep, PTL DEF Spec
<1>4. TypeInv /\ GivenInv /\ SwitchInv /\ MemfdInv => TypeOK
  <2>. SUFFICES ASSUME TypeInv, GivenInv, SwitchInv, MemfdInv PROVE TypeOK
    OBVIOUS
  <2>1. moved \in 0..Len(Api) /\ at \in [Names -> {"initramfs", "target", "detached"}]
    BY ApiMounts DEF SwitchInv
  <2>2. ASSUME NEW i \in DOMAIN Api
        PROVE  i <= moved <=> at[Api[i]] # "initramfs"
    <3>1. i \in 1..4
      BY DEF Api
    <3>2. CASE i <= moved
      BY <3>1, <3>2 DEF SwitchInv
    <3>3. CASE i > moved
      BY <3>1, <3>3 DEF SwitchInv
    <3>. QED  BY <3>1, <3>2, <3>3 DEF SwitchInv
  <2>3. memfd.offset \in 0..Len(memfd.text)
    <3>1. Len(Written) = 2 /\ 0 \in 0..Len(<<>>)
      BY DEF Written
    <3>2. CASE memfd = [text |-> <<>>, offset |-> 0]
      <4>1. memfd.text = <<>> /\ memfd.offset = 0
        BY <3>2
      <4>. QED  BY <3>1, <4>1
    <3>3. CASE memfd = [text |-> Written, offset |-> 2]
      <4>1. memfd.text = Written /\ memfd.offset = 2
        BY <3>3
      <4>2. Len(memfd.text) = 2
        BY <3>1, <4>1
      <4>. QED  BY <4>1, <4>2
    <3>4. CASE memfd = [text |-> Written, offset |-> 0]
      <4>1. memfd.text = Written /\ memfd.offset = 0
        BY <3>4
      <4>. QED  BY <3>1, <4>1
    <3>5. \/ memfd = [text |-> <<>>, offset |-> 0]
          \/ memfd = [text |-> Written, offset |-> 2]
          \/ memfd = [text |-> Written, offset |-> 0]
      BY DEF MemfdInv
    <3>. QED  BY <3>2, <3>3, <3>4, <3>5
  <2>. QED  BY <2>1, <2>2, <2>3 DEF TypeInv, GivenInv, TypeOK
<1>. QED
  BY <1>2, <1>3, <1>4, SwitchInvariant, MemfdInvariant, PTL

(***************************************************************************)
(* Init is executed only in a target that is mounted, is / and is the      *)
(* current directory, with every API filesystem moved or detached          *)
(* (exec_target_init).                                                     *)
(***************************************************************************)
THEOREM InitRunsInTarget == Spec => []EndsInTarget
<1>1. SwitchInv => EndsInTarget
  <2>. SUFFICES ASSUME SwitchInv, Executed PROVE
         /\ mounted /\ top = "target" /\ cwd = "target" /\ root = "target"
         /\ \A m \in Names : at[m] = IF m \in dirs THEN "target" ELSE "detached"
    BY DEF EndsInTarget
  <2>1. mounted /\ top = "target" /\ cwd = "target" /\ root = "target"
    BY DEF SwitchInv, Executed, InTarget
  <2>2. \A i \in 1..4 : at[Api[i]] = IF Api[i] \in dirs THEN "target" ELSE "detached"
    BY DEF SwitchInv, Executed
  <2>. QED  BY <2>1, <2>2, ApiMounts
<1>. QED
  BY <1>1, SwitchInvariant, PTL

(***************************************************************************)
(* A failure before the target is the root leaves the emergency shell of   *)
(* the initramfs in place (spawn_emergency_shell).                         *)
(***************************************************************************)
THEOREM EmergencyShellKept == Spec => []ShellStillThere
<1>1. SwitchInv => ShellStillThere
  BY DEF SwitchInv, ShellStillThere
<1>. QED
  BY <1>1, SwitchInvariant, PTL

(***************************************************************************)
(* Following links.                                                        *)
(***************************************************************************)
(* From p each place leads to the next, n links long.                      *)
Chain(f, l, p, n) == f[0] = p /\ \A k \in 1..n : f[k] = Target(l, f[k - 1])

(* There is a chain of each length, and all of them end at the same place. *)
LEMMA ChainExists ==
  ASSUME NEW l, NEW p, NEW n \in Nat
  PROVE  \E f : f = [k \in 0..n |-> f[k]] /\ Chain(f, l, p, n)
<1>. DEFINE X == {p} \cup {Walk(Front(q), l[q]) : q \in DOMAIN l}
            step == [s \in (1..n) \X X |-> Target(l, s[2])]
<1>1. \A k \in 1..n : \A x \in X : step[<<k, x>>] = Target(l, x)
  OBVIOUS
<1>2. \A x \in X : Target(l, x) \in X
  BY DEF Target
<1>3. p \in X
  OBVIOUS
<1>. HIDE DEF X, step
<1>4. \A k \in 1..n : \A x \in X : step[<<k, x>>] \in X
  BY <1>1, <1>2
<1>5. PICK f : Follows(f, n, X, p, step)
  BY <1>3, <1>4, RecursionExists
<1>6. f \in [0..n -> X] /\ f[0] = p /\ \A k \in 1..n : f[k] = step[<<k, f[k - 1]>>]
  BY <1>5 DEF Follows
<1>7. ASSUME NEW k \in 1..n PROVE f[k] = Target(l, f[k - 1])
  <2>1. f[k - 1] \in X
    BY <1>6
  <2>. QED  BY <1>1, <1>6, <2>1
<1>. QED
  BY <1>6, <1>7 DEF Chain, X

LEMMA ChainUnique ==
  ASSUME NEW l, NEW p, NEW n \in Nat, NEW f, NEW g,
         Chain(f, l, p, n), Chain(g, l, p, n)
  PROVE  f[n] = g[n]
<1>. DEFINE T == {k \in 0..n : f[k] = g[k]}
<1>1. 0 \in T
  BY DEF Chain
<1>2. ASSUME NEW k \in 0..(n - 1), k \in T PROVE k + 1 \in T
  <2>1. k + 1 \in 1..n /\ (k + 1) - 1 = k /\ k + 1 \in 0..n
    OBVIOUS
  <2>2. f[k + 1] = Target(l, f[k]) /\ g[k + 1] = Target(l, g[k])
    BY <2>1 DEF Chain
  <2>. QED  BY <1>2, <2>1, <2>2
<1>3. 0..n \subseteq T
  <2>. HIDE DEF T
  <2>. QED  BY <1>1, <1>2, IntervalInduction
<1>. QED
  BY <1>3

(* The kernel ends up where the chain does that has every link in it.      *)
LEMMA RealPathEnds ==
  ASSUME IsFiniteSet(DOMAIN links), NEW p, NEW f,
         Chain(f, links, p, Cardinality(DOMAIN links))
  PROVE  RealPath(p) = f[Cardinality(DOMAIN links)]
<1>. DEFINE n == Cardinality(DOMAIN links)
            Is(s) == s = [k \in 0..n |-> IF k = 0 THEN p ELSE Target(links, s[k - 1])]
            step == CHOOSE s : Is(s)
<1>1. n \in Nat
  BY FS_CardinalityType
<1>2. RealPath(p) = step[n]
  BY DEF RealPath
<1>3. Chain(f, links, p, n)
  OBVIOUS
<1>. HIDE DEF n
<1>4. PICK g : g = [k \in 0..n |-> g[k]] /\ Chain(g, links, p, n)
  BY <1>1, ChainExists
<1>5. g = [k \in 0..n |-> IF k = 0 THEN p ELSE Target(links, g[k - 1])]
  <2>1. ASSUME NEW k \in 0..n
        PROVE  g[k] = IF k = 0 THEN p ELSE Target(links, g[k - 1])
    <3>1. k = 0 \/ k \in 1..n
      BY <1>1
    <3>. QED  BY <1>4, <3>1 DEF Chain
  <2>. QED  BY <1>4, <2>1, Zenon
<1>6. Is(step)
  BY <1>5
<1>7. Chain(step, links, p, n)
  <2>. HIDE DEF step
  <2>1. \A k \in 0..n : step[k] = IF k = 0 THEN p ELSE Target(links, step[k - 1])
    BY <1>6
  <2>2. 0 \in 0..n /\ \A k \in 1..n : k \in 0..n /\ k # 0
    BY <1>1
  <2>. QED  BY <2>1, <2>2 DEF Chain
<1>. HIDE DEF step, Is
<1>8. f[n] = step[n]
  BY <1>1, <1>3, <1>7, ChainUnique
<1>. QED
  BY <1>2, <1>8 DEF n

(* From the target of a link the kernel ends up where it does from the link, *)
(* unless that is a link again.                                            *)
LEMMA RealPathOfTarget ==
  ASSUME IsFiniteSet(DOMAIN links), NEW q, RealPath(q) \notin DOMAIN links
  PROVE  RealPath(Target(links, q)) = RealPath(q)
<1>. DEFINE n == Cardinality(DOMAIN links)
<1>1. n \in Nat
  BY FS_CardinalityType
<1>2. PICK f : Chain(f, links, q, n)
  BY <1>1, ChainExists
<1>3. RealPath(q) = f[n]
  BY <1>2, RealPathEnds
<1>. DEFINE g == [k \in 0..n |-> IF k = n THEN f[n] ELSE f[k + 1]]
<1>. HIDE DEF n
<1>4. Target(links, f[n]) = f[n]
  BY <1>3 DEF Target
<1>5. g[0] = Target(links, q)
  <2>1. CASE n = 0
    BY <1>1, <1>2, <1>4, <2>1 DEF Chain
  <2>2. CASE n # 0
    BY <1>1, <1>2, <2>2 DEF Chain
  <2>. QED  BY <2>1, <2>2
<1>6. ASSUME NEW k \in 1..n PROVE g[k] = Target(links, g[k - 1])
  <2>1. g[k - 1] = f[k]
    BY <1>1
  <2>2. CASE k = n
    BY <1>1, <1>4, <2>1, <2>2
  <2>3. CASE k # n
    <3>1. g[k] = f[k + 1] /\ k + 1 \in 1..n /\ (k + 1) - 1 = k
      BY <1>1, <2>3
    <3>. QED  BY <1>2, <2>1, <3>1 DEF Chain
  <2>. QED  BY <2>2, <2>3
<1>7. g[n] = f[n]
  BY <1>1
<1>. HIDE DEF g
<1>8. RealPath(Target(links, q)) = g[n]
  BY <1>5, <1>6, RealPathEnds DEF n, Chain
<1>. QED
  BY <1>3, <1>7, <1>8

(***************************************************************************)
(* The file is_systemd_compatible decides about is the one execv executes, *)
(* however many links it is away, as long as there is one and its links    *)
(* read the same from / as from where they are (is_systemd_compatible).    *)
(***************************************************************************)
(* Every link followed leads closer to the file that init is.              *)
LeadsToInit ==
  PlainLinks /\ InitExists =>
    /\ stage \notin DecidedStages \cup {"failed"} => RealPath(Absolute(path)) = InitFile
    /\ stage \in DecidedStages => path = InitFile

LEMMA LinksKept ==
  ASSUME links' = links
  PROVE  /\ PlainLinks' = PlainLinks /\ InitExists' = InitExists
         /\ InitFile' = InitFile
         /\ (RealPath(Absolute(path)))' = RealPath(Absolute(path'))
  BY DEF PlainLinks, InitExists, InitFile, RealPath

LEMMA FollowLinkLeads ==
  ASSUME GivenInv, FollowLink, LeadsToInit, PlainLinks, InitExists
  PROVE  RealPath(Absolute(path')) = InitFile
<1>. DEFINE q == Absolute(path)
<1>1. q \in DOMAIN links /\ path' = links[q]
  BY DEF FollowLink
<1>2. RealPath(q) = InitFile
  BY DEF FollowLink, LeadsToInit, DecidedStages
<1>3. Absolute(path') = Target(links, q)
  <2>1. Absolute(links[q]) = Walk(Front(q), links[q])
    BY <1>1 DEF PlainLinks
  <2>. HIDE DEF q
  <2>. QED  BY <1>1, <2>1 DEF Target
<1>4. IsFiniteSet(DOMAIN links)
  BY SwitchAssumption DEF GivenInv
<1>5. RealPath(q) \notin DOMAIN links
  BY <1>2 DEF InitExists
<1>. HIDE DEF q
<1>6. RealPath(Target(links, q)) = RealPath(q)
  BY <1>4, <1>5, RealPathOfTarget
<1>. QED
  BY <1>2, <1>3, <1>6

(* The other calls take no link, and none goes back to before the decision. *)
LEMMA OtherCallsKeepPath ==
  ASSUME [Next]_vars, ~ FollowLink, ~ Decide
  PROVE  /\ path' = path
         /\ stage' \in DecidedStages => stage \in DecidedStages
         /\ stage' \notin DecidedStages \cup {"failed"} =>
              stage \notin DecidedStages \cup {"failed"}
<1>. USE DEF DecidedStages, handover
<1>1. CASE MoveMount \/ MoveMountFails \/ MoveMountEnds
  BY <1>1, MoveMountFrame DEF MoveMountFails, MoveMountEnds, Bail
<1>2. CASE DeleteRamfs \/ DeleteRamfsFails
  BY <1>2 DEF DeleteRamfs, DeleteRamfsFails, Bail
<1>3. CASE Chdir \/ MoveMountCurrdir \/ Chroot \/ ChdirRoot
  BY <1>3 DEF Chdir, MoveMountCurrdir, Chroot, ChdirRoot
<1>4. CASE SwitchFails
  BY <1>4 DEF SwitchFails, Bail
<1>5. CASE GetSystemdState \/ TimerWrite \/ TimerSeek \/ SystemdStateFails
  BY <1>5, TimerWriteFrame DEF GetSystemdState, TimerSeek, SystemdStateFails, Bail
<1>6. CASE ExecSystemd \/ Exec
  BY <1>6 DEF ExecSystemd, Exec, Execute, Bail
<1>7. CASE UNCHANGED vars
  BY <1>7 DEF vars
<1>. QED
  BY <1>1, <1>2, <1>3, <1>4, <1>5, <1>6, <1>7 DEF Next

LEMMA LeadsStep == GivenInv /\ LeadsToInit /\ [Next]_vars => LeadsToInit'
<1>. SUFFICES ASSUME GivenInv, LeadsToInit, [Next]_vars, PlainLinks', InitExists'
              PROVE  /\ stage' \notin DecidedStages \cup {"failed"} =>
                          (RealPath(Absolute(path)))' = InitFile'
                     /\ stage' \in DecidedStages => path' = InitFile'
  BY Zenon DEF LeadsToInit, DecidedStages
<1>1. links' = links
  BY GivenKept DEF given
<1>2. PlainLinks /\ InitExists /\ InitFile' = InitFile
      /\ (RealPath(Absolute(path)))' = RealPath(Absolute(path'))
  BY <1>1, LinksKept
<1>3. CASE FollowLink
  <2>1. stage' = "compatible"
    BY <1>3 DEF FollowLink
  <2>2. RealPath(Absolute(path')) = InitFile
    BY <1>2, <1>3, FollowLinkLeads
  <2>. QED  BY <1>2, <2>1, <2>2 DEF DecidedStages
<1>4. CASE Decide
  <2>1. stage = "compatible" /\ path' = Canonical(path) /\ stage' \in {"memfd", "exec"}
    BY <1>4, Zenon DEF Decide
  <2>2. RealPath(Absolute(path)) = InitFile
    BY <1>2, <2>1 DEF LeadsToInit, DecidedStages
  <2>3. Canonical(path) = InitFile
    BY <1>2, <2>2 DEF Canonical, Exists
  <2>. QED  BY <1>2, <2>1, <2>3 DEF DecidedStages
<1>5. ASSUME ~ FollowLink, ~ Decide
      PROVE  /\ path' = path
             /\ stage' \in DecidedStages => stage \in DecidedStages
             /\ stage' \notin DecidedStages \cup {"failed"} =>
                  stage \notin DecidedStages \cup {"failed"}
  BY <1>5, OtherCallsKeepPath
<1>. QED
  BY <1>2, <1>3, <1>4, <1>5 DEF LeadsToInit

THEOREM DecidesAboutInit == Spec => []InitResolved
<1>1. Init => LeadsToInit /\ GivenInv
  BY DEF Init, LeadsToInit, GivenInv, InitFile, DecidedStages
<1>2. LeadsToInit => InitResolved
  BY DEF LeadsToInit, InitResolved
<1>. QED
  BY <1>1, <1>2, GivenStep, LeadsStep, PTL DEF Spec

(***************************************************************************)
(* Each call of exec_target_init is a step of Boot from its stage to the    *)
(* next or to the emergency shell, or one that Boot does not see.          *)
(***************************************************************************)
LEMMA BootPasses ==
  ASSUME NEW p \in Main!SwitchSteps, BootStage = p[1], BootStage' = p[2], exit' = exit
  PROVE  Main!MainThread
<1>1. Main!Pass(p)
  BY DEF Main!Pass, Main!Goto
<1>2. p \in Main!Plain
  BY DEF Main!Plain
<1>. QED
  BY <1>1, <1>2 DEF Main!MainThread

LEMMA BootBails ==
  ASSUME NEW p \in Main!SwitchSteps, BootStage = p[1], BootStage' = "busybox", exit' = p[3]
  PROVE  Main!Failure
<1>1. Main!Fail(p)
  BY DEF Main!Fail, Main!Bail, Main!SwitchSteps
<1>2. p \in Main!Plain
  BY DEF Main!Plain
<1>. QED
  BY <1>1, <1>2 DEF Main!Failure

LEMMA BootStep == [Next]_vars => [Main!MainThread \/ Main!Failure]_<<BootStage, exit>>
<1>. SUFFICES ASSUME [Next]_vars
              PROVE  [Main!MainThread \/ Main!Failure]_<<BootStage, exit>>
  OBVIOUS
<1>. USE DEF BootStage, Executed
<1>1. CASE MoveMount \/ FollowLink \/ GetSystemdState \/ TimerWrite \/ UNCHANGED vars
  BY <1>1 DEF MoveMount, FollowLink, GetSystemdState, TimerWrite, handover, vars
<1>2. CASE MoveMountFails \/ MoveMountEnds
  BY <1>2, BootPasses, BootBails DEF Main!SwitchSteps, MoveMountFails, MoveMountEnds, Bail
<1>3. CASE DeleteRamfs \/ DeleteRamfsFails
  BY <1>3, BootPasses, BootBails DEF Main!SwitchSteps, DeleteRamfs, DeleteRamfsFails, Bail
<1>4. CASE Chdir \/ MoveMountCurrdir \/ Chroot \/ ChdirRoot
  BY <1>4, BootPasses DEF Main!SwitchSteps, Chdir, MoveMountCurrdir, Chroot, ChdirRoot
<1>5. CASE SwitchFails
  BY <1>5, BootBails DEF Main!SwitchSteps, SwitchFails, Bail
<1>6. CASE Decide
  BY <1>6, BootPasses DEF Main!SwitchSteps, Decide
<1>7. CASE TimerSeek \/ SystemdStateFails
  BY <1>7, BootPasses, BootBails DEF Main!SwitchSteps, TimerSeek, SystemdStateFails, Bail
<1>8. CASE ExecSystemd \/ Exec
  BY <1>8 DEF ExecSystemd, Exec, Execute, Bail, Main!Exec, Main!ExecFails, Main!Goto,
              Main!Bail, Main!MainThread, Main!Failure
<1>. QED
  BY <1>1, <1>2, <1>3, <1>4, <1>5, <1>6, <1>7, <1>8 DEF Next

(***************************************************************************)
(* exec_target_init, call by call, implements the last stages of Boot, for  *)
(* any target and whichever call fails.                                    *)
(***************************************************************************)
THEOREM SwitchImplementsStages == Spec => ImplementsStages
<1>1. Init => BootStage = "move" /\ exit = 0
  BY DEF Init, BootStage, Executed
<1>. QED
  BY <1>1, BootStep, PTL DEF Spec, ImplementsStages
=============================================================================
