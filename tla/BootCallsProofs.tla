-------------------------- MODULE BootCallsProofs --------------------------
(***************************************************************************)
(* What the boot can count on, for any timeout and any failures: first the *)
(* stages of Boot; then that the calls of BootCalls implement them; then   *)
(* the console, and the mount tree, for any initramfs, sysfs and [console]. *)
(***************************************************************************)
EXTENDS BootCalls, MountsProofs, VconsoleProofs


\* Actions of main that change nothing but the stage and the exit code.
OnlyStage == UNCHANGED <<thread, forced, woken, clock, left>>

(* Types.                                                                  *)

LEMMA EarlyStages ==
  ASSUME NEW p \in EarlySteps
  PROVE  p[2] \in Early /\ p[3] \in Nat
<1>1. p[2] \in Early BY DEF EarlySteps, Early
<1>2. p[3] \in Nat BY DEF EarlySteps
<1> QED BY <1>1, <1>2

LEMMA SwitchStages ==
  ASSUME NEW p \in SwitchSteps
  PROVE  p[1] \in Switching /\ p[2] \in Switching /\ p[3] \in Nat
<1>1. p[1] \in Switching BY DEF SwitchSteps, Switching
<1>2. p[2] \in Switching BY DEF SwitchSteps, Switching
<1>3. p[3] \in Nat BY DEF SwitchSteps
<1> QED BY <1>1, <1>2, <1>3

LEMMA StopStages ==
  ASSUME NEW s \in Stops
  PROVE  s[1] \in Thread /\ s[3] \in Stopping /\ s[4] \in Stopping
<1>1. CASE s = <<"udev", "tell_udev", "join_udev", "tell_block">>
  BY <1>1 DEF Thread, Stopping
<1>2. CASE s = <<"block", "tell_block", "join_block", "tell_modalias">>
  BY <1>2 DEF Thread, Stopping
<1>3. CASE s = <<"modalias", "tell_modalias", "join_modalias", "wait">>
  BY <1>3 DEF Thread, Stopping
<1> QED BY <1>1, <1>2, <1>3 DEF Stops

LEMMA TimeLeftType ==
  ASSUME NEW now \in Nat
  PROVE  LET time == TimeLeft(0, now) IN
         time \in Int /\ (time = Never \/ time = Expired \/ time <= MountTimeout)
<1> DEFINE elapsed == IF 0 >= now THEN 0 - now ELSE 0
<1>1. elapsed = 0
  OBVIOUS
<1>2. MountTimeout \in Int
  BY BootAssumption
<1>3. CASE HasTimeout
  BY <1>1, <1>2, <1>3 DEF TimeLeft, HasTimeout
<1>4. CASE ~HasTimeout
  BY <1>4 DEF TimeLeft, Never
<1> QED BY <1>3, <1>4

\* With a saturating subtraction the timeout never expires.
LEMMA NeverExpires ==
  ASSUME NEW now \in Nat
  PROVE  TimeLeft(0, now) # Expired
<1> DEFINE elapsed == IF 0 >= now THEN 0 - now ELSE 0
<1>1. elapsed = 0
  OBVIOUS
<1>2. MountTimeout \in Int
  BY BootAssumption
<1>3. CASE HasTimeout
  BY <1>1, <1>2, <1>3 DEF TimeLeft, HasTimeout, Expired
<1>4. CASE ~HasTimeout
  BY <1>4 DEF TimeLeft, Never, Expired
<1> QED BY <1>3, <1>4

LEMMA TypeInit == Init => TypeOK
<1> SUFFICES ASSUME Init PROVE TypeOK
  OBVIOUS
<1>1. thread \in [Thread -> {"none", "running", "told", "missed", "over"}]
  BY DEF Init
<1>2. stage \in Stage
  BY DEF Init, Stage, Early
<1>3. left \in Int /\ left = Never
  BY DEF Init, Never
<1>4. code \in Nat /\ clock \in Nat /\ woken \in BOOLEAN
  BY DEF Init
<1>5. forced \in {"none", "loading", "loaded"}
  BY DEF Init
<1> QED BY <1>1, <1>2, <1>3, <1>4, <1>5 DEF TypeOK

LEMMA TypeNext == TypeOK /\ [Next]_vars => TypeOK'
<1> SUFFICES ASSUME TypeOK, [Next]_vars PROVE TypeOK'
  OBVIOUS
<1>1. ASSUME OnlyStage, stage' \in Stage, code' \in Nat
      PROVE  TypeOK'
  BY <1>1 DEF OnlyStage, TypeOK
<1>2. CASE UNCHANGED vars
  BY <1>2 DEF vars, TypeOK
<1>3. ASSUME NEW p \in Plain, Pass(p) \/ Fail(p) PROVE TypeOK'
  <2>1. p[2] \in Stage /\ p[3] \in Nat
    BY EarlyStages, SwitchStages DEF Plain, Stage
  <2>2. stage' \in Stage /\ code' \in Nat
    BY <1>3, <2>1 DEF Pass, Fail, Goto, Bail, TypeOK, Stage, Ended
  <2> QED BY <1>1, <1>3, <2>2 DEF Pass, Fail, OnlyStage
<1>4. CASE (\E s \in Panicking : Panic(s)) \/ ListenFails \/ ForceModulesFails \/ PollFails \/ ExecFails
  BY <1>1, <1>4 DEF Panic, ListenFails, ForceModulesFails, PollFails, ExecFails,
    Bail, OnlyStage, Stage, Ended
<1>5. CASE PollWoken \/ WaitForced \/ Exec \/ Shell \/ NoShell("busybox", "toybox")
             \/ NoShell("toybox", "exited")
  BY <1>1, <1>5 DEF PollWoken, WaitForced, Exec, Shell, NoShell, Goto, OnlyStage, TypeOK,
    Stage, Stopping, Switching, Ended
<1>6. CASE Listen \/ ForceModules
  BY <1>6 DEF Listen, ForceModules, Goto, TypeOK, Thread, Stage, Early
<1>7. CASE Walk("modalias", "block") \/ Walk("block", "loop")
  BY <1>7 DEF Walk, Goto, TypeOK, Thread, Stage, Early
<1>8. CASE WalkFails("modalias") \/ WalkFails("block")
  BY <1>8 DEF WalkFails, Bail, TypeOK, Thread, Stage
<1>9. CASE EnterLoop \/ PollReturns \/ PollInterrupted
  <2>1. PICK now \in Nat : PollFor(now)
    BY <1>9 DEF EnterLoop, PollReturns, PollInterrupted, TypeOK
  <2>2. /\ stage' \in Stage /\ code' \in Nat /\ left' \in Int
        /\ left' = Never \/ left' <= MountTimeout
    BY <2>1, TimeLeftType, NeverExpires DEF PollFor, Goto, TypeOK, Stage, Early
  <2> QED BY <1>9, <2>2 DEF EnterLoop, PollReturns, PollInterrupted, TypeOK
<1>10. CASE Tick
  <2>1. left' \in Int /\ (left' = Never \/ left' <= MountTimeout)
    BY <1>10, BootAssumption DEF Tick, TypeOK, Never
  <2>2. clock' \in Nat
    BY <1>10 DEF Tick, TypeOK
  <2> QED BY <1>10, <2>1, <2>2 DEF Tick, TypeOK
<1>11. ASSUME NEW s \in Stops, Tell(s) \/ TellFails(s) \/ Join(s) PROVE TypeOK'
  <2>1. s[1] \in Thread /\ s[3] \in Stage /\ s[4] \in Stage
    BY StopStages DEF Stage
  <2> QED BY <1>11, <2>1 DEF Tell, TellFails, Join, Goto, TypeOK
<1>12. CASE MountRoot \/ ForcedLoaded
  BY <1>12 DEF MountRoot, ForcedLoaded, TypeOK
<1>13. ASSUME NEW t \in Thread, ThreadStops(t) \/ ThreadDies(t) PROVE TypeOK'
  BY <1>13 DEF ThreadStops, ThreadDies, TypeOK
<1> QED
  BY <1>2, <1>3, <1>4, <1>5, <1>6, <1>7, <1>8, <1>9, <1>10, <1>11, <1>12, <1>13
  DEF Next, MainThread, Failure, Background

\* The state of main.rs keeps its type; no poll has more time than the timeout.
THEOREM BootTypeCorrect == Spec => []TypeOK
<1>1. Init => TypeOK BY TypeInit
<1>2. TypeOK /\ [Next]_vars => TypeOK' BY TypeNext
<1> QED BY <1>1, <1>2, PTL DEF Spec

-----------------------------------------------------------------------------
(* The threads are over before the switch.                                 *)

\* The stages after a thread has been joined.
Past == [udev     |-> {"tell_block", "join_block", "tell_modalias", "join_modalias", "wait"}
                        \cup Switching,
         block    |-> {"tell_modalias", "join_modalias", "wait"} \cup Switching,
         modalias |-> {"wait"} \cup Switching]

QuietInv ==
  /\ stage \in Past["udev"] => thread["udev"] = "over"
  /\ stage \in Past["block"] => thread["block"] = "over"
  /\ stage \in Past["modalias"] => thread["modalias"] = "over"
  /\ stage \in Switching => forced = "loaded"

LEMMA QuietNext == TypeOK /\ QuietInv /\ [Next]_vars => QuietInv'
<1> SUFFICES ASSUME TypeOK, QuietInv, [Next]_vars PROVE QuietInv'
  OBVIOUS
\* Steps to a stage from which main can only go on once its threads are over.
<1>1. ASSUME stage' \notin Past["udev"] PROVE QuietInv'
  BY <1>1 DEF QuietInv, Past
\* Steps of the other threads: what is over stays over.
<1>2. ASSUME stage' = stage, forced' \in {forced, "loaded"},
             \A t \in Thread : thread'[t] \in {thread[t], "over"}
      PROVE  QuietInv'
  BY <1>2 DEF QuietInv, Thread, Past
<1>3. ASSUME NEW p \in Plain, Pass(p) PROVE QuietInv'
  <2>1. CASE p \in EarlySteps
    <3>1. stage' \in Early
      BY <1>3, <2>1, EarlyStages DEF Pass, Goto
    <3> QED BY <1>1, <3>1 DEF Early, Past, Switching
  <2>2. CASE p \in SwitchSteps
    BY <1>3, <2>2, SwitchStages DEF Pass, Goto, QuietInv, Past
  <2> QED BY <2>1, <2>2 DEF Plain
<1>4. ASSUME NEW p \in Plain, Fail(p) PROVE QuietInv'
  BY <1>1, <1>4 DEF Fail, Bail, Past, Switching
<1>5. CASE (\E s \in Panicking : Panic(s)) \/ ListenFails \/ ForceModulesFails \/ PollFails \/ ExecFails
             \/ WalkFails("modalias") \/ WalkFails("block")
  BY <1>1, <1>5 DEF Panic, ListenFails, ForceModulesFails, PollFails, ExecFails,
    WalkFails, Bail, Past, Switching
<1>6. CASE Listen \/ ForceModules \/ Walk("modalias", "block") \/ Walk("block", "loop")
             \/ PollWoken \/ Shell \/ NoShell("busybox", "toybox")
             \/ NoShell("toybox", "exited")
  BY <1>1, <1>6 DEF Listen, ForceModules, Walk, PollWoken, Shell, NoShell, Goto, Past,
    Switching
<1>7. CASE EnterLoop \/ PollReturns \/ PollInterrupted
  <2>1. stage' \in {"polling", "busybox"}
    BY <1>7 DEF EnterLoop, PollReturns, PollInterrupted, PollFor, Bail, Goto
  <2> QED BY <1>1, <2>1 DEF Past, Switching
<1>8. ASSUME NEW s \in Stops, Tell(s) \/ TellFails(s) PROVE QuietInv'
  <2>1. CASE s = <<"udev", "tell_udev", "join_udev", "tell_block">>
    BY <1>1, <1>8, <2>1 DEF Tell, TellFails, Goto, Past, Switching
  <2>2. CASE s = <<"block", "tell_block", "join_block", "tell_modalias">>
    BY <1>8, <2>2 DEF Tell, TellFails, Goto, Past, Switching, QuietInv, TypeOK, Thread
  <2>3. CASE s = <<"modalias", "tell_modalias", "join_modalias", "wait">>
    BY <1>8, <2>3 DEF Tell, TellFails, Goto, Past, Switching, QuietInv, TypeOK, Thread
  <2> QED BY <2>1, <2>2, <2>3 DEF Stops
<1>9. ASSUME NEW s \in Stops, Join(s) PROVE QuietInv'
  <2>1. CASE s = <<"udev", "tell_udev", "join_udev", "tell_block">>
    BY <1>9, <2>1 DEF Join, Goto, Past, Switching, QuietInv
  <2>2. CASE s = <<"block", "tell_block", "join_block", "tell_modalias">>
    BY <1>9, <2>2 DEF Join, Goto, Past, Switching, QuietInv
  <2>3. CASE s = <<"modalias", "tell_modalias", "join_modalias", "wait">>
    BY <1>9, <2>3 DEF Join, Goto, Past, Switching, QuietInv
  <2> QED BY <2>1, <2>2, <2>3 DEF Stops
<1>10. CASE WaitForced
  BY <1>10 DEF WaitForced, Goto, QuietInv, Past
<1>11. CASE Exec
  BY <1>11 DEF Exec, Goto, QuietInv, Past, Switching
<1>12. CASE MountRoot \/ ForcedLoaded \/ Tick
  BY <1>2, <1>12 DEF MountRoot, ForcedLoaded, Tick
<1>13. ASSUME NEW t \in Thread, ThreadStops(t) \/ ThreadDies(t) PROVE QuietInv'
  BY <1>2, <1>13 DEF ThreadStops, ThreadDies, TypeOK
<1>14. CASE UNCHANGED vars
  BY <1>2, <1>14 DEF vars
<1> QED
  BY <1>3, <1>4, <1>5, <1>6, <1>7, <1>8, <1>9, <1>10, <1>11, <1>12, <1>13, <1>14
  DEF Next, MainThread, Failure, Background

\* When the mounts move, the listener and the walkers are over and the forced
\* modules are loaded (main.rs:396-402), whatever failed before.
THEOREM SwitchIsQuiet == Spec => []QuietWhenSwitching
<1>1. Init => TypeOK /\ QuietInv
  BY TypeInit DEF Init, QuietInv, Past, Switching
<1>2. TypeOK /\ QuietInv /\ [Next]_vars => (TypeOK /\ QuietInv)'
  BY TypeNext, QuietNext
<1>3. QuietInv => QuietWhenSwitching
  BY DEF QuietInv, QuietWhenSwitching, Past, Thread
<1> QED BY <1>1, <1>2, <1>3, PTL DEF Spec

-----------------------------------------------------------------------------
(* The calls implement the stages.                                         *)

LEMMA CallSteps == CallsNext => [Next]_vars
<1>. SUFFICES ASSUME CallsNext PROVE [Next]_vars
  OBVIOUS
<1>. USE DEF At, Returns, Bails, OtherVars
<1>1. ASSUME NEW p \in Plain, MountCall(p) PROVE Pass(p) \/ Fail(p)
  BY <1>1, CallsAssumption DEF MountCall, Pass, Fail, CallStages
<1>2. ASSUME NEW p \in Plain, NoEfivars(p) PROVE Pass(p)
  BY <1>2 DEF NoEfivars, Pass
<1>3. ASSUME NEW p \in Plain, PivotCall(p) PROVE Pass(p) \/ Fail(p)
  BY <1>3, CallsAssumption DEF PivotCall, Pass, Fail, CallStages
<1>4. ASSUME NEW p \in Plain, ConsoleReturns(p) PROVE Pass(p) \/ Fail(p)
  BY <1>4, CallsAssumption DEF ConsoleReturns, Pass, Fail, CallStages
<1>5. CASE ConsoleCall
  BY <1>5 DEF ConsoleCall
<1>6. CASE ConsolePanics
  BY <1>6 DEF ConsolePanics, Next, Failure, Panicking
<1>7. CASE MainElsewhere \/ FailureElsewhere \/ Others
  BY <1>7 DEF MainElsewhere, FailureElsewhere, Others, Next
<1>. QED
  BY <1>1, <1>2, <1>3, <1>4, <1>5, <1>6, <1>7
     DEF CallsNext, Calls, Next, MainThread, Failure

(***************************************************************************)
(* Main does nothing that Boot does not allow (the safety part of          *)
(* ImplementsBoot).                                                        *)
(***************************************************************************)
THEOREM CallsImplementBoot == CallsSpec => Spec
<1>1. CallsInit => Init
  BY DEF CallsInit
<1>2. [CallsNext]_allVars => [Next]_vars
  BY CallSteps DEF allVars, vars
<1>. QED
  BY <1>1, <1>2, PTL DEF CallsSpec, Spec

(***************************************************************************)
(* So the listener and both walkers are over and the forced modules loaded *)
(* when the mounts move to the target, also with the calls in between      *)
(* (main.rs:396-402).                                                      *)
(***************************************************************************)
THEOREM CallsSwitchIsQuiet == CallsSpec => []QuietWhenSwitching
  BY CallsImplementBoot, SwitchIsQuiet, PTL

-----------------------------------------------------------------------------
(* The console.                                                            *)

LEMMA ConsoleInvariant == CallsSpec => []ConsoleInv
<1>1. CallsInit => ConsoleInv
  BY ConsoleStarts DEF CallsInit
<1>2. ASSUME [CallsNext]_allVars PROVE ConsoleStep \/ UNCHANGED vconVars
  BY <1>2, Zenon
     DEF CallsNext, Calls, MountCall, NoEfivars, PivotCall, ConsoleCall, ConsoleReturns,
         ConsolePanics, MainElsewhere, FailureElsewhere, Others, callVars, allVars
<1>3. ConsoleInv /\ [CallsNext]_allVars => ConsoleInv'
  BY <1>2, ConsoleSteps, ConsoleStays
<1>. QED
  BY <1>1, <1>3, PTL DEF CallsSpec

(***************************************************************************)
(* The loops of load_keymap_file stay within their tables.                 *)
(***************************************************************************)
THEOREM ConsoleTypeCorrect == CallsSpec => []ConsoleTypeOK
<1>1. ConsoleInv => ConsoleTypeOK
  BY DEF ConsoleInv
<1>. QED
  BY <1>1, ConsoleInvariant, PTL

(***************************************************************************)
(* PID 1 panics over a keymap file only if keys are missing in it, and     *)
(* goes on with the boot only after it has set all of them, and no other.  *)
(***************************************************************************)
THEOREM KeymapPanicsIffShort == CallsSpec => []PanicsIffShort
  BY PanicsOnShort, ConsoleInvariant, PTL

-----------------------------------------------------------------------------
(* The mount tree.                                                         *)

(* The stages at which a filesystem need not be mounted yet, or pivot made. *)
Before ==
  [devtmpfs |-> {"sanity", "devtmpfs"},
   sysfs    |-> {"sanity", "devtmpfs", "console", "sysfs"},
   proc     |-> {"sanity", "devtmpfs", "console", "sysfs", "proc"},
   run      |-> {"sanity", "devtmpfs", "console", "sysfs", "proc", "run"},
   efivars  |-> {"sanity", "devtmpfs", "console", "sysfs", "proc", "run", "efivars"},
   pivot    |-> {"sanity", "devtmpfs", "console", "sysfs", "proc", "run", "efivars",
                 "config", "kver", "aliases", "pivot"}]

Failed == {"busybox", "toybox", "shell", "exited"}

(* A step that leaves the tree alone, and main in the same part of the boot *)
(* unless it fails.                                                        *)
SamePart ==
  stage \notin Failed /\ \A m \in DOMAIN Before : stage \in Before[m] <=> stage' \in Before[m]

Aside == UNCHANGED treeVars /\ (stage' \in Failed \/ UNCHANGED stage \/ SamePart)

(* Elsewhere main passes from a stage to one of the same part. *)
LEMMA PassElsewhere ==
  ASSUME NEW p \in Plain, p[1] \notin CallStages
  PROVE  /\ p[1] \notin Failed
         /\ \A m \in DOMAIN Before : p[1] \in Before[m] <=> p[2] \in Before[m]
<1>1. CASE p \in EarlySteps
  BY <1>1 DEF EarlySteps, CallStages, MountStages, Before, Failed
<1>2. CASE p \in SwitchSteps
  BY <1>2 DEF SwitchSteps, Before, Failed
<1>. QED
  BY <1>1, <1>2 DEF Plain

(* The stages after all parts of Before. *)
Late == {"listen", "force", "vconsole", "modalias", "block", "loop", "polling", "exec",
         "target"} \cup Stopping \cup {"move"}

LEMMA LateStages ==
  /\ Late \cap Failed = {}
  /\ \A m \in DOMAIN Before : Before[m] \cap Late = {}
<1>1. Late \cap Failed = {}
  BY DEF Late, Stopping, Failed
<1>2. Before["pivot"] \cap Late = {}
  BY DEF Late, Stopping, Before
<1>3. \A m \in DOMAIN Before : Before[m] \subseteq Before["pivot"]
  BY DEF Before
<1>. QED
  BY <1>1, <1>2, <1>3

LEMMA LateToLate ==
  ASSUME stage \in Late, stage' \in Late
  PROVE  SamePart
  BY LateStages DEF SamePart

(* Only the calls that mount and make directories are not aside. *)
LEMMA StepsAside ==
  ASSUME [CallsNext]_allVars
  PROVE  \/ Aside
         \/ \E p \in Plain : MountCall(p) \/ NoEfivars(p) \/ PivotCall(p)
<1>1. ASSUME NEW p \in Plain, ConsoleReturns(p) PROVE Aside
  <2>1. stage = "vconsole" /\ p[1] = "vconsole" /\ UNCHANGED treeVars
    BY <1>1 DEF ConsoleReturns, At, callVars
  <2>2. p[2] = "modalias"
    BY <2>1 DEF Plain, EarlySteps, SwitchSteps
  <2>3. stage' \in Failed \/ stage' = "modalias"
    BY <1>1, <2>2 DEF ConsoleReturns, Returns, Bails, Goto, Bail, Failed
  <2>4. stage' = "modalias" => SamePart
    BY <2>1, LateToLate DEF Late
  <2>. QED  BY <2>1, <2>3, <2>4 DEF Aside
<1>2. CASE ConsoleCall
  BY <1>2 DEF ConsoleCall, vars, Aside
<1>3. CASE ConsolePanics
  BY <1>3 DEF ConsolePanics, Panic, Failed, callVars, Aside
<1>4. CASE MainElsewhere
  <2>1. stage \notin CallStages /\ MainThread /\ UNCHANGED treeVars
    BY <1>4 DEF MainElsewhere, callVars
  <2>2. ASSUME NEW p \in Plain, Pass(p) PROVE SamePart
    <3>1. stage = p[1] /\ stage' = p[2]
      BY <2>2 DEF Pass, Goto
    <3>. QED  BY <2>1, <3>1, PassElsewhere DEF SamePart
  <2>3. ASSUME Listen \/ ForceModules \/ Walk("modalias", "block") \/ Walk("block", "loop")
               \/ PollWoken \/ WaitForced \/ Exec
        PROVE  stage \in Late /\ stage' \in Late
    BY <2>3 DEF Listen, ForceModules, Walk, PollWoken, WaitForced, Exec, Goto, Late, Stopping
  <2>4. ASSUME EnterLoop \/ PollReturns
        PROVE  stage \in Late /\ (stage' \in Late \/ stage' \in Failed)
    BY <2>4 DEF EnterLoop, PollReturns, PollFor, Bail, Goto, Late, Failed
  <2>5. ASSUME NEW s \in Stops, Tell(s) \/ Join(s) PROVE stage \in Late /\ stage' \in Late
    BY <2>5 DEF Stops, Tell, Join, Goto, Stopping, Late
  <2>6. ASSUME Shell \/ WalkFails("modalias") \/ WalkFails("block") PROVE stage' \in Failed
    BY <2>6 DEF Shell, WalkFails, Bail, Goto, Failed
  <2>7. SamePart \/ stage' \in Failed
    BY <2>1, <2>2, <2>3, <2>4, <2>5, <2>6, LateToLate DEF MainThread
  <2>. QED  BY <2>1, <2>7 DEF Aside
<1>5. CASE FailureElsewhere
  <2>1. Failure /\ UNCHANGED treeVars
    BY <1>5 DEF FailureElsewhere, callVars
  <2>2. ASSUME PollInterrupted
        PROVE  stage \in Late /\ (stage' \in Late \/ stage' \in Failed)
    BY <2>2 DEF PollInterrupted, PollFor, Bail, Goto, Late, Failed
  <2>3. ASSUME NEW s \in Stops, TellFails(s)
        PROVE  stage \in Late /\ stage' \in Late
    BY <2>3 DEF Stops, TellFails, Goto, Stopping, Late
  <2>4. ~ PollInterrupted /\ ~ (\E s \in Stops : TellFails(s)) => stage' \in Failed
    BY <2>1 DEF Failure, Fail, Panic, ListenFails, ForceModulesFails, PollFails, ExecFails,
         NoShell, Bail, Goto, Failed
  <2>. QED  BY <2>1, <2>2, <2>3, <2>4, LateToLate DEF Aside
<1>6. CASE Others
  BY <1>6 DEF Others, Background, MountRoot, ThreadStops, ThreadDies, ForcedLoaded, Tick,
       callVars, Aside
<1>7. CASE UNCHANGED allVars
  BY <1>7 DEF allVars, vars, callVars, Aside
<1>. QED
  BY <1>1, <1>2, <1>3, <1>4, <1>5, <1>6, <1>7 DEF CallsNext, Calls

(***************************************************************************)
(* What is mounted when.                                                   *)
(***************************************************************************)
MountedInv ==
  /\ stage \notin Before["devtmpfs"] \cup Failed => "devtmpfs" \in mounted
  /\ stage \notin Before["sysfs"] \cup Failed => "sysfs" \in mounted
  /\ stage \notin Before["proc"] \cup Failed => "proc" \in mounted
  /\ stage \notin Before["run"] \cup Failed => "run" \in mounted
  /\ stage \notin Before["pivot"] \cup Failed => IsDir(tree, Pivot)

LEMMA BeforeParts == DOMAIN Before = {"devtmpfs", "sysfs", "proc", "run", "efivars", "pivot"}
  BY DEF Before

LEMMA MountedAside ==
  ASSUME MountedInv, Aside
  PROVE  MountedInv'
<1>1. UNCHANGED treeVars
  BY DEF Aside
<1>2. CASE stage' \in Failed
  BY <1>2 DEF MountedInv
<1>3. CASE UNCHANGED stage
  BY <1>1, <1>3 DEF MountedInv, treeVars, IsDir
<1>4. CASE SamePart
  BY <1>1, <1>4, BeforeParts DEF SamePart, MountedInv, treeVars, IsDir
<1>. QED
  BY <1>2, <1>3, <1>4 DEF Aside

(* Mount::mount: main goes on only with the filesystem mounted. *)
LEMMA MountCallStep ==
  ASSUME MountedInv, NEW p \in Plain, MountCall(p)
  PROVE  MountedInv'
<1>1. CASE MountErr(p[1]) /\ Bails(p)
  <2>1. stage' \in Failed
    BY <1>1 DEF Bails, Bail, Failed
  <2>. QED  BY <2>1 DEF MountedInv
<1>2. CASE MountOk(p[1]) /\ Returns(p)
  <2>1. stage = p[1] /\ p[1] \in MountStages /\ stage' = p[2] /\ mounted' = mounted \cup {p[1]}
    BY <1>2 DEF MountCall, At, Returns, Goto, MountOk
  <2>2. p \in {<<"devtmpfs", "console", 2>>, <<"sysfs", "proc", 3>>, <<"proc", "run", 3>>,
              <<"run", "efivars", 3>>, <<"efivars", "config", 3>>}
    BY <2>1 DEF Plain, EarlySteps, SwitchSteps, MountStages
  <2>3. p[2] \in Before["pivot"]
    BY <2>2 DEF Before
  <2>4. p[1] # "devtmpfs" => "devtmpfs" \in mounted
    BY <2>1, <2>2 DEF MountedInv, Before, Failed
  <2>5. p[2] \notin Before["sysfs"] /\ p[1] # "sysfs" => "sysfs" \in mounted
    BY <2>1, <2>2 DEF MountedInv, Before, Failed
  <2>6. p[2] \notin Before["proc"] /\ p[1] # "proc" => "proc" \in mounted
    BY <2>1, <2>2 DEF MountedInv, Before, Failed
  <2>7. p[2] \notin Before["run"] /\ p[1] # "run" => "run" \in mounted
    BY <2>1, <2>2 DEF MountedInv, Before, Failed
  <2>. HIDE DEF Before
  <2>. QED  BY <2>1, <2>3, <2>4, <2>5, <2>6, <2>7 DEF MountedInv
<1>. QED
  BY <1>1, <1>2 DEF MountCall

(* make_shutdown_pivot_dir: main goes on only with the directory made. *)
LEMMA PivotCallStep ==
  ASSUME MountedInv, NEW p \in Plain, PivotCall(p)
  PROVE  MountedInv'
<1>1. CASE PivotErr /\ Bails(p)
  <2>1. stage' \in Failed
    BY <1>1 DEF Bails, Bail, Failed
  <2>. QED  BY <2>1 DEF MountedInv
<1>2. CASE PivotOk /\ Returns(p)
  <2>1. stage = "pivot" /\ UNCHANGED mounted /\ tree' = Made(tree, Pivot)
    BY <1>2 DEF PivotCall, PivotOk, At
  <2>2. IsDir(tree, Pivot)'
    BY <2>1 DEF IsDir, Made
  <2>3. {"devtmpfs", "sysfs", "proc", "run"} \subseteq mounted
    BY <2>1 DEF MountedInv, Before, Failed
  <2>. QED  BY <2>1, <2>2, <2>3 DEF MountedInv
<1>. QED
  BY <1>1, <1>2 DEF PivotCall

LEMMA NoEfivarsStep ==
  ASSUME NEW p \in Plain, NoEfivars(p)
  PROVE  stage = "efivars" /\ stage' = "config" /\ UNCHANGED treeVars /\ ~ EfiMode
  BY DEF NoEfivars, At, Returns, Goto, Plain, EarlySteps, SwitchSteps, callVars

LEMMA MountedStep == MountedInv /\ [CallsNext]_allVars => MountedInv'
<1>. SUFFICES ASSUME MountedInv, [CallsNext]_allVars PROVE MountedInv'
  OBVIOUS
<1>1. ASSUME NEW p \in Plain, NoEfivars(p) PROVE MountedInv'
  <2>1. stage = "efivars" /\ stage' = "config" /\ UNCHANGED treeVars
    BY <1>1, NoEfivarsStep
  <2>2. {"devtmpfs", "sysfs", "proc", "run"} \subseteq mounted
    BY <2>1 DEF MountedInv, Before, Failed
  <2>3. stage' \in Before["pivot"] /\ UNCHANGED mounted
    BY <2>1 DEF Before, treeVars
  <2>. QED  BY <2>2, <2>3 DEF MountedInv
<1>. QED
  BY <1>1, StepsAside, MountedAside, MountCallStep, PivotCallStep

LEMMA MountedInvariant == CallsSpec => []MountedInv
<1>1. CallsInit => MountedInv
  BY DEF CallsInit, Init, MountedInv, Before
<1>. QED
  BY <1>1, MountedStep, PTL DEF CallsSpec

(***************************************************************************)
(* The target gets a complete tree: nothing of it is left out, whatever the *)
(* initramfs held (main.rs:299-325).                                       *)
(***************************************************************************)
THEOREM TargetGetsTree == CallsSpec => []TreeComplete
<1>1. MountedInv => TreeComplete
  <2>. SUFFICES ASSUME MountedInv, stage \in Switching
                PROVE  {"devtmpfs", "sysfs", "proc", "run"} \subseteq mounted /\ IsDir(tree, Pivot)
    BY DEF TreeComplete
  <2>1. stage \notin Before["pivot"] \cup Failed
    BY DEF Switching, Before, Failed
  <2>. QED  BY <2>1 DEF MountedInv, Before
<1>. QED
  BY <1>1, MountedInvariant, PTL
(***************************************************************************)
(* The tree stays a tree.                                                  *)
(***************************************************************************)
LEMMA MountStagesAreTargets == DOMAIN Target = MountStages
  BY TargetPaths DEF MountStages

(* What the calls do to the tree. *)
LEMMA CallEffects ==
  ASSUME NEW p \in Plain, MountCall(p) \/ NoEfivars(p) \/ PivotCall(p)
  PROVE  \/ \E m \in DOMAIN Target : MountOk(m) \/ MountErr(m)
         \/ PivotOk
         \/ UNCHANGED treeVars
  BY MountStagesAreTargets
     DEF MountCall, NoEfivars, PivotCall, At, PivotErr, callVars

LEMMA TreeStep == TreeInv /\ [CallsNext]_allVars => TreeInv'
<1>. SUFFICES ASSUME TreeInv, [CallsNext]_allVars PROVE TreeInv'
  OBVIOUS
<1>1. CASE UNCHANGED treeVars
  BY <1>1 DEF TreeInv, TreeTypeOK, treeVars
<1>2. Aside => UNCHANGED treeVars
  BY DEF Aside
<1>. QED
  BY <1>1, <1>2, StepsAside, CallEffects, MountOkEffect, MountErrEffect, PivotOkEffect

LEMMA TreeInvariant == CallsSpec => []TreeInv
<1>1. CallsInit => TreeInv
  BY TreeStarts DEF CallsInit
<1>. QED
  BY <1>1, TreeStep, PTL DEF CallsSpec

(***************************************************************************)
(* Nothing is made or mounted but in a directory: there is a tree at any    *)
(* time (mount.rs:556-573, util.rs:217-221).                               *)
(***************************************************************************)
THEOREM TreeTypeCorrect == CallsSpec => []TreeTypeOK
<1>1. TreeInv => TreeTypeOK
  BY DEF TreeInv
<1>. QED
  BY <1>1, TreeInvariant, PTL

(***************************************************************************)
(* And in this tree mkdirall makes any path main asks for, wherever a       *)
(* directory may not be made (mount.rs:508-554).                           *)
(***************************************************************************)
THEOREM EveryPathIsMade == CallsSpec => []MkdirAllMakesPath
<1>1. TreeInv => MkdirAllMakesPath
  <2>. SUFFICES ASSUME TreeInv,
                       NEW p \in {Target[m] : m \in DOMAIN Target} \cup {<<"dev", "shm">>},
                       NEW refused
                PROVE  MakesPath(p, refused)
    BY DEF MkdirAllMakesPath
  <2>1. p \in Path /\ IsTree(tree)
    BY TargetPaths DEF TreeInv, TreeTypeOK
  <2>. QED  BY <2>1, MkdirAllMakes
<1>. QED
  BY <1>1, TreeInvariant, PTL

-----------------------------------------------------------------------------
(* What can be seen of the filesystems, and the EFI variables.             *)

(* The variables are mounted after sysfs, which shows whether there are any; *)
(* nobody else puts files where it would show them.                        *)
EfiInv ==
  /\ stage \in Before["efivars"] => "efivars" \notin mounted
  /\ stage \in Before["efivars"] \ Before["sysfs"] =>
       (EfiDir \in DOMAIN tree => EfiShown \in sysfs)
  /\ stage \notin Before["efivars"] \cup Failed => ("efivars" \in mounted <=> EfiShown \in sysfs)

LEMMA VisibleIs == MountsVisible <=> \A m \in mounted : Shown(m)
  BY DEF MountsVisible, Shown

LEMMA VisibleIsNext == MountsVisible' <=> \A m \in mounted' : Shown(m)'
  BY DEF MountsVisible, Shown

LEMMA VisibleGrows ==
  ASSUME MountsVisible, NEW p, Extends(tree, tree', p), UNCHANGED <<mounted, sysfs>>
  PROVE  MountsVisible'
  BY VisibleIs, VisibleIsNext, ShownGrows

LEMMA VisibleStays ==
  ASSUME MountsVisible, UNCHANGED treeVars
  PROVE  MountsVisible'
  BY DEF MountsVisible, Content, IsDir, treeVars

LEMMA VisibleStep ==
  TreeInv /\ EfiInv /\ MountsVisible /\ [CallsNext]_allVars => MountsVisible'
<1>. SUFFICES ASSUME TreeInv, EfiInv, MountsVisible, [CallsNext]_allVars PROVE MountsVisible'
  OBVIOUS
<1>1. ASSUME NEW p \in Plain, MountCall(p) PROVE MountsVisible'
  <2>1. stage = p[1] /\ p[1] \in DOMAIN Target /\ (MountOk(p[1]) \/ MountErr(p[1]))
    BY <1>1, MountStagesAreTargets DEF MountCall, At
  <2>2. CASE MountErr(p[1])
    BY <2>1, <2>2, MountErrEffect, VisibleGrows
  <2>3. CASE MountOk(p[1])
    <3>1. mounted' = mounted \cup {p[1]} /\ mounted \subseteq DOMAIN Target
      BY <2>1, <2>3, MountOkEffect DEF TreeInv, TreeTypeOK
    <3>2. p[1] = "sysfs" => "efivars" \notin mounted
      BY <2>1 DEF EfiInv, Before
    <3>3. ASSUME NEW k \in mounted' PROVE Shown(k)'
      <4>1. k \in DOMAIN Target /\ (k = p[1] \/ Shown(k)) /\ ~ (p[1] = "sysfs" /\ k = "efivars")
        BY <2>1, <3>1, <3>2, VisibleIs
      <4>. QED  BY <2>1, <2>3, <4>1, ShownMounts
    <3>. QED  BY <3>3, VisibleIsNext
  <2>. QED  BY <2>1, <2>2, <2>3
<1>2. ASSUME NEW p \in Plain, PivotCall(p) PROVE MountsVisible'
  <2>1. CASE PivotOk
    BY <2>1, PivotOkEffect, VisibleGrows
  <2>2. CASE PivotErr
    BY <2>2, VisibleStays DEF PivotErr
  <2>. QED  BY <1>2, <2>1, <2>2 DEF PivotCall
<1>3. ASSUME NEW p \in Plain, NoEfivars(p) PROVE MountsVisible'
  BY <1>3, NoEfivarsStep, VisibleStays
<1>4. CASE Aside
  BY <1>4, VisibleStays DEF Aside
<1>. QED
  BY <1>1, <1>2, <1>3, <1>4, StepsAside

LEMMA EfiAside ==
  ASSUME EfiInv, Aside
  PROVE  EfiInv'
<1>1. UNCHANGED treeVars
  BY DEF Aside
<1>2. CASE stage' \in Failed
  <2>1. stage' \notin Before["efivars"]
    BY <1>2 DEF Failed, Before
  <2>. QED  BY <1>2, <2>1 DEF EfiInv
<1>3. CASE UNCHANGED stage
  BY <1>1, <1>3 DEF EfiInv, treeVars
<1>4. CASE SamePart
  BY <1>1, <1>4, BeforeParts DEF SamePart, EfiInv, treeVars
<1>. QED
  BY <1>2, <1>3, <1>4 DEF Aside

LEMMA EfiFails ==
  ASSUME stage' \in Failed
  PROVE  EfiInv'
<1>1. stage' \notin Before["efivars"]
  BY DEF Failed, Before
<1>. QED  BY <1>1 DEF EfiInv

(* EfiMode tells what sysfs shows. *)
LEMMA EfiModeIs ==
  ASSUME TreeInv, MountsVisible, MountedInv, EfiInv, stage = "efivars"
  PROVE  EfiMode <=> EfiShown \in sysfs
<1>1. stage \in Before["efivars"] \ Before["sysfs"] /\ "sysfs" \in mounted
  BY DEF MountedInv, Before, Failed
<1>2. EfiMode <=> EfiDir \in DOMAIN tree
  BY DEF EfiMode, EfiDir
<1>3. DOMAIN Content("sysfs") = sysfs /\ Target["sysfs"] = <<"sys">>
  BY DEF Content, Target
<1>4. EfiShown \in sysfs => <<"sys">> \o EfiShown \in DOMAIN tree
  BY <1>1, <1>3, VisibleIs DEF Shown
<1>. QED
  BY <1>1, <1>2, <1>4, EfiPaths DEF EfiInv

LEMMA EfiStep ==
  TreeInv /\ MountsVisible /\ MountedInv /\ EfiInv /\ [CallsNext]_allVars => EfiInv'
<1>. SUFFICES ASSUME TreeInv, MountsVisible, MountedInv, EfiInv, [CallsNext]_allVars
              PROVE  EfiInv'
  OBVIOUS
<1>1. ASSUME NEW p \in Plain, MountCall(p) PROVE EfiInv'
  <2>1. CASE MountErr(p[1]) /\ Bails(p)
    <3>1. stage' \in Failed
      BY <2>1 DEF Bails, Bail, Failed
    <3>. QED  BY <3>1, EfiFails
  <2>2. CASE MountOk(p[1]) /\ Returns(p)
    <3>1. /\ stage = p[1] /\ p[1] \in MountStages /\ stage' = p[2]
          /\ mounted' = mounted \cup {p[1]} /\ sysfs' = sysfs /\ (p[1] = "efivars" => EfiMode)
      BY <1>1, <2>2 DEF MountCall, At, Returns, Goto, MountOk
    <3>2. p \in {<<"devtmpfs", "console", 2>>, <<"sysfs", "proc", 3>>, <<"proc", "run", 3>>,
                <<"run", "efivars", 3>>, <<"efivars", "config", 3>>}
      BY <3>1 DEF Plain, EarlySteps, SwitchSteps, MountStages
    <3>3. CASE p[1] = "devtmpfs"
      <4>1. stage \in Before["efivars"] /\ stage' \in Before["efivars"] /\ stage' \in Before["sysfs"]
        BY <3>1, <3>2, <3>3 DEF Before
      <4>2. "efivars" \notin mounted'
        BY <3>1, <3>3, <4>1 DEF EfiInv
      <4>. QED  BY <4>1, <4>2 DEF EfiInv
    <3>4. CASE p[1] = "sysfs"
      <4>1. stage \in Before["efivars"] /\ stage' \in Before["efivars"]
        BY <3>1, <3>2, <3>4 DEF Before
      <4>2. "efivars" \notin mounted'
        BY <3>1, <3>4, <4>1 DEF EfiInv
      <4>3. EfiDir \in DOMAIN tree' => EfiShown \in sysfs'
        BY <2>2, <3>4, SysfsShowsEfi
      <4>. QED  BY <4>1, <4>2, <4>3 DEF EfiInv
    <3>5. CASE p[1] \in {"proc", "run"}
      <4>1. stage \in Before["efivars"] \ Before["sysfs"] /\ stage' \in Before["efivars"]
        BY <3>1, <3>2, <3>5 DEF Before
      <4>2. "efivars" \notin mounted'
        BY <3>1, <3>5, <4>1 DEF EfiInv
      <4>3. EfiDir \in DOMAIN tree' => EfiDir \in DOMAIN tree
        BY <2>2, <3>5, OthersAddNoEfi
      <4>4. EfiDir \in DOMAIN tree' => EfiShown \in sysfs'
        BY <3>1, <4>1, <4>3 DEF EfiInv
      <4>. QED  BY <4>1, <4>2, <4>4 DEF EfiInv
    <3>6. CASE p[1] = "efivars"
      <4>1. EfiShown \in sysfs' /\ "efivars" \in mounted'
        BY <3>1, <3>6, EfiModeIs
      <4>2. stage' \notin Before["efivars"]
        BY <3>2, <3>1, <3>6 DEF Before
      <4>. QED  BY <4>1, <4>2 DEF EfiInv
    <3>. QED  BY <3>2, <3>3, <3>4, <3>5, <3>6
  <2>. QED  BY <1>1, <2>1, <2>2 DEF MountCall
<1>2. ASSUME NEW p \in Plain, NoEfivars(p) PROVE EfiInv'
  <2>1. stage = "efivars" /\ stage' = "config" /\ UNCHANGED treeVars /\ ~ EfiMode
    BY <1>2, NoEfivarsStep
  <2>2. EfiShown \notin sysfs' /\ "efivars" \notin mounted'
    <3>1. EfiShown \notin sysfs
      BY <2>1, EfiModeIs
    <3>2. "efivars" \notin mounted
      BY <2>1 DEF EfiInv, Before
    <3>. QED  BY <2>1, <3>1, <3>2 DEF treeVars
  <2>3. stage' \notin Before["efivars"]
    BY <2>1 DEF Before
  <2>. QED  BY <2>2, <2>3 DEF EfiInv
<1>3. ASSUME NEW p \in Plain, PivotCall(p) PROVE EfiInv'
  <2>1. CASE PivotErr /\ Bails(p)
    <3>1. stage' \in Failed
      BY <2>1 DEF Bails, Bail, Failed
    <3>. QED  BY <3>1, EfiFails
  <2>2. CASE PivotOk /\ Returns(p)
    <3>1. stage = "pivot" /\ p[1] = "pivot" /\ stage' = p[2] /\ UNCHANGED <<mounted, sysfs>>
      BY <1>3, <2>2 DEF PivotCall, PivotOk, At, Returns, Goto
    <3>2. p[2] = "cmdline"
      BY <3>1 DEF Plain, EarlySteps, SwitchSteps
    <3>3. stage \notin Before["efivars"] \cup Failed /\ stage' \notin Before["efivars"]
      BY <3>1, <3>2 DEF Before, Failed
    <3>. QED  BY <3>1, <3>3 DEF EfiInv
  <2>. QED  BY <1>3, <2>1, <2>2 DEF PivotCall
<1>. QED
  BY <1>1, <1>2, <1>3, StepsAside, EfiAside

LEMMA VisibleInvariant == CallsSpec => [](MountsVisible /\ EfiInv)
<1>1. CallsInit => MountsVisible /\ EfiInv
  BY DEF CallsInit, Init, TreeInit, MountsVisible, EfiInv, Before
<1>2. TreeInv /\ MountedInv /\ MountsVisible /\ EfiInv /\ [CallsNext]_allVars
        => (MountsVisible /\ EfiInv)'
  BY VisibleStep, EfiStep
<1>. QED
  BY <1>1, <1>2, TreeInvariant, MountedInvariant, PTL DEF CallsSpec

(***************************************************************************)
(* No filesystem is mounted over what another shows, or where it could not  *)
(* be seen, whatever the initramfs and sysfs hold (mount.rs:460-470,        *)
(* main.rs:297-313).                                                       *)
(***************************************************************************)
THEOREM NoMountIsHidden == CallsSpec => []MountsVisible
  BY VisibleInvariant, PTL

(***************************************************************************)
(* The EFI variables are there when they are wanted, just where the machine *)
(* has some (main.rs:309-313).                                             *)
(***************************************************************************)
THEOREM EfivarsAreFound == CallsSpec => []EfivarsWhereEfi
<1>1. EfiInv => EfivarsWhereEfi
  BY DEF EfiInv, EfivarsWhereEfi, EfiShown, Before, Failed
<1>. QED
  BY <1>1, VisibleInvariant, PTL

=============================================================================
