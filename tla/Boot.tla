-------------------------------- MODULE Boot --------------------------------
(***************************************************************************)
(* The main thread of src/src/main.rs from its first check to the execv of *)
(* the target's init, with the threads it starts and stops on the way: the *)
(* uevent listener (udev.rs), the two sysfs walkers (sysfs.rs) and the     *)
(* loader threads of the forced modules (module.rs).  Those threads are    *)
(* seen from main: started, told to stop or missed, over.  UdevListener    *)
(* and ModLoading have their insides.                                      *)
(*                                                                         *)
(* External: the bodies of the walkers are todo!() at this commit.  The    *)
(* constant Walkers says how their handshakes with main may end; with      *)
(* "dropped" alone it describes the code as it is.                         *)
(***************************************************************************)
EXTENDS Integers

CONSTANTS
  MountTimeout,  \* mount-timeout of engine.toml, in ticks; <= 0 stands for none
  Walkers,       \* outcomes of the handshake with a walker
  Faults,        \* the stages at which something may fail
  Panics         \* the stages at which main may panic

\* Stages that only do or fail to do something outside the model: stage,
\* next stage, exit code if it fails.
EarlySteps == {
  <<"sanity",   "devtmpfs", 1>>,  <<"devtmpfs", "console",  2>>,
  <<"console",  "sysfs",    2>>,  <<"sysfs",    "proc",     3>>,
  <<"proc",     "run",      3>>,  <<"run",      "efivars",  3>>,
  <<"efivars",  "config",   3>>,  <<"config",   "kver",     4>>,
  <<"kver",     "aliases",  5>>,  <<"aliases",  "pivot",    6>>,
  <<"pivot",    "cmdline",  7>>,  <<"cmdline",  "evloop",   8>>,
  <<"evloop",   "waker",    9>>,  <<"waker",    "listen",   9>>,
  <<"vconsole", "modalias", 12>>}

SwitchSteps == {
  <<"move",     "delete",   50>>, <<"delete",   "chdir",    51>>,
  <<"chdir",    "rootmove", 52>>, <<"rootmove", "chroot",   53>>,
  <<"chroot",   "newroot",  54>>, <<"newroot",  "state",    55>>,
  <<"state",    "exec",     100>>}

Plain == EarlySteps \cup SwitchSteps

\* The stages from which the tree the threads look at is no longer in place.
Switching == {"move", "delete", "chdir", "rootmove", "chroot", "newroot", "state", "exec",
              "target"}

\* How the boot is over: the target's init or the emergency shell has
\* replaced the process, or PID 1 has exited and the kernel panics.
Ended == {"target", "shell", "exited"}

\* Where main may panic: an argument for luks (todo!()) or a variable of the
\* boot loader of less than four bytes (a slice); thread::spawn, when there is
\* no thread to be had, of the listener, of the forced modules' loaders and of
\* the walkers; a keymap file that is too short (a slice or an index).
Panicking == {"cmdline", "listen", "force", "modalias", "block", "vconsole"}

Thread == {"udev", "modalias", "block"}

ASSUME BootAssumption ==
  /\ MountTimeout \in Int
  /\ Walkers \subseteq {"ready", "error", "dropped"}
  /\ Faults \subseteq {p[1] : p \in Plain} \cup
       {"listen", "force", "poll", "interrupt", "wake", "exec", "busybox", "toybox"}
  /\ Panics \subseteq Panicking

VARIABLES
  stage,   \* what the main thread does next
  code,    \* the exit code carried by the ExitError; 0 before an error
  thread,  \* state of the threads main may have to stop; "missed": still
           \* running after the wake that was to stop it has failed
  forced,  \* the forced modules: "none", "loading", "loaded"
  woken,   \* somebody has called wake() on main_waker
  clock,   \* ticks since `start`, up to one more than the timeout
  left     \* ticks left of the poll under way; Never if it has no timeout

vars == <<stage, code, thread, forced, woken, clock, left>>

Never == -1
Expired == -2

Init ==
  /\ stage = "sanity"
  /\ code = 0
  /\ thread = [t \in Thread |-> "none"]
  /\ forced = "none"
  /\ woken = FALSE
  /\ clock = 0
  /\ left = Never

-----------------------------------------------------------------------------
(* main, init and exec_target_init: the stages.                            *)

Goto(s) ==
  /\ stage' = s
  /\ UNCHANGED code

\* `bail`: before there is a console main exits at once, later it tries the
\* emergency shell first.
Bail(c) ==
  /\ stage' = IF c \in {1, 2} THEN "exited" ELSE "busybox"
  /\ code' = c

Pass(p) ==
  /\ stage = p[1]
  /\ Goto(p[2])
  /\ UNCHANGED <<thread, forced, woken, clock, left>>

Fail(p) ==
  /\ p[1] \in Faults
  /\ stage = p[1]
  /\ Bail(p[3])
  /\ UNCHANGED <<thread, forced, woken, clock, left>>

\* A panic takes PID 1 with it, past the emergency shell (exit code 101 of
\* the Rust runtime).
Panic(s) ==
  /\ s \in Panics
  /\ stage = s
  /\ stage' = "exited"
  /\ code' = 101
  /\ UNCHANGED <<thread, forced, woken, clock, left>>

Listen ==
  /\ stage = "listen"
  /\ thread' = [thread EXCEPT !["udev"] = "running"]
  /\ Goto("force")
  /\ UNCHANGED <<forced, woken, clock, left>>

ListenFails ==
  /\ "listen" \in Faults
  /\ stage = "listen"
  /\ Bail(10)
  /\ UNCHANGED <<thread, forced, woken, clock, left>>

\* load_modules returns while the loader threads are at work.
ForceModules ==
  /\ stage = "force"
  /\ forced' = "loading"
  /\ Goto("vconsole")
  /\ UNCHANGED <<thread, woken, clock, left>>

ForceModulesFails ==
  /\ "force" \in Faults
  /\ stage = "force"
  /\ Bail(11)
  /\ UNCHANGED <<thread, forced, woken, clock, left>>

\* SysfsWalker::walk starts one walker after the other and waits for the
\* waker of each.
Walk(t, next) ==
  /\ "ready" \in Walkers
  /\ stage = t
  /\ thread' = [thread EXCEPT ![t] = "running"]
  /\ Goto(next)
  /\ UNCHANGED <<forced, woken, clock, left>>

\* A walker answers with an error, or is gone without an answer.
WalkFails(t) ==
  /\ Walkers \cap {"error", "dropped"} # {}
  /\ stage = t
  /\ thread' = [thread EXCEPT ![t] = "over"]
  /\ Bail(13)
  /\ UNCHANGED <<forced, woken, clock, left>>

-----------------------------------------------------------------------------
(* The event loop.                                                         *)

\* get_mount_timeout
HasTimeout == MountTimeout > 0

\* (Variant of TimeLeft: the time waited is added.)
TimeLeft_Added(start, now) ==
  IF HasTimeout THEN MountTimeout + (now - start) ELSE Never

\* calculate_evloop_timeout: the time the next poll may take, or Expired.
\* `start - now` is a subtraction of Instants, which saturates at zero.  (Before
\* Rust 1.60 it panicked.)
TimeLeft(start, now) ==
  LET elapsed == IF start >= now THEN start - now ELSE 0 IN
  CASE ~HasTimeout -> Never
    [] HasTimeout /\ elapsed <= MountTimeout -> MountTimeout - elapsed
    [] HasTimeout /\ elapsed > MountTimeout -> Expired

\* Compute the timeout of the next poll and start it.
PollFor(now) ==
  LET time == TimeLeft(0, now) IN
  /\ left' = time
  /\ IF time = Expired THEN Bail(14) ELSE Goto("polling")

EnterLoop ==
  /\ stage = "loop"
  /\ clock' = 0
  /\ PollFor(0)
  /\ UNCHANGED <<thread, forced, woken>>

\* Time passes while main is in poll, never beyond the poll's timeout.
Tick ==
  /\ stage = "polling"
  /\ left # 0
  /\ left' = IF left = Never THEN Never ELSE left - 1
  /\ clock' = IF clock > MountTimeout THEN clock ELSE clock + 1
  /\ UNCHANGED <<stage, code, thread, forced, woken>>

PollWoken ==
  /\ stage = "polling"
  /\ woken
  /\ Goto("tell_udev")
  /\ UNCHANGED <<thread, forced, woken, clock, left>>

\* poll returns without an event, or is interrupted by a signal.
PollReturns ==
  /\ stage = "polling"
  /\ ~woken
  /\ left = 0
  /\ PollFor(clock)
  /\ UNCHANGED <<thread, forced, woken, clock>>

PollInterrupted ==
  /\ "interrupt" \in Faults
  /\ stage = "polling"
  /\ ~woken
  /\ PollFor(clock)
  /\ UNCHANGED <<thread, forced, woken, clock>>

PollFails ==
  /\ "poll" \in Faults
  /\ stage = "polling"
  /\ Bail(14)
  /\ UNCHANGED <<thread, forced, woken, clock, left>>

-----------------------------------------------------------------------------
(* Stopping the threads, switching to the target.                          *)

\* UdevListener::stop, then SysfsWalker::stop: the stage in which a thread is
\* woken, the one in which it is joined, and what comes after.
Stops == {
  <<"udev",     "tell_udev",     "join_udev",     "tell_block">>,
  <<"block",    "tell_block",    "join_block",    "tell_modalias">>,
  <<"modalias", "tell_modalias", "join_modalias", "wait">>}

\* (Variants of Tell: the thread is not woken; of Join: it is not joined.)
Tell_Silent(s) ==
  /\ stage = s[2]
  /\ Goto(s[3])
  /\ UNCHANGED <<thread, forced, woken, clock, left>>

Tell(s) ==
  /\ stage = s[2]
  /\ thread' = [thread EXCEPT ![s[1]] = IF @ = "running" THEN "told" ELSE @]
  /\ Goto(s[3])
  /\ UNCHANGED <<forced, woken, clock, left>>

\* The wake fails: main says so and joins the thread all the same
\* (ThreadHandle::join_now), which goes on as if nothing were.
TellFails(s) ==
  /\ "wake" \in Faults
  /\ stage = s[2]
  /\ thread' = [thread EXCEPT ![s[1]] = IF @ = "running" THEN "missed" ELSE @]
  /\ Goto(s[3])
  /\ UNCHANGED <<forced, woken, clock, left>>

Join_Detached(s) ==
  /\ stage = s[3]
  /\ Goto(s[4])
  /\ UNCHANGED <<thread, forced, woken, clock, left>>

Join(s) ==
  /\ stage = s[3]
  /\ thread[s[1]] = "over"
  /\ Goto(s[4])
  /\ UNCHANGED <<thread, forced, woken, clock, left>>

\* mod_loaded.wait()
WaitForced ==
  /\ stage = "wait"
  /\ forced = "loaded"
  /\ Goto("move")
  /\ UNCHANGED <<thread, forced, woken, clock, left>>

Exec ==
  /\ stage = "exec"
  /\ Goto("target")
  /\ UNCHANGED <<thread, forced, woken, clock, left>>

ExecFails ==
  /\ "exec" \in Faults
  /\ stage = "exec"
  /\ Bail(101)
  /\ UNCHANGED <<thread, forced, woken, clock, left>>

\* spawn_emergency_shell: busybox, then toybox; if neither can be executed
\* main syncs the disks and exits.
Shell ==
  /\ stage \in {"busybox", "toybox"}
  /\ Goto("shell")
  /\ UNCHANGED <<thread, forced, woken, clock, left>>

NoShell(s, next) ==
  /\ s \in Faults
  /\ stage = s
  /\ Goto(next)
  /\ UNCHANGED <<thread, forced, woken, clock, left>>

-----------------------------------------------------------------------------
(* The other threads, as long as the process lives.                        *)

\* Whoever mounts the root wakes main; the first to have main_waker is the
\* listener.
MountRoot ==
  /\ stage \notin Ended
  /\ \E t \in Thread : thread[t] # "none"
  /\ ~woken
  /\ woken' = TRUE
  /\ UNCHANGED <<stage, code, thread, forced, clock, left>>

ThreadStops(t) ==
  /\ stage \notin Ended
  /\ thread[t] = "told"
  /\ thread' = [thread EXCEPT ![t] = "over"]
  /\ UNCHANGED <<stage, code, forced, woken, clock, left>>

\* It panics, or returns of its own accord.
ThreadDies(t) ==
  /\ stage \notin Ended
  /\ thread[t] \in {"running", "missed"}
  /\ thread' = [thread EXCEPT ![t] = "over"]
  /\ UNCHANGED <<stage, code, forced, woken, clock, left>>

ForcedLoaded ==
  /\ stage \notin Ended
  /\ forced = "loading"
  /\ forced' = "loaded"
  /\ UNCHANGED <<stage, code, thread, woken, clock, left>>

-----------------------------------------------------------------------------
MainThread ==
  \/ \E p \in Plain : Pass(p)
  \/ Listen \/ ForceModules
  \/ Walk("modalias", "block") \/ Walk("block", "loop")
  \/ WalkFails("modalias") \/ WalkFails("block")
  \/ EnterLoop \/ PollWoken \/ PollReturns
  \/ \E s \in Stops : Tell(s) \/ Join(s)
  \/ WaitForced \/ Exec
  \/ Shell

Failure ==
  \/ \E p \in Plain : Fail(p)
  \/ ListenFails \/ ForceModulesFails \/ PollInterrupted \/ PollFails
  \/ (\E s \in Stops : TellFails(s)) \/ ExecFails
  \/ (\E s \in Panicking : Panic(s))
  \/ NoShell("busybox", "toybox") \/ NoShell("toybox", "exited")

Background ==
  \/ MountRoot
  \/ \E t \in Thread : ThreadStops(t) \/ ThreadDies(t)
  \/ ForcedLoaded

Next == MainThread \/ Failure \/ Background \/ Tick

Spec == Init /\ [][Next]_vars

\* The main thread is scheduled, time passes, and a thread that was told to
\* stop does.  Nobody has to mount the root, and modules may load for ever.
FairSpec ==
  /\ Spec
  /\ WF_vars(MainThread)
  /\ WF_vars(Tick)
  /\ WF_vars(\E t \in Thread : ThreadStops(t))
-----------------------------------------------------------------------------
(* Properties.                                                             *)

Early == {"sanity", "devtmpfs", "console", "sysfs", "proc", "run", "efivars", "config",
  "kver", "aliases", "pivot", "cmdline", "evloop", "waker", "listen", "force", "vconsole",
  "modalias", "block", "loop", "polling"}

Stopping == {"tell_udev", "join_udev", "tell_block", "join_block", "tell_modalias",
  "join_modalias", "wait"}

Stage == Early \cup Stopping \cup Switching \cup {"busybox", "toybox"} \cup Ended

\* Every variable has its type, and a poll never has more time than the
\* timeout of the configuration.
TypeOK ==
  /\ stage \in Stage
  /\ code \in Nat
  /\ thread \in [Thread -> {"none", "running", "told", "missed", "over"}]
  /\ forced \in {"none", "loading", "loaded"}
  /\ woken \in BOOLEAN
  /\ clock \in Nat
  /\ left \in Int
  /\ left = Never \/ left <= MountTimeout

\* When the mounts move to the target, the listener and both walkers, which
\* were running, are over and the forced modules are loaded (main.rs:396-402).
\* The handlers of uevents and their loader threads are not meant: nobody
\* joins them (udev.rs:118).
QuietWhenSwitching ==
  stage \in Switching =>
    /\ \A t \in Thread : thread[t] = "over"
    /\ forced = "loaded"

\* Once somebody has mounted the root and woken main, before or during its
\* poll, the boot ends, in the target or in an emergency.  Two things can hold
\* it up for ever: forced modules that never load, and a thread whose wake has
\* failed, which main joins nevertheless and which never ends
\* (common.rs:26-35).
MountedRootBoots ==
  woken ~> \/ stage \in Ended
           \/ [](stage = "wait" /\ forced # "loaded")
           \/ [](\E s \in Stops : stage = s[3] /\ thread[s[1]] = "missed")

\* "Root mount timeout in seconds" (config.rs:166): with a timeout, main does
\* not wait for the root for ever.
TimeoutEnds == HasTimeout => (stage = "polling" ~> stage # "polling")
=============================================================================
