----------------------------- MODULE ModLoading -----------------------------
(***************************************************************************)
(* Kernel-module loading of src/src/module.rs: `ModLoading`, the loader    *)
(* threads it spawns and the alias bookkeeping of `ModAliases`.            *)
(*                                                                         *)
(* A caller (the main thread with the forced modules, a uevent thread with *)
(* a device alias) walks the dependency graph under one mutex.  Every      *)
(* module met for the first time gets a loader thread, which waits for the *)
(* WaitGroup of its own dependencies, calls finit_module(2), and takes the *)
(* mutex again to release the module's waiters and to request its          *)
(* post-dependencies.  Callers wait on a WaitGroup for their modules.      *)
(*                                                                         *)
(* A WaitGroup is named by its creator: a caller, or the loader thread     *)
(* whose dependencies it counts.  Its counter is not a variable: a clone   *)
(* lives in `loading` or is the `orig` of a thread that has not ended, so  *)
(* "the count is zero" is the state function Released.                     *)
(***************************************************************************)
EXTENDS Naturals, Sequences, FiniteSets

CONSTANTS
  Module,   \* names of kernel modules
  Main,     \* the main thread
  Uevent,   \* the threads that load a module for a device
  Alias,    \* modalias strings
  Configs,  \* the engine.toml / ignited.alias contents considered
  Faults    \* which of "kmsg", "finit", "spawn" may fail

Caller == {Main} \cup Uevent

Config == [force   : Seq(Module),
           deps    : [Module -> Seq(Module)],
           post    : [Module -> Seq(Module)],
           builtin : SUBSET Module,
           aliases : [Alias -> Seq(Module)]]

ASSUME ConstantsAssumption ==
  /\ Configs \subseteq Config
  /\ Faults \subseteq {"kmsg", "finit", "spawn"}
  /\ Caller \cap Nat = {}

VARIABLES
  config,     \* Arc<RuntimeConfig>: fixed once read
  processed,  \* ModAliases::bookkeeping_processed
  loaded,     \* ModLoadingInner::loaded
  loading,    \* ModLoadingInner::loading; {} stands for a vacant entry
  poisoned,   \* a thread panicked while it held the mutex
  stack,      \* invocations of load_modules_unlocked by the mutex holder
  thread,     \* the loader threads, in the order their entry was made
  caller,     \* progress of each caller
  kernel      \* modules the kernel has (finit_module succeeded)

vars == <<config, processed, loaded, loading, poisoned, stack, thread, caller,
          kernel>>

SetOf(s) == {s[i] : i \in DOMAIN s}

Satisfied == kernel \cup config.builtin

-----------------------------------------------------------------------------
(* The WaitGroup of crossbeam: wait() returns when every other clone of it *)
(* has been dropped.                                                       *)

Ended == {"done", "failed", "aborted"}

Released(w) ==
  /\ \A m \in Module : w \notin loading[m]
  /\ \A t \in DOMAIN thread : thread[t].orig = w => thread[t].pc \in Ended

-----------------------------------------------------------------------------
Init ==
  /\ config \in Configs
  /\ processed = {}
  /\ loaded = {}
  /\ loading = [m \in Module |-> {}]
  /\ poisoned = FALSE
  /\ stack = <<>>
  /\ thread = <<>>
  /\ caller = [c \in Caller |-> [pc |-> "idle", want |-> <<>>]]
  /\ kernel = {}

-----------------------------------------------------------------------------
(* The callers.                                                            *)

\* main.rs asks for the forced modules.
LoadForced ==
  /\ caller[Main].pc = "idle"
  /\ caller' = [caller EXCEPT ![Main] = [pc |-> "lock", want |-> config.force]]
  /\ UNCHANGED <<config, processed, loaded, loading, poisoned, stack, thread, kernel>>

\* load_modalias: an alias is matched once; a later request for it finds no
\* module, and a request without modules returns Ok(None).
LoadModalias(c, a) ==
  LET matched == IF a \in processed THEN <<>> ELSE config.aliases[a] IN
  /\ caller[c].pc = "idle"
  /\ processed' = processed \cup {a}
  /\ caller' = [caller EXCEPT ![c] =
       [pc |-> IF matched = <<>> THEN "none" ELSE "lock", want |-> matched]]
  /\ UNCHANGED <<config, loaded, loading, poisoned, stack, thread, kernel>>

\* load_modules takes the mutex, or gives up when it is poisoned.
Lock(c) ==
  /\ caller[c].pc = "lock"
  /\ stack = <<>>
  /\ \/ /\ ~poisoned
        /\ caller' = [caller EXCEPT ![c].pc = "load"]
        /\ stack' = <<[task |-> c, wg |-> c, todo |-> caller[c].want]>>
     \/ /\ poisoned
        /\ caller' = [caller EXCEPT ![c].pc = "failed"]
        /\ UNCHANGED stack
  /\ UNCHANGED <<config, processed, loaded, loading, poisoned, thread, kernel>>

\* ModWg::wait
Wait(c) ==
  /\ caller[c].pc = "wait"
  /\ Released(c)
  /\ caller' = [caller EXCEPT ![c].pc = "done"]
  /\ UNCHANGED <<config, processed, loaded, loading, poisoned, stack, thread, kernel>>

-----------------------------------------------------------------------------
(* load_modules_unlocked, one step per iteration of its loop.              *)

Top == stack[Len(stack)]

\* The stack once the module at hand has been dealt with.
Advanced == [stack EXCEPT ![Len(stack)].todo = Tail(@)]

\* The module needs no loading.  (Variant: built-in modules forgotten.)
AlreadyThere_NoBuiltin(m) == m \in loaded
AlreadyThere(m) == m \in loaded \cup config.builtin

\* Nobody is loading it: Entry::Vacant.  (Variant: the entry is not looked at.)
Vacant_Always(m) == m \in Module
Vacant(m) == loading[m] = {}

Visiting(m) ==
  /\ stack # <<>>
  /\ Top.todo # <<>>
  /\ m = Head(Top.todo)

\* Loaded or built in: nothing to do.
SkipModule(m) ==
  /\ Visiting(m)
  /\ AlreadyThere(m)
  /\ stack' = Advanced
  /\ UNCHANGED <<config, processed, loaded, loading, poisoned, thread, caller, kernel>>

\* (Variant of JoinModule: the WaitGroup is not handed to the loading thread.)
JoinModule_NoWait(m) ==
  /\ Visiting(m)
  /\ ~AlreadyThere(m)
  /\ ~Vacant(m)
  /\ stack' = Advanced
  /\ UNCHANGED <<config, processed, loaded, loading, poisoned, thread, caller, kernel>>

\* Somebody is loading it already: have them release this WaitGroup too.
JoinModule(m) ==
  /\ Visiting(m)
  /\ ~AlreadyThere(m)
  /\ ~Vacant(m)
  /\ loading' = [loading EXCEPT ![m] = @ \cup {Top.wg}]
  /\ stack' = Advanced
  /\ UNCHANGED <<config, processed, loaded, poisoned, thread, caller, kernel>>

\* The name of the next loader thread and of the WaitGroup it waits for.
\* (Variant: the name of the last one.)
NextThread_Last == Len(thread)
NextThread == Len(thread) + 1

\* First to ask for it: enter it and recurse into its dependencies with a
\* WaitGroup of its own.  The thread is spawned when the recursion returns.
BeginModule(m) ==
  LET t == NextThread IN
  /\ Visiting(m)
  /\ ~AlreadyThere(m)
  /\ Vacant(m)
  /\ loading' = [loading EXCEPT ![m] = {Top.wg}]
  /\ thread' = Append(thread, [pc |-> "pending", module |-> m, orig |-> Top.wg])
  /\ stack' = Append(Advanced, [task |-> t, wg |-> t, todo |-> config.deps[m]])
  /\ UNCHANGED <<config, processed, loaded, poisoned, caller, kernel>>

\* The stack after the innermost invocation has returned.
Returned == SubSeq(stack, 1, Len(stack) - 1)

\* The recursion into the dependencies returns: spawn the loader thread.
Spawn ==
  /\ Len(stack) > 1
  /\ Top.todo = <<>>
  /\ thread' = [thread EXCEPT ![Top.task].pc = "deps"]
  /\ stack' = Returned
  /\ UNCHANGED <<config, processed, loaded, loading, poisoned, caller, kernel>>

\* thread::spawn panics (the system is out of threads) while the mutex is
\* held: the whole call stack unwinds and the mutex is poisoned.
SpawnPanics ==
  /\ "spawn" \in Faults
  /\ Len(stack) > 1
  /\ Top.todo = <<>>
  /\ poisoned' = TRUE
  /\ thread' = [t \in DOMAIN thread |->
       IF \E i \in DOMAIN stack : stack[i].task = t
         THEN [thread[t] EXCEPT !.pc = IF @ = "post" THEN "aborted" ELSE "failed"]
         ELSE thread[t]]
  /\ \/ /\ stack[1].task \in Caller
        /\ caller' = [caller EXCEPT ![stack[1].task].pc = "failed"]
     \/ /\ stack[1].task \notin Caller
        /\ UNCHANGED caller
  /\ stack' = <<>>
  /\ UNCHANGED <<config, processed, loaded, loading, kernel>>

\* The outermost invocation returns and the mutex is released.
Unlock ==
  /\ Len(stack) = 1
  /\ Top.todo = <<>>
  /\ \/ /\ Top.task \in Caller
        /\ caller' = [caller EXCEPT ![Top.task].pc = "wait"]
        /\ UNCHANGED thread
     \/ /\ Top.task \in DOMAIN thread
        /\ thread' = [thread EXCEPT ![Top.task].pc = "done"]
        /\ UNCHANGED caller
  /\ stack' = <<>>
  /\ UNCHANGED <<config, processed, loaded, loading, poisoned, kernel>>

-----------------------------------------------------------------------------
(* The loader thread: load_module.                                         *)

Goto(t, pc) == thread' = [thread EXCEPT ![t].pc = pc]

\* KConsole::new().unwrap() panics when /dev/kmsg cannot be opened.
NoConsole(t) ==
  /\ "kmsg" \in Faults
  /\ thread[t].pc = "deps"
  /\ Goto(t, "failed")
  /\ UNCHANGED <<config, processed, loaded, loading, poisoned, stack, caller, kernel>>

\* deps_wg.wait()  (Variant: the two WaitGroups of load_module swapped.)
DepsReady_Swapped(t) ==
  /\ thread[t].pc = "deps"
  /\ Released(thread[t].orig)
  /\ Goto(t, "finit")
  /\ UNCHANGED <<config, processed, loaded, loading, poisoned, stack, caller, kernel>>

DepsReady(t) ==
  /\ thread[t].pc = "deps"
  /\ Released(t)
  /\ Goto(t, "finit")
  /\ UNCHANGED <<config, processed, loaded, loading, poisoned, stack, caller, kernel>>

\* finit_module(2) accepts a module the kernel does not have.
Finit(t) ==
  /\ thread[t].pc = "finit"
  /\ thread[t].module \notin kernel
  /\ kernel' = kernel \cup {thread[t].module}
  /\ Goto(t, "lock")
  /\ UNCHANGED <<config, processed, loaded, loading, poisoned, stack, caller>>

\* (Variant of FinitFails: the waiters are released although it failed.)
FinitFails_Releases(t) ==
  /\ thread[t].pc = "finit"
  /\ thread[t].module \in kernel \/ "finit" \in Faults
  /\ loading' = [loading EXCEPT ![thread[t].module] = {}]
  /\ Goto(t, "failed")
  /\ UNCHANGED <<config, processed, loaded, poisoned, stack, caller, kernel>>

\* It fails with EEXIST on a module the kernel has; the file may be missing
\* or rejected.  load_module returns at once.
FinitFails(t) ==
  /\ thread[t].pc = "finit"
  /\ thread[t].module \in kernel \/ "finit" \in Faults
  /\ Goto(t, "failed")
  /\ UNCHANGED <<config, processed, loaded, loading, poisoned, stack, caller, kernel>>

\* (Variant: the post-dependencies are not requested on behalf of who asked
\* first.)
Finish_OwnWg(t) ==
  /\ thread[t].pc = "lock"
  /\ stack = <<>>
  /\ ~poisoned
  /\ loading' = [loading EXCEPT ![thread[t].module] = {}]
  /\ Goto(t, "post")
  /\ stack' = <<[task |-> t, wg |-> t, todo |-> config.post[thread[t].module]]>>
  /\ UNCHANGED <<config, processed, loaded, poisoned, caller, kernel>>

\* Take the mutex, drop the WaitGroups of all who wait for the module, and
\* request its post-dependencies on behalf of the one who asked first.
Finish(t) ==
  /\ thread[t].pc = "lock"
  /\ stack = <<>>
  /\ ~poisoned
  /\ loading' = [loading EXCEPT ![thread[t].module] = {}]
  /\ Goto(t, "post")
  /\ stack' = <<[task |-> t, wg |-> thread[t].orig,
                 todo |-> config.post[thread[t].module]]>>
  /\ UNCHANGED <<config, processed, loaded, poisoned, caller, kernel>>

\* The mutex is poisoned: load_module returns an error nobody reads.
FinishPoisoned(t) ==
  /\ thread[t].pc = "lock"
  /\ poisoned
  /\ Goto(t, "failed")
  /\ UNCHANGED <<config, processed, loaded, loading, poisoned, stack, caller, kernel>>

-----------------------------------------------------------------------------
LoadLoop ==
  \/ \E m \in Module : SkipModule(m) \/ JoinModule(m) \/ BeginModule(m)
  \/ Spawn
  \/ Unlock

Loader(t) ==
  DepsReady(t) \/ Finit(t) \/ FinitFails(t) \/ Finish(t) \/ FinishPoisoned(t)

\* What the scheduler runs sooner or later: the main thread's request and
\* every step of a thread that can take one.
Progress ==
  \/ LoadForced
  \/ \E c \in Caller : Lock(c) \/ Wait(c)
  \/ LoadLoop
  \/ \E t \in DOMAIN thread : Loader(t)

\* Device events and panics happen or not.
Environment ==
  \/ \E c \in Uevent, a \in Alias : LoadModalias(c, a)
  \/ SpawnPanics
  \/ \E t \in DOMAIN thread : NoConsole(t)

Next == Progress \/ Environment

Spec == Init /\ [][Next]_vars

FairSpec == Spec /\ WF_vars(Progress)
-----------------------------------------------------------------------------
(* Properties.                                                             *)

LoaderState == {"pending", "deps", "finit", "lock", "post"} \cup Ended

CallerState == {"idle", "none", "lock", "load", "wait", "done", "failed"}

\* Whoever can own a WaitGroup: the callers and the loader threads so far.
Holder == Caller \cup DOMAIN thread

Frame(H) == [task : H, wg : H, todo : Seq(Module)]

\* Every variable has its type; the frames of the call stack and the
\* WaitGroups held anywhere name existing callers and loader threads.
TypeOK ==
  /\ config \in Configs
  /\ processed \subseteq Alias
  /\ loaded = {}
  /\ loading \in [Module -> SUBSET Holder]
  /\ poisoned \in BOOLEAN
  /\ stack \in Seq(Frame(Holder))
  /\ thread \in Seq([pc : LoaderState, module : Module, orig : Holder])
  /\ caller \in [Caller -> [pc : CallerState, want : Seq(Module)]]
  /\ kernel \subseteq Module

\* finit_module is never called for a module before each of its
\* dependencies is in the kernel, whoever asked for them first and whatever
\* failed (load_module's deps_wg.wait()).
DepsFirst ==
  \A t \in DOMAIN thread :
    thread[t].pc = "finit" => SetOf(config.deps[thread[t].module]) \subseteq Satisfied

\* A caller whose ModWg::wait returned has every module it asked for; a
\* failed load keeps it waiting, it never lets it through.
ReturnMeansLoaded ==
  \A c \in Caller : caller[c].pc = "done" => SetOf(caller[c].want) \subseteq Satisfied

\* It has the post-dependencies too, transitively, of every module it was
\* the first to ask for (load_module passes on orig_wg).
PostDepsAwaited ==
  \A c \in Caller, t \in DOMAIN thread :
    caller[c].pc = "done" /\ thread[t].orig = c =>
      /\ thread[t].pc = "done"
      /\ SetOf(config.post[thread[t].module]) \subseteq Satisfied

\* Loader threads that answer for their module's entry in `loading`.
Answering == {"pending", "deps", "finit", "lock", "failed"}

\* A module has an entry in `loading` exactly when one loader thread answers
\* for it, and never two: the entry is what keeps a second thread away.
SoleLoader ==
  \A m \in Module :
    LET answering == {t \in DOMAIN thread : thread[t].module = m /\ thread[t].pc \in Answering}
    IN  IF loading[m] = {} THEN answering = {} ELSE \E t \in answering : answering = {t}

\* finit_module is not called for a module the kernel has got already
\* ("records already loaded modules", module.rs:207).
LoadedOnce ==
  \A t \in DOMAIN thread : thread[t].pc = "finit" => thread[t].module \notin kernel

\* "Wait for kernel modules to finish loading" (module.rs:201): as long as
\* nothing fails, every ModWg::wait returns.
WaitReturns == \A c \in Caller : caller[c].pc = "wait" ~> caller[c].pc = "done"

\* These modules, what they ask for, and so on.
Closure(S, Asks(_)) ==
  LET reach[n \in 0..Cardinality(Module)] ==
        IF n = 0 THEN S
        ELSE LET before == reach[n - 1] IN before \cup UNION {Asks(m) : m \in before}
  IN  reach[Cardinality(Module)]

Deps(m) == SetOf(config.deps[m])
Posts(m) == SetOf(config.post[m])

\* The modules on which it depends that a caller comes back.
NeededBy(c) == LET Asks(m) == Deps(m) \cup Posts(m) IN Closure(SetOf(caller[c].want), Asks)

\* The loader of m waits for its dependencies and, transitively, for their
\* post-dependencies, which are requested with the WaitGroup it waits on.
Awaits(m) == Closure(Deps(m), Posts)

\* Some of these modules wait for each other, or one for itself, by the graphs.
Circular(S) ==
  LET awaits == [m \in S |-> Awaits(m)] IN
  \E R \in SUBSET S \ {{}} : \A m \in R : awaits[m] \cap R # {}

\* A caller waits for ever only when the mutex is poisoned or the loading of a
\* module it needs has failed; failures elsewhere hold up nobody.  The
\* graphs where modules wait for each other are left to WaitReturns.
WaitEnds ==
  \A c \in Caller :
    caller[c].pc = "wait" /\ ~Circular(NeededBy(c)) ~>
      \/ caller[c].pc = "done"
      \/ poisoned
      \/ \E t \in DOMAIN thread : thread[t].pc = "failed" /\ thread[t].module \in NeededBy(c)

\* The loader threads implement the contract of LoadContract.tla.
Contract == INSTANCE LoadContract WITH
  demanded <- {thread[t].module : t \in DOMAIN thread}
                \cup UNION {SetOf(caller[c].want) : c \in Caller},
  inserted <- kernel,
  call <- [c \in Caller |->
    [state |-> CASE caller[c].pc = "idle"              -> "idle"
                 [] caller[c].pc \in {"none", "failed"} -> "refused"
                 [] caller[c].pc = "done"              -> "returned"
                 [] OTHER                              -> "asked",
     want  |-> SetOf(caller[c].want)]]

ImplementsContract == Contract!Spec
=============================================================================
