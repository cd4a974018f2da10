--------------------------- MODULE ModLoadingProofs ---------------------------
(***************************************************************************)
(* Theorems about ModLoading, for any modules, threads, graphs and faults: *)
(* its types, the order of loading, who comes back from a wait, and that it *)
(* implements LoadContract.                                                *)
(***************************************************************************)
EXTENDS ModLoading, SequenceTheorems, TLAPS

-----------------------------------------------------------------------------
(* Type correctness.                                                       *)

\* What a dependency graph of Configs looks like.
LEMMA ConfigType ==
  ASSUME TypeOK
  PROVE  /\ config.force \in Seq(Module)
         /\ config.builtin \in SUBSET Module
         /\ \A m \in Module : config.deps[m] \in Seq(Module)
         /\ \A m \in Module : config.post[m] \in Seq(Module)
         /\ \A a \in Alias : config.aliases[a] \in Seq(Module)
BY ConstantsAssumption DEF TypeOK, Config

\* Sequences: their elements, and what a larger set of elements leaves true.
LEMMA SeqElements ==
  ASSUME NEW S, NEW s \in Seq(S)
  PROVE  /\ Len(s) \in Nat
         /\ DOMAIN s = 1..Len(s)
         /\ \A i \in DOMAIN s : s[i] \in S
OBVIOUS

LEMMA SeqMono ==
  ASSUME NEW S, NEW T, S \subseteq T, NEW s \in Seq(S)
  PROVE  s \in Seq(T)
<1>1. \A i \in 1..Len(s) : s[i] \in T
  OBVIOUS
<1> QED
  BY <1>1

LEMMA SmallSeq ==
  ASSUME NEW S
  PROVE  /\ <<>> \in Seq(S)
         /\ \A x \in S : <<x>> \in Seq(S)
OBVIOUS

LEMMA SeqOfFunction ==
  ASSUME NEW S, NEW n \in Nat, NEW f \in [1..n -> S]
  PROVE  f \in Seq(S)
OBVIOUS

\* Holders are not lost: a stack of frames stays one when threads are added.
LEMMA FrameMono ==
  ASSUME NEW H, NEW G, H \subseteq G, NEW s \in Seq(Frame(H))
  PROVE  s \in Seq(Frame(G))
<1>1. Frame(H) \subseteq Frame(G)
  BY DEF Frame
<1> QED
  BY <1>1, SeqMono

\* Changing what a frame has left to do changes nothing else in it.
LEMMA FrameTodo ==
  ASSUME NEW H, NEW f \in Frame(H), NEW ms \in Seq(Module)
  PROVE  [f EXCEPT !.todo = ms] \in Frame(H)
BY SMT DEF Frame

\* The stacks the loop produces are stacks of frames.
LEMMA StackType ==
  ASSUME NEW H, NEW s \in Seq(Frame(H)), s # <<>>
  PROVE  /\ s[Len(s)] \in Frame(H)
         /\ Len(s) \in Nat \ {0}
         /\ SubSeq(s, 1, Len(s) - 1) \in Seq(Frame(H))
         /\ s[Len(s)].todo # <<>> =>
              [s EXCEPT ![Len(s)].todo = Tail(@)] \in Seq(Frame(H))
<1>1. s[Len(s)] \in Frame(H) /\ Len(s) \in Nat \ {0}
  BY SMT
<1>2. SubSeq(s, 1, Len(s) - 1) \in Seq(Frame(H))
  BY <1>1, SMT
<1>3. ASSUME s[Len(s)].todo # <<>>
      PROVE  [s EXCEPT ![Len(s)].todo = Tail(@)] \in Seq(Frame(H))
  <2>1. [s[Len(s)] EXCEPT !.todo = Tail(@)] \in Frame(H)
    <3>1. Tail(s[Len(s)].todo) \in Seq(Module)
      BY <1>1, <1>3 DEF Frame
    <3> QED
      BY <1>1, <3>1, FrameTodo
  <2>2. [s EXCEPT ![Len(s)].todo = Tail(@)] = [s EXCEPT ![Len(s)] = [s[Len(s)] EXCEPT !.todo = Tail(@)]]
    BY <1>1, SMT
  <2> QED
    BY <1>1, <2>1, <2>2, SMT
<1> QED
  BY <1>1, <1>2, <1>3

\* Threads are named 1, 2, ... and a thread is added only at the end.
LEMMA ThreadType ==
  ASSUME TypeOK
  PROVE  /\ DOMAIN thread = 1..Len(thread)
         /\ Len(thread) \in Nat
         /\ \A t \in DOMAIN thread :
              thread[t] \in [pc : LoaderState, module : Module, orig : Holder]
         /\ \A t \in DOMAIN thread, p \in LoaderState :
              /\ [thread EXCEPT ![t].pc = p] \in Seq([pc : LoaderState, module : Module, orig : Holder])
              /\ DOMAIN [thread EXCEPT ![t].pc = p] = DOMAIN thread
<1>1. thread \in Seq([pc : LoaderState, module : Module, orig : Holder])
  BY DEF TypeOK
<1>2. /\ DOMAIN thread = 1..Len(thread)
      /\ Len(thread) \in Nat
      /\ \A t \in DOMAIN thread : thread[t] \in [pc : LoaderState, module : Module, orig : Holder]
  BY <1>1, SeqElements
<1>3. ASSUME NEW t \in DOMAIN thread, NEW p \in LoaderState
      PROVE  /\ [thread EXCEPT ![t].pc = p] \in Seq([pc : LoaderState, module : Module, orig : Holder])
             /\ DOMAIN [thread EXCEPT ![t].pc = p] = DOMAIN thread
  <2>1. [thread[t] EXCEPT !.pc = p] \in [pc : LoaderState, module : Module, orig : Holder]
    BY <1>2
  <2> QED
    BY <1>1, <1>2, <2>1
<1> QED
  BY <1>2, <1>3

\* The holders are the same as long as no thread is added.
LEMMA HolderSame ==
  ASSUME DOMAIN thread' = DOMAIN thread
  PROVE  Holder' = Holder
BY DEF Holder

\* The step of a thread that only moves its pc keeps the types.
LEMMA GotoType ==
  ASSUME TypeOK, NEW t \in DOMAIN thread, NEW p \in LoaderState, Goto(t, p)
  PROVE  /\ thread' \in Seq([pc : LoaderState, module : Module, orig : Holder'])
         /\ Holder' = Holder
BY ThreadType DEF Goto, Holder

\* So does the step of a caller.
LEMMA CallerMoves ==
  ASSUME TypeOK, NEW c \in Caller, NEW p \in CallerState
  PROVE  [caller EXCEPT ![c].pc = p] \in [Caller -> [pc : CallerState, want : Seq(Module)]]
<1>1. caller \in [Caller -> [pc : CallerState, want : Seq(Module)]]
  BY DEF TypeOK
<1> QED
  BY <1>1

LEMMA TypeStep ==
  ASSUME TypeOK, [Next]_vars
  PROVE  TypeOK'
<1> USE ConfigType, ThreadType
<1>1. CASE LoadForced
  <2>1. Main \in Caller /\ Holder' = Holder
    BY <1>1, HolderSame DEF LoadForced, Caller
  <2> QED
    BY <1>1, <2>1 DEF LoadForced, TypeOK, CallerState
<1>2. ASSUME NEW c \in Uevent, NEW a \in Alias, LoadModalias(c, a)
      PROVE  TypeOK'
  <2>1. c \in Caller /\ Holder' = Holder
    BY <1>2, HolderSame DEF LoadModalias, Caller
  <2>2. caller' \in [Caller -> [pc : CallerState, want : Seq(Module)]]
    BY <1>2, <2>1 DEF LoadModalias, TypeOK, CallerState
  <2> QED
    BY <1>2, <2>1, <2>2 DEF LoadModalias, TypeOK
<1>3. ASSUME NEW c \in Caller, Lock(c)
      PROVE  TypeOK'
  <2>1. Holder' = Holder
    BY <1>3, HolderSame DEF Lock
  <2>2. caller' \in [Caller -> [pc : CallerState, want : Seq(Module)]]
    <3>1. \E p \in {"load", "failed"} : caller' = [caller EXCEPT ![c].pc = p]
      BY <1>3 DEF Lock
    <3>2. caller \in [Caller -> [pc : CallerState, want : Seq(Module)]]
      BY DEF TypeOK
    <3> QED
      BY <3>1, <3>2 DEF CallerState
  <2>3. [task |-> c, wg |-> c, todo |-> caller[c].want] \in Frame(Holder)
    BY DEF TypeOK, Frame, Holder
  <2>4. stack' \in Seq(Frame(Holder))
    <3>1. <<[task |-> c, wg |-> c, todo |-> caller[c].want]>> \in Seq(Frame(Holder))
      BY <2>3, SmallSeq
    <3>2. \/ stack' = <<[task |-> c, wg |-> c, todo |-> caller[c].want]>>
          \/ stack' = stack
      BY <1>3 DEF Lock
    <3> QED
      BY <3>1, <3>2 DEF TypeOK
  <2> QED
    BY <1>3, <2>1, <2>2, <2>4 DEF Lock, TypeOK
<1>4. ASSUME NEW c \in Caller, Wait(c)
      PROVE  TypeOK'
  BY <1>4 DEF Wait, TypeOK, Holder, CallerState
<1>5. ASSUME NEW m \in Module, SkipModule(m)
      PROVE  TypeOK'
  BY <1>5, StackType DEF SkipModule, Visiting, Top, Advanced, TypeOK, Holder
<1>6. ASSUME NEW m \in Module, JoinModule(m)
      PROVE  TypeOK'
  <2>1. Top.wg \in Holder
    BY <1>6, StackType DEF JoinModule, Visiting, Top, TypeOK, Frame
  <2> QED
    BY <1>6, <2>1, StackType DEF JoinModule, Visiting, Top, Advanced, TypeOK, Holder
<1>7. ASSUME NEW m \in Module, BeginModule(m)
      PROVE  TypeOK'
  <2> DEFINE Entry(H) == [pc : LoaderState, module : Module, orig : H]
  <2>1. Top.wg \in Holder
    BY <1>7, StackType DEF BeginModule, Visiting, Top, TypeOK, Frame
  <2>2. Holder \subseteq Holder' /\ NextThread \in Holder'
    BY <1>7 DEF BeginModule, NextThread, Holder
  <2>3. thread' \in Seq(Entry(Holder'))
    <3>1. thread \in Seq(Entry(Holder'))
      <4>1. Entry(Holder) \subseteq Entry(Holder')
        BY <2>2
      <4>2. thread \in Seq(Entry(Holder))
        BY DEF TypeOK
      <4> QED
        BY <4>1, <4>2, SeqMono
    <3>2. [pc |-> "pending", module |-> m, orig |-> Top.wg] \in Entry(Holder')
      BY <2>1, <2>2 DEF LoaderState
    <3>3. thread' = Append(thread, [pc |-> "pending", module |-> m, orig |-> Top.wg])
      BY <1>7 DEF BeginModule
    <3> QED
      BY <3>1, <3>2, <3>3
  <2>4. stack' \in Seq(Frame(Holder'))
    <3>1. Advanced \in Seq(Frame(Holder'))
      <4>1. Advanced \in Seq(Frame(Holder))
        BY <1>7, StackType DEF BeginModule, Visiting, Top, Advanced, TypeOK
      <4> QED
        BY <4>1, <2>2, FrameMono
    <3>2. [task |-> NextThread, wg |-> NextThread, todo |-> config.deps[m]] \in Frame(Holder')
      BY <2>2 DEF Frame
    <3> QED
      BY <1>7, <3>1, <3>2 DEF BeginModule
  <2>5. loading' \in [Module -> SUBSET Holder']
    BY <1>7, <2>1, <2>2 DEF BeginModule, TypeOK
  <2> QED
    BY <1>7, <2>3, <2>4, <2>5 DEF BeginModule, TypeOK
<1>8. CASE Spawn
  <2>1. stack \in Seq(Frame(Holder)) /\ stack # <<>>
    BY <1>8 DEF Spawn, TypeOK
  <2>2. Returned \in Seq(Frame(Holder))
    BY <2>1, StackType DEF Returned
  <2>3. thread' \in Seq([pc : LoaderState, module : Module, orig : Holder])
    <3>1. thread' \in [1..Len(thread) -> [pc : LoaderState, module : Module, orig : Holder]]
      BY <1>8 DEF Spawn, LoaderState
    <3> QED
      BY <3>1, SeqOfFunction
  <2>4. Holder' = Holder
    BY <1>8, HolderSame DEF Spawn
  <2> QED
    BY <1>8, <2>2, <2>3, <2>4 DEF Spawn, TypeOK
<1>9. CASE SpawnPanics
  <2>1. thread' \in Seq([pc : LoaderState, module : Module, orig : Holder])
    <3>1. \A t \in DOMAIN thread :
            thread'[t] \in [pc : LoaderState, module : Module, orig : Holder]
      BY <1>9 DEF SpawnPanics, LoaderState, Ended
    <3>2. DOMAIN thread' = 1..Len(thread)
      BY <1>9 DEF SpawnPanics
    <3>3. thread' \in [1..Len(thread) -> [pc : LoaderState, module : Module, orig : Holder]]
      BY <1>9, <3>1, <3>2 DEF SpawnPanics
    <3> QED
      BY <3>3, SeqOfFunction
  <2>3. Holder' = Holder
    BY <1>9, HolderSame DEF SpawnPanics
  <2>2. caller' \in [Caller -> [pc : CallerState, want : Seq(Module)]]
    <3>1. "failed" \in CallerState
      BY DEF CallerState
    <3>2. CASE stack[1].task \in Caller /\ caller' = [caller EXCEPT ![stack[1].task].pc = "failed"]
      BY <3>1, <3>2, CallerMoves
    <3>3. CASE caller' = caller
      BY <3>3 DEF TypeOK
    <3> QED
      BY <1>9, <3>2, <3>3 DEF SpawnPanics
  <2> QED
    BY <1>9, <2>1, <2>2, <2>3 DEF SpawnPanics, TypeOK
<1>10. CASE Unlock
  <2>1. thread' \in Seq([pc : LoaderState, module : Module, orig : Holder])
    <3>1. "done" \in LoaderState
      BY DEF LoaderState, Ended
    <3>2. CASE Top.task \in DOMAIN thread /\ thread' = [thread EXCEPT ![Top.task].pc = "done"]
      BY <3>1, <3>2, GotoType DEF Goto, Holder
    <3>3. CASE thread' = thread
      BY <3>3 DEF TypeOK
    <3> QED
      BY <1>10, <3>2, <3>3 DEF Unlock
  <2>2. Holder' = Holder
    BY <1>10, HolderSame DEF Unlock
  <2>3. caller' \in [Caller -> [pc : CallerState, want : Seq(Module)]]
    <3>1. "wait" \in CallerState
      BY DEF CallerState
    <3>2. CASE Top.task \in Caller /\ caller' = [caller EXCEPT ![Top.task].pc = "wait"]
      BY <3>1, <3>2, CallerMoves
    <3>3. CASE caller' = caller
      BY <3>3 DEF TypeOK
    <3> QED
      BY <1>10, <3>2, <3>3 DEF Unlock
  <2> QED
    BY <1>10, <2>1, <2>2, <2>3 DEF Unlock, TypeOK
<1>11. ASSUME NEW t \in DOMAIN thread, NoConsole(t)
       PROVE  TypeOK'
  BY <1>11, GotoType DEF NoConsole, TypeOK, LoaderState, Ended
<1>12. ASSUME NEW t \in DOMAIN thread, DepsReady(t)
       PROVE  TypeOK'
  BY <1>12, GotoType DEF DepsReady, TypeOK, LoaderState, Ended
<1>13. ASSUME NEW t \in DOMAIN thread, Finit(t)
       PROVE  TypeOK'
  BY <1>13, GotoType DEF Finit, TypeOK, LoaderState, Ended
<1>14. ASSUME NEW t \in DOMAIN thread, FinitFails(t)
       PROVE  TypeOK'
  BY <1>14, GotoType DEF FinitFails, TypeOK, LoaderState, Ended
<1>15. ASSUME NEW t \in DOMAIN thread, Finish(t)
       PROVE  TypeOK'
  <2>1. thread[t].module \in Module /\ thread[t].orig \in Holder /\ t \in Holder
    BY DEF Holder
  <2>2. stack' \in Seq(Frame(Holder))
    BY <1>15, <2>1 DEF Finish, Frame
  <2>3. loading' \in [Module -> SUBSET Holder]
    BY <1>15 DEF Finish, TypeOK
  <2> QED
    BY <1>15, <2>2, <2>3, GotoType DEF Finish, TypeOK, LoaderState
<1>16. ASSUME NEW t \in DOMAIN thread, FinishPoisoned(t)
       PROVE  TypeOK'
  BY <1>16, GotoType DEF FinishPoisoned, TypeOK, LoaderState, Ended
<1>17. CASE UNCHANGED vars
  BY <1>17 DEF vars, TypeOK, Holder
<1> QED
  BY <1>1, <1>2, <1>3, <1>4, <1>5, <1>6, <1>7, <1>8, <1>9, <1>10, <1>11, <1>12, <1>13,
     <1>14, <1>15, <1>16, <1>17
     DEF Next, Progress, Environment, LoadLoop, Loader

LEMMA InitType == Init => TypeOK
<1> SUFFICES ASSUME Init
             PROVE  TypeOK
  OBVIOUS
<1>1. caller \in [Caller -> [pc : CallerState, want : Seq(Module)]]
  BY DEF Init, CallerState
<1>2. loading \in [Module -> SUBSET Holder]
  BY DEF Init
<1> QED
  BY <1>1, <1>2, SmallSeq DEF Init, TypeOK

\* Every reachable state is well typed: the frames of load_modules_unlocked
\* and the WaitGroups in `loading` always belong to a caller or to a loader
\* thread that exists.
THEOREM TypeCorrect == Spec => []TypeOK
<1>1. TypeOK /\ [Next]_vars => TypeOK'
  BY TypeStep
<1> QED
  BY <1>1, InitType, PTL DEF Spec

-----------------------------------------------------------------------------
(* The call stack.                                                         *)

\* The invocation at the bottom walks for a caller or for a loader thread
\* that has loaded its module; every other one walks the dependencies of a
\* module whose thread has not been spawned yet.
StackInv ==
  /\ stack # <<>> =>
       \/ /\ stack[1].task \in Caller
          /\ stack[1].wg = stack[1].task
          /\ caller[stack[1].task].pc = "load"
       \/ /\ stack[1].task \in DOMAIN thread
          /\ stack[1].wg = thread[stack[1].task].orig
          /\ thread[stack[1].task].pc = "post"
  /\ \A i \in 2..Len(stack) :
       /\ stack[i].task \in DOMAIN thread
       /\ stack[i].wg = stack[i].task
       /\ thread[stack[i].task].pc = "pending"
  /\ \A i, j \in DOMAIN stack : stack[i].task = stack[j].task => i = j

\* What the stack looks like after one iteration and after a return.
LEMMA AdvancedShape ==
  ASSUME TypeOK, stack # <<>>
  PROVE  /\ Len(Advanced) = Len(stack)
         /\ DOMAIN Advanced = 1..Len(stack)
         /\ \A i \in 1..Len(stack) :
              /\ Advanced[i].task = stack[i].task
              /\ Advanced[i].wg = stack[i].wg
              /\ Advanced[i].todo = IF i = Len(stack) THEN Tail(stack[i].todo) ELSE stack[i].todo
<1>1. stack \in Seq(Frame(Holder))
  BY DEF TypeOK
<1>2. Len(stack) \in Nat \ {0} /\ DOMAIN stack = 1..Len(stack)
  BY <1>1
<1>3. \A i \in 1..Len(stack) : stack[i] \in Frame(Holder)
  BY <1>1
<1>4. \A i \in 1..Len(stack) :
        Advanced[i] = IF i = Len(stack) THEN [stack[i] EXCEPT !.todo = Tail(@)] ELSE stack[i]
  BY <1>2 DEF Advanced
<1>5. DOMAIN Advanced = 1..Len(stack)
  BY <1>2 DEF Advanced
<1>6. Len(Advanced) = Len(stack)
  BY <1>2, <1>5
<1>7. ASSUME NEW f \in Frame(Holder), NEW x
      PROVE  /\ [f EXCEPT !.todo = x].task = f.task
             /\ [f EXCEPT !.todo = x].wg = f.wg
             /\ [f EXCEPT !.todo = x].todo = x
  BY DEF Frame
<1>8. ASSUME NEW i \in 1..Len(stack)
      PROVE  /\ Advanced[i].task = stack[i].task
             /\ Advanced[i].wg = stack[i].wg
             /\ Advanced[i].todo = IF i = Len(stack) THEN Tail(stack[i].todo) ELSE stack[i].todo
  <2>1. CASE i = Len(stack)
    <3>1. Advanced[i] = [stack[i] EXCEPT !.todo = Tail(stack[i].todo)]
      BY <1>4, <2>1
    <3>2. stack[i] \in Frame(Holder)
      BY <1>3
    <3> QED
      BY <2>1, <3>1, <3>2, <1>7
  <2>2. CASE i # Len(stack)
    BY <1>4, <2>2
  <2> QED
    BY <2>1, <2>2
<1> QED
  BY <1>5, <1>6, <1>8

LEMMA ReturnedShape ==
  ASSUME TypeOK, stack # <<>>
  PROVE  /\ Len(Returned) = Len(stack) - 1
         /\ DOMAIN Returned = 1..(Len(stack) - 1)
         /\ \A i \in 1..(Len(stack) - 1) : Returned[i] = stack[i]
<1>1. stack \in Seq(Frame(Holder))
  BY DEF TypeOK
<1>2. Len(stack) \in Nat \ {0} /\ \A i \in 1..(Len(stack) - 1) : stack[i] \in Frame(Holder)
  BY <1>1
<1>3. /\ Returned \in Seq(Frame(Holder))
      /\ Len(Returned) = Len(stack) - 1
      /\ \A i \in 1..(Len(stack) - 1) : Returned[i] = stack[i]
  <2> DEFINE n == Len(stack) - 1
  <2>1. n \in Nat /\ 1 \in Int /\ \A i \in 1..n : stack[i] \in Frame(Holder)
    BY <1>2
  <2> HIDE DEF n
  <2>2. /\ SubSeq(stack, 1, n) \in Seq(Frame(Holder))
        /\ Len(SubSeq(stack, 1, n)) = IF 1 <= n THEN n - 1 + 1 ELSE 0
        /\ \A i \in 1..(n - 1 + 1) : SubSeq(stack, 1, n)[i] = stack[1 + i - 1]
    BY <2>1, SubSeqProperties
  <2>3. /\ SubSeq(stack, 1, n) \in Seq(Frame(Holder))
        /\ Len(SubSeq(stack, 1, n)) = n
        /\ \A i \in 1..n : SubSeq(stack, 1, n)[i] = stack[i]
    BY <2>1, <2>2
  <2> QED
    BY <2>3 DEF Returned, n
<1> QED
  BY <1>3

\* A module left to do is the next one or one of those after it.
LEMMA SetOfTail ==
  ASSUME NEW s \in Seq(Module), s # <<>>, NEW d \in SetOf(s), d # Head(s)
  PROVE  d \in SetOf(Tail(s))
<1>1. PICK i \in 1..Len(s) : d = s[i]
  BY DEF SetOf
<1>2. i # 1
  BY <1>1
<1>3. i - 1 \in DOMAIN Tail(s) /\ Tail(s)[i - 1] = d
  BY <1>1, <1>2
<1> QED
  BY <1>3 DEF SetOf

\* A step never changes the configuration, nor what a loader thread was
\* created for.
LEMMA Steady ==
  ASSUME TypeOK, [Next]_vars
  PROVE  /\ config' = config
         /\ DOMAIN thread \subseteq DOMAIN thread'
         /\ \A t \in DOMAIN thread :
              thread'[t].module = thread[t].module /\ thread'[t].orig = thread[t].orig
<1> USE ThreadType
<1> DEFINE Kept ==
      /\ config' = config
      /\ DOMAIN thread \subseteq DOMAIN thread'
      /\ \A t \in DOMAIN thread :
           thread'[t].module = thread[t].module /\ thread'[t].orig = thread[t].orig
<1>1. ASSUME NEW t \in DOMAIN thread, NEW p, Goto(t, p), config' = config
      PROVE  Kept
  BY <1>1 DEF Goto
<1>2. ASSUME thread' = thread, config' = config
      PROVE  Kept
  BY <1>2
<1>3. ASSUME NEW m \in Module, BeginModule(m)
      PROVE  Kept
  BY <1>3 DEF BeginModule
<1>4. CASE Spawn
  BY <1>4 DEF Spawn
<1>5. CASE SpawnPanics
  BY <1>5 DEF SpawnPanics
<1>6. CASE Unlock
  <2>1. config' = config
        /\ \/ thread' = thread
           \/ thread' = [thread EXCEPT ![Top.task].pc = "done"]
    BY <1>6 DEF Unlock
  <2> QED
    BY <2>1
<1>7. ASSUME NEW t \in DOMAIN thread, Loader(t) \/ NoConsole(t)
      PROVE  Kept
  BY <1>1, <1>7 DEF Loader, NoConsole, DepsReady, Finit, FinitFails, Finish, FinishPoisoned
<1>8. ASSUME NEW m \in Module, SkipModule(m) \/ JoinModule(m)
      PROVE  Kept
  BY <1>2, <1>8 DEF SkipModule, JoinModule
<1>9. ASSUME NEW c \in Caller, Lock(c) \/ Wait(c)
      PROVE  Kept
  BY <1>2, <1>9 DEF Lock, Wait
<1>10. CASE LoadForced \/ (\E c \in Uevent, a \in Alias : LoadModalias(c, a)) \/ UNCHANGED vars
  BY <1>2, <1>10 DEF LoadForced, LoadModalias, vars
<1> QED
  BY <1>3, <1>4, <1>5, <1>6, <1>7, <1>8, <1>9, <1>10 DEF Next, Progress, Environment, LoadLoop

\* Frames name existing holders; the innermost one is Top.
LEMMA FrameTypes ==
  ASSUME TypeOK
  PROVE  /\ Len(stack) \in Nat
         /\ DOMAIN stack = 1..Len(stack)
         /\ stack # <<>> <=> Len(stack) > 0
         /\ \A i \in 1..Len(stack) :
              /\ stack[i].task \in Holder
              /\ stack[i].wg \in Holder
              /\ stack[i].todo \in Seq(Module)
         /\ stack # <<>> => Top = stack[Len(stack)]
<1>1. stack \in Seq(Frame(Holder))
  BY DEF TypeOK
<1>2. \A i \in 1..Len(stack) : stack[i] \in Frame(Holder)
  BY <1>1
<1>3. \A f \in Frame(Holder) : f.task \in Holder /\ f.wg \in Holder /\ f.todo \in Seq(Module)
  BY DEF Frame
<1> QED
  BY <1>1, <1>2, <1>3 DEF Top

\* A step that keeps the stack and the pcs of those on it keeps StackInv.
LEMMA StackKept ==
  ASSUME TypeOK, StackInv, [Next]_vars, stack' = stack,
         \A c \in Caller : caller[c].pc = "load" => caller'[c].pc = "load",
         \A t \in DOMAIN thread : thread[t].pc \in {"pending", "post"} =>
           thread'[t].pc = thread[t].pc
  PROVE  StackInv'
BY Steady, FrameTypes DEF StackInv

\* One iteration of the loop that goes on to the next module keeps it too.
LEMMA StackAdvanced ==
  ASSUME TypeOK, StackInv, stack # <<>>, stack' = Advanced, thread' = thread, caller' = caller
  PROVE  StackInv'
<1>1. /\ Len(stack) \in Nat /\ Len(stack) > 0
      /\ DOMAIN stack = 1..Len(stack)
      /\ Len(stack') = Len(stack) /\ DOMAIN stack' = DOMAIN stack
      /\ \A i \in DOMAIN stack : stack'[i].task = stack[i].task /\ stack'[i].wg = stack[i].wg
  BY FrameTypes, AdvancedShape
<1> QED
  BY <1>1 DEF StackInv

LEMMA StackStep ==
  ASSUME TypeOK, StackInv, [Next]_vars
  PROVE  StackInv'
<1> USE FrameTypes, ThreadType
<1>1. CASE LoadForced
  BY <1>1, StackKept DEF LoadForced, TypeOK, Caller
<1>2. ASSUME NEW c \in Uevent, NEW a \in Alias, LoadModalias(c, a)
      PROVE  StackInv'
  <2>1. c \in Caller
    BY DEF Caller
  <2> QED
    BY <1>2, <2>1, StackKept DEF LoadModalias, TypeOK
<1>3. ASSUME NEW c \in Caller, Lock(c)
      PROVE  StackInv'
  <2>1. CASE poisoned
    BY <1>3, <2>1, StackKept DEF Lock, TypeOK
  <2>2. CASE ~poisoned
    <3>1. stack' = <<[task |-> c, wg |-> c, todo |-> caller[c].want]>>
      BY <1>3, <2>2 DEF Lock
    <3>2. Len(stack') = 1 /\ DOMAIN stack' = {1} /\ stack'[1].task = c /\ stack'[1].wg = c
      BY <3>1
    <3>3. caller'[c].pc = "load"
      BY <1>3, <2>2 DEF Lock, TypeOK
    <3> QED
      BY <3>2, <3>3 DEF StackInv
  <2> QED
    BY <2>1, <2>2
<1>4. ASSUME NEW c \in Caller, Wait(c)
      PROVE  StackInv'
  BY <1>4, StackKept DEF Wait, TypeOK
<1>5. ASSUME NEW m \in Module, SkipModule(m)
      PROVE  StackInv'
  BY <1>5, StackAdvanced DEF SkipModule, Visiting
<1>6. ASSUME NEW m \in Module, JoinModule(m)
      PROVE  StackInv'
  BY <1>6, StackAdvanced DEF JoinModule, Visiting
<1>7. ASSUME NEW m \in Module, BeginModule(m)
      PROVE  StackInv'
  <2> DEFINE t == Len(thread) + 1
             n == Len(stack)
  <2>1. stack # <<>> /\ n \in Nat \ {0}
    BY <1>7 DEF BeginModule, Visiting
  <2>2. Len(Advanced) = n /\ \A i \in 1..n : Advanced[i].task = stack[i].task /\ Advanced[i].wg = stack[i].wg
    BY <2>1, AdvancedShape
  <2>3. stack' = Append(Advanced, [task |-> t, wg |-> t, todo |-> config.deps[m]])
    BY <1>7 DEF BeginModule, NextThread
  <2>4. /\ Len(stack') = n + 1
        /\ DOMAIN stack' = 1..(n + 1)
        /\ \A i \in 1..n : stack'[i] = Advanced[i]
        /\ stack'[n + 1].task = t /\ stack'[n + 1].wg = t
    BY <2>1, <2>2, <2>3
  <2>5. /\ t \in DOMAIN thread'
        /\ thread'[t].pc = "pending"
        /\ \A u \in DOMAIN thread : u \in DOMAIN thread' /\ thread'[u] = thread[u]
    BY <1>7 DEF BeginModule, NextThread
  <2>6. \A i \in 1..n : stack[i].task # t
    BY <2>1, ConstantsAssumption DEF Holder
  <2> HIDE DEF t, n
  <2> QED
    <3>1. \A i \in 1..n : stack'[i].task = stack[i].task /\ stack'[i].wg = stack[i].wg
      BY <2>2, <2>4
    <3>2. caller' = caller
      BY <1>7 DEF BeginModule
    <3>3. \A i, j \in DOMAIN stack' : stack'[i].task = stack'[j].task => i = j
      BY <2>1, <2>4, <2>6, <3>1 DEF StackInv, n
    <3>4. \A i \in 2..Len(stack') :
            /\ stack'[i].task \in DOMAIN thread'
            /\ stack'[i].wg = stack'[i].task
            /\ thread'[stack'[i].task].pc = "pending"
      <4>1. \A i \in 2..n :
            /\ stack'[i].task \in DOMAIN thread'
            /\ stack'[i].wg = stack'[i].task
            /\ thread'[stack'[i].task].pc = "pending"
        BY <2>1, <2>5, <3>1 DEF StackInv, n
      <4> QED
        BY <2>1, <2>4, <2>5, <4>1
    <3>5. 1 \in 1..n /\ stack'[1].task = stack[1].task /\ stack'[1].wg = stack[1].wg
      BY <2>1, <3>1
    <3> QED
      BY <2>1, <2>5, <3>2, <3>3, <3>4, <3>5 DEF StackInv
<1>8. CASE Spawn
  <2> DEFINE n == Len(stack)
  <2>1. n \in Nat /\ n > 1 /\ stack # <<>> /\ Top = stack[n]
    BY <1>8 DEF Spawn
  <2>2. /\ Len(stack') = n - 1
        /\ DOMAIN stack' = 1..(n - 1)
        /\ \A i \in 1..(n - 1) : stack'[i] = stack[i]
    BY <1>8, <2>1, ReturnedShape DEF Spawn
  <2>3. /\ DOMAIN thread' = DOMAIN thread
        /\ \A u \in DOMAIN thread : u # stack[n].task => thread'[u] = thread[u]
        /\ caller' = caller
    BY <1>8, <2>1 DEF Spawn
  <2>4. \A i \in 1..(n - 1) : stack[i].task # stack[n].task
    BY <2>1 DEF StackInv
  <2>5. \A i \in 1..(n - 1) : stack[i].task \in DOMAIN thread =>
          thread'[stack[i].task] = thread[stack[i].task]
    BY <2>3, <2>4
  <2>6. 1 \in 1..(n - 1) /\ \A i \in 2..(n - 1) : i \in 1..(n - 1) /\ i \in 2..n
    BY <2>1
  <2> HIDE DEF n
  <2> QED
    BY <2>1, <2>2, <2>3, <2>5, <2>6 DEF StackInv, n
<1>9. CASE SpawnPanics \/ Unlock
  BY <1>9 DEF SpawnPanics, Unlock, StackInv
<1>10. ASSUME NEW t \in DOMAIN thread,
              NoConsole(t) \/ DepsReady(t) \/ Finit(t) \/ FinitFails(t) \/ FinishPoisoned(t)
       PROVE  StackInv'
  BY <1>10, StackKept DEF NoConsole, DepsReady, Finit, FinitFails, FinishPoisoned, Goto
<1>11. ASSUME NEW t \in DOMAIN thread, Finish(t)
       PROVE  StackInv'
  <2>1. stack' = <<[task |-> t, wg |-> thread[t].orig, todo |-> config.post[thread[t].module]]>>
    BY <1>11 DEF Finish
  <2>2. /\ Len(stack') = 1 /\ DOMAIN stack' = {1}
        /\ stack'[1].task = t /\ stack'[1].wg = thread[t].orig
    BY <2>1
  <2>3. /\ t \in DOMAIN thread' /\ thread'[t].pc = "post"
        /\ thread'[t].orig = thread[t].orig
    BY <1>11 DEF Finish, Goto
  <2> QED
    BY <2>2, <2>3 DEF StackInv
<1>12. CASE UNCHANGED vars
  BY <1>12 DEF vars, StackInv
<1> QED
  BY <1>1, <1>2, <1>3, <1>4, <1>5, <1>6, <1>7, <1>8, <1>9, <1>10, <1>11, <1>12
     DEF Next, Progress, Environment, LoadLoop, Loader

-----------------------------------------------------------------------------
(* What a WaitGroup guarantees.  Its owner h needs a set of modules; each  *)
(* of them is in the kernel or still to be looked at by the walk, or its   *)
(* entry in `loading` holds h's WaitGroup, which only a successful         *)
(* finit_module releases.                                                  *)

\* The modules the owner of a WaitGroup waits for.
Needs ==
  [h \in Holder |->
    IF h \in Caller THEN SetOf(caller[h].want) ELSE SetOf(config.deps[thread[h].module])]

\* The owners that have only to wait, and those that have waited.
Waiting == {h \in Holder : IF h \in Caller THEN caller[h].pc = "wait" ELSE thread[h].pc = "deps"}
Through == {h \in Holder : IF h \in Caller THEN caller[h].pc = "done" ELSE thread[h].pc = "finit"}

Covered(h, d) == d \in Satisfied \/ h \in loading[d]

\* An invocation that walks what its own task needs.
OwnWalk(i) == i > 1 \/ stack[i].task \in Caller

LoadedInv ==
  \A t \in DOMAIN thread : thread[t].pc \in {"lock", "post", "done"} => thread[t].module \in kernel

WalkInv ==
  \A i \in DOMAIN stack :
    OwnWalk(i) => \A d \in Needs[stack[i].task] :
                    d \in SetOf(stack[i].todo) \/ Covered(stack[i].task, d)

HeldInv == \A h \in Waiting : \A d \in Needs[h] : Covered(h, d)

ThroughInv == \A h \in Through : Needs[h] \subseteq Satisfied

WaitInv == TypeOK /\ StackInv /\ LoadedInv /\ WalkInv /\ HeldInv /\ ThroughInv

LEMMA ThreadNotCaller ==
  ASSUME TypeOK
  PROVE  \A t \in DOMAIN thread : t \notin Caller
BY ThreadType, ConstantsAssumption

LEMMA NeedsType ==
  ASSUME TypeOK, NEW h \in Holder
  PROVE  Needs[h] \subseteq Module
<1>1. \A s \in Seq(Module) : SetOf(s) \subseteq Module
  BY DEF SetOf
<1>2. CASE h \in Caller
  BY <1>1, <1>2 DEF Needs, TypeOK
<1>3. CASE h \notin Caller
  <2>1. h \in DOMAIN thread
    BY <1>3 DEF Holder
  <2> QED
    BY <1>1, <1>3, <2>1, ThreadType, ConfigType DEF Needs
<1> QED
  BY <1>2, <1>3

\* What an owner needs is settled once its call has begun.
LEMMA NeedsKept ==
  ASSUME TypeOK, [Next]_vars, NEW h \in Holder, h \in Caller => caller[h].pc # "idle"
  PROVE  h \in Holder' /\ Needs'[h] = Needs[h]
<1>1. CASE h \notin Caller
  BY <1>1, Steady DEF Needs, Holder
<1>2. CASE h \in Caller
  <2>1. caller'[h].want = caller[h].want
    <3> USE <1>2
    <3>0. /\ caller \in [Caller -> [pc : CallerState, want : Seq(Module)]]
          /\ \A c \in Caller : \A p : [caller EXCEPT ![c].pc = p][h].want = caller[h].want
      BY DEF TypeOK
    <3>1. CASE LoadForced
      BY <3>1, <3>0 DEF LoadForced
    <3>2. ASSUME NEW c \in Uevent, NEW a \in Alias, LoadModalias(c, a)
          PROVE  caller'[h].want = caller[h].want
      BY <3>2, <3>0 DEF LoadModalias
    <3>3. ASSUME NEW c \in Caller, Lock(c) \/ Wait(c)
          PROVE  caller'[h].want = caller[h].want
      BY <3>3, <3>0 DEF Lock, Wait
    <3>4. CASE SpawnPanics
      BY <3>4, <3>0 DEF SpawnPanics
    <3>5. CASE Unlock
      BY <3>5, <3>0 DEF Unlock
    <3>6. CASE UNCHANGED caller
      BY <3>6
    <3>7. ASSUME NEW m \in Module, SkipModule(m) \/ JoinModule(m) \/ BeginModule(m)
          PROVE  UNCHANGED caller
      BY <3>7 DEF SkipModule, JoinModule, BeginModule
    <3>8. ASSUME NEW t \in DOMAIN thread, Loader(t) \/ NoConsole(t)
          PROVE  UNCHANGED caller
      BY <3>8 DEF Loader, NoConsole, DepsReady, Finit, FinitFails, Finish, FinishPoisoned
    <3> QED
      BY <3>1, <3>2, <3>3, <3>4, <3>5, <3>6, <3>7, <3>8
         DEF Next, Progress, Environment, LoadLoop, Spawn, vars
  <2> QED
    BY <1>2, <2>1 DEF Needs, Holder
<1> QED
  BY <1>1, <1>2

\* A module that is in the kernel is there for good.
LEMMA LoadedStep ==
  ASSUME TypeOK, StackInv, LoadedInv, [Next]_vars
  PROVE  LoadedInv' /\ Satisfied \subseteq Satisfied' /\ kernel \subseteq kernel'
<1> USE ThreadType
<1>1. kernel \subseteq kernel' /\ Satisfied \subseteq Satisfied'
  <2>1. kernel \subseteq kernel'
    BY DEF Next, Progress, Environment, LoadLoop, Loader, vars,
         LoadForced, LoadModalias, Lock, Wait, SkipModule, JoinModule, BeginModule, Spawn,
         SpawnPanics, Unlock, NoConsole, DepsReady, Finit, FinitFails, Finish, FinishPoisoned
  <2> QED
    BY <2>1, Steady DEF Satisfied
<1>2. ASSUME thread' = thread
      PROVE  LoadedInv'
  BY <1>1, <1>2 DEF LoadedInv
<1>3. ASSUME NEW t \in DOMAIN thread, NEW p, Goto(t, p),
             p \in {"lock", "post", "done"} => thread[t].module \in kernel'
      PROVE  LoadedInv'
  BY <1>1, <1>3 DEF LoadedInv, Goto
<1>4. ASSUME NEW m \in Module, BeginModule(m)
      PROVE  LoadedInv'
  BY <1>1, <1>4 DEF LoadedInv, BeginModule
<1>5. CASE Spawn
  BY <1>1, <1>5 DEF LoadedInv, Spawn
<1>6. CASE SpawnPanics
  BY <1>1, <1>6 DEF LoadedInv, SpawnPanics
<1>7. CASE Unlock
  <2>1. Top = stack[1] /\ stack # <<>>
    BY <1>7, FrameTypes DEF Unlock
  <2>2. Top.task \in DOMAIN thread => Top.task \notin Caller
    BY ThreadNotCaller
  <2>3. Top.task \in DOMAIN thread => thread[Top.task].pc = "post"
    BY <2>1, <2>2 DEF StackInv
  <2> QED
    BY <1>1, <1>2, <1>7, <2>3 DEF LoadedInv, Unlock
<1>8. ASSUME NEW t \in DOMAIN thread, Loader(t) \/ NoConsole(t)
      PROVE  LoadedInv'
  BY <1>3, <1>8 DEF Loader, NoConsole, DepsReady, Finit, FinitFails, Finish, FinishPoisoned, LoadedInv
<1>9. ASSUME NEW m \in Module, SkipModule(m) \/ JoinModule(m)
      PROVE  LoadedInv'
  BY <1>2, <1>9 DEF SkipModule, JoinModule
<1>10. ASSUME NEW c \in Caller, Lock(c) \/ Wait(c)
       PROVE  LoadedInv'
  BY <1>2, <1>10 DEF Lock, Wait
<1>11. CASE LoadForced
  BY <1>1, <1>2, <1>11 DEF LoadForced
<1>12. ASSUME NEW c \in Uevent, NEW a \in Alias, LoadModalias(c, a)
       PROVE  LoadedInv'
  BY <1>2, <1>12 DEF LoadModalias
<1>13. CASE UNCHANGED vars
  BY <1>1, <1>2, <1>13 DEF vars
<1> QED
  BY <1>1, <1>4, <1>5, <1>6, <1>7, <1>8, <1>9, <1>10, <1>11, <1>12, <1>13
     DEF Next, Progress, Environment, LoadLoop

\* An entry of `loading` is emptied only once its module is in the kernel.
LEMMA CoveredKept ==
  ASSUME TypeOK, StackInv, LoadedInv, [Next]_vars, NEW h, NEW d \in Module, Covered(h, d)
  PROVE  Covered(h, d)'
<1>1. CASE d \in Satisfied
  BY <1>1, LoadedStep DEF Covered
<1>2. CASE h \in loading[d]
  <2>1. ASSUME NEW m \in Module, JoinModule(m) \/ BeginModule(m)
        PROVE  h \in loading'[d]
    BY <1>2, <2>1 DEF JoinModule, BeginModule, Vacant, TypeOK
  <2>2. ASSUME NEW t \in DOMAIN thread, Finish(t)
        PROVE  h \in loading'[d] \/ d \in Satisfied'
    <3>1. thread[t].module \in kernel'
      BY <2>2 DEF LoadedInv, Finish
    <3> QED
      BY <1>2, <2>2, <3>1 DEF Finish, TypeOK, Satisfied
  <2>3. CASE UNCHANGED loading
    BY <1>2, <2>3 DEF Covered
  <2> QED
    BY <1>2, <2>1, <2>2, <2>3 DEF Next, Progress, Environment, LoadLoop, Loader, vars, Covered,
         LoadForced, LoadModalias, Lock, Wait, SkipModule, Spawn,
         SpawnPanics, Unlock, NoConsole, DepsReady, Finit, FinitFails, FinishPoisoned
<1> QED
  BY <1>1, <1>2 DEF Covered

\* The task of an invocation that walks its own needs has begun.
LEMMA OwnTask ==
  ASSUME TypeOK, StackInv, NEW i \in DOMAIN stack, OwnWalk(i)
  PROVE  /\ stack[i].task \in Holder
         /\ stack[i].wg = stack[i].task
         /\ stack[i].task \in Caller => caller[stack[i].task].pc # "idle"
<1>1. CASE i > 1
  <2>1. i \in 2..Len(stack)
    BY <1>1, FrameTypes
  <2> QED
    BY <2>1, ThreadNotCaller DEF StackInv, Holder
<1>2. CASE i = 1
  BY <1>2, FrameTypes, ThreadNotCaller DEF StackInv, OwnWalk
<1> QED
  BY <1>1, <1>2, FrameTypes

\* A walk is preserved when what it leaves behind is covered.
LEMMA WalkOne ==
  ASSUME WaitInv, [Next]_vars, NEW i \in DOMAIN stack, OwnWalk(i), NEW h, h = stack[i].task,
         NEW ms,
         \A d \in SetOf(stack[i].todo) : d \in SetOf(ms) \/ d \in Satisfied' \/ h \in loading'[d]
  PROVE  \A d \in Needs'[h] : d \in SetOf(ms) \/ d \in Satisfied' \/ h \in loading'[d]
<1>1. h \in Holder /\ Needs'[h] = Needs[h] /\ Needs[h] \subseteq Module
  BY OwnTask, NeedsKept, NeedsType DEF WaitInv
<1>2. ASSUME NEW d \in Module, Covered(h, d)
      PROVE  d \in Satisfied' \/ h \in loading'[d]
  BY <1>2, CoveredKept DEF WaitInv, Covered
<1>3. \A d \in Needs[h] : d \in SetOf(stack[i].todo) \/ Covered(h, d)
  BY DEF WaitInv, WalkInv
<1> QED
  BY <1>1, <1>2, <1>3

\* The same for all frames of a step that only drops the module at hand,
\* which is covered by then.
LEMMA WalkAdvanced ==
  ASSUME WaitInv, [Next]_vars, NEW m \in Module, Visiting(m),
         OwnWalk(Len(stack)) => m \in Satisfied' \/ Top.wg \in loading'[m],
         NEW i \in DOMAIN stack, OwnWalk(i), NEW h, h = stack[i].task
  PROVE  \A d \in Needs'[h] : d \in SetOf(Advanced[i].todo) \/ d \in Satisfied' \/ h \in loading'[d]
<1>1. stack # <<>> /\ Top = stack[Len(stack)] /\ i \in 1..Len(stack) /\ stack[i].todo \in Seq(Module)
  BY FrameTypes DEF Visiting, WaitInv
<1>2. CASE i # Len(stack)
  <2>1. Advanced[i].todo = stack[i].todo
    BY <1>1, <1>2, AdvancedShape DEF WaitInv
  <2> QED
    BY <2>1, WalkOne
<1>3. CASE i = Len(stack)
  <2>1. Advanced[i].todo = Tail(stack[i].todo) /\ stack[i].todo # <<>> /\ m = Head(stack[i].todo)
    BY <1>1, <1>3, AdvancedShape DEF WaitInv, Visiting
  <2>2. m \in Satisfied' \/ h \in loading'[m]
    BY <1>1, <1>3, OwnTask DEF WaitInv
  <2>3. \A d \in SetOf(stack[i].todo) : d = m \/ d \in SetOf(Advanced[i].todo)
    BY <1>1, <2>1, SetOfTail
  <2> QED
    BY <2>2, <2>3, WalkOne
<1> QED
  BY <1>2, <1>3

LEMMA WalkStep ==
  ASSUME WaitInv, [Next]_vars
  PROVE  WalkInv'
<1> USE FrameTypes, ThreadType DEF WaitInv
<1>1. ASSUME stack' = stack
      PROVE  WalkInv'
  <2> SUFFICES ASSUME NEW i \in DOMAIN stack, OwnWalk(i)
               PROVE  \A d \in Needs'[stack[i].task] :
                        d \in SetOf(stack[i].todo) \/ d \in Satisfied' \/ stack[i].task \in loading'[d]
    BY <1>1 DEF WalkInv, OwnWalk, Covered
  <2> QED
    BY WalkOne
<1>2. ASSUME stack' = <<>>
      PROVE  WalkInv'
  BY <1>2 DEF WalkInv
<1>3. ASSUME NEW c \in Caller, Lock(c), ~poisoned
      PROVE  WalkInv'
  <2>1. stack' = <<[task |-> c, wg |-> c, todo |-> caller[c].want]>>
    BY <1>3 DEF Lock
  <2>2. /\ DOMAIN stack' = {1} /\ stack'[1].task = c
        /\ stack'[1].todo = caller[c].want
    BY <2>1
  <2>3. caller[c].pc # "idle" /\ c \in Holder
    BY <1>3 DEF Lock, Holder
  <2>4. Needs'[c] = SetOf(caller[c].want)
    BY <2>3, NeedsKept DEF Needs
  <2> QED
    BY <2>2, <2>4 DEF WalkInv
<1>4. ASSUME NEW t \in DOMAIN thread, Finish(t)
      PROVE  WalkInv'
  <2>1. stack' = <<[task |-> t, wg |-> thread[t].orig, todo |-> config.post[thread[t].module]]>>
    BY <1>4 DEF Finish
  <2>2. DOMAIN stack' = {1} /\ stack'[1].task = t
    BY <2>1
  <2> QED
    BY <2>2, ThreadNotCaller DEF WalkInv, OwnWalk
<1>5. ASSUME NEW m \in Module, SkipModule(m) \/ JoinModule(m)
      PROVE  WalkInv'
  <2>1. Visiting(m) /\ stack' = Advanced /\ stack # <<>>
    BY <1>5 DEF SkipModule, JoinModule, Visiting
  <2>2. m \in Satisfied' \/ Top.wg \in loading'[m]
    <3>1. CASE SkipModule(m)
      BY <3>1, LoadedStep DEF SkipModule, AlreadyThere, TypeOK, Satisfied
    <3>2. CASE JoinModule(m)
      BY <3>2 DEF JoinModule, TypeOK
    <3> QED
      BY <1>5, <3>1, <3>2
  <2>3. /\ DOMAIN stack' = DOMAIN stack
        /\ \A i \in DOMAIN stack : stack'[i].task = stack[i].task /\ stack'[i].todo = Advanced[i].todo
    BY <2>1, AdvancedShape
  <2> SUFFICES ASSUME NEW i \in DOMAIN stack, OwnWalk(i)
               PROVE  \A d \in Needs'[stack[i].task] :
                        d \in SetOf(Advanced[i].todo) \/ d \in Satisfied' \/ stack[i].task \in loading'[d]
    BY <2>3 DEF WalkInv, OwnWalk, Covered
  <2> QED
    BY <2>1, <2>2, WalkAdvanced
<1>6. ASSUME NEW m \in Module, BeginModule(m)
      PROVE  WalkInv'
  <2> DEFINE t == Len(thread) + 1
             n == Len(stack)
  <2>1. Visiting(m) /\ stack # <<>> /\ n \in Nat \ {0}
    BY <1>6 DEF BeginModule, Visiting
  <2>2. m \in Satisfied' \/ Top.wg \in loading'[m]
    BY <1>6 DEF BeginModule, TypeOK
  <2>3. stack' = Append(Advanced, [task |-> t, wg |-> t, todo |-> config.deps[m]])
    BY <1>6 DEF BeginModule, NextThread
  <2>4. /\ DOMAIN stack' = 1..(n + 1)
        /\ \A i \in 1..n : stack'[i].task = stack[i].task /\ stack'[i].todo = Advanced[i].todo
        /\ stack'[n + 1].task = t
        /\ stack'[n + 1].todo = config.deps[m]
    <3>1. Len(Advanced) = n /\ \A i \in 1..n : Advanced[i].task = stack[i].task
      BY <2>1, AdvancedShape
    <3>2. /\ DOMAIN stack' = 1..(n + 1)
          /\ \A i \in 1..n : stack'[i] = Advanced[i]
          /\ stack'[n + 1] = [task |-> t, wg |-> t, todo |-> config.deps[m]]
      BY <2>1, <2>3, <3>1
    <3> QED
      BY <3>1, <3>2
  <2>5. Needs'[t] = SetOf(config.deps[m])
    <3>1. t \in DOMAIN thread' /\ thread'[t].module = m /\ t \notin Caller
      <4>1. thread' = Append(thread, [pc |-> "pending", module |-> m, orig |-> Top.wg])
        BY <1>6 DEF BeginModule
      <4>2. t \in DOMAIN thread' /\ thread'[t] = [pc |-> "pending", module |-> m, orig |-> Top.wg]
        BY <4>1
      <4>3. t \in Nat
        OBVIOUS
      <4> QED
        BY <4>2, <4>3, ConstantsAssumption
    <3>2. config' = config
      BY Steady
    <3> QED
      BY <3>1, <3>2 DEF Needs, Holder
  <2> HIDE DEF t, n
  <2>6. ASSUME NEW i \in 1..n, OwnWalk(i)
        PROVE  \A d \in Needs'[stack[i].task] :
                 d \in SetOf(Advanced[i].todo) \/ d \in Satisfied' \/ stack[i].task \in loading'[d]
    BY <2>1, <2>2, <2>6, WalkAdvanced DEF n
  <2>7. ASSUME NEW i \in DOMAIN stack', OwnWalk(i)'
        PROVE  \A d \in Needs'[stack'[i].task] :
                 d \in SetOf(stack'[i].todo) \/ d \in Satisfied' \/ stack'[i].task \in loading'[d]
    <3>1. CASE i = n + 1
      BY <2>4, <2>5, <3>1
    <3>2. CASE i \in 1..n
      <4>1. OwnWalk(i)
        BY <2>4, <2>7, <3>2 DEF OwnWalk
      <4> QED
        BY <2>4, <2>6, <3>2, <4>1
    <3> QED
      BY <2>1, <2>4, <3>1, <3>2
  <2> QED
    BY <2>7 DEF WalkInv, Covered
<1>7. CASE Spawn
  <2>1. stack # <<>> /\ stack' = Returned
    BY <1>7 DEF Spawn
  <2>2. /\ DOMAIN stack' = 1..(Len(stack) - 1)
        /\ \A i \in 1..(Len(stack) - 1) : i \in DOMAIN stack /\ stack'[i] = stack[i]
    BY <2>1, ReturnedShape
  <2> SUFFICES ASSUME NEW i \in DOMAIN stack, OwnWalk(i)
               PROVE  \A d \in Needs'[stack[i].task] :
                        d \in SetOf(stack[i].todo) \/ d \in Satisfied' \/ stack[i].task \in loading'[d]
    BY <2>2 DEF WalkInv, OwnWalk, Covered
  <2> QED
    BY WalkOne
<1>8. CASE SpawnPanics \/ Unlock
  BY <1>2, <1>8 DEF SpawnPanics, Unlock
<1>9. ASSUME NEW t \in DOMAIN thread,
             NoConsole(t) \/ DepsReady(t) \/ Finit(t) \/ FinitFails(t) \/ FinishPoisoned(t)
      PROVE  WalkInv'
  BY <1>1, <1>9 DEF NoConsole, DepsReady, Finit, FinitFails, FinishPoisoned
<1>10. ASSUME NEW c \in Caller, Wait(c) \/ (Lock(c) /\ poisoned)
       PROVE  WalkInv'
  BY <1>1, <1>10 DEF Wait, Lock
<1>11. CASE LoadForced
  BY <1>1, <1>11 DEF LoadForced
<1>12. ASSUME NEW c \in Uevent, NEW a \in Alias, LoadModalias(c, a)
       PROVE  WalkInv'
  BY <1>1, <1>12 DEF LoadModalias
<1>13. CASE UNCHANGED vars
  BY <1>1, <1>13 DEF vars
<1> QED
  BY <1>3, <1>4, <1>5, <1>6, <1>7, <1>8, <1>9, <1>10, <1>11, <1>12, <1>13
     DEF Next, Progress, Environment, LoadLoop, Loader

\* Who waits after a step waited before it, or has just ended its own walk.
LEMMA NewWaiting ==
  ASSUME WaitInv, [Next]_vars, NEW h \in Waiting'
  PROVE  \/ h \in Waiting
         \/ \E i \in DOMAIN stack : OwnWalk(i) /\ h = stack[i].task /\ stack[i].todo = <<>>
<1> DEFINE Ends == \E i \in DOMAIN stack : OwnWalk(i) /\ h = stack[i].task /\ stack[i].todo = <<>>
<1> USE ThreadType, FrameTypes DEF WaitInv
<1>1. CASE Spawn
  <2>1. h \in Waiting \/ h = Top.task
    BY <1>1 DEF Spawn, Waiting, Holder
  <2>2. Ends \/ h # Top.task
    BY <1>1 DEF Spawn, OwnWalk
  <2> QED
    BY <2>1, <2>2
<1>2. CASE Unlock
  <2>1. h \in Waiting \/ (h = Top.task /\ Top.task \in Caller)
    BY <1>2 DEF Unlock, Waiting, Holder, TypeOK
  <2>2. Ends \/ h # Top.task \/ Top.task \notin Caller
    BY <1>2 DEF Unlock, OwnWalk
  <2> QED
    BY <2>1, <2>2
<1>3. ASSUME thread' = thread, caller' = caller
      PROVE  h \in Waiting
  BY <1>3 DEF Waiting, Holder
<1>4. ASSUME NEW c \in Caller, NEW r, caller' = [caller EXCEPT ![c] = r], r.pc # "wait",
             thread' = thread
      PROVE  h \in Waiting
  BY <1>4 DEF Waiting, Holder, TypeOK
<1>5. ASSUME NEW t \in DOMAIN thread, NEW p, Goto(t, p), p # "deps", caller' = caller
      PROVE  h \in Waiting
  BY <1>5, ThreadNotCaller DEF Waiting, Holder, Goto
<1>6. ASSUME NEW m \in Module, BeginModule(m)
      PROVE  h \in Waiting
  <2>1. /\ DOMAIN thread' = 1..(Len(thread) + 1)
        /\ \A u \in 1..Len(thread) : thread'[u] = thread[u]
        /\ thread'[Len(thread) + 1].pc = "pending"
        /\ caller' = caller
    BY <1>6 DEF BeginModule
  <2> QED
    BY <2>1 DEF Waiting, Holder
<1>7. CASE SpawnPanics
  <2>1. \A c \in Caller : caller'[c].pc = "wait" => caller[c].pc = "wait"
    BY <1>7 DEF SpawnPanics, TypeOK
  <2>2. /\ DOMAIN thread' = DOMAIN thread
        /\ \A t \in DOMAIN thread : thread'[t].pc = "deps" => thread[t].pc = "deps"
    BY <1>7 DEF SpawnPanics
  <2> QED
    BY <2>1, <2>2 DEF Waiting, Holder
<1>8. ASSUME NEW c \in Caller, Lock(c) \/ Wait(c)
      PROVE  h \in Waiting
  BY <1>3, <1>8 DEF Lock, Wait, Waiting, Holder, TypeOK
<1>9. CASE LoadForced
  <2> DEFINE r == [pc |-> "lock", want |-> config.force]
  <2>1. r.pc # "wait" /\ Main \in Caller
    BY DEF Caller
  <2>2. caller' = [caller EXCEPT ![Main] = r] /\ thread' = thread
    BY <1>9 DEF LoadForced
  <2> QED
    BY <1>4, <2>1, <2>2
<1>10. ASSUME NEW c \in Uevent, NEW a \in Alias, LoadModalias(c, a)
       PROVE  h \in Waiting
  <2>1. PICK r : r.pc # "wait" /\ caller' = [caller EXCEPT ![c] = r]
    BY <1>10 DEF LoadModalias
  <2>2. c \in Caller /\ thread' = thread
    BY <1>10 DEF LoadModalias, Caller
  <2> QED
    BY <1>4, <2>1, <2>2
<1>11. ASSUME NEW t \in DOMAIN thread, Loader(t) \/ NoConsole(t)
       PROVE  h \in Waiting
  BY <1>5, <1>11 DEF Loader, NoConsole, DepsReady, Finit, FinitFails, Finish, FinishPoisoned
<1>12. ASSUME NEW m \in Module, SkipModule(m) \/ JoinModule(m)
       PROVE  h \in Waiting
  BY <1>3, <1>12 DEF SkipModule, JoinModule
<1>13. CASE UNCHANGED vars
  BY <1>3, <1>13 DEF vars
<1> QED
  BY <1>1, <1>2, <1>6, <1>7, <1>8, <1>9, <1>10, <1>11, <1>12, <1>13
     DEF Next, Progress, Environment, LoadLoop

\* Who is through after a step was so before, or waited and was released.
LEMMA NewThrough ==
  ASSUME WaitInv, [Next]_vars, NEW h \in Through'
  PROVE  \/ h \in Through
         \/ h \in Waiting /\ \A m \in Module : h \notin loading[m]
<1> DEFINE Freed == h \in Waiting /\ \A m \in Module : h \notin loading[m]
<1> USE ThreadType, FrameTypes DEF WaitInv
<1>1. ASSUME NEW c \in Caller, Wait(c)
      PROVE  h \in Through \/ Freed
  BY <1>1 DEF Wait, Released, Through, Waiting, Holder, TypeOK
<1>2. ASSUME NEW t \in DOMAIN thread, DepsReady(t)
      PROVE  h \in Through \/ Freed
  BY <1>2, ThreadNotCaller DEF DepsReady, Goto, Released, Through, Waiting, Holder
<1>3. ASSUME thread' = thread, caller' = caller
      PROVE  h \in Through
  BY <1>3 DEF Through, Holder
<1>4. ASSUME NEW c \in Caller, NEW r, caller' = [caller EXCEPT ![c] = r], r.pc # "done",
             thread' = thread
      PROVE  h \in Through
  BY <1>4 DEF Through, Holder, TypeOK
<1>5. ASSUME NEW t \in DOMAIN thread, NEW p, Goto(t, p), p # "finit", caller' = caller
      PROVE  h \in Through
  BY <1>5, ThreadNotCaller DEF Through, Holder, Goto
<1>6. ASSUME NEW m \in Module, BeginModule(m)
      PROVE  h \in Through
  <2>1. /\ DOMAIN thread' = 1..(Len(thread) + 1)
        /\ \A u \in 1..Len(thread) : thread'[u] = thread[u]
        /\ thread'[Len(thread) + 1].pc = "pending"
        /\ caller' = caller
    BY <1>6 DEF BeginModule
  <2> QED
    BY <2>1 DEF Through, Holder
<1>7. CASE SpawnPanics \/ Spawn \/ Unlock
  <2>1. \A c \in Caller : caller'[c].pc = "done" => caller[c].pc = "done"
    <3>1. CASE SpawnPanics
      BY <3>1 DEF SpawnPanics, TypeOK
    <3>2. CASE Spawn
      BY <3>2 DEF Spawn
    <3>3. CASE Unlock
      BY <3>3 DEF Unlock, TypeOK
    <3> QED
      BY <1>7, <3>1, <3>2, <3>3
  <2>2. /\ DOMAIN thread' = DOMAIN thread
        /\ \A t \in DOMAIN thread : thread'[t].pc = "finit" => thread[t].pc = "finit"
    <3>1. CASE SpawnPanics
      BY <3>1 DEF SpawnPanics
    <3>2. CASE Spawn
      BY <3>2 DEF Spawn
    <3>3. CASE Unlock
      <4>1. \/ thread' = thread
            \/ thread' = [thread EXCEPT ![Top.task].pc = "done"]
        BY <3>3 DEF Unlock
      <4> QED
        BY <4>1
    <3> QED
      BY <1>7, <3>1, <3>2, <3>3
  <2> QED
    BY <2>1, <2>2 DEF Through, Holder
<1>8. ASSUME NEW c \in Caller, Lock(c)
      PROVE  h \in Through
  <2>1. \A d \in Caller : caller'[d].pc = "done" => caller[d].pc = "done"
    <3>1. \E p \in {"load", "failed"} : caller' = [caller EXCEPT ![c].pc = p]
      BY <1>8 DEF Lock
    <3>2. caller \in [Caller -> [pc : CallerState, want : Seq(Module)]]
      BY DEF TypeOK
    <3> QED
      BY <3>1, <3>2
  <2>2. thread' = thread
    BY <1>8 DEF Lock
  <2> QED
    BY <1>3, <2>1, <2>2 DEF Through, Holder
<1>9. CASE LoadForced
  <2> DEFINE r == [pc |-> "lock", want |-> config.force]
  <2>1. r.pc # "done" /\ Main \in Caller
    BY DEF Caller
  <2>2. caller' = [caller EXCEPT ![Main] = r] /\ thread' = thread
    BY <1>9 DEF LoadForced
  <2> QED
    BY <1>4, <2>1, <2>2
<1>10. ASSUME NEW c \in Uevent, NEW a \in Alias, LoadModalias(c, a)
       PROVE  h \in Through
  <2>1. PICK r : r.pc # "done" /\ caller' = [caller EXCEPT ![c] = r]
    BY <1>10 DEF LoadModalias
  <2>2. c \in Caller /\ thread' = thread
    BY <1>10 DEF LoadModalias, Caller
  <2> QED
    BY <1>4, <2>1, <2>2
<1>11. ASSUME NEW t \in DOMAIN thread,
              Finit(t) \/ FinitFails(t) \/ Finish(t) \/ FinishPoisoned(t) \/ NoConsole(t)
       PROVE  h \in Through
  BY <1>5, <1>11 DEF NoConsole, Finit, FinitFails, Finish, FinishPoisoned
<1>12. ASSUME NEW m \in Module, SkipModule(m) \/ JoinModule(m)
       PROVE  h \in Through
  BY <1>3, <1>12 DEF SkipModule, JoinModule
<1>13. CASE UNCHANGED vars
  BY <1>3, <1>13 DEF vars
<1> QED
  BY <1>1, <1>2, <1>6, <1>7, <1>8, <1>9, <1>10, <1>11, <1>12, <1>13
     DEF Next, Progress, Environment, LoadLoop, Loader

LEMMA HeldStep ==
  ASSUME WaitInv, [Next]_vars
  PROVE  HeldInv'
<1> SUFFICES ASSUME NEW h \in Waiting'
             PROVE  \A d \in Needs'[h] : d \in Satisfied' \/ h \in loading'[d]
  BY DEF HeldInv, Covered
<1>1. CASE h \in Waiting
  <2>1. h \in Holder /\ (h \in Caller => caller[h].pc # "idle")
    BY <1>1 DEF Waiting
  <2>2. Needs'[h] = Needs[h] /\ Needs[h] \subseteq Module
    BY <2>1, NeedsKept, NeedsType DEF WaitInv
  <2>3. ASSUME NEW d \in Needs[h]
        PROVE  d \in Satisfied' \/ h \in loading'[d]
    <3>1. Covered(h, d)
      BY <1>1 DEF WaitInv, HeldInv
    <3> QED
      BY <2>2, <3>1, CoveredKept DEF WaitInv, Covered
  <2> QED
    BY <2>2, <2>3
<1>2. ASSUME NEW i \in DOMAIN stack, OwnWalk(i), h = stack[i].task, stack[i].todo = <<>>
      PROVE  \A d \in Needs'[h] : d \in Satisfied' \/ h \in loading'[d]
  <2>1. SetOf(<<>>) = {}
    BY DEF SetOf
  <2> QED
    BY <1>2, <2>1, WalkOne
<1> QED
  BY <1>1, <1>2, NewWaiting

LEMMA ThroughStep ==
  ASSUME WaitInv, [Next]_vars
  PROVE  ThroughInv'
<1> SUFFICES ASSUME NEW h \in Through'
             PROVE  Needs'[h] \subseteq Satisfied'
  BY DEF ThroughInv
<1>1. h \in Through \/ (h \in Waiting /\ \A m \in Module : h \notin loading[m])
  BY NewThrough
<1>2. h \in Holder /\ (h \in Caller => caller[h].pc # "idle")
  BY <1>1 DEF Through, Waiting
<1>3. Needs'[h] = Needs[h] /\ Needs[h] \subseteq Module
  BY <1>2, NeedsKept, NeedsType DEF WaitInv
<1>4. Needs[h] \subseteq Satisfied
  BY <1>1, <1>3 DEF WaitInv, HeldInv, ThroughInv, Covered
<1> QED
  BY <1>3, <1>4, LoadedStep DEF WaitInv

LEMMA WaitInvInductive == Spec => []WaitInv
<1>1. Init => WaitInv
  <2> SUFFICES ASSUME Init
               PROVE  WaitInv
    OBVIOUS
  <2>1. TypeOK
    BY InitType
  <2>2. stack = <<>> /\ DOMAIN thread = {} /\ \A c \in Caller : caller[c].pc = "idle"
    BY DEF Init
  <2>3. Holder = Caller
    BY <2>2 DEF Holder
  <2>4. Waiting = {} /\ Through = {}
    BY <2>2, <2>3 DEF Waiting, Through
  <2> QED
    BY <2>1, <2>2, <2>4 DEF WaitInv, StackInv, LoadedInv, WalkInv, HeldInv, ThroughInv
<1>2. WaitInv /\ [Next]_vars => WaitInv'
  <2> SUFFICES ASSUME WaitInv, [Next]_vars
               PROVE  WaitInv'
    OBVIOUS
  <2> QED
    BY TypeStep, StackStep, LoadedStep, WalkStep, HeldStep, ThroughStep DEF WaitInv
<1> QED
  BY <1>1, <1>2, PTL DEF Spec

\* finit_module is called for a module only once the kernel has all of its
\* dependencies: what deps_wg.wait() in load_module is for, with any graph,
\* any number of callers and any failures.
THEOREM DependenciesFirst == Spec => []DepsFirst
<1>1. WaitInv => DepsFirst
  <2> SUFFICES ASSUME WaitInv, NEW t \in DOMAIN thread, thread[t].pc = "finit"
               PROVE  SetOf(config.deps[thread[t].module]) \subseteq Satisfied
    BY DEF DepsFirst
  <2>1. t \in Holder /\ t \notin Caller
    BY ThreadNotCaller DEF WaitInv, Holder
  <2> QED
    BY <2>1 DEF WaitInv, ThroughInv, Through, Needs
<1> QED
  BY <1>1, WaitInvInductive, PTL

\* A caller that comes back from ModWg::wait has every module it asked for.
THEOREM CallersSeeTheirModules == Spec => []ReturnMeansLoaded
<1>1. WaitInv => ReturnMeansLoaded
  BY DEF WaitInv, ThroughInv, Through, Needs, Holder, ReturnMeansLoaded
<1> QED
  BY <1>1, WaitInvInductive, PTL

-----------------------------------------------------------------------------
(* The entries of `loading`.                                               *)

\* An entry stands for one loader thread, and holds the WaitGroup on whose
\* behalf that thread was created.
EntryInv ==
  /\ \A t \in DOMAIN thread :
       thread[t].pc \in Answering => thread[t].orig \in loading[thread[t].module]
  /\ \A t, u \in DOMAIN thread :
       /\ thread[t].pc \in Answering
       /\ thread[u].pc \in Answering
       /\ thread[t].module = thread[u].module
       => t = u
  /\ \A m \in Module :
       loading[m] # {} => \E t \in DOMAIN thread : thread[t].pc \in Answering /\ thread[t].module = m

\* Steps that neither make nor end an answering thread.
LEMMA EntryKept ==
  ASSUME TypeOK, EntryInv, [Next]_vars, DOMAIN thread' = DOMAIN thread,
         \A t \in DOMAIN thread : thread[t].pc \in Answering <=> thread'[t].pc \in Answering,
         \A m \in Module : loading[m] \subseteq loading'[m] /\ (loading[m] = {} => loading'[m] = {})
  PROVE  EntryInv'
BY Steady, ThreadType DEF EntryInv

LEMMA EntryStep ==
  ASSUME TypeOK, StackInv, EntryInv, [Next]_vars
  PROVE  EntryInv'
<1> USE ThreadType
<1>1. ASSUME thread' = thread, loading' = loading
      PROVE  EntryInv'
  BY <1>1, EntryKept
<1>2. ASSUME NEW t \in DOMAIN thread, NEW p, Goto(t, p), loading' = loading,
             thread[t].pc \in Answering <=> p \in Answering
      PROVE  EntryInv'
  BY <1>2, EntryKept DEF Goto
<1>3. ASSUME NEW m \in Module, JoinModule(m)
      PROVE  EntryInv'
  BY <1>3, EntryKept DEF JoinModule, Vacant, TypeOK
<1>4. ASSUME NEW m \in Module, BeginModule(m)
      PROVE  EntryInv'
  <2> DEFINE n == Len(thread) + 1
  <2>1. /\ DOMAIN thread' = 1..n /\ n \in 1..n
        /\ DOMAIN thread = 1..n \ {n}
        /\ \A t \in DOMAIN thread : thread'[t] = thread[t]
        /\ thread'[n] = [pc |-> "pending", module |-> m, orig |-> Top.wg]
    BY <1>4 DEF BeginModule
  <2>2. /\ loading[m] = {}
        /\ loading' = [loading EXCEPT ![m] = {Top.wg}]
        /\ loading \in [Module -> SUBSET Holder]
    BY <1>4 DEF BeginModule, Vacant, TypeOK
  <2>3. \A t \in DOMAIN thread : thread[t].pc \in Answering => thread[t].module # m
    BY <2>2 DEF EntryInv
  <2>4. "pending" \in Answering
    BY DEF Answering
  <2> HIDE DEF n
  <2>5. \A t \in DOMAIN thread' :
          thread'[t].pc \in Answering => thread'[t].orig \in loading'[thread'[t].module]
    BY <2>1, <2>2, <2>3 DEF EntryInv
  <2>6. ASSUME NEW t \in DOMAIN thread', NEW u \in DOMAIN thread',
               thread'[t].pc \in Answering, thread'[u].pc \in Answering,
               thread'[t].module = thread'[u].module
        PROVE  t = u
    BY <2>1, <2>3, <2>6 DEF EntryInv
  <2>7. ASSUME NEW k \in Module, loading'[k] # {}
        PROVE  \E t \in DOMAIN thread' : thread'[t].pc \in Answering /\ thread'[t].module = k
    BY <2>1, <2>2, <2>4, <2>7 DEF EntryInv
  <2> QED
    BY <2>5, <2>6, <2>7 DEF EntryInv
<1>5. CASE Spawn
  <2>1. Top.task \in DOMAIN thread /\ thread[Top.task].pc = "pending"
    BY <1>5, FrameTypes DEF Spawn, StackInv
  <2> QED
    BY <1>2, <1>5, <2>1 DEF Spawn, Goto, Answering
<1>6. CASE Unlock
  <2>1. CASE Top.task \in Caller
    BY <1>1, <1>6, <2>1, ThreadNotCaller DEF Unlock
  <2>2. CASE Top.task \notin Caller
    <3>1. Top.task \in DOMAIN thread /\ thread[Top.task].pc = "post"
      BY <1>6, <2>2, FrameTypes DEF Unlock, StackInv
    <3> QED
      BY <1>2, <1>6, <2>2, <3>1 DEF Unlock, Goto, Answering
  <2> QED
    BY <2>1, <2>2
<1>7. CASE SpawnPanics
  <2>1. ASSUME NEW t \in DOMAIN thread, NEW i \in DOMAIN stack, stack[i].task = t
        PROVE  thread[t].pc \in {"pending", "post"}
    BY <2>1, FrameTypes, ThreadNotCaller DEF StackInv
  <2>2. ASSUME NEW t \in DOMAIN thread
        PROVE  thread[t].pc \in Answering <=> thread'[t].pc \in Answering
    BY <1>7, <2>1 DEF SpawnPanics, Answering
  <2>3. DOMAIN thread' = DOMAIN thread /\ loading' = loading
    BY <1>7 DEF SpawnPanics
  <2> QED
    BY <2>2, <2>3, EntryKept
<1>8. ASSUME NEW t \in DOMAIN thread,
             NoConsole(t) \/ DepsReady(t) \/ Finit(t) \/ FinitFails(t) \/ FinishPoisoned(t)
      PROVE  EntryInv'
  BY <1>2, <1>8 DEF NoConsole, DepsReady, Finit, FinitFails, FinishPoisoned, Answering
<1>9. ASSUME NEW t \in DOMAIN thread, Finish(t)
      PROVE  EntryInv'
  <2>1. /\ DOMAIN thread' = DOMAIN thread
        /\ \A u \in DOMAIN thread : u # t => thread'[u] = thread[u]
        /\ thread'[t].pc \notin Answering
        /\ thread[t].pc \in Answering
    BY <1>9 DEF Finish, Goto, Answering
  <2>2. loading' = [loading EXCEPT ![thread[t].module] = {}] /\ loading \in [Module -> SUBSET Holder]
    BY <1>9 DEF Finish, TypeOK
  <2>3. \A u \in DOMAIN thread : u # t /\ thread[u].pc \in Answering => thread[u].module # thread[t].module
    BY <2>1 DEF EntryInv
  <2>4. \A u \in DOMAIN thread : thread[u].module \in Module
    BY DEF TypeOK
  <2>5. ASSUME NEW u \in DOMAIN thread', thread'[u].pc \in Answering
        PROVE  u # t /\ u \in DOMAIN thread /\ thread'[u] = thread[u]
    BY <2>1, <2>5
  <2>6. ASSUME NEW u \in DOMAIN thread', thread'[u].pc \in Answering
        PROVE  thread'[u].orig \in loading'[thread'[u].module]
    <3>1. thread[u].orig \in loading[thread[u].module] /\ thread[u].module # thread[t].module
      BY <2>3, <2>5, <2>6 DEF EntryInv
    <3> QED
      BY <2>2, <2>4, <2>5, <2>6, <3>1
  <2>7. ASSUME NEW m \in Module, loading'[m] # {}
        PROVE  \E u \in DOMAIN thread' : thread'[u].pc \in Answering /\ thread'[u].module = m
    <3>1. m # thread[t].module /\ loading[m] # {}
      BY <2>2, <2>4, <2>7
    <3>2. PICK u \in DOMAIN thread : thread[u].pc \in Answering /\ thread[u].module = m
      BY <3>1 DEF EntryInv
    <3> QED
      BY <2>1, <3>1, <3>2
  <2>8. \A u, v \in DOMAIN thread' :
          /\ thread'[u].pc \in Answering
          /\ thread'[v].pc \in Answering
          /\ thread'[u].module = thread'[v].module
          => u = v
    BY <2>5 DEF EntryInv
  <2> QED
    BY <2>6, <2>7, <2>8 DEF EntryInv
<1>10. ASSUME NEW m \in Module, SkipModule(m)
       PROVE  EntryInv'
  BY <1>1, <1>10 DEF SkipModule
<1>11. ASSUME NEW c \in Caller, Lock(c) \/ Wait(c)
       PROVE  EntryInv'
  BY <1>1, <1>11 DEF Lock, Wait
<1>12. CASE LoadForced
  BY <1>1, <1>12 DEF LoadForced
<1>13. ASSUME NEW c \in Uevent, NEW a \in Alias, LoadModalias(c, a)
       PROVE  EntryInv'
  BY <1>1, <1>13 DEF LoadModalias
<1>14. CASE UNCHANGED vars
  BY <1>1, <1>14 DEF vars
<1> QED
  BY <1>3, <1>4, <1>5, <1>6, <1>7, <1>8, <1>9, <1>10, <1>11, <1>12, <1>13, <1>14
     DEF Next, Progress, Environment, LoadLoop, Loader

LEMMA EntryInvInductive == Spec => [](TypeOK /\ StackInv /\ EntryInv)
<1>1. Init => TypeOK /\ StackInv /\ EntryInv
  <2> SUFFICES ASSUME Init
               PROVE  TypeOK /\ StackInv /\ EntryInv
    OBVIOUS
  <2>1. stack = <<>> /\ DOMAIN thread = {} /\ \A m \in Module : loading[m] = {}
    BY DEF Init
  <2> QED
    BY <2>1, InitType DEF StackInv, EntryInv
<1>2. TypeOK /\ StackInv /\ EntryInv /\ [Next]_vars => (TypeOK /\ StackInv /\ EntryInv)'
  BY TypeStep, StackStep, EntryStep
<1> QED
  BY <1>1, <1>2, PTL DEF Spec

\* A module that is being loaded, or whose loading has failed, has exactly one
\* loader thread; the entry in `loading` is there as long as that thread has
\* not taken it out.
THEOREM OneLoaderPerEntry == Spec => []SoleLoader
<1>1. TypeOK /\ EntryInv => SoleLoader
  <2> SUFFICES ASSUME TypeOK, EntryInv, NEW m \in Module
               PROVE  LET answering == {t \in DOMAIN thread :
                                          thread[t].module = m /\ thread[t].pc \in Answering}
                      IN  IF loading[m] = {} THEN answering = {} ELSE \E t \in answering : answering = {t}
    BY DEF SoleLoader
  <2>1. CASE loading[m] = {}
    BY <2>1 DEF EntryInv
  <2>2. CASE loading[m] # {}
    <3>1. PICK t \in DOMAIN thread : thread[t].pc \in Answering /\ thread[t].module = m
      BY <2>2 DEF EntryInv
    <3>2. {u \in DOMAIN thread : thread[u].module = m /\ thread[u].pc \in Answering} = {t}
      BY <3>1 DEF EntryInv
    <3> QED
      BY <2>2, <3>2
  <2> QED
    BY <2>1, <2>2
<1> QED
  BY <1>1, EntryInvInductive, PTL

-----------------------------------------------------------------------------
(* The frames of load_modules_unlocked after a step.                       *)

\* A frame that was there before, with the same task and WaitGroup; if the
\* innermost one has moved on, a module has been dealt with.
OldFrame(i) ==
  /\ i \in DOMAIN stack
  /\ stack'[i].task = stack[i].task
  /\ stack'[i].wg = stack[i].wg
  /\ \/ stack'[i].todo = stack[i].todo
     \/ \E m \in Module :
          /\ i = Len(stack)
          /\ Visiting(m)
          /\ SkipModule(m) \/ JoinModule(m) \/ BeginModule(m)
          /\ stack'[i].todo = Tail(stack[i].todo)

\* A frame the step has pushed.
LockFrame(i) ==
  \E c \in Caller : /\ Lock(c)
                    /\ i = 1
                    /\ stack'[i].task = c
                    /\ stack'[i].wg = c
                    /\ stack'[i].todo = caller[c].want

FinishFrame(i) ==
  \E t \in DOMAIN thread : /\ Finish(t)
                           /\ i = 1
                           /\ stack'[i].task = t
                           /\ stack'[i].wg = thread[t].orig
                           /\ stack'[i].todo = config.post[thread[t].module]

DepsFrame(i) ==
  \E m \in Module : /\ BeginModule(m)
                    /\ i = Len(stack) + 1
                    /\ stack'[i].task = Len(thread) + 1
                    /\ stack'[i].wg = Len(thread) + 1
                    /\ stack'[i].todo = config.deps[m]

\* What BeginModule adds.
LEMMA BeginThread ==
  ASSUME TypeOK, NEW m \in Module, BeginModule(m)
  PROVE  /\ DOMAIN thread' = 1..(Len(thread) + 1)
         /\ \A t \in DOMAIN thread : thread'[t] = thread[t] /\ t # Len(thread) + 1
         /\ thread'[Len(thread) + 1] = [pc |-> "pending", module |-> m, orig |-> Top.wg]
         /\ Len(thread) + 1 \notin Caller
BY ThreadType, ConstantsAssumption DEF BeginModule

LEMMA FrameStep ==
  ASSUME TypeOK, [Next]_vars, NEW i \in DOMAIN stack'
  PROVE  OldFrame(i) \/ LockFrame(i) \/ FinishFrame(i) \/ DepsFrame(i)
<1> USE FrameTypes, ThreadType
<1>1. ASSUME stack' = stack
      PROVE  OldFrame(i)
  BY <1>1 DEF OldFrame
<1>2. ASSUME stack' = <<>>
      PROVE  FALSE
  BY <1>2
<1>3. ASSUME NEW c \in Caller, Lock(c), ~poisoned
      PROVE  LockFrame(i)
  <2>1. stack' = <<[task |-> c, wg |-> c, todo |-> caller[c].want]>>
    BY <1>3 DEF Lock
  <2>2. /\ i = 1 /\ stack'[1].task = c /\ stack'[1].wg = c
        /\ stack'[1].todo = caller[c].want
    BY <2>1
  <2> QED
    BY <1>3, <2>2 DEF LockFrame
<1>4. ASSUME NEW t \in DOMAIN thread, Finish(t)
      PROVE  FinishFrame(i)
  <2>1. stack' = <<[task |-> t, wg |-> thread[t].orig, todo |-> config.post[thread[t].module]]>>
    BY <1>4 DEF Finish
  <2>2. /\ i = 1 /\ stack'[1].task = t /\ stack'[1].wg = thread[t].orig
        /\ stack'[1].todo = config.post[thread[t].module]
    BY <2>1
  <2> QED
    BY <1>4, <2>2 DEF FinishFrame
<1>5. ASSUME NEW m \in Module, SkipModule(m) \/ JoinModule(m)
      PROVE  OldFrame(i)
  <2>1. Visiting(m) /\ stack' = Advanced /\ stack # <<>>
    BY <1>5 DEF SkipModule, JoinModule, Visiting
  <2>2. /\ i \in DOMAIN stack
        /\ stack'[i].task = stack[i].task
        /\ stack'[i].wg = stack[i].wg
        /\ stack'[i].todo = IF i = Len(stack) THEN Tail(stack[i].todo) ELSE stack[i].todo
    BY <2>1, AdvancedShape
  <2> QED
    BY <1>5, <2>1, <2>2 DEF OldFrame
<1>6. ASSUME NEW m \in Module, BeginModule(m)
      PROVE  OldFrame(i) \/ DepsFrame(i)
  <2> DEFINE t == Len(thread) + 1
             n == Len(stack)
             f == [task |-> t, wg |-> t, todo |-> config.deps[m]]
  <2>1. Visiting(m) /\ stack # <<>> /\ n \in Nat \ {0}
    BY <1>6 DEF BeginModule, Visiting
  <2>2. stack' = Append(Advanced, f)
    BY <1>6 DEF BeginModule, NextThread
  <2>3. Len(Advanced) = n /\ DOMAIN Advanced = 1..n
    BY <2>1, AdvancedShape
  <2>4. f.task = t /\ f.wg = t /\ f.todo = config.deps[m]
    OBVIOUS
  <2> HIDE DEF f
  <2>5. i \in 1..(n + 1) /\ (i \in 1..n => stack'[i] = Advanced[i]) /\ stack'[n + 1] = f
    BY <2>1, <2>2, <2>3
  <2>6. CASE i \in 1..n
    <3>1. /\ stack'[i].task = stack[i].task
          /\ stack'[i].wg = stack[i].wg
          /\ stack'[i].todo = IF i = Len(stack) THEN Tail(stack[i].todo) ELSE stack[i].todo
      BY <2>1, <2>5, <2>6, AdvancedShape
    <3> QED
      BY <1>6, <2>1, <2>6, <3>1 DEF OldFrame
  <2>7. CASE i = n + 1
    BY <1>6, <2>4, <2>5, <2>7 DEF DepsFrame
  <2> QED
    BY <2>1, <2>5, <2>6, <2>7
<1>7. CASE Spawn
  <2>1. stack # <<>> /\ stack' = Returned
    BY <1>7 DEF Spawn
  <2>2. i \in DOMAIN stack /\ stack'[i] = stack[i]
    BY <2>1, ReturnedShape
  <2> QED
    BY <2>2 DEF OldFrame
<1>8. CASE SpawnPanics \/ Unlock
  BY <1>2, <1>8 DEF SpawnPanics, Unlock
<1>9. ASSUME NEW t \in DOMAIN thread,
             NoConsole(t) \/ DepsReady(t) \/ Finit(t) \/ FinitFails(t) \/ FinishPoisoned(t)
      PROVE  OldFrame(i)
  BY <1>1, <1>9 DEF NoConsole, DepsReady, Finit, FinitFails, FinishPoisoned
<1>10. ASSUME NEW c \in Caller, Wait(c) \/ (Lock(c) /\ poisoned)
       PROVE  OldFrame(i)
  BY <1>1, <1>10 DEF Wait, Lock
<1>11. CASE LoadForced
  BY <1>1, <1>11 DEF LoadForced
<1>12. ASSUME NEW c \in Uevent, NEW a \in Alias, LoadModalias(c, a)
       PROVE  OldFrame(i)
  BY <1>1, <1>12 DEF LoadModalias
<1>13. CASE UNCHANGED vars
  BY <1>1, <1>13 DEF vars
<1> QED
  BY <1>3, <1>4, <1>5, <1>6, <1>7, <1>8, <1>9, <1>10, <1>11, <1>12, <1>13
     DEF Next, Progress, Environment, LoadLoop, Loader

-----------------------------------------------------------------------------
(* Why a module is looked at.                                              *)

\* The modules an invocation of load_modules_unlocked was called with.
Asked(i) ==
  IF OwnWalk(i) THEN Needs[stack[i].task]
                ELSE SetOf(config.post[thread[stack[i].task].module])

\* Nothing else is left to do, a caller that has not called asks for nothing,
\* and a built-in module never gets a loader thread.
DemandInv ==
  /\ \A i \in DOMAIN stack : SetOf(stack[i].todo) \subseteq Asked(i)
  /\ \A c \in Caller : caller[c].pc = "idle" => caller[c].want = <<>>
  /\ \A t \in DOMAIN thread : thread[t].module \notin config.builtin

ContractInv == WaitInv /\ DemandInv

\* An invocation on behalf of a post-dependency belongs to a loader thread.
LEMMA PostTask ==
  ASSUME TypeOK, StackInv, NEW i \in DOMAIN stack, ~OwnWalk(i)
  PROVE  /\ i = 1
         /\ stack[i].task \in DOMAIN thread
         /\ stack[i].task \notin Caller
         /\ stack[i].wg = thread[stack[i].task].orig
         /\ thread[stack[i].task].pc = "post"
BY FrameTypes DEF StackInv, OwnWalk

LEMMA TailSubset ==
  ASSUME NEW s \in Seq(Module), s # <<>>
  PROVE  SetOf(Tail(s)) \subseteq SetOf(s) /\ Head(s) \in SetOf(s)
<1>1. Len(s) \in Nat \ {0} /\ Head(s) = s[1] /\ 1 \in DOMAIN s
  OBVIOUS
<1>2. \A i \in DOMAIN Tail(s) : i + 1 \in DOMAIN s /\ Tail(s)[i] = s[i + 1]
  OBVIOUS
<1> QED
  BY <1>1, <1>2 DEF SetOf

\* What a frame was called with does not change while it is there.
LEMMA AskedKept ==
  ASSUME TypeOK, StackInv, [Next]_vars, NEW i \in DOMAIN stack, NEW j \in DOMAIN stack', i = j,
         stack'[j].task = stack[i].task
  PROVE  Asked(j)' = Asked(i) /\ (OwnWalk(j)' <=> OwnWalk(i))
<1>1. OwnWalk(j)' <=> OwnWalk(i)
  BY DEF OwnWalk
<1>2. CASE OwnWalk(i)
  BY <1>1, <1>2, OwnTask, NeedsKept DEF Asked
<1>3. CASE ~OwnWalk(i)
  BY <1>1, <1>3, PostTask, Steady DEF Asked
<1> QED
  BY <1>1, <1>2, <1>3

\* A thread that was not there before has been made by BeginModule.
LEMMA NewThread ==
  ASSUME TypeOK, [Next]_vars, NEW t \in DOMAIN thread', t \notin DOMAIN thread
  PROVE  \E m \in Module : /\ BeginModule(m)
                           /\ t = Len(thread) + 1
                           /\ thread'[t].pc = "pending"
                           /\ thread'[t].module = m
                           /\ thread'[t].orig = Top.wg
<1>1. PICK m \in Module : BeginModule(m)
  <2>1. ASSUME NEW u \in DOMAIN thread, Loader(u) \/ NoConsole(u)
        PROVE  DOMAIN thread' = DOMAIN thread
    BY <2>1 DEF Loader, NoConsole, DepsReady, Finit, FinitFails, Finish, FinishPoisoned, Goto
  <2>2. Spawn \/ SpawnPanics \/ Unlock => DOMAIN thread' = DOMAIN thread
    BY DEF Spawn, SpawnPanics, Unlock
  <2>3. ASSUME NEW m \in Module, SkipModule(m) \/ JoinModule(m)
        PROVE  thread' = thread
    BY <2>3 DEF SkipModule, JoinModule
  <2>4. ASSUME NEW c \in Caller, Lock(c) \/ Wait(c)
        PROVE  thread' = thread
    BY <2>4 DEF Lock, Wait
  <2>5. LoadForced \/ (\E c \in Uevent, a \in Alias : LoadModalias(c, a)) \/ UNCHANGED vars
          => thread' = thread
    BY DEF LoadForced, LoadModalias, vars
  <2> QED
    BY <2>1, <2>2, <2>3, <2>4, <2>5 DEF Next, Progress, Environment, LoadLoop
<1>2. /\ DOMAIN thread' = 1..(Len(thread) + 1)
      /\ thread'[Len(thread) + 1] = [pc |-> "pending", module |-> m, orig |-> Top.wg]
  BY <1>1, BeginThread
<1>3. t = Len(thread) + 1
  BY <1>2, ThreadType
<1>4. thread'[t] = [pc |-> "pending", module |-> m, orig |-> Top.wg]
  BY <1>2, <1>3
<1> QED
  BY <1>1, <1>3, <1>4

LEMMA DemandStep ==
  ASSUME ContractInv, [Next]_vars
  PROVE  DemandInv'
<1> USE DEF ContractInv, WaitInv
<1>1. ASSUME NEW i \in DOMAIN stack'
      PROVE  SetOf(stack'[i].todo) \subseteq Asked(i)'
  <2>1. CASE OldFrame(i)
    <3>1. i \in DOMAIN stack /\ stack[i].todo \in Seq(Module)
      BY <2>1, FrameTypes DEF OldFrame
    <3>2. \/ stack'[i].todo = stack[i].todo
          \/ stack'[i].todo = Tail(stack[i].todo) /\ stack[i].todo # <<>>
      BY <2>1, FrameTypes DEF OldFrame, Visiting
    <3>3. SetOf(stack'[i].todo) \subseteq SetOf(stack[i].todo)
      BY <3>1, <3>2, TailSubset
    <3>4. Asked(i)' = Asked(i)
      BY <2>1, <3>1, AskedKept DEF OldFrame
    <3> QED
      BY <3>1, <3>3, <3>4 DEF DemandInv
  <2>2. CASE LockFrame(i)
    <3>1. PICK c \in Caller : /\ Lock(c)
                              /\ stack'[i].task = c
                              /\ stack'[i].todo = caller[c].want
      BY <2>2 DEF LockFrame
    <3>2. c \in Holder /\ Needs'[c] = Needs[c] /\ Needs[c] = SetOf(caller[c].want)
      <4>1. c \in Holder /\ caller[c].pc # "idle"
        BY <3>1 DEF Lock, Holder
      <4> QED
        BY <4>1, NeedsKept DEF Needs
    <3>3. OwnWalk(i)'
      BY <3>1 DEF OwnWalk
    <3> QED
      BY <3>1, <3>2, <3>3 DEF Asked
  <2>3. CASE FinishFrame(i)
    <3>1. PICK t \in DOMAIN thread : /\ i = 1
                                     /\ stack'[i].task = t
                                     /\ stack'[i].todo = config.post[thread[t].module]
      BY <2>3 DEF FinishFrame
    <3>2. ~OwnWalk(i)'
      BY <3>1, ThreadNotCaller DEF OwnWalk
    <3> QED
      BY <3>1, <3>2, Steady DEF Asked
  <2>4. CASE DepsFrame(i)
    <3> DEFINE t == Len(thread) + 1
    <3>1. PICK m \in Module : /\ BeginModule(m)
                              /\ i = Len(stack) + 1
                              /\ stack'[i].task = t
                              /\ stack'[i].todo = config.deps[m]
      BY <2>4 DEF DepsFrame
    <3>2. t \in DOMAIN thread' /\ thread'[t].module = m /\ t \notin Caller
      <4>1. DOMAIN thread' = 1..t /\ t \notin Caller
        BY <3>1, BeginThread
      <4>2. t \in 1..t
        BY ThreadType
      <4>3. thread'[t] = [pc |-> "pending", module |-> m, orig |-> Top.wg]
        BY <3>1, BeginThread
      <4> QED
        BY <4>1, <4>2, <4>3
    <3>3. Len(stack) > 0
      BY <3>1, FrameTypes DEF BeginModule, Visiting
    <3> HIDE DEF t
    <3>4. OwnWalk(i)'
      BY <3>1, <3>3 DEF OwnWalk
    <3>5. Needs'[t] = SetOf(config.deps[m])
      BY <3>2, Steady DEF Needs, Holder
    <3> QED
      BY <3>1, <3>4, <3>5 DEF Asked
  <2> QED
    BY <2>1, <2>2, <2>3, <2>4, FrameStep
<1>2. ASSUME NEW c \in Caller, caller'[c].pc = "idle"
      PROVE  caller'[c].want = <<>>
  <2>1. caller[c].pc = "idle" /\ caller'[c] = caller[c]
    <3> USE <1>2 DEF TypeOK
    <3>1. ASSUME NEW d \in Caller, NEW r, caller' = [caller EXCEPT ![d] = r], r.pc # "idle"
          PROVE  caller[c].pc = "idle" /\ caller'[c] = caller[c]
      BY <3>1
    <3>2. ASSUME NEW d \in Caller, NEW p, caller' = [caller EXCEPT ![d].pc = p], p # "idle"
          PROVE  caller[c].pc = "idle" /\ caller'[c] = caller[c]
      BY <3>2
    <3>3. CASE LoadForced
      <4> DEFINE r == [pc |-> "lock", want |-> config.force]
      <4>1. r.pc # "idle" /\ Main \in Caller /\ caller' = [caller EXCEPT ![Main] = r]
        BY <3>3 DEF LoadForced, Caller
      <4> QED
        BY <3>1, <4>1
    <3>4. ASSUME NEW u \in Uevent, NEW a \in Alias, LoadModalias(u, a)
          PROVE  caller[c].pc = "idle" /\ caller'[c] = caller[c]
      <4> DEFINE matched == IF a \in processed THEN <<>> ELSE config.aliases[a]
                 r == [pc |-> IF matched = <<>> THEN "none" ELSE "lock", want |-> matched]
      <4>1. r.pc # "idle" /\ u \in Caller
        BY DEF Caller
      <4>2. caller' = [caller EXCEPT ![u] = r]
        BY <3>4 DEF LoadModalias
      <4> HIDE DEF r
      <4> QED
        BY <3>1, <4>1, <4>2
    <3>5. ASSUME NEW d \in Caller, Lock(d) \/ Wait(d)
          PROVE  caller[c].pc = "idle" /\ caller'[c] = caller[c]
      BY <3>2, <3>5 DEF Lock, Wait
    <3>6. CASE SpawnPanics
      BY <3>2, <3>6 DEF SpawnPanics
    <3>7. CASE Unlock
      BY <3>2, <3>7 DEF Unlock
    <3>8. CASE UNCHANGED caller
      BY <3>8
    <3>9. ASSUME NEW m \in Module, SkipModule(m) \/ JoinModule(m) \/ BeginModule(m)
          PROVE  UNCHANGED caller
      BY <3>9 DEF SkipModule, JoinModule, BeginModule
    <3>10. ASSUME NEW t \in DOMAIN thread, Loader(t) \/ NoConsole(t)
           PROVE  UNCHANGED caller
      BY <3>10 DEF Loader, NoConsole, DepsReady, Finit, FinitFails, Finish, FinishPoisoned
    <3> QED
      BY <3>3, <3>4, <3>5, <3>6, <3>7, <3>8, <3>9, <3>10
         DEF Next, Progress, Environment, LoadLoop, Spawn, vars
  <2> QED
    BY <2>1 DEF DemandInv
<1>3. ASSUME NEW t \in DOMAIN thread'
      PROVE  thread'[t].module \notin config'.builtin
  <2>1. CASE t \in DOMAIN thread
    BY <2>1, Steady DEF DemandInv
  <2>2. CASE t \notin DOMAIN thread
    <3>1. PICK m \in Module : BeginModule(m) /\ thread'[t].module = m
      BY <2>2, NewThread
    <3>2. m \notin config.builtin
      BY <3>1 DEF BeginModule, AlreadyThere
    <3> QED
      BY <3>1, <3>2, Steady
  <2> QED
    BY <2>1, <2>2
<1> QED
  BY <1>1, <1>2, <1>3 DEF DemandInv

LEMMA ContractInvInductive == Spec => []ContractInv
<1>1. Init => DemandInv
  BY DEF Init, DemandInv
<1>2. ContractInv /\ [Next]_vars => DemandInv'
  BY DemandStep
<1> QED
  BY <1>1, <1>2, WaitInvInductive, PTL DEF Spec, ContractInv

-----------------------------------------------------------------------------
(* The refinement.                                                         *)

\* The abstract variables, as Contract substitutes them.
Demanded == {thread[t].module : t \in DOMAIN thread} \cup UNION {SetOf(caller[c].want) : c \in Caller}

State(pc) == CASE pc = "idle"              -> "idle"
               [] pc \in {"none", "failed"} -> "refused"
               [] pc = "done"              -> "returned"
               [] OTHER                    -> "asked"

Call == [c \in Caller |-> [state |-> State(caller[c].pc), want |-> SetOf(caller[c].want)]]

\* The contract over them.
LEMMA ContractVars ==
  /\ Contract!vars = <<config, Demanded, kernel, Call>>
  /\ Contract!Present = Satisfied
  /\ \A s : Contract!Elements(s) = SetOf(s)
BY DEF Contract!vars, Contract!Present, Contract!Elements, Demanded, Call, State, Satisfied, SetOf

LEMMA ContractAsk ==
  ASSUME NEW c \in Caller, NEW ms \in SUBSET Module,
         Call[c].state = "idle",
         Call' = [Call EXCEPT ![c] = [state |-> "asked", want |-> ms]],
         Demanded' = Demanded \cup ms,
         UNCHANGED <<config, kernel>>
  PROVE  Contract!Next
<1>1. Contract!Ask(c, ms)
  BY DEF Contract!Ask, Demanded, Call, State
<1> QED
  BY <1>1 DEF Contract!Next

LEMMA ContractRefuse ==
  ASSUME NEW c \in Caller,
         Call[c].state \in {"idle", "asked"},
         Call' = [Call EXCEPT ![c].state = "refused"],
         UNCHANGED <<config, Demanded, kernel>>
  PROVE  Contract!Next
<1>1. Contract!Refuse(c)
  BY DEF Contract!Refuse, Demanded, Call, State
<1> QED
  BY <1>1 DEF Contract!Next

LEMMA ContractReturn ==
  ASSUME NEW c \in Caller,
         Call[c].state = "asked",
         Call[c].want \subseteq Satisfied,
         Call' = [Call EXCEPT ![c].state = "returned"],
         UNCHANGED <<config, Demanded, kernel>>
  PROVE  Contract!Next
<1>1. Contract!Return(c)
  BY ContractVars DEF Contract!Return, Demanded, Call, State
<1> QED
  BY <1>1 DEF Contract!Next

LEMMA ContractDemand ==
  ASSUME NEW d \in Module,
         \/ \E m \in Demanded : d \in SetOf(config.deps[m])
         \/ \E m \in kernel : d \in SetOf(config.post[m]),
         Demanded' = Demanded \cup {d},
         UNCHANGED <<config, kernel, Call>>
  PROVE  Contract!Next
<1>1. Contract!Demand(d)
  BY ContractVars DEF Contract!Demand, Demanded, Call, State
<1> QED
  BY <1>1 DEF Contract!Next

LEMMA ContractInsert ==
  ASSUME NEW m \in Module,
         m \in Demanded \ Satisfied,
         SetOf(config.deps[m]) \subseteq Satisfied,
         kernel' = kernel \cup {m},
         UNCHANGED <<config, Demanded, Call>>
  PROVE  Contract!Next
<1>1. Contract!Insert(m)
  BY ContractVars DEF Contract!Insert, Demanded, Call, State
<1> QED
  BY <1>1 DEF Contract!Next

\* What is demanded depends on the threads' modules and the callers' requests.
LEMMA DemandedSame ==
  ASSUME TypeOK, [Next]_vars, DOMAIN thread' = DOMAIN thread,
         \A c \in Caller : caller'[c].want = caller[c].want
  PROVE  Demanded' = Demanded
<1>1. \A t \in DOMAIN thread : thread'[t].module = thread[t].module
  BY Steady
<1> QED
  BY <1>1 DEF Demanded

LEMMA CallType ==
  ASSUME TypeOK, NEW c \in Caller
  PROVE  /\ Call[c].state = State(caller[c].pc)
         /\ Call[c].want = SetOf(caller[c].want)
         /\ caller[c].want \in Seq(Module)
         /\ SetOf(caller[c].want) \in SUBSET Module
<1>1. caller[c].want \in Seq(Module)
  BY DEF TypeOK
<1>2. \A s \in Seq(Module) : SetOf(s) \subseteq Module
  BY DEF SetOf
<1> QED
  BY <1>1, <1>2 DEF Call

\* A caller that only moves on.
LEMMA CallMoves ==
  ASSUME TypeOK, NEW c \in Caller, NEW p, caller' = [caller EXCEPT ![c].pc = p]
  PROVE  /\ Call' = [Call EXCEPT ![c].state = State(p)]
         /\ State(p) = State(caller[c].pc) => Call' = Call
         /\ \A d \in Caller : caller'[d].want = caller[d].want
<1>1. /\ \A d \in Caller : caller'[d].want = caller[d].want
      /\ \A d \in Caller : d # c => caller'[d].pc = caller[d].pc
      /\ caller'[c].pc = p
  BY DEF TypeOK
<1>2. Call' = [d \in Caller |-> [state |-> State(caller'[d].pc), want |-> SetOf(caller[d].want)]]
  BY <1>1 DEF Call
<1>3. Call = [d \in Caller |-> [state |-> State(caller[d].pc), want |-> SetOf(caller[d].want)]]
  BY DEF Call
<1> HIDE DEF Call, State
<1>4. Call' = [Call EXCEPT ![c].state = State(p)]
  BY <1>1, <1>2, <1>3
<1>5. State(p) = State(caller[c].pc) => Call' = Call
  BY <1>1, <1>2, <1>3
<1> QED
  BY <1>1, <1>4, <1>5

LEMMA StateOf ==
  /\ State("idle") = "idle"
  /\ State("none") = "refused"
  /\ State("failed") = "refused"
  /\ State("done") = "returned"
  /\ \A p \in {"lock", "load", "wait"} : State(p) = "asked"
BY DEF State

\* A request that begins: what it asks for is all it has ever asked for.
LEMMA CallBegins ==
  ASSUME TypeOK, DemandInv, [Next]_vars, DOMAIN thread' = DOMAIN thread,
         NEW c \in Caller, caller[c].pc = "idle", NEW p, NEW ms \in Seq(Module),
         caller' = [caller EXCEPT ![c] = [pc |-> p, want |-> ms]]
  PROVE  /\ Call[c].state = "idle"
         /\ Call[c].want = {}
         /\ Call' = [Call EXCEPT ![c] = [state |-> State(p), want |-> SetOf(ms)]]
         /\ Demanded' = Demanded \cup SetOf(ms)
<1>1. caller[c].want = <<>> /\ SetOf(<<>>) = {}
  BY DEF DemandInv, SetOf
<1>2. Call[c].state = "idle" /\ Call[c].want = {}
  BY <1>1, CallType, StateOf
<1>3. /\ \A d \in Caller : d # c => caller'[d] = caller[d]
      /\ caller'[c].pc = p /\ caller'[c].want = ms
  BY DEF TypeOK
<1>4. Call' = [Call EXCEPT ![c] = [state |-> State(p), want |-> SetOf(ms)]]
  BY <1>3 DEF Call
<1>5. UNION {SetOf(caller'[d].want) : d \in Caller}
        = (UNION {SetOf(caller[d].want) : d \in Caller}) \cup SetOf(ms)
  <2> DEFINE U == UNION {SetOf(caller[d].want) : d \in Caller}
             V == UNION {SetOf(caller'[d].want) : d \in Caller}
  <2>1. ASSUME NEW x \in U
        PROVE  x \in V
    BY <1>1, <1>3
  <2>2. ASSUME NEW x \in V
        PROVE  x \in U \cup SetOf(ms)
    BY <1>3
  <2>3. ASSUME NEW x \in SetOf(ms)
        PROVE  x \in V
    BY <1>3
  <2> QED
    BY <2>1, <2>2, <2>3
<1>6. \A t \in DOMAIN thread : thread'[t].module = thread[t].module
  BY Steady
<1> QED
  BY <1>2, <1>4, <1>5, <1>6 DEF Demanded

LEMMA ContractInit == Init => Contract!Init
<1> SUFFICES ASSUME Init
             PROVE  Contract!Init
  OBVIOUS
<1>1. DOMAIN thread = {} /\ \A c \in Caller : caller[c].want = <<>> /\ caller[c].pc = "idle"
  BY DEF Init
<1>2. SetOf(<<>>) = {}
  BY DEF SetOf
<1>3. Demanded = {} /\ Call = [c \in Caller |-> [state |-> "idle", want |-> {}]]
  BY <1>1, <1>2, StateOf DEF Demanded, Call
<1> QED
  BY <1>3 DEF Init, Contract!Init, Demanded, Call, State

LEMMA ContractStep ==
  ASSUME ContractInv, ContractInv', [Next]_vars
  PROVE  [Contract!Next]_Contract!vars
<1> USE DEF ContractInv, WaitInv
<1> DEFINE Step == [Contract!Next]_Contract!vars
<1>0. config' = config
  BY Steady
<1>1. ASSUME kernel' = kernel, Demanded' = Demanded, Call' = Call
      PROVE  Step
  <2>1. Contract!vars = <<config, Demanded, kernel, Call>>
    BY ContractVars
  <2>2. (Contract!vars)' = <<config', Demanded', kernel', Call'>>
    BY DEF Contract!vars, Demanded, Call, State
  <2> QED
    BY <1>0, <1>1, <2>1, <2>2
<1>2. ASSUME kernel' = kernel, caller' = caller, DOMAIN thread' = DOMAIN thread
      PROVE  Step
  <2>1. Demanded' = Demanded /\ Call' = Call
    BY <1>2, DemandedSame DEF Call
  <2> QED
    BY <1>1, <1>2, <2>1
<1>3. ASSUME NEW c \in Caller, NEW p, caller' = [caller EXCEPT ![c].pc = p],
             State(p) = State(caller[c].pc), kernel' = kernel, DOMAIN thread' = DOMAIN thread
      PROVE  Step
  BY <1>1, <1>3, DemandedSame, CallMoves
<1>4. ASSUME NEW c \in Caller, caller[c].pc \in {"lock", "load"}, kernel' = kernel,
             DOMAIN thread' = DOMAIN thread, caller' = [caller EXCEPT ![c].pc = "failed"]
      PROVE  Step
  <2>1. Demanded' = Demanded /\ Call' = [Call EXCEPT ![c].state = "refused"]
    <3>1. /\ Call' = [Call EXCEPT ![c].state = State("failed")]
          /\ \A d \in Caller : caller'[d].want = caller[d].want
      BY <1>4, CallMoves
    <3>2. Demanded' = Demanded
      BY <1>4, <3>1, DemandedSame
    <3> QED
      BY <3>1, <3>2, StateOf
  <2>2. Call[c].state = "asked"
    BY <1>4, CallType, StateOf
  <2>3. Contract!Next
    BY <1>0, <1>4, <2>1, <2>2, ContractRefuse
  <2> QED
    BY <2>3
<1>5. CASE LoadForced
  <2>1. /\ Main \in Caller /\ caller[Main].pc = "idle" /\ config.force \in Seq(Module)
        /\ caller' = [caller EXCEPT ![Main] = [pc |-> "lock", want |-> config.force]]
        /\ DOMAIN thread' = DOMAIN thread /\ kernel' = kernel
    BY <1>5, ConfigType DEF LoadForced, Caller
  <2>2. SetOf(config.force) \in SUBSET Module
    BY <2>1 DEF SetOf
  <2> QED
    <3>1. /\ Call[Main].state = "idle"
          /\ Call' = [Call EXCEPT ![Main] = [state |-> "asked", want |-> SetOf(config.force)]]
          /\ Demanded' = Demanded \cup SetOf(config.force)
      <4> DEFINE ms == config.force
                 p == "lock"
      <4>1. /\ Main \in Caller /\ caller[Main].pc = "idle" /\ ms \in Seq(Module)
            /\ caller' = [caller EXCEPT ![Main] = [pc |-> p, want |-> ms]]
            /\ DOMAIN thread' = DOMAIN thread
        BY <2>1
      <4>2. State(p) = "asked"
        BY StateOf
      <4> HIDE DEF ms, p
      <4>3. /\ Call[Main].state = "idle"
            /\ Call' = [Call EXCEPT ![Main] = [state |-> State(p), want |-> SetOf(ms)]]
            /\ Demanded' = Demanded \cup SetOf(ms)
        BY <4>1, CallBegins
      <4> QED
        BY <4>2, <4>3 DEF ms
    <3>2. Contract!Next
      BY <1>0, <2>1, <2>2, <3>1, ContractAsk
    <3> QED
      BY <3>2
<1>6. ASSUME NEW c \in Uevent, NEW a \in Alias, LoadModalias(c, a)
      PROVE  Step
  <2> DEFINE ms == IF a \in processed THEN <<>> ELSE config.aliases[a]
             p == IF ms = <<>> THEN "none" ELSE "lock"
  <2>1. /\ c \in Caller /\ caller[c].pc = "idle"
        /\ caller' = [caller EXCEPT ![c] = [pc |-> p, want |-> ms]]
        /\ DOMAIN thread' = DOMAIN thread /\ kernel' = kernel
    BY <1>6 DEF LoadModalias, Caller
  <2>2. ms \in Seq(Module)
    BY ConfigType, SmallSeq
  <2>3. SetOf(ms) \in SUBSET Module /\ SetOf(<<>>) = {}
    BY <2>2 DEF SetOf
  <2>4. (ms = <<>> /\ p = "none") \/ p = "lock"
    OBVIOUS
  <2> HIDE DEF ms, p
  <2>5. /\ Call[c].state = "idle" /\ Call[c].want = {}
        /\ Call' = [Call EXCEPT ![c] = [state |-> State(p), want |-> SetOf(ms)]]
        /\ Demanded' = Demanded \cup SetOf(ms)
    BY <2>1, <2>2, CallBegins
  <2>6. CASE p = "lock"
    BY <1>0, <2>1, <2>3, <2>5, <2>6, StateOf, ContractAsk
  <2>7. CASE ms = <<>> /\ p = "none"
    <3>1. State(p) = "refused" /\ SetOf(ms) = Call[c].want
      BY <2>3, <2>5, <2>7, StateOf
    <3>2. Call' = [Call EXCEPT ![c] = [state |-> "refused", want |-> Call[c].want]]
      BY <2>5, <3>1
    <3>3. [Call[c] EXCEPT !.state = "refused"] = [state |-> "refused", want |-> Call[c].want]
      BY <2>1 DEF Call
    <3>4. Call' = [Call EXCEPT ![c].state = "refused"]
      BY <3>2, <3>3
    <3> QED
      BY <1>0, <2>1, <2>3, <2>5, <2>7, <3>4, ContractRefuse
  <2> QED
    BY <2>4, <2>6, <2>7
<1>7. ASSUME NEW c \in Caller, Lock(c)
      PROVE  Step
  <2>1. /\ caller[c].pc = "lock" /\ DOMAIN thread' = DOMAIN thread /\ kernel' = kernel
        /\ \/ caller' = [caller EXCEPT ![c].pc = "load"]
           \/ caller' = [caller EXCEPT ![c].pc = "failed"]
    BY <1>7 DEF Lock
  <2> QED
    BY <1>3, <1>4, <2>1, StateOf
<1>8. ASSUME NEW c \in Caller, Wait(c)
      PROVE  Step
  <2>1. /\ caller[c].pc = "wait" /\ DOMAIN thread' = DOMAIN thread /\ kernel' = kernel
        /\ caller' = [caller EXCEPT ![c].pc = "done"]
    BY <1>8 DEF Wait
  <2>2. SetOf(caller[c].want) \subseteq Satisfied
    <3>1. c \in Through'
      BY <2>1 DEF Through, Holder, TypeOK
    <3>2. Needs'[c] = SetOf(caller[c].want)
      BY <2>1 DEF Needs, Holder, TypeOK
    <3>3. Satisfied' = Satisfied
      BY <1>0, <2>1 DEF Satisfied
    <3> QED
      BY <3>1, <3>2, <3>3 DEF ThroughInv
  <2> QED
    <3>1. Demanded' = Demanded /\ Call' = [Call EXCEPT ![c].state = "returned"]
      <4>1. /\ Call' = [Call EXCEPT ![c].state = State("done")]
            /\ \A d \in Caller : caller'[d].want = caller[d].want
        BY <2>1, CallMoves
      <4>2. Demanded' = Demanded
        BY <2>1, <4>1, DemandedSame
      <4> QED
        BY <4>1, <4>2, StateOf
    <3>2. Call[c].state = "asked" /\ Call[c].want \subseteq Satisfied
      BY <2>1, <2>2, CallType, StateOf
    <3>3. Contract!Next
      BY <1>0, <2>1, <3>1, <3>2, ContractReturn
    <3> QED
      BY <3>3
<1>9. ASSUME NEW m \in Module, BeginModule(m)
      PROVE  Step
  <2>1. kernel' = kernel /\ caller' = caller /\ Call' = Call
    BY <1>9 DEF BeginModule, Call
  <2>2. Demanded' = Demanded \cup {m}
    <3> DEFINE n == Len(thread) + 1
    <3>1. DOMAIN thread' = DOMAIN thread \cup {n} /\ thread'[n].module = m
      <4>1. DOMAIN thread' = 1..n /\ thread'[n] = [pc |-> "pending", module |-> m, orig |-> Top.wg]
        BY <1>9, BeginThread
      <4>2. DOMAIN thread = 1..Len(thread) /\ Len(thread) \in Nat
        BY ThreadType
      <4>3. 1..n = 1..Len(thread) \cup {n}
        BY <4>2
      <4> QED
        BY <4>1, <4>2, <4>3
    <3>2. \A t \in DOMAIN thread : thread'[t].module = thread[t].module
      BY Steady
    <3> HIDE DEF n
    <3> QED
      BY <2>1, <3>1, <3>2 DEF Demanded
  <2> DEFINE i == Len(stack)
  <2>3. i \in DOMAIN stack /\ m \in SetOf(stack[i].todo)
    <3>1. stack # <<>> /\ Top.todo # <<>> /\ m = Head(Top.todo)
      BY <1>9 DEF BeginModule, Visiting
    <3>2. i \in DOMAIN stack /\ Top = stack[i] /\ stack[i].todo \in Seq(Module)
      BY <3>1, FrameTypes
    <3> QED
      BY <3>1, <3>2, TailSubset
  <2>4. m \in Asked(i)
    BY <2>3 DEF DemandInv
  <2> HIDE DEF i
  <2>5. CASE ~OwnWalk(i)
    <3>1. stack[i].task \in DOMAIN thread /\ thread[stack[i].task].pc = "post"
      BY <2>3, <2>5, PostTask
    <3>2. thread[stack[i].task].module \in kernel
      BY <3>1 DEF LoadedInv
    <3>3. m \in SetOf(config.post[thread[stack[i].task].module])
      BY <2>4, <2>5 DEF Asked
    <3> QED
      BY <1>0, <2>1, <2>2, <3>2, <3>3, ContractDemand
  <2>6. CASE OwnWalk(i) /\ stack[i].task \in Caller
    <3>1. m \in SetOf(caller[stack[i].task].want)
      BY <2>4, <2>6 DEF Asked, Needs, Holder
    <3>2. m \in Demanded
      BY <2>6, <3>1 DEF Demanded
    <3>3. Demanded' = Demanded
      BY <2>2, <3>2
    <3> QED
      BY <1>1, <2>1, <3>3
  <2>7. CASE OwnWalk(i) /\ stack[i].task \notin Caller
    <3>1. stack[i].task \in DOMAIN thread /\ stack[i].task \in Holder
      BY <2>3, <2>7, OwnTask DEF Holder
    <3>2. m \in SetOf(config.deps[thread[stack[i].task].module])
      BY <2>4, <2>7, <3>1 DEF Asked, Needs
    <3>3. thread[stack[i].task].module \in Demanded
      BY <3>1 DEF Demanded
    <3> QED
      BY <1>0, <2>1, <2>2, <3>2, <3>3, ContractDemand
  <2> QED
    BY <2>5, <2>6, <2>7
<1>10. ASSUME NEW t \in DOMAIN thread, Finit(t)
       PROVE  Step
  <2> DEFINE m == thread[t].module
  <2>1. /\ DOMAIN thread' = DOMAIN thread /\ caller' = caller
        /\ kernel' = kernel \cup {m} /\ m \notin kernel /\ thread[t].pc = "finit"
    BY <1>10 DEF Finit, Goto
  <2>2. m \in Module /\ m \in Demanded /\ m \notin Satisfied
    BY <2>1, ThreadType DEF Demanded, DemandInv, Satisfied
  <2>3. SetOf(config.deps[m]) \subseteq Satisfied
    <3>1. t \in Holder /\ t \notin Caller
      BY ThreadNotCaller DEF Holder
    <3> QED
      BY <2>1, <3>1 DEF ThroughInv, Through, Needs
  <2>4. Demanded' = Demanded /\ Call' = Call
    BY <2>1, DemandedSame DEF Call
  <2> QED
    BY <1>0, <2>1, <2>2, <2>3, <2>4, ContractInsert
<1>11. CASE SpawnPanics
  <2>1. DOMAIN thread' = DOMAIN thread /\ kernel' = kernel /\ stack # <<>>
    BY <1>11, FrameTypes DEF SpawnPanics
  <2>2. CASE caller' = caller
    BY <1>2, <2>1, <2>2
  <2>3. CASE stack[1].task \in Caller /\ caller' = [caller EXCEPT ![stack[1].task].pc = "failed"]
    <3>1. caller[stack[1].task].pc = "load"
      BY <2>1, <2>3, ThreadNotCaller DEF StackInv
    <3> QED
      BY <1>4, <2>1, <2>3, <3>1
  <2> QED
    BY <1>11, <2>2, <2>3 DEF SpawnPanics
<1>12. CASE Unlock
  <2>1. DOMAIN thread' = DOMAIN thread /\ kernel' = kernel /\ stack # <<>> /\ Top = stack[1]
    BY <1>12, FrameTypes DEF Unlock
  <2>2. CASE caller' = caller
    BY <1>2, <2>1, <2>2
  <2>3. CASE Top.task \in Caller /\ caller' = [caller EXCEPT ![Top.task].pc = "wait"]
    <3> DEFINE c == Top.task
               p == "wait"
    <3>1. caller[c].pc = "load"
      BY <2>1, <2>3, ThreadNotCaller DEF StackInv
    <3>2. State(p) = State(caller[c].pc)
      BY <3>1, StateOf
    <3>3. c \in Caller /\ caller' = [caller EXCEPT ![c].pc = p]
      BY <2>3
    <3> HIDE DEF c, p
    <3> QED
      BY <1>3, <2>1, <3>2, <3>3
  <2> QED
    BY <1>12, <2>2, <2>3 DEF Unlock
<1>13. ASSUME NEW t \in DOMAIN thread,
              NoConsole(t) \/ DepsReady(t) \/ FinitFails(t) \/ Finish(t) \/ FinishPoisoned(t)
       PROVE  Step
  BY <1>2, <1>13 DEF NoConsole, DepsReady, FinitFails, Finish, FinishPoisoned, Goto
<1>14. ASSUME NEW m \in Module, SkipModule(m) \/ JoinModule(m)
       PROVE  Step
  BY <1>2, <1>14 DEF SkipModule, JoinModule
<1>15. CASE Spawn
  BY <1>2, <1>15 DEF Spawn
<1>16. CASE UNCHANGED vars
  BY <1>2, <1>16 DEF vars
<1> QED
  BY <1>5, <1>6, <1>7, <1>8, <1>9, <1>10, <1>11, <1>12, <1>13, <1>14, <1>15, <1>16
     DEF Next, Progress, Environment, LoadLoop, Loader

\* Kernel-module loading keeps the contract of LoadContract.tla, for any
\* dependency graph, any number of callers and any failures: a module is
\* inserted at most once, after its dependencies, because somebody needs it,
\* never when it is built in, and a call returns only with all its modules.
THEOREM LoadingImplementsContract == Spec => ImplementsContract
<1>1. ContractInv /\ ContractInv' /\ [Next]_vars => [Contract!Next]_Contract!vars
  BY ContractStep
<1> QED
  BY <1>1, ContractInit, ContractInvInductive, PTL DEF Spec, ImplementsContract, Contract!Spec

-----------------------------------------------------------------------------
(* Post-dependencies.  They are requested with the WaitGroup the module    *)
(* itself was requested with, so that whoever waits for the module waits   *)
(* for them; a request that panics half-way leaves a failed thread behind, *)
(* whose entry in `loading` keeps that WaitGroup for ever.                 *)

\* Nobody holds the WaitGroup of a caller that has come back.
FreedInv == \A c \in Caller : caller[c].pc = "done" => Released(c)

\* The first recursion is for a module asked for with the WaitGroup of the
\* outermost invocation.
FirstInv == Len(stack) > 1 => thread[stack[2].task].orig = stack[1].wg

AbortedInv ==
  \A t \in DOMAIN thread : thread[t].pc = "aborted" =>
    \E u \in DOMAIN thread : thread[u].pc = "failed" /\ thread[u].orig = thread[t].orig

PostWalkInv ==
  \A i \in DOMAIN stack : ~OwnWalk(i) =>
    \A d \in Asked(i) : d \in SetOf(stack[i].todo) \/ Covered(stack[i].wg, d)

PostHeldInv ==
  \A t \in DOMAIN thread : thread[t].pc = "done" =>
    \A d \in SetOf(config.post[thread[t].module]) : Covered(thread[t].orig, d)

PostInv ==
  /\ WaitInv
  /\ EntryInv
  /\ FreedInv
  /\ FirstInv
  /\ AbortedInv
  /\ PostWalkInv
  /\ PostHeldInv

\* How a loader thread moves.
LEMMA PcStep ==
  ASSUME TypeOK, [Next]_vars, NEW t \in DOMAIN thread
  PROVE  \/ thread'[t].pc = thread[t].pc
         \/ /\ SpawnPanics
            /\ \E i \in DOMAIN stack : stack[i].task = t
            /\ thread'[t].pc = IF thread[t].pc = "post" THEN "aborted" ELSE "failed"
         \/ Unlock /\ Top.task = t /\ thread'[t].pc = "done"
         \/ Spawn /\ Top.task = t /\ thread'[t].pc = "deps"
         \/ Loader(t) /\ thread'[t].pc \in {"finit", "lock", "post", "failed"}
         \/ NoConsole(t) /\ thread'[t].pc = "failed"
<1> DEFINE Moves ==
      \/ thread'[t].pc = thread[t].pc
      \/ /\ SpawnPanics
         /\ \E i \in DOMAIN stack : stack[i].task = t
         /\ thread'[t].pc = IF thread[t].pc = "post" THEN "aborted" ELSE "failed"
      \/ Unlock /\ Top.task = t /\ thread'[t].pc = "done"
      \/ Spawn /\ Top.task = t /\ thread'[t].pc = "deps"
      \/ Loader(t) /\ thread'[t].pc \in {"finit", "lock", "post", "failed"}
      \/ NoConsole(t) /\ thread'[t].pc = "failed"
<1>1. thread[t] \in [pc : LoaderState, module : Module, orig : Holder]
  BY ThreadType
<1>2. ASSUME NEW u \in DOMAIN thread, NEW p, Goto(u, p)
      PROVE  thread'[t].pc = IF t = u THEN p ELSE thread[t].pc
  BY <1>1, <1>2 DEF Goto
<1>3. ASSUME NEW u \in DOMAIN thread, Loader(u)
      PROVE  Moves
  BY <1>2, <1>3 DEF Loader, DepsReady, Finit, FinitFails, Finish, FinishPoisoned
<1>4. ASSUME NEW u \in DOMAIN thread, NoConsole(u)
      PROVE  Moves
  BY <1>2, <1>4 DEF NoConsole
<1>5. CASE Unlock
  BY <1>2, <1>5 DEF Unlock, Goto
<1>6. CASE Spawn
  BY <1>1, <1>6 DEF Spawn
<1>7. CASE SpawnPanics
  BY <1>1, <1>7 DEF SpawnPanics
<1>8. ASSUME NEW m \in Module, BeginModule(m)
      PROVE  Moves
  BY <1>8, BeginThread
<1>9. ASSUME thread' = thread
      PROVE  Moves
  BY <1>9
<1>10. ASSUME NEW m \in Module, SkipModule(m) \/ JoinModule(m)
       PROVE  Moves
  BY <1>9, <1>10 DEF SkipModule, JoinModule
<1>11. ASSUME NEW c \in Caller, Lock(c) \/ Wait(c)
       PROVE  Moves
  BY <1>9, <1>11 DEF Lock, Wait
<1>12. CASE LoadForced \/ (\E c \in Uevent, a \in Alias : LoadModalias(c, a)) \/ UNCHANGED vars
  BY <1>9, <1>12 DEF LoadForced, LoadModalias, vars
<1> QED
  BY <1>3, <1>4, <1>5, <1>6, <1>7, <1>8, <1>10, <1>11, <1>12
     DEF Next, Progress, Environment, LoadLoop

\* The threads on the call stack.
LEMMA OnStack ==
  ASSUME TypeOK, StackInv, NEW i \in DOMAIN stack, stack[i].task \in DOMAIN thread
  PROVE  /\ thread[stack[i].task].pc \in {"pending", "post"}
         /\ thread[stack[i].task].pc = "post" => i = 1 /\ stack[i].wg = thread[stack[i].task].orig
BY FrameTypes, ThreadNotCaller DEF StackInv

\* A thread that has ended stays as it is.
LEMMA EndedKept ==
  ASSUME TypeOK, StackInv, [Next]_vars, NEW t \in DOMAIN thread, thread[t].pc \in Ended
  PROVE  thread'[t].pc = thread[t].pc
<1>1. ASSUME NEW i \in DOMAIN stack
      PROVE  stack[i].task # t
  BY <1>1, OnStack DEF Ended
<1>2. CASE Unlock \/ Spawn
  <2>1. Len(stack) \in DOMAIN stack /\ Top = stack[Len(stack)]
    BY <1>2, FrameTypes DEF Unlock, Spawn
  <2>2. Top.task # t
    BY <1>1, <2>1
  <2>3. ~SpawnPanics \/ thread'[t].pc = thread[t].pc
    BY <1>1 DEF SpawnPanics
  <2>4. ~Loader(t) /\ ~NoConsole(t)
    BY DEF Ended, Loader, NoConsole, DepsReady, Finit, FinitFails, Finish, FinishPoisoned
  <2> QED
    BY <2>2, <2>3, <2>4, PcStep
<1>3. CASE ~Unlock /\ ~Spawn
  <2>1. ~Loader(t) /\ ~NoConsole(t)
    BY DEF Ended, Loader, NoConsole, DepsReady, Finit, FinitFails, Finish, FinishPoisoned
  <2> QED
    BY <1>1, <1>3, <2>1, PcStep
<1> QED
  BY <1>2, <1>3

\* The only WaitGroup a step adds to `loading` is the one of the walk.
LEMMA LoadingStep ==
  ASSUME TypeOK, [Next]_vars, NEW m \in Module, NEW h \in loading'[m]
  PROVE  h \in loading[m] \/ (stack # <<>> /\ h = Top.wg)
<1>1. ASSUME NEW k \in Module, JoinModule(k) \/ BeginModule(k)
      PROVE  h \in loading[m] \/ (stack # <<>> /\ h = Top.wg)
  BY <1>1 DEF JoinModule, BeginModule, Visiting, TypeOK
<1>2. ASSUME NEW t \in DOMAIN thread, Finish(t)
      PROVE  h \in loading[m]
  BY <1>2 DEF Finish, TypeOK
<1>3. CASE UNCHANGED loading
  BY <1>3
<1> QED
  BY <1>1, <1>2, <1>3 DEF Next, Progress, Environment, LoadLoop, Loader, vars,
       LoadForced, LoadModalias, Lock, Wait, SkipModule, Spawn,
       SpawnPanics, Unlock, NoConsole, DepsReady, Finit, FinitFails, FinishPoisoned

\* The WaitGroup of a walk is still in use.
LEMMA WalkInUse ==
  ASSUME TypeOK, StackInv, stack # <<>>, NEW c \in Caller, caller[c].pc = "done", Released(c)
  PROVE  Top.wg # c
<1>1. Top = stack[Len(stack)] /\ Len(stack) \in Nat /\ Len(stack) > 0 /\ DOMAIN stack = 1..Len(stack)
  BY FrameTypes
<1>2. CASE Len(stack) > 1
  BY <1>1, <1>2, ThreadNotCaller DEF StackInv
<1>3. CASE Len(stack) = 1
  <2>1. CASE stack[1].task \in Caller
    BY <1>1, <1>3, <2>1, ThreadNotCaller DEF StackInv
  <2>2. CASE stack[1].task \notin Caller
    <3>1. /\ stack[1].task \in DOMAIN thread
          /\ Top.wg = thread[stack[1].task].orig
          /\ thread[stack[1].task].pc = "post"
      BY <1>1, <1>3, <2>2 DEF StackInv
    <3> QED
      BY <3>1 DEF Released, Ended
  <2> QED
    BY <2>1, <2>2
<1> QED
  BY <1>1, <1>2, <1>3

LEMMA FreedStep ==
  ASSUME PostInv, [Next]_vars
  PROVE  FreedInv'
<1> USE DEF PostInv, WaitInv
<1> SUFFICES ASSUME NEW c \in Caller, caller'[c].pc = "done"
             PROVE  Released(c)'
  BY DEF FreedInv
<1>1. CASE caller[c].pc = "done"
  <2>1. Released(c)
    BY <1>1 DEF FreedInv
  <2>2. stack # <<>> => Top.wg # c
    BY <1>1, <2>1, WalkInUse
  <2>3. ASSUME NEW m \in Module
        PROVE  c \notin loading'[m]
    BY <2>1, <2>2, LoadingStep DEF Released
  <2>4. ASSUME NEW t \in DOMAIN thread', thread'[t].orig = c
        PROVE  thread'[t].pc \in Ended
    <3>1. CASE t \in DOMAIN thread
      <4>1. thread[t].orig = c
        BY <2>4, <3>1, Steady
      <4>2. thread[t].pc \in Ended
        BY <2>1, <3>1, <4>1 DEF Released
      <4> QED
        BY <3>1, <4>2, EndedKept
    <3>2. CASE t \notin DOMAIN thread
      <4>1. stack # <<>> /\ thread'[t].orig = Top.wg
        BY <3>2, NewThread DEF BeginModule, Visiting
      <4> QED
        BY <2>2, <2>4, <4>1
    <3> QED
      BY <3>1, <3>2
  <2> QED
    BY <2>3, <2>4 DEF Released
<1>2. CASE caller[c].pc # "done"
  <2>1. Wait(c)
    <3>1. c \in Holder' /\ c \in Through' /\ c \notin Through
      BY <1>2 DEF Through, Holder
    <3>2. \A d \in Caller : \A p : caller' = [caller EXCEPT ![d].pc = p] =>
            IF d = c THEN p = "done" ELSE FALSE
      BY <1>2 DEF TypeOK
    <3>3. \A d \in Caller : \A r : caller' = [caller EXCEPT ![d] = r] =>
            IF d = c THEN r.pc = "done" ELSE FALSE
      BY <1>2 DEF TypeOK
    <3>4. caller' # caller
      BY <1>2
    <3>5. ~LoadForced
      <4> DEFINE r == [pc |-> "lock", want |-> config.force]
      <4>1. r.pc # "done" /\ Main \in Caller
        BY DEF Caller
      <4>2. LoadForced => caller' = [caller EXCEPT ![Main] = r]
        BY DEF LoadForced
      <4> HIDE DEF r
      <4> QED
        BY <3>3, <4>1, <4>2
    <3>6. ASSUME NEW u \in Uevent, NEW a \in Alias, LoadModalias(u, a)
          PROVE  FALSE
      <4> DEFINE matched == IF a \in processed THEN <<>> ELSE config.aliases[a]
                 r == [pc |-> IF matched = <<>> THEN "none" ELSE "lock", want |-> matched]
      <4>1. r.pc # "done" /\ u \in Caller
        BY DEF Caller
      <4>2. caller' = [caller EXCEPT ![u] = r]
        BY <3>6 DEF LoadModalias
      <4> HIDE DEF r
      <4> QED
        BY <3>3, <4>1, <4>2
    <3>7. ASSUME NEW d \in Caller, Lock(d)
          PROVE  FALSE
      BY <3>2, <3>7 DEF Lock
    <3>8. ASSUME NEW d \in Caller, Wait(d)
          PROVE  d = c
      BY <3>2, <3>8 DEF Wait
    <3>9. ~SpawnPanics /\ ~Unlock
      <4>1. \A d \in Caller : caller' # [caller EXCEPT ![d].pc = "failed"]
        BY <3>2
      <4>2. \A d \in Caller : caller' # [caller EXCEPT ![d].pc = "wait"]
        BY <3>2
      <4>3. ~SpawnPanics
        BY <3>4, <4>1 DEF SpawnPanics
      <4>4. ~Unlock
        BY <3>4, <4>2 DEF Unlock
      <4> QED
        BY <4>3, <4>4
    <3>10. ASSUME NEW m \in Module, SkipModule(m) \/ JoinModule(m) \/ BeginModule(m)
           PROVE  FALSE
      BY <3>4, <3>10 DEF SkipModule, JoinModule, BeginModule
    <3>11. ASSUME NEW t \in DOMAIN thread, Loader(t) \/ NoConsole(t)
           PROVE  FALSE
      BY <3>4, <3>11 DEF Loader, NoConsole, DepsReady, Finit, FinitFails, Finish, FinishPoisoned
    <3>12. ~Spawn /\ ~UNCHANGED vars
      BY <3>4 DEF Spawn, vars
    <3> QED
      BY <3>5, <3>6, <3>7, <3>8, <3>9, <3>10, <3>11, <3>12
         DEF Next, Progress, Environment, LoadLoop
  <2> QED
    BY <2>1 DEF Wait, Released
<1> QED
  BY <1>1, <1>2

LEMMA FirstStep ==
  ASSUME PostInv, [Next]_vars
  PROVE  FirstInv'
<1> USE DEF PostInv, WaitInv
<1> SUFFICES ASSUME Len(stack') > 1
             PROVE  thread'[stack'[2].task].orig = stack'[1].wg
  BY DEF FirstInv
<1>1. TypeOK'
  BY TypeStep
<1>2. Len(stack') \in Nat /\ DOMAIN stack' = 1..Len(stack')
  BY <1>1, FrameTypes
<1>3. 1 \in DOMAIN stack' /\ 2 \in DOMAIN stack'
  BY <1>2
<1>4. Len(stack) \in Nat /\ DOMAIN stack = 1..Len(stack)
  BY FrameTypes
<1>5. OldFrame(2) \/ DepsFrame(2)
  BY <1>3, FrameStep DEF LockFrame, FinishFrame
<1>6. Len(stack) > 0
  BY <1>4, <1>5 DEF OldFrame, DepsFrame
<1>7. OldFrame(1)
  BY <1>3, <1>4, <1>6, FrameStep DEF LockFrame, FinishFrame, DepsFrame, Lock, Finish
<1>8. CASE OldFrame(2)
  <2>1. Len(stack) > 1 /\ stack'[2].task = stack[2].task
    BY <1>4, <1>8 DEF OldFrame
  <2>2. stack[2].task \in DOMAIN thread
    BY <1>4, <2>1 DEF StackInv
  <2> QED
    BY <1>7, <2>1, <2>2, Steady DEF FirstInv, OldFrame
<1>9. CASE DepsFrame(2)
  <2>1. PICK m \in Module : BeginModule(m) /\ 2 = Len(stack) + 1 /\ stack'[2].task = Len(thread) + 1
    BY <1>9 DEF DepsFrame
  <2>2. thread'[Len(thread) + 1] = [pc |-> "pending", module |-> m, orig |-> Top.wg]
    BY <2>1, BeginThread
  <2>3. thread'[stack'[2].task].orig = Top.wg
    BY <2>1, <2>2
  <2>4. Top = stack[1]
    BY <1>4, <2>1 DEF Top
  <2> QED
    BY <1>7, <2>3, <2>4 DEF OldFrame
<1> QED
  BY <1>5, <1>8, <1>9

LEMMA AbortedStep ==
  ASSUME PostInv, [Next]_vars
  PROVE  AbortedInv'
<1> USE DEF PostInv, WaitInv
<1> SUFFICES ASSUME NEW t \in DOMAIN thread', thread'[t].pc = "aborted"
             PROVE  \E u \in DOMAIN thread' : thread'[u].pc = "failed" /\ thread'[u].orig = thread'[t].orig
  BY DEF AbortedInv
<1>1. t \in DOMAIN thread
  BY NewThread
<1>2. CASE thread[t].pc = "aborted"
  <2>1. PICK u \in DOMAIN thread : thread[u].pc = "failed" /\ thread[u].orig = thread[t].orig
    BY <1>1, <1>2 DEF AbortedInv
  <2>2. thread'[u].pc = "failed"
    BY <2>1, EndedKept DEF Ended
  <2> QED
    BY <1>1, <2>1, <2>2, Steady
<1>3. CASE thread[t].pc # "aborted"
  <2>1. SpawnPanics /\ thread[t].pc = "post" /\ \E i \in DOMAIN stack : stack[i].task = t
    BY <1>1, <1>3, PcStep
  <2>2. stack[1].task = t /\ stack[1].wg = thread[t].orig
    BY <1>1, <2>1, OnStack
  <2>3. Len(stack) > 1 /\ Len(stack) \in Nat /\ DOMAIN stack = 1..Len(stack)
    BY <2>1, FrameTypes DEF SpawnPanics
  <2> DEFINE u == stack[2].task
  <2>4. u \in DOMAIN thread /\ thread[u].pc = "pending" /\ thread[u].orig = thread[t].orig
    BY <2>2, <2>3 DEF StackInv, FirstInv
  <2>5. thread'[u].pc = "failed"
    <3>1. \E i \in DOMAIN stack : stack[i].task = u
      <4>1. 2 \in DOMAIN stack
        BY <2>3
      <4> QED
        BY <4>1
    <3>2. thread'[u] = [thread[u] EXCEPT !.pc = IF @ = "post" THEN "aborted" ELSE "failed"]
      BY <2>1, <2>4, <3>1 DEF SpawnPanics
    <3>3. thread[u] \in [pc : LoaderState, module : Module, orig : Holder]
      BY <2>4, ThreadType
    <3> QED
      BY <2>4, <3>2, <3>3
  <2> HIDE DEF u
  <2> QED
    BY <1>1, <2>4, <2>5, Steady
<1> QED
  BY <1>2, <1>3

\* A module that is covered stays so.
LEMMA CoveredNext ==
  ASSUME WaitInv, [Next]_vars, NEW h, NEW d \in Module, Covered(h, d)
  PROVE  d \in Satisfied' \/ h \in loading'[d]
BY CoveredKept DEF WaitInv, Covered

LEMMA PostWalkStep ==
  ASSUME PostInv, [Next]_vars
  PROVE  PostWalkInv'
<1> USE DEF PostInv, WaitInv
<1> SUFFICES ASSUME NEW i \in DOMAIN stack', ~OwnWalk(i)', NEW d \in Asked(i)'
             PROVE  d \in SetOf(stack'[i].todo) \/ d \in Satisfied' \/ stack'[i].wg \in loading'[d]
  BY DEF PostWalkInv, Covered
<1>1. CASE OldFrame(i)
  <2>1. /\ i \in DOMAIN stack /\ ~OwnWalk(i) /\ d \in Asked(i)
        /\ stack'[i].wg = stack[i].wg
    BY <1>1, AskedKept DEF OldFrame
  <2>2. d \in Module
    <3>1. stack[i].task \in DOMAIN thread
      BY <2>1, PostTask
    <3>2. config.post[thread[stack[i].task].module] \in Seq(Module)
      BY <3>1, ThreadType, ConfigType
    <3> QED
      BY <2>1, <3>2 DEF Asked, SetOf
  <2>3. CASE Covered(stack[i].wg, d)
    <3>1. PICK h : h = stack[i].wg
      OBVIOUS
    <3>2. d \in Satisfied' \/ h \in loading'[d]
      BY <2>2, <2>3, <3>1, CoveredNext
    <3> QED
      BY <2>1, <3>1, <3>2
  <2>4. CASE d \in SetOf(stack[i].todo)
    <3>1. CASE stack'[i].todo = stack[i].todo
      BY <2>4, <3>1
    <3>2. ASSUME NEW m \in Module, i = Len(stack), Visiting(m),
                 SkipModule(m) \/ JoinModule(m) \/ BeginModule(m),
                 stack'[i].todo = Tail(stack[i].todo)
          PROVE  d \in SetOf(stack'[i].todo) \/ d \in Satisfied' \/ stack'[i].wg \in loading'[d]
      <4>1. /\ Top = stack[i] /\ stack[i].todo \in Seq(Module) /\ stack[i].todo # <<>>
            /\ m = Head(stack[i].todo)
        BY <2>1, <3>2, FrameTypes DEF Visiting
      <4>2. d = m \/ d \in SetOf(stack'[i].todo)
        BY <2>4, <3>2, <4>1, SetOfTail
      <4>3. m \in Satisfied' \/ Top.wg \in loading'[m]
        <5>1. CASE SkipModule(m)
          BY <5>1, LoadedStep DEF SkipModule, AlreadyThere, TypeOK, Satisfied
        <5>2. CASE JoinModule(m) \/ BeginModule(m)
          BY <5>2 DEF JoinModule, BeginModule, TypeOK
        <5> QED
          BY <3>2, <5>1, <5>2
      <4> QED
        BY <2>1, <4>1, <4>2, <4>3
    <3> QED
      BY <1>1, <3>1, <3>2 DEF OldFrame
  <2> QED
    BY <2>1, <2>3, <2>4 DEF PostWalkInv
<1>2. CASE LockFrame(i)
  BY <1>2 DEF LockFrame, OwnWalk
<1>3. CASE FinishFrame(i)
  <2>1. PICK t \in DOMAIN thread : stack'[i].task = t /\ stack'[i].todo = config.post[thread[t].module]
    BY <1>3 DEF FinishFrame
  <2> QED
    BY <2>1, Steady DEF Asked
<1>4. CASE DepsFrame(i)
  <2>1. i = Len(stack) + 1 /\ Len(stack) \in Nat /\ Len(stack) > 0
    BY <1>4, FrameTypes DEF DepsFrame, BeginModule, Visiting
  <2> QED
    BY <2>1 DEF OwnWalk
<1> QED
  BY <1>1, <1>2, <1>3, <1>4, FrameStep

LEMMA PostHeldStep ==
  ASSUME PostInv, [Next]_vars
  PROVE  PostHeldInv'
<1> USE DEF PostInv, WaitInv
<1> SUFFICES ASSUME NEW t \in DOMAIN thread', thread'[t].pc = "done",
                    NEW d \in SetOf(config'.post[thread'[t].module])
             PROVE  d \in Satisfied' \/ thread'[t].orig \in loading'[d]
  BY DEF PostHeldInv, Covered
<1>1. t \in DOMAIN thread
  BY NewThread
<1>2. d \in SetOf(config.post[thread[t].module]) /\ thread'[t].orig = thread[t].orig
  BY <1>1, Steady
<1>3. d \in Module
  <2>1. config.post[thread[t].module] \in Seq(Module)
    BY <1>1, ThreadType, ConfigType
  <2> QED
    BY <1>2, <2>1 DEF SetOf
<1>4. Covered(thread[t].orig, d)
  <2>1. CASE thread[t].pc = "done"
    BY <1>1, <1>2, <2>1 DEF PostHeldInv
  <2>2. CASE thread[t].pc # "done"
    <3>1. Unlock /\ Top.task = t
      BY <1>1, <2>2, PcStep
    <3>2. /\ Len(stack) = 1 /\ 1 \in DOMAIN stack /\ Top = stack[1] /\ stack[1].todo = <<>>
      BY <3>1, FrameTypes DEF Unlock
    <3>3. ~OwnWalk(1)
      BY <1>1, <3>1, <3>2, ThreadNotCaller DEF OwnWalk
    <3>4. stack[1].wg = thread[t].orig /\ Asked(1) = SetOf(config.post[thread[t].module])
      BY <3>1, <3>2, <3>3, PostTask DEF Asked
    <3>5. SetOf(<<>>) = {}
      BY DEF SetOf
    <3> QED
      BY <1>2, <3>2, <3>3, <3>4, <3>5 DEF PostWalkInv
  <2> QED
    BY <2>1, <2>2
<1>5. PICK h : h = thread[t].orig
  OBVIOUS
<1>6. d \in Satisfied' \/ h \in loading'[d]
  BY <1>3, <1>4, <1>5, CoveredNext
<1> QED
  BY <1>2, <1>5, <1>6

LEMMA PostInvInductive == Spec => []PostInv
<1>1. Init => FreedInv /\ FirstInv /\ AbortedInv /\ PostWalkInv /\ PostHeldInv
  BY DEF Init, FreedInv, FirstInv, AbortedInv, PostWalkInv, PostHeldInv
<1>2. PostInv /\ [Next]_vars => FreedInv' /\ FirstInv' /\ AbortedInv' /\ PostWalkInv' /\ PostHeldInv'
  BY FreedStep, FirstStep, AbortedStep, PostWalkStep, PostHeldStep
<1> QED
  BY <1>1, <1>2, WaitInvInductive, EntryInvInductive, PTL DEF Spec, PostInv

\* A caller that comes back from ModWg::wait has, besides its modules, the
\* post-dependencies of every module it was the first to ask for, and those
\* of the post-dependencies: load_module hands on orig_wg.
THEOREM PostDependenciesAwaited == Spec => []PostDepsAwaited
<1>1. PostInv => PostDepsAwaited
  <2> SUFFICES ASSUME PostInv, NEW c \in Caller, NEW t \in DOMAIN thread,
                      caller[c].pc = "done", thread[t].orig = c
               PROVE  /\ thread[t].pc = "done"
                      /\ SetOf(config.post[thread[t].module]) \subseteq Satisfied
    BY DEF PostDepsAwaited
  <2> USE DEF PostInv, WaitInv
  <2>1. Released(c)
    BY DEF FreedInv
  <2>2. ASSUME NEW u \in DOMAIN thread, thread[u].pc = "failed"
        PROVE  thread[u].orig # c
    <3>1. thread[u].orig \in loading[thread[u].module] /\ thread[u].module \in Module
      BY <2>2, ThreadType DEF EntryInv, Answering
    <3> QED
      BY <2>1, <3>1 DEF Released
  <2>3. thread[t].pc = "done"
    <3>1. thread[t].pc \in Ended
      BY <2>1 DEF Released
    <3>2. thread[t].pc # "failed" /\ thread[t].pc # "aborted"
      BY <2>2 DEF AbortedInv
    <3> QED
      BY <3>1, <3>2 DEF Ended
  <2>4. ASSUME NEW d \in SetOf(config.post[thread[t].module])
        PROVE  d \in Satisfied
    <3>1. config.post[thread[t].module] \in Seq(Module)
      BY ThreadType, ConfigType
    <3>2. d \in Module
      BY <3>1 DEF SetOf
    <3> QED
      BY <2>1, <2>3, <3>2 DEF PostHeldInv, Covered, Released
  <2> QED
    BY <2>3, <2>4
<1> QED
  BY <1>1, PostInvInductive, PTL
=============================================================================
