------------------------- MODULE UdevListenerProofs -------------------------
(***************************************************************************)
(* Theorems about UdevListener, for any number of events and any capacity  *)
(* of the socket: types, that recv never finds the socket empty, and that  *)
(* the listener implements EventFeed.                                      *)
(***************************************************************************)
EXTENDS UdevListener, SequenceTheorems, TLAPS

(* Sequences.                                                              *)

LEMMA Elements ==
  ASSUME NEW S, NEW s \in Seq(S)
  PROVE  /\ Len(s) \in Nat
         /\ DOMAIN s = 1..Len(s)
         /\ \A i \in DOMAIN s : s[i] \in S
  OBVIOUS

LEMMA TailElements ==
  ASSUME NEW S, NEW s \in Seq(S), s # <<>>
  PROVE  /\ Head(s) \in S
         /\ Head(s) = s[1]
         /\ Tail(s) \in Seq(S)
         /\ Len(s) \in Nat \ {0}
         /\ Len(Tail(s)) = Len(s) - 1
         /\ \A i \in 1..Len(s) - 1 : Tail(s)[i] = s[i + 1]
  OBVIOUS

LEMMA AppendElements ==
  ASSUME NEW S, NEW s \in Seq(S), NEW e \in S
  PROVE  /\ Append(s, e) \in Seq(S)
         /\ Len(s) \in Nat
         /\ Len(Append(s, e)) = Len(s) + 1
         /\ Append(s, e)[Len(s) + 1] = e
         /\ \A i \in 1..Len(s) : Append(s, e)[i] = s[i]
  OBVIOUS

LEMMA EmptyElements == \A S : <<>> \in Seq(S)
  OBVIOUS

LEMMA SignalledType ==
  ASSUME ready \in Seq(Source), NEW source \in Source
  PROVE  Signalled(source) \in Seq(Source)
  BY DEF Signalled

-----------------------------------------------------------------------------
(* Types.                                                                  *)

LEMMA TypeInit == Init => TypeOK
<1>1. <<>> \in Seq(Source) /\ <<>> \in Seq(Event) /\ <<>> \in Seq(Event \ Bad)
  BY EmptyElements
<1>2. 0 \in 0..MaxEvents
  BY ListenerAssumption
<1> QED BY <1>1, <1>2 DEF Init, TypeOK

LEMMA TypeNext == TypeOK /\ [Next]_vars => TypeOK'
<1> SUFFICES ASSUME TypeOK, [Next]_vars PROVE TypeOK'
  OBVIOUS
<1> USE ListenerAssumption
<1>a. CASE UNCHANGED vars
  BY <1>a DEF TypeOK, Over, vars, loopVars, socketVars
<1>b. CASE Listen
  BY <1>b DEF Listen, TypeOK, Over, loopVars, socketVars
<1>c. CASE HearBack
  BY <1>c DEF HearBack, TypeOK, Over, loopVars, socketVars
<1>d. CASE Join
  BY <1>d DEF Join, TypeOK, Over, loopVars, socketVars
<1>e. CASE Stop
  <2>1. Signalled("wake") \in Seq(Source)
    BY SignalledType DEF TypeOK, Source
  <2> QED BY <1>e, <2>1 DEF Stop, TypeOK, Over, socketVars
<1>f. CASE StopUnwoken
  BY <1>f DEF StopUnwoken, TypeOK, Over, loopVars, socketVars
<1>g. CASE SetUp
  BY <1>g DEF SetUp, TypeOK, Over, loopVars, socketVars
<1>h. CASE ConsolePanics
  BY <1>h DEF ConsolePanics, TypeOK, Over, loopVars, socketVars
<1>i. CASE SetUpFails
  BY <1>i DEF SetUpFails, TypeOK, Over, loopVars, socketVars
<1>j. CASE Announce
  BY <1>j DEF Announce, TypeOK, Over, loopVars, socketVars
<1>k. CASE Bind
  BY <1>k DEF Bind, TypeOK, Over, loopVars, socketVars
<1>l. CASE Register
  <2>1. Signalled("socket") \in Seq(Source)
    BY SignalledType DEF TypeOK, Source
  <2> QED BY <1>l, <2>1 DEF Register, TypeOK, Over, socketVars
<1>m. CASE SocketPanics
  BY <1>m, EmptyElements DEF SocketPanics, Leave, TypeOK, Over, loopVars
<1>n. CASE Poll
  BY <1>n, EmptyElements DEF Poll, TypeOK, Over, socketVars
<1>o. CASE Handle
  <2>1. /\ Tail(batch) \in Seq(Source)
        /\ Tail(queue) \in Seq(Event)
        /\ Head(queue) \in Event \ Bad
    BY <1>o, TailElements DEF Handle, At, TypeOK
  <2>2. Append(handled, Head(queue)) \in Seq(Event \ Bad)
    BY <2>1, AppendElements DEF TypeOK
  <2> QED BY <1>o, <2>1, <2>2 DEF Handle, TypeOK
<1>p. CASE Reject
  <2>1. Tail(batch) \in Seq(Source) /\ Tail(queue) \in Seq(Event)
    BY <1>p, TailElements DEF Reject, At, TypeOK
  <2> QED BY <1>p, <2>1 DEF Reject, TypeOK
<1>q. CASE RecvPanics
  BY <1>q, EmptyElements DEF RecvPanics, Leave, TypeOK, Over, loopVars
<1>r. CASE SpawnPanics
  BY <1>r, EmptyElements DEF SpawnPanics, Leave, TypeOK, Over, loopVars
<1>s. CASE Woken
  BY <1>s, EmptyElements DEF Woken, Leave, TypeOK, Over, loopVars
<1>t. CASE PollAgain
  BY <1>t DEF PollAgain, TypeOK, Over, loopVars, socketVars
<1>u. CASE Quit
  BY <1>u, EmptyElements DEF Quit, Leave, TypeOK, Over, loopVars
<1>v. CASE Kernel
  <2>1. emitted + 1 \in Event /\ emitted' = emitted + 1
    BY <1>v DEF Kernel, EmitUnheard, EmitQueued, EmitOverrun, EmitDropped, Emit,
      TypeOK, Event
  <2>2. queue' \in Seq(Event)
    <3>1. Append(queue, emitted + 1) \in Seq(Event)
      BY <2>1, AppendElements DEF TypeOK
    <3> QED BY <1>v, <3>1 DEF Kernel, EmitUnheard, EmitQueued, EmitOverrun,
      EmitDropped, TypeOK, socketVars
  <2>3. ready' \in Seq(Source)
    <3>1. Signalled("socket") \in Seq(Source)
      BY SignalledType DEF TypeOK, Source
    <3> QED BY <1>v, <3>1 DEF Kernel, EmitUnheard, EmitQueued, EmitOverrun,
      EmitDropped, ReportSocket, TypeOK
  <2>4. overrun' \in BOOLEAN
    BY <1>v DEF Kernel, EmitUnheard, EmitQueued, EmitOverrun, EmitDropped, TypeOK,
      socketVars
  <2> QED BY <1>v, <2>1, <2>2, <2>3, <2>4 DEF Kernel, EmitUnheard, EmitQueued,
      EmitOverrun, EmitDropped, Emit, TypeOK, Event
<1> QED
  BY <1>a, <1>b, <1>c, <1>d, <1>e, <1>f, <1>g, <1>h, <1>i, <1>j, <1>k, <1>l, <1>m,
     <1>n, <1>o, <1>p, <1>q, <1>r, <1>s, <1>t, <1>u, <1>v
  DEF Next, MainThread, ListenerThread, Failure

\* Every variable of the listener (udev.rs) keeps its type, and handler
\* threads are given parsed events only.
THEOREM ListenerTypeCorrect == Spec => []TypeOK
<1>1. Init => TypeOK BY TypeInit
<1>2. TypeOK /\ [Next]_vars => TypeOK' BY TypeNext
<1> QED BY <1>1, <1>2, PTL DEF Spec

-----------------------------------------------------------------------------
(* The socket is never read in vain.                                       *)

Reported(s) == \E i \in DOMAIN s : s[i] = "socket"

NoTwice(s) == \A i, j \in DOMAIN s : s[i] = s[j] => i = j

\* A report of the socket, made or still to be made, stands for a packet of
\* its own (unless the socket has an overrun to report).
SocketInv ==
  /\ NoTwice(ready) /\ NoTwice(batch)
  /\ listener \notin Over /\ ~Registered => ~Reported(ready)
  /\ listener \notin Over \cup {"batch"} => batch = <<>>
  /\ Registered /\ ~overrun =>
       /\ Reported(ready) => Len(queue) > 0
       /\ Reported(batch) => Len(queue) > 0
       /\ Reported(ready) /\ Reported(batch) => Len(queue) > 1

LEMMA SignalledReports ==
  ASSUME ready \in Seq(Source), NoTwice(ready), NEW source \in Source
  PROVE  /\ NoTwice(Signalled(source))
         /\ source = "wake" => (Reported(Signalled(source)) <=> Reported(ready))
<1>1. CASE \E i \in DOMAIN ready : ready[i] = source
  BY <1>1 DEF Signalled
<1>2. CASE \A i \in DOMAIN ready : ready[i] # source
  <2>1. Signalled(source) = Append(ready, source)
    BY <1>2 DEF Signalled
  <2>2. /\ DOMAIN ready = 1..Len(ready)
        /\ DOMAIN Append(ready, source) = 1..Len(ready) + 1
        /\ Len(ready) \in Nat
        /\ Append(ready, source)[Len(ready) + 1] = source
        /\ \A i \in 1..Len(ready) : Append(ready, source)[i] = ready[i]
    OBVIOUS
  <2>3. NoTwice(Append(ready, source))
    BY <1>2, <2>2 DEF NoTwice
  <2>4. source = "wake" => (Reported(Append(ready, source)) <=> Reported(ready))
    BY <2>2 DEF Reported
  <2> QED BY <2>1, <2>3, <2>4
<1> QED BY <1>1, <1>2

\* Once the head of a batch is dealt with, the rest has no second report of it.
LEMMA TailReports ==
  ASSUME batch \in Seq(Source), batch # <<>>, NoTwice(batch), Head(batch) = "socket"
  PROVE  NoTwice(Tail(batch)) /\ ~Reported(Tail(batch))
<1>1. /\ DOMAIN batch = 1..Len(batch)
      /\ DOMAIN Tail(batch) = 1..Len(batch) - 1
      /\ Len(batch) \in Nat \ {0}
      /\ batch[1] = "socket"
      /\ \A i \in 1..Len(batch) - 1 : Tail(batch)[i] = batch[i + 1]
  BY TailElements
<1> QED BY <1>1 DEF NoTwice, Reported

LEMMA EmptyReports == NoTwice(<<>>) /\ ~Reported(<<>>)
  BY DEF NoTwice, Reported

\* There is no listener thread before listen() spawns it.
StartInv == main = "init" => listener = "none"

LEMMA StartNext == StartInv /\ [Next]_vars => StartInv'
<1> SUFFICES ASSUME StartInv, [Next]_vars PROVE StartInv'
  OBVIOUS
<1>1. CASE MainThread \/ Stop
  BY <1>1 DEF MainThread, Listen, HearBack, Join, Stop, StartInv
<1>2. CASE ListenerThread
  BY <1>2 DEF ListenerThread, SetUp, Announce, Bind, Register, Poll, Handle, Reject,
    RecvPanics, Woken, PollAgain, Quit, Leave, At, StartInv
<1>3. CASE Failure
  BY <1>3 DEF Failure, StopUnwoken, ConsolePanics, SetUpFails, SocketPanics, SpawnPanics,
    Leave, At, StartInv
<1>4. CASE Kernel
  BY <1>4 DEF Kernel, EmitUnheard, EmitQueued, EmitOverrun, EmitDropped, Emit, StartInv
<1>5. CASE UNCHANGED vars
  BY <1>5 DEF vars, StartInv
<1> QED BY <1>1, <1>2, <1>3, <1>4, <1>5 DEF Next

LEMMA SocketInit == Init => SocketInv
  BY EmptyReports DEF Init, SocketInv, Registered

LEMMA SocketNext == TypeOK /\ StartInv /\ SocketInv /\ [Next]_vars => SocketInv'
<1> SUFFICES ASSUME TypeOK, StartInv, SocketInv, [Next]_vars PROVE SocketInv'
  OBVIOUS
<1>1. /\ ready \in Seq(Source) /\ batch \in Seq(Source) /\ queue \in Seq(Event)
      /\ Len(queue) \in Nat
  BY DEF TypeOK
\* Steps that leave the reports, the batch and the socket alone.
<1>2. ASSUME ready' = ready, batch' = batch, queue' = queue, overrun' = overrun,
             \/ listener' = listener
             \/ ~Registered /\ ~Registered' /\ listener \notin Over
      PROVE  SocketInv'
  <2>1. CASE listener' = listener
    BY <1>2, <2>1 DEF SocketInv, Reported, NoTwice, Registered
  <2>2. CASE ~Registered /\ ~Registered' /\ listener \notin Over
    BY <1>2, <2>2 DEF SocketInv, Reported, NoTwice, Registered, Over
  <2> QED BY <1>2, <2>1, <2>2
\* Steps that end the thread.
<1>3. ASSUME ready' = ready, batch' = batch, listener' \in Over
      PROVE  SocketInv'
  BY <1>3 DEF SocketInv, Reported, NoTwice, Registered, Over
<1>4. CASE UNCHANGED vars
  BY <1>2, <1>4 DEF vars
<1>5. CASE HearBack \/ Join \/ StopUnwoken
  BY <1>2, <1>5 DEF HearBack, Join, StopUnwoken, loopVars, socketVars
<1>6. CASE Listen
  BY <1>2, <1>6 DEF Listen, loopVars, socketVars, StartInv, Registered, Over
<1>7. CASE SetUp \/ Announce \/ Bind
  BY <1>2, <1>7 DEF SetUp, Announce, Bind, loopVars, socketVars, Registered, Over
<1>8. CASE ConsolePanics \/ SetUpFails \/ SocketPanics \/ RecvPanics \/ SpawnPanics
             \/ Woken \/ Quit
  BY <1>3, <1>8 DEF ConsolePanics, SetUpFails, SocketPanics, RecvPanics, SpawnPanics,
    Woken, Quit, Leave, loopVars, Over
<1>9. CASE Stop
  <2>1. NoTwice(ready') /\ (Reported(ready') <=> Reported(ready))
    BY <1>1, <1>9, SignalledReports DEF Stop, SocketInv, Source
  <2> QED BY <1>9, <2>1 DEF Stop, SocketInv, socketVars, Registered, NoTwice, Reported
<1>10. CASE Register
  <2>1. NoTwice(ready')
    BY <1>1, <1>10, SignalledReports DEF Register, SocketInv, Source
  <2>2. ~overrun' => (Reported(ready') => Len(queue') > 0)
    <3>1. CASE queue = <<>> /\ ~overrun
      BY <1>10, <3>1 DEF Register, SocketInv, Reported, Registered, Over
    <3>2. CASE queue # <<>> \/ overrun
      BY <1>1, <1>10, <3>2 DEF Register, socketVars
    <3> QED BY <3>1, <3>2
  <2>3. batch' = <<>>
    BY <1>10 DEF Register, SocketInv, Over
  <2> QED BY <1>10, <2>1, <2>2, <2>3, EmptyReports DEF Register, SocketInv, Registered, Over
<1>11. CASE Poll
  <2>1. batch = <<>>
    BY <1>11 DEF Poll, SocketInv, Over
  <2> QED BY <1>11, <2>1, EmptyReports DEF Poll, SocketInv, Registered, socketVars,
    NoTwice, Reported
<1>12. CASE Handle \/ Reject
  <2>1. NoTwice(batch') /\ ~Reported(batch') /\ Reported(batch)
    <3>1. batch # <<>> /\ Head(batch) = "socket" /\ batch' = Tail(batch)
      BY <1>12 DEF Handle, Reject, At
    <3>2. NoTwice(Tail(batch)) /\ ~Reported(Tail(batch))
      BY <1>1, <3>1, TailReports DEF SocketInv
    <3>3. Reported(batch)
      BY <1>1, <3>1, TailElements DEF Reported
    <3> QED BY <3>1, <3>2, <3>3 DEF NoTwice, Reported
  <2>2. Len(queue') = Len(queue) - 1
    BY <1>1, <1>12, TailElements DEF Handle, Reject
  <2> QED BY <1>1, <1>12, <2>1, <2>2 DEF Handle, Reject, At, SocketInv, Registered,
    NoTwice, Reported, Over
<1>13. CASE PollAgain
  BY <1>13, EmptyReports DEF PollAgain, SocketInv, Registered, Over, loopVars, socketVars,
    NoTwice, Reported
<1>14. CASE EmitUnheard
  BY <1>2, <1>14 DEF EmitUnheard, Emit, socketVars
<1>15. CASE EmitDropped
  BY <1>2, <1>15 DEF EmitDropped, Emit, socketVars
<1>16. CASE EmitQueued \/ EmitOverrun
  <2>1. NoTwice(ready') /\ (~Registered => ready' = ready)
    BY <1>1, <1>16, SignalledReports DEF EmitQueued, EmitOverrun, ReportSocket, SocketInv,
      Source
  <2>2. CASE EmitQueued
    <3>1. Len(queue') = Len(queue) + 1
      BY <1>1, <2>2 DEF EmitQueued, Emit, TypeOK
    <3> QED BY <1>1, <2>1, <2>2, <3>1 DEF EmitQueued, Emit, SocketInv, Registered, NoTwice,
      Reported, Over
  <2>3. CASE EmitOverrun
    BY <2>1, <2>3 DEF EmitOverrun, Emit, SocketInv, Registered, NoTwice, Reported, Over
  <2> QED BY <1>16, <2>2, <2>3
<1> QED
  BY <1>4, <1>5, <1>6, <1>7, <1>8, <1>9, <1>10, <1>11, <1>12, <1>13, <1>14, <1>15, <1>16
  DEF Next, MainThread, ListenerThread, Failure, Kernel

LEMMA SocketSuffices == TypeOK /\ SocketInv => NoEmptyRecv
<1> SUFFICES ASSUME TypeOK, SocketInv, At("socket") PROVE queue # <<>> \/ overrun
  BY DEF NoEmptyRecv
<1>1. Reported(batch)
  BY TailElements DEF TypeOK, At, Reported
<1> QED BY <1>1 DEF SocketInv, Registered, At, TypeOK

\* recv().unwrap() (udev.rs:94-101) never meets a socket with nothing to read,
\* whatever arrives between a report and the recv.
THEOREM RecvFindsPacket == Spec => []NoEmptyRecv
<1>1. Init => TypeOK /\ StartInv /\ SocketInv
  BY TypeInit, SocketInit DEF Init, StartInv
<1>2. TypeOK /\ StartInv /\ SocketInv /\ [Next]_vars => (TypeOK /\ StartInv /\ SocketInv)'
  BY TypeNext, StartNext, SocketNext
<1>3. TypeOK /\ SocketInv => NoEmptyRecv BY SocketSuffices
<1> QED BY <1>1, <1>2, <1>3, PTL DEF Spec

-----------------------------------------------------------------------------
(* The listener implements the event feed.                                 *)

\* What has been handled and what is queued are in emission order, the
\* former before the latter; a thread that was joined is over.
FeedInv ==
  /\ \A i \in DOMAIN queue : queue[i] \leq emitted
  /\ \A i, j \in DOMAIN queue : i < j => queue[i] < queue[j]
  /\ \A i \in DOMAIN handled, j \in DOMAIN queue : handled[i] < queue[j]
  /\ \A i \in DOMAIN handled : handled[i] \leq emitted
  /\ main = "stopped" => listener \in Over

LEMMA FeedInit == Init => FeedInv
  BY DEF Init, FeedInv

LEMMA FeedNext == TypeOK /\ FeedInv /\ [Next]_vars => FeedInv'
<1> SUFFICES ASSUME TypeOK, FeedInv, [Next]_vars PROVE FeedInv'
  OBVIOUS
<1>1. /\ queue \in Seq(Event) /\ handled \in Seq(Event \ Bad) /\ emitted \in Nat
      /\ emitted' \in Nat /\ emitted \leq emitted' /\ Event \subseteq Nat
  <2>1. TypeOK' BY TypeNext
  <2>2. emitted' = emitted \/ emitted' = emitted + 1
    BY DEF Next, MainThread, ListenerThread, Failure, Kernel, Listen, HearBack, Join, Stop,
      StopUnwoken, SetUp, ConsolePanics, SetUpFails, Announce, Bind, Register, SocketPanics,
      Poll, Handle, Reject, RecvPanics, SpawnPanics, Woken, PollAgain, Quit, EmitUnheard,
      EmitQueued, EmitOverrun, EmitDropped, Emit, vars
  <2> QED BY <2>2, ListenerAssumption DEF TypeOK, Event
<1>n. /\ DOMAIN queue = 1..Len(queue) /\ DOMAIN handled = 1..Len(handled)
      /\ Len(queue) \in Nat /\ Len(handled) \in Nat
      /\ \A i \in DOMAIN queue : queue[i] \in Nat
      /\ \A i \in DOMAIN handled : handled[i] \in Nat
  <2>1. /\ DOMAIN queue = 1..Len(queue) /\ Len(queue) \in Nat
        /\ \A i \in DOMAIN queue : queue[i] \in Event
    BY <1>1, Elements
  <2>2. /\ DOMAIN handled = 1..Len(handled) /\ Len(handled) \in Nat
        /\ \A i \in DOMAIN handled : handled[i] \in Event \ Bad
    BY <1>1, Elements
  <2> QED BY <1>1, <2>1, <2>2
\* Steps that leave the events alone, but for those a closed socket loses.
<1>2. ASSUME queue' = queue \/ queue' = <<>>, handled' = handled,
             main' = "stopped" => listener' \in Over
      PROVE  FeedInv'
  <2>1. \A e \in Nat : e \leq emitted => e \leq emitted'
    BY <1>1
  <2>2. CASE queue' = queue
    BY <1>2, <1>n, <2>1, <2>2 DEF FeedInv
  <2>3. CASE queue' = <<>>
    BY <1>2, <1>n, <2>1, <2>3 DEF FeedInv
  <2> QED BY <1>2, <2>2, <2>3
<1>3. CASE UNCHANGED vars
  BY <1>2, <1>3 DEF vars, FeedInv
<1>4. CASE MainThread \/ Stop \/ StopUnwoken
  BY <1>2, <1>4 DEF MainThread, Listen, HearBack, Join, Stop, StopUnwoken, socketVars
<1>5. CASE SetUp \/ Announce \/ Bind \/ Register \/ Poll \/ PollAgain
  BY <1>2, <1>5 DEF SetUp, Announce, Bind, Register, Poll, PollAgain, socketVars, FeedInv, Over
<1>6. CASE ConsolePanics \/ SetUpFails \/ SocketPanics \/ RecvPanics \/ SpawnPanics
             \/ Woken \/ Quit
  BY <1>2, <1>6 DEF ConsolePanics, SetUpFails, SocketPanics, RecvPanics, SpawnPanics,
    Woken, Quit, Leave, socketVars, Over
<1>7. CASE EmitUnheard \/ EmitOverrun \/ EmitDropped
  BY <1>2, <1>7 DEF EmitUnheard, EmitOverrun, EmitDropped, Emit, socketVars, FeedInv
<1>8. CASE EmitQueued
  <2>1. /\ queue' = Append(queue, emitted + 1) /\ handled' = handled
        /\ emitted' = emitted + 1 /\ main' = main /\ listener' = listener
    BY <1>8 DEF EmitQueued, Emit
  <2>2. /\ DOMAIN queue' = 1..Len(queue) + 1
        /\ queue'[Len(queue) + 1] = emitted + 1
        /\ \A i \in 1..Len(queue) : queue'[i] = queue[i]
    BY <1>1, <2>1
  <2> QED BY <1>1, <1>n, <2>1, <2>2 DEF FeedInv
<1>9. CASE Handle \/ Reject
  <2>1. /\ queue' = Tail(queue) /\ queue # <<>> /\ emitted' = emitted
        /\ main' = main /\ listener' = listener
        /\ handled' = handled \/ handled' = Append(handled, Head(queue))
    BY <1>9 DEF Handle, Reject
  <2>2. /\ DOMAIN queue' = 1..Len(queue) - 1
        /\ Len(queue) \in Nat \ {0}
        /\ Head(queue) = queue[1]
        /\ \A i \in 1..Len(queue) - 1 : queue'[i] = queue[i + 1]
    BY <1>1, <2>1, TailElements
  <2>3. \A i \in DOMAIN handled' :
             \/ i \in DOMAIN handled /\ handled'[i] = handled[i]
             \/ handled'[i] = queue[1]
    <3>1. CASE handled' = handled
      BY <3>1
    <3>2. CASE handled' = Append(handled, Head(queue))
      BY <1>1, <1>n, <2>2, <3>2
    <3> QED BY <2>1, <3>1, <3>2
  <2>4. /\ \A i \in DOMAIN queue' : queue'[i] \leq emitted
        /\ \A i, j \in DOMAIN queue' : i < j => queue'[i] < queue'[j]
    <3>1. \A i \in DOMAIN queue' : i + 1 \in DOMAIN queue /\ queue'[i] = queue[i + 1]
      BY <1>n, <2>2
    <3>2. \A i, j \in DOMAIN queue' : i < j => i + 1 < j + 1
      BY <2>2
    <3> QED BY <3>1, <3>2 DEF FeedInv
  <2>5. ASSUME NEW i \in DOMAIN handled' PROVE handled'[i] \leq emitted
    BY <1>n, <2>2, <2>3, <2>5 DEF FeedInv
  <2>6. ASSUME NEW i \in DOMAIN handled', NEW j \in DOMAIN queue'
        PROVE  handled'[i] < queue'[j]
    <3>1. j + 1 \in DOMAIN queue /\ 1 \in DOMAIN queue /\ 1 < j + 1
      BY <1>n, <2>2, <2>6
    <3>2. queue'[j] = queue[j + 1] /\ queue[1] < queue[j + 1]
      BY <2>2, <2>6, <3>1 DEF FeedInv
    <3> QED BY <2>3, <2>6, <3>1, <3>2 DEF FeedInv
  <2> QED BY <2>1, <2>4, <2>5, <2>6 DEF FeedInv
<1> QED
  BY <1>3, <1>4, <1>5, <1>6, <1>7, <1>8, <1>9 DEF Next, ListenerThread, Failure, Kernel

LEMMA FeedStep ==
  TypeOK /\ FeedInv /\ [Next]_vars => [Feed!Next]_(Feed!fvars)
<1> SUFFICES ASSUME TypeOK, FeedInv, Next PROVE Feed!Next \/ UNCHANGED Feed!fvars
  BY DEF vars, Feed!fvars
<1>1. CASE Handle
  <2> DEFINE e == Head(queue)
  <2>1. /\ DOMAIN queue = 1..Len(queue) /\ 1 \in DOMAIN queue /\ e = queue[1]
        /\ e \in Nat \ {0}
    BY <1>1, TailElements, ListenerAssumption DEF Handle, TypeOK, Event
  <2>2. e \in 1..emitted
    BY <2>1 DEF FeedInv, TypeOK
  <2>3. main # "stopped"
    BY <1>1 DEF Handle, At, FeedInv, Over
  <2>4. Feed!Deliver(e)
    BY <1>1, <2>1, <2>3 DEF Handle, Feed!Deliver, FeedInv
  <2> QED BY <2>2, <2>4 DEF Feed!Next
<1>2. CASE Kernel
  BY <1>2 DEF Kernel, EmitUnheard, EmitQueued, EmitOverrun, EmitDropped, Emit,
    Feed!Next, Feed!Emit
<1>3. CASE Join
  BY <1>3 DEF Join, Feed!Next, Feed!Stop
<1>4. CASE Listen \/ HearBack \/ Stop \/ StopUnwoken
  BY <1>4 DEF Listen, HearBack, Stop, StopUnwoken, Feed!fvars
<1>5. CASE SetUp \/ Announce \/ Bind \/ Register \/ Poll \/ Reject \/ PollAgain
  BY <1>5 DEF SetUp, Announce, Bind, Register, Poll, Reject, PollAgain, Feed!fvars
<1>6. CASE ConsolePanics \/ SetUpFails \/ SocketPanics \/ RecvPanics \/ SpawnPanics
             \/ Woken \/ Quit
  BY <1>6 DEF ConsolePanics, SetUpFails, SocketPanics, RecvPanics, SpawnPanics,
    Woken, Quit, Feed!fvars
<1> QED
  BY <1>1, <1>2, <1>3, <1>4, <1>5, <1>6 DEF Next, MainThread, ListenerThread, Failure

\* UdevListener implements EventFeed: each event has at most one handler
\* thread, in emission order, and none after stop() has returned.
THEOREM ListenerImplementsFeed == Spec => ImplementsFeed
<1>1. Init => Feed!Init
  BY DEF Init, Feed!Init
<1>2. Init => TypeOK /\ FeedInv
  BY TypeInit, FeedInit
<1>3. TypeOK /\ FeedInv /\ [Next]_vars => (TypeOK /\ FeedInv)'
  BY TypeNext, FeedNext
<1> QED BY <1>1, <1>2, <1>3, FeedStep, PTL DEF Spec, ImplementsFeed, Feed!Spec
=============================================================================
