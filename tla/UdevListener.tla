---------------------------- MODULE UdevListener ----------------------------
(***************************************************************************)
(* The uevent listener of src/src/udev.rs: the thread that reads device    *)
(* events from a netlink socket and starts a thread for each, the          *)
(* handshake by which main learns that it runs, and how main stops it      *)
(* (ThreadHandle::join_now of src/src/common.rs).                          *)
(*                                                                         *)
(* External: the netlink socket (a bounded queue of packets; an overrun    *)
(* makes the next recv fail with ENOBUFS) and mio's poll, which is         *)
(* edge-triggered: a source is reported once after it became ready,        *)
(* however often that was, and not again until something new arrives.      *)
(***************************************************************************)
EXTENDS Naturals, Sequences

CONSTANTS
  MaxEvents,  \* how many device events the kernel emits; they are numbered
  Bad,        \* those UEvent::from_netlink_packet rejects
  Capacity,   \* packets the socket's receive buffer holds
  Faults      \* which calls may fail

ASSUME ListenerAssumption ==
  /\ MaxEvents \in Nat
  /\ Capacity \in Nat \ {0}
  /\ Bad \subseteq 1..MaxEvents
  /\ Faults \subseteq {"console", "evloop", "waker", "bind", "register", "spawn", "wake"}

VARIABLES
  main,      \* main thread: before listen(), in it, between listen() and stop(), ...
  listener,  \* listener thread
  channel,   \* mpsc channel on which listen() waits for the listener's waker
  ready,     \* sources mio will report, in the order they became ready
  batch,     \* what is left of the last report: the `evs` being iterated
  quit,      \* quit_thread
  queue,     \* packets in the netlink socket
  overrun,   \* the socket lost a packet since the last recv
  emitted,   \* how many events the kernel has emitted
  handled    \* events for which a handle_uevent thread was spawned

vars == <<main, listener, channel, ready, batch, quit, queue, overrun, emitted, handled>>

loopVars == <<ready, batch, quit>>
socketVars == <<queue, overrun>>

\* How the thread is over: it returned, or a panic ended it.
Over == {"ended", "panicked"}

\* The socket exists and is subscribed to the kernel's uevent group.
Bound == listener \in {"register", "poll", "batch"}

\* mio watches the socket.
Registered == listener \in {"poll", "batch"}

\* The sources to report once `source` has become ready.
Signalled(source) ==
  IF \E i \in DOMAIN ready : ready[i] = source THEN ready ELSE Append(ready, source)

Init ==
  /\ main = "init"
  /\ listener = "none"
  /\ channel = "empty"
  /\ ready = <<>>
  /\ batch = <<>>
  /\ quit = FALSE
  /\ queue = <<>>
  /\ overrun = FALSE
  /\ emitted = 0
  /\ handled = <<>>

-----------------------------------------------------------------------------
(* The main thread.                                                        *)

\* UdevListener::listen spawns the thread and waits on the channel.
Listen ==
  /\ main = "init"
  /\ main' = "recv"
  /\ listener' = "console"
  /\ UNCHANGED <<channel, loopVars, socketVars, emitted, handled>>

\* recv() returns the waker, the error that was sent, or an error because
\* the sender is gone.
HearBack ==
  /\ main = "recv"
  /\ channel # "empty"
  /\ main' = IF channel = "waker" THEN "listening" ELSE "failed"
  /\ UNCHANGED <<listener, channel, loopVars, socketVars, emitted, handled>>

\* UdevListener::stop: wake the thread, then join it.
Stop ==
  /\ main = "listening"
  /\ main' = "joining"
  /\ ready' = Signalled("wake")
  /\ UNCHANGED <<listener, channel, batch, quit, socketVars, emitted, handled>>

\* When the wake fails it is logged, and main joins the thread all the same.
StopUnwoken ==
  /\ "wake" \in Faults
  /\ main = "listening"
  /\ main' = "unwoken"
  /\ UNCHANGED <<listener, channel, loopVars, socketVars, emitted, handled>>

\* (Variant: the thread is not joined.)
Join_Detached ==
  /\ main \in {"joining", "unwoken"}
  /\ main' = "stopped"
  /\ UNCHANGED <<listener, channel, loopVars, socketVars, emitted, handled>>

\* The result of the join is ignored, a panic of the thread with it.
Join ==
  /\ main \in {"joining", "unwoken"}
  /\ listener \in Over
  /\ main' = "stopped"
  /\ UNCHANGED <<listener, channel, loopVars, socketVars, emitted, handled>>

-----------------------------------------------------------------------------
(* The listener thread: setting up.                                        *)

SetUp ==
  /\ listener \in {"console", "evloop", "waker"}
  /\ listener' = [console |-> "evloop", evloop |-> "waker", waker |-> "announce"][listener]
  /\ UNCHANGED <<main, channel, loopVars, socketVars, emitted, handled>>

\* KConsole::new().unwrap() panics; the sender is dropped with the stack.
\* (Variant: somebody keeps a clone of the sender.)
ConsolePanics_SenderKept ==
  /\ "console" \in Faults
  /\ listener = "console"
  /\ listener' = "panicked"
  /\ UNCHANGED <<main, channel, loopVars, socketVars, emitted, handled>>

ConsolePanics ==
  /\ "console" \in Faults
  /\ listener = "console"
  /\ listener' = "panicked"
  /\ channel' = "closed"
  /\ UNCHANGED <<main, loopVars, socketVars, emitted, handled>>

\* Poll::new or Waker::new fails: the error is sent and the thread returns.
SetUpFails ==
  /\ listener \in {"evloop", "waker"} \cap Faults
  /\ listener' = "ended"
  /\ channel' = "error"
  /\ UNCHANGED <<main, loopVars, socketVars, emitted, handled>>

\* The waker is sent; main is in recv(), so the send succeeds.
Announce ==
  /\ listener = "announce"
  /\ listener' = "bind"
  /\ channel' = "waker"
  /\ UNCHANGED <<main, loopVars, socketVars, emitted, handled>>

Bind ==
  /\ listener = "bind"
  /\ listener' = "register"
  /\ UNCHANGED <<main, channel, loopVars, socketVars, emitted, handled>>

\* Registering a socket that has something to read reports it.
Register ==
  /\ listener = "register"
  /\ listener' = "poll"
  /\ ready' = IF queue # <<>> \/ overrun THEN Signalled("socket") ELSE ready
  /\ UNCHANGED <<main, channel, batch, quit, socketVars, emitted, handled>>

\* The thread is over, and its socket with it.
Leave(how) ==
  /\ listener' = how
  /\ queue' = <<>>
  /\ overrun' = FALSE

\* The unwraps on the socket's calls.  Main has been told that all is well.
SocketPanics ==
  /\ listener \in {"bind", "register"} \cap Faults
  /\ Leave("panicked")
  /\ UNCHANGED <<main, channel, loopVars, emitted, handled>>

-----------------------------------------------------------------------------
(* The listener thread: the loop.                                          *)

\* poll() returns what became ready since it returned last.
Poll ==
  /\ listener = "poll"
  /\ ready # <<>>
  /\ listener' = "batch"
  /\ batch' = ready
  /\ ready' = <<>>
  /\ quit' = FALSE
  /\ UNCHANGED <<main, channel, socketVars, emitted, handled>>

At(token) ==
  /\ listener = "batch"
  /\ batch # <<>>
  /\ Head(batch) = token

\* (Variants of Handle: all packets that are there are received at one report;
\* a packet is handed on unparsed; the socket was registered under a token the
\* loop ignores.)
Handle_Drains ==
  /\ At("socket")
  /\ queue # <<>>
  /\ ~overrun
  /\ Head(queue) \notin Bad
  /\ batch' = Tail(batch)
  /\ queue' = <<>>
  /\ handled' = handled \o queue
  /\ UNCHANGED <<main, listener, channel, ready, quit, overrun, emitted>>

Handle_Unparsed ==
  /\ At("socket")
  /\ queue # <<>>
  /\ ~overrun
  /\ batch' = Tail(batch)
  /\ queue' = Tail(queue)
  /\ handled' = Append(handled, Head(queue))
  /\ UNCHANGED <<main, listener, channel, ready, quit, overrun, emitted>>

Handle_WrongToken ==
  /\ At("socket")
  /\ batch' = Tail(batch)
  /\ UNCHANGED <<main, listener, channel, ready, quit, socketVars, emitted, handled>>

\* One packet is received, parsed and given a thread.
Handle ==
  /\ At("socket")
  /\ queue # <<>>
  /\ ~overrun
  /\ Head(queue) \notin Bad
  /\ batch' = Tail(batch)
  /\ queue' = Tail(queue)
  /\ handled' = Append(handled, Head(queue))
  /\ UNCHANGED <<main, listener, channel, ready, quit, overrun, emitted>>

\* A packet that cannot be parsed counts as the end of the socket: the
\* thread returns after this batch.
Reject ==
  /\ At("socket")
  /\ queue # <<>>
  /\ ~overrun
  /\ Head(queue) \in Bad
  /\ batch' = Tail(batch)
  /\ queue' = Tail(queue)
  /\ quit' = TRUE
  /\ UNCHANGED <<main, listener, channel, ready, overrun, emitted, handled>>

\* recv().unwrap() on ENOBUFS, or on EWOULDBLOCK if there is no packet.
RecvPanics ==
  /\ At("socket")
  /\ overrun \/ queue = <<>>
  /\ Leave("panicked")
  /\ UNCHANGED <<main, channel, loopVars, emitted, handled>>

\* thread::spawn panics: the system is out of threads.
SpawnPanics ==
  /\ "spawn" \in Faults
  /\ At("socket")
  /\ queue # <<>>
  /\ ~overrun
  /\ Head(queue) \notin Bad
  /\ Leave("panicked")
  /\ UNCHANGED <<main, channel, loopVars, emitted, handled>>

\* (Variant: `break` where the code has `return`.)
Woken_Breaks ==
  /\ At("wake")
  /\ listener' = "poll"
  /\ UNCHANGED <<main, channel, loopVars, socketVars, emitted, handled>>

\* "root is already mounted, we can exit": the rest of the batch is left.
Woken ==
  /\ At("wake")
  /\ Leave("ended")
  /\ UNCHANGED <<main, channel, loopVars, emitted, handled>>

PollAgain ==
  /\ listener = "batch"
  /\ batch = <<>>
  /\ ~quit
  /\ listener' = "poll"
  /\ UNCHANGED <<main, channel, loopVars, socketVars, emitted, handled>>

Quit ==
  /\ listener = "batch"
  /\ batch = <<>>
  /\ quit
  /\ Leave("ended")
  /\ UNCHANGED <<main, channel, loopVars, emitted, handled>>

-----------------------------------------------------------------------------
(* The kernel emits a device event.                                        *)

Emit ==
  /\ emitted < MaxEvents
  /\ emitted' = emitted + 1
  /\ UNCHANGED <<main, listener, channel, batch, quit, handled>>

\* Nobody is subscribed.
EmitUnheard ==
  /\ ~Bound
  /\ Emit
  /\ UNCHANGED <<ready, socketVars>>

ReportSocket == ready' = IF Registered THEN Signalled("socket") ELSE ready

EmitQueued ==
  /\ Bound
  /\ ~overrun
  /\ Len(queue) < Capacity
  /\ Emit
  /\ queue' = Append(queue, emitted + 1)
  /\ ReportSocket
  /\ UNCHANGED overrun

\* The receive buffer is full: the packet is lost, the first loss reported.
EmitOverrun ==
  /\ Bound
  /\ ~overrun
  /\ Len(queue) = Capacity
  /\ Emit
  /\ overrun' = TRUE
  /\ ReportSocket
  /\ UNCHANGED queue

EmitDropped ==
  /\ Bound
  /\ overrun
  /\ Emit
  /\ UNCHANGED <<ready, socketVars>>

-----------------------------------------------------------------------------
MainThread == Listen \/ HearBack \/ Join

ListenerThread ==
  \/ SetUp \/ Announce \/ Bind \/ Register
  \/ Poll \/ Handle \/ Reject \/ RecvPanics \/ Woken \/ PollAgain \/ Quit

Failure == StopUnwoken \/ ConsolePanics \/ SetUpFails \/ SocketPanics \/ SpawnPanics

Kernel == EmitUnheard \/ EmitQueued \/ EmitOverrun \/ EmitDropped

Next == MainThread \/ Stop \/ ListenerThread \/ Failure \/ Kernel

Spec == Init /\ [][Next]_vars

\* Both threads are scheduled; main_waker, faults and events come or do not.
FairSpec == Spec /\ WF_vars(MainThread) /\ WF_vars(ListenerThread)
-----------------------------------------------------------------------------
(* Properties.                                                             *)

Event == 1..MaxEvents
Source == {"socket", "wake"}

\* Every variable has its type; what has a handler thread was a UEvent.
TypeOK ==
  /\ main \in {"init", "recv", "listening", "joining", "unwoken", "stopped", "failed"}
  /\ listener \in {"none", "console", "evloop", "waker", "announce", "bind",
                   "register", "poll", "batch"} \cup Over
  /\ channel \in {"empty", "waker", "error", "closed"}
  /\ ready \in Seq(Source)
  /\ batch \in Seq(Source)
  /\ quit \in BOOLEAN
  /\ queue \in Seq(Event)
  /\ overrun \in BOOLEAN
  /\ emitted \in 0..MaxEvents
  /\ handled \in Seq(Event \ Bad)

\* recv().unwrap() never meets EWOULDBLOCK: although only one packet is taken
\* per report and packets arrive between report and recv, the socket that is
\* reported has a packet (or an overrun to tell of).
NoEmptyRecv == At("socket") => queue # <<>> \/ overrun

\* Events are handled at most once, in order, and not after stop() returned.
Feed == INSTANCE EventFeed WITH
  delivered <- handled, stopped <- main = "stopped"

ImplementsFeed == Feed!Spec

\* listen() returns, with a waker or with an error, whatever fails in the
\* thread before or after the handshake.
ListenReturns == main = "recv" ~> main \in {"listening", "failed"}

\* stop() returns once the wake has been sent, whatever the thread is doing,
\* has queued or has died of.
StopReturns == main = "joining" ~> main = "stopped"

\* What excuses the listener from handling an event it has been sent: main
\* has stopped it, or it is over.
Excused == main \in {"joining", "unwoken", "stopped"} \/ listener \in Over

\* "spawn thread for each uevent" (udev.rs:115): each event that reached the
\* socket is handled in the end.
EveryEventHandled ==
  \A e \in Event :
    (\E i \in DOMAIN queue : queue[i] = e) ~>
      (\E i \in DOMAIN handled : handled[i] = e) \/ Excused

\* It is, when no event comes before the previous one was read: neither a
\* report that mio's edge-triggering merges with another nor one that comes
\* while the socket is being registered is lost.
SpacedEventsHandled == [](Len(queue) <= 1 /\ ~overrun) => EveryEventHandled
=============================================================================
