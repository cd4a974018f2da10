---------------------------- MODULE LoadContract ----------------------------
(***************************************************************************)
(* What kernel-module loading promises, without threads, mutex or          *)
(* WaitGroups: a module is inserted at most once, only because a caller    *)
(* asked for it or for something that needs it, never before its           *)
(* dependencies, never when it is built in; and a call returns only when   *)
(* every module it asked for is there.                                     *)
(***************************************************************************)
EXTENDS Sequences

CONSTANTS Module, Caller, Configs

VARIABLES
  config,    \* the dependency graph, fixed
  demanded,  \* modules asked for, directly or through a dependency
  inserted,  \* modules in the kernel, in addition to the built-in ones
  call       \* state of each call and what it asks for

vars == <<config, demanded, inserted, call>>

Elements(s) == {s[i] : i \in DOMAIN s}

Present == inserted \cup config.builtin

Init ==
  /\ config \in Configs
  /\ demanded = {}
  /\ inserted = {}
  /\ call = [c \in Caller |-> [state |-> "idle", want |-> {}]]

Ask(c, ms) ==
  /\ call[c].state = "idle"
  /\ call' = [call EXCEPT ![c] = [state |-> "asked", want |-> ms]]
  /\ demanded' = demanded \cup ms
  /\ UNCHANGED <<config, inserted>>

\* A dependency of a demanded module, or a post-dependency of an inserted one.
Demand(d) ==
  /\ \/ \E m \in demanded : d \in Elements(config.deps[m])
     \/ \E m \in inserted : d \in Elements(config.post[m])
  /\ demanded' = demanded \cup {d}
  /\ UNCHANGED <<config, inserted, call>>

Insert(m) ==
  /\ m \in demanded \ Present
  /\ Elements(config.deps[m]) \subseteq Present
  /\ inserted' = inserted \cup {m}
  /\ UNCHANGED <<config, demanded, call>>

Return(c) ==
  /\ call[c].state = "asked"
  /\ call[c].want \subseteq Present
  /\ call' = [call EXCEPT ![c].state = "returned"]
  /\ UNCHANGED <<config, demanded, inserted>>

\* The call has nothing to load, or fails.
Refuse(c) ==
  /\ call[c].state \in {"idle", "asked"}
  /\ call' = [call EXCEPT ![c].state = "refused"]
  /\ UNCHANGED <<config, demanded, inserted>>

Next ==
  \/ \E c \in Caller : Return(c) \/ Refuse(c) \/ (\E ms \in SUBSET Module : Ask(c, ms))
  \/ \E m \in Module : Demand(m) \/ Insert(m)

Spec == Init /\ [][Next]_vars
=============================================================================
