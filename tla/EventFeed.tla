----------------------------- MODULE EventFeed -----------------------------
(***************************************************************************)
(* What a uevent listener promises to those who handle device events: each *)
(* event at most once, in the order the kernel emitted them, and none once *)
(* the listener has been stopped.  Events are numbered in emission order.  *)
(***************************************************************************)
EXTENDS Naturals, Sequences

VARIABLES emitted, delivered, stopped

fvars == <<emitted, delivered, stopped>>

Init ==
  /\ emitted = 0
  /\ delivered = <<>>
  /\ stopped = FALSE

Emit ==
  /\ emitted' = emitted + 1
  /\ UNCHANGED <<delivered, stopped>>

Deliver(e) ==
  /\ ~stopped
  /\ \A i \in DOMAIN delivered : delivered[i] < e
  /\ delivered' = Append(delivered, e)
  /\ UNCHANGED <<emitted, stopped>>

Stop ==
  /\ stopped' = TRUE
  /\ UNCHANGED <<emitted, delivered>>

Next == Emit \/ Stop \/ \E e \in 1..emitted : Deliver(e)

Spec == Init /\ [][Next]_fvars
=============================================================================
