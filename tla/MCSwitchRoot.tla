---------------------------- MODULE MCSwitchRoot ----------------------------
(***************************************************************************)
(* How a target names its init, for TLC.                                   *)
(***************************************************************************)
EXTENDS SwitchRoot

SbinInit == <<"/", "sbin", "init">>
Systemd == <<"/", "lib", "systemd", "systemd">>
Alternative(n) == <<"/", "etc", n>>

Link(p, to) == [q \in {p} |-> to]

MCLinkTrees ==
  { [q \in {} |-> SbinInit],                        \* init is a file
    Link(SbinInit, Systemd),                        \* an absolute link
    Link(SbinInit, <<"..", "lib", "systemd", "systemd">>),
    Link(SbinInit, <<"openrc-init">>),              \* in its own directory
    Link(SbinInit, <<"/", "systemd">>),
    Link(SbinInit, Alternative("a")) @@ Link(Alternative("a"), SbinInit),  \* a loop
    Link(SbinInit, Alternative("a")) @@ Link(Alternative("a"), Systemd),
    Link(SbinInit, Alternative("a")) @@ Link(Alternative("a"), Alternative("b"))
      @@ Link(Alternative("b"), Systemd) }          \* more than MaxLinks
=============================================================================
