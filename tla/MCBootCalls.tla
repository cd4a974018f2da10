---------------------------- MODULE MCBootCalls ----------------------------
(***************************************************************************)
(* Initramfs trees, machines and [console] sections for TLC.               *)
(***************************************************************************)
EXTENDS BootCalls

(* A tree with these directories and other files. *)
Tree(dirs, others) ==
  [p \in {<<>>} \cup dirs |-> "dir"] @@ [p \in others |-> "other"]

Usual == {<<"dev">>, <<"proc">>, <<"sys">>, <<"run">>}

MCTrees ==
  {Tree({}, {}), Tree(Usual, {}),
   Tree(Usual \cup {<<"run", "initramfs">>}, {}),       \* hidden by the tmpfs
   Tree({<<"dev">>, <<"sys">>}, {<<"dev", "kmsg">>, <<"dev", "shm">>}),
   Tree({}, {<<"run">>}), Tree({}, {<<"dev">>})}

MCSysfs ==
  {{<<"block">>},                                       \* BIOS
   {<<"firmware">>, <<"firmware", "efi">>},             \* no efivars directory
   {<<"firmware">>, <<"firmware", "efi">>, <<"firmware", "efi", "efivars">>}}

(* Three tables of two keys, in four-valued bytes, at an address close to the *)
(* end of a word.  A header byte other than 1 enables nothing.              *)
File(enabled, len) ==
  [bytes |-> [n \in 1..len |-> IF n > 3 THEN n % 4
                               ELSE IF n - 1 \in enabled THEN 1 ELSE 2 * (n % 2)],
   base |-> 6]
Section(font, file, keymap) ==
  [font |-> font, utf |-> font, file |-> file, keymap |-> keymap]
Whole(enabled) == File(enabled, 3 + 4 * Cardinality(enabled))

MCConsoles ==
  {Section(FALSE, "none", Whole({})), Section(TRUE, "bad", Whole({}))}
    \cup {Section(TRUE, "keymap", Whole(e)) : e \in SUBSET (0..2)}
    \cup {Section(FALSE, "keymap", File({0, 2}, n)) : n \in 2..10}

(* Each tree and each [console] with the usual other half. *)
MCMachines ==
  [tree : MCTrees, sysfs : MCSysfs, console : {Section(FALSE, "none", Whole({}))}]
    \cup [tree : {Tree(Usual, {})}, sysfs : {{<<"block">>}}, console : MCConsoles]

(* A complete keymap of one table. *)
MCKeymapMachines ==
  [tree : {Tree(Usual, {})}, sysfs : {{<<"block">>}},
   console : {Section(TRUE, "keymap", Whole({1}))}]
=============================================================================
