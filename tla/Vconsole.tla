------------------------------ MODULE Vconsole ------------------------------
(***************************************************************************)
(* setup_vconsole (vconsole.rs): the font, the keyboard mode and the key   *)
(* tables of the console, one action per call to the kernel.               *)
(***************************************************************************)
EXTENDS Integers, Sequences, FiniteSets

CONSTANTS
  Consoles,   \* [console] sections: fonts, keymap files and what is in them
  NrKeymaps,  \* MAX_NR_KEYMAPS, also the length of a keymap's header (256)
  NrKeys,     \* NR_KEYS (128)
  ByteSize    \* values of a u8 (256)

None == "none"
Untouched == -1

Table == 0..(NrKeymaps - 1)
Key == 0..(NrKeys - 1)

\* Values of a u16.
WordSize == ByteSize * ByteSize

(* What follows "bkeymap" in a file, a header and entries of two bytes, and  *)
(* where fs::read has put it in memory.                                     *)
Keymap == [bytes : Seq(0..(ByteSize - 1)), base : Nat]

(* `font` and `utf` of the section, and its keymap: None for no file, "bad" *)
(* for one that cannot be read or does not begin with "bkeymap".           *)
ASSUME ConsoleAssumption ==
  /\ NrKeymaps \in Nat \ {0} /\ NrKeys \in Nat \ {0} /\ ByteSize \in Nat \ {0, 1}
  /\ \A c \in Consoles :
       /\ c.font \in BOOLEAN /\ c.utf \in BOOLEAN
       /\ c.file \in {None, "bad", "keymap"}
       /\ c.keymap \in Keymap

VARIABLES
  console,   \* the [console] section of engine.toml
  vcon,      \* where setup_vconsole is, and how it ended
  keyboard,  \* keyboard mode of tty0, None before it is set (external)
  keys,      \* value of each key in each table (external)
  table, key, \* i and j of the loops
  pos        \* `pos`

\* keymap_blob: its length, its bytes from 0 on, and the tables its header enables.
FileLen == Len(console.keymap.bytes)
Blob(p) == console.keymap.bytes[p + 1]
Enabled == {i \in Table : i < FileLen /\ Blob(i) = 1}

vconVars == <<console, vcon, keyboard, keys, table, key, pos>>

ConsoleInit ==
  /\ console \in Consoles
  /\ vcon = "font" /\ keyboard = None
  /\ keys = [i \in Table |-> [j \in Key |-> Untouched]]
  /\ table = 0 /\ key = 0 /\ pos = NrKeymaps

ConsoleGoto(s) == vcon' = s /\ UNCHANGED <<console, keyboard, keys, table, key, pos>>

(* set_font: the only thing to do before the keyboard, and fatal if `setfont` *)
(* cannot be run or fails.                                                  *)
SetFont ==
  /\ vcon = "font"
  /\ \/ ConsoleGoto("tty")
     \/ console.font /\ ConsoleGoto("err")

(* load_keymap: nothing without a file; otherwise open tty0, *)
OpenTty ==
  /\ vcon = "tty"
  /\ \/ console.file = None /\ ConsoleGoto("ok")
     \/ console.file # None /\ ConsoleGoto("mode")
     \/ console.file # None /\ ConsoleGoto("err")

(* set the keyboard mode, *)
SetMode ==
  /\ vcon = "mode"
  /\ \/ /\ keyboard' = IF console.utf THEN "unicode" ELSE "xlate"
        /\ vcon' = "ctrl"
        /\ UNCHANGED <<console, keys, table, key, pos>>
     \/ ConsoleGoto("err")

(* write the control sequence, *)
WriteCtrl == vcon = "ctrl" /\ \E s \in {"file", "err"} : ConsoleGoto(s)

(* and only now read the file.  A file without a whole header panics.      *)
ReadKeymap ==
  /\ vcon = "file"
  /\ ConsoleGoto(CASE console.file = "bad" -> "err"
                   [] console.file = "keymap" /\ FileLen < NrKeymaps -> "panic"
                   [] console.file = "keymap" /\ FileLen >= NrKeymaps -> "keys")

(* The loop over the tables in load_keymap_file, and in each of those that *)
(* are enabled the loop over its keys.                                     *)
SkipTable ==
  /\ vcon = "keys" /\ table < NrKeymaps
  /\ table \notin Enabled
  /\ table' = table + 1
  /\ UNCHANGED <<console, vcon, keyboard, keys, key, pos>>

AtKey == vcon = "keys" /\ table < NrKeymaps /\ table \in Enabled

\* (Variant: not cut to 16 bits.)
ValueAt_Whole(p) == console.keymap.base + p

(* `(&keymap_blob[pos] as *const _) as u16`: the address of the byte, not   *)
(* the entry that begins there.                                            *)
ValueAt(p) == (console.keymap.base + p) % WordSize

SetKey ==
  /\ AtKey /\ pos < FileLen
  /\ keys' = [keys EXCEPT ![table][key] = ValueAt(pos)]
  /\ pos' = pos + 2
  /\ key' = (key + 1) % NrKeys
  /\ table' = IF key + 1 = NrKeys THEN table + 1 ELSE table
  /\ UNCHANGED <<console, vcon, keyboard>>

(* The ioctl fails: the keys before this one stay changed. *)
SetKeyErr == AtKey /\ pos < FileLen /\ ConsoleGoto("err")

\* (Variant: also without the second byte of the entry.)
SetKeyPanics_ByTwo == AtKey /\ pos + 1 >= FileLen /\ ConsoleGoto("panic")

(* The index is out of the file's bounds. *)
SetKeyPanics == AtKey /\ pos >= FileLen /\ ConsoleGoto("panic")

KeymapLoaded == vcon = "keys" /\ table = NrKeymaps /\ ConsoleGoto("ok")

ConsoleStep ==
  \/ SetFont \/ OpenTty \/ SetMode \/ WriteCtrl \/ ReadKeymap
  \/ SkipTable \/ SetKey \/ SetKeyErr \/ SetKeyPanics \/ KeymapLoaded

(***************************************************************************)
(* Properties.                                                             *)
(***************************************************************************)
ConsoleTypeOK ==
  /\ console \in Consoles
  /\ vcon \in {"font", "tty", "mode", "ctrl", "file", "keys", "ok", "err", "panic"}
  /\ keyboard \in {None, "unicode", "xlate"}
  /\ keys \in [Table -> [Key -> -1..(WordSize - 1)]]
  /\ table \in 0..NrKeymaps /\ key \in Key /\ pos \in Nat

(* How many tables come before this one in the file. *)
Rank(i) == Cardinality({k \in Enabled : k < i})

(* Where the file has key j of table i: the header, the tables before it,   *)
(* two bytes for each key before it.                                       *)
PlaceOf(i, j) == NrKeymaps + 2 * (NrKeys * Rank(i) + j)

(* The place of the last key the file must have. *)
LastPlace == NrKeymaps + 2 * (NrKeys * Cardinality(Enabled) - 1)

(* setup_vconsole panics, and PID 1 with it, only for a keymap file that    *)
(* ends before its last key; it returns Ok only if the file does not, and   *)
(* then every key of the tables it enables was set and no other.           *)
PanicsIffShort ==
  LET whole == FileLen >= NrKeymaps /\ (Enabled # {} => FileLen > LastPlace)
  IN /\ vcon = "panic" => ~ whole
     /\ vcon = "ok" /\ console.file # None =>
          /\ whole
          /\ \A i \in Table : \A j \in Key : keys[i][j] # Untouched <=> i \in Enabled

(* The entry at this place, in the byte order of any machine. *)
EntriesAt(p) == {Blob(p) + ByteSize * Blob(p + 1), ByteSize * Blob(p) + Blob(p + 1)}

(* "Update the kernel `tty0` keyboard mode and translation table with a      *)
(* keymap file" (vconsole.rs:121): each key of an enabled table has got the  *)
(* entry the file has for it.                                              *)
KeysFromFile ==
  vcon = "ok" /\ console.file = "keymap" =>
    \A i \in Enabled : \A j \in Key :
      PlaceOf(i, j) + 1 < FileLen => keys[i][j] \in EntriesAt(PlaceOf(i, j))
=============================================================================
