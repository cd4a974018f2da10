--------------------------- MODULE VconsoleProofs ---------------------------
(***************************************************************************)
(* The steps of setup_vconsole preserve what Vconsole says of them, for    *)
(* keymaps of any size, any choice of tables and any file.                 *)
(***************************************************************************)
EXTENDS Vconsole, FiniteSetTheorems, TLAPS

(* PanicsIffShort's notion of a file that has all its keys. *)
WholeFile == FileLen >= NrKeymaps /\ (Enabled # {} => FileLen > LastPlace)

(* The bytes before `pos` are there. *)
ReadSoFar == FileLen >= NrKeymaps /\ (pos = NrKeymaps \/ pos - 2 < FileLen)

(* The key (i, j) comes before the one the loops are at. *)
Passed(i, j) == i < table \/ (i = table /\ j < key)

(* The keys set so far are those passed. *)
KeysSet ==
  \A i \in Table : \A j \in Key : keys[i][j] # Untouched <=> i \in Enabled /\ Passed(i, j)

(* Where the loops are and what they have done. *)
LoopInv ==
  /\ table \notin Enabled => key = 0
  /\ pos = PlaceOf(table, key)
  /\ KeysSet

(* What each way to end tells about the file. *)
EndInv ==
  /\ vcon \in {"font", "tty", "mode", "ctrl", "file"} => table = 0 /\ key = 0
  /\ vcon \in {"mode", "ctrl", "file", "keys", "panic"} => console.file # None
  /\ vcon = "keys" => ReadSoFar
  /\ vcon = "ok" /\ console.file # None => ReadSoFar /\ table = NrKeymaps
  /\ vcon = "panic" => ~ WholeFile

ConsoleInv == ConsoleTypeOK /\ LoopInv /\ EndInv

LEMMA Sizes ==
  ASSUME console \in Consoles
  PROVE  /\ NrKeymaps \in Nat \ {0} /\ NrKeys \in Nat \ {0} /\ WordSize \in Nat \ {0}
         /\ Enabled \subseteq Table /\ FileLen \in Nat /\ console.keymap.base \in Nat
<1>1. NrKeymaps \in Nat \ {0} /\ NrKeys \in Nat \ {0} /\ ByteSize \in Nat \ {0, 1}
  BY ConsoleAssumption
<1>2. WordSize \in Nat \ {0}
  BY <1>1 DEF WordSize
<1>3. console.keymap.bytes \in Seq(0..(ByteSize - 1)) /\ console.keymap.base \in Nat
  BY ConsoleAssumption DEF Keymap
<1>4. FileLen \in Nat
  BY <1>3 DEF FileLen
<1>. QED
  BY <1>1, <1>2, <1>3, <1>4 DEF Enabled

(***************************************************************************)
(* The place of a table in the file.                                       *)
(***************************************************************************)
LEMMA EnabledFinite ==
  ASSUME console \in Consoles
  PROVE  IsFiniteSet(Enabled) /\ Cardinality(Enabled) \in Nat
<1>1. IsFiniteSet(Table)
  BY Sizes, FS_Interval DEF Table
<1>. QED
  BY <1>1, Sizes, FS_Subset, FS_CardinalityType

LEMMA RankType ==
  ASSUME console \in Consoles, NEW i
  PROVE  /\ IsFiniteSet({k \in Enabled : k < i})
         /\ Rank(i) \in Nat /\ Rank(i) <= Cardinality(Enabled)
<1>1. {k \in Enabled : k < i} \in SUBSET Enabled
  OBVIOUS
<1>. QED
  BY <1>1, EnabledFinite, FS_Subset, FS_CardinalityType DEF Rank

(* Before the first table there is none, and a table counts for those after. *)
LEMMA RankZero ==
  ASSUME console \in Consoles
  PROVE  Rank(0) = 0
<1>1. {k \in Enabled : k < 0} = {}
  BY Sizes DEF Table
<1>. QED
  BY <1>1, FS_EmptySet DEF Rank

LEMMA RankNext ==
  ASSUME console \in Consoles, NEW i \in Table
  PROVE  Rank(i + 1) = IF i \in Enabled THEN Rank(i) + 1 ELSE Rank(i)
<1>. DEFINE below(n) == {k \in Enabled : k < n}
<1>1. \A k \in Enabled : k \in Nat /\ i \in Nat
  BY Sizes DEF Table
<1>2. CASE i \in Enabled
  <2>1. below(i + 1) = below(i) \cup {i} /\ i \notin below(i)
    BY <1>1, <1>2
  <2>2. IsFiniteSet(below(i)) /\ Rank(i) = Cardinality(below(i)) /\ Rank(i) \in Nat
        /\ Rank(i + 1) = Cardinality(below(i + 1))
    BY RankType DEF Rank
  <2>. HIDE DEF below
  <2>3. Cardinality(below(i) \cup {i}) = Cardinality(below(i)) + 1
    BY <2>1, <2>2, FS_AddElement
  <2>. QED  BY <1>2, <2>1, <2>2, <2>3
<1>3. CASE i \notin Enabled
  <2>1. below(i + 1) = below(i)
    BY <1>1, <1>3
  <2>. QED  BY <1>3, <2>1 DEF Rank
<1>. QED
  BY <1>2, <1>3

LEMMA RankAll ==
  ASSUME console \in Consoles
  PROVE  Rank(NrKeymaps) = Cardinality(Enabled)
<1>1. {k \in Enabled : k < NrKeymaps} = Enabled
  BY Sizes DEF Table
<1>. QED
  BY <1>1 DEF Rank

LEMMA Times ==
  ASSUME NEW n \in Nat, NEW r \in Nat, NEW c \in Nat, r < c
  PROVE  n * r \in Nat /\ n * (r + 1) = n * r + n /\ n * (r + 1) <= n * c
<1>1. n * r \in Nat /\ n * (r + 1) = n * r + n
  OBVIOUS
<1>2. c - (r + 1) \in Nat
  OBVIOUS
<1>3. n * (c - (r + 1)) \in Nat
  BY <1>2
<1>4. n * c = n * (r + 1) + n * (c - (r + 1))
  BY <1>2
<1>. QED
  BY <1>1, <1>3, <1>4

(* From a key to the next, from a table to the next. *)
LEMMA PlaceNext ==
  ASSUME console \in Consoles, NEW i \in Table, NEW j \in Key
  PROVE  /\ PlaceOf(i, j) \in Nat /\ PlaceOf(i, j) >= NrKeymaps
         /\ PlaceOf(i, j + 1) = PlaceOf(i, j) + 2
         /\ i \in Enabled => PlaceOf(i + 1, 0) = PlaceOf(i, NrKeys)
         /\ i \notin Enabled => PlaceOf(i + 1, 0) = PlaceOf(i, 0)
<1>. DEFINE r == Rank(i)
<1>1. r \in Nat /\ j \in Nat /\ NrKeys \in Nat /\ NrKeymaps \in Nat
  <2>1. r \in Nat
    BY RankType
  <2>2. NrKeys \in Nat /\ NrKeymaps \in Nat
    BY Sizes
  <2>. QED  BY <2>1, <2>2 DEF Key
<1>2. NrKeys * r \in Nat /\ NrKeys * (r + 1) = NrKeys * r + NrKeys
  <2>1. r + 1 \in Nat /\ r < r + 1
    BY <1>1
  <2>. HIDE DEF r
  <2>. QED  BY <1>1, <2>1, Times
<1>3. /\ PlaceOf(i, j) = NrKeymaps + 2 * (NrKeys * r + j)
      /\ PlaceOf(i, j + 1) = NrKeymaps + 2 * (NrKeys * r + (j + 1))
      /\ PlaceOf(i, NrKeys) = NrKeymaps + 2 * (NrKeys * r + NrKeys)
      /\ PlaceOf(i, 0) = NrKeymaps + 2 * (NrKeys * r + 0)
      /\ PlaceOf(i + 1, 0) = NrKeymaps + 2 * (NrKeys * Rank(i + 1) + 0)
  BY DEF PlaceOf
<1>4. Rank(i + 1) = IF i \in Enabled THEN r + 1 ELSE r
  BY RankNext
<1>. HIDE DEF r
<1>5. /\ PlaceOf(i, j) \in Nat /\ PlaceOf(i, j) >= NrKeymaps
      /\ PlaceOf(i, j + 1) = PlaceOf(i, j) + 2
  BY <1>1, <1>2, <1>3
<1>6. i \in Enabled => PlaceOf(i + 1, 0) = PlaceOf(i, NrKeys)
  BY <1>1, <1>2, <1>3, <1>4
<1>7. i \notin Enabled => PlaceOf(i + 1, 0) = PlaceOf(i, 0)
  BY <1>1, <1>2, <1>3, <1>4
<1>. QED
  BY <1>5, <1>6, <1>7

(* No key is behind the last one. *)
LEMMA PlaceBounded ==
  ASSUME console \in Consoles, NEW i \in Enabled, NEW j \in Key
  PROVE  PlaceOf(i, j) <= LastPlace
<1>. DEFINE r == Rank(i)
            c == Cardinality(Enabled)
<1>1. i \in Table /\ NrKeys \in Nat /\ NrKeymaps \in Nat /\ j \in Nat /\ j < NrKeys
  BY Sizes DEF Key
<1>2. r \in Nat /\ c \in Nat /\ r < c
  <2>1. r \in Nat /\ Rank(i + 1) <= c
    BY RankType
  <2>2. Rank(i + 1) = r + 1
    BY <1>1, RankNext
  <2>3. c \in Nat
    BY EnabledFinite
  <2>. HIDE DEF r, c
  <2>. QED  BY <2>1, <2>2, <2>3
<1>3. NrKeys * r \in Nat /\ NrKeys * r + NrKeys <= NrKeys * c /\ NrKeys * c \in Nat
  BY <1>1, <1>2, Times
<1>4. /\ PlaceOf(i, j) = NrKeymaps + 2 * (NrKeys * r + j)
      /\ LastPlace = NrKeymaps + 2 * (NrKeys * c - 1)
  BY DEF PlaceOf, LastPlace
<1>. HIDE DEF r, c
<1>. QED
  BY <1>1, <1>2, <1>3, <1>4

(* After all tables the loops are two bytes past the last key. *)
LEMMA PlaceAtEnd ==
  ASSUME console \in Consoles
  PROVE  /\ Enabled # {} => /\ PlaceOf(NrKeymaps, 0) - 2 = LastPlace
                            /\ PlaceOf(NrKeymaps, 0) > NrKeymaps
<1>. DEFINE c == Cardinality(Enabled)
<1>1. c \in Nat /\ NrKeys \in Nat \ {0} /\ NrKeymaps \in Nat
  BY EnabledFinite, Sizes
<1>2. Enabled # {} => c # 0
  BY EnabledFinite, FS_EmptySet
<1>3. Enabled # {} => NrKeys * c \in Nat \ {0}
  BY <1>1, <1>2
<1>4. /\ PlaceOf(NrKeymaps, 0) = NrKeymaps + 2 * (NrKeys * c + 0)
      /\ LastPlace = NrKeymaps + 2 * (NrKeys * c - 1)
  BY RankAll DEF PlaceOf, LastPlace
<1>. HIDE DEF c
<1>. QED
  BY <1>1, <1>3, <1>4

(***************************************************************************)
(* The invariant.                                                          *)
(***************************************************************************)
\* What is known of a keymap while the section stays as it is.
LEMMA KeymapStays ==
  ASSUME console' = console
  PROVE  /\ FileLen' = FileLen /\ Enabled' = Enabled /\ LastPlace' = LastPlace
         /\ WholeFile' = WholeFile
         /\ \A i, j : PlaceOf(i, j)' = PlaceOf(i, j)
  BY DEF FileLen, Enabled, Blob, LastPlace, WholeFile, PlaceOf, Rank

LEMMA ConsoleStarts == ConsoleInit => ConsoleInv
<1>. SUFFICES ASSUME ConsoleInit PROVE ConsoleInv
  OBVIOUS
<1>1. console \in Consoles
  BY DEF ConsoleInit
<1>2. ConsoleTypeOK
  <2>1. 0 \in 0..NrKeymaps /\ 0 \in Key /\ NrKeymaps \in Nat /\ Untouched \in -1..(WordSize - 1)
    BY <1>1, Sizes DEF Key, Untouched
  <2>. QED  BY <2>1 DEF ConsoleInit, ConsoleTypeOK, None
<1>3. LoopInv
  <2>1. table = 0 /\ key = 0 /\ pos = NrKeymaps
    BY DEF ConsoleInit
  <2>2. PlaceOf(0, 0) = NrKeymaps
    BY <1>1, RankZero, Sizes DEF PlaceOf
  <2>3. ASSUME NEW i \in Table, NEW j \in Key
        PROVE  keys[i][j] = Untouched /\ ~ Passed(i, j)
    BY <1>1, <2>1, Sizes DEF ConsoleInit, Passed, Table, Key
  <2>. QED  BY <2>1, <2>2, <2>3 DEF LoopInv, KeysSet
<1>4. EndInv
  BY DEF ConsoleInit, EndInv
<1>. QED
  BY <1>2, <1>3, <1>4 DEF ConsoleInv

(* The steps that leave the loops alone: only `vcon` and the keyboard change. *)
LEMMA OutsideLoops ==
  ASSUME ConsoleInv, UNCHANGED <<console, keys, table, key, pos>>,
         vcon' \in {"font", "tty", "mode", "ctrl", "file", "keys", "ok", "err", "panic"},
         keyboard' \in {None, "unicode", "xlate"}, EndInv'
  PROVE  ConsoleInv'
<1>1. ConsoleTypeOK'
  BY DEF ConsoleInv, ConsoleTypeOK
<1>2. LoopInv'
  BY KeymapStays DEF ConsoleInv, LoopInv, KeysSet, Passed
<1>. QED
  BY <1>1, <1>2 DEF ConsoleInv

LEMMA EarlySteps_Inv ==
  ASSUME ConsoleInv, SetFont \/ OpenTty \/ SetMode \/ WriteCtrl \/ ReadKeymap
  PROVE  ConsoleInv'
<1>1. UNCHANGED <<console, keys, table, key, pos>>
  BY DEF SetFont, OpenTty, SetMode, WriteCtrl, ReadKeymap, ConsoleGoto
<1>2. console \in Consoles /\ FileLen \in Nat /\ NrKeymaps \in Nat /\ NrKeymaps # 0
  BY Sizes DEF ConsoleInv, ConsoleTypeOK
<1>3. UNCHANGED <<FileLen, Enabled, WholeFile, ReadSoFar>>
  BY <1>1, KeymapStays DEF ReadSoFar
<1>4. keyboard' \in {None, "unicode", "xlate"}
  BY DEF SetFont, OpenTty, SetMode, WriteCtrl, ReadKeymap, ConsoleGoto, ConsoleInv, ConsoleTypeOK
<1>5. CASE SetFont \/ OpenTty \/ SetMode \/ WriteCtrl
  <2>1. vcon' \in {"tty", "mode", "ctrl", "file", "ok", "err"}
    BY <1>5 DEF SetFont, OpenTty, SetMode, WriteCtrl, ConsoleGoto
  <2>2. vcon \in {"font", "tty", "mode", "ctrl"}
    BY <1>5 DEF SetFont, OpenTty, SetMode, WriteCtrl
  <2>3. /\ vcon' = "ok" => console.file = None
        /\ vcon' \in {"mode", "ctrl", "file"} => console.file # None
    BY <1>5 DEF SetFont, OpenTty, SetMode, WriteCtrl, ConsoleGoto, ConsoleInv, EndInv
  <2>4. EndInv'
    BY <1>1, <2>1, <2>2, <2>3 DEF ConsoleInv, EndInv
  <2>. QED  BY <1>1, <1>4, <2>1, <2>4, OutsideLoops
<1>6. CASE ReadKeymap
  <2>1. /\ vcon = "file" /\ console.file \in {"bad", "keymap"}
        /\ vcon' = CASE console.file = "bad" -> "err"
                     [] console.file = "keymap" /\ FileLen < NrKeymaps -> "panic"
                     [] console.file = "keymap" /\ FileLen >= NrKeymaps -> "keys"
    BY <1>2, <1>6, ConsoleAssumption
       DEF ReadKeymap, ConsoleGoto, ConsoleInv, EndInv, None
  <2>2. \/ vcon' = "err"
        \/ vcon' = "panic" /\ FileLen < NrKeymaps
        \/ vcon' = "keys" /\ FileLen >= NrKeymaps
    BY <1>2, <2>1
  <2>3. pos = NrKeymaps
    BY <1>2, <2>1, RankZero, Sizes DEF ConsoleInv, EndInv, LoopInv, PlaceOf
  <2>4. vcon' = "panic" => ~ WholeFile
    BY <1>2, <2>2 DEF WholeFile
  <2>5. vcon' = "keys" => ReadSoFar
    BY <2>2, <2>3 DEF ReadSoFar
  <2>6. EndInv'
    BY <1>1, <1>3, <2>1, <2>2, <2>4, <2>5 DEF EndInv, ConsoleInv, None
  <2>. QED  BY <1>1, <1>4, <2>2, <2>6, OutsideLoops
<1>. QED
  BY <1>5, <1>6

(* The loops are over, or broken off. *)
LEMMA LoopEnds ==
  ASSUME ConsoleInv, SetKeyErr \/ SetKeyPanics \/ KeymapLoaded
  PROVE  ConsoleInv'
<1>1. UNCHANGED <<console, keys, table, key, pos, keyboard>>
  BY DEF SetKeyErr, SetKeyPanics, KeymapLoaded, ConsoleGoto
<1>2. /\ console \in Consoles /\ key \in Key /\ pos = PlaceOf(table, key)
      /\ vcon = "keys" /\ console.file # None /\ ReadSoFar
      /\ keyboard \in {None, "unicode", "xlate"} /\ pos \in Nat
  BY DEF ConsoleInv, ConsoleTypeOK, LoopInv, EndInv, SetKeyErr, SetKeyPanics, KeymapLoaded, AtKey
<1>3. UNCHANGED <<FileLen, Enabled, WholeFile, ReadSoFar>>
  BY <1>1, KeymapStays DEF ReadSoFar
<1>4. CASE SetKeyErr
  <2>1. vcon' = "err"
    BY <1>4 DEF SetKeyErr, ConsoleGoto
  <2>. QED  BY <1>1, <1>2, <2>1, OutsideLoops DEF EndInv
<1>5. CASE SetKeyPanics
  <2>1. vcon' = "panic" /\ table \in Enabled /\ pos >= FileLen
    BY <1>5 DEF SetKeyPanics, ConsoleGoto, AtKey
  <2>2. pos <= LastPlace
    BY <1>2, <2>1, PlaceBounded
  <2>3. LastPlace \in Int /\ FileLen \in Nat
    BY <1>2, Sizes, EnabledFinite DEF LastPlace
  <2>4. ~ WholeFile
    BY <1>2, <2>1, <2>2, <2>3 DEF WholeFile
  <2>5. EndInv'
    BY <1>1, <1>2, <1>3, <2>1, <2>4 DEF EndInv
  <2>. QED  BY <1>1, <1>2, <2>1, <2>5, OutsideLoops
<1>6. CASE KeymapLoaded
  <2>1. vcon' = "ok" /\ table = NrKeymaps
    BY <1>6 DEF KeymapLoaded, ConsoleGoto
  <2>2. EndInv'
    BY <1>1, <1>2, <1>3, <2>1 DEF EndInv
  <2>. QED  BY <1>1, <1>2, <2>1, <2>2, OutsideLoops
<1>. QED
  BY <1>4, <1>5, <1>6

LEMMA SkipTableStep ==
  ASSUME ConsoleInv, SkipTable
  PROVE  ConsoleInv'
<1>1. /\ console \in Consoles /\ vcon = "keys" /\ table \in Table /\ table \notin Enabled
      /\ table' = table + 1 /\ key = 0 /\ pos = PlaceOf(table, 0)
      /\ UNCHANGED <<console, vcon, keyboard, keys, key, pos>>
  BY Sizes DEF ConsoleInv, ConsoleTypeOK, LoopInv, SkipTable, Table
<1>2. table \in Nat /\ table + 1 \in 0..NrKeymaps /\ NrKeymaps \in Nat /\ 0 \in Key
  BY <1>1, Sizes DEF Table, Key
<1>3. ConsoleTypeOK'
  BY <1>1, <1>2 DEF ConsoleInv, ConsoleTypeOK
<1>4. pos' = PlaceOf(table', key')
  BY <1>1, <1>2, PlaceNext
<1>5. ASSUME NEW i \in Table, NEW j \in Key
      PROVE  i \in Enabled /\ Passed(i, j)' <=> i \in Enabled /\ Passed(i, j)
  <2>1. i \in Nat /\ j \in Nat
    BY <1>1, Sizes DEF Table, Key
  <2>. QED  BY <1>1, <1>2, <2>1 DEF Passed
<1>6. KeysSet'
  <2>1. Enabled' = Enabled /\ keys' = keys
    BY <1>1, KeymapStays
  <2>2. KeysSet
    BY DEF ConsoleInv, LoopInv
  <2>. QED  BY <1>5, <2>1, <2>2 DEF KeysSet
<1>7. (pos = PlaceOf(table, key))'
  BY <1>1, <1>4, KeymapStays DEF PlaceOf, Rank
<1>8. LoopInv'
  BY <1>1, <1>6, <1>7, KeymapStays DEF LoopInv
<1>9. EndInv'
  BY <1>1, KeymapStays DEF ConsoleInv, EndInv, ReadSoFar
<1>. QED
  BY <1>3, <1>8, <1>9 DEF ConsoleInv

LEMMA SetKeyStep ==
  ASSUME ConsoleInv, SetKey
  PROVE  ConsoleInv'
<1>1. /\ console \in Consoles /\ vcon = "keys" /\ table \in Table /\ table \in Enabled
      /\ key \in Key /\ pos = PlaceOf(table, key) /\ pos < FileLen
      /\ keys \in [Table -> [Key -> -1..(WordSize - 1)]]
      /\ UNCHANGED <<console, vcon, keyboard>>
  BY Sizes DEF ConsoleInv, ConsoleTypeOK, LoopInv, SetKey, AtKey, Table
<1>2. /\ keys' = [keys EXCEPT ![table][key] = ValueAt(pos)]
      /\ pos' = pos + 2
      /\ key' = (key + 1) % NrKeys
      /\ table' = IF key + 1 = NrKeys THEN table + 1 ELSE table
  BY DEF SetKey
<1>3. /\ table \in Nat /\ table < NrKeymaps /\ key \in Nat /\ key < NrKeys
      /\ NrKeymaps \in Nat /\ NrKeys \in Nat \ {0} /\ WordSize \in Nat \ {0}
      /\ pos \in Nat /\ pos >= NrKeymaps /\ FileLen \in Nat /\ ReadSoFar
      /\ console.keymap.base \in Nat
  BY <1>1, Sizes, PlaceNext DEF Table, Key, ConsoleInv, EndInv
\* The next key: of the same table, or the first of the next table.
<1>4. \/ key + 1 < NrKeys /\ key' = key + 1 /\ table' = table
      \/ key + 1 = NrKeys /\ key' = 0 /\ table' = table + 1
  <2>1. CASE key + 1 < NrKeys
    BY <1>2, <1>3, <2>1
  <2>2. CASE key + 1 = NrKeys
    <3>1. NrKeys % NrKeys = 0
      BY <1>3
    <3>. QED  BY <1>2, <2>2, <3>1
  <2>. QED  BY <1>3, <2>1, <2>2
<1>5. ValueAt(pos) \in 0..(WordSize - 1)
  BY <1>3 DEF ValueAt
<1>6. keys' \in [Table -> [Key -> -1..(WordSize - 1)]]
  <2>1. ValueAt(pos) \in -1..(WordSize - 1)
    BY <1>3, <1>5
  <2>. QED  BY <1>1, <1>2, <2>1
<1>7. ConsoleTypeOK'
  <2>1. key' \in Key
    BY <1>3, <1>4 DEF Key
  <2>2. table' \in 0..NrKeymaps /\ pos' \in Nat
    BY <1>2, <1>3, <1>4
  <2>. QED  BY <1>1, <1>6, <2>1, <2>2 DEF ConsoleInv, ConsoleTypeOK
<1>8. pos' = PlaceOf(table', key')
  <2>1. pos' = PlaceOf(table, key + 1)
    BY <1>1, <1>2, PlaceNext
  <2>2. CASE key + 1 < NrKeys /\ key' = key + 1 /\ table' = table
    BY <2>1, <2>2
  <2>3. CASE key + 1 = NrKeys /\ key' = 0 /\ table' = table + 1
    BY <1>1, <2>1, <2>3, PlaceNext
  <2>. QED  BY <1>4, <2>2, <2>3
<1>9. (pos = PlaceOf(table, key))'
  BY <1>1, <1>8, KeymapStays DEF PlaceOf, Rank
<1>10. (table \notin Enabled => key = 0)'
  BY <1>1, <1>4, KeymapStays
\* The key just set is the only one that has been passed since.
<1>11. ASSUME NEW i \in Table, NEW j \in Key
       PROVE  Passed(i, j)' <=> Passed(i, j) \/ (i = table /\ j = key)
  <2>1. i \in Nat /\ j \in Nat /\ j < NrKeys
    BY <1>3 DEF Table, Key
  <2>. QED  BY <1>3, <1>4, <2>1 DEF Passed
<1>12. KeysSet'
  <2>1. Enabled' = Enabled
    BY <1>1, KeymapStays
  <2>. SUFFICES ASSUME NEW i \in Table, NEW j \in Key
                PROVE  keys'[i][j] # Untouched <=> i \in Enabled /\ Passed(i, j)'
    BY <2>1 DEF KeysSet
  <2>2. CASE i = table /\ j = key
    <3>1. keys'[i][j] = ValueAt(pos)
      BY <1>1, <1>2, <2>2
    <3>2. ValueAt(pos) # Untouched
      BY <1>3, <1>5 DEF Untouched
    <3>. QED  BY <1>1, <1>11, <2>2, <3>1, <3>2
  <2>3. CASE ~ (i = table /\ j = key)
    <3>1. keys'[i][j] = keys[i][j]
      BY <1>1, <1>2, <2>3
    <3>. QED  BY <1>11, <2>3, <3>1 DEF ConsoleInv, LoopInv, KeysSet
  <2>. QED  BY <2>2, <2>3
<1>13. EndInv'
  <2>1. ReadSoFar'
    <3>1. UNCHANGED FileLen
      BY <1>1, KeymapStays
    <3>2. pos' - 2 = pos
      BY <1>2, <1>3
    <3>. QED  BY <1>1, <1>3, <3>1, <3>2 DEF ReadSoFar
  <2>. QED  BY <1>1, <2>1 DEF ConsoleInv, EndInv
<1>. QED
  BY <1>7, <1>9, <1>10, <1>12, <1>13 DEF ConsoleInv, LoopInv

LEMMA ConsoleSteps == ConsoleInv /\ ConsoleStep => ConsoleInv'
  BY EarlySteps_Inv, LoopEnds, SkipTableStep, SetKeyStep DEF ConsoleStep

LEMMA ConsoleStays == ConsoleInv /\ UNCHANGED vconVars => ConsoleInv'
<1>. SUFFICES ASSUME ConsoleInv, UNCHANGED vconVars PROVE ConsoleInv'
  OBVIOUS
<1>. USE DEF vconVars
<1>1. ConsoleTypeOK'
  BY DEF ConsoleInv, ConsoleTypeOK
<1>2. LoopInv'
  BY KeymapStays DEF ConsoleInv, LoopInv, KeysSet, Passed
<1>3. EndInv'
  BY KeymapStays DEF ConsoleInv, EndInv, ReadSoFar
<1>. QED
  BY <1>1, <1>2, <1>3 DEF ConsoleInv

(* What the invariant is for. *)
LEMMA PanicsOnShort ==
  ASSUME ConsoleInv
  PROVE  PanicsIffShort
<1>1. console \in Consoles /\ NrKeymaps \in Nat
  BY Sizes DEF ConsoleInv, ConsoleTypeOK
<1>2. vcon = "panic" => ~ WholeFile
  BY DEF ConsoleInv, EndInv
<1>3. ASSUME vcon = "ok", console.file # None
      PROVE  WholeFile /\ table = NrKeymaps
  <2>1. ReadSoFar /\ table = NrKeymaps
    BY <1>3 DEF ConsoleInv, EndInv
  <2>2. NrKeymaps \notin Enabled
    BY <1>1, Sizes DEF Table
  <2>3. pos = PlaceOf(NrKeymaps, 0)
    BY <2>1, <2>2 DEF ConsoleInv, LoopInv
  <2>4. Enabled # {} => pos - 2 = LastPlace /\ pos > NrKeymaps
    BY <1>1, <2>3, PlaceAtEnd
  <2>. QED  BY <1>1, <2>1, <2>4 DEF ReadSoFar, WholeFile
<1>4. ASSUME vcon = "ok", console.file # None, NEW i \in Table, NEW j \in Key
      PROVE  keys[i][j] # Untouched <=> i \in Enabled
  <2>1. table = NrKeymaps
    BY <1>3, <1>4
  <2>2. Passed(i, j)
    BY <1>1, <2>1 DEF Passed, Table
  <2>. QED  BY <2>2 DEF ConsoleInv, LoopInv, KeysSet
<1>. QED
  BY <1>2, <1>3, <1>4 DEF PanicsIffShort, WholeFile
=============================================================================
