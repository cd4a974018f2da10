------------------------------ MODULE Cmdline ------------------------------
(***************************************************************************)
(* The kernel command line (CmdlineArgs of config.rs, RootOptsBuilder of   *)
(* mount.rs) and the log it starts with (KConsole and KmsgBuf of           *)
(* early_logging).  An argument is a record: `key` is what its key selects *)
(* in the match of parse_inner ("param" for any key with a dot and "other" *)
(* for any without, when no arm names it), `given` says whether there is   *)
(* an `=`, and `words` is the value, split as its parser splits it.        *)
(***************************************************************************)
EXTENDS Integers, SequencesExt, RootSource

CONSTANTS
  Lines,    \* the command lines: non-empty sequences of arguments
  Word,     \* what a value is made of
  Spelling, \* the tokens a word of root= or resume= consists of
  EfiVars,  \* what the variable LoaderDevicePartUUID may hold
  Normal,   \* normalize_module: the name a module of a parameter is filed under
  Burst     \* messages the kernel takes from one open of /dev/kmsg (external)

Keys == {"ignited.log", "booster.log", "booster.debug", "quiet", "root",
         "resume", "init", "rootfstype", "rootflags", "ro", "rw",
         "rd.luks.options", "rd.luks.name", "rd.luks.uuid", "param", "other"}

Argument == [key : Keys, given : BOOLEAN, words : Seq(Word)]

None == "none"

(* PartitionSourceBuilder::PartType, which no value of root= stands for. *)
Autodiscovered == "autodiscovered"

(* What `init`, `root` and the like are followed by: one word.  A parameter *)
(* has two, its module and the text kept for it.                           *)
Single == {"root", "resume", "init", "rootfstype"}

ASSUME CmdlineAssumption ==
  /\ Lines \subseteq Seq(Argument) \ {<<>>}
  /\ \A l \in Lines : \A i \in DOMAIN l :
       /\ l[i].key \in Single /\ l[i].given => Len(l[i].words) = 1
       /\ l[i].key = "param" /\ l[i].given =>
            Len(l[i].words) = 2 /\ l[i].words[1] \in DOMAIN Normal
  /\ {None, Autodiscovered} \cap Word = {}
  /\ Spelling \in [Word -> Seq(STRING)]
  /\ Burst \in Nat

(* The words PartitionSourceBuilder::parse accepts. *)
Sources == {w \in Word : Parse(Spelling[w]) # NoSource}

(* VerbosityLevel, and the words that select one. *)
Crit == 2  Err == 3  Warn == 4  Info == 6  Debug == 7
Levels == 2..7
Unset == 0
LevelOf == [debug |-> Debug, info |-> Info, notice |-> 5, warn |-> Warn,
            warning |-> Warn, err |-> Err, error |-> Err]

(* The words of `rootflags` that set a mount flag, and those that clear one. *)
Inserts == [dirsync |-> "DIRSYNC", lazytime |-> "LAZYTIME",
            noatime |-> "NOATIME", nodev |-> "NODEV",
            nodiratime |-> "NODIRATIME", noexec |-> "NOEXEC",
            nosuid |-> "NOSUID", relatime |-> "RELATIME",
            silent |-> "SILENT", strictatime |-> "STRICTATIME",
            sync |-> "SYNCHRONOUS"]
Removes == [nolazytime |-> "LAZYTIME", atime |-> "NOATIME", dev |-> "NODEV",
            diratime |-> "NODIRATIME", exec |-> "NOEXEC", suid |-> "NOSUID",
            norelatime |-> "RELATIME", nostrictatime |-> "STRICTATIME",
            async |-> "SYNCHRONOUS"]
MountFlags == {Inserts[w] : w \in DOMAIN Inserts}
Ignored == {"nosymfollow"}
Known == DOMAIN Inserts \cup DOMAIN Removes \cup Ignored

(* The elements of s at the indices I, in their order. *)
Chosen(s, I) ==
  LET chosen[n \in 0..Len(s)] ==
        IF n = 0 THEN <<>>
        ELSE IF n \in I THEN Append(chosen[n - 1], s[n]) ELSE chosen[n - 1]
  IN chosen[Len(s)]

VARIABLES
  line,       \* /proc/cmdline, split at its spaces
  pos,        \* the argument the loop of parse_inner is at
  stage,      \* where parse_current is, and how it ended
  level,      \* verbosity_level
  args,       \* the CmdlineArgs being built, its RootOptsBuilder included
  buffer,     \* KmsgBuf::inner_buf
  threshold,  \* current_level of the console of the main thread
  devkmsg,    \* /proc/sys/kernel/printk_devkmsg (external)
  kmsg        \* the messages the kernel has taken (external)

vars == <<line, pos, stage, level, args, buffer, threshold, devkmsg, kmsg>>

Modules == {Normal[m] : m \in DOMAIN Normal}

Init ==
  /\ line \in Lines
  /\ pos = 1 /\ stage = "args" /\ level = Unset
  /\ args = [init |-> None, resume |-> None, source |-> None, fstype |-> None,
             rw |-> FALSE, flags |-> {}, options |-> <<>>,
             params |-> [m \in Modules |-> <<>>]]
  /\ buffer = <<>> /\ kmsg = <<>>
  /\ threshold = Info
  /\ devkmsg \in {"on", "ratelimit"}

(***************************************************************************)
(* parse_inner: one action per parser, each a turn of its loop.            *)
(***************************************************************************)
Arg == line[pos]

(* The loop is at an argument with one of these keys. *)
At(keys) == stage = "args" /\ pos <= Len(line) /\ Arg.key \in keys

Message(l, i) == [level |-> l, at |-> i]

(* The loop goes on, with messages of these levels put in the buffer. *)
Advance(levels) ==
  /\ pos' = pos + 1
  /\ buffer' = buffer \o [k \in DOMAIN levels |-> Message(levels[k], pos)]
  /\ UNCHANGED <<line, stage, threshold, devkmsg, kmsg>>

(* The `?` of the loop, or a panic: the buffer is dropped as it is. *)
Abort(how) ==
  /\ stage' = how
  /\ UNCHANGED <<line, pos, level, args, buffer, threshold, devkmsg, kmsg>>

\* (Variant: the last value counts.)
GetOrInsert_Replaces(old, new) == new

(* Option::get_or_insert *)
GetOrInsert(old, new) == IF old = None THEN new ELSE old

\* (Variant: `verbosity_level = Some(level)`.)
LevelAfter_LastCounts(old, words) ==
  LET after[n \in 0..Len(words)] ==
        IF n = 0 THEN old
        ELSE IF words[n] \in DOMAIN LevelOf THEN LevelOf[words[n]] ELSE after[n - 1]
  IN after[Len(words)]

(* The first word that is a level counts, unless a level is set already. *)
LevelAfter(old, words) ==
  LET after[n \in 0..Len(words)] ==
        IF n = 0 THEN old
        ELSE IF after[n - 1] = Unset /\ words[n] \in DOMAIN LevelOf
               THEN LevelOf[words[n]] ELSE after[n - 1]
  IN after[Len(words)]

(* The words of ignited.log= that are no level. *)
Odd(words) == Chosen(words, {k \in DOMAIN words : words[k] \notin DOMAIN LevelOf})

ParseLog ==
  /\ At({"ignited.log", "booster.log"})
  /\ level' = IF Arg.given THEN LevelAfter(level, Arg.words) ELSE level
  /\ Advance(IF Arg.given
               THEN [k \in DOMAIN Odd(Arg.words) |->
                       IF Odd(Arg.words)[k] = "console" THEN Debug ELSE Warn]
               ELSE <<Warn>>)
  /\ UNCHANGED args

ParseBoosterDebug ==
  /\ At({"booster.debug"})
  /\ level' = IF level = Unset THEN Debug ELSE level
  /\ Advance(<<Debug>>)
  /\ UNCHANGED args

ParseQuiet ==
  /\ At({"quiet"})
  /\ level' = IF level = Unset THEN Err ELSE level
  /\ Advance(<<>>)
  /\ UNCHANGED args

(* parse_root, parse_resume, parse_init and parse_rootfstype keep the first *)
(* value in a field of `args`, if it can be parsed; without one they warn. *)
Keep(key, field, valid) ==
  /\ At({key})
  /\ Arg.given /\ Arg.words[1] \in valid
  /\ args' = [args EXCEPT ![field] = GetOrInsert(@, Arg.words[1])]
  /\ Advance(<<>>)
  /\ UNCHANGED level

ParseRoot == Keep("root", "source", Sources)
ParseResume == Keep("resume", "resume", Sources)
ParseInit == Keep("init", "init", Word)
ParseRootfstype == Keep("rootfstype", "fstype", Word)

\* (Variant: get_or_insert_with, a root that does not count is not parsed.)
ParseFails_Lazy ==
  /\ At({"root", "resume"})
  /\ Arg.given /\ Arg.words[1] \notin Sources
  /\ IF Arg.key = "root" /\ args.source # None
       THEN Advance(<<>>) /\ UNCHANGED <<level, args>>
       ELSE Abort("failed")

(* The value is parsed before it is known whether it counts. *)
ParseFails ==
  /\ At({"root", "resume"})
  /\ Arg.given /\ Arg.words[1] \notin Sources
  /\ Abort("failed")

\* (Variant: the key counts as the value when there is none.)
KeyIsEmpty_KeyAsValue ==
  /\ At(Single \cup {"rootflags"})
  /\ ~ Arg.given
  /\ args' = [args EXCEPT !.resume = GetOrInsert(@, Arg.key)]
  /\ Advance(<<Warn>>)
  /\ UNCHANGED level

KeyIsEmpty ==
  /\ At(Single \cup {"rootflags"})
  /\ ~ Arg.given
  /\ Advance(<<Warn>>)
  /\ UNCHANGED <<level, args>>

\* (Variant: the arms that remove a flag are missing.)
AddOpt_NeverClears(root, w) ==
  CASE w \in DOMAIN Inserts -> [root EXCEPT !.flags = @ \cup {Inserts[w]}]
    [] w \in Ignored -> root
    [] OTHER -> [root EXCEPT !.options = Append(@, w)]

(* _add_opts: an option sets or clears a flag, or is passed on. *)
AddOpt(root, w) ==
  CASE w \in DOMAIN Inserts -> [root EXCEPT !.flags = @ \cup {Inserts[w]}]
    [] w \in DOMAIN Removes -> [root EXCEPT !.flags = @ \ {Removes[w]}]
    [] w \in Ignored -> root
    [] OTHER -> [root EXCEPT !.options = Append(@, w)]

(* What _add_opts works on. *)
RootOpts == [flags |-> args.flags, options |-> args.options]

AddOpts(root, words) ==
  LET added[n \in 0..Len(words)] ==
        IF n = 0 THEN root ELSE AddOpt(added[n - 1], words[n])
  IN added[Len(words)]

ParseRootflags ==
  /\ At({"rootflags"})
  /\ Arg.given
  /\ args' = [args EXCEPT !.flags = AddOpts(RootOpts, Arg.words).flags,
                          !.options = AddOpts(RootOpts, Arg.words).options]
  /\ Advance(<<>>)
  /\ UNCHANGED level

ParseRootmode ==
  /\ At({"ro", "rw"})
  /\ args' = [args EXCEPT !.rw = (Arg.key = "rw")]
  /\ Advance(<<>>)
  /\ UNCHANGED level

(* parse_luksopts, parse_luksname, parse_luksuuid: todo!(). *)
ParseLuks ==
  /\ At({"rd.luks.options", "rd.luks.name", "rd.luks.uuid"})
  /\ Abort("panicked")

\* (Variant: or_insert() drops the second parameter of a module.)
ParseModParam_FirstOnly ==
  /\ At({"param"})
  /\ Arg.given
  /\ args' = [args EXCEPT !.params[Normal[Arg.words[1]]] =
                             IF @ = <<>> THEN <<Arg.words[2]>> ELSE @]
  /\ Advance(<<>>)
  /\ UNCHANGED level

ParseModParam ==
  /\ At({"param"})
  /\ Arg.given
  /\ args' = [args EXCEPT !.params[Normal[Arg.words[1]]] = Append(@, Arg.words[2])]
  /\ Advance(<<>>)
  /\ UNCHANGED level

InvalidKey ==
  /\ At({"param", "other"})
  /\ Arg.key = "param" => ~ Arg.given
  /\ Advance(<<Warn>>)
  /\ UNCHANGED <<level, args>>

(***************************************************************************)
(* The rest of parse_current.                                              *)
(***************************************************************************)
(* devkmsg_write (external): "ratelimit" counts per open of /dev/kmsg; the *)
(* parsing is over long before the five seconds after which it forgets.    *)
(* Under "off" /dev/kmsg cannot be opened, and main has opened it.         *)
Taken(msgs) ==
  IF devkmsg = "on" \/ Burst - Len(kmsg) >= Len(msgs)
    THEN msgs
    ELSE SubSeq(msgs, 1, Burst - Len(kmsg))

(* KConsole::println of each of the messages, under threshold l. *)
PrintLn(l, msgs) ==
  kmsg' = kmsg \o Taken(Chosen(msgs, {k \in DOMAIN msgs : msgs[k].level <= l}))

Go(next) == stage' = next /\ UNCHANGED <<line, pos, level, buffer>>

\* (Variant: the buffer is printed before the level is set.)
FlushWithLevel_PrintsFirst ==
  /\ stage = "args" /\ pos > Len(line)
  /\ threshold' = IF level = Unset THEN Info ELSE level
  /\ PrintLn(threshold, buffer)
  /\ stage' = "flushed" /\ buffer' = <<>>
  /\ UNCHANGED <<line, pos, level, args, devkmsg>>

(* flush_with_level: the level is set first, then the buffer is printed. *)
FlushWithLevel ==
  /\ stage = "args" /\ pos > Len(line)
  /\ threshold' = IF level = Unset THEN Info ELSE level
  /\ PrintLn(threshold', buffer)
  /\ stage' = "flushed" /\ buffer' = <<>>
  /\ UNCHANGED <<line, pos, level, args, devkmsg>>

HasRoot ==
  /\ stage = "flushed" /\ args.source # None
  /\ Go("throttle")
  /\ UNCHANGED <<args, threshold, devkmsg, kmsg>>

(* autodiscover_root says what it does, and looks for the EFI partition. *)
AutodiscoverRoot ==
  /\ stage = "flushed" /\ args.source = None
  /\ PrintLn(threshold, <<Message(Info, 0)>>)
  /\ \E var \in EfiVars :
       \/ /\ GetCurrent(var) = "found" /\ Go("throttle")
          /\ args' = [args EXCEPT !.source = Autodiscovered]
       \/ GetCurrent(var) # "found" /\ Go(GetCurrent(var)) /\ UNCHANGED args
  /\ UNCHANGED <<threshold, devkmsg>>

(* disable_throttling_on_verbose; its error is only logged.  It fails, for  *)
(* one, where printk.devkmsg= has locked the setting (external).           *)
DisableThrottling ==
  /\ stage = "throttle"
  /\ \/ /\ threshold = Debug
        /\ devkmsg' = "on" /\ UNCHANGED kmsg
     \/ threshold # Debug /\ UNCHANGED <<devkmsg, kmsg>>
     \/ /\ threshold = Debug /\ UNCHANGED devkmsg
        /\ PrintLn(threshold, <<Message(Info, 0)>>)
  /\ Go("done")
  /\ UNCHANGED <<args, threshold>>

ParseInner ==
  \/ ParseLog \/ ParseBoosterDebug \/ ParseQuiet
  \/ ParseRoot \/ ParseResume \/ ParseInit \/ ParseRootfstype
  \/ ParseFails \/ KeyIsEmpty
  \/ ParseRootflags \/ ParseRootmode \/ ParseLuks
  \/ ParseModParam \/ InvalidKey

Next ==
  \/ ParseInner
  \/ FlushWithLevel \/ HasRoot \/ AutodiscoverRoot \/ DisableThrottling

Spec == Init /\ [][Next]_vars

(***************************************************************************)
(* Properties.                                                             *)
(***************************************************************************)
TypeOK ==
  /\ line \in Lines /\ pos \in 1..(Len(line) + 1)
  /\ stage \in {"args", "flushed", "throttle", "done", "failed", "panicked"}
  /\ level \in Levels \cup {Unset}
  /\ args \in [init : Word \cup {None}, resume : Sources \cup {None},
               source : Sources \cup {None, Autodiscovered},
               fstype : Word \cup {None}, rw : BOOLEAN, flags : SUBSET MountFlags,
               options : Seq(Word), params : [Modules -> Seq(Word)]]
  /\ buffer \in Seq([level : Levels, at : Nat]) /\ threshold \in Levels
  /\ devkmsg \in {"on", "ratelimit"}
  /\ kmsg \in Seq([level : Levels, at : Nat])

(* The arguments the loop is through with. *)
Read == 1..(pos - 1)

Names(a, key) == a.key = key /\ a.given

(* v is the value of the first of the first n arguments of l that has this  *)
(* key and a value, or None when there is none.                            *)
IsFirst(v, key, l, n) ==
  \/ /\ v = None
     /\ \A i \in 1..n : ~ Names(l[i], key)
  \/ \E i \in 1..n : /\ Names(l[i], key) /\ v = l[i].words[1]
                     /\ \A j \in 1..(i - 1) : ~ Names(l[j], key)

(* The source that a root= has set. *)
GivenSource == IF args.source = Autodiscovered THEN None ELSE args.source

(* Of several init=, root=, resume= and rootfstype= the first one counts,  *)
(* and the root is discovered only when no root= says which one it is      *)
(* (get_or_insert in config.rs and mount.rs, and config.rs:362).           *)
FirstWins ==
  /\ IsFirst(args.init, "init", line, pos - 1)
  /\ IsFirst(args.resume, "resume", line, pos - 1)
  /\ IsFirst(args.fstype, "rootfstype", line, pos - 1)
  /\ IsFirst(GivenSource, "root", line, pos - 1)

(* The level an argument sets if none is set: the first it names, if any. *)
LevelBy(a) ==
  LET named == {k \in DOMAIN a.words : a.words[k] \in DOMAIN LevelOf} IN
  CASE a.key = "quiet" -> Err
    [] a.key = "booster.debug" -> Debug
    [] a.key \in {"ignited.log", "booster.log"} /\ a.given /\ named # {} ->
         LevelOf[a.words[Min(named)]]
    [] OTHER -> Unset

FirstLevel(n) ==
  LET setting == {i \in 1..n : LevelBy(line[i]) # Unset}
  IN IF setting = {} THEN Unset ELSE LevelBy(line[Min(setting)])

(* "The first parameter that sets a verbosity level takes precedence"       *)
(* (parse_quiet), whichever of the four ways of setting it is used and also *)
(* inside of one booster.log.                                              *)
FirstLevelWins == level = FirstLevel(pos - 1)

(* All words of the rootflags= among the first n arguments, in order. *)
Options(n) ==
  LET words[i \in 0..Len(line)] ==
        IF i = 0 THEN <<>>
        ELSE words[i - 1] \o IF Names(line[i], "rootflags") THEN line[i].words ELSE <<>>
  IN words[n]

Sets(w, f) == w \in DOMAIN Inserts /\ Inserts[w] = f
Clears(w, f) == w \in DOMAIN Removes /\ Removes[w] = f

(* A mount flag is set exactly when the last of these words that is about  *)
(* it sets it; every other option is there once and in order.              *)
Reflects(root, words) ==
  /\ \A f \in MountFlags :
       LET about == {k \in DOMAIN words : Sets(words[k], f) \/ Clears(words[k], f)}
       IN f \in root.flags <=> \E k \in about : Sets(words[k], f) /\ \A j \in about : j <= k
  /\ root.options = Chosen(words, {k \in DOMAIN words : words[k] \notin Known})

(* _add_opts and parse_rootmode: what counts of a mount flag is the last    *)
(* word about it, over all rootflags=, and of ro and rw the last one.      *)
LastOptionWins ==
  /\ Reflects(RootOpts, Options(pos - 1))
  /\ args.rw <=> \E i \in Read : /\ line[i].key = "rw"
                               /\ \A j \in (i + 1)..(pos - 1) : line[j].key # "ro"

(* ModParams: a module gets each of its parameters once and in the order of *)
(* the command line, whether its name is written with dashes or with        *)
(* underscores.                                                            *)
ParamsKept ==
  \A m \in Modules :
    LET mine == Chosen(line, {i \in Read : /\ Names(line[i], "param")
                                           /\ Normal[line[i].words[1]] = m})
    IN args.params[m] = [k \in DOMAIN mine |-> mine[k].words[2]]

Parsed == stage \in {"flushed", "throttle", "done"}

(* A malformed root= or resume= fails the boot even after a good one, which *)
(* alone would count: it is parsed before get_or_insert sees it.           *)
MalformedFails ==
  Parsed => \A i \in DOMAIN line :
              Names(line[i], "root") \/ Names(line[i], "resume") =>
                line[i].words[1] \in Sources

(* A root= or resume= is accepted when it is written as documented, and     *)
(* then names the partition it is documented to name, and one that is not  *)
(* is refused; but for the links of /dev/disk (IsLink).                    *)
SourcesAsDocumented ==
  \A i \in DOMAIN line :
    Names(line[i], "root") \/ Names(line[i], "resume") =>
      LET v == Spelling[line[i].words[1]] IN
      \/ IsLink(v)
      \/ i < pos /\ Meanings(v) = {Parse(v)}
      \/ i >= pos /\ (stage = "failed" /\ i = pos => Meanings(v) = {})

(* The argument is one that parse_inner warns about. *)
Misread(a) ==
  \/ ~ a.given /\ a.key \in Single \cup {"rootflags", "ignited.log", "booster.log", "param"}
  \/ a.key = "other"
  \/ a.key \in {"ignited.log", "booster.log"} /\ a.given
       /\ \E k \in DOMAIN a.words :
            a.words[k] \notin DOMAIN LevelOf \cup {"console"}

Shown(i) == \E k \in DOMAIN kmsg : kmsg[k].at = i

(* KmsgBuf: the level on the command line governs also the messages about   *)
(* the arguments before it.  Each argument not understood is reported, if   *)
(* that level admits it, unless the kernel has had its burst, in the order  *)
(* of the arguments; what the throttling drops is the end.                 *)
WarningsShown ==
  stage = "flushed" =>
    LET l   == IF FirstLevel(Len(line)) = Unset THEN Info ELSE FirstLevel(Len(line))
        due == {i \in DOMAIN line : Misread(line[i]) /\ Warn <= l}
    IN /\ devkmsg = "on" \/ Len(kmsg) < Burst => \A i \in due : Shown(i)
       /\ \A i, j \in due : i < j /\ Shown(j) => Shown(i)
       /\ \A k \in DOMAIN kmsg : kmsg[k].level <= l
       /\ \A j, k \in DOMAIN kmsg : j < k => kmsg[j].at <= kmsg[k].at
=============================================================================
