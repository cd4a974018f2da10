----------------------------- MODULE MCCmdline -----------------------------
(***************************************************************************)
(* Command lines for TLC: all sequences of up to three arguments from a    *)
(* set that has every arm of parse_inner, with and without a value, and    *)
(* for each field two values that compete for it; and longer ones of the   *)
(* arguments that matter to the log.                                       *)
(***************************************************************************)
EXTENDS Cmdline

With(key, words) == [key |-> key, given |-> TRUE, words |-> words]
Bare(key) == [key |-> key, given |-> FALSE, words |-> <<>>]

(* The words of root= and resume=.  Others are a single token. *)
Disk(d, id) == ByDisk(d) \o <<"/", id>>
Quoted(u) == <<"\"", u, "\"">>
RootWords ==
  [uuid |-> <<"UUID=", "u1">>, uuidq |-> <<"UUID=">> \o Quoted("u1"),
   halfq |-> <<"UUID=", "\"", "u1">>, nouuid |-> <<"UUID=", "label">>,
   byuuid |-> Disk("disk/by-uuid", "u1"),
   label |-> <<"LABEL=", "label">>, labelq |-> <<"LABEL=">> \o Quoted("label"),
   nolabel |-> <<"LABEL=">>, bylabel |-> Disk("disk/by-label", "label"),
   part |-> <<"PARTUUID=", "u2">>, partq |-> <<"PARTUUID=">> \o Quoted("u2"),
   bypart |-> Disk("disk/by-partuuid", "u2"),
   off |-> <<"PARTUUID=", "u2", "/PARTNROFF=", "1">>,
   offq |-> <<"PARTUUID=">> \o Quoted("u2") \o <<"/PARTNROFF=", "1">>,
   badoff |-> <<"PARTUUID=", "u2", "/PARTNROFF=", "one">>,
   twooff |-> <<"PARTUUID=", "u2", "/PARTNROFF=", "1", "/PARTNROFF=", "1">>,
   noid |-> <<"PARTUUID=", "/PARTNROFF=", "1">>,
   partlabel |-> <<"PARTLABEL=", "label">>,
   bypartlabel |-> Disk("disk/by-partlabel", "label"),
   sda |-> <<"/dev/", "sda">>, sdb |-> <<"/dev/", "sdb">>,
   byid |-> Disk("disk/by-id", "ata"), nodev |-> <<"sda">>]
MCWord == {"debug", "err", "console", "noise", "sda", "sdb", "x", "noatime",
           "atime", "discard", "nosymfollow", "snd-hda", "snd_hda", "a=1", "b=2"}
          \cup DOMAIN RootWords

MCSpelling == RootWords @@ [w \in MCWord \ DOMAIN RootWords |-> <<w>>]

(* No variable, an empty file, a UUID, and one with a NUL behind it. *)
MCEfiVars ==
  {[len |-> -1, text |-> <<>>], [len |-> 0, text |-> <<>>],
   [len |-> 76, text |-> <<"u1">>], [len |-> 78, text |-> <<"u1", "NUL">>]}
MCNormal == [m \in {"snd-hda", "snd_hda"} |-> "snd_hda"]

(* What competes for the same field. *)
Competing ==
  {With("ignited.log", <<"noise">>), With("booster.log", <<"console", "err", "debug">>),
   Bare("booster.debug"), Bare("quiet"),
   With("root", <<"sda">>), With("root", <<"sdb">>), With("root", <<"x">>),
   With("resume", <<"sda">>), With("resume", <<"sdb">>), Bare("resume"),
   With("init", <<"sda">>), With("init", <<"x">>),
   With("rootfstype", <<"x">>), Bare("rootfstype"),
   With("rootflags", <<"noatime", "discard">>),
   With("rootflags", <<"atime", "nosymfollow", "x">>),
   Bare("ro"), Bare("rw"), Bare("rd.luks.uuid"),
   With("param", <<"snd-hda", "a=1">>), With("param", <<"snd_hda", "b=2">>),
   Bare("other")}

(* What sets the level, and what is reported; up to four of them. *)
Logging ==
  {With("ignited.log", <<"debug">>), With("ignited.log", <<"console">>),
   Bare("ignited.log"), Bare("quiet"), With("root", <<"sda">>), Bare("other")}

LinesOf(arguments, n) == UNION {[1..k -> arguments] : k \in 1..n}
ShortLines == LinesOf(Competing, 3)
LogLines == LinesOf(Logging, 4)

(* Any two root= and resume=. *)
RootLines == LinesOf({With(k, <<w>>) : k \in {"root", "resume"}, w \in DOMAIN RootWords}, 2)
AllLines == ShortLines \cup LogLines \cup RootLines
=============================================================================
