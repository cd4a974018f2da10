----------------------------- MODULE RootSource -----------------------------
(***************************************************************************)
(* What root= and resume= name: PartitionSourceBuilder::parse of mount.rs, *)
(* and EfiPartitionGptGuid, which stands in for a missing root=.  A value  *)
(* is a sequence of tokens: a prefix that parse looks for, a slash, a      *)
(* quote, a UUID, a number, or any other text.                             *)
(***************************************************************************)
EXTENDS Integers, SequencesExt

CONSTANTS
  Uuid,    \* the tokens uuid::Uuid::from_str accepts (external)
  Number   \* the tokens i64::from_str accepts (external)

ASSUME RootSourceAssumption == "/PARTNROFF=" \notin Uuid

(* A PartitionSourceBuilder: its variant, and what it is built from. *)
Source(kind, name) == [kind |-> kind, name |-> name]
NoSource == Source("none", <<>>)

ByDisk(what) == <<"/dev/", what>>

(* The arms of _parse in their order: the prefixes of each. *)
Arms == <<
  [kind |-> "uuid",      prefixes |-> <<<<"UUID=">>, ByDisk("disk/by-uuid")>>],
  [kind |-> "label",     prefixes |-> <<<<"LABEL=">>, ByDisk("disk/by-label")>>],
  [kind |-> "partnroff", prefixes |-> <<<<"PARTUUID=">>>>],
  [kind |-> "partuuid",  prefixes |-> <<ByDisk("disk/by-partuuid")>>],
  [kind |-> "partlabel", prefixes |-> <<<<"PARTLABEL=">>, ByDisk("disk/by-partlabel")>>],
  [kind |-> "raw",       prefixes |-> <<<<"/dev/">>>>]>>

After(v, n) == SubSeq(v, n + 1, Len(v))

\* (Variant: the quotes stay where they are.)
Unquoted_Kept(text) == text

Quote == "\""

(* uuid_from_str takes off quotes if there are two. *)
Unquoted(text) ==
  IF Len(text) >= 2 /\ text[1] = Quote /\ text[Len(text)] = Quote
    THEN SubSeq(text, 2, Len(text) - 1) ELSE text

(* parse_uuid, parse_partuuid *)
ParseUuid(kind, text) ==
  IF \E u \in Uuid : Unquoted(text) = <<u>> THEN Source(kind, Unquoted(text)) ELSE NoSource

(* split_once at the first /PARTNROFF=, and both parts must be well formed. *)
ParsePartnroff(text) ==
  LET places == {k \in DOMAIN text : text[k] = "/PARTNROFF="}
      at == Min(places)
      uuid == ParseUuid("partuuid", SubSeq(text, 1, at - 1))
  IN CASE places = {} -> ParseUuid("partuuid", text)
       [] places # {} /\ uuid # NoSource /\ (\E n \in Number : After(text, at) = <<n>>) ->
            Source("partnroff", uuid.name \o After(text, at))
       [] OTHER -> NoSource

ParseText(kind, v, text) ==
  CASE kind \in {"uuid", "partuuid"}   -> ParseUuid(kind, text)
    [] kind \in {"label", "partlabel"} -> Source(kind, text)
    [] kind = "partnroff"              -> ParsePartnroff(text)
    [] kind = "raw"                    -> Source(kind, v)

(* _parse: the first arm with a prefix of the value decides. *)
Parse(v) ==
  LET fits(a) == {i \in DOMAIN Arms[a].prefixes : IsPrefix(Arms[a].prefixes[i], v)}
      fitting == {a \in DOMAIN Arms : fits(a) # {}}
      a == Min(fitting)
      p == Arms[a].prefixes[Min(fits(a))]
  IN IF fitting = {} THEN NoSource ELSE ParseText(Arms[a].kind, v, After(v, Len(p)))

(***************************************************************************)
(* EfiPartitionGptGuid::get_current: the variable LoaderDevicePartUUID.    *)
(* `len` counts its bytes, the four of the attributes among them, -1 if it *)
(* cannot be read; `text` is what its UTF-16 says, <<>> where that is none. *)
(***************************************************************************)
(* Where autodiscover_root ends: `&data[..4]` panics on a shorter file, and *)
(* the whole text must be a UUID, without a NUL behind it.                 *)
GetCurrent(var) ==
  CASE var.len = -1     -> "failed"
    [] var.len \in 0..3 -> "panicked"
    [] OTHER -> IF \E u \in Uuid : var.text = <<u>> THEN "found" ELSE "failed"

(***************************************************************************)
(* What the documentation of parse promises (mount.rs:124-144).            *)
(***************************************************************************)
(* The links of /dev/disk, documented as well.  Their prefixes lack the     *)
(* slash at the end: a UUID behind one is never well formed, and a label   *)
(* gets a slash in front.                                                  *)
IsLink(v) ==
  \E d \in {"disk/by-uuid", "disk/by-label", "disk/by-partuuid", "disk/by-partlabel"} :
    IsPrefix(ByDisk(d), v)

(* One way to write each source down, up to the quotes around a UUID. *)
Spelt(s, quoted) ==
  LET id == IF quoted THEN <<Quote, s.name[1], Quote>> ELSE <<s.name[1]>> IN
  CASE s.kind = "uuid"      -> <<"UUID=">> \o id
    [] s.kind = "partuuid"  -> <<"PARTUUID=">> \o id
    [] s.kind = "partnroff" -> <<"PARTUUID=">> \o id \o <<"/PARTNROFF=", s.name[2]>>
    [] s.kind = "label"     -> <<"LABEL=">> \o s.name
    [] s.kind = "partlabel" -> <<"PARTLABEL=">> \o s.name

(* What the value v is documented to name. *)
Meanings(v) ==
  LET sources == [kind : {"uuid", "partuuid"}, name : {<<u>> : u \in Uuid}]
                   \cup [kind : {"partnroff"}, name : {<<u, n>> : u \in Uuid, n \in Number}]
                   \cup [kind : {"label", "partlabel"}, name : {After(v, 1)}]
  IN {s \in sources : \E q \in BOOLEAN : v = Spelt(s, q)}
       \cup IF IsPrefix(<<"/dev/">>, v) THEN {Source("raw", v)} ELSE {}
=============================================================================
