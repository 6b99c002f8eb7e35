------------------------------ MODULE YqFlags ------------------------------
(***************************************************************************)
(* The command line of `devbase yq` and `devbase tomlq`: the words still   *)
(* to be parsed, what parsing one word does (internal/yq/flags.go,         *)
(* parseFlags), and which flags are recognised but refused (Validate,      *)
(* validateTOML).                                                          *)
(*                                                                         *)
(* A word is a record classified by its spelling: "--" (end), --name       *)
(* (long), --name=value (longeq, its value the text in arg), -abc (short,  *)
(* its letters written as flag names and arg the text glued to the last,   *)
(* if any) or anything else (text), -5 included.  Flags are called by the  *)
(* first of their spellings, into which normalize folds the others.        *)
(***************************************************************************)
EXTENDS Naturals, Sequences, SequencesExt, FiniteSets

None == "none"

BoolFlags == {"raw-output", "yaml-output", "slurp", "in-place", "sort-keys", "version",
              "yaml-roundtrip", "indentless-lists", "from-file", "explicit-start", "xml-output"}

(* --rawfile's binding is parsed like the other three and then refused. *)
MapFlags == {"arg", "argjson", "slurpfile", "rawfile"}

StringFlags == {"grammar-version", "yml-out-ver"}

FlagKind == [f \in BoolFlags \cup MapFlags \cup StringFlags \cup {"width"} |->
               IF f \in BoolFlags THEN "bool" ELSE IF f \in MapFlags THEN "map"
               ELSE IF f = "width" THEN "int" ELSE "string"]

(* Flags yq parses and does not act on, those of another output format,    *)
(* and those that cannot apply when reading TOML.                          *)
Deferred == {"from-file", "rawfile", "width", "explicit-start"} \cup StringFlags
Separate == {"xml-output"}
NotTOML  == {"yaml-output", "yaml-roundtrip", "indentless-lists", "in-place", "width",
             "explicit-start", "xml-output"} \cup StringFlags

(* normalize: the other long spellings of a flag. *)
Normalized(name) == CASE name = "yml-output"    -> "yaml-output"
                      [] name = "yml-roundtrip" -> "yaml-roundtrip"
                      [] name = "indentless"    -> "indentless-lists"
                      [] OTHER                  -> name

(* The parser before its first word: the flags set, the map flags' bindings*)
(* (uses lists every one on the command line, bound those that took), the  *)
(* words that are not flags, whether "--" was seen and the error.          *)
ParserFor(words) == [words |-> words, set |-> {}, bound |-> {}, uses |-> <<>>,
                     rest |-> <<>>, over |-> FALSE, err |-> None]

ParseError(p, e) == [p EXCEPT !.err = e]

(* A faulty variant: one set of names per map flag. *)
Bind_PerFlag(p, use) ==
  LET taken == \E b \in p.bound : b.name = use.name /\ b.flag = use.flag
  IN  [p EXCEPT !.uses = Append(@, use), !.bound = IF taken THEN @ ELSE @ \cup {use}]

(* mapKeys is one set for all map flags: a name is bound once, by the first*)
(* of --arg, --argjson and --slurpfile that names it.                      *)
Bind(p, use) ==
  LET taken == \E b \in p.bound : b.name = use.name
  IN  [p EXCEPT !.uses = Append(@, use), !.bound = IF taken THEN @ ELSE @ \cup {use}]

(* Setting flag f when the words more follow it.  An argument is taken     *)
(* whatever it looks like.                                                 *)
SetFlag(p, f, more) ==
  LET q == [p EXCEPT !.words = more, !.set = @ \cup {f}]
  IN  CASE FlagKind[f] = "bool" -> q
        [] FlagKind[f] # "bool" /\ Len(more) < (IF FlagKind[f] = "map" THEN 2 ELSE 1) ->
             ParseError(p, "expected argument")
        [] FlagKind[f] = "string" /\ more # <<>> ->
             [q EXCEPT !.words = Tail(more), !.set = IF more[1].s = "" THEN @ \ {f} ELSE @]
        [] FlagKind[f] = "int" /\ more # <<>> ->
             IF more[1].s = "number" THEN [q EXCEPT !.words = Tail(more)]
             ELSE ParseError(p, "invalid argument")
        [] FlagKind[f] = "map" /\ Len(more) >= 2 ->
             Bind([q EXCEPT !.words = SubSeq(more, 3, Len(more))],
                  [flag |-> f, name |-> more[1].s, value |-> more[2].s])

(* One word of a cluster: its first letter, and the word left of it. *)
SetShort(p, w, more) ==
  LET f    == Head(w.names)
      left == [w EXCEPT !.names = Tail(@)]
      glue == IF w.arg = None THEN <<>> ELSE <<[t |-> "text", s |-> w.arg]>>
  IN  IF f \notin DOMAIN FlagKind THEN ParseError(p, "unknown flag")
      ELSE IF Len(w.names) > 1 THEN SetFlag(p, f, <<left>> \o more)
      ELSE SetFlag(p, f, glue \o more)

(* One turn of parseFlags' loop. *)
ParseWord(p) ==
  LET w    == Head(p.words)
      more == Tail(p.words)
      f    == Normalized(w.s)
  IN  CASE p.over \/ w.t = "text" -> [p EXCEPT !.words = more, !.rest = Append(@, w.s)]
        [] ~p.over /\ w.t = "end" -> [p EXCEPT !.words = more, !.over = TRUE]
        [] ~p.over /\ w.t \in {"long", "longeq"} /\ f \notin DOMAIN FlagKind -> ParseError(p, "unknown flag")
        [] ~p.over /\ w.t = "long" /\ f \in DOMAIN FlagKind -> SetFlag(p, f, more)
        [] ~p.over /\ w.t = "longeq" /\ f \in DOMAIN FlagKind ->
             IF FlagKind[f] = "bool" THEN ParseError(p, "boolean with argument")
             ELSE SetFlag(p, f, <<[t |-> "text", s |-> w.arg]>> \o more)
        [] ~p.over /\ w.t = "short" -> SetShort(p, w, more)

(* Validate, and for tomlq validateTOML before it. *)
Refusal(fmt, p) ==
  IF p.err # None THEN p.err
  ELSE IF fmt = "toml" /\ p.set \cap NotTOML # {} THEN "not supported by tomlq"
  ELSE IF p.set \cap Deferred # {} THEN "not implemented"
  ELSE IF p.set \cap Separate # {} THEN "separate feature" ELSE None

=============================================================================
