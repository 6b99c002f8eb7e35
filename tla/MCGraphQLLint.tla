----------------------------- MODULE MCGraphQLLint -----------------------------
(***************************************************************************)
(* Schemas of two files: every file of up to MaxLines lines from a menu,   *)
(* beside one with a violation of its own, and pairs of short trees for    *)
(* --diff.                                                                 *)
(***************************************************************************)
EXTENDS GraphQLLint, TLC

CONSTANT MaxLines \* the length of the file whose lines are enumerated

MCRules == {"naming", "describe"}

Native(kind, names, reason) ==
    [NoComment EXCEPT !.kind = kind, !.names = names, !.reason = reason]
Eslint(kind, names) == Native(kind, names, FALSE)
Configure(rule, severity, options) ==
    [NoComment EXCEPT !.kind = "eslint", !.names = {rule}, !.severity = severity, !.options = options]

Line(code, item, violates, comment) ==
    [code |-> code, item |-> item, violates |-> violates, comment |-> comment]
Only(comment) == Line("none", "", {}, comment)

Naming == {<<"naming", "set">>, <<"naming", "none">>}
Describe == {<<"describe", "set">>}
BadName == Line("name", "x", Naming \cup Describe, NoComment)
StrictName == Line("name", "y", {<<"naming", "set">>}, NoComment)
Description == Line("description", "d", Describe, NoComment)

\* One line of each kind the linter tells apart.
Menu ==
    {BadName, Description,
     [BadName EXCEPT !.comment = Native("disable-line", {"naming"}, TRUE)],
     Only(Native("disable", {"naming", "describe"}, TRUE)),
     Only(Native("disable", {"naming"}, FALSE)),
     Only(Native("disable", {"known-type-names"}, TRUE)),
     Only(Native("disable-next-line", {"naming", "describe"}, TRUE)),
     Only(Native("enable", {"naming"}, FALSE)),
     Only(Native("enable", {}, FALSE)),
     Only([NoComment EXCEPT !.kind = "why"]),
     Only(Eslint("eslint-disable", {})),
     Only(Eslint("eslint-disable", {"naming"})),
     Only(Eslint("eslint-enable", {"naming"})),
     Only(Eslint("eslint-disable-next-line", {})),
     Only(Configure("naming", "error", "none")),
     Only(Configure("naming", "off", "none"))}

Source(lines) == [operations |-> FALSE, defines |-> {}, refers |-> {}, lines |-> lines]
Configured(naming, describe) ==
    "naming" :> [severity |-> naming, options |-> "set"] @@
    "describe" :> [severity |-> describe, options |-> "set"]

\* A file whose violations nobody speaks for.
Other == Source(<<StrictName, BadName>>)

World(before, now, rules, off, diff) ==
    [working |-> now, base |-> before, rules |-> rules, off |-> off,
     diff |-> diff, hasBase |-> TRUE]

LintWorlds ==
    {World(<<>>, "a" :> Source(lines) @@ "b" :> Other, Configured("error", "warn"), {}, FALSE) :
        lines \in UNION {[1 .. n -> Menu] : n \in 1 .. MaxLines}}

\* Longer files of what a native range or next-line comment depends on.
NativeMenu ==
    {BadName, Description,
     [BadName EXCEPT !.comment = Native("disable-line", {"naming"}, TRUE)],
     Only(Native("disable", {"naming"}, TRUE)),
     Only(Native("disable-next-line", {"naming", "describe"}, FALSE)),
     Only(Native("enable", {"naming"}, FALSE)),
     Only([NoComment EXCEPT !.kind = "why"])}

NativeWorlds ==
    {World(<<>>, "a" :> Source(lines) @@ "b" :> Other, Configured("error", "warn"), {}, FALSE) :
        lines \in [1 .. MaxLines + 1 -> NativeMenu]}

\* The configurations that differ, on shorter files.
ConfigWorlds ==
    {World(<<>>, "a" :> Source(lines) @@ "b" :> Other, rules, off, FALSE) :
        lines \in [1 .. 2 -> Menu],
        rules \in {Configured("unset", "error"), Configured("off", "warn")},
        off \in {{}, {Invalid}, {Unused}}}

\* The type T, in a file of its own or not, and a file that refers to it.
Definer == [Source(<<BadName>>) EXCEPT !.defines = {"T"}]
ShortLines == {<<>>, <<StrictName>>, <<StrictName, StrictName>>,
               <<Only(Native("disable-line", {"naming"}, TRUE)), StrictName>>,
               <<Only(Native("disable", {"naming"}, TRUE)), StrictName>>}
Users == {[Source(lines) EXCEPT !.refers = refers] :
              lines \in ShortLines, refers \in {{}, {"T"}}}
Queries == [Source(<<>>) EXCEPT !.operations = TRUE, !.refers = {"T"}]
Trees == {"a" :> user : user \in Users}
         \cup {"a" :> user @@ "b" :> Definer : user \in Users}
         \cup {"a" :> user @@ "b" :> Queries : user \in Users}
         \cup {"a" :> Definer, "a" :> Definer @@ "b" :> Definer}

DiffWorlds ==
    {[World(before, now, Configured("error", "warn"), {}, TRUE) EXCEPT !.hasBase = hasBase] :
        before \in Trees, now \in Trees, hasBase \in BOOLEAN}

AllWorlds == LintWorlds \cup NativeWorlds \cup ConfigWorlds \cup DiffWorlds
=============================================================================
