------------------------------ MODULE GraphQLLint ------------------------------
(***************************************************************************)
(* `devbase lint graphql` (cmd/devbase/lint_graphql.go, internal/graphql): *)
(* one lint of the schema in the working tree and, with --diff, a second   *)
(* lint of the same files as they were at the merge-base, whose violations *)
(* are taken off the first's.                                              *)
(*                                                                         *)
(* A lint is a pipeline.  The schema is parsed as a whole and the first    *)
(* Tier 1 error ends the lint; the rules that scripts/devbase.yaml enables *)
(* run; a rule that a file reconfigures in an "eslint" comment runs again  *)
(* and its results replace that file's; the native "devbase-lint-"         *)
(* comments take violations away, remembering which comment was of use;    *)
(* the comments that were of none, or malformed, are reported; and the     *)
(* "eslint-" comments take away more.                                      *)
(*                                                                         *)
(* A source file is a sequence of lines.  A line may hold a token of code  *)
(* (a name or a one-line description), the pairs <<rule, options>> under   *)
(* which that token violates a rule, and one comment, alone or trailing.   *)
(***************************************************************************)
EXTENDS Naturals, Sequences, FiniteSets, FiniteSetsExt

CONSTANTS
    Rules,      \* the Tier 2 and Tier 3 rules (configurableRules)
    Worlds      \* the working trees, merge-bases and configurations linted

VARIABLES
    world,      \* the trees, the configuration and the flags; never changes
    tree,       \* the tree being linted: "working", then "base"
    phase,      \* the stage of the lint
    violations, \* the violations the lint holds at this stage
    todo,       \* what the stage has still to go through
    used,       \* <<file, line, rule>>: comments that suppressed a violation
    shadowed,   \* <<file, line, rule>>: comments beaten to one by another
    working,    \* the violations of the working tree, kept for --diff
    exit        \* "running", "0" or "1"

vars == <<world, tree, phase, violations, todo, used, shadowed, working, exit>>

Invalid == "invalid-suppression"
Unused == "unused-suppression"
KnownTypeNames == "known-type-names"
UniqueTypeNames == "unique-type-names"
Tier1 == {KnownTypeNames, UniqueTypeNames}

\* The rules whose violations no comment takes away.
Unsuppressible == Tier1 \cup {Invalid, Unused}

ASSUME RulesAssumption == Rules \cap Unsuppressible = {}

Severities == {"unset", "off", "warn", "error"}

\* A line's code and comment; a comment sets a severity or a bad one.
IsLine(line) ==
    LET c == line.comment
    IN /\ line = [code |-> line.code, item |-> line.item, violates |-> line.violates, comment |-> c]
       /\ c = [kind |-> c.kind, names |-> c.names, reason |-> c.reason,
               severity |-> c.severity, options |-> c.options]
       /\ c.kind = "eslint" => c.severity \in {"off", "warn", "error", "bad"}

\* A file is a sequence of lines.
IsFile(lines) ==
    /\ Len(lines) \in Nat /\ DOMAIN lines = 1 .. Len(lines)
    /\ \A i \in DOMAIN lines : IsLine(lines[i])

\* The types a document defines and refers to, and its lines.
IsSource(source) ==
    /\ source = [operations |-> source.operations, defines |-> source.defines,
                 refers |-> source.refers, lines |-> source.lines]
    /\ source.operations \in BOOLEAN

ASSUME WorldAssumption ==
    \A w \in Worlds :
        /\ \A r \in Rules : w.rules[r] \in [severity : Severities, options : {w.rules[r].options}]
        /\ \A f \in DOMAIN w.working : IsSource(w.working[f]) /\ IsFile(w.working[f].lines)
        /\ \A f \in DOMAIN w.base : IsSource(w.base[f]) /\ IsFile(w.base[f].lines)

-----------------------------------------------------------------------------
(* The sources of a lint.                                                   *)

AtMergeBase_AllFiles == world.base

\* With --diff, the files found in the working tree as the merge-base had
\* them; a file the working tree no longer has is not read.
AtMergeBase ==
    [f \in DOMAIN world.working \cap DOMAIN world.base |-> world.base[f]]

\* A document of operations is no part of the schema.
WithoutOperationDocuments(files) ==
    [f \in {f \in DOMAIN files : ~files[f].operations} |-> files[f]]

Sources == WithoutOperationDocuments(
               IF tree = "working" THEN world.working ELSE AtMergeBase)

Undefined(sources, f) ==
    sources[f].refers \ UNION {sources[g].defines : g \in DOMAIN sources}

Redefined(sources, f) ==
    \E g \in DOMAIN sources \ {f} : sources[g].defines \cap sources[f].defines # {}

\* The Tier 1 errors of a schema; a lint reports one of them.
ParseErrors(sources) ==
    {<<f, KnownTypeNames>> : f \in {f \in DOMAIN sources : Undefined(sources, f) # {}}}
    \cup {<<f, UniqueTypeNames>> : f \in {f \in DOMAIN sources : Redefined(sources, f)}}

Violation(f, rule, line, message) ==
    [file |-> f, rule |-> rule, line |-> line, message |-> message]

\* The violations of one rule under one configuration, over all the schema.
RunRule(sources, rule, options) ==
    UNION {{Violation(f, rule, i, <<sources[f].lines[i].item, {}, "">>) :
                i \in {i \in DOMAIN sources[f].lines :
                           <<rule, options>> \in sources[f].lines[i].violates}} :
           f \in DOMAIN sources}

Enabled(config) == config.severity \notin {"unset", "off"}

RunRules(sources, rules) ==
    UNION {RunRule(sources, r, rules[r].options) : r \in {r \in Rules : Enabled(rules[r])}}

-----------------------------------------------------------------------------
(* "# eslint <rule>: <config>" comments.                                    *)

Comment(lines, i) == lines[i].comment

\* The comments that configure the rule; one with a bad value is no comment.
ConfigComments(lines, rule) ==
    {i \in DOMAIN lines : /\ Comment(lines, i).kind = "eslint"
                          /\ Comment(lines, i).names = {rule}
                          /\ Comment(lines, i).severity # "bad"}

\* The rules a file configures for itself, the last comment for one winning.
EslintConfigComments(lines) ==
    [r \in {r \in Rules : ConfigComments(lines, r) # {}} |->
        LET c == Comment(lines, Max(ConfigComments(lines, r)))
        IN [severity |-> c.severity, options |-> c.options]]

Overridden(sources, v) == v.rule \in DOMAIN EslintConfigComments(sources[v.file].lines)

\* One group for each configuration that some files give a rule.
Groups(sources) ==
    LET overrides(f) == EslintConfigComments(sources[f].lines)
        pairs == UNION {{<<r, overrides(f)[r]>> : r \in DOMAIN overrides(f)} : f \in DOMAIN sources}
    IN {[rule |-> p[1], config |-> p[2],
         files |-> {f \in DOMAIN sources : /\ p[1] \in DOMAIN overrides(f)
                                           /\ overrides(f)[p[1]] = p[2]}] : p \in pairs}

-----------------------------------------------------------------------------
(* Native suppression comments.                                             *)

NativeKinds == {"disable", "enable", "disable-next-line", "disable-line", "unknown"}
IsNative(lines, i) == Comment(lines, i).kind \in NativeKinds
Alone(lines, i) == lines[i].code = "none"

\* A "# Why:" block directly above, broken by code, a blank line or another
\* directive.
WhyReason(lines, i) ==
    \E k \in 1 .. i - 1 :
        /\ Comment(lines, k).kind = "why"
        /\ \A j \in k .. i - 1 : /\ Alone(lines, j)
                                 /\ Comment(lines, j).kind # "none"
                                 /\ ~IsNative(lines, j)

AcceptsWhy(lines, i) ==
    Alone(lines, i) /\ Comment(lines, i).kind \in {"disable", "disable-next-line"}

HasReason(lines, i) ==
    Comment(lines, i).reason \/ (AcceptsWhy(lines, i) /\ WhyReason(lines, i))

\* A directive that suppresses nothing and is reported instead.
Problems(lines, i) ==
    LET c == Comment(lines, i)
    IN \/ c.kind = "unknown"
       \/ c.kind # "enable" /\ (c.names = {} \/ ~HasReason(lines, i))
       \/ ~(c.names \subseteq Rules)

Valid(lines, i) == IsNative(lines, i) /\ ~Problems(lines, i)

NextCode(lines, i) == {j \in DOMAIN lines : j > i /\ ~Alone(lines, j)}

\* The lines a disable-next-line at i covers: the next, and the name below a
\* description that starts there.
NextLineTargets(lines, i) ==
    {i + 1} \cup (IF /\ i + 1 \in DOMAIN lines
                     /\ lines[i + 1].code = "description"
                     /\ NextCode(lines, i + 1) # {}
                  THEN {Min(NextCode(lines, i + 1))}
                  ELSE {})

Targets(lines, i) ==
    CASE Comment(lines, i).kind = "disable-line" -> {i}
      [] Comment(lines, i).kind = "disable-next-line" -> NextLineTargets(lines, i)
      [] OTHER -> {}

\* The directives for one line that silence the rule on it.
LineDirectives(lines, rule, line) ==
    {i \in DOMAIN lines : /\ Valid(lines, i)
                          /\ rule \in Comment(lines, i).names
                          /\ line \in Targets(lines, i)}

\* The range directives before the line that speak of the rule; an enable
\* that names none speaks of every rule.
RangeDirectives(lines, rule, line) ==
    {i \in DOMAIN lines :
        /\ i < line /\ Valid(lines, i)
        /\ LET c == Comment(lines, i)
           IN \/ c.kind = "disable" /\ rule \in c.names
              \/ c.kind = "enable" /\ (c.names = {} \/ rule \in c.names)}

\* The disable in force for the rule on the line, if there is one: the latest
\* of them, unless that is an enable.
ActiveBy(lines, rule, line) ==
    LET ranges == RangeDirectives(lines, rule, line)
    IN {i \in ranges : Comment(lines, i).kind = "disable" /\ \A j \in ranges : j <= i}

Covering(lines, rule, line) ==
    LineDirectives(lines, rule, line) \cup ActiveBy(lines, rule, line)

\* The directive that gets the credit: a line directive before a range one.
FirstCovering(lines, rule, line) ==
    IF LineDirectives(lines, rule, line) # {}
    THEN Min(LineDirectives(lines, rule, line))
    ELSE Min(ActiveBy(lines, rule, line))

-----------------------------------------------------------------------------
(* "# eslint-disable" comments.                                             *)

\* The comments before the line that speak of the rule: those that name it
\* and those that name none, which reset every rule.
Speaks(lines, rule, line) ==
    {i \in DOMAIN lines : /\ i < line
                          /\ Comment(lines, i).kind \in {"eslint-disable", "eslint-enable"}
                          /\ Comment(lines, i).names = {} \/ rule \in Comment(lines, i).names}

Suppresses(lines, rule, line) ==
    \/ /\ line - 1 \in DOMAIN lines
       /\ Comment(lines, line - 1).kind = "eslint-disable-next-line"
       /\ Comment(lines, line - 1).names = {} \/ rule \in Comment(lines, line - 1).names
    \/ /\ Speaks(lines, rule, line) # {}
       /\ Comment(lines, Max(Speaks(lines, rule, line))).kind = "eslint-disable"

-----------------------------------------------------------------------------
(* The report.                                                              *)

KeyOf(v) == <<v.file, v.rule, v.message>>
Count(vs, key) == Cardinality({v \in vs : KeyOf(v) = key})

New_Sets(baseline, current) ==
    {v \in current : Count(baseline, KeyOf(v)) = 0}

\* The occurrences of a violation in excess of the baseline's.
New(baseline, current) ==
    {v \in current :
        Cardinality({u \in current : KeyOf(u) = KeyOf(v) /\ u.line < v.line})
            >= Count(baseline, KeyOf(v))}

SeverityOf(rule) ==
    IF rule \in Rules /\ world.rules[rule].severity # "unset"
    THEN world.rules[rule].severity ELSE "error"

ExitCode(vs) == IF \E v \in vs : SeverityOf(v.rule) = "error" THEN "1" ELSE "0"

-----------------------------------------------------------------------------
(* The lint, a stage at a time.                                             *)

Init ==
    /\ world \in Worlds
    /\ tree = "working"
    /\ phase = "parse"
    /\ violations = {} /\ todo = {}
    /\ used = {} /\ shadowed = {}
    /\ working = {}
    /\ exit = "running"

\* parseAndValidate stops at a Tier 1 error: which one is gqlparser's choice.
ParseFails ==
    /\ phase = "parse"
    /\ \E e \in ParseErrors(Sources) :
           violations' = {Violation(e[1], e[2], 0, <<"schema", {}, "">>)}
    /\ phase' = "report"
    /\ UNCHANGED <<world, tree, todo, used, shadowed, working, exit>>

\* The schema parses: every enabled rule runs, and what a file has
\* reconfigured for itself is dropped from its violations.
RunAllRules ==
    /\ phase = "parse"
    /\ ParseErrors(Sources) = {}
    /\ violations' = {v \in RunRules(Sources, world.rules) : ~Overridden(Sources, v)}
    /\ todo' = Groups(Sources)
    /\ phase' = "reconfigure"
    /\ UNCHANGED <<world, tree, used, shadowed, working, exit>>

RerunRule_KeepAll(g) ==
    /\ phase = "reconfigure"
    /\ g \in todo
    /\ todo' = todo \ {g}
    /\ violations' = violations \cup
           (IF g.config.severity = "off"
            THEN {} ELSE RunRule(Sources, g.rule, g.config.options))
    /\ UNCHANGED <<world, tree, phase, used, shadowed, working, exit>>

\* The rule of a group runs again over the schema, under the files' own
\* configuration, and the results for those files are kept.
RerunRule(g) ==
    /\ phase = "reconfigure"
    /\ g \in todo
    /\ todo' = todo \ {g}
    /\ violations' = violations \cup
           (IF g.config.severity = "off"
            THEN {}
            ELSE {v \in RunRule(Sources, g.rule, g.config.options) : v.file \in g.files})
    /\ UNCHANGED <<world, tree, phase, used, shadowed, working, exit>>

Reconfigured ==
    /\ phase = "reconfigure"
    /\ todo = {}
    /\ todo' = violations
    /\ phase' = "suppress"
    /\ UNCHANGED <<world, tree, violations, used, shadowed, working, exit>>

SuppressedBy_CreditAll(v) ==
    /\ phase = "suppress"
    /\ v \in todo
    /\ todo' = todo \ {v}
    /\ LET lines == Sources[v.file].lines
           covering == Covering(lines, v.rule, v.line)
       IN IF covering = {}
          THEN UNCHANGED <<violations, used, shadowed>>
          ELSE /\ violations' = violations \ {v}
               /\ used' = used \cup {<<v.file, i, v.rule>> : i \in covering}
               /\ UNCHANGED shadowed
    /\ UNCHANGED <<world, tree, phase, working, exit>>

\* suppressedBy for one violation: a directive that covers it takes it away
\* and gets the credit; the others that cover it are shadowed.
SuppressedBy(v) ==
    /\ phase = "suppress"
    /\ v \in todo
    /\ todo' = todo \ {v}
    /\ LET lines == Sources[v.file].lines
           covering == Covering(lines, v.rule, v.line)
           first == FirstCovering(lines, v.rule, v.line)
       IN IF covering = {}
          THEN UNCHANGED <<violations, used, shadowed>>
          ELSE /\ violations' = violations \ {v}
               /\ used' = used \cup {<<v.file, first, v.rule>>}
               /\ shadowed' = shadowed \cup
                      {<<v.file, i, v.rule>> : i \in covering \ {first}}
    /\ UNCHANGED <<world, tree, phase, working, exit>>

\* The malformed directives of a file and, of the others, the rules named
\* for nothing.
SuppressionDiagnostics(f) ==
    LET lines == Sources[f].lines
        malformed == {i \in DOMAIN lines : IsNative(lines, i) /\ Problems(lines, i)}
        disables == {i \in DOMAIN lines : Valid(lines, i) /\ Comment(lines, i).kind # "enable"}
        Hint(i, r) == IF <<f, i, r>> \in shadowed THEN "shadowed" ELSE "unused"
    IN (IF Invalid \in world.off THEN {} ELSE
           {Violation(f, Invalid, i, <<Comment(lines, i).kind, Comment(lines, i).names, "">>) :
               i \in malformed})
       \cup
       (IF Unused \in world.off THEN {} ELSE
           UNION {{Violation(f, Unused, i, <<Comment(lines, i).kind, {r}, Hint(i, r)>>) :
                       r \in {r \in Comment(lines, i).names : <<f, i, r>> \notin used}} :
                  i \in disables})

\* The directives have been tried on every violation: their own diagnostics
\* join the violations, and the "eslint-" comments are applied.
WithoutSuppressed ==
    /\ phase = "suppress"
    /\ todo = {}
    /\ violations' =
           {v \in violations \cup UNION {SuppressionDiagnostics(f) : f \in DOMAIN Sources} :
               \/ v.rule \in Unsuppressible
               \/ ~Suppresses(Sources[v.file].lines, v.rule, v.line)}
    /\ phase' = "report"
    /\ UNCHANGED <<world, tree, todo, used, shadowed, working, exit>>

\* --diff: the working tree is linted; the merge-base's files are next.
ReadMergeBase ==
    /\ phase = "report"
    /\ tree = "working" /\ world.diff /\ world.hasBase
    /\ working' = violations
    /\ tree' = "base"
    /\ phase' = "parse"
    /\ violations' = {} /\ used' = {} /\ shadowed' = {}
    /\ UNCHANGED <<world, todo, exit>>

\* A shallow clone, or no common ancestor: the command fails.
NoMergeBase ==
    /\ phase = "report"
    /\ tree = "working" /\ world.diff /\ ~world.hasBase
    /\ violations' = {}
    /\ exit' = "1"
    /\ phase' = "done"
    /\ UNCHANGED <<world, tree, todo, used, shadowed, working>>

ReportViolations ==
    /\ phase = "report"
    /\ tree = "base" \/ ~world.diff
    /\ violations' = IF world.diff THEN New(violations, working) ELSE violations
    /\ exit' = ExitCode(violations')
    /\ phase' = "done"
    /\ UNCHANGED <<world, tree, todo, used, shadowed, working>>

Done == phase = "done" /\ UNCHANGED vars

Next ==
    \/ ParseFails
    \/ RunAllRules
    \/ \E g \in todo : RerunRule(g)
    \/ Reconfigured
    \/ \E v \in todo : SuppressedBy(v)
    \/ WithoutSuppressed
    \/ ReadMergeBase
    \/ NoMergeBase
    \/ ReportViolations
    \/ Done

Spec == Init /\ [][Next]_vars

-----------------------------------------------------------------------------
(* What a lint should report, said of the lines and not of the stages.      *)

Finished == exit # "running"

\* The configuration a file's violations of a rule answer to: its own last
\* comment's, or that of scripts/devbase.yaml.
InForce(lines, rule, config) ==
    \/ ConfigComments(lines, rule) = {} /\ config = world.rules[rule]
    \/ \E i \in ConfigComments(lines, rule) :
          /\ \A j \in ConfigComments(lines, rule) : j <= i
          /\ config.severity = Comment(lines, i).severity
          /\ config.options = Comment(lines, i).options

Configurations(options) == [severity : Severities, options : options]

Violates(lines, rule, i) ==
    \E config \in Configurations({p[2] : p \in lines[i].violates}) :
        /\ InForce(lines, rule, config)
        /\ Enabled(config)
        /\ <<rule, config.options>> \in lines[i].violates

EnabledAgain(lines, kind, rule, d, i) ==
    \E e \in d + 1 .. i - 1 :
        /\ Comment(lines, e).kind = kind
        /\ Comment(lines, e).names = {} \/ rule \in Comment(lines, e).names
        /\ IsNative(lines, e) => Valid(lines, e)

\* A directive at d names the rule and speaks of line i: of its own line, of
\* the next one, of the name below the description there, or of all that
\* follow until an enable.
SilencedNatively(lines, rule, i) ==
    \E d \in DOMAIN lines :
        /\ Valid(lines, d)
        /\ rule \in Comment(lines, d).names
        /\ CASE Comment(lines, d).kind = "disable-line" -> i = d
             [] Comment(lines, d).kind = "disable-next-line" ->
                    \/ i = d + 1
                    \/ /\ i > d + 1 /\ lines[d + 1].code = "description"
                       /\ ~Alone(lines, i)
                       /\ \A j \in d + 2 .. i - 1 : Alone(lines, j)
             [] Comment(lines, d).kind = "disable" ->
                    d < i /\ ~EnabledAgain(lines, "enable", rule, d, i)
             [] OTHER -> FALSE

SilencedByEslint(lines, rule, i) ==
    \E d \in 1 .. i - 1 :
        /\ Comment(lines, d).names = {} \/ rule \in Comment(lines, d).names
        /\ \/ Comment(lines, d).kind = "eslint-disable-next-line" /\ i = d + 1
           \/ /\ Comment(lines, d).kind = "eslint-disable"
              /\ ~EnabledAgain(lines, "eslint-enable", rule, d, i)

\* The violations of the rules that stand on the lines of these files.
Standing(files) ==
    LET sources == WithoutOperationDocuments(files)
    IN UNION {UNION {{Violation(f, r, i, <<sources[f].lines[i].item, {}, "">>) :
                          i \in {i \in DOMAIN sources[f].lines :
                                     /\ Violates(sources[f].lines, r, i)
                                     /\ ~SilencedNatively(sources[f].lines, r, i)
                                     /\ ~SilencedByEslint(sources[f].lines, r, i)}} :
                     r \in Rules} : f \in DOMAIN sources}

\* Those that a lint of these files reports: of a schema that parses.
Expected(files) ==
    IF ParseErrors(WithoutOperationDocuments(files)) # {} THEN {} ELSE Standing(files)

\* The malformed directives a lint reports, whatever else the files say.
ExpectedInvalid(files) ==
    LET sources == WithoutOperationDocuments(files)
    IN IF ParseErrors(sources) # {} \/ Invalid \in world.off THEN {} ELSE
       UNION {{<<f, i>> : i \in {i \in DOMAIN sources[f].lines :
                                    /\ IsNative(sources[f].lines, i)
                                    /\ Problems(sources[f].lines, i)}} : f \in DOMAIN sources}

NoComment == [kind |-> "none", names |-> {}, reason |-> FALSE, severity |-> "none", options |-> "none"]

\* The files with every rule name that was reported unused taken out of its
\* comment, and with it the comment that no longer names one.
Cleaned(files, vs) ==
    [f \in DOMAIN files |-> [files[f] EXCEPT !.lines =
        [i \in DOMAIN files[f].lines |->
            LET line == files[f].lines[i]
                names == line.comment.names \ UNION {v.message[2] :
                            v \in {v \in vs : v.rule = Unused /\ v.file = f /\ v.line = i}}
            IN IF names = line.comment.names THEN line
               ELSE IF names = {} THEN [line EXCEPT !.comment = NoComment]
               ELSE [line EXCEPT !.comment.names = names]]]]

\* The directive is the one that takes some violation of the rule away.
IsOfUse(lines, d, rule) ==
    \E i \in DOMAIN lines : /\ Violates(lines, rule, i)
                            /\ Covering(lines, rule, i) # {}
                            /\ FirstCovering(lines, rule, i) = d

AllOfUse(files) ==
    LET sources == WithoutOperationDocuments(files)
    IN \A f \in DOMAIN sources : \A d \in DOMAIN sources[f].lines :
           Valid(sources[f].lines, d) /\ Comment(sources[f].lines, d).kind # "enable"
               => \A r \in Comment(sources[f].lines, d).names : IsOfUse(sources[f].lines, d, r)

-----------------------------------------------------------------------------
(* Properties.                                                              *)

\* The stages hold violations and groups of the shapes the code gives them.
TypeOK ==
    /\ tree \in {"working", "base"}
    /\ phase \in {"parse", "reconfigure", "suppress", "report", "done"}
    /\ exit \in {"running", "0", "1"}
    /\ \A v \in violations \cup working :
          /\ v.file \in DOMAIN world.working
          /\ v.rule \in Rules \cup Unsuppressible
          /\ v.line \in Nat
    /\ \A u \in used \cup shadowed : u[1] \in DOMAIN Sources /\ u[3] \in Rules

\* The report is exactly the violations that the configuration in force in
\* each file finds on a line and that no comment speaks for, and the
\* malformed directives: no comment leaks into another file or rule or past
\* the comment that ends it, and none hides a diagnostic (FilesFromSources).
ReportsExactly ==
    (Finished /\ ~world.diff) =>
        /\ {v \in violations : v.rule \in Rules} = Expected(world.working)
        /\ {<<v.file, v.line>> : v \in {v \in violations : v.rule = Invalid}}
               = ExpectedInvalid(world.working)

\* Whoever deletes all that is reported unused sees no violation appear, and
\* is told of nothing more to delete (suppressedBy, suppressionDiagnostics).
DeletingUnusedIsSafe ==
    (Finished /\ ~world.diff /\ Unused \notin world.off) =>
        LET cleaned == Cleaned(world.working, violations)
        IN /\ Expected(cleaned) = Expected(world.working)
           /\ ParseErrors(WithoutOperationDocuments(cleaned)) = {} => AllOfUse(cleaned)

Compared == Finished /\ world.diff /\ world.hasBase

\* How many more of a violation the working tree has than there were before.
Excess(before, key) ==
    LET now == Count(Expected(world.working), key)
        past == Count(before, key)
    IN IF now > past THEN now - past ELSE 0

\* --diff hides no violation that the files of the merge-base did not have,
\* not even one more of a violation they did have (diffViolations, New).
DiffMissesNothing ==
    Compared => \A v \in Expected(world.working) :
                    Count(violations, KeyOf(v)) >= Excess(Standing(world.base), KeyOf(v))

\* --diff reports only violations not present at the merge-base
\* (cmd/devbase/lint_graphql.go:41).
DiffOnlyNew ==
    Compared => \A v \in violations :
                    v.rule \in Rules =>
                        Count(violations, KeyOf(v)) <= Excess(Expected(world.base), KeyOf(v))

\* --diff reports what is new and, as long as every schema file of the
\* merge-base is still there, nothing else.
DiffIsExact ==
    /\ DiffMissesNothing
    /\ DOMAIN world.base \subseteq DOMAIN world.working => DiffOnlyNew
=============================================================================
