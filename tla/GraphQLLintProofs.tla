--------------------------- MODULE GraphQLLintProofs ---------------------------
(***************************************************************************)
(* What the stages of a lint amount to, for every set of rules, every tree *)
(* of files and every configuration: the groups of reconfigured rules and  *)
(* the violations are gone through in any order, and the outcome is the    *)
(* same, with the same comment credited for each violation taken away.     *)
(*                                                                         *)
(* What a lint reports is then what the configuration in force finds and   *)
(* no comment silences: a search for the comment that counts (the last     *)
(* configuration, the latest range directive, the description's name)      *)
(* finds one exactly if the comments, read without an order of search,     *)
(* have one that applies.                                                  *)
(*                                                                         *)
(* Whoever reads the report may delete the rule names it says are unused:  *)
(* a name that took no violation away covers none that another comment     *)
(* does not cover as well, so the comments that are left silence the same  *)
(* lines, each with some of them to its credit.  And the report of --diff  *)
(* may be taken for what is new: of a violation that the tree has n times  *)
(* and the merge-base's files m times it holds the n - m that come last.   *)
(***************************************************************************)
EXTENDS GraphQLLint, Ranks, SequenceTheorems

(* One run of a rule for the files that give it the same configuration. *)
GroupRun(sources, g) ==
  IF g.config.severity = "off"
  THEN {}
  ELSE {v \in RunRule(sources, g.rule, g.config.options) : v.file \in g.files}

GroupRuns(sources, groups) == UNION {GroupRun(sources, g) : g \in groups}

RunShared(sources, rules) == {v \in RunRules(sources, rules) : ~Overridden(sources, v)}

(* All the violations there are before any comment takes one away. *)
AllRuns(sources, rules) == RunShared(sources, rules) \cup GroupRuns(sources, Groups(sources))
Found == AllRuns(Sources, world.rules)

CoveringOf(sources, v) == Covering(sources[v.file].lines, v.rule, v.line)
FirstOf(sources, v)    == FirstCovering(sources[v.file].lines, v.rule, v.line)
Covered(sources, vs)   == {v \in vs : CoveringOf(sources, v) # {}}
Credits(sources, vs)   == {<<v.file, FirstOf(sources, v), v.rule>> : v \in Covered(sources, vs)}
BeatenOn(sources, v)   ==
  {<<v.file, i, v.rule>> : i \in CoveringOf(sources, v) \ {FirstOf(sources, v)}}
Beaten(sources, vs)    == UNION {BeatenOn(sources, v) : v \in Covered(sources, vs)}

(* A stage under way holds what it has to go through and what it has made  *)
(* of the rest.                                                            *)
Fresh == phase \in {"parse", "reconfigure"} => used = {} /\ shadowed = {}

Reconfiguring ==
  phase = "reconfigure" =>
    /\ todo \subseteq Groups(Sources)
    /\ violations = RunShared(Sources, world.rules) \cup GroupRuns(Sources, Groups(Sources) \ todo)

Suppressing ==
  phase = "suppress" =>
    /\ todo \subseteq Found
    /\ violations = Found \ Covered(Sources, Found \ todo)
    /\ used = Credits(Sources, Found \ todo)
    /\ shadowed = Beaten(Sources, Found \ todo)

(* A lint of a schema that parses reports of the rules exactly what they   *)
(* found and no comment covers, whatever the order, and credits for each   *)
(* violation taken away the first comment that covers it                   *)
(* (withConfigComments, suppressedBy, withoutSuppressed).                  *)
LintsExactly ==
  phase = "report" /\ ParseErrors(Sources) = {} =>
    /\ {v \in violations : v.rule \in Rules} =
         {v \in Found : /\ CoveringOf(Sources, v) = {}
                        /\ ~Suppresses(Sources[v.file].lines, v.rule, v.line)}
    /\ used = Credits(Sources, Found)
    /\ shadowed = Beaten(Sources, Found)

Phases == phase \in {"parse", "reconfigure", "suppress", "report", "done"}

IInv == Phases /\ Fresh /\ Reconfiguring /\ Suppressing /\ LintsExactly

-----------------------------------------------------------------------------
(* Rules find violations of themselves. *)

LEMMA RunRuleFacts ==
  ASSUME NEW sources, NEW rule, NEW options, NEW v \in RunRule(sources, rule, options)
  PROVE  v.rule = rule
<1>1. PICK f, i, message : v = Violation(f, rule, i, message)
  BY Zenon DEF RunRule
<1> QED
  BY <1>1 DEF Violation

LEMMA GroupFacts ==
  ASSUME NEW sources, NEW g \in Groups(sources)
  PROVE  g.rule \in Rules
<1> DEFINE overrides(f) == EslintConfigComments(sources[f].lines)
           pairs == UNION {{<<r, overrides(f)[r]>> : r \in DOMAIN overrides(f)} : f \in DOMAIN sources}
<1>1. \A f : DOMAIN overrides(f) \subseteq Rules
  BY DEF EslintConfigComments
<1>2. \A p \in pairs : p[1] \in Rules
  BY <1>1
<1>3. PICK p \in pairs : g.rule = p[1]
  BY DEF Groups
<1> QED
  BY <1>2, <1>3

LEMMA FoundFacts ==
  ASSUME NEW sources, NEW rules, NEW v \in AllRuns(sources, rules)
  PROVE  v.rule \in Rules
<1>1. CASE v \in RunShared(sources, rules)
  <2>1. PICK r \in Rules : v \in RunRule(sources, r, rules[r].options)
    BY <1>1 DEF RunShared, RunRules
  <2> QED
    BY <2>1, RunRuleFacts
<1>2. CASE v \in GroupRuns(sources, Groups(sources))
  <2>1. PICK g \in Groups(sources) : v \in RunRule(sources, g.rule, g.config.options)
    BY <1>2 DEF GroupRuns, GroupRun
  <2> QED
    BY <2>1, RunRuleFacts, GroupFacts
<1> QED
  BY <1>1, <1>2 DEF AllRuns

LEMMA DiagnosticFacts ==
  ASSUME NEW f, NEW v \in SuppressionDiagnostics(f)
  PROVE  v.rule \in {Invalid, Unused}
<1>1. PICK i, message : v = Violation(f, Invalid, i, message) \/ v = Violation(f, Unused, i, message)
  BY ZenonT(30) DEF SuppressionDiagnostics
<1> QED
  BY <1>1 DEF Violation

-----------------------------------------------------------------------------

LEMMA InitHolds == Init => IInv
BY DEF Init, IInv, Phases, Fresh, Reconfiguring, Suppressing, LintsExactly

(* The sources of a lint stay what they are until the next one starts. *)
LEMMA SourcesStay ==
  UNCHANGED <<world, tree>> => Sources' = Sources /\ Found' = Found
BY DEF Sources, AtMergeBase, Found

(* The rules run: nothing is reconfigured yet. *)
LEMMA RunAllRulesStays == ASSUME IInv, RunAllRules PROVE IInv'
<1>1. /\ phase = "parse" /\ phase' = "reconfigure" /\ Sources' = Sources /\ world' = world
      /\ violations' = RunShared(Sources, world.rules) /\ todo' = Groups(Sources)
      /\ used' = {} /\ shadowed' = {}
  BY SourcesStay DEF RunAllRules, RunShared, IInv, Fresh
<1>2. GroupRuns(Sources, {}) = {}
  BY DEF GroupRuns
<1>3. Reconfiguring'
  BY <1>1, <1>2 DEF Reconfiguring
<1> QED
  BY <1>1, <1>3 DEF IInv, Phases, Fresh, Suppressing, LintsExactly

LEMMA RerunRuleStays == ASSUME IInv, NEW g \in todo, RerunRule(g) PROVE IInv'
<1>1. /\ phase = "reconfigure" /\ phase' = "reconfigure" /\ Sources' = Sources /\ world' = world
      /\ todo' = todo \ {g} /\ violations' = violations \cup GroupRun(Sources, g)
      /\ used' = used /\ shadowed' = shadowed
  BY SourcesStay DEF RerunRule, GroupRun
<1>2. /\ todo \subseteq Groups(Sources)
      /\ violations = RunShared(Sources, world.rules) \cup GroupRuns(Sources, Groups(Sources) \ todo)
  BY <1>1 DEF IInv, Reconfiguring
<1>3. Groups(Sources) \ todo' = (Groups(Sources) \ todo) \cup {g}
  BY <1>1, <1>2
<1>4. GroupRuns(Sources, Groups(Sources) \ todo')
        = GroupRuns(Sources, Groups(Sources) \ todo) \cup GroupRun(Sources, g)
  BY <1>3 DEF GroupRuns
<1>5. Reconfiguring'
  BY <1>1, <1>2, <1>4 DEF Reconfiguring
<1> QED
  BY <1>1, <1>5 DEF IInv, Phases, Fresh, Suppressing, LintsExactly

(* Every group has run: none of its violations has been tried. *)
LEMMA ReconfiguredStays == ASSUME IInv, Reconfigured PROVE IInv'
<1>1. /\ phase = "reconfigure" /\ phase' = "suppress" /\ Sources' = Sources /\ Found' = Found
      /\ todo = {} /\ todo' = violations /\ violations' = violations
      /\ used' = {} /\ shadowed' = {}
  BY SourcesStay DEF Reconfigured, IInv, Fresh
<1>2. violations = Found
  BY <1>1 DEF IInv, Reconfiguring, Found, AllRuns
<1>3. Covered(Sources, {}) = {} /\ Credits(Sources, {}) = {} /\ Beaten(Sources, {}) = {}
  BY DEF Covered, Credits, Beaten
<1>4. Found \ todo' = {}
  BY <1>1, <1>2
<1>5. Suppressing'
  BY <1>1, <1>2, <1>3, <1>4 DEF Suppressing
<1> QED
  BY <1>1, <1>5 DEF IInv, Phases, Fresh, Reconfiguring, LintsExactly

LEMMA SuppressedByStays == ASSUME IInv, NEW v \in todo, SuppressedBy(v) PROVE IInv'
<1>1. /\ phase = "suppress" /\ phase' = "suppress" /\ Sources' = Sources /\ Found' = Found
      /\ todo' = todo \ {v}
  BY SourcesStay DEF SuppressedBy
<1>2. /\ todo \subseteq Found /\ violations = Found \ Covered(Sources, Found \ todo)
      /\ used = Credits(Sources, Found \ todo) /\ shadowed = Beaten(Sources, Found \ todo)
  BY <1>1 DEF IInv, Suppressing
<1>3. Found \ todo' = (Found \ todo) \cup {v}
  BY <1>1, <1>2
<1>4. CASE CoveringOf(Sources, v) = {}
  <2>1. UNCHANGED <<violations, used, shadowed>>
    BY <1>4 DEF SuppressedBy, CoveringOf
  <2>2. Covered(Sources, Found \ todo') = Covered(Sources, Found \ todo)
    BY <1>3, <1>4 DEF Covered
  <2>3. /\ Credits(Sources, Found \ todo') = Credits(Sources, Found \ todo)
        /\ Beaten(Sources, Found \ todo') = Beaten(Sources, Found \ todo)
    BY <2>2 DEF Credits, Beaten
  <2>4. Suppressing'
    BY <1>1, <1>2, <2>1, <2>2, <2>3 DEF Suppressing
  <2> QED
    BY <1>1, <2>4, <2>1 DEF IInv, Phases, Fresh, Reconfiguring, LintsExactly
<1>5. CASE CoveringOf(Sources, v) # {}
  <2>1. /\ violations' = violations \ {v}
        /\ used' = used \cup {<<v.file, FirstOf(Sources, v), v.rule>>}
        /\ shadowed' = shadowed \cup BeatenOn(Sources, v)
    BY <1>5 DEF SuppressedBy, CoveringOf, FirstOf, BeatenOn
  <2>2. Covered(Sources, Found \ todo') = Covered(Sources, Found \ todo) \cup {v}
    BY <1>3, <1>5 DEF Covered
  <2>3. Credits(Sources, Found \ todo')
          = Credits(Sources, Found \ todo) \cup {<<v.file, FirstOf(Sources, v), v.rule>>}
    BY <2>2 DEF Credits
  <2>4. Beaten(Sources, Found \ todo')
          = Beaten(Sources, Found \ todo) \cup BeatenOn(Sources, v)
    BY <2>2 DEF Beaten
  <2>5. todo' \subseteq Found
    BY <1>1, <1>2
  <2>6. violations' = Found \ Covered(Sources, Found \ todo')
    BY <1>2, <2>1, <2>2
  <2>7. Suppressing'
    BY <1>1, <1>2, <2>1, <2>3, <2>4, <2>5, <2>6 DEF Suppressing
  <2> QED
    BY <1>1, <2>7 DEF IInv, Phases, Fresh, Reconfiguring, LintsExactly
<1> QED
  BY <1>4, <1>5

(* All has been tried; the diagnostics that join are of no rule, and the   *)
(* "eslint-" comments take the rest.                                       *)
LEMMA WithoutSuppressedStays == ASSUME IInv, WithoutSuppressed PROVE IInv'
<1> DEFINE diagnostics == UNION {SuppressionDiagnostics(f) : f \in DOMAIN Sources}
           Loud(v) == v.rule \in Unsuppressible
           Quiet(v) == Suppresses(Sources[v.file].lines, v.rule, v.line)
<1>1. /\ phase = "suppress" /\ phase' = "report" /\ Sources' = Sources /\ Found' = Found
      /\ todo = {} /\ used' = used /\ shadowed' = shadowed
      /\ violations' = {v \in violations \cup diagnostics : Loud(v) \/ ~Quiet(v)}
  BY SourcesStay DEF WithoutSuppressed
<1>2. /\ violations = Found \ Covered(Sources, Found)
      /\ used = Credits(Sources, Found) /\ shadowed = Beaten(Sources, Found)
  <2>1. Found \ todo = Found
    BY <1>1
  <2> QED
    BY <1>1, <2>1 DEF IInv, Suppressing
<1>3. \A v \in diagnostics : v.rule \notin Rules
  BY DiagnosticFacts, RulesAssumption DEF Unsuppressible
<1>4. \A v \in Found : v.rule \in Rules /\ ~Loud(v)
  BY FoundFacts, RulesAssumption DEF Found
<1> HIDE DEF diagnostics, Loud, Quiet
<1>5. {v \in violations' : v.rule \in Rules}
        = {v \in Found : CoveringOf(Sources, v) = {} /\ ~Quiet(v)}
  BY <1>1, <1>2, <1>3, <1>4 DEF Covered
<1>6. LintsExactly'
  BY <1>1, <1>2, <1>5 DEF LintsExactly, Quiet
<1> QED
  BY <1>1, <1>6 DEF IInv, Phases, Fresh, Reconfiguring, Suppressing

LEMMA StepHolds == IInv /\ [Next]_vars => IInv'
<1> SUFFICES ASSUME IInv, [Next]_vars PROVE IInv'
  OBVIOUS
<1> USE DEF IInv, Phases, Fresh, Reconfiguring, Suppressing, LintsExactly
<1>1. CASE ParseFails
  BY <1>1, SourcesStay DEF ParseFails
<1>2. CASE ReadMergeBase \/ NoMergeBase \/ ReportViolations
  BY <1>2 DEF ReadMergeBase, NoMergeBase, ReportViolations
<1>3. CASE Done \/ UNCHANGED vars
  <2>1. UNCHANGED vars /\ Sources' = Sources /\ Found' = Found
    BY <1>3, SourcesStay DEF Done, vars
  <2> QED
    BY <2>1 DEF vars
<1> HIDE DEF IInv
<1> QED
  BY <1>1, <1>2, <1>3, RunAllRulesStays, RerunRuleStays, ReconfiguredStays, SuppressedByStays,
     WithoutSuppressedStays DEF Next

(* Whatever order a lint takes its groups and violations in, it reports of *)
(* the rules exactly the violations they found and no comment covers, and  *)
(* credits each comment with what it took away (FilesFromSources).         *)
THEOREM LintsExactlyHolds == Spec => []LintsExactly
<1>1. IInv => LintsExactly
  BY DEF IInv
<1> QED
  BY <1>1, InitHolds, StepHolds, PTL DEF Spec

-----------------------------------------------------------------------------
(* What the comments of a file say of a line, without searching it: the    *)
(* comment that a search finds is there exactly if the comments silence    *)
(* the rule.                                                               *)

(* Line i is the next one after line d, or holds the name below the        *)
(* description there.                                                      *)
Below(lines, d, i) ==
  \/ i = d + 1
  \/ /\ i > d + 1 /\ lines[d + 1].code = "description" /\ ~Alone(lines, i)
     /\ \A j \in d + 2 .. i - 1 : Alone(lines, j)

LEMMA NextLineIsBelow ==
  ASSUME NEW lines, IsFile(lines), NEW d \in DOMAIN lines, NEW i \in DOMAIN lines
  PROVE  i \in NextLineTargets(lines, d) <=> Below(lines, d, i)
<1> DEFINE code == NextCode(lines, d + 1)
<1>1. DOMAIN lines = 1 .. Len(lines) /\ Len(lines) \in Nat /\ d \in Nat /\ i \in Nat
  BY DEF IsFile
<1>2. code = {j \in DOMAIN lines : j > d + 1 /\ ~Alone(lines, j)}
  BY DEF NextCode
<1> HIDE DEF code
<1>3. code # {} => Min(code) \in code /\ \A j \in code : Min(code) <= j
  <2>1. code \subseteq Nat
    BY <1>1, <1>2
  <2> QED
    BY <2>1, FirstLine
<1>4. ASSUME code # {}, i = Min(code)
      PROVE  i > d + 1 /\ ~Alone(lines, i) /\ \A j \in d + 2 .. i - 1 : Alone(lines, j)
  <2>1. i > d + 1 /\ ~Alone(lines, i)
    BY <1>2, <1>3, <1>4
  <2>2. ASSUME NEW j \in d + 2 .. i - 1 PROVE Alone(lines, j)
    <3>1. j \in DOMAIN lines /\ j > d + 1 /\ ~ (i <= j)
      BY <1>1
    <3> QED
      BY <1>2, <1>3, <1>4, <3>1
  <2> QED
    BY <2>1, <2>2
<1>5. ASSUME i > d + 1, ~Alone(lines, i), \A j \in d + 2 .. i - 1 : Alone(lines, j)
      PROVE  code # {} /\ i = Min(code) /\ d + 1 \in DOMAIN lines
  <2>1. i \in code
    BY <1>2, <1>5
  <2>2. Min(code) \in DOMAIN lines /\ Min(code) > d + 1 /\ ~Alone(lines, Min(code)) /\ Min(code) <= i
    BY <1>2, <1>3, <2>1
  <2>3. Min(code) \notin d + 2 .. i - 1
    BY <1>5, <2>2
  <2> QED
    BY <1>1, <1>5, <2>1, <2>2, <2>3
<1>6. i \in NextLineTargets(lines, d) <=>
        \/ i = d + 1
        \/ d + 1 \in DOMAIN lines /\ lines[d + 1].code = "description" /\ code # {} /\ i = Min(code)
  BY DEF NextLineTargets, code
<1> QED
  BY <1>4, <1>5, <1>6 DEF Below

LEMMA LineDirectivesSilence ==
  ASSUME NEW lines, IsFile(lines), NEW rule, NEW i \in DOMAIN lines
  PROVE  LineDirectives(lines, rule, i) # {} <=>
           \E d \in DOMAIN lines :
             /\ Valid(lines, d) /\ rule \in Comment(lines, d).names
             /\ \/ Comment(lines, d).kind = "disable-line" /\ i = d
                \/ Comment(lines, d).kind = "disable-next-line" /\ Below(lines, d, i)
<1>1. ASSUME NEW d \in DOMAIN lines
      PROVE  i \in Targets(lines, d) <=>
               \/ Comment(lines, d).kind = "disable-line" /\ i = d
               \/ Comment(lines, d).kind = "disable-next-line" /\ Below(lines, d, i)
  <2>1. CASE Comment(lines, d).kind = "disable-line"
    BY <2>1 DEF Targets
  <2>2. CASE Comment(lines, d).kind = "disable-next-line"
    <3>1. Targets(lines, d) = NextLineTargets(lines, d)
      BY <2>2 DEF Targets
    <3> QED
      BY <2>2, <3>1, NextLineIsBelow
  <2>3. CASE Comment(lines, d).kind \notin {"disable-line", "disable-next-line"}
    BY <2>3 DEF Targets
  <2> QED
    BY <2>1, <2>2, <2>3
<1> QED
  BY <1>1, Zenon DEF LineDirectives

LEMMA RangeDirectivesSilence ==
  ASSUME NEW lines, IsFile(lines), NEW rule, NEW i \in DOMAIN lines
  PROVE  ActiveBy(lines, rule, i) # {} <=>
           \E d \in DOMAIN lines :
             /\ Valid(lines, d) /\ rule \in Comment(lines, d).names
             /\ Comment(lines, d).kind = "disable"
             /\ d < i /\ ~EnabledAgain(lines, "enable", rule, d, i)
<1> DEFINE ranges == RangeDirectives(lines, rule, i)
           Speaking(d) == \/ Comment(lines, d).kind = "disable" /\ rule \in Comment(lines, d).names
                          \/ /\ Comment(lines, d).kind = "enable"
                             /\ Comment(lines, d).names = {} \/ rule \in Comment(lines, d).names
<1>1. DOMAIN lines = 1 .. Len(lines) /\ Len(lines) \in Nat /\ i \in Nat
  BY DEF IsFile
<1>2. ranges = {d \in DOMAIN lines : d < i /\ Valid(lines, d) /\ Speaking(d)}
  BY DEF RangeDirectives
<1>3. ActiveBy(lines, rule, i) = {d \in ranges : Comment(lines, d).kind = "disable" /\ \A j \in ranges : j <= d}
  BY DEF ActiveBy
<1> HIDE DEF ranges
<1>4. ASSUME NEW d \in ActiveBy(lines, rule, i)
      PROVE  /\ d \in DOMAIN lines /\ Valid(lines, d) /\ rule \in Comment(lines, d).names
             /\ Comment(lines, d).kind = "disable"
             /\ d < i /\ ~EnabledAgain(lines, "enable", rule, d, i)
  <2>1. /\ d \in DOMAIN lines /\ Valid(lines, d) /\ Comment(lines, d).kind = "disable" /\ d < i
        /\ rule \in Comment(lines, d).names /\ \A j \in ranges : j <= d
    BY <1>2, <1>3
  <2>2. ASSUME NEW e \in d + 1 .. i - 1, Comment(lines, e).kind = "enable",
               Comment(lines, e).names = {} \/ rule \in Comment(lines, e).names,
               IsNative(lines, e) => Valid(lines, e)
        PROVE  FALSE
    <3>1. e \in DOMAIN lines /\ e < i /\ ~ (e <= d)
      BY <1>1, <2>1
    <3>2. Valid(lines, e)
      BY <2>2 DEF IsNative, NativeKinds
    <3> QED
      BY <1>2, <2>1, <2>2, <3>1, <3>2
  <2> QED
    BY <2>1, <2>2 DEF EnabledAgain
<1>5. ASSUME NEW d \in DOMAIN lines, Valid(lines, d), rule \in Comment(lines, d).names,
             Comment(lines, d).kind = "disable", d < i, ~EnabledAgain(lines, "enable", rule, d, i)
      PROVE  ActiveBy(lines, rule, i) # {}
  <2>1. d \in ranges
    BY <1>2, <1>5
  <2>2. Max(ranges) \in ranges /\ \A j \in ranges : Max(ranges) >= j
    <3>1. ranges \subseteq 1 .. Len(lines)
      BY <1>1, <1>2
    <3> QED
      BY <1>1, <2>1, <3>1, LastLine
  <2>3. /\ Max(ranges) \in DOMAIN lines /\ Max(ranges) < i /\ Max(ranges) >= d
        /\ Valid(lines, Max(ranges)) /\ Speaking(Max(ranges))
    BY <1>2, <2>1, <2>2
  <2>4. CASE Comment(lines, Max(ranges)).kind = "enable"
    <3>1. Max(ranges) \in d + 1 .. i - 1
      <4>1. Max(ranges) # d
        BY <1>5, <2>4
      <4> QED
        BY <1>1, <2>3, <4>1
    <3> QED
      BY <1>5, <2>3, <2>4, <3>1 DEF EnabledAgain
  <2>5. CASE Comment(lines, Max(ranges)).kind = "disable"
    <3>1. \A j \in ranges : j <= Max(ranges)
      BY <1>1, <1>2, <2>2
    <3> QED
      BY <1>3, <2>2, <2>5, <3>1
  <2> QED
    BY <2>3, <2>4, <2>5
<1> QED
  BY <1>4, <1>5

LEMMA CoveringSilences ==
  ASSUME NEW lines, IsFile(lines), NEW rule, NEW i \in DOMAIN lines
  PROVE  Covering(lines, rule, i) = {} <=> ~SilencedNatively(lines, rule, i)
<1> DEFINE Names(d) == Valid(lines, d) /\ rule \in Comment(lines, d).names
           OnLine(d) == \/ Comment(lines, d).kind = "disable-line" /\ i = d
                        \/ Comment(lines, d).kind = "disable-next-line" /\ Below(lines, d, i)
           InRange(d) == /\ Comment(lines, d).kind = "disable"
                         /\ d < i /\ ~EnabledAgain(lines, "enable", rule, d, i)
           Reaches(d) == CASE Comment(lines, d).kind = "disable-line" -> i = d
                           [] Comment(lines, d).kind = "disable-next-line" -> Below(lines, d, i)
                           [] Comment(lines, d).kind = "disable" ->
                                d < i /\ ~EnabledAgain(lines, "enable", rule, d, i)
                           [] OTHER -> FALSE
<1>1. SilencedNatively(lines, rule, i) <=> \E d \in DOMAIN lines : Names(d) /\ Reaches(d)
  BY Zenon DEF SilencedNatively, Below
<1>2. ASSUME NEW d \in DOMAIN lines PROVE Reaches(d) <=> OnLine(d) \/ InRange(d)
  <2>1. CASE Comment(lines, d).kind = "disable-line"
    BY <2>1
  <2>2. CASE Comment(lines, d).kind = "disable-next-line"
    BY <2>2
  <2>3. CASE Comment(lines, d).kind = "disable"
    BY <2>3
  <2>4. CASE Comment(lines, d).kind \notin {"disable-line", "disable-next-line", "disable"}
    BY <2>4
  <2> QED
    BY <2>1, <2>2, <2>3, <2>4
<1>3. LineDirectives(lines, rule, i) # {} <=> \E d \in DOMAIN lines : Names(d) /\ OnLine(d)
  BY LineDirectivesSilence
<1>4. ActiveBy(lines, rule, i) # {} <=> \E d \in DOMAIN lines : Names(d) /\ InRange(d)
  BY RangeDirectivesSilence
<1> HIDE DEF Names, OnLine, InRange, Reaches
<1> QED
  BY <1>1, <1>2, <1>3, <1>4 DEF Covering

LEMMA EslintSilences ==
  ASSUME NEW lines, IsFile(lines), NEW rule, NEW i \in DOMAIN lines
  PROVE  Suppresses(lines, rule, i) <=> SilencedByEslint(lines, rule, i)
<1> DEFINE speaks == Speaks(lines, rule, i)
           Names(d) == Comment(lines, d).names = {} \/ rule \in Comment(lines, d).names
           Kind(d) == Comment(lines, d).kind
<1>1. DOMAIN lines = 1 .. Len(lines) /\ Len(lines) \in Nat /\ i \in Nat
  BY DEF IsFile
<1>2. speaks = {d \in DOMAIN lines : d < i /\ Kind(d) \in {"eslint-disable", "eslint-enable"} /\ Names(d)}
  BY DEF Speaks
<1>3. Suppresses(lines, rule, i) <=>
        \/ i - 1 \in DOMAIN lines /\ Kind(i - 1) = "eslint-disable-next-line" /\ Names(i - 1)
        \/ speaks # {} /\ Kind(Max(speaks)) = "eslint-disable"
  BY DEF Suppresses
<1>4. SilencedByEslint(lines, rule, i) <=>
        \E d \in 1 .. i - 1 :
          /\ Names(d)
          /\ \/ Kind(d) = "eslint-disable-next-line" /\ i = d + 1
             \/ Kind(d) = "eslint-disable" /\ ~EnabledAgain(lines, "eslint-enable", rule, d, i)
  BY DEF SilencedByEslint
<1>5. ASSUME NEW d, NEW e \in 1 .. i - 1
      PROVE  /\ EnabledAgain(lines, "eslint-enable", rule, d, i) =>
                   \E x \in d + 1 .. i - 1 : Kind(x) = "eslint-enable" /\ Names(x)
             /\ d \in Nat /\ d < e /\ Kind(e) = "eslint-enable" /\ Names(e) =>
                   EnabledAgain(lines, "eslint-enable", rule, d, i)
  <2>1. EnabledAgain(lines, "eslint-enable", rule, d, i) =>
          \E x \in d + 1 .. i - 1 : Kind(x) = "eslint-enable" /\ Names(x)
    BY DEF EnabledAgain
  <2>2. ASSUME d \in Nat, d < e, Kind(e) = "eslint-enable", Names(e)
        PROVE  EnabledAgain(lines, "eslint-enable", rule, d, i)
    <3>1. e \in d + 1 .. i - 1
      BY <1>1, <2>2
    <3>2. ~IsNative(lines, e)
      BY <2>2 DEF IsNative, NativeKinds
    <3> QED
      BY <2>2, <3>1, <3>2 DEF EnabledAgain
  <2> QED
    BY <2>1, <2>2
<1>6. speaks # {} => Max(speaks) \in speaks /\ \A d \in speaks : Max(speaks) >= d
  <2>1. speaks \subseteq 1 .. Len(lines)
    BY <1>1, <1>2
  <2> QED
    BY <1>1, <2>1, LastLine
<1> HIDE DEF speaks, Names, Kind
<1>7. \A d \in 1 .. i - 1 : d \in DOMAIN lines /\ d < i /\ d \in Nat
  BY <1>1
<1>8. ASSUME speaks # {}, Kind(Max(speaks)) = "eslint-disable"
      PROVE  SilencedByEslint(lines, rule, i)
  <2>1. Max(speaks) \in 1 .. i - 1 /\ Names(Max(speaks))
    BY <1>1, <1>2, <1>6, <1>8
  <2>2. ASSUME NEW x \in Max(speaks) + 1 .. i - 1, Kind(x) = "eslint-enable", Names(x) PROVE FALSE
    <3>1. x \in 1 .. i - 1 /\ ~ (Max(speaks) >= x)
      BY <1>1, <2>1
    <3>2. x \in speaks
      BY <1>2, <1>7, <2>2, <3>1
    <3> QED
      BY <1>6, <3>1, <3>2
  <2> QED
    BY <1>4, <1>5, <1>8, <2>1, <2>2
<1>9. ASSUME NEW d \in 1 .. i - 1, Names(d), Kind(d) = "eslint-disable",
             ~EnabledAgain(lines, "eslint-enable", rule, d, i)
      PROVE  speaks # {} /\ Kind(Max(speaks)) = "eslint-disable"
  <2>1. d \in speaks
    BY <1>2, <1>7, <1>9
  <2>2. /\ Max(speaks) \in 1 .. i - 1 /\ Names(Max(speaks)) /\ Max(speaks) >= d
        /\ Kind(Max(speaks)) \in {"eslint-disable", "eslint-enable"}
    BY <1>1, <1>2, <1>6, <2>1
  <2>3. ASSUME NEW e \in 1 .. i - 1, e >= d, Kind(e) = "eslint-enable", Names(e) PROVE FALSE
    <3>1. d \in Nat /\ d # e
      BY <1>7, <1>9, <2>3
    <3>2. d < e
      BY <1>1, <2>3, <3>1
    <3> QED
      BY <1>5, <1>9, <2>3, <3>1, <3>2
  <2>4. Kind(Max(speaks)) # "eslint-enable"
    BY <2>2, <2>3
  <2> QED
    BY <2>1, <2>2, <2>4
<1>10. ASSUME NEW d \in 1 .. i - 1, Kind(d) = "eslint-disable-next-line", Names(d), i = d + 1
       PROVE  i - 1 \in DOMAIN lines /\ Kind(i - 1) = "eslint-disable-next-line" /\ Names(i - 1)
  <2>1. i - 1 = d
    BY <1>10
  <2> QED
    BY <1>7, <1>10, <2>1
<1>11. i - 1 \in DOMAIN lines => i - 1 \in 1 .. i - 1 /\ i = (i - 1) + 1
  BY <1>1
<1> QED
  BY <1>3, <1>4, <1>8, <1>9, <1>10, <1>11

-----------------------------------------------------------------------------
(* What the rules find, under the configuration in force in each file. *)

Hit(sources, f, r, i) == Violation(f, r, i, <<sources[f].lines[i].item, {}, "">>)

Overrides(sources, f) == EslintConfigComments(sources[f].lines)

(* What a rule finds on a line of a file, by whose configuration it runs.  *)
FoundOn(sources, f, r, i) ==
  \/ /\ r \notin DOMAIN Overrides(sources, f) /\ Enabled(world.rules[r])
     /\ <<r, world.rules[r].options>> \in sources[f].lines[i].violates
  \/ /\ r \in DOMAIN Overrides(sources, f) /\ Overrides(sources, f)[r].severity # "off"
     /\ <<r, Overrides(sources, f)[r].options>> \in sources[f].lines[i].violates

LEMMA HitFields ==
  ASSUME NEW sources, NEW f, NEW r, NEW i
  PROVE  Hit(sources, f, r, i).file = f /\ Hit(sources, f, r, i).rule = r
BY DEF Hit, Violation

LEMMA RunRuleIs ==
  ASSUME NEW sources, NEW r, NEW o
  PROVE  /\ \A v \in RunRule(sources, r, o) :
              \E f \in DOMAIN sources : \E i \in DOMAIN sources[f].lines :
                v = Hit(sources, f, r, i) /\ <<r, o>> \in sources[f].lines[i].violates
         /\ \A f \in DOMAIN sources : \A i \in DOMAIN sources[f].lines :
              <<r, o>> \in sources[f].lines[i].violates => Hit(sources, f, r, i) \in RunRule(sources, r, o)
<1> DEFINE Lines(f) == {i \in DOMAIN sources[f].lines : <<r, o>> \in sources[f].lines[i].violates}
           Hits(f) == {Hit(sources, f, r, i) : i \in Lines(f)}
<1>1. RunRule(sources, r, o) = UNION {Hits(f) : f \in DOMAIN sources}
  BY DEF RunRule, Hit
<1>2. \A f, v : v \in Hits(f) <=> \E i \in Lines(f) : v = Hit(sources, f, r, i)
  OBVIOUS
<1> HIDE DEF Hits
<1>3. ASSUME NEW v \in RunRule(sources, r, o)
      PROVE  \E f \in DOMAIN sources : \E i \in DOMAIN sources[f].lines :
               v = Hit(sources, f, r, i) /\ <<r, o>> \in sources[f].lines[i].violates
  <2>1. PICK f \in DOMAIN sources : v \in Hits(f)
    BY <1>1
  <2>2. PICK i \in Lines(f) : v = Hit(sources, f, r, i)
    BY <1>2, <2>1
  <2> QED
    BY <2>1, <2>2
<1>4. ASSUME NEW f \in DOMAIN sources, NEW i \in DOMAIN sources[f].lines,
             <<r, o>> \in sources[f].lines[i].violates
      PROVE  Hit(sources, f, r, i) \in RunRule(sources, r, o)
  <2>1. i \in Lines(f)
    BY <1>4
  <2>2. Hit(sources, f, r, i) \in Hits(f)
    BY <1>2, <2>1
  <2> QED
    BY <1>1, <2>2
<1> QED
  BY <1>3, <1>4

LEMMA OverridesAreOfRules ==
  ASSUME NEW sources, NEW f
  PROVE  DOMAIN Overrides(sources, f) \subseteq Rules
BY DEF Overrides, EslintConfigComments

LEMMA SharedIs ==
  ASSUME NEW sources
  PROVE  /\ \A v \in RunShared(sources, world.rules) :
              \E f \in DOMAIN sources : \E r \in Rules : \E i \in DOMAIN sources[f].lines :
                v = Hit(sources, f, r, i) /\ FoundOn(sources, f, r, i)
         /\ \A f \in DOMAIN sources : \A r \in Rules \ DOMAIN Overrides(sources, f) :
              \A i \in DOMAIN sources[f].lines :
                FoundOn(sources, f, r, i) => Hit(sources, f, r, i) \in RunShared(sources, world.rules)
<1>1. ASSUME NEW v
      PROVE  v \in RunShared(sources, world.rules) <=>
               /\ \E r \in Rules : Enabled(world.rules[r]) /\ v \in RunRule(sources, r, world.rules[r].options)
               /\ v.rule \notin DOMAIN Overrides(sources, v.file)
  BY DEF RunShared, RunRules, Overridden, Overrides
<1>2. ASSUME NEW v \in RunShared(sources, world.rules)
      PROVE  \E f \in DOMAIN sources : \E r \in Rules : \E i \in DOMAIN sources[f].lines :
               v = Hit(sources, f, r, i) /\ FoundOn(sources, f, r, i)
  <2>1. PICK r \in Rules : Enabled(world.rules[r]) /\ v \in RunRule(sources, r, world.rules[r].options)
    BY <1>1
  <2>2. PICK f \in DOMAIN sources : \E i \in DOMAIN sources[f].lines :
          v = Hit(sources, f, r, i) /\ <<r, world.rules[r].options>> \in sources[f].lines[i].violates
    BY <2>1, RunRuleIs
  <2>3. PICK i \in DOMAIN sources[f].lines :
          v = Hit(sources, f, r, i) /\ <<r, world.rules[r].options>> \in sources[f].lines[i].violates
    BY <2>2
  <2>4. r \notin DOMAIN Overrides(sources, f)
    BY <1>1, <2>3, HitFields
  <2> QED
    BY <2>1, <2>3, <2>4 DEF FoundOn
<1>3. ASSUME NEW f \in DOMAIN sources, NEW r \in Rules, r \notin DOMAIN Overrides(sources, f),
             NEW i \in DOMAIN sources[f].lines, FoundOn(sources, f, r, i)
      PROVE  Hit(sources, f, r, i) \in RunShared(sources, world.rules)
  <2>1. Enabled(world.rules[r]) /\ <<r, world.rules[r].options>> \in sources[f].lines[i].violates
    BY <1>3 DEF FoundOn
  <2>2. Hit(sources, f, r, i) \in RunRule(sources, r, world.rules[r].options)
    BY <2>1, RunRuleIs
  <2> QED
    BY <1>1, <1>3, <2>1, <2>2, HitFields
<1> QED
  BY <1>2, <1>3

(* The groups are those of the files' own configurations. *)
LEMMA GroupsAre ==
  ASSUME NEW sources
  PROVE  /\ \A g \in Groups(sources) :
              \E e \in DOMAIN sources : /\ g.rule \in DOMAIN Overrides(sources, e)
                                        /\ g.config = Overrides(sources, e)[g.rule]
         /\ \A g \in Groups(sources) : \A f \in g.files :
              /\ f \in DOMAIN sources /\ g.rule \in DOMAIN Overrides(sources, f)
              /\ g.config = Overrides(sources, f)[g.rule]
         /\ \A f \in DOMAIN sources : \A r \in DOMAIN Overrides(sources, f) :
              \E g \in Groups(sources) :
                g.rule = r /\ g.config = Overrides(sources, f)[r] /\ f \in g.files
<1> DEFINE Own(f) == {<<r, Overrides(sources, f)[r]>> : r \in DOMAIN Overrides(sources, f)}
           pairs == UNION {Own(f) : f \in DOMAIN sources}
           Files(q) == {f \in DOMAIN sources : q[1] \in DOMAIN Overrides(sources, f) /\ Overrides(sources, f)[q[1]] = q[2]}
           Group(q) == [rule |-> q[1], config |-> q[2], files |-> Files(q)]
<1>1. Groups(sources) = {Group(q) : q \in pairs}
  BY DEF Groups, Overrides
<1>2. \A q : Group(q).rule = q[1] /\ Group(q).config = q[2] /\ Group(q).files = Files(q)
  OBVIOUS
<1>3. \A f, q : q \in Own(f) <=> \E r \in DOMAIN Overrides(sources, f) : q = <<r, Overrides(sources, f)[r]>>
  OBVIOUS
<1> HIDE DEF Group, Own
<1>4. ASSUME NEW g \in Groups(sources)
      PROVE  /\ \E e \in DOMAIN sources : /\ g.rule \in DOMAIN Overrides(sources, e)
                                          /\ g.config = Overrides(sources, e)[g.rule]
             /\ \A f \in g.files : /\ f \in DOMAIN sources /\ g.rule \in DOMAIN Overrides(sources, f)
                                    /\ g.config = Overrides(sources, f)[g.rule]
  <2>1. PICK q \in pairs : g = Group(q)
    BY <1>1
  <2>2. PICK e \in DOMAIN sources : q \in Own(e)
    BY <2>1
  <2>3. PICK r \in DOMAIN Overrides(sources, e) : q = <<r, Overrides(sources, e)[r]>>
    BY <1>3, <2>2
  <2>4. g.rule = r /\ g.config = Overrides(sources, e)[r] /\ g.files = Files(q) /\ q[1] = r
        /\ q[2] = Overrides(sources, e)[r]
    BY <1>2, <2>1, <2>3
  <2> QED
    BY <2>4
<1>5. ASSUME NEW f \in DOMAIN sources, NEW r \in DOMAIN Overrides(sources, f)
      PROVE  \E g \in Groups(sources) : g.rule = r /\ g.config = Overrides(sources, f)[r] /\ f \in g.files
  <2> DEFINE q == <<r, Overrides(sources, f)[r]>>
  <2>1. q \in Own(f)
    BY <1>3
  <2>2. q \in pairs
    BY <2>1
  <2>3. Group(q) \in Groups(sources)
    BY <1>1, <2>2
  <2>4. q[1] = r /\ q[2] = Overrides(sources, f)[r]
    OBVIOUS
  <2>5. f \in Files(q)
    BY <2>4
  <2> QED
    BY <1>2, <2>3, <2>4, <2>5
<1> QED
  BY <1>4, <1>5

LEMMA GroupRunsAre ==
  ASSUME NEW sources
  PROVE  /\ \A v \in GroupRuns(sources, Groups(sources)) :
              \E f \in DOMAIN sources : \E r \in Rules : \E i \in DOMAIN sources[f].lines :
                v = Hit(sources, f, r, i) /\ FoundOn(sources, f, r, i)
         /\ \A f \in DOMAIN sources : \A r \in DOMAIN Overrides(sources, f) :
              \A i \in DOMAIN sources[f].lines :
                FoundOn(sources, f, r, i) => Hit(sources, f, r, i) \in GroupRuns(sources, Groups(sources))
<1>1. ASSUME NEW v
      PROVE  v \in GroupRuns(sources, Groups(sources)) <=>
               \E g \in Groups(sources) : /\ g.config.severity # "off"
                                          /\ v \in RunRule(sources, g.rule, g.config.options)
                                          /\ v.file \in g.files
  <2>1. \A g : v \in GroupRun(sources, g) <=>
                /\ g.config.severity # "off" /\ v \in RunRule(sources, g.rule, g.config.options)
                /\ v.file \in g.files
    BY DEF GroupRun
  <2> QED
    BY <2>1 DEF GroupRuns
<1>2. ASSUME NEW v \in GroupRuns(sources, Groups(sources))
      PROVE  \E f \in DOMAIN sources : \E r \in Rules : \E i \in DOMAIN sources[f].lines :
               v = Hit(sources, f, r, i) /\ FoundOn(sources, f, r, i)
  <2>1. PICK g \in Groups(sources) : /\ g.config.severity # "off"
                                     /\ v \in RunRule(sources, g.rule, g.config.options)
                                     /\ v.file \in g.files
    BY <1>1
  <2>2. PICK f \in DOMAIN sources : \E i \in DOMAIN sources[f].lines :
          v = Hit(sources, f, g.rule, i) /\ <<g.rule, g.config.options>> \in sources[f].lines[i].violates
    BY <2>1, RunRuleIs
  <2>3. PICK i \in DOMAIN sources[f].lines :
          v = Hit(sources, f, g.rule, i) /\ <<g.rule, g.config.options>> \in sources[f].lines[i].violates
    BY <2>2
  <2>4. v.file = f
    BY <2>3, HitFields
  <2>5. g.rule \in DOMAIN Overrides(sources, f) /\ g.config = Overrides(sources, f)[g.rule]
    BY <2>1, <2>4, GroupsAre
  <2>6. g.rule \in Rules
    BY <2>5, OverridesAreOfRules
  <2>7. FoundOn(sources, f, g.rule, i)
    BY <2>1, <2>3, <2>5 DEF FoundOn
  <2> QED
    BY <2>3, <2>6, <2>7
<1>3. ASSUME NEW f \in DOMAIN sources, NEW r \in DOMAIN Overrides(sources, f),
             NEW i \in DOMAIN sources[f].lines, FoundOn(sources, f, r, i)
      PROVE  Hit(sources, f, r, i) \in GroupRuns(sources, Groups(sources))
  <2>1. /\ Overrides(sources, f)[r].severity # "off"
        /\ <<r, Overrides(sources, f)[r].options>> \in sources[f].lines[i].violates
    BY <1>3 DEF FoundOn
  <2>2. PICK g \in Groups(sources) : g.rule = r /\ g.config = Overrides(sources, f)[r] /\ f \in g.files
    BY GroupsAre
  <2>3. Hit(sources, f, r, i) \in RunRule(sources, g.rule, g.config.options)
    BY <2>1, <2>2, RunRuleIs
  <2>4. Hit(sources, f, r, i).file \in g.files
    BY <2>2, HitFields
  <2> QED
    BY <1>1, <2>1, <2>2, <2>3, <2>4
<1> QED
  BY <1>2, <1>3

LEMMA FoundIs ==
  ASSUME NEW sources
  PROVE  /\ \A v \in AllRuns(sources, world.rules) :
              \E f \in DOMAIN sources : \E r \in Rules : \E i \in DOMAIN sources[f].lines :
                v = Hit(sources, f, r, i) /\ FoundOn(sources, f, r, i)
         /\ \A f \in DOMAIN sources : \A r \in Rules : \A i \in DOMAIN sources[f].lines :
              FoundOn(sources, f, r, i) => Hit(sources, f, r, i) \in AllRuns(sources, world.rules)
<1>1. ASSUME NEW v \in AllRuns(sources, world.rules)
      PROVE  \E f \in DOMAIN sources : \E r \in Rules : \E i \in DOMAIN sources[f].lines :
               v = Hit(sources, f, r, i) /\ FoundOn(sources, f, r, i)
  BY SharedIs, GroupRunsAre DEF AllRuns
<1>2. ASSUME NEW f \in DOMAIN sources, NEW r \in Rules, NEW i \in DOMAIN sources[f].lines,
             FoundOn(sources, f, r, i)
      PROVE  Hit(sources, f, r, i) \in AllRuns(sources, world.rules)
  <2>1. CASE r \in DOMAIN Overrides(sources, f)
    BY <1>2, <2>1, GroupRunsAre DEF AllRuns
  <2>2. CASE r \notin DOMAIN Overrides(sources, f)
    <3>1. r \in Rules \ DOMAIN Overrides(sources, f)
      BY <2>2
    <3> QED
      BY <1>2, <3>1, SharedIs DEF AllRuns
  <2> QED
    BY <2>1, <2>2
<1> QED
  BY <1>1, <1>2

(* A rule finds on a line what Violates says of it: the last comment of a  *)
(* file for a rule, if there is one, is the configuration in force.        *)
LEMMA ViolatesIs ==
  ASSUME world \in Worlds, NEW sources, NEW f \in DOMAIN sources, IsFile(sources[f].lines),
         NEW r \in Rules, NEW i \in DOMAIN sources[f].lines
  PROVE  Violates(sources[f].lines, r, i) <=> FoundOn(sources, f, r, i)
<1> DEFINE lines == sources[f].lines
           comments == ConfigComments(lines, r)
           offered == {p[2] : p \in lines[i].violates}
<1>1. r \in DOMAIN Overrides(sources, f) <=> comments # {}
  BY DEF Overrides, EslintConfigComments
<1>2. Violates(lines, r, i) <=>
        \E config \in Configurations(offered) :
          InForce(lines, r, config) /\ Enabled(config) /\ <<r, config.options>> \in lines[i].violates
  BY DEF Violates
<1>3. ASSUME NEW o, <<r, o>> \in lines[i].violates PROVE o \in offered
  <2>1. <<r, o>>[2] = o
    OBVIOUS
  <2> QED
    BY <1>3, <2>1
<1>4. CASE comments = {}
  <2>1. world.rules[r] \in [severity : Severities, options : {world.rules[r].options}]
    BY WorldAssumption
  <2>2. \A config : InForce(lines, r, config) <=> config = world.rules[r]
    BY <1>4 DEF InForce
  <2>3. <<r, world.rules[r].options>> \in lines[i].violates => world.rules[r] \in Configurations(offered)
    BY <1>3, <2>1 DEF Configurations
  <2> QED
    BY <1>1, <1>2, <1>4, <2>2, <2>3 DEF FoundOn
<1>5. CASE comments # {}
  <2> DEFINE last == Max(comments)
             own == [severity |-> Comment(lines, last).severity, options |-> Comment(lines, last).options]
  <2>1. comments \subseteq DOMAIN lines /\ DOMAIN lines = 1 .. Len(lines) /\ Len(lines) \in Nat
    BY DEF ConfigComments, IsFile
  <2>2. last \in comments /\ \A j \in comments : last >= j
    BY <1>5, <2>1, LastLine
  <2>3. Overrides(sources, f)[r] = own
    BY <1>1, <1>5 DEF Overrides, EslintConfigComments
  <2>4. own.severity \in {"off", "warn", "error"}
    BY <2>1, <2>2 DEF ConfigComments, Comment, IsFile, IsLine
  <2> HIDE DEF last
  <2>5. ASSUME NEW config \in Configurations(offered)
        PROVE  InForce(lines, r, config) <=> config = own
    <3>1. config = [severity |-> config.severity, options |-> config.options]
      BY DEF Configurations
    <3>2. ASSUME NEW j \in comments, \A k \in comments : k <= j PROVE j = last
      BY <2>1, <2>2, <3>2
    <3>3. ASSUME InForce(lines, r, config) PROVE config = own
      <4>1. PICK j \in comments : /\ \A k \in comments : k <= j
                                  /\ config.severity = Comment(lines, j).severity
                                  /\ config.options = Comment(lines, j).options
        BY <1>5, <3>3 DEF InForce
      <4>2. j = last
        BY <3>2, <4>1
      <4> QED
        BY <3>1, <4>1, <4>2
    <3>4. ASSUME config = own PROVE InForce(lines, r, config)
      <4>1. \A k \in comments : k <= last
        BY <2>1, <2>2
      <4>2. config.severity = Comment(lines, last).severity /\ config.options = Comment(lines, last).options
        BY <3>4
      <4> QED
        BY <2>2, <4>1, <4>2 DEF InForce
    <3> QED
      BY <3>3, <3>4
  <2>6. Enabled(own) <=> own.severity # "off"
    BY <2>4 DEF Enabled
  <2>7. <<r, own.options>> \in lines[i].violates => own \in Configurations(offered)
    BY <1>3, <2>4 DEF Configurations, Severities
  <2> HIDE DEF own
  <2>8. FoundOn(sources, f, r, i) <=> own.severity # "off" /\ <<r, own.options>> \in lines[i].violates
    BY <1>1, <1>5, <2>3 DEF FoundOn
  <2> QED
    BY <1>2, <2>5, <2>6, <2>7, <2>8
<1> QED
  BY <1>4, <1>5

(* So the stages leave of the rules' violations what stands on the files'  *)
(* lines.                                                                  *)
Unsilenced(sources) ==
  {v \in AllRuns(sources, world.rules) :
     CoveringOf(sources, v) = {} /\ ~Suppresses(sources[v.file].lines, v.rule, v.line)}

LEMMA UnsilencedStands ==
  ASSUME world \in Worlds, NEW files, \A f \in DOMAIN files : IsFile(files[f].lines)
  PROVE  Unsilenced(WithoutOperationDocuments(files)) = Standing(files)
<1> DEFINE sources == WithoutOperationDocuments(files)
           Silent(f, r, i) == /\ ~SilencedNatively(sources[f].lines, r, i)
                              /\ ~SilencedByEslint(sources[f].lines, r, i)
           Lines(f, r) == {i \in DOMAIN sources[f].lines : Violates(sources[f].lines, r, i) /\ Silent(f, r, i)}
           Hits(f, r) == {Hit(sources, f, r, i) : i \in Lines(f, r)}
           OfFile(f) == UNION {Hits(f, r) : r \in Rules}
<1>1. \A f \in DOMAIN sources : IsFile(sources[f].lines)
  BY DEF WithoutOperationDocuments
<1>2. Standing(files) = UNION {OfFile(f) : f \in DOMAIN sources}
  <2>1. Standing(files) =
          UNION {UNION {{Violation(f, r, i, <<sources[f].lines[i].item, {}, "">>) :
                           i \in {i \in DOMAIN sources[f].lines :
                                      /\ Violates(sources[f].lines, r, i)
                                      /\ ~SilencedNatively(sources[f].lines, r, i)
                                      /\ ~SilencedByEslint(sources[f].lines, r, i)}} :
                        r \in Rules} : f \in DOMAIN sources}
    BY DEF Standing
  <2> QED
    BY <2>1 DEF Hit
<1> HIDE DEF sources
<1>3. ASSUME NEW f \in DOMAIN sources, NEW r \in Rules, NEW i \in DOMAIN sources[f].lines
      PROVE  Hit(sources, f, r, i) \in Unsilenced(sources) <=>
               /\ Hit(sources, f, r, i) \in AllRuns(sources, world.rules)
               /\ Silent(f, r, i)
  <2>1. /\ Hit(sources, f, r, i).file = f /\ Hit(sources, f, r, i).rule = r
        /\ Hit(sources, f, r, i).line = i
    BY DEF Hit, Violation
  <2>2. Covering(sources[f].lines, r, i) = {} <=> ~SilencedNatively(sources[f].lines, r, i)
    BY <1>1, CoveringSilences
  <2>3. Suppresses(sources[f].lines, r, i) <=> SilencedByEslint(sources[f].lines, r, i)
    BY <1>1, EslintSilences
  <2> QED
    BY <2>1, <2>2, <2>3 DEF Unsilenced, CoveringOf
<1>4. ASSUME NEW f \in DOMAIN sources, NEW r \in Rules, NEW i \in DOMAIN sources[f].lines
      PROVE  Violates(sources[f].lines, r, i) <=> FoundOn(sources, f, r, i)
  BY <1>1, ViolatesIs
<1> HIDE DEF Silent
<1>5. ASSUME NEW v \in Unsilenced(sources) PROVE v \in Standing(files)
  <2>1. v \in AllRuns(sources, world.rules)
    BY DEF Unsilenced
  <2>2. PICK f \in DOMAIN sources : \E r \in Rules : \E i \in DOMAIN sources[f].lines :
          v = Hit(sources, f, r, i) /\ FoundOn(sources, f, r, i)
    BY <2>1, FoundIs
  <2>3. PICK r \in Rules : \E i \in DOMAIN sources[f].lines :
          v = Hit(sources, f, r, i) /\ FoundOn(sources, f, r, i)
    BY <2>2
  <2>4. PICK i \in DOMAIN sources[f].lines : v = Hit(sources, f, r, i) /\ FoundOn(sources, f, r, i)
    BY <2>3
  <2>5. i \in Lines(f, r)
    BY <1>3, <1>4, <2>4
  <2>6. v \in Hits(f, r)
    BY <2>4, <2>5
  <2> HIDE DEF Hits
  <2>7. v \in OfFile(f)
    BY <2>6
  <2> QED
    BY <1>2, <2>7
<1>6. ASSUME NEW v \in Standing(files) PROVE v \in Unsilenced(sources)
  <2>1. PICK f \in DOMAIN sources : v \in OfFile(f)
    BY <1>2
  <2>2. PICK r \in Rules : v \in Hits(f, r)
    BY <2>1
  <2>3. PICK i \in Lines(f, r) : v = Hit(sources, f, r, i)
    BY <2>2
  <2>4. FoundOn(sources, f, r, i) /\ Silent(f, r, i)
    BY <1>4, <2>3
  <2>5. v \in AllRuns(sources, world.rules)
    BY <2>3, <2>4, FoundIs
  <2> QED
    BY <1>3, <2>3, <2>4, <2>5
<1>7. Unsilenced(sources) = Standing(files)
  BY <1>5, <1>6, Zenon DEF Unsilenced
<1> QED
  BY <1>7 DEF sources

-----------------------------------------------------------------------------
(* The malformed directives. *)

Malformed(f) ==
  {i \in DOMAIN Sources[f].lines : IsNative(Sources[f].lines, i) /\ Problems(Sources[f].lines, i)}

Complaint(f, i) ==
  Violation(f, Invalid, i, <<Comment(Sources[f].lines, i).kind, Comment(Sources[f].lines, i).names, "">>)

Complaints ==
  IF Invalid \in world.off THEN {}
  ELSE UNION {{<<f, i>> : i \in Malformed(f)} : f \in DOMAIN Sources}

Places(vs) == {<<v.file, v.line>> : v \in {v \in vs : v.rule = Invalid}}

LEMMA InvalidFacts ==
  ASSUME NEW f
  PROVE  /\ \A v \in SuppressionDiagnostics(f) : v.rule = Invalid =>
              Invalid \notin world.off /\ v.file = f /\ v.line \in Malformed(f)
         /\ \A i \in Malformed(f) : Invalid \notin world.off => Complaint(f, i) \in SuppressionDiagnostics(f)
<1> DEFINE lines == Sources[f].lines
           disables == {i \in DOMAIN lines : Valid(lines, i) /\ Comment(lines, i).kind # "enable"}
           Hint(i, r) == IF <<f, i, r>> \in shadowed THEN "shadowed" ELSE "unused"
           Of(i) == {Violation(f, Unused, i, <<Comment(lines, i).kind, {r}, Hint(i, r)>>) :
                       r \in {r \in Comment(lines, i).names : <<f, i, r>> \notin used}}
           invalid == IF Invalid \in world.off THEN {} ELSE {Complaint(f, i) : i \in Malformed(f)}
           unused == IF Unused \in world.off THEN {} ELSE UNION {Of(i) : i \in disables}
<1>1. SuppressionDiagnostics(f) = invalid \cup unused
  BY DEF SuppressionDiagnostics, Complaint, Malformed
<1>2. \A v \in unused : v.rule = Unused
  <2>1. ASSUME NEW i, NEW v \in Of(i) PROVE v.rule = Unused
    <3>1. PICK m : v = Violation(f, Unused, i, m)
      BY Zenon
    <3> QED
      BY <3>1 DEF Violation
  <2> HIDE DEF Of, disables
  <2> QED
    BY <2>1
<1>3. \A i : Complaint(f, i).file = f /\ Complaint(f, i).line = i /\ Complaint(f, i).rule = Invalid
  BY DEF Complaint, Violation
<1>4. Invalid # Unused
  BY DEF Invalid, Unused
<1> HIDE DEF unused
<1>5. ASSUME NEW v \in SuppressionDiagnostics(f), v.rule = Invalid
      PROVE  Invalid \notin world.off /\ v.file = f /\ v.line \in Malformed(f)
  <2>1. v \in invalid
    BY <1>1, <1>2, <1>4, <1>5
  <2>2. PICK i \in Malformed(f) : Invalid \notin world.off /\ v = Complaint(f, i)
    BY <2>1
  <2> QED
    BY <1>3, <2>2
<1>6. ASSUME NEW i \in Malformed(f), Invalid \notin world.off
      PROVE  Complaint(f, i) \in SuppressionDiagnostics(f)
  BY <1>1, <1>6
<1> QED
  BY <1>5, <1>6

(* No comment hides a complaint about a comment. *)
LEMMA PlacesAreComplaints ==
  ASSUME IInv, WithoutSuppressed
  PROVE  Places(violations') = Complaints
<1> DEFINE diagnostics == UNION {SuppressionDiagnostics(f) : f \in DOMAIN Sources}
           Quiet(v) == Suppresses(Sources[v.file].lines, v.rule, v.line)
<1>1. violations' = {v \in violations \cup diagnostics : v.rule \in Unsuppressible \/ ~Quiet(v)}
  BY DEF WithoutSuppressed
<1>2. violations \subseteq Found
  BY DEF WithoutSuppressed, IInv, Suppressing
<1>3. \A v \in violations : v.rule # Invalid
  BY <1>2, FoundFacts, RulesAssumption DEF Found, Unsuppressible
<1>4. Invalid \in Unsuppressible
  BY DEF Unsuppressible
<1> HIDE DEF Quiet
<1>5. {v \in violations' : v.rule = Invalid} = {v \in diagnostics : v.rule = Invalid}
  BY <1>1, <1>3, <1>4
<1>6. ASSUME NEW f \in DOMAIN Sources, NEW i \in Malformed(f), Invalid \notin world.off
      PROVE  /\ Complaint(f, i) \in {v \in diagnostics : v.rule = Invalid}
             /\ Complaint(f, i).file = f /\ Complaint(f, i).line = i
  <2>1. Complaint(f, i) \in SuppressionDiagnostics(f)
    BY <1>6, InvalidFacts
  <2>2. Complaint(f, i).file = f /\ Complaint(f, i).line = i /\ Complaint(f, i).rule = Invalid
    BY DEF Complaint, Violation
  <2> QED
    BY <2>1, <2>2
<1>7. ASSUME NEW v \in {v \in diagnostics : v.rule = Invalid}
      PROVE  Invalid \notin world.off /\ v.file \in DOMAIN Sources /\ v.line \in Malformed(v.file)
  <2>1. PICK f \in DOMAIN Sources : v \in SuppressionDiagnostics(f)
    OBVIOUS
  <2> QED
    BY <2>1, InvalidFacts
<1> HIDE DEF diagnostics
<1>8. ASSUME NEW q \in Places(violations') PROVE q \in Complaints
  <2>1. PICK v \in {v \in diagnostics : v.rule = Invalid} : q = <<v.file, v.line>>
    BY <1>5 DEF Places
  <2> QED
    BY <1>7, <2>1 DEF Complaints
<1>9. ASSUME NEW q \in Complaints PROVE q \in Places(violations')
  <2>1. PICK f \in DOMAIN Sources : Invalid \notin world.off /\ q \in {<<f, i>> : i \in Malformed(f)}
    BY DEF Complaints
  <2>2. PICK i \in Malformed(f) : q = <<f, i>>
    BY <2>1
  <2> QED
    BY <1>5, <1>6, <2>1, <2>2 DEF Places
<1> QED
  BY <1>8, <1>9

-----------------------------------------------------------------------------
(* What a lint without --diff ends with. *)

(* The violations once a lint is over. *)
Reported ==
  IF ParseErrors(Sources) # {}
  THEN \A v \in violations : v.rule \in Tier1
  ELSE /\ {v \in violations : v.rule \in Rules} = Unsilenced(Sources)
       /\ Places(violations) = Complaints

Outcome ==
  /\ world \in Worlds
  /\ ~world.diff => tree = "working"
  /\ phase \in {"reconfigure", "suppress"} => ParseErrors(Sources) = {}
  /\ phase = "report" => Reported
  /\ exit # "running" => phase = "done"
  /\ phase = "done" /\ ~world.diff => Reported

LEMMA ErrorsStay ==
  ASSUME Sources' = Sources PROVE ParseErrors(Sources)' = ParseErrors(Sources)
BY DEF ParseErrors, Undefined, Redefined

LEMMA ParseFailsReported == ASSUME ParseFails PROVE Reported'
<1>1. /\ Sources' = Sources
      /\ \E e \in ParseErrors(Sources) : violations' = {Violation(e[1], e[2], 0, <<"schema", {}, "">>)}
  BY SourcesStay DEF ParseFails
<1>2. PICK e \in ParseErrors(Sources) : violations' = {Violation(e[1], e[2], 0, <<"schema", {}, "">>)}
  BY <1>1
<1>3. e[2] \in Tier1
  BY DEF ParseErrors, Tier1
<1>4. Violation(e[1], e[2], 0, <<"schema", {}, "">>).rule = e[2]
  BY DEF Violation
<1>5. ParseErrors(Sources)' = ParseErrors(Sources)
  BY <1>1, ErrorsStay
<1> QED
  BY <1>2, <1>3, <1>4, <1>5 DEF Reported

LEMMA WithoutSuppressedReported ==
  ASSUME IInv, IInv', Outcome, WithoutSuppressed PROVE Reported'
<1>1. /\ phase = "suppress" /\ phase' = "report" /\ Sources' = Sources /\ world' = world
  BY SourcesStay DEF WithoutSuppressed
<1>2. ParseErrors(Sources) = {} /\ ParseErrors(Sources)' = ParseErrors(Sources)
  BY <1>1, ErrorsStay DEF Outcome
<1>3. {v \in violations : v.rule \in Rules}' = Unsilenced(Sources)'
  BY <1>1, <1>2 DEF IInv, LintsExactly, Unsilenced, Found
<1>4. Complaints' = Complaints
  BY <1>1 DEF Complaints, Malformed
<1>5. Places(violations)' = Complaints'
  BY <1>4, PlacesAreComplaints DEF Places
<1> QED
  BY <1>2, <1>3, <1>5 DEF Reported

LEMMA OutcomeStays == IInv /\ IInv' /\ Outcome /\ [Next]_vars => Outcome'
<1> SUFFICES ASSUME IInv, IInv', Outcome, [Next]_vars PROVE Outcome'
  OBVIOUS
<1>1. Sources' = Sources => ParseErrors(Sources)' = ParseErrors(Sources)
  BY ErrorsStay
<1>2. ASSUME Sources' = Sources, world' = world, violations' = violations, Reported
      PROVE  Reported'
  <2>1. Unsilenced(Sources)' = Unsilenced(Sources) /\ Complaints' = Complaints
    BY <1>2 DEF Unsilenced, Complaints, Malformed
  <2> QED
    BY <1>1, <1>2, <2>1 DEF Reported, Places
<1>3. CASE ParseFails
  BY <1>3, ParseFailsReported DEF ParseFails, Outcome
<1>4. CASE RunAllRules
  BY <1>1, <1>4, SourcesStay DEF RunAllRules, Outcome
<1>5. CASE \E g \in todo : RerunRule(g)
  BY <1>1, <1>5, SourcesStay DEF RerunRule, Outcome
<1>6. CASE Reconfigured
  BY <1>1, <1>6, SourcesStay DEF Reconfigured, Outcome
<1>7. CASE \E v \in todo : SuppressedBy(v)
  BY <1>1, <1>7, SourcesStay DEF SuppressedBy, Outcome
<1>8. CASE WithoutSuppressed
  BY <1>8, WithoutSuppressedReported DEF WithoutSuppressed, Outcome
<1>9. CASE ReadMergeBase \/ NoMergeBase
  BY <1>9 DEF ReadMergeBase, NoMergeBase, Outcome
<1>10. CASE ReportViolations
  <2>1. /\ Sources' = Sources /\ world' = world /\ phase = "report" /\ phase' = "done"
        /\ ~world.diff => violations' = violations
    BY <1>10, SourcesStay DEF ReportViolations
  <2> QED
    BY <1>2, <1>10, <2>1 DEF ReportViolations, Outcome
<1>11. CASE Done \/ UNCHANGED vars
  <2>1. UNCHANGED vars /\ Sources' = Sources
    BY <1>11, SourcesStay DEF Done, vars
  <2> QED
    BY <1>1, <1>2, <2>1 DEF vars, Outcome
<1> QED
  BY <1>3, <1>4, <1>5, <1>6, <1>7, <1>8, <1>9, <1>10, <1>11 DEF Next

(* The report is exactly the violations that the configuration in force in *)
(* each file finds on a line and that no comment speaks for, and the       *)
(* malformed directives, whatever the rules, the length of the files and   *)
(* the comments in them (FilesFromSources).                                *)
THEOREM ReportsExactlyHolds == Spec => []ReportsExactly
<1>1. Init => Outcome
  BY DEF Init, Outcome
<1>2. ASSUME IInv, Outcome PROVE ReportsExactly
  <2> SUFFICES ASSUME Finished, ~world.diff
               PROVE  /\ {v \in violations : v.rule \in Rules} = Expected(world.working)
                      /\ Places(violations) = ExpectedInvalid(world.working)
    BY DEF ReportsExactly, Places
  <2>1. /\ Reported /\ world \in Worlds
        /\ Sources = WithoutOperationDocuments(world.working)
    BY <1>2 DEF Outcome, Finished, Sources
  <2>2. CASE ParseErrors(Sources) # {}
    <3>1. \A v \in violations : v.rule \notin Rules /\ v.rule # Invalid
      <4>1. Invalid \notin Tier1
        BY DEF Tier1, Invalid, KnownTypeNames, UniqueTypeNames
      <4> QED
        BY <2>1, <2>2, <4>1, RulesAssumption DEF Reported, Unsuppressible
    <3> QED
      BY <2>1, <2>2, <3>1 DEF Places, Expected, ExpectedInvalid
  <2>3. CASE ParseErrors(Sources) = {}
    <3>1. \A f \in DOMAIN world.working : IsFile(world.working[f].lines)
      BY <2>1, WorldAssumption
    <3>2. Unsilenced(Sources) = Expected(world.working)
      BY <2>1, <2>3, <3>1, UnsilencedStands DEF Expected
    <3>3. Complaints = ExpectedInvalid(world.working)
      BY <2>1, <2>3 DEF Complaints, Malformed, ExpectedInvalid
    <3> QED
      BY <2>1, <2>3, <3>2, <3>3 DEF Reported
  <2> QED
    BY <2>2, <2>3
<1> QED
  BY <1>1, <1>2, InitHolds, StepHolds, OutcomeStays, PTL DEF Spec

-----------------------------------------------------------------------------
(* Type correctness. *)

IsViolation(v) ==
  v.file \in DOMAIN world.working /\ v.rule \in Rules \cup Unsuppressible /\ v.line \in Nat

LEMMA SourcesAreFiles ==
  ASSUME world \in Worlds
  PROVE  /\ DOMAIN Sources \subseteq DOMAIN world.working
         /\ \A f \in DOMAIN Sources : IsFile(Sources[f].lines)
<1>1. \A f \in DOMAIN world.working : IsFile(world.working[f].lines)
  BY WorldAssumption
<1>2. \A f \in DOMAIN world.base : IsFile(world.base[f].lines)
  BY WorldAssumption
<1>3. CASE tree = "working"
  BY <1>1, <1>3 DEF Sources, WithoutOperationDocuments
<1>4. CASE tree # "working"
  <2>1. Sources = WithoutOperationDocuments(AtMergeBase)
    BY <1>4 DEF Sources
  <2>2. /\ DOMAIN AtMergeBase \subseteq DOMAIN world.working
        /\ \A f \in DOMAIN AtMergeBase : IsFile(AtMergeBase[f].lines)
    BY <1>2 DEF AtMergeBase
  <2> QED
    BY <2>1, <2>2 DEF WithoutOperationDocuments
<1> QED
  BY <1>3, <1>4

LEMMA LinesAreNumbers ==
  ASSUME world \in Worlds, NEW f \in DOMAIN Sources, NEW i \in DOMAIN Sources[f].lines
  PROVE  i \in Nat
BY SourcesAreFiles DEF IsFile

LEMMA FoundTyped ==
  ASSUME world \in Worlds, NEW v \in Found
  PROVE  IsViolation(v) /\ v.file \in DOMAIN Sources /\ v.rule \in Rules
<1>1. PICK f \in DOMAIN Sources : \E r \in Rules : \E i \in DOMAIN Sources[f].lines :
        v = Hit(Sources, f, r, i) /\ FoundOn(Sources, f, r, i)
  BY FoundIs DEF Found
<1>2. PICK r \in Rules : \E i \in DOMAIN Sources[f].lines : v = Hit(Sources, f, r, i)
  BY <1>1
<1>3. PICK i \in DOMAIN Sources[f].lines : v = Hit(Sources, f, r, i)
  BY <1>2
<1>4. v.file = f /\ v.rule = r /\ v.line = i
  BY <1>3 DEF Hit, Violation
<1> QED
  BY <1>3, <1>4, SourcesAreFiles, LinesAreNumbers DEF IsViolation

LEMMA DiagnosticsTyped ==
  ASSUME world \in Worlds, NEW f \in DOMAIN Sources, NEW v \in SuppressionDiagnostics(f)
  PROVE  IsViolation(v)
<1> DEFINE lines == Sources[f].lines
           malformed == {i \in DOMAIN lines : IsNative(lines, i) /\ Problems(lines, i)}
           disables == {i \in DOMAIN lines : Valid(lines, i) /\ Comment(lines, i).kind # "enable"}
           Hint(i, r) == IF <<f, i, r>> \in shadowed THEN "shadowed" ELSE "unused"
           Of(i) == {Violation(f, Unused, i, <<Comment(lines, i).kind, {r}, Hint(i, r)>>) :
                       r \in {r \in Comment(lines, i).names : <<f, i, r>> \notin used}}
           OfInvalid == {Violation(f, Invalid, i, <<Comment(lines, i).kind, Comment(lines, i).names, "">>) :
                           i \in malformed}
<1>1. v \in OfInvalid \/ \E i \in disables : v \in Of(i)
  BY DEF SuppressionDiagnostics
<1>2. ASSUME NEW i \in DOMAIN lines, NEW m, NEW rule \in {Invalid, Unused}, v = Violation(f, rule, i, m)
      PROVE  IsViolation(v)
  <2>1. v.file = f /\ v.rule = rule /\ v.line = i
    BY <1>2 DEF Violation
  <2> QED
    BY <2>1, SourcesAreFiles, LinesAreNumbers DEF IsViolation, Unsuppressible
<1>3. CASE v \in OfInvalid
  BY <1>2, <1>3
<1>4. ASSUME NEW i \in disables, v \in Of(i) PROVE IsViolation(v)
  <2>1. PICK m : v = Violation(f, Unused, i, m)
    BY <1>4, Zenon
  <2> QED
    BY <1>2, <2>1
<1> QED
  BY <1>1, <1>3, <1>4

(* The violations of a stage are typed as long as what it holds is. *)
Typed ==
  /\ \A v \in violations \cup working : IsViolation(v)
  /\ \A u \in used \cup shadowed : u[1] \in DOMAIN Sources /\ u[3] \in Rules

LEMMA TypeStays ==
  IInv /\ IInv' /\ Outcome /\ Typed /\ [Next]_vars => Typed'
<1> SUFFICES ASSUME IInv, IInv', Outcome, Typed, [Next]_vars PROVE Typed'
  OBVIOUS
<1>1. world \in Worlds
  BY DEF Outcome
<1>2. ASSUME world' = world, Sources' = Sources, UNCHANGED <<working, used, shadowed>>,
             \A v \in violations' : IsViolation(v)
      PROVE  Typed'
  BY <1>2 DEF Typed, IsViolation
<1>3. CASE ParseFails
  <2>1. PICK e \in ParseErrors(Sources) : \E m : violations' = {Violation(e[1], e[2], 0, m)}
    BY <1>3, Zenon DEF ParseFails
  <2>2. e[1] \in DOMAIN Sources /\ e[2] \in Unsuppressible
    BY DEF ParseErrors, Tier1, Unsuppressible
  <2>3. ASSUME NEW v \in violations' PROVE v.file = e[1] /\ v.rule = e[2] /\ v.line = 0
    BY <2>1 DEF Violation
  <2>4. \A v \in violations' : IsViolation(v)
    BY <1>1, <2>2, <2>3, SourcesAreFiles DEF IsViolation
  <2> QED
    BY <1>2, <1>3, <2>4, SourcesStay DEF ParseFails
<1>4. CASE RunAllRules
  <2>1. violations' \subseteq Found
    BY <1>4 DEF RunAllRules, Found, AllRuns, RunShared
  <2> QED
    BY <1>1, <1>2, <1>4, <2>1, FoundTyped, SourcesStay DEF RunAllRules
<1>5. ASSUME NEW g \in todo, RerunRule(g) PROVE Typed'
  <2>1. /\ Sources' = Sources /\ world' = world /\ phase' = "reconfigure" /\ phase = "reconfigure"
        /\ UNCHANGED <<working, used, shadowed>>
    BY <1>5, SourcesStay DEF RerunRule
  <2>2. violations' = RunShared(Sources, world.rules) \cup GroupRuns(Sources, Groups(Sources) \ todo')
    BY <2>1 DEF IInv, Reconfiguring
  <2>3. GroupRuns(Sources, Groups(Sources) \ todo') \subseteq GroupRuns(Sources, Groups(Sources))
    BY DEF GroupRuns
  <2>4. violations' \subseteq Found
    BY <2>2, <2>3 DEF Found, AllRuns
  <2> QED
    BY <1>1, <1>2, <2>1, <2>4, FoundTyped
<1>6. CASE Reconfigured
  BY <1>2, <1>6, SourcesStay DEF Reconfigured, Typed
<1>7. ASSUME NEW v \in todo, SuppressedBy(v) PROVE Typed'
  <2>1. Sources' = Sources /\ world' = world /\ working' = working /\ phase = "suppress"
    BY <1>7, SourcesStay DEF SuppressedBy
  <2>2. v.file \in DOMAIN Sources /\ v.rule \in Rules
    BY <1>1, <2>1, FoundTyped DEF IInv, Suppressing
  <2>3. \A i : <<v.file, i, v.rule>>[1] = v.file /\ <<v.file, i, v.rule>>[3] = v.rule
    OBVIOUS
  <2>4. /\ violations' \subseteq violations
        /\ \A u \in used' \cup shadowed' : u \in used \cup shadowed \/ \E i : u = <<v.file, i, v.rule>>
    <3>1. CASE CoveringOf(Sources, v) = {}
      BY <1>7, <3>1 DEF SuppressedBy, CoveringOf
    <3>2. CASE CoveringOf(Sources, v) # {}
      <4>1. /\ violations' = violations \ {v}
            /\ used' = used \cup {<<v.file, FirstOf(Sources, v), v.rule>>}
            /\ shadowed' = shadowed \cup BeatenOn(Sources, v)
        BY <1>7, <3>2 DEF SuppressedBy, CoveringOf, FirstOf, BeatenOn
      <4>2. \A u \in BeatenOn(Sources, v) : \E i : u = <<v.file, i, v.rule>>
        BY DEF BeatenOn
      <4> QED
        BY <4>1, <4>2
    <3> QED
      BY <3>1, <3>2
  <2> QED
    BY <2>1, <2>2, <2>3, <2>4 DEF Typed, IsViolation
<1>8. CASE WithoutSuppressed
  <2>1. violations' \subseteq violations \cup UNION {SuppressionDiagnostics(f) : f \in DOMAIN Sources}
    BY <1>8 DEF WithoutSuppressed
  <2>2. \A v \in violations' : IsViolation(v)
    BY <1>1, <2>1, DiagnosticsTyped DEF Typed
  <2> QED
    BY <1>2, <1>8, <2>2, SourcesStay DEF WithoutSuppressed
<1>9. CASE ReadMergeBase
  BY <1>9 DEF ReadMergeBase, Typed, IsViolation
<1>10. CASE NoMergeBase
  BY <1>2, <1>10, SourcesStay DEF NoMergeBase
<1>11. CASE ReportViolations
  <2>1. violations' \subseteq violations \cup working
    BY <1>11 DEF ReportViolations, New
  <2> QED
    BY <1>2, <1>11, <2>1, SourcesStay DEF ReportViolations, Typed
<1>12. CASE Done \/ UNCHANGED vars
  <2>1. UNCHANGED vars
    BY <1>12 DEF Done
  <2> QED
    BY <1>2, <2>1, SourcesStay DEF vars, Typed
<1> QED
  BY <1>3, <1>4, <1>5, <1>6, <1>7, <1>8, <1>9, <1>10, <1>11, <1>12 DEF Next

Stages ==
  tree \in {"working", "base"} /\ phase \in {"parse", "reconfigure", "suppress", "report", "done"}
  /\ exit \in {"running", "0", "1"}

LEMMA StagesStay == Stages /\ [Next]_vars => Stages'
<1> SUFFICES ASSUME Stages, [Next]_vars PROVE Stages'
  OBVIOUS
<1> USE DEF Stages
<1>1. CASE ParseFails \/ RunAllRules \/ (\E g \in todo : RerunRule(g)) \/ Reconfigured
  BY <1>1 DEF ParseFails, RunAllRules, RerunRule, Reconfigured
<1>2. CASE (\E v \in todo : SuppressedBy(v)) \/ WithoutSuppressed
  BY <1>2 DEF SuppressedBy, WithoutSuppressed
<1>3. CASE ReadMergeBase \/ NoMergeBase \/ ReportViolations
  BY <1>3 DEF ReadMergeBase, NoMergeBase, ReportViolations, ExitCode
<1>4. CASE Done \/ UNCHANGED vars
  BY <1>4 DEF Done, vars
<1> QED
  BY <1>1, <1>2, <1>3, <1>4 DEF Next

(* Every stage holds violations of the files linted, whatever the tree. *)
THEOREM TypeCorrect == Spec => []TypeOK
<1>1. Init => Outcome /\ Typed /\ Stages
  BY DEF Init, Outcome, Typed, Stages
<1>2. Typed /\ Stages => TypeOK
  BY DEF Typed, Stages, TypeOK, IsViolation
<1> QED
  BY <1>1, <1>2, InitHolds, StepHolds, OutcomeStays, TypeStays, StagesStay, PTL DEF Spec

-----------------------------------------------------------------------------
(* What deleting rule names from the comments of a file changes: gone[i]   *)
(* are the names taken out of line i's comment, and the comment goes with  *)
(* its last name.                                                          *)

Names(lines, i) == Comment(lines, i).names
Kind(lines, i)  == Comment(lines, i).kind

Trims(lines, cut, gone) ==
  /\ DOMAIN cut = DOMAIN lines
  /\ \A i \in DOMAIN lines :
       /\ cut[i].code = lines[i].code
       /\ cut[i].violates = lines[i].violates
       /\ gone[i] \subseteq Names(lines, i)
       /\ gone[i] = {} => Comment(cut, i) = Comment(lines, i)
       /\ gone[i] # {} => Valid(lines, i) /\ Kind(lines, i) # "enable"
       /\ gone[i] # {} /\ gone[i] = Names(lines, i) => Kind(cut, i) = "none"
       /\ gone[i] # {} /\ gone[i] # Names(lines, i) =>
            /\ Kind(cut, i) = Kind(lines, i)
            /\ Comment(cut, i).reason = Comment(lines, i).reason
            /\ Names(cut, i) = Names(lines, i) \ gone[i]

(* A comment keeps its kind or goes, and then it was a directive. *)
LEMMA TrimKeepsKinds ==
  ASSUME NEW lines, NEW cut, NEW gone, Trims(lines, cut, gone), NEW i \in DOMAIN lines
  PROVE  /\ i \in DOMAIN cut
         /\ ~IsNative(lines, i) => Comment(cut, i) = Comment(lines, i)
         /\ Kind(cut, i) = Kind(lines, i) \/ (IsNative(lines, i) /\ Kind(cut, i) = "none")
         /\ Alone(cut, i) <=> Alone(lines, i)
<1>1. gone[i] # {} => IsNative(lines, i)
  BY DEF Trims, Valid
<1>2. gone[i] = {} => Comment(cut, i) = Comment(lines, i)
  BY DEF Trims
<1>3. gone[i] # {} => Kind(cut, i) = "none" \/ Kind(cut, i) = Kind(lines, i)
  BY DEF Trims
<1>4. i \in DOMAIN cut /\ (Alone(cut, i) <=> Alone(lines, i))
  BY DEF Trims, Alone
<1> QED
  BY <1>1, <1>2, <1>3, <1>4 DEF Kind

(* The reason of a directive does not depend on the other directives'      *)
(* names: one above it breaks its block of comments, with names or gone.   *)
LEMMA TrimKeepsReasons ==
  ASSUME NEW lines, IsFile(lines), NEW cut, NEW gone, Trims(lines, cut, gone),
         NEW i \in DOMAIN lines, Kind(cut, i) = Kind(lines, i)
  PROVE  HasReason(cut, i) <=> HasReason(lines, i)
<1>1. DOMAIN lines = 1 .. Len(lines) /\ Len(lines) \in Nat
  BY DEF IsFile
<1>2. \A k \in 1 .. i - 1 : k \in DOMAIN lines /\ \A j \in k .. i - 1 : j \in DOMAIN lines
  BY <1>1
<1>3. ASSUME NEW j \in DOMAIN lines
      PROVE  /\ Kind(cut, j) = "why" <=> Kind(lines, j) = "why"
             /\ (Alone(cut, j) /\ Kind(cut, j) # "none" /\ ~IsNative(cut, j))
                  <=> (Alone(lines, j) /\ Kind(lines, j) # "none" /\ ~IsNative(lines, j))
  BY TrimKeepsKinds DEF IsNative, NativeKinds, Kind
<1>4. WhyReason(cut, i) <=> WhyReason(lines, i)
  BY <1>2, <1>3 DEF WhyReason, Kind
<1>5. AcceptsWhy(cut, i) <=> AcceptsWhy(lines, i)
  BY TrimKeepsKinds DEF AcceptsWhy, Kind
<1>6. Comment(cut, i).reason = Comment(lines, i).reason
  <2>1. CASE gone[i] # {} /\ gone[i] = Names(lines, i)
    <3>1. Kind(cut, i) = "none" /\ IsNative(lines, i)
      BY <2>1 DEF Trims, Valid
    <3> QED
      BY <3>1 DEF IsNative, NativeKinds, Kind
  <2>2. CASE ~ (gone[i] # {} /\ gone[i] = Names(lines, i))
    BY <2>2 DEF Trims
  <2> QED
    BY <2>1, <2>2
<1> QED
  BY <1>4, <1>5, <1>6 DEF HasReason

(* A directive stays valid as long as it has a name left. *)
LEMMA TrimKeepsValid ==
  ASSUME NEW lines, IsFile(lines), NEW cut, NEW gone, Trims(lines, cut, gone),
         NEW i \in DOMAIN lines
  PROVE  /\ Valid(cut, i) <=> Valid(lines, i) /\ (gone[i] = {} \/ gone[i] # Names(lines, i))
         /\ Valid(cut, i) => /\ Kind(cut, i) = Kind(lines, i)
                             /\ Names(cut, i) = Names(lines, i) \ gone[i]
<1>1. CASE gone[i] = {}
  <2>1. Comment(cut, i) = Comment(lines, i)
    BY <1>1 DEF Trims
  <2>2. HasReason(cut, i) <=> HasReason(lines, i)
    BY <2>1, TrimKeepsReasons DEF Kind
  <2> QED
    BY <1>1, <2>1, <2>2 DEF Valid, IsNative, Problems, Kind, Names
<1>2. CASE gone[i] # {} /\ gone[i] = Names(lines, i)
  <2>1. Kind(cut, i) = "none"
    BY <1>2 DEF Trims
  <2> QED
    BY <1>2, <2>1 DEF Valid, IsNative, NativeKinds, Kind
<1>3. CASE gone[i] # {} /\ gone[i] # Names(lines, i)
  <2>1. /\ Kind(cut, i) = Kind(lines, i) /\ Names(cut, i) = Names(lines, i) \ gone[i]
        /\ gone[i] \subseteq Names(lines, i) /\ Valid(lines, i) /\ Kind(lines, i) # "enable"
    BY <1>3 DEF Trims
  <2>2. HasReason(cut, i) <=> HasReason(lines, i)
    BY <2>1, TrimKeepsReasons
  <2>3. Names(cut, i) # {} /\ Names(cut, i) \subseteq Names(lines, i)
    BY <1>3, <2>1
  <2> QED
    BY <1>3, <2>1, <2>2, <2>3 DEF Valid, IsNative, Problems, Kind, Names
<1> QED
  BY <1>1, <1>2, <1>3

LEMMA TrimKeepsTargets ==
  ASSUME NEW lines, NEW cut, NEW gone, Trims(lines, cut, gone),
         NEW i \in DOMAIN lines, Kind(cut, i) = Kind(lines, i)
  PROVE  Targets(cut, i) = Targets(lines, i)
<1>1. \A k : NextCode(cut, k) = NextCode(lines, k)
  <2>1. DOMAIN cut = DOMAIN lines /\ \A j \in DOMAIN lines : Alone(cut, j) <=> Alone(lines, j)
    BY TrimKeepsKinds DEF Trims
  <2> QED
    BY <2>1 DEF NextCode
<1>2. NextLineTargets(cut, i) = NextLineTargets(lines, i)
  <2>1. /\ i + 1 \in DOMAIN cut <=> i + 1 \in DOMAIN lines
        /\ i + 1 \in DOMAIN lines => cut[i + 1].code = lines[i + 1].code
    BY DEF Trims
  <2> QED
    BY <1>1, <2>1 DEF NextLineTargets
<1>3. CASE Kind(lines, i) = "disable-line"
  BY <1>3 DEF Targets, Kind
<1>4. CASE Kind(lines, i) = "disable-next-line"
  BY <1>2, <1>4 DEF Targets, Kind
<1>5. CASE Kind(lines, i) \notin {"disable-line", "disable-next-line"}
  BY <1>5 DEF Targets, Kind
<1> QED
  BY <1>3, <1>4, <1>5

(* The directives that silence a rule on a line are those whose name for   *)
(* the rule stays, and the range directives lose no enable.                *)
LEMMA TrimKeepsLineDirectives ==
  ASSUME NEW lines, IsFile(lines), NEW cut, NEW gone, Trims(lines, cut, gone),
         NEW rule, NEW line
  PROVE  LineDirectives(cut, rule, line) = {i \in LineDirectives(lines, rule, line) : rule \notin gone[i]}
<1>1. ASSUME NEW i \in DOMAIN lines
      PROVE  (Valid(cut, i) /\ rule \in Names(cut, i) /\ line \in Targets(cut, i))
               <=> (Valid(lines, i) /\ rule \in Names(lines, i) /\ line \in Targets(lines, i)
                      /\ rule \notin gone[i])
  <2>1. Valid(cut, i) => Targets(cut, i) = Targets(lines, i)
    BY TrimKeepsValid, TrimKeepsTargets
  <2>2. gone[i] \subseteq Names(lines, i)
    BY DEF Trims
  <2> QED
    BY <2>1, <2>2, TrimKeepsValid
<1>2. DOMAIN cut = DOMAIN lines
  BY DEF Trims
<1> QED
  BY <1>1, <1>2 DEF LineDirectives, Names

LEMMA TrimKeepsRangeDirectives ==
  ASSUME NEW lines, IsFile(lines), NEW cut, NEW gone, Trims(lines, cut, gone),
         NEW rule, NEW line
  PROVE  /\ RangeDirectives(cut, rule, line) =
              {i \in RangeDirectives(lines, rule, line) : Kind(lines, i) = "enable" \/ rule \notin gone[i]}
         /\ \A i \in RangeDirectives(cut, rule, line) : Kind(cut, i) = Kind(lines, i)
<1> DEFINE Speaking(l, i) == \/ Kind(l, i) = "disable" /\ rule \in Names(l, i)
                             \/ Kind(l, i) = "enable" /\ (Names(l, i) = {} \/ rule \in Names(l, i))
<1>1. ASSUME NEW i \in DOMAIN lines
      PROVE  (Valid(cut, i) /\ Speaking(cut, i))
               <=> (Valid(lines, i) /\ Speaking(lines, i) /\ (Kind(lines, i) = "enable" \/ rule \notin gone[i]))
  <2>1. gone[i] \subseteq Names(lines, i) /\ (Kind(lines, i) = "enable" => gone[i] = {})
    BY DEF Trims
  <2>2. CASE Kind(lines, i) = "enable"
    BY <2>1, <2>2, TrimKeepsValid
  <2>3. CASE Kind(lines, i) # "enable"
    BY <2>1, <2>3, TrimKeepsValid
  <2> QED
    BY <2>2, <2>3
<1>2. DOMAIN cut = DOMAIN lines
  BY DEF Trims
<1>3. \A l : RangeDirectives(l, rule, line) = {i \in DOMAIN l : i < line /\ Valid(l, i) /\ Speaking(l, i)}
  BY DEF RangeDirectives, Names, Kind
<1>4. \A i \in RangeDirectives(cut, rule, line) : Kind(cut, i) = Kind(lines, i)
  BY <1>2, <1>3, TrimKeepsValid
<1> HIDE DEF Speaking
<1> QED
  BY <1>1, <1>2, <1>3, <1>4

(* A violation that no directive takes away is still not taken away, the   *)
(* latest range directive being an enable if there is any; one that is     *)
(* taken away by a directive whose name for the rule stays, still is, and  *)
(* by the same.                                                            *)
LEMMA TrimKeepsUncovered ==
  ASSUME NEW lines, IsFile(lines), NEW cut, NEW gone, Trims(lines, cut, gone),
         NEW rule, NEW line, Covering(lines, rule, line) = {}
  PROVE  Covering(cut, rule, line) = {}
<1> DEFINE ranges == RangeDirectives(lines, rule, line)
<1>1. LineDirectives(cut, rule, line) = {}
  BY TrimKeepsLineDirectives DEF Covering
<1>2. ASSUME NEW i \in ActiveBy(cut, rule, line) PROVE FALSE
  <2>1. /\ i \in ranges /\ Kind(lines, i) = "disable"
        /\ \A j \in RangeDirectives(cut, rule, line) : j <= i
    BY <1>2, TrimKeepsRangeDirectives DEF ActiveBy, Kind
  <2>2. ranges \subseteq 1 .. Len(lines) /\ Len(lines) \in Nat
    BY DEF RangeDirectives, IsFile
  <2>3. Max(ranges) \in ranges /\ \A j \in ranges : Max(ranges) >= j
    BY <2>1, <2>2, LastLine
  <2>4. Max(ranges) \notin ActiveBy(lines, rule, line)
    BY DEF Covering
  <2>5. \A j \in ranges : j <= Max(ranges)
    BY <2>2, <2>3
  <2>6. Kind(lines, Max(ranges)) # "disable"
    BY <2>3, <2>4, <2>5 DEF ActiveBy, Kind
  <2>7. Kind(lines, Max(ranges)) = "enable"
    BY <2>3, <2>6 DEF RangeDirectives, Kind
  <2>8. Max(ranges) <= i
    BY <2>1, <2>3, <2>7, TrimKeepsRangeDirectives
  <2>9. Max(ranges) = i
    BY <2>1, <2>2, <2>3, <2>8
  <2> QED
    BY <2>1, <2>6, <2>9
<1> QED
  BY <1>1, <1>2 DEF Covering

LEMMA TrimKeepsFirst ==
  ASSUME NEW lines, IsFile(lines), NEW cut, NEW gone, Trims(lines, cut, gone),
         NEW rule, NEW line, Covering(lines, rule, line) # {},
         rule \notin gone[FirstCovering(lines, rule, line)]
  PROVE  /\ Covering(cut, rule, line) # {}
         /\ FirstCovering(cut, rule, line) = FirstCovering(lines, rule, line)
<1> DEFINE first == FirstCovering(lines, rule, line)
           direct == LineDirectives(lines, rule, line)
           active == ActiveBy(lines, rule, line)
           ranges == RangeDirectives(lines, rule, line)
<1>1. /\ direct \subseteq Nat /\ active \subseteq ranges /\ ranges \subseteq Nat
      /\ LineDirectives(cut, rule, line) \subseteq direct
  <2>1. DOMAIN lines \subseteq Nat
    BY DEF IsFile
  <2>2. direct \subseteq DOMAIN lines /\ ranges \subseteq DOMAIN lines
    BY DEF LineDirectives, RangeDirectives
  <2>3. active \subseteq ranges
    BY DEF ActiveBy
  <2>4. LineDirectives(cut, rule, line) \subseteq direct
    BY TrimKeepsLineDirectives
  <2> QED
    BY <2>1, <2>2, <2>3, <2>4
<1>2. CASE direct # {}
  <2>1. first \in direct /\ \A i \in direct : first <= i
    BY <1>1, <1>2, FirstLine DEF FirstCovering
  <2> DEFINE left == LineDirectives(cut, rule, line)
  <2>2. first \in left
    BY <2>1, TrimKeepsLineDirectives
  <2> HIDE DEF first, left
  <2>3. Min(left) \in left /\ \A i \in left : Min(left) <= i
    BY <1>1, <2>2, FirstLine DEF left
  <2>4. Min(left) <= first /\ first <= Min(left) /\ first \in Nat /\ Min(left) \in Nat
    BY <1>1, <2>1, <2>2, <2>3 DEF left
  <2>5. Min(left) = first
    BY <2>4
  <2> QED
    BY <2>2, <2>5 DEF FirstCovering, Covering, first, left
<1>3. CASE direct = {}
  <2>1. LineDirectives(cut, rule, line) = {}
    BY <1>1, <1>3
  <2>2. first \in active
    BY <1>1, <1>3, FirstLine DEF FirstCovering, Covering
  <2>3. first \in ranges /\ Kind(lines, first) = "disable" /\ \A j \in ranges : j <= first
    BY <2>2 DEF ActiveBy, Kind
  <2>4. first \in RangeDirectives(cut, rule, line) /\ RangeDirectives(cut, rule, line) \subseteq ranges
    BY <2>3, TrimKeepsRangeDirectives
  <2> HIDE DEF first
  <2>5. first \in ActiveBy(cut, rule, line)
    BY <2>3, <2>4, TrimKeepsRangeDirectives DEF ActiveBy, Kind
  <2>6. \A i \in ActiveBy(cut, rule, line) : i = first
    <3> SUFFICES ASSUME NEW i \in ActiveBy(cut, rule, line) PROVE i = first
      OBVIOUS
    <3>1. i \in ranges /\ first <= i
      BY <2>4 DEF ActiveBy
    <3>2. i <= first
      BY <2>3, <3>1
    <3> QED
      BY <1>1, <2>3, <3>1, <3>2
  <2>7. Min(ActiveBy(cut, rule, line)) = first
    <3>1. ActiveBy(cut, rule, line) \subseteq Nat
      BY <1>1, <2>3, <2>6
    <3> QED
      BY <2>5, <2>6, <3>1, FirstLine
  <2> QED
    BY <2>1, <2>5, <2>7 DEF FirstCovering, Covering, first
<1> QED
  BY <1>2, <1>3

(* The comments of the other kinds are left as they are. *)
LEMMA TrimKeepsEslint ==
  ASSUME NEW lines, IsFile(lines), NEW cut, NEW gone, Trims(lines, cut, gone), NEW rule, NEW line
  PROVE  Suppresses(cut, rule, line) <=> Suppresses(lines, rule, line)
<1> DEFINE Kinds == {"eslint-disable", "eslint-enable", "eslint-disable-next-line"}
<1>1. ASSUME NEW i \in DOMAIN lines
      PROVE  /\ Kind(cut, i) \in Kinds <=> Kind(lines, i) \in Kinds
             /\ Kind(lines, i) \in Kinds => Comment(cut, i) = Comment(lines, i)
  BY TrimKeepsKinds DEF IsNative, NativeKinds, Kind
<1>2. DOMAIN cut = DOMAIN lines
  BY DEF Trims
<1>3. Speaks(cut, rule, line) = Speaks(lines, rule, line)
  <2>1. \A l : Speaks(l, rule, line) =
            {i \in DOMAIN l : /\ i < line /\ Kind(l, i) \in {"eslint-disable", "eslint-enable"}
                              /\ Comment(l, i).names = {} \/ rule \in Comment(l, i).names}
    BY DEF Speaks, Kind
  <2>2. ASSUME NEW i \in DOMAIN lines, Kind(cut, i) \in {"eslint-disable", "eslint-enable"}
        PROVE  Comment(cut, i) = Comment(lines, i)
    BY <1>1, <2>2
  <2>3. ASSUME NEW i \in DOMAIN lines, Kind(lines, i) \in {"eslint-disable", "eslint-enable"}
        PROVE  Comment(cut, i) = Comment(lines, i)
    BY <1>1, <2>3
  <2> QED
    BY <1>2, <2>1, <2>2, <2>3 DEF Kind
<1>4. Speaks(lines, rule, line) # {} =>
        LET latest == Max(Speaks(lines, rule, line)) IN
        Kind(lines, latest) = "eslint-disable" <=> Kind(cut, latest) = "eslint-disable"
  <2> SUFFICES ASSUME Speaks(lines, rule, line) # {}
               PROVE  LET latest == Max(Speaks(lines, rule, line)) IN
                      Kind(lines, latest) = "eslint-disable" <=> Kind(cut, latest) = "eslint-disable"
    OBVIOUS
  <2>1. Speaks(lines, rule, line) \subseteq 1 .. Len(lines) /\ Len(lines) \in Nat
    BY DEF Speaks, IsFile
  <2>2. Max(Speaks(lines, rule, line)) \in DOMAIN lines
    BY <2>1, LastLine DEF IsFile
  <2> QED
    BY <1>1, <2>2 DEF Kind
<1>5. line - 1 \in DOMAIN lines =>
        /\ Kind(lines, line - 1) = "eslint-disable-next-line" <=> Kind(cut, line - 1) = "eslint-disable-next-line"
        /\ Kind(lines, line - 1) = "eslint-disable-next-line" => Comment(cut, line - 1) = Comment(lines, line - 1)
  BY <1>1 DEF Kind
<1> QED
  BY <1>2, <1>3, <1>4, <1>5 DEF Suppresses, Kind

(* So are the rules' configurations and with them the violations. *)
LEMMA TrimKeepsViolations ==
  ASSUME NEW lines, NEW cut, NEW gone, Trims(lines, cut, gone), NEW rule, NEW i \in DOMAIN lines
  PROVE  Violates(cut, rule, i) <=> Violates(lines, rule, i)
<1>1. \A j \in DOMAIN lines : Kind(cut, j) = "eslint" \/ Kind(lines, j) = "eslint" =>
         Comment(cut, j) = Comment(lines, j)
  BY TrimKeepsKinds DEF IsNative, NativeKinds, Kind
<1>2. ConfigComments(cut, rule) = ConfigComments(lines, rule)
  BY <1>1 DEF ConfigComments, Kind, Trims
<1>3. \A j \in ConfigComments(lines, rule) : Comment(cut, j) = Comment(lines, j)
  BY <1>1 DEF ConfigComments, Kind
<1>4. \A config : InForce(cut, rule, config) <=> InForce(lines, rule, config)
  BY <1>2, <1>3 DEF InForce
<1>5. cut[i].violates = lines[i].violates
  BY DEF Trims
<1> QED
  BY <1>4, <1>5 DEF Violates

-----------------------------------------------------------------------------
(* What Cleaned makes of the files. *)

(* The names a report says of line i of f that they are unused. *)
Told(vs, f, i) ==
  UNION {v.message[2] : v \in {v \in vs : v.rule = Unused /\ v.file = f /\ v.line = i}}

Gone(files, vs, f) == [i \in DOMAIN files[f].lines |-> Names(files[f].lines, i) \cap Told(vs, f, i)]

AreSources(files) == \A f \in DOMAIN files : IsSource(files[f]) /\ IsFile(files[f].lines)

LEMMA CleanedLines ==
  ASSUME NEW files, AreSources(files), NEW vs, NEW f \in DOMAIN files
  PROVE  LET lines == files[f].lines
             cut == Cleaned(files, vs)[f].lines
             gone == Gone(files, vs, f)
         IN  /\ IsFile(cut)
             /\ DOMAIN cut = DOMAIN lines
             /\ \A i \in DOMAIN lines :
                  /\ cut[i].code = lines[i].code /\ cut[i].item = lines[i].item
                  /\ cut[i].violates = lines[i].violates
                  /\ gone[i] = {} => Comment(cut, i) = Comment(lines, i)
                  /\ gone[i] # {} /\ gone[i] = Names(lines, i) => Kind(cut, i) = "none"
                  /\ gone[i] # {} /\ gone[i] # Names(lines, i) =>
                       /\ Kind(cut, i) = Kind(lines, i)
                       /\ Comment(cut, i).reason = Comment(lines, i).reason
                       /\ Names(cut, i) = Names(lines, i) \ gone[i]
<1> DEFINE lines == files[f].lines
           cut == Cleaned(files, vs)[f].lines
           gone == Gone(files, vs, f)
           Left(i) == lines[i].comment.names \ Told(vs, f, i)
           Cut(i) == IF Left(i) = lines[i].comment.names THEN lines[i]
                     ELSE IF Left(i) = {} THEN [lines[i] EXCEPT !.comment = NoComment]
                     ELSE [lines[i] EXCEPT !.comment.names = Left(i)]
<1>1. cut = [i \in DOMAIN lines |-> Cut(i)]
  <2>1. Cleaned(files, vs)[f] = [files[f] EXCEPT !.lines = [i \in DOMAIN lines |-> Cut(i)]]
    BY DEF Cleaned, Told
  <2>2. "lines" \in DOMAIN files[f]
    <3>1. files[f] = [operations |-> files[f].operations, defines |-> files[f].defines,
                      refers |-> files[f].refers, lines |-> files[f].lines]
      BY DEF AreSources, IsSource
    <3>2. DOMAIN [operations |-> files[f].operations, defines |-> files[f].defines,
                  refers |-> files[f].refers, lines |-> files[f].lines]
            = {"operations", "defines", "refers", "lines"}
      OBVIOUS
    <3> QED
      BY <3>1, <3>2
  <2> QED
    BY <2>1, <2>2
<1>2. ASSUME NEW i \in DOMAIN lines
      PROVE  /\ IsLine(Cut(i))
             /\ Cut(i).code = lines[i].code /\ Cut(i).item = lines[i].item
             /\ Cut(i).violates = lines[i].violates
             /\ Left(i) = lines[i].comment.names => Cut(i).comment = lines[i].comment
             /\ Left(i) = {} /\ Left(i) # lines[i].comment.names => Cut(i).comment.kind = "none"
             /\ Left(i) # {} /\ Left(i) # lines[i].comment.names =>
                  /\ Cut(i).comment.kind = lines[i].comment.kind
                  /\ Cut(i).comment.reason = lines[i].comment.reason
                  /\ Cut(i).comment.names = Left(i)
  <2> DEFINE line == lines[i]
             c == line.comment
  <2>1. IsLine(line)
    BY DEF AreSources, IsFile
  <2> HIDE DEF lines
  <2>2. /\ line = [code |-> line.code, item |-> line.item, violates |-> line.violates, comment |-> c]
        /\ c = [kind |-> c.kind, names |-> c.names, reason |-> c.reason,
                severity |-> c.severity, options |-> c.options]
        /\ c.kind = "eslint" => c.severity \in {"off", "warn", "error", "bad"}
    BY <2>1 DEF IsLine
  <2>3. PICK code, item, violates, kind, names, reason, severity, options :
          /\ line = [code |-> code, item |-> item, violates |-> violates,
                     comment |-> [kind |-> kind, names |-> names, reason |-> reason,
                                  severity |-> severity, options |-> options]]
          /\ kind = "eslint" => severity \in {"off", "warn", "error", "bad"}
    BY <2>2, Zenon
  <2> DEFINE left == Left(i)
  <2>4. CASE left = c.names
    BY <2>1, <2>4
  <2>5. CASE left = {} /\ left # c.names
    <3>1. Cut(i) = [code |-> code, item |-> item, violates |-> violates, comment |-> NoComment]
      BY <2>3, <2>5
    <3> QED
      BY <2>3, <2>5, <3>1 DEF IsLine, NoComment
  <2>6. CASE left # {} /\ left # c.names
    <3> HIDE DEF left
    <3>1. Cut(i) = [line EXCEPT !.comment.names = left]
      BY <2>6 DEF left
    <3>2. Cut(i) = [code |-> code, item |-> item, violates |-> violates,
                    comment |-> [kind |-> kind, names |-> left, reason |-> reason,
                                 severity |-> severity, options |-> options]]
      BY <2>3, <3>1
    <3> HIDE DEF Cut
    <3> QED
      BY <2>3, <2>6, <3>2 DEF IsLine, left
  <2> QED
    BY <2>4, <2>5, <2>6
<1>3. ASSUME NEW i \in DOMAIN lines
      PROVE  /\ gone[i] = {} <=> Left(i) = lines[i].comment.names
             /\ gone[i] = Names(lines, i) <=> Left(i) = {}
             /\ Left(i) = Names(lines, i) \ gone[i]
             /\ gone[i] \subseteq Names(lines, i)
  BY DEF Gone, Names, Comment
<1> HIDE DEF Cut, Left, gone
<1>4. DOMAIN cut = DOMAIN lines /\ \A i \in DOMAIN lines : cut[i] = Cut(i)
  BY <1>1
<1>5. IsFile(cut)
  <2>1. DOMAIN lines = 1 .. Len(lines) /\ Len(lines) \in Nat
    BY DEF AreSources, IsFile
  <2> DEFINE S == {Cut(i) : i \in DOMAIN lines}
  <2>2. cut \in [1 .. Len(lines) -> S]
    BY <1>1, <2>1
  <2>3. cut \in Seq(S)
    BY <2>1, <2>2, SeqDef
  <2>4. Len(cut) \in Nat /\ DOMAIN cut = 1 .. Len(cut)
    BY <2>3, LenProperties
  <2> QED
    BY <1>2, <1>4, <2>4 DEF IsFile
<1> HIDE DEF cut, lines
<1>6. ASSUME NEW i \in DOMAIN lines
      PROVE  /\ cut[i].code = lines[i].code /\ cut[i].item = lines[i].item
             /\ cut[i].violates = lines[i].violates
             /\ gone[i] = {} => Comment(cut, i) = Comment(lines, i)
             /\ gone[i] # {} /\ gone[i] = Names(lines, i) => Kind(cut, i) = "none"
             /\ gone[i] # {} /\ gone[i] # Names(lines, i) =>
                  /\ Kind(cut, i) = Kind(lines, i)
                  /\ Comment(cut, i).reason = Comment(lines, i).reason
                  /\ Names(cut, i) = Names(lines, i) \ gone[i]
  BY <1>2, <1>3, <1>4 DEF Comment, Kind, Names
<1> QED
  BY <1>4, <1>5, <1>6 DEF cut, lines, gone

LEMMA CleanedSources ==
  ASSUME NEW files, AreSources(files), NEW vs
  PROVE  LET sources == WithoutOperationDocuments(files)
             left == WithoutOperationDocuments(Cleaned(files, vs))
         IN  /\ DOMAIN left = DOMAIN sources
             /\ \A f \in DOMAIN sources : /\ f \in DOMAIN files /\ sources[f] = files[f]
                                          /\ left[f] = Cleaned(files, vs)[f]
             /\ ParseErrors(left) = ParseErrors(sources)
<1> DEFINE cleaned == Cleaned(files, vs)
           sources == WithoutOperationDocuments(files)
           left == WithoutOperationDocuments(cleaned)
<1>1. DOMAIN cleaned = DOMAIN files
  BY DEF Cleaned
<1>2. ASSUME NEW f \in DOMAIN files
      PROVE  /\ cleaned[f].operations = files[f].operations
             /\ cleaned[f].defines = files[f].defines
             /\ cleaned[f].refers = files[f].refers
  <2>1. PICK lines : cleaned[f] = [files[f] EXCEPT !.lines = lines]
    BY Zenon DEF Cleaned
  <2>2. files[f] = [operations |-> files[f].operations, defines |-> files[f].defines,
                    refers |-> files[f].refers, lines |-> files[f].lines]
    BY DEF AreSources, IsSource
  <2>3. PICK operations, defines, refers, old :
          files[f] = [operations |-> operations, defines |-> defines, refers |-> refers, lines |-> old]
    BY <2>2, Zenon
  <2> QED
    BY <2>1, <2>3
<1> HIDE DEF cleaned
<1>3. /\ DOMAIN left = DOMAIN sources
      /\ \A f \in DOMAIN sources : f \in DOMAIN files /\ sources[f] = files[f] /\ left[f] = cleaned[f]
  <2>1. {f \in DOMAIN cleaned : ~cleaned[f].operations} = {f \in DOMAIN files : ~files[f].operations}
    BY <1>1, <1>2
  <2> QED
    BY <2>1 DEF WithoutOperationDocuments
<1>4. \A f \in DOMAIN sources : left[f].defines = sources[f].defines /\ left[f].refers = sources[f].refers
  BY <1>2, <1>3
<1> HIDE DEF left, sources
<1>5. \A f \in DOMAIN sources : Undefined(left, f) = Undefined(sources, f) /\ (Redefined(left, f) <=> Redefined(sources, f))
  <2> SUFFICES ASSUME NEW f \in DOMAIN sources
               PROVE  Undefined(left, f) = Undefined(sources, f) /\ (Redefined(left, f) <=> Redefined(sources, f))
    OBVIOUS
  <2>1. {left[g].defines : g \in DOMAIN left} = {sources[g].defines : g \in DOMAIN sources}
    BY <1>3, <1>4
  <2>2. Undefined(left, f) = Undefined(sources, f)
    BY <1>4, <2>1 DEF Undefined
  <2>3. Redefined(left, f) <=> Redefined(sources, f)
    BY <1>3, <1>4 DEF Redefined
  <2> QED
    BY <2>2, <2>3
<1>6. ParseErrors(left) = ParseErrors(sources)
  BY <1>3, <1>5 DEF ParseErrors
<1> QED
  BY <1>3, <1>6 DEF left, sources, cleaned

(* Only names of valid comments that disable go, and none that takes a     *)
(* violation away.                                                         *)
TakesOnlyUnused(files, vs) ==
  \A f \in DOMAIN WithoutOperationDocuments(files) :
    LET lines == files[f].lines
        gone == Gone(files, vs, f)
    IN  /\ \A i \in DOMAIN lines : gone[i] # {} => Valid(lines, i) /\ Kind(lines, i) # "enable"
        /\ \A r \in Rules : \A i \in DOMAIN lines :
             Violates(lines, r, i) /\ Covering(lines, r, i) # {} => r \notin gone[FirstCovering(lines, r, i)]

(* Every name that does not is told of. *)
TellsAllUnused(files, vs) ==
  \A f \in DOMAIN WithoutOperationDocuments(files) :
    LET lines == files[f].lines
    IN  \A d \in DOMAIN lines :
          Valid(lines, d) /\ Kind(lines, d) # "enable" =>
            \A r \in Names(lines, d) \ Gone(files, vs, f)[d] : IsOfUse(lines, d, r)

LEMMA CleanedTrims ==
  ASSUME NEW files, AreSources(files), NEW vs, TakesOnlyUnused(files, vs),
         NEW f \in DOMAIN WithoutOperationDocuments(files)
  PROVE  Trims(files[f].lines, Cleaned(files, vs)[f].lines, Gone(files, vs, f))
<1>1. f \in DOMAIN files
  BY DEF WithoutOperationDocuments
<1>2. \A i \in DOMAIN files[f].lines : Gone(files, vs, f)[i] \subseteq Names(files[f].lines, i)
  BY DEF Gone
<1> QED
  BY <1>1, <1>2, CleanedLines DEF TakesOnlyUnused, Trims

LEMMA CleanedExpectsTheSame ==
  ASSUME NEW files, AreSources(files), NEW vs, TakesOnlyUnused(files, vs)
  PROVE  Expected(Cleaned(files, vs)) = Expected(files)
<1> DEFINE cleaned == Cleaned(files, vs)
           sources == WithoutOperationDocuments(files)
           left == WithoutOperationDocuments(cleaned)
           Open(lines, r, i) == /\ Violates(lines, r, i)
                                /\ ~SilencedNatively(lines, r, i)
                                /\ ~SilencedByEslint(lines, r, i)
           Hits(s, f, r) == {Violation(f, r, i, <<s[f].lines[i].item, {}, "">>) :
                               i \in {i \in DOMAIN s[f].lines : Open(s[f].lines, r, i)}}
<1>1. /\ DOMAIN left = DOMAIN sources
      /\ \A f \in DOMAIN sources : f \in DOMAIN files /\ sources[f] = files[f] /\ left[f] = cleaned[f]
      /\ ParseErrors(left) = ParseErrors(sources)
  BY CleanedSources
<1>2. /\ Expected(files) = IF ParseErrors(sources) # {} THEN {}
                           ELSE UNION {UNION {Hits(sources, f, r) : r \in Rules} : f \in DOMAIN sources}
      /\ Expected(cleaned) = IF ParseErrors(left) # {} THEN {}
                           ELSE UNION {UNION {Hits(left, f, r) : r \in Rules} : f \in DOMAIN left}
  BY DEF Expected, Standing
<1> HIDE DEF sources, left, cleaned
<1>3. ASSUME NEW f \in DOMAIN sources, NEW r \in Rules
      PROVE  Hits(left, f, r) = Hits(sources, f, r)
  <2> DEFINE lines == files[f].lines
             cut == cleaned[f].lines
             gone == Gone(files, vs, f)
  <2>1. f \in DOMAIN files /\ sources[f].lines = lines /\ left[f].lines = cut
    BY <1>1, <1>3
  <2>2. IsFile(lines) /\ IsFile(cut) /\ Trims(lines, cut, gone)
    BY <1>3, <2>1, CleanedTrims, CleanedLines DEF AreSources, cleaned, sources
  <2>3. DOMAIN cut = DOMAIN lines /\ \A i \in DOMAIN lines : cut[i].item = lines[i].item
    BY <2>1, CleanedLines DEF cleaned
  <2>4. \A i \in DOMAIN lines : Violates(lines, r, i) /\ Covering(lines, r, i) # {} =>
                                   r \notin gone[FirstCovering(lines, r, i)]
    BY <1>3 DEF TakesOnlyUnused, sources
  <2> HIDE DEF lines, cut, gone
  <2>5. ASSUME NEW i \in DOMAIN lines PROVE Open(cut, r, i) <=> Open(lines, r, i)
    <3>1. Violates(cut, r, i) <=> Violates(lines, r, i)
      BY <2>2, TrimKeepsViolations
    <3>2. SilencedByEslint(cut, r, i) <=> SilencedByEslint(lines, r, i)
      BY <2>2, <2>3, TrimKeepsEslint, EslintSilences
    <3>3. Violates(lines, r, i) => (Covering(cut, r, i) = {} <=> Covering(lines, r, i) = {})
      BY <2>2, <2>4, TrimKeepsUncovered, TrimKeepsFirst
    <3>4. /\ Covering(lines, r, i) = {} <=> ~SilencedNatively(lines, r, i)
          /\ Covering(cut, r, i) = {} <=> ~SilencedNatively(cut, r, i)
      BY <2>2, <2>3, CoveringSilences
    <3> QED
      BY <3>1, <3>2, <3>3, <3>4
  <2> HIDE DEF Open
  <2>6. {i \in DOMAIN cut : Open(cut, r, i)} = {i \in DOMAIN lines : Open(lines, r, i)}
    BY <2>3, <2>5
  <2> QED
    BY <2>1, <2>3, <2>6
<1> HIDE DEF Hits
<1>4. \A f \in DOMAIN sources : UNION {Hits(left, f, r) : r \in Rules} = UNION {Hits(sources, f, r) : r \in Rules}
  BY <1>3
<1>5. UNION {UNION {Hits(left, f, r) : r \in Rules} : f \in DOMAIN left}
        = UNION {UNION {Hits(sources, f, r) : r \in Rules} : f \in DOMAIN sources}
  BY <1>1, <1>4
<1> QED
  BY <1>1, <1>2, <1>5 DEF cleaned

LEMMA CleanedIsOfUse ==
  ASSUME NEW files, AreSources(files), NEW vs, TakesOnlyUnused(files, vs), TellsAllUnused(files, vs)
  PROVE  AllOfUse(Cleaned(files, vs))
<1> DEFINE cleaned == Cleaned(files, vs)
           sources == WithoutOperationDocuments(files)
           left == WithoutOperationDocuments(cleaned)
<1>1. /\ DOMAIN left = DOMAIN sources
      /\ \A f \in DOMAIN sources : f \in DOMAIN files /\ sources[f] = files[f] /\ left[f] = cleaned[f]
  BY CleanedSources
<1>2. ASSUME NEW f \in DOMAIN left, NEW d \in DOMAIN left[f].lines, Valid(left[f].lines, d),
             Kind(left[f].lines, d) # "enable", NEW r \in Names(left[f].lines, d)
      PROVE  IsOfUse(left[f].lines, d, r)
  <2> DEFINE lines == files[f].lines
             cut == cleaned[f].lines
             gone == Gone(files, vs, f)
  <2>1. f \in DOMAIN sources /\ f \in DOMAIN files /\ left[f].lines = cut
    BY <1>1, <1>2
  <2>2. IsFile(lines) /\ IsFile(cut) /\ Trims(lines, cut, gone) /\ DOMAIN cut = DOMAIN lines
    BY <2>1, CleanedTrims, CleanedLines DEF AreSources
  <2>3. \A s \in Rules : \A i \in DOMAIN lines : Violates(lines, s, i) /\ Covering(lines, s, i) # {} =>
                                   s \notin gone[FirstCovering(lines, s, i)]
    BY <2>1 DEF TakesOnlyUnused
  <2>4. \A e \in DOMAIN lines : Valid(lines, e) /\ Kind(lines, e) # "enable" =>
            \A s \in Names(lines, e) \ gone[e] : IsOfUse(lines, e, s)
    BY <2>1 DEF TellsAllUnused
  <2> HIDE DEF lines, cut, gone, left, sources, cleaned
  <2>5. d \in DOMAIN lines /\ Valid(cut, d) /\ Kind(cut, d) # "enable" /\ r \in Names(cut, d)
    BY <1>2, <2>1, <2>2
  <2>6. Valid(lines, d) /\ Kind(lines, d) # "enable" /\ r \in Names(lines, d) \ gone[d]
    BY <2>2, <2>5, TrimKeepsValid
  <2>7. PICK i \in DOMAIN lines : /\ Violates(lines, r, i) /\ Covering(lines, r, i) # {}
                                  /\ FirstCovering(lines, r, i) = d
    BY <2>4, <2>5, <2>6 DEF IsOfUse
  <2>8. r \in Rules
    BY <2>6 DEF Valid, Problems, Names
  <2>9. Violates(cut, r, i)
    BY <2>2, <2>7, TrimKeepsViolations
  <2>10. Covering(cut, r, i) # {} /\ FirstCovering(cut, r, i) = d
    BY <2>2, <2>6, <2>7, TrimKeepsFirst
  <2> QED
    BY <2>1, <2>2, <2>7, <2>9, <2>10 DEF IsOfUse
<1> QED
  BY <1>2 DEF AllOfUse, Kind, Names

-----------------------------------------------------------------------------
(* What a lint says of unused names: those of the valid comments that      *)
(* disable and that got no credit for a violation.                         *)

Disables(f, i) ==
  i \in DOMAIN Sources[f].lines /\ Valid(Sources[f].lines, i) /\ Kind(Sources[f].lines, i) # "enable"

Idle(f, i) ==
  {r \in Names(Sources[f].lines, i) : Disables(f, i) /\ <<f, i, r>> \notin Credits(Sources, Found)}

Advised ==
  \A f \in DOMAIN Sources : \A i \in DOMAIN Sources[f].lines : Told(violations, f, i) = Idle(f, i)

Over == phase = "report" \/ (phase = "done" /\ ~world.diff)

Advice == Over /\ ParseErrors(Sources) = {} /\ Unused \notin world.off => Advised

LEMMA UnusedFacts ==
  ASSUME NEW f
  PROVE  /\ \A v \in SuppressionDiagnostics(f) : v.rule = Unused =>
              /\ v.file = f /\ Disables(f, v.line)
              /\ \E r \in Names(Sources[f].lines, v.line) :
                   v.message[2] = {r} /\ <<f, v.line, r>> \notin used
         /\ \A i : \A r \in Names(Sources[f].lines, i) :
              Unused \notin world.off /\ Disables(f, i) /\ <<f, i, r>> \notin used =>
                \E v \in SuppressionDiagnostics(f) :
                  v.rule = Unused /\ v.file = f /\ v.line = i /\ v.message[2] = {r}
<1> DEFINE lines == Sources[f].lines
           disables == {i \in DOMAIN lines : Valid(lines, i) /\ Comment(lines, i).kind # "enable"}
           Hint(i, r) == IF <<f, i, r>> \in shadowed THEN "shadowed" ELSE "unused"
           Advise(i, r) == Violation(f, Unused, i, <<Comment(lines, i).kind, {r}, Hint(i, r)>>)
           Of(i) == {Advise(i, r) : r \in {r \in Comment(lines, i).names : <<f, i, r>> \notin used}}
           invalid == IF Invalid \in world.off THEN {} ELSE {Complaint(f, i) : i \in Malformed(f)}
           unused == IF Unused \in world.off THEN {} ELSE UNION {Of(i) : i \in disables}
<1>1. SuppressionDiagnostics(f) = invalid \cup unused
  BY DEF SuppressionDiagnostics, Complaint, Malformed
<1>2. \A v \in invalid : v.rule = Invalid
  <2>1. \A i : Complaint(f, i).rule = Invalid
    BY DEF Complaint, Violation
  <2> QED
    BY <2>1
<1>3. Invalid # Unused
  BY DEF Invalid, Unused
<1>4. \A i, r : /\ Advise(i, r).file = f /\ Advise(i, r).line = i /\ Advise(i, r).rule = Unused
                /\ Advise(i, r).message[2] = {r}
  BY DEF Violation
<1>5. \A i, v : v \in Of(i) <=> \E r \in {r \in Comment(lines, i).names : <<f, i, r>> \notin used} : v = Advise(i, r)
  OBVIOUS
<1> HIDE DEF invalid, Of, Advise
<1>6. ASSUME NEW v \in SuppressionDiagnostics(f), v.rule = Unused
      PROVE  /\ v.file = f /\ v.line \in disables
             /\ \E r \in Names(lines, v.line) : v.message[2] = {r} /\ <<f, v.line, r>> \notin used
  <2>1. PICK i \in disables : v \in Of(i)
    BY <1>1, <1>2, <1>3, <1>6
  <2>2. PICK r \in {r \in Comment(lines, i).names : <<f, i, r>> \notin used} : v = Advise(i, r)
    BY <1>5, <2>1
  <2> QED
    BY <1>4, <2>1, <2>2 DEF Names
<1>7. ASSUME Unused \notin world.off, NEW i \in disables, NEW r \in Names(lines, i), <<f, i, r>> \notin used
      PROVE  Advise(i, r) \in SuppressionDiagnostics(f)
  <2>1. Advise(i, r) \in Of(i)
    BY <1>5, <1>7 DEF Names
  <2> QED
    BY <1>1, <1>7, <2>1
<1> QED
  BY <1>4, <1>6, <1>7 DEF Disables, Kind

LEMMA UnusedAdvice ==
  ASSUME NEW f, NEW i, NEW r \in Names(Sources[f].lines, i),
         Unused \notin world.off, Disables(f, i), <<f, i, r>> \notin used
  PROVE  \E v \in SuppressionDiagnostics(f) :
           v.rule = Unused /\ v.file = f /\ v.line = i /\ v.message[2] = {r}
<1>1. \A j : \A n \in Names(Sources[f].lines, j) :
        Unused \notin world.off /\ Disables(f, j) /\ <<f, j, n>> \notin used =>
          \E v \in SuppressionDiagnostics(f) :
            v.rule = Unused /\ v.file = f /\ v.line = j /\ v.message[2] = {n}
  BY UnusedFacts
<1> QED
  BY <1>1, Zenon

LEMMA WithoutSuppressedAdvises ==
  ASSUME IInv, IInv', Outcome, WithoutSuppressed, Unused \notin world.off
  PROVE  Advised'
<1> DEFINE diagnostics == UNION {SuppressionDiagnostics(f) : f \in DOMAIN Sources}
           Quiet(v) == Suppresses(Sources[v.file].lines, v.rule, v.line)
<1>1. violations' = {v \in violations \cup diagnostics : v.rule \in Unsuppressible \/ ~Quiet(v)}
  BY DEF WithoutSuppressed
<1>2. violations \subseteq Found
  BY DEF WithoutSuppressed, IInv, Suppressing
<1>3. \A v \in violations : v.rule # Unused
  BY <1>2, FoundFacts, RulesAssumption DEF Found, Unsuppressible
<1>4. Unused \in Unsuppressible
  BY DEF Unsuppressible
<1> HIDE DEF Quiet
<1>5. {v \in violations' : v.rule = Unused} = {v \in diagnostics : v.rule = Unused}
  BY <1>1, <1>3, <1>4
<1>6. Sources' = Sources /\ world' = world
  BY SourcesStay DEF WithoutSuppressed
<1>7. Credits(Sources, Found)' = used
  <2>1. /\ phase = "suppress" /\ phase' = "report" /\ used' = used
        /\ ParseErrors(Sources) = {} /\ ParseErrors(Sources)' = ParseErrors(Sources)
    BY <1>6, ErrorsStay DEF WithoutSuppressed, Outcome
  <2> QED
    BY <2>1 DEF IInv, LintsExactly
<1>8. ASSUME NEW f \in DOMAIN Sources, NEW i \in DOMAIN Sources[f].lines
      PROVE  Told(violations, f, i)' = Idle(f, i)'
  <2> DEFINE lines == Sources[f].lines
             idle == {r \in Names(lines, i) : Disables(f, i) /\ <<f, i, r>> \notin used}
             ours == {v \in violations' : v.rule = Unused /\ v.file = f /\ v.line = i}
  <2>1. Idle(f, i)' = idle
    BY <1>6, <1>7 DEF Idle, Disables, Names, Kind
  <2>2. Told(violations, f, i)' = UNION {v.message[2] : v \in ours}
    BY DEF Told
  <2>3. ASSUME NEW v \in ours PROVE \E r \in idle : v.message[2] = {r}
    <3>1. v \in diagnostics /\ v.rule = Unused /\ v.file = f /\ v.line = i
      BY <1>5
    <3>2. PICK g \in DOMAIN Sources : v \in SuppressionDiagnostics(g)
      BY <3>1
    <3>3. /\ v.file = g /\ Disables(g, v.line)
          /\ \E r \in Names(Sources[g].lines, v.line) : v.message[2] = {r} /\ <<g, v.line, r>> \notin used
      BY <3>1, <3>2, UnusedFacts
    <3> HIDE DEF ours, diagnostics
    <3> QED
      BY <3>1, <3>3
  <2>4. ASSUME NEW r \in idle PROVE \E v \in ours : v.message[2] = {r}
    <3>1. PICK v \in SuppressionDiagnostics(f) :
            v.rule = Unused /\ v.file = f /\ v.line = i /\ v.message[2] = {r}
      <4>1. r \in Names(Sources[f].lines, i) /\ Disables(f, i) /\ <<f, i, r>> \notin used
        OBVIOUS
      <4>2. Unused \notin world.off
        OBVIOUS
      <4> QED
        BY ONLY <4>1, <4>2, UnusedAdvice
    <3>2. v \in diagnostics
      BY <3>1
    <3> HIDE DEF diagnostics
    <3>3. v \in violations'
      BY <1>5, <3>1, <3>2
    <3> QED
      BY <3>1, <3>3
  <2> HIDE DEF ours, idle
  <2>5. UNION {v.message[2] : v \in ours} = idle
    BY <2>3, <2>4
  <2> QED
    BY <2>1, <2>2, <2>5
<1> QED
  BY <1>6, <1>8 DEF Advised

LEMMA AdviceStays == IInv /\ IInv' /\ Outcome /\ Advice /\ [Next]_vars => Advice'
<1> SUFFICES ASSUME IInv, IInv', Outcome, Advice, [Next]_vars PROVE Advice'
  OBVIOUS
<1>1. ASSUME Sources' = Sources, world' = world, violations' = violations PROVE Advised => Advised'
  BY <1>1 DEF Advised, Told, Idle, Disables, Found, Names, Kind
<1>2. CASE ParseFails
  <2>1. Sources' = Sources /\ ParseErrors(Sources) # {} /\ ParseErrors(Sources)' = ParseErrors(Sources)
    BY <1>2, SourcesStay, ErrorsStay DEF ParseFails
  <2> QED
    BY <2>1 DEF Advice, Over
<1>3. CASE RunAllRules \/ (\E g \in todo : RerunRule(g)) \/ Reconfigured \/ \E v \in todo : SuppressedBy(v)
  BY <1>3 DEF RunAllRules, RerunRule, Reconfigured, SuppressedBy, Advice, Over
<1>4. CASE WithoutSuppressed
  BY <1>4, WithoutSuppressedAdvises DEF WithoutSuppressed, Advice, Over
<1>5. CASE ReadMergeBase \/ NoMergeBase
  BY <1>5 DEF ReadMergeBase, NoMergeBase, Advice, Over
<1>6. CASE ReportViolations
  <2>1. /\ Sources' = Sources /\ world' = world /\ phase = "report" /\ phase' = "done"
        /\ ~world.diff => violations' = violations
        /\ ParseErrors(Sources)' = ParseErrors(Sources)
    BY <1>6, SourcesStay, ErrorsStay DEF ReportViolations
  <2> QED
    BY <1>1, <2>1 DEF Advice, Over
<1>7. CASE Done \/ UNCHANGED vars
  <2>1. UNCHANGED vars /\ Sources' = Sources /\ ParseErrors(Sources)' = ParseErrors(Sources)
    BY <1>7, SourcesStay, ErrorsStay DEF Done, vars
  <2> QED
    BY <1>1, <2>1 DEF vars, Advice, Over
<1> QED
  BY <1>2, <1>3, <1>4, <1>5, <1>6, <1>7 DEF Next

(* Such advice is sound and complete. *)
LEMMA AdviceIsRight ==
  ASSUME world \in Worlds, tree = "working", ParseErrors(Sources) = {}, Advised
  PROVE  TakesOnlyUnused(world.working, violations) /\ TellsAllUnused(world.working, violations)
<1> DEFINE files == world.working
<1>1. /\ Sources = WithoutOperationDocuments(files)
      /\ \A f \in DOMAIN Sources : f \in DOMAIN files /\ Sources[f] = files[f] /\ IsFile(files[f].lines)
  BY WorldAssumption DEF Sources, WithoutOperationDocuments
<1>2. ASSUME NEW f \in DOMAIN Sources, NEW i \in DOMAIN files[f].lines
      PROVE  Gone(files, violations, f)[i] = Idle(f, i)
  <2>1. Told(violations, f, i) = Idle(f, i)
    BY <1>1 DEF Advised
  <2> QED
    BY <1>1, <2>1 DEF Gone, Idle
<1>3. ASSUME NEW f \in DOMAIN Sources, NEW r \in Rules, NEW i \in DOMAIN files[f].lines
      PROVE  Violates(files[f].lines, r, i) <=> FoundOn(Sources, f, r, i)
  BY <1>1, ViolatesIs
<1>4. ASSUME NEW f \in DOMAIN Sources, NEW r \in Rules, NEW i \in DOMAIN files[f].lines,
             Violates(files[f].lines, r, i), Covering(files[f].lines, r, i) # {}
      PROVE  r \notin Gone(files, violations, f)[FirstCovering(files[f].lines, r, i)]
  <2> DEFINE v == Hit(Sources, f, r, i)
             d == FirstCovering(files[f].lines, r, i)
  <2>1. v \in Found
    BY <1>1, <1>3, <1>4, FoundIs DEF Found
  <2>2. v.file = f /\ v.rule = r /\ v.line = i
    BY DEF Hit, Violation
  <2>3. v \in Covered(Sources, Found) /\ FirstOf(Sources, v) = d
    BY <1>1, <1>4, <2>1, <2>2 DEF Covered, CoveringOf, FirstOf
  <2> HIDE DEF v, d
  <2>4. <<f, d, r>> \in Credits(Sources, Found)
    BY <2>2, <2>3 DEF Credits
  <2>5. d \in DOMAIN files[f].lines => r \notin Idle(f, d)
    BY <2>4 DEF Idle
  <2>6. d \in DOMAIN files[f].lines
    <3> DEFINE lines == files[f].lines
               S == IF LineDirectives(lines, r, i) # {} THEN LineDirectives(lines, r, i) ELSE ActiveBy(lines, r, i)
    <3>1. S # {} /\ S \subseteq DOMAIN lines /\ DOMAIN lines \subseteq Nat
      <4>1. LineDirectives(lines, r, i) \subseteq DOMAIN lines /\ ActiveBy(lines, r, i) \subseteq DOMAIN lines
        BY DEF LineDirectives, ActiveBy, RangeDirectives
      <4>2. IsFile(lines) /\ Covering(lines, r, i) # {}
        BY <1>1, <1>4
      <4>3. DOMAIN lines \subseteq Nat
        BY <4>2 DEF IsFile
      <4> QED
        BY <4>1, <4>2, <4>3 DEF Covering
    <3>2. d = Min(S)
      BY DEF d, FirstCovering
    <3> HIDE DEF S
    <3> QED
      BY <3>1, <3>2, FirstLine
  <2> QED
    BY <1>2, <2>5, <2>6 DEF d
<1>5. ASSUME NEW f \in DOMAIN Sources, NEW d \in DOMAIN files[f].lines, Valid(files[f].lines, d),
             Kind(files[f].lines, d) # "enable",
             NEW r \in Names(files[f].lines, d) \ Gone(files, violations, f)[d]
      PROVE  IsOfUse(files[f].lines, d, r)
  <2>1. <<f, d, r>> \in Credits(Sources, Found)
    BY <1>1, <1>2, <1>5 DEF Idle, Disables
  <2>2. PICK v \in Covered(Sources, Found) : <<f, d, r>> = <<v.file, FirstOf(Sources, v), v.rule>>
    BY <2>1 DEF Credits
  <2>3. v \in Found /\ CoveringOf(Sources, v) # {} /\ v.file = f /\ v.rule = r /\ FirstOf(Sources, v) = d
    BY <2>2 DEF Covered
  <2>4. PICK g \in DOMAIN Sources : \E s \in Rules : \E i \in DOMAIN Sources[g].lines :
          v = Hit(Sources, g, s, i) /\ FoundOn(Sources, g, s, i)
    BY <2>3, FoundIs DEF Found
  <2>5. PICK s \in Rules : \E i \in DOMAIN Sources[g].lines : v = Hit(Sources, g, s, i) /\ FoundOn(Sources, g, s, i)
    BY <2>4
  <2>6. PICK i \in DOMAIN Sources[g].lines : v = Hit(Sources, g, s, i) /\ FoundOn(Sources, g, s, i)
    BY <2>5
  <2>7. g = f /\ s = r /\ v.line = i
    BY <2>3, <2>6 DEF Hit, Violation
  <2>8. Violates(files[f].lines, r, i)
    BY <1>1, <1>3, <2>5, <2>6, <2>7
  <2> QED
    BY <1>1, <2>3, <2>6, <2>7, <2>8 DEF IsOfUse, CoveringOf, FirstOf
<1>6. TakesOnlyUnused(files, violations)
  <2>1. ASSUME NEW f \in DOMAIN Sources, NEW i \in DOMAIN files[f].lines, Gone(files, violations, f)[i] # {}
        PROVE  Valid(files[f].lines, i) /\ Kind(files[f].lines, i) # "enable"
    BY <1>1, <1>2, <2>1 DEF Idle, Disables
  <2> QED
    BY <1>1, <1>4, <2>1 DEF TakesOnlyUnused
<1>7. TellsAllUnused(files, violations)
  BY <1>1, <1>5 DEF TellsAllUnused
<1> QED
  BY <1>6, <1>7

(* Deleting every name that a lint reports unused neither shows a violation *)
(* nor leaves a comment that is of no use, whatever the rules, the files    *)
(* and the comments in them (suppressedBy, suppressionDiagnostics).         *)
THEOREM DeletingUnusedIsSafeHolds == Spec => []DeletingUnusedIsSafe
<1>1. Init => Outcome /\ Advice
  BY DEF Init, Outcome, Advice, Over
<1>2. ASSUME IInv, Outcome, Advice PROVE DeletingUnusedIsSafe
  <2> SUFFICES ASSUME Finished, ~world.diff, Unused \notin world.off
               PROVE  LET cleaned == Cleaned(world.working, violations)
                      IN /\ Expected(cleaned) = Expected(world.working)
                         /\ ParseErrors(WithoutOperationDocuments(cleaned)) = {} => AllOfUse(cleaned)
    BY DEF DeletingUnusedIsSafe
  <2> DEFINE cleaned == Cleaned(world.working, violations)
  <2>1. /\ world \in Worlds /\ tree = "working" /\ phase = "done"
        /\ Sources = WithoutOperationDocuments(world.working)
    BY <1>2 DEF Outcome, Finished, Sources
  <2>2. AreSources(world.working)
    BY <2>1, WorldAssumption DEF AreSources
  <2>3. ParseErrors(WithoutOperationDocuments(cleaned)) = ParseErrors(Sources)
    BY <2>1, <2>2, CleanedSources
  <2>4. CASE ParseErrors(Sources) # {}
    BY <2>1, <2>3, <2>4 DEF Expected
  <2>5. CASE ParseErrors(Sources) = {}
    <3>1. Advised
      BY <1>2, <2>1, <2>5 DEF Advice, Over
    <3>2. TakesOnlyUnused(world.working, violations) /\ TellsAllUnused(world.working, violations)
      BY <2>1, <2>5, <3>1, AdviceIsRight
    <3> QED
      BY <2>2, <3>2, CleanedExpectsTheSame, CleanedIsOfUse
  <2> QED
    BY <2>4, <2>5
<1> QED
  BY <1>1, <1>2, InitHolds, StepHolds, OutcomeStays, AdviceStays, PTL DEF Spec

-----------------------------------------------------------------------------
(* --diff: what stands on the lines of some files. *)

Stands(lines, r, i) ==
  Violates(lines, r, i) /\ ~SilencedNatively(lines, r, i) /\ ~SilencedByEslint(lines, r, i)

LEMMA StandingIs ==
  ASSUME NEW files
  PROVE  LET sources == WithoutOperationDocuments(files)
         IN  /\ \A v \in Standing(files) :
                  \E f \in DOMAIN sources : \E r \in Rules : \E i \in DOMAIN sources[f].lines :
                    v = Hit(sources, f, r, i) /\ Stands(sources[f].lines, r, i)
             /\ \A f \in DOMAIN sources : \A r \in Rules : \A i \in DOMAIN sources[f].lines :
                  Stands(sources[f].lines, r, i) => Hit(sources, f, r, i) \in Standing(files)
<1> DEFINE sources == WithoutOperationDocuments(files)
           Lines(f, r) == {i \in DOMAIN sources[f].lines : Stands(sources[f].lines, r, i)}
           Hits(f, r) == {Hit(sources, f, r, i) : i \in Lines(f, r)}
           OfFile(f) == UNION {Hits(f, r) : r \in Rules}
<1>1. Standing(files) = UNION {OfFile(f) : f \in DOMAIN sources}
  BY DEF Standing, Stands, Hit
<1> HIDE DEF sources
<1>2. \A f, r, v : v \in Hits(f, r) <=> \E i \in Lines(f, r) : v = Hit(sources, f, r, i)
  OBVIOUS
<1> HIDE DEF Hits
<1>3. \A f, v : v \in OfFile(f) <=> \E r \in Rules : v \in Hits(f, r)
  OBVIOUS
<1> HIDE DEF OfFile
<1>4. ASSUME NEW v \in Standing(files)
      PROVE  \E f \in DOMAIN sources : \E r \in Rules : \E i \in DOMAIN sources[f].lines :
               v = Hit(sources, f, r, i) /\ Stands(sources[f].lines, r, i)
  <2>1. PICK f \in DOMAIN sources : v \in OfFile(f)
    BY <1>1
  <2>2. PICK r \in Rules : v \in Hits(f, r)
    BY <1>3, <2>1
  <2>3. PICK i \in Lines(f, r) : v = Hit(sources, f, r, i)
    BY <1>2, <2>2
  <2> QED
    BY <2>3
<1>5. ASSUME NEW f \in DOMAIN sources, NEW r \in Rules, NEW i \in DOMAIN sources[f].lines,
             Stands(sources[f].lines, r, i)
      PROVE  Hit(sources, f, r, i) \in Standing(files)
  <2>1. Hit(sources, f, r, i) \in Hits(f, r)
    BY <1>2, <1>5
  <2>2. Hit(sources, f, r, i) \in OfFile(f)
    BY <1>3, <2>1
  <2> QED
    BY <1>1, <2>2
<1> QED
  BY <1>4, <1>5 DEF sources

(* The violations of one key differ by their lines: they are finitely many *)
(* and their lines number them.                                            *)
OfKey(vs, key) == {v \in vs : KeyOf(v) = key}
LineOf(S) == [v \in S |-> v.line]

LEMMA KeysAreFinite ==
  ASSUME NEW files, \A f \in DOMAIN files : IsFile(files[f].lines), NEW key
  PROVE  /\ IsFiniteSet(OfKey(Standing(files), key))
         /\ LineOf(OfKey(Standing(files), key)) \in Injection(OfKey(Standing(files), key), Nat)
<1> DEFINE sources == WithoutOperationDocuments(files)
           S == OfKey(Standing(files), key)
           lines == sources[key[1]].lines
<1>1. ASSUME NEW v \in S
      PROVE  /\ key[1] \in DOMAIN sources /\ v.line \in DOMAIN lines
             /\ v = [file |-> key[1], rule |-> key[2], line |-> v.line, message |-> key[3]]
  <2>1. v \in Standing(files) /\ key = <<v.file, v.rule, v.message>>
    BY DEF OfKey, KeyOf
  <2>2. PICK f \in DOMAIN sources : \E r \in Rules : \E i \in DOMAIN sources[f].lines :
          v = Hit(sources, f, r, i)
    BY <2>1, StandingIs
  <2>3. PICK r \in Rules : \E i \in DOMAIN sources[f].lines : v = Hit(sources, f, r, i)
    BY <2>2
  <2>4. PICK i \in DOMAIN sources[f].lines : v = Hit(sources, f, r, i)
    BY <2>3
  <2>5. \E m : v = [file |-> f, rule |-> r, line |-> i, message |-> m]
    BY <2>4 DEF Hit, Violation
  <2>6. f = key[1] /\ r = key[2] /\ v.line = i
    BY <2>1, <2>5
  <2> QED
    BY <2>1, <2>4, <2>5, <2>6
<1>2. \A f \in DOMAIN sources : IsFile(sources[f].lines)
  BY DEF WithoutOperationDocuments
<1> HIDE DEF sources, S
<1>3. ASSUME NEW v \in S, NEW u \in S, v.line = u.line PROVE v = u
  BY <1>1, <1>3
<1>4. CASE S = {}
  <2>1. LineOf(S) \in Injection(S, Nat)
    BY <1>4 DEF LineOf, Injection, IsInjective
  <2> QED
    BY <1>4, <2>1, FS_EmptySet DEF S
<1>5. CASE S # {}
  <2>1. IsFile(lines)
    BY <1>1, <1>2, <1>5
  <2>2. DOMAIN lines = 1 .. Len(lines) /\ Len(lines) \in Nat
    BY <2>1 DEF IsFile
  <2>3. LineOf(S) \in Injection(S, DOMAIN lines)
    BY <1>1, <1>3 DEF LineOf, Injection, IsInjective
  <2>4. IsFiniteSet(DOMAIN lines)
    BY <2>2, FS_Interval
  <2>5. IsFiniteSet(S)
    BY <2>3, <2>4, FS_Injection
  <2>6. LineOf(S) \in Injection(S, Nat)
    BY <2>2, <2>3 DEF Injection, IsInjective
  <2> QED
    BY <2>5, <2>6 DEF S
<1> QED
  BY <1>4, <1>5

(* New takes of each key what is in excess of the baseline's. *)
LEMMA NewIsExcess ==
  ASSUME NEW baseline, NEW current, NEW key,
         IsFiniteSet(OfKey(baseline, key)), IsFiniteSet(OfKey(current, key)),
         LineOf(OfKey(current, key)) \in Injection(OfKey(current, key), Nat)
  PROVE  Count(New(baseline, current), key)
           = IF Count(current, key) > Count(baseline, key)
             THEN Count(current, key) - Count(baseline, key) ELSE 0
<1> DEFINE S == OfKey(current, key)
           b == Count(baseline, key)
           Before(v) == {u \in current : KeyOf(u) = KeyOf(v) /\ u.line < v.line}
<1>1. b \in Nat /\ b = Cardinality(OfKey(baseline, key)) /\ Count(current, key) = Cardinality(S)
  BY FS_CardinalityType DEF Count, OfKey
<1>2. \A v \in S : Before(v) = {u \in S : LineOf(S)[u] < LineOf(S)[v]}
  BY DEF OfKey, LineOf
<1>3. \A v \in S : Cardinality(Before(v)) = Rank(S, LineOf(S), v)
  BY <1>2 DEF Rank
<1>4. {v \in New(baseline, current) : KeyOf(v) = key} = {v \in S : Rank(S, LineOf(S), v) >= b}
  <2>1. New(baseline, current) = {v \in current : Cardinality(Before(v)) >= Count(baseline, KeyOf(v))}
    BY DEF New
  <2> HIDE DEF Before
  <2>2. {v \in New(baseline, current) : KeyOf(v) = key}
          = {v \in S : Cardinality(Before(v)) >= b}
    BY <2>1 DEF OfKey
  <2> QED
    BY <1>3, <2>2
<1> HIDE DEF S, b
<1>5. Cardinality({v \in S : Rank(S, LineOf(S), v) >= b})
        = IF Cardinality(S) > b THEN Cardinality(S) - b ELSE 0
  BY <1>1, RanksAbove DEF S
<1> QED
  BY <1>1, <1>4, <1>5 DEF Count, b

(* What New says of the rules it says of the rules' violations alone. *)
OfRules(vs) == {v \in vs : v.rule \in Rules}

LEMMA NewOfRules ==
  ASSUME NEW baseline, NEW current
  PROVE  OfRules(New(baseline, current)) = New(OfRules(baseline), OfRules(current))
<1> DEFINE Before(vs, v) == {u \in vs : KeyOf(u) = KeyOf(v) /\ u.line < v.line}
<1>1. \A u, v : KeyOf(u) = KeyOf(v) => u.rule = v.rule
  BY DEF KeyOf
<1>2. ASSUME NEW v, v.rule \in Rules
      PROVE  /\ Before(OfRules(current), v) = Before(current, v)
             /\ Count(OfRules(baseline), KeyOf(v)) = Count(baseline, KeyOf(v))
  <2>1. Before(OfRules(current), v) = Before(current, v)
    BY <1>1, <1>2 DEF OfRules
  <2>2. {u \in OfRules(baseline) : KeyOf(u) = KeyOf(v)} = {u \in baseline : KeyOf(u) = KeyOf(v)}
    BY <1>1, <1>2 DEF OfRules
  <2> QED
    BY <2>1, <2>2 DEF Count
<1>3. \A vs, ws : New(vs, ws) = {v \in ws : Cardinality(Before(ws, v)) >= Count(vs, KeyOf(v))}
  BY DEF New
<1> HIDE DEF Before
<1> QED
  BY <1>2, <1>3 DEF OfRules

-----------------------------------------------------------------------------
(* --diff: what each of the two lints leaves. *)

(* The merge-base is read once the working tree is linted, and the command *)
(* ends with what the second lint does not take off the first's.           *)
Diffing ==
  /\ tree = "base" => OfRules(working) = Expected(world.working)
  /\ phase = "done" /\ world.diff /\ world.hasBase =>
       OfRules(violations) = New(Expected(AtMergeBase), Expected(world.working))

LEMMA ReportedIsExpected ==
  ASSUME world \in Worlds, Reported
  PROVE  /\ tree = "working" => OfRules(violations) = Expected(world.working)
         /\ tree # "working" => OfRules(violations) = Expected(AtMergeBase)
<1> DEFINE files == IF tree = "working" THEN world.working ELSE AtMergeBase
<1>1. Sources = WithoutOperationDocuments(files)
  BY DEF Sources
<1>2. \A f \in DOMAIN files : IsFile(files[f].lines)
  BY WorldAssumption DEF AtMergeBase
<1> HIDE DEF files
<1>3. CASE ParseErrors(Sources) # {}
  <2>1. \A v \in violations : v.rule \notin Rules
    BY <1>3, RulesAssumption DEF Reported, Unsuppressible
  <2> QED
    BY <1>1, <1>3, <2>1 DEF OfRules, Expected, files
<1>4. CASE ParseErrors(Sources) = {}
  <2>1. Unsilenced(Sources) = Standing(files)
    BY <1>1, <1>2, UnsilencedStands
  <2> QED
    BY <1>1, <1>4, <2>1 DEF Reported, OfRules, Expected, files
<1> QED
  BY <1>3, <1>4

LEMMA DiffingStays == Outcome /\ Diffing /\ [Next]_vars => Diffing'
<1> SUFFICES ASSUME Outcome, Diffing, [Next]_vars PROVE Diffing'
  OBVIOUS
<1>1. ASSUME world' = world
      PROVE  /\ Expected(world.working)' = Expected(world.working)
             /\ Expected(AtMergeBase)' = Expected(AtMergeBase)
  BY <1>1 DEF Expected, Standing, Violates, InForce, AtMergeBase
<1>2. CASE ParseFails \/ RunAllRules \/ (\E g \in todo : RerunRule(g)) \/ Reconfigured
  <2>1. world' = world /\ tree' = tree /\ working' = working /\ phase' # "done"
    BY <1>2 DEF ParseFails, RunAllRules, RerunRule, Reconfigured
  <2> QED
    BY <1>1, <2>1 DEF Diffing, OfRules
<1>3. CASE (\E v \in todo : SuppressedBy(v)) \/ WithoutSuppressed
  <2>1. world' = world /\ tree' = tree /\ working' = working /\ phase' # "done"
    BY <1>3 DEF SuppressedBy, WithoutSuppressed
  <2> QED
    BY <1>1, <2>1 DEF Diffing, OfRules
<1>4. CASE ReadMergeBase
  <2>1. /\ world' = world /\ working' = violations /\ phase' = "parse"
        /\ phase = "report" /\ tree = "working"
    BY <1>4 DEF ReadMergeBase
  <2>2. OfRules(violations) = Expected(world.working)
    BY <2>1, ReportedIsExpected DEF Outcome
  <2> QED
    BY <1>1, <2>1, <2>2 DEF Diffing, OfRules
<1>5. CASE NoMergeBase
  <2>1. world' = world /\ tree' = tree /\ working' = working /\ ~world.hasBase
    BY <1>5 DEF NoMergeBase
  <2> QED
    BY <1>1, <2>1 DEF Diffing, OfRules
<1>6. CASE ReportViolations
  <2>1. /\ world' = world /\ tree' = tree /\ working' = working /\ phase = "report"
        /\ world.diff => tree = "base" /\ violations' = New(violations, working)
    BY <1>6 DEF ReportViolations
  <2>2. CASE ~world.diff
    BY <1>1, <2>1, <2>2 DEF Diffing, OfRules
  <2>3. CASE world.diff
    <3>1. tree = "base" /\ OfRules(violations) = Expected(AtMergeBase)
      BY <2>1, <2>3, ReportedIsExpected DEF Outcome
    <3>2. OfRules(working) = Expected(world.working)
      BY <3>1 DEF Diffing
    <3>3. OfRules(New(violations, working)) = New(Expected(AtMergeBase), Expected(world.working))
      BY <3>1, <3>2, NewOfRules
    <3>4. OfRules(violations') = New(Expected(AtMergeBase), Expected(world.working))
      BY <2>1, <2>3, <3>3
    <3> QED
      BY <1>1, <2>1, <3>2, <3>4 DEF Diffing, OfRules, New, Count
  <2> QED
    BY <2>2, <2>3
<1>7. CASE Done \/ UNCHANGED vars
  <2>1. UNCHANGED vars
    BY <1>7 DEF Done
  <2> QED
    BY <1>1, <2>1 DEF vars, Diffing, OfRules, New, Count
<1> QED
  BY <1>2, <1>3, <1>4, <1>5, <1>6, <1>7 DEF Next

(* The merge-base's files that the working tree still has are some of its  *)
(* files, and all of them if none was deleted.                             *)
LEMMA MergeBaseFacts ==
  ASSUME world \in Worlds
  PROVE  /\ Expected(AtMergeBase) \subseteq Standing(world.base)
         /\ DOMAIN world.base \subseteq DOMAIN world.working =>
              Expected(AtMergeBase) = Expected(world.base)
<1> DEFINE left == WithoutOperationDocuments(AtMergeBase)
           all == WithoutOperationDocuments(world.base)
<1>1. /\ DOMAIN left \subseteq DOMAIN all
      /\ \A f \in DOMAIN left : left[f] = all[f]
  BY DEF WithoutOperationDocuments, AtMergeBase
<1>2. ASSUME NEW v \in Standing(AtMergeBase) PROVE v \in Standing(world.base)
  <2>1. PICK f \in DOMAIN left : \E r \in Rules : \E i \in DOMAIN left[f].lines :
          v = Hit(left, f, r, i) /\ Stands(left[f].lines, r, i)
    BY StandingIs
  <2>2. PICK r \in Rules : \E i \in DOMAIN left[f].lines :
          v = Hit(left, f, r, i) /\ Stands(left[f].lines, r, i)
    BY <2>1
  <2>3. PICK i \in DOMAIN left[f].lines : v = Hit(left, f, r, i) /\ Stands(left[f].lines, r, i)
    BY <2>2
  <2>4. f \in DOMAIN all /\ left[f] = all[f]
    BY <1>1
  <2>5. v = Hit(all, f, r, i)
    BY <2>3, <2>4 DEF Hit
  <2> HIDE DEF left, all
  <2>6. i \in DOMAIN all[f].lines /\ Stands(all[f].lines, r, i)
    BY <2>3, <2>4
  <2> QED
    BY <2>4, <2>5, <2>6, StandingIs DEF all
<1>3. Expected(AtMergeBase) \subseteq Standing(AtMergeBase)
  BY DEF Expected
<1>4. ASSUME DOMAIN world.base \subseteq DOMAIN world.working
      PROVE  Expected(AtMergeBase) = Expected(world.base)
  <2>1. left = all
    BY <1>4 DEF WithoutOperationDocuments, AtMergeBase
  <2> QED
    BY <2>1 DEF Expected, Standing
<1> QED
  BY <1>2, <1>3, <1>4

(* --diff reports of each violation as many as the working tree has more   *)
(* than the merge-base's files that are linted: none that is new is hidden *)
(* and, as long as no schema file of the merge-base was deleted, none that *)
(* is old is reported (diffViolations, New).                               *)
THEOREM DiffIsExactHolds == Spec => []DiffIsExact
<1>1. Init => Outcome /\ Diffing
  BY DEF Init, Outcome, Diffing
<1>2. ASSUME Outcome, Diffing PROVE DiffIsExact
  <2> SUFFICES ASSUME Compared
               PROVE  /\ \A v \in Expected(world.working) :
                           Count(violations, KeyOf(v)) >= Excess(Standing(world.base), KeyOf(v))
                      /\ DOMAIN world.base \subseteq DOMAIN world.working =>
                           \A v \in violations : v.rule \in Rules =>
                             Count(violations, KeyOf(v)) <= Excess(Expected(world.base), KeyOf(v))
    BY DEF DiffIsExact, DiffMissesNothing, DiffOnlyNew
  <2> DEFINE now == Expected(world.working)
             before == Expected(AtMergeBase)
  <2>1. world \in Worlds /\ OfRules(violations) = New(before, now)
    BY <1>2 DEF Outcome, Compared, Finished, Diffing
  <2>2. /\ \A f \in DOMAIN world.working : IsFile(world.working[f].lines)
        /\ \A f \in DOMAIN world.base : IsFile(world.base[f].lines)
    BY <2>1, WorldAssumption
  <2>3. now = {} \/ now = Standing(world.working)
    BY DEF Expected
  <2>4. before \subseteq Standing(world.base)
    BY <2>1, MergeBaseFacts
  <2> HIDE DEF now, before
  <2>5. ASSUME NEW key
        PROVE  /\ IsFiniteSet(OfKey(now, key))
               /\ LineOf(OfKey(now, key)) \in Injection(OfKey(now, key), Nat)
               /\ IsFiniteSet(OfKey(before, key)) /\ IsFiniteSet(OfKey(Standing(world.base), key))
               /\ Count(before, key) <= Count(Standing(world.base), key)
               /\ Count(now, key) \in Nat /\ Count(before, key) \in Nat
               /\ Count(Standing(world.base), key) \in Nat
    <3>1. IsFiniteSet(OfKey(now, key)) /\ LineOf(OfKey(now, key)) \in Injection(OfKey(now, key), Nat)
      <4>1. CASE now = {}
        BY <4>1, FS_EmptySet DEF OfKey, LineOf, Injection, IsInjective
      <4> QED
        BY <2>2, <2>3, <4>1, KeysAreFinite
    <3>2. IsFiniteSet(OfKey(Standing(world.base), key))
      BY <2>2, KeysAreFinite
    <3>3. OfKey(before, key) \subseteq OfKey(Standing(world.base), key)
      BY <2>4 DEF OfKey
    <3>4. /\ IsFiniteSet(OfKey(before, key))
          /\ Cardinality(OfKey(before, key)) <= Cardinality(OfKey(Standing(world.base), key))
      BY <3>2, <3>3, FS_Subset
    <3>5. \A vs : Count(vs, key) = Cardinality(OfKey(vs, key))
      BY DEF Count, OfKey
    <3> QED
      BY <3>1, <3>2, <3>4, <3>5, FS_CardinalityType
  <2>6. ASSUME NEW key, key[2] \in Rules
        PROVE  Count(violations, key) = IF Count(now, key) > Count(before, key)
                                        THEN Count(now, key) - Count(before, key) ELSE 0
    <3>1. {v \in violations : KeyOf(v) = key} = {v \in OfRules(violations) : KeyOf(v) = key}
      BY <2>6 DEF OfRules, KeyOf
    <3>2. Count(violations, key) = Count(New(before, now), key)
      BY <2>1, <3>1 DEF Count
    <3> QED
      BY <2>5, <3>2, NewIsExcess
  <2>7. \A v : KeyOf(v)[2] = v.rule
    BY DEF KeyOf
  <2>8. ASSUME NEW v \in now
        PROVE  Count(violations, KeyOf(v)) >= Excess(Standing(world.base), KeyOf(v))
    <3>1. v.rule \in Rules
      <4> DEFINE sources == WithoutOperationDocuments(world.working)
      <4>1. PICK f \in DOMAIN sources : \E r \in Rules : \E i \in DOMAIN sources[f].lines :
              v = Hit(sources, f, r, i)
        BY <2>3, StandingIs
      <4> HIDE DEF sources
      <4> QED
        BY <4>1, HitFields
    <3> QED
      BY <2>5, <2>6, <2>7, <3>1 DEF Excess, now
  <2>9. ASSUME DOMAIN world.base \subseteq DOMAIN world.working, NEW v \in violations, v.rule \in Rules
        PROVE  Count(violations, KeyOf(v)) <= Excess(Expected(world.base), KeyOf(v))
    <3>1. before = Expected(world.base)
      BY <2>1, <2>9, MergeBaseFacts DEF before
    <3>2. Count(violations, KeyOf(v)) = Excess(before, KeyOf(v))
      BY <2>6, <2>7, <2>9 DEF Excess, now
    <3>3. Count(violations, KeyOf(v)) \in Nat
      BY <2>5, <2>6, <2>7, <2>9
    <3> QED
      BY <3>1, <3>2, <3>3
  <2> QED
    BY <2>8, <2>9 DEF now
<1> QED
  BY <1>1, <1>2, InitHolds, StepHolds, OutcomeStays, DiffingStays, PTL DEF Spec
=============================================================================
