----------------------------- MODULE GraphQLConfig -----------------------------
(***************************************************************************)
(* How `devbase lint graphql` decides what it lints and by which rules:    *)
(* scripts/devbase.yaml, looked for from the working directory up to the   *)
(* top of the git repository (or named by --config), decoded and checked   *)
(* (internal/graphql/config), and the *.graphql files under the paths of   *)
(* the command line that no exclude pattern matches                        *)
(* (internal/graphql/lint/lint.go).                                        *)
(*                                                                         *)
(* A path is a sequence of segments.  A world is one run's surroundings:   *)
(*   cwd       the working directory                                       *)
(*   configs   the scripts/devbase.yaml of each directory that has one     *)
(*   gits      the directories with a .git                                 *)
(*   flag      <<the file --config names>>, or <<>>                        *)
(*   tree      the files, by absolute path                                 *)
(*   args, excludes   the paths and the --exclude patterns given           *)
(***************************************************************************)
EXTENDS Integers, Sequences, SequencesExt, FiniteSets

CONSTANTS
    Worlds,         \* the surroundings of the runs
    Tier1Rules      \* the rules gqlparser enforces, which nobody configures

Severities == {"off", "warn", "error"}

\* What Op makes of each element of a sequence, one after the other; an
\* element if a condition holds; the elements that pass a test.
ForEach(seq, Op(_)) == FlattenSeq([i \in DOMAIN seq |-> Op(seq[i])])
When(condition, value) == IF condition THEN <<value>> ELSE <<>>
Filter(seq, Test(_)) == ForEach(seq, LAMBDA x : When(Test(x), x))

Path == Seq(STRING)
Name == Seq(Int)
IsSeq(s) == s \in Seq(ToSet(s))

IsConfigFile(raw) == raw.exclude \subseteq Path /\ raw.scalars \in Seq(Name)

IsWorld(w) ==
    /\ w.cwd \in Path /\ w.args \in Seq(Path) /\ w.excludes \subseteq Path
    /\ DOMAIN w.configs \subseteq Path /\ w.gits \subseteq Path
    /\ DOMAIN w.tree \subseteq Path /\ IsFiniteSet(DOMAIN w.tree)
    /\ w.flag = <<>> \/ (w.flag = <<w.flag[1]>> /\ IsConfigFile(w.flag[1]))
    /\ \A d \in DOMAIN w.configs : IsConfigFile(w.configs[d])

ASSUME WorldsAssumption == \A w \in Worlds : IsWorld(w)

-----------------------------------------------------------------------------
(* The config file.  A value of a YAML document is a pair <<tag, value>>.   *)

Scalar == "scalar"
Sequence == "sequence"

BadRule_AnySeverity(raw) ==
    \/ raw.shape \notin {Scalar, Sequence}
    \/ Len(raw.items) \notin 1 .. 2
    \/ Len(raw.items) = 2 /\ raw.items[2][1] # "map"

\* Rule.UnmarshalYAML: a severity, or [severity] or [severity, options].
BadRule(raw) ==
    \/ raw.shape \notin {Scalar, Sequence}
    \/ Len(raw.items) \notin 1 .. 2
    \/ raw.items[1] \notin {<<"string", s>> : s \in Severities}
    \/ Len(raw.items) = 2 /\ raw.items[2][1] # "map"

NoOptions == [k \in {} |-> <<>>]

DecodeRule(raw) ==
    [severity |-> raw.items[1][2],
     options |-> IF Len(raw.items) = 2 THEN raw.items[2][2] ELSE NoOptions]

\* LoadFile's errors: not YAML, a rule that does not decode, a Tier 1 rule.
BadConfig(raw) ==
    \/ raw.broken
    \/ \E r \in DOMAIN raw.rules : BadRule(raw.rules[r])
    \/ DOMAIN raw.rules \cap Tier1Rules # {}

Lint(raw) ==
    [exclude |-> raw.exclude, federation |-> raw.federation, scalars |-> raw.scalars,
     rules |-> [r \in DOMAIN raw.rules |-> DecodeRule(raw.rules[r])]]

\* What Load returns when there is no config file.
BuiltIn == [exclude |-> {}, federation |-> "", scalars |-> <<>>, rules |-> [r \in {} |-> <<>>]]

Enabled(cfg, rule) == rule \in DOMAIN cfg.rules /\ cfg.rules[rule].severity # "off"
SeverityOf(cfg, rule) == IF rule \in DOMAIN cfg.rules THEN cfg.rules[rule].severity ELSE "error"
Options(cfg, rule) == IF rule \in DOMAIN cfg.rules THEN cfg.rules[rule].options ELSE NoOptions
MergeExcludes(cfg, extra) == cfg.exclude \cup extra

\* boolOption, stringOption and stringSliceOption: a value of another type
\* counts as absent.
Has(opts, key, tag) == key \in DOMAIN opts /\ opts[key][1] = tag
BoolOption(opts, key) == Has(opts, key, "bool") /\ opts[key][2]
StringOption(opts, key, default) == IF Has(opts, key, "string") THEN opts[key][2] ELSE default
SliceOption(opts, key) == IF Has(opts, key, "list") THEN ToSet(opts[key][2]) ELSE {}

-----------------------------------------------------------------------------
(* Excluding files.                                                         *)

\* filepath.Match on one segment; "[" is a malformed pattern.
MatchSegment(p, s) == p # "[" /\ (p = "*" \/ p = s)

\* matchSegments, from pattern[i] on, of what follows the first "taken"
\* segments of the path: "**" takes up nothing, or one more segment.
MatchGlob_OneOrMore(pattern, path) ==
    LET matches[at \in (1 .. Len(pattern) + 1) \X (0 .. Len(path))] ==
            LET i == at[1]
                taken == at[2]
            IN IF i > Len(pattern) THEN taken = Len(path)
               ELSE IF pattern[i] = "**"
                 THEN taken < Len(path) /\ (matches[<<i + 1, taken + 1>>] \/ matches[<<i, taken + 1>>])
               ELSE /\ taken < Len(path)
                    /\ MatchSegment(pattern[i], path[taken + 1])
                    /\ matches[<<i + 1, taken + 1>>]
    IN matches[<<1, 0>>]

MatchGlob(pattern, path) ==
    LET matches[at \in (1 .. Len(pattern) + 1) \X (0 .. Len(path))] ==
            LET i == at[1]
                taken == at[2]
            IN IF i > Len(pattern) THEN taken = Len(path)
               ELSE IF pattern[i] = "**"
                 THEN matches[<<i + 1, taken>>] \/ (taken < Len(path) /\ matches[<<i, taken + 1>>])
               ELSE /\ taken < Len(path)
                    /\ MatchSegment(pattern[i], path[taken + 1])
                    /\ matches[<<i + 1, taken + 1>>]
    IN matches[<<1, 0>>]

MatchesAny(patterns, path) == \E p \in patterns : MatchGlob(p, path)

-----------------------------------------------------------------------------
(* The run, up to the files.                                                *)

VARIABLES
    world,      \* the surroundings
    pc,         \* the stage of the run
    dir,        \* the directory discover has come to
    config,     \* the configuration in effect
    configDir,  \* where it was found: <<directory>>, or <<>>
    files       \* the files to lint, sorted: [shown, path]

configVars == <<world, pc, dir, config, configDir, files>>

Named(path) == Filter(path, LAMBDA s : s # ".")
Absolute(w, given) == w.cwd \o Named(given)

IsDir(w, path) == \E f \in DOMAIN w.tree : IsStrictPrefix(path, f)

\* The files a path of the command line stands for, under the names they go
\* by: a file as it was given, the files of a directory by its cleaned name.
Found(w, given) ==
    LET root == Absolute(w, given)
    IN IF root \in DOMAIN w.tree THEN {[shown |-> given, path |-> root]}
       ELSE {[shown |-> Named(given) \o SubSeq(f, Len(root) + 1, Len(f)), path |-> f] :
                 f \in {f \in DOMAIN w.tree : IsPrefix(root, f) /\ w.tree[f].ext = ".graphql"}}

FindGraphQLFiles(w, given, excludes) ==
    {f \in Found(w, given) : ~MatchesAny(excludes, f.shown)}

\* A file that two of the paths stand for is there twice.
Occurrences(w, excludes) ==
    UNION {{[file |-> f, arg |-> i] : f \in FindGraphQLFiles(w, w.args[i], excludes)} :
              i \in DOMAIN w.args}

\* sort.Strings; "rank" is where a file comes in that order.
Orders(w, found) ==
    {order \in SetToSeqs(found) :
        \A j, k \in DOMAIN order :
            j < k => w.tree[order[j].file.path].rank <= w.tree[order[k].file.path].rank}

InitConfig ==
    /\ world \in Worlds
    /\ pc = IF world.flag = <<>> THEN "discover" ELSE "load"
    /\ dir = world.cwd
    /\ config = BuiltIn
    /\ configDir = <<>>
    /\ files = <<>>

\* discover: the file is here, this is the top, or one directory up.
AtTop == dir \in world.gits \/ dir = <<>>

Discover ==
    /\ pc = "discover"
    /\ \/ /\ dir \in DOMAIN world.configs
          /\ pc' = "load" /\ configDir' = <<dir>>
          /\ UNCHANGED dir
       \/ /\ dir \notin DOMAIN world.configs /\ AtTop
          /\ pc' = "find"
          /\ UNCHANGED <<dir, configDir>>
       \/ /\ dir \notin DOMAIN world.configs /\ ~AtTop
          /\ dir' = Front(dir)
          /\ UNCHANGED <<pc, configDir>>
    /\ UNCHANGED <<world, config, files>>

ConfigFile == IF world.flag # <<>> THEN world.flag[1] ELSE world.configs[configDir[1]]

LoadFile ==
    /\ pc = "load"
    /\ IF BadConfig(ConfigFile)
         THEN pc' = "error" /\ UNCHANGED config
         ELSE pc' = "find" /\ config' = Lint(ConfigFile)
    /\ UNCHANGED <<world, dir, configDir, files>>

Find ==
    LET excludes == MergeExcludes(config, world.excludes)
        missing == {a \in ToSet(world.args) : /\ Absolute(world, a) \notin DOMAIN world.tree
                                              /\ ~IsDir(world, Absolute(world, a))}
    IN /\ pc = "find"
       /\ IF missing # {}
            THEN pc' = "error" /\ UNCHANGED files
            ELSE /\ pc' = "prelude"
                 /\ \E order \in Orders(world, Occurrences(world, excludes)) :
                        files' = [k \in DOMAIN order |-> order[k].file]
       /\ UNCHANGED <<world, dir, config, configDir>>

-----------------------------------------------------------------------------
(* What it should come to.                                                  *)

\* The nearest directory, at or above the working directory and within its
\* git repository, that has a config file.
InRepository(d) == \A g \in world.gits : IsStrictPrefix(d, g) => ~IsPrefix(g, world.cwd)
Candidates == {d \in DOMAIN world.configs : IsPrefix(d, world.cwd) /\ InRepository(d)}
NearestConfig ==
    IF Candidates = {} THEN <<>>
    ELSE <<CHOOSE d \in Candidates : \A e \in Candidates : Len(e) <= Len(d)>>

\* The config file to go by: --config's, or the nearest one.
FileAsked ==
    IF world.flag # <<>> THEN world.flag
    ELSE IF NearestConfig = <<>> THEN <<>> ELSE <<world.configs[NearestConfig[1]]>>

ConfigAsked == IF FileAsked = <<>> THEN BuiltIn ELSE Lint(FileAsked[1])

\* A pattern matches if its segments can be laid over the path: "**" over
\* any number of segments, every other one over one that it matches.
Covers(pattern, path) ==
    \E cut \in [1 .. Len(pattern) + 1 -> 0 .. Len(path)] :
        /\ cut[1] = 0 /\ cut[Len(pattern) + 1] = Len(path)
        /\ \A i \in DOMAIN pattern :
               IF pattern[i] = "**" THEN cut[i] <= cut[i + 1]
               ELSE /\ cut[i + 1] = cut[i] + 1
                    /\ MatchSegment(pattern[i], path[cut[i + 1]])

FilesNamed == UNION {Found(world, a) : a \in ToSet(world.args)}

\* What the exclude patterns of the config file are to be matched with: the
\* path relative to the directory the file was found in (Lint.Exclude, Load);
\* for --config's file, which has no such directory, the path linted (LoadFile).
ConfigName(f) ==
    IF world.flag # <<>> \/ NearestConfig = <<>> THEN f.shown
    ELSE SubSeq(f.path, Len(NearestConfig[1]) + 1, Len(f.path))

\* Whether a file is excluded if the config file's patterns see this name.
Excluded(f, name) ==
    \/ \E p \in world.excludes : Covers(p, f.shown)
    \/ FileAsked # <<>> /\ \E p \in FileAsked[1].exclude : Covers(p, name)
===============================================================================
