# devbase in TLA+

devbase is the tool box the repositories of an organisation are built with: a Go
binary (`devbase lint graphql`, `yq`, `tomlq`, `vault`), an end-to-end test runner
(`e2e/`), and a large body of shell scripts for building, testing, linting and
releasing in CI (`shell/`, `scripts/`, `orbs/`).  These modules state what the parts
with control worth checking do, what makes them correct, and where they are not.

Every definition follows the source; `PROJECT.json` maps each one to its lines.  Data is
abstracted to what the properties tell apart, control is kept.

## The system: components, state, hard behaviours

| component | state | interacts with | hard behaviours | what makes it correct |
|---|---|---|---|---|
| yq in-place editor (`internal/yq/inplace.go`) | the files, temporary files, one goroutine per path, errors per operand | engine (calls), file system | concurrent read-modify-write, kill between write and rename, partial failure | no lost update, never a torn file, no silent failure |
| yq engine and formats (`internal/yq`) | decoded objects, key order by object identity, bindings in three maps | in-place editor, stdout | partial output before an error, aliasing of decoded values, order lost by copies, flags that another mode ignores | output means what the filter emitted, order and comments survive |
| E2E dependency walk (`e2e/e2e.go`, `e2e/config`) | set of resolved services, recursion | GitHub (downloads), the runner | cycles, shared dependencies, two names of one service, transient failures | the closure of the roots, the right snapshot |
| E2E localizer phase (`e2e/localizer.go`) | connection, socket, three deadlines | the localizer server, the runner | deadlines racing answers, stale socket, deferred close | the tunnels waited for are the right server's, calls return, cleanup kills |
| E2E runner (`e2e/e2e.go`) | devenv, three background jobs, options, exit status | all of the above, devenv, docker, devspace | goroutines that cancel or exit the process, stale report and status | tests only on a ready devenv, truthful exit status, every run ends |
| bootstrap (`scripts/devbase.sh`) | `.bootstrap`, its marker, gojq cache | lock file, git, network | kills at any step, failed downloads, binaries unpacked in part, local checkouts | a successful run leaves what the lock file wants and harms no checkout, the script recovers |
| GraphQL configuration (`internal/graphql/config`) | options and severity of each rule, include and exclude patterns | the lint | values of the wrong shape, rules nobody knows, where the file is found | what is configured is what is linted |
| GraphQL rules (`internal/graphql/lint`) | the parsed schema, results of three parallel groups, cursors over description tokens | configuration, gqlparser | tiers that stop early, base definitions and extensions judged apart or as one, a token cursor that slips | every node judged once, by the rules that are on |
| GraphQL suppression (`suppression_comments.go`, `eslint_*.go`) | violations, directives, credits | rules, sources | inline configuration, nested and unused suppressions | a violation is reported unless it is suppressed |
| GraphQL diff lint (`diff.go`, `gitdiff`) | baseline and current violations | git | shallow clones, renamed and deleted files | only new violations are reported |
| Vault client (`internal/vault`) | token, token file, retries per request | Vault server, other `devbase vault` processes | retries with an answer lost, non-atomic write, kills, mounts of two versions | a login serves later gets, no torn token unless logins overlap, outages are survived |
| git cache, docker build and stitch, release | clones, images, manifests, tags | git, registries, GitHub | interrupted commands, failures that nothing notices | what is handed out is usable, the preview equals the release |
| mise, GitHub tokens, box, devconfig, CI set-up, linters | caches and environment | network | retries, ages of caches | mostly straight-line |
| Mage template, orb | none | - | - | declarations |

## Modules

| module | models | state and actions, and where they are in the code |
|---|---|---|
| `AtomicEdits` | the promise of `devbase yq -i`: each operand's edit is one indivisible step, settles once, and composes in order | `Edit`, `Fail`, `Halt` |
| `InPlaceEdit` | `RunFiles`, `RunFile`, `writeFileAtomically` | `pc[i]` is how far `RunFile` has come for operand *i*; one action per system call (`Decode`, `CreateTemp`, `WriteTemp`, `ChmodTemp`, `Rename`, `RemoveTemp`, and one for each way of failing), `Start` is `g.Go` under its limit, `Report` what follows `g.Wait`, `Crash` a kill |
| `YqFlags` | the command line of `yq` and `tomlq` (`flags.go`) | operators: a table of flags, the parse as a function over the words |
| `YamlQuery` | `Run` and the engine beside it: decoding with aliases and merge keys, copy-on-write, rendering, round trips | objects are on a `heap`, named by where they came from; `order` is the side table of key orders (`KeyOrder`); `Parse`, `Bind`, `Read`, one step per document, the hand-over to the in-place editor |
| `Dependencies` | `BuildDependenciesList` .. `provisionDevenv` | the recursion is a stack of the `range` loops in progress; `Resolve` is one call of `grabDependencies` with the download it makes, `Skip` one that finds the service done, `Return` the end of a loop, `SelectTarget` the choice of the snapshot |
| `Localizer` | `runLocalizer`, `ensureRunningLocalizerWorks`, the cleanup function | `lpc` is the place in the function; `ten`, `minute`, `five` are its three deadlines; the servers (the one found and the one spawned, each of which may stop, hang or never get stable) are the environment, `peer` is the one connected to |
| `E2ERunner` | `main`, `runE2ETestsUsingDevspace`, their goroutines | `mpc` is the place in `main`; `image`, `devconf`, `binaries` are the background jobs; it composes `Localizer` by `INSTANCE`, which runs while `mpc = "localizer"` and whose cleanup is the deferred call at the end; `report` says which run wrote `bin/unit-tests.xml` last and what it says: the tests may leave it as it was, write a part of it, or write one that hides what it counts as errors (`RunDevspaceTests`), and `Parse` reads its failures alone |
| `Bootstrap` | `scripts/devbase.sh` | one action per command that changes the disk, one for each way it fails, and what a kill in the middle of it leaves behind: half an archive, half a binary (`loose`, until `Move` gives it its name), half a copy, an empty marker |
| `GraphQLConfig` | `config.go`: discovery, decoding, validation, `Options` and `SeverityOf` | `Discover` is one directory of the walk upwards, `LoadFile` the decode and its validation, `Find` the choice of the files, whose order is free among equals; what a decode does to a value is an operator, and the matching of a pattern a table over what is left of pattern and path |
| `GraphQLRules` | `lint_graphql.go` up to the rules' violations | one action per stage (find the configuration, choose the files, parse and validate, the three parallel groups, gap-filling); a rule is an operator on the parsed schema, a name a sequence of numbers, so that the rules on letters can be stated |
| `GraphQLLint` | `FilesFromSources`, `diffViolations` and what they call | one action per stage: `ParseFails` or `RunAllRules`, `RerunRule` for each group of `withConfigComments`, `SuppressedBy` for each violation, `WithoutSuppressed`; `ReadMergeBase` starts a second lint, `ReportViolations` compares. A file is a sequence of lines; the operators on lines are the helpers of the suppression files |
| `Vault` | `login-approle` and `kv get` in any number of processes, and the server | `pc[p]` is the process's place; a request may be answered, refused, or fail with or without having been carried out; opening (which truncates), `Chmod` and `WriteString` of the token file are steps of their own, the last of which may write a part; a text is a function from positions to the token each character is of, and tokens have any lengths; `Change` is the server's: an expired token, a new version of a secret, another mount |

`XProofs` modules hold the theorems about `X`; `Ranks` holds the lemmas they share on numbers, on induction, on the
rank of a thing among finitely many and on putting them in order; `MC*` modules give the constants values for TLC.
Operators named `X_Y` are faulty variants of `X` that a slip in the code would
produce; each property is broken by one of them.

`E2ERunner` leaves the dependency walk to `Dependencies` (there, how the target is
chosen; here, that the step may fail).  `GraphQLRules` stops where `GraphQLLint` starts: there the rules and
how they see a schema; here any violations at all, and what comments make of them.  `YamlQuery`
hands `-i` to `InPlaceEdit` the same way.

## Runs

| run | properties | question | bounds and why they suffice |
|---|---|---|---|
| `in_place_edit` | `NoLostUpdate`, `NeverTorn`, `NoSilentLoss`, `EveryOperandSettles`, `ImplementsAtomicEdits` | does the concurrent editor lose, tear or hide anything, and does it implement `AtomicEdits`? | three operands `a l a`, *l* a symbolic link, two goroutines: an operand repeated, two paths in parallel, the limit reached, a link replaced; one kill |
| `yaml_query` | `PrintsWhatWasEmitted`, `FileOrderKept`, `RoundtripIsLocal`, `CommandLineHonoured`, `ObjectsNeverChange` | does the output mean what the filter emitted, in the file's order, with what an edit left alone intact (of a key or a scalar: its comments and anchor; not those of a collection, finding 9), and is nothing of the command line lost? | six files with every kind of node (aliases, merge keys, comments on keys, values and list items, anchors, numbers JSON cannot write, TOML tables, arrays of tables and inline tables), filters that pass on, copy, edit, drop and fail, command lines that combine them with every flag. Deadlock off: a command ends |
| `dependencies` | `FindsExactly`, `CorrectUnlessOutage`, `WalkEnds` | does the walk end, find all and only what is needed, and choose the right target when no download fails? | every graph over three services with every set of roots, and one graph of six with a cycle, a diamond, both names of outreach, a missing manifest, candidate files that disagree and downloads that fail at will |
| `e2e_runner` | `PhasesInOrder`, `ExitTruthful`, `LocalizerDiscipline`, `RunEnds` | readiness of the devenv, order of the jobs, exit status, termination; with it the promises of `runLocalizer`, which the runner calls | every combination of the options, any report and devenv left by an earlier run, a report that the tests write, do not write, or write in part, a server found in any state beside the one spawned, any tool failing at any time. Deadlock off: the runner really may block in `Connect` once the server is gone, and `RunEnds` says that nothing else keeps a run from ending |
| `localizer_kill` | `CleanupKills` | does the cleanup kill the localizer it spawned? **No** | `sudo` never fails and the server never stops by itself, so that neither is the cause |
| `bootstrap` | `CopyIsWanted`, `CheckoutsIntact`, `RecoversFromKills` | what a successful run leaves, of `.bootstrap` and of the checkouts it links to, and that runs succeed again unless the cache holds an archive or a binary that is none | five lock files (three releases, a local checkout between them), three kills, each at any step; no release comes back |
| `bootstrap_download` | `SucceedsAgain` | and when a failed download leaves its file, or the binary is a broken one? **No run succeeds again** | the five lock files, no kill |
| `graphql_rules` | `LintsWhatIsAsked`, `EveryNodeJudgedOnce`, `ExtensionsAreOne`, `ReachesExactly`, `ImportsAreHonoured` | are the files and rules linted those the configuration asks for, is every node judged once however often its type is extended, is unreachable what no root leads to, are federation imports resolved? | small repositories with the configuration in every place, the command started in its directory and below, exclude patterns in it and on the command line, every shape of a configured value; two files of SDL with bases, extensions, both and neither, for each kind of definition, and each rule with the options that change it. Deadlock off: a lint ends |
| `graphql_rules_blank` | `NeverMismatched` | can the count of descriptions differ from the source's? It "should never happen": **it does** for a blank description | one file |
| `graphql_lint` | `ReportsExactly`, `DeletingUnusedIsSafe`, `DiffIsExact` | what a lint reports, what deleting its unused comments changes, what `--diff` leaves out. The last is two promises: it reports at least what the tree has in excess of the violations standing in the merge-base's files, whether or not those parse, and, if no schema file was deleted, at most what the tree has in excess of the merge-base's lint | a file of up to three lines of sixteen kinds, or four lines of the seven kinds that native comments depend on, beside a second file that nobody speaks for; three configurations and each diagnostic off on shorter ones; every pair of 32 trees of one or two short files as merge-base and working tree. Nesting needs a disable, an enable or a second disable, and a violation: three lines; a description under a comment with a reason above it: four |
| `graphql_lint_deleted` | `DiffOnlyNew` | does `--diff` report only what is new? **Not** when the working tree has lost a file | the pairs of trees |
| `vault` | `TokenFileWhole`, `LoginServesLaterGets`, `PrintsTheSecret`, `SurvivesOutages` | is the token file torn by nothing but overlapping logins and cut writes, and never with what was there before, does a get use the login before it, however the logins before that one ended, print what the server holds, and give up only when the retries are used up? | two logins that are alike (symmetry) and a third command that is a login without credentials or one of three gets; one retry, so that two failures in a row exhaust it and one does not; two faults, one change at the server; a secret ID of two uses, the least that a lost answer and its retry spend; a first token longer than the second, and a file left by somebody else that is longer than both, so that an overwrite without truncation would show, and what overlapping logins do to a file shows too. Deadlock off: commands end |

`TypeOK` is in every passing run.  Between them the passing runs take every action.

Stated in the modules and in no run, because they fail or are proved (each is refuted by naming it as
the invariant or property of a configuration like the one given):

| property | configuration |
|---|---|
| `InPlaceEdit!NoSilentLoss` and `NoLostUpdate` with aliases | `InPlaceEdit.cfg` with `AliasedOperands`, `AliasedEntryOf`, `AliasedLinkOf`: finding 5 |
| `Dependencies!CorrectTarget` | `Dependencies.cfg`: finding 6 |
| `Localizer!WaitIsBounded`, `DeadSocketGoes` | `LocalizerKill.cfg`, the first as a property under `RunnerSpec`: findings 7 and 8 |
| `Localizer!ReadyMeansStable` | `LocalizerKill.cfg`: the five-minute deadline of the wait for stable tunnels ends in success |
| `E2ERunner!SuccessMeansPassed` | `E2ERunner.cfg`: with devspace, a run whose tests wrote no report takes an earlier one for its own, and one with errors but no failures counts as passed |
| `YamlQuery!UnchangedKeepsItsNode` | `YamlQuery.cfg` with `AnchorJobs`: finding 9 |
| `YamlQuery!FileOrderKept` with `ReopenedFiles` | `YamlQuery.cfg` with that definition for `Files`, and `ReopenedJobs`: finding 10 |
| `GraphQLRules!ExcludesRelativeToConfig` | `GraphQLRules.cfg`: finding 11 |
| `InPlaceEdit!NoTempLeft` | holds, and is proved |

Outside the bounds of the passing runs, and known to fail there:

* `CopyIsWanted` needs schedules in which no release comes back and which name one local checkout (`OneWay`).
  After a kill in the middle of `rm -rf`, going back to the old release takes the half-removed copy for whole; and
  a second local checkout is not told from the first, since both are marked `local`.
* A file's comment may turn a rule on that `scripts/devbase.yaml` turns off. Its violations have the
  severity `off`: they are printed and never fail the run, although the comment on `SeverityOf` says that no
  violation has it.
* `LoginServesLaterGets` speaks of a login that no other overlapped between opening the file and its write. Two
  that do may leave the end of a longer token behind a shorter one, or nothing but a part; `TokenFileWhole`
  says what else is excluded then (`torn`).
* `RecoversFromKills` excludes runs in which gojq's cache comes to hold an archive or a binary that is none
  (`CacheBroken`). Inside `$(gojq)` a command that fails does not end the script, so `mv` gives even a binary
  unpacked in part its name (`devbase.sh:67`), and of the archive only that it is there is asked (`:42`).

## Fairness

* `InPlaceEdit`: the Go scheduler runs every runnable goroutine, and system calls return. Nothing
  obliges a kill.
* `Dependencies`: the walk is sequential, its downloads return or fail.
* `Localizer`: the runner is scheduled and time passes, so every deadline is reached (`RunnerFairness`).
  That a spawned server comes up is not part of it.
* `E2ERunner`: main and each goroutine are scheduled, every command they run ends, and a spawned
  `devenv tunnel` comes up (for `RunEnds`).
* `Bootstrap`: the script is run again and again (make runs it for every target), kills are
  bounded, and what is tried over and over on the network succeeds at last (strong fairness of
  `Downloaded`, `Unpacked`, `Move`, `Obtain` and `Trust`).
* `YamlQuery`, `GraphQLRules`, `GraphQLLint`, `Vault`: none; their properties are of safety. A Vault command
  has at most `MaxRetries + 1` attempts at each of a fixed number of requests, so that it ends is a
  consequence of its shape.

## What is proved

`tlapm` checks, for every value of the constants:

* `InPlaceEditProofs`: `TypeCorrect`, `NoTempLeftHolds`; and from `NoAlias` (no two operands name
  one entry by different spellings, none is the target of another's link) `NoLostUpdateHolds`,
  `NeverTornHolds`, `NoSilentLossHolds` (the report names the operands whose edit is not in its file and no others, in
  operand order) and
  `Implementation` (every step is a step of `AtomicEdits` or changes nothing there).
  `NoLostUpdate` is not inductive.  `IInv` adds that calls on one path never overlap
  (`Sequential`), that what a call has read is still what the file holds when it renames
  (`SnapshotIsCurrent`, which needs `NoAlias`), that a temporary file is complete and has its
  permissions by then (`TempIsReady`), that an error is set where and only where a call has failed
  (`ErrsSettle`), and that a link leads where it led until a rename replaces it (`LinksFollowed`).
  The order of the report is that of the ranks of the failed operands (`Ranks`).
* `DependenciesProofs`: `TypeCorrect`, `OnlyNeededHolds`, `NothingMissingHolds` and both together as
  `FindsExactlyHolds` for every graph, and `CorrectTargetHolds` (its property is `CorrectUnlessOutage`: the
  target is right where no download may fail).  `IInv` says that whatever a resolved service requires is
  resolved or still on the stack (`Frontier`), that everything on the stack lies in every closed set
  (`Bounded`), and that the stack fits the phase (`StackFits`); the target then follows because the
  resolved set is itself closed and is contained in every closed set.
* `E2ERunnerProofs`: `TypeCorrect`, `PhasesAreInOrder`, `ExitIsTruthful`, `LocalizerIsDisciplined`.  What a phase
  may count on was done several phases earlier, so `IInv` carries it along main's way: which mode a
  place belongs to (`Modes`), what the devenv is from there on (`Provisioning`), which jobs are over
  (`EarlyBuild`, `Awaited`), that a report of this run that counts no failures is not one of a failed test, and that
  main parses one only after the tests have run (`Results`); and, inside the localizer phase, that a connection is
  open only where it is used (`ConnectionInUse`), nothing is starting before the spawn (`NotSpawnedYet`), and an answer
  leads to the server that gave it (`AnsweredPath`).
* `BootstrapProofs`: `TypeCorrect`, `CheckoutsStayIntact` for every schedule and any number of kills, and
  from `OneWay` `CopyIsAsWanted`.  `CheckoutsStayIntact` covers both files the script may write or
  remove through the link, `service.yaml` and `.version`.  `IInv` relates `.bootstrap` to the schedule: a clone bears its own marker
  or none (`CloneMarked`), is of a release wanted so far (`CloneWanted`), a half-removed copy is of an
  earlier one (`PartialIsPast`), a link leads where some lock file says (`LinkLeads`).
* `GraphQLLintProofs`: `LintsExactlyHolds`, about the stages.  In whatever order the groups of reconfigured rules and the
  violations are gone through, a lint of a schema that parses reports of the rules exactly what they
  found, no native comment covers and no `eslint-` comment suppresses, and it credits for each violation taken
  away the comment that comes first.  The invariant says what each stage holds of what it has gone
  through (`Reconfiguring`, `Suppressing`).
  `ReportsExactlyHolds` and `TypeCorrect`, for files of any length.  `ReportsExactly` reads the
  comments without an order of search; the code searches, for the last configuration of a rule, the latest
  range directive above a line, the name below a description.  The lemmas say that a search finds a
  comment exactly if one applies (`CoveringSilences`, `EslintSilences`, `ViolatesIs`), since a set of lines that
  is not empty has a first and a last one; with what the stages come to, the report follows (`Outcome`).
  `DeletingUnusedIsSafeHolds`: deleting from its comment every name reported unused is a trim by names without
  credit (`Trims`), and a trim keeps which lines are covered (`TrimKeepsUncovered`), which comment comes first for each
  violation (`TrimKeepsFirst`) and what the rules find (`TrimKeepsViolations`); `Advice` says that the report names
  exactly what has no credit.
  `DiffIsExactHolds`: `Diffing` says what each of the two lints left; that `New` has of each violation as many as there
  are in excess follows because the lines of its occurrences have the ranks 0, 1, 2 and so on (`RanksAbove`).
* `GraphQLRulesProofs`: `LintsWhatIsAskedHolds`, for every tree, configuration and pattern:
  the files read are those that the code's own reading of the patterns takes (`FilesTaken`), which is the documented
  one wherever the two agree.  `Searching` says that the walk
  upwards has passed neither a config file nor the top of a repository, so that what it stops at is the nearest
  (`NearestIs`); `Loading`, `Loaded` and `Gathered` carry on what was decoded and found.  That `MatchGlob` says what
  `Covers` says, which mentions no order of matching, is an induction on how much is left of the pattern and the path.
  `ImportsAreHonouredHolds`, for any files and links: before the preludes are added there is none (`NoPreludes`),
  afterwards they declare exactly what the links of the configured version import and refer to no type but their own
  scalars (`Completed`), so what validation objects to is not declared, not built in and not imported, and not of
  the preludes (`ObjectingRightly`); and what it lets pass is known (`Importing`).
  `ReachesExactlyHolds`, for any schema: the names that occur in it are finitely many (`VocabularyIs`), so the walk of
  `reachableTypeNames`, by induction on how many are still to come, ends, and what it returns is the least set that is
  closed (`CollectIs`, `ReachedIs`).  Each rule raises violations with its own cause and at places the files contain
  (one lemma a rule, from `DescriptionsAre` to `UnreachableIs`), sorting and the severities keep what was there
  (`SortedIs`, `OutcomesAre`), and putting together what the groups return, whichever ends first, loses and adds nothing
  (`Gathering`); `Reporting` says so of each stage.
  `ExtensionsAreOneHolds` counts.  `Settled` says of a schema that passed validation that no type is declared twice and
  that the preludes extend none; so a definition and its extensions, which gqlparser merges into one, are
  counted together by each rule (`OneInEach` and the lemmas before it).  `Counted` says that at each stage there are,
  of a rule and at a place, as many violations as its function found there: appending, sorting and filtering count what
  their parts count.  That the comparison of `sorting.go` is an order is shown by the keys it sorts by
  (`LocaleCompareIs`), and that as many values are reported as repeat an earlier one by `AllButTheFirst` of `Ranks`.
  `TypeOKHolds` adds `Typed`, what the variables of the configuration hold; that violations stand in the sources is
  `Reporting`'s.
* `VaultProofs`: `TypeCorrect`, `TokenFileIsWhole`, `LoginsServeLaterGets` for any number of processes, retries and
  server changes, tokens of any lengths and writes cut short anywhere.  `IInv` adds that whoever is about to write
  has a token, that from the first opening on only characters of issued tokens are in the file, that whoever writes
  alone writes into an empty one (`Writers`), that the token of a login that has
  settled is what the file holds, with nobody about to write over it (`Settled`), and that no request outlives its retries (`Sessions`).
  `PrintsTheSecretHolds` and `SurvivesOutagesHolds`, for any paths, mounts and contents.  Both rest
  on what a request addresses: a path in the KV v2 API names one secret (`DataPathNamesOne`), so a get
  that has looked up its mount is answered with the secret asked for, if with any (`AddressesAtMostThePath`,
  `AnswerIsTheSecret`), and is answered if it is there (`ReadIsAnswered`).  `Gets` follows a get from the lookup to what
  it prints, `Patience` what a command that lacks nothing has at each step.  The hypotheses are stated
  with the theorems: `Layout`, that no mount is inside another (Vault refuses one), for both; `Named`, that a
  secret has a name within its mount, for the retries; and, for what is printed, `AskedPlainly`: the path asked for is
  not a mount's own, nor has it the segment `data` after the mount.  The last two are no formality: without
  them `kv get` asks for another secret: in the first case on every KV v2 mount (the smaller divergences below),
  in the second if the mount becomes KV v2 between its two requests.  The instance of the run satisfies all of them.

The assumptions are those of the modules (`OperandsAssumption`, `EntryAssumption`, `LinkAssumption`,
`LimitAssumption`; `NameAssumption`, `WorldAssumption`; `RunnerAssumption`; `BootstrapAssumption`;
`VaultAssumption`, `JobAssumption`; `GraphQLLint`'s `RulesAssumption` and `WorldAssumption`, which also gives the shapes of its
files and lines; `GraphQLConfig`'s `WorldsAssumption` and `GraphQLRules`' `RulesAssumption`, which say that paths, documents and
their parts are sequences, a tree finite, and a file no prelude), which TLC evaluates on every run.

Only model-checked:

* all liveness, which is out of the prover's reach;
* `YamlQuery`'s five invariants: its data are trees walked by `RECURSIVE` operators, which the provers cannot be given;
* of `GraphQLRules`, `EveryNodeJudgedOnce`, which rests on what the second reading of a source by the lexer computes, a
  recursion over the tokens that goes on where a skipped block ends: the provers were not brought to take it.

## Findings

Each of the first four is the property of a run; the others were found by TLC in the same way and are not kept
as runs.

1. `runLocalizer`: the cleanup function uses a connection that the deferred `closer()` has closed
   (`localizer_kill`).
2. `devbase.sh` never fetches a broken gojq archive again (`bootstrap_download`).
3. `devbase lint graphql --diff` lints the merge-base without the files that have been deleted or renamed since;
   what referred to them fails to parse, and every old violation is new (`graphql_lint_deleted`).
4. A blank description beside another one ends the lint with the error that "should never happen for valid SDL"
   (`graphql_rules_blank`).
5. `yq -i` runs `a` and `./a` concurrently and loses an edit without an error.
6. A transient GitHub failure is read as "no such file"; the wrong snapshot follows.
7. `runLocalizer`'s one-minute deadline does not cover the blocking `Connect`.
8. A dead localizer socket is not removed, because the removal runs under the context whose deadline has just passed.
9. `yq -Y` drops the anchor and the comments of a mapping or sequence that the filter leaves unchanged: its node
   is a fresh one (`roundtrip.go:184`, `:242`), where `roundtrip.go:45-48` says that the original itself is rendered,
   with every comment and anchor.  The comment before `- a: 1` is gone after `yq -Y .`; one above a key is kept, with
   the key's node (`:209`).
10. A TOML table that is reopened after a sibling prints its keys out of the file's order (`toml.go:202`).
11. Exclude patterns are matched against the paths as they were given on the command line, not
    relative to the configuration's directory (`lint_graphql.go:95`, `:108`; `config.go:295-296`, `:407-410`).  `LintsWhatIsAsked`
    holds the lint to what both readings have in common: a file is skipped if it is excluded by both, and read if by neither.

Smaller divergences met while modelling, without a property:

* `Roundtrip`'s doc says that `opts.Order` is not consulted (`roundtrip.go:22-24`); `yamlNodeFor` does, for the
  values of new keys.
* `errFlagMissingArgument`'s doc says "or is followed by another flag" (`flags.go:186-189`); any word is taken.
* `kv get` of a mount's root on a KV v2 mount reads `mount/data/mount` (`vault.go:194-195`).
* `tier3Deprecation` ranges over a map (`deprecation.go:172`): the order of its violations varies across
  files, though `tier3.go:79-82` says a fixed order decides.
* The enum-duplicate and alphabetize rules say they see a base and its extensions together; two extensions
  without a base are not compared.
* Overlapping arguments lint a file twice, which then redeclares every type in it; the same federation import in two
  `@link`s is a "Cannot redeclare directive" at the prelude.
* Type and directive names share one namespace in the search for unreachable types.
* A `devenv status` that fails for another reason than a missing devenv gets the existing devenv destroyed.

## Assumptions about what is outside

* `InPlaceEdit`: nobody else writes the files; names of temporary files are fresh; a symbolic
  link leads to a regular file; removing one's own temporary file succeeds; what a rename has
  replaced survives a kill (no loss of power).
* `YamlQuery`: gojq, goccy/go-yaml and go-toml decode and evaluate as they document; a filter is a list of
  emissions, each built from parts of the input; the layout of the printed text is left out.
* `Localizer`: a blocking gRPC dial retries until its context is done; os/exec starts no command under
  a context that is done; a server that stops leaves its socket.
* `E2ERunner`: what `devenv apps e2e` does to `bin/unit-tests.xml`, which is also what unit tests write, is any of:
  nothing, a part of a report, a report of what the tests came to; one in which a test ended with an error may count
  no failures (`Written`).
* `Bootstrap`: `git clone` removes what it made when it fails by itself, and leaves it when killed; one
  run at a time.
* `GraphQLRules`, `GraphQLLint`: gqlparser rejects a schema that refers to an undefined type or defines one twice,
  and reports any one of its errors; a description takes one line, a line holds one comment, and an
  inline configuration comment speaks of one rule; the order of violations within a group is left out.
* `Vault`: the client library retries what fails without an answer or with a server error, up to `MaxRetries`
  times; a request whose answer is lost may have been carried out.

## Not modelled, and what is left

The project spends its runs on the Go programs, where state is shared and kept.  Left out, with the
reasons in `PROJECT.json`: the scripts for docker, releases, mise, tokens, the git cache and CI, which run
commands of other programs one after another and keep their state in git, registries and GitHub; the
Mage template and the orb, which are declarations.  Of the modelled parts: parsing and validation of SDL
and of YAML and TOML, the filter language, the wording of messages.

Worth doing next: for the stitch, "a manifest becomes
visible with all of its images" with the jobs of `docker-stitch.sh`; two overlapping runs of
`devbase.sh`, which nothing in the repository allows or prevents.
