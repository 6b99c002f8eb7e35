------------------------------ MODULE E2ERunner ------------------------------
(***************************************************************************)
(* main of the end-to-end test runner (e2e/e2e.go): provision a devenv if  *)
(* there is none, deploy or build the application, configure it, start the *)
(* localizer and run the tests; or, with USE_DEVSPACE, deploy and let      *)
(* devspace run them.  Three jobs run beside main in goroutines of their   *)
(* own: the early docker build, devconfig, and the devspace binaries.      *)
(*                                                                         *)
(* A command that fails ends the run at most places (log.Fatal); Localizer *)
(* is the runner's localizer phase.  How the provision target is chosen is *)
(* Dependencies' subject and left out here.                                *)
(***************************************************************************)
CONSTANTS
  MayStop,        \* Localizer: whether the server may stop by itself
  MaySudoFail     \* Localizer: whether `sudo rm` may fail by itself

ASSUME RunnerAssumption ==
  MayStop \in BOOLEAN /\ MaySudoFail \in BOOLEAN

VARIABLES
  opts,      \* the environment variables, and whether the repo has e2e tests
  mpc,       \* what main is about to do
  cluster,   \* the devenv
  image,     \* the early docker build
  devconf,   \* devconfig, in the background or not
  binaries,  \* `make devspace`
  deployed,  \* the application is deployed, or built
  tests,     \* what the tests really came to
  report,    \* the junit report on disk: whose it is and what it says
  exit       \* how the process ended

VARIABLES lpc, socket, servers, stable, peer, conn, ten, minute, five, ponged

L == INSTANCE Localizer

mvars == <<opts, mpc, cluster, image, devconf, binaries, deployed, tests, report, exit>>
lvars == <<lpc, socket, servers, stable, peer, conn, ten, minute, five, ponged>>
vars == <<mvars, lvars>>

Options == [devspace : BOOLEAN, hasTests : BOOLEAN, skipProvision : BOOLEAN,
            devconfigAfter : BOOLEAN, skipLocalizer : BOOLEAN, ci : BOOLEAN]

(* What the tests come to: "error" is a run that broke off, a package that *)
(* does not build or a test binary that crashes, without a failed test.    *)
Verdict == {"none", "pass", "fail", "error"}

(* bin/unit-tests.xml: there is none, or this run or an earlier one (the   *)
(* unit tests write it too) left it.  It may be cut short, and says no     *)
(* more than how many failures were counted: zero where it counts none.    *)
Reports == [by : {"earlier", "this"}, says : {"nothing", "garbled", "clean", "failures"}]

(* The report of a run of the tests: errors are not among its failures.    *)
Written(verdict) ==
  {r \in Reports : r.by = "this" /\ r.says \in {"garbled", IF verdict = "fail" THEN "failures" ELSE "clean"}}

TypeOK ==
  /\ opts \in Options
  /\ mpc \in {"box", "scan", "status", "dependencies", "destroy", "provision",
              "imagewait", "manifest", "deploy", "deploying", "devconfig",
              "devconfigwait", "post", "localizer", "tests", "closing",
              "name", "binarieswait", "e2e", "copy", "parse", "end"}
  /\ cluster \in {"absent", "broken", "ready"}
  /\ image \in {"none", "building", "done"}
  /\ devconf \in {"none", "running", "failed", "done"}
  /\ binaries \in {"none", "building", "done"}
  /\ deployed \in BOOLEAN
  /\ tests \in Verdict /\ report \in Reports
  /\ exit \in {"running", "ok", "fatal", "panic"}
  /\ L!LTypeOK

(* The devenv and the report an earlier run left, if any, are still there. *)
Init ==
  /\ opts \in Options
  /\ mpc = "box"
  /\ cluster \in {"absent", "ready"}
  /\ image = "none" /\ devconf = "none" /\ binaries = "none"
  /\ deployed = FALSE
  /\ tests = "none"
  /\ report \in {r \in Reports : r.by = "earlier"}
  /\ exit = "running"
  /\ L!LInit

-----------------------------------------------------------------------------

At(step) == mpc = step /\ exit = "running"
Go(step) == mpc' = step /\ exit' = exit
Quit(how) == mpc' = "end" /\ exit' = how

(* The context is cancelled once devconfig failed in the background. *)
Cancelled == devconf = "failed"

(* A step of main that touches nothing but main's own place. *)
Keep == UNCHANGED <<opts, cluster, image, devconf, binaries, deployed, tests, report, lvars>>

(* Where main goes with the devenv provisioned. *)
AfterProvision == IF opts.devspace THEN "name"
                  ELSE IF image = "none" THEN "manifest" ELSE "imagewait"

-----------------------------------------------------------------------------
(* Faulty variants of definitions below, each a plausible slip in e2e.go;   *)
(* they show that the properties can fail.                                  *)

(* The early docker build is not waited for. *)
AwaitImage_Not == At("imagewait") /\ Go("manifest") /\ Keep

(* Of what parseResultFromJunitReport returns only the error is looked at. *)
Parse_AnyReport ==
  /\ At("parse")
  /\ Quit(IF report.says \in {"clean", "failures"} THEN "ok" ELSE "fatal")
  /\ Keep

(* A failed build of the binaries is noted and otherwise forgotten. *)
BinariesPanic_Recovered ==
  /\ exit = "running" /\ binaries = "building"
  /\ binaries' = "failed"
  /\ UNCHANGED <<opts, mpc, cluster, image, devconf, deployed, tests, report, exit, lvars>>

-----------------------------------------------------------------------------

(* The box configuration is loaded. *)
LoadBox == At("box") /\ Go("scan") /\ Keep

(* shouldRunE2ETests: without a single or_e2e test file there is no run.   *)
Scan ==
  /\ At("scan")
  /\ CASE ~opts.hasTests -> Quit("ok")
       [] opts.hasTests /\ (opts.devspace \/ ~opts.skipProvision) -> Go("status")
       [] OTHER -> Go("manifest")
  /\ Keep

(* isDevenvProvisioned: whatever makes `devenv status` fail means "no", and *)
(* it may fail for a devenv that is there.                                 *)
(* Outside devspace mode the docker build starts beside the provisioning.  *)
Status ==
  /\ At("status")
  /\ \/ /\ cluster = "ready"
        /\ Go(AfterProvision)
        /\ image' = image
     \/ /\ Go("dependencies")
        /\ image' = IF opts.devspace THEN image ELSE "building"
  /\ UNCHANGED <<opts, cluster, devconf, binaries, deployed, tests, report, lvars>>

(* BuildDependenciesList, for the provision target. *)
ListDependencies == At("dependencies") /\ Go("destroy") /\ Keep

(* provisionNew, `devenv destroy`: best effort. *)
Destroy ==
  /\ At("destroy")
  /\ cluster' \in {cluster, "absent"}
  /\ Go("provision")
  /\ UNCHANGED <<opts, image, devconf, binaries, deployed, tests, report, lvars>>

(* provisionNew, `devenv provision`. *)
Provisioned ==
  /\ At("provision")
  /\ cluster' = "ready"
  /\ Go(AfterProvision)
  /\ UNCHANGED <<opts, image, devconf, binaries, deployed, tests, report, lvars>>

ProvisionFails ==
  /\ At("provision")
  /\ cluster' = "broken"
  /\ Quit("fatal")
  /\ UNCHANGED <<opts, image, devconf, binaries, deployed, tests, report, lvars>>

(* wg.Wait for the docker build. *)
AwaitImage == At("imagewait") /\ image = "done" /\ Go("manifest") /\ Keep

(* devenv.yaml is read, and devconfig started unless it has to come later. *)
ReadManifest ==
  /\ At("manifest")
  /\ devconf' = IF opts.devconfigAfter THEN devconf ELSE "running"
  /\ Go("deploy")
  /\ UNCHANGED <<opts, cluster, image, binaries, deployed, tests, report, lvars>>

(* Devspace mode: the service's name is read, and the binaries are built in *)
(* the background.                                                          *)
ReadServiceName ==
  /\ At("name")
  /\ binaries' = "building"
  /\ Go("deploy")
  /\ UNCHANGED <<opts, cluster, image, devconf, deployed, tests, report, lvars>>

(* `devenv apps deploy`, or `make build` for what is not a service. *)
DeployStarts == At("deploy") /\ ~Cancelled /\ Go("deploying") /\ Keep

Deployed ==
  /\ At("deploying")
  /\ deployed' = TRUE
  /\ Go(IF opts.devspace THEN "binarieswait"
         ELSE IF opts.devconfigAfter THEN "devconfig" ELSE "devconfigwait")
  /\ UNCHANGED <<opts, cluster, image, devconf, binaries, tests, report, lvars>>

(* REQUIRE_DEVCONFIG_AFTER_DEPLOY: devconfig in the foreground. *)
RunDevconfig ==
  /\ At("devconfig")
  /\ devconf' = "done"
  /\ Go("post")
  /\ UNCHANGED <<opts, cluster, image, binaries, deployed, tests, report, lvars>>

(* wg.Wait for devconfig: a job that failed never reports done. *)
AwaitDevconfig == At("devconfigwait") /\ devconf = "done" /\ Go("post") /\ Keep

(* scripts/devenv/post-e2e-deploy.sh, where it exists. *)
PostDeploy ==
  /\ At("post")
  /\ Go(IF opts.skipLocalizer THEN "tests" ELSE "localizer")
  /\ Keep

(* The localizer phase: main is inside runLocalizer. *)
LocalizerStep ==
  /\ At("localizer") /\ lpc \notin L!Returned
  /\ L!RunLocalizer
  /\ UNCHANGED mvars

LocalizerReturns ==
  /\ At("localizer") /\ lpc \in L!Returned
  /\ IF lpc = "ready" THEN Go("tests") ELSE Quit("fatal")
  /\ Keep

(* log.Fatal on failed tests skips the deferred calls. *)
RunTests ==
  /\ At("tests")
  /\ \/ tests' = "pass" /\ Go("closing")
     \/ tests' = "fail" /\ Quit("fatal")
  /\ UNCHANGED <<opts, cluster, image, devconf, binaries, deployed, report, lvars>>

(* defer closer(ctx), then the end of main. *)
Close ==
  /\ At("closing")
  /\ IF opts.skipLocalizer THEN UNCHANGED lvars ELSE L!Cleanup
  /\ Quit("ok")
  /\ UNCHANGED <<opts, cluster, image, devconf, binaries, deployed, tests, report>>

(* Devspace mode: wg.Wait for the binaries. *)
AwaitBinaries == At("binarieswait") /\ binaries = "done" /\ Go("e2e") /\ Keep

(* `devenv apps e2e` succeeds whatever the tests came to, and need not     *)
(* have brought back a report: what was there then stays.                  *)
RunDevspaceTests ==
  /\ At("e2e")
  /\ tests' \in Verdict \ {"none"}
  /\ report' \in {report} \cup Written(tests')
  /\ Go(IF opts.ci THEN "copy" ELSE "parse")
  /\ UNCHANGED <<opts, cluster, image, devconf, binaries, deployed, lvars>>

(* The copy of the report for CircleCI: cp needs a file to copy. *)
CopyReport == At("copy") /\ report.says # "nothing" /\ Go("parse") /\ Keep

(* parseResultFromJunitReport reads the failures attribute and nothing     *)
(* else: a missing one is 0.  A file that is not there or that is not XML  *)
(* is an error.                                                            *)
Parse ==
  /\ At("parse")
  /\ Quit(IF report.says = "clean" THEN "ok" ELSE "fatal")
  /\ Keep

(* A step of main that fails, where all a failure does is end the run. *)
StepFails ==
  /\ mpc \in {"box", "scan", "status", "dependencies", "destroy", "manifest", "name", "deploy",
              "deploying", "devconfig", "post", "tests", "e2e", "copy", "parse"}
  /\ exit = "running"
  /\ Quit("fatal")
  /\ Keep

Main ==
  \/ LoadBox \/ Scan \/ Status \/ ListDependencies \/ Destroy
  \/ Provisioned \/ ProvisionFails \/ AwaitImage \/ ReadManifest \/ ReadServiceName
  \/ DeployStarts \/ Deployed \/ RunDevconfig \/ AwaitDevconfig \/ PostDeploy
  \/ LocalizerStep \/ LocalizerReturns \/ RunTests \/ Close
  \/ AwaitBinaries \/ RunDevspaceTests \/ CopyReport \/ Parse \/ StepFails

(* The early docker build ends, well or badly: a failure is only logged. *)
ImageJob ==
  /\ exit = "running" /\ image = "building"
  /\ image' = "done"
  /\ UNCHANGED <<opts, mpc, cluster, devconf, binaries, deployed, tests, report, exit, lvars>>

(* devconfig in the background: success, or cancel() and then log.Fatal. *)
DevconfigEnds ==
  /\ exit = "running" /\ devconf = "running"
  /\ devconf' \in {"done", "failed"}
  /\ UNCHANGED <<opts, mpc, cluster, image, binaries, deployed, tests, report, exit, lvars>>

DevconfigFatal ==
  /\ exit = "running" /\ devconf = "failed"
  /\ Quit("fatal")
  /\ Keep

(* `make devspace`: a failure is a panic of the job's goroutine. *)
BinariesBuilt ==
  /\ exit = "running" /\ binaries = "building"
  /\ binaries' = "done"
  /\ UNCHANGED <<opts, mpc, cluster, image, devconf, deployed, tests, report, exit, lvars>>

BinariesPanic ==
  /\ exit = "running" /\ binaries = "building"
  /\ Quit("panic")
  /\ Keep

Jobs == ImageJob \/ DevconfigEnds \/ DevconfigFatal \/ BinariesBuilt \/ BinariesPanic

(* The localizer's server, and the clock of runLocalizer's deadlines. *)
Outside == L!Environment /\ UNCHANGED mvars

Finished == exit # "running" /\ UNCHANGED vars

Next == Main \/ Jobs \/ Outside \/ Finished

(* main and each job are scheduled, every command they run ends; so does   *)
(* time pass, and the spawned tunnel comes up.                             *)
Fairness ==
  /\ WF_vars(Main)
  /\ WF_vars(ImageJob)
  /\ WF_vars(DevconfigEnds) /\ WF_vars(DevconfigFatal)
  /\ WF_vars(BinariesBuilt \/ BinariesPanic)
  /\ WF_vars(L!Time /\ UNCHANGED mvars)
  /\ WF_vars(L!ServerUp /\ UNCHANGED mvars)

Spec     == Init /\ [][Next]_vars
FairSpec == Spec /\ Fairness

-----------------------------------------------------------------------------

(* The tests run only on an application deployed to a devenv that is up,   *)
(* with the job of their mode finished and the localizer there unless it   *)
(* is skipped: main waits for every goroutine whose work the tests need.   *)
TestsOnReadyDevenv ==
  tests # "none" =>
    /\ deployed
    /\ cluster = "ready" \/ (opts.skipProvision /\ ~opts.devspace)
    /\ IF opts.devspace THEN binaries = "done"
       ELSE /\ devconf = "done"
            /\ opts.skipLocalizer \/ lpc \in {"ready", "cleaned"}

(* "To ensure that docker build is finished": the deployment never starts  *)
(* while the early docker build still runs, nor on half a devenv.          *)
DeploysAlone == mpc = "deploying" => image # "building" /\ cluster # "broken"

(* The phases come in order although three of them run in the background. *)
PhasesInOrder == TestsOnReadyDevenv /\ DeploysAlone

(* Nothing main started in the background is still running or has failed. *)
NothingPending ==
  /\ image # "building" /\ binaries # "building"
  /\ devconf \notin {"running", "failed"}

(* A success is one of this deployment: the tests have run on it, nothing  *)
(* main started beside itself is unfinished or has failed, and no failure  *)
(* main was told of is lost: the tests passed, or, where only the report   *)
(* tells, the report read counts no failure, so that this run's own report *)
(* of a failed test never ends in success.                                 *)
ExitTruthful ==
  exit = "ok" /\ opts.hasTests =>
    /\ tests # "none" /\ deployed
    /\ NothingPending
    /\ IF opts.devspace
         THEN report.says = "clean" /\ (report.by = "this" => tests # "fail")
         ELSE tests = "pass"

(* "parseResultFromJunitReport parses if tests succeeded": success means   *)
(* that this run's tests passed, also in devspace mode.                    *)
SuccessMeansPassed == exit = "ok" /\ opts.hasTests => tests = "pass"

(* Every run ends, unless the localizer's server stops, or was stopped, by *)
(* the time runLocalizer connects, and the call waits for it for good.     *)
RunEnds == <>(exit # "running") \/ <>[]L!Blocked

(* However main calls it and whatever becomes of the servers, the tunnels  *)
(* runLocalizer waits for are those of the server that answered its ping,  *)
(* or else of the one it spawned, never of a server it took for dead; and  *)
(* it leaves no connection open.                                           *)
LocalizerDiscipline ==
  L!AnsweringServerIsUsed /\ L!SpawnedServerIsUsed /\ L!NoConnectionLeft

==============================================================================
