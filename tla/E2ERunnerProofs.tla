---------------------------- MODULE E2ERunnerProofs ----------------------------
(***************************************************************************)
(* E2ERunner's phases, exit status and localizer phase for every choice of *)
(* what may go wrong.  What a phase may count on was done several phases   *)
(* earlier, by main or by a job beside it, so the invariant carries it     *)
(* along main's way.                                                       *)
(***************************************************************************)
EXTENDS E2ERunner, TLAPS

(* main's way once there is a devenv, from its two modes. *)
FromTests     == {"tests", "closing"}
FromLocalizer == {"localizer"} \cup FromTests
FromPost      == {"post"} \cup FromLocalizer
Plain         == {"imagewait", "manifest", "devconfig", "devconfigwait"} \cup FromPost
FromE2E       == {"e2e", "copy", "parse"}
Devspace      == {"name", "binarieswait"} \cup FromE2E
Both          == {"deploy", "deploying"}

(* main has a next step for as long as the process runs. *)
Running == mpc = "end" <=> exit # "running"

(* Each mode has its own way. *)
Modes ==
  /\ mpc \in Plain => ~opts.devspace
  /\ mpc \in Devspace => opts.devspace
  /\ mpc = "status" => opts.devspace \/ ~opts.skipProvision

(* A broken devenv ends the run, and what follows the provisioning has a   *)
(* devenv, unless the run was told to do without.                          *)
Provisioning ==
  /\ cluster = "broken" => mpc = "end"
  /\ mpc \in Plain \cup Devspace \cup Both =>
       cluster = "ready" \/ (opts.skipProvision /\ ~opts.devspace)

(* The early docker build runs beside the provisioning at most. *)
EarlyBuild ==
  image = "building" =>
    ~opts.devspace /\ mpc \in {"dependencies", "destroy", "provision", "imagewait", "end"}

(* What main has waited for is done. *)
Awaited ==
  /\ mpc \in {"devconfig", "devconfigwait", "binarieswait"} \cup FromPost \cup FromE2E => deployed
  /\ mpc \in FromPost => devconf = "done"
  /\ mpc \in FromE2E => binaries = "done"

(* runLocalizer is called once, and returned well before the tests. *)
LocalizerPhase ==
  /\ lpc # "idle" => mpc \in FromLocalizer \cup {"end"}
  /\ mpc \in FromTests => opts.skipLocalizer \/ lpc = "ready"

(* The tests have run where main looks at what they came to, and a report  *)
(* of this run that counts no failure is not one of a failed test.         *)
Results ==
  /\ tests # "none" => mpc \in {"closing", "copy", "parse", "end"}
  /\ mpc = "closing" => tests = "pass"
  /\ mpc \in {"copy", "parse"} => tests # "none"
  /\ report.by = "this" /\ report.says = "clean" => tests # "fail"
  /\ tests = "none" => report.by = "earlier"

(* A job that has not ended is one main still has to wait for, or never    *)
(* started in this mode.                                                   *)
Pending ==
  /\ devconf \in {"running", "failed"} =>
       ~opts.devspace /\ mpc \in {"deploy", "deploying", "devconfig", "devconfigwait", "end"}
  /\ binaries = "building" =>
       opts.devspace /\ mpc \in {"deploy", "deploying", "binarieswait", "end"}

(* Nothing has been spawned before "spawning", no server connected to       *)
(* before "connecting", and a connection is open only where runLocalizer    *)
(* uses it.                                                                 *)
NotSpawnedYet ==
  lpc \in {"idle", "pinging", "asking", "removing", "recheck",
  "spawning"} => servers["spawned"] = "none"
NoPeerYet ==
  peer # "none" => lpc \in {"polling", "sleeping", "ready", "failed", "cleaned"}
SpawnsOnFreeSocket == lpc = "spawning" => socket = "none"
ConnectionInUse == conn = "open" => lpc \in {"asking", "removing", "polling", "sleeping"}

(* With an answer, runLocalizer connects to the server that gave it. *)
AnsweredPath ==
  ponged =>
    /\ lpc \in {"recheck", "connecting", "polling", "sleeping", "ready", "failed", "cleaned"}
    /\ socket = "found" /\ servers["spawned"] = "none" /\ peer # "spawned"

Phases == Running /\ Modes /\ Provisioning /\ EarlyBuild /\ Awaited /\ LocalizerPhase /\ Results /\ Pending

Inside ==
  /\ NotSpawnedYet /\ NoPeerYet /\ SpawnsOnFreeSocket /\ ConnectionInUse
  /\ AnsweredPath /\ L!SpawnedServerIsUsed

IInv == TypeOK /\ Phases /\ TestsOnReadyDevenv /\ ExitTruthful /\ Inside

-----------------------------------------------------------------------------
(* The localizer phase by itself. *)

LEMMA InsideHolds == L!LInit => L!LTypeOK /\ Inside
<1> SUFFICES ASSUME L!LInit PROVE L!LTypeOK /\ Inside
  OBVIOUS
<1> QED
  BY DEF L!LInit, L!LTypeOK, L!Returned, L!Servers, Inside, NotSpawnedYet, NoPeerYet,
         SpawnsOnFreeSocket, ConnectionInUse, AnsweredPath, L!SpawnedServerIsUsed

LEMMA InsideStays ==
  ASSUME L!LTypeOK, Inside, L!RunLocalizer \/ L!Cleanup \/ L!Environment
  PROVE  L!LTypeOK' /\ Inside'
<1> USE DEF L!LTypeOK, L!Returned, L!Servers, Inside, NotSpawnedYet, NoPeerYet, SpawnsOnFreeSocket,
            ConnectionInUse, AnsweredPath, L!SpawnedServerIsUsed, L!Go, L!CloseIfOpen, L!CloseOnReturn,
            L!clocks, L!world
<1>1. CASE L!Begin
  BY <1>1 DEF L!Begin
<1>2. CASE L!PingConnects
  BY <1>2 DEF L!PingConnects
<1>3. CASE L!PingConnectFails
  BY <1>3 DEF L!PingConnectFails
<1>4. CASE L!PingAnswered
  <2>1. socket = "found" /\ peer = "none"
    BY <1>4 DEF L!PingAnswered, L!Listening
  <2> QED
    BY <1>4, <2>1 DEF L!PingAnswered
<1>5. CASE L!PingFails
  BY <1>5 DEF L!PingFails
<1>6. CASE L!RemoveSocket
  BY <1>6 DEF L!RemoveSocket
<1>7. CASE L!RemoveFails
  BY <1>7 DEF L!RemoveFails
<1>8. CASE L!Recheck
  BY <1>8 DEF L!Recheck
<1>9. CASE L!Spawn
  BY <1>9 DEF L!Spawn
<1>10. CASE L!SpawnFails
  BY <1>10 DEF L!SpawnFails
<1>11. CASE L!EndWait
  BY <1>11 DEF L!EndWait
<1>12. CASE L!Connect
  BY <1>12 DEF L!Connect, L!Listening
<1>13. CASE L!PollStable
  BY <1>13 DEF L!PollStable
<1>14. CASE L!PollUnstable
  BY <1>14 DEF L!PollUnstable
<1>15. CASE L!PollFails
  BY <1>15 DEF L!PollFails
<1>16. CASE L!PollAgain
  BY <1>16 DEF L!PollAgain
<1>17. CASE L!GiveUp
  BY <1>17 DEF L!GiveUp
<1>18. CASE L!Cleanup
  BY <1>18 DEF L!Cleanup
<1>19. CASE L!ServerUp
  BY <1>19 DEF L!ServerUp
<1>20. CASE L!TunnelsUp
  BY <1>20 DEF L!TunnelsUp
<1>21. CASE L!ServerStops
  BY <1>21 DEF L!ServerStops
<1>22. CASE L!TenSeconds
  BY <1>22 DEF L!TenSeconds
<1>23. CASE L!OneMinute
  BY <1>23 DEF L!OneMinute
<1>24. CASE L!FiveMinutes
  BY <1>24 DEF L!FiveMinutes
<1> QED
  BY <1>1, <1>2, <1>3, <1>4, <1>5, <1>6, <1>7, <1>8, <1>9, <1>10, <1>11, <1>12,
     <1>13, <1>14, <1>15, <1>16, <1>17, <1>18, <1>19, <1>20, <1>21, <1>22, <1>23, <1>24
     DEF L!RunLocalizer, L!Environment, L!Time

(* The server and the clock do not move the runner. *)
LEMMA OutsideKeepsPlace == L!LTypeOK /\ L!Environment => lpc' = lpc
BY DEF L!Environment, L!ServerUp, L!TunnelsUp, L!ServerStops, L!Time,
       L!TenSeconds, L!OneMinute, L!FiveMinutes

(* Without a step of the localizer's, nothing of it changes. *)
LEMMA InsideUntouched ==
  ASSUME L!LTypeOK, Inside, UNCHANGED lvars
  PROVE  L!LTypeOK' /\ Inside'
BY DEF lvars, L!LTypeOK, L!Returned, L!Servers, Inside, NotSpawnedYet, NoPeerYet, SpawnsOnFreeSocket,
       ConnectionInUse, AnsweredPath, L!SpawnedServerIsUsed

-----------------------------------------------------------------------------
(* The runner. *)

LEMMA InitHolds == Init => IInv
<1> SUFFICES ASSUME Init PROVE IInv
  OBVIOUS
<1>1. L!LTypeOK /\ Inside
  BY InsideHolds DEF Init
<1>2. lpc = "idle"
  BY DEF Init, L!LInit
<1> QED
  BY <1>1, <1>2 DEF Init, IInv, Phases, Running, Modes, Provisioning, EarlyBuild, Awaited,
       LocalizerPhase, Results, Pending, TypeOK, TestsOnReadyDevenv, ExitTruthful, NothingPending,
       Verdict, Reports,
       FromTests, FromLocalizer, FromPost, Plain, FromE2E, Devspace, Both

(* The steps of main and of the jobs that leave the localizer alone. *)
LEMMA RunnerStays ==
  ASSUME IInv, UNCHANGED lvars,
         LoadBox \/ Scan \/ Status \/ ListDependencies \/ Destroy \/ Provisioned
         \/ ProvisionFails \/ AwaitImage \/ ReadManifest \/ ReadServiceName
         \/ DeployStarts \/ Deployed \/ RunDevconfig \/ AwaitDevconfig \/ PostDeploy
         \/ LocalizerReturns \/ RunTests \/ AwaitBinaries \/ RunDevspaceTests
         \/ CopyReport \/ Parse \/ StepFails \/ ImageJob \/ DevconfigEnds
         \/ DevconfigFatal \/ BinariesBuilt \/ BinariesPanic \/ Finished
  PROVE  IInv'
<1> USE DEF IInv, Phases, Running, Modes, Provisioning, EarlyBuild, Awaited, LocalizerPhase,
       Results, Pending,
            TypeOK, TestsOnReadyDevenv, ExitTruthful, NothingPending, Verdict, Reports, Options,
            lvars, At, Go, Quit, Keep,
            FromTests, FromLocalizer, FromPost, Plain, FromE2E, Devspace, Both
<1>1. L!LTypeOK' /\ Inside'
  BY InsideUntouched
<1>2. CASE LoadBox
  BY <1>1, <1>2 DEF LoadBox
<1>3. CASE Scan
  BY <1>1, <1>3 DEF Scan
<1>4. CASE Status
  BY <1>1, <1>4 DEF Status, AfterProvision
<1>5. CASE ListDependencies
  BY <1>1, <1>5 DEF ListDependencies
<1>6. CASE Destroy
  BY <1>1, <1>6 DEF Destroy
<1>7. CASE Provisioned
  BY <1>1, <1>7 DEF Provisioned, AfterProvision
<1>8. CASE ProvisionFails
  BY <1>1, <1>8 DEF ProvisionFails
<1>9. CASE AwaitImage
  BY <1>1, <1>9 DEF AwaitImage
<1>10. CASE ReadManifest
  BY <1>1, <1>10 DEF ReadManifest
<1>11. CASE ReadServiceName
  BY <1>1, <1>11 DEF ReadServiceName
<1>12. CASE DeployStarts
  BY <1>1, <1>12 DEF DeployStarts, Cancelled
<1>13. CASE Deployed
  BY <1>1, <1>13 DEF Deployed
<1>14. CASE RunDevconfig
  BY <1>1, <1>14 DEF RunDevconfig
<1>15. CASE AwaitDevconfig
  BY <1>1, <1>15 DEF AwaitDevconfig
<1>16. CASE PostDeploy
  BY <1>1, <1>16 DEF PostDeploy
<1>17. CASE LocalizerReturns
  BY <1>1, <1>17 DEF LocalizerReturns, L!Returned
<1>18. CASE RunTests
  BY <1>1, <1>18 DEF RunTests
<1>19. CASE AwaitBinaries
  BY <1>1, <1>19 DEF AwaitBinaries
<1>20. CASE RunDevspaceTests
  BY <1>1, <1>20 DEF RunDevspaceTests, Written
<1>21. CASE CopyReport
  BY <1>1, <1>21 DEF CopyReport
<1>22. CASE Parse
  BY <1>1, <1>22 DEF Parse
<1>23. CASE StepFails
  BY <1>1, <1>23 DEF StepFails
<1>24. CASE ImageJob
  BY <1>1, <1>24 DEF ImageJob
<1>25. CASE DevconfigEnds
  BY <1>1, <1>25 DEF DevconfigEnds
<1>26. CASE DevconfigFatal
  BY <1>1, <1>26 DEF DevconfigFatal
<1>27. CASE BinariesBuilt
  BY <1>1, <1>27 DEF BinariesBuilt
<1>28. CASE BinariesPanic
  BY <1>1, <1>28 DEF BinariesPanic
<1>29. CASE Finished
  BY <1>1, <1>29 DEF Finished, vars, mvars
<1> HIDE DEF IInv, Phases, Running, Modes, Provisioning, EarlyBuild, Awaited, LocalizerPhase,
       Results, Pending,
             TypeOK, TestsOnReadyDevenv, ExitTruthful, At, Go, Quit, Keep
<1> QED
  BY <1>2, <1>3, <1>4, <1>5, <1>6, <1>7, <1>8, <1>9, <1>10, <1>11, <1>12, <1>13, <1>14,
     <1>15, <1>16, <1>17, <1>18, <1>19, <1>20, <1>21, <1>22, <1>23, <1>24, <1>25, <1>26,
     <1>27, <1>28, <1>29

(* The steps in which the localizer phase moves. *)
LEMMA PhaseStays ==
  ASSUME IInv, LocalizerStep \/ Close \/ Outside
  PROVE  IInv'
<1> USE DEF IInv, Phases, Running, Modes, Provisioning, EarlyBuild, Awaited, LocalizerPhase,
       Results, Pending,
            TypeOK, TestsOnReadyDevenv, ExitTruthful, NothingPending, Verdict, Reports, Options,
            mvars, At, Go, Quit,
            FromTests, FromLocalizer, FromPost, Plain, FromE2E, Devspace, Both
<1>1. CASE LocalizerStep
  <2>1. L!LTypeOK' /\ Inside'
    BY <1>1, InsideStays DEF LocalizerStep
  <2> QED
    BY <1>1, <2>1 DEF LocalizerStep
<1>2. CASE Close
  <2>1. L!LTypeOK' /\ Inside'
    BY <1>2, InsideStays, InsideUntouched DEF Close
  <2>2. lpc' = lpc \/ lpc' = "cleaned"
    BY <1>2 DEF Close, lvars, L!Cleanup, L!Go
  <2>3. ~opts.skipLocalizer => lpc' = "cleaned"
    BY <1>2 DEF Close, L!Cleanup, L!Go
  <2> QED
    BY <1>2, <2>1, <2>2, <2>3 DEF Close
<1>3. CASE Outside
  <2>1. L!LTypeOK' /\ Inside' /\ lpc' = lpc
    BY <1>3, InsideStays, OutsideKeepsPlace DEF Outside
  <2> QED
    BY <1>3, <2>1 DEF Outside
<1> QED
  BY <1>1, <1>2, <1>3

LEMMA StepHolds == IInv /\ [Next]_vars => IInv'
<1> SUFFICES ASSUME IInv, [Next]_vars PROVE IInv'
  OBVIOUS
<1>1. CASE UNCHANGED vars
  <2>1. L!LTypeOK' /\ Inside'
    BY <1>1, InsideUntouched DEF IInv, TypeOK, vars
  <2> QED
    BY <1>1, <2>1 DEF IInv, Phases, Running, Modes, Provisioning, EarlyBuild, Awaited,
         LocalizerPhase, Results, Pending, TypeOK, TestsOnReadyDevenv, ExitTruthful,
         NothingPending, vars, mvars, lvars
<1>2. CASE LocalizerStep \/ Close \/ Outside
  BY <1>2, PhaseStays
<1>3. CASE Next /\ UNCHANGED lvars /\ ~(LocalizerStep \/ Close \/ Outside)
  BY <1>3, RunnerStays DEF Next, Main, Jobs
<1>4. CASE Next /\ ~(LocalizerStep \/ Close \/ Outside)
  <2>1. UNCHANGED lvars
    BY <1>4 DEF Next, Main, Jobs, Keep, LoadBox, Scan, Status, ListDependencies, Destroy, Provisioned,
         ProvisionFails, AwaitImage, ReadManifest, ReadServiceName, DeployStarts, Deployed,
         RunDevconfig, AwaitDevconfig, PostDeploy, LocalizerReturns, RunTests, AwaitBinaries,
         RunDevspaceTests, CopyReport, Parse, StepFails, ImageJob, DevconfigEnds, DevconfigFatal,
         BinariesBuilt, BinariesPanic, Finished, vars
  <2> QED
    BY <1>3, <1>4, <2>1
<1> QED
  BY <1>1, <1>2, <1>4

LEMMA Inductive == Spec => []IInv
BY InitHolds, StepHolds, PTL DEF Spec

-----------------------------------------------------------------------------

(* The variables keep their types: every place main, its jobs and          *)
(* runLocalizer reach is one of those named.                               *)
THEOREM TypeCorrect == Spec => []TypeOK
<1>1. IInv => TypeOK
  BY DEF IInv
<1> QED
  BY <1>1, Inductive, PTL

(* The tests run on an application deployed to a devenv that is up, after  *)
(* the background job of their mode and the localizer; and nothing is      *)
(* deployed while the early docker build runs.                             *)
THEOREM PhasesAreInOrder == Spec => []PhasesInOrder
<1>1. IInv => PhasesInOrder
  BY DEF IInv, Phases, EarlyBuild, Provisioning, TestsOnReadyDevenv, DeploysAlone, PhasesInOrder
<1> QED
  BY <1>1, Inductive, PTL

(* A success is one of tests that ran on this deployment, with no job of    *)
(* main's unfinished or failed, and against no failure main was told of.    *)
THEOREM ExitIsTruthful == Spec => []ExitTruthful
<1>1. IInv => ExitTruthful
  BY DEF IInv
<1> QED
  BY <1>1, Inductive, PTL

(* The tunnels waited for are those of the server that answered, or else   *)
(* of the one runLocalizer spawned; it returns with no connection open.    *)
THEOREM LocalizerIsDisciplined == Spec => []LocalizerDiscipline
<1>1. IInv => LocalizerDiscipline
  BY DEF IInv, Inside, ConnectionInUse, AnsweredPath, LocalizerDiscipline, L!AnsweringServerIsUsed,
         L!SpawnedServerIsUsed, L!NoConnectionLeft, L!Returned
<1> QED
  BY <1>1, Inductive, PTL

=============================================================================
