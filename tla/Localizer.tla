------------------------------ MODULE Localizer ------------------------------
(***************************************************************************)
(* runLocalizer and ensureRunningLocalizerWorks (e2e/localizer.go): reuse a *)
(* localizer server that answers on its socket, or spawn `devenv tunnel`   *)
(* and wait for one; then wait for its tunnels and hand the caller a       *)
(* cleanup function that kills the server after the tests.                 *)
(*                                                                         *)
(* Servers and their socket live outside the runner.  There are two: the    *)
(* one an earlier run or the user left, and the one runLocalizer spawns.    *)
(* The socket's path is all localizer.IsRunning() looks at; the socket      *)
(* outlives a server that stops, and a server outlives its socket.          *)
(***************************************************************************)
EXTENDS Naturals

CONSTANTS
  MayStop,      \* whether the server may stop by itself
  MaySudoFail   \* whether `sudo rm` may fail by itself

VARIABLES
  lpc,      \* where runLocalizer, or its caller, is
  socket,   \* the server whose socket exists, or existed when it stopped
  servers,  \* what each server is doing
  stable,   \* the servers that have created their tunnels
  peer,     \* the server runLocalizer connected to for its tunnels
  conn,     \* the gRPC connection
  ten,      \* the ten-second deadline of the ping has passed
  minute,   \* the one-minute deadline of the wait has passed
  five      \* the five-minute deadline of the tunnels has passed

VARIABLE
  ponged    \* observer: the server found at the socket answered its ping

clocks == <<ten, minute, five>>
world  == <<socket, servers, stable>>
lvars  == <<lpc, socket, servers, stable, peer, conn, ten, minute, five, ponged>>

Servers  == {"found", "spawned"}
Returned == {"ready", "failed", "fatal"}

LTypeOK ==
  /\ lpc \in {"idle", "pinging", "asking", "removing", "recheck", "spawning",
              "waiting", "connecting", "polling", "sleeping", "cleaned"} \cup Returned
  /\ socket \in Servers \cup {"none"} /\ peer \in Servers \cup {"none"}
  /\ servers \in [Servers -> {"none", "starting", "alive"}]
  /\ stable \in SUBSET Servers
  /\ ten \in BOOLEAN /\ minute \in BOOLEAN /\ five \in BOOLEAN /\ ponged \in BOOLEAN
  /\ conn \in {"none", "open", "closed"}

(* Before the call there is a server or none, and a socket of its or none:  *)
(* also the socket of a server gone, and a server an earlier run took the   *)
(* socket from.                                                             *)
LInit ==
  /\ lpc = "idle"
  /\ socket \in {"none", "found"}
  /\ servers \in [Servers -> {"none", "alive"}] /\ servers["spawned"] = "none"
  /\ stable \in SUBSET {"found"}
  /\ peer = "none" /\ conn = "none"
  /\ ten = FALSE
  /\ minute = FALSE
  /\ five = FALSE
  /\ ponged = FALSE

(* There is a server behind the socket's path, and it takes connections. *)
Listening == socket \in Servers /\ servers[socket] = "alive"

Go(from, to) == lpc = from /\ lpc' = to

-----------------------------------------------------------------------------
(* Faulty variants of definitions below, each a plausible slip in           *)
(* localizer.go; they show that the properties can fail.                    *)

(* The ping's error is looked for in the variable it shadows: an answer is  *)
(* taken for none, and the socket of a server in use is removed.            *)
PingAnswered_Shadowed ==
  /\ Listening /\ ~ten
  /\ Go("asking", "removing")
  /\ ponged' = TRUE
  /\ UNCHANGED <<world, peer, conn, clocks>>

(* The tunnels are waited for without a deadline. *)
FiveMinutes_Never == FALSE /\ UNCHANGED lvars

-----------------------------------------------------------------------------

(* localizer.IsRunning() the first time. *)
Begin ==
  /\ Go("idle", IF socket # "none" THEN "pinging" ELSE "recheck")
  /\ UNCHANGED <<world, peer, conn, clocks, ponged>>

(* ensureRunningLocalizerWorks: Connect, and block until connected. *)
PingConnects ==
  /\ Listening /\ ~ten
  /\ Go("pinging", "asking")
  /\ conn' = "open"
  /\ UNCHANGED <<world, peer, clocks, ponged>>

(* A blocking Connect retries until its deadline, whatever the reason. *)
PingConnectFails ==
  /\ ten
  /\ Go("pinging", "removing")
  /\ UNCHANGED <<world, peer, conn, clocks, ponged>>

PingAnswered ==
  /\ Listening /\ ~ten
  /\ Go("asking", "recheck")
  /\ conn' = "closed"
  /\ ponged' = TRUE
  /\ UNCHANGED <<world, peer, clocks>>

(* An error for an answer, at once or at the deadline. *)
PingFails ==
  /\ Go("asking", "removing")
  /\ UNCHANGED <<world, peer, conn, clocks, ponged>>

CloseIfOpen == conn' = IF conn = "open" THEN "closed" ELSE conn

(* sudo rm -f: a server that was only slow keeps running without a socket. *)
RemoveSocket ==
  /\ ~ten
  /\ Go("removing", "recheck")
  /\ socket' = "none"
  /\ CloseIfOpen
  /\ UNCHANGED <<servers, stable, peer, clocks, ponged>>

(* The command runs under the ping's context: os/exec starts nothing once  *)
(* that context's deadline has passed.                                     *)
RemoveFails ==
  /\ ten \/ MaySudoFail
  /\ Go("removing", "failed")
  /\ CloseIfOpen
  /\ UNCHANGED <<world, peer, clocks, ponged>>

(* localizer.IsRunning() the second time. *)
Recheck ==
  /\ Go("recheck", IF socket # "none" THEN "connecting" ELSE "spawning")
  /\ UNCHANGED <<world, peer, conn, clocks, ponged>>

(* sudo true, then `devenv tunnel` in the background. *)
Spawn ==
  /\ Go("spawning", "waiting")
  /\ servers' = [servers EXCEPT !["spawned"] = "starting"]
  /\ UNCHANGED <<socket, stable, peer, conn, clocks, ponged>>

SpawnFails ==
  /\ Go("spawning", "fatal")
  /\ UNCHANGED <<world, peer, conn, clocks, ponged>>

(* The loop ends with the socket there, or with the minute over: both ways *)
(* lead to Connect.                                                        *)
EndWait ==
  /\ socket # "none" \/ minute
  /\ Go("waiting", "connecting")
  /\ UNCHANGED <<world, peer, conn, clocks, ponged>>

(* grpc.WithBlock() under the caller's context, which has no deadline. *)
Connect ==
  /\ Listening
  /\ Go("connecting", "polling")
  /\ conn' = "open" /\ peer' = socket
  /\ UNCHANGED <<world, clocks, ponged>>

CloseOnReturn == conn' = "closed"  \* defer closer()

PeerAnswers == peer \in Servers /\ servers[peer] = "alive" /\ ~five

PollStable ==
  /\ PeerAnswers /\ peer \in stable
  /\ Go("polling", "ready")
  /\ CloseOnReturn
  /\ UNCHANGED <<world, peer, clocks, ponged>>

PollUnstable ==
  /\ PeerAnswers /\ peer \notin stable
  /\ Go("polling", "sleeping")
  /\ UNCHANGED <<world, peer, conn, clocks, ponged>>

(* The call fails: the server is gone, or the deadline passes during it. *)
PollFails ==
  /\ ~PeerAnswers
  /\ Go("polling", "failed")
  /\ CloseOnReturn
  /\ UNCHANGED <<world, peer, clocks, ponged>>

PollAgain ==
  /\ ~five
  /\ Go("sleeping", "polling")
  /\ UNCHANGED <<world, peer, conn, clocks, ponged>>

(* The deadline passes during async.Sleep: the loop ends, without an error. *)
GiveUp ==
  /\ five
  /\ Go("sleeping", "ready")
  /\ CloseOnReturn
  /\ UNCHANGED <<world, peer, clocks, ponged>>

RunLocalizer ==
  \/ Begin \/ PingConnects \/ PingConnectFails \/ PingAnswered \/ PingFails
  \/ RemoveSocket \/ RemoveFails
  \/ Recheck \/ Spawn \/ SpawnFails \/ EndWait \/ Connect
  \/ PollStable \/ PollUnstable \/ PollFails \/ PollAgain \/ GiveUp

(* The cleanup function: client.Kill over the connection runLocalizer made. *)
Cleanup ==
  /\ Go("ready", "cleaned")
  /\ IF conn = "open" /\ peer \in Servers /\ servers[peer] = "alive"
       THEN /\ servers' = [servers EXCEPT ![peer] = "none"]
            /\ socket' = IF socket = peer THEN "none" ELSE socket
       ELSE UNCHANGED <<servers, socket>>
  /\ UNCHANGED <<stable, peer, conn, clocks, ponged>>

(* The spawned server is up and listens. *)
ServerUp ==
  /\ servers["spawned"] = "starting"
  /\ servers' = [servers EXCEPT !["spawned"] = "alive"]
  /\ socket' = "spawned"
  /\ UNCHANGED <<lpc, stable, peer, conn, clocks, ponged>>

TunnelsUp ==
  /\ \E s \in Servers \ stable : servers[s] = "alive" /\ stable' = stable \cup {s}
  /\ UNCHANGED <<lpc, socket, servers, peer, conn, clocks, ponged>>

(* A server stops without removing its socket. *)
ServerStops ==
  /\ MayStop
  /\ \E s \in Servers : servers[s] # "none" /\ servers' = [servers EXCEPT ![s] = "none"]
  /\ UNCHANGED <<lpc, socket, stable, peer, conn, clocks, ponged>>

TenSeconds ==
  /\ lpc \in {"pinging", "asking", "removing"} /\ ~ten
  /\ ten' = TRUE
  /\ UNCHANGED <<lpc, world, peer, conn, minute, five, ponged>>

OneMinute ==
  /\ lpc = "waiting" /\ ~minute
  /\ minute' = TRUE
  /\ UNCHANGED <<lpc, world, peer, conn, ten, five, ponged>>

FiveMinutes ==
  /\ lpc \in {"polling", "sleeping"} /\ ~five
  /\ five' = TRUE
  /\ UNCHANGED <<lpc, world, peer, conn, ten, minute, ponged>>

Time == TenSeconds \/ OneMinute \/ FiveMinutes

Environment == ServerUp \/ TunnelsUp \/ ServerStops \/ Time

LFinished == lpc \in {"failed", "fatal", "cleaned"} /\ UNCHANGED lvars

LNext == RunLocalizer \/ Cleanup \/ Environment \/ LFinished

(* The runner is scheduled and time passes; nothing is promised about the  *)
(* server.                                                                 *)
RunnerFairness == WF_lvars(RunLocalizer) /\ WF_lvars(Cleanup) /\ WF_lvars(Time)

LSpec      == LInit /\ [][LNext]_lvars
RunnerSpec == LSpec /\ RunnerFairness

-----------------------------------------------------------------------------

(* "if it is ensure it's working properly": a server that answered its    *)
(* ping keeps its socket, no other is started beside it, and it is the one *)
(* whose tunnels are waited for, even if it stops in between.              *)
AnsweringServerIsUsed ==
  ponged /\ lpc # "cleaned" =>
    socket = "found" /\ servers["spawned"] = "none" /\ peer # "spawned"

(* What runLocalizer spawned is what it then waits for: the server whose   *)
(* socket it removed, which may still run, never answers in its place.     *)
SpawnedServerIsUsed ==
  servers["spawned"] # "none" => socket # "found" /\ peer # "found"

(* However runLocalizer returns, it leaves no connection open. *)
NoConnectionLeft == lpc \in Returned \cup {"cleaned"} => conn # "open"

(* The call waits for good: nobody is there to answer a blocking Connect.  *)
Blocked == lpc = "connecting" /\ ~Listening

(* "Waiting for devenv tunnel to be finished creating tunnels": the call   *)
(* succeeds with the tunnels there.                                        *)
ReadyMeansStable == lpc = "ready" => peer \in stable

(* "Wait until localizer is running, max 1m": the wait for a spawned       *)
(* tunnel ends.                                                            *)
WaitIsBounded == (lpc = "waiting") ~> (lpc \in Returned \cup {"polling"})

(* "Killing the spawned localizer process": after the cleanup, the server  *)
(* whose tunnels the tests used is not left running.                       *)
CleanupKills == lpc = "cleaned" => servers[peer] # "alive"

(* "not responding to pings, or failed to connect, remove the socket": a   *)
(* socket nobody listens on does not survive the check.                    *)
DeadSocketGoes == lpc = "failed" /\ peer = "none" => socket = "none" \/ Listening

==============================================================================
