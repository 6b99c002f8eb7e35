------------------------------ MODULE Bootstrap ------------------------------
(***************************************************************************)
(* scripts/devbase.sh, the script every repository runs first: read from   *)
(* stencil.lock which devbase the repository wants and make .bootstrap a   *)
(* copy of it, or a link to a local checkout.  A copy is thrown away and   *)
(* made again only when its marker, .bootstrap/.version, does not name the *)
(* version wanted.  The lock file is read with a gojq binary the script    *)
(* downloads into the user's cache.                                        *)
(*                                                                         *)
(* The script runs again and again, for one lock file after another, and   *)
(* each run may be killed at any step; what is on disk stays.              *)
(***************************************************************************)
EXTENDS Naturals, Sequences

CONSTANTS
  Paths,        \* the local checkouts service.yaml may name
  Schedule,     \* the lock files one after another: <<version, path>>
  Local,        \* the version "local"
  None,         \* no marker, or not a legible one
  MaxCrashes    \* a bound: how many runs are killed

Versions == {Schedule[i][1] : i \in DOMAIN Schedule}

ASSUME BootstrapAssumption ==
  /\ Schedule \in Seq((Versions \cup {Local}) \X Paths) /\ Len(Schedule) > 0
  /\ None \notin Versions \cup {Local}
  /\ MaxCrashes \in Nat

VARIABLES
  pc,       \* what the script is about to do
  lock,     \* which lock file the repository has
  archive,  \* the gojq archive in the cache
  loose,    \* the binary beside it, unpacked and not yet moved to its name
  gojq,     \* the gojq binary in the cache
  dir,      \* .bootstrap
  version,  \* the .version of each local checkout
  intact,   \* the checkouts whose service.yaml is still there
  crashes   \* how many runs were killed

vars == <<pc, lock, archive, loose, gojq, dir, version, intact, crashes>>

Want == Schedule[lock][1]
Path == Schedule[lock][2]

Marks == Versions \cup {Local, None}

Dirs == [kind : {"absent", "partial", "clone", "link"}, what : Versions \cup Paths \cup {None},
         marker : Marks, yaml : BOOLEAN]

Absent == [kind |-> "absent", what |-> None, marker |-> None, yaml |-> FALSE]
Link(p) == [Absent EXCEPT !.kind = "link", !.what = p]
CloneOf(v) == [kind |-> "clone", what |-> v, marker |-> None, yaml |-> TRUE]

TypeOK ==
  /\ pc \in {"idle", "gojq", "download", "unpack", "move", "query", "decide", "remove",
             "obtain", "trust", "mark", "strip", "ok", "failed"}
  /\ lock \in DOMAIN Schedule
  /\ archive \in {"none", "broken", "good"}
  /\ loose \in {"none", "broken", "good"}
  /\ gojq \in {"none", "broken", "good"}
  /\ dir \in Dirs
  /\ version \in [Paths -> Marks] /\ intact \subseteq Paths
  /\ crashes \in 0..MaxCrashes

(* A fresh clone of the repository on a machine with an empty cache. *)
Init ==
  /\ pc = "idle"
  /\ lock = 1
  /\ archive = "none" /\ loose = "none" /\ gojq = "none"
  /\ dir = Absent
  /\ version = [p \in Paths |-> None]
  /\ intact = Paths
  /\ crashes = 0

(* existingVersion: a link's marker is the checkout's. *)
Marker == IF dir.kind = "link" THEN version[dir.what] ELSE dir.marker

Go(from, to) == pc = from /\ pc' = to

-----------------------------------------------------------------------------
(* Faulty variants of definitions below, each a plausible slip in           *)
(* devbase.sh; they show that the properties can fail.                      *)

(* The copy's service.yaml is removed whatever the version. *)
StripsYaml_Always == TRUE

(* service.yaml is removed only from a copy just made. *)
AfterDecide_SkipsStrip(stale) == IF stale THEN "remove" ELSE "ok"

(* The marker of a link says where the link leads. *)
Written_Path == IF dir.kind = "link" THEN Path ELSE Want

(* The binary cannot be found, and no download is tried. *)
FindGojq_NoDownload ==
  /\ Go("gojq", IF gojq = "none" /\ archive # "none" THEN "unpack" ELSE "query")
  /\ UNCHANGED <<lock, archive, loose, gojq, dir, version, intact, crashes>>

-----------------------------------------------------------------------------

(* A run starts, after one that ended in whatever way. *)
Begin ==
  /\ pc \in {"idle", "ok", "failed"}
  /\ pc' = "gojq"
  /\ UNCHANGED <<lock, archive, loose, gojq, dir, version, intact, crashes>>

(* Between two runs the repository moves on to its next lock file. *)
NextLock ==
  /\ pc \in {"idle", "ok", "failed"}
  /\ lock < Len(Schedule)
  /\ lock' = lock + 1
  /\ pc' = "idle"
  /\ UNCHANGED <<archive, loose, gojq, dir, version, intact, crashes>>

(* gojq: an executable binary is used, an archive that is there is not     *)
(* downloaded again.                                                       *)
FindGojq ==
  /\ Go("gojq", IF gojq # "none" THEN "query"
                ELSE IF archive # "none" THEN "unpack" ELSE "download")
  /\ UNCHANGED <<lock, archive, loose, gojq, dir, version, intact, crashes>>

Downloaded ==
  /\ Go("download", "unpack")
  /\ archive' = "good"
  /\ UNCHANGED <<lock, loose, gojq, dir, version, intact, crashes>>

(* A download tool that fails may leave the file it was writing. *)
Leftovers == {"none", "broken"}

(* set -e is off inside $(gojq): only the missing file ends the run. *)
DownloadFails ==
  /\ archive' \in Leftovers
  /\ Go("download", IF archive' = "none" THEN "failed" ELSE "unpack")
  /\ UNCHANGED <<lock, loose, gojq, dir, version, intact, crashes>>

(* tar or unzip *)
Unpacked ==
  /\ archive = "good"
  /\ Go("unpack", "move")
  /\ loose' = "good"
  /\ UNCHANGED <<lock, archive, gojq, dir, version, intact, crashes>>

(* On a broken archive, a full disk, or because an earlier run's file is in *)
(* the way of unzip: what is there stays, or a part is written; mv is next  *)
(* all the same.                                                            *)
UnpackFails ==
  /\ Go("unpack", "move")
  /\ loose' \in {loose, "broken"}
  /\ UNCHANGED <<lock, archive, gojq, dir, version, intact, crashes>>

(* mv within the cache is a rename, of whatever is there. *)
Move ==
  /\ loose # "none"
  /\ Go("move", "query")
  /\ gojq' = loose /\ loose' = "none"
  /\ UNCHANGED <<lock, archive, dir, version, intact, crashes>>

MoveFails ==
  /\ Go("move", "query")
  /\ UNCHANGED <<lock, archive, loose, gojq, dir, version, intact, crashes>>

(* get_field_from_yaml: the version wanted, or the end of the run. *)
Query ==
  /\ Go("query", IF gojq = "good" THEN "decide" ELSE "failed")
  /\ UNCHANGED <<lock, archive, loose, gojq, dir, version, intact, crashes>>

Stale == dir.kind = "absent" \/ Marker # Want

AfterDecide(stale) == IF stale THEN "remove" ELSE "strip"

Decide ==
  /\ Go("decide", AfterDecide(Stale))
  /\ UNCHANGED <<lock, archive, loose, gojq, dir, version, intact, crashes>>

(* rm -rf: of a link, only the link. *)
RemoveAll ==
  /\ Go("remove", "obtain")
  /\ dir' = Absent
  /\ UNCHANGED <<lock, archive, loose, gojq, version, intact, crashes>>

(* git clone, or realpath and ln; git removes what a clone that fails left. *)
Obtain ==
  /\ pc = "obtain"
  /\ \/ Want = Local /\ dir' = Link(Path) /\ pc' = "mark"
     \/ Want # Local /\ dir' = CloneOf(Want) /\ pc' = "trust"
  /\ UNCHANGED <<lock, archive, loose, gojq, version, intact, crashes>>

ObtainFails ==
  /\ Go("obtain", "failed")
  /\ UNCHANGED <<lock, archive, loose, gojq, dir, version, intact, crashes>>

(* mise trust, where mise is installed. *)
Trust ==
  /\ Go("trust", "mark")
  /\ UNCHANGED <<lock, archive, loose, gojq, dir, version, intact, crashes>>

TrustFails ==
  /\ Go("trust", "failed")
  /\ UNCHANGED <<lock, archive, loose, gojq, dir, version, intact, crashes>>

Written == Want

(* .version, written through a link into the checkout. *)
Mark ==
  /\ Go("mark", "strip")
  /\ IF dir.kind = "link"
       THEN version' = [version EXCEPT ![dir.what] = Written] /\ dir' = dir
       ELSE version' = version /\ dir' = [dir EXCEPT !.marker = Written]
  /\ UNCHANGED <<lock, archive, loose, gojq, intact, crashes>>

StripsYaml == Want # Local

(* rm service.yaml, through a link from the checkout itself. *)
Strip ==
  /\ Go("strip", "ok")
  /\ dir' = IF StripsYaml THEN [dir EXCEPT !.yaml = FALSE] ELSE dir
  /\ intact' = IF StripsYaml /\ dir.kind = "link" THEN intact \ {dir.what} ELSE intact
  /\ UNCHANGED <<lock, archive, loose, gojq, version, crashes>>

-----------------------------------------------------------------------------
(* A run is killed: what the step under way leaves behind. *)

Killed ==
  /\ crashes < MaxCrashes
  /\ crashes' = crashes + 1
  /\ pc' = "idle"

KillDownload ==
  /\ pc = "download" /\ Killed
  /\ archive' \in Leftovers
  /\ UNCHANGED <<lock, loose, gojq, dir, version, intact>>

(* rm -rf got some of the files; the marker may be among those left. *)
KillRemoval ==
  /\ pc = "remove" /\ Killed
  /\ dir.kind \in {"partial", "clone"}
  /\ \E m \in {dir.marker, None}, y \in {dir.yaml, FALSE} :
       dir' = [dir EXCEPT !.kind = "partial", !.marker = m, !.yaml = y]
  /\ UNCHANGED <<lock, archive, loose, gojq, version, intact>>

KillClone ==
  /\ pc = "obtain" /\ Killed
  /\ Want # Local
  /\ \E y \in BOOLEAN : dir' = [CloneOf(Want) EXCEPT !.kind = "partial", !.yaml = y]
  /\ UNCHANGED <<lock, archive, loose, gojq, version, intact>>

(* A part of the binary; the file of an earlier run is gone by then. *)
KillUnpack ==
  /\ pc = "unpack" /\ Killed
  /\ loose' = "broken"
  /\ UNCHANGED <<lock, archive, gojq, dir, version, intact>>

(* The file is emptied before it is written: an empty .version is as good  *)
(* as none, and a link's is the checkout's.                                *)
KillMark ==
  /\ pc = "mark" /\ Killed
  /\ IF dir.kind = "link"
       THEN version' = [version EXCEPT ![dir.what] = None] /\ dir' = dir
       ELSE version' = version /\ dir' = [dir EXCEPT !.marker = None]
  /\ UNCHANGED <<lock, archive, loose, gojq, intact>>

KillBetween ==
  /\ pc \notin {"idle", "ok", "failed"} /\ Killed
  /\ UNCHANGED <<lock, archive, loose, gojq, dir, version, intact>>

Kill == KillDownload \/ KillUnpack \/ KillRemoval \/ KillClone \/ KillMark \/ KillBetween

Run ==
  \/ Begin \/ FindGojq \/ Downloaded \/ DownloadFails \/ Unpacked \/ UnpackFails
  \/ Move \/ MoveFails \/ Query \/ Decide
  \/ RemoveAll \/ Obtain \/ ObtainFails \/ Trust \/ TrustFails \/ Mark \/ Strip

Next == Run \/ NextLock \/ Kill

(* The script is run again and again, and neither the network nor the disk *)
(* fails for good.                                                         *)
Fairness ==
  /\ WF_vars(Run)
  /\ SF_vars(Downloaded) /\ SF_vars(Unpacked) /\ SF_vars(Move)
  /\ SF_vars(Obtain) /\ SF_vars(Trust)

Spec     == Init /\ [][Next]_vars
FairSpec == Spec /\ Fairness

-----------------------------------------------------------------------------

(* "This script ensures we have a copy of devbase": a run that succeeds    *)
(* leaves a whole copy of the version wanted, or a link to the checkout    *)
(* service.yaml names, and a copy has no service.yaml of its own,          *)
(* whichever runs were killed before it.                                   *)
CopyIsWanted ==
  pc = "ok" => IF Want = Local THEN dir.kind = "link" /\ dir.what = Path
               ELSE dir.kind = "clone" /\ dir.what = Want /\ ~dir.yaml

(* A local checkout is the developer's: no run takes its service.yaml, and  *)
(* what is written through the link is the marker "local", in checkouts a   *)
(* lock file so far has named.  A release's name there would make the       *)
(* checkout's own scripts use that release's tools (shell/lib/devbase.sh).  *)
CheckoutsIntact ==
  /\ intact = Paths
  /\ \A p \in Paths :
       version[p] # None =>
         version[p] = Local /\ \E i \in DOMAIN Schedule : i <= lock /\ Schedule[i] = <<Local, p>>

(* The cache holds a binary that is no binary, or an archive that is none. *)
CacheBroken == gojq = "broken" \/ (gojq = "none" /\ archive = "broken")

(* Run often enough, the script succeeds, whatever failed or was killed.   *)
SucceedsAgain == []<>(pc = "ok")

(* Nothing but gojq's cache keeps it from that: whatever a run that failed *)
(* or was killed left of .bootstrap, of a checkout's marker or beside the  *)
(* binary in the cache, a later run succeeds.                              *)
RecoversFromKills == []~CacheBroken => SucceedsAgain

==============================================================================
