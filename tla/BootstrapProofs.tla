---------------------------- MODULE BootstrapProofs ----------------------------
(***************************************************************************)
(* What a successful run of scripts/devbase.sh leaves, for every sequence  *)
(* of lock files and any number of killed runs.  A run trusts the marker   *)
(* it finds, so the invariant says what the marker of every directory some *)
(* earlier run left can be, and that it is never one a later lock file     *)
(* wants unless the copy is whole.                                         *)
(***************************************************************************)
EXTENDS Bootstrap, Integers, TLAPS

(* No release comes back once the repository has left it, and there is one *)
(* local checkout.  Neither holds of every repository: see CopyIsWanted's  *)
(* theorem for where they are needed.                                      *)
OneWay ==
  \A i, j \in DOMAIN Schedule :
    Schedule[i][1] = Schedule[j][1] =>
      i = j \/ (Schedule[i][1] = Local /\ Schedule[i][2] = Schedule[j][2])

(* Some lock file up to number n wants release v. *)
Wanted(v, n) == v # Local /\ \E i \in DOMAIN Schedule : i <= n /\ Schedule[i][1] = v

(* A copy has its own marker or none yet. *)
CloneMarked == dir.kind = "clone" => dir.what # Local /\ dir.marker \in {None, dir.what}

(* A copy comes of a lock file the repository has had.                     *)
CloneWanted == dir.kind = "clone" => Wanted(dir.what, lock)

(* What is left of a copy that was being removed bears a marker the        *)
(* repository has moved on from; of a copy that was being made, none.      *)
PartialIsPast == dir.kind = "partial" => dir.marker = None \/ Wanted(dir.marker, lock - 1)

(* A link has no marker of its own and leads to the one checkout.          *)
LinkLeads ==
  dir.kind = "link" =>
    /\ dir.marker = None /\ dir.what \in Paths
    /\ \E i \in DOMAIN Schedule : i <= lock /\ Schedule[i] = <<Local, dir.what>>

NothingMarked == dir.kind = "absent" => dir.marker = None

(* What the steps of a run have established for those that follow. *)
Underway ==
  /\ pc = "remove" => Stale
  /\ pc = "obtain" => dir = Absent
  /\ pc = "trust" => Want # Local /\ dir = CloneOf(Want)
  /\ pc = "mark" => IF Want = Local THEN dir = Link(Path) ELSE dir = CloneOf(Want)
  /\ pc = "strip" => ~Stale

Markers == CloneMarked /\ CloneWanted /\ PartialIsPast /\ LinkLeads /\ NothingMarked

IInv == TypeOK /\ Markers /\ Underway /\ CheckoutsIntact

-----------------------------------------------------------------------------

LEMMA LockFacts ==
  ASSUME NEW i \in DOMAIN Schedule
  PROVE  /\ i \in Nat /\ 1 <= i /\ i <= Len(Schedule)
         /\ Schedule[i] = <<Schedule[i][1], Schedule[i][2]>>
         /\ Schedule[i][1] \in Versions /\ Schedule[i][1] # None /\ Schedule[i][2] \in Paths
<1>1. Schedule \in Seq((Versions \cup {Local}) \X Paths) /\ None \notin Versions \cup {Local}
  BY BootstrapAssumption
<1>2. Schedule[i] \in (Versions \cup {Local}) \X Paths
  BY <1>1
<1>3. Schedule[i][1] \in Versions
  BY DEF Versions
<1> QED
  BY <1>1, <1>2, <1>3

LEMMA InitHolds == Init => IInv
<1>1. 1 \in DOMAIN Schedule
  BY BootstrapAssumption
<1> QED
  BY <1>1, BootstrapAssumption
     DEF Init, IInv, TypeOK, Markers, CloneMarked, CloneWanted, PartialIsPast, LinkLeads,
         NothingMarked, Underway, CheckoutsIntact, Absent, Dirs, Marks, Wanted

(* What Wanted says survives every step: lock only grows. *)
LEMMA WantedGrows ==
  ASSUME NEW v, NEW m \in Int, NEW n \in Int, m <= n, Wanted(v, m)
  PROVE  Wanted(v, n)
<1>1. \A i \in DOMAIN Schedule : i \in Nat
  BY LockFacts
<1> QED
  BY <1>1 DEF Wanted

(* So does what the links led to. *)
LEMMA LinksGrow ==
  ASSUME NEW p, NEW m \in Int, NEW n \in Int, m <= n,
         \E i \in DOMAIN Schedule : i <= m /\ Schedule[i] = <<Local, p>>
  PROVE  \E i \in DOMAIN Schedule : i <= n /\ Schedule[i] = <<Local, p>>
<1>1. \A i \in DOMAIN Schedule : i \in Nat
  BY LockFacts
<1> QED
  BY <1>1

(* The steps that leave .bootstrap and what is known of it alone. *)
LEMMA DirectoryUntouched ==
  ASSUME IInv, UNCHANGED <<dir, version, intact>>, lock' \in DOMAIN Schedule, lock <= lock'
  PROVE  Markers' /\ CheckoutsIntact'
<1>1. lock \in Int /\ lock' \in Int /\ lock - 1 \in Int /\ lock' - 1 \in Int /\ lock - 1 <= lock' - 1
  BY LockFacts DEF IInv, TypeOK
<1>2. CloneWanted'
  BY <1>1, WantedGrows DEF IInv, Markers, CloneWanted
<1>3. PartialIsPast'
  BY <1>1, WantedGrows DEF IInv, Markers, PartialIsPast
<1>4. LinkLeads'
  BY <1>1, LinksGrow DEF IInv, Markers, LinkLeads
<1>5. CheckoutsIntact'
  BY <1>1, LinksGrow DEF IInv, CheckoutsIntact
<1> QED
  BY <1>2, <1>3, <1>4, <1>5 DEF IInv, Markers, CloneMarked, NothingMarked

LEMMA WantFacts ==
  ASSUME IInv
  PROVE  /\ lock \in DOMAIN Schedule /\ lock \in Nat
         /\ Want \in Versions /\ Want # None /\ Path \in Paths /\ Schedule[lock] = <<Want, Path>>
         /\ Want # Local => Wanted(Want, lock)
<1>1. lock \in DOMAIN Schedule
  BY DEF IInv, TypeOK
<1>2. lock \in Nat /\ Want \in Versions /\ Want # None /\ Path \in Paths /\ Schedule[lock] = <<Want, Path>>
  BY <1>1, LockFacts DEF Want, Path
<1> QED
  BY <1>1, <1>2 DEF Wanted, Want

(* The steps that only read .bootstrap. *)
LEMMA QuietSteps ==
  ASSUME IInv,
         \/ Begin \/ NextLock \/ FindGojq \/ Downloaded \/ DownloadFails \/ Unpacked
         \/ UnpackFails \/ Move \/ MoveFails \/ Query \/ Decide \/ ObtainFails \/ Trust \/ TrustFails
         \/ KillDownload \/ KillUnpack \/ KillBetween
  PROVE  IInv'
<1>1. UNCHANGED <<dir, version, intact>>
  BY DEF Begin, NextLock, FindGojq, Downloaded, DownloadFails, Unpacked, UnpackFails, Move,
         MoveFails, Query, Decide,
         ObtainFails, Trust, TrustFails, KillDownload, KillUnpack, KillBetween
<1>2. lock' \in DOMAIN Schedule /\ lock <= lock'
  <2>1. lock \in Nat /\ lock \in DOMAIN Schedule
    BY WantFacts
  <2>2. CASE NextLock
    BY <2>1, <2>2, BootstrapAssumption DEF NextLock
  <2>3. CASE ~NextLock
    BY <2>1, <2>3 DEF Begin, FindGojq, Downloaded, DownloadFails, Unpacked, UnpackFails, Move,
           MoveFails, Query, Decide,
         ObtainFails, Trust, TrustFails, KillDownload, KillUnpack, KillBetween
  <2> QED
    BY <2>2, <2>3
<1>3. Markers' /\ CheckoutsIntact'
  BY <1>1, <1>2, DirectoryUntouched
<1>4. TypeOK'
  BY <1>1, <1>2, BootstrapAssumption
     DEF IInv, TypeOK, Begin, NextLock, FindGojq, Downloaded, DownloadFails, Unpacked, UnpackFails,
         Move, MoveFails, Query, Decide, AfterDecide, ObtainFails, Trust, TrustFails, KillDownload,
         KillUnpack, KillBetween, Killed, Go, Leftovers
<1>5. Underway'
  BY <1>1 DEF IInv, Underway, Want, Path, Stale, Marker, Begin, NextLock, FindGojq, Downloaded,
         DownloadFails, Unpacked, UnpackFails, Move, MoveFails, Query, Decide, AfterDecide,
         ObtainFails, Trust, TrustFails,
         KillDownload, KillUnpack, KillBetween, Killed, Go
<1> QED
  BY <1>3, <1>4, <1>5 DEF IInv

(* The steps that change .bootstrap. *)
LEMMA RemoveAllStays == ASSUME IInv, RemoveAll PROVE IInv'
<1>1. /\ dir' = Absent /\ pc' = "obtain"
      /\ UNCHANGED <<lock, archive, loose, gojq, version, intact, crashes>>
  BY DEF RemoveAll, Go
<1> QED
  BY <1>1 DEF IInv, TypeOK, Markers, CloneMarked, CloneWanted, PartialIsPast, LinkLeads,
       NothingMarked, Underway, CheckoutsIntact, Absent, Dirs, Marks

LEMMA ObtainStays == ASSUME IInv, Obtain PROVE IInv'
<1>1. UNCHANGED <<lock, archive, loose, gojq, version, intact, crashes>> /\ Want' = Want /\ Path' = Path
  BY DEF Obtain, Want, Path
<1>2. CASE Want = Local /\ dir' = Link(Path) /\ pc' = "mark"
  <2>1. /\ dir' \in Dirs /\ dir'.kind = "link" /\ dir'.what = Path /\ dir'.marker = None
    BY <1>2, WantFacts DEF Link, Absent, Dirs, Marks
  <2>2. LinkLeads'
    BY <1>1, <1>2, <2>1, WantFacts DEF LinkLeads
  <2>3. CheckoutsIntact'
    BY <1>1 DEF IInv, CheckoutsIntact
  <2> QED
    BY <1>1, <1>2, <2>1, <2>2, <2>3
       DEF IInv, TypeOK, Markers, CloneMarked, CloneWanted, PartialIsPast, NothingMarked, Underway
<1>3. CASE Want # Local /\ dir' = CloneOf(Want) /\ pc' = "trust"
  <2>1. Wanted(Want, lock)'
    BY <1>1, <1>3, WantFacts DEF Wanted
  <2> QED
    BY <1>1, <1>3, <2>1, WantFacts
       DEF IInv, TypeOK, Markers, CloneMarked, CloneWanted, PartialIsPast, LinkLeads,
           NothingMarked, Underway, CheckoutsIntact, CloneOf, Dirs, Marks
<1> QED
  BY <1>2, <1>3 DEF Obtain

(* The marker is written into the checkout this lock file names. *)
LEMMA VersionWritten ==
  ASSUME IInv, dir.kind = "link", dir = Link(Path), Want = Local,
         NEW m \in {None, Local}, version' = [version EXCEPT ![dir.what] = m],
         UNCHANGED <<lock, intact>>
  PROVE  version' \in [Paths -> Marks] /\ CheckoutsIntact'
<1>1. dir.what = Path /\ Path \in Paths /\ version \in [Paths -> Marks] /\ lock \in Nat
  BY WantFacts DEF Link, Absent, IInv, TypeOK
<1>2. version' \in [Paths -> Marks]
  BY <1>1 DEF Marks
<1>3. \A p \in Paths : p # Path => version'[p] = version[p]
  BY <1>1
<1>4. version'[Path] \in {None, Local}
  BY <1>1
<1>5. lock \in DOMAIN Schedule /\ lock <= lock /\ Schedule[lock] = <<Local, Path>>
  BY <1>1, WantFacts
<1> QED
  BY <1>2, <1>3, <1>4, <1>5 DEF IInv, CheckoutsIntact

LEMMA MarkStays == ASSUME IInv, Mark PROVE IInv'
<1>1. /\ UNCHANGED <<lock, archive, loose, gojq, intact, crashes>>
      /\ Want' = Want /\ pc = "mark" /\ pc' = "strip"
  BY DEF Mark, Go, Want
<1>2. CASE Want = Local
  <2>1. /\ dir = Link(Path) /\ dir' = dir /\ dir.kind = "link" /\ dir.what = Path
        /\ version' = [version EXCEPT ![dir.what] = Local]
    BY <1>1, <1>2 DEF IInv, Underway, Mark, Written, Link, Absent
  <2>2. version' \in [Paths -> Marks] /\ CheckoutsIntact'
    BY <1>1, <1>2, <2>1, VersionWritten
  <2>3. version'[Path] = Local
    BY <2>1, WantFacts DEF IInv, TypeOK
  <2>4. ~Stale'
    BY <1>1, <1>2, <2>1, <2>3 DEF Stale, Marker
  <2> QED
    BY <1>1, <2>1, <2>2, <2>4, WantFacts
       DEF IInv, TypeOK, Markers, CloneMarked, CloneWanted, PartialIsPast, LinkLeads,
           NothingMarked, Underway, Wanted
<1>3. CASE Want # Local
  <2>1. /\ dir.kind = "clone" /\ dir.what = Want /\ version' = version
        /\ dir' = [dir EXCEPT !.marker = Want]
    BY <1>1, <1>3 DEF IInv, Underway, Mark, Written, CloneOf
  <2>2. /\ dir' \in Dirs /\ dir'.kind = "clone" /\ dir'.what = Want /\ dir'.marker = Want
    BY <2>1, WantFacts DEF IInv, TypeOK, Dirs, Marks
  <2>3. ~Stale'
    BY <1>1, <2>2 DEF Stale, Marker
  <2>4. Wanted(Want, lock)'
    BY <1>1, <1>3, WantFacts DEF Wanted
  <2> QED
    BY <1>1, <1>3, <2>1, <2>2, <2>3, <2>4, WantFacts
       DEF IInv, TypeOK, Markers, CloneMarked, CloneWanted, PartialIsPast, LinkLeads,
           NothingMarked, Underway, CheckoutsIntact
<1> QED
  BY <1>2, <1>3

(* A link is never a copy of a release: its marker says "local" or nothing. *)
LEMMA FreshLinkIsLocal ==
  ASSUME IInv, ~Stale, dir.kind = "link"
  PROVE  Want = Local
<1>1. dir.what \in Paths /\ version[dir.what] = Want
  BY DEF Stale, Marker, IInv, Markers, LinkLeads
<1>2. Want # None
  BY WantFacts
<1> QED
  BY <1>1, <1>2 DEF IInv, CheckoutsIntact

(* The copy as before, but for its service.yaml. *)
SameCopy == dir' \in Dirs /\ dir'.kind = dir.kind /\ dir'.what = dir.what /\ dir'.marker = dir.marker

LEMMA StripKeepsCopy == ASSUME IInv, Strip PROVE SameCopy /\ intact' = intact /\ ~Stale
<1>1. ~Stale
  BY DEF IInv, Underway, Strip, Go
<1>2. intact' = intact
  BY <1>1, FreshLinkIsLocal DEF Strip, StripsYaml
<1>3. dir \in Dirs
  BY DEF IInv, TypeOK
<1>4. ASSUME StripsYaml PROVE SameCopy
  BY <1>3, <1>4 DEF Strip, Dirs, SameCopy
<1>5. ASSUME ~StripsYaml PROVE SameCopy
  BY <1>3, <1>5 DEF Strip, SameCopy
<1> QED
  BY <1>1, <1>2, <1>4, <1>5

LEMMA StripStays == ASSUME IInv, Strip PROVE IInv'
<1>1. SameCopy /\ UNCHANGED <<lock, archive, loose, gojq, version, intact, crashes>> /\ pc' = "ok"
  BY StripKeepsCopy DEF Strip, Go
<1>2. UNCHANGED lock /\ \A v : Wanted(v, lock) => Wanted(v, lock)'
  BY <1>1 DEF Wanted
<1>3. Markers'
  BY <1>1, <1>2 DEF SameCopy, IInv, Markers, CloneMarked, CloneWanted, PartialIsPast, LinkLeads,
       NothingMarked, Wanted
<1> QED
  BY <1>1, <1>3 DEF SameCopy, IInv, TypeOK, Underway, CheckoutsIntact

(* The marker that outlives a removal is of a lock file that is past. *)
LEMMA KillRemovalStays == ASSUME IInv, KillRemoval PROVE IInv'
<1>1. /\ UNCHANGED <<lock, archive, loose, gojq, version, intact>>
      /\ pc' = "idle" /\ crashes' = crashes + 1
      /\ crashes < MaxCrashes /\ Stale /\ dir.kind \in {"partial", "clone"} /\ dir \in Dirs
  BY DEF KillRemoval, Killed, IInv, Underway, TypeOK
<1>2. PICK m \in {dir.marker, None}, y \in {dir.yaml, FALSE} :
        dir' = [dir EXCEPT !.kind = "partial", !.marker = m, !.yaml = y]
  BY DEF KillRemoval
<1>3. dir' \in Dirs /\ dir'.kind = "partial" /\ dir'.marker = m
  BY <1>1, <1>2 DEF Dirs, Marks
<1>4. m = None \/ Wanted(m, lock - 1)
  <2>1. CASE m = dir.marker /\ m # None /\ dir.kind = "clone"
    <3>1. m # Want
      BY <1>1, <2>1 DEF Stale, Marker
    <3>2. Wanted(m, lock)
      BY <2>1 DEF IInv, Markers, CloneMarked, CloneWanted
    <3>3. PICK i \in DOMAIN Schedule : i <= lock /\ Schedule[i][1] = m
      BY <3>2 DEF Wanted
    <3>4. i # lock /\ i \in Nat /\ lock \in Nat
      BY <3>1, <3>3, LockFacts, WantFacts DEF Want
    <3> QED
      BY <3>2, <3>3, <3>4 DEF Wanted
  <2>2. CASE m = dir.marker /\ m # None /\ dir.kind = "partial"
    BY <2>2 DEF IInv, Markers, PartialIsPast
  <2> QED
    BY <1>1, <2>1, <2>2
<1>5. PartialIsPast'
  BY <1>1, <1>3, <1>4 DEF PartialIsPast, Wanted
<1>6. crashes' \in 0..MaxCrashes
  BY <1>1, BootstrapAssumption DEF IInv, TypeOK
<1> QED
  BY <1>1, <1>3, <1>5, <1>6
     DEF IInv, TypeOK, Markers, CloneMarked, CloneWanted, LinkLeads, NothingMarked, Underway,
         CheckoutsIntact

LEMMA KillCloneStays == ASSUME IInv, KillClone PROVE IInv'
<1>1. /\ UNCHANGED <<lock, archive, loose, gojq, version, intact>>
      /\ pc' = "idle" /\ crashes' = crashes + 1
      /\ crashes < MaxCrashes
  BY DEF KillClone, Killed
<1>2. PICK y \in BOOLEAN : dir' = [CloneOf(Want) EXCEPT !.kind = "partial", !.yaml = y]
  BY DEF KillClone
<1>3. dir' \in Dirs /\ dir'.kind = "partial" /\ dir'.marker = None
  BY <1>2, WantFacts DEF CloneOf, Dirs, Marks
<1>4. crashes' \in 0..MaxCrashes
  BY <1>1, BootstrapAssumption DEF IInv, TypeOK
<1> QED
  BY <1>1, <1>3, <1>4
     DEF IInv, TypeOK, Markers, CloneMarked, CloneWanted, PartialIsPast, LinkLeads, NothingMarked,
         Underway, CheckoutsIntact

(* The emptied file is a marker that says nothing. *)
LEMMA KillMarkStays == ASSUME IInv, KillMark PROVE IInv'
<1>1. /\ UNCHANGED <<lock, archive, loose, gojq, intact>> /\ pc' = "idle" /\ crashes' = crashes + 1
      /\ crashes < MaxCrashes /\ pc = "mark"
  BY DEF KillMark, Killed
<1>2. crashes' \in 0..MaxCrashes
  BY <1>1, BootstrapAssumption DEF IInv, TypeOK
<1>3. CASE Want = Local
  <2>1. /\ dir = Link(Path) /\ dir' = dir /\ dir.kind = "link" /\ dir.what = Path
        /\ version' = [version EXCEPT ![dir.what] = None]
    BY <1>1, <1>3 DEF IInv, Underway, KillMark, Link, Absent
  <2>2. version' \in [Paths -> Marks] /\ CheckoutsIntact'
    BY <1>1, <1>3, <2>1, VersionWritten
  <2> QED
    BY <1>1, <1>2, <2>1, <2>2
       DEF IInv, TypeOK, Markers, CloneMarked, CloneWanted, PartialIsPast, LinkLeads,
           NothingMarked, Underway, Wanted
<1>4. CASE Want # Local
  <2>1. dir = CloneOf(Want) /\ dir' = dir /\ version' = version
    BY <1>1, <1>4 DEF IInv, Underway, KillMark, CloneOf
  <2> QED
    BY <1>1, <1>2, <2>1
       DEF IInv, TypeOK, Markers, CloneMarked, CloneWanted, PartialIsPast, LinkLeads,
           NothingMarked, Underway, CheckoutsIntact, Wanted
<1> QED
  BY <1>3, <1>4

LEMMA StepHolds == IInv /\ [Next]_vars => IInv'
<1> SUFFICES ASSUME IInv, [Next]_vars PROVE IInv'
  OBVIOUS
<1>1. CASE UNCHANGED vars
  BY <1>1 DEF vars, IInv, TypeOK, Markers, CloneMarked, CloneWanted, PartialIsPast, LinkLeads,
       NothingMarked, Underway, CheckoutsIntact, Wanted, Stale, Marker, Want, Path
<1>2. CASE Next
  BY <1>2, QuietSteps, RemoveAllStays, ObtainStays, MarkStays, StripStays, KillRemovalStays,
     KillCloneStays, KillMarkStays DEF Next, Run, Kill
<1> QED
  BY <1>1, <1>2

LEMMA Inductive == Spec => []IInv
BY InitHolds, StepHolds, PTL DEF Spec

-----------------------------------------------------------------------------

(* The variables keep their types, for every sequence of lock files. *)
THEOREM TypeCorrect == Spec => []TypeOK
<1>1. IInv => TypeOK
  BY DEF IInv
<1> QED
  BY <1>1, Inductive, PTL

(* Of a local checkout no run takes the service.yaml, and none writes more *)
(* than the marker "local" into it, and that only once a lock file named   *)
(* it, in whatever order lock files come and runs are killed.              *)
THEOREM CheckoutsStayIntact == Spec => []CheckoutsIntact
<1>1. IInv => CheckoutsIntact
  BY DEF IInv
<1> QED
  BY <1>1, Inductive, PTL

(* A marker that names what is wanted is believed with reason: what is     *)
(* left of an older copy bears another release, and a link's marker is the *)
(* one checkout's.                                                         *)
LEMMA FreshIsWanted ==
  ASSUME OneWay, IInv, ~Stale
  PROVE  IF Want = Local THEN dir.kind = "link" /\ dir.what = Path
                         ELSE dir.kind = "clone" /\ dir.what = Want
<1>1. dir.kind # "absent" /\ Marker = Want /\ dir.kind \in {"absent", "partial", "clone", "link"}
  BY DEF Stale, IInv, TypeOK, Dirs
<1>2. CASE dir.kind = "link"
  <2>1. Want = Local
    BY <1>2, FreshLinkIsLocal
  <2>2. PICK i \in DOMAIN Schedule : Schedule[i] = <<Local, dir.what>>
    BY <1>2 DEF IInv, Markers, LinkLeads
  <2>3. Schedule[i][1] = Schedule[lock][1] /\ lock \in DOMAIN Schedule
    BY <2>1, <2>2, WantFacts DEF Want
  <2>4. Schedule[i][2] = Schedule[lock][2]
    BY <2>3 DEF OneWay
  <2> QED
    BY <1>2, <2>1, <2>2, <2>4 DEF Path
<1>3. CASE dir.kind = "clone"
  BY <1>1, <1>3, WantFacts DEF Marker, IInv, Markers, CloneMarked
<1>4. CASE dir.kind = "partial"
  <2>1. Wanted(Want, lock - 1)
    BY <1>1, <1>4, WantFacts DEF Marker, IInv, Markers, PartialIsPast
  <2>2. PICK i \in DOMAIN Schedule : i <= lock - 1 /\ Schedule[i][1] = Want
    BY <2>1 DEF Wanted
  <2>3. i \in Nat /\ lock \in Nat /\ i # lock /\ lock \in DOMAIN Schedule
    BY <2>2, LockFacts, WantFacts
  <2>4. Want = Local
    BY <2>2, <2>3 DEF OneWay, Want
  <2> QED
    BY <2>1, <2>4 DEF Wanted
<1> QED
  BY <1>1, <1>2, <1>3, <1>4

LEMMA CopyStaysWanted ==
  ASSUME OneWay, IInv, CopyIsWanted, [Next]_vars
  PROVE  CopyIsWanted'
<1>1. CASE Strip
  <2>1. SameCopy /\ ~Stale /\ Want' = Want /\ Path' = Path
    BY <1>1, StripKeepsCopy DEF Strip, Want, Path
  <2>2. Want # Local => dir'.yaml = FALSE
    <3>1. dir \in Dirs
      BY DEF IInv, TypeOK
    <3> QED
      BY <1>1, <3>1 DEF Strip, StripsYaml, Dirs
  <2> QED
    BY <2>1, <2>2, FreshIsWanted DEF SameCopy, CopyIsWanted
<1>2. CASE UNCHANGED vars
  BY <1>2 DEF vars, CopyIsWanted, Want, Path
<1>3. CASE Next /\ ~Strip
  <2>1. pc' # "ok"
    BY <1>3 DEF Next, Run, Begin, NextLock, FindGojq, Downloaded, DownloadFails, Unpacked,
           UnpackFails, Move, MoveFails, Query,
         Decide, AfterDecide, RemoveAll, Obtain, ObtainFails, Trust, TrustFails, Mark, Kill,
         KillDownload, KillUnpack, KillRemoval, KillClone, KillMark, KillBetween, Killed, Go
  <2> QED
    BY <2>1 DEF CopyIsWanted
<1> QED
  BY <1>1, <1>2, <1>3

(* Where no release comes back and there is one local checkout, a run that *)
(* succeeds leaves what the lock file wants, however many runs were killed *)
(* at whatever step before it.                                             *)
THEOREM CopyIsAsWanted == OneWay => (Spec => []CopyIsWanted)
<1> SUFFICES ASSUME OneWay PROVE Spec => []CopyIsWanted
  OBVIOUS
<1>1. Init => CopyIsWanted
  BY DEF Init, CopyIsWanted
<1>2. IInv /\ CopyIsWanted /\ [Next]_vars => CopyIsWanted'
  BY CopyStaysWanted
<1> QED
  BY <1>1, <1>2, Inductive, PTL DEF Spec

=============================================================================
