---------------------------- MODULE Dependencies -----------------------------
(***************************************************************************)
(* Dependency resolution of the E2E runner (e2e/e2e.go):                   *)
(* BuildDependenciesList walks the required dependencies of a service      *)
(* through the manifests GitHub serves, and provisionDevenv picks the      *)
(* snapshot the developer environment is provisioned from by what the walk *)
(* found.                                                                  *)
(*                                                                         *)
(* The recursion of grabDependencies is an explicit stack: each level      *)
(* holds the services its `range` loop has yet to visit, in any order (the *)
(* loop ranges over a Go map).                                             *)
(***************************************************************************)
EXTENDS Naturals, Sequences

CONSTANTS
  Services,        \* names of services
  Flagship,        \* "flagship", the old name of ...
  Outreach,        \* ... "outreach"
  Worlds,          \* the possible contents of devenv.yaml and of GitHub
  ProvisionTarget  \* $PROVISION_TARGET, "" if unset

ASSUME NameAssumption     == /\ Flagship \in Services
                             /\ Outreach \in Services
                             /\ Flagship # Outreach
ASSUME WorldAssumption ==
  Worlds \subseteq [roots : SUBSET Services,
                    manifest : [Services -> Seq(SUBSET Services)],
                    mayFail : BOOLEAN]

VARIABLES
  world,   \* .roots: what devenv.yaml requires or lists as optional;
           \* .manifest[s]: the required services of each candidate file the
           \* repository of s has, in the order the files are tried;
           \* .mayFail: whether downloads may fail although the file exists
  status,  \* of BuildDependenciesList
  deps,    \* the services resolved so far
  stack,   \* the services left to visit, per level of the recursion
  found,   \* found[s]: the dependencies downloaded for s (history)
  target   \* the chosen snapshot, "" before the choice

vars == <<world, status, deps, stack, found, target>>

TypeOK ==
  /\ world \in Worlds
  /\ status \in {"starting", "resolving", "resolved", "failed"}
  /\ deps \subseteq Services
  /\ stack \in Seq(SUBSET Services)
  /\ found \in [Services -> SUBSET Services]

Init ==
  /\ world \in Worlds
  /\ status = "starting"
  /\ deps = {}
  /\ stack = <<>>
  /\ found = [s \in Services |-> {}]
  /\ target = ""

Roots       == world.roots
Manifest(s) == world.manifest[s]
MayFail     == world.mayFail

(* "so we don't fail on deps that haven't updated their dependency yet" *)
Canonical(d)     == IF d = Flagship THEN Outreach ELSE d
CanonicalSet(ds) == {Canonical(d) : d \in ds}

Top == stack[Len(stack)]

-----------------------------------------------------------------------------
(* Faulty variants of definitions below, each a plausible slip in e2e.go;   *)
(* they show that the properties can fail.                                  *)

(* The range loop does not advance past a service it has skipped. *)
Visited_Not(d) == stack

(* Only the first level of dependencies is followed. *)
Descend_Not(rest, r) == rest

(* The error of an aborted walk is lost. *)
ErrorStatus_Lost == ""

(* The list is searched for outreach under its old name. *)
SelectTarget_OldName ==
  /\ status = "resolved"
  /\ target = ""
  /\ target' = CASE ProvisionTarget # "" -> ProvisionTarget
                 [] ProvisionTarget = "" /\ Flagship \in deps -> "flagship"
                 [] OTHER -> "base"
  /\ UNCHANGED <<world, status, deps, stack, found>>

-----------------------------------------------------------------------------

(* What findDependenciesInRepo may return: the first candidate file that   *)
(* downloads and parses, and nothing at all when none does.                *)
FetchResults(s) ==
  LET m == Manifest(s)
  IN  {m[k] : k \in {n \in DOMAIN m : n = 1 \/ MayFail}}
        \cup {none \in {{}} : m = <<>> \/ MayFail}

Visited(d)         == [stack EXCEPT ![Len(stack)] = @ \ {d}]
AlreadyResolved(d) == Canonical(d) \in deps
Descend(rest, r)   == Append(rest, r)
ErrorStatus        == "failed"

(* devenv.yaml parses; its dependencies, required and optional, are the roots. *)
Open ==
  /\ status = "starting"
  /\ status' = "resolving"
  /\ stack' = <<Roots>>
  /\ UNCHANGED <<world, deps, found, target>>

OpenFails ==
  /\ status = "starting"
  /\ status' = ErrorStatus
  /\ UNCHANGED <<world, deps, stack, found, target>>

(* grabDependencies(d) finds d resolved already. *)
Skip(d) ==
  /\ status = "resolving"
  /\ d \in Top
  /\ AlreadyResolved(d)
  /\ stack' = Visited(d)
  /\ UNCHANGED <<world, status, deps, found, target>>

(* grabDependencies(d) downloads d's manifest, marks d, and recurses. *)
Resolve(d) ==
  /\ status = "resolving"
  /\ d \in Top
  /\ ~AlreadyResolved(d)
  /\ \E r \in FetchResults(Canonical(d)) :
       /\ deps' = deps \cup {Canonical(d)}
       /\ found' = [found EXCEPT ![Canonical(d)] = r]
       /\ stack' = Descend(Visited(d), r)
  /\ UNCHANGED <<world, status, target>>

(* No GitHub client: the error ends the whole walk. *)
ResolveFails(d) ==
  /\ status = "resolving"
  /\ d \in Top
  /\ ~AlreadyResolved(d)
  /\ status' = ErrorStatus
  /\ UNCHANGED <<world, deps, stack, found, target>>

(* The innermost range loop is exhausted. *)
Return ==
  /\ status = "resolving"
  /\ Top = {}
  /\ stack' = SubSeq(stack, 1, Len(stack) - 1)
  /\ status' = IF Len(stack) = 1 THEN "resolved" ELSE status
  /\ UNCHANGED <<world, deps, found, target>>

(* provisionDevenv: $PROVISION_TARGET wins, then the flagship snapshot for *)
(* anything that needs outreach, and "base" for the rest.                  *)
SelectTarget ==
  /\ status = "resolved"
  /\ target = ""
  /\ target' = CASE ProvisionTarget # "" -> ProvisionTarget
                 [] ProvisionTarget = "" /\ Outreach \in deps -> "flagship"
                 [] OTHER -> "base"
  /\ UNCHANGED <<world, status, deps, stack, found>>

Finished ==
  /\ status = "failed" \/ target # ""
  /\ UNCHANGED vars

Next ==
  \/ Open \/ OpenFails
  \/ \E d \in Services : Skip(d) \/ Resolve(d) \/ ResolveFails(d)
  \/ Return
  \/ SelectTarget
  \/ Finished

Spec     == Init /\ [][Next]_vars
FairSpec == Spec /\ WF_vars(Next)

-----------------------------------------------------------------------------

(* C contains the roots and, with a service, all that `requires` says it needs. *)
Closed(C, requires) ==
  /\ CanonicalSet(Roots) \subseteq C
  /\ \A s \in C : CanonicalSet(requires[s]) \subseteq C

(* What some manifest of s requires, and what its preferred one requires. *)
AnyRequired   == [s \in Services |-> UNION {Manifest(s)[k] : k \in DOMAIN Manifest(s)}]
FirstRequired == [s \in Services |-> IF Manifest(s) = <<>> THEN {} ELSE Manifest(s)[1]]

(* The services every closed set has: the closure of the roots. *)
Needed == {s \in Services : \A C \in SUBSET Services : Closed(C, FirstRequired) => s \in C}

(* What the walk has found and what it has yet to look at. *)
Pending == {d \in Services : \E k \in 1 .. Len(stack) : d \in stack[k]}
Reached == deps \cup CanonicalSet(Pending)

(* The walk finds no service that is not a dependency, direct or           *)
(* transitive, of the roots, whichever manifests were downloaded           *)
(* (grabDependencies).                                                     *)
OnlyNeeded ==
  \A C \in SUBSET Services : Closed(C, AnyRequired) => deps \subseteq C

(* When the walk ends without an error nothing is missing: the roots and,  *)
(* with every service, all that its downloaded manifest requires.  Cycles, *)
(* shared dependencies and the visiting order make no difference.          *)
NothingMissing ==
  status = "resolved" => Closed(deps, found)

(* The walk finds the dependencies of the roots: nothing foreign, and      *)
(* nothing that it was told of is missing (BuildDependenciesList).         *)
FindsExactly == OnlyNeeded /\ NothingMissing

(* "provisions devenv in correct target based on application dependencies":*)
(* unless overridden, the flagship snapshot is used exactly when outreach  *)
(* is among the services the roots need.                                   *)
CorrectTarget ==
  target # "" /\ ProvisionTarget = ""
    => (target = "flagship" <=> Outreach \in Needed)

(* The target is correct whenever downloads fail only for files that are   *)
(* not there, whatever the graph and the order of the walk.                *)
CorrectUnlessOutage == ~MayFail => CorrectTarget

(* The inductive invariant of the proofs in DependenciesProofs: whatever a  *)
(* resolved service requires is resolved or on the stack, and everything on *)
(* the stack is needed.                                                     *)
StackFits ==
  /\ status = "starting" => stack = <<>> /\ deps = {}
  /\ status = "resolving" => stack # <<>>
  /\ status = "resolved" => stack = <<>>

Frontier ==
  status \in {"resolving", "resolved"} =>
    /\ CanonicalSet(Roots) \subseteq Reached
    /\ \A s \in deps : CanonicalSet(found[s]) \subseteq Reached

Bounded(requires) ==
  \A C \in SUBSET Services : Closed(C, requires) => Reached \subseteq C

IInv ==
  /\ TypeOK
  /\ StackFits
  /\ Frontier
  /\ Bounded(AnyRequired)
  /\ ~MayFail => Bounded(FirstRequired)
  /\ \A s \in deps : found[s] \in FetchResults(s)

(* The walk ends, cyclic dependencies included. *)
WalkEnds == <>(status \in {"resolved", "failed"})

==============================================================================
