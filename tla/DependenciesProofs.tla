------------------------- MODULE DependenciesProofs --------------------------
(***************************************************************************)
(* Proofs about Dependencies for every set of services, every content of   *)
(* the repositories and every order of the walk.                           *)
(***************************************************************************)
EXTENDS Dependencies, SequenceTheorems, TLAPS

LEMMA WorldFacts ==
  ASSUME TypeOK
  PROVE  /\ Roots \subseteq Services
         /\ \A s \in Services : Manifest(s) \in Seq(SUBSET Services)
BY WorldAssumption DEF TypeOK, Roots, Manifest

LEMMA CanonicalFacts ==
  /\ \A d \in Services : Canonical(d) \in Services \ {Flagship}
  /\ \A ds \in SUBSET Services : CanonicalSet(ds) \subseteq Services
BY NameAssumption DEF Canonical, CanonicalSet

(* A download yields one of the manifests, or nothing. *)
LEMMA FetchFacts ==
  ASSUME TypeOK, NEW s \in Services, NEW r \in FetchResults(s)
  PROVE  /\ r \in SUBSET Services
         /\ r \subseteq AnyRequired[s]
         /\ ~MayFail => r = FirstRequired[s]
<1>1. Manifest(s) \in Seq(SUBSET Services)
  BY WorldFacts
<1>2. r = {} \/ \E k \in DOMAIN Manifest(s) : r = Manifest(s)[k]
  BY DEF FetchResults
<1>3. ~MayFail => IF Manifest(s) = <<>> THEN r = {} ELSE r = Manifest(s)[1]
  BY <1>1 DEF FetchResults
<1>4. r \subseteq AnyRequired[s]
  BY <1>2 DEF AnyRequired
<1>5. QED
  BY <1>1, <1>2, <1>3, <1>4 DEF FirstRequired

(* All but the last element of a sequence. *)
LEMMA PopFacts ==
  ASSUME NEW S, NEW s \in Seq(S), Len(s) # 0,
         NEW t, t = SubSeq(s, 1, Len(s) - 1)
  PROVE  /\ t \in Seq(S)
         /\ Len(t) = Len(s) - 1
         /\ \A k \in 1 .. Len(t) : t[k] = s[k]
         /\ t = <<>> <=> Len(s) = 1
<1> DEFINE n == Len(s) - 1
<1>1. Len(s) \in Nat /\ n \in Nat /\ \A k \in 1 .. n : s[k] \in S
  OBVIOUS
<1>2. /\ t \in Seq(S)
      /\ Len(t) = IF 1 <= n THEN n - 1 + 1 ELSE 0
      /\ \A k \in 1 .. n - 1 + 1 : t[k] = s[1 + k - 1]
  <2> HIDE DEF n
  <2>1. \A k \in 1 .. n : s[k] \in S
    BY <1>1
  <2>2. n \in Int /\ 1 \in Int /\ t = SubSeq(s, 1, n)
    BY <1>1 DEF n
  <2>3. QED
    BY <2>1, <2>2, SubSeqProperties
<1>3. Len(t) = n
  <2> HIDE DEF n
  <2>1. QED
    BY <1>1, <1>2
<1>4. \A k \in 1 .. n : t[k] = s[k]
  <2> HIDE DEF n
  <2>1. SUFFICES ASSUME NEW k \in 1 .. n PROVE t[k] = s[k]
    OBVIOUS
  <2>2. 1 + k - 1 = k /\ k \in 1 .. n - 1 + 1
    BY <1>1
  <2>3. QED
    BY <1>2, <2>2
<1>5. t = <<>> <=> n = 0
  BY <1>2, <1>3, EmptySeq
<1>6. QED
  BY <1>1, <1>2, <1>3, <1>4, <1>5

LEMMA TypeInit == Init => TypeOK
<1>1. <<>> \in Seq(SUBSET Services)
  OBVIOUS
<1>2. [s \in Services |-> {}] \in [Services -> SUBSET Services]
  OBVIOUS
<1>3. QED
  BY <1>1, <1>2 DEF Init, TypeOK

LEMMA TypeNext == TypeOK /\ StackFits /\ [Next]_vars => TypeOK'
<1> SUFFICES ASSUME TypeOK, StackFits, [Next]_vars PROVE TypeOK'
  OBVIOUS
<1>1. CASE Open \/ OpenFails
  <2>1. Roots \in SUBSET Services
    BY WorldFacts
  <2>2. <<Roots>> \in Seq(SUBSET Services)
    BY <2>1
  <2>3. QED
    BY <1>1, <2>2 DEF Open, OpenFails, TypeOK, ErrorStatus
<1>2. ASSUME NEW d \in Services, Skip(d) PROVE TypeOK'
  <2>1. Visited(d) \in Seq(SUBSET Services)
    BY <1>2 DEF TypeOK, Visited, Top, Skip, StackFits
  <2>2. QED
    BY <1>2, <2>1 DEF Skip, TypeOK
<1>3. ASSUME NEW d \in Services, Resolve(d) PROVE TypeOK'
  <2>1. Visited(d) \in Seq(SUBSET Services)
    BY <1>3 DEF TypeOK, Visited, Top, Resolve, StackFits
  <2>2. PICK r \in FetchResults(Canonical(d)) :
          /\ deps' = deps \cup {Canonical(d)}
          /\ found' = [found EXCEPT ![Canonical(d)] = r]
          /\ stack' = Append(Visited(d), r)
    BY <1>3 DEF Resolve, Descend
  <2>3. r \in SUBSET Services /\ Canonical(d) \in Services
    BY CanonicalFacts, FetchFacts
  <2>4. stack' \in Seq(SUBSET Services)
    BY <2>1, <2>2, <2>3, AppendProperties
  <2>5. QED
    BY <1>3, <2>2, <2>3, <2>4 DEF Resolve, TypeOK
<1>4. ASSUME NEW d \in Services, ResolveFails(d) PROVE TypeOK'
  BY <1>4 DEF ResolveFails, TypeOK, ErrorStatus
<1>5. CASE Return
  <2>1. stack \in Seq(SUBSET Services) /\ Len(stack) # 0
    BY <1>5 DEF Return, StackFits, TypeOK
  <2>2. SubSeq(stack, 1, Len(stack) - 1) \in Seq(SUBSET Services)
    BY <2>1, PopFacts
  <2>3. QED
    BY <1>5, <2>2 DEF Return, TypeOK
<1>6. CASE SelectTarget \/ Finished \/ UNCHANGED vars
  BY <1>6 DEF SelectTarget, Finished, vars, TypeOK
<1>7. QED
  BY <1>1, <1>2, <1>3, <1>4, <1>5, <1>6 DEF Next

(* The stack is empty before and after the walk and only then. *)
LEMMA StackInit == Init => StackFits
BY DEF Init, StackFits

LEMMA StackNext == TypeOK /\ StackFits /\ [Next]_vars => StackFits'
<1> SUFFICES ASSUME TypeOK, StackFits, [Next]_vars PROVE StackFits'
  OBVIOUS
<1> USE DEF StackFits
<1>1. CASE Open \/ OpenFails
  BY <1>1 DEF Open, OpenFails, ErrorStatus
<1>2. ASSUME NEW d \in Services, Skip(d) \/ Resolve(d) PROVE StackFits'
  <2>1. Visited(d) # <<>>
    BY <1>2 DEF Visited, TypeOK, Skip, Resolve
  <2>2. \A r : Append(Visited(d), r) # <<>>
    BY <1>2 DEF Visited, TypeOK, Skip, Resolve
  <2>3. QED
    BY <1>2, <2>1, <2>2 DEF Skip, Resolve, Descend
<1>3. ASSUME NEW d \in Services, ResolveFails(d) PROVE StackFits'
  BY <1>3 DEF ResolveFails, ErrorStatus
<1>4. CASE Return
  <2>1. stack \in Seq(SUBSET Services) /\ Len(stack) # 0
    BY <1>4 DEF Return, TypeOK
  <2> DEFINE rest == SubSeq(stack, 1, Len(stack) - 1)
  <2>2. rest = <<>> <=> Len(stack) = 1
    <3>1. rest = SubSeq(stack, 1, Len(stack) - 1)
      OBVIOUS
    <3> HIDE DEF rest
    <3>2. QED
      BY <2>1, <3>1, PopFacts
  <2>3. stack' = rest /\ status' = IF Len(stack) = 1 THEN "resolved" ELSE status
    BY <1>4 DEF Return
  <2> HIDE DEF rest
  <2>4. QED
    BY <1>4, <2>2, <2>3 DEF Return
<1>5. CASE SelectTarget \/ Finished \/ UNCHANGED vars
  BY <1>5 DEF SelectTarget, Finished, vars
<1>6. QED
  BY <1>1, <1>2, <1>3, <1>4, <1>5 DEF Next

(* The model's state always has the types of TypeOK. *)
THEOREM TypeCorrect == Spec => []TypeOK
<1>1. Init => TypeOK /\ StackFits
  BY TypeInit, StackInit
<1>2. TypeOK /\ StackFits /\ [Next]_vars => (TypeOK /\ StackFits)'
  BY TypeNext, StackNext
<1>3. QED
  BY <1>1, <1>2, PTL DEF Spec

-----------------------------------------------------------------------------

(* What a step leaves pending: d is taken off the top level, ... *)
LEMMA PendingVisited ==
  ASSUME TypeOK, NEW d \in Services, stack # <<>>
  PROVE  /\ Visited(d) \in Seq(SUBSET Services)
         /\ Len(Visited(d)) = Len(stack)
         /\ Len(stack) \in Nat \ {0}
         /\ \A k \in 1 .. Len(stack) :
              /\ Visited(d)[k] \subseteq stack[k]
              /\ stack[k] \subseteq Visited(d)[k] \cup {d}
<1>1. stack \in Seq(SUBSET Services) /\ Len(stack) \in Nat \ {0}
  BY DEF TypeOK
<1>2. QED
  BY <1>1 DEF Visited

LEMMA PendingSkip ==
  ASSUME TypeOK, StackFits, NEW d \in Services, Skip(d)
  PROVE  Pending' \subseteq Pending /\ Pending \subseteq Pending' \cup {d}
<1>1. stack # <<>> /\ stack' = Visited(d)
  BY DEF Skip, StackFits
<1>2. QED
  BY <1>1, PendingVisited DEF Pending

(* ... the dependencies of d are added, ... *)
LEMMA PendingResolve ==
  ASSUME TypeOK, NEW d \in Services, stack # <<>>,
         NEW r \in SUBSET Services, stack' = Append(Visited(d), r)
  PROVE  /\ Pending' \subseteq Pending \cup r
         /\ Pending \cup r \subseteq Pending' \cup {d}
<1> DEFINE v == Visited(d)
           n == Len(stack)
<1>1. /\ v \in Seq(SUBSET Services) /\ Len(v) = n /\ n \in Nat \ {0}
      /\ \A k \in 1 .. n : v[k] \subseteq stack[k] /\ stack[k] \subseteq v[k] \cup {d}
  BY PendingVisited
<1>2. /\ Len(stack') = n + 1
      /\ \A k \in 1 .. n : stack'[k] = v[k]
      /\ stack'[n + 1] = r
  BY <1>1, AppendProperties
<1>3. \A k \in 1 .. n + 1 : k \in 1 .. n \/ k = n + 1
  BY <1>1
<1>4. 1 .. n \subseteq 1 .. n + 1 /\ n + 1 \in 1 .. n + 1
  BY <1>1
<1> HIDE DEF v, n
<1>5. Pending = {e \in Services : \E k \in 1 .. n : e \in stack[k]}
  BY DEF Pending, n
<1>6. Pending' = {e \in Services : \E k \in 1 .. n + 1 : e \in stack'[k]}
  BY <1>2 DEF Pending
<1>7. QED
  BY <1>1, <1>2, <1>3, <1>4, <1>5, <1>6

(* ... and an exhausted level takes nothing with it. *)
LEMMA PendingReturn ==
  ASSUME TypeOK, StackFits, Return
  PROVE  Pending' = Pending
<1> DEFINE n == Len(stack)
<1>1. stack \in Seq(SUBSET Services) /\ n # 0 /\ n \in Nat
  BY DEF Return, StackFits, TypeOK
<1>2. stack' = SubSeq(stack, 1, n - 1) /\ stack[n] = {}
  BY DEF Return, Top
<1>3. Len(stack') = n - 1 /\ \A k \in 1 .. n - 1 : stack'[k] = stack[k]
  BY <1>1, <1>2, PopFacts
<1>4. \A k \in 1 .. n : k \in 1 .. n - 1 \/ k = n
  BY <1>1
<1>5. 1 .. n - 1 \subseteq 1 .. n
  BY <1>1
<1> HIDE DEF n
<1>6. Pending = {e \in Services : \E k \in 1 .. n : e \in stack[k]}
  BY DEF Pending, n
<1>7. Pending' = {e \in Services : \E k \in 1 .. n - 1 : e \in stack'[k]}
  BY <1>3 DEF Pending
<1>8. QED
  BY <1>2, <1>3, <1>4, <1>5, <1>6, <1>7

LEMMA TopIsPending ==
  ASSUME TypeOK, NEW d \in Services, stack # <<>>, d \in Top
  PROVE  d \in Pending
<1>1. Len(stack) \in 1 .. Len(stack)
  BY DEF TypeOK
<1>2. QED
  BY <1>1 DEF Pending, Top

-----------------------------------------------------------------------------

LEMMA InvInit == Init => IInv
<1> SUFFICES ASSUME Init PROVE IInv
  OBVIOUS
<1>1. TypeOK /\ StackFits
  BY TypeInit, StackInit
<1>2. Len(stack) = 0 /\ deps = {}
  BY DEF Init
<1>3. Pending = {}
  BY <1>2 DEF Pending
<1>4. Reached = {}
  BY <1>2, <1>3 DEF Reached, CanonicalSet
<1>5. QED
  BY <1>1, <1>2, <1>4 DEF Init, IInv, Frontier, Bounded

LEMMA OpenKept ==
  ASSUME IInv, Open
  PROVE  /\ Frontier'
         /\ Bounded(AnyRequired)' /\ Bounded(FirstRequired)'
<1>1. Roots \in SUBSET Services /\ Roots' = Roots
  BY WorldFacts DEF IInv, Open, Roots
<1>2. deps' = {} /\ stack' = <<Roots>>
  BY DEF Open, IInv, StackFits
<1>3. Pending' = Roots
  BY <1>1, <1>2 DEF Pending
<1>4. Reached' = CanonicalSet(Roots)
  BY <1>2, <1>3 DEF Reached, CanonicalSet, Canonical
<1>5. QED
  BY <1>1, <1>2, <1>4 DEF Frontier, Bounded, Closed, CanonicalSet, Canonical

LEMMA WorldKept ==
  ASSUME world' = world
  PROVE  /\ AnyRequired' = AnyRequired
         /\ FirstRequired' = FirstRequired
         /\ Roots' = Roots
         /\ MayFail' = MayFail
         /\ \A s : FetchResults(s)' = FetchResults(s)
BY DEF AnyRequired, FirstRequired, Roots, FetchResults, Manifest, MayFail

(* What a reached service requires is in every closed set. *)
LEMMA BoundGrows ==
  ASSUME NEW R, Bounded(R), NEW c \in Reached, NEW r, r \subseteq R[c],
         NEW X, X \subseteq Reached \cup CanonicalSet(r)
  PROVE  \A C \in SUBSET Services : Closed(C, R) => X \subseteq C
BY DEF Bounded, Closed, CanonicalSet

(* Away from Open, a step reaches nothing new or the dependencies of       *)
(* something reached, and both bounds are kept.                            *)
LEMMA BoundsKept ==
  ASSUME IInv, world' = world,
         \/ Reached' \subseteq Reached
         \/ \E c \in Reached : \E r \in FetchResults(c) :
              c \in Services /\ Reached' \subseteq Reached \cup CanonicalSet(r)
  PROVE  /\ Bounded(AnyRequired)'
         /\ (~MayFail => Bounded(FirstRequired))'
<1>1. ASSUME NEW R, Bounded(R),
             \A c \in Services : \A r \in FetchResults(c) : r \subseteq R[c]
      PROVE  \A C \in SUBSET Services : Closed(C, R) => Reached' \subseteq C
  <2>1. CASE Reached' \subseteq Reached
    BY <1>1, <2>1 DEF Bounded
  <2>2. CASE \E c \in Reached : \E r \in FetchResults(c) :
               c \in Services /\ Reached' \subseteq Reached \cup CanonicalSet(r)
    BY <1>1, <2>2, BoundGrows
  <2>3. QED
    BY <2>1, <2>2
<1>2. \A R, C : Closed(C, R)' <=> Closed(C, R)
  BY WorldKept DEF Closed
<1>3. \A c \in Services : \A r \in FetchResults(c) :
        r \subseteq AnyRequired[c] /\ (~MayFail => r \subseteq FirstRequired[c])
  BY FetchFacts DEF IInv
<1>4. \A C \in SUBSET Services : Closed(C, AnyRequired) => Reached' \subseteq C
  BY <1>1, <1>3 DEF IInv
<1>5. ~MayFail =>
        \A C \in SUBSET Services : Closed(C, FirstRequired) => Reached' \subseteq C
  BY <1>1, <1>3 DEF IInv
<1>6. QED
  BY <1>4, <1>5, WorldKept DEF Bounded, Closed

LEMMA SkipKept ==
  ASSUME IInv, NEW d \in Services, Skip(d)
  PROVE  /\ Frontier' /\ Bounded(AnyRequired)'
         /\ (~MayFail => Bounded(FirstRequired))'
<1>1. Pending' \subseteq Pending /\ Pending \subseteq Pending' \cup {d}
  BY PendingSkip DEF IInv
<1>2. UNCHANGED <<world, status, deps, found>> /\ Canonical(d) \in deps
  BY DEF Skip, AlreadyResolved
<1>3. Reached' = Reached
  BY <1>1, <1>2 DEF Reached, CanonicalSet
<1>4. Frontier'
  BY <1>2, <1>3, WorldKept DEF IInv, Frontier
<1>5. QED
  BY <1>2, <1>3, <1>4, BoundsKept

LEMMA ResolveKept ==
  ASSUME IInv, NEW d \in Services, Resolve(d)
  PROVE  /\ Frontier' /\ Bounded(AnyRequired)'
         /\ (~MayFail => Bounded(FirstRequired))'
         /\ (\A s \in deps : found[s] \in FetchResults(s))'
<1> DEFINE c == Canonical(d)
<1>1. PICK r \in FetchResults(c) :
        /\ deps' = deps \cup {c}
        /\ found' = [found EXCEPT ![c] = r]
        /\ stack' = Append(Visited(d), r)
  BY DEF Resolve, Descend
<1>2. UNCHANGED <<world, status>> /\ d \in Top /\ c \notin deps
  BY DEF Resolve, AlreadyResolved
<1>3. stack # <<>> /\ TypeOK /\ status = "resolving"
  BY DEF Resolve, IInv, StackFits
<1>4. c \in Services /\ r \in SUBSET Services
  BY <1>3, CanonicalFacts, FetchFacts
<1>5. /\ Pending' \subseteq Pending \cup r
      /\ Pending \cup r \subseteq Pending' \cup {d}
  BY <1>1, <1>3, <1>4, PendingResolve
<1>6. d \in Pending
  BY <1>2, <1>3, TopIsPending
<1>7. c \in Reached
  BY <1>6 DEF Reached, CanonicalSet
<1>8. /\ Reached' \subseteq Reached \cup CanonicalSet(r)
      /\ Reached \cup CanonicalSet(r) \subseteq Reached'
  <2>1. Reached' = deps \cup {c} \cup CanonicalSet(Pending')
    BY <1>1 DEF Reached, CanonicalSet, Canonical
  <2>2. QED
    BY <1>5, <1>7, <2>1 DEF Reached, CanonicalSet
<1>9. Frontier'
  <2>1. CanonicalSet(Roots)' \subseteq Reached'
    BY <1>2, <1>3, <1>8, WorldKept DEF IInv, Frontier, CanonicalSet, Canonical
  <2>2. ASSUME NEW s \in deps' PROVE CanonicalSet(found'[s]) \subseteq Reached'
    <3>1. CASE s = c
      <4>1. found'[s] = r
        BY <1>1, <1>3, <1>4, <3>1 DEF TypeOK
      <4>2. QED
        BY <1>8, <4>1
    <3>2. CASE s # c
      <4>1. s \in deps /\ found'[s] = found[s]
        BY <1>1, <1>3, <3>2, <2>2 DEF TypeOK
      <4>2. QED
        BY <1>3, <1>8, <4>1 DEF IInv, Frontier
    <3>3. QED
      BY <3>1, <3>2
  <2>3. QED
    BY <2>1, <2>2 DEF Frontier, CanonicalSet, Canonical
<1>10. Bounded(AnyRequired)' /\ (~MayFail => Bounded(FirstRequired))'
  BY <1>2, <1>4, <1>7, <1>8, BoundsKept
<1>11. \A s \in deps' : found'[s] \in FetchResults(s)'
  BY <1>1, <1>2, <1>3, <1>4, WorldKept DEF IInv, TypeOK
<1>12. QED
  BY <1>9, <1>10, <1>11

LEMMA ReturnKept ==
  ASSUME IInv, Return
  PROVE  /\ Frontier' /\ Bounded(AnyRequired)'
         /\ (~MayFail => Bounded(FirstRequired))'
<1>1. Pending' = Pending
  BY PendingReturn DEF IInv
<1>2. UNCHANGED <<world, deps, found>> /\ status = "resolving"
  BY DEF Return
<1>3. Reached' = Reached
  BY <1>1, <1>2 DEF Reached, CanonicalSet, Canonical
<1>4. Frontier'
  BY <1>2, <1>3, WorldKept DEF IInv, Frontier, CanonicalSet, Canonical
<1>5. QED
  BY <1>2, <1>3, <1>4, BoundsKept

(* A step that leaves the walk as it is, or aborts it. *)
LEMMA OtherKept ==
  ASSUME IInv, UNCHANGED <<world, deps, stack, found>>,
         status' = status \/ status' = "failed"
  PROVE  /\ Frontier' /\ Bounded(AnyRequired)'
         /\ (~MayFail => Bounded(FirstRequired))'
<1>1. Reached' = Reached
  BY DEF Reached, Pending, CanonicalSet, Canonical
<1>2. Frontier'
  BY <1>1, WorldKept DEF IInv, Frontier, CanonicalSet, Canonical
<1>3. QED
  BY <1>1, <1>2, BoundsKept

LEMMA InvNext == IInv /\ [Next]_vars => IInv'
<1> SUFFICES ASSUME IInv, [Next]_vars PROVE IInv'
  OBVIOUS
<1>1. TypeOK' /\ StackFits'
  BY TypeNext, StackNext DEF IInv
<1>2. CASE Open
  BY <1>1, <1>2, OpenKept DEF IInv, Open, StackFits
<1>3. ASSUME NEW d \in Services, Skip(d) PROVE IInv'
  <2>1. (\A s \in deps : found[s] \in FetchResults(s))'
    BY <1>3, WorldKept DEF Skip, IInv
  <2>2. QED
    BY <1>1, <1>3, <2>1, SkipKept DEF IInv
<1>4. ASSUME NEW d \in Services, Resolve(d) PROVE IInv'
  BY <1>1, <1>4, ResolveKept DEF IInv
<1>5. CASE Return
  <2>1. (\A s \in deps : found[s] \in FetchResults(s))'
    BY <1>5, WorldKept DEF Return, IInv
  <2>2. QED
    BY <1>1, <1>5, <2>1, ReturnKept DEF IInv
<1>6. CASE \/ OpenFails \/ SelectTarget \/ Finished \/ UNCHANGED vars
           \/ \E d \in Services : ResolveFails(d)
  <2>1. UNCHANGED <<world, deps, stack, found>> /\ status' \in {status, "failed"}
    BY <1>6 DEF OpenFails, SelectTarget, Finished, vars, ResolveFails, ErrorStatus
  <2>2. (\A s \in deps : found[s] \in FetchResults(s))'
    BY <2>1, WorldKept DEF IInv
  <2>3. QED
    BY <1>1, <2>1, <2>2, OtherKept DEF IInv
<1>7. QED
  BY <1>2, <1>3, <1>4, <1>5, <1>6 DEF Next

LEMMA InvHolds == Spec => []IInv
BY InvInit, InvNext, PTL DEF Spec

(* At the end of the walk nothing is pending. *)
LEMMA ResolvedIsReached ==
  ASSUME IInv, status = "resolved"
  PROVE  Reached = deps
<1>1. Len(stack) = 0
  BY DEF IInv, StackFits
<1>2. Pending = {}
  BY <1>1 DEF Pending
<1>3. QED
  BY <1>2 DEF Reached, CanonicalSet

(* The walk resolves nothing but dependencies of the roots, whatever the   *)
(* graph, the order and the downloads that fail (grabDependencies).        *)
THEOREM OnlyNeededHolds == Spec => []OnlyNeeded
<1>1. IInv => OnlyNeeded
  BY DEF IInv, Bounded, OnlyNeeded, Reached
<1>2. QED
  BY <1>1, InvHolds, PTL

(* A walk that ends without an error has resolved the roots and everything *)
(* the downloaded manifests of resolved services require.                  *)
THEOREM NothingMissingHolds == Spec => []NothingMissing
<1>1. IInv => NothingMissing
  <2> SUFFICES ASSUME IInv, status = "resolved" PROVE Closed(deps, found)
    BY DEF NothingMissing
  <2>1. QED
    BY ResolvedIsReached DEF IInv, Frontier, Closed
<1>2. QED
  BY <1>1, InvHolds, PTL

(* The two together: the walk finds the dependencies of the roots, and     *)
(* nothing else, in every graph.                                           *)
THEOREM FindsExactlyHolds == Spec => []FindsExactly
<1>1. OnlyNeeded /\ NothingMissing => FindsExactly
  BY DEF FindsExactly
<1>2. QED
  BY <1>1, OnlyNeededHolds, NothingMissingHolds, PTL

(* A chosen target was chosen from the complete list. *)
TargetFollows ==
  target # "" =>
    /\ status = "resolved"
    /\ ProvisionTarget = "" => (target = "flagship" <=> Outreach \in deps)

LEMMA TargetFollowsHolds == Spec => []TargetFollows
<1>1. Init => TargetFollows
  BY DEF Init, TargetFollows
<1>2. IInv /\ TargetFollows /\ [Next]_vars => TargetFollows'
  <2> SUFFICES ASSUME IInv, TargetFollows, [Next]_vars PROVE TargetFollows'
    OBVIOUS
  <2>1. CASE SelectTarget
    BY <2>1 DEF SelectTarget, TargetFollows
  <2>2. CASE Open \/ OpenFails \/ Return
             \/ \E d \in Services : Skip(d) \/ Resolve(d) \/ ResolveFails(d)
    BY <2>2 DEF Open, OpenFails, Return, Skip, Resolve, ResolveFails,
       TargetFollows
  <2>3. CASE Finished \/ UNCHANGED vars
    BY <2>3 DEF Finished, vars, TargetFollows
  <2>4. QED
    BY <2>1, <2>2, <2>3 DEF Next
<1>3. QED
  BY <1>1, <1>2, InvHolds, PTL DEF Spec

(* When no download fails, the flagship snapshot is chosen exactly for the *)
(* services that need outreach, directly or not (provisionDevenv).         *)
THEOREM CorrectTargetHolds == Spec => []CorrectUnlessOutage
<1>1. IInv /\ TargetFollows => CorrectUnlessOutage
  <2> SUFFICES ASSUME IInv, TargetFollows, ~MayFail, target # "", ProvisionTarget = ""
               PROVE  target = "flagship" <=> Outreach \in Needed
    BY DEF CorrectUnlessOutage, CorrectTarget
  <2>1. status = "resolved" /\ (target = "flagship" <=> Outreach \in deps)
    BY DEF TargetFollows
  <2>3. Reached = deps
    BY <2>1, ResolvedIsReached
  <2>4. deps \in SUBSET Services
    BY DEF IInv, TypeOK
  <2>5. \A s \in deps : found[s] = FirstRequired[s]
    BY <2>4, FetchFacts DEF IInv
  <2>6. Closed(deps, FirstRequired)
    BY <2>1, <2>3, <2>5 DEF IInv, Frontier, Closed
  <2>7. \A C \in SUBSET Services : Closed(C, FirstRequired) => deps \subseteq C
    BY <2>3 DEF IInv, Bounded
  <2>8. deps = Needed
    BY <2>4, <2>6, <2>7 DEF Needed
  <2>9. QED
    BY <2>1, <2>8
<1>2. QED
  BY <1>1, InvHolds, TargetFollowsHolds, PTL

==============================================================================
