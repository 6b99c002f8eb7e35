--------------------------- MODULE GraphQLRulesProofs ---------------------------
(***************************************************************************)
(* What a run of the linter looks at, and what the federation prelude      *)
(* contributes, for every tree, configuration and schema.                  *)
(*                                                                         *)
(* The walk upwards to the config file keeps behind it no config file and  *)
(* no top of a repository, so what it stops at is the nearest; and the     *)
(* table a pattern is matched with says of what is left of the pattern     *)
(* and of the path what Covers says of them, which an induction on what is *)
(* left shows.  So the files linted are those asked for that no pattern    *)
(* covers.                                                                 *)
(*                                                                         *)
(* A schema refers to what its files declare, to what is built in and to   *)
(* what their links import.  The preludes declare the imported directives  *)
(* and the scalars of the configuration, and name no type but their own;   *)
(* hence what the validation objects to is never of their making, and what *)
(* it lets pass is known.                                                  *)
(*                                                                         *)
(* The names a schema may reach are finitely many, so the collection that  *)
(* grows while it can stops, at the least set that is closed: what the     *)
(* unreachable types are told from.  Every rule reports places of the      *)
(* schema's files with its own cause, every way of putting reports         *)
(* together keeps that, and so the results of the three parallel groups    *)
(* and the gap-filling are what they are declared to be.                   *)
(***************************************************************************)
EXTENDS GraphQLRules, Ranks, SequenceTheorems

-----------------------------------------------------------------------------
(* Sequences made of sequences. *)

LEMMA ConcatIs ==
  ASSUME NEW T, NEW s \in Seq(T), NEW t \in Seq(T)
  PROVE  s \o t \in Seq(T) /\ ToSet(s \o t) = ToSet(s) \cup ToSet(t)
<1>1. /\ s \o t \in Seq(T) /\ Len(s \o t) = Len(s) + Len(t)
      /\ Len(s) \in Nat /\ Len(t) \in Nat
      /\ DOMAIN s = 1 .. Len(s) /\ DOMAIN t = 1 .. Len(t)
      /\ DOMAIN (s \o t) = 1 .. Len(s) + Len(t)
      /\ \A i \in 1 .. Len(s) + Len(t) :
             (s \o t)[i] = IF i <= Len(s) THEN s[i] ELSE t[i - Len(s)]
  OBVIOUS
<1>2. ASSUME NEW x \in ToSet(s \o t) PROVE x \in ToSet(s) \cup ToSet(t)
  <2>1. PICK i \in 1 .. Len(s) + Len(t) : x = (s \o t)[i]
    BY <1>1 DEF ToSet
  <2>2. CASE i <= Len(s)
    BY <1>1, <2>1, <2>2 DEF ToSet
  <2>3. CASE i > Len(s)
    <3>1. i - Len(s) \in 1 .. Len(t)
      BY <1>1, <2>3
    <3> QED
      BY <1>1, <2>1, <2>3, <3>1 DEF ToSet
  <2> QED
    BY <1>1, <2>2, <2>3
<1>3. ASSUME NEW x \in ToSet(s) PROVE x \in ToSet(s \o t)
  BY <1>1 DEF ToSet
<1>4. ASSUME NEW x \in ToSet(t) PROVE x \in ToSet(s \o t)
  <2>1. PICK i \in 1 .. Len(t) : x = t[i]
    BY <1>1 DEF ToSet
  <2>2. Len(s) + i \in 1 .. Len(s) + Len(t) /\ (s \o t)[Len(s) + i] = t[i]
    BY <1>1, <2>1
  <2> QED
    BY <1>1, <2>1, <2>2 DEF ToSet
<1> QED
  BY <1>1, <1>2, <1>3, <1>4

LEMMA FlattenSeqIs ==
  ASSUME NEW T, NEW seqs \in Seq(Seq(T))
  PROVE  /\ FlattenSeq(seqs) \in Seq(T)
         /\ ToSet(FlattenSeq(seqs)) = UNION {ToSet(seqs[i]) : i \in DOMAIN seqs}
<1> DEFINE N == Len(seqs)
           Step(f, i) == IF i = 1 THEN seqs[i] ELSE f[i - 1] \o seqs[i]
           Flattens(f, n) == f = [i \in 1 .. n |-> Step(f, i)]
<1>1. N \in Nat /\ DOMAIN seqs = 1 .. N /\ \A i \in 1 .. N : seqs[i] \in Seq(T)
  OBVIOUS
<1>2. \A n \in Nat : \E f : Flattens(f, n)
  <2> DEFINE Good == {n \in Nat : \E f : Flattens(f, n)}
  <2>1. ASSUME NEW m \in Nat, \A k \in Nat : k < m => k \in Good
        PROVE  m \in Good
    <3>1. CASE m = 0
      <4>1. Flattens([i \in 1 .. 0 |-> 0], 0)
        OBVIOUS
      <4> QED
        BY <3>1, <4>1
    <3>2. CASE m # 0
      <4>1. m - 1 \in Nat /\ m - 1 < m
        BY <3>2
      <4>2. PICK f : Flattens(f, m - 1)
        BY <2>1, <4>1
      <4> DEFINE g == [i \in 1 .. m |-> IF i = m THEN Step(f, m) ELSE f[i]]
      <4>3. ASSUME NEW i \in 1 .. m PROVE g[i] = Step(g, i)
        <5>1. i # 1 => i - 1 \in 1 .. m - 1 /\ i - 1 \in 1 .. m /\ i - 1 # m
          OBVIOUS
        <5>2. Step(g, i) = Step(f, i)
          BY <5>1
        <5>3. CASE i = m
          BY <5>2, <5>3
        <5>4. CASE i # m
          <6>1. i \in 1 .. m - 1
            BY <5>4
          <6>2. f[i] = Step(f, i)
            BY <4>2, <6>1
          <6> QED
            BY <5>2, <5>4, <6>2
        <5> QED
          BY <5>3, <5>4
      <4>4. Flattens(g, m)
        BY <4>3
      <4> QED
        BY <4>4
    <3> QED
      BY <3>1, <3>2
  <2>2. Nat \subseteq Good
    <3> HIDE DEF Good
    <3> QED
      BY <2>1, Induction
  <2> QED
    BY <2>2
<1>3. ASSUME NEW f, Flattens(f, N)
      PROVE  \A n \in 1 .. N : /\ f[n] \in Seq(T)
                              /\ ToSet(f[n]) = UNION {ToSet(seqs[j]) : j \in 1 .. n}
  <2> DEFINE Right(n) == /\ f[n] \in Seq(T)
                         /\ ToSet(f[n]) = UNION {ToSet(seqs[j]) : j \in 1 .. n}
             Good == {n \in Nat : n \in 1 .. N => Right(n)}
  <2>1. ASSUME NEW m \in Nat, \A k \in Nat : k < m => k \in Good, m \in 1 .. N
        PROVE  Right(m)
    <3>1. f[m] = Step(f, m)
      BY <1>3, <2>1
    <3>2. CASE m = 1
      <4>1. f[m] = seqs[m] /\ 1 .. m = {m}
        BY <3>1, <3>2
      <4> QED
        BY <1>1, <2>1, <4>1
    <3>3. CASE m # 1
      <4>1. /\ m - 1 \in Nat /\ m - 1 < m /\ m - 1 \in 1 .. N
            /\ 1 .. m = (1 .. m - 1) \cup {m}
        BY <1>1, <2>1, <3>3
      <4>2. Right(m - 1)
        BY <2>1, <4>1
      <4>3. f[m] = f[m - 1] \o seqs[m]
        BY <3>1, <3>3
      <4>4. f[m] \in Seq(T) /\ ToSet(f[m]) = ToSet(f[m - 1]) \cup ToSet(seqs[m])
        BY <1>1, <2>1, <4>2, <4>3, ConcatIs
      <4> QED
        BY <4>1, <4>2, <4>4
    <3> QED
      BY <3>2, <3>3
  <2>2. Nat \subseteq Good
    <3>1. \A m \in Nat : (\A k \in Nat : k < m => k \in Good) => m \in Good
      BY <2>1
    <3> HIDE DEF Good
    <3> QED
      BY <3>1, Induction
  <2>3. \A n \in 1 .. N : n \in Nat /\ Right(n)
    <3> HIDE DEF Right
    <3> QED
      BY <1>1, <2>2
  <2> QED
    BY <2>3
<1>4. CASE N = 0
  <2>1. seqs = <<>> /\ FlattenSeq(seqs) = seqs /\ DOMAIN seqs = {}
    BY <1>1, <1>4 DEF FlattenSeq
  <2>2. FlattenSeq(seqs) = <<>> /\ <<>> \in Seq(T)
    BY <2>1
  <2>3. ToSet(FlattenSeq(seqs)) = {}
    BY <2>1 DEF ToSet
  <2>4. UNION {ToSet(seqs[i]) : i \in DOMAIN seqs} = {}
    BY <2>1
  <2> QED
    BY <2>2, <2>3, <2>4
<1>5. CASE N # 0
  <2> DEFINE flatten == CHOOSE f : Flattens(f, N)
  <2>1. N \in 1 .. N
    BY <1>1, <1>5
  <2>2. Flattens(flatten, N)
    BY <1>1, <1>2
  <2>3. FlattenSeq(seqs) = flatten[N]
    BY <1>5 DEF FlattenSeq
  <2>4. flatten[N] \in Seq(T) /\ ToSet(flatten[N]) = UNION {ToSet(seqs[j]) : j \in 1 .. N}
    <3> HIDE DEF Flattens, flatten, N
    <3> QED
      BY <1>3, <2>1, <2>2
  <2> QED
    BY <1>1, <2>3, <2>4
<1> QED
  BY <1>4, <1>5

-----------------------------------------------------------------------------
(* A pattern matches a path exactly if its segments can be laid over it. *)

LEMMA MatchGlobIs ==
  ASSUME NEW pattern \in Path, NEW path \in Path
  PROVE  MatchGlob(pattern, path) <=> Covers(pattern, path)
<1> DEFINE n == Len(pattern)
           L == Len(path)
           Lies(cut, j) == IF pattern[j] = "**" THEN cut[j] <= cut[j + 1]
                           ELSE /\ cut[j + 1] = cut[j] + 1
                                /\ MatchSegment(pattern[j], path[cut[j + 1]])
           Over(i, t) == \E cut \in [1 .. n + 1 -> 0 .. L] :
                             /\ cut[i] = t /\ cut[n + 1] = L
                             /\ \A j \in i .. n : Lies(cut, j)
           Step(f, i, t) == IF i > n THEN t = L
                            ELSE IF pattern[i] = "**"
                              THEN f[<<i + 1, t>>] \/ (t < L /\ f[<<i, t + 1>>])
                            ELSE /\ t < L
                                 /\ MatchSegment(pattern[i], path[t + 1])
                                 /\ f[<<i + 1, t + 1>>]
           Matches(f) == f = [at \in (1 .. n + 1) \X (0 .. L) |-> Step(f, at[1], at[2])]
           over == [at \in (1 .. n + 1) \X (0 .. L) |-> Over(at[1], at[2])]
<1>1. n \in Nat /\ L \in Nat /\ DOMAIN pattern = 1 .. n /\ DOMAIN path = 1 .. L
  BY DEF Path
<1> HIDE DEF n, L, Over
<1>0. ASSUME NEW i \in 1 .. n + 1, NEW t \in 0 .. L
      PROVE  <<i, t>> \in (1 .. n + 1) \X (0 .. L) /\ over[<<i, t>>] = Over(i, t)
  OBVIOUS
<1> HIDE DEF over
<1> USE DEF Over
<1>2. ASSUME NEW i \in 1 .. n + 1, NEW t \in 0 .. L PROVE Over(i, t) <=> Step(over, i, t)
  <2>1. CASE i > n
    <3>1. i = n + 1
      BY <1>1, <2>1
    <3>2. ASSUME t = L PROVE Over(i, t)
      <4> DEFINE cut == [j \in 1 .. n + 1 |-> L]
      <4>1. cut \in [1 .. n + 1 -> 0 .. L] /\ cut[i] = t /\ cut[n + 1] = L
        BY <1>1, <3>1, <3>2
      <4>2. \A j \in i .. n : Lies(cut, j)
        BY <1>1, <3>1
      <4> HIDE DEF cut, Lies
      <4> QED
        BY <4>1, <4>2
    <3>3. Over(i, t) => t = L
      BY <3>1
    <3> HIDE DEF Over
    <3> QED
      BY <2>1, <3>2, <3>3
  <2>2. CASE i \in 1 .. n /\ pattern[i] = "**"
    <3>1. ASSUME NEW cut \in [1 .. n + 1 -> 0 .. L], cut[i] = t, cut[n + 1] = L,
                 \A j \in i .. n : Lies(cut, j)
          PROVE  Over(i + 1, t) \/ (t < L /\ Over(i, t + 1))
      <4>1. cut[i + 1] \in 0 .. L /\ t <= cut[i + 1]
        BY <1>1, <2>2, <3>1
      <4>2. CASE cut[i + 1] = t
        <5>1. \A j \in i + 1 .. n : Lies(cut, j)
          BY <1>1, <2>2, <3>1
        <5> QED
          BY <3>1, <4>2, <5>1
      <4>3. CASE cut[i + 1] > t
        <5> DEFINE later == [cut EXCEPT ![i] = t + 1]
        <5>1. t + 1 \in 0 .. L
          BY <1>1, <4>1, <4>3
        <5>2. later \in [1 .. n + 1 -> 0 .. L] /\ later[i] = t + 1 /\ later[n + 1] = L
          BY <1>1, <2>2, <3>1, <5>1
        <5>3. ASSUME NEW j \in i .. n PROVE Lies(later, j)
          <6>1. /\ j \in 1 .. n + 1 /\ j + 1 \in 1 .. n + 1 /\ j + 1 # i
                /\ later[j + 1] = cut[j + 1]
            BY <1>1, <2>2
          <6>2. Lies(cut, j)
            BY <3>1
          <6>3. CASE j = i
            BY <2>2, <4>1, <4>3, <5>2, <6>1, <6>3
          <6>4. CASE j # i
            <7>1. later[j] = cut[j]
              BY <6>1, <6>4
            <7> QED
              BY <6>1, <6>2, <7>1
          <6> QED
            BY <6>3, <6>4
        <5>4. Over(i, t + 1)
          <6>1. PICK c \in [1 .. n + 1 -> 0 .. L] : c = later
            BY <5>2
          <6>2. c[i] = t + 1 /\ c[n + 1] = L
            BY <5>2, <6>1
          <6>3. \A j \in i .. n : Lies(c, j)
            BY <5>3, <6>1
          <6> HIDE DEF later
          <6> QED
            BY <6>2, <6>3
        <5> HIDE DEF Over
        <5> QED
          BY <1>1, <4>1, <4>3, <5>4
      <4>4. cut[i + 1] = t \/ cut[i + 1] > t
        BY <1>1, <4>1
      <4> QED
        BY <4>2, <4>3, <4>4
    <3>2. ASSUME NEW cut \in [1 .. n + 1 -> 0 .. L], cut[i + 1] = t, cut[n + 1] = L,
                 \A j \in i + 1 .. n : Lies(cut, j)
          PROVE  Over(i, t)
      <4> DEFINE from == [cut EXCEPT ![i] = t]
      <4>1. from \in [1 .. n + 1 -> 0 .. L] /\ from[i] = t /\ from[n + 1] = L
        BY <1>1, <2>2, <3>2
      <4>2. ASSUME NEW j \in i .. n PROVE Lies(from, j)
        <5>1. /\ j \in 1 .. n + 1 /\ j + 1 \in 1 .. n + 1 /\ j + 1 # i
              /\ from[j + 1] = cut[j + 1]
          BY <1>1, <2>2
        <5>2. CASE j = i
          BY <1>1, <2>2, <3>2, <4>1, <5>1, <5>2
        <5>3. CASE j # i
          <6>1. from[j] = cut[j] /\ j \in i + 1 .. n
            BY <1>1, <2>2, <5>1, <5>3
          <6>2. Lies(cut, j)
            BY <3>2, <6>1
          <6> QED
            BY <5>1, <6>1, <6>2
        <5> QED
          BY <5>2, <5>3
      <4> QED
        BY <4>1, <4>2
    <3>3. ASSUME t < L,
                 NEW cut \in [1 .. n + 1 -> 0 .. L], cut[i] = t + 1, cut[n + 1] = L,
                 \A j \in i .. n : Lies(cut, j)
          PROVE  Over(i, t)
      <4> DEFINE from == [cut EXCEPT ![i] = t]
      <4>1. from \in [1 .. n + 1 -> 0 .. L] /\ from[i] = t /\ from[n + 1] = L
        BY <1>1, <2>2, <3>3
      <4>2. ASSUME NEW j \in i .. n PROVE Lies(from, j)
        <5>1. /\ j \in 1 .. n + 1 /\ j + 1 \in 1 .. n + 1 /\ j + 1 # i
              /\ from[j + 1] = cut[j + 1] /\ cut[j + 1] \in 0 .. L
          BY <1>1, <2>2
        <5>2. Lies(cut, j)
          BY <3>3
        <5>3. CASE j = i
          BY <1>1, <2>2, <3>3, <4>1, <5>1, <5>2, <5>3
        <5>4. CASE j # i
          <6>1. from[j] = cut[j]
            BY <5>1, <5>4
          <6> QED
            BY <5>1, <5>2, <6>1
        <5> QED
          BY <5>3, <5>4
      <4> QED
        BY <4>1, <4>2
    <3>4. Over(i, t) <=> Over(i + 1, t) \/ (t < L /\ Over(i, t + 1))
      BY <3>1, <3>2, <3>3
    <3>5. /\ i + 1 \in 1 .. n + 1 /\ over[<<i + 1, t>>] = Over(i + 1, t)
          /\ t < L => t + 1 \in 0 .. L /\ over[<<i, t + 1>>] = Over(i, t + 1)
      <4>1. i + 1 \in 1 .. n + 1 /\ (t < L => t + 1 \in 0 .. L)
        BY <1>1, <2>2
      <4> HIDE DEF Over
      <4> QED
        BY <1>0, <4>1
    <3> HIDE DEF Over
    <3> QED
      BY <1>1, <2>2, <3>4, <3>5
  <2>3. CASE i \in 1 .. n /\ pattern[i] # "**"
    <3>1. ASSUME NEW cut \in [1 .. n + 1 -> 0 .. L], cut[i] = t, cut[n + 1] = L,
                 \A j \in i .. n : Lies(cut, j)
          PROVE  t < L /\ MatchSegment(pattern[i], path[t + 1]) /\ Over(i + 1, t + 1)
      <4>1. cut[i + 1] \in 0 .. L /\ Lies(cut, i)
        BY <1>1, <2>3, <3>1
      <4>2. cut[i + 1] = t + 1 /\ MatchSegment(pattern[i], path[t + 1])
        BY <2>3, <3>1, <4>1
      <4>3. \A j \in i + 1 .. n : Lies(cut, j)
        BY <1>1, <2>3, <3>1
      <4> QED
        BY <1>1, <3>1, <4>1, <4>2, <4>3
    <3>2. ASSUME t < L, MatchSegment(pattern[i], path[t + 1]),
                 NEW cut \in [1 .. n + 1 -> 0 .. L], cut[i + 1] = t + 1, cut[n + 1] = L,
                 \A j \in i + 1 .. n : Lies(cut, j)
          PROVE  Over(i, t)
      <4> DEFINE from == [cut EXCEPT ![i] = t]
      <4>1. from \in [1 .. n + 1 -> 0 .. L] /\ from[i] = t /\ from[n + 1] = L
        BY <1>1, <2>3, <3>2
      <4>2. ASSUME NEW j \in i .. n PROVE Lies(from, j)
        <5>1. /\ j \in 1 .. n + 1 /\ j + 1 \in 1 .. n + 1 /\ j + 1 # i
              /\ from[j + 1] = cut[j + 1]
          BY <1>1, <2>3
        <5>2. CASE j = i
          BY <2>3, <3>2, <4>1, <5>1, <5>2
        <5>3. CASE j # i
          <6>1. from[j] = cut[j] /\ j \in i + 1 .. n
            BY <1>1, <2>3, <5>1, <5>3
          <6>2. Lies(cut, j)
            BY <3>2, <6>1
          <6> QED
            BY <5>1, <6>1, <6>2
        <5> QED
          BY <5>2, <5>3
      <4> QED
        BY <4>1, <4>2
    <3>3. Over(i, t) <=> /\ t < L /\ MatchSegment(pattern[i], path[t + 1])
                         /\ Over(i + 1, t + 1)
      BY <3>1, <3>2
    <3>4. t < L => /\ i + 1 \in 1 .. n + 1 /\ t + 1 \in 0 .. L
                   /\ over[<<i + 1, t + 1>>] = Over(i + 1, t + 1)
      <4>1. i + 1 \in 1 .. n + 1 /\ (t < L => t + 1 \in 0 .. L)
        BY <1>1, <2>3
      <4> HIDE DEF Over
      <4> QED
        BY <1>0, <4>1
    <3> HIDE DEF Over
    <3> QED
      BY <1>1, <2>3, <3>3, <3>4
  <2> HIDE DEF Over
  <2> QED
    BY <1>1, <2>1, <2>2, <2>3
<1>3. Matches(over)
  <2> HIDE DEF Over
  <2>1. ASSUME NEW at \in (1 .. n + 1) \X (0 .. L)
        PROVE  Over(at[1], at[2]) = Step(over, at[1], at[2])
    <3>1. at[1] \in 1 .. n + 1 /\ at[2] \in 0 .. L
      OBVIOUS
    <3>2. Over(at[1], at[2]) \in BOOLEAN /\ Step(over, at[1], at[2]) \in BOOLEAN
      BY DEF Over
    <3> QED
      BY <1>2, <3>1, <3>2
  <2> QED
    BY <2>1 DEF over
<1>4. ASSUME NEW f, Matches(f)
      PROVE  \A i \in 1 .. n + 1, t \in 0 .. L : f[<<i, t>>] = over[<<i, t>>]
  <2> DEFINE Good == {d \in Nat : \A i \in 1 .. n + 1, t \in 0 .. L :
                                     (n + 1 - i) + (L - t) = d => f[<<i, t>>] = over[<<i, t>>]}
  <2>1. ASSUME NEW m \in Nat, \A k \in Nat : k < m => k \in Good,
               NEW i \in 1 .. n + 1, NEW t \in 0 .. L, (n + 1 - i) + (L - t) = m
        PROVE  f[<<i, t>>] = over[<<i, t>>]
    <3>1. f[<<i, t>>] = Step(f, i, t) /\ over[<<i, t>>] = Step(over, i, t)
      BY <1>3, <1>4
    <3>2. ASSUME NEW j \in 1 .. n + 1, NEW u \in 0 .. L, (n + 1 - j) + (L - u) < m
          PROVE  f[<<j, u>>] = over[<<j, u>>]
      <4>1. (n + 1 - j) + (L - u) \in Nat
        BY <1>1
      <4>2. (n + 1 - j) + (L - u) \in Good
        BY <2>1, <3>2, <4>1
      <4> QED
        BY <4>2
    <3>3. i <= n => i + 1 \in 1 .. n + 1 /\ f[<<i + 1, t>>] = over[<<i + 1, t>>]
      <4>1. i <= n => i + 1 \in 1 .. n + 1 /\ (n + 1 - (i + 1)) + (L - t) < m
        BY <1>1, <2>1
      <4> QED
        BY <3>2, <4>1
    <3>4. t < L => t + 1 \in 0 .. L /\ f[<<i, t + 1>>] = over[<<i, t + 1>>]
      <4>1. t < L => t + 1 \in 0 .. L /\ (n + 1 - i) + (L - (t + 1)) < m
        BY <1>1, <2>1
      <4> QED
        BY <3>2, <4>1
    <3>5. i <= n /\ t < L => f[<<i + 1, t + 1>>] = over[<<i + 1, t + 1>>]
      <4>1. i <= n /\ t < L => /\ i + 1 \in 1 .. n + 1 /\ t + 1 \in 0 .. L
                               /\ (n + 1 - (i + 1)) + (L - (t + 1)) < m
        BY <1>1, <2>1
      <4> QED
        BY <3>2, <4>1
    <3>6. Step(f, i, t) = Step(over, i, t)
      <4>1. CASE i > n
        BY <4>1
      <4>2. CASE i <= n /\ pattern[i] = "**"
        <5>1. CASE t < L
          BY <3>3, <3>4, <4>2, <5>1
        <5>2. CASE ~ (t < L)
          BY <3>3, <4>2, <5>2
        <5> QED
          BY <5>1, <5>2
      <4>3. CASE i <= n /\ pattern[i] # "**"
        BY <3>5, <4>3
      <4>4. i > n \/ i <= n
        BY <1>1
      <4> HIDE DEF Step
      <4> QED
        BY <4>1, <4>2, <4>3, <4>4
    <3> QED
      BY <3>1, <3>6
  <2>2. Nat \subseteq Good
    <3>1. \A m \in Nat : (\A k \in Nat : k < m => k \in Good) => m \in Good
      BY <2>1
    <3> HIDE DEF Good
    <3> QED
      BY <3>1, Induction
  <2>3. \A i \in 1 .. n + 1, t \in 0 .. L : (n + 1 - i) + (L - t) \in Nat
    BY <1>1
  <2> QED
    <3> SUFFICES ASSUME NEW i \in 1 .. n + 1, NEW t \in 0 .. L
                 PROVE  f[<<i, t>>] = over[<<i, t>>]
      OBVIOUS
    <3>1. (n + 1 - i) + (L - t) \in Good
      BY <2>2, <2>3
    <3> QED
      BY <3>1
<1>5. 1 \in 1 .. n + 1 /\ 0 \in 0 .. L
  BY <1>1
<1> DEFINE matches == CHOOSE f : Matches(f)
<1>6. Matches(matches)
  BY <1>3
<1>7. MatchGlob(pattern, path) = matches[<<1, 0>>]
  BY DEF MatchGlob, n, L
<1>8. matches[<<1, 0>>] = Over(1, 0)
  <2>1. matches[<<1, 0>>] = over[<<1, 0>>]
    <3> HIDE DEF Matches, matches, over
    <3> QED
      BY <1>4, <1>5, <1>6
  <2> QED
    BY <1>0, <1>5, <2>1
<1>9. Over(1, 0) <=> Covers(pattern, path)
  BY <1>1 DEF Covers, n, L
<1> QED
  BY <1>7, <1>8, <1>9

-----------------------------------------------------------------------------
(* The directories at and above the working directory. *)

LEMMA PrefixIs ==
  ASSUME NEW s \in Path, NEW t \in Path
  PROVE  IsPrefix(s, t) <=> Len(s) <= Len(t) /\ s = SubSeq(t, 1, Len(s))
<1>1. Len(s) \in Nat /\ Len(t) \in Nat /\ s = SubSeq(s, 1, Len(s))
  BY DEF Path
<1> QED
  BY <1>1 DEF IsPrefix

LEMMA PrefixesOfOne ==
  ASSUME NEW s \in Path, NEW t \in Path, NEW u \in Path,
         IsPrefix(s, u), IsPrefix(t, u), Len(s) <= Len(t)
  PROVE  IsPrefix(s, t) /\ (Len(s) = Len(t) => s = t)
<1>1. s = SubSeq(u, 1, Len(s)) /\ t = SubSeq(u, 1, Len(t)) /\ Len(t) <= Len(u)
  BY PrefixIs
<1>2. Len(s) \in Nat /\ Len(t) \in Nat /\ Len(u) \in Nat
  BY DEF Path
<1>3. SubSeq(t, 1, Len(s)) = s
  <2> DEFINE a == SubSeq(t, 1, Len(s))
  <2>1. a \in Seq(STRING) /\ Len(a) = Len(s) /\ \A i \in 1 .. Len(s) : a[i] = t[i]
    BY <1>2 DEF Path
  <2>2. \A i \in 1 .. Len(s) : s[i] = u[i] /\ t[i] = u[i]
    BY <1>1, <1>2 DEF Path
  <2> QED
    BY <1>2, <2>1, <2>2 DEF Path
<1> QED
  BY <1>1, <1>3, PrefixIs

LEMMA Parent ==
  ASSUME NEW d \in Path, NEW t \in Path, IsPrefix(d, t), d # <<>>
  PROVE  Front(d) \in Path /\ IsPrefix(Front(d), t) /\ Len(Front(d)) = Len(d) - 1
<1>1. Len(d) \in Nat \ {0} /\ Len(t) \in Nat /\ Len(d) <= Len(t) /\ d = SubSeq(t, 1, Len(d))
  BY PrefixIs DEF Path
<1>2. Front(d) \in Path /\ Len(Front(d)) = Len(d) - 1
  BY <1>1 DEF Front, Path
<1>3. SubSeq(t, 1, Len(d) - 1) = Front(d)
  <2>1. /\ SubSeq(t, 1, Len(d) - 1) \in Path
        /\ Len(SubSeq(t, 1, Len(d) - 1)) = Len(d) - 1
        /\ \A i \in 1 .. Len(d) - 1 : SubSeq(t, 1, Len(d) - 1)[i] = t[i]
    BY <1>1 DEF Path
  <2>2. \A i \in 1 .. Len(d) - 1 : Front(d)[i] = d[i] /\ d[i] = t[i]
    BY <1>1 DEF Path, Front
  <2> QED
    BY <1>1, <1>2, <2>1, <2>2 DEF Path
<1>4. Len(Front(d)) <= Len(t) /\ Front(d) = SubSeq(t, 1, Len(Front(d)))
  BY <1>1, <1>2, <1>3
<1> QED
  BY <1>2, <1>4, PrefixIs

-----------------------------------------------------------------------------
(* The way to the files.  While the directories are gone through upwards,  *)
(* no config file and no top of a repository has been passed; then what    *)
(* was decoded is of the file asked for, and the files found are those     *)
(* asked for.                                                              *)

Searching ==
  pc = "discover" =>
    /\ world.flag = <<>>
    /\ dir \in Path /\ IsPrefix(dir, world.cwd)
    /\ \A d \in Candidates : Len(d) <= Len(dir)
    /\ \A g \in world.gits : IsPrefix(g, world.cwd) => Len(g) <= Len(dir)

Loading ==
  /\ pc \in {"discover", "load"} => config = BuiltIn
  /\ pc = "load" => FileAsked = <<ConfigFile>> /\ IsConfigFile(ConfigFile)

Loaded ==
  pc \in Stages \ {"discover", "load", "error"} => config = ConfigAsked /\ IsConfigFile(config)

\* The files linted: the code matches every pattern with the path as given.
FilesTaken == {f \in FilesNamed : ~Excluded(f, f.shown)}

Gathered ==
  pc \in Stages \ {"discover", "load", "find", "error"} => ToSet(files) = FilesTaken /\ IsSeq(files)

Locating == world \in Worlds /\ Searching /\ Loading /\ Loaded /\ Gathered

LEMMA WorldIs ==
  ASSUME world \in Worlds
  PROVE  IsWorld(world)
BY WorldsAssumption

LEMMA NearestIs ==
  ASSUME world \in Worlds, NEW d \in Candidates, \A e \in Candidates : Len(e) <= Len(d)
  PROVE  NearestConfig = <<d>>
<1> DEFINE c == CHOOSE d1 \in Candidates : \A e \in Candidates : Len(e) <= Len(d1)
<1>1. c \in Candidates /\ \A e \in Candidates : Len(e) <= Len(c)
  OBVIOUS
<1>2. NearestConfig = <<c>>
  BY DEF NearestConfig
<1> HIDE DEF c
<1>3. /\ c \in Path /\ d \in Path /\ world.cwd \in Path
      /\ IsPrefix(c, world.cwd) /\ IsPrefix(d, world.cwd)
  BY <1>1, WorldIs DEF Candidates, IsWorld
<1>4. Len(c) \in Nat /\ Len(d) \in Nat
  BY <1>3 DEF Path
<1>5. Len(c) = Len(d)
  BY <1>1, <1>4
<1>6. c = d
  BY <1>3, <1>4, <1>5, PrefixesOfOne
<1> QED
  BY <1>2, <1>6

LEMMA LocatingInit == InitConfig => Locating
<1> SUFFICES ASSUME InitConfig PROVE Locating
  OBVIOUS
<1>1. world \in Worlds /\ IsWorld(world) /\ world.cwd \in Path
  BY WorldIs DEF InitConfig, IsWorld
<1>2. Searching
  <2> SUFFICES ASSUME pc = "discover"
               PROVE  /\ world.flag = <<>> /\ dir = world.cwd
                      /\ IsPrefix(dir, world.cwd)
                      /\ \A d \in Candidates : Len(d) <= Len(dir)
                      /\ \A g \in world.gits : IsPrefix(g, world.cwd) => Len(g) <= Len(dir)
    BY <1>1 DEF Searching
  <2>1. world.flag = <<>> /\ dir = world.cwd
    BY DEF InitConfig
  <2>2. IsPrefix(world.cwd, world.cwd)
    <3>1. Len(world.cwd) \in Nat
      BY <1>1 DEF Path
    <3> QED
      BY <3>1 DEF IsPrefix
  <2>3. \A d \in Candidates : Len(d) <= Len(dir)
    BY <2>1 DEF Candidates, IsPrefix
  <2>4. \A g \in world.gits : IsPrefix(g, world.cwd) => Len(g) <= Len(dir)
    BY <2>1 DEF IsPrefix
  <2> QED
    BY <2>1, <2>2, <2>3, <2>4
<1>3. Loading
  BY <1>1 DEF InitConfig, Loading, FileAsked, ConfigFile, IsWorld
<1>4. Loaded /\ Gathered
  BY DEF InitConfig, Loaded, Gathered
<1> QED
  BY <1>1, <1>2, <1>3, <1>4 DEF Locating

LEMMA Discovering ==
  ASSUME Locating, Discover
  PROVE  Locating'
<1>1. /\ pc = "discover" /\ UNCHANGED <<world, config, files>> /\ IsWorld(world)
      /\ world.flag = <<>> /\ dir \in Path /\ IsPrefix(dir, world.cwd)
      /\ \A d \in Candidates : Len(d) <= Len(dir)
      /\ \A g \in world.gits : IsPrefix(g, world.cwd) => Len(g) <= Len(dir)
      /\ config = BuiltIn /\ world \in Worlds
  BY WorldIs DEF Discover, Locating, Searching, Loading
<1>2. /\ world.cwd \in Path /\ Candidates \subseteq Path /\ world.gits \subseteq Path
      /\ \A d \in Path : Len(d) \in Nat
  BY <1>1 DEF IsWorld, Candidates, Path
<1>3. CASE dir \in DOMAIN world.configs
  <2>1. pc' = "load" /\ configDir' = <<dir>>
    BY <1>3 DEF Discover
  <2>2. dir \in Candidates
    <3>1. ASSUME NEW g \in world.gits, IsStrictPrefix(dir, g), IsPrefix(g, world.cwd) PROVE FALSE
      <4>1. Len(g) <= Len(dir) /\ Len(dir) <= Len(g) /\ dir # g /\ g \in Path
        BY <1>1, <1>2, <3>1 DEF IsStrictPrefix, IsPrefix
      <4> QED
        BY <1>1, <1>2, <3>1, <4>1, PrefixesOfOne
    <3> QED
      BY <1>1, <1>3, <3>1 DEF Candidates, InRepository
  <2>3. NearestConfig = <<dir>>
    BY <1>1, <2>2, NearestIs
  <2>4. FileAsked' = <<ConfigFile'>>
    <3>1. FileAsked' = FileAsked
      BY <1>1 DEF FileAsked, NearestConfig, Candidates, InRepository
    <3>2. FileAsked = <<world.configs[dir]>>
      BY <1>1, <2>3 DEF FileAsked
    <3>3. ConfigFile' = world.configs[dir]
      BY <1>1, <2>1 DEF ConfigFile
    <3> QED
      BY <3>1, <3>2, <3>3
  <2>5. IsConfigFile(ConfigFile')
    BY <1>1, <1>3, <2>1 DEF ConfigFile, IsWorld
  <2> QED
    BY <1>1, <2>1, <2>4, <2>5 DEF Locating, Searching, Loading, Loaded, Gathered
<1>4. CASE dir \notin DOMAIN world.configs /\ AtTop
  <2>1. pc' = "find"
    BY <1>4 DEF Discover
  <2>2. ASSUME NEW d \in Candidates PROVE FALSE
    <3>1. d \in Path /\ IsPrefix(d, world.cwd) /\ d # dir /\ Len(d) <= Len(dir) /\ InRepository(d)
      BY <1>1, <1>2, <1>4 DEF Candidates
    <3>2. IsPrefix(d, dir) /\ IsStrictPrefix(d, dir)
      BY <1>1, <1>2, <3>1, PrefixesOfOne DEF IsStrictPrefix
    <3>3. dir \notin world.gits
      BY <1>1, <3>1, <3>2 DEF InRepository
    <3>4. dir = <<>>
      BY <1>4, <3>3 DEF AtTop
    <3>5. Len(d) = 0
      BY <1>2, <3>1, <3>4
    <3> QED
      BY <3>1, <3>4, <3>5 DEF Path
  <2>3. FileAsked = <<>>
    BY <1>1, <2>2 DEF FileAsked, NearestConfig
  <2>4. ConfigAsked' = BuiltIn
    BY <1>1, <2>3 DEF ConfigAsked, FileAsked, NearestConfig, Candidates, InRepository
  <2>5. IsConfigFile(BuiltIn)
    <3>1. BuiltIn.exclude = {} /\ BuiltIn.scalars = <<>>
      BY DEF BuiltIn
    <3>2. <<>> \in Seq(Name)
      OBVIOUS
    <3> QED
      BY <3>1, <3>2 DEF IsConfigFile
  <2> QED
    BY <1>1, <2>1, <2>4, <2>5 DEF Locating, Searching, Loading, Loaded, Gathered
<1>5. CASE dir \notin DOMAIN world.configs /\ ~AtTop
  <2>1. dir' = Front(dir) /\ pc' = pc
    BY <1>5 DEF Discover
  <2>2. /\ Front(dir) \in Path /\ IsPrefix(Front(dir), world.cwd) /\ Len(Front(dir)) = Len(dir) - 1
    BY <1>1, <1>2, <1>5, Parent DEF AtTop
  <2>3. ASSUME NEW d \in Path, IsPrefix(d, world.cwd), Len(d) <= Len(dir), d # dir
        PROVE  Len(d) <= Len(dir) - 1
    <3>1. Len(d) # Len(dir)
      BY <1>1, <1>2, <2>3, PrefixesOfOne
    <3> QED
      BY <1>1, <1>2, <3>1, <2>3
  <2>4. \A d \in Candidates : Len(d) <= Len(Front(dir))
    <3> SUFFICES ASSUME NEW d \in Candidates PROVE Len(d) <= Len(Front(dir))
      OBVIOUS
    <3>1. d \in Path /\ IsPrefix(d, world.cwd) /\ Len(d) <= Len(dir) /\ d # dir
      BY <1>1, <1>2, <1>5 DEF Candidates
    <3> QED
      BY <2>2, <2>3, <3>1
  <2>5. \A g \in world.gits : IsPrefix(g, world.cwd) => Len(g) <= Len(Front(dir))
    <3> SUFFICES ASSUME NEW g \in world.gits, IsPrefix(g, world.cwd)
                 PROVE  Len(g) <= Len(Front(dir))
      OBVIOUS
    <3>1. g \in Path /\ Len(g) <= Len(dir) /\ g # dir
      BY <1>1, <1>2, <1>5 DEF AtTop
    <3> QED
      BY <2>2, <2>3, <3>1
  <2>6. Candidates' = Candidates
    BY <1>1 DEF Candidates, InRepository
  <2> QED
    BY <1>1, <2>1, <2>2, <2>4, <2>5, <2>6 DEF Locating, Searching, Loading, Loaded, Gathered
<1> QED
  BY <1>3, <1>4, <1>5

LEMMA LoadingFile ==
  ASSUME Locating, LoadFile
  PROVE  Locating'
<1>1. /\ pc = "load" /\ UNCHANGED <<world, files>> /\ world \in Worlds
      /\ FileAsked = <<ConfigFile>> /\ IsConfigFile(ConfigFile)
  BY DEF LoadFile, Locating, Loading
<1>2. CASE BadConfig(ConfigFile)
  <2>1. pc' = "error"
    BY <1>2 DEF LoadFile
  <2> QED
    BY <1>1, <2>1 DEF Locating, Searching, Loading, Loaded, Gathered
<1>3. CASE ~BadConfig(ConfigFile)
  <2>1. pc' = "find" /\ config' = Lint(ConfigFile)
    BY <1>3 DEF LoadFile
  <2>2. ConfigAsked' = ConfigAsked
    BY <1>1 DEF ConfigAsked, FileAsked, NearestConfig, Candidates, InRepository
  <2>3. ConfigAsked = Lint(ConfigFile)
    BY <1>1 DEF ConfigAsked
  <2> QED
    BY <1>1, <2>1, <2>2, <2>3 DEF Locating, Searching, Loading, Loaded, Gathered, Lint, IsConfigFile
<1> QED
  BY <1>2, <1>3

(* A file is found at most once under each of the paths given. *)
LEMMA FoundIsFinite ==
  ASSUME NEW w, IsWorld(w), NEW given, NEW excludes
  PROVE  IsFiniteSet(FindGraphQLFiles(w, given, excludes))
<1> DEFINE S == FindGraphQLFiles(w, given, excludes)
           at == [f \in S |-> f.path]
<1>1. at \in Injection(S, DOMAIN w.tree)
  <2>1. \A f \in S : f.path \in DOMAIN w.tree
    BY DEF FindGraphQLFiles, Found
  <2> DEFINE root == Absolute(w, given)
             below(p) == [shown |-> Named(given) \o SubSeq(p, Len(root) + 1, Len(p)), path |-> p]
  <2>2. ASSUME NEW f \in S PROVE f = IF root \in DOMAIN w.tree THEN [shown |-> given, path |-> root]
                                     ELSE below(f.path)
    <3>1. CASE root \in DOMAIN w.tree
      BY <3>1 DEF FindGraphQLFiles, Found
    <3>2. CASE root \notin DOMAIN w.tree
      <4>1. \E p \in DOMAIN w.tree : f = below(p)
        BY <3>2 DEF FindGraphQLFiles, Found
      <4> QED
        BY <3>2, <4>1
    <3> QED
      BY <3>1, <3>2
  <2>3. \A f, g \in S : f.path = g.path => f = g
    <3> HIDE DEF S, root, below
    <3> QED
      BY <2>2
  <2> QED
    BY <2>1, <2>3 DEF Injection, IsInjective
<1> QED
  BY <1>1, FS_Injection DEF IsWorld

LEMMA OccurrencesAre ==
  ASSUME NEW w, IsWorld(w), NEW excludes
  PROVE  /\ IsFiniteSet(Occurrences(w, excludes))
         /\ {o.file : o \in Occurrences(w, excludes)}
               = UNION {FindGraphQLFiles(w, a, excludes) : a \in ToSet(w.args)}
<1> DEFINE Under(i) == {[file |-> f, arg |-> i] : f \in FindGraphQLFiles(w, w.args[i], excludes)}
           all == {Under(i) : i \in DOMAIN w.args}
<1>1. IsFiniteSet(DOMAIN w.args)
  <2>1. w.args \in Seq(Path)
    BY DEF IsWorld
  <2>2. DOMAIN w.args = 1 .. Len(w.args) /\ Len(w.args) \in Nat
    BY <2>1
  <2> QED
    BY <2>2, FS_Interval
<1>2. ASSUME NEW i \in DOMAIN w.args PROVE IsFiniteSet(Under(i))
  <2> DEFINE S == FindGraphQLFiles(w, w.args[i], excludes)
             of == [f \in S |-> [file |-> f, arg |-> i]]
  <2>1. of \in Surjection(S, Under(i))
    BY DEF Surjection
  <2>2. IsFiniteSet(S)
    BY FoundIsFinite
  <2> QED
    BY <2>1, <2>2, FS_Surjection
<1>3. IsFiniteSet(all)
  <2> DEFINE under == [i \in DOMAIN w.args |-> Under(i)]
  <2>1. under \in Surjection(DOMAIN w.args, all)
    BY DEF Surjection
  <2> HIDE DEF under
  <2> QED
    BY <1>1, <2>1, FS_Surjection
<1>4. IsFiniteSet(UNION all)
  <2>1. \A T \in all : IsFiniteSet(T)
    BY <1>2
  <2> HIDE DEF all
  <2> QED
    BY <1>3, <2>1, FS_UNION
<1>5. Occurrences(w, excludes) = UNION all
  BY DEF Occurrences
<1>6. ASSUME NEW f
      PROVE  f \in {o.file : o \in Occurrences(w, excludes)}
               <=> \E i \in DOMAIN w.args : f \in FindGraphQLFiles(w, w.args[i], excludes)
  <2>1. ASSUME NEW o \in Occurrences(w, excludes)
        PROVE  \E i \in DOMAIN w.args : o.file \in FindGraphQLFiles(w, w.args[i], excludes)
    BY DEF Occurrences
  <2>2. ASSUME NEW i \in DOMAIN w.args, f \in FindGraphQLFiles(w, w.args[i], excludes)
        PROVE  \E o \in Occurrences(w, excludes) : o.file = f
    <3>1. [file |-> f, arg |-> i] \in Occurrences(w, excludes)
      BY <2>2 DEF Occurrences
    <3> QED
      BY <3>1
  <2> QED
    BY <2>1, <2>2
<1>7. {o.file : o \in Occurrences(w, excludes)}
        = UNION {FindGraphQLFiles(w, a, excludes) : a \in ToSet(w.args)}
  BY <1>6 DEF ToSet
<1> QED
  BY <1>4, <1>5, <1>7

(* Whatever order they come in, the files are those that occur. *)
LEMMA OrdersAre ==
  ASSUME NEW w, NEW found, IsFiniteSet(found), NEW order \in Orders(w, found)
  PROVE  LET shown == [k \in DOMAIN order |-> order[k].file]
         IN  ToSet(shown) = {o.file : o \in found} /\ IsSeq(shown)
<1> DEFINE N == Cardinality(found)
<1>1. N \in Nat
  BY FS_CardinalityType
<1>2. order \in [1 .. N -> found] /\ \A i, j \in 1 .. N : i # j => order[i] # order[j]
  BY DEF Orders, SetToSeqs
<1>3. order \in Injection(1 .. N, found)
  BY <1>2 DEF Injection, IsInjective
<1>4. IsFiniteSet(1 .. N) /\ Cardinality(1 .. N) = N
  BY <1>1, FS_Interval
<1>5. order \in Surjection(1 .. N, found)
  BY <1>3, <1>4, FS_Injection
<1>6. \A o \in found : \E k \in 1 .. N : order[k] = o
  BY <1>5 DEF Surjection
<1>7. ToSet([k \in DOMAIN order |-> order[k].file]) = {o.file : o \in found}
  BY <1>2, <1>6 DEF ToSet
<1>8. IsSeq([k \in DOMAIN order |-> order[k].file])
  <2> DEFINE shown == [k \in DOMAIN order |-> order[k].file]
  <2>1. shown \in [1 .. N -> ToSet(shown)]
    BY <1>2 DEF ToSet
  <2> QED
    BY <1>1, <2>1, SeqDef DEF IsSeq
<1> QED
  BY <1>7, <1>8

LEMMA WhenIs ==
  ASSUME NEW T, NEW x \in T, NEW condition
  PROVE  /\ When(condition, x) \in Seq(T)
         /\ ToSet(When(condition, x)) = IF condition THEN {x} ELSE {}
<1>1. <<x>> \in Seq(T) /\ <<>> \in Seq(T)
  OBVIOUS
<1>2. ToSet(<<x>>) = {x} /\ ToSet(<<>>) = {}
  BY DEF ToSet
<1> QED
  BY <1>1, <1>2 DEF When

LEMMA NamedIs ==
  ASSUME NEW path \in Path
  PROVE  Named(path) \in Path
<1> DEFINE parts == [i \in DOMAIN path |-> When(path[i] # ".", path[i])]
<1>1. parts \in Seq(Seq(STRING))
  <2>1. Len(path) \in Nat /\ DOMAIN path = 1 .. Len(path) /\ \A i \in DOMAIN path : path[i] \in STRING
    BY DEF Path
  <2>2. \A i \in DOMAIN path : When(path[i] # ".", path[i]) \in Seq(STRING)
    BY <2>1, WhenIs
  <2>3. parts \in [1 .. Len(path) -> Seq(STRING)]
    BY <2>1, <2>2
  <2> QED
    BY <2>1, <2>3, SeqDef
<1>2. Named(path) = FlattenSeq(parts)
  BY DEF Named, Filter, ForEach
<1> HIDE DEF parts
<1> QED
  BY <1>1, <1>2, FlattenSeqIs DEF Path

LEMMA ShownIs ==
  ASSUME NEW w, IsWorld(w), NEW given \in Path, NEW f \in Found(w, given)
  PROVE  f.shown \in Path
<1> DEFINE root == Absolute(w, given)
<1>1. Named(given) \in Path /\ root \in Path /\ Len(root) \in Nat
  <2>1. Named(given) \in Path
    BY NamedIs
  <2> QED
    BY <2>1 DEF Absolute, IsWorld, Path
<1>2. CASE root \in DOMAIN w.tree
  BY <1>2 DEF Found
<1>3. CASE root \notin DOMAIN w.tree
  <2>1. PICK p \in DOMAIN w.tree :
            f = [shown |-> Named(given) \o SubSeq(p, Len(root) + 1, Len(p)), path |-> p]
    BY <1>3 DEF Found
  <2>2. p \in Path /\ Len(p) \in Nat
    BY DEF IsWorld, Path
  <2>3. SubSeq(p, Len(root) + 1, Len(p)) \in Path
    BY <1>1, <2>2 DEF Path
  <2> QED
    BY <1>1, <2>1, <2>3 DEF Path
<1> QED
  BY <1>2, <1>3

LEMMA Finding ==
  ASSUME Locating, Find
  PROVE  Locating'
<1> DEFINE excludes == MergeExcludes(config, world.excludes)
<1>1. /\ pc = "find" /\ UNCHANGED <<world, config>> /\ world \in Worlds /\ IsWorld(world)
      /\ config = ConfigAsked /\ IsConfigFile(config)
  BY WorldIs DEF Find, Locating, Loaded, Stages
<1>2. ConfigAsked' = ConfigAsked /\ FilesTaken' = FilesTaken
  BY <1>1 DEF ConfigAsked, FilesTaken, FilesNamed, Excluded, FileAsked, NearestConfig, Candidates,
         InRepository
<1>3. CASE pc' = "error"
  BY <1>1, <1>3 DEF Locating, Searching, Loading, Loaded, Gathered
<1>4. CASE pc' # "error"
  <2>1. PICK order \in Orders(world, Occurrences(world, excludes)) :
            pc' = "prelude" /\ files' = [k \in DOMAIN order |-> order[k].file]
    BY <1>4 DEF Find
  <2>2. /\ ToSet(files') = UNION {FindGraphQLFiles(world, a, excludes) : a \in ToSet(world.args)}
        /\ IsSeq(files')
    BY <1>1, <2>1, OccurrencesAre, OrdersAre
  <2>3. excludes = world.excludes \cup IF FileAsked = <<>> THEN {} ELSE FileAsked[1].exclude
    BY <1>1 DEF MergeExcludes, ConfigAsked, BuiltIn, Lint
  <2>4. excludes \subseteq Path
    BY <1>1 DEF MergeExcludes, IsWorld, IsConfigFile
  <2>5. \A a \in ToSet(world.args) : a \in Path
    BY <1>1 DEF IsWorld, ToSet
  <2> HIDE DEF excludes
  <2>6. ASSUME NEW a \in ToSet(world.args), NEW f \in Found(world, a)
        PROVE  MatchesAny(excludes, f.shown) <=> \E p \in excludes : Covers(p, f.shown)
    BY <1>1, <2>4, <2>5, <2>6, ShownIs, MatchGlobIs DEF MatchesAny
  <2>7. ToSet(files') = {f \in UNION {Found(world, a) : a \in ToSet(world.args)} :
                            \A p \in excludes : ~Covers(p, f.shown)}
    BY <2>2, <2>6 DEF FindGraphQLFiles
  <2>8. ToSet(files') = FilesTaken
    BY <2>3, <2>7 DEF FilesTaken, FilesNamed, Excluded
  <2>9. ToSet(files)' = ToSet(files') /\ IsSeq(files)' = IsSeq(files')
    BY DEF ToSet, IsSeq
  <2> QED
    BY <1>1, <1>2, <2>1, <2>2, <2>8, <2>9 DEF Locating, Searching, Loading, Loaded, Gathered
<1> QED
  BY <1>3, <1>4

(* Nothing that follows changes what was located. *)
LEMMA LocatedStays ==
  ASSUME Locating, pc \in Stages \ {"discover", "load", "find", "error"},
         UNCHANGED <<world, dir, config, configDir, files>>,
         pc' \in Stages \ {"discover", "load", "find"}
  PROVE  Locating'
<1>1. ConfigAsked' = ConfigAsked /\ FilesTaken' = FilesTaken
  BY DEF ConfigAsked, FilesTaken, FilesNamed, Excluded, FileAsked, NearestConfig, Candidates,
         InRepository
<1>2. ToSet(files)' = ToSet(files) /\ IsSeq(files)' = IsSeq(files)
  BY DEF ToSet, IsSeq
<1> QED
  BY <1>1, <1>2 DEF Locating, Searching, Loading, Loaded, Gathered

LEMMA LocatingUnchanged ==
  ASSUME Locating, UNCHANGED configVars
  PROVE  Locating'
<1>1. /\ UNCHANGED <<world, pc, dir, config, configDir, files>>
      /\ ConfigAsked' = ConfigAsked /\ FilesTaken' = FilesTaken /\ FileAsked' = FileAsked
      /\ ConfigFile' = ConfigFile /\ Candidates' = Candidates /\ ToSet(files)' = ToSet(files)
      /\ IsSeq(files)' = IsSeq(files)
  BY DEF configVars, ConfigAsked, FilesTaken, FilesNamed, Excluded, FileAsked, NearestConfig, Candidates,
         InRepository, ConfigFile, ToSet, IsSeq
<1> QED
  BY <1>1 DEF Locating, Searching, Loading, Loaded, Gathered

LEMMA LocatingStep == Locating /\ [Next]_vars => Locating'
<1> SUFFICES ASSUME Locating, [Next]_vars PROVE Locating'
  OBVIOUS
<1>1. CASE Configure
  BY <1>1, Discovering, LoadingFile, Finding DEF Configure
<1>2. CASE ReadFiles
  BY <1>2, LocatedStays DEF ReadFiles, Go, Stages
<1>3. CASE AddPreludes
  BY <1>3, LocatedStays DEF AddPreludes, Go, GiveUp, Refuse, Stages
<1>4. CASE Validate
  BY <1>4, LocatedStays DEF Validate, Go, Refuse, Stages
<1>5. CASE FillGaps
  BY <1>5, LocatedStays DEF FillGaps, Go, Stages
<1>6. CASE \E g \in Groups : Finish(g)
  BY <1>6, LocatingUnchanged DEF Finish
<1>7. CASE Gather
  BY <1>7, LocatedStays DEF Gather, Go, GiveUp, Stages
<1>8. CASE UNCHANGED vars
  BY <1>8, LocatingUnchanged DEF vars
<1> QED
  BY <1>1, <1>2, <1>3, <1>4, <1>5, <1>6, <1>7, <1>8 DEF Next

(***************************************************************************)
(* Wherever the command is started, the lint is configured by the file     *)
(* asked for, and the files it reads are among those under the paths       *)
(* given: none that is excluded by the names as given and relative to the  *)
(* config file both, and every one that is excluded by neither.            *)
(***************************************************************************)
THEOREM LintsWhatIsAskedHolds == Spec => []LintsWhatIsAsked
<1>1. Init => Locating
  BY LocatingInit DEF Init
<1>2. Locating => LintsWhatIsAsked
  BY DEF Locating, Loaded, Gathered, FilesTaken, LintsWhatIsAsked
<1> QED
  BY <1>1, <1>2, LocatingStep, PTL DEF Spec

-----------------------------------------------------------------------------
(* What the preludes declare.  The documents are looked at without their   *)
(* positions: the definitions of the files, and those of the preludes.     *)

DefsIn(docs, prelude) == UNION {ToSet(d.defs) : d \in {d \in docs : d.prelude = prelude}}
DeclaredIn(defs) == {d.name : d \in {d \in defs : d.kind = "Directive" /\ d.ext = FALSE}}
ScalarsIn(defs) == {d.name : d \in {d \in defs : d.kind = "Scalar" /\ d.ext = FALSE}}
LinksIn(defs) ==
  {l \in UNION {ToSet(d.dirs) : d \in {d \in defs : d.kind = "Schema" /\ d.ext = TRUE}} :
      l.name = Link /\ l.version # ""}
Names(links) == UNION {{Alias(i) : i \in ToSet(l.imports)} \cup {Link} : l \in links}
ImportedBy(federation, links) == IF federation = "" THEN {} ELSE Names(links)

(* Definitions that refer to no type but to their own scalars. *)
Closed(defs) ==
  \A d \in defs :
      /\ d.ext = FALSE /\ d.type = <<>> /\ d.refs = <<>>
      /\ \A j \in DOMAIN d.nodes : d.nodes[j].args = <<>> /\ d.nodes[j].type \in ScalarsIn(defs)

(* A sequence is one of its own elements. *)
LEMMA OfItsOwn ==
  ASSUME NEW T, NEW s \in Seq(T)
  PROVE  IsSeq(s) /\ ToSet(s) \subseteq T
<1>1. s \in [1 .. Len(s) -> ToSet(s)] /\ Len(s) \in Nat
  BY DEF ToSet
<1> QED
  BY <1>1, SeqDef DEF IsSeq, ToSet

LEMMA OfMore ==
  ASSUME NEW A, NEW B, A \subseteq B, NEW s \in Seq(A)
  PROVE  s \in Seq(B)
<1>1. Len(s) \in Nat /\ s \in [1 .. Len(s) -> B]
  OBVIOUS
<1> QED
  BY <1>1, SeqDef

(* ForEach, of a function. *)
Each(f, s) == FlattenSeq([i \in DOMAIN s |-> f[s[i]]])

LEMMA ForEachIs ==
  ASSUME NEW S, NEW T, NEW s \in Seq(S), NEW f, \A x \in S : f[x] \in Seq(T)
  PROVE  Each(f, s) \in Seq(T) /\ ToSet(Each(f, s)) = UNION {ToSet(f[x]) : x \in ToSet(s)}
<1> DEFINE seqs == [i \in DOMAIN s |-> f[s[i]]]
<1>1. Len(s) \in Nat /\ DOMAIN s = 1 .. Len(s) /\ \A i \in DOMAIN s : s[i] \in S
  OBVIOUS
<1>2. seqs \in Seq(Seq(T))
  <2>1. seqs \in [1 .. Len(s) -> Seq(T)]
    BY <1>1
  <2> QED
    BY <1>1, <2>1, SeqDef
<1>3. UNION {ToSet(seqs[i]) : i \in DOMAIN seqs} = UNION {ToSet(f[x]) : x \in ToSet(s)}
  BY DEF ToSet
<1>4. FlattenSeq(seqs) \in Seq(T) /\ ToSet(FlattenSeq(seqs)) = UNION {ToSet(seqs[i]) : i \in DOMAIN seqs}
  <2> HIDE DEF seqs
  <2> QED
    BY <1>2, FlattenSeqIs
<1> QED
  BY <1>3, <1>4 DEF Each

LEMMA PlainIs ==
  ASSUME NEW kind, NEW name \in Name
  PROVE  /\ IsDefinition(Plain(kind, name)) /\ IsNode(Node(name))
         /\ LET e == Plain(kind, name)
            IN  /\ e.name = name /\ e.kind = kind /\ e.ext = FALSE /\ e.type = <<>> /\ e.refs = <<>>
                /\ e.dirs = <<>> /\ e.nodes = <<>>
<1>1. IsSeq(<<>>) /\ DOMAIN <<>> = {} /\ <<>> \in Seq(Name) /\ <<>> \in Name
  <2>1. <<>> \in Seq(ToSet(<<>>)) /\ DOMAIN <<>> = {} /\ <<>> \in Seq(Name) /\ <<>> \in Seq(Int)
    OBVIOUS
  <2> QED
    BY <2>1 DEF IsSeq, Name
<1>2. IsNode(Node(name))
  BY <1>1 DEF IsNode, Node
<1>3. IsFiniteSet({})
  BY FS_EmptySet
<1> DEFINE e == Plain(kind, name)
<1>4. /\ e.name = name /\ e.kind = kind /\ e.ext = FALSE /\ e.type = <<>> /\ e.refs = <<>>
      /\ e.dirs = <<>> /\ e.nodes = <<>> /\ e.args = <<>> /\ e.roots = {}
  BY DEF Plain
<1> HIDE DEF e
<1>5. IsDefinition(e)
  BY <1>1, <1>3, <1>4 DEF IsDefinition, IsNode
<1> QED
  BY <1>2, <1>4, <1>5 DEF e

IsDirective(d, name, types) ==
  /\ IsDefinition(d)
  /\ d.name = name /\ d.kind = "Directive" /\ d.ext = FALSE /\ d.type = <<>> /\ d.refs = <<>>
  /\ d.dirs = <<>> /\ IsSeq(d.nodes)
  /\ \A j \in DOMAIN d.nodes : d.nodes[j].args = <<>> /\ d.nodes[j].type \in types

LEMMA DeclaresIs ==
  ASSUME NEW name \in Name, NEW types \in Seq(Name), NEW repeatable
  PROVE  IsDirective(Declares(name, types, repeatable), name, ToSet(types))
<1> DEFINE nodes == [i \in DOMAIN types |-> [Node(name) EXCEPT !.type = types[i]]]
<1>1. Len(types) \in Nat /\ DOMAIN types = 1 .. Len(types)
  OBVIOUS
<1>2. IsSeq(nodes)
  <2>1. nodes \in [1 .. Len(types) -> ToSet(nodes)]
    BY <1>1 DEF ToSet
  <2> QED
    BY <1>1, <2>1, SeqDef DEF IsSeq
<1>3. ASSUME NEW j \in DOMAIN nodes
      PROVE  nodes[j].args = <<>> /\ nodes[j].type \in ToSet(types) /\ IsNode(nodes[j])
  <2> DEFINE n == Node(name)
  <2>1. n.args = <<>> /\ n.name = name /\ n.dirs = <<>>
    BY DEF Node
  <2>3. IsNode(n)
    BY PlainIs
  <2>4. nodes[j].args = <<>> /\ nodes[j].name = name /\ nodes[j].dirs = <<>> /\ nodes[j].type = types[j]
    BY DEF Node
  <2>5. types[j] \in Name /\ types[j] \in ToSet(types)
    BY <1>1 DEF ToSet
  <2> HIDE DEF nodes, n
  <2> QED
    BY <2>1, <2>3, <2>4, <2>5 DEF IsNode
<1>4. Declares(name, types, repeatable)
        = [Plain("Directive", name) EXCEPT !.repeatable = repeatable, !.nodes = nodes]
  BY DEF Declares
<1> DEFINE d == Declares(name, types, repeatable)
<1>5. \A j \in DOMAIN nodes : nodes[j].args = <<>> /\ DOMAIN nodes[j].args = {}
  BY <1>3
<1> HIDE DEF nodes
<1>6. /\ d.name = name /\ d.kind = "Directive" /\ d.ext = FALSE /\ d.type = <<>> /\ d.refs = <<>>
      /\ d.dirs = <<>> /\ d.nodes = nodes /\ d.args = <<>> /\ d.roots = {}
  BY <1>4 DEF Plain
<1>7. IsDefinition(Plain("Directive", name)) /\ Plain("Directive", name).roots = {}
      /\ Plain("Directive", name).args = <<>>
  BY PlainIs DEF Plain
<1>8. IsSeq(<<>>) /\ DOMAIN <<>> = {} /\ <<>> \in Seq(Name) /\ <<>> \in Name
  <2>1. <<>> \in Seq(ToSet(<<>>)) /\ DOMAIN <<>> = {} /\ <<>> \in Seq(Name) /\ <<>> \in Seq(Int)
    OBVIOUS
  <2> QED
    BY <2>1 DEF IsSeq, Name
<1>9. IsFiniteSet({})
  BY FS_EmptySet
<1> HIDE DEF d
<1>10. IsDefinition(d)
  BY <1>2, <1>3, <1>5, <1>6, <1>8, <1>9 DEF IsDefinition, IsNode
<1> QED
  BY <1>2, <1>3, <1>6, <1>10 DEF d, IsDirective

-----------------------------------------------------------------------------
(* The positions of the definitions. *)

Position == Nat \X Nat \X Nat \X Nat

WellFormed == IsSeq(sources) /\ \A d \in ToSet(sources) : IsDocument(d)

LEMMA SourcesAre ==
  ASSUME WellFormed
  PROVE  /\ Len(sources) \in Nat /\ DOMAIN sources = 1 .. Len(sources)
         /\ \A s \in DOMAIN sources :
                /\ sources[s] \in ToSet(sources) /\ IsDocument(sources[s])
                /\ Len(sources[s].defs) \in Nat
                /\ DOMAIN sources[s].defs = 1 .. Len(sources[s].defs)
<1>1. sources \in Seq(ToSet(sources))
  BY DEF WellFormed, IsSeq
<1>2. Len(sources) \in Nat /\ DOMAIN sources = 1 .. Len(sources)
  BY <1>1
<1>3. ASSUME NEW s \in DOMAIN sources
      PROVE  /\ sources[s] \in ToSet(sources) /\ IsDocument(sources[s])
             /\ Len(sources[s].defs) \in Nat
             /\ DOMAIN sources[s].defs = 1 .. Len(sources[s].defs)
  <2>1. sources[s] \in ToSet(sources) /\ IsDocument(sources[s])
    BY DEF ToSet, WellFormed
  <2>2. sources[s].defs \in Seq(ToSet(sources[s].defs))
    BY <2>1 DEF IsDocument, IsSeq
  <2> QED
    BY <2>1, <2>2
<1> QED
  BY <1>2, <1>3

LEMMA WrittenIs ==
  ASSUME WellFormed, NEW kinds, NEW ext
  PROVE  /\ Written(kinds, ext) \in Seq(Position)
         /\ \A p : p \in ToSet(Written(kinds, ext)) <=>
                     \E s \in DOMAIN sources : \E i \in DOMAIN sources[s].defs :
                         /\ p = <<s, i, 0, 0>>
                         /\ sources[s].defs[i].kind \in kinds /\ sources[s].defs[i].ext = ext
<1> DEFINE rows == [s \in DOMAIN sources |-> [i \in DOMAIN sources[s].defs |-> <<s, i, 0, 0>>]]
           all == FlattenSeq(rows)
           Test(p) == Def(p).kind \in kinds /\ Def(p).ext = ext
           kept == [p \in Position |-> When(Test(p), p)]
<1>1. rows \in Seq(Seq(Position))
  <2>1. ASSUME NEW s \in DOMAIN sources
        PROVE  [i \in DOMAIN sources[s].defs |-> <<s, i, 0, 0>>] \in Seq(Position)
    <3> DEFINE row == [i \in DOMAIN sources[s].defs |-> <<s, i, 0, 0>>]
    <3>1. row \in [1 .. Len(sources[s].defs) -> Position] /\ Len(sources[s].defs) \in Nat
      BY SourcesAre DEF Position
    <3> HIDE DEF row
    <3>2. row \in Seq(Position)
      BY <3>1, SeqDef
    <3> QED
      BY <3>2 DEF row
  <2>2. rows \in [1 .. Len(sources) -> Seq(Position)] /\ Len(sources) \in Nat
    BY <2>1, SourcesAre
  <2> HIDE DEF rows
  <2> QED
    BY <2>2, SeqDef
<1>2. /\ all \in Seq(Position)
      /\ \A p : p \in ToSet(all) <=> \E s \in DOMAIN sources : \E i \in DOMAIN sources[s].defs : p = <<s, i, 0, 0>>
  <2>1. /\ all \in Seq(Position)
        /\ ToSet(all) = UNION {ToSet(rows[s]) : s \in DOMAIN rows}
    <3> HIDE DEF rows
    <3> QED
      BY <1>1, FlattenSeqIs
  <2>2. ASSUME NEW s \in DOMAIN sources, NEW p
        PROVE  p \in ToSet(rows[s]) <=> \E i \in DOMAIN sources[s].defs : p = <<s, i, 0, 0>>
    BY DEF ToSet
  <2>3. DOMAIN rows = DOMAIN sources
    OBVIOUS
  <2> HIDE DEF rows
  <2> QED
    BY <2>1, <2>2, <2>3
<1>3. \A p \in Position : kept[p] \in Seq(Position) /\ ToSet(kept[p]) = IF Test(p) THEN {p} ELSE {}
  <2> SUFFICES ASSUME NEW p \in Position
               PROVE  kept[p] \in Seq(Position) /\ ToSet(kept[p]) = IF Test(p) THEN {p} ELSE {}
    OBVIOUS
  <2>1. kept[p] = When(Test(p), p)
    OBVIOUS
  <2> HIDE DEF kept, Test
  <2> QED
    BY <2>1, WhenIs
<1>4. Written(kinds, ext) = Each(kept, all)
  <2>1. Written(kinds, ext) = FlattenSeq([k \in DOMAIN all |-> When(Test(all[k]), all[k])])
    BY DEF Written, Filter, ForEach
  <2>2. \A k \in DOMAIN all : all[k] \in Position
    <3> HIDE DEF all
    <3> QED
      BY <1>2
  <2> HIDE DEF all, Test
  <2>3. [k \in DOMAIN all |-> When(Test(all[k]), all[k])] = [k \in DOMAIN all |-> kept[all[k]]]
    BY <2>2
  <2> QED
    BY <2>1, <2>3 DEF Each
<1>5. /\ Written(kinds, ext) \in Seq(Position)
      /\ ToSet(Written(kinds, ext)) = UNION {ToSet(kept[p]) : p \in ToSet(all)}
  <2>1. all \in Seq(Position) /\ \A p \in Position : kept[p] \in Seq(Position)
    BY <1>2, <1>3
  <2> HIDE DEF kept, all, Test
  <2>2. Each(kept, all) \in Seq(Position) /\ ToSet(Each(kept, all)) = UNION {ToSet(kept[p]) : p \in ToSet(all)}
    BY <2>1, ForEachIs
  <2> QED
    BY <1>4, <2>2
<1>6. ASSUME NEW p PROVE p \in ToSet(Written(kinds, ext)) <=> p \in ToSet(all) /\ Test(p)
  <2>1. ToSet(all) \subseteq Position
    <3> HIDE DEF all
    <3> QED
      BY <1>2 DEF ToSet
  <2> HIDE DEF kept, all, Test
  <2> QED
    BY <1>3, <1>5, <2>1
<1>7. ASSUME NEW p, NEW s \in DOMAIN sources, NEW i \in DOMAIN sources[s].defs, p = <<s, i, 0, 0>>
      PROVE  Test(p) <=> sources[s].defs[i].kind \in kinds /\ sources[s].defs[i].ext = ext
  BY <1>7 DEF Def
<1>8. ASSUME NEW p
      PROVE  p \in ToSet(Written(kinds, ext)) <=>
                \E s \in DOMAIN sources : \E i \in DOMAIN sources[s].defs :
                    /\ p = <<s, i, 0, 0>>
                    /\ sources[s].defs[i].kind \in kinds /\ sources[s].defs[i].ext = ext
  <2> HIDE DEF all, Test
  <2> QED
    BY <1>2, <1>6, <1>7
<1> QED
  BY <1>5, <1>8

LEMMA PlacesAre ==
  ASSUME WellFormed, NEW prelude, NEW d
  PROVE  d \in DefsIn(ToSet(sources), prelude)
           <=> \E s \in DOMAIN sources : \E i \in DOMAIN sources[s].defs :
                   sources[s].prelude = prelude /\ d = sources[s].defs[i]
BY DEF DefsIn, ToSet

LEMMA OwnIs ==
  ASSUME NEW s, NEW i, NEW p, p = <<s, i, 0, 0>>, NEW q
  PROVE  q \in ToSet(Own(p)) <=> \E j \in DOMAIN sources[s].defs[i].nodes : q = <<s, i, j, 0>>
<1>1. Def(p).nodes = sources[s].defs[i].nodes
  BY DEF Def
<1>2. \A j : [p EXCEPT ![3] = j] = <<s, i, j, 0>>
  OBVIOUS
<1> QED
  BY <1>1, <1>2 DEF Own, ToSet

LEMMA ArgumentsAre ==
  ASSUME NEW s, NEW i, NEW j, j # 0, NEW p, p = <<s, i, j, 0>>, NEW q
  PROVE  q \in ToSet(Arguments(p))
           <=> \E k \in DOMAIN sources[s].defs[i].nodes[j].args : q = <<s, i, j, k>>
<1>1. NodeAt(p).args = sources[s].defs[i].nodes[j].args
  BY DEF NodeAt, Def
<1>2. \A k : [p EXCEPT ![4] = k] = <<s, i, j, k>>
  OBVIOUS
<1> QED
  BY <1>1, <1>2 DEF Arguments, ToSet

LEMMA EverythingIs ==
  ASSUME WellFormed
  PROVE  /\ \A p \in Everything :
                \E s \in DOMAIN sources : \E i \in DOMAIN sources[s].defs :
                    LET nodes == sources[s].defs[i].nodes
                    IN  \/ p = <<s, i, 0, 0>>
                        \/ \E j \in DOMAIN nodes : j # 0 /\ p = <<s, i, j, 0>>
                        \/ \E j \in DOMAIN nodes : \E k \in DOMAIN nodes[j].args :
                               j # 0 /\ p = <<s, i, j, k>>
         /\ ToSet(SchemaExtensions) \subseteq Everything
<1> DEFINE all == UNION {ToSet(ps) : ps \in
                     {Definitions, Extensions, Directives, SchemaBlocks, SchemaExtensions}}
<1>1. ASSUME NEW p \in all
      PROVE  \E s \in DOMAIN sources : \E i \in DOMAIN sources[s].defs : p = <<s, i, 0, 0>>
  <2>1. \E kinds, ext : p \in ToSet(Written(kinds, ext))
    BY DEF Definitions, Extensions, Directives, SchemaBlocks, SchemaExtensions
  <2> QED
    BY <2>1, WrittenIs
<1>2. ASSUME NEW p \in Everything
      PROVE  \E s \in DOMAIN sources : \E i \in DOMAIN sources[s].defs :
                 LET nodes == sources[s].defs[i].nodes
                 IN  \/ p = <<s, i, 0, 0>>
                     \/ \E j \in DOMAIN nodes : j # 0 /\ p = <<s, i, j, 0>>
                     \/ \E j \in DOMAIN nodes : \E k \in DOMAIN nodes[j].args :
                            j # 0 /\ p = <<s, i, j, k>>
  <2>1. PICK t \in all : p \in Nodes(t)
    BY DEF Everything
  <2>2. PICK s, i : s \in DOMAIN sources /\ i \in DOMAIN sources[s].defs
              /\ t = <<s, i, 0, 0>>
    BY <1>1
  <2>3. \A j \in DOMAIN sources[s].defs[i].nodes : j # 0
    <3>1. IsSeq(sources[s].defs[i].nodes)
      BY <2>2, SourcesAre DEF IsDocument, IsDefinition
    <3> QED
      BY <3>1 DEF IsSeq
  <2>4. \A q : q \in ToSet(Own(t)) <=> \E j \in DOMAIN sources[s].defs[i].nodes : q = <<s, i, j, 0>>
    BY <2>2, OwnIs
  <2>5. ASSUME NEW q \in ToSet(Own(t)), p \in ToSet(Arguments(q))
        PROVE  \E j \in DOMAIN sources[s].defs[i].nodes :
                   \E k \in DOMAIN sources[s].defs[i].nodes[j].args : j # 0 /\ p = <<s, i, j, k>>
    <3>1. PICK j \in DOMAIN sources[s].defs[i].nodes : q = <<s, i, j, 0>> /\ j # 0
      BY <2>3, <2>4
    <3> QED
      BY <2>5, <3>1, ArgumentsAre
  <2> QED
    BY <2>1, <2>2, <2>3, <2>4, <2>5 DEF Nodes
<1>3. ToSet(SchemaExtensions) \subseteq Everything
  BY DEF Everything, Nodes
<1> QED
  BY <1>2, <1>3

(* What the definitions declare, and where. *)
LEMMA NamesAre ==
  ASSUME WellFormed
  PROVE  LET own == DefsIn(ToSet(sources), FALSE)
             all == own \cup DefsIn(ToSet(sources), TRUE)
         IN  /\ DeclaredDirectives = DeclaredIn(all)
             /\ {Def(p).name : p \in {p \in ToSet(Directives) : InScope(p)}} = DeclaredIn(own)
             /\ ScalarsIn(all) \subseteq DefinedTypes
             /\ LinksWritten = LinksIn(own)
<1> DEFINE own == DefsIn(ToSet(sources), FALSE)
           all == own \cup DefsIn(ToSet(sources), TRUE)
<1>1. /\ \A d : d \in own <=> \E s \in DOMAIN sources : \E i \in DOMAIN sources[s].defs :
                                  sources[s].prelude = FALSE /\ d = sources[s].defs[i]
      /\ \A d : d \in all <=> \E s \in DOMAIN sources : \E i \in DOMAIN sources[s].defs :
                                  d = sources[s].defs[i]
  <2> DEFINE In(prelude) == DefsIn(ToSet(sources), prelude)
             yes == TRUE
             no == FALSE
  <2>1. \A prelude : \A d : d \in In(prelude)
             <=> \E s \in DOMAIN sources : \E i \in DOMAIN sources[s].defs :
                     sources[s].prelude = prelude /\ d = sources[s].defs[i]
    BY PlacesAre
  <2>2. own = In(no) /\ all = own \cup In(yes)
    OBVIOUS
  <2>3. \A s \in DOMAIN sources : sources[s].prelude = yes \/ sources[s].prelude = no
    BY SourcesAre DEF IsDocument
  <2> HIDE DEF own, all, In, yes, no
  <2>4. \A d : d \in own <=> \E s \in DOMAIN sources : \E i \in DOMAIN sources[s].defs :
                                  sources[s].prelude = no /\ d = sources[s].defs[i]
    BY <2>1, <2>2
  <2>5. \A d : d \in all <=> \E s \in DOMAIN sources : \E i \in DOMAIN sources[s].defs :
                                  d = sources[s].defs[i]
    BY <2>1, <2>2, <2>3
  <2> QED
    BY <2>4, <2>5 DEF no
<1>2. ASSUME NEW p, NEW s, NEW i, p = <<s, i, 0, 0>>
      PROVE  Def(p) = sources[s].defs[i] /\ (InScope(p) <=> ~sources[s].prelude) /\ p[3] = 0
  BY <1>2 DEF Def, InScope
<1>3. \A s \in DOMAIN sources : sources[s].prelude \in BOOLEAN
  BY SourcesAre DEF IsDocument
<1>4. \A p : p \in ToSet(Directives) <=>
                 \E s \in DOMAIN sources : \E i \in DOMAIN sources[s].defs :
                     /\ p = <<s, i, 0, 0>>
                     /\ sources[s].defs[i].kind = "Directive" /\ sources[s].defs[i].ext = FALSE
  <2> DEFINE kinds == {"Directive"}
             ext == FALSE
  <2>1. Directives = Written(kinds, ext)
    BY DEF Directives
  <2>2. \A kind : kind \in kinds <=> kind = "Directive"
    OBVIOUS
  <2> HIDE DEF kinds, ext
  <2>3. \A p : p \in ToSet(Written(kinds, ext)) <=>
                 \E s \in DOMAIN sources : \E i \in DOMAIN sources[s].defs :
                     /\ p = <<s, i, 0, 0>>
                     /\ sources[s].defs[i].kind = "Directive" /\ sources[s].defs[i].ext = ext
    BY <2>2, WrittenIs
  <2> QED
    BY <2>1, <2>3 DEF ext
<1>5. \A p : p \in ToSet(SchemaExtensions) <=>
                 \E s \in DOMAIN sources : \E i \in DOMAIN sources[s].defs :
                     /\ p = <<s, i, 0, 0>>
                     /\ sources[s].defs[i].kind = "Schema" /\ sources[s].defs[i].ext = TRUE
  <2> DEFINE kinds == {"Schema"}
             ext == TRUE
  <2>1. SchemaExtensions = Written(kinds, ext)
    BY DEF SchemaExtensions
  <2>2. \A kind : kind \in kinds <=> kind = "Schema"
    OBVIOUS
  <2> HIDE DEF kinds, ext
  <2>3. \A p : p \in ToSet(Written(kinds, ext)) <=>
                 \E s \in DOMAIN sources : \E i \in DOMAIN sources[s].defs :
                     /\ p = <<s, i, 0, 0>>
                     /\ sources[s].defs[i].kind = "Schema" /\ sources[s].defs[i].ext = ext
    BY <2>2, WrittenIs
  <2> QED
    BY <2>1, <2>3 DEF ext
<1>6. \A p : p \in ToSet(Definitions) <=>
                 \E s \in DOMAIN sources : \E i \in DOMAIN sources[s].defs :
                     /\ p = <<s, i, 0, 0>>
                     /\ sources[s].defs[i].kind \in TypeKinds /\ sources[s].defs[i].ext = FALSE
  <2> DEFINE ext == FALSE
  <2>1. Definitions = Written(TypeKinds, ext)
    BY DEF Definitions
  <2> HIDE DEF ext
  <2>2. \A p : p \in ToSet(Written(TypeKinds, ext)) <=>
                 \E s \in DOMAIN sources : \E i \in DOMAIN sources[s].defs :
                     /\ p = <<s, i, 0, 0>>
                     /\ sources[s].defs[i].kind \in TypeKinds /\ sources[s].defs[i].ext = ext
    BY WrittenIs
  <2> QED
    BY <2>1, <2>2 DEF ext
<1> HIDE DEF own, all
<1>7. DeclaredDirectives = DeclaredIn(all)
  <2>1. ASSUME NEW p \in ToSet(Directives) PROVE Def(p).name \in DeclaredIn(all)
    BY <1>1, <1>2, <1>4 DEF DeclaredIn
  <2>2. ASSUME NEW d \in all, d.kind = "Directive", d.ext = FALSE
        PROVE  \E p \in ToSet(Directives) : Def(p) = d
    <3>1. PICK s, i : s \in DOMAIN sources /\ i \in DOMAIN sources[s].defs
              /\ d = sources[s].defs[i]
      BY <1>1
    <3>2. <<s, i, 0, 0>> \in ToSet(Directives) /\ Def(<<s, i, 0, 0>>) = d
      BY <1>2, <1>4, <2>2, <3>1
    <3> QED
      BY <3>2
  <2> QED
    BY <2>1, <2>2 DEF DeclaredDirectives, DeclaredIn
<1>8. {Def(p).name : p \in {p \in ToSet(Directives) : InScope(p)}} = DeclaredIn(own)
  <2>1. ASSUME NEW p \in ToSet(Directives), InScope(p) PROVE Def(p).name \in DeclaredIn(own)
    BY <1>1, <1>2, <1>3, <1>4, <2>1 DEF DeclaredIn
  <2>2. ASSUME NEW d \in own, d.kind = "Directive", d.ext = FALSE
        PROVE  \E p \in ToSet(Directives) : InScope(p) /\ Def(p) = d
    <3>1. PICK s, i : s \in DOMAIN sources /\ i \in DOMAIN sources[s].defs
              /\ sources[s].prelude = FALSE /\ d = sources[s].defs[i]
      BY <1>1
    <3>2. <<s, i, 0, 0>> \in ToSet(Directives) /\ Def(<<s, i, 0, 0>>) = d /\ InScope(<<s, i, 0, 0>>)
      BY <1>2, <1>4, <2>2, <3>1
    <3> QED
      BY <3>2
  <2> QED
    BY <2>1, <2>2 DEF DeclaredIn
<1>9. ScalarsIn(all) \subseteq DefinedTypes
  <2>1. ASSUME NEW d \in all, d.kind = "Scalar", d.ext = FALSE PROVE d.name \in DefinedTypes
    <3>1. PICK s, i : s \in DOMAIN sources /\ i \in DOMAIN sources[s].defs
              /\ d = sources[s].defs[i]
      BY <1>1
    <3>2. <<s, i, 0, 0>> \in ToSet(Definitions) /\ Def(<<s, i, 0, 0>>) = d
      BY <1>2, <1>6, <2>1, <3>1 DEF TypeKinds
    <3> QED
      BY <3>2 DEF DefinedTypes
  <2> QED
    BY <2>1 DEF ScalarsIn
<1>10. LinksWritten = LinksIn(own)
  <2> DEFINE at == {p \in Everything : p[3] = 0 /\ InScope(p) /\ Def(p).kind = "Schema" /\ Def(p).ext}
  <2>1. ASSUME NEW p \in at PROVE Def(p) \in own /\ Def(p).kind = "Schema" /\ Def(p).ext = TRUE
    <3>1. PICK s, i : s \in DOMAIN sources /\ i \in DOMAIN sources[s].defs
              /\ p = <<s, i, 0, 0>>
      BY EverythingIs
    <3>2. Def(p).ext \in BOOLEAN
      BY <1>2, <3>1, SourcesAre DEF IsDocument
    <3> QED
      BY <1>1, <1>2, <1>3, <3>1, <3>2
  <2>2. ASSUME NEW d \in own, d.kind = "Schema", d.ext = TRUE PROVE \E p \in at : Def(p) = d
    <3>1. PICK s, i : s \in DOMAIN sources /\ i \in DOMAIN sources[s].defs
              /\ sources[s].prelude = FALSE /\ d = sources[s].defs[i]
      BY <1>1
    <3>2. <<s, i, 0, 0>> \in ToSet(SchemaExtensions) /\ Def(<<s, i, 0, 0>>) = d /\ InScope(<<s, i, 0, 0>>)
      BY <1>2, <1>5, <2>2, <3>1
    <3> QED
      BY <2>2, <3>2, EverythingIs
  <2> HIDE DEF at
  <2>3. UNION {ToSet(Def(p).dirs) : p \in at}
          = UNION {ToSet(d.dirs) : d \in {d \in own : d.kind = "Schema" /\ d.ext = TRUE}}
    BY <2>1, <2>2
  <2> QED
    BY <2>3 DEF LinksWritten, LinksIn, at
<1> QED
  BY <1>7, <1>8, <1>9, <1>10 DEF own, all

-----------------------------------------------------------------------------
(* What the preludes are made of. *)

NoPreludes == WellFormed /\ \A d \in ToSet(sources) : d.prelude = FALSE

LEMMA LinksAre ==
  ASSUME NoPreludes
  PROVE  LET links == LinksIn(DefsIn(ToSet(sources), FALSE))
         IN  /\ FederationLinks \in Seq(links) /\ ToSet(FederationLinks) = links
             /\ \A l \in links : IsUse(l)
<1> DEFINE own == DefsIn(ToSet(sources), FALSE)
           links == LinksIn(own)
           at == ToSet(SchemaExtensions)
           dirs == [p \in at |-> Def(p).dirs]
           applied == UNION {ToSet(dirs[p]) : p \in at}
           kept == [l \in applied |-> When(l.name = Link /\ l.version # "", l)]
           all == ForEach(SchemaExtensions, LAMBDA p : Def(p).dirs)
<1>1. WellFormed
  BY DEF NoPreludes
<1>2. \A p : p \in at <=>
          \E s \in DOMAIN sources : \E i \in DOMAIN sources[s].defs :
              /\ p = <<s, i, 0, 0>>
              /\ sources[s].defs[i].kind = "Schema" /\ sources[s].defs[i].ext = TRUE
  <2> DEFINE kinds == {"Schema"}
             ext == TRUE
  <2>1. at = ToSet(Written(kinds, ext))
    BY DEF SchemaExtensions
  <2>2. \A kind : kind \in kinds <=> kind = "Schema"
    OBVIOUS
  <2> HIDE DEF kinds, ext, at
  <2>3. \A p : p \in ToSet(Written(kinds, ext)) <=>
                 \E s \in DOMAIN sources : \E i \in DOMAIN sources[s].defs :
                     /\ p = <<s, i, 0, 0>>
                     /\ sources[s].defs[i].kind = "Schema" /\ sources[s].defs[i].ext = ext
    BY <1>1, <2>2, WrittenIs
  <2> QED
    BY <2>1, <2>3 DEF ext
<1>3. SchemaExtensions \in Seq(at)
  <2>1. \E T : SchemaExtensions \in Seq(T)
    BY <1>1, WrittenIs DEF SchemaExtensions
  <2> QED
    BY <2>1, OfItsOwn DEF IsSeq
<1>4. \A p \in at : IsSeq(Def(p).dirs) /\ \A l \in ToSet(Def(p).dirs) : IsUse(l)
  <2> SUFFICES ASSUME NEW p \in at
               PROVE  IsSeq(Def(p).dirs) /\ \A l \in ToSet(Def(p).dirs) : IsUse(l)
    OBVIOUS
  <2>1. PICK s, i : s \in DOMAIN sources /\ i \in DOMAIN sources[s].defs /\ p = <<s, i, 0, 0>>
    BY <1>2
  <2>2. Def(p) = sources[s].defs[i] /\ IsDocument(sources[s])
    BY <1>1, <2>1, SourcesAre DEF Def
  <2> QED
    BY <2>1, <2>2 DEF IsDocument, IsDefinition, IsNode, ToSet
<1>5. \A p \in at : dirs[p] \in Seq(applied)
  <2> SUFFICES ASSUME NEW p \in at PROVE dirs[p] \in Seq(applied)
    OBVIOUS
  <2>1. dirs[p] \in Seq(ToSet(dirs[p])) /\ ToSet(dirs[p]) \subseteq applied
    BY <1>4 DEF IsSeq
  <2> HIDE DEF dirs, applied
  <2> QED
    BY <2>1
<1>6. all \in Seq(applied) /\ ToSet(all) = applied
  <2>1. all = Each(dirs, SchemaExtensions)
    <3>1. all = FlattenSeq([k \in DOMAIN SchemaExtensions |-> Def(SchemaExtensions[k]).dirs])
      BY DEF ForEach
    <3>2. \A k \in DOMAIN SchemaExtensions : SchemaExtensions[k] \in at
      BY <1>3
    <3> HIDE DEF at
    <3>3. [k \in DOMAIN SchemaExtensions |-> Def(SchemaExtensions[k]).dirs]
            = [k \in DOMAIN SchemaExtensions |-> dirs[SchemaExtensions[k]]]
      BY <3>2
    <3> QED
      BY <3>1, <3>3 DEF Each
  <2> HIDE DEF dirs, all
  <2>2. \A p \in at : dirs[p] \in Seq(applied)
    BY <1>5
  <2>3. ToSet(SchemaExtensions) = at
    OBVIOUS
  <2> HIDE DEF applied, at
  <2>4. /\ Each(dirs, SchemaExtensions) \in Seq(applied)
        /\ ToSet(Each(dirs, SchemaExtensions)) = UNION {ToSet(dirs[p]) : p \in ToSet(SchemaExtensions)}
    BY <1>3, <2>2, ForEachIs
  <2> QED
    BY <2>1, <2>3, <2>4 DEF applied
<1>7. UNION {ToSet(d.dirs) : d \in {d \in own : d.kind = "Schema" /\ d.ext = TRUE}} = applied
  <2>1. \A s \in DOMAIN sources : sources[s].prelude = FALSE
    BY <1>1, SourcesAre DEF NoPreludes
  <2> DEFINE no == FALSE
  <2>2. \A d : d \in DefsIn(ToSet(sources), no)
           <=> \E s \in DOMAIN sources : \E i \in DOMAIN sources[s].defs :
                   sources[s].prelude = no /\ d = sources[s].defs[i]
    <3> HIDE DEF no
    <3> QED
      BY <1>1, PlacesAre
  <2>3. \A d : d \in own <=> \E s \in DOMAIN sources : \E i \in DOMAIN sources[s].defs : d = sources[s].defs[i]
    <3>1. own = DefsIn(ToSet(sources), no) /\ \A s \in DOMAIN sources : sources[s].prelude = no
      BY <2>1
    <3> HIDE DEF own, no
    <3> QED
      BY <2>2, <3>1
  <2>4. \A p \in at : Def(p) \in own /\ Def(p).kind = "Schema" /\ Def(p).ext = TRUE
    <3> HIDE DEF own, at
    <3> QED
      BY <1>2, <2>3 DEF Def
  <2>5. ASSUME NEW d \in own, d.kind = "Schema", d.ext = TRUE PROVE \E p \in at : Def(p) = d
    <3> HIDE DEF own, at
    <3>1. PICK s, i : s \in DOMAIN sources /\ i \in DOMAIN sources[s].defs /\ d = sources[s].defs[i]
      BY <2>3
    <3>2. <<s, i, 0, 0>> \in at /\ Def(<<s, i, 0, 0>>) = d
      BY <1>2, <2>5, <3>1 DEF Def
    <3> QED
      BY <3>2
  <2>6. applied = UNION {ToSet(Def(p).dirs) : p \in at}
    <3> HIDE DEF at
    <3> QED
      OBVIOUS
  <2> HIDE DEF own, at, applied
  <2> QED
    BY <2>4, <2>5, <2>6
<1>8. links = {l \in applied : l.name = Link /\ l.version # ""}
  <2> HIDE DEF applied, own
  <2> QED
    BY <1>7 DEF LinksIn
<1>9. \A l \in applied :
          /\ kept[l] \in Seq(links)
          /\ ToSet(kept[l]) = IF l.name = Link /\ l.version # "" THEN {l} ELSE {}
  <2> HIDE DEF applied, links
  <2> SUFFICES ASSUME NEW l \in applied
               PROVE  /\ kept[l] \in Seq(links)
                      /\ ToSet(kept[l]) = IF l.name = Link /\ l.version # "" THEN {l} ELSE {}
    OBVIOUS
  <2>1. kept[l] = When(l.name = Link /\ l.version # "", l)
    OBVIOUS
  <2>2. <<>> \in Seq(links) /\ ToSet(<<>>) = {}
    BY DEF ToSet
  <2>3. l \in links => <<l>> \in Seq(links) /\ ToSet(<<l>>) = {l}
    BY DEF ToSet
  <2> QED
    BY <1>8, <2>1, <2>2, <2>3 DEF When
<1>10. /\ FederationLinks \in Seq(links)
       /\ ToSet(FederationLinks) = UNION {ToSet(kept[l]) : l \in applied}
  <2>1. FederationLinks = FlattenSeq([k \in DOMAIN all |-> When(all[k].name = Link /\ all[k].version # "", all[k])])
    BY DEF FederationLinks, Filter, ForEach
  <2> HIDE DEF all, applied, links
  <2>2. \A k \in DOMAIN all : all[k] \in applied
    BY <1>6
  <2>3. [k \in DOMAIN all |-> When(all[k].name = Link /\ all[k].version # "", all[k])]
          = [k \in DOMAIN all |-> kept[all[k]]]
    BY <2>2
  <2> HIDE DEF kept
  <2>4. Each(kept, all) \in Seq(links) /\ ToSet(Each(kept, all)) = UNION {ToSet(kept[l]) : l \in ToSet(all)}
    <3>1. \A l \in applied : kept[l] \in Seq(links)
      BY <1>9
    <3>2. all \in Seq(applied)
      BY <1>6
    <3> QED
      BY <3>1, <3>2, ForEachIs
  <2> QED
    BY <1>6, <2>1, <2>3, <2>4 DEF Each
<1>11. ToSet(FederationLinks) = links
  <2> HIDE DEF applied, links, kept
  <2> QED
    <3>1. links \subseteq applied /\ \A l \in applied : ToSet(kept[l]) = IF l \in links THEN {l} ELSE {}
      BY <1>8, <1>9
    <3>2. UNION {ToSet(kept[l]) : l \in applied} = links
      BY <3>1
    <3> QED
      BY <1>10, <3>2
<1>12. \A l \in links : IsUse(l)
  <2>1. applied = UNION {ToSet(Def(p).dirs) : p \in at}
    <3> HIDE DEF at
    <3> QED
      OBVIOUS
  <2> HIDE DEF at, applied, links
  <2> QED
    BY <1>4, <1>8, <2>1
<1> QED
  BY <1>10, <1>11, <1>12

EachOne(f, s) == FlattenSeq([i \in DOMAIN s |-> <<f[s[i]]>>])

LEMMA EachOneIs ==
  ASSUME NEW S, NEW T, NEW s \in Seq(S), NEW f, \A x \in S : f[x] \in T
  PROVE  EachOne(f, s) \in Seq(T) /\ ToSet(EachOne(f, s)) = {f[x] : x \in ToSet(s)}
<1> DEFINE one == [x \in S |-> <<f[x]>>]
<1>1. \A x \in S : one[x] \in Seq(T) /\ ToSet(one[x]) = {f[x]}
  BY DEF ToSet
<1>2. \A i \in DOMAIN s : s[i] \in S
  OBVIOUS
<1>3. ToSet(s) \subseteq S
  BY <1>2 DEF ToSet
<1>4. EachOne(f, s) = Each(one, s)
  <2>1. [i \in DOMAIN s |-> <<f[s[i]]>>] = [i \in DOMAIN s |-> one[s[i]]]
    BY <1>2
  <2> QED
    BY <2>1 DEF EachOne, Each
<1> HIDE DEF one
<1>5. Each(one, s) \in Seq(T) /\ ToSet(Each(one, s)) = UNION {ToSet(one[x]) : x \in ToSet(s)}
  BY <1>1, ForEachIs
<1>6. UNION {ToSet(one[x]) : x \in ToSet(s)} = {f[x] : x \in ToSet(s)}
  BY <1>1, <1>3
<1> QED
  BY <1>4, <1>5, <1>6

(* A prelude of definitions. *)
LEMMA DocumentIs ==
  ASSUME NEW T, NEW defs \in Seq(T), ToSet(defs) = T,
         \A e \in T : IsDefinition(e)
  PROVE  LET d == Document(TRUE, defs)
         IN  /\ IsDocument(d) /\ d.prelude = TRUE
             /\ DefsIn({d}, TRUE) = T
<1> DEFINE d == Document(TRUE, defs)
<1>1. d.prelude = TRUE /\ d.defs = defs
  BY DEF Document
<1> HIDE DEF d
<1>2. \A i \in DOMAIN defs : defs[i] \in T
  OBVIOUS
<1>5. IsDocument(d)
  BY <1>1, <1>2, OfItsOwn DEF IsDocument
<1>6. DefsIn({d}, TRUE) = T
  BY <1>1 DEF DefsIn
<1> QED
  BY <1>1, <1>5, <1>6 DEF d

(* The documents, and what their definitions declare. *)
Declaring(docs, names) ==
  /\ IsSeq(docs) /\ \A d \in ToSet(docs) : IsDocument(d) /\ d.prelude = TRUE
  /\ Closed(DefsIn(ToSet(docs), TRUE)) /\ DeclaredIn(DefsIn(ToSet(docs), TRUE)) = names

LEMMA DeclaringNothing == Declaring(<<>>, {})
<1>1. IsSeq(<<>>) /\ ToSet(<<>>) = {}
  <2>1. <<>> \in Seq(ToSet(<<>>)) /\ ToSet(<<>>) = {}
    BY DEF ToSet
  <2> QED
    BY <2>1 DEF IsSeq
<1>2. DefsIn({}, TRUE) = {}
  BY DEF DefsIn
<1> QED
  BY <1>1, <1>2 DEF Declaring, Closed, DeclaredIn

LEMMA DeclaringOne ==
  ASSUME NEW T, NEW defs \in Seq(T), ToSet(defs) = T, Closed(T),
         \A e \in T : IsDefinition(e)
  PROVE  Declaring(<<Document(TRUE, defs)>>, DeclaredIn(T))
<1> DEFINE d == Document(TRUE, defs)
<1>2. IsDocument(d) /\ d.prelude = TRUE /\ DefsIn({d}, TRUE) = T
  BY DocumentIs
<1> HIDE DEF d
<1>3. <<d>> \in Seq(ToSet(<<d>>)) /\ ToSet(<<d>>) = {d}
  BY DEF ToSet
<1>4. Declaring(<<d>>, DeclaredIn(T))
  BY <1>2, <1>3 DEF Declaring, IsSeq
<1> QED
  BY <1>4 DEF d

LEMMA ScalarsPreludeIs ==
  ASSUME config.scalars \in Seq(Name)
  PROVE  Declaring(ScalarsPrelude, {})
<1>1. CASE config.scalars = <<>>
  BY <1>1, DeclaringNothing DEF ScalarsPrelude, When
<1>2. CASE config.scalars # <<>>
  <2> DEFINE S == ToSet(config.scalars)
             scalar == [n \in S |-> Plain("Scalar", n)]
             T == {scalar[n] : n \in S}
             defs == ForEach(config.scalars, LAMBDA n : <<Plain("Scalar", n)>>)
  <2>1. config.scalars \in Seq(S) /\ S \subseteq Name
    BY OfItsOwn DEF IsSeq
  <2>2. defs = EachOne(scalar, config.scalars)
    <3>1. \A i \in DOMAIN config.scalars : config.scalars[i] \in S
      BY <2>1
    <3> HIDE DEF S
    <3>2. [i \in DOMAIN config.scalars |-> <<Plain("Scalar", config.scalars[i])>>]
            = [i \in DOMAIN config.scalars |-> <<scalar[config.scalars[i]]>>]
      BY <3>1
    <3> QED
      BY <3>2 DEF ForEach, EachOne
  <2>3. \A n \in S : scalar[n] \in T
    OBVIOUS
  <2>4. defs \in Seq(T) /\ ToSet(defs) = T
    <3> HIDE DEF S, scalar, T, defs
    <3>2. /\ EachOne(scalar, config.scalars) \in Seq(T)
          /\ ToSet(EachOne(scalar, config.scalars)) = {scalar[n] : n \in ToSet(config.scalars)}
      BY <2>1, <2>3, EachOneIs
    <3>3. ToSet(EachOne(scalar, config.scalars)) = T
      BY <3>2 DEF S, T
    <3> QED
      BY <2>2, <3>2, <3>3
  <2>5. \A e \in T : IsDefinition(e) /\ e.kind = "Scalar" /\ e.ext = FALSE /\ e.type = <<>> /\ e.refs = <<>>
                     /\ e.dirs = <<>> /\ e.nodes = <<>>
    <3>1. \A n \in S : scalar[n] = Plain("Scalar", n)
      OBVIOUS
    <3>2. \A e \in T : \E n \in Name : e = Plain("Scalar", n)
      <4> HIDE DEF S
      <4> QED
        BY <2>1
    <3> HIDE DEF T
    <3>3. ASSUME NEW e \in T
          PROVE  /\ IsDefinition(e) /\ e.kind = "Scalar" /\ e.ext = FALSE /\ e.type = <<>> /\ e.refs = <<>>
                 /\ e.dirs = <<>> /\ e.nodes = <<>>
      <4>1. PICK n \in Name : e = Plain("Scalar", n)
        BY <3>2
      <4> QED
        BY <4>1, PlainIs
    <3> QED
      BY <3>3
  <2>6. DOMAIN <<>> = {}
    OBVIOUS
  <2>7. ScalarsPrelude = <<Document(TRUE, defs)>>
    BY <1>2 DEF ScalarsPrelude, When
  <2> HIDE DEF T, defs
  <2>8. Closed(T) /\ DeclaredIn(T) = {} /\ \A e \in T : IsDefinition(e)
    BY <2>5, <2>6 DEF Closed, DeclaredIn
  <2>9. Declaring(<<Document(TRUE, defs)>>, DeclaredIn(T))
    BY <2>4, <2>8, DeclaringOne
  <2> QED
    BY <2>7, <2>8, <2>9
<1> QED
  BY <1>1, <1>2

LEMMA FederationPreludeIs ==
  ASSUME NoPreludes
  PROVE  Declaring(FederationPrelude, Names(LinksIn(DefsIn(ToSet(sources), FALSE))))
<1> DEFINE links == LinksIn(DefsIn(ToSet(sources), FALSE))
<1>1. /\ FederationLinks \in Seq(links) /\ ToSet(FederationLinks) = links
      /\ \A l \in links : IsUse(l) /\ IsSeq(l.imports)
  BY LinksAre DEF IsUse
<1> HIDE DEF links
<1>2. CASE FederationLinks = <<>>
  <2>1. links = {}
    BY <1>1, <1>2 DEF ToSet
  <2>2. Names(links) = {}
    BY <2>1 DEF Names
  <2>3. FederationPrelude = <<>>
    BY <1>2 DEF FederationPrelude, When
  <2> QED
    BY <2>2, <2>3, DeclaringNothing DEF links
<1>3. CASE FederationLinks # <<>>
  <2> DEFINE imports == ForEach(FederationLinks, LAMBDA l : l.imports)
             of == [l \in links |-> l.imports]
             I == UNION {ToSet(of[l]) : l \in links}
             Need(i) == FederationDirectives[i.name].fieldSet
             types == [i \in I |-> When(Need(i), FieldSet)]
             directive == [i \in I |-> Declares(Alias(i), types[i], FederationDirectives[i.name].repeatable)]
             scalar == [t \in ToSet(LinkTypes) |-> Plain("Scalar", t)]
             link == Declares(Link, LinkTypes, TRUE)
             set == Plain("Scalar", FieldSet)
             some == \E i \in ToSet(imports) : Need(i)
             A == {link}
             B == {scalar[t] : t \in ToSet(LinkTypes)}
             C == IF some THEN {set} ELSE {}
             D == {directive[i] : i \in I}
             T == A \cup B \cup C \cup D
             defs == <<link>> \o EachOne(scalar, LinkTypes) \o When(some, set) \o EachOne(directive, imports)
  <2>1. imports \in Seq(I) /\ ToSet(imports) = I
    <3>1. imports = Each(of, FederationLinks)
      <4>1. \A k \in DOMAIN FederationLinks : FederationLinks[k] \in links
        BY <1>1
      <4>2. [k \in DOMAIN FederationLinks |-> FederationLinks[k].imports]
              = [k \in DOMAIN FederationLinks |-> of[FederationLinks[k]]]
        BY <4>1
      <4> QED
        BY <4>2 DEF ForEach, Each
    <3>2. \A l \in links : of[l] \in Seq(I)
      <4>1. \A l \in links : of[l] \in Seq(ToSet(of[l])) /\ ToSet(of[l]) \subseteq I
        BY <1>1 DEF IsSeq
      <4> HIDE DEF of, I
      <4> QED
        BY <4>1
    <3> HIDE DEF imports, of, I
    <3>3. Each(of, FederationLinks) \in Seq(I)
          /\ ToSet(Each(of, FederationLinks)) = UNION {ToSet(of[l]) : l \in ToSet(FederationLinks)}
      BY <1>1, <3>2, ForEachIs
    <3>4. ToSet(Each(of, FederationLinks)) = I
      BY <1>1, <3>3 DEF I
    <3> QED
      BY <3>1, <3>3, <3>4
  <2>2. /\ LinkTypes \in Seq(ToSet(LinkTypes)) /\ LinkTypes \in Seq(Name)
        /\ ToSet(LinkTypes) \subseteq Name /\ Link \in Name /\ FieldSet \in Name
    BY RulesAssumption, OfItsOwn DEF IsSeq
  <2>0. \A i \in I : Alias(i) \in Name
    <3>1. ASSUME NEW l \in links, NEW i \in ToSet(of[l]) PROVE Alias(i) \in Name
      <4>1. IsUse(l) /\ of[l] = l.imports
        BY <1>1
      <4>2. i.name \in Name /\ i.as \in Name
        BY <4>1 DEF IsUse, ToSet
      <4> QED
        BY <4>2 DEF Alias
    <3> HIDE DEF of
    <3> QED
      BY <3>1
  <2>3. FederationPrelude = <<Document(TRUE, defs)>>
    <3>1. EachOne(scalar, LinkTypes) = ForEach(LinkTypes, LAMBDA t : <<Plain("Scalar", t)>>)
      <4>1. \A k \in DOMAIN LinkTypes : LinkTypes[k] \in ToSet(LinkTypes)
        BY <2>2
      <4>2. [k \in DOMAIN LinkTypes |-> <<Plain("Scalar", LinkTypes[k])>>]
              = [k \in DOMAIN LinkTypes |-> <<scalar[LinkTypes[k]]>>]
        BY <4>1
      <4> QED
        BY <4>2 DEF ForEach, EachOne
    <3>2. EachOne(directive, imports)
            = ForEach(imports, LAMBDA i :
                 <<Declares(Alias(i), When(Need(i), FieldSet), FederationDirectives[i.name].repeatable)>>)
      <4> HIDE DEF I, imports, Need
      <4>1. \A k \in DOMAIN imports : imports[k] \in I
        BY <2>1
      <4>2. [k \in DOMAIN imports |->
                <<Declares(Alias(imports[k]), When(Need(imports[k]), FieldSet),
                           FederationDirectives[imports[k].name].repeatable)>>]
              = [k \in DOMAIN imports |-> <<directive[imports[k]]>>]
        BY <4>1
      <4> QED
        BY <4>2 DEF ForEach, EachOne
    <3> HIDE DEF directive, scalar, I, types
    <3>3. FederationPrelude = <<Document(TRUE,
             <<Declares(Link, LinkTypes, TRUE)>>
             \o ForEach(LinkTypes, LAMBDA t : <<Plain("Scalar", t)>>)
             \o When(\E i \in ToSet(imports) : Need(i), Plain("Scalar", FieldSet))
             \o ForEach(imports, LAMBDA i :
                   <<Declares(Alias(i), When(Need(i), FieldSet), FederationDirectives[i.name].repeatable)>>))>>
      BY <1>3 DEF FederationPrelude, When
    <3> HIDE DEF imports, Need
    <3> QED
      BY <3>1, <3>2, <3>3
  <2> HIDE DEF imports, defs
  <2>4. defs \in Seq(T) /\ ToSet(defs) = T
    <3>1. <<link>> \in Seq(T) /\ ToSet(<<link>>) = A
      <4>1. link \in T
        <5> HIDE DEF B, C, D, link
        <5> QED
          OBVIOUS
      <4> HIDE DEF T, link
      <4> QED
        BY <4>1 DEF ToSet
    <3>2. EachOne(scalar, LinkTypes) \in Seq(T) /\ ToSet(EachOne(scalar, LinkTypes)) = B
      <4>1. \A t \in ToSet(LinkTypes) : scalar[t] \in T
        <5>1. \A t \in ToSet(LinkTypes) : scalar[t] \in B
          OBVIOUS
        <5> HIDE DEF A, B, C, D
        <5> QED
          BY <5>1
      <4> HIDE DEF T, B, scalar
      <4>2. /\ EachOne(scalar, LinkTypes) \in Seq(T)
            /\ ToSet(EachOne(scalar, LinkTypes)) = {scalar[t] : t \in ToSet(LinkTypes)}
        BY <2>2, <4>1, EachOneIs
      <4> QED
        BY <4>2 DEF B
    <3>3. When(some, set) \in Seq(T) /\ ToSet(When(some, set)) = C
      <4>1. some => set \in T
        <5> HIDE DEF A, B, D, set, some
        <5> QED
          OBVIOUS
      <4>2. <<>> \in Seq(T) /\ ToSet(<<>>) = {}
        <5> HIDE DEF T
        <5> QED
          BY DEF ToSet
      <4>3. set \in T => <<set>> \in Seq(T) /\ ToSet(<<set>>) = {set}
        <5> HIDE DEF T, set
        <5> QED
          BY DEF ToSet
      <4>4. When(some, set) = IF some THEN <<set>> ELSE <<>>
        BY DEF When
      <4> HIDE DEF T, set, some
      <4> QED
        BY <4>1, <4>2, <4>3, <4>4 DEF C
    <3>4. EachOne(directive, imports) \in Seq(T) /\ ToSet(EachOne(directive, imports)) = D
      <4>1. \A i \in I : directive[i] \in T
        <5>1. \A i \in I : directive[i] \in D
          <6> HIDE DEF I, directive
          <6> QED
            OBVIOUS
        <5> HIDE DEF A, B, C, D, directive, I
        <5> QED
          BY <5>1
      <4> HIDE DEF T, D, directive, I
      <4>2. /\ EachOne(directive, imports) \in Seq(T)
            /\ ToSet(EachOne(directive, imports)) = {directive[i] : i \in ToSet(imports)}
        BY <2>1, <4>1, EachOneIs
      <4> QED
        BY <2>1, <4>2 DEF D
    <3> DEFINE one == <<link>>
               two == EachOne(scalar, LinkTypes)
               three == When(some, set)
               four == EachOne(directive, imports)
    <3>5. defs = ((one \o two) \o three) \o four
      BY DEF defs
    <3>6. T = A \cup B \cup C \cup D
      OBVIOUS
    <3> HIDE DEF A, B, C, D, T, one, two, three, four
    <3>7. /\ one \in Seq(T) /\ two \in Seq(T) /\ three \in Seq(T) /\ four \in Seq(T)
          /\ ToSet(one) = A /\ ToSet(two) = B /\ ToSet(three) = C /\ ToSet(four) = D
      BY <3>1, <3>2, <3>3, <3>4 DEF one, two, three, four
    <3>8. one \o two \in Seq(T) /\ ToSet(one \o two) = A \cup B
      BY <3>7, ConcatIs
    <3> DEFINE first == one \o two
               most == first \o three
    <3>9. first \in Seq(T) /\ ToSet(first) = A \cup B
      BY <3>8
    <3> HIDE DEF first
    <3>10. most \in Seq(T) /\ ToSet(most) = A \cup B \cup C
      BY <3>7, <3>9, ConcatIs
    <3> HIDE DEF most
    <3>11. most \o four \in Seq(T) /\ ToSet(most \o four) = A \cup B \cup C \cup D
      BY <3>7, <3>10, ConcatIs
    <3> QED
      BY <3>5, <3>6, <3>11 DEF first, most
  <2>5. /\ IsDefinition(link) /\ link.name = Link /\ link.kind = "Directive" /\ link.ext = FALSE
        /\ link.type = <<>> /\ link.refs = <<>> /\ link.dirs = <<>> /\ IsSeq(link.nodes)
        /\ \A j \in DOMAIN link.nodes : link.nodes[j].args = <<>> /\ link.nodes[j].type \in ToSet(LinkTypes)
    <3>1. Link \in Name /\ LinkTypes \in Seq(Name)
      BY <2>2
    <3>2. IsDirective(link, Link, ToSet(LinkTypes))
      BY <3>1, DeclaresIs, Zenon
    <3> HIDE DEF link
    <3> QED
      BY <3>2 DEF IsDirective
  <2>6. ASSUME NEW t \in ToSet(LinkTypes)
        PROVE  LET e == scalar[t]
               IN  /\ IsDefinition(e) /\ e.name = t /\ e.kind = "Scalar" /\ e.ext = FALSE /\ e.type = <<>> /\ e.refs = <<>>
                   /\ e.dirs = <<>> /\ e.nodes = <<>>
    <3>1. scalar[t] = Plain("Scalar", t) /\ t \in Name
      BY <2>2
    <3> QED
      BY <3>1, PlainIs
  <2>7. /\ IsDefinition(set) /\ set.name = FieldSet /\ set.kind = "Scalar" /\ set.ext = FALSE /\ set.type = <<>> /\ set.refs = <<>>
        /\ set.dirs = <<>> /\ set.nodes = <<>>
    BY <2>2, PlainIs
  <2>8. ASSUME NEW i \in I
        PROVE  LET e == directive[i]
               IN  /\ IsDefinition(e) /\ e.name = Alias(i) /\ e.kind = "Directive" /\ e.ext = FALSE /\ e.type = <<>> /\ e.refs = <<>>
                   /\ e.dirs = <<>> /\ IsSeq(e.nodes)
                   /\ \A j \in DOMAIN e.nodes : e.nodes[j].args = <<>> /\ e.nodes[j].type = FieldSet /\ some
    <3> HIDE DEF I, Need
    <3>1. /\ types[i] \in Seq({FieldSet}) /\ \A t \in ToSet(types[i]) : t = FieldSet /\ Need(i)
      <4>1. types[i] = IF Need(i) THEN <<FieldSet>> ELSE <<>>
        BY DEF When
      <4>2. <<>> \in Seq({FieldSet}) /\ ToSet(<<>>) = {}
        BY DEF ToSet
      <4>3. <<FieldSet>> \in Seq({FieldSet}) /\ ToSet(<<FieldSet>>) = {FieldSet}
        BY DEF ToSet
      <4> HIDE DEF types
      <4> QED
        BY <4>1, <4>2, <4>3
    <3>2. Need(i) => some
      BY <2>1
    <3>3. directive[i] = Declares(Alias(i), types[i], FederationDirectives[i.name].repeatable)
      OBVIOUS
    <3> HIDE DEF types, directive, some
    <3> DEFINE e == Declares(Alias(i), types[i], FederationDirectives[i.name].repeatable)
    <3> HIDE DEF e
    <3>4. /\ IsDefinition(e)
          /\ e.name = Alias(i) /\ e.kind = "Directive" /\ e.ext = FALSE /\ e.type = <<>> /\ e.refs = <<>>
          /\ e.dirs = <<>> /\ IsSeq(e.nodes)
          /\ \A j \in DOMAIN e.nodes : e.nodes[j].args = <<>> /\ e.nodes[j].type \in ToSet(types[i])
      <4>1. types[i] \in Seq(Name) /\ Alias(i) \in Name
        <5>1. {FieldSet} \subseteq Name
          BY <2>2
        <5> QED
          BY <2>0, <3>1, <5>1, OfMore
      <4>2. IsDirective(e, Alias(i), ToSet(types[i]))
        BY <4>1, DeclaresIs, Zenon DEF e
      <4> QED
        BY <4>2 DEF IsDirective
    <3> HIDE DEF e
    <3>5. directive[i] = e
      BY <3>3 DEF e
    <3> QED
      BY <3>1, <3>2, <3>4, <3>5
  <2>9. IsSeq(<<>>) /\ DOMAIN <<>> = {}
    BY DEF IsSeq
  <2>10. \A e : e \in T <=> \/ e = link
                            \/ \E t \in ToSet(LinkTypes) : e = scalar[t]
                            \/ some /\ e = set
                            \/ \E i \in I : e = directive[i]
    <3> HIDE DEF link, scalar, some, set, I, directive
    <3> QED
      OBVIOUS
  <2> HIDE DEF T, link, scalar, some, set, I, directive
  <2>11. \A t \in ToSet(LinkTypes) : t \in ScalarsIn(T)
    BY <2>6, <2>10 DEF ScalarsIn
  <2>12. some => FieldSet \in ScalarsIn(T)
    BY <2>7, <2>10 DEF ScalarsIn
  <2>13. ASSUME NEW e \in T
         PROVE  /\ IsDefinition(e) /\ e.ext = FALSE /\ e.type = <<>> /\ e.refs = <<>>
                /\ \A j \in DOMAIN e.nodes : e.nodes[j].args = <<>> /\ e.nodes[j].type \in ScalarsIn(T)
    <3>1. CASE e = link
      BY <2>5, <2>11, <3>1
    <3>2. CASE \E t \in ToSet(LinkTypes) : e = scalar[t]
      BY <2>6, <2>9, <3>2
    <3>3. CASE some /\ e = set
      BY <2>7, <2>9, <3>3
    <3>4. CASE \E i \in I : e = directive[i]
      BY <2>8, <2>12, <3>4
    <3> QED
      BY <2>10, <3>1, <3>2, <3>3, <3>4
  <2>14. Closed(T)
    BY <2>13 DEF Closed
  <2>15. DeclaredIn(T) = {Link} \cup {Alias(i) : i \in I}
    <3>1. ASSUME NEW e \in T, e.kind = "Directive" PROVE e.name \in {Link} \cup {Alias(i) : i \in I}
      <4>1. CASE e = link
        BY <2>5, <4>1
      <4>2. CASE \E t \in ToSet(LinkTypes) : e = scalar[t]
        BY <2>6, <3>1, <4>2
      <4>3. CASE some /\ e = set
        BY <2>7, <3>1, <4>3
      <4>4. CASE \E i \in I : e = directive[i]
        BY <2>8, <4>4
      <4> QED
        BY <2>10, <4>1, <4>2, <4>3, <4>4
    <3>2. link \in T /\ \A i \in I : directive[i] \in T
      BY <2>10
    <3>3. Link \in DeclaredIn(T)
      BY <2>5, <3>2 DEF DeclaredIn
    <3>4. \A i \in I : Alias(i) \in DeclaredIn(T)
      BY <2>8, <3>2 DEF DeclaredIn
    <3>5. \A n \in DeclaredIn(T) : n \in {Link} \cup {Alias(i) : i \in I}
      BY <3>1 DEF DeclaredIn
    <3> QED
      BY <3>3, <3>4, <3>5
  <2>16. Names(links) = {Link} \cup {Alias(i) : i \in I}
    <3>1. links # {}
      BY <1>1, <1>3 DEF ToSet
    <3>2. \A i : i \in I <=> \E l \in links : i \in ToSet(l.imports)
      BY DEF I
    <3>3. \A n \in Names(links) : n \in {Link} \cup {Alias(i) : i \in I}
      BY <3>2 DEF Names
    <3>4. Link \in Names(links) /\ \A i \in I : Alias(i) \in Names(links)
      BY <3>1, <3>2 DEF Names
    <3> QED
      BY <3>3, <3>4
  <2>17. Declaring(<<Document(TRUE, defs)>>, DeclaredIn(T))
    BY <2>4, <2>13, <2>14, DeclaringOne
  <2> QED
    BY <2>3, <2>15, <2>16, <2>17 DEF links
<1> QED
  BY <1>2, <1>3

-----------------------------------------------------------------------------
(* The run, from the files on.  With the preludes added, the directives    *)
(* that are declared are those of the files and those imported, and the    *)
(* preludes name no type but their own scalars; after the validation, only *)
(* known directives are in use.                                            *)

Completed ==
  LET own == DefsIn(ToSet(sources), FALSE)
      preludes == DefsIn(ToSet(sources), TRUE)
  IN  /\ WellFormed
      /\ Closed(preludes)
      /\ DeclaredIn(preludes) = ImportedBy(config.federation, LinksIn(own))

RefusedRightly ==
  \A i \in DOMAIN raised :
      /\ raised[i].rule = "known-directives" => raised[i].what \notin KnownDirectives
      /\ raised[i].rule = "known-type-names" => InScope(raised[i].pos)

Importing ==
  /\ pc = "federation" => NoPreludes
  /\ pc = "validate" => Completed
  /\ pc \in {"gapfill", "tier3", "done"} => UsedDirectives \subseteq KnownDirectives
  /\ pc = "refused" => RefusedRightly

LEMMA ReadingFiles ==
  ASSUME Locating, ReadFiles
  PROVE  NoPreludes'
<1> DEFINE docs == [i \in DOMAIN files |-> world.tree[files[i].path].doc]
           D == ToSet(docs)
           kept == [d \in D |-> When(~d.operations, d)]
<1>1. /\ pc = "prelude" /\ world \in Worlds
      /\ ToSet(files) = FilesTaken /\ IsSeq(files)
      /\ sources' = Filter(docs, LAMBDA d : ~d.operations)
  BY DEF ReadFiles, Locating, Gathered, Stages
<1>2. ASSUME NEW i \in DOMAIN files PROVE files[i].path \in DOMAIN world.tree
  <2>1. files[i] \in FilesTaken
    BY <1>1 DEF ToSet
  <2>2. PICK a : files[i] \in Found(world, a)
    BY <2>1 DEF FilesTaken, FilesNamed
  <2> QED
    BY <2>2 DEF Found
<1>3. \A i \in DOMAIN files : IsDocument(docs[i]) /\ docs[i].prelude = FALSE
  <2> SUFFICES ASSUME NEW i \in DOMAIN files PROVE IsDocument(docs[i]) /\ docs[i].prelude = FALSE
    OBVIOUS
  <2>1. IsDocument(docs[i]) /\ ~docs[i].prelude
    BY <1>1, <1>2, RulesAssumption
  <2> HIDE DEF docs
  <2> QED
    BY <2>1 DEF IsDocument
<1>4. docs \in Seq(D)
  <2>1. Len(files) \in Nat /\ DOMAIN files = 1 .. Len(files)
    BY <1>1 DEF IsSeq
  <2>2. docs \in [1 .. Len(files) -> D]
    BY <2>1 DEF ToSet
  <2> QED
    BY <2>1, <2>2, SeqDef
<1>5. sources' = Each(kept, docs)
  <2> HIDE DEF docs
  <2>1. \A i \in DOMAIN docs : docs[i] \in D
    BY <1>4
  <2> HIDE DEF D
  <2>2. [i \in DOMAIN docs |-> When(~docs[i].operations, docs[i])] = [i \in DOMAIN docs |-> kept[docs[i]]]
    BY <2>1
  <2> QED
    BY <1>1, <2>2 DEF Filter, ForEach, Each
<1>6. \A d \in D : kept[d] \in Seq(D)
  <2> HIDE DEF D
  <2>1. \A d \in D : kept[d] = IF d.operations THEN <<>> ELSE <<d>>
    BY DEF When
  <2>2. <<>> \in Seq(D) /\ \A d \in D : <<d>> \in Seq(D)
    OBVIOUS
  <2> HIDE DEF kept
  <2> QED
    BY <2>1, <2>2
<1>7. \A d \in D : IsDocument(d) /\ d.prelude = FALSE
  BY <1>3 DEF ToSet
<1> HIDE DEF docs, D, kept
<1>8. sources' \in Seq(D)
  BY <1>4, <1>5, <1>6, ForEachIs
<1>9. IsSeq(sources') /\ ToSet(sources') \subseteq D
  BY <1>8, OfItsOwn
<1>10. IsSeq(sources') /\ \A d \in ToSet(sources') : IsDocument(d) /\ d.prelude = FALSE
  BY <1>7, <1>9
<1>11. IsSeq(sources)' = IsSeq(sources') /\ ToSet(sources)' = ToSet(sources')
  BY DEF IsSeq, ToSet
<1> QED
  BY <1>10, <1>11 DEF NoPreludes, WellFormed

LEMMA DefsOfOthers ==
  ASSUME NEW a, NEW prelude, \A d \in a : d.prelude # prelude
  PROVE  DefsIn(a, prelude) = {}
BY DEF DefsIn

LEMMA AddingPreludes ==
  ASSUME NoPreludes, config.scalars \in Seq(Name), UNCHANGED config,
         sources' = sources \o (IF config.federation # "" THEN FederationPrelude ELSE <<>>) \o ScalarsPrelude
  PROVE  Completed'
<1> DEFINE own == ToSet(sources)
           links == LinksIn(DefsIn(own, FALSE))
           names == ImportedBy(config.federation, links)
           first == IF config.federation # "" THEN FederationPrelude ELSE <<>>
           second == ScalarsPrelude
           F == ToSet(first)
           S == ToSet(second)
           T == own \cup F \cup S
<1>1. Declaring(first, names)
  <2>1. CASE config.federation = ""
    BY <2>1, DeclaringNothing DEF ImportedBy
  <2>2. CASE config.federation # ""
    BY <2>2, FederationPreludeIs DEF ImportedBy
  <2> QED
    BY <2>1, <2>2
<1>2. Declaring(second, {})
  BY ScalarsPreludeIs
<1>3. sources' = (sources \o first) \o second
  OBVIOUS
<1>4. /\ IsSeq(sources) /\ \A d \in own : IsDocument(d) /\ d.prelude = FALSE
  BY DEF NoPreludes, WellFormed
<1>5. names = ImportedBy(config'.federation, links)
  OBVIOUS
<1> HIDE DEF first, second, names
<1>6. /\ IsSeq(first) /\ \A d \in F : IsDocument(d) /\ d.prelude = TRUE
      /\ Closed(DefsIn(F, TRUE)) /\ DeclaredIn(DefsIn(F, TRUE)) = names
  BY <1>1 DEF Declaring
<1>7. /\ IsSeq(second) /\ \A d \in S : IsDocument(d) /\ d.prelude = TRUE
      /\ Closed(DefsIn(S, TRUE)) /\ DeclaredIn(DefsIn(S, TRUE)) = {}
  BY <1>2 DEF Declaring
<1>8. sources \in Seq(T) /\ first \in Seq(T) /\ second \in Seq(T)
  <2>1. sources \in Seq(own) /\ first \in Seq(F) /\ second \in Seq(S)
    BY <1>4, <1>6, <1>7 DEF IsSeq
  <2>2. own \subseteq T /\ F \subseteq T /\ S \subseteq T
    <3> HIDE DEF own, F, S
    <3> QED
      OBVIOUS
  <2> HIDE DEF own, F, S, T
  <2> QED
    BY <2>1, <2>2, OfMore
<1>9. sources' \in Seq(T) /\ ToSet(sources') = T
  <2> DEFINE most == sources \o first
  <2> HIDE DEF T
  <2>1. most \in Seq(T) /\ ToSet(most) = own \cup F
    BY <1>8, ConcatIs
  <2>2. sources' = most \o second
    BY <1>3
  <2> HIDE DEF most
  <2>3. most \in Seq(T) /\ second \in Seq(T)
    BY <1>8, <2>1
  <2>4. most \o second \in Seq(T) /\ ToSet(most \o second) = ToSet(most) \cup ToSet(second)
    BY <2>3, ConcatIs
  <2> QED
    BY <2>1, <2>2, <2>4 DEF T
<1>10. IsSeq(sources') /\ \A d \in ToSet(sources') : IsDocument(d)
  <2>1. IsSeq(sources')
    BY <1>9, OfItsOwn
  <2>2. \A d \in T : IsDocument(d)
    BY <1>4, <1>6, <1>7
  <2> HIDE DEF T
  <2> QED
    BY <1>9, <2>1, <2>2
<1> HIDE DEF own, F, S
<1>11. DefsIn(T, FALSE) = DefsIn(own, FALSE)
  <2> DEFINE no == FALSE
  <2>1. (\A d \in F : d.prelude # no) /\ (\A d \in S : d.prelude # no)
    BY <1>6, <1>7
  <2> HIDE DEF no
  <2>2. DefsIn(F, no) = {} /\ DefsIn(S, no) = {}
    BY <2>1, DefsOfOthers
  <2>3. DefsIn(T, no) = (DefsIn(own, no) \cup DefsIn(F, no)) \cup DefsIn(S, no)
    BY DEF DefsIn, T
  <2>4. DefsIn(T, no) = DefsIn(own, no)
    BY <2>2, <2>3
  <2> QED
    BY <2>4 DEF no
<1>12. DefsIn(T, TRUE) = DefsIn(F, TRUE) \cup DefsIn(S, TRUE)
  <2> DEFINE yes == TRUE
  <2>1. \A d \in own : d.prelude # yes
    BY <1>4
  <2> HIDE DEF yes
  <2>2. DefsIn(own, yes) = {}
    BY <2>1, DefsOfOthers
  <2>3. DefsIn(T, yes) = (DefsIn(own, yes) \cup DefsIn(F, yes)) \cup DefsIn(S, yes)
    BY DEF DefsIn, T
  <2>4. DefsIn(T, yes) = DefsIn(F, yes) \cup DefsIn(S, yes)
    BY <2>2, <2>3
  <2> QED
    BY <2>4 DEF yes
<1> DEFINE f == DefsIn(F, TRUE)
           s == DefsIn(S, TRUE)
<1>13. Closed(f \cup s) /\ DeclaredIn(f \cup s) = names
  <2>1. Closed(f) /\ Closed(s) /\ DeclaredIn(f) = names /\ DeclaredIn(s) = {}
    BY <1>6, <1>7
  <2> HIDE DEF f, s
  <2>2. ScalarsIn(f) \subseteq ScalarsIn(f \cup s) /\ ScalarsIn(s) \subseteq ScalarsIn(f \cup s)
    BY DEF ScalarsIn
  <2>3. Closed(f \cup s)
    BY <2>1, <2>2 DEF Closed
  <2>4. DeclaredIn(f \cup s) = DeclaredIn(f) \cup DeclaredIn(s)
    BY DEF DeclaredIn
  <2> QED
    BY <2>1, <2>3, <2>4
<1>14. IsSeq(sources)' = IsSeq(sources') /\ ToSet(sources)' = ToSet(sources')
  BY DEF IsSeq, ToSet
<1>15. WellFormed'
  BY <1>10, <1>14 DEF WellFormed
<1>16. Completed' = /\ WellFormed'
                    /\ Closed(DefsIn(T, TRUE))
                    /\ DeclaredIn(DefsIn(T, TRUE)) = ImportedBy(config'.federation, LinksIn(DefsIn(T, FALSE)))
  <2> HIDE DEF T
  <2> QED
    BY <1>9, <1>14 DEF Completed
<1> HIDE DEF T, f, s
<1> QED
  BY <1>5, <1>11, <1>12, <1>13, <1>15, <1>16 DEF f, s

LEMMA KnownAre ==
  ASSUME Completed
  PROVE  KnownDirectives = DeclaredDirectives \cup BuiltInDirectives
<1> DEFINE own == DefsIn(ToSet(sources), FALSE)
           preludes == DefsIn(ToSet(sources), TRUE)
<1>1. WellFormed /\ DeclaredIn(preludes) = ImportedBy(config.federation, LinksIn(own))
  BY DEF Completed
<1>2. /\ DeclaredDirectives = DeclaredIn(own \cup preludes)
      /\ {Def(p).name : p \in {p \in ToSet(Directives) : InScope(p)}} = DeclaredIn(own)
      /\ LinksWritten = LinksIn(own)
  BY <1>1, NamesAre
<1> HIDE DEF own, preludes
<1>3. Imported = ImportedBy(config.federation, LinksIn(own))
  BY <1>2 DEF Imported, ImportedBy, Names, Alias
<1>4. DeclaredIn(own \cup preludes) = DeclaredIn(own) \cup DeclaredIn(preludes)
  BY DEF DeclaredIn
<1>5. KnownDirectives = Imported \cup BuiltInDirectives \cup DeclaredIn(own)
  BY <1>2 DEF KnownDirectives
<1> QED
  BY <1>1, <1>2, <1>3, <1>4, <1>5

(* What a prelude refers to is defined. *)
LEMMA PreludeTypesAre ==
  ASSUME Completed, NEW p \in Everything, ~InScope(p)
  PROVE  /\ NodeAt(p).type \in DefinedTypes \cup {<<>>}
         /\ p[3] = 0 => Def(p).refs = <<>>
<1> DEFINE own == DefsIn(ToSet(sources), FALSE)
           preludes == DefsIn(ToSet(sources), TRUE)
<1>1. WellFormed /\ Closed(preludes)
  BY DEF Completed
<1>2. ScalarsIn(preludes) \subseteq DefinedTypes
  <2>1. ScalarsIn(own \cup preludes) \subseteq DefinedTypes
    BY <1>1, NamesAre
  <2> HIDE DEF own, preludes
  <2> QED
    BY <2>1 DEF ScalarsIn
<1>3. PICK s, i :
          /\ s \in DOMAIN sources /\ i \in DOMAIN sources[s].defs
          /\ LET nodes == sources[s].defs[i].nodes
             IN  \/ p = <<s, i, 0, 0>>
                 \/ \E j \in DOMAIN nodes : j # 0 /\ p = <<s, i, j, 0>>
                 \/ \E j \in DOMAIN nodes : \E k \in DOMAIN nodes[j].args :
                        j # 0 /\ p = <<s, i, j, k>>
  BY <1>1, EverythingIs
<1> DEFINE d == sources[s].defs[i]
<1>4. Def(p) = d
  BY <1>3 DEF Def
<1>5. d \in preludes
  <2> DEFINE yes == TRUE
  <2>1. sources[s].prelude = yes
    <3>1. sources[s].prelude
      BY <1>3 DEF InScope
    <3>2. sources[s].prelude \in BOOLEAN
      BY <1>1, <1>3, SourcesAre DEF IsDocument
    <3> QED
      BY <3>1, <3>2
  <2> HIDE DEF yes
  <2>2. d \in DefsIn(ToSet(sources), yes)
    BY <1>1, <1>3, <2>1, PlacesAre
  <2> QED
    BY <2>2 DEF yes
<1> HIDE DEF preludes
<1>6. /\ d.type = <<>> /\ d.refs = <<>>
      /\ \A j \in DOMAIN d.nodes : d.nodes[j].args = <<>> /\ d.nodes[j].type \in ScalarsIn(preludes)
  BY <1>1, <1>5 DEF Closed
<1>7. CASE p = <<s, i, 0, 0>>
  <2>1. NodeAt(p) = d
    BY <1>4, <1>7 DEF NodeAt
  <2> HIDE DEF d
  <2> QED
    BY <1>4, <1>6, <2>1
<1>8. CASE \E j \in DOMAIN d.nodes : j # 0 /\ p = <<s, i, j, 0>>
  <2>1. PICK j \in DOMAIN d.nodes : j # 0 /\ p = <<s, i, j, 0>>
    BY <1>8
  <2>2. NodeAt(p) = d.nodes[j] /\ p[3] # 0
    BY <1>4, <2>1 DEF NodeAt
  <2> HIDE DEF d
  <2> QED
    BY <1>2, <1>6, <2>2
<1>9. CASE \E j \in DOMAIN d.nodes : \E k \in DOMAIN d.nodes[j].args : j # 0 /\ p = <<s, i, j, k>>
  <2>1. DOMAIN <<>> = {}
    OBVIOUS
  <2> HIDE DEF d
  <2> QED
    BY <1>6, <1>9, <2>1
<1> QED
  BY <1>3, <1>7, <1>8, <1>9

LEMMA RulesAre ==
  ASSUME NEW c
  PROVE  /\ c.message = "Unexpected" => RuleForMessage(c) = "gqlparser"
         /\ RuleForMessage(c) = "known-directives" => c.message = NoSuchDirective
         /\ RuleForMessage(c) = "known-type-names" => c.message = NoSuchType
BY DEF RuleForMessage, NoSuchType, NoSuchDirective, TypeAgain, DirectiveAgain, MemberAgain, SchemaAgain

LEMMA ComplaintsAre ==
  /\ UndefinedTypes \subseteq Complaints /\ UndefinedDirectives \subseteq Complaints
  /\ \A c \in Complaints : /\ c.message = NoSuchType => c \in UndefinedTypes
                           /\ c.message = NoSuchDirective => c \in UndefinedDirectives
<1> DEFINE others == {TypeAgain, DirectiveAgain, MemberAgain, SchemaAgain}
<1>1. NoSuchType \notin others /\ NoSuchDirective \notin others /\ NoSuchType # NoSuchDirective
  BY DEF NoSuchType, NoSuchDirective, TypeAgain, DirectiveAgain, MemberAgain, SchemaAgain
<1>2. ASSUME NEW c \in Redeclarations PROVE c.message \in others
  <2>1. PICK m \in others : \E p, a : c = Complaint(m, p, a)
    BY DEF Redeclarations
  <2> QED
    BY <2>1 DEF Complaint
<1>3. ASSUME NEW c \in UndefinedTypes PROVE c.message = NoSuchType
  <2>1. PICK p, a : c = Complaint(NoSuchType, p, a)
    BY DEF UndefinedTypes
  <2> QED
    BY <2>1 DEF Complaint
<1>4. ASSUME NEW c \in UndefinedDirectives PROVE c.message = NoSuchDirective
  <2>1. PICK p, a : c = Complaint(NoSuchDirective, p, a)
    BY DEF UndefinedDirectives
  <2> QED
    BY <2>1 DEF Complaint
<1> HIDE DEF others
<1> QED
  BY <1>1, <1>2, <1>3, <1>4 DEF Complaints

LEMMA DirectivesComplainedOf ==
  /\ \A c \in Complaints : c.message = NoSuchDirective =>
         c.about \notin DeclaredDirectives \cup BuiltInDirectives
  /\ Complaints = {} => UsedDirectives \subseteq DeclaredDirectives \cup BuiltInDirectives
<1> DEFINE declared == DeclaredDirectives \cup BuiltInDirectives
           used(p) == {d.name : d \in ToSet(NodeAt(p).dirs)}
<1>1. UndefinedDirectives
        = UNION {{Complaint(NoSuchDirective, p, d) : d \in used(p) \ declared} : p \in Everything}
  BY DEF UndefinedDirectives
<1>2. UsedDirectives = UNION {used(p) : p \in {p \in Everything : InScope(p)}}
  BY DEF UsedDirectives
<1> HIDE DEF declared, used
<1>3. ASSUME NEW c \in UndefinedDirectives PROVE c.about \notin declared
  <2>1. PICK p, d : c = Complaint(NoSuchDirective, p, d) /\ d \notin declared
    BY <1>1
  <2>2. c.about = d
    BY <2>1 DEF Complaint
  <2> QED
    BY <2>1, <2>2
<1>4. ASSUME NEW p \in Everything, NEW d \in used(p) \ declared
      PROVE  Complaint(NoSuchDirective, p, d) \in UndefinedDirectives
  BY <1>1
<1>5. ASSUME Complaints = {} PROVE UsedDirectives \subseteq declared
  <2>1. \A p \in Everything : used(p) \subseteq declared
    BY <1>4, <1>5, ComplaintsAre
  <2> QED
    BY <1>2, <2>1
<1> QED
  BY <1>3, <1>5, ComplaintsAre DEF declared

LEMMA TypesComplainedOf ==
  ASSUME NEW c \in Complaints, c.message = NoSuchType
  PROVE  /\ c.pos \in Everything
         /\ \/ NodeAt(c.pos).type \notin DefinedTypes \cup {<<>>}
            \/ (c.pos[3] = 0 /\ ToSet(Def(c.pos).refs) # {})
<1> DEFINE types == DefinedTypes \cup ExtendedTypes \cup BuiltInTypes
           used(p) == {NodeAt(p).type} \cup (IF p[3] = 0 THEN ToSet(Def(p).refs) ELSE {})
<1>1. UndefinedTypes
        = UNION {{Complaint(NoSuchType, p, t) : t \in used(p) \ (types \cup {<<>>})} : p \in Everything}
  BY DEF UndefinedTypes
<1>2. ASSUME NEW p, NEW t \in used(p)
      PROVE  t = NodeAt(p).type \/ (p[3] = 0 /\ ToSet(Def(p).refs) # {})
  <2>1. CASE p[3] = 0
    BY <2>1
  <2>2. CASE p[3] # 0
    BY <2>2
  <2> QED
    BY <2>1, <2>2
<1>3. DefinedTypes \subseteq types
  OBVIOUS
<1> HIDE DEF types, used
<1>4. PICK p \in Everything : \E t : c = Complaint(NoSuchType, p, t) /\ t \in used(p) \ (types \cup {<<>>})
  BY <1>1, ComplaintsAre
<1>5. c.pos = p
  BY <1>4 DEF Complaint
<1> QED
  BY <1>2, <1>3, <1>4, <1>5

LEMMA ImportsUnchanged ==
  ASSUME UNCHANGED <<sources, config>>
  PROVE  /\ KnownDirectives' = KnownDirectives /\ UsedDirectives' = UsedDirectives
         /\ \A p : InScope(p)' <=> InScope(p)
BY DEF KnownDirectives, Imported, LinksWritten, UsedDirectives, Everything, Nodes, Own, Arguments,
       Definitions, Extensions, Directives, SchemaBlocks, SchemaExtensions, InScope, NodeAt, Def,
       Written, Filter, ForEach, When

(* What gqlparser objects to is refused rightly. *)
Rightly(c) ==
  /\ RuleForMessage(c) = "known-directives" => c.about \notin KnownDirectives
  /\ RuleForMessage(c) = "known-type-names" => InScope(c.pos)

LEMMA ObjectingRightly ==
  ASSUME Completed, NEW c \in Complaints
  PROVE  Rightly(c)
<1>1. RuleForMessage(c) = "known-directives" => c.about \notin KnownDirectives
  BY RulesAre, DirectivesComplainedOf, KnownAre
<1>2. ASSUME RuleForMessage(c) = "known-type-names", ~InScope(c.pos) PROVE FALSE
  <2>1. c.message = NoSuchType
    BY <1>2, RulesAre
  <2>2. c.pos \in Everything
    BY <2>1, TypesComplainedOf
  <2>3. NodeAt(c.pos).type \in DefinedTypes \cup {<<>>} /\ (c.pos[3] = 0 => Def(c.pos).refs = <<>>)
    BY <1>2, <2>2, PreludeTypesAre
  <2>4. ToSet(<<>>) = {}
    BY DEF ToSet
  <2>5. c.pos[3] = 0 /\ ToSet(Def(c.pos).refs) # {}
    BY <2>1, <2>3, TypesComplainedOf
  <2> QED
    BY <2>3, <2>4, <2>5
<1> QED
  BY <1>1, <1>2 DEF Rightly

LEMMA NotParsedRightly ==
  ASSUME NEW broken, NEW c \in SyntaxErrors(broken)
  PROVE  Rightly(c)
<1>1. PICK p, a : c = Complaint("Unexpected", p, a)
  BY DEF SyntaxErrors
<1>2. c.message = "Unexpected"
  BY <1>1 DEF Complaint
<1>3. RuleForMessage(c) = "gqlparser"
  BY <1>2, RulesAre
<1> QED
  BY <1>3 DEF Rightly

LEMMA RefusingRightly ==
  ASSUME NEW complaints, \A c \in complaints : Rightly(c), Refuse(complaints), UNCHANGED sources
  PROVE  pc' = "refused" /\ RefusedRightly'
<1>1. PICK c \in complaints : raised' = <<Tier1Violation(c)>>
  BY DEF Refuse
<1>2. pc' = "refused" /\ UNCHANGED <<sources, config>>
  BY DEF Refuse, Go
<1>3. Rightly(c)
  BY <1>1
<1>4. PICK r : /\ raised' = <<r>>
               /\ r.rule = RuleForMessage(c) /\ r.pos = c.pos /\ r.what = c.about
  BY <1>1 DEF Tier1Violation, Violation
<1>5. /\ r.rule = "known-directives" => r.what \notin KnownDirectives'
      /\ r.rule = "known-type-names" => InScope(r.pos)'
  BY <1>2, <1>3, <1>4, ImportsUnchanged DEF Rightly
<1>6. \A i \in DOMAIN raised' : raised'[i] = r
  BY <1>4
<1> QED
  BY <1>2, <1>5, <1>6 DEF RefusedRightly, InScope

LEMMA ImportingStep ==
  Locating /\ Importing /\ [Next]_vars => Importing'
<1> SUFFICES ASSUME Locating, Importing, [Next]_vars
             PROVE  Importing'
  OBVIOUS
<1>1. CASE Configure
  <2>1. pc' \in {"discover", "load", "find", "prelude", "error"}
    BY <1>1 DEF Configure, Discover, LoadFile, Find
  <2> QED
    BY <2>1 DEF Importing
<1>2. CASE ReadFiles
  <2>1. NoPreludes' /\ pc' = "federation"
    BY <1>2, ReadingFiles DEF ReadFiles, Go
  <2> QED
    BY <2>1 DEF Importing
<1>3. CASE AddPreludes
  <2>1. pc = "federation" /\ NoPreludes /\ config.scalars \in Seq(Name)
    BY <1>3 DEF AddPreludes, Importing, Locating, Loaded, Stages, IsConfigFile
  <2>2. CASE \E why : GiveUp(why)
    BY <2>2 DEF GiveUp, Go, Importing
  <2>3. CASE \E broken : Refuse(SyntaxErrors(broken)) /\ UNCHANGED sources
    BY <2>3, NotParsedRightly, RefusingRightly DEF Importing
  <2>4. CASE /\ sources' = sources \o (IF config.federation # "" THEN FederationPrelude ELSE <<>>)
                            \o ScalarsPrelude
             /\ Go("validate")
    <3>1. Completed' /\ pc' = "validate"
      BY <2>1, <2>4, AddingPreludes DEF Go
    <3> QED
      BY <3>1 DEF Importing
  <2> QED
    BY <1>3, <2>2, <2>3, <2>4 DEF AddPreludes
<1>4. CASE Validate
  <2> DEFINE broken == {s \in DOMAIN sources : sources[s].broken}
             complaints == IF broken # {} THEN SyntaxErrors(broken) ELSE Complaints
  <2>1. Completed /\ UNCHANGED sources
    BY <1>4 DEF Validate, Importing
  <2>2. Refuse(complaints) \/ (complaints = {} /\ Go("gapfill"))
    BY <1>4 DEF Validate
  <2> HIDE DEF broken
  <2>3. \A c \in complaints : Rightly(c)
    BY <2>1, ObjectingRightly, NotParsedRightly
  <2>4. CASE Refuse(complaints)
    <3> HIDE DEF complaints
    <3>1. pc' = "refused" /\ RefusedRightly'
      BY <2>1, <2>3, <2>4, RefusingRightly
    <3> QED
      BY <3>1 DEF Importing
  <2>5. CASE complaints = {} /\ Go("gapfill")
    <3>1. Complaints = {}
      <4>1. ASSUME NEW s \in broken PROVE SyntaxErrors(broken) # {}
        BY DEF SyntaxErrors
      <4> QED
        BY <2>5, <4>1
    <3>2. UsedDirectives \subseteq KnownDirectives
      BY <2>1, <3>1, DirectivesComplainedOf, KnownAre
    <3>3. pc' = "gapfill" /\ UNCHANGED <<sources, config>>
      BY <2>1, <2>5 DEF Go
    <3> QED
      BY <3>2, <3>3, ImportsUnchanged DEF Importing
  <2> QED
    BY <2>2, <2>4, <2>5
<1>5. CASE FillGaps \/ (\E g \in Groups : Finish(g)) \/ Gather
  <2>1. /\ pc \in {"gapfill", "tier3"} /\ pc' \in {"tier3", "done", "error"}
        /\ UNCHANGED <<sources, config>>
    BY <1>5 DEF FillGaps, Finish, Gather, Go, GiveUp, configVars
  <2> QED
    BY <2>1, ImportsUnchanged DEF Importing
<1>6. CASE UNCHANGED vars
  <2>1. UNCHANGED <<pc, sources, config, raised, world>>
    BY <1>6 DEF vars, configVars, ruleVars
  <2>2. NoPreludes' = NoPreludes /\ Completed' = Completed
    BY <2>1 DEF NoPreludes, Completed, WellFormed, Closed, DefsIn, DeclaredIn, ImportedBy, LinksIn, Names
  <2>3. RefusedRightly => RefusedRightly'
    BY <2>1, ImportsUnchanged DEF RefusedRightly
  <2> QED
    BY <2>1, <2>2, <2>3, ImportsUnchanged DEF Importing
<1> QED
  BY <1>1, <1>2, <1>3, <1>4, <1>5, <1>6 DEF Next

(* A schema may use what it declares itself, what is built in, and what a   *)
(* @link of one of its files imports from the configured version of         *)
(* federation, and nothing else: the preludes that are added complete it    *)
(* exactly, and never are themselves to blame (federationPrelude,           *)
(* parseAndValidate).                                                       *)
THEOREM ImportsAreHonouredHolds == Spec => []ImportsAreHonoured
<1>1. Init => Locating /\ Importing
  <2>1. Init => Locating
    BY LocatingInit DEF Init
  <2>2. Init => Importing
    BY DEF Init, InitConfig, Importing
  <2> QED
    BY <2>1, <2>2
<1>2. Locating /\ Importing /\ [Next]_vars => (Locating /\ Importing)'
  BY LocatingStep, ImportingStep
<1>3. Importing => ImportsAreHonoured
  BY DEF Importing, RefusedRightly, ImportsAreHonoured
<1> QED
  BY <1>1, <1>2, <1>3, PTL DEF Spec

-----------------------------------------------------------------------------
(* Sequences whatever they are made of. *)

LEMMA SeqIs ==
  ASSUME NEW s, IsSeq(s)
  PROVE  Len(s) \in Nat /\ DOMAIN s = 1 .. Len(s) /\ s = [i \in DOMAIN s |-> s[i]]
BY DEF IsSeq

LEMMA ListIs ==
  ASSUME NEW n \in Nat, NEW s, DOMAIN s = 1 .. n, s = [i \in DOMAIN s |-> s[i]]
  PROVE  IsSeq(s)
<1>1. s \in [1 .. n -> ToSet(s)]
  BY DEF ToSet
<1> QED
  BY <1>1, SeqDef DEF IsSeq

LEMMA NothingIs == IsSeq(<<>>) /\ ToSet(<<>>) = {}
<1>1. ToSet(<<>>) = {} /\ <<>> \in Seq({})
  BY DEF ToSet
<1> QED
  BY <1>1 DEF IsSeq

LEMMA OneIs ==
  ASSUME NEW x
  PROVE  IsSeq(<<x>>) /\ ToSet(<<x>>) = {x}
<1>1. ToSet(<<x>>) = {x} /\ <<x>> \in Seq({x})
  BY DEF ToSet
<1> QED
  BY <1>1 DEF IsSeq

LEMMA ConcatOf ==
  ASSUME NEW s, IsSeq(s), NEW t, IsSeq(t)
  PROVE  IsSeq(s \o t) /\ ToSet(s \o t) = ToSet(s) \cup ToSet(t)
<1> DEFINE T == ToSet(s) \cup ToSet(t)
<1>1. s \in Seq(T) /\ t \in Seq(T)
  BY OfMore DEF IsSeq
<1>2. s \o t \in Seq(T) /\ ToSet(s \o t) = T
  BY <1>1, ConcatIs
<1> QED
  BY <1>2 DEF IsSeq

LEMMA FlattenOf ==
  ASSUME NEW seqs, IsSeq(seqs), \A i \in DOMAIN seqs : IsSeq(seqs[i])
  PROVE  /\ IsSeq(FlattenSeq(seqs))
         /\ ToSet(FlattenSeq(seqs)) = UNION {ToSet(seqs[i]) : i \in DOMAIN seqs}
<1> DEFINE T == UNION {ToSet(seqs[i]) : i \in DOMAIN seqs}
<1>1. \A i \in DOMAIN seqs : seqs[i] \in Seq(T)
  <2> SUFFICES ASSUME NEW i \in DOMAIN seqs PROVE seqs[i] \in Seq(T)
    OBVIOUS
  <2>1. ToSet(seqs[i]) \subseteq T /\ seqs[i] \in Seq(ToSet(seqs[i]))
    BY DEF IsSeq
  <2> HIDE DEF T
  <2> QED
    BY <2>1, OfMore
<1>2. seqs \in Seq(Seq(T))
  <2>1. Len(seqs) \in Nat /\ seqs \in [1 .. Len(seqs) -> Seq(T)]
    BY <1>1, SeqIs
  <2> QED
    BY <2>1, SeqDef
<1>3. FlattenSeq(seqs) \in Seq(T) /\ ToSet(FlattenSeq(seqs)) = T
  BY <1>2, FlattenSeqIs
<1> QED
  BY <1>3 DEF IsSeq

LEMMA WhenOf ==
  ASSUME NEW condition, NEW x
  PROVE  IsSeq(When(condition, x)) /\ ToSet(When(condition, x)) = IF condition THEN {x} ELSE {}
BY NothingIs, OneIs DEF When

(* Filter, by a set. *)
Kept(T, s) == FlattenSeq([i \in DOMAIN s |-> When(s[i] \in T, s[i])])

LEMMA KeptIs ==
  ASSUME NEW s, IsSeq(s), NEW T
  PROVE  IsSeq(Kept(T, s)) /\ ToSet(Kept(T, s)) = ToSet(s) \cap T
<1> DEFINE seqs == [i \in DOMAIN s |-> When(s[i] \in T, s[i])]
<1>1. \A i \in DOMAIN s : IsSeq(seqs[i]) /\ ToSet(seqs[i]) = IF s[i] \in T THEN {s[i]} ELSE {}
  BY WhenOf
<1>2. IsSeq(seqs)
  BY SeqIs, ListIs
<1>3. DOMAIN seqs = DOMAIN s
  OBVIOUS
<1>4. IsSeq(FlattenSeq(seqs)) /\ ToSet(FlattenSeq(seqs)) = UNION {ToSet(seqs[i]) : i \in DOMAIN seqs}
  <2> HIDE DEF seqs
  <2> QED
    BY <1>1, <1>2, <1>3, FlattenOf
<1>5. UNION {ToSet(seqs[i]) : i \in DOMAIN seqs} = ToSet(s) \cap T
  <2> HIDE DEF seqs
  <2> QED
    BY <1>1, <1>3 DEF ToSet
<1> QED
  BY <1>4, <1>5 DEF Kept

(* A finite set, one after the other. *)
LEMMA SetToSeqIs ==
  ASSUME NEW S, IsFiniteSet(S)
  PROVE  /\ SetToSeq(S) \in Seq(S) /\ IsSeq(SetToSeq(S)) /\ ToSet(SetToSeq(S)) = S
         /\ S = {} => SetToSeq(S) = <<>>
<1> DEFINE N == Cardinality(S)
           seq == SetToSeq(S)
<1>1. N \in Nat /\ ExistsBijection(1 .. N, S)
  BY FS_CardinalityType
<1>2. PICK f : f \in Bijection(1 .. N, S)
  BY <1>1 DEF ExistsBijection
<1>3. f \in [1 .. N -> S] /\ IsInjective(f)
  BY <1>2 DEF Bijection, Injection
<1>4. seq \in [1 .. N -> S] /\ IsInjective(seq)
  BY <1>3 DEF SetToSeq
<1> HIDE DEF seq
<1>5. seq \in Injection(1 .. N, S) /\ IsFiniteSet(1 .. N) /\ Cardinality(1 .. N) = N
  BY <1>1, <1>4, FS_Interval DEF Injection
<1>6. seq \in Surjection(1 .. N, S)
  BY <1>5, FS_Injection
<1>7. ToSet(seq) = S
  BY <1>4, <1>6 DEF Surjection, ToSet
<1>8. seq \in Seq(S)
  BY <1>1, <1>4, SeqDef
<1>9. S = {} => seq = <<>>
  BY <1>8
<1> QED
  BY <1>7, <1>8, <1>9 DEF seq, IsSeq

-----------------------------------------------------------------------------
(* The walk through the names.  It ends because only finitely many names   *)
(* refer to others, and comes to the least set that has the starts and     *)
(* what its members refer to -- those visited before refer to nothing.     *)

Following(X, R, S) == R \subseteq S /\ X \subseteq S /\ \A m \in S \ R : Refs(m) \subseteq S
Least(X, R) == {n \in Name : \A S \in SUBSET Name : Following(X, R, S) => n \in S}

LEMMA LeastOfNone ==
  ASSUME NEW R \in SUBSET Name
  PROVE  Least({}, R) = R
<1>1. Following({}, R, R)
  BY DEF Following
<1> QED
  BY <1>1 DEF Least, Following

LEMMA LeastOfMore ==
  ASSUME NEW R \in SUBSET Name, NEW h \in Name, NEW X
  PROVE  /\ h \in R => Least({h} \cup X, R) = Least(X, R)
         /\ h \notin R => Least({h} \cup X, R) = Least(Refs(h) \cup X, R \cup {h})
<1>1. ASSUME h \in R, NEW S PROVE Following({h} \cup X, R, S) <=> Following(X, R, S)
  BY <1>1 DEF Following
<1>2. ASSUME h \notin R, NEW S
      PROVE  Following({h} \cup X, R, S) <=> Following(Refs(h) \cup X, R \cup {h}, S)
  BY <1>2 DEF Following
<1>3. CASE h \in R
  BY <1>1, <1>3 DEF Least
<1>4. CASE h \notin R
  BY <1>2, <1>4 DEF Least
<1> QED
  BY <1>3, <1>4

LEMMA HeadIs ==
  ASSUME NEW T, NEW s \in Seq(T), s # <<>>
  PROVE  /\ Head(s) \in T /\ Tail(s) \in Seq(T) /\ Len(Tail(s)) = Len(s) - 1 /\ Len(s) \in Nat \ {0}
         /\ ToSet(s) = {Head(s)} \cup ToSet(Tail(s))
<1>1. /\ Head(s) \in T /\ Tail(s) \in Seq(T) /\ Len(Tail(s)) = Len(s) - 1 /\ Len(s) \in Nat \ {0}
      /\ s = <<Head(s)>> \o Tail(s)
  OBVIOUS
<1>2. ToSet(<<Head(s)>> \o Tail(s)) = {Head(s)} \cup ToSet(Tail(s))
  BY <1>1, ConcatOf, OneIs, OfItsOwn
<1> QED
  BY <1>1, <1>2

(* The names that refer to others. *)
Referring(K) ==
  /\ IsFiniteSet(K)
  /\ \A n \in Name : IsFiniteSet(Refs(n)) /\ Refs(n) \subseteq Name /\ (n \notin K => Refs(n) = {})

LEMMA CollectIs ==
  ASSUME NEW K, Referring(K), NEW starts \in Seq(Name), NEW visited \in SUBSET Name
  PROVE  Collect(starts, visited) = Least(ToSet(starts), visited)
<1> DEFINE Onwards(names) == SetToSeq(Refs(Head(names))) \o Tail(names)
           Step(f, names, reached) ==
               IF names = <<>> THEN reached
               ELSE IF Head(names) \in reached THEN f[<<Tail(names), reached>>]
               ELSE f[<<Onwards(names), reached \cup {Head(names)}>>]
           Args == Seq(Name) \X SUBSET Name
           Collects(f) == f = [at \in Args |-> Step(f, at[1], at[2])]
           least == [at \in Args |-> Least(ToSet(at[1]), at[2])]
<1>1. ASSUME NEW names \in Seq(Name), names # <<>>
      PROVE  /\ Onwards(names) \in Seq(Name)
             /\ ToSet(Onwards(names)) = Refs(Head(names)) \cup ToSet(Tail(names))
             /\ Refs(Head(names)) = {} => Onwards(names) = Tail(names)
  <2>1. Head(names) \in Name /\ Tail(names) \in Seq(Name)
    BY <1>1, HeadIs
  <2> DEFINE refs == Refs(Head(names))
             seq == SetToSeq(refs)
  <2>2. IsFiniteSet(refs) /\ refs \subseteq Name
    BY <2>1 DEF Referring
  <2>3. seq \in Seq(Name) /\ ToSet(seq) = refs /\ (refs = {} => seq = <<>>)
    <3> HIDE DEF refs
    <3> QED
      BY <2>2, SetToSeqIs, OfMore
  <2> HIDE DEF seq, refs
  <2>4. seq \o Tail(names) \in Seq(Name) /\ ToSet(seq \o Tail(names)) = refs \cup ToSet(Tail(names))
    BY <2>1, <2>3, ConcatIs
  <2>5. seq = <<>> => seq \o Tail(names) = Tail(names)
    BY <2>1
  <2> QED
    BY <2>3, <2>4, <2>5 DEF seq, refs
<1> HIDE DEF Onwards
<1>2. ASSUME NEW names \in Seq(Name), NEW R \in SUBSET Name
      PROVE  <<names, R>> \in Args /\ least[<<names, R>>] = Least(ToSet(names), R)
  OBVIOUS
<1> HIDE DEF least
<1>3. ASSUME NEW names \in Seq(Name), NEW R \in SUBSET Name
      PROVE  least[<<names, R>>] = Step(least, names, R)
  <2>1. CASE names = <<>>
    <3>1. ToSet(names) = {}
      BY <2>1, NothingIs
    <3>2. least[<<names, R>>] = R
      <4>1. Least({}, R) = R
        BY LeastOfNone
      <4>2. least[<<names, R>>] = Least(ToSet(names), R)
        BY <1>2
      <4> QED
        BY <3>1, <4>1, <4>2
    <3> QED
      BY <2>1, <3>2
  <2>2. CASE names # <<>>
    <3> DEFINE h == Head(names)
               X == ToSet(Tail(names))
    <3>1. h \in Name /\ Tail(names) \in Seq(Name) /\ ToSet(names) = {h} \cup X
      BY <2>2, HeadIs
    <3>2. Onwards(names) \in Seq(Name) /\ ToSet(Onwards(names)) = Refs(h) \cup X
      BY <1>1, <2>2
    <3> HIDE DEF h, X
    <3>3. h \in R => Least({h} \cup X, R) = Least(X, R)
      BY <3>1, LeastOfMore
    <3>4. h \notin R => Least({h} \cup X, R) = Least(Refs(h) \cup X, R \cup {h})
      BY <3>1, LeastOfMore
    <3>5. least[<<Tail(names), R>>] = Least(X, R)
      BY <1>2, <3>1 DEF X
    <3>6. least[<<Onwards(names), R \cup {h}>>] = Least(Refs(h) \cup X, R \cup {h})
      <4>1. R \cup {h} \in SUBSET Name
        BY <3>1
      <4> QED
        BY <1>2, <3>2, <4>1
    <3>7. least[<<names, R>>] = Least({h} \cup X, R)
      BY <1>2, <3>1
    <3> QED
      BY <2>2, <3>3, <3>4, <3>5, <3>6, <3>7 DEF h
  <2> QED
    BY <2>1, <2>2
<1>4. Collects(least)
  <2>1. \A at \in Args : /\ at[1] \in Seq(Name) /\ at[2] \in SUBSET Name /\ at = <<at[1], at[2]>>
    OBVIOUS
  <2>2. \A at \in Args : least[at] = Step(least, at[1], at[2])
    <3> HIDE DEF Step, Args
    <3> QED
      BY <1>3, <2>1
  <2>3. least = [at \in Args |-> least[at]]
    BY DEF least
  <2> HIDE DEF Step, Args
  <2> QED
    BY <2>2, <2>3
<1>5. ASSUME NEW f, Collects(f)
      PROVE  \A names \in Seq(Name), R \in SUBSET Name : f[<<names, R>>] = least[<<names, R>>]
  <2> DEFINE Agree(names, R) == f[<<names, R>>] = least[<<names, R>>]
             Left(R) == Cardinality(K \ R)
             Good == {n \in Nat : \A names \in Seq(Name), R \in SUBSET Name :
                                      Left(R) = n => Agree(names, R)}
  <2>1. ASSUME NEW names \in Seq(Name), NEW R \in SUBSET Name
        PROVE  f[<<names, R>>] = Step(f, names, R)
    <3>1. <<names, R>> \in Args /\ <<names, R>>[1] = names /\ <<names, R>>[2] = R
      OBVIOUS
    <3> HIDE DEF Step, Args
    <3> QED
      BY <1>5, <3>1
  <2>2. ASSUME NEW R \in SUBSET Name PROVE Left(R) \in Nat
    <3>1. IsFiniteSet(K \ R)
      BY FS_Subset DEF Referring
    <3> QED
      BY <3>1, FS_CardinalityType
  <2>3. ASSUME NEW R \in SUBSET Name, NEW h \in K \ R PROVE Left(R \cup {h}) < Left(R)
    <3> DEFINE left == K \ R
    <3>1. IsFiniteSet(left) /\ h \in left /\ K \ (R \cup {h}) = left \ {h}
      BY FS_Subset DEF Referring
    <3>2. Left(R \cup {h}) = Left(R) - 1
      <4> HIDE DEF left
      <4>1. Cardinality(left \ {h}) = Cardinality(left) - 1
        BY <3>1, FS_RemoveElement
      <4> QED
        BY <3>1, <4>1 DEF left
    <3> HIDE DEF Left
    <3> QED
      BY <2>2, <3>2
  <2>4. ASSUME NEW R \in SUBSET Name, NEW h \in Name \ K PROVE Left(R \cup {h}) = Left(R)
    <3>1. K \ (R \cup {h}) = K \ R
      OBVIOUS
    <3> QED
      BY <3>1
  <2> HIDE DEF Left, Agree
  <2>5. ASSUME NEW n \in Nat, \A k \in Nat : k < n => k \in Good PROVE n \in Good
    <3> DEFINE Short == {l \in Nat : \A names \in Seq(Name), R \in SUBSET Name :
                                        Left(R) = n /\ Len(names) = l => Agree(names, R)}
    <3>1. ASSUME NEW l \in Nat, \A k \in Nat : k < l => k \in Short,
                 NEW names \in Seq(Name), NEW R \in SUBSET Name, Left(R) = n, Len(names) = l
          PROVE  Agree(names, R)
      <4>1. f[<<names, R>>] = Step(f, names, R) /\ least[<<names, R>>] = Step(least, names, R)
        BY <1>3, <2>1
      <4>2. CASE names = <<>>
        BY <4>1, <4>2 DEF Agree
      <4>3. CASE names # <<>>
        <5> DEFINE h == Head(names)
        <5>1. h \in Name /\ Tail(names) \in Seq(Name) /\ Len(Tail(names)) \in Nat /\ Len(Tail(names)) < l
          BY <3>1, <4>3, HeadIs
        <5>2. /\ Onwards(names) \in Seq(Name) /\ R \cup {h} \in SUBSET Name
              /\ Refs(h) = {} => Onwards(names) = Tail(names)
          BY <1>1, <4>3, <5>1
        <5>3. Agree(Tail(names), R)
          BY <3>1, <5>1
        <5> HIDE DEF h, Short
        <5>4. CASE h \in K /\ h \notin R
          <6>1. Left(R \cup {h}) \in Nat /\ Left(R \cup {h}) < n
            BY <2>2, <2>3, <3>1, <5>2, <5>4
          <6>2. Agree(Onwards(names), R \cup {h})
            BY <2>5, <5>2, <6>1
          <6> QED
            BY <4>1, <4>3, <5>4, <6>2 DEF Agree, h
        <5>5. CASE h \notin K /\ h \notin R
          <6>1. Onwards(names) = Tail(names) /\ Left(R \cup {h}) = n
            BY <2>4, <3>1, <5>1, <5>2, <5>5 DEF Referring
          <6>2. Agree(Onwards(names), R \cup {h})
            BY <3>1, <5>1, <5>2, <6>1 DEF Short
          <6> QED
            BY <4>1, <4>3, <5>5, <6>2 DEF Agree, h
        <5>6. CASE h \in R
          BY <4>1, <4>3, <5>3, <5>6 DEF Agree, h
        <5> QED
          BY <5>4, <5>5, <5>6
      <4> QED
        BY <4>2, <4>3
    <3>2. Nat \subseteq Short
      <4>1. \A l \in Nat : (\A k \in Nat : k < l => k \in Short) => l \in Short
        BY <3>1
      <4> HIDE DEF Short
      <4> QED
        BY <4>1, Induction
    <3>3. ASSUME NEW names \in Seq(Name), NEW R \in SUBSET Name, Left(R) = n PROVE Agree(names, R)
      <4>1. Len(names) \in Short
        <5> HIDE DEF Short
        <5> QED
          BY <3>2
      <4> QED
        BY <3>3, <4>1
    <3> QED
      BY <3>3
  <2>6. Nat \subseteq Good
    <3> HIDE DEF Good
    <3> QED
      BY <2>5, Induction
  <2>7. ASSUME NEW names \in Seq(Name), NEW R \in SUBSET Name PROVE Agree(names, R)
    <3>1. Left(R) \in Good
      <4> HIDE DEF Good
      <4> QED
        BY <2>2, <2>6
    <3> QED
      BY <3>1
  <2> QED
    BY <2>7 DEF Agree
<1> DEFINE collect == CHOOSE f : Collects(f)
<1>6. Collects(collect)
  BY <1>4
<1>7. Collect(starts, visited) = collect[<<starts, visited>>]
  BY DEF Collect, Onwards
<1>8. collect[<<starts, visited>>] = least[<<starts, visited>>]
  <2> HIDE DEF Collects, collect
  <2> QED
    BY <1>5, <1>6
<1> QED
  BY <1>2, <1>7, <1>8

-----------------------------------------------------------------------------
(* Only finitely many names are written. *)

LEMMA IndicesAreFinite ==
  ASSUME NEW s, IsSeq(s)
  PROVE  IsFiniteSet(DOMAIN s)
<1>1. Len(s) \in Nat /\ DOMAIN s = 1 .. Len(s)
  BY SeqIs
<1> QED
  BY <1>1, FS_Interval

LEMMA MembersAreFinite ==
  ASSUME NEW s, IsSeq(s)
  PROVE  IsFiniteSet(ToSet(s))
<1>1. Len(s) \in Nat /\ s \in [1 .. Len(s) -> ToSet(s)]
  BY SeqIs DEF ToSet
<1>2. s \in Surjection(1 .. Len(s), ToSet(s))
  BY <1>1, SeqIs DEF Surjection, ToSet
<1> QED
  BY <1>1, <1>2, FS_Interval, FS_Surjection

LEMMA ImageIsFinite ==
  ASSUME NEW S, IsFiniteSet(S), NEW f
  PROVE  IsFiniteSet({f[x] : x \in S})
<1> DEFINE g == [x \in S |-> f[x]]
<1>1. g \in Surjection(S, {f[x] : x \in S})
  BY DEF Surjection
<1> HIDE DEF g
<1> QED
  BY <1>1, FS_Surjection

LEMMA UnionIsFinite ==
  ASSUME NEW S, IsFiniteSet(S), NEW f, \A x \in S : IsFiniteSet(f[x])
  PROVE  IsFiniteSet(UNION {f[x] : x \in S})
<1> DEFINE all == {f[x] : x \in S}
<1>1. IsFiniteSet(all)
  BY ImageIsFinite
<1>2. \A T \in all : IsFiniteSet(T)
  OBVIOUS
<1> HIDE DEF all
<1>3. IsFiniteSet(UNION all)
  BY <1>1, <1>2, FS_UNION
<1> QED
  BY <1>3 DEF all

LEMMA BothAreFinite ==
  ASSUME NEW S, IsFiniteSet(S), NEW T, IsFiniteSet(T)
  PROVE  IsFiniteSet(S \cup T)
BY FS_Union

(* The names a node is written with, and those of a definition. *)
NamesIn(n) == {n.type} \cup {d.name : d \in ToSet(n.dirs)}
NamesOfNode(n) == NamesIn(n) \cup UNION {NamesIn(n.args[k]) : k \in DOMAIN n.args}
NamesOf(def) ==
  {def.name} \cup NamesIn(def) \cup ToSet(def.refs) \cup {r[2] : r \in def.roots}
  \cup UNION {NamesOfNode(def.nodes[j]) : j \in DOMAIN def.nodes}
NamesFrom(d) == UNION {NamesOf(d.defs[i]) : i \in DOMAIN d.defs}
Vocabulary == UNION {NamesFrom(sources[s]) : s \in DOMAIN sources}

LEMMA NamesInAre ==
  ASSUME NEW n, IsNode(n)
  PROVE  IsFiniteSet(NamesIn(n)) /\ NamesIn(n) \subseteq Name
<1> DEFINE D == ToSet(n.dirs)
           name == [d \in D |-> d.name]
<1>1. IsFiniteSet(D)
  BY MembersAreFinite DEF IsNode
<1>2. IsFiniteSet({name[d] : d \in D})
  <2> HIDE DEF D, name
  <2> QED
    BY <1>1, ImageIsFinite
<1>3. {name[d] : d \in D} = {d.name : d \in ToSet(n.dirs)}
  OBVIOUS
<1>4. IsFiniteSet({n.type})
  BY FS_Singleton
<1>5. IsFiniteSet(NamesIn(n))
  BY <1>2, <1>3, <1>4, BothAreFinite DEF NamesIn
<1>6. NamesIn(n) \subseteq Name
  <2>1. n.type \in Name /\ \A i \in DOMAIN n.dirs : n.dirs[i].name \in Name
    BY DEF IsNode, IsUse
  <2>2. \A d \in ToSet(n.dirs) : d.name \in Name
    BY <2>1 DEF ToSet
  <2> QED
    BY <2>1, <2>2 DEF NamesIn
<1> QED
  BY <1>5, <1>6

LEMMA NamesOfNodeAre ==
  ASSUME NEW n, IsNode(n), \A k \in DOMAIN n.args : IsNode(n.args[k])
  PROVE  IsFiniteSet(NamesOfNode(n)) /\ NamesOfNode(n) \subseteq Name
<1> DEFINE K == DOMAIN n.args
           names == [k \in K |-> NamesIn(n.args[k])]
<1>1. IsFiniteSet(K)
  BY IndicesAreFinite DEF IsNode
<1>2. \A k \in K : IsFiniteSet(names[k]) /\ names[k] \subseteq Name
  BY NamesInAre
<1>3. UNION {names[k] : k \in K} = UNION {NamesIn(n.args[k]) : k \in K}
  OBVIOUS
<1>4. IsFiniteSet(UNION {names[k] : k \in K})
  <2> HIDE DEF names, K
  <2> QED
    BY <1>1, <1>2, UnionIsFinite
<1>5. IsFiniteSet(NamesIn(n)) /\ NamesIn(n) \subseteq Name
  BY NamesInAre
<1>6. IsFiniteSet(NamesOfNode(n))
  BY <1>3, <1>4, <1>5, BothAreFinite DEF NamesOfNode
<1>7. UNION {names[k] : k \in K} \subseteq Name
  <2> HIDE DEF names, K
  <2> QED
    BY <1>2
<1> QED
  BY <1>3, <1>5, <1>6, <1>7 DEF NamesOfNode

LEMMA NamesOfAre ==
  ASSUME NEW def, IsDefinition(def)
  PROVE  IsFiniteSet(NamesOf(def)) /\ NamesOf(def) \subseteq Name
<1> DEFINE J == DOMAIN def.nodes
           names == [j \in J |-> NamesOfNode(def.nodes[j])]
           second == [r \in def.roots |-> r[2]]
           A == {def.name} \cup NamesIn(def)
           B == A \cup ToSet(def.refs)
           C == B \cup {r[2] : r \in def.roots}
<1>1. /\ IsNode(def) /\ IsFiniteSet(def.roots) /\ \A r \in def.roots : r[2] \in Name
      /\ IsSeq(def.nodes) /\ \A j \in J : IsNode(def.nodes[j]) /\ \A k \in DOMAIN def.nodes[j].args : IsNode(def.nodes[j].args[k])
      /\ IsSeq(def.refs) /\ ToSet(def.refs) \subseteq Name
  BY OfItsOwn DEF IsDefinition
<1>2. IsFiniteSet(A) /\ A \subseteq Name
  <2>1. IsFiniteSet({def.name}) /\ def.name \in Name
    BY <1>1, FS_Singleton DEF IsNode
  <2> QED
    BY <1>1, <2>1, NamesInAre, BothAreFinite
<1>3. IsFiniteSet(B) /\ B \subseteq Name
  <2>1. IsFiniteSet(ToSet(def.refs))
    BY <1>1, MembersAreFinite
  <2> HIDE DEF A
  <2> QED
    BY <1>1, <1>2, <2>1, BothAreFinite
<1>4. IsFiniteSet(C) /\ C \subseteq Name
  <2>1. IsFiniteSet({second[r] : r \in def.roots})
    <3> HIDE DEF second
    <3> QED
      BY <1>1, ImageIsFinite
  <2>2. {second[r] : r \in def.roots} = {r[2] : r \in def.roots}
    OBVIOUS
  <2> HIDE DEF B, second
  <2>3. {r[2] : r \in def.roots} \subseteq Name
    BY <1>1
  <2> QED
    BY <1>3, <2>1, <2>2, <2>3, BothAreFinite
<1>5. \A j \in J : IsFiniteSet(names[j]) /\ names[j] \subseteq Name
  <2> SUFFICES ASSUME NEW j \in J PROVE IsFiniteSet(NamesOfNode(def.nodes[j])) /\ NamesOfNode(def.nodes[j]) \subseteq Name
    OBVIOUS
  <2> DEFINE n == def.nodes[j]
  <2>1. IsNode(n) /\ \A k \in DOMAIN n.args : IsNode(n.args[k])
    BY <1>1
  <2> HIDE DEF n
  <2>2. IsFiniteSet(NamesOfNode(n)) /\ NamesOfNode(n) \subseteq Name
    BY <2>1, NamesOfNodeAre
  <2> QED
    BY <2>2 DEF n
<1>6. IsFiniteSet(J)
  BY <1>1, IndicesAreFinite
<1>7. UNION {names[j] : j \in J} = UNION {NamesOfNode(def.nodes[j]) : j \in J}
  OBVIOUS
<1>8. IsFiniteSet(UNION {names[j] : j \in J}) /\ UNION {names[j] : j \in J} \subseteq Name
  <2> HIDE DEF J, names
  <2> QED
    BY <1>5, <1>6, UnionIsFinite
<1>9. NamesOf(def) = C \cup UNION {names[j] : j \in J}
  BY <1>7 DEF NamesOf
<1> HIDE DEF C, J, names
<1> QED
  BY <1>4, <1>8, <1>9, BothAreFinite

LEMMA VocabularyIs ==
  ASSUME WellFormed
  PROVE  IsFiniteSet(Vocabulary) /\ Vocabulary \subseteq Name
<1>1. ASSUME NEW d, IsDocument(d) PROVE IsFiniteSet(NamesFrom(d)) /\ NamesFrom(d) \subseteq Name
  <2> DEFINE I == DOMAIN d.defs
             names == [i \in I |-> NamesOf(d.defs[i])]
  <2>1. \A i \in I : IsFiniteSet(names[i]) /\ names[i] \subseteq Name
    <3> SUFFICES ASSUME NEW i \in I PROVE IsFiniteSet(NamesOf(d.defs[i])) /\ NamesOf(d.defs[i]) \subseteq Name
      OBVIOUS
    <3>1. IsDefinition(d.defs[i])
      BY <1>1 DEF IsDocument
    <3> QED
      BY <3>1, NamesOfAre
  <2>2. IsFiniteSet(I)
    BY <1>1, IndicesAreFinite DEF IsDocument
  <2>3. NamesFrom(d) = UNION {names[i] : i \in I}
    BY DEF NamesFrom
  <2> HIDE DEF I, names
  <2> QED
    BY <2>1, <2>2, <2>3, UnionIsFinite
<1> DEFINE S == DOMAIN sources
           names == [s \in S |-> NamesFrom(sources[s])]
<1>2. \A s \in S : IsFiniteSet(names[s]) /\ names[s] \subseteq Name
  BY <1>1, SourcesAre
<1>3. IsFiniteSet(S)
  BY SourcesAre, FS_Interval
<1>4. Vocabulary = UNION {names[s] : s \in S}
  BY DEF Vocabulary
<1> HIDE DEF S, names
<1> QED
  BY <1>2, <1>3, <1>4, UnionIsFinite

-----------------------------------------------------------------------------
(* What is written, and where: the places of the definitions, and those of *)
(* their members.                                                          *)

IsPlace(p) == \E s \in DOMAIN sources : \E i \in DOMAIN sources[s].defs : p = <<s, i, 0, 0>>
IsMember(q) ==
  \E s \in DOMAIN sources : \E i \in DOMAIN sources[s].defs : \E j \in DOMAIN sources[s].defs[i].nodes :
      q = <<s, i, j, 0>>
Within1(p) == p \in Position /\ p[1] \in DOMAIN sources

LEMMA DefIs ==
  ASSUME WellFormed, NEW s \in DOMAIN sources, NEW i \in DOMAIN sources[s].defs
  PROVE  /\ s \in Nat /\ i \in Nat /\ IsDefinition(sources[s].defs[i])
         /\ NamesOf(sources[s].defs[i]) \subseteq Vocabulary
<1>1. s \in Nat /\ i \in Nat /\ IsDocument(sources[s])
  BY SourcesAre
<1>2. IsDefinition(sources[s].defs[i])
  BY <1>1 DEF IsDocument
<1>3. NamesOf(sources[s].defs[i]) \subseteq Vocabulary
  BY DEF Vocabulary, NamesFrom
<1> QED
  BY <1>1, <1>2, <1>3

LEMMA PlaceIs ==
  ASSUME WellFormed, NEW p, IsPlace(p)
  PROVE  /\ Within1(p) /\ p[3] = 0 /\ p[4] = 0 /\ NodeAt(p) = Def(p)
         /\ IsDefinition(Def(p)) /\ NamesOf(Def(p)) \subseteq Vocabulary
<1>1. PICK s \in DOMAIN sources : \E i \in DOMAIN sources[s].defs : p = <<s, i, 0, 0>>
  BY DEF IsPlace
<1>2. PICK i \in DOMAIN sources[s].defs : p = <<s, i, 0, 0>>
  BY <1>1
<1>3. Def(p) = sources[s].defs[i] /\ NodeAt(p) = Def(p)
  BY <1>2 DEF Def, NodeAt
<1>4. /\ s \in Nat /\ i \in Nat /\ IsDefinition(sources[s].defs[i])
      /\ NamesOf(sources[s].defs[i]) \subseteq Vocabulary
  BY DefIs
<1>5. Within1(p) /\ p[3] = 0 /\ p[4] = 0
  BY <1>2, <1>4 DEF Within1, Position
<1> QED
  BY <1>3, <1>4, <1>5

LEMMA OwnAre ==
  ASSUME WellFormed, NEW p, IsPlace(p)
  PROVE  IsSeq(Own(p)) /\ \A q \in ToSet(Own(p)) : IsMember(q)
<1>1. PICK s \in DOMAIN sources : \E i \in DOMAIN sources[s].defs : p = <<s, i, 0, 0>>
  BY DEF IsPlace
<1>2. PICK i \in DOMAIN sources[s].defs : p = <<s, i, 0, 0>>
  BY <1>1
<1>3. \A q : q \in ToSet(Own(p)) <=> \E j \in DOMAIN sources[s].defs[i].nodes : q = <<s, i, j, 0>>
  BY <1>2, OwnIs
<1>4. \A q \in ToSet(Own(p)) : IsMember(q)
  BY <1>3 DEF IsMember
<1>5. IsSeq(Def(p).nodes)
  BY PlaceIs DEF IsDefinition
<1>6. IsSeq(Own(p))
  <2> DEFINE nodes == Def(p).nodes
  <2>1. Len(nodes) \in Nat /\ DOMAIN nodes = 1 .. Len(nodes)
    BY <1>5, SeqIs
  <2>2. DOMAIN Own(p) = 1 .. Len(nodes) /\ Own(p) = [j \in DOMAIN Own(p) |-> Own(p)[j]]
    BY <2>1 DEF Own
  <2> HIDE DEF nodes
  <2> QED
    BY <2>1, <2>2, ListIs
<1> QED
  BY <1>4, <1>6

LEMMA MemberIs ==
  ASSUME WellFormed, NEW q, IsMember(q)
  PROVE  /\ Within1(q) /\ q[3] # 0 /\ q[4] = 0
         /\ NamesIn(NodeAt(q)) \subseteq Vocabulary
         /\ IsSeq(Arguments(q))
         /\ \A a \in ToSet(Arguments(q)) : Within1(a) /\ NamesIn(NodeAt(a)) \subseteq Vocabulary
<1>1. PICK s \in DOMAIN sources : \E i \in DOMAIN sources[s].defs :
            \E j \in DOMAIN sources[s].defs[i].nodes : q = <<s, i, j, 0>>
  BY DEF IsMember
<1>2. PICK i \in DOMAIN sources[s].defs : \E j \in DOMAIN sources[s].defs[i].nodes : q = <<s, i, j, 0>>
  BY <1>1
<1> DEFINE def == sources[s].defs[i]
<1>3. PICK j \in DOMAIN def.nodes : q = <<s, i, j, 0>>
  BY <1>2
<1>4. s \in Nat /\ i \in Nat /\ IsDefinition(def) /\ NamesOf(def) \subseteq Vocabulary
  BY DefIs
<1> DEFINE n == def.nodes[j]
<1>6. /\ j \in Nat \ {0} /\ IsNode(n) /\ \A k \in DOMAIN n.args : IsNode(n.args[k])
      /\ IsSeq(def.nodes)
  <2>1. IsSeq(def.nodes)
    BY <1>4 DEF IsDefinition
  <2>2. IsNode(n) /\ \A k \in DOMAIN n.args : IsNode(n.args[k])
    BY <1>4 DEF IsDefinition
  <2>3. j \in Nat \ {0}
    BY <2>1, SeqIs
  <2> QED
    BY <2>1, <2>2, <2>3
<1>7. NodeAt(q) = n
  BY <1>3, <1>6 DEF NodeAt, Def
<1>8. NamesOfNode(n) \subseteq Vocabulary
  <2>1. NamesOfNode(n) \subseteq NamesOf(def)
    BY DEF NamesOf
  <2> QED
    BY <1>4, <2>1
<1>9. IsSeq(Arguments(q))
  <2> HIDE DEF def, n
  <2>1. Len(n.args) \in Nat /\ DOMAIN n.args = 1 .. Len(n.args)
    BY <1>6, SeqIs DEF IsNode
  <2>2. DOMAIN Arguments(q) = 1 .. Len(n.args) /\ Arguments(q) = [k \in DOMAIN Arguments(q) |-> Arguments(q)[k]]
    BY <1>7, <2>1 DEF Arguments
  <2> QED
    BY <2>1, <2>2, ListIs
<1>10. ASSUME NEW a \in ToSet(Arguments(q)) PROVE Within1(a) /\ NamesIn(NodeAt(a)) \subseteq Vocabulary
  <2>1. PICK k \in DOMAIN n.args : a = <<s, i, j, k>>
    BY <1>3, <1>6, ArgumentsAre
  <2>2. k \in Nat \ {0}
    <3> HIDE DEF n
    <3> QED
      BY <1>6, SeqIs DEF IsNode
  <2>3. NodeAt(a) = n.args[k]
    BY <1>6, <2>1, <2>2 DEF NodeAt, Def
  <2>4. NamesIn(n.args[k]) \subseteq NamesOfNode(n)
    BY DEF NamesOfNode
  <2>5. Within1(a)
    BY <1>4, <1>6, <2>1, <2>2 DEF Within1, Position
  <2> HIDE DEF n
  <2> QED
    BY <1>8, <2>3, <2>4, <2>5
<1>11. Within1(q) /\ q[3] # 0 /\ q[4] = 0
  BY <1>3, <1>4, <1>6 DEF Within1, Position
<1>12. NamesIn(NodeAt(q)) \subseteq Vocabulary
  <2> HIDE DEF n
  <2> QED
    BY <1>7, <1>8 DEF NamesOfNode
<1> QED
  BY <1>9, <1>10, <1>11, <1>12

LEMMA PlacesWritten ==
  ASSUME WellFormed, NEW kinds, NEW ext
  PROVE  IsSeq(Written(kinds, ext)) /\ \A p \in ToSet(Written(kinds, ext)) : IsPlace(p)
<1>1. IsSeq(Written(kinds, ext))
  BY WrittenIs, OfItsOwn
<1>2. ASSUME NEW p \in ToSet(Written(kinds, ext)) PROVE IsPlace(p)
  BY WrittenIs DEF IsPlace
<1> QED
  BY <1>1, <1>2

(* A list of places. *)
Places(ps) == IsSeq(ps) /\ \A p \in ToSet(ps) : IsPlace(p)

LEMMA WrittenAre ==
  ASSUME WellFormed
  PROVE  /\ Places(Definitions) /\ Places(Extensions) /\ Places(Directives)
         /\ Places(SchemaBlocks) /\ Places(SchemaExtensions)
BY PlacesWritten DEF Definitions, Extensions, Directives, SchemaBlocks, SchemaExtensions, Places

LEMMA PlacesOfBoth ==
  ASSUME NEW ps, Places(ps), NEW qs, Places(qs)
  PROVE  Places(ps \o qs) /\ ToSet(ps \o qs) = ToSet(ps) \cup ToSet(qs)
BY ConcatOf DEF Places

LEMMA PlacesKept ==
  ASSUME NEW ps, Places(ps), NEW T
  PROVE  Places(Kept(T, ps)) /\ ToSet(Kept(T, ps)) = ToSet(ps) \cap T
BY KeptIs DEF Places

LEMMA PartsAre ==
  ASSUME WellFormed, NEW name
  PROVE  /\ Places(Parts(name))
         /\ ToSet(Parts(name)) = {p \in ToSet(Definitions) \cup ToSet(Extensions) : Def(p).name = name}
<1> DEFINE all == Definitions \o Extensions
           T == {p \in ToSet(all) : Def(p).name = name}
<1>1. Places(all) /\ ToSet(all) = ToSet(Definitions) \cup ToSet(Extensions)
  BY WrittenAre, PlacesOfBoth
<1>2. Parts(name) = Kept(T, all)
  <2>1. \A i \in DOMAIN all : all[i] \in T <=> Def(all[i]).name = name
    BY DEF ToSet
  <2>2. Parts(name) = FlattenSeq([i \in DOMAIN all |-> When(Def(all[i]).name = name, all[i])])
    BY DEF Parts, Filter, ForEach
  <2> HIDE DEF all, T
  <2>3. [i \in DOMAIN all |-> When(Def(all[i]).name = name, all[i])] = [i \in DOMAIN all |-> When(all[i] \in T, all[i])]
    BY <2>1 DEF When
  <2> QED
    BY <2>2, <2>3 DEF Kept
<1> HIDE DEF all
<1>3. Places(Kept(T, all)) /\ ToSet(Kept(T, all)) = ToSet(all) \cap T
  BY <1>1, PlacesKept
<1> QED
  BY <1>1, <1>2, <1>3

(* What a sequence of places leads to, one after the other. *)
LEMMA FollowedBy ==
  ASSUME NEW s, IsSeq(s), NEW seqs, DOMAIN seqs = DOMAIN s, seqs = [i \in DOMAIN s |-> seqs[i]],
         \A i \in DOMAIN s : IsSeq(seqs[i])
  PROVE  IsSeq(FlattenSeq(seqs)) /\ ToSet(FlattenSeq(seqs)) = UNION {ToSet(seqs[i]) : i \in DOMAIN s}
<1>1. IsSeq(seqs)
  BY SeqIs, ListIs
<1> QED
  BY <1>1, FlattenOf

LEMMA FieldsAre ==
  ASSUME WellFormed, NEW p, IsPlace(p)
  PROVE  IsSeq(Fields(p)) /\ \A q \in ToSet(Fields(p)) : IsMember(q)
<1> DEFINE parts == Parts(Def(p).name)
           seqs == [i \in DOMAIN parts |-> Own(parts[i])]
<1>1. IsSeq(parts) /\ \A i \in DOMAIN parts : IsPlace(parts[i])
  BY PartsAre DEF Places, ToSet
<1> HIDE DEF parts
<1>2. \A i \in DOMAIN parts : IsSeq(seqs[i]) /\ \A q \in ToSet(seqs[i]) : IsMember(q)
  BY <1>1, OwnAre
<1>3. DOMAIN seqs = DOMAIN parts /\ seqs = [i \in DOMAIN parts |-> seqs[i]]
  OBVIOUS
<1> HIDE DEF seqs
<1>4. /\ IsSeq(FlattenSeq(seqs))
      /\ ToSet(FlattenSeq(seqs)) = UNION {ToSet(seqs[i]) : i \in DOMAIN parts}
  BY <1>1, <1>2, <1>3, FollowedBy
<1>5. \A q \in ToSet(FlattenSeq(seqs)) : IsMember(q)
  BY <1>2, <1>4
<1>6. Fields(p) = Own(p) \/ Fields(p) = FlattenSeq(seqs)
  BY DEF Fields, ForEach, parts, seqs
<1>7. IsSeq(Own(p)) /\ \A q \in ToSet(Own(p)) : IsMember(q)
  BY OwnAre
<1> QED
  BY <1>4, <1>5, <1>6, <1>7

(* The directives applied to each of some places. *)
LEMMA DirsAre ==
  ASSUME WellFormed, NEW ps, Places(ps), NEW seqs, seqs = [i \in DOMAIN ps |-> Def(ps[i]).dirs]
  PROVE  /\ IsSeq(FlattenSeq(seqs))
         /\ ToSet(FlattenSeq(seqs)) = UNION {ToSet(Def(p).dirs) : p \in ToSet(ps)}
         /\ \A d \in ToSet(FlattenSeq(seqs)) : d.name \in Vocabulary
<1>1. ASSUME NEW p \in ToSet(ps)
      PROVE  IsSeq(Def(p).dirs) /\ \A d \in ToSet(Def(p).dirs) : d.name \in Vocabulary
  <2> DEFINE def == Def(p)
  <2>1. IsDefinition(def) /\ NamesOf(def) \subseteq Vocabulary
    BY PlaceIs DEF Places
  <2> HIDE DEF def
  <2>2. IsSeq(def.dirs)
    BY <2>1 DEF IsDefinition, IsNode
  <2>3. \A d \in ToSet(def.dirs) : d.name \in Vocabulary
    BY <2>1 DEF NamesOf, NamesIn
  <2> QED
    BY <2>2, <2>3 DEF def
<1>2. \A i \in DOMAIN ps : ps[i] \in ToSet(ps) /\ seqs[i] = Def(ps[i]).dirs
  BY DEF ToSet
<1>3. IsSeq(ps) /\ DOMAIN seqs = DOMAIN ps /\ seqs = [i \in DOMAIN ps |-> seqs[i]]
  BY DEF Places
<1>4. \A i \in DOMAIN ps : IsSeq(seqs[i])
  BY <1>1, <1>2
<1>5. /\ IsSeq(FlattenSeq(seqs))
      /\ ToSet(FlattenSeq(seqs)) = UNION {ToSet(seqs[i]) : i \in DOMAIN ps}
  BY <1>3, <1>4, FollowedBy
<1>6. UNION {ToSet(seqs[i]) : i \in DOMAIN ps} = UNION {ToSet(Def(p).dirs) : p \in ToSet(ps)}
  BY <1>2 DEF ToSet
<1> QED
  BY <1>1, <1>5, <1>6

LEMMA AppliedAre ==
  ASSUME WellFormed, NEW name
  PROVE  /\ IsSeq(AppliedTo(name))
         /\ ToSet(AppliedTo(name)) = UNION {ToSet(Def(p).dirs) : p \in ToSet(Parts(name))}
         /\ \A d \in ToSet(AppliedTo(name)) : d.name \in Vocabulary
<1>1. Places(Parts(name))
  BY PartsAre
<1>2. AppliedTo(name) = FlattenSeq([i \in DOMAIN Parts(name) |-> Def(Parts(name)[i]).dirs])
  BY DEF AppliedTo, ForEach
<1> QED
  BY <1>1, <1>2, DirsAre

LEMMA AppliedToSchemaIs ==
  ASSUME WellFormed
  PROVE  IsSeq(AppliedToSchema) /\ \A d \in ToSet(AppliedToSchema) : d.name \in Vocabulary
<1> DEFINE ps == SchemaBlocks \o SchemaExtensions
<1>1. Places(ps)
  BY WrittenAre, PlacesOfBoth
<1>2. AppliedToSchema = FlattenSeq([i \in DOMAIN ps |-> Def(ps[i]).dirs])
  BY DEF AppliedToSchema, ForEach
<1> HIDE DEF ps
<1> QED
  BY <1>1, <1>2, DirsAre

LEMMA RootsAre ==
  ASSUME WellFormed
  PROVE  /\ IsFiniteSet(Roots)
         /\ \A r \in Roots : r[2] \in Vocabulary \cup {t[2] : t \in RootNames}
<1> DEFINE ps == ToSet(SchemaBlocks \o SchemaExtensions)
           roots == [p \in ps |-> Def(p).roots]
<1>1. IsFiniteSet(ps) /\ \A p \in ps : IsPlace(p)
  <2>1. Places(SchemaBlocks \o SchemaExtensions)
    BY WrittenAre, PlacesOfBoth
  <2> QED
    BY <2>1, MembersAreFinite DEF Places
<1>2. ASSUME NEW p \in ps
      PROVE  IsFiniteSet(Def(p).roots) /\ \A r \in Def(p).roots : r[2] \in Vocabulary
  <2> DEFINE def == Def(p)
  <2>1. IsDefinition(def) /\ NamesOf(def) \subseteq Vocabulary
    BY <1>1, PlaceIs
  <2> HIDE DEF def
  <2>2. IsFiniteSet(def.roots) /\ \A r \in def.roots : r[2] \in Vocabulary
    BY <2>1 DEF IsDefinition, NamesOf
  <2> QED
    BY <2>2 DEF def
<1>3. \A p \in ps : roots[p] = Def(p).roots
  OBVIOUS
<1>4. UNION {roots[p] : p \in ps} = UNION {Def(p).roots : p \in ps}
  OBVIOUS
<1> HIDE DEF roots
<1>5. IsFiniteSet(UNION {roots[p] : p \in ps})
  <2> HIDE DEF ps
  <2> QED
    BY <1>1, <1>2, <1>3, UnionIsFinite
<1>6. \A r \in UNION {roots[p] : p \in ps} : r[2] \in Vocabulary
  <2> HIDE DEF ps
  <2> QED
    BY <1>2, <1>3
<1>7. IsFiniteSet(NamedRoots) /\ \A r \in NamedRoots : r[2] \in Vocabulary
  <2>1. NamedRoots = UNION {Def(p).roots : p \in ps}
    BY DEF NamedRoots
  <2> HIDE DEF ps
  <2> QED
    BY <1>4, <1>5, <1>6, <2>1
<1> DEFINE usual == Roots \ NamedRoots
<1>8. usual \subseteq RootNames /\ Roots \subseteq NamedRoots \cup usual
  BY DEF Roots
<1>9. IsFiniteSet(NamedRoots \cup usual)
  <2>1. IsFiniteSet(usual)
    BY <1>8, RulesAssumption, FS_Subset
  <2> QED
    BY <1>7, <2>1, BothAreFinite
<1>10. IsFiniteSet(Roots)
  BY <1>8, <1>9, FS_Subset
<1> HIDE DEF usual
<1>11. ASSUME NEW r \in Roots
       PROVE  r[2] \in Vocabulary \cup {t[2] : t \in RootNames}
  <2>1. CASE r \in NamedRoots
    BY <1>7, <2>1
  <2>2. CASE r \in RootNames
    BY <2>2
  <2> QED
    BY <1>8, <2>1, <2>2
<1> QED
  BY <1>10, <1>11

-----------------------------------------------------------------------------
(* The names that are defined, and the references between them. *)

Declared == DefinedTypes \cup ExtendedTypes \cup DeclaredDirectives

LEMMA DeclaredIs ==
  ASSUME WellFormed
  PROVE  Declared \subseteq Vocabulary /\ IsFiniteSet(Declared)
<1>1. ASSUME NEW p, IsPlace(p) PROVE Def(p).name \in Vocabulary
  BY <1>1, PlaceIs DEF NamesOf
<1>2. Declared \subseteq Vocabulary
  <2>1. \A p \in ToSet(Definitions) \cup ToSet(Extensions) \cup ToSet(Directives) : IsPlace(p)
    BY WrittenAre DEF Places
  <2> QED
    BY <1>1, <2>1 DEF Declared, DefinedTypes, ExtendedTypes, DeclaredDirectives
<1> QED
  BY <1>2, VocabularyIs, FS_Subset

LEMMA MembersRefer ==
  ASSUME WellFormed, NEW q, IsMember(q)
  PROVE  TypesOf(q) \cup DirectivesOf(q) \subseteq Vocabulary
<1>1. \A a \in {q} \cup ToSet(Arguments(q)) : NamesIn(NodeAt(a)) \subseteq Vocabulary
  BY MemberIs
<1> DEFINE As == {q} \cup ToSet(Arguments(q))
<1>2. ASSUME NEW a \in As PROVE NodeAt(a).type \in Vocabulary
  BY <1>1 DEF NamesIn
<1>3. ASSUME NEW a \in As PROVE {d.name : d \in ToSet(NodeAt(a).dirs)} \subseteq Vocabulary
  BY <1>1 DEF NamesIn
<1> HIDE DEF As
<1>4. {NodeAt(a).type : a \in As} \subseteq Vocabulary
  BY <1>2
<1>5. UNION {{d.name : d \in ToSet(NodeAt(a).dirs)} : a \in As} \subseteq Vocabulary
  BY <1>3
<1>6. TypesOf(q) \subseteq {NodeAt(a).type : a \in As}
  BY DEF TypesOf, As
<1>7. DirectivesOf(q) = UNION {{d.name : d \in ToSet(NodeAt(a).dirs)} : a \in As}
  BY DEF DirectivesOf, As
<1> QED
  BY <1>4, <1>5, <1>6, <1>7

LEMMA RefsAre ==
  ASSUME WellFormed, NEW name
  PROVE  Refs(name) \subseteq Vocabulary /\ (name \notin Declared => Refs(name) = {})
<1> DEFINE parts == ToSet(Parts(name))
           refs == UNION {ToSet(Def(p).refs) : p \in parts}
           fields == UNION {ToSet(Own(p)) : p \in parts}
           implementations == {Def(p).name : p \in {p \in ToSet(Definitions \o Extensions) :
                                   Def(p).kind # "Union" /\ name \in ToSet(Def(p).refs)}}
           directives == {p \in ToSet(Directives) : Def(p).name = name}
           arguments == UNION {ToSet(Own(p)) : p \in directives}
           Leading(members) == UNION {TypesOf(f) \cup DirectivesOf(f) : f \in members}
<1>1. \A p \in parts \cup directives : IsPlace(p)
  BY PartsAre, WrittenAre DEF Places
<1>2. implementations \subseteq Vocabulary
  <2>1. ToSet(Definitions \o Extensions) = ToSet(Definitions) \cup ToSet(Extensions)
    BY WrittenAre, PlacesOfBoth
  <2> QED
    BY <2>1, DeclaredIs DEF Declared, DefinedTypes, ExtendedTypes
<1>3. refs \subseteq Vocabulary
  <2>1. ASSUME NEW p \in parts PROVE ToSet(Def(p).refs) \subseteq Vocabulary
    BY <1>1, PlaceIs DEF NamesOf
  <2> HIDE DEF parts
  <2> QED
    BY <2>1
<1>4. {d.name : d \in ToSet(AppliedTo(name))} \subseteq Vocabulary
  BY AppliedAre
<1>5. \A f \in fields \cup arguments : IsMember(f)
  <2>1. ASSUME NEW p \in parts \cup directives, NEW f \in ToSet(Own(p)) PROVE IsMember(f)
    BY <1>1, <2>1, OwnAre
  <2> HIDE DEF parts, directives
  <2> QED
    BY <2>1
<1>6. Leading(fields) \subseteq Vocabulary /\ Leading(arguments) \subseteq Vocabulary
  <2>1. ASSUME NEW f \in fields \cup arguments PROVE TypesOf(f) \cup DirectivesOf(f) \subseteq Vocabulary
    BY <1>5, MembersRefer
  <2> HIDE DEF fields, arguments
  <2> QED
    BY <2>1
<1>7. Refs(name) = IF \E p \in parts : Def(p).kind = "Interface" THEN implementations
                   ELSE IF parts # {}
                     THEN refs \cup {d.name : d \in ToSet(AppliedTo(name))} \cup Leading(fields)
                   ELSE Leading(arguments)
  BY DEF Refs
<1>8. name \notin Declared => parts = {} /\ directives = {}
  BY PartsAre DEF Declared, DefinedTypes, ExtendedTypes, DeclaredDirectives
<1>9. name \notin Declared => arguments = {}
  BY <1>8
<1> HIDE DEF parts, refs, fields, implementations, arguments, directives
<1>10. Refs(name) \subseteq Vocabulary
  <2> HIDE DEF Leading
  <2> QED
    BY <1>2, <1>3, <1>4, <1>6, <1>7
<1>11. name \notin Declared => Refs(name) = {}
  BY <1>7, <1>8, <1>9
<1> QED
  BY <1>10, <1>11

LEMMA ReferringIs ==
  ASSUME WellFormed
  PROVE  Referring(Declared)
<1>1. IsFiniteSet(Declared) /\ IsFiniteSet(Vocabulary) /\ Vocabulary \subseteq Name
  BY DeclaredIs, VocabularyIs
<1>2. ASSUME NEW n \in Name
      PROVE  IsFiniteSet(Refs(n)) /\ Refs(n) \subseteq Name /\ (n \notin Declared => Refs(n) = {})
  <2>1. Refs(n) \subseteq Vocabulary /\ (n \notin Declared => Refs(n) = {})
    BY RefsAre
  <2>2. IsFiniteSet(Refs(n))
    BY <1>1, <2>1, FS_Subset
  <2> QED
    BY <1>1, <2>1, <2>2
<1> QED
  BY <1>1, <1>2 DEF Referring

LEMMA StartsAre ==
  ASSUME WellFormed
  PROVE  Starts \in Seq(Name)
<1> DEFINE V == Vocabulary \cup {t[2] : t \in RootNames}
           S == {r[2] : r \in Roots} \cup {d.name : d \in ToSet(AppliedToSchema)}
           second == [t \in RootNames |-> t[2]]
<1>1. IsFiniteSet(V)
  <2>1. IsFiniteSet({second[t] : t \in RootNames})
    <3> HIDE DEF second
    <3> QED
      BY ImageIsFinite, RulesAssumption
  <2>2. {second[t] : t \in RootNames} = {t[2] : t \in RootNames}
    OBVIOUS
  <2> QED
    BY <2>1, <2>2, VocabularyIs, BothAreFinite
<1>2. V \subseteq Name
  BY VocabularyIs, RulesAssumption
<1>3. S \subseteq V
  BY RootsAre, AppliedToSchemaIs
<1> HIDE DEF S, V
<1>4. IsFiniteSet(S) /\ S \subseteq Name
  BY <1>1, <1>2, <1>3, FS_Subset
<1>5. SetToSeq(S) \in Seq(Name)
  BY <1>4, SetToSeqIs, OfMore
<1> QED
  BY <1>5 DEF Starts, S

(* The least set, looked at among the defined names only. *)
LEMMA ReachedIs ==
  ASSUME WellFormed
  PROVE  LET Closed1(S) == /\ ToSet(Starts) \cap Declared \subseteq S
                           /\ \A n \in S : Refs(n) \cap Declared \subseteq S
             reached == {n \in Declared : \A S \in SUBSET Declared : Closed1(S) => n \in S}
         IN  ReachableTypeNames \cap Declared = (reached \cup RequestDirectives) \cap Declared
<1> DEFINE X == ToSet(Starts)
           Closed1(S) == /\ X \cap Declared \subseteq S
                         /\ \A n \in S : Refs(n) \cap Declared \subseteq S
           reached == {n \in Declared : \A S \in SUBSET Declared : Closed1(S) => n \in S}
<1>1. Starts \in Seq(Name) /\ X \subseteq Name
  BY StartsAre, OfItsOwn
<1>2. Referring(Declared)
  BY ReferringIs
<1>3. Collect(Starts, {}) = Least(X, {})
  BY <1>1, <1>2, CollectIs
<1>4. Declared \subseteq Name
  BY DeclaredIs, VocabularyIs
<1> HIDE DEF X
<1>5. ASSUME NEW n \in Least(X, {}), n \in Declared PROVE n \in reached
  <2> SUFFICES ASSUME NEW S \in SUBSET Declared, Closed1(S) PROVE n \in S
    BY <1>5
  <2> DEFINE all == S \cup (Name \ Declared)
  <2>1. Following(X, {}, all)
    <3>1. X \subseteq all
      BY <1>1
    <3>2. ASSUME NEW m \in all PROVE Refs(m) \subseteq all
      <4>1. m \in Name
        BY <1>4
      <4>2. Refs(m) \subseteq Name /\ (m \notin Declared => Refs(m) = {})
        BY <1>2, <4>1 DEF Referring
      <4>3. m \in Declared => Refs(m) \cap Declared \subseteq S
        OBVIOUS
      <4> QED
        BY <4>2, <4>3
    <3> QED
      BY <3>1, <3>2 DEF Following
  <2>2. all \in SUBSET Name
    BY <1>4
  <2>3. n \in all
    <3> HIDE DEF all
    <3> QED
      BY <1>5, <2>1, <2>2 DEF Least
  <2> QED
    BY <1>5, <2>3
<1>6. ASSUME NEW n \in reached PROVE n \in Least(X, {})
  <2>1. n \in Name
    BY <1>4
  <2>2. ASSUME NEW S \in SUBSET Name, Following(X, {}, S) PROVE n \in S
    <3> DEFINE T == S \cap Declared
    <3>1. Closed1(T)
      BY <2>2 DEF Following
    <3>2. T \in SUBSET Declared
      OBVIOUS
    <3> HIDE DEF Closed1
    <3> QED
      BY <3>1, <3>2
  <2> QED
    BY <2>1, <2>2 DEF Least
<1>7. Least(X, {}) \cap Declared = reached
  <2>1. reached \subseteq Declared
    OBVIOUS
  <2> HIDE DEF reached
  <2> QED
    BY <1>5, <1>6, <2>1
<1>8. ReachableTypeNames = Least(X, {}) \cup RequestDirectives
  BY <1>3 DEF ReachableTypeNames
<1> HIDE DEF reached
<1>9. ReachableTypeNames \cap Declared = (reached \cup RequestDirectives) \cap Declared
  BY <1>7, <1>8
<1> QED
  BY <1>9 DEF reached, X

-----------------------------------------------------------------------------
(* The order of the positions of a file, and the sites in that order. *)

LEMMA PrecedesIs ==
  ASSUME NEW p \in Position, NEW q \in Position
  PROVE  Precedes(p, q) <=>
             \/ p[1] < q[1]
             \/ p[1] = q[1] /\ p[2] < q[2]
             \/ p[1] = q[1] /\ p[2] = q[2] /\ p[3] < q[3]
             \/ p[1] = q[1] /\ p[2] = q[2] /\ p[3] = q[3] /\ p[4] < q[4]
<1>1. /\ 1 .. 4 = {1, 2, 3, 4} /\ 1 .. 1 - 1 = {} /\ 1 .. 2 - 1 = {1} /\ 1 .. 3 - 1 = {1, 2}
      /\ 1 .. 4 - 1 = {1, 2, 3}
  OBVIOUS
<1> QED
  BY <1>1, Zenon DEF Precedes

LEMMA PrecedesOrders ==
  ASSUME NEW p \in Position, NEW q \in Position
  PROVE  /\ ~Precedes(p, p)
         /\ p # q => Precedes(p, q) \/ Precedes(q, p)
         /\ \A r \in Position : Precedes(p, q) /\ Precedes(q, r) => Precedes(p, r)
<1>1. /\ p = <<p[1], p[2], p[3], p[4]>> /\ q = <<q[1], q[2], q[3], q[4]>>
      /\ \A t \in Position : t[1] \in Nat /\ t[2] \in Nat /\ t[3] \in Nat /\ t[4] \in Nat
  BY DEF Position
<1>2. ~Precedes(p, p)
  BY <1>1, PrecedesIs
<1>3. p # q => Precedes(p, q) \/ Precedes(q, p)
  BY <1>1, PrecedesIs
<1>4. ASSUME NEW r \in Position, Precedes(p, q), Precedes(q, r) PROVE Precedes(p, r)
  BY <1>1, <1>4, PrecedesIs
<1> QED
  BY <1>2, <1>3, <1>4

(* Sorting leaves the same things. *)
Comes(sites, i, j) == \/ Precedes(sites[i].pos, sites[j].pos)
                      \/ sites[i].pos = sites[j].pos /\ i < j
RankAmong(sites) == [i \in DOMAIN sites |-> Cardinality({j \in DOMAIN sites : Comes(sites, j, i)})]
Sorted(sites) == [n \in DOMAIN sites |-> sites[CHOOSE i \in DOMAIN sites : RankAmong(sites)[i] = n - 1]]

LEMMA SortedIs ==
  ASSUME NEW sites, IsSeq(sites), \A i \in DOMAIN sites : sites[i].pos \in Position
  PROVE  IsSeq(Sorted(sites)) /\ ToSet(Sorted(sites)) \subseteq ToSet(sites)
<1> DEFINE S == DOMAIN sites
           before == {ij \in S \X S : Comes(sites, ij[1], ij[2])}
<1>1. Len(sites) \in Nat /\ S = 1 .. Len(sites) /\ IsFiniteSet(S) /\ Cardinality(S) = Len(sites)
  BY SeqIs, FS_Interval, IndicesAreFinite
<1>2. \A i, j \in S : <<i, j>> \in before <=> Comes(sites, i, j)
  OBVIOUS
<1>3. /\ \A i \in S : <<i, i>> \notin before
      /\ \A i, j \in S : i # j => <<i, j>> \in before \/ <<j, i>> \in before
      /\ \A i, j, k \in S : <<i, j>> \in before /\ <<j, k>> \in before => <<i, k>> \in before
  <2>1. \A i \in S : ~Comes(sites, i, i)
    BY <1>1, PrecedesOrders DEF Comes
  <2>2. \A i, j \in S : i # j => Comes(sites, i, j) \/ Comes(sites, j, i)
    BY <1>1, PrecedesOrders DEF Comes
  <2>3. ASSUME NEW i \in S, NEW j \in S, NEW k \in S, Comes(sites, i, j), Comes(sites, j, k)
        PROVE  Comes(sites, i, k)
    <3> DEFINE p == sites[i].pos
               q == sites[j].pos
               r == sites[k].pos
    <3>1. p \in Position /\ q \in Position /\ r \in Position
      OBVIOUS
    <3>2. (Precedes(p, q) \/ (p = q /\ i < j)) /\ (Precedes(q, r) \/ (q = r /\ j < k))
      BY <2>3 DEF Comes
    <3> HIDE DEF p, q, r
    <3>3. Precedes(p, r) \/ (p = r /\ i < k)
      <4>1. Precedes(p, q) /\ Precedes(q, r) => Precedes(p, r)
        BY <3>1, PrecedesOrders
      <4>2. i < j /\ j < k => i < k
        BY <1>1
      <4> QED
        BY <3>2, <4>1, <4>2
    <3> QED
      BY <3>3 DEF Comes, p, r
  <2> HIDE DEF before
  <2> QED
    BY <1>2, <2>1, <2>2, <2>3
<1>4. \A i \in S : RankBy(S, before, i) = RankAmong(sites)[i]
  <2> SUFFICES ASSUME NEW i \in S PROVE RankBy(S, before, i) = RankAmong(sites)[i]
    OBVIOUS
  <2>1. {j \in S : <<j, i>> \in before} = {j \in S : Comes(sites, j, i)}
    BY <1>2
  <2> QED
    BY <2>1 DEF RankBy, RankAmong
<1>5. \A n \in 1 .. Cardinality(S) : \E i \in S : RankBy(S, before, i) = n - 1
  <2>1. IsFiniteSet(S)
    BY <1>1
  <2> HIDE DEF S, before
  <2> QED
    BY <1>3, <2>1, RanksOfOrder, Zenon
<1> HIDE DEF before
<1>6. ASSUME NEW n \in S PROVE Sorted(sites)[n] \in ToSet(sites)
  <2>1. \E i \in S : RankAmong(sites)[i] = n - 1
    BY <1>1, <1>4, <1>5
  <2>2. PICK i \in S : Sorted(sites)[n] = sites[i]
    BY <2>1 DEF Sorted
  <2> QED
    BY <2>2 DEF ToSet
<1>7. IsSeq(Sorted(sites))
  <2>1. DOMAIN Sorted(sites) = 1 .. Len(sites) /\ Sorted(sites) = [n \in DOMAIN Sorted(sites) |-> Sorted(sites)[n]]
    BY <1>1 DEF Sorted
  <2> QED
    BY <1>1, <2>1, ListIs
<1>8. ToSet(Sorted(sites)) \subseteq ToSet(sites)
  <2>1. DOMAIN Sorted(sites) = S
    BY DEF Sorted
  <2>2. \A x \in ToSet(Sorted(sites)) : \E n \in S : x = Sorted(sites)[n]
    BY <2>1 DEF ToSet
  <2> QED
    BY <1>6, <2>2
<1> QED
  BY <1>7, <1>8

IsSite(t) == Within1(t.pos) /\ IsFiniteSet(t.role)
Sites(ts) == IsSeq(ts) /\ \A t \in ToSet(ts) : IsSite(t)

LEMMA SitesOne ==
  ASSUME NEW t, IsSite(t), NEW condition
  PROVE  Sites(<<t>>) /\ Sites(When(condition, t))
BY OneIs, WhenOf DEF Sites

LEMMA SitesOfBoth ==
  ASSUME NEW ts, Sites(ts), NEW us, Sites(us)
  PROVE  Sites(ts \o us)
BY ConcatOf DEF Sites

LEMMA SitesEach ==
  ASSUME NEW s, IsSeq(s), NEW seqs, seqs = [i \in DOMAIN s |-> seqs[i]], \A i \in DOMAIN s : Sites(seqs[i])
  PROVE  Sites(FlattenSeq(seqs))
<1>1. \A i \in DOMAIN s : IsSeq(seqs[i]) /\ \A t \in ToSet(seqs[i]) : IsSite(t)
  BY DEF Sites
<1>2. IsSeq(FlattenSeq(seqs)) /\ ToSet(FlattenSeq(seqs)) = UNION {ToSet(seqs[i]) : i \in DOMAIN s}
  BY <1>1, FollowedBy
<1> QED
  BY <1>1, <1>2 DEF Sites

LEMMA MadeSites ==
  ASSUME WellFormed, NEW q, Within1(q), NEW def, NEW option, NEW key
  PROVE  IsSite(Site(q, option, key, {})) /\ IsSite(InputSite(q)) /\ IsSite(MemberSite(def, q))
<1>1. ASSUME NEW kind, NEW key1, NEW role, IsFiniteSet(role) PROVE IsSite(Site(q, kind, key1, role))
  BY <1>1 DEF IsSite, Site
<1>2. IsFiniteSet({})
  BY FS_EmptySet
<1>3. IsFiniteSet(Role(def.name))
  <2> DEFINE S == {r \in Roots : r[2] = def.name}
             first == [r \in S |-> r[1]]
  <2>1. IsFiniteSet(S)
    BY RootsAre, FS_Subset
  <2>2. Role(def.name) = {first[r] : r \in S}
    BY DEF Role
  <2> HIDE DEF S, first
  <2> QED
    BY <2>1, <2>2, ImageIsFinite
<1>4. IsSite(InputSite(q))
  BY <1>1, <1>2 DEF InputSite
<1> QED
  BY <1>1, <1>2, <1>3, <1>4 DEF MemberSite

LEMMA TypeSitesAre ==
  ASSUME WellFormed, NEW p, IsPlace(p)
  PROVE  Sites(TypeSites(p))
<1> DEFINE def == Def(p)
           fields == Fields(p)
           inputs(f) == [k \in DOMAIN Arguments(f) |-> <<InputSite(Arguments(f)[k])>>]
           member(f) == <<MemberSite(def, f)>> \o FlattenSeq(inputs(f))
           seqs == [j \in DOMAIN fields |-> member(fields[j])]
           own == When(~def.ext, Site(p, "types", KindKey[def.kind], {}))
<1>1. IsSeq(fields) /\ \A j \in DOMAIN fields : IsMember(fields[j])
  BY FieldsAre DEF ToSet
<1>2. ASSUME NEW f, IsMember(f) PROVE Sites(member(f))
  <2>1. /\ Within1(f) /\ IsSeq(Arguments(f))
        /\ \A k \in DOMAIN Arguments(f) : Within1(Arguments(f)[k])
    BY <1>2, MemberIs DEF ToSet
  <2>2. \A k \in DOMAIN Arguments(f) : Sites(inputs(f)[k])
    BY <2>1, MadeSites, SitesOne
  <2>3. inputs(f) = [k \in DOMAIN Arguments(f) |-> inputs(f)[k]]
    OBVIOUS
  <2>4. Sites(FlattenSeq(inputs(f)))
    <3> DEFINE in == inputs(f)
    <3> HIDE DEF in
    <3>1. \A k \in DOMAIN Arguments(f) : Sites(in[k])
      BY <2>2 DEF in
    <3>2. in = [k \in DOMAIN Arguments(f) |-> in[k]]
      BY <2>3 DEF in
    <3>3. Sites(FlattenSeq(in))
      BY <2>1, <3>1, <3>2, SitesEach
    <3> QED
      BY <3>3 DEF in
  <2>5. Sites(<<MemberSite(def, f)>>)
    BY <2>1, MadeSites, SitesOne
  <2> HIDE DEF inputs, def
  <2> QED
    BY <2>4, <2>5, SitesOfBoth
<1>3. Sites(FlattenSeq(seqs))
  <2>1. \A j \in DOMAIN fields : Sites(seqs[j])
    <3> HIDE DEF member, fields
    <3> QED
      BY <1>1, <1>2
  <2>2. seqs = [j \in DOMAIN fields |-> seqs[j]]
    OBVIOUS
  <2> HIDE DEF seqs, fields
  <2> QED
    BY <1>1, <2>1, <2>2, SitesEach
<1>4. Sites(own)
  <2>1. IsSite(Site(p, "types", KindKey[def.kind], {}))
    BY PlaceIs, MadeSites
  <2> QED
    BY <2>1, SitesOne
<1>5. TypeSites(p) = own \o FlattenSeq(seqs)
  BY DEF TypeSites, ForEach
<1> HIDE DEF own, seqs
<1> QED
  BY <1>3, <1>4, <1>5, SitesOfBoth

(* What passes a test is among what was there. *)
LEMMA SomeOf ==
  ASSUME NEW s, IsSeq(s), NEW seqs, DOMAIN seqs = DOMAIN s, seqs = [i \in DOMAIN s |-> seqs[i]],
         \A i \in DOMAIN s : seqs[i] \in {<<>>, <<s[i]>>}
  PROVE  IsSeq(FlattenSeq(seqs)) /\ ToSet(FlattenSeq(seqs)) \subseteq ToSet(s)
<1>1. \A i \in DOMAIN s : IsSeq(seqs[i]) /\ ToSet(seqs[i]) \subseteq ToSet(s)
  <2> SUFFICES ASSUME NEW i \in DOMAIN s PROVE IsSeq(seqs[i]) /\ ToSet(seqs[i]) \subseteq ToSet(s)
    OBVIOUS
  <2>1. s[i] \in ToSet(s)
    BY DEF ToSet
  <2>2. IsSeq(<<s[i]>>) /\ ToSet(<<s[i]>>) = {s[i]}
    BY OneIs
  <2>3. seqs[i] = <<>> \/ seqs[i] = <<s[i]>>
    OBVIOUS
  <2> QED
    BY <2>1, <2>2, <2>3, NothingIs
<1>2. IsSeq(FlattenSeq(seqs)) /\ ToSet(FlattenSeq(seqs)) = UNION {ToSet(seqs[i]) : i \in DOMAIN s}
  BY <1>1, FollowedBy
<1> QED
  BY <1>1, <1>2

LEMMA AllDefinitionsAre ==
  ASSUME WellFormed
  PROVE  Places(AllDefinitions)
<1> DEFINE seqs == [i \in DOMAIN Extensions |-> When(~Based(Extensions[i]), Extensions[i])]
<1>1. IsSeq(Extensions)
  BY WrittenAre DEF Places
<1>2. \A i \in DOMAIN Extensions : seqs[i] \in {<<>>, <<Extensions[i]>>}
  BY DEF When
<1>3. DOMAIN seqs = DOMAIN Extensions /\ seqs = [i \in DOMAIN Extensions |-> seqs[i]]
  OBVIOUS
<1>4. AllDefinitions = Definitions \o FlattenSeq(seqs)
  BY DEF AllDefinitions, Filter, ForEach
<1> HIDE DEF seqs
<1>5. IsSeq(FlattenSeq(seqs)) /\ ToSet(FlattenSeq(seqs)) \subseteq ToSet(Extensions)
  BY <1>1, <1>2, <1>3, SomeOf
<1>6. Places(FlattenSeq(seqs))
  BY <1>5, WrittenAre DEF Places
<1> QED
  BY <1>4, <1>6, WrittenAre, PlacesOfBoth

LEMMA DirectiveSitesAre ==
  ASSUME WellFormed, NEW p, IsPlace(p)
  PROVE  /\ Sites(<<Site(p, "DirectiveDefinition", "", {})>>
                  \o ForEach(Own(p), LAMBDA a : <<InputSite(a)>>))
         /\ Sites(<<Site(p, "SchemaDefinition", "", {})>>)
<1> DEFINE own == Own(p)
           seqs == [j \in DOMAIN own |-> <<InputSite(own[j])>>]
<1>1. IsSeq(own) /\ \A j \in DOMAIN own : IsMember(own[j])
  BY OwnAre DEF ToSet
<1>2. \A j \in DOMAIN own : Sites(<<InputSite(own[j])>>)
  <2> HIDE DEF own
  <2> QED
    BY <1>1, MemberIs, MadeSites, SitesOne
<1>3. \A j \in DOMAIN own : Sites(seqs[j])
  BY <1>2
<1>4. seqs = [j \in DOMAIN own |-> seqs[j]]
  OBVIOUS
<1>5. ForEach(Own(p), LAMBDA a : <<InputSite(a)>>) = FlattenSeq(seqs)
  BY DEF ForEach
<1>6. Sites(FlattenSeq(seqs))
  <2> HIDE DEF own, seqs
  <2> QED
    BY <1>1, <1>3, <1>4, SitesEach
<1>7. IsSite(Site(p, "DirectiveDefinition", "", {})) /\ IsSite(Site(p, "SchemaDefinition", "", {}))
  BY PlaceIs, MadeSites
<1> HIDE DEF seqs
<1>8. Sites(<<Site(p, "DirectiveDefinition", "", {})>>) /\ Sites(<<Site(p, "SchemaDefinition", "", {})>>)
  BY <1>7, SitesOne
<1> QED
  BY <1>5, <1>6, <1>8, SitesOfBoth

LEMMA DescriptionSitesAre ==
  ASSUME WellFormed
  PROVE  Sites(DescriptionSites)
<1> DEFINE ds == AllDefinitions
           dirs == Directives
           blocks == SchemaBlocks
           types == [i \in DOMAIN ds |-> TypeSites(ds[i])]
           directives == [i \in DOMAIN dirs |-> <<Site(dirs[i], "DirectiveDefinition", "", {})>>
                              \o ForEach(Own(dirs[i]), LAMBDA a : <<InputSite(a)>>)]
           schemas == [i \in DOMAIN blocks |-> <<Site(blocks[i], "SchemaDefinition", "", {})>>]
<1>1. /\ IsSeq(ds) /\ \A i \in DOMAIN ds : IsPlace(ds[i])
      /\ IsSeq(dirs) /\ \A i \in DOMAIN dirs : IsPlace(dirs[i])
      /\ IsSeq(blocks) /\ \A i \in DOMAIN blocks : IsPlace(blocks[i])
  BY AllDefinitionsAre, WrittenAre DEF Places, ToSet
<1>2. DescriptionSites = FlattenSeq(types) \o FlattenSeq(directives) \o FlattenSeq(schemas)
  BY DEF DescriptionSites, ForEach
<1> HIDE DEF ds, dirs, blocks
<1>3. /\ \A i \in DOMAIN ds : Sites(types[i])
      /\ \A i \in DOMAIN dirs : Sites(directives[i])
      /\ \A i \in DOMAIN blocks : Sites(schemas[i])
  BY <1>1, TypeSitesAre, DirectiveSitesAre
<1>4. /\ types = [i \in DOMAIN ds |-> types[i]] /\ directives = [i \in DOMAIN dirs |-> directives[i]]
      /\ schemas = [i \in DOMAIN blocks |-> schemas[i]]
  OBVIOUS
<1> HIDE DEF types, directives, schemas
<1>5. Sites(FlattenSeq(types))
  BY <1>1, <1>3, <1>4, SitesEach
<1>6. Sites(FlattenSeq(directives))
  BY <1>1, <1>3, <1>4, SitesEach
<1>7. Sites(FlattenSeq(schemas))
  BY <1>1, <1>3, <1>4, SitesEach
<1>8. Sites(FlattenSeq(types) \o FlattenSeq(directives))
  BY <1>5, <1>6, SitesOfBoth
<1> QED
  BY <1>2, <1>7, <1>8, SitesOfBoth

LEMMA SitesInAre ==
  ASSUME WellFormed, NEW s
  PROVE  Sites(SitesIn(s))
<1> DEFINE all == DescriptionSites
           seqs == [i \in DOMAIN all |-> When(all[i].pos[1] = s, all[i])]
           sites == FlattenSeq(seqs)
<1>1. IsSeq(all) /\ \A t \in ToSet(all) : IsSite(t)
  BY DescriptionSitesAre DEF Sites
<1>2. \A i \in DOMAIN all : seqs[i] \in {<<>>, <<all[i]>>}
  BY DEF When
<1>3. DOMAIN seqs = DOMAIN all /\ seqs = [i \in DOMAIN all |-> seqs[i]]
  OBVIOUS
<1>4. SitesIn(s) = Sorted(sites)
  BY Zenon DEF SitesIn, Sorted, RankAmong, Comes, Filter, ForEach
<1> HIDE DEF seqs
<1>5. IsSeq(sites) /\ ToSet(sites) \subseteq ToSet(all)
  <2> HIDE DEF all
  <2> QED
    BY <1>1, <1>2, <1>3, SomeOf
<1> HIDE DEF sites
<1>7. \A i \in DOMAIN sites : sites[i].pos \in Position
  BY <1>1, <1>5 DEF IsSite, Within1, ToSet
<1>8. IsSeq(Sorted(sites)) /\ ToSet(Sorted(sites)) \subseteq ToSet(sites)
  BY <1>5, <1>7, SortedIs
<1> QED
  BY <1>1, <1>4, <1>5, <1>8 DEF Sites

-----------------------------------------------------------------------------
(* What the other rules raise is theirs, and is somewhere in the sources.   *)

IsRaised(R, v) == v.rule \in R /\ v.pos[1] \in 0 .. Len(sources)
Raises(R, vs) == IsSeq(vs) /\ \A v \in ToSet(vs) : IsRaised(R, v)

LEMMA RaisesNothing ==
  ASSUME NEW R
  PROVE  Raises(R, <<>>)
BY NothingIs DEF Raises

LEMMA RaisesOne ==
  ASSUME NEW R, NEW rule \in R, NEW p, p[1] \in 0 .. Len(sources), NEW what, NEW condition
  PROVE  Raises(R, When(condition, Violation(rule, p, what)))
<1> DEFINE v == Violation(rule, p, what)
<1>1. IsRaised(R, v)
  BY DEF IsRaised, Violation
<1> HIDE DEF v
<1> QED
  BY <1>1, WhenOf DEF Raises, v

LEMMA RaisesOfBoth ==
  ASSUME NEW R, NEW vs, Raises(R, vs), NEW ws, Raises(R, ws)
  PROVE  Raises(R, vs \o ws)
BY ConcatOf DEF Raises

LEMMA RaisesEach ==
  ASSUME NEW R, NEW s, IsSeq(s), NEW seqs, seqs = [i \in DOMAIN s |-> seqs[i]], \A i \in DOMAIN s : Raises(R, seqs[i])
  PROVE  Raises(R, FlattenSeq(seqs))
<1>1. \A i \in DOMAIN s : IsSeq(seqs[i]) /\ \A v \in ToSet(seqs[i]) : IsRaised(R, v)
  BY DEF Raises
<1>2. IsSeq(FlattenSeq(seqs)) /\ ToSet(FlattenSeq(seqs)) = UNION {ToSet(seqs[i]) : i \in DOMAIN s}
  BY <1>1, FollowedBy
<1> QED
  BY <1>1, <1>2 DEF Raises

LEMMA PositionsAre ==
  ASSUME WellFormed
  PROVE  /\ 0 \in 0 .. Len(sources)
         /\ \A p : Within1(p) => p[1] \in 0 .. Len(sources)
<1>1. Len(sources) \in Nat /\ DOMAIN sources = 1 .. Len(sources)
  BY SourcesAre
<1> QED
  BY <1>1 DEF Within1

(* At the sites of a file. *)
LEMMA SitesAt ==
  ASSUME WellFormed, NEW ts, Sites(ts)
  PROVE  IsSeq(ts) /\ \A i \in DOMAIN ts : ts[i].pos[1] \in 0 .. Len(sources)
<1>1. IsSeq(ts) /\ \A i \in DOMAIN ts : Within1(ts[i].pos)
  BY DEF Sites, IsSite, ToSet
<1> QED
  BY <1>1, PositionsAre

LEMMA RaisesSome ==
  ASSUME WellFormed, NEW ts, Sites(ts), NEW seqs, seqs = [i \in DOMAIN ts |-> seqs[i]],
         NEW R, NEW rule \in R,
         \A i \in DOMAIN ts : \E condition, what :
             seqs[i] = When(condition, Violation(rule, ts[i].pos, what))
  PROVE  Raises(R, FlattenSeq(seqs))
<1>1. \A i \in DOMAIN ts : Raises(R, seqs[i])
  BY SitesAt, RaisesOne
<1> QED
  BY <1>1, SitesAt, RaisesEach

LEMMA MissingDescriptionsAre ==
  ASSUME WellFormed, NEW s, NEW R, "require-description" \in R
  PROVE  Raises(R, MissingDescriptions(s))
<1> DEFINE ts == SitesIn(s)
           rule == "require-description"
           seqs == [i \in DOMAIN ts |->
                       When(Requires(Options(config, "require-description"), ts[i]) /\ ~Described(ts[i]), Violation(rule, ts[i].pos, ""))]
<1>1. MissingDescriptions(s) = FlattenSeq(seqs)
  BY Zenon DEF MissingDescriptions, ForEach
<1>2. Sites(ts)
  BY SitesInAre
<1> HIDE DEF ts
<1>3. /\ seqs = [i \in DOMAIN ts |-> seqs[i]]
      /\ \A i \in DOMAIN ts : \E condition, what : seqs[i] = When(condition, Violation(rule, ts[i].pos, what))
  OBVIOUS
<1>4. rule \in R
  OBVIOUS
<1> HIDE DEF seqs, rule
<1>5. \A i \in DOMAIN ts : Raises(R, seqs[i])
  BY <1>2, <1>3, <1>4, SitesAt, RaisesOne
<1>6. Raises(R, FlattenSeq(seqs))
  BY <1>2, <1>3, <1>5, SitesAt, RaisesEach
<1> QED
  BY <1>1, <1>6

LEMMA WrongStylesAre ==
  ASSUME WellFormed, NEW s, NEW R, "description-style" \in R
  PROVE  Raises(R, WrongStyles(s))
<1> DEFINE all == SitesIn(s)
           kept == [i \in DOMAIN all |-> When(Described(all[i]), all[i])]
           ts == FlattenSeq(kept)
           tokens == DescriptionTokens(s)
           wanted == IF StringOption(Options(config, "description-style"), "style", "") = "inline"
                     THEN "string" ELSE "block"
           rule == "description-style"
           seqs == [i \in DOMAIN ts |-> When(tokens[i] # wanted, Violation(rule, ts[i].pos, tokens[i]))]
<1>1. WrongStyles(s) = FlattenSeq(seqs)
  BY Zenon DEF WrongStyles, Filter, ForEach
<1>2. Sites(ts)
  <2>1. Sites(all)
    BY SitesInAre
  <2> HIDE DEF all
  <2>2. /\ DOMAIN kept = DOMAIN all /\ kept = [i \in DOMAIN all |-> kept[i]]
        /\ \A i \in DOMAIN all : kept[i] \in {<<>>, <<all[i]>>}
    BY DEF When
  <2> HIDE DEF kept
  <2>3. IsSeq(ts) /\ ToSet(ts) \subseteq ToSet(all)
    BY <2>1, <2>2, SomeOf DEF Sites
  <2> QED
    BY <2>1, <2>3 DEF Sites
<1> HIDE DEF ts, tokens, wanted
<1>3. /\ seqs = [i \in DOMAIN ts |-> seqs[i]]
      /\ \A i \in DOMAIN ts : \E condition, what : seqs[i] = When(condition, Violation(rule, ts[i].pos, what))
  OBVIOUS
<1>4. rule \in R
  OBVIOUS
<1> HIDE DEF seqs, rule
<1>5. \A i \in DOMAIN ts : Raises(R, seqs[i])
  BY <1>2, <1>3, <1>4, SitesAt, RaisesOne
<1>6. Raises(R, FlattenSeq(seqs))
  BY <1>2, <1>3, <1>5, SitesAt, RaisesEach
<1> QED
  BY <1>1, <1>6

LEMMA MissingReasonsAre ==
  ASSUME WellFormed, NEW s, NEW R, "require-deprecation-reason" \in R
  PROVE  Raises(R, MissingReasons(s))
<1> DEFINE ts == SitesIn(s)
           rule == "require-deprecation-reason"
           seqs == [i \in DOMAIN ts |->
               When(/\ Uses(ts[i]) # <<>>
                    /\ ~("reason" \in DOMAIN Uses(ts[i])[1].args /\ Uses(ts[i])[1].args["reason"] # "blank"),
                    Violation(rule, ts[i].pos, ""))]
<1>1. MissingReasons(s) = FlattenSeq(seqs)
  BY Zenon DEF MissingReasons, ForEach
<1>2. Sites(ts)
  BY SitesInAre
<1> HIDE DEF ts
<1>3. /\ seqs = [i \in DOMAIN ts |-> seqs[i]]
      /\ \A i \in DOMAIN ts : \E condition, what : seqs[i] = When(condition, Violation(rule, ts[i].pos, what))
  OBVIOUS
<1>4. rule \in R
  OBVIOUS
<1> HIDE DEF seqs, rule
<1>5. \A i \in DOMAIN ts : Raises(R, seqs[i])
  BY <1>2, <1>3, <1>4, SitesAt, RaisesOne
<1>6. Raises(R, FlattenSeq(seqs))
  BY <1>2, <1>3, <1>5, SitesAt, RaisesEach
<1> QED
  BY <1>1, <1>6

LEMMA WrongDatesAre ==
  ASSUME WellFormed, NEW s, NEW R, "require-deprecation-date" \in R
  PROVE  Raises(R, WrongDates(s))
<1> DEFINE ts == SitesIn(s)
           given == StringOption(Options(config, "require-deprecation-date"), "argumentName", "")
           name == IF given = "" THEN "deletionDate" ELSE given
           Date(t) == IF name \in DOMAIN Uses(t)[1].args THEN Uses(t)[1].args[name] ELSE "missing"
           rule == "require-deprecation-date"
           seqs == [i \in DOMAIN ts |->
               IF Uses(ts[i]) = <<>> THEN <<>>
               ELSE When(Date(ts[i]) # "future", Violation(rule, ts[i].pos, Date(ts[i])))]
<1>1. WrongDates(s) = FlattenSeq(seqs)
  BY Zenon DEF WrongDates, ForEach
<1>2. Sites(ts)
  BY SitesInAre
<1> HIDE DEF ts
<1>3. /\ seqs = [i \in DOMAIN ts |-> seqs[i]]
      /\ \A i \in DOMAIN ts : \E condition, what : seqs[i] = When(condition, Violation(rule, ts[i].pos, what))
  <2> HIDE DEF Date
  <2>1. \A p, what : <<>> = When(FALSE, Violation(rule, p, what))
    BY DEF When
  <2> HIDE DEF rule
  <2> QED
    BY <2>1
<1>4. rule \in R
  OBVIOUS
<1> HIDE DEF seqs, rule
<1> QED
  BY <1>1, <1>2, <1>3, <1>4, RaisesSome

LEMMA FilesAre ==
  ASSUME WellFormed
  PROVE  IsSeq(Files)
<1> DEFINE indices == [s \in DOMAIN sources |-> s]
           seqs == [i \in DOMAIN indices |-> When(~sources[indices[i]].prelude, indices[i])]
<1>1. IsSeq(indices)
  BY SourcesAre, ListIs
<1>2. Files = FlattenSeq(seqs)
  BY Zenon DEF Files, Filter, ForEach
<1> HIDE DEF indices
<1>3. /\ DOMAIN seqs = DOMAIN indices /\ seqs = [i \in DOMAIN indices |-> seqs[i]]
      /\ \A i \in DOMAIN indices : seqs[i] \in {<<>>, <<indices[i]>>}
  BY DEF When
<1> HIDE DEF seqs
<1> QED
  BY <1>1, <1>2, <1>3, SomeOf

LEMMA DescriptionsAre ==
  ASSUME WellFormed, NEW R, {"require-description", "description-style"} \subseteq R
  PROVE  Raises(R, Tier3Descriptions.violations)
<1> DEFINE style == Enabled(config, "description-style")
           missing == Enabled(config, "require-description")
           Of(s) == (IF missing THEN MissingDescriptions(s) ELSE <<>>) \o (IF style THEN WrongStyles(s) ELSE <<>>)
           seqs == [i \in DOMAIN Files |-> Of(Files[i])]
<1>1. ASSUME NEW s PROVE Raises(R, Of(s))
  <2>1. Raises(R, IF missing THEN MissingDescriptions(s) ELSE <<>>)
    BY MissingDescriptionsAre, RaisesNothing
  <2>2. Raises(R, IF style THEN WrongStyles(s) ELSE <<>>)
    BY WrongStylesAre, RaisesNothing
  <2> QED
    BY <2>1, <2>2, RaisesOfBoth
<1>2. Tier3Descriptions.violations = <<>> \/ Tier3Descriptions.violations = FlattenSeq(seqs)
  BY Zenon DEF Tier3Descriptions, ForEach
<1> HIDE DEF Of
<1>3. seqs = [i \in DOMAIN Files |-> seqs[i]] /\ \A i \in DOMAIN Files : Raises(R, seqs[i])
  BY <1>1
<1> HIDE DEF seqs
<1>4. Raises(R, FlattenSeq(seqs))
  BY <1>3, FilesAre, RaisesEach
<1> QED
  BY <1>2, <1>4, RaisesNothing

LEMMA DeprecationIs ==
  ASSUME WellFormed, NEW vs \in Tier3Deprecation, NEW R, {"require-deprecation-reason", "require-deprecation-date"} \subseteq R
  PROVE  Raises(R, vs)
<1> DEFINE reasons == Enabled(config, "require-deprecation-reason")
           dates == Enabled(config, "require-deprecation-date")
           Of(s) == (IF reasons THEN MissingReasons(s) ELSE <<>>) \o (IF dates THEN WrongDates(s) ELSE <<>>)
           each == [s \in DOMAIN sources |-> Of(s)]
           kept == [i \in DOMAIN each |-> When(each[i] # <<>>, each[i])]
           perFile == FlattenSeq(kept)
<1>1. PICK order \in [DOMAIN perFile -> DOMAIN perFile] :
            vs = FlattenSeq([i \in DOMAIN perFile |-> perFile[order[i]]])
  BY Zenon DEF Tier3Deprecation, Filter, ForEach
<1>2. \A s \in DOMAIN sources : Raises(R, Of(s))
  <2> SUFFICES ASSUME NEW s \in DOMAIN sources PROVE Raises(R, Of(s))
    OBVIOUS
  <2>1. Raises(R, IF reasons THEN MissingReasons(s) ELSE <<>>)
    BY MissingReasonsAre, RaisesNothing
  <2>2. Raises(R, IF dates THEN WrongDates(s) ELSE <<>>)
    BY WrongDatesAre, RaisesNothing
  <2> QED
    BY <2>1, <2>2, RaisesOfBoth
<1> HIDE DEF Of
<1>3. IsSeq(each) /\ \A v \in ToSet(each) : Raises(R, v)
  <2>1. IsSeq(each)
    BY SourcesAre, ListIs
  <2> QED
    BY <1>2, <2>1 DEF ToSet
<1> HIDE DEF each
<1>4. /\ DOMAIN kept = DOMAIN each /\ kept = [i \in DOMAIN each |-> kept[i]]
      /\ \A i \in DOMAIN each : kept[i] \in {<<>>, <<each[i]>>}
  BY DEF When
<1> HIDE DEF kept
<1>5. IsSeq(perFile) /\ ToSet(perFile) \subseteq ToSet(each)
  BY <1>3, <1>4, SomeOf
<1> HIDE DEF perFile
<1> DEFINE seqs == [i \in DOMAIN perFile |-> perFile[order[i]]]
<1>6. seqs = [i \in DOMAIN perFile |-> seqs[i]] /\ \A i \in DOMAIN perFile : Raises(R, seqs[i])
  BY <1>3, <1>5 DEF ToSet
<1>7. vs = FlattenSeq(seqs)
  BY <1>1
<1> HIDE DEF seqs
<1> QED
  BY <1>5, <1>6, <1>7, RaisesEach

LEMMA HashtagIs ==
  ASSUME WellFormed, NEW R, "no-hashtag-description" \in R
  PROVE  Raises(R, Tier3Hashtag)
<1> DEFINE rule == "no-hashtag-description"
           Unwanted(c) == /\ c.count > 0 /\ ~c.directive
                          /\ ~(c.count = 1 /\ c.trailing)
                          /\ c.adjacent
           Of(s) == [i \in DOMAIN SitesIn(s) |->
                        When(Unwanted(NodeAt(SitesIn(s)[i].pos).comment), Violation(rule, SitesIn(s)[i].pos, ""))]
           seqs == [i \in DOMAIN Files |-> FlattenSeq(Of(Files[i]))]
<1>1. Tier3Hashtag = <<>> \/ Tier3Hashtag = FlattenSeq(seqs)
  BY Zenon DEF Tier3Hashtag, ForEach
<1>2. ASSUME NEW s PROVE Raises(R, FlattenSeq(Of(s)))
  <2> DEFINE ts == SitesIn(s)
             in == [i \in DOMAIN ts |-> When(Unwanted(NodeAt(ts[i].pos).comment), Violation(rule, ts[i].pos, ""))]
  <2>1. Of(s) = in
    OBVIOUS
  <2>2. Sites(ts)
    BY SitesInAre
  <2> HIDE DEF ts, Of, Unwanted
  <2>3. /\ in = [i \in DOMAIN ts |-> in[i]]
        /\ \A i \in DOMAIN ts : \E condition, what : in[i] = When(condition, Violation(rule, ts[i].pos, what))
    OBVIOUS
  <2>4. rule \in R
    OBVIOUS
  <2> HIDE DEF in, rule
  <2>5. \A i \in DOMAIN ts : Raises(R, in[i])
    BY <2>2, <2>3, <2>4, SitesAt, RaisesOne
  <2> QED
    BY <2>1, <2>2, <2>3, <2>5, SitesAt, RaisesEach
<1> HIDE DEF Of
<1>3. seqs = [i \in DOMAIN Files |-> seqs[i]] /\ \A i \in DOMAIN Files : Raises(R, seqs[i])
  BY <1>2
<1> HIDE DEF seqs
<1> QED
  BY <1>1, <1>3, FilesAre, RaisesEach, RaisesNothing

(* The members of a definition that are picked out. *)
LEMMA RaisesAtMembers ==
  ASSUME WellFormed, NEW s, IsSeq(s), \A q \in ToSet(s) : Within1(q),
         NEW seqs, seqs = [i \in DOMAIN s |-> seqs[i]],
         NEW R, NEW rule \in R,
         \A i \in DOMAIN s : \E condition, what : seqs[i] = When(condition, Violation(rule, s[i], what))
  PROVE  Raises(R, FlattenSeq(seqs))
<1>1. \A i \in DOMAIN s : s[i][1] \in 0 .. Len(sources)
  BY PositionsAre DEF ToSet
<1>2. \A i \in DOMAIN s : Raises(R, seqs[i])
  BY <1>1, RaisesOne
<1> QED
  BY <1>2, RaisesEach

LEMMA KeptDefinitionsAre ==
  ASSUME WellFormed, NEW kept, DOMAIN kept = DOMAIN AllDefinitions,
         kept = [i \in DOMAIN AllDefinitions |-> kept[i]],
         \A i \in DOMAIN AllDefinitions : kept[i] \in {<<>>, <<AllDefinitions[i]>>}
  PROVE  IsSeq(FlattenSeq(kept)) /\ \A i \in DOMAIN FlattenSeq(kept) : IsPlace(FlattenSeq(kept)[i])
<1>1. IsSeq(AllDefinitions) /\ \A p \in ToSet(AllDefinitions) : IsPlace(p)
  BY AllDefinitionsAre DEF Places
<1>2. IsSeq(FlattenSeq(kept)) /\ ToSet(FlattenSeq(kept)) \subseteq ToSet(AllDefinitions)
  BY <1>1, SomeOf
<1> QED
  BY <1>1, <1>2 DEF ToSet

LEMMA TypenamePrefixIs ==
  ASSUME WellFormed, NEW R, "no-typename-prefix" \in R
  PROVE  Raises(R, Tier3TypenamePrefix)
<1> DEFINE rule == "no-typename-prefix"
           kept == [i \in DOMAIN AllDefinitions |->
                       When(Def(AllDefinitions[i]).kind \in {"Object", "Interface"}, AllDefinitions[i])]
           ps == FlattenSeq(kept)
           Of(p) == [j \in DOMAIN Fields(p) |->
                        When(InScope(Fields(p)[j]) /\ IsPrefix(Lower(Def(p).name), Lower(NodeAt(Fields(p)[j]).name)),
                             Violation(rule, Fields(p)[j], ""))]
           seqs == [i \in DOMAIN ps |-> FlattenSeq(Of(ps[i]))]
<1>1. Tier3TypenamePrefix = <<>> \/ Tier3TypenamePrefix = FlattenSeq(seqs)
  BY Zenon DEF Tier3TypenamePrefix, Filter, ForEach
<1>2. IsSeq(ps) /\ \A i \in DOMAIN ps : IsPlace(ps[i])
  <2>1. /\ DOMAIN kept = DOMAIN AllDefinitions /\ kept = [i \in DOMAIN AllDefinitions |-> kept[i]]
        /\ \A i \in DOMAIN AllDefinitions : kept[i] \in {<<>>, <<AllDefinitions[i]>>}
    BY DEF When
  <2> HIDE DEF kept
  <2> QED
    BY <2>1, KeptDefinitionsAre
<1> HIDE DEF ps
<1>3. ASSUME NEW p, IsPlace(p) PROVE Raises(R, FlattenSeq(Of(p)))
  <2> DEFINE fs == Fields(p)
             in == [j \in DOMAIN fs |->
                       When(InScope(fs[j]) /\ IsPrefix(Lower(Def(p).name), Lower(NodeAt(fs[j]).name)),
                            Violation(rule, fs[j], ""))]
  <2>1. Of(p) = in
    OBVIOUS
  <2>2. IsSeq(fs) /\ \A q \in ToSet(fs) : Within1(q)
    BY <1>3, FieldsAre, MemberIs
  <2> HIDE DEF fs, Of
  <2>3. /\ in = [i \in DOMAIN fs |-> in[i]]
        /\ \A i \in DOMAIN fs : \E condition, what : in[i] = When(condition, Violation(rule, fs[i], what))
    OBVIOUS
  <2>4. rule \in R
    OBVIOUS
  <2> HIDE DEF in, rule
  <2>5. Raises(R, FlattenSeq(in))
    BY <2>2, <2>3, <2>4, RaisesAtMembers
  <2> QED
    BY <2>1, <2>5
<1> HIDE DEF Of
<1>4. seqs = [i \in DOMAIN ps |-> seqs[i]] /\ \A i \in DOMAIN ps : Raises(R, seqs[i])
  BY <1>2, <1>3
<1> HIDE DEF seqs
<1> QED
  BY <1>1, <1>2, <1>4, RaisesEach, RaisesNothing

(* What is written, of some members. *)
LEMMA WrittenMembers ==
  ASSUME NEW s, IsSeq(s), \A q \in ToSet(s) : Within1(q)
  PROVE  IsSeq(Filter(s, InScope)) /\ \A q \in ToSet(Filter(s, InScope)) : Within1(q)
<1> DEFINE kept == [i \in DOMAIN s |-> When(InScope(s[i]), s[i])]
<1>1. Filter(s, InScope) = FlattenSeq(kept)
  BY Zenon DEF Filter, ForEach
<1>2. /\ DOMAIN kept = DOMAIN s /\ kept = [i \in DOMAIN s |-> kept[i]]
      /\ \A i \in DOMAIN s : kept[i] \in {<<>>, <<s[i]>>}
  BY DEF When
<1> HIDE DEF kept
<1>3. IsSeq(FlattenSeq(kept)) /\ ToSet(FlattenSeq(kept)) \subseteq ToSet(s)
  BY <1>2, SomeOf
<1> QED
  BY <1>1, <1>3

LEMMA EnumDuplicatesAre ==
  ASSUME WellFormed, NEW R, "no-case-insensitive-enum-values-duplicates" \in R
  PROVE  Raises(R, Tier3EnumDuplicates)
<1> DEFINE rule == "no-case-insensitive-enum-values-duplicates"
           kept == [i \in DOMAIN AllDefinitions |->
                       When(Def(AllDefinitions[i]).kind = "Enum", AllDefinitions[i])]
           ps == FlattenSeq(kept)
           Values(p) == Filter(Fields(p), InScope)
           Of(p) == [i \in DOMAIN Values(p) |->
                        When(\E j \in 1 .. i - 1 : Lower(NodeAt(Values(p)[j]).name) = Lower(NodeAt(Values(p)[i]).name),
                             Violation(rule, Values(p)[i], ""))]
           seqs == [i \in DOMAIN ps |-> FlattenSeq(Of(ps[i]))]
<1>1. Tier3EnumDuplicates = <<>> \/ Tier3EnumDuplicates = FlattenSeq(seqs)
  BY Zenon DEF Tier3EnumDuplicates, Filter, ForEach
<1>2. IsSeq(ps) /\ \A i \in DOMAIN ps : IsPlace(ps[i])
  <2>1. /\ DOMAIN kept = DOMAIN AllDefinitions /\ kept = [i \in DOMAIN AllDefinitions |-> kept[i]]
        /\ \A i \in DOMAIN AllDefinitions : kept[i] \in {<<>>, <<AllDefinitions[i]>>}
    BY DEF When
  <2> HIDE DEF kept
  <2> QED
    BY <2>1, KeptDefinitionsAre
<1> HIDE DEF ps
<1>3. ASSUME NEW p, IsPlace(p) PROVE Raises(R, FlattenSeq(Of(p)))
  <2> DEFINE fields == Fields(p)
             fs == Filter(fields, InScope)
             in == [i \in DOMAIN fs |->
                       When(\E j \in 1 .. i - 1 : Lower(NodeAt(fs[j]).name) = Lower(NodeAt(fs[i]).name),
                            Violation(rule, fs[i], ""))]
  <2>1. Of(p) = in
    OBVIOUS
  <2>2. IsSeq(fields) /\ \A q \in ToSet(fields) : Within1(q)
    BY <1>3, FieldsAre, MemberIs
  <2> HIDE DEF fields, Of, Values
  <2>3. IsSeq(fs) /\ \A q \in ToSet(fs) : Within1(q)
    BY <2>2, WrittenMembers
  <2> HIDE DEF fs
  <2>4. /\ in = [i \in DOMAIN fs |-> in[i]]
        /\ \A i \in DOMAIN fs : \E condition, what : in[i] = When(condition, Violation(rule, fs[i], what))
    OBVIOUS
  <2>5. rule \in R
    OBVIOUS
  <2> HIDE DEF in, rule
  <2>6. Raises(R, FlattenSeq(in))
    BY <2>3, <2>4, <2>5, RaisesAtMembers
  <2> QED
    BY <2>1, <2>6
<1> HIDE DEF Of
<1>4. seqs = [i \in DOMAIN ps |-> seqs[i]] /\ \A i \in DOMAIN ps : Raises(R, seqs[i])
  BY <1>2, <1>3
<1> HIDE DEF seqs
<1> QED
  BY <1>1, <1>2, <1>4, RaisesEach, RaisesNothing

Listed(g) == IsSeq(g) /\ \A q \in ToSet(g) : Within1(q)

LEMMA AlphaOrderIs ==
  ASSUME WellFormed, NEW g, Listed(g), NEW R, "alphabetize" \in R
  PROVE  Raises(R, CheckAlphaOrder(g))
<1> DEFINE rule == "alphabetize"
           s == Filter(g, InScope)
           seqs == [i \in DOMAIN s |->
               When(i > 1 /\ LocaleCompare(NodeAt(s[i - 1]).name, NodeAt(s[i]).name) = 1,
                    Violation(rule, s[i], ""))]
<1>1. CheckAlphaOrder(g) = FlattenSeq(seqs)
  BY Zenon DEF CheckAlphaOrder
<1>2. IsSeq(s) /\ \A q \in ToSet(s) : Within1(q)
  BY WrittenMembers DEF Listed
<1> HIDE DEF s
<1>3. /\ seqs = [i \in DOMAIN s |-> seqs[i]]
      /\ \A i \in DOMAIN s : \E condition, what : seqs[i] = When(condition, Violation(rule, s[i], what))
  OBVIOUS
<1>4. rule \in R
  OBVIOUS
<1> HIDE DEF seqs, rule
<1>5. Raises(R, FlattenSeq(seqs))
  BY <1>2, <1>3, <1>4, RaisesAtMembers
<1> QED
  BY <1>1, <1>5

LEMMA AlphabetizedIs ==
  ASSUME WellFormed, NEW p, IsPlace(p)
  PROVE  IsSeq(Alphabetized(p)) /\ \A i \in DOMAIN Alphabetized(p) : Listed(Alphabetized(p)[i])
<1> DEFINE fields == Fields(p)
           arguments == [j \in DOMAIN fields |-> Arguments(fields[j])]
<1>1. \E c : \/ Alphabetized(p) = When(c, fields) \o arguments
             \/ Alphabetized(p) = When(c, fields) \o <<>>
  BY Zenon DEF Alphabetized
<1>2. IsSeq(fields) /\ \A j \in DOMAIN fields : IsMember(fields[j])
  BY FieldsAre DEF ToSet
<1>3. Listed(fields)
  BY FieldsAre, MemberIs DEF Listed
<1> HIDE DEF fields
<1>4. IsSeq(arguments) /\ \A g \in ToSet(arguments) : Listed(g)
  <2>1. IsSeq(arguments)
    BY <1>2, SeqIs, ListIs
  <2>2. \A j \in DOMAIN fields : Listed(arguments[j])
    BY <1>2, MemberIs DEF Listed
  <2> QED
    BY <2>1, <2>2 DEF ToSet
<1> HIDE DEF arguments
<1>5. PICK c : \/ Alphabetized(p) = When(c, fields) \o arguments
               \/ Alphabetized(p) = When(c, fields) \o <<>>
  BY <1>1
<1>6. IsSeq(When(c, fields)) /\ \A g \in ToSet(When(c, fields)) : Listed(g)
  BY <1>3, WhenOf
<1> DEFINE first == When(c, fields)
<1>7. Alphabetized(p) = first \o arguments \/ Alphabetized(p) = first \o <<>>
  BY <1>5
<1> HIDE DEF first
<1>8. /\ IsSeq(first \o arguments) /\ ToSet(first \o arguments) = ToSet(first) \cup ToSet(arguments)
      /\ IsSeq(first \o <<>>) /\ ToSet(first \o <<>>) = ToSet(first) \cup {}
  BY <1>4, <1>6, ConcatOf, NothingIs DEF first
<1>9. \A g \in ToSet(first) : Listed(g)
  BY <1>6 DEF first
<1>10. IsSeq(Alphabetized(p)) /\ \A g \in ToSet(Alphabetized(p)) : Listed(g)
  BY <1>4, <1>7, <1>8, <1>9
<1> QED
  BY <1>10 DEF ToSet

LEMMA AlphabetizeIs ==
  ASSUME WellFormed, NEW R, "alphabetize" \in R
  PROVE  Raises(R, Tier3Alphabetize)
<1> DEFINE ds == AllDefinitions
           Of(p) == [j \in DOMAIN Alphabetized(p) |-> CheckAlphaOrder(Alphabetized(p)[j])]
           seqs == [i \in DOMAIN ds |-> FlattenSeq(Of(ds[i]))]
           own == [i \in DOMAIN Directives |-> CheckAlphaOrder(Own(Directives[i]))]
<1>1. \/ Tier3Alphabetize = <<>> \/ Tier3Alphabetize = FlattenSeq(seqs) \o <<>>
      \/ Tier3Alphabetize = FlattenSeq(seqs) \o FlattenSeq(own)
  BY Zenon DEF Tier3Alphabetize, ForEach
<1>2. /\ IsSeq(ds) /\ \A i \in DOMAIN ds : IsPlace(ds[i])
      /\ IsSeq(Directives) /\ \A i \in DOMAIN Directives : IsPlace(Directives[i])
  BY AllDefinitionsAre, WrittenAre DEF Places, ToSet
<1>3. ASSUME NEW p, IsPlace(p) PROVE Raises(R, FlattenSeq(Of(p))) /\ Raises(R, CheckAlphaOrder(Own(p)))
  <2> DEFINE gs == Alphabetized(p)
             in == [j \in DOMAIN gs |-> CheckAlphaOrder(gs[j])]
  <2>1. Of(p) = in
    OBVIOUS
  <2>2. IsSeq(gs) /\ \A j \in DOMAIN gs : Listed(gs[j])
    BY <1>3, AlphabetizedIs
  <2> HIDE DEF gs, Of
  <2>3. in = [i \in DOMAIN gs |-> in[i]] /\ \A i \in DOMAIN gs : Raises(R, in[i])
    BY <2>2, AlphaOrderIs
  <2> HIDE DEF in
  <2>4. Raises(R, FlattenSeq(in))
    BY <2>2, <2>3, RaisesEach
  <2>5. Listed(Own(p))
    BY <1>3, OwnAre, MemberIs DEF Listed
  <2> QED
    BY <2>1, <2>4, <2>5, AlphaOrderIs
<1> HIDE DEF Of, ds
<1>4. seqs = [i \in DOMAIN ds |-> seqs[i]] /\ \A i \in DOMAIN ds : Raises(R, seqs[i])
  BY <1>2, <1>3
<1>5. own = [i \in DOMAIN Directives |-> own[i]] /\ \A i \in DOMAIN Directives : Raises(R, own[i])
  BY <1>2, <1>3
<1> HIDE DEF seqs, own
<1>6. Raises(R, FlattenSeq(seqs)) /\ Raises(R, FlattenSeq(own))
  BY <1>2, <1>4, <1>5, RaisesEach
<1> QED
  BY <1>1, <1>6, RaisesOfBoth, RaisesNothing

LEMMA NamingIs ==
  ASSUME WellFormed, NEW R, "naming-convention" \in R
  PROVE  Raises(R, Tier3Naming)
<1> DEFINE opts == Options(config, "naming-convention")
           rule == "naming-convention"
           kept == [i \in DOMAIN DescriptionSites |->
                       When(InScope(DescriptionSites[i].pos) /\ DescriptionSites[i].option # "SchemaDefinition",
                            DescriptionSites[i])]
           ts == FlattenSeq(kept)
           Raise(t, what) == When(what # "", Violation(rule, t.pos, what))
           Each1(t) == [k \in DOMAIN RulesFor(opts, t) |->
                           Raise(t, NamingRuleMessage(NodeAt(t.pos).name, RulesFor(opts, t)[k]))]
           leading(t) == IF ~BoolOption(opts, "allowLeadingUnderscore") /\ NodeAt(t.pos).name[1] = 0
                         THEN "leading" ELSE ""
           trailing(t) == IF /\ ~BoolOption(opts, "allowTrailingUnderscore")
                             /\ NodeAt(t.pos).name[Len(NodeAt(t.pos).name)] = 0
                          THEN "trailing" ELSE ""
           Judged(t) == FlattenSeq(Each1(t)) \o Raise(t, leading(t)) \o Raise(t, trailing(t))
           seqs == [i \in DOMAIN ts |-> Judged(ts[i])]
<1>1. Tier3Naming = <<>> \/ Tier3Naming = FlattenSeq(seqs)
  BY Zenon DEF Tier3Naming, NamingSites, Filter, ForEach
<1>2. Sites(ts)
  <2>1. IsSeq(DescriptionSites) /\ \A t \in ToSet(DescriptionSites) : IsSite(t)
    BY DescriptionSitesAre DEF Sites
  <2>2. /\ DOMAIN kept = DOMAIN DescriptionSites /\ kept = [i \in DOMAIN DescriptionSites |-> kept[i]]
        /\ \A i \in DOMAIN DescriptionSites : kept[i] \in {<<>>, <<DescriptionSites[i]>>}
    BY DEF When
  <2> HIDE DEF kept
  <2>3. IsSeq(ts) /\ ToSet(ts) \subseteq ToSet(DescriptionSites)
    BY <2>1, <2>2, SomeOf
  <2> QED
    BY <2>1, <2>3 DEF Sites
<1> HIDE DEF ts
<1>3. ASSUME NEW t, IsSite(t) PROVE IsSeq(RulesFor(opts, t))
  <2> DEFINE Configured(key) == key \in DOMAIN opts /\ opts[key][1] \in {"string", "map"}
             roles == SetToSeq(t.role)
             each == [i \in DOMAIN roles |->
                 When(Configured(RootSelector[roles[i]]), NamingRule(opts[RootSelector[roles[i]]]))]
  <2>1. IsSeq(roles)
    BY <1>3, SetToSeqIs DEF IsSite
  <2>2. \E x : \/ RulesFor(opts, t) = <<x>> \o FlattenSeq(each)
               \/ \E c : RulesFor(opts, t) = When(c, x) \o FlattenSeq(each)
    BY Zenon DEF RulesFor, ForEach
  <2> HIDE DEF roles, Configured
  <2>3. /\ DOMAIN each = DOMAIN roles /\ each = [i \in DOMAIN roles |-> each[i]]
        /\ \A i \in DOMAIN roles : IsSeq(each[i])
    BY WhenOf
  <2> HIDE DEF each, opts
  <2>4. IsSeq(FlattenSeq(each))
    BY <2>1, <2>3, FollowedBy
  <2>5. \A x, c : IsSeq(<<x>>) /\ IsSeq(When(c, x))
    BY OneIs, WhenOf
  <2> QED
    BY <2>2, <2>4, <2>5, ConcatOf
<1>4. ASSUME NEW t, IsSite(t) PROVE Raises(R, Judged(t))
  <2>1. rule \in R /\ t.pos[1] \in 0 .. Len(sources)
    BY <1>4, PositionsAre DEF IsSite
  <2>2. ASSUME NEW what PROVE Raises(R, Raise(t, what))
    BY <2>1, RaisesOne
  <2> DEFINE rules == RulesFor(opts, t)
             in == [k \in DOMAIN rules |-> Raise(t, NamingRuleMessage(NodeAt(t.pos).name, rules[k]))]
  <2>3. IsSeq(rules)
    BY <1>3, <1>4
  <2>4. Each1(t) = in
    OBVIOUS
  <2> HIDE DEF rules, Raise, Each1
  <2>5. in = [k \in DOMAIN rules |-> in[k]] /\ \A k \in DOMAIN rules : Raises(R, in[k])
    BY <2>2
  <2> HIDE DEF in
  <2>6. Raises(R, FlattenSeq(in))
    BY <2>3, <2>5, RaisesEach
  <2> HIDE DEF leading, trailing
  <2>7. Raises(R, FlattenSeq(Each1(t)) \o Raise(t, leading(t)))
    BY <2>2, <2>4, <2>6, RaisesOfBoth
  <2> QED
    BY <2>2, <2>7, RaisesOfBoth
<1>5. IsSeq(ts) /\ \A i \in DOMAIN ts : IsSite(ts[i])
  BY <1>2 DEF Sites, ToSet
<1> HIDE DEF Judged
<1>6. seqs = [i \in DOMAIN ts |-> seqs[i]] /\ \A i \in DOMAIN ts : Raises(R, seqs[i])
  BY <1>4, <1>5
<1> HIDE DEF seqs
<1> QED
  BY <1>1, <1>5, <1>6, RaisesEach, RaisesNothing

LEMMA DuplicatesAre ==
  ASSUME NEW p, p[1] \in 0 .. Len(sources), NEW dirs, IsSeq(dirs), NEW R, "unique-directive-names-per-location" \in R
  PROVE  Raises(R, NonRepeatableDuplicates(p, dirs))
<1> DEFINE rule == "unique-directive-names-per-location"
           seqs == [k \in DOMAIN dirs |->
               When(/\ \E j \in 1 .. k - 1 : dirs[j].name = dirs[k].name
                    /\ ~Repeatable(dirs[k].name), Violation(rule, p, k))]
<1>1. NonRepeatableDuplicates(p, dirs) = FlattenSeq(seqs)
  BY Zenon DEF NonRepeatableDuplicates
<1>2. rule \in R
  OBVIOUS
<1>3. seqs = [k \in DOMAIN dirs |-> seqs[k]] /\ \A k \in DOMAIN dirs : Raises(R, seqs[k])
  <2> HIDE DEF rule
  <2> QED
    BY <1>2, RaisesOne
<1> HIDE DEF seqs
<1> QED
  BY <1>1, <1>3, RaisesEach

LEMMA GapFillIs ==
  ASSUME WellFormed, NEW R, {"unique-directive-names-per-location", "possible-type-extension"} \subseteq R
  PROVE  Raises(R, GapFill)
<1> DEFINE all == Definitions \o Extensions
           rule == "possible-type-extension"
           kept == [i \in DOMAIN all |-> When(all[i] = Parts(Def(all[i]).name)[1], all[i])]
           firsts == FlattenSeq(kept)
           once == [i \in DOMAIN firsts |-> NonRepeatableDuplicates(firsts[i], AppliedTo(Def(firsts[i]).name))]
           bases == [i \in DOMAIN Extensions |->
                        When(~Based(Extensions[i]), Violation(rule, Extensions[i], ""))]
           first == NonRepeatableDuplicates(<<0, 0, 0, 0>>, AppliedToSchema)
           One(a) == IF a THEN first \o FlattenSeq(once) ELSE <<>>
           Two(b) == IF b THEN FlattenSeq(bases) ELSE <<>>
<1>1. \E a, b : GapFill = One(a) \o Two(b)
  BY Zenon DEF GapFill, Filter, ForEach
<1>2. IsSeq(firsts) /\ \A i \in DOMAIN firsts : IsPlace(firsts[i])
  <2>1. IsSeq(all) /\ \A p \in ToSet(all) : IsPlace(p)
    BY WrittenAre, PlacesOfBoth DEF Places
  <2>2. /\ DOMAIN kept = DOMAIN all /\ kept = [i \in DOMAIN all |-> kept[i]]
        /\ \A i \in DOMAIN all : kept[i] \in {<<>>, <<all[i]>>}
    BY DEF When
  <2> HIDE DEF all, kept
  <2>3. IsSeq(firsts) /\ ToSet(firsts) \subseteq ToSet(all)
    BY <2>1, <2>2, SomeOf
  <2> QED
    BY <2>1, <2>3 DEF ToSet
<1> HIDE DEF firsts
<1>3. \A i \in DOMAIN firsts : Raises(R, once[i])
  <2> SUFFICES ASSUME NEW i \in DOMAIN firsts PROVE Raises(R, once[i])
    OBVIOUS
  <2> DEFINE p == firsts[i]
             dirs == AppliedTo(Def(p).name)
  <2>1. p[1] \in 0 .. Len(sources)
    BY <1>2, PlaceIs, PositionsAre
  <2>2. IsSeq(dirs)
    BY AppliedAre
  <2>3. once[i] = NonRepeatableDuplicates(p, dirs)
    OBVIOUS
  <2> HIDE DEF p, dirs, once
  <2> QED
    BY <2>1, <2>2, <2>3, DuplicatesAre
<1>4. once = [i \in DOMAIN firsts |-> once[i]]
  OBVIOUS
<1> HIDE DEF once
<1>5. Raises(R, FlattenSeq(once))
  BY <1>2, <1>3, <1>4, RaisesEach
<1>6. Raises(R, first)
  <2> DEFINE zero == <<0, 0, 0, 0>>
             dirs == AppliedToSchema
  <2>1. zero[1] \in 0 .. Len(sources)
    BY PositionsAre
  <2>2. IsSeq(dirs)
    BY AppliedToSchemaIs
  <2>3. first = NonRepeatableDuplicates(zero, dirs)
    OBVIOUS
  <2> HIDE DEF zero, dirs, first
  <2> QED
    BY <2>1, <2>2, <2>3, DuplicatesAre
<1> HIDE DEF first
<1>7. Raises(R, FlattenSeq(bases))
  <2>1. IsSeq(Extensions) /\ \A q \in ToSet(Extensions) : Within1(q)
    BY WrittenAre, PlaceIs DEF Places
  <2>2. /\ bases = [i \in DOMAIN Extensions |-> bases[i]]
        /\ \A i \in DOMAIN Extensions : \E condition, what :
               bases[i] = When(condition, Violation(rule, Extensions[i], what))
    OBVIOUS
  <2>3. rule \in R
    OBVIOUS
  <2> HIDE DEF bases, rule
  <2> QED
    BY <2>1, <2>2, <2>3, RaisesAtMembers
<1> HIDE DEF bases
<1>8. PICK a, b : GapFill = One(a) \o Two(b)
  BY <1>1
<1>9. Raises(R, One(a)) /\ Raises(R, Two(b))
  BY <1>5, <1>6, <1>7, RaisesOfBoth, RaisesNothing
<1> QED
  BY <1>8, <1>9, RaisesOfBoth

(* The names that are written in the files, and those reported of them. *)
WrittenNames == {Def(p).name : p \in {p \in ToSet(Definitions \o Extensions \o Directives) : InScope(p)}}

Unreached(vs) ==
  /\ IsSeq(vs)
  /\ \A v \in ToSet(vs) : v.rule = "no-unreachable-types" /\ v.pos[1] \in 0 .. Len(sources)
  /\ Enabled(config, "no-unreachable-types") =>
         {Def(v.pos).name : v \in ToSet(vs)} = WrittenNames \ ReachableTypeNames

LEMMA UnreachableIs ==
  ASSUME WellFormed
  PROVE  Unreached(Tier3Unreachable)
<1> DEFINE all == Definitions \o Extensions \o Directives
           rule == "no-unreachable-types"
           on == Enabled(config, rule)
           kept == [i \in DOMAIN all |-> When(InScope(all[i]), all[i])]
           ps == FlattenSeq(kept)
           reachable == ReachableTypeNames
           violation == [i \in DOMAIN ps |-> Violation(rule, ps[i], "")]
           seqs == [i \in DOMAIN ps |-> When(Def(ps[i]).name \notin reachable, Violation(rule, ps[i], ""))]
           vs == FlattenSeq(seqs)
<1>1. Tier3Unreachable = IF ~on THEN <<>> ELSE vs
  BY Zenon DEF Tier3Unreachable, Filter, ForEach
<1>2. IsSeq(all) /\ \A p \in ToSet(all) : IsPlace(p)
  BY WrittenAre, PlacesOfBoth DEF Places
<1>3. IsSeq(ps) /\ ToSet(ps) = {p \in ToSet(all) : InScope(p)}
  <2> DEFINE T == {p \in ToSet(all) : InScope(p)}
  <2>1. \A i \in DOMAIN all : all[i] \in T <=> InScope(all[i])
    BY DEF ToSet
  <2> HIDE DEF all
  <2>2. kept = [i \in DOMAIN all |-> When(all[i] \in T, all[i])]
    <3> HIDE DEF T
    <3> QED
      BY <2>1 DEF When
  <2>3. ps = Kept(T, all)
    BY <2>2 DEF Kept
  <2>4. IsSeq(ps) /\ ToSet(ps) = ToSet(all) \cap T
    BY <1>2, <2>3, KeptIs
  <2> QED
    BY <2>4
<1>4. WrittenNames = {Def(p).name : p \in ToSet(ps)}
  BY <1>3 DEF WrittenNames
<1>5. \A p \in ToSet(ps) : p[1] \in 0 .. Len(sources)
  BY <1>2, <1>3, PlaceIs, PositionsAre
<1> HIDE DEF all, ps, reachable
<1> DEFINE Made(p) == Violation(rule, p, "")
           Bad(p) == Def(p).name \notin reachable
<1>6. IsSeq(vs) /\ \A v : v \in ToSet(vs) <=> \E p \in ToSet(ps) : Bad(p) /\ v = Made(p)
  <2>1. /\ DOMAIN seqs = DOMAIN ps /\ seqs = [i \in DOMAIN ps |-> seqs[i]]
        /\ \A i \in DOMAIN ps : seqs[i] = When(Bad(ps[i]), Made(ps[i]))
    OBVIOUS
  <2>2. \A i \in DOMAIN ps : IsSeq(seqs[i])
    BY <2>1, WhenOf
  <2> HIDE DEF seqs
  <2>3. IsSeq(vs) /\ ToSet(vs) = UNION {ToSet(seqs[i]) : i \in DOMAIN ps}
    BY <1>3, <2>1, <2>2, FollowedBy
  <2> HIDE DEF Made, Bad, vs
  <2>4. ASSUME NEW i \in DOMAIN ps, NEW v PROVE v \in ToSet(seqs[i]) <=> Bad(ps[i]) /\ v = Made(ps[i])
    <3> DEFINE m == Made(ps[i])
    <3>1. CASE Bad(ps[i])
      <4>1. seqs[i] = <<m>>
        BY <2>1, <3>1 DEF When
      <4> HIDE DEF m
      <4> QED
        BY <3>1, <4>1, OneIs DEF m
    <3>2. CASE ~Bad(ps[i])
      <4>1. seqs[i] = <<>>
        BY <2>1, <3>2 DEF When
      <4> QED
        BY <3>2, <4>1, NothingIs
    <3> QED
      BY <3>1, <3>2
  <2>5. \A p : p \in ToSet(ps) <=> \E i \in DOMAIN ps : p = ps[i]
    BY DEF ToSet
  <2> QED
    BY <2>3, <2>4, <2>5
<1> HIDE DEF vs, seqs
<1>7. \A p : Made(p).rule = rule /\ Made(p).pos = p
  BY DEF Violation
<1> HIDE DEF Made
<1>8. \A v \in ToSet(vs) : v.rule = rule /\ v.pos[1] \in 0 .. Len(sources)
  BY <1>5, <1>6, <1>7
<1>9. {Def(v.pos).name : v \in ToSet(vs)} = {Def(p).name : p \in ToSet(ps)} \ reachable
  <2>1. ASSUME NEW v \in ToSet(vs) PROVE Def(v.pos).name \in {Def(p).name : p \in ToSet(ps)} \ reachable
    <3>1. PICK p \in ToSet(ps) : Bad(p) /\ v = Made(p)
      BY <1>6
    <3>2. v.pos = p
      BY <1>7, <3>1
    <3> QED
      BY <3>1, <3>2
  <2>2. ASSUME NEW p \in ToSet(ps), Def(p).name \notin reachable
        PROVE  \E v \in ToSet(vs) : Def(v.pos).name = Def(p).name
    <3>1. Made(p) \in ToSet(vs) /\ Made(p).pos = p
      BY <1>6, <1>7, <2>2
    <3> QED
      BY <3>1
  <2> QED
    BY <2>1, <2>2
<1>10. CASE on
  BY <1>1, <1>4, <1>6, <1>8, <1>9, <1>10 DEF Unreached, reachable
<1>11. CASE ~on
  BY <1>1, <1>11, NothingIs DEF Unreached
<1> QED
  BY <1>10, <1>11

-----------------------------------------------------------------------------
(* How many things of a set a sequence has. *)

Hits(s, X) == {i \in DOMAIN s : s[i] \in X}

LEMMA HitsAre ==
  ASSUME NEW s, IsSeq(s), NEW X
  PROVE  /\ Hits(s, X) \in SUBSET (1 .. Len(s)) /\ IsFiniteSet(Hits(s, X))
         /\ Cardinality(Hits(s, X)) \in Nat
<1>1. Len(s) \in Nat /\ DOMAIN s = 1 .. Len(s)
  BY SeqIs
<1>2. Hits(s, X) \in SUBSET (1 .. Len(s)) /\ IsFiniteSet(1 .. Len(s))
  BY <1>1, FS_Interval DEF Hits
<1>3. IsFiniteSet(Hits(s, X))
  BY <1>2, FS_Subset
<1> QED
  BY <1>2, <1>3, FS_CardinalityType

LEMMA HitsOfNone ==
  ASSUME NEW s, NEW X, \A x \in ToSet(s) : x \notin X
  PROVE  Cardinality(Hits(s, X)) = 0
<1>1. Hits(s, X) = {}
  BY DEF Hits, ToSet
<1> QED
  BY <1>1, FS_EmptySet

LEMMA HitsOfOne ==
  ASSUME NEW x, NEW X, x \in X
  PROVE  Cardinality(Hits(<<x>>, X)) = 1
<1>1. Hits(<<x>>, X) = {1}
  BY DEF Hits
<1> QED
  BY <1>1, FS_Singleton

LEMMA HitsOfBoth ==
  ASSUME NEW s, IsSeq(s), NEW t, IsSeq(t), NEW X
  PROVE  Cardinality(Hits(s \o t, X)) = Cardinality(Hits(s, X)) + Cardinality(Hits(t, X))
<1> DEFINE m == Len(s)
           shifted == {m + j : j \in Hits(t, X)}
           g == [j \in Hits(t, X) |-> m + j]
<1>1. /\ m \in Nat /\ DOMAIN s = 1 .. m /\ Len(t) \in Nat /\ DOMAIN t = 1 .. Len(t)
      /\ DOMAIN (s \o t) = 1 .. m + Len(t)
      /\ \A i \in 1 .. m + Len(t) : (s \o t)[i] = IF i <= m THEN s[i] ELSE t[i - m]
  BY DEF IsSeq
<1> HIDE DEF m
<1>2. Hits(s \o t, X) = Hits(s, X) \cup shifted
  <2>1. ASSUME NEW i \in Hits(s \o t, X) PROVE i \in Hits(s, X) \cup shifted
    <3>1. i \in 1 .. m + Len(t) /\ (s \o t)[i] \in X
      BY <1>1, <2>1 DEF Hits
    <3>2. CASE i <= m
      BY <1>1, <3>1, <3>2 DEF Hits
    <3>3. CASE ~(i <= m)
      <4>1. i - m \in Hits(t, X) /\ i = m + (i - m)
        BY <1>1, <3>1, <3>3 DEF Hits
      <4> QED
        BY <4>1
    <3> QED
      BY <3>2, <3>3
  <2>2. Hits(s, X) \subseteq Hits(s \o t, X)
    BY <1>1 DEF Hits
  <2>3. ASSUME NEW j \in Hits(t, X) PROVE m + j \in Hits(s \o t, X)
    <3>1. j \in 1 .. Len(t) /\ t[j] \in X
      BY <1>1, <2>3 DEF Hits
    <3>2. m + j \in 1 .. m + Len(t) /\ ~(m + j <= m) /\ (m + j) - m = j
      BY <1>1, <3>1
    <3> QED
      BY <1>1, <3>1, <3>2 DEF Hits
  <2> QED
    BY <2>1, <2>2, <2>3
<1>3. /\ IsFiniteSet(Hits(s, X)) /\ IsFiniteSet(Hits(t, X))
      /\ Cardinality(Hits(s, X)) \in Nat /\ Cardinality(Hits(t, X)) \in Nat
      /\ Hits(s, X) \subseteq 1 .. m /\ Hits(t, X) \subseteq 1 .. Len(t)
  BY HitsAre DEF m
<1>4. IsFiniteSet(shifted) /\ Cardinality(shifted) = Cardinality(Hits(t, X))
  <2>1. g \in [Hits(t, X) -> shifted] /\ \A k \in shifted : \E j \in Hits(t, X) : g[j] = k
    OBVIOUS
  <2>2. \A j, k \in Hits(t, X) : g[j] = g[k] => j = k
    BY <1>1, <1>3
  <2> HIDE DEF g, shifted
  <2>3. g \in Bijection(Hits(t, X), shifted)
    BY <2>1, <2>2 DEF Bijection, Injection, IsInjective, Surjection
  <2> QED
    BY <1>3, <2>3, FS_Bijection DEF ExistsBijection
<1>5. Hits(s, X) \cap shifted = {}
  BY <1>1, <1>3
<1> HIDE DEF shifted
<1>6. Cardinality(Hits(s, X) \cap shifted) = 0
  BY <1>5, FS_EmptySet
<1>7. Cardinality(Hits(s, X) \cup shifted) = Cardinality(Hits(s, X)) + Cardinality(shifted) - 0
  BY <1>3, <1>4, <1>6, FS_Union
<1> QED
  BY <1>2, <1>3, <1>4, <1>7

(* FlattenSeq, one sequence after the other. *)
LEMMA FlattenUnfolds ==
  ASSUME NEW seqs, IsSeq(seqs), \A i \in DOMAIN seqs : IsSeq(seqs[i])
  PROVE  \E f : /\ f[0] = <<>> /\ FlattenSeq(seqs) = f[Len(seqs)]
                /\ \A n \in 1 .. Len(seqs) : f[n] = f[n - 1] \o seqs[n]
<1> DEFINE N == Len(seqs)
           Step(f, i) == IF i = 1 THEN seqs[i] ELSE f[i - 1] \o seqs[i]
           Flattens(f, n) == f = [i \in 1 .. n |-> Step(f, i)]
<1>1. N \in Nat /\ DOMAIN seqs = 1 .. N
  BY SeqIs
<1>2. \A n \in Nat : \E f : Flattens(f, n)
  <2> DEFINE Good == {n \in Nat : \E f : Flattens(f, n)}
  <2>1. ASSUME NEW m \in Nat, \A k \in Nat : k < m => k \in Good
        PROVE  m \in Good
    <3>1. CASE m = 0
      <4>1. Flattens([i \in 1 .. 0 |-> 0], 0)
        OBVIOUS
      <4> QED
        BY <3>1, <4>1
    <3>2. CASE m # 0
      <4>1. m - 1 \in Nat /\ m - 1 < m
        BY <3>2
      <4>2. PICK f : Flattens(f, m - 1)
        BY <2>1, <4>1
      <4> DEFINE g == [i \in 1 .. m |-> IF i = m THEN Step(f, m) ELSE f[i]]
      <4>3. ASSUME NEW i \in 1 .. m PROVE g[i] = Step(g, i)
        <5>1. i # 1 => i - 1 \in 1 .. m - 1 /\ i - 1 \in 1 .. m /\ i - 1 # m
          OBVIOUS
        <5>2. Step(g, i) = Step(f, i)
          BY <5>1
        <5>3. CASE i = m
          BY <5>2, <5>3
        <5>4. CASE i # m
          <6>1. i \in 1 .. m - 1
            BY <5>4
          <6>2. f[i] = Step(f, i)
            BY <4>2, <6>1
          <6> QED
            BY <5>2, <5>4, <6>2
        <5> QED
          BY <5>3, <5>4
      <4>4. Flattens(g, m)
        BY <4>3
      <4> QED
        BY <4>4
    <3> QED
      BY <3>1, <3>2
  <2>2. Nat \subseteq Good
    <3> HIDE DEF Good
    <3> QED
      BY <2>1, Induction
  <2> QED
    BY <2>2
<1> DEFINE flatten == CHOOSE f : Flattens(f, N)
           f1 == [n \in 0 .. N |-> IF n = 0 THEN <<>> ELSE flatten[n]]
<1>3. Flattens(flatten, N)
  BY <1>1, <1>2
<1>4. FlattenSeq(seqs) = IF N = 0 THEN <<>> ELSE flatten[N]
  <2>1. N = 0 => FlattenSeq(seqs) = seqs /\ seqs = <<>>
    BY <1>1 DEF FlattenSeq, IsSeq
  <2>2. N # 0 => FlattenSeq(seqs) = flatten[N]
    BY DEF FlattenSeq
  <2> HIDE DEF flatten, N
  <2> QED
    BY <2>1, <2>2
<1>5. \A n \in 1 .. N : flatten[n] = Step(flatten, n)
  BY <1>3
<1> HIDE DEF flatten, Flattens
<1>6. f1[0] = <<>> /\ FlattenSeq(seqs) = f1[N]
  BY <1>1, <1>4
<1>7. ASSUME NEW n \in 1 .. N PROVE f1[n] = f1[n - 1] \o seqs[n]
  <2>1. n \in 0 .. N /\ n - 1 \in 0 .. N /\ n # 0 /\ f1[n] = flatten[n]
    BY <1>1
  <2>2. CASE n = 1
    <3>1. f1[n] = seqs[n] /\ f1[n - 1] = <<>>
      BY <1>1, <1>5, <2>1, <2>2
    <3>2. IsSeq(seqs[n])
      BY <1>1
    <3>3. <<>> \o seqs[n] = seqs[n]
      BY <3>2 DEF IsSeq
    <3> QED
      BY <3>1, <3>3
  <2>3. CASE n # 1
    <3>1. n - 1 # 0 /\ f1[n - 1] = flatten[n - 1]
      BY <1>1, <2>1, <2>3
    <3>2. flatten[n] = flatten[n - 1] \o seqs[n]
      BY <1>5, <2>3
    <3> HIDE DEF f1
    <3> QED
      BY <2>1, <3>1, <3>2
  <2> QED
    BY <2>2, <2>3
<1> HIDE DEF f1
<1> QED
  BY <1>6, <1>7

(* A sum of its own over the sequences. *)
LEMMA HitsOfFlatten ==
  ASSUME NEW seqs, IsSeq(seqs), \A i \in DOMAIN seqs : IsSeq(seqs[i]), NEW X,
         NEW F, F[0] = 0, \A n \in 1 .. Len(seqs) : F[n] = F[n - 1] + Cardinality(Hits(seqs[n], X))
  PROVE  Cardinality(Hits(FlattenSeq(seqs), X)) = F[Len(seqs)]
<1> DEFINE N == Len(seqs)
<1>1. N \in Nat /\ DOMAIN seqs = 1 .. N
  BY SeqIs
<1>2. PICK f : /\ f[0] = <<>> /\ FlattenSeq(seqs) = f[N]
               /\ \A n \in 1 .. N : f[n] = f[n - 1] \o seqs[n]
  BY FlattenUnfolds
<1> DEFINE Good == {n \in Nat : n <= N => IsSeq(f[n]) /\ Cardinality(Hits(f[n], X)) = F[n]}
<1>3. ASSUME NEW m \in Nat, \A k \in Nat : k < m => k \in Good
      PROVE  m \in Good
  <2>1. CASE m = 0
    <3>1. IsSeq(f[0]) /\ ToSet(f[0]) = {}
      BY <1>2, NothingIs
    <3>2. Cardinality(Hits(f[0], X)) = 0
      BY <3>1, HitsOfNone
    <3> QED
      BY <2>1, <3>1, <3>2
  <2>2. CASE m # 0 /\ m <= N
    <3>1. m - 1 \in Nat /\ m - 1 < m /\ m - 1 <= N /\ m \in 1 .. N
      BY <1>1, <2>2
    <3>2. IsSeq(f[m - 1]) /\ Cardinality(Hits(f[m - 1], X)) = F[m - 1]
      BY <1>3, <3>1
    <3>3. f[m] = f[m - 1] \o seqs[m] /\ IsSeq(seqs[m])
      BY <1>1, <1>2, <3>1
    <3>4. IsSeq(f[m])
      BY <3>2, <3>3, ConcatOf
    <3>5. Cardinality(Hits(f[m], X)) = Cardinality(Hits(f[m - 1], X)) + Cardinality(Hits(seqs[m], X))
      BY <3>2, <3>3, HitsOfBoth
    <3> QED
      BY <3>1, <3>2, <3>4, <3>5
  <2> QED
    BY <2>1, <2>2
<1>4. Nat \subseteq Good
  <2> HIDE DEF Good
  <2> QED
    BY <1>3, Induction
<1> QED
  BY <1>1, <1>2, <1>4

LEMMA HitsOfTheOne ==
  ASSUME NEW s, IsSeq(s), NEW x, Cardinality(Hits(s, {x})) = 1,
         NEW seqs, IsSeq(seqs), DOMAIN seqs = DOMAIN s,
         \A i \in DOMAIN s : IsSeq(seqs[i]), NEW X, NEW c \in Nat,
         \A i \in DOMAIN s : Cardinality(Hits(seqs[i], X)) = IF s[i] = x THEN c ELSE 0
  PROVE  Cardinality(Hits(FlattenSeq(seqs), X)) = c
<1>1. Len(s) \in Nat /\ DOMAIN s = 1 .. Len(s)
  BY SeqIs
<1>2. Len(seqs) = Len(s)
  BY <1>1, SeqIs
<1>3. PICK k : Hits(s, {x}) = {k}
  BY HitsAre, FS_Singleton
<1>4. k \in 1 .. Len(s) /\ \A i \in 1 .. Len(s) : s[i] = x <=> i = k
  BY <1>1, <1>3 DEF Hits
<1> DEFINE F == [n \in 0 .. Len(s) |-> IF n < k THEN 0 ELSE c]
<1>5. F[0] = 0 /\ F[Len(s)] = c
  BY <1>1, <1>4
<1>6. \A n \in 1 .. Len(s) : F[n] = F[n - 1] + Cardinality(Hits(seqs[n], X))
  <2> SUFFICES ASSUME NEW n \in 1 .. Len(s) PROVE F[n] = F[n - 1] + Cardinality(Hits(seqs[n], X))
    OBVIOUS
  <2>1. n \in 0 .. Len(s) /\ n - 1 \in 0 .. Len(s) /\ (n - 1 < k <=> ~(k < n))
    BY <1>1, <1>4
  <2>2. Cardinality(Hits(seqs[n], X)) = IF n = k THEN c ELSE 0
    BY <1>1, <1>4
  <2> QED
    BY <1>1, <1>4, <2>1, <2>2
<1> HIDE DEF F
<1>7. Cardinality(Hits(FlattenSeq(seqs), X)) = F[Len(seqs)]
  BY <1>1, <1>2, <1>5, <1>6, HitsOfFlatten
<1> QED
  BY <1>2, <1>5, <1>7

LEMMA HitsOfSome ==
  ASSUME NEW s, IsSeq(s), NEW seqs, IsSeq(seqs), DOMAIN seqs = DOMAIN s,
         \A i \in DOMAIN s : IsSeq(seqs[i]), NEW X, NEW D \in SUBSET DOMAIN s,
         \A i \in DOMAIN s : Cardinality(Hits(seqs[i], X)) = IF i \in D THEN 1 ELSE 0
  PROVE  Cardinality(Hits(FlattenSeq(seqs), X)) = Cardinality(D)
<1>1. Len(s) \in Nat /\ DOMAIN s = 1 .. Len(s)
  BY SeqIs
<1>2. Len(seqs) = Len(s)
  BY <1>1, SeqIs
<1> DEFINE Upto(n) == {i \in D : i <= n}
           F == [n \in 0 .. Len(s) |-> Cardinality(Upto(n))]
<1>3. F[0] = 0
  <2>1. Upto(0) = {} /\ 0 \in 0 .. Len(s)
    BY <1>1
  <2> QED
    BY <2>1, FS_EmptySet
<1>4. F[Len(s)] = Cardinality(D)
  <2>1. Upto(Len(s)) = D
    BY <1>1
  <2>2. Len(s) \in 0 .. Len(s)
    BY <1>1
  <2> HIDE DEF Upto
  <2> QED
    BY <2>1, <2>2
<1>5. \A n \in 1 .. Len(s) : F[n] = F[n - 1] + Cardinality(Hits(seqs[n], X))
  <2> SUFFICES ASSUME NEW n \in 1 .. Len(s) PROVE F[n] = F[n - 1] + Cardinality(Hits(seqs[n], X))
    OBVIOUS
  <2>1. n \in 0 .. Len(s) /\ n - 1 \in 0 .. Len(s) /\ n \in DOMAIN s /\ n \notin Upto(n - 1)
    BY <1>1
  <2>2. F[n] = Cardinality(Upto(n)) /\ F[n - 1] = Cardinality(Upto(n - 1))
    BY <2>1
  <2>3. IsFiniteSet(Upto(n - 1))
    <3>1. Upto(n - 1) \in SUBSET Nat /\ (\A i \in Upto(n - 1) : i <= n) /\ n \in Nat
      BY <1>1
    <3> HIDE DEF Upto
    <3> QED
      BY <3>1, FS_BoundedSetOfNaturals
  <2>4. Cardinality(Upto(n - 1)) \in Nat
    BY <2>3, FS_CardinalityType
  <2>5. CASE n \in D
    <3>1. Upto(n) = Upto(n - 1) \cup {n}
      BY <1>1, <2>5
    <3> HIDE DEF Upto
    <3>2. Cardinality(Upto(n)) = Cardinality(Upto(n - 1)) + 1
      BY <2>1, <2>3, <3>1, FS_AddElement
    <3> QED
      BY <2>1, <2>2, <2>4, <2>5, <3>2
  <2>6. CASE n \notin D
    <3>1. Upto(n) = Upto(n - 1)
      BY <1>1, <2>6
    <3> HIDE DEF Upto, F
    <3> QED
      BY <2>1, <2>2, <2>4, <2>6, <3>1
  <2> QED
    BY <2>5, <2>6
<1> HIDE DEF F
<1>6. /\ \A i \in DOMAIN seqs : IsSeq(seqs[i])
      /\ \A n \in 1 .. Len(seqs) : F[n] = F[n - 1] + Cardinality(Hits(seqs[n], X))
  BY <1>2, <1>5
<1>7. Cardinality(Hits(FlattenSeq(seqs), X)) = F[Len(seqs)]
  BY <1>3, <1>6, HitsOfFlatten
<1> QED
  BY <1>2, <1>4, <1>7

LEMMA HitsOfWhen ==
  ASSUME NEW condition, NEW x, NEW X
  PROVE  /\ condition /\ x \in X => Cardinality(Hits(When(condition, x), X)) = 1
         /\ ~condition \/ x \notin X => Cardinality(Hits(When(condition, x), X)) = 0
<1>1. condition => When(condition, x) = <<x>>
  BY DEF When
<1>2. ~condition => When(condition, x) = <<>>
  BY DEF When
<1>3. ToSet(<<>>) = {} /\ ToSet(<<x>>) = {x}
  BY NothingIs, OneIs
<1> QED
  BY <1>1, <1>2, <1>3, HitsOfNone, HitsOfOne

LEMMA HitsKept ==
  ASSUME NEW s, IsSeq(s), NEW T, NEW X
  PROVE  Cardinality(Hits(Kept(T, s), X)) = Cardinality(Hits(s, X \cap T))
<1> DEFINE seqs == [i \in DOMAIN s |-> When(s[i] \in T, s[i])]
           D == Hits(s, X \cap T)
<1>1. IsSeq(seqs) /\ DOMAIN seqs = DOMAIN s /\ \A i \in DOMAIN s : seqs[i] = When(s[i] \in T, s[i])
  BY SeqIs, ListIs
<1>2. Kept(T, s) = FlattenSeq(seqs)
  BY DEF Kept
<1> HIDE DEF seqs
<1>3. D \in SUBSET DOMAIN s /\ \A i \in DOMAIN s : i \in D <=> s[i] \in X /\ s[i] \in T
  BY DEF Hits
<1>4. \A i \in DOMAIN s : IsSeq(seqs[i])
  BY <1>1, WhenOf
<1>5. \A i \in DOMAIN s : Cardinality(Hits(seqs[i], X)) = IF i \in D THEN 1 ELSE 0
  <2> SUFFICES ASSUME NEW i \in DOMAIN s PROVE Cardinality(Hits(seqs[i], X)) = IF i \in D THEN 1 ELSE 0
    OBVIOUS
  <2> DEFINE c == s[i] \in T
             x == s[i]
  <2>1. seqs[i] = When(c, x) /\ (i \in D <=> c /\ x \in X)
    BY <1>1, <1>3
  <2> HIDE DEF c, x, D
  <2>2. CASE c /\ x \in X
    <3>1. Cardinality(Hits(When(c, x), X)) = 1
      BY <2>2, HitsOfWhen, Zenon
    <3> QED
      BY <2>1, <2>2, <3>1
  <2>3. CASE ~(c /\ x \in X)
    <3>1. Cardinality(Hits(When(c, x), X)) = 0
      BY <2>3, HitsOfWhen, Zenon
    <3> QED
      BY <2>1, <2>3, <3>1
  <2> QED
    BY <2>2, <2>3
<1> HIDE DEF D
<1>6. Cardinality(Hits(FlattenSeq(seqs), X)) = Cardinality(D)
  BY <1>1, <1>3, <1>4, <1>5, HitsOfSome
<1> QED
  BY <1>2, <1>6 DEF D

LEMMA KeptAll ==
  ASSUME NEW s, IsSeq(s), NEW T, \A x \in ToSet(s) : x \in T
  PROVE  Kept(T, s) = s
<1> DEFINE seqs == [i \in DOMAIN s |-> When(s[i] \in T, s[i])]
<1>1. Len(s) \in Nat /\ DOMAIN s = 1 .. Len(s) /\ s \in Seq(ToSet(s))
  BY SeqIs DEF IsSeq
<1>2. \A i \in DOMAIN s : seqs[i] = <<s[i]>>
  BY DEF When, ToSet
<1>3. IsSeq(seqs) /\ DOMAIN seqs = DOMAIN s
  BY <1>1, ListIs
<1>4. Kept(T, s) = FlattenSeq(seqs)
  BY DEF Kept
<1> HIDE DEF seqs
<1>5. Len(seqs) = Len(s) /\ \A i \in DOMAIN seqs : IsSeq(seqs[i])
  <2>1. Len(seqs) \in Nat /\ DOMAIN seqs = 1 .. Len(seqs)
    BY <1>3, SeqIs
  <2>2. Len(seqs) = Len(s)
    BY <1>1, <1>3, <2>1
  <2> QED
    BY <1>2, <1>3, <2>2, OneIs
<1>6. PICK f : /\ f[0] = <<>> /\ FlattenSeq(seqs) = f[Len(s)]
               /\ \A n \in 1 .. Len(s) : f[n] = f[n - 1] \o seqs[n]
  BY <1>3, <1>5, FlattenUnfolds
<1> DEFINE Good == {n \in Nat : n <= Len(s) => f[n] = SubSeq(s, 1, n)}
<1>7. ASSUME NEW m \in Nat, \A k \in Nat : k < m => k \in Good
      PROVE  m \in Good
  <2>1. CASE m = 0
    <3>1. SubSeq(s, 1, 0) = <<>>
      BY <1>1
    <3> QED
      BY <1>6, <2>1, <3>1
  <2>2. CASE m # 0 /\ m <= Len(s)
    <3>1. m - 1 \in Nat /\ m - 1 < m /\ m - 1 <= Len(s) /\ m \in 1 .. Len(s)
      BY <1>1, <2>2
    <3>2. f[m] = SubSeq(s, 1, m - 1) \o <<s[m]>>
      BY <1>1, <1>2, <1>6, <1>7, <3>1
    <3>3. SubSeq(s, 1, m - 1) \o <<s[m]>> = SubSeq(s, 1, m)
      BY <1>1, <3>1
    <3> QED
      BY <3>1, <3>2, <3>3
  <2> QED
    BY <2>1, <2>2
<1>8. Nat \subseteq Good
  <2> HIDE DEF Good
  <2> QED
    BY <1>7, Induction
<1>9. f[Len(s)] = SubSeq(s, 1, Len(s))
  BY <1>1, <1>8
<1>10. SubSeq(s, 1, Len(s)) = s
  BY <1>1
<1> QED
  BY <1>4, <1>6, <1>9, <1>10

LEMMA LenIsHits ==
  ASSUME NEW s, IsSeq(s)
  PROVE  Cardinality(Hits(s, ToSet(s))) = Len(s)
<1>1. Len(s) \in Nat /\ DOMAIN s = 1 .. Len(s)
  BY SeqIs
<1>2. Hits(s, ToSet(s)) = 1 .. Len(s)
  BY <1>1 DEF Hits, ToSet
<1>3. Cardinality(1 .. Len(s)) = Len(s)
  <2> DEFINE n == Len(s)
  <2>1. n \in Nat
    BY <1>1
  <2> HIDE DEF n
  <2>2. Cardinality(1 .. n) = IF 1 > n THEN 0 ELSE n - 1 + 1
    BY <2>1, FS_Interval
  <2>3. Cardinality(1 .. n) = n
    BY <2>1, <2>2
  <2> QED
    BY <2>3 DEF n
<1> QED
  BY <1>2, <1>3

-----------------------------------------------------------------------------
(* The order of names. *)

LessTo(a, m, b, n) ==
  \E i \in 1 .. n : /\ \A j \in 1 .. i - 1 : j <= m /\ a[j] = b[j]
                    /\ i > m \/ a[i] < b[i]

LEMMA LessToIs ==
  ASSUME NEW a \in Seq(Int), NEW b \in Seq(Int)
  PROVE  /\ Len(a) \in Nat /\ a \in [1 .. Len(a) -> Int]
         /\ Less(a, b) <=> LessTo(a, Len(a), b, Len(b))
BY DEF Less, LessTo

LEMMA LessToIsOne ==
  ASSUME NEW m \in Nat, NEW n \in Nat, NEW a \in [1 .. m -> Int], NEW b \in [1 .. n -> Int],
         LessTo(a, m, b, n), LessTo(b, n, a, m)
  PROVE  FALSE
<1>1. PICK i \in 1 .. n : (\A j \in 1 .. i - 1 : j <= m /\ a[j] = b[j]) /\ (i > m \/ a[i] < b[i])
  BY DEF LessTo
<1>2. PICK k \in 1 .. m : (\A j \in 1 .. k - 1 : j <= n /\ b[j] = a[j]) /\ (k > n \/ b[k] < a[k])
  BY DEF LessTo
<1>3. CASE i < k
  <2>1. i \in 1 .. k - 1 /\ i \in 1 .. m
    BY <1>3
  <2>2. b[i] = a[i] /\ a[i] \in Int
    BY <1>2, <2>1
  <2> QED
    BY <1>1, <2>1, <2>2
<1>4. CASE k < i
  <2>1. k \in 1 .. i - 1 /\ k \in 1 .. n
    BY <1>4
  <2>2. a[k] = b[k] /\ b[k] \in Int
    BY <1>1, <2>1
  <2> QED
    BY <1>2, <2>1, <2>2
<1>5. CASE i = k
  <2>1. a[i] \in Int /\ b[i] \in Int /\ a[i] < b[i] /\ b[i] < a[i]
    BY <1>1, <1>2, <1>5
  <2> QED
    BY <2>1
<1> QED
  BY <1>3, <1>4, <1>5

LEMMA LessToOrMore ==
  ASSUME NEW m \in Nat, NEW n \in Nat, NEW a \in [1 .. m -> Int], NEW b \in [1 .. n -> Int]
  PROVE  (m = n /\ a = b) \/ LessTo(a, m, b, n) \/ LessTo(b, n, a, m)
<1> DEFINE differ == {i \in Nat : i \in 1 .. m /\ i \in 1 .. n /\ a[i] # b[i]}
<1>1. CASE differ # {}
  <2>1. differ \subseteq Nat
    OBVIOUS
  <2> DEFINE i == Min(differ)
  <2>2. i \in differ /\ \A j \in differ : i <= j
    <3> HIDE DEF differ
    <3> QED
      BY <1>1, <2>1, FirstLine
  <2> HIDE DEF i
  <2>3. i \in 1 .. m /\ i \in 1 .. n /\ a[i] # b[i] /\ a[i] \in Int /\ b[i] \in Int
    BY <2>2
  <2>4. \A j \in 1 .. i - 1 : j <= m /\ j <= n /\ a[j] = b[j]
    <3> SUFFICES ASSUME NEW j \in 1 .. i - 1 PROVE j <= m /\ j <= n /\ a[j] = b[j]
      OBVIOUS
    <3>1. j \in Nat /\ j \in 1 .. m /\ j \in 1 .. n /\ ~(i <= j)
      BY <2>3
    <3> QED
      BY <2>2, <3>1
  <2>5. a[i] < b[i] \/ b[i] < a[i]
    BY <2>3
  <2> QED
    BY <2>3, <2>4, <2>5 DEF LessTo
<1>2. CASE differ = {}
  <2>1. \A i \in 1 .. m : i \in 1 .. n => a[i] = b[i]
    BY <1>2
  <2>2. CASE m = n
    BY <2>1, <2>2
  <2>3. CASE m < n
    <3>1. m + 1 \in 1 .. n /\ m + 1 > m /\ \A j \in 1 .. (m + 1) - 1 : j <= m /\ a[j] = b[j]
      BY <2>1, <2>3
    <3> QED
      BY <3>1 DEF LessTo
  <2>4. CASE n < m
    <3>1. n + 1 \in 1 .. m /\ n + 1 > n /\ \A j \in 1 .. (n + 1) - 1 : j <= n /\ b[j] = a[j]
      BY <2>1, <2>4
    <3> QED
      BY <3>1 DEF LessTo
  <2> QED
    BY <2>2, <2>3, <2>4
<1> QED
  BY <1>1, <1>2

LEMMA LessToOfLess ==
  ASSUME NEW m \in Nat, NEW n \in Nat, NEW l \in Nat,
         NEW a \in [1 .. m -> Int], NEW b \in [1 .. n -> Int], NEW c \in [1 .. l -> Int],
         LessTo(a, m, b, n), LessTo(b, n, c, l)
  PROVE  LessTo(a, m, c, l)
<1>1. PICK i \in 1 .. n : (\A j \in 1 .. i - 1 : j <= m /\ a[j] = b[j]) /\ (i > m \/ a[i] < b[i])
  BY DEF LessTo
<1>2. PICK k \in 1 .. l : (\A j \in 1 .. k - 1 : j <= n /\ b[j] = c[j]) /\ (k > n \/ b[k] < c[k])
  BY DEF LessTo
<1>3. CASE i < k
  <2>1. i \in 1 .. k - 1 /\ i \in 1 .. l
    BY <1>3
  <2>2. b[i] = c[i]
    BY <1>2, <2>1
  <2>3. i > m \/ a[i] < c[i]
    BY <1>1, <2>2
  <2>4. \A j \in 1 .. i - 1 : j <= m /\ a[j] = c[j]
    <3> SUFFICES ASSUME NEW j \in 1 .. i - 1 PROVE j <= m /\ a[j] = c[j]
      OBVIOUS
    <3>1. j \in 1 .. k - 1
      BY <1>3
    <3> QED
      BY <1>1, <1>2, <3>1
  <2> QED
    BY <2>1, <2>3, <2>4 DEF LessTo
<1>4. CASE k < i
  <2>1. k \in 1 .. i - 1
    BY <1>4
  <2>2. k <= m /\ a[k] = b[k] /\ ~(k > n)
    BY <1>1, <2>1
  <2>3. a[k] < c[k]
    BY <1>2, <2>2
  <2>4. \A j \in 1 .. k - 1 : j <= m /\ a[j] = c[j]
    <3> SUFFICES ASSUME NEW j \in 1 .. k - 1 PROVE j <= m /\ a[j] = c[j]
      OBVIOUS
    <3>1. j \in 1 .. i - 1
      BY <1>4
    <3> QED
      BY <1>1, <1>2, <3>1
  <2> QED
    BY <2>3, <2>4 DEF LessTo
<1>5. CASE i = k
  <2>1. b[i] \in Int /\ c[i] \in Int /\ b[i] < c[i]
    BY <1>2, <1>5
  <2>2. i > m \/ a[i] < c[i]
    <3>1. CASE i > m
      BY <3>1
    <3>2. CASE ~(i > m)
      <4>1. a[i] \in Int /\ a[i] < b[i]
        BY <1>1, <3>2
      <4> QED
        BY <2>1, <4>1
    <3> QED
      BY <3>1, <3>2
  <2>3. \A j \in 1 .. i - 1 : j <= m /\ a[j] = c[j]
    <3> SUFFICES ASSUME NEW j \in 1 .. i - 1 PROVE j <= m /\ a[j] = c[j]
      OBVIOUS
    <3> QED
      BY <1>1, <1>2, <1>5
  <2> QED
    BY <1>5, <2>2, <2>3 DEF LessTo
<1> QED
  BY <1>3, <1>4, <1>5

(* So Less is an order of names. *)
LEMMA LessIsOne ==
  ASSUME NEW a \in Seq(Int), NEW b \in Seq(Int), Less(a, b)
  PROVE  ~Less(b, a)
BY LessToIs, LessToIsOne

LEMMA LessOrMore ==
  ASSUME NEW a \in Seq(Int), NEW b \in Seq(Int), a # b
  PROVE  Less(a, b) \/ Less(b, a)
BY LessToIs, LessToOrMore

LEMMA LessOfLess ==
  ASSUME NEW a \in Seq(Int), NEW b \in Seq(Int), NEW c \in Seq(Int), Less(a, b), Less(b, c)
  PROVE  Less(a, c)
BY LessToIs, LessToOfLess

(* What is in order from each to the next is in order. *)
LEMMA OrderedThroughout ==
  ASSUME NEW n \in Nat, NEW k \in [1 .. n -> Seq(Int)],
         \A i \in 2 .. n : ~Less(k[i], k[i - 1])
  PROVE  \A i, j \in 1 .. n : i < j => ~Less(k[j], k[i])
<1> DEFINE Good == {m \in Nat : m <= n => \A i \in 1 .. m : ~Less(k[m], k[i])}
<1>1. ASSUME NEW m \in Nat, \A l \in Nat : l < m => l \in Good
      PROVE  m \in Good
  <2> SUFFICES ASSUME m <= n, NEW i \in 1 .. m, Less(k[m], k[i]) PROVE FALSE
    OBVIOUS
  <2>1. m \in 1 .. n /\ i \in 1 .. n /\ k[m] \in Seq(Int) /\ k[i] \in Seq(Int)
    OBVIOUS
  <2>2. i # m
    BY <2>1, LessIsOne
  <2>3. m \in 2 .. n /\ m - 1 \in Nat /\ m - 1 < m /\ m - 1 <= n /\ i \in 1 .. m - 1 /\ m - 1 \in 1 .. n
    BY <2>1, <2>2
  <2>4. ~Less(k[m], k[m - 1]) /\ k[m - 1] \in Seq(Int)
    BY <2>3
  <2>5. ~Less(k[m - 1], k[i])
    BY <1>1, <2>3
  <2>6. k[m - 1] = k[m] \/ Less(k[m - 1], k[m])
    BY <2>1, <2>4, LessOrMore
  <2> QED
    BY <2>1, <2>4, <2>5, <2>6, LessOfLess
<1>2. Nat \subseteq Good
  <2> HIDE DEF Good
  <2> QED
    BY <1>1, Induction
<1> QED
  BY <1>2

LEMMA SortKeyIs ==
  ASSUME NEW a \in Name
  PROVE  /\ SortKey(a) \in Seq(Int) /\ Lower(a) \in Seq(Int)
         /\ Len(a) \in Nat /\ Len(Lower(a)) = Len(a) /\ Len(SortKey(a)) = Len(a) + 1 + Len(a)
         /\ \A i \in 1 .. Len(a) : /\ Lower(a)[i] = IF a[i] < 0 THEN -a[i] ELSE a[i]
                                   /\ SortKey(a)[i] = Lower(a)[i] /\ SortKey(a)[i] >= 0
                                   /\ SortKey(a)[Len(a) + 1 + i] = IF a[i] < 0 THEN 1 ELSE 0
         /\ SortKey(a)[Len(a) + 1] = -1
<1> DEFINE n == Len(a)
           u == Lower(a)
           v == [i \in DOMAIN a |-> IF a[i] < 0 THEN 1 ELSE 0]
<1>1. n \in Nat /\ DOMAIN a = 1 .. n /\ \A i \in 1 .. n : a[i] \in Int
  BY DEF Name
<1>2. /\ u \in [1 .. n -> Int] /\ v \in [1 .. n -> Int]
      /\ \A i \in 1 .. n : u[i] = (IF a[i] < 0 THEN -a[i] ELSE a[i]) /\ u[i] >= 0
      /\ \A i \in 1 .. n : v[i] = IF a[i] < 0 THEN 1 ELSE 0
  BY <1>1 DEF Lower
<1>3. SortKey(a) = u \o <<-1>> \o v
  BY DEF SortKey
<1> HIDE DEF n, u, v
<1>4. u \in Seq(Int) /\ Len(u) = n /\ v \in Seq(Int) /\ Len(v) = n
  <2>1. u \in Seq(Int) /\ v \in Seq(Int)
    BY <1>1, <1>2, SeqDef
  <2>2. DOMAIN u = 1 .. Len(u) /\ DOMAIN v = 1 .. Len(v) /\ Len(u) \in Nat /\ Len(v) \in Nat
    BY <2>1
  <2> QED
    BY <1>1, <1>2, <2>1, <2>2
<1> DEFINE w == u \o <<-1>>
<1>5. w \in Seq(Int) /\ Len(w) = n + 1 /\ (\A i \in 1 .. n : w[i] = u[i]) /\ w[n + 1] = -1
  BY <1>1, <1>4
<1> HIDE DEF w
<1>6. /\ w \o v \in Seq(Int) /\ Len(w \o v) = n + 1 + n
      /\ \A i \in 1 .. n + 1 : (w \o v)[i] = w[i]
      /\ \A i \in 1 .. n : (w \o v)[n + 1 + i] = v[i]
  <2> DEFINE x == w \o v
             l == Len(w)
             k == Len(v)
  <2>1. l \in Nat /\ k \in Nat /\ l = n + 1 /\ k = n
    BY <1>1, <1>4, <1>5
  <2>2. x \in Seq(Int) /\ Len(x) = l + k /\ \A i \in 1 .. l + k : x[i] = IF i <= l THEN w[i] ELSE v[i - l]
    BY <1>4, <1>5, ConcatProperties, Zenon
  <2> HIDE DEF x, l, k
  <2>3. ASSUME NEW i \in 1 .. l PROVE x[i] = w[i]
    BY <2>1, <2>2
  <2>4. ASSUME NEW i \in 1 .. k PROVE x[l + i] = v[i]
    <3>1. PICK j \in 1 .. l + k : j = l + i /\ ~(j <= l)
      BY <2>1
    <3>2. x[j] = v[j - l]
      BY <2>2, <3>1
    <3>3. j - l = i
      BY <2>1, <3>1
    <3> QED
      BY <3>1, <3>2, <3>3, Zenon
  <2>5. x \in Seq(Int) /\ Len(x) = n + 1 + n
    BY <2>1, <2>2
  <2> QED
    BY <2>1, <2>3, <2>4, <2>5, Zenon DEF x
<1>7. SortKey(a) = w \o v
  BY <1>3 DEF w
<1>8. \A i \in 1 .. n : i \in 1 .. n + 1
  BY <1>1
<1>9. n + 1 \in 1 .. n + 1
  BY <1>1
<1> QED
  BY <1>1, <1>2, <1>4, <1>5, <1>6, <1>7, <1>8, <1>9 DEF n, u

-----------------------------------------------------------------------------
(* From the rules to the violations.  Each goroutine returns what its      *)
(* rules find; put together, those of a rule are still what its goroutine  *)
(* found.                                                                  *)

RulesOf(g) ==
  CASE g = "descriptions" -> {"require-description", "description-style"}
    [] g = "deprecation" -> {"require-deprecation-reason", "require-deprecation-date"}
    [] g = "hashtag" -> {"no-hashtag-description"}
    [] g = "typename" -> {"no-typename-prefix"}
    [] g = "naming" -> {"naming-convention"}
    [] g = "enumdup" -> {"no-case-insensitive-enum-values-duplicates"}
    [] g = "alphabetize" -> {"alphabetize"}
    [] g = "unreachable" -> {"no-unreachable-types"}
GapRules == {"unique-directive-names-per-location", "possible-type-extension"}

Returned(g, vs) ==
  /\ IF g = "unreachable" THEN Unreached(vs) ELSE Raises(RulesOf(g), vs)
  /\ g = "enumdup" => vs = Tier3EnumDuplicates
  /\ g = "alphabetize" => vs = Tier3Alphabetize

(* The violations of a rule at some positions. *)
FoundAt(vs, rule, at) == {i \in DOMAIN vs : vs[i].rule = rule /\ vs[i].pos \in at}
SameFound(vs, ws, rule) == \A at : Cardinality(FoundAt(vs, rule, at)) = Cardinality(FoundAt(ws, rule, at))

Counted(vs) ==
  /\ Enabled(config, "no-case-insensitive-enum-values-duplicates") =>
         SameFound(vs, Tier3EnumDuplicates, "no-case-insensitive-enum-values-duplicates")
  /\ Enabled(config, "alphabetize") => SameFound(vs, Tier3Alphabetize, "alphabetize")
  /\ SameFound(vs, GapFill, "unique-directive-names-per-location")

Reported(vs) ==
  /\ \A v \in ToSet(vs) : v.pos[1] \in 0 .. Len(sources)
  /\ Enabled(config, "no-unreachable-types") =>
         {Def(v.pos).name : v \in {v \in ToSet(vs) : v.rule = "no-unreachable-types"}}
             = WrittenNames \ ReachableTypeNames

LEMMA OutcomesAre ==
  ASSUME WellFormed, NEW g \in Groups, NEW r \in Outcomes(g)
  PROVE  Returned(g, r.violations)
<1> DEFINE Fine(v) == [error |-> "", violations |-> v]
           R == RulesOf(g)
<1>0. \A v : Fine(v).violations = v
  OBVIOUS
<1>1. CASE g = "descriptions"
  <2>1. Outcomes("descriptions") = {Tier3Descriptions}
    BY Zenon DEF Outcomes
  <2> HIDE DEF Fine
  <2>2. r.violations = Tier3Descriptions.violations
    BY <1>0, <1>1, <2>1
  <2>3. RulesOf(g) = {"require-description", "description-style"}
    BY <1>1, Zenon DEF RulesOf
  <2> HIDE DEF R
  <2>4. Raises(R, r.violations)
    BY <2>2, <2>3, DescriptionsAre DEF R
  <2> QED
    BY <1>1, <2>2, <2>4 DEF Returned, R
<1>2. CASE g = "deprecation"
  <2>1. Outcomes("deprecation") = {Fine(v) : v \in Tier3Deprecation}
    BY Zenon DEF Outcomes
  <2> HIDE DEF Fine
  <2>2. r.violations \in Tier3Deprecation
    BY <1>0, <1>2, <2>1
  <2>3. RulesOf(g) = {"require-deprecation-reason", "require-deprecation-date"}
    BY <1>2, Zenon DEF RulesOf
  <2> HIDE DEF R
  <2>4. Raises(R, r.violations)
    BY <2>2, <2>3, DeprecationIs DEF R
  <2> QED
    BY <1>2, <2>2, <2>4 DEF Returned, R
<1>3. CASE g = "hashtag"
  <2>1. Outcomes("hashtag") = {Fine(Tier3Hashtag)}
    BY Zenon DEF Outcomes
  <2> HIDE DEF Fine
  <2>2. r.violations = Tier3Hashtag
    BY <1>0, <1>3, <2>1
  <2>3. RulesOf(g) = {"no-hashtag-description"}
    BY <1>3, Zenon DEF RulesOf
  <2> HIDE DEF R
  <2>4. Raises(R, r.violations)
    BY <2>2, <2>3, HashtagIs DEF R
  <2> QED
    BY <1>3, <2>2, <2>4 DEF Returned, R
<1>4. CASE g = "typename"
  <2>1. Outcomes("typename") = {Fine(Tier3TypenamePrefix)}
    BY Zenon DEF Outcomes
  <2> HIDE DEF Fine
  <2>2. r.violations = Tier3TypenamePrefix
    BY <1>0, <1>4, <2>1
  <2>3. RulesOf(g) = {"no-typename-prefix"}
    BY <1>4, Zenon DEF RulesOf
  <2> HIDE DEF R
  <2>4. Raises(R, r.violations)
    BY <2>2, <2>3, TypenamePrefixIs DEF R
  <2> QED
    BY <1>4, <2>2, <2>4 DEF Returned, R
<1>5. CASE g = "naming"
  <2>1. Outcomes("naming") = {Fine(Tier3Naming)}
    BY Zenon DEF Outcomes
  <2> HIDE DEF Fine
  <2>2. r.violations = Tier3Naming
    BY <1>0, <1>5, <2>1
  <2>3. RulesOf(g) = {"naming-convention"}
    BY <1>5, Zenon DEF RulesOf
  <2> HIDE DEF R
  <2>4. Raises(R, r.violations)
    BY <2>2, <2>3, NamingIs DEF R
  <2> QED
    BY <1>5, <2>2, <2>4 DEF Returned, R
<1>6. CASE g = "enumdup"
  <2>1. Outcomes("enumdup") = {Fine(Tier3EnumDuplicates)}
    BY Zenon DEF Outcomes
  <2> HIDE DEF Fine
  <2>2. r.violations = Tier3EnumDuplicates
    BY <1>0, <1>6, <2>1
  <2>3. RulesOf(g) = {"no-case-insensitive-enum-values-duplicates"}
    BY <1>6, Zenon DEF RulesOf
  <2> HIDE DEF R
  <2>4. Raises(R, r.violations)
    BY <2>2, <2>3, EnumDuplicatesAre DEF R
  <2> QED
    BY <1>6, <2>2, <2>4 DEF Returned, R
<1>7. CASE g = "alphabetize"
  <2>1. Outcomes("alphabetize") = {Fine(Tier3Alphabetize)}
    BY Zenon DEF Outcomes
  <2> HIDE DEF Fine
  <2>2. r.violations = Tier3Alphabetize
    BY <1>0, <1>7, <2>1
  <2>3. RulesOf(g) = {"alphabetize"}
    BY <1>7, Zenon DEF RulesOf
  <2> HIDE DEF R
  <2>4. Raises(R, r.violations)
    BY <2>2, <2>3, AlphabetizeIs DEF R
  <2> QED
    BY <1>7, <2>2, <2>4 DEF Returned, R
<1>8. CASE g = "unreachable"
  <2>1. Outcomes("unreachable") = {Fine(Tier3Unreachable)}
    BY Zenon DEF Outcomes
  <2> HIDE DEF Fine
  <2>2. r.violations = Tier3Unreachable
    BY <1>0, <1>8, <2>1
  <2> QED
    BY <1>8, <2>2, UnreachableIs DEF Returned
<1> QED
  BY <1>1, <1>2, <1>3, <1>4, <1>5, <1>6, <1>7, <1>8 DEF Groups

LEMMA LaunchedAre == Launched \subseteq Groups
BY DEF Launched, Groups

(* The violations at some positions, as things of a set. *)
LEMMA FoundAreHits ==
  ASSUME NEW all, NEW vs, ToSet(vs) \subseteq ToSet(all), NEW rule, NEW at,
         NEW X, X = {v \in ToSet(all) : v.rule = rule /\ v.pos \in at}
  PROVE  FoundAt(vs, rule, at) = Hits(vs, X)
BY DEF FoundAt, Hits, ToSet

LEMMA Gathering ==
  ASSUME WellFormed, raised = GapFill, DOMAIN results = Launched,
         \A g \in Launched : Returned(g, results[g].violations),
         NEW order, IsSeq(order), ToSet(order) = Groups, \A g \in Groups : Cardinality(Hits(order, {g})) = 1
  PROVE  LET all == raised \o ForEach(Filter(order, LAMBDA g : g \in Launched), LAMBDA g : results[g].violations)
         IN  Reported(all) /\ Counted(all)
<1> DEFINE kept == [i \in DOMAIN order |-> When(order[i] \in Launched, order[i])]
           gs == FlattenSeq(kept)
           seqs == [i \in DOMAIN gs |-> results[gs[i]].violations]
           vs == FlattenSeq(seqs)
           U == "no-unreachable-types"
<1>0. Raises(GapRules, raised)
  BY GapFillIs DEF GapRules
<1>1. ForEach(Filter(order, LAMBDA g : g \in Launched), LAMBDA g : results[g].violations) = vs
  BY Zenon DEF Filter, ForEach
<1>2. IsSeq(gs) /\ ToSet(gs) = Launched /\ \A g \in Launched : Cardinality(Hits(gs, {g})) = 1
  <2>1. gs = Kept(Launched, order)
    BY DEF Kept
  <2> DEFINE T == Launched
  <2> HIDE DEF gs, T
  <2>2. IsSeq(Kept(T, order)) /\ ToSet(Kept(T, order)) = ToSet(order) \cap T
    BY KeptIs
  <2>3. ASSUME NEW g \in T PROVE Cardinality(Hits(Kept(T, order), {g})) = 1
    <3>1. Cardinality(Hits(Kept(T, order), {g})) = Cardinality(Hits(order, {g} \cap T))
      BY HitsKept
    <3>2. {g} \cap T = {g} /\ g \in Groups
      BY LaunchedAre DEF T
    <3> QED
      BY <3>1, <3>2
  <2> QED
    BY <2>1, <2>2, <2>3, LaunchedAre DEF T
<1> HIDE DEF gs
<1>3. \A i \in DOMAIN gs : gs[i] \in Launched /\ seqs[i] = results[gs[i]].violations
  BY <1>2 DEF ToSet
<1>4. DOMAIN seqs = DOMAIN gs /\ seqs = [i \in DOMAIN gs |-> seqs[i]]
  OBVIOUS
<1> HIDE DEF seqs
<1>5. \A i \in DOMAIN gs : /\ IsSeq(seqs[i])
                          /\ \A v \in ToSet(seqs[i]) : v.rule \in RulesOf(gs[i]) /\ v.pos[1] \in 0 .. Len(sources)
  <2> SUFFICES ASSUME NEW i \in DOMAIN gs
               PROVE  /\ IsSeq(seqs[i])
                      /\ \A v \in ToSet(seqs[i]) : v.rule \in RulesOf(gs[i]) /\ v.pos[1] \in 0 .. Len(sources)
    OBVIOUS
  <2>1. Returned(gs[i], seqs[i])
    BY <1>3
  <2>2. CASE gs[i] = "unreachable"
    <3>1. RulesOf("unreachable") = {U}
      BY Zenon DEF RulesOf
    <3> QED
      BY <2>1, <2>2, <3>1 DEF Returned, Unreached
  <2>3. CASE gs[i] # "unreachable"
    BY <2>1, <2>3 DEF Returned, Raises, IsRaised
  <2> QED
    BY <2>2, <2>3
<1>6. IsSeq(vs) /\ ToSet(vs) = UNION {ToSet(seqs[i]) : i \in DOMAIN gs}
  BY <1>2, <1>4, <1>5, FollowedBy
<1> DEFINE all == raised \o vs
<1>7. ToSet(all) = ToSet(raised) \cup UNION {ToSet(seqs[i]) : i \in DOMAIN gs}
  BY <1>0, <1>6, ConcatOf DEF Raises
<1>8. IsSeq(seqs)
  BY <1>2, <1>4, SeqIs, ListIs
<1>9. \A v \in ToSet(raised) : v.pos[1] \in 0 .. Len(sources) /\ v.rule \in GapRules
  BY <1>0 DEF Raises, IsRaised
(* Each rule is of one goroutine, or of the gap filling. *)
<1>10. \A g, h \in Groups : g # h => RulesOf(g) \cap RulesOf(h) = {}
  BY DEF Groups, RulesOf
<1>11. \A g \in Groups : RulesOf(g) \cap GapRules = {}
  BY DEF Groups, RulesOf, GapRules
<1>12. ASSUME NEW g \in Launched, NEW rule \in RulesOf(g)
       PROVE  SameFound(all, results[g].violations, rule)
  <2> SUFFICES ASSUME NEW at
               PROVE  Cardinality(FoundAt(all, rule, at)) = Cardinality(FoundAt(results[g].violations, rule, at))
    BY DEF SameFound
  <2> DEFINE X == {v \in ToSet(all) : v.rule = rule /\ v.pos \in at}
  <2>1. X = {v \in ToSet(all) : v.rule = rule /\ v.pos \in at}
    OBVIOUS
  <2> HIDE DEF X
  <2>2. PICK k \in DOMAIN gs : gs[k] = g
    BY <1>2 DEF ToSet
  <2> DEFINE c == Cardinality(Hits(seqs[k], X))
  <2>3. c \in Nat
    BY <1>5, HitsAre
  <2> HIDE DEF vs, all
  <2>4. ASSUME NEW i \in DOMAIN gs PROVE Cardinality(Hits(seqs[i], X)) = IF gs[i] = g THEN c ELSE 0
    <3>1. CASE gs[i] = g
      BY <1>3, <2>2, <3>1
    <3>2. CASE gs[i] # g
      <4>1. gs[i] \in Groups /\ g \in Groups
        BY <1>3, LaunchedAre
      <4>2. \A v \in ToSet(seqs[i]) : v \notin X
        BY <1>5, <1>10, <2>1, <3>2, <4>1
      <4> QED
        BY <3>2, <4>2, HitsOfNone
    <3> QED
      BY <3>1, <3>2
  <2> HIDE DEF c
  <2>5. Cardinality(Hits(vs, X)) = c
    <3>1. Cardinality(Hits(gs, {g})) = 1
      BY <1>2
    <3>2. vs = FlattenSeq(seqs)
      BY DEF vs
    <3>3. \A i \in DOMAIN gs : IsSeq(seqs[i])
      BY <1>5
    <3>4. IsSeq(gs) /\ IsSeq(seqs) /\ DOMAIN seqs = DOMAIN gs
      BY <1>2, <1>4, <1>8
    <3>5. \A i \in DOMAIN gs : Cardinality(Hits(seqs[i], X)) = IF gs[i] = g THEN c ELSE 0
      BY <2>4
    <3>6. Cardinality(Hits(FlattenSeq(seqs), X)) = c
      BY <2>3, <3>1, <3>3, <3>4, <3>5, HitsOfTheOne
    <3> QED
      BY <3>2, <3>6
  <2>6. Cardinality(Hits(raised, X)) = 0
    <3>1. \A v \in ToSet(raised) : v \notin X
      BY <1>9, <1>11, <2>1, LaunchedAre
    <3> QED
      BY <3>1, HitsOfNone
  <2>7. Cardinality(Hits(all, X)) = c
    BY <1>0, <1>6, <2>3, <2>5, <2>6, HitsOfBoth DEF all, Raises
  <2>8. FoundAt(all, rule, at) = Hits(all, X)
    BY <2>1, FoundAreHits
  <2>9. seqs[k] = results[g].violations /\ FoundAt(seqs[k], rule, at) = Hits(seqs[k], X)
    <3>1. ToSet(seqs[k]) \subseteq ToSet(all)
      BY <1>7 DEF all
    <3> QED
      BY <1>3, <2>1, <2>2, <3>1, FoundAreHits
  <2> QED
    BY <2>7, <2>8, <2>9 DEF c
<1>13. SameFound(all, GapFill, "unique-directive-names-per-location")
  <2> DEFINE rule == "unique-directive-names-per-location"
  <2> SUFFICES ASSUME NEW at
               PROVE  Cardinality(FoundAt(all, rule, at)) = Cardinality(FoundAt(raised, rule, at))
    BY DEF SameFound
  <2> DEFINE X == {v \in ToSet(all) : v.rule = rule /\ v.pos \in at}
  <2>1. X = {v \in ToSet(all) : v.rule = rule /\ v.pos \in at}
    OBVIOUS
  <2> HIDE DEF X
  <2>2. rule \in GapRules
    BY DEF GapRules
  <2> HIDE DEF vs, all, rule
  <2>3. \A v \in ToSet(vs) : v \notin X
    <3> SUFFICES ASSUME NEW v \in ToSet(vs) PROVE v \notin X
      OBVIOUS
    <3>1. PICK i \in DOMAIN gs : v \in ToSet(seqs[i])
      BY <1>6
    <3>2. v.rule \in RulesOf(gs[i]) /\ gs[i] \in Groups
      BY <1>3, <1>5, <3>1, LaunchedAre
    <3> QED
      BY <1>11, <2>1, <2>2, <3>2
  <2>4. Cardinality(Hits(vs, X)) = 0
    BY <2>3, HitsOfNone
  <2>5. Cardinality(Hits(raised, X)) \in Nat
    BY <1>0, HitsAre DEF Raises
  <2>6. Cardinality(Hits(all, X)) = Cardinality(Hits(raised, X))
    BY <1>0, <1>6, <2>4, <2>5, HitsOfBoth DEF all, Raises
  <2>7. FoundAt(all, rule, at) = Hits(all, X)
    BY <2>1, FoundAreHits
  <2>8. FoundAt(raised, rule, at) = Hits(raised, X)
    <3>1. ToSet(raised) \subseteq ToSet(all)
      BY <1>7 DEF all
    <3> QED
      BY <2>1, <3>1, FoundAreHits
  <2> QED
    BY <2>6, <2>7, <2>8
<1>14. ASSUME Enabled(config, "no-case-insensitive-enum-values-duplicates")
       PROVE  SameFound(all, Tier3EnumDuplicates, "no-case-insensitive-enum-values-duplicates")
  <2>1. "enumdup" \in Launched
    BY <1>14 DEF Launched, DefsGroup
  <2>2. results["enumdup"].violations = Tier3EnumDuplicates
    BY <2>1 DEF Returned
  <2>3. RulesOf("enumdup") = {"no-case-insensitive-enum-values-duplicates"}
    BY Zenon DEF RulesOf
  <2> HIDE DEF all
  <2> QED
    BY <1>12, <2>1, <2>2, <2>3
<1>15. ASSUME Enabled(config, "alphabetize")
       PROVE  SameFound(all, Tier3Alphabetize, "alphabetize")
  <2>1. "alphabetize" \in Launched
    BY <1>15 DEF Launched, DefsGroup
  <2>2. results["alphabetize"].violations = Tier3Alphabetize
    BY <2>1 DEF Returned
  <2>3. RulesOf("alphabetize") = {"alphabetize"}
    BY Zenon DEF RulesOf
  <2> HIDE DEF all
  <2> QED
    BY <1>12, <2>1, <2>2, <2>3
<1> HIDE DEF vs, all
<1>16. Counted(all)
  BY <1>13, <1>14, <1>15 DEF Counted
<1>17. ASSUME Enabled(config, U)
       PROVE  {Def(v.pos).name : v \in {v \in ToSet(all) : v.rule = U}} = WrittenNames \ ReachableTypeNames
  <2>1. "unreachable" \in Launched
    BY <1>17 DEF Launched
  <2>2. PICK k \in DOMAIN gs : gs[k] = "unreachable"
    BY <1>2, <2>1 DEF ToSet
  <2>3. seqs[k] = results["unreachable"].violations /\ Unreached(seqs[k])
    BY <1>3, <2>2 DEF Returned
  <2>4. \A i \in DOMAIN gs : gs[i] = "unreachable" => seqs[i] = seqs[k]
    BY <1>3, <2>2
  <2>5. RulesOf("unreachable") = {U}
    BY Zenon DEF RulesOf
  <2>6. \A i \in DOMAIN gs : \A v \in ToSet(seqs[i]) : v.rule = U <=> gs[i] = "unreachable"
    <3> SUFFICES ASSUME NEW i \in DOMAIN gs, NEW v \in ToSet(seqs[i])
                 PROVE  v.rule = U <=> gs[i] = "unreachable"
      OBVIOUS
    <3>1. v.rule \in RulesOf(gs[i]) /\ gs[i] \in Groups /\ "unreachable" \in Groups
      BY <1>3, <1>5, <2>1, LaunchedAre
    <3> QED
      BY <1>10, <2>5, <3>1
  <2>7. \A v \in ToSet(raised) : v.rule # U
    BY <1>9, <1>11, <2>1, <2>5, LaunchedAre
  <2>8. ASSUME NEW v PROVE v \in ToSet(all) /\ v.rule = U <=> v \in ToSet(seqs[k])
    <3>1. v \in ToSet(all) <=> v \in ToSet(raised) \/ \E i \in DOMAIN gs : v \in ToSet(seqs[i])
      BY <1>7 DEF all
    <3> QED
      BY <2>2, <2>4, <2>6, <2>7, <3>1
  <2>9. {v \in ToSet(all) : v.rule = U} = ToSet(seqs[k])
    BY <2>8
  <2>10. {Def(v.pos).name : v \in ToSet(seqs[k])} = WrittenNames \ ReachableTypeNames
    BY <1>17, <2>3 DEF Unreached
  <2> QED
    BY <2>9, <2>10
<1>18. \A v \in ToSet(all) : v.pos[1] \in 0 .. Len(sources)
  BY <1>5, <1>7, <1>9 DEF all
<1>19. Reported(all)
  BY <1>17, <1>18 DEF Reported
<1> QED
  BY <1>1, <1>16, <1>19 DEF all

(* Of the sources, once they are validated: no type is defined twice, and *)
(* the preludes extend nothing.                                           *)
Settled == Repeated(Definitions) = {} /\ Closed(DefsIn(ToSet(sources), TRUE))

LEMMA SchemaUnchanged ==
  ASSUME UNCHANGED sources
  PROVE  /\ Definitions' = Definitions /\ Extensions' = Extensions /\ Directives' = Directives
         /\ SchemaBlocks' = SchemaBlocks /\ SchemaExtensions' = SchemaExtensions
         /\ \A p : /\ Def(p)' = Def(p) /\ NodeAt(p)' = NodeAt(p) /\ InScope(p)' = InScope(p)
                   /\ Own(p)' = Own(p) /\ Arguments(p)' = Arguments(p)
<1>1. \A kinds, ext : Written(kinds, ext)' = Written(kinds, ext)
  BY DEF Written, Def, Filter, ForEach, When
<1>2. /\ Definitions' = Definitions /\ Extensions' = Extensions /\ Directives' = Directives
      /\ SchemaBlocks' = SchemaBlocks /\ SchemaExtensions' = SchemaExtensions
  BY <1>1 DEF Definitions, Extensions, Directives, SchemaBlocks, SchemaExtensions
<1>3. \A p : Def(p)' = Def(p) /\ InScope(p)' = InScope(p)
  BY DEF Def, InScope
<1>4. \A p : NodeAt(p)' = NodeAt(p) /\ Own(p)' = Own(p)
  BY <1>3 DEF NodeAt, Own
<1>5. \A p : Arguments(p)' = Arguments(p)
  BY <1>4 DEF Arguments
<1> QED
  BY <1>2, <1>3, <1>4, <1>5

LEMMA PartsUnchanged ==
  ASSUME UNCHANGED sources
  PROVE  /\ \A name : /\ Parts(name)' = Parts(name) /\ AppliedTo(name)' = AppliedTo(name)
                      /\ Repeatable(name)' = Repeatable(name)
         /\ \A p : Fields(p)' = Fields(p) /\ Based(p)' = Based(p)
         /\ AllDefinitions' = AllDefinitions /\ AppliedToSchema' = AppliedToSchema
<1>1. \A name : Parts(name)' = Parts(name)
  BY SchemaUnchanged DEF Parts, Filter, ForEach, When
<1>2. \A name : AppliedTo(name)' = AppliedTo(name)
  BY <1>1, SchemaUnchanged DEF AppliedTo, ForEach
<1>3. \A name : Repeatable(name)' = Repeatable(name)
  BY SchemaUnchanged DEF Repeatable
<1>4. \A p : Fields(p)' = Fields(p)
  BY <1>1, SchemaUnchanged DEF Fields, ForEach
<1>5. DefinedTypes' = DefinedTypes /\ \A p : Based(p)' = Based(p)
  BY SchemaUnchanged DEF DefinedTypes, Based
<1>6. AllDefinitions' = AllDefinitions
  BY <1>5, SchemaUnchanged DEF AllDefinitions, Filter, ForEach, When
<1>7. AppliedToSchema' = AppliedToSchema
  BY SchemaUnchanged DEF AppliedToSchema, ForEach
<1> QED
  BY <1>1, <1>2, <1>3, <1>4, <1>5, <1>6, <1>7

LEMMA ReportsUnchanged ==
  ASSUME UNCHANGED <<sources, config>>
  PROVE  /\ WellFormed' = WellFormed
         /\ Settled' = Settled
         /\ Launched' = Launched
         /\ GapFill' = GapFill
         /\ Tier3EnumDuplicates' = Tier3EnumDuplicates /\ Tier3Alphabetize' = Tier3Alphabetize
         /\ \A vs : Reported(vs)' = Reported(vs)
         /\ \A vs : Counted(vs)' = Counted(vs)
         /\ \A g, vs : Returned(g, vs)' = Returned(g, vs)
<1>1. ReachableTypeNames' = ReachableTypeNames
  BY DEF ReachableTypeNames, Collect, Starts, Roots, NamedRoots, AppliedToSchema, SchemaBlocks,
         SchemaExtensions, DefinedTypes, ExtendedTypes, RequestDirectives, Refs, Parts, AppliedTo, TypesOf, DirectivesOf,
         Own, Arguments, NodeAt, Definitions, Extensions, Directives, Def, Written, Filter, ForEach, When
<1>2. WrittenNames' = WrittenNames
  BY DEF WrittenNames, Definitions, Extensions, Directives, InScope, Def, Written, Filter, ForEach, When
<1>3. WellFormed' = WellFormed /\ (\A p : Def(p)' = Def(p)) /\ Launched' = Launched
  BY DEF WellFormed, Def, Launched, DefsGroup, DescGroup
<1>4. \A vs : Reported(vs)' = Reported(vs) /\ Unreached(vs)' = Unreached(vs)
  BY <1>1, <1>2 DEF Reported, Unreached, Def
<1>5. Settled' = Settled
  BY SchemaUnchanged DEF Settled, Repeated
<1>6. GapFill' = GapFill
  <2>1. \A p, dirs : NonRepeatableDuplicates(p, dirs)' = NonRepeatableDuplicates(p, dirs)
    BY PartsUnchanged DEF NonRepeatableDuplicates
  <2> QED
    BY <2>1, SchemaUnchanged, PartsUnchanged DEF GapFill, Filter, ForEach, When
<1>7. Tier3EnumDuplicates' = Tier3EnumDuplicates
  <2> DEFINE none == ""
             Values(p) == Filter(Fields(p), InScope)
             Again(values) ==
                 FlattenSeq([i \in DOMAIN values |->
                     When(\E j \in 1 .. i - 1 : Lower(NodeAt(values[j]).name) = Lower(NodeAt(values[i]).name),
                          Violation("no-case-insensitive-enum-values-duplicates", values[i], none))])
             Repeats(p) == Again(Values(p))
             enums == Filter(AllDefinitions, LAMBDA p : Def(p).kind = "Enum")
             on == Enabled(config, "no-case-insensitive-enum-values-duplicates")
  <2>1. Tier3EnumDuplicates = IF ~on THEN <<>> ELSE ForEach(enums, Repeats)
    BY Zenon DEF Tier3EnumDuplicates
  <2>2. Tier3EnumDuplicates' = (IF ~on THEN <<>> ELSE ForEach(enums, Repeats))'
    BY Zenon DEF Tier3EnumDuplicates
  <2> HIDE DEF none
  <2>3. \A p : Values(p)' = Values(p)
    BY SchemaUnchanged, PartsUnchanged DEF Filter, ForEach, When
  <2> HIDE DEF Values
  <2>4. none' = none
    BY DEF none
  <2>5. \A p : Repeats(p)' = Repeats(p)
    <3>1. ASSUME NEW values PROVE Again(values)' = Again(values)
      <4> DEFINE name(i) == NodeAt(values[i]).name
                 again(i) == \E j \in 1 .. i - 1 : Lower(name(j)) = Lower(name(i))
                 found(i) == When(again(i), Violation("no-case-insensitive-enum-values-duplicates", values[i], none))
      <4>1. \A i : name(i)' = name(i)
        BY SchemaUnchanged
      <4> HIDE DEF name
      <4>2. \A i : again(i)' = again(i)
        BY <4>1
      <4> HIDE DEF again
      <4>3. \A i : found(i)' = found(i)
        BY <2>4, <4>2
      <4> HIDE DEF found
      <4>4. Again(values) = FlattenSeq([i \in DOMAIN values |-> found(i)])
        BY DEF found, again, name
      <4>5. Again(values)' = FlattenSeq([i \in DOMAIN values |-> found(i)])'
        BY DEF found, again, name
      <4> QED
        BY <4>3, <4>4, <4>5
    <3> HIDE DEF Again
    <3> QED
      BY <2>3, <3>1
  <2>6. enums' = enums
    BY SchemaUnchanged, PartsUnchanged DEF Filter, ForEach, When
  <2>7. on' = on
    OBVIOUS
  <2> HIDE DEF Repeats, enums, on
  <2> QED
    BY <2>1, <2>2, <2>5, <2>6, <2>7 DEF ForEach
<1>8. Tier3Alphabetize' = Tier3Alphabetize
  <2>1. \A ps : CheckAlphaOrder(ps)' = CheckAlphaOrder(ps)
    BY SchemaUnchanged DEF CheckAlphaOrder, Filter, ForEach, When
  <2>2. \A p : Alphabetized(p)' = Alphabetized(p)
    <3> SUFFICES ASSUME NEW p PROVE Alphabetized(p)' = Alphabetized(p)
      OBVIOUS
    <3>1. \A q : Arguments(q)' = Arguments(q)
      BY SchemaUnchanged
    <3>2. Fields(p)' = Fields(p) /\ Def(p)' = Def(p)
      BY SchemaUnchanged, PartsUnchanged
    <3> QED
      BY <3>1, <3>2 DEF Alphabetized
  <2> QED
    BY <2>1, <2>2, SchemaUnchanged, PartsUnchanged DEF Tier3Alphabetize, ForEach
<1>9. \A vs : Counted(vs)' = Counted(vs)
  BY <1>6, <1>7, <1>8 DEF Counted
<1>10. \A g, vs : Returned(g, vs)' = Returned(g, vs)
  BY <1>4, <1>7, <1>8 DEF Returned, Raises, IsRaised
<1> QED
  BY <1>1, <1>2, <1>3, <1>4, <1>5, <1>6, <1>7, <1>8, <1>9, <1>10

(* What gqlparser objects to is somewhere in the sources. *)
LEMMA ComplaintsPlaced ==
  ASSUME WellFormed, NEW c \in Complaints
  PROVE  c.pos[1] \in DOMAIN sources
<1>1. \A p \in Everything : p[1] \in DOMAIN sources
  <2> SUFFICES ASSUME NEW p \in Everything PROVE p[1] \in DOMAIN sources
    OBVIOUS
  <2>1. PICK s \in DOMAIN sources : \E i, j, k : p = <<s, i, j, k>>
    BY EverythingIs
  <2> QED
    BY <2>1
<1>2. \A ps, q : q \in Repeated(ps) => q \in ToSet(ps)
  BY DEF Repeated, ToSet
<1>3. ASSUME NEW q \in Redeclarations PROVE q.pos[1] \in DOMAIN sources
  <2> DEFINE found == Repeated(Definitions) \cup Repeated(Directives) \cup Repeated(SchemaBlocks)
                      \cup UNION {Repeated(Fields(p)) : p \in ToSet(AllDefinitions)}
  <2>1. PICK p \in found : \E m, a : q = Complaint(m, p, a)
    BY DEF Redeclarations
  <2>2. \A t \in ToSet(Definitions) \cup ToSet(Directives) \cup ToSet(SchemaBlocks) : t[1] \in DOMAIN sources
    BY WrittenAre, PlaceIs DEF Places, Within1
  <2>3. \A d \in ToSet(AllDefinitions) : \A t \in ToSet(Fields(d)) : t[1] \in DOMAIN sources
    BY AllDefinitionsAre, FieldsAre, MemberIs DEF Places, Within1
  <2>4. p[1] \in DOMAIN sources
    BY <1>2, <2>2, <2>3
  <2> QED
    BY <2>1, <2>4 DEF Complaint
<1>4. ASSUME NEW q \in UndefinedTypes \cup UndefinedDirectives PROVE q.pos[1] \in DOMAIN sources
  <2>1. PICK p \in Everything : \E m, a : q = Complaint(m, p, a)
    BY DEF UndefinedTypes, UndefinedDirectives
  <2> QED
    BY <1>1, <2>1 DEF Complaint
<1> QED
  BY <1>3, <1>4 DEF Complaints

LEMMA RefusedPlaced ==
  ASSUME NEW complaints, Refuse(complaints), UNCHANGED sources, IsSeq(sources),
         \A c \in complaints : c.pos[1] \in DOMAIN sources
  PROVE  pc' = "refused" /\ UNCHANGED config /\ \A v \in ToSet(raised') : v.pos[1] \in 0 .. Len(sources')
<1>1. PICK c \in complaints : raised' = <<Tier1Violation(c)>>
  BY DEF Refuse
<1>2. Tier1Violation(c).pos[1] \in DOMAIN sources
  BY <1>1 DEF Tier1Violation, Violation
<1>3. Len(sources) \in Nat /\ DOMAIN sources = 1 .. Len(sources)
  BY SeqIs
<1>4. ToSet(raised') = {Tier1Violation(c)}
  BY <1>1, OneIs
<1> QED
  BY <1>2, <1>3, <1>4 DEF Refuse, Go

Placed == \A v \in ToSet(raised) : v.pos[1] \in 0 .. Len(sources)

Reporting ==
  /\ pc \in {"gapfill", "tier3", "done"} => WellFormed /\ Settled
  /\ pc \notin {"tier3", "done", "error", "refused"} => raised = <<>>
  /\ pc \notin {"tier3", "done", "error"} => DOMAIN results = {}
  /\ DOMAIN results \subseteq Launched
  /\ Placed
  /\ pc = "tier3" => raised = GapFill /\ \A g \in DOMAIN results : Returned(g, results[g].violations)
  /\ pc = "done" => Reported(raised) /\ Counted(raised)

LEMMA ReportingInit == Init => Reporting
<1> SUFFICES ASSUME Init PROVE Reporting
  OBVIOUS
<1>1. /\ raised = <<>> /\ DOMAIN results = {}
      /\ pc \in {"discover", "load"}
  BY Zenon DEF Init, InitConfig
<1>2. Placed
  BY <1>1, NothingIs DEF Placed
<1> QED
  BY <1>1, <1>2 DEF Reporting

(* Of the run up to the files, and of the refusals. *)
LEMMA ReportingNothing ==
  ASSUME raised' = <<>>, DOMAIN results' = {},
         pc' \notin {"gapfill", "tier3", "done"}
  PROVE  Reporting'
<1>1. Placed'
  BY NothingIs DEF Placed
<1> QED
  BY <1>1 DEF Reporting

LEMMA ReportingRefusal ==
  ASSUME NEW complaints, Refuse(complaints), UNCHANGED <<sources, results>>, IsSeq(sources),
         \A c \in complaints : c.pos[1] \in DOMAIN sources, DOMAIN results = {}
  PROVE  Reporting'
<1>1. pc' = "refused" /\ \A v \in ToSet(raised') : v.pos[1] \in 0 .. Len(sources')
  BY RefusedPlaced
<1>2. Placed'
  BY <1>1 DEF Placed
<1> QED
  BY <1>1, <1>2 DEF Reporting

LEMMA ReportingStep ==
  Locating /\ Importing /\ Reporting /\ [Next]_vars => Reporting'
<1> SUFFICES ASSUME Locating, Importing, Reporting, [Next]_vars PROVE Reporting'
  OBVIOUS
<1>1. CASE Configure
  <2>1. /\ pc' \in {"discover", "load", "find", "prelude", "error"}
        /\ pc \in {"discover", "load", "find"}
        /\ UNCHANGED <<results, raised>>
    BY <1>1 DEF Configure, Discover, LoadFile, Find, ruleVars
  <2>2. raised' = <<>> /\ DOMAIN results' = {}
    BY <2>1 DEF Reporting
  <2> QED
    BY <2>1, <2>2, ReportingNothing
<1>2. CASE ReadFiles
  <2>1. /\ pc = "prelude" /\ pc' = "federation"
        /\ UNCHANGED <<results, raised>>
    BY <1>2 DEF ReadFiles, Go
  <2>2. raised' = <<>> /\ DOMAIN results' = {}
    BY <2>1 DEF Reporting
  <2> QED
    BY <2>1, <2>2, ReportingNothing
<1>3. CASE AddPreludes
  <2>1. pc = "federation" /\ UNCHANGED results /\ WellFormed
    BY <1>3 DEF AddPreludes, Importing, NoPreludes
  <2>2. raised = <<>> /\ DOMAIN results = {} /\ IsSeq(sources)
    BY <2>1 DEF Reporting, WellFormed
  <2>3. CASE /\ UNCHANGED raised
             /\ pc' \in {"error", "validate"}
    <3>1. raised' = <<>> /\ DOMAIN results' = {}
      BY <2>1, <2>2, <2>3
    <3> QED
      BY <2>3, <3>1, ReportingNothing
  <2>4. CASE \E broken : broken \subseteq DOMAIN sources /\ Refuse(SyntaxErrors(broken)) /\ UNCHANGED sources
    <3>1. PICK broken : broken \subseteq DOMAIN sources /\ Refuse(SyntaxErrors(broken)) /\ UNCHANGED sources
      BY <2>4
    <3> DEFINE complaints == SyntaxErrors(broken)
    <3>2. \A c \in complaints : c.pos[1] \in DOMAIN sources
      BY <3>1 DEF SyntaxErrors, Complaint
    <3> HIDE DEF complaints
    <3>3. Refuse(complaints)
      BY <3>1 DEF complaints
    <3> QED
      BY <2>1, <2>2, <3>1, <3>2, <3>3, ReportingRefusal
  <2> QED
    BY <1>3, <2>3, <2>4, Zenon DEF AddPreludes, GiveUp, Go
<1>4. CASE Validate
  <2> DEFINE broken == {s \in DOMAIN sources : sources[s].broken}
             complaints == IF broken # {} THEN SyntaxErrors(broken) ELSE Complaints
  <2>1. /\ pc = "validate" /\ WellFormed /\ IsSeq(sources) /\ UNCHANGED <<sources, results>>
        /\ Closed(DefsIn(ToSet(sources), TRUE))
    BY <1>4 DEF Validate, Importing, Completed, WellFormed
  <2>2. raised = <<>> /\ DOMAIN results = {} /\ DOMAIN results \subseteq Launched
    BY <2>1 DEF Reporting
  <2>3. \A c \in SyntaxErrors(broken) : c.pos[1] \in DOMAIN sources
    BY DEF SyntaxErrors, Complaint
  <2>4. \A c \in complaints : c.pos[1] \in DOMAIN sources
    BY <2>1, <2>3, ComplaintsPlaced
  <2>5. \/ Refuse(complaints)
        \/ complaints = {} /\ Go("gapfill") /\ UNCHANGED raised
    BY <1>4 DEF Validate
  <2>8. complaints = {} => Settled
    <3> SUFFICES ASSUME complaints = {}, NEW p \in Repeated(Definitions) PROVE FALSE
      BY <2>1 DEF Settled
    <3>1. CASE broken # {}
      <4>1. PICK s \in broken : TRUE
        BY <3>1
      <4>2. Complaint("Unexpected", <<s, 0, 0, 0>>, <<>>) \in SyntaxErrors(broken)
        BY <4>1 DEF SyntaxErrors
      <4> QED
        BY <3>1, <4>2
    <3>2. CASE broken = {}
      <4>1. Complaint(TypeAgain, p, Def(p).name) \in Redeclarations
        BY DEF Redeclarations
      <4> QED
        BY <3>2, <4>1 DEF Complaints
    <3> QED
      BY <3>1, <3>2
  <2> HIDE DEF complaints
  <2>6. CASE Refuse(complaints)
    BY <2>1, <2>2, <2>4, <2>6, ReportingRefusal
  <2>7. CASE complaints = {} /\ Go("gapfill") /\ UNCHANGED raised
    <3>1. pc' = "gapfill" /\ raised' = <<>> /\ DOMAIN results' = {} /\ UNCHANGED <<sources, config>>
      BY <2>1, <2>2, <2>7 DEF Go
    <3>2. WellFormed' /\ Settled' /\ Placed'
      BY <2>1, <2>7, <2>8, <3>1, NothingIs, ReportsUnchanged DEF Placed
    <3> QED
      BY <3>1, <3>2 DEF Reporting
  <2> QED
    BY <2>5, <2>6, <2>7
<1>5. CASE FillGaps
  <2>1. /\ pc = "gapfill" /\ pc' = "tier3" /\ raised' = GapFill /\ UNCHANGED <<sources, config, results>>
    BY <1>5 DEF FillGaps, Go
  <2>2. WellFormed /\ Settled /\ DOMAIN results = {}
    BY <2>1 DEF Reporting
  <2>3. \A v \in ToSet(raised') : v.pos[1] \in 0 .. Len(sources)
    BY <2>1, <2>2, GapFillIs DEF Raises, IsRaised
  <2>4. WellFormed' /\ Settled' /\ raised' = GapFill' /\ Placed'
    BY <2>1, <2>2, <2>3, ReportsUnchanged DEF Placed
  <2> QED
    BY <2>1, <2>2, <2>4 DEF Reporting
<1>6. ASSUME NEW g \in Groups, Finish(g) PROVE Reporting'
  <2>1. /\ pc = "tier3" /\ pc' = "tier3" /\ g \in Launched \ DOMAIN results
        /\ UNCHANGED <<sources, config, raised>>
    BY <1>6 DEF Finish, configVars
  <2>2. PICK r \in Outcomes(g) : results' = [h \in DOMAIN results \cup {g} |-> IF h = g THEN r ELSE results[h]]
    BY <1>6 DEF Finish
  <2>3. /\ WellFormed /\ Settled /\ DOMAIN results \subseteq Launched /\ raised = GapFill /\ Placed
        /\ \A h \in DOMAIN results : Returned(h, results[h].violations)
    BY <2>1 DEF Reporting
  <2>4. /\ DOMAIN results' = DOMAIN results \cup {g} /\ results'[g] = r
        /\ \A h \in DOMAIN results : results'[h] = results[h]
    BY <2>1, <2>2
  <2>5. Returned(g, r.violations)
    BY <2>3, OutcomesAre
  <2>6. \A h \in DOMAIN results' : Returned(h, results'[h].violations)
    BY <2>3, <2>4, <2>5
  <2>7. \A h \in DOMAIN results' : Returned(h, results[h].violations)'
    <3> SUFFICES ASSUME NEW h \in DOMAIN results' PROVE Returned(h, results[h].violations)'
      OBVIOUS
    <3>1. PICK vs : vs = results'[h].violations
      OBVIOUS
    <3>2. Returned(h, vs)'
      BY <2>1, <2>6, <3>1, ReportsUnchanged
    <3> QED
      BY <3>1, <3>2 DEF Returned, Unreached, Raises
  <2>8. Launched' = Launched /\ WellFormed' /\ Settled' /\ raised' = GapFill' /\ Placed'
    BY <2>1, <2>3, ReportsUnchanged DEF Placed
  <2> QED
    BY <2>1, <2>3, <2>4, <2>7, <2>8 DEF Reporting
<1>7. CASE Gather
  <2> DEFINE order == <<"descriptions", "deprecation", "hashtag", "typename", "naming", "enumdup",
                        "alphabetize", "unreachable">>
             vs == raised \o ForEach(Filter(order, LAMBDA g : g \in Launched), LAMBDA g : results[g].violations)
  <2>1. /\ pc = "tier3" /\ DOMAIN results = Launched /\ UNCHANGED <<sources, config, results>>
        /\ \/ pc' = "error" /\ raised' = raised
           \/ pc' = "done" /\ raised' = vs
    BY <1>7, Zenon DEF Gather, Go, GiveUp
  <2>2. /\ WellFormed /\ Settled /\ raised = GapFill /\ Placed
        /\ \A g \in Launched : Returned(g, results[g].violations)
    BY <2>1 DEF Reporting
  <2>3. IsSeq(order) /\ ToSet(order) = Groups /\ \A g \in Groups : Cardinality(Hits(order, {g})) = 1
    <3>1. order \in Seq(Groups) /\ DOMAIN order = 1 .. 8
      BY DEF Groups
    <3>2. ToSet(order) = Groups
      BY <3>1 DEF ToSet, Groups
    <3>3. ASSUME NEW i \in 1 .. 8 PROVE Hits(order, {order[i]}) = {i}
      <4>1. \A j \in 1 .. 8 : order[j] = order[i] => j = i
        OBVIOUS
      <4> HIDE DEF order
      <4> QED
        BY <3>1, <4>1 DEF Hits
    <3>4. \A g \in Groups : \E i \in 1 .. 8 : g = order[i]
      BY <3>1, <3>2 DEF ToSet
    <3> HIDE DEF order
    <3>5. ASSUME NEW g \in Groups PROVE Cardinality(Hits(order, {g})) = 1
      <4>1. PICK i \in 1 .. 8 : g = order[i]
        BY <3>4
      <4>2. Hits(order, {g}) = {i}
        BY <3>3, <4>1
      <4> QED
        BY <4>2, FS_Singleton
    <3> QED
      BY <3>1, <3>2, <3>5 DEF IsSeq
  <2> HIDE DEF order
  <2>4. Reported(vs) /\ Counted(vs)
    BY <2>1, <2>2, <2>3, Gathering
  <2> HIDE DEF vs
  <2>5. WellFormed' /\ Settled' /\ Launched' = Launched
    BY <2>1, <2>2, ReportsUnchanged
  <2>6. CASE pc' = "error" /\ raised' = raised
    <3>1. Placed'
      BY <2>1, <2>2, <2>6 DEF Placed
    <3> QED
      BY <2>1, <2>5, <2>6, <3>1 DEF Reporting
  <2>7. CASE pc' = "done" /\ raised' = vs
    <3>1. PICK all : all = vs
      OBVIOUS
    <3>2. Reported(all)' /\ all = raised'
      BY <2>1, <2>4, <2>7, <3>1, ReportsUnchanged
    <3>3. Reported(raised)' /\ Placed'
      BY <3>2 DEF Reported, Placed
    <3>4. Counted(raised)'
      BY <2>1, <2>4, <2>7, ReportsUnchanged DEF Counted
    <3> QED
      BY <2>1, <2>5, <2>7, <3>3, <3>4 DEF Reporting
  <2> QED
    BY <2>1, <2>6, <2>7
<1>8. CASE UNCHANGED vars
  <2>1. UNCHANGED <<pc, sources, config, raised, results>>
    BY <1>8 DEF vars, configVars, ruleVars
  <2>2. Reported(raised)' = Reported(raised) /\ Placed' = Placed
    BY <2>1, ReportsUnchanged DEF Reported, Placed
  <2>4. Counted(raised)' = Counted(raised) /\ GapFill' = GapFill
    BY <2>1, ReportsUnchanged DEF Counted
  <2>3. \A g \in DOMAIN results : Returned(g, results[g].violations)' = Returned(g, results[g].violations)
    BY <2>1, ReportsUnchanged DEF Returned
  <2> QED
    BY <2>1, <2>2, <2>3, <2>4, ReportsUnchanged DEF Reporting
<1> QED
  BY <1>1, <1>2, <1>3, <1>4, <1>5, <1>6, <1>7, <1>8 DEF Next

LEMMA ReportsAreExact ==
  ASSUME WellFormed, Reported(raised)
  PROVE  pc = "done" => ReachesExactly
<1> DEFINE U == "no-unreachable-types"
           reported == {Def(raised[i].pos).name : i \in {i \in DOMAIN raised : raised[i].rule = U}}
           Closed1(S) == /\ ToSet(Starts) \cap Declared \subseteq S
                         /\ \A n \in S : Refs(n) \cap Declared \subseteq S
           reached == {n \in Declared : \A S \in SUBSET Declared : Closed1(S) => n \in S}
<1>1. ReachesExactly <=>
          (pc = "done" /\ Enabled(config, U) => reported = WrittenNames \ (reached \cup RequestDirectives))
  BY Zenon DEF ReachesExactly, Declared, WrittenNames
<1>2. ReachableTypeNames \cap Declared = (reached \cup RequestDirectives) \cap Declared
  BY ReachedIs
<1>3. WrittenNames \subseteq Declared
  <2>1. Places(Definitions \o Extensions) /\ ToSet(Definitions \o Extensions) = ToSet(Definitions) \cup ToSet(Extensions)
    BY WrittenAre, PlacesOfBoth
  <2>2. ToSet(Definitions \o Extensions \o Directives)
            = ToSet(Definitions) \cup ToSet(Extensions) \cup ToSet(Directives)
    BY <2>1, WrittenAre, PlacesOfBoth
  <2> QED
    BY <2>2 DEF WrittenNames, Declared, DefinedTypes, ExtendedTypes, DeclaredDirectives
<1> HIDE DEF reached
<1>4. WrittenNames \ ReachableTypeNames = WrittenNames \ (reached \cup RequestDirectives)
  BY <1>2, <1>3
<1>5. reported = {Def(v.pos).name : v \in {v \in ToSet(raised) : v.rule = U}}
  BY DEF ToSet
<1> HIDE DEF reported
<1> QED
  BY <1>1, <1>4, <1>5 DEF Reported

(***************************************************************************)
(* Whatever the schema, no-unreachable-types reports exactly the           *)
(* definitions, extensions and directives of the files outside the least   *)
(* set that has the root types and the schema's directives and what its    *)
(* members lead to, but for the directives usable in a request -- although *)
(* collect goes through the names one by one and the eight goroutines of   *)
(* tier3 end in any order (reachableTypeNames, tier3).                     *)
(***************************************************************************)
THEOREM ReachesExactlyHolds == Spec => []ReachesExactly
<1>1. Init => Locating /\ Importing /\ Reporting
  <2>1. Init => Locating
    BY LocatingInit DEF Init
  <2>2. Init => Importing
    BY Zenon DEF Init, InitConfig, Importing
  <2> QED
    BY <2>1, <2>2, ReportingInit
<1>2. Locating /\ Importing /\ Reporting /\ [Next]_vars => (Locating /\ Importing /\ Reporting)'
  BY LocatingStep, ImportingStep, ReportingStep
<1>3. Reporting => ReachesExactly
  <2>1. Reporting /\ pc = "done" => ReachesExactly
    BY ReportsAreExact DEF Reporting
  <2>2. pc # "done" => ReachesExactly
    BY Zenon DEF ReachesExactly
  <2> QED
    BY <2>1, <2>2
<1> QED
  BY <1>1, <1>2, <1>3, PTL DEF Spec

-----------------------------------------------------------------------------
(* A type and its extensions.  The order of the names is that of their     *)
(* sort keys.                                                              *)

LEMMA LessAt ==
  ASSUME NEW a \in Seq(Int), NEW b \in Seq(Int), NEW i \in 1 .. Len(b),
         \A j \in 1 .. i - 1 : j <= Len(a) /\ a[j] = b[j], i > Len(a) \/ a[i] < b[i]
  PROVE  Less(a, b)
BY DEF Less

(* The keys are in the order of the letters. *)
LEMMA KeysByLetter ==
  ASSUME NEW a \in Name, NEW b \in Name, Less(Lower(a), Lower(b))
  PROVE  Less(SortKey(a), SortKey(b))
<1> DEFINE u == Lower(a)
           v == Lower(b)
           k == SortKey(a)
           l == SortKey(b)
           m == Len(a)
           n == Len(b)
<1>1. /\ u \in Seq(Int) /\ v \in Seq(Int) /\ k \in Seq(Int) /\ l \in Seq(Int) /\ m \in Nat /\ n \in Nat
      /\ Len(u) = m /\ Len(v) = n /\ Len(k) = m + 1 + m /\ Len(l) = n + 1 + n
      /\ \A j \in 1 .. m : k[j] = u[j]
      /\ \A j \in 1 .. n : l[j] = v[j] /\ l[j] >= 0
      /\ k[m + 1] = -1
  BY SortKeyIs
<1>2. PICK i \in 1 .. n : /\ \A j \in 1 .. i - 1 : j <= m /\ u[j] = v[j]
                          /\ i > m \/ u[i] < v[i]
  BY <1>1 DEF Less
<1>3. i \in 1 .. Len(l)
  BY <1>1
<1> HIDE DEF u, v, k, l, m, n
<1>0. m \in Nat /\ n \in Nat
  BY <1>1
<1>8. ASSUME NEW j \in 1 .. i - 1 PROVE j <= m
  BY <1>2, Zenon
<1>4. i <= m + 1
  <2> SUFFICES ASSUME i > m + 1 PROVE FALSE
    BY <1>0
  <2>1. m + 1 \in 1 .. i - 1
    BY <1>0
  <2>2. m + 1 <= m
    BY <1>8, <2>1
  <2> QED
    BY <1>0, <2>2
<1>5. k[i] < l[i]
  <2>1. CASE i <= m
    <3>1. i \in 1 .. m /\ i \in 1 .. n
      BY <1>1, <2>1
    <3> QED
      BY <1>1, <1>2, <2>1, <3>1
  <2>2. CASE i = m + 1
    <3>1. k[i] = -1 /\ l[i] >= 0
      BY <1>1, <2>2
    <3>2. l[i] = v[i] /\ v[i] \in Int
      BY <1>1
    <3> QED
      BY <3>1, <3>2
  <2> QED
    BY <1>1, <1>4, <2>1, <2>2
<1>6. ASSUME NEW j \in 1 .. i - 1 PROVE j <= Len(k) /\ k[j] = l[j]
  <2>1. u[j] = v[j]
    BY <1>2, Zenon
  <2>2. j \in 1 .. m /\ j \in 1 .. n
    BY <1>0, <1>8
  <2>3. k[j] = u[j] /\ l[j] = v[j]
    BY <1>1, <2>2
  <2>4. j <= m + 1 + m
    BY <1>0, <2>2
  <2> QED
    BY <1>1, <2>1, <2>3, <2>4
<1>7. Less(k, l)
  BY <1>1, <1>3, <1>5, <1>6, LessAt
<1> QED
  BY <1>7 DEF k, l

(* Of two names of the same letters, the keys are in the order of the first *)
(* difference.                                                              *)
LEMMA KeysByCase ==
  ASSUME NEW a \in Name, NEW b \in Name, Lower(a) = Lower(b),
         NEW i \in 1 .. Len(a), a[i] # b[i], \A j \in 1 .. i - 1 : a[j] = b[j], a[i] > 0
  PROVE  Less(SortKey(a), SortKey(b))
<1> DEFINE u == Lower(a)
           k == SortKey(a)
           l == SortKey(b)
           n == Len(a)
<1>1. /\ k \in Seq(Int) /\ l \in Seq(Int) /\ n \in Nat
      /\ Len(b) = n /\ Len(k) = n + 1 + n /\ Len(l) = n + 1 + n
      /\ \A j \in 1 .. n : /\ k[j] = u[j] /\ l[j] = u[j]
                          /\ u[j] = (IF a[j] < 0 THEN -a[j] ELSE a[j])
                          /\ u[j] = (IF b[j] < 0 THEN -b[j] ELSE b[j])
                          /\ k[n + 1 + j] = (IF a[j] < 0 THEN 1 ELSE 0)
                          /\ l[n + 1 + j] = (IF b[j] < 0 THEN 1 ELSE 0)
      /\ k[n + 1] = -1 /\ l[n + 1] = -1
  <2> DEFINE v == Lower(b)
             m == Len(b)
  <2>1. /\ k \in Seq(Int) /\ n \in Nat /\ Len(k) = n + 1 + n /\ Len(u) = n
        /\ \A j \in 1 .. n : /\ u[j] = (IF a[j] < 0 THEN -a[j] ELSE a[j])
                            /\ k[j] = u[j] /\ k[n + 1 + j] = (IF a[j] < 0 THEN 1 ELSE 0)
        /\ k[n + 1] = -1
    BY SortKeyIs
  <2>2. /\ l \in Seq(Int) /\ Len(l) = m + 1 + m /\ Len(v) = m
        /\ \A j \in 1 .. m : /\ v[j] = (IF b[j] < 0 THEN -b[j] ELSE b[j])
                            /\ l[j] = v[j] /\ l[m + 1 + j] = (IF b[j] < 0 THEN 1 ELSE 0)
        /\ l[m + 1] = -1
    BY SortKeyIs
  <2>3. u = v
    OBVIOUS
  <2> HIDE DEF u, v, k, l, n, m
  <2>4. m = n
    BY <2>1, <2>2, <2>3
  <2> QED
    BY <2>1, <2>2, <2>3, <2>4, Zenon DEF m
<1>2. \A j \in 1 .. n : a[j] \in Int /\ b[j] \in Int
  <2>1. a \in Seq(Int) /\ b \in Seq(Int) /\ Len(b) = n
    BY <1>1 DEF Name
  <2> QED
    BY <2>1
<1>3. i \in 1 .. n
  OBVIOUS
<1> HIDE DEF u, k, l, n
<1>0. n \in Nat
  BY <1>1
<1>4. b[i] < 0
  <2>1. a[i] = u[i] /\ u[i] = (IF b[i] < 0 THEN -b[i] ELSE b[i])
    <3>1. u[i] = (IF a[i] < 0 THEN -a[i] ELSE a[i])
      BY <1>1, <1>3
    <3>2. a[i] \in Int
      BY <1>2, <1>3
    <3>3. u[i] = (IF b[i] < 0 THEN -b[i] ELSE b[i])
      BY <1>1, <1>3
    <3> QED
      BY <3>1, <3>2, <3>3
  <2>2. b[i] \in Int /\ a[i] \in Int
    BY <1>2, <1>3
  <2> QED
    BY <2>1, <2>2
<1> DEFINE t == n + 1 + i
<1>5. t \in 1 .. Len(l) /\ k[t] = 0 /\ l[t] = 1
  <2>1. k[n + 1 + i] = 0 /\ l[n + 1 + i] = 1
    <3>1. /\ k[n + 1 + i] = (IF a[i] < 0 THEN 1 ELSE 0)
          /\ l[n + 1 + i] = (IF b[i] < 0 THEN 1 ELSE 0)
      BY <1>1, <1>3
    <3>2. ~(a[i] < 0)
      BY <1>2, <1>3
    <3> QED
      BY <1>4, <3>1, <3>2
  <2>2. t \in 1 .. n + 1 + n
    BY <1>0, <1>3
  <2> QED
    BY <1>1, <2>1, <2>2
<1>6. ASSUME NEW j \in 1 .. t - 1 PROVE j <= Len(k) /\ k[j] = l[j]
  <2>1. CASE j <= n
    <3>1. j \in 1 .. n
      BY <1>1, <1>3, <2>1
    <3> QED
      BY <1>1, <3>1
  <2>2. CASE j = n + 1
    BY <1>1, <2>2
  <2>3. CASE j > n + 1
    <3>1. PICK e \in 1 .. i - 1 : j = n + 1 + e
      <4>1. j - n - 1 \in 1 .. i - 1 /\ j = n + 1 + (j - n - 1)
        BY <1>1, <1>3, <2>3
      <4> QED
        BY <4>1
    <3>2. e \in 1 .. n /\ a[e] = b[e]
      BY <1>1, <1>3
    <3>3. k[n + 1 + e] = l[n + 1 + e]
      BY <1>1, <3>2
    <3> QED
      BY <1>1, <1>3, <3>1, <3>2, <3>3
  <2> QED
    BY <1>1, <1>3, <2>1, <2>2, <2>3
<1>7. k[t] < l[t]
  BY <1>5
<1> HIDE DEF t
<1>8. Less(k, l)
  BY <1>1, <1>5, <1>6, <1>7, LessAt
<1> QED
  BY <1>8 DEF k, l

(* localeCompare is the order of the keys. *)
LEMMA LocaleCompareIs ==
  ASSUME NEW a \in Name, NEW b \in Name
  PROVE  LocaleCompare(a, b) = 1 <=> Less(SortKey(b), SortKey(a))
<1>1. /\ SortKey(a) \in Seq(Int) /\ SortKey(b) \in Seq(Int)
      /\ Lower(a) \in Seq(Int) /\ Lower(b) \in Seq(Int)
      /\ Len(a) \in Nat /\ Len(b) \in Nat
      /\ Len(Lower(a)) = Len(a) /\ Len(Lower(b)) = Len(b)
  BY SortKeyIs
<1>2. CASE Lower(a) # Lower(b)
  <2>1. CASE Less(Lower(a), Lower(b))
    <3>1. LocaleCompare(a, b) = -1
      BY <1>2, <2>1 DEF LocaleCompare
    <3>2. ~Less(SortKey(b), SortKey(a))
      BY <1>1, <2>1, KeysByLetter, LessIsOne
    <3> QED
      BY <3>1, <3>2
  <2>2. CASE ~Less(Lower(a), Lower(b))
    <3>1. LocaleCompare(a, b) = 1
      BY <1>2, <2>2 DEF LocaleCompare
    <3>2. Less(Lower(b), Lower(a))
      BY <1>1, <1>2, <2>2, LessOrMore
    <3> QED
      BY <3>1, <3>2, KeysByLetter
  <2> QED
    BY <2>1, <2>2
<1>3. CASE a = b
  <2>1. LocaleCompare(a, b) = 0
    BY <1>3 DEF LocaleCompare
  <2>2. ~Less(SortKey(b), SortKey(a))
    BY <1>1, <1>3, LessIsOne
  <2> QED
    BY <2>1, <2>2
<1>4. CASE Lower(a) = Lower(b) /\ a # b
  <2> DEFINE differ == {i \in DOMAIN a : a[i] # b[i]}
             i == Min(differ)
  <2>1. /\ DOMAIN a = 1 .. Len(a) /\ DOMAIN b = 1 .. Len(a) /\ Len(b) = Len(a)
        /\ \A j \in 1 .. Len(a) : a[j] \in Int /\ b[j] \in Int
    <3>1. a \in Seq(Int) /\ b \in Seq(Int) /\ Len(b) = Len(a)
      BY <1>1, <1>4 DEF Name
    <3> QED
      BY <3>1
  <2>2. differ # {}
    <3> SUFFICES ASSUME \A j \in DOMAIN a : a[j] = b[j] PROVE a = b
      BY <1>4
    <3>1. a \in Seq(Int) /\ b \in Seq(Int)
      BY DEF Name
    <3> QED
      BY <2>1, <3>1
  <2>3. differ \subseteq Nat
    BY <2>1
  <2>4. LocaleCompare(a, b) = IF a[i] > 0 THEN -1 ELSE 1
    BY <1>4 DEF LocaleCompare
  <2>5. i \in differ /\ \A j \in differ : i <= j
    <3> HIDE DEF differ
    <3> QED
      BY <2>2, <2>3, FirstLine
  <2> HIDE DEF i
  <2>6. i \in 1 .. Len(a) /\ a[i] # b[i] /\ a[i] \in Int /\ b[i] \in Int
    BY <2>1, <2>5
  <2>7. ASSUME NEW j \in 1 .. i - 1 PROVE a[j] = b[j]
    BY <2>1, <2>5, <2>6
  <2>8. CASE a[i] > 0
    <3>1. ~Less(SortKey(b), SortKey(a))
      BY <1>1, <1>4, <2>6, <2>7, <2>8, KeysByCase, LessIsOne
    <3> QED
      BY <2>4, <2>8, <3>1
  <2>9. CASE ~(a[i] > 0)
    <3>1. /\ Lower(a)[i] = IF a[i] < 0 THEN -a[i] ELSE a[i]
          /\ Lower(b)[i] = IF b[i] < 0 THEN -b[i] ELSE b[i]
      BY <2>1, <2>6, SortKeyIs
    <3>2. b[i] > 0
      BY <1>4, <2>6, <2>9, <3>1
    <3>3. i \in 1 .. Len(b) /\ b[i] # a[i] /\ Lower(b) = Lower(a)
      BY <1>4, <2>1, <2>6
    <3>4. \A j \in 1 .. i - 1 : b[j] = a[j]
      BY <2>7
    <3>5. Less(SortKey(b), SortKey(a))
      BY <3>2, <3>3, <3>4, KeysByCase
    <3> QED
      BY <2>4, <2>9, <3>5
  <2> QED
    BY <2>6, <2>8, <2>9
<1> QED
  BY <1>2, <1>3, <1>4

-----------------------------------------------------------------------------
(* A definition of the files, in a settled schema, and its fields. *)

(* The definition a member is of. *)
LEMMA MemberOf ==
  ASSUME WellFormed, NEW p, IsPlace(p), NEW q \in ToSet(Own(p))
  PROVE  Def(q) = Def(p) /\ q[1] = p[1] /\ q[4] = 0 /\ NodeAt(q).name \in Name
<1>1. PICK s \in DOMAIN sources : \E i \in DOMAIN sources[s].defs : p = <<s, i, 0, 0>>
  BY DEF IsPlace
<1>2. PICK i \in DOMAIN sources[s].defs : p = <<s, i, 0, 0>>
  BY <1>1
<1>3. PICK j \in DOMAIN sources[s].defs[i].nodes : q = <<s, i, j, 0>>
  BY <1>2, OwnIs
<1>4. IsDefinition(sources[s].defs[i]) /\ Def(p) = sources[s].defs[i] /\ Def(q) = sources[s].defs[i]
  BY <1>2, <1>3, DefIs DEF Def
<1>5. j # 0 /\ IsNode(sources[s].defs[i].nodes[j])
  BY <1>4, SeqIs DEF IsDefinition
<1>6. NodeAt(q) = sources[s].defs[i].nodes[j]
  BY <1>3, <1>5 DEF NodeAt, Def
<1> QED
  BY <1>2, <1>3, <1>4, <1>5, <1>6 DEF IsNode

LEMMA FieldsOf ==
  ASSUME WellFormed, NEW p, IsPlace(p)
  PROVE  /\ IsSeq(Fields(p))
         /\ \A f \in ToSet(Fields(p)) :
                /\ Def(f).name = Def(p).name /\ f[4] = 0 /\ NodeAt(f).name \in Name
                /\ \/ Def(f).kind = Def(p).kind
                   \/ \E q \in ToSet(Definitions) \cup ToSet(Extensions) : Def(f) = Def(q)
                /\ \/ f[1] = p[1]
                   \/ \E q \in ToSet(Parts(Def(p).name)) : f[1] = q[1]
<1> DEFINE parts == Parts(Def(p).name)
           seqs == [i \in DOMAIN parts |-> Own(parts[i])]
           Fits(f) == /\ Def(f).name = Def(p).name /\ f[4] = 0 /\ NodeAt(f).name \in Name
                      /\ \/ Def(f).kind = Def(p).kind
                         \/ \E q \in ToSet(Definitions) \cup ToSet(Extensions) : Def(f) = Def(q)
                      /\ f[1] = p[1] \/ \E q \in ToSet(parts) : f[1] = q[1]
<1>1. /\ IsSeq(parts) /\ \A q \in ToSet(parts) : IsPlace(q)
      /\ ToSet(parts) = {q \in ToSet(Definitions) \cup ToSet(Extensions) : Def(q).name = Def(p).name}
  BY PartsAre DEF Places
<1>2. ASSUME NEW f \in ToSet(Own(p)) PROVE Fits(f)
  BY <1>2, MemberOf
<1>3. ASSUME NEW q \in ToSet(parts), NEW f \in ToSet(Own(q)) PROVE Fits(f)
  BY <1>1, <1>3, MemberOf
<1> HIDE DEF Fits
<1>4. \A i \in DOMAIN parts : IsSeq(seqs[i]) /\ ToSet(seqs[i]) = ToSet(Own(parts[i])) /\ parts[i] \in ToSet(parts)
  BY <1>1, OwnAre DEF ToSet
<1>5. DOMAIN seqs = DOMAIN parts /\ seqs = [i \in DOMAIN parts |-> seqs[i]]
  OBVIOUS
<1> HIDE DEF seqs
<1>6. ToSet(FlattenSeq(seqs)) = UNION {ToSet(seqs[i]) : i \in DOMAIN parts}
  <2> HIDE DEF parts
  <2> QED
    BY <1>1, <1>4, <1>5, FollowedBy
<1>7. \A f \in ToSet(FlattenSeq(seqs)) : Fits(f)
  <2> HIDE DEF parts
  <2> QED
    BY <1>3, <1>4, <1>6
<1>8. Fields(p) = Own(p) \/ Fields(p) = FlattenSeq(seqs)
  BY DEF Fields, ForEach, seqs
<1>9. \A f \in ToSet(Fields(p)) : Fits(f)
  <2> HIDE DEF seqs
  <2> QED
    BY <1>2, <1>7, <1>8
<1> QED
  BY <1>9, FieldsAre DEF Fits

(* Of the type definitions of a settled schema. *)
LEMMA KindsAre ==
  ASSUME WellFormed
  PROVE  /\ \A q \in ToSet(Definitions) : Def(q).kind \in TypeKinds /\ Def(q).ext = FALSE
         /\ \A q \in ToSet(Extensions) : Def(q).kind \in TypeKinds /\ Def(q).ext = TRUE
         /\ \A q \in ToSet(Directives) : Def(q).kind = "Directive"
<1>1. ASSUME NEW kinds, NEW ext, NEW q \in ToSet(Written(kinds, ext))
      PROVE  Def(q).kind \in kinds /\ Def(q).ext = ext
  <2>1. PICK s \in DOMAIN sources : \E i \in DOMAIN sources[s].defs :
            /\ q = <<s, i, 0, 0>>
            /\ sources[s].defs[i].kind \in kinds /\ sources[s].defs[i].ext = ext
    BY WrittenIs
  <2> QED
    BY <2>1 DEF Def
<1>2. \A q \in ToSet(Definitions) : Def(q).kind \in TypeKinds /\ Def(q).ext = FALSE
  BY <1>1 DEF Definitions
<1>3. \A q \in ToSet(Extensions) : Def(q).kind \in TypeKinds /\ Def(q).ext = TRUE
  BY <1>1 DEF Extensions
<1>4. \A q \in ToSet(Directives) : Def(q).kind \in {"Directive"} /\ Def(q).ext = FALSE
  BY <1>1 DEF Directives
<1> QED
  BY <1>2, <1>3, <1>4

LEMMA ExtensionsInScope ==
  ASSUME WellFormed, Settled, NEW q \in ToSet(Extensions)
  PROVE  InScope(q)
<1>1. IsPlace(q) /\ Def(q).ext = TRUE
  BY KindsAre, WrittenAre DEF Places
<1>5. PICK s \in DOMAIN sources : \E i \in DOMAIN sources[s].defs : q = <<s, i, 0, 0>>
  BY <1>1 DEF IsPlace
<1>2. PICK i \in DOMAIN sources[s].defs : q = <<s, i, 0, 0>> /\ sources[s].defs[i].ext = TRUE
  BY <1>1, <1>5 DEF Def
<1>3. ASSUME sources[s].prelude = TRUE PROVE FALSE
  <2>1. sources[s].defs[i] \in DefsIn(ToSet(sources), TRUE)
    BY <1>3, PlacesAre
  <2> QED
    BY <1>2, <2>1 DEF Settled, Closed
<1>4. sources[s].prelude \in BOOLEAN
  BY DEF WellFormed, IsDocument, ToSet
<1> QED
  BY <1>2, <1>3, <1>4 DEF InScope

LEMMA DefinedOnce ==
  ASSUME WellFormed, Settled, NEW i \in DOMAIN Definitions, NEW j \in DOMAIN Definitions,
         Def(Definitions[i]).name = Def(Definitions[j]).name
  PROVE  i = j
<1>1. IsSeq(Definitions) /\ \A k \in DOMAIN Definitions : NodeAt(Definitions[k]) = Def(Definitions[k])
  BY WrittenAre, PlaceIs DEF Places, ToSet
<1>2. DOMAIN Definitions = 1 .. Len(Definitions) /\ Len(Definitions) \in Nat
  BY <1>1, SeqIs
<1>3. ASSUME NEW k \in DOMAIN Definitions, NEW l \in DOMAIN Definitions, l < k,
             Def(Definitions[k]).name = Def(Definitions[l]).name
      PROVE  FALSE
  <2>1. l \in 1 .. k - 1
    BY <1>2, <1>3
  <2>2. Definitions[k] \in Repeated(Definitions)
    BY <1>1, <1>3, <2>1 DEF Repeated
  <2> QED
    BY <2>2 DEF Settled
<1> QED
  BY <1>2, <1>3

LEMMA DefinedAlone ==
  ASSUME WellFormed, Settled, NEW p \in ToSet(Definitions)
  PROVE  /\ \A q \in ToSet(Definitions) : Def(q).name = Def(p).name => q = p
         /\ p \notin ToSet(Extensions)
         /\ Cardinality(Hits(Definitions, {p})) = 1
         /\ Cardinality(Hits(Extensions, {p})) = 0
<1>1. PICK i \in DOMAIN Definitions : Definitions[i] = p
  BY DEF ToSet
<1>2. \A j \in DOMAIN Definitions : Def(Definitions[j]).name = Def(p).name => j = i
  BY <1>1, DefinedOnce
<1>3. Hits(Definitions, {p}) = {i}
  BY <1>1, <1>2 DEF Hits
<1>4. p \notin ToSet(Extensions)
  BY KindsAre
<1>5. Cardinality(Hits(Extensions, {p})) = 0
  <2>1. \A x \in ToSet(Extensions) : x \notin {p}
    BY <1>4
  <2> QED
    BY <2>1, HitsOfNone
<1> QED
  BY <1>1, <1>2, <1>3, <1>4, <1>5, FS_Singleton DEF ToSet

(* All its fields are written in the files. *)
LEMMA FieldsInScope ==
  ASSUME WellFormed, Settled, NEW p \in ToSet(Definitions), InScope(p)
  PROVE  /\ \A f \in ToSet(Fields(p)) : InScope(f) /\ Def(f).kind \in TypeKinds
         /\ Filter(Fields(p), InScope) = Fields(p)
<1>1. IsPlace(p) /\ Def(p).kind \in TypeKinds
  BY KindsAre, WrittenAre DEF Places
<1>2. \A q \in ToSet(Parts(Def(p).name)) : InScope(q)
  BY PartsAre, DefinedAlone, ExtensionsInScope
<1>3. ASSUME NEW f \in ToSet(Fields(p)) PROVE InScope(f) /\ Def(f).kind \in TypeKinds
  <2>1. /\ f[1] = p[1] \/ \E q \in ToSet(Parts(Def(p).name)) : f[1] = q[1]
        /\ \/ Def(f).kind = Def(p).kind
           \/ \E q \in ToSet(Definitions) \cup ToSet(Extensions) : Def(f) = Def(q)
    BY <1>1, <1>3, FieldsOf
  <2>2. InScope(f)
    BY <1>2, <2>1 DEF InScope
  <2>3. Def(f).kind \in TypeKinds
    BY <1>1, <2>1, KindsAre
  <2> QED
    BY <2>2, <2>3
<1>4. Filter(Fields(p), InScope) = Fields(p)
  <2> DEFINE fs == Fields(p)
             T == ToSet(fs)
  <2>1. IsSeq(fs) /\ \A i \in DOMAIN fs : InScope(fs[i]) /\ fs[i] \in T
    BY <1>1, <1>3, FieldsOf DEF ToSet
  <2> HIDE DEF fs, T
  <2>2. [i \in DOMAIN fs |-> When(InScope(fs[i]), fs[i])] = [i \in DOMAIN fs |-> When(fs[i] \in T, fs[i])]
    BY <2>1 DEF When
  <2>3. Filter(fs, InScope) = Kept(T, fs)
    BY <2>2, Zenon DEF Filter, ForEach, Kept
  <2>4. \A x \in ToSet(fs) : x \in T
    BY DEF T
  <2> QED
    BY <2>1, <2>3, <2>4, KeptAll DEF fs
<1> QED
  BY <1>3, <1>4

LEMMA AllAre ==
  ASSUME WellFormed
  PROVE  /\ AllDefinitions = Definitions \o Kept({x \in ToSet(Extensions) : ~Based(x)}, Extensions)
         /\ IsSeq(Kept({x \in ToSet(Extensions) : ~Based(x)}, Extensions))
         /\ ToSet(Kept({x \in ToSet(Extensions) : ~Based(x)}, Extensions))
                = {x \in ToSet(Extensions) : ~Based(x)}
<1> DEFINE T == {x \in ToSet(Extensions) : ~Based(x)}
           kept == [i \in DOMAIN Extensions |-> When(~Based(Extensions[i]), Extensions[i])]
<1>1. AllDefinitions = Definitions \o FlattenSeq(kept)
  BY DEF AllDefinitions, Filter, ForEach
<1>2. \A i \in DOMAIN Extensions : ~Based(Extensions[i]) <=> Extensions[i] \in T
  BY DEF ToSet
<1>3. ToSet(Extensions) \cap T = T
  OBVIOUS
<1> HIDE DEF T
<1>4. kept = [i \in DOMAIN Extensions |-> When(Extensions[i] \in T, Extensions[i])]
  BY <1>2 DEF When
<1>5. FlattenSeq(kept) = Kept(T, Extensions)
  BY <1>4, Zenon DEF Kept
<1>6. IsSeq(Kept(T, Extensions)) /\ ToSet(Kept(T, Extensions)) = ToSet(Extensions) \cap T
  BY WrittenAre, KeptIs DEF Places
<1> QED
  BY <1>1, <1>3, <1>5, <1>6 DEF T

(* No other definition has its name, and it is there once. *)
LEMMA AmongAllOnce ==
  ASSUME WellFormed, Settled, NEW p \in ToSet(Definitions)
  PROVE  /\ Cardinality(Hits(AllDefinitions, {p})) = 1 /\ p \in ToSet(AllDefinitions)
         /\ \A q \in ToSet(AllDefinitions) : q # p => Def(q).name # Def(p).name
<1> DEFINE others == Kept({x \in ToSet(Extensions) : ~Based(x)}, Extensions)
<1>1. /\ AllDefinitions = Definitions \o others
      /\ IsSeq(others) /\ ToSet(others) = {x \in ToSet(Extensions) : ~Based(x)} /\ IsSeq(Definitions)
  BY AllAre, WrittenAre DEF Places
<1> HIDE DEF others
<1>2. /\ p \notin ToSet(Extensions) /\ Cardinality(Hits(Definitions, {p})) = 1
      /\ \A q \in ToSet(Definitions) : Def(q).name = Def(p).name => q = p
  BY DefinedAlone
<1>3. Cardinality(Hits(others, {p})) = 0
  <2>1. \A x \in ToSet(others) : x \notin {p}
    BY <1>1, <1>2
  <2> QED
    BY <2>1, HitsOfNone
<1>4. Cardinality(Hits(AllDefinitions, {p})) = 1
  BY <1>1, <1>2, <1>3, HitsOfBoth
<1>5. ToSet(AllDefinitions) = ToSet(Definitions) \cup ToSet(others)
  BY <1>1, ConcatOf
<1>6. ASSUME NEW q \in ToSet(AllDefinitions), q # p PROVE Def(q).name # Def(p).name
  <2>1. CASE q \in ToSet(Definitions)
    BY <1>2, <1>6, <2>1
  <2>2. CASE q \in ToSet(others)
    BY <1>1, <2>2 DEF Based, DefinedTypes
  <2> QED
    BY <1>5, <2>1, <2>2
<1> QED
  BY <1>4, <1>5, <1>6

-----------------------------------------------------------------------------
(* What the rules make of a definition and its extensions. *)

LEMMA FoundAreSome ==
  ASSUME NEW vs, NEW rule, NEW at, NEW X,
         \A v \in ToSet(vs) : v \in X <=> v.rule = rule /\ v.pos \in at
  PROVE  FoundAt(vs, rule, at) = Hits(vs, X)
BY DEF FoundAt, Hits, ToSet

LEMMA WrittenOf ==
  ASSUME NEW g, IsSeq(g)
  PROVE  IsSeq(Filter(g, InScope)) /\ ToSet(Filter(g, InScope)) \subseteq ToSet(g)
<1> DEFINE kept == [k \in DOMAIN g |-> When(InScope(g[k]), g[k])]
<1>1. Filter(g, InScope) = FlattenSeq(kept)
  BY Zenon DEF Filter, ForEach
<1>2. DOMAIN kept = DOMAIN g /\ kept = [k \in DOMAIN g |-> kept[k]] /\ \A k \in DOMAIN g : kept[k] \in {<<>>, <<g[k]>>}
  BY DEF When
<1> HIDE DEF kept
<1> QED
  BY <1>1, <1>2, SomeOf

LEMMA SomeMade ==
  ASSUME NEW s, IsSeq(s), NEW m, NEW C \in SUBSET DOMAIN s,
         NEW seqs, IsSeq(seqs), DOMAIN seqs = DOMAIN s, \A i \in DOMAIN s : seqs[i] = When(i \in C, m[i])
  PROVE  /\ IsSeq(FlattenSeq(seqs)) /\ ToSet(FlattenSeq(seqs)) = {m[i] : i \in C}
         /\ \A X : (\A i \in C : m[i] \in X) => Cardinality(Hits(FlattenSeq(seqs), X)) = Cardinality(C)
<1>1. \A i \in DOMAIN s : IsSeq(seqs[i]) /\ ToSet(seqs[i]) = IF i \in C THEN {m[i]} ELSE {}
  <2> SUFFICES ASSUME NEW i \in DOMAIN s
               PROVE  IsSeq(seqs[i]) /\ ToSet(seqs[i]) = IF i \in C THEN {m[i]} ELSE {}
    OBVIOUS
  <2>1. CASE i \in C
    <3>1. seqs[i] = <<m[i]>>
      BY <2>1 DEF When
    <3> QED
      BY <2>1, <3>1, OneIs
  <2>2. CASE i \notin C
    <3>1. seqs[i] = <<>>
      BY <2>2 DEF When
    <3> QED
      BY <2>2, <3>1, NothingIs
  <2> QED
    BY <2>1, <2>2
<1>2. IsSeq(FlattenSeq(seqs)) /\ ToSet(FlattenSeq(seqs)) = UNION {ToSet(seqs[i]) : i \in DOMAIN seqs}
  BY <1>1, FlattenOf
<1>3. UNION {ToSet(seqs[i]) : i \in DOMAIN seqs} = {m[i] : i \in C}
  <2>1. ASSUME NEW x \in {m[i] : i \in C} PROVE x \in UNION {ToSet(seqs[i]) : i \in DOMAIN seqs}
    BY <1>1, <2>1
  <2>2. ASSUME NEW i \in DOMAIN seqs, NEW x \in ToSet(seqs[i]) PROVE x \in {m[j] : j \in C}
    BY <1>1, <2>2
  <2> QED
    BY <2>1, <2>2
<1>4. ASSUME NEW X, \A i \in C : m[i] \in X
      PROVE  Cardinality(Hits(FlattenSeq(seqs), X)) = Cardinality(C)
  <2>1. \A i \in DOMAIN s : Cardinality(Hits(seqs[i], X)) = IF i \in C THEN 1 ELSE 0
    <3> SUFFICES ASSUME NEW i \in DOMAIN s PROVE Cardinality(Hits(seqs[i], X)) = IF i \in C THEN 1 ELSE 0
      OBVIOUS
    <3>1. CASE i \in C
      <4>1. seqs[i] = <<m[i]>>
        BY <3>1 DEF When
      <4> QED
        BY <1>4, <3>1, <4>1, HitsOfOne
    <3>2. CASE i \notin C
      <4>1. \A x \in ToSet(seqs[i]) : x \notin X
        BY <1>1, <3>2
      <4> QED
        BY <3>2, <4>1, HitsOfNone
    <3> QED
      BY <3>1, <3>2
  <2> QED
    BY <1>1, <2>1, HitsOfSome
<1> QED
  BY <1>2, <1>3, <1>4

EnumRule == "no-case-insensitive-enum-values-duplicates"

(* The values of an enum that repeat an earlier one. *)
RepeatsIn(fs) == {i \in DOMAIN fs : \E j \in 1 .. i - 1 : Lower(NodeAt(fs[j]).name) = Lower(NodeAt(fs[i]).name)}
RepeatsOf(fs) ==
  FlattenSeq([i \in DOMAIN fs |->
      When(\E j \in 1 .. i - 1 : Lower(NodeAt(fs[j]).name) = Lower(NodeAt(fs[i]).name),
           Violation(EnumRule, fs[i], ""))])

(* How they are spelt. *)
Spellings(fs) == {Lower(NodeAt(fs[i]).name) : i \in DOMAIN fs}

LEMMA RepeatsAre ==
  ASSUME NEW fs, IsSeq(fs)
  PROVE  /\ IsSeq(RepeatsOf(fs))
         /\ \A v \in ToSet(RepeatsOf(fs)) : v.rule = EnumRule /\ v.what = "" /\ v.pos \in ToSet(fs)
         /\ \A v \in ToSet(RepeatsOf(fs)) : v = Violation(EnumRule, v.pos, "")
         /\ \A X : (\A f \in ToSet(fs) : Violation(EnumRule, f, "") \in X)
                => Cardinality(Hits(RepeatsOf(fs), X))
                       = Len(fs) - Cardinality(Spellings(fs))
<1> DEFINE C == RepeatsIn(fs)
           m == [i \in DOMAIN fs |-> Violation(EnumRule, fs[i], "")]
           seqs == [i \in DOMAIN fs |->
                       When(\E j \in 1 .. i - 1 : Lower(NodeAt(fs[j]).name) = Lower(NodeAt(fs[i]).name),
                            Violation(EnumRule, fs[i], ""))]
           f == [i \in DOMAIN fs |-> Lower(NodeAt(fs[i]).name)]
           D == DOMAIN fs
           n == Len(fs)
<1>1. n \in Nat /\ D = 1 .. n
  BY SeqIs
<1>2. C \in SUBSET DOMAIN fs
  BY DEF RepeatsIn
<1>3. IsSeq(seqs) /\ DOMAIN seqs = DOMAIN fs
  <2>1. DOMAIN seqs = 1 .. n /\ seqs = [i \in DOMAIN seqs |-> seqs[i]]
    BY <1>1
  <2> HIDE DEF seqs, n
  <2> QED
    BY <1>1, <2>1, ListIs
<1>4. \A i \in DOMAIN fs : seqs[i] = When(i \in C, m[i])
  BY DEF RepeatsIn, When
<1>5. RepeatsOf(fs) = FlattenSeq(seqs)
  BY Zenon DEF RepeatsOf
<1>6. \A i \in DOMAIN fs : m[i] = Violation(EnumRule, fs[i], "") /\ m[i].rule = EnumRule /\ m[i].what = "" /\ m[i].pos = fs[i]
  BY DEF Violation
<1>7. Cardinality(C) = n - Cardinality(Spellings(fs))
  <2>1. ValuesIn(D, f) = Spellings(fs)
    BY DEF Spellings, ValuesIn
  <2>2. C = AgainIn(D, f)
    <3>1. \A i \in D : i \in C <=> \E j \in D : j < i /\ f[j] = f[i]
      <4> SUFFICES ASSUME NEW i \in D PROVE i \in C <=> \E j \in D : j < i /\ f[j] = f[i]
        OBVIOUS
      <4>1. \A j : j \in 1 .. i - 1 <=> j \in D /\ j < i
        BY <1>1
      <4>2. i \in C <=> \E j \in 1 .. i - 1 : Lower(NodeAt(fs[j]).name) = Lower(NodeAt(fs[i]).name)
        BY DEF RepeatsIn
      <4>3. \A j \in D : f[j] = Lower(NodeAt(fs[j]).name)
        OBVIOUS
      <4> HIDE DEF C, f
      <4> QED
        BY <4>1, <4>2, <4>3
    <3> HIDE DEF f
    <3> QED
      BY <1>2, <3>1 DEF AgainIn
  <2>3. Cardinality(D) = n
    <3> HIDE DEF D, n
    <3>1. Cardinality(1 .. n) = IF 1 > n THEN 0 ELSE n - 1 + 1
      BY <1>1, FS_Interval
    <3> QED
      BY <1>1, <3>1
  <2>4. D \in SUBSET (1 .. n)
    BY <1>1
  <2> HIDE DEF f, D, n, C, m, seqs
  <2>5. Cardinality(AgainIn(D, f)) = Cardinality(D) - Cardinality(ValuesIn(D, f))
    BY <1>1, <2>4, AllButTheFirst
  <2> QED
    BY <2>1, <2>2, <2>3, <2>5
<1> HIDE DEF C, m, seqs
<1>8. /\ IsSeq(FlattenSeq(seqs)) /\ ToSet(FlattenSeq(seqs)) = {m[i] : i \in C}
      /\ \A X : (\A i \in C : m[i] \in X) => Cardinality(Hits(FlattenSeq(seqs), X)) = Cardinality(C)
  BY <1>2, <1>3, <1>4, SomeMade
<1>9. \A v \in ToSet(RepeatsOf(fs)) : v.rule = EnumRule /\ v.what = "" /\ v.pos \in ToSet(fs)
                                       /\ v = Violation(EnumRule, v.pos, "")
  <2> SUFFICES ASSUME NEW v \in ToSet(RepeatsOf(fs))
               PROVE  v.rule = EnumRule /\ v.what = "" /\ v.pos \in ToSet(fs) /\ v = Violation(EnumRule, v.pos, "")
    OBVIOUS
  <2>1. PICK i \in DOMAIN fs : v = m[i]
    BY <1>2, <1>5, <1>8
  <2> QED
    BY <1>6, <2>1 DEF ToSet
<1>10. ASSUME NEW X, \A x \in ToSet(fs) : Violation(EnumRule, x, "") \in X
       PROVE  Cardinality(Hits(RepeatsOf(fs), X)) = n - Cardinality(Spellings(fs))
  <2>1. \A i \in C : m[i] \in X
    BY <1>2, <1>6, <1>10 DEF ToSet
  <2> QED
    BY <1>5, <1>7, <1>8, <2>1
<1> QED
  BY <1>5, <1>8, <1>9, <1>10

LEMMA EnumCount ==
  ASSUME WellFormed, Settled, Enabled(config, EnumRule),
         NEW p \in ToSet(Definitions), InScope(p), Def(p).kind = "Enum"
  PROVE  Cardinality(FoundAt(Tier3EnumDuplicates, EnumRule, ToSet(Fields(p))))
            = Len(Fields(p)) - Cardinality(Spellings(Fields(p)))
<1> DEFINE all == AllDefinitions
           T == {q \in ToSet(all) : Def(q).kind = "Enum"}
           ps == Kept(T, all)
           seqs == [i \in DOMAIN ps |-> RepeatsOf(Filter(Fields(ps[i]), InScope))]
           X == {Violation(EnumRule, f, "") : f \in ToSet(Fields(p))}
           c == Len(Fields(p)) - Cardinality(Spellings(Fields(p)))
<1>1. Tier3EnumDuplicates = FlattenSeq(seqs)
  <2>1. ps = Filter(all, LAMBDA q : Def(q).kind = "Enum")
    <3>1. \A i \in DOMAIN all : Def(all[i]).kind = "Enum" <=> all[i] \in T
      BY DEF ToSet
    <3> HIDE DEF T, all
    <3>2. [i \in DOMAIN all |-> When(Def(all[i]).kind = "Enum", all[i])] = [i \in DOMAIN all |-> When(all[i] \in T, all[i])]
      BY <3>1 DEF When
    <3> QED
      BY <3>2, Zenon DEF Kept, Filter, ForEach
  <2> DEFINE qs == Filter(all, LAMBDA q : Def(q).kind = "Enum")
  <2>2. Tier3EnumDuplicates = FlattenSeq([i \in DOMAIN qs |-> RepeatsOf(Filter(Fields(qs[i]), InScope))])
    BY Zenon DEF Tier3EnumDuplicates, ForEach, RepeatsOf, EnumRule
  <2> QED
    BY <2>1, <2>2, Zenon
<1>2. /\ IsSeq(all) /\ \A q \in ToSet(all) : IsPlace(q) /\ (q # p => Def(q).name # Def(p).name)
      /\ Cardinality(Hits(all, {p})) = 1 /\ p \in T
  BY AmongAllOnce, AllDefinitionsAre DEF Places
<1>3. IsSeq(ps) /\ ToSet(ps) \subseteq ToSet(all) /\ Cardinality(Hits(ps, {p})) = 1
  <2>1. {p} \cap T = {p}
    BY <1>2
  <2> HIDE DEF all, T
  <2> QED
    BY <1>2, <2>1, KeptIs, HitsKept
<1> HIDE DEF ps, all, T
<1>4. IsSeq(seqs) /\ DOMAIN seqs = DOMAIN ps
  BY <1>3, SeqIs, ListIs
<1>5. ASSUME NEW i \in DOMAIN ps
      PROVE  /\ IsSeq(seqs[i])
             /\ \A v \in ToSet(seqs[i]) : /\ v.rule = EnumRule /\ v = Violation(EnumRule, v.pos, "")
                                          /\ v.pos \in ToSet(Fields(ps[i]))
  <2> DEFINE fs == Filter(Fields(ps[i]), InScope)
  <2>1. IsPlace(ps[i])
    BY <1>2, <1>3 DEF ToSet
  <2>2. IsSeq(fs) /\ ToSet(fs) \subseteq ToSet(Fields(ps[i]))
    BY <2>1, FieldsOf, WrittenOf
  <2>3. seqs[i] = RepeatsOf(fs)
    OBVIOUS
  <2> HIDE DEF fs, seqs
  <2> QED
    BY <2>2, <2>3, RepeatsAre
<1>6. /\ IsSeq(Fields(p)) /\ \A f \in ToSet(Fields(p)) : Def(f).name = Def(p).name
      /\ Filter(Fields(p), InScope) = Fields(p)
  BY <1>2, FieldsOf, FieldsInScope, WrittenAre DEF Places
<1>7. \A f : Violation(EnumRule, f, "").pos = f
  BY DEF Violation
<1>8. ASSUME NEW i \in DOMAIN ps, ps[i] = p PROVE Cardinality(Hits(seqs[i], X)) = c /\ c \in Nat
  <2>1. seqs[i] = RepeatsOf(Fields(p))
    BY <1>6, <1>8
  <2>2. \A f \in ToSet(Fields(p)) : Violation(EnumRule, f, "") \in X
    OBVIOUS
  <2> HIDE DEF X, seqs
  <2>3. Cardinality(Hits(RepeatsOf(Fields(p)), X)) = Len(Fields(p)) - Cardinality(Spellings(Fields(p)))
    BY <1>6, <2>2, RepeatsAre
  <2>4. Cardinality(Hits(seqs[i], X)) = c
    BY <2>1, <2>3
  <2> HIDE DEF c
  <2> QED
    BY <1>5, <2>4, HitsAre
<1>9. ASSUME NEW i \in DOMAIN ps, ps[i] # p PROVE Cardinality(Hits(seqs[i], X)) = 0
  <2>1. ps[i] \in ToSet(all) /\ IsPlace(ps[i]) /\ Def(ps[i]).name # Def(p).name
    BY <1>2, <1>3, <1>9 DEF ToSet
  <2>2. \A f \in ToSet(Fields(ps[i])) : Def(f).name # Def(p).name
    BY <2>1, FieldsOf
  <2>3. ASSUME NEW v \in ToSet(seqs[i]), v \in X PROVE FALSE
    <3>1. PICK f \in ToSet(Fields(p)) : v = Violation(EnumRule, f, "")
      BY <2>3
    <3>2. v.pos = f
      BY <1>7, <3>1
    <3> HIDE DEF X, seqs
    <3> QED
      BY <1>5, <1>6, <2>2, <2>3, <3>2
  <2> HIDE DEF X, seqs
  <2> QED
    BY <2>3, HitsOfNone
<1>10. c \in Nat
  <2>1. PICK i \in DOMAIN ps : i \in Hits(ps, {p})
    <3>1. Hits(ps, {p}) # {}
      BY <1>3, FS_EmptySet
    <3> QED
      BY <3>1 DEF Hits
  <2>2. ps[i] = p
    BY <2>1 DEF Hits
  <2> HIDE DEF c
  <2> QED
    BY <1>8, <2>2
<1> DEFINE vs == FlattenSeq(seqs)
<1>11. Cardinality(Hits(vs, X)) = c
  <2> HIDE DEF c, X, seqs
  <2>1. \A i \in DOMAIN ps : IsSeq(seqs[i]) /\ Cardinality(Hits(seqs[i], X)) = IF ps[i] = p THEN c ELSE 0
    BY <1>5, <1>8, <1>9
  <2> QED
    BY <1>3, <1>4, <1>10, <2>1, HitsOfTheOne
<1>12. FoundAt(vs, EnumRule, ToSet(Fields(p))) = Hits(vs, X)
  <2> DEFINE at == ToSet(Fields(p))
  <2>1. \A v : v \in X <=> \E f \in at : v = Violation(EnumRule, f, "")
    OBVIOUS
  <2> HIDE DEF X, seqs, at
  <2>2. ToSet(vs) = UNION {ToSet(seqs[i]) : i \in DOMAIN seqs}
    BY <1>4, <1>5, FlattenOf
  <2>3. ASSUME NEW v \in ToSet(vs) PROVE v \in X <=> v.rule = EnumRule /\ v.pos \in at
    <3>1. v.rule = EnumRule /\ v = Violation(EnumRule, v.pos, "")
      BY <1>4, <1>5, <2>2
    <3> QED
      BY <1>7, <2>1, <3>1
  <2> HIDE DEF vs
  <2>4. FoundAt(vs, EnumRule, at) = Hits(vs, X)
    BY <2>3, FoundAreSome
  <2> QED
    BY <2>4 DEF at
<1> QED
  BY <1>1, <1>11, <1>12

-----------------------------------------------------------------------------
(* The directives applied to a definition and its extensions. *)

DirectiveRule == "unique-directive-names-per-location"

LEMMA FirstOfBoth ==
  ASSUME NEW s, IsSeq(s), Len(s) >= 1, NEW t, IsSeq(t)
  PROVE  IsSeq(s \o t) /\ Len(s \o t) >= 1 /\ (s \o t)[1] = s[1]
<1> DEFINE T == ToSet(s) \cup ToSet(t)
<1>1. s \in Seq(T) /\ t \in Seq(T)
  BY OfMore DEF IsSeq
<1> HIDE DEF T
<1>2. Len(s \o t) = Len(s) + Len(t) /\ Len(s) \in Nat /\ Len(t) \in Nat /\ (s \o t)[1] = s[1]
  BY <1>1
<1> QED
  BY <1>2, ConcatOf

LEMMA KeptFirst ==
  ASSUME NEW s, IsSeq(s), NEW T, NEW i \in DOMAIN s, s[i] \in T, \A j \in 1 .. i - 1 : s[j] \notin T
  PROVE  Kept(T, s)[1] = s[i]
<1> DEFINE seqs == [k \in DOMAIN s |-> When(s[k] \in T, s[k])]
           n == Len(s)
<1>1. n \in Nat /\ DOMAIN s = 1 .. n
  BY SeqIs
<1>2. Kept(T, s) = FlattenSeq(seqs)
  BY DEF Kept
<1>3. IsSeq(seqs) /\ DOMAIN seqs = DOMAIN s
  BY <1>1, ListIs
<1>4. \A k \in DOMAIN s : seqs[k] \in {<<>>, <<s[k]>>} /\ (s[k] \in T => seqs[k] = <<s[k]>>) /\ (s[k] \notin T => seqs[k] = <<>>)
  BY DEF When
<1> HIDE DEF seqs
<1>5. Len(seqs) = n /\ \A k \in DOMAIN seqs : IsSeq(seqs[k])
  <2>1. Len(seqs) \in Nat /\ DOMAIN seqs = 1 .. Len(seqs)
    BY <1>3, SeqIs
  <2>2. Len(seqs) = n
    BY <1>1, <1>3, <2>1
  <2> QED
    BY <1>3, <1>4, <2>2, OneIs, NothingIs
<1>6. PICK f : /\ f[0] = <<>> /\ FlattenSeq(seqs) = f[n]
               /\ \A k \in 1 .. n : f[k] = f[k - 1] \o seqs[k]
  BY <1>3, <1>5, FlattenUnfolds
<1> HIDE DEF n
<1>7. i \in Nat /\ 1 <= i /\ i <= n
  BY <1>1
<1> DEFINE Begins(x) == IsSeq(x) /\ Len(x) >= 1 /\ x[1] = s[i]
           Good == {m \in Nat : m <= n => (m < i => f[m] = <<>>) /\ (m >= i => Begins(f[m]))}
<1>8. ASSUME NEW m \in Nat, \A k \in Nat : k < m => k \in Good
      PROVE  m \in Good
  <2>1. CASE m = 0
    BY <1>6, <1>7, <2>1
  <2>2. CASE m # 0 /\ m <= n
    <3>1. m - 1 \in Nat /\ m - 1 < m /\ m - 1 <= n /\ m \in 1 .. n
      BY <1>1, <2>2
    <3>2. f[m] = f[m - 1] \o seqs[m] /\ m - 1 \in Good
      BY <1>6, <1>8, <3>1
    <3>3. CASE m < i
      <4>1. f[m - 1] = <<>> /\ s[m] \notin T
        BY <1>7, <3>1, <3>2, <3>3
      <4>2. seqs[m] = <<>>
        BY <1>1, <1>4, <3>1, <4>1
      <4>3. <<>> \o <<>> = <<>>
        OBVIOUS
      <4> QED
        BY <1>7, <3>2, <3>3, <4>1, <4>2, <4>3
    <3>4. CASE m = i
      <4>1. f[m - 1] = <<>> /\ seqs[m] = <<s[i]>>
        BY <1>1, <1>4, <1>7, <3>1, <3>2, <3>4
      <4>2. <<>> \o <<s[i]>> = <<s[i]>> /\ Len(<<s[i]>>) >= 1 /\ <<s[i]>>[1] = s[i]
        OBVIOUS
      <4>3. IsSeq(<<s[i]>>)
        BY OneIs
      <4>4. Begins(f[m])
        BY <3>2, <4>1, <4>2, <4>3
      <4> HIDE DEF Begins
      <4> QED
        BY <1>7, <3>4, <4>4
    <3>5. CASE m > i
      <4>1. IsSeq(f[m - 1]) /\ Len(f[m - 1]) >= 1 /\ f[m - 1][1] = s[i]
        BY <1>7, <3>1, <3>2, <3>5
      <4>2. IsSeq(seqs[m])
        BY <1>1, <1>3, <1>5, <3>1
      <4>5. /\ IsSeq(f[m - 1] \o seqs[m]) /\ Len(f[m - 1] \o seqs[m]) >= 1
            /\ (f[m - 1] \o seqs[m])[1] = f[m - 1][1]
        <5> HIDE DEF Good
        <5> QED
          BY <4>1, <4>2, FirstOfBoth
      <4>3. Begins(f[m])
        <5> HIDE DEF Good
        <5> QED
          BY <3>2, <4>1, <4>5
      <4> HIDE DEF Begins
      <4> QED
        BY <1>7, <3>5, <4>3
    <3> QED
      BY <1>7, <3>3, <3>4, <3>5
  <2> QED
    BY <2>1, <2>2
<1>9. Nat \subseteq Good
  <2> HIDE DEF Good
  <2> QED
    BY <1>8, Induction
<1> QED
  BY <1>1, <1>2, <1>6, <1>7, <1>9

(* A definition comes before its extensions. *)
LEMMA FirstPart ==
  ASSUME WellFormed, Settled, NEW p \in ToSet(Definitions)
  PROVE  Parts(Def(p).name)[1] = p /\ p \in ToSet(Parts(Def(p).name))
<1> DEFINE name == Def(p).name
           all == Definitions \o Extensions
           T == {q \in ToSet(all) : Def(q).name = name}
<1>1. IsSeq(Definitions) /\ IsSeq(Extensions)
  BY WrittenAre DEF Places
<1>2. IsSeq(all) /\ ToSet(all) = ToSet(Definitions) \cup ToSet(Extensions)
  BY <1>1, ConcatOf
<1>3. Parts(name) = Kept(T, all)
  <2>1. \A i \in DOMAIN all : all[i] \in T <=> Def(all[i]).name = name
    BY DEF ToSet
  <2>2. Parts(name) = FlattenSeq([i \in DOMAIN all |-> When(Def(all[i]).name = name, all[i])])
    BY DEF Parts, Filter, ForEach
  <2> HIDE DEF all, T
  <2>3. [i \in DOMAIN all |-> When(Def(all[i]).name = name, all[i])] = [i \in DOMAIN all |-> When(all[i] \in T, all[i])]
    BY <2>1 DEF When
  <2> QED
    BY <2>2, <2>3 DEF Kept
<1>4. PICK i \in DOMAIN Definitions : Definitions[i] = p
  BY DEF ToSet
<1>5. i \in DOMAIN all /\ all[i] = p /\ \A j \in 1 .. i - 1 : j \in DOMAIN Definitions /\ all[j] = Definitions[j]
  <2>1. Definitions \in Seq(ToSet(all)) /\ Extensions \in Seq(ToSet(all))
    BY <1>1, <1>2, OfMore DEF IsSeq
  <2>2. DOMAIN Definitions = 1 .. Len(Definitions) /\ Len(Definitions) \in Nat /\ Len(Extensions) \in Nat
    BY <1>1, SeqIs
  <2> HIDE DEF T
  <2>3. /\ DOMAIN all = 1 .. Len(Definitions) + Len(Extensions)
        /\ \A j \in 1 .. Len(Definitions) : all[j] = Definitions[j]
    BY <2>1, <2>2
  <2> QED
    BY <1>4, <2>2, <2>3
<1>6. \A j \in 1 .. i - 1 : all[j] \notin T
  <2> SUFFICES ASSUME NEW j \in 1 .. i - 1, Def(all[j]).name = name PROVE FALSE
    OBVIOUS
  <2>1. j \in DOMAIN Definitions /\ Def(Definitions[j]).name = Def(Definitions[i]).name
    BY <1>4, <1>5
  <2>2. j = i
    BY <1>4, <2>1, DefinedOnce
  <2>3. i \in Int
    BY <1>1, <1>4, SeqIs
  <2> QED
    BY <2>2, <2>3
<1>7. all[i] \in T /\ p \in T
  BY <1>2, <1>5
<1> HIDE DEF all, T
<1>8. Kept(T, all)[1] = p
  BY <1>2, <1>5, <1>6, <1>7, KeptFirst
<1>9. p \in ToSet(Kept(T, all))
  BY <1>2, <1>7, KeptIs DEF T
<1> QED
  BY <1>3, <1>8, <1>9

(* Of the directives that are not repeatable: the uses, and their names. *)
OnceOf(dirs) == {d \in ToSet(dirs) : ~Repeatable(d.name)}
NamesOnce(dirs) == {d.name : d \in OnceOf(dirs)}

LEMMA DuplicatesCount ==
  ASSUME NEW p, NEW dirs, IsSeq(dirs)
  PROVE  /\ IsSeq(NonRepeatableDuplicates(p, dirs))
         /\ \A v \in ToSet(NonRepeatableDuplicates(p, dirs)) : v.rule = DirectiveRule /\ v.pos = p
         /\ \A X : (\A v \in ToSet(NonRepeatableDuplicates(p, dirs)) : v \in X)
                => Cardinality(Hits(NonRepeatableDuplicates(p, dirs), X))
                       = Len(Kept(OnceOf(dirs), dirs)) - Cardinality(NamesOnce(dirs))
<1> DEFINE vs == NonRepeatableDuplicates(p, dirs)
           n == Len(dirs)
           D == {k \in DOMAIN dirs : ~Repeatable(dirs[k].name)}
           f == [k \in DOMAIN dirs |-> dirs[k].name]
           m == [k \in DOMAIN dirs |-> Violation(DirectiveRule, p, k)]
           C == AgainIn(D, f)
           seqs == [k \in DOMAIN dirs |->
                       When(/\ \E j \in 1 .. k - 1 : dirs[j].name = dirs[k].name
                            /\ ~Repeatable(dirs[k].name),
                            Violation(DirectiveRule, p, k))]
<1>1. n \in Nat /\ DOMAIN dirs = 1 .. n
  BY SeqIs
<1>2. vs = FlattenSeq(seqs)
  BY Zenon DEF NonRepeatableDuplicates, DirectiveRule
<1>3. IsSeq(seqs) /\ DOMAIN seqs = DOMAIN dirs
  <2>1. DOMAIN seqs = 1 .. n /\ seqs = [k \in DOMAIN seqs |-> seqs[k]]
    BY <1>1
  <2> HIDE DEF seqs, n
  <2> QED
    BY <1>1, <2>1, ListIs
<1>4. D \in SUBSET (1 .. n) /\ C \in SUBSET DOMAIN dirs
  BY <1>1 DEF AgainIn
<1>5. \A k \in DOMAIN dirs : seqs[k] = When(k \in C, m[k])
  <2> SUFFICES ASSUME NEW k \in DOMAIN dirs PROVE seqs[k] = When(k \in C, m[k])
    OBVIOUS
  <2> DEFINE c == /\ \E j \in 1 .. k - 1 : dirs[j].name = dirs[k].name
                  /\ ~Repeatable(dirs[k].name)
  <2>1. seqs[k] = When(c, m[k])
    OBVIOUS
  <2>2. k \in C <=> c
    <3>1. \A j : j \in 1 .. k - 1 <=> j \in DOMAIN dirs /\ j < k
      BY <1>1
    <3>2. k \in C <=> k \in D /\ \E j \in D : j < k /\ f[j] = f[k]
      BY DEF AgainIn
    <3>3. \A j \in DOMAIN dirs : f[j] = dirs[j].name /\ (j \in D <=> ~Repeatable(dirs[j].name))
      OBVIOUS
    <3>4. D \subseteq DOMAIN dirs
      OBVIOUS
    <3> HIDE DEF C, D, f, seqs, m
    <3> QED
      BY <3>1, <3>2, <3>3, <3>4
  <2> HIDE DEF c, C, m, seqs
  <2> QED
    BY <2>1, <2>2 DEF When
<1>6. \A k \in DOMAIN dirs : m[k].rule = DirectiveRule /\ m[k].pos = p
  BY DEF Violation
<1> HIDE DEF seqs, m
<1>7. /\ IsSeq(FlattenSeq(seqs)) /\ ToSet(FlattenSeq(seqs)) = {m[k] : k \in C}
      /\ \A X : (\A k \in C : m[k] \in X) => Cardinality(Hits(FlattenSeq(seqs), X)) = Cardinality(C)
  <2>1. C \in SUBSET DOMAIN dirs
    BY <1>4
  <2> HIDE DEF C, D, f, n, vs
  <2> QED
    BY <1>3, <1>5, <2>1, SomeMade
<1>8. Cardinality(C) = Cardinality(D) - Cardinality(ValuesIn(D, f))
  <2> HIDE DEF D, f, n
  <2> QED
    BY <1>1, <1>4, AllButTheFirst
<1>9. ValuesIn(D, f) = NamesOnce(dirs)
  <2>1. \A x : x \in ValuesIn(D, f) <=> \E k \in DOMAIN dirs : ~Repeatable(dirs[k].name) /\ x = dirs[k].name
    BY DEF ValuesIn
  <2>2. \A x : x \in NamesOnce(dirs) <=> \E k \in DOMAIN dirs : ~Repeatable(dirs[k].name) /\ x = dirs[k].name
    BY DEF NamesOnce, OnceOf, ToSet
  <2>3. \A x : x \in ValuesIn(D, f) <=> x \in NamesOnce(dirs)
    <3> HIDE DEF D, f
    <3> QED
      BY <2>1, <2>2
  <2> HIDE DEF D, f, n, C
  <2> QED
    BY <2>3, Zenon DEF ValuesIn, NamesOnce
<1>10. Cardinality(D) = Len(Kept(OnceOf(dirs), dirs))
  <2> DEFINE T == OnceOf(dirs)
             kept == Kept(T, dirs)
  <2>1. D = Hits(dirs, T)
    BY DEF OnceOf, Hits, ToSet
  <2>2. IsSeq(kept) /\ ToSet(kept) = T
    <3>1. ToSet(dirs) \cap T = T
      BY DEF OnceOf
    <3> QED
      BY <3>1, KeptIs
  <2>3. ToSet(kept) \cap T = T
    BY <2>2
  <2>4. Cardinality(Hits(kept, ToSet(kept))) = Cardinality(Hits(dirs, ToSet(kept) \cap T))
    BY HitsKept
  <2> HIDE DEF T, D, kept
  <2>5. Len(kept) = Cardinality(Hits(dirs, T))
    BY <2>2, <2>3, <2>4, LenIsHits
  <2> QED
    BY <2>1, <2>5 DEF kept, T
<1>11. \A v \in ToSet(vs) : v.rule = DirectiveRule /\ v.pos = p
  BY <1>2, <1>4, <1>6, <1>7
<1>12. ASSUME NEW X, \A v \in ToSet(vs) : v \in X
       PROVE  Cardinality(Hits(vs, X)) = Len(Kept(OnceOf(dirs), dirs)) - Cardinality(NamesOnce(dirs))
  <2>1. \A k \in C : m[k] \in X
    BY <1>2, <1>7, <1>12
  <2> HIDE DEF C, D, f, n, vs
  <2> QED
    BY <1>2, <1>7, <1>8, <1>9, <1>10, <2>1
<1> QED
  BY <1>2, <1>7, <1>11, <1>12

LEMMA DirectivesFound ==
  ASSUME WellFormed, Settled, Enabled(config, DirectiveRule), NEW p \in ToSet(Definitions),
         NEW dirs, dirs = AppliedTo(Def(p).name)
  PROVE  Cardinality(FoundAt(GapFill, DirectiveRule, ToSet(Parts(Def(p).name))))
            = Len(Kept(OnceOf(dirs), dirs)) - Cardinality(NamesOnce(dirs))
<1> DEFINE all == Definitions \o Extensions
           rule == "possible-type-extension"
           kept == [i \in DOMAIN all |-> When(all[i] = Parts(Def(all[i]).name)[1], all[i])]
           firsts == FlattenSeq(kept)
           once == [i \in DOMAIN firsts |-> NonRepeatableDuplicates(firsts[i], AppliedTo(Def(firsts[i]).name))]
           bases == [i \in DOMAIN Extensions |->
                        When(~Based(Extensions[i]), Violation(rule, Extensions[i], ""))]
           first == NonRepeatableDuplicates(<<0, 0, 0, 0>>, AppliedToSchema)
           Two(b) == IF b THEN FlattenSeq(bases) ELSE <<>>
           at == ToSet(Parts(Def(p).name))
           X == {v \in ToSet(GapFill) : v.rule = DirectiveRule /\ v.pos \in at}
           F == {q \in ToSet(all) : q = Parts(Def(q).name)[1]}
           c == Len(Kept(OnceOf(dirs), dirs)) - Cardinality(NamesOnce(dirs))
<1>1. \E b : GapFill = (first \o FlattenSeq(once)) \o Two(b)
  <2>1. \E b : GapFill = (IF Enabled(config, DirectiveRule) THEN first \o FlattenSeq(once) ELSE <<>>) \o Two(b)
    BY Zenon DEF GapFill, Filter, ForEach, DirectiveRule
  <2> HIDE DEF first, once, Two
  <2> QED
    BY <2>1
<1>2. IsSeq(all) /\ (\A q \in ToSet(all) : IsPlace(q)) /\ IsSeq(Definitions) /\ IsSeq(Extensions)
  BY WrittenAre, PlacesOfBoth DEF Places
<1>3. firsts = Kept(F, all)
  <2>1. \A i \in DOMAIN all : all[i] = Parts(Def(all[i]).name)[1] <=> all[i] \in F
    BY DEF ToSet
  <2> HIDE DEF all, F
  <2>2. kept = [i \in DOMAIN all |-> When(all[i] \in F, all[i])]
    BY <2>1 DEF When
  <2> HIDE DEF kept
  <2> QED
    BY <2>2, Zenon DEF Kept
<1>4. /\ Parts(Def(p).name)[1] = p /\ p \in at /\ p \in F
      /\ Cardinality(Hits(all, {p})) = 1
  <2>1. Cardinality(Hits(Definitions, {p})) = 1 /\ Cardinality(Hits(Extensions, {p})) = 0
    BY DefinedAlone
  <2>2. Cardinality(Hits(all, {p})) = 1
    BY <1>2, <2>1, HitsOfBoth
  <2>3. p \in ToSet(all)
    BY <1>2, ConcatOf
  <2> QED
    BY <2>2, <2>3, FirstPart
<1>5. \A q \in at : Def(q).name = Def(p).name /\ IsPlace(q)
  BY PartsAre DEF Places
<1>6. IsSeq(firsts) /\ ToSet(firsts) = ToSet(all) \cap F /\ Cardinality(Hits(firsts, {p})) = 1
  <2>1. {p} \cap F = {p}
    BY <1>4
  <2> HIDE DEF all, F, firsts
  <2> QED
    BY <1>2, <1>3, <1>4, <2>1, KeptIs, HitsKept
<1> HIDE DEF firsts
<1>7. \A i \in DOMAIN firsts : firsts[i] # p => firsts[i] \notin at
  <2> SUFFICES ASSUME NEW i \in DOMAIN firsts, firsts[i] \in at PROVE firsts[i] = p
    OBVIOUS
  <2>1. firsts[i] = Parts(Def(firsts[i]).name)[1]
    BY <1>6 DEF ToSet
  <2>2. Def(firsts[i]).name = Def(p).name
    BY <1>5
  <2> QED
    BY <1>4, <2>1, <2>2
<1> HIDE DEF F, all, kept
<1>8. ASSUME NEW i \in DOMAIN firsts
      PROVE  /\ IsSeq(once[i]) /\ \A v \in ToSet(once[i]) : v.rule = DirectiveRule /\ v.pos = firsts[i]
             /\ firsts[i] = p => \A Y : (\A v \in ToSet(once[i]) : v \in Y) => Cardinality(Hits(once[i], Y)) = c
  <2> DEFINE q == firsts[i]
             applied == AppliedTo(Def(q).name)
  <2>1. IsSeq(applied) /\ (q = p => applied = dirs)
    BY AppliedAre
  <2>2. once[i] = NonRepeatableDuplicates(q, applied)
    OBVIOUS
  <2> HIDE DEF q, applied, once, X, at, Two, bases, first
  <2>3. /\ IsSeq(once[i]) /\ \A v \in ToSet(once[i]) : v.rule = DirectiveRule /\ v.pos = q
        /\ \A Y : (\A v \in ToSet(once[i]) : v \in Y)
               => Cardinality(Hits(once[i], Y)) = Len(Kept(OnceOf(applied), applied)) - Cardinality(NamesOnce(applied))
    BY <2>1, <2>2, DuplicatesCount
  <2> QED
    BY <2>1, <2>3 DEF q
<1>9. IsSeq(once) /\ DOMAIN once = DOMAIN firsts
  BY <1>6, SeqIs, ListIs
<1>10. IsSeq(first) /\ \A v \in ToSet(first) : v.pos \notin at
  <2> DEFINE zero == <<0, 0, 0, 0>>
  <2>1. IsSeq(first) /\ \A v \in ToSet(first) : v.pos = zero
    BY AppliedToSchemaIs, DuplicatesCount
  <2>2. zero \notin at
    <3> SUFFICES ASSUME zero \in at PROVE FALSE
      OBVIOUS
    <3>1. zero[1] \in DOMAIN sources
      BY <1>5, PlaceIs DEF Within1
    <3>2. zero[1] = 0
      OBVIOUS
    <3>3. 0 \notin DOMAIN sources
      BY SeqIs DEF WellFormed
    <3> QED
      BY <3>1, <3>2, <3>3
  <2> HIDE DEF zero, first, at
  <2> QED
    BY <2>1, <2>2
<1>11. IsSeq(FlattenSeq(bases)) /\ \A v \in ToSet(FlattenSeq(bases)) : v.rule = rule
  <2>1. \A i \in DOMAIN Extensions : \E b, what : bases[i] = When(b, Violation(rule, Extensions[i], what))
    OBVIOUS
  <2>4. \A q, what : Violation(rule, q, what).rule = rule
    BY DEF Violation
  <2>2. DOMAIN bases = DOMAIN Extensions /\ bases = [i \in DOMAIN Extensions |-> bases[i]]
    OBVIOUS
  <2> HIDE DEF bases, rule
  <2>3. \A i \in DOMAIN Extensions : IsSeq(bases[i]) /\ \A v \in ToSet(bases[i]) : v.rule = rule
    <3> SUFFICES ASSUME NEW i \in DOMAIN Extensions
                 PROVE  IsSeq(bases[i]) /\ \A v \in ToSet(bases[i]) : v.rule = rule
      OBVIOUS
    <3>1. PICK b, what : bases[i] = When(b, Violation(rule, Extensions[i], what))
      BY <2>1
    <3> QED
      BY <2>4, <3>1, WhenOf
  <2> QED
    BY <1>2, <2>2, <2>3, FollowedBy
<1> HIDE DEF bases, first, once
<1>12. PICK b : GapFill = (first \o FlattenSeq(once)) \o Two(b)
  BY <1>1
<1>13. IsSeq(Two(b)) /\ \A v \in ToSet(Two(b)) : v.rule = rule
  BY <1>11, NothingIs
<1> HIDE DEF Two
<1>14. IsSeq(FlattenSeq(once)) /\ ToSet(FlattenSeq(once)) = UNION {ToSet(once[i]) : i \in DOMAIN once}
  BY <1>8, <1>9, FlattenOf
<1>15. /\ IsSeq(first \o FlattenSeq(once))
       /\ ToSet(first \o FlattenSeq(once)) = ToSet(first) \cup ToSet(FlattenSeq(once))
  BY <1>10, <1>14, ConcatOf
<1>16. ToSet(GapFill) = (ToSet(first) \cup ToSet(FlattenSeq(once))) \cup ToSet(Two(b))
  BY <1>12, <1>13, <1>15, ConcatOf
<1> HIDE DEF at
<1>17. c \in Nat /\ \A i \in DOMAIN firsts : Cardinality(Hits(once[i], X)) = IF firsts[i] = p THEN c ELSE 0
  <2>1. ASSUME NEW i \in DOMAIN firsts, firsts[i] = p PROVE Cardinality(Hits(once[i], X)) = c
    <3>1. \A v \in ToSet(once[i]) : v \in X
      BY <1>4, <1>8, <1>9, <1>14, <1>16, <2>1
    <3> HIDE DEF X, c
    <3> QED
      BY <1>8, <2>1, <3>1
  <2>2. ASSUME NEW i \in DOMAIN firsts, firsts[i] # p PROVE Cardinality(Hits(once[i], X)) = 0
    <3>1. \A v \in ToSet(once[i]) : v \notin X
      BY <1>7, <1>8, <2>2
    <3> HIDE DEF X, c
    <3> QED
      BY <3>1, HitsOfNone
  <2> HIDE DEF X, c
  <2>3. PICK i \in DOMAIN firsts : firsts[i] = p
    <3>1. Hits(firsts, {p}) # {}
      BY <1>6, FS_EmptySet
    <3> QED
      BY <3>1 DEF Hits
  <2>4. c \in Nat
    <3>1. Cardinality(Hits(once[i], X)) \in Nat
      BY <1>8, HitsAre
    <3> QED
      BY <2>1, <2>3, <3>1
  <2> QED
    BY <2>1, <2>2, <2>4
<1>18. Cardinality(Hits(FlattenSeq(once), X)) = c
  <2>1. \A i \in DOMAIN firsts : IsSeq(once[i])
    BY <1>8
  <2> HIDE DEF X, c
  <2> QED
    BY <1>6, <1>9, <1>17, <2>1, HitsOfTheOne
<1>19. Cardinality(Hits(first, X)) = 0 /\ Cardinality(Hits(Two(b), X)) = 0
  <2>1. \A v \in ToSet(first) : v \notin X
    BY <1>10
  <2>2. rule # DirectiveRule
    BY DEF DirectiveRule
  <2>3. \A v \in ToSet(Two(b)) : v \notin X
    <3> HIDE DEF rule
    <3> QED
      BY <1>13, <2>2
  <2> HIDE DEF X, c
  <2> QED
    BY <2>1, <2>3, HitsOfNone
<1>20. Cardinality(Hits(GapFill, X)) = c
  <2> DEFINE both == first \o FlattenSeq(once)
  <2>1. Cardinality(Hits(both, X)) = Cardinality(Hits(first, X)) + Cardinality(Hits(FlattenSeq(once), X))
    <3> HIDE DEF X
    <3> QED
      BY <1>10, <1>14, HitsOfBoth
  <2>2. Cardinality(Hits(both \o Two(b), X)) = Cardinality(Hits(both, X)) + Cardinality(Hits(Two(b), X))
    <3> HIDE DEF X, both
    <3> QED
      BY <1>13, <1>15, HitsOfBoth DEF both
  <2>3. c \in Nat
    BY <1>17
  <2> HIDE DEF X, c
  <2> QED
    BY <1>12, <1>18, <1>19, <2>1, <2>2, <2>3
<1>21. FoundAt(GapFill, DirectiveRule, at) = Hits(GapFill, X)
  <2>1. \A v \in ToSet(GapFill) : v \in X <=> v.rule = DirectiveRule /\ v.pos \in at
    OBVIOUS
  <2> HIDE DEF X
  <2> QED
    BY <2>1, FoundAreSome
<1> QED
  BY <1>20, <1>21 DEF at

-----------------------------------------------------------------------------
(* The order of the fields. *)

LEMMA WrongsAre ==
  ASSUME NEW g, IsSeq(g)
  PROVE  /\ IsSeq(CheckAlphaOrder(g))
         /\ \A v \in ToSet(CheckAlphaOrder(g)) : v.rule = "alphabetize" /\ v.pos \in ToSet(g)
         /\ Filter(g, InScope) = g =>
                (ToSet(CheckAlphaOrder(g)) = {}
                    <=> \A i \in 2 .. Len(g) : LocaleCompare(NodeAt(g[i - 1]).name, NodeAt(g[i]).name) # 1)
<1> DEFINE rule == "alphabetize"
           s == Filter(g, InScope)
           Wrong(i) == i > 1 /\ LocaleCompare(NodeAt(s[i - 1]).name, NodeAt(s[i]).name) = 1
           seqs == [i \in DOMAIN s |->
               When(i > 1 /\ LocaleCompare(NodeAt(s[i - 1]).name, NodeAt(s[i]).name) = 1,
                    Violation(rule, s[i], ""))]
           C == {i \in DOMAIN s : Wrong(i)}
           m == [i \in DOMAIN s |-> Violation(rule, s[i], "")]
<1>1. CheckAlphaOrder(g) = FlattenSeq(seqs)
  BY Zenon DEF CheckAlphaOrder
<1>2. IsSeq(s) /\ ToSet(s) \subseteq ToSet(g)
  BY WrittenOf
<1> HIDE DEF s
<1>3. Len(s) \in Nat /\ DOMAIN s = 1 .. Len(s)
  BY <1>2, SeqIs
<1>4. IsSeq(seqs) /\ DOMAIN seqs = DOMAIN s /\ C \in SUBSET DOMAIN s
  <2>1. DOMAIN seqs = DOMAIN s /\ seqs = [i \in DOMAIN seqs |-> seqs[i]]
    OBVIOUS
  <2> HIDE DEF seqs
  <2> QED
    BY <1>3, <2>1, ListIs
<1>5. \A i \in DOMAIN s : seqs[i] = When(i \in C, m[i])
  <2> SUFFICES ASSUME NEW i \in DOMAIN s PROVE seqs[i] = When(i \in C, m[i])
    OBVIOUS
  <2>1. seqs[i] = When(Wrong(i), m[i]) /\ (i \in C <=> Wrong(i))
    OBVIOUS
  <2> HIDE DEF Wrong, C, m, seqs
  <2> QED
    BY <2>1 DEF When
<1>6. \A i \in DOMAIN s : m[i].rule = rule /\ m[i].pos = s[i]
  BY DEF Violation
<1> HIDE DEF seqs, m, rule
<1>7. IsSeq(FlattenSeq(seqs)) /\ ToSet(FlattenSeq(seqs)) = {m[i] : i \in C}
  <2> HIDE DEF C
  <2> QED
    BY <1>2, <1>4, <1>5, SomeMade
<1>8. \A v \in ToSet(CheckAlphaOrder(g)) : v.rule = rule /\ v.pos \in ToSet(g)
  <2> SUFFICES ASSUME NEW v \in ToSet(CheckAlphaOrder(g)) PROVE v.rule = rule /\ v.pos \in ToSet(g)
    OBVIOUS
  <2>1. PICK i \in DOMAIN s : v = m[i]
    BY <1>1, <1>4, <1>7
  <2> QED
    BY <1>2, <1>6, <2>1 DEF ToSet
<1>9. ASSUME s = g
      PROVE  ToSet(CheckAlphaOrder(g)) = {}
                <=> \A i \in 2 .. Len(g) : LocaleCompare(NodeAt(g[i - 1]).name, NodeAt(g[i]).name) # 1
  <2>1. ToSet(CheckAlphaOrder(g)) = {} <=> C = {}
    BY <1>1, <1>7
  <2>2. \A i : i \in 2 .. Len(s) <=> i \in DOMAIN s /\ i > 1
    BY <1>3
  <2>3. C = {} <=> \A i \in 2 .. Len(s) : LocaleCompare(NodeAt(s[i - 1]).name, NodeAt(s[i]).name) # 1
    <3>1. C = {} <=> \A i \in DOMAIN s : ~Wrong(i)
      OBVIOUS
    <3> QED
      BY <2>2, <3>1
  <2> QED
    BY <1>9, <2>1, <2>3
<1> QED
  BY <1>1, <1>7, <1>8, <1>9 DEF s, rule

(* Each after the next is each after all. *)
LEMMA InOrder ==
  ASSUME NEW n \in Nat, NEW names, DOMAIN names = 1 .. n, \A i \in 1 .. n : names[i] \in Name
  PROVE  (\A i \in 2 .. n : LocaleCompare(names[i - 1], names[i]) # 1)
            <=> \A i, j \in 1 .. n : i < j => ~Less(SortKey(names[j]), SortKey(names[i]))
<1> DEFINE k == [i \in 1 .. n |-> SortKey(names[i])]
<1>1. k \in [1 .. n -> Seq(Int)] /\ \A i \in 1 .. n : k[i] = SortKey(names[i])
  <2>1. \A i \in 1 .. n : SortKey(names[i]) \in Seq(Int)
    BY SortKeyIs
  <2> QED
    BY <2>1
<1> HIDE DEF k
<1>2. \A i \in 2 .. n : i \in 1 .. n /\ i - 1 \in 1 .. n /\ i - 1 < i
  OBVIOUS
<1>3. \A i \in 2 .. n : LocaleCompare(names[i - 1], names[i]) = 1 <=> Less(k[i], k[i - 1])
  BY <1>1, <1>2, LocaleCompareIs
<1>4. ASSUME \A i \in 2 .. n : ~Less(k[i], k[i - 1])
      PROVE  \A i, j \in 1 .. n : i < j => ~Less(k[j], k[i])
  BY <1>1, <1>4, OrderedThroughout
<1>5. ASSUME \A i, j \in 1 .. n : i < j => ~Less(k[j], k[i])
      PROVE  \A i \in 2 .. n : ~Less(k[i], k[i - 1])
  BY <1>2, <1>5
<1>6. (\A i \in 2 .. n : LocaleCompare(names[i - 1], names[i]) # 1) <=> \A i \in 2 .. n : ~Less(k[i], k[i - 1])
  BY <1>3
<1>7. (\A i, j \in 1 .. n : i < j => ~Less(k[j], k[i]))
          <=> \A i, j \in 1 .. n : i < j => ~Less(SortKey(names[j]), SortKey(names[i]))
  BY <1>1
<1> QED
  BY <1>4, <1>5, <1>6, <1>7

(* What alphabetize's options say of the fields of a definition. *)
OrdersFields(p) ==
  \/ /\ Def(p).kind \in {"Object", "Interface", "InputObject"}
     /\ KindKey[Def(p).kind] \in SliceOption(Options(config, "alphabetize"), "fields")
  \/ Def(p).kind = "Enum" /\ KindKey[Def(p).kind] \in SliceOption(Options(config, "alphabetize"), "values")

Off(g, at) == IsSeq(g) /\ \A x \in ToSet(g) : x \notin at

(* An argument is no field. *)
LEMMA ArgumentsOff ==
  ASSUME WellFormed, NEW p, IsPlace(p), NEW f, IsMember(f)
  PROVE  Off(Arguments(f), ToSet(Fields(p)))
<1>1. PICK s \in DOMAIN sources : \E i \in DOMAIN sources[s].defs : \E j \in DOMAIN sources[s].defs[i].nodes :
          f = <<s, i, j, 0>>
  BY DEF IsMember
<1>2. PICK i \in DOMAIN sources[s].defs : \E j \in DOMAIN sources[s].defs[i].nodes : f = <<s, i, j, 0>>
  BY <1>1
<1>3. PICK j \in DOMAIN sources[s].defs[i].nodes : f = <<s, i, j, 0>>
  BY <1>2
<1>4. IsDefinition(sources[s].defs[i])
  BY DefIs
<1>5. j # 0 /\ IsNode(sources[s].defs[i].nodes[j])
  BY <1>4, SeqIs DEF IsDefinition
<1>6. IsSeq(sources[s].defs[i].nodes[j].args)
  BY <1>5 DEF IsNode
<1>7. ASSUME NEW x \in ToSet(Arguments(f)) PROVE x[4] # 0
  <2>1. PICK k \in DOMAIN sources[s].defs[i].nodes[j].args : x = <<s, i, j, k>>
    BY <1>3, <1>5, ArgumentsAre
  <2>2. k # 0
    BY <1>6, SeqIs
  <2> QED
    BY <2>1, <2>2
<1>8. NodeAt(f).args = sources[s].defs[i].nodes[j].args
  BY <1>3, <1>5 DEF NodeAt, Def
<1>9. IsSeq(Arguments(f))
  <2> DEFINE args == NodeAt(f).args
  <2>1. IsSeq(args)
    BY <1>6, <1>8
  <2>2. Len(args) \in Nat /\ DOMAIN args = 1 .. Len(args)
    BY <2>1, SeqIs
  <2>3. DOMAIN Arguments(f) = DOMAIN args /\ Arguments(f) = [k \in DOMAIN Arguments(f) |-> Arguments(f)[k]]
    BY DEF Arguments
  <2> HIDE DEF args
  <2> QED
    BY <2>2, <2>3, ListIs
<1> QED
  BY <1>7, <1>9, FieldsOf DEF Off

(* What is put in order of a definition. *)
LEMMA AlphabetizedOf ==
  ASSUME WellFormed, NEW p, IsPlace(p), NEW q, IsPlace(q), Def(q).name # Def(p).name \/ q = p
  PROVE  /\ IsSeq(Alphabetized(q))
         /\ \A g \in ToSet(Alphabetized(q)) : Off(g, ToSet(Fields(p))) \/ (q = p /\ g = Fields(p))
         /\ q = p /\ OrdersFields(p) => Fields(p) \in ToSet(Alphabetized(q))
<1> DEFINE fields == Fields(q)
           at == ToSet(Fields(p))
           arguments == [j \in DOMAIN fields |-> Arguments(fields[j])]
           c == OrdersFields(q)
           Good(g) == Off(g, at) \/ (q = p /\ g = Fields(p))
           first == When(c, fields)
<1>1. Alphabetized(q) = first \o arguments \/ Alphabetized(q) = first \o <<>>
  BY Zenon DEF Alphabetized, OrdersFields
<1>2. IsSeq(fields) /\ (\A j \in DOMAIN fields : IsMember(fields[j])) /\ \A f \in ToSet(fields) : Def(f).name = Def(q).name
  BY FieldsAre, FieldsOf DEF ToSet
<1>3. \A f \in at : Def(f).name = Def(p).name
  BY FieldsOf
<1>4. Good(fields)
  <2>1. CASE q = p
    BY <2>1
  <2>2. CASE q # p
    <3> HIDE DEF fields, at
    <3>1. Off(fields, at)
      BY <1>2, <1>3, <2>2 DEF Off
    <3> QED
      BY <3>1
  <2> QED
    BY <2>1, <2>2
<1> HIDE DEF fields
<1>5. IsSeq(arguments) /\ \A g \in ToSet(arguments) : Off(g, at)
  <2>1. IsSeq(arguments)
    <3>1. Len(fields) \in Nat /\ DOMAIN fields = 1 .. Len(fields)
      BY <1>2, SeqIs
    <3>2. DOMAIN arguments = DOMAIN fields /\ arguments = [j \in DOMAIN arguments |-> arguments[j]]
      OBVIOUS
    <3> HIDE DEF arguments
    <3> QED
      BY <3>1, <3>2, ListIs
  <2>2. \A j \in DOMAIN fields : Off(arguments[j], at)
    BY <1>2, ArgumentsOff
  <2> QED
    BY <2>1, <2>2 DEF ToSet
<1> HIDE DEF arguments, c, at
<1>6. IsSeq(first) /\ \A g \in ToSet(first) : Good(g)
  <2>1. \A g \in ToSet(first) : g = fields
    <3>1. CASE c
      <4>1. first = <<fields>>
        BY <3>1 DEF When
      <4> QED
        BY <4>1, OneIs
    <3>2. CASE ~c
      <4>1. first = <<>>
        BY <3>2 DEF When
      <4> QED
        BY <4>1, NothingIs
    <3> QED
      BY <3>1, <3>2
  <2> HIDE DEF Good
  <2> QED
    BY <1>4, <2>1, WhenOf
<1>7. c => fields \in ToSet(first)
  <2> SUFFICES ASSUME c PROVE fields \in ToSet(first)
    OBVIOUS
  <2>1. first = <<fields>>
    BY DEF When
  <2> QED
    BY <2>1, OneIs
<1> HIDE DEF first
<1>8. /\ IsSeq(first \o arguments) /\ ToSet(first \o arguments) = ToSet(first) \cup ToSet(arguments)
      /\ IsSeq(first \o <<>>) /\ ToSet(first \o <<>>) = ToSet(first) \cup {}
  <2>1. IsSeq(first) /\ IsSeq(arguments) /\ IsSeq(<<>>) /\ ToSet(<<>>) = {}
    BY <1>5, <1>6, NothingIs
  <2> HIDE DEF Good
  <2> QED
    BY <2>1, ConcatOf
<1>9. \A g \in ToSet(arguments) : Good(g)
  BY <1>5
<1>10. /\ IsSeq(Alphabetized(q)) /\ \A g \in ToSet(Alphabetized(q)) : Good(g)
       /\ ToSet(first) \subseteq ToSet(Alphabetized(q))
  <2> HIDE DEF Good
  <2> QED
    BY <1>1, <1>6, <1>8, <1>9
<1> QED
  BY <1>7, <1>10 DEF at, c, fields

(* The violations at the fields of a definition are of their order. *)
LEMMA AlphabetizeFound ==
  ASSUME WellFormed, Settled, Enabled(config, "alphabetize"),
         NEW p \in ToSet(Definitions), InScope(p), OrdersFields(p)
  PROVE  Cardinality(FoundAt(Tier3Alphabetize, "alphabetize", ToSet(Fields(p)))) = 0
            <=> ToSet(CheckAlphaOrder(Fields(p))) = {}
<1> DEFINE ds == AllDefinitions
           rule == "alphabetize"
           at == ToSet(Fields(p))
           wrongs == ToSet(CheckAlphaOrder(Fields(p)))
           Of(q) == [j \in DOMAIN Alphabetized(q) |-> CheckAlphaOrder(Alphabetized(q)[j])]
           seqs == [i \in DOMAIN ds |-> FlattenSeq(Of(ds[i]))]
           own == [i \in DOMAIN Directives |-> CheckAlphaOrder(Own(Directives[i]))]
           two == IF "DirectiveDefinition" \in SliceOption(Options(config, rule), "arguments")
                    THEN FlattenSeq(own) ELSE <<>>
           Good(v) == v.rule = rule /\ (v.pos \in at => v \in wrongs)
<1>1. Tier3Alphabetize = FlattenSeq(seqs) \o two
  <2>1. Tier3Alphabetize = IF ~Enabled(config, rule) THEN <<>> ELSE FlattenSeq(seqs) \o two
    BY Zenon DEF Tier3Alphabetize, ForEach
  <2> HIDE DEF seqs, two
  <2> QED
    BY <2>1
<1>2. /\ IsSeq(ds) /\ p \in ToSet(ds) /\ \A q \in ToSet(ds) : IsPlace(q) /\ (q # p => Def(q).name # Def(p).name)
      /\ IsSeq(Directives) /\ \A d \in ToSet(Directives) : IsPlace(d) /\ Def(d).kind = "Directive"
      /\ IsPlace(p)
  BY AmongAllOnce, AllDefinitionsAre, WrittenAre, KindsAre DEF Places
<1>3. /\ IsSeq(Fields(p)) /\ \A f \in at : Def(f).kind \in TypeKinds
      /\ \A v \in wrongs : v.rule = rule /\ v.pos \in at
  BY <1>2, FieldsOf, FieldsInScope, WrongsAre
<1>4. ASSUME NEW g, Off(g, at) PROVE IsSeq(CheckAlphaOrder(g)) /\ \A v \in ToSet(CheckAlphaOrder(g)) : Good(v)
  BY <1>4, WrongsAre DEF Off
<1>5. IsSeq(CheckAlphaOrder(Fields(p))) /\ \A v \in wrongs : Good(v)
  BY <1>3, WrongsAre
<1> HIDE DEF Good, at, wrongs
<1>6. ASSUME NEW q \in ToSet(ds)
      PROVE  /\ IsSeq(FlattenSeq(Of(q))) /\ \A v \in ToSet(FlattenSeq(Of(q))) : Good(v)
             /\ q = p => wrongs \subseteq ToSet(FlattenSeq(Of(q)))
  <2> DEFINE gs == Alphabetized(q)
             in == [j \in DOMAIN gs |-> CheckAlphaOrder(gs[j])]
  <2>1. Of(q) = in
    OBVIOUS
  <2>2. /\ IsSeq(gs) /\ \A g \in ToSet(gs) : Off(g, at) \/ g = Fields(p)
        /\ q = p => Fields(p) \in ToSet(gs)
    BY <1>2, AlphabetizedOf DEF at
  <2> HIDE DEF gs, Of
  <2>3. DOMAIN in = DOMAIN gs /\ in = [j \in DOMAIN gs |-> in[j]]
    OBVIOUS
  <2>4. \A j \in DOMAIN gs : IsSeq(in[j]) /\ \A v \in ToSet(in[j]) : Good(v)
    <3> SUFFICES ASSUME NEW j \in DOMAIN gs PROVE IsSeq(in[j]) /\ \A v \in ToSet(in[j]) : Good(v)
      OBVIOUS
    <3>1. in[j] = CheckAlphaOrder(gs[j]) /\ (Off(gs[j], at) \/ gs[j] = Fields(p))
      BY <2>2 DEF ToSet
    <3> HIDE DEF in
    <3> QED
      BY <1>4, <1>5, <3>1 DEF wrongs
  <2>5. q = p => \E j \in DOMAIN gs : ToSet(in[j]) = wrongs
    BY <2>2 DEF ToSet, wrongs
  <2> HIDE DEF in
  <2>6. IsSeq(FlattenSeq(in)) /\ ToSet(FlattenSeq(in)) = UNION {ToSet(in[j]) : j \in DOMAIN gs}
    BY <2>2, <2>3, <2>4, FollowedBy
  <2> QED
    BY <2>1, <2>4, <2>5, <2>6
<1>7. IsSeq(FlattenSeq(seqs)) /\ (\A v \in ToSet(FlattenSeq(seqs)) : Good(v)) /\ wrongs \subseteq ToSet(FlattenSeq(seqs))
  <2>1. DOMAIN seqs = DOMAIN ds /\ seqs = [i \in DOMAIN ds |-> seqs[i]]
    OBVIOUS
  <2>2. \A i \in DOMAIN ds : /\ IsSeq(seqs[i]) /\ \A v \in ToSet(seqs[i]) : Good(v)
                             /\ ds[i] = p => wrongs \subseteq ToSet(seqs[i])
    <3> SUFFICES ASSUME NEW i \in DOMAIN ds
                 PROVE  /\ IsSeq(seqs[i]) /\ \A v \in ToSet(seqs[i]) : Good(v)
                        /\ ds[i] = p => wrongs \subseteq ToSet(seqs[i])
      OBVIOUS
    <3>1. seqs[i] = FlattenSeq(Of(ds[i])) /\ ds[i] \in ToSet(ds)
      BY DEF ToSet
    <3> HIDE DEF seqs, Of, ds
    <3> QED
      BY <1>6, <3>1
  <2>3. \E i \in DOMAIN ds : ds[i] = p
    BY <1>2 DEF ToSet
  <2> HIDE DEF seqs, ds
  <2>4. IsSeq(FlattenSeq(seqs)) /\ ToSet(FlattenSeq(seqs)) = UNION {ToSet(seqs[i]) : i \in DOMAIN ds}
    BY <1>2, <2>1, <2>2, FollowedBy
  <2> QED
    BY <2>2, <2>3, <2>4
<1> HIDE DEF seqs
<1>8. IsSeq(two) /\ \A v \in ToSet(two) : Good(v)
  <2>1. \A i \in DOMAIN Directives : Off(Own(Directives[i]), at)
    <3> SUFFICES ASSUME NEW i \in DOMAIN Directives PROVE Off(Own(Directives[i]), at)
      OBVIOUS
    <3>1. IsPlace(Directives[i]) /\ Def(Directives[i]).kind = "Directive"
      BY <1>2 DEF ToSet
    <3>2. IsSeq(Own(Directives[i])) /\ \A x \in ToSet(Own(Directives[i])) : Def(x).kind = "Directive"
      BY <3>1, OwnAre, MemberOf
    <3> QED
      BY <1>3, <3>2 DEF Off, TypeKinds
  <2>2. DOMAIN own = DOMAIN Directives /\ own = [i \in DOMAIN Directives |-> own[i]]
    OBVIOUS
  <2>3. \A i \in DOMAIN Directives : IsSeq(own[i]) /\ \A v \in ToSet(own[i]) : Good(v)
    BY <1>4, <2>1
  <2> HIDE DEF own
  <2>4. IsSeq(FlattenSeq(own)) /\ ToSet(FlattenSeq(own)) = UNION {ToSet(own[i]) : i \in DOMAIN Directives}
    BY <1>2, <2>2, <2>3, FollowedBy
  <2>5. two = FlattenSeq(own) \/ two = <<>>
    OBVIOUS
  <2> HIDE DEF two
  <2> QED
    BY <2>3, <2>4, <2>5, NothingIs
<1> HIDE DEF two
<1> DEFINE vs == Tier3Alphabetize
           X == {v \in ToSet(vs) : v.rule = rule /\ v.pos \in at}
<1>9. IsSeq(vs) /\ (\A v \in ToSet(vs) : Good(v)) /\ wrongs \subseteq ToSet(vs)
  <2>1. IsSeq(vs) /\ ToSet(vs) = ToSet(FlattenSeq(seqs)) \cup ToSet(two)
    BY <1>1, <1>7, <1>8, ConcatOf
  <2> HIDE DEF vs
  <2> QED
    BY <1>7, <1>8, <2>1
<1> HIDE DEF vs
<1>10. X = wrongs
  BY <1>3, <1>9 DEF Good
<1>11. FoundAt(vs, rule, at) = Hits(vs, X)
  <2>1. \A v \in ToSet(vs) : v \in X <=> v.rule = rule /\ v.pos \in at
    OBVIOUS
  <2> HIDE DEF X
  <2> QED
    BY <2>1, FoundAreSome
<1>12. Cardinality(Hits(vs, wrongs)) = 0 <=> wrongs = {}
  <2>1. IsFiniteSet(Hits(vs, wrongs))
    BY <1>9, HitsAre
  <2>2. Cardinality(Hits(vs, wrongs)) = 0 <=> Hits(vs, wrongs) = {}
    BY <2>1, FS_EmptySet
  <2>3. Hits(vs, wrongs) = {} <=> wrongs = {}
    BY <1>9 DEF Hits, ToSet
  <2> QED
    BY <2>2, <2>3
<1> HIDE DEF X
<1> QED
  BY <1>10, <1>11, <1>12 DEF vs, at, wrongs

(* What ExtensionsAreOne says of one definition. *)
OneIn(p) ==
  LET fields == Fields(p)
      names == [i \in DOMAIN fields |-> NodeAt(fields[i]).name]
      once == {d.name : d \in {d \in ToSet(AppliedTo(Def(p).name)) : ~Repeatable(d.name)}}
      Reports(rule, at) == Cardinality({i \in DOMAIN raised : raised[i].rule = rule /\ raised[i].pos \in at})
  IN /\ Def(p).kind = "Enum" /\ Enabled(config, "no-case-insensitive-enum-values-duplicates") =>
           Reports("no-case-insensitive-enum-values-duplicates", ToSet(fields))
               = Len(names) - Cardinality({Lower(names[i]) : i \in DOMAIN names})
     /\ Enabled(config, "unique-directive-names-per-location") =>
           Reports("unique-directive-names-per-location", ToSet(Parts(Def(p).name)))
               = Len(Filter(AppliedTo(Def(p).name), LAMBDA d : d.name \in once)) - Cardinality(once)
     /\ /\ Enabled(config, "alphabetize")
        /\ \/ Def(p).kind \in {"Object", "Interface", "InputObject"}
              /\ KindKey[Def(p).kind] \in SliceOption(Options(config, "alphabetize"), "fields")
           \/ Def(p).kind = "Enum" /\ KindKey["Enum"] \in SliceOption(Options(config, "alphabetize"), "values")
        => (Reports("alphabetize", ToSet(fields)) = 0
               <=> \A i, j \in DOMAIN names : i < j => ~Less(SortKey(names[j]), SortKey(names[i])))

LEMMA UsesOnce ==
  ASSUME NEW dirs
  PROVE  Filter(dirs, LAMBDA d : d.name \in NamesOnce(dirs)) = Kept(OnceOf(dirs), dirs)
<1> DEFINE once == NamesOnce(dirs)
           T == OnceOf(dirs)
<1>1. \A i \in DOMAIN dirs : dirs[i].name \in once <=> dirs[i] \in T
  BY DEF NamesOnce, OnceOf, ToSet
<1> HIDE DEF once, T
<1>2. [i \in DOMAIN dirs |-> When(dirs[i].name \in once, dirs[i])] = [i \in DOMAIN dirs |-> When(dirs[i] \in T, dirs[i])]
  BY <1>1 DEF When
<1>3. Filter(dirs, LAMBDA d : d.name \in once) = Kept(T, dirs)
  BY <1>2, Zenon DEF Filter, ForEach, Kept
<1> QED
  BY <1>3 DEF once, T

LEMMA OneInEach ==
  ASSUME WellFormed, Settled, Counted(raised), NEW p \in ToSet(Definitions), InScope(p)
  PROVE  OneIn(p)
<1> DEFINE fields == Fields(p)
           names == [i \in DOMAIN fields |-> NodeAt(fields[i]).name]
           dirs == AppliedTo(Def(p).name)
           n == Len(fields)
           FoundBy(rule, at) == FoundAt(raised, rule, at)
           ordered == \A i, j \in DOMAIN names : i < j => ~Less(SortKey(names[j]), SortKey(names[i]))
<1>1. IsPlace(p)
  BY WrittenAre DEF Places
<1>2. /\ IsSeq(fields) /\ n \in Nat /\ DOMAIN fields = 1 .. n
      /\ \A f \in ToSet(fields) : NodeAt(f).name \in Name
      /\ Filter(fields, InScope) = fields
  BY <1>1, FieldsOf, FieldsInScope, SeqIs
<1>3. DOMAIN names = 1 .. n /\ (\A i \in 1 .. n : names[i] = NodeAt(fields[i]).name) /\ \A i \in 1 .. n : names[i] \in Name
  BY <1>2 DEF ToSet
<1>4. Len(names) = n
  <2>1. DOMAIN names = 1 .. n /\ names = [i \in DOMAIN names |-> names[i]]
    BY <1>2
  <2> HIDE DEF names, n, fields
  <2>2. IsSeq(names)
    BY <1>2, <2>1, ListIs
  <2>3. Len(names) \in Nat /\ DOMAIN names = 1 .. Len(names)
    BY <2>2, SeqIs
  <2> QED
    BY <1>2, <2>1, <2>3
<1>5. {Lower(names[i]) : i \in DOMAIN names} = Spellings(fields)
  BY DEF Spellings
<1>6. ASSUME Def(p).kind = "Enum", Enabled(config, EnumRule)
      PROVE  Cardinality(FoundBy(EnumRule, ToSet(fields))) = Len(names) - Cardinality({Lower(names[i]) : i \in DOMAIN names})
  <2>1. Cardinality(FoundAt(Tier3EnumDuplicates, EnumRule, ToSet(fields))) = Len(fields) - Cardinality(Spellings(fields))
    BY <1>6, EnumCount
  <2>2. Cardinality(FoundBy(EnumRule, ToSet(fields))) = Cardinality(FoundAt(Tier3EnumDuplicates, EnumRule, ToSet(fields)))
    BY <1>6 DEF Counted, SameFound, EnumRule
  <2> HIDE DEF fields, names, FoundBy
  <2> QED
    BY <1>4, <1>5, <2>1, <2>2 DEF n
<1>7. ASSUME Enabled(config, DirectiveRule)
      PROVE  Cardinality(FoundBy(DirectiveRule, ToSet(Parts(Def(p).name))))
                = Len(Filter(dirs, LAMBDA d : d.name \in NamesOnce(dirs))) - Cardinality(NamesOnce(dirs))
  <2>1. Cardinality(FoundAt(GapFill, DirectiveRule, ToSet(Parts(Def(p).name))))
            = Len(Kept(OnceOf(dirs), dirs)) - Cardinality(NamesOnce(dirs))
    BY <1>7, DirectivesFound
  <2>2. Cardinality(FoundBy(DirectiveRule, ToSet(Parts(Def(p).name))))
            = Cardinality(FoundAt(GapFill, DirectiveRule, ToSet(Parts(Def(p).name))))
    BY DEF Counted, SameFound, DirectiveRule
  <2>3. Filter(dirs, LAMBDA d : d.name \in NamesOnce(dirs)) = Kept(OnceOf(dirs), dirs)
    BY UsesOnce
  <2> HIDE DEF dirs, FoundBy
  <2> QED
    BY <2>1, <2>2, <2>3
<1>8. ASSUME Enabled(config, "alphabetize"), OrdersFields(p)
      PROVE  Cardinality(FoundBy("alphabetize", ToSet(fields))) = 0 <=> ordered
  <2>1. Cardinality(FoundBy("alphabetize", ToSet(fields))) = Cardinality(FoundAt(Tier3Alphabetize, "alphabetize", ToSet(fields)))
    BY <1>8 DEF Counted, SameFound
  <2>2. Cardinality(FoundAt(Tier3Alphabetize, "alphabetize", ToSet(fields))) = 0 <=> ToSet(CheckAlphaOrder(fields)) = {}
    BY <1>8, AlphabetizeFound
  <2>3. ToSet(CheckAlphaOrder(fields)) = {}
            <=> \A i \in 2 .. n : LocaleCompare(NodeAt(fields[i - 1]).name, NodeAt(fields[i]).name) # 1
    BY <1>2, WrongsAre
  <2> HIDE DEF fields, names, n, FoundBy
  <2>4. \A i \in 2 .. n : i \in 1 .. n /\ i - 1 \in 1 .. n
    BY <1>2
  <2>5. (\A i \in 2 .. n : LocaleCompare(NodeAt(fields[i - 1]).name, NodeAt(fields[i]).name) # 1)
            <=> \A i \in 2 .. n : LocaleCompare(names[i - 1], names[i]) # 1
    BY <1>3, <2>4
  <2>6. (\A i \in 2 .. n : LocaleCompare(names[i - 1], names[i]) # 1) <=> ordered
    BY <1>2, <1>3, InOrder
  <2> HIDE DEF ordered
  <2> QED
    BY <2>1, <2>2, <2>3, <2>5, <2>6
<1>9. /\ Def(p).kind \in {"Object", "Interface", "InputObject"}
            /\ KindKey[Def(p).kind] \in SliceOption(Options(config, "alphabetize"), "fields") => OrdersFields(p)
      /\ Def(p).kind = "Enum" /\ KindKey["Enum"] \in SliceOption(Options(config, "alphabetize"), "values") => OrdersFields(p)
  BY DEF OrdersFields
<1>10. \A rule, at : FoundBy(rule, at) = {i \in DOMAIN raised : raised[i].rule = rule /\ raised[i].pos \in at}
  BY DEF FoundAt
<1>11. NamesOnce(dirs) = {d.name : d \in {d \in ToSet(AppliedTo(Def(p).name)) : ~Repeatable(d.name)}}
  BY Zenon DEF NamesOnce, OnceOf
<1> QED
  BY <1>6, <1>7, <1>8, <1>9, Zenon DEF OneIn, EnumRule, DirectiveRule, FoundAt, NamesOnce, OnceOf

(***************************************************************************)
(* Whatever the schema, a type and its extensions are one for the rules    *)
(* that compare its parts: all but one of each spelling of an enum's       *)
(* values are reported, all but one of the uses of a directive that is not *)
(* repeatable, and fields exactly when they are not in order -- although a *)
(* field may be written in any file, names are compared only with their    *)
(* neighbours, and the eight goroutines of tier3 end in any order          *)
(* (ValidateSchemaDocument's merge, nonRepeatableDuplicates,               *)
(* CheckAlphaOrder, tier3).                                                *)
(***************************************************************************)
THEOREM ExtensionsAreOneHolds == Spec => []ExtensionsAreOne
<1>1. Init => Locating /\ Importing /\ Reporting
  <2>1. Init => Locating
    BY LocatingInit DEF Init
  <2>2. Init => Importing
    BY Zenon DEF Init, InitConfig, Importing
  <2> QED
    BY <2>1, <2>2, ReportingInit
<1>2. Locating /\ Importing /\ Reporting /\ [Next]_vars => (Locating /\ Importing /\ Reporting)'
  BY LocatingStep, ImportingStep, ReportingStep
<1>3. Reporting => ExtensionsAreOne
  <2>1. ASSUME Reporting, pc = "done", NEW p \in {p \in ToSet(Definitions) : InScope(p)}
        PROVE  OneIn(p)
    BY <2>1, OneInEach DEF Reporting
  <2> QED
    BY <2>1, Zenon DEF ExtensionsAreOne, OneIn
<1> QED
  BY <1>1, <1>2, <1>3, PTL DEF Spec

-----------------------------------------------------------------------------
(* The types of the variables. *)

NoCause == ""

ConfiguredRightly ==
  /\ DOMAIN config.rules \cap Tier1Rules = {}
  /\ \A r \in DOMAIN config.rules : config.rules[r].severity \in Severities

Typed ==
  /\ pc \in Stages
  /\ dir = SubSeq(world.cwd, 1, Len(dir))
  /\ configDir = <<>> \/ configDir[1] \in DOMAIN world.configs
  /\ \A f \in ToSet(files) : f.path \in DOMAIN world.tree
  /\ ConfiguredRightly
  /\ cause # NoCause => pc = "error"

LEMMA WholeOf ==
  ASSUME NEW s \in Path
  PROVE  s = SubSeq(s, 1, Len(s))
BY DEF Path

LEMMA TypedInit == Init => Typed
<1> SUFFICES ASSUME Init PROVE Typed
  OBVIOUS
<1>1. /\ world \in Worlds /\ dir = world.cwd /\ configDir = <<>> /\ files = <<>> /\ config = BuiltIn
      /\ cause = NoCause /\ pc \in {"discover", "load"}
  BY Zenon DEF Init, InitConfig, NoCause
<1>2. world.cwd \in Path
  BY <1>1, WorldIs DEF IsWorld
<1>3. dir = SubSeq(world.cwd, 1, Len(dir))
  BY <1>1, <1>2, WholeOf
<1>4. DOMAIN config.rules = {}
  BY <1>1, Zenon DEF BuiltIn
<1>5. ConfiguredRightly
  BY <1>4 DEF ConfiguredRightly
<1> QED
  BY <1>1, <1>3, <1>5, NothingIs DEF Typed, Stages

LEMMA DecodedRightly ==
  ASSUME NEW raw, ~BadConfig(raw), config' = Lint(raw)
  PROVE  ConfiguredRightly'
<1>1. /\ DOMAIN config'.rules = DOMAIN raw.rules
      /\ \A r \in DOMAIN raw.rules : config'.rules[r].severity = raw.rules[r].items[1][2]
  BY DEF Lint, DecodeRule
<1>2. ASSUME NEW r \in DOMAIN raw.rules PROVE raw.rules[r].items[1][2] \in Severities
  <2>1. ~BadRule(raw.rules[r])
    BY DEF BadConfig
  <2>2. PICK s \in Severities : raw.rules[r].items[1] = <<"string", s>>
    BY <2>1 DEF BadRule
  <2> QED
    BY <2>2
<1>3. DOMAIN raw.rules \cap Tier1Rules = {}
  BY DEF BadConfig
<1> QED
  BY <1>1, <1>2, <1>3 DEF ConfiguredRightly

LEMMA FoundInTree ==
  ASSUME NEW f \in FilesTaken
  PROVE  f.path \in DOMAIN world.tree
<1>1. PICK a : f \in Found(world, a)
  BY DEF FilesTaken, FilesNamed
<1> QED
  BY <1>1 DEF Found

LEMMA TypedConfigure ==
  ASSUME Locating, Locating', Typed, Configure
  PROVE  Typed'
<1>1. UNCHANGED <<world, cause>> /\ cause = NoCause
  BY DEF Configure, Discover, LoadFile, Find, ruleVars, Typed
<1>2. world \in Worlds /\ IsWorld(world) /\ world.cwd \in Path
  BY WorldIs DEF Locating, IsWorld
<1>3. CASE Discover
  <2>1. pc = "discover" /\ dir \in Path /\ IsPrefix(dir, world.cwd) /\ UNCHANGED <<config, files>>
    BY <1>3 DEF Discover, Locating, Searching
  <2>2. /\ dir' = dir \/ (dir' = Front(dir) /\ dir # <<>>)
        /\ configDir' = configDir \/ (configDir' = <<dir>> /\ dir \in DOMAIN world.configs)
        /\ pc' \in {"discover", "load", "find"}
    BY <1>3, <2>1 DEF Discover, AtTop
  <2>3. dir' = SubSeq(world.cwd, 1, Len(dir'))
    <3>1. CASE dir' = dir
      BY <3>1 DEF Typed
    <3>2. CASE dir' = Front(dir) /\ dir # <<>>
      <4>1. Front(dir) \in Path /\ IsPrefix(Front(dir), world.cwd)
        BY <1>2, <2>1, <3>2, Parent
      <4> QED
        BY <1>2, <3>2, <4>1, PrefixIs
    <3> QED
      BY <2>2, <3>1, <3>2
  <2>4. configDir' = <<>> \/ configDir'[1] \in DOMAIN world.configs
    BY <2>2 DEF Typed
  <2> QED
    BY <1>1, <2>1, <2>2, <2>3, <2>4 DEF Typed, ConfiguredRightly, Stages
<1>4. CASE LoadFile
  <2>1. UNCHANGED <<dir, configDir, files>> /\ pc' \in {"error", "find"}
    BY <1>4 DEF LoadFile
  <2>2. config' = config \/ (~BadConfig(ConfigFile) /\ config' = Lint(ConfigFile))
    BY <1>4 DEF LoadFile
  <2>3. ConfiguredRightly'
    BY <2>2, DecodedRightly DEF Typed, ConfiguredRightly
  <2> QED
    BY <1>1, <2>1, <2>3 DEF Typed, Stages
<1>5. CASE Find
  <2>1. /\ UNCHANGED <<dir, config, configDir>>
        /\ (pc' = "error" /\ files' = files) \/ pc' = "prelude"
    BY <1>5 DEF Find
  <2>2. \A f \in ToSet(files') : f.path \in DOMAIN world'.tree
    <3>1. CASE pc' = "prelude"
      <4>1. ToSet(files)' = FilesTaken'
        BY <3>1 DEF Locating, Gathered, Stages
      <4>2. \A f \in FilesTaken' : f.path \in DOMAIN world'.tree
        <5>1. \A f \in FilesTaken : f.path \in DOMAIN world.tree
          BY FoundInTree
        <5> QED
          BY <1>1, <2>1, <5>1
             DEF FilesTaken, FilesNamed, Excluded, FileAsked, NearestConfig, Candidates, InRepository
      <4> QED
        BY <4>1, <4>2
    <3>2. CASE files' = files
      BY <1>1, <3>2 DEF Typed
    <3> QED
      BY <2>1, <3>1, <3>2
  <2> QED
    BY <1>1, <2>1, <2>2 DEF Typed, ConfiguredRightly, Stages
<1> QED
  BY <1>3, <1>4, <1>5 DEF Configure

LEMMA TypedStays ==
  ASSUME Typed, UNCHANGED <<world, dir, config, configDir, files>>, pc' \in Stages,
         cause' # NoCause => pc' = "error"
  PROVE  Typed'
BY DEF Typed, ConfiguredRightly, ToSet

LEMMA TypedStep ==
  Locating /\ Locating' /\ Typed /\ [Next]_vars => Typed'
<1> SUFFICES ASSUME Locating, Locating', Typed, [Next]_vars PROVE Typed'
  OBVIOUS
<1>1. CASE Configure
  BY <1>1, TypedConfigure
<1>2. CASE ReadFiles
  <2>1. pc = "prelude" /\ pc' = "federation" /\ UNCHANGED <<world, dir, config, configDir, files, cause>>
    BY <1>2 DEF ReadFiles, Go
  <2> QED
    BY <2>1, TypedStays DEF Typed, Stages
<1>3. CASE AddPreludes
  <2>1. /\ pc = "federation" /\ UNCHANGED <<world, dir, config, configDir, files>>
        /\ pc' = "error" \/ (pc' \in {"refused", "validate"} /\ UNCHANGED cause)
    BY <1>3, Zenon DEF AddPreludes, Refuse, GiveUp, Go
  <2> QED
    BY <2>1, TypedStays DEF Typed, Stages
<1>4. CASE Validate
  <2>1. /\ pc = "validate" /\ UNCHANGED <<world, dir, config, configDir, files, cause>>
        /\ pc' \in {"refused", "gapfill"}
    BY <1>4 DEF Validate, Refuse, Go
  <2> QED
    BY <2>1, TypedStays DEF Typed, Stages
<1>5. CASE FillGaps
  <2>1. /\ pc = "gapfill" /\ UNCHANGED <<world, dir, config, configDir, files, cause>> /\ pc' = "tier3"
    BY <1>5 DEF FillGaps, Go
  <2> QED
    BY <2>1, TypedStays DEF Typed, Stages
<1>6. CASE \E g \in Groups : Finish(g)
  <2>1. UNCHANGED <<world, pc, dir, config, configDir, files, cause>>
    BY <1>6 DEF Finish, configVars
  <2> QED
    BY <2>1, TypedStays DEF Typed
<1>7. CASE Gather
  <2>1. /\ pc = "tier3" /\ UNCHANGED <<world, dir, config, configDir, files>>
        /\ pc' = "error" \/ (pc' = "done" /\ UNCHANGED cause)
    BY <1>7, Zenon DEF Gather, GiveUp, Go
  <2> QED
    BY <2>1, TypedStays DEF Typed, Stages
<1>8. CASE UNCHANGED vars
  <2>1. UNCHANGED <<world, pc, dir, config, configDir, files, cause>>
    BY <1>8 DEF vars, configVars, ruleVars
  <2> QED
    BY <2>1, TypedStays DEF Typed
<1> QED
  BY <1>1, <1>2, <1>3, <1>4, <1>5, <1>6, <1>7, <1>8 DEF Next

(***************************************************************************)
(* The types of the variables: a configuration that was accepted has       *)
(* severities the lint knows and none of gqlparser's rules, only           *)
(* goroutines that were started have results, and every violation is       *)
(* somewhere in the sources that were linted together, those of the        *)
(* refusals included (LoadFile, tier3, parseAndValidate).                  *)
(***************************************************************************)
THEOREM TypeOKHolds == Spec => []TypeOK
<1> DEFINE Inv == Locating /\ Importing /\ Reporting /\ Typed
<1>1. Init => Inv
  <2>1. Init => Locating
    BY LocatingInit DEF Init
  <2>2. Init => Importing
    BY Zenon DEF Init, InitConfig, Importing
  <2> QED
    BY <2>1, <2>2, ReportingInit, TypedInit
<1>2. Inv /\ [Next]_vars => Inv'
  BY LocatingStep, ImportingStep, ReportingStep, TypedStep
<1>3. Inv => TypeOK
  <2> SUFFICES ASSUME Inv PROVE TypeOK
    OBVIOUS
  <2>1. \A i \in DOMAIN raised : raised[i].pos[1] \in 0 .. Len(sources)
    BY DEF Reporting, Placed, ToSet
  <2>2. DOMAIN results \subseteq Groups /\ DOMAIN results \subseteq Launched
    BY LaunchedAre DEF Reporting
  <2>3. pc # "tier3" /\ pc \notin {"done", "error"} => DOMAIN results = {}
    BY DEF Reporting
  <2>4. \A i \in DOMAIN files : files[i].path \in DOMAIN world.tree
    BY DEF Typed, ToSet
  <2>5. cause # "" => pc = "error"
    BY Zenon DEF Typed, NoCause
  <2> QED
    BY <2>1, <2>2, <2>3, <2>4, <2>5, Zenon DEF Locating, Typed, ConfiguredRightly, TypeOK
<1> QED
  BY <1>1, <1>2, <1>3, PTL DEF Spec
=============================================================================
