------------------------ MODULE BackgroundProofs ------------------------
(***************************************************************************)
(* Proofs about what is shared with work in the background.                *)
(* RegionPools, for every finite set of ranked quizzes, every number of    *)
(* levels, clients and jobs and every bound: the question of a battle and  *)
(* those of the enemies stay what they were while pools are filled and     *)
(* contents rebuilt around them, a pool only grows, and a dungeon that is  *)
(* registered for a rebuild has a job.                                     *)
(* MediaCleanup, for every number of images, calls, requests and every     *)
(* bound: a cleanup job never deletes the image of a profile, images are   *)
(* deleted one at a time, and no job is lost.                              *)
(***************************************************************************)
EXTENDS RegionPools, MediaCleanup,
        FiniteSetTheorems, SequenceTheorems, WellFoundedInduction, TLAPS

---------------------------------------------------------------------------
(* Selections of a sequence, by induction over its prefixes.                  *)

\* What holds of 0 and is passed on holds of every number: a least one it does
\* not hold of would have one below.
LEMMA Counting ==
    ASSUME NEW T \in SUBSET Nat, 0 \in T, \A n \in T : n + 1 \in T
    PROVE  T = Nat
<1> DEFINE R == OpToRel(<, Nat)
           D == Nat \ T
<1>. SUFFICES ASSUME D # {} PROVE FALSE
  OBVIOUS
<1>1. PICK d \in D : \A e \in D : ~ (<<e, d>> \in R)
  <2>1. D \subseteq Nat
    OBVIOUS
  <2>2. IsWellFoundedOn(R, Nat)
    BY NatLessThanWellFounded, Zenon
  <2> HIDE DEF R, D
  <2>. QED
    BY <2>1, <2>2, WFMin
<1>2. d \in Nat /\ d # 0
  OBVIOUS
<1>3. d - 1 \in Nat /\ d - 1 < d
  BY <1>2
<1>4. d - 1 \in T
  BY <1>1, <1>3, <1>2 DEF OpToRel
<1>. QED
  BY <1>4, <1>2

---------------------------------------------------------------------------
\* The function that Only defines.
OnlyStep(s, P, f) ==
    f = [i \in 0 .. Len(s) |->
          IF i = 0 THEN <<>> ELSE IF s[i] \in P THEN Append(f[i - 1], s[i]) ELSE f[i - 1]]

LEMMA OnlyIs ==
    ASSUME NEW T, NEW s \in Seq(T), NEW P
    PROVE  \E f \in [0 .. Len(s) -> Seq(T)] : OnlyStep(s, P, f) /\ Only(s, P) = f[Len(s)]
<1> DEFINE Upto(n, f) ==
      /\ f[0] = <<>>
      /\ \A i \in 1 .. n : f[i] = IF s[i] \in P THEN Append(f[i - 1], s[i]) ELSE f[i - 1]
           H == {n \in Nat : n <= Len(s) => \E f \in [0 .. n -> Seq(T)] : Upto(n, f)}
<1>0. Len(s) \in Nat /\ H \in SUBSET Nat
  OBVIOUS
<1>1. 0 \in H
  <2> DEFINE f == [i \in 0 .. 0 |-> <<>>]
  <2>1. f \in [0 .. 0 -> Seq(T)] /\ f[0] = <<>>
    OBVIOUS
  <2>2. \A i \in 1 .. 0 : FALSE
    OBVIOUS
  <2> HIDE DEF f
  <2>3. Upto(0, f)
    BY <2>1, <2>2, Zenon
  <2>. QED
    BY <2>1, <2>3
<1>2. ASSUME NEW n \in H PROVE n + 1 \in H
  <2>. SUFFICES ASSUME n + 1 <= Len(s)
                PROVE  \E f \in [0 .. n + 1 -> Seq(T)] : Upto(n + 1, f)
    <3>1. n + 1 \in Nat
      BY <1>0
    <3>. QED
      BY <3>1, Zenon
  <2>0. n \in Nat /\ n <= Len(s)
    BY <1>0
  <2>1. PICK f \in [0 .. n -> Seq(T)] : Upto(n, f)
    BY <2>0, Zenon
  <2> DEFINE last == IF s[n + 1] \in P THEN Append(f[n], s[n + 1]) ELSE f[n]
             g == [i \in 0 .. n + 1 |-> IF i = n + 1 THEN last ELSE f[i]]
  <2>2. last \in Seq(T)
    <3>1. f[n] \in Seq(T) /\ s[n + 1] \in T
      BY <2>0
    <3>. QED
      BY <3>1
  <2> HIDE DEF last
  <2>3. g \in [0 .. n + 1 -> Seq(T)]
    BY <2>0, <2>2
  <2>4. \A i \in 0 .. n : g[i] = f[i]
    BY <2>0
  <2>5. g[n + 1] = last
    BY <2>0
  <2> HIDE DEF g
  <2>6. Upto(n + 1, g)
    <3>1. g[0] = <<>>
      <4>1. 0 \in 0 .. n
        BY <2>0
      <4>. QED
        BY <4>1, <2>1, <2>4, Zenon
    <3>2. ASSUME NEW i \in 1 .. n + 1
          PROVE  g[i] = IF s[i] \in P THEN Append(g[i - 1], s[i]) ELSE g[i - 1]
      <4>1. CASE i = n + 1
        <5>1. i - 1 = n /\ g[i - 1] = f[n]
          BY <4>1, <2>0, <2>4
        <5>. QED
          BY <4>1, <5>1, <2>5 DEF last
      <4>2. CASE i # n + 1
        <5>0. i \in 1 .. n /\ i \in 0 .. n /\ i - 1 \in 0 .. n
          BY <4>2, <2>0
        <5>1. i \in 1 .. n /\ g[i] = f[i] /\ g[i - 1] = f[i - 1]
          BY <5>0, <2>4, Zenon
        <5>. QED
          BY <5>1, <2>1, Zenon
      <4>. QED
        BY <4>1, <4>2
    <3>. QED
      BY <3>1, <3>2
  <2>. QED
    BY <2>3, <2>6
<1>3. H = Nat
  <2> HIDE DEF H
  <2>. QED
    BY <1>0, <1>1, <1>2, Counting
<1>4. PICK f \in [0 .. Len(s) -> Seq(T)] : Upto(Len(s), f)
  <2>1. Len(s) \in H /\ Len(s) <= Len(s)
    <3> HIDE DEF H
    <3>. QED
      BY <1>0, <1>3
  <2>. QED
    BY <2>1, Zenon
<1>5. OnlyStep(s, P, f)
  <2>1. \A i \in 0 .. Len(s) :
           f[i] = IF i = 0 THEN <<>> ELSE IF s[i] \in P THEN Append(f[i - 1], s[i]) ELSE f[i - 1]
    <3>1. \A i \in 0 .. Len(s) : i # 0 => i \in 1 .. Len(s)
      BY <1>0
    <3>. QED
      BY <1>4, <3>1, Zenon
  <2>2. f = [i \in 0 .. Len(s) |-> f[i]]
    OBVIOUS
  <2>. QED
    BY <2>1, <2>2, Zenon DEF OnlyStep
<1>6. PICK g : OnlyStep(s, P, g) /\ Only(s, P) = g[Len(s)]
  BY <1>5, Zenon DEF Only, OnlyStep
<1>7. \A i \in 0 .. Len(s) :
         g[i] = IF i = 0 THEN <<>> ELSE IF s[i] \in P THEN Append(g[i - 1], s[i]) ELSE g[i - 1]
  BY <1>6, Zenon DEF OnlyStep
<1>8. g \in [0 .. Len(s) -> Seq(T)]
  <2> DEFINE K == {n \in Nat : n <= Len(s) => g[n] \in Seq(T)}
  <2>0. Len(s) \in Nat
    OBVIOUS
  <2>2. 0 \in K
    <3>1. 0 \in 0 .. Len(s)
      BY <1>0
    <3>2. g[0] = <<>>
      BY <3>1, <1>7, Zenon
    <3>3. <<>> \in Seq(T) /\ 0 \in Nat
      OBVIOUS
    <3>. QED
      BY <3>2, <3>3, Zenon
  <2>3. ASSUME NEW n \in K PROVE n + 1 \in K
    <3>. SUFFICES ASSUME n + 1 <= Len(s) PROVE g[n + 1] \in Seq(T)
      OBVIOUS
    <3>1. n + 1 \in 0 .. Len(s) /\ n + 1 # 0 /\ (n + 1) - 1 = n /\ n <= Len(s)
      OBVIOUS
    <3>2. g[n + 1] = IF s[n + 1] \in P THEN Append(g[n], s[n + 1]) ELSE g[n]
      BY <3>1, <1>7
    <3>3. g[n] \in Seq(T) /\ s[n + 1] \in T
      BY <3>1
    <3>. QED
      BY <3>2, <3>3
  <2>4. K = Nat
    <3>1. K \in SUBSET Nat
      OBVIOUS
    <3> HIDE DEF K
    <3>. QED
      BY <2>2, <2>3, <3>1, Counting
  <2>5. \A n \in 0 .. Len(s) : g[n] \in Seq(T)
    BY <2>4, <2>0
  <2>6. g = [i \in 0 .. Len(s) |-> g[i]]
    BY <1>6, <1>7, Zenon DEF OnlyStep
  <2>. QED
    BY <2>5, <2>6
<1>. QED
  BY <1>6, <1>8

\* Sequences one longer, joined or cut.
LEMMA Longer ==
    ASSUME NEW T, NEW u \in Seq(T), NEW x \in T
    PROVE  /\ ToSet(Append(u, x)) = ToSet(u) \cup {x}
           /\ IsInjective(u) /\ x \notin ToSet(u) => IsInjective(Append(u, x))
<1>1. /\ Append(u, x) \in Seq(T) /\ Len(Append(u, x)) = Len(u) + 1
      /\ \A i \in 1 .. Len(u) : Append(u, x)[i] = u[i]
      /\ Append(u, x)[Len(u) + 1] = x
  OBVIOUS
<1>2. DOMAIN u = 1 .. Len(u) /\ DOMAIN Append(u, x) = 1 .. Len(u) + 1 /\ Len(u) \in Nat
  OBVIOUS
<1>3. 1 .. Len(u) + 1 = (1 .. Len(u)) \cup {Len(u) + 1} /\ Len(u) + 1 \notin 1 .. Len(u)
  BY <1>2
<1> DEFINE v == Append(u, x)
           n == Len(u)
<1>4. /\ DOMAIN v = (1 .. n) \cup {n + 1} /\ n + 1 \notin 1 .. n /\ DOMAIN u = 1 .. n
      /\ \A i \in 1 .. n : v[i] = u[i]
      /\ v[n + 1] = x
  BY <1>1, <1>2, <1>3
<1> HIDE DEF v, n
<1>5. ToSet(v) = ToSet(u) \cup {x}
  <2>1. \A y \in ToSet(v) : y \in ToSet(u) \cup {x}
    BY <1>4 DEF ToSet
  <2>2. \A y \in ToSet(u) : y \in ToSet(v)
    BY <1>4 DEF ToSet
  <2>3. x \in ToSet(v)
    BY <1>4 DEF ToSet
  <2>. QED
    BY <2>1, <2>2, <2>3
<1>6. IsInjective(u) /\ x \notin ToSet(u) => IsInjective(v)
  BY <1>4 DEF ToSet, IsInjective
<1>. QED
  BY <1>5, <1>6 DEF v

LEMMA Joining ==
    ASSUME NEW T, NEW s \in Seq(T), NEW t \in Seq(T)
    PROVE  /\ s \o t \in Seq(T) /\ Len(s \o t) = Len(s) + Len(t)
           /\ ToSet(s \o t) = ToSet(s) \cup ToSet(t)
           /\ IsInjective(s) /\ IsInjective(t) /\ ToSet(s) \cap ToSet(t) = {} => IsInjective(s \o t)
           /\ \A i \in DOMAIN s : i \in DOMAIN (s \o t) /\ (s \o t)[i] = s[i]
<1> DEFINE v == s \o t
           m == Len(s)
           n == Len(t)
<1>1. /\ v \in Seq(T) /\ Len(v) = m + n /\ m \in Nat /\ n \in Nat
      /\ DOMAIN s = 1 .. m /\ DOMAIN t = 1 .. n /\ DOMAIN v = 1 .. m + n
      /\ \A i \in 1 .. m : v[i] = s[i]
      /\ \A i \in m + 1 .. m + n : v[i] = t[i - m]
  OBVIOUS
<1> HIDE DEF v, m, n
<1>2. \A i \in DOMAIN s : i \in DOMAIN v /\ v[i] = s[i]
  BY <1>1
<1>3. \A i \in DOMAIN t : m + i \in DOMAIN v /\ v[m + i] = t[i]
  <2>. SUFFICES ASSUME NEW i \in DOMAIN t PROVE m + i \in DOMAIN v /\ v[m + i] = t[i]
    OBVIOUS
  <2>1. m + i \in m + 1 .. m + n /\ (m + i) - m = i
    BY <1>1
  <2>. QED
    BY <2>1, <1>1
<1>4. \A i \in DOMAIN v : i \in DOMAIN s \/ (i - m \in DOMAIN t /\ v[i] = t[i - m])
  BY <1>1
<1>5. ToSet(v) = ToSet(s) \cup ToSet(t)
  <2>1. \A q \in ToSet(v) : q \in ToSet(s) \cup ToSet(t)
    BY <1>2, <1>4 DEF ToSet
  <2>2. \A q \in ToSet(s) \cup ToSet(t) : q \in ToSet(v)
    BY <1>2, <1>3 DEF ToSet
  <2>. QED
    BY <2>1, <2>2
<1>6. ASSUME IsInjective(s), IsInjective(t), ToSet(s) \cap ToSet(t) = {} PROVE IsInjective(v)
  <2>. SUFFICES ASSUME NEW i \in DOMAIN v, NEW j \in DOMAIN v, v[i] = v[j] PROVE i = j
    BY DEF IsInjective
  <2>0. i \in Int /\ j \in Int /\ m \in Int
    BY <1>1
  <2>1. CASE i \in DOMAIN s /\ j \in DOMAIN s
    BY <2>1, <1>2, <1>6 DEF IsInjective
  <2>2. CASE i \notin DOMAIN s /\ j \notin DOMAIN s
    <3>1. i - m = j - m
      BY <2>2, <1>4, <1>6 DEF IsInjective
    <3>. QED
      BY <3>1, <2>0
  <2>3. CASE i \in DOMAIN s /\ j \notin DOMAIN s
    <3>1. v[i] \in ToSet(s) /\ v[j] \in ToSet(t)
      BY <2>3, <1>2, <1>4 DEF ToSet
    <3>. QED
      BY <3>1, <1>6
  <2>4. CASE i \notin DOMAIN s /\ j \in DOMAIN s
    <3>1. v[j] \in ToSet(s) /\ v[i] \in ToSet(t)
      BY <2>4, <1>2, <1>4 DEF ToSet
    <3>. QED
      BY <3>1, <1>6
  <2>. QED
    BY <2>1, <2>2, <2>3, <2>4
<1>. QED
  BY <1>1, <1>2, <1>5, <1>6 DEF v, m, n

LEMMA Cutting ==
    ASSUME NEW T, NEW s \in Seq(T), NEW n \in Nat
    PROVE  LET u == SubSeq(s, 1, n) IN
           n <= Len(s) => /\ u \in Seq(T) /\ Len(u) = n
                          /\ \A i \in 1 .. n : u[i] = s[i]
                          /\ ToSet(u) \subseteq ToSet(s)
                          /\ IsInjective(s) => IsInjective(u)
<1> DEFINE u == SubSeq(s, 1, n)
<1>. SUFFICES ASSUME n <= Len(s)
              PROVE  /\ u \in Seq(T) /\ Len(u) = n
                     /\ \A i \in 1 .. n : u[i] = s[i]
                     /\ ToSet(u) \subseteq ToSet(s)
                     /\ IsInjective(s) => IsInjective(u)
  OBVIOUS
<1>1. /\ u \in Seq(T) /\ Len(u) = n /\ DOMAIN u = 1 .. n /\ DOMAIN s = 1 .. Len(s)
      /\ \A i \in 1 .. n : u[i] = s[i]
  OBVIOUS
<1> HIDE DEF u
<1>2. \A i \in DOMAIN u : i \in DOMAIN s /\ u[i] = s[i]
  BY <1>1
<1>3. ToSet(u) \subseteq ToSet(s)
  BY <1>2 DEF ToSet
<1>4. IsInjective(s) => IsInjective(u)
  BY <1>2 DEF IsInjective
<1>. QED
  BY <1>1, <1>3, <1>4

LEMMA PrefixIs ==
    ASSUME NEW T, NEW s \in Seq(T), NEW t \in Seq(T)
    PROVE  IsPrefix(s, t) <=> Len(s) <= Len(t) /\ \A i \in 1 .. Len(s) : s[i] = t[i]
<1>1. ASSUME Len(s) <= Len(t)
      PROVE  SubSeq(s, 1, Len(s)) = SubSeq(t, 1, Len(s)) <=> \A i \in 1 .. Len(s) : s[i] = t[i]
  <2> DEFINE u == SubSeq(s, 1, Len(s))
             v == SubSeq(t, 1, Len(s))
  <2>1. /\ u \in Seq(T) /\ v \in Seq(T) /\ Len(u) = Len(s) /\ Len(v) = Len(s)
        /\ \A i \in 1 .. Len(s) : u[i] = s[i] /\ v[i] = t[i]
    BY <1>1
  <2> HIDE DEF u, v
  <2>2. u = v <=> \A i \in 1 .. Len(s) : u[i] = v[i]
    BY <2>1, SeqEqual
  <2>. QED
    BY <2>1, <2>2 DEF u, v
<1>. QED
  BY <1>1 DEF IsPrefix

\* The selection u from the first i elements.
SoFar(s, P, i, u) ==
    /\ ToSet(u) = {s[k] : k \in 1 .. i} \cap P
    /\ IsInjective(s) => IsInjective(u)
    /\ {s[k] : k \in 1 .. i} \subseteq P => u = SubSeq(s, 1, i)

LEMMA OnlySoFar ==
    ASSUME NEW T, NEW s \in Seq(T), NEW P, NEW f \in [0 .. Len(s) -> Seq(T)], OnlyStep(s, P, f),
           NEW i \in 0 .. Len(s)
    PROVE  SoFar(s, P, i, f[i])
<1> DEFINE UpTo(n) == {s[k] : k \in 1 .. n}
           Good(n) == /\ ToSet(f[n]) = UpTo(n) \cap P
                      /\ IsInjective(s) => IsInjective(f[n])
                      /\ UpTo(n) \subseteq P => f[n] = SubSeq(s, 1, n)
           K == {n \in Nat : n <= Len(s) => Good(n)}
<1>0. Len(s) \in Nat /\ K \in SUBSET Nat
  OBVIOUS
<1>1. \A n \in 0 .. Len(s) :
         f[n] = IF n = 0 THEN <<>> ELSE IF s[n] \in P THEN Append(f[n - 1], s[n]) ELSE f[n - 1]
  BY Zenon DEF OnlyStep
<1>2. Good(0)
  <2>1. 0 \in 0 .. Len(s)
    BY <1>0
  <2>2. f[0] = <<>>
    BY <1>1, <2>1, Zenon
  <2>3. UpTo(0) = {} /\ ToSet(<<>>) = {} /\ SubSeq(s, 1, 0) = <<>> /\ IsInjective(<<>>)
    BY DEF ToSet, IsInjective
  <2> HIDE DEF UpTo
  <2>. QED
    BY <2>2, <2>3
<1>3. ASSUME NEW n \in K PROVE n + 1 \in K
  <2>. SUFFICES ASSUME n + 1 <= Len(s) PROVE Good(n + 1)
    <3>1. n + 1 \in Nat
      OBVIOUS
    <3> HIDE DEF Good
    <3>. QED
      BY <3>1
  <2>1. n \in Nat /\ n <= Len(s) /\ n + 1 \in 0 .. Len(s) /\ n + 1 # 0 /\ (n + 1) - 1 = n
    BY <1>0
  <2>2. Good(n)
    <3> HIDE DEF Good
    <3>. QED
      BY <2>1
  <2>3. f[n + 1] = IF s[n + 1] \in P THEN Append(f[n], s[n + 1]) ELSE f[n]
    BY <2>1, <1>1
  <2>4. f[n] \in Seq(T) /\ s[n + 1] \in T
    BY <2>1
  <2>5. UpTo(n + 1) = UpTo(n) \cup {s[n + 1]}
    <3>1. 1 .. n + 1 = (1 .. n) \cup {n + 1}
      BY <2>1
    <3>. QED
      BY <3>1
  <2>6. IsInjective(s) => s[n + 1] \notin UpTo(n)
    <3>1. \A k \in 1 .. n : k \in DOMAIN s /\ n + 1 \in DOMAIN s /\ k # n + 1
      BY <2>1
    <3>. QED
      BY <3>1 DEF IsInjective
  <2>7. SubSeq(s, 1, n + 1) = Append(SubSeq(s, 1, n), s[n + 1])
    BY <2>1
  <2> HIDE DEF UpTo
  <2>8. CASE s[n + 1] \in P
    <3>1. ToSet(f[n + 1]) = ToSet(f[n]) \cup {s[n + 1]}
      BY <2>3, <2>4, <2>8, Longer
    <3>2. IsInjective(s) => IsInjective(f[n + 1])
      BY <2>2, <2>3, <2>4, <2>6, <2>8, Longer
    <3>. QED
      BY <3>1, <3>2, <2>2, <2>3, <2>5, <2>7, <2>8
  <2>9. CASE s[n + 1] \notin P
    BY <2>2, <2>3, <2>5, <2>9
  <2>. QED
    BY <2>8, <2>9
<1>4. K = Nat
  <2>1. 0 \in K
    BY <1>2
  <2> HIDE DEF K
  <2>. QED
    BY <1>0, <1>3, <2>1, Counting
<1>5. Good(i)
  <2>1. i \in K /\ i <= Len(s)
    <3> HIDE DEF K
    <3>. QED
      BY <1>0, <1>4
  <2> HIDE DEF Good
  <2>. QED
    BY <2>1
<1>. QED
  BY <1>5, Zenon DEF SoFar

\* What Only returns: the elements in P, once each if s has them once, in s's type.
LEMMA OnlyOf ==
    ASSUME NEW T, NEW s \in Seq(T), NEW P
    PROVE  /\ Only(s, P) \in Seq(T)
           /\ ToSet(Only(s, P)) = ToSet(s) \cap P
           /\ IsInjective(s) => IsInjective(Only(s, P))
           /\ ToSet(s) \subseteq P => Only(s, P) = s
<1>1. PICK f \in [0 .. Len(s) -> Seq(T)] : OnlyStep(s, P, f) /\ Only(s, P) = f[Len(s)]
  BY OnlyIs
<1>2. Len(s) \in 0 .. Len(s) /\ {s[k] : k \in 1 .. Len(s)} = ToSet(s) /\ SubSeq(s, 1, Len(s)) = s
  BY DEF ToSet
<1> DEFINE n == Len(s)
<1>3. SoFar(s, P, n, f[n])
  BY <1>1, <1>2, OnlySoFar
<1>4. f[n] \in Seq(T)
  BY <1>2
<1>. QED
  BY <1>1, <1>2, <1>3, <1>4, Zenon DEF SoFar

\* A prefix that is selected as a whole stays a prefix.
LEMMA OnlyPrefix ==
    ASSUME NEW T, NEW s \in Seq(T), NEW t \in Seq(T), NEW P, IsPrefix(s, t), ToSet(s) \subseteq P
    PROVE  IsPrefix(s, Only(t, P))
<1>1. PICK f \in [0 .. Len(t) -> Seq(T)] : OnlyStep(t, P, f) /\ Only(t, P) = f[Len(t)]
  BY OnlyIs
<1> DEFINE m == Len(s)
           K == {n \in Nat : m + n <= Len(t) => IsPrefix(s, f[m + n])}
<1>0. m \in Nat /\ m <= Len(t) /\ Len(t) \in Nat /\ K \in SUBSET Nat /\ \A i \in 1 .. m : s[i] = t[i]
  BY PrefixIs
<1>2. 0 \in K
  <2>1. {t[k] : k \in 1 .. m} \subseteq P
    BY <1>0 DEF ToSet
  <2>2. f[m] = SubSeq(t, 1, m)
    <3>1. m \in 0 .. Len(t)
      BY <1>0
    <3> HIDE DEF m
    <3>2. SoFar(t, P, m, f[m])
      BY <3>1, <1>1, OnlySoFar
    <3>. QED
      BY <3>2, <2>1, Zenon DEF SoFar
  <2>3. f[m] \in Seq(T) /\ Len(f[m]) = m /\ \A i \in 1 .. m : f[m][i] = s[i]
    BY <2>2, <1>0, <1>1
  <2>4. IsPrefix(s, f[m])
    BY <2>3, <1>0, PrefixIs
  <2>5. m + 0 = m
    BY <1>0
  <2>. QED
    BY <2>4, <2>5
<1>3. ASSUME NEW n \in K PROVE n + 1 \in K
  <2>. SUFFICES ASSUME m + (n + 1) <= Len(t) PROVE IsPrefix(s, f[m + (n + 1)])
    BY <1>0
  <2>1. n \in Nat /\ m + n \in 0 .. Len(t) /\ m + (n + 1) \in 0 .. Len(t) /\ m + (n + 1) # 0
        /\ m + (n + 1) - 1 = m + n /\ m + n <= Len(t)
    BY <1>0
  <2> DEFINE a == m + n
             b == m + (n + 1)
  <2>2. f[b] = IF t[b] \in P THEN Append(f[a], t[b]) ELSE f[a]
    <3>1. f[b] = IF b = 0 THEN <<>> ELSE IF t[b] \in P THEN Append(f[b - 1], t[b]) ELSE f[b - 1]
      BY <2>1, <1>1, Zenon DEF OnlyStep
    <3>. QED
      BY <3>1, <2>1
  <2>3. f[a] \in Seq(T) /\ f[b] \in Seq(T) /\ t[b] \in T /\ IsPrefix(s, f[a])
    BY <2>1, <1>1
  <2> HIDE DEF a, b
  <2>4. CASE t[b] \in P
    <3>1. /\ f[b] = Append(f[a], t[b]) /\ Len(f[b]) = Len(f[a]) + 1
          /\ \A i \in 1 .. Len(f[a]) : f[b][i] = f[a][i]
      BY <2>2, <2>3, <2>4
    <3>2. Len(s) <= Len(f[a]) /\ \A i \in 1 .. Len(s) : s[i] = f[a][i]
      BY <2>3, PrefixIs
    <3>3. Len(s) <= Len(f[b]) /\ \A i \in 1 .. Len(s) : s[i] = f[b][i]
      BY <3>1, <3>2, <2>3
    <3>. QED
      BY <3>3, <2>3, PrefixIs DEF b
  <2>5. CASE t[b] \notin P
    BY <2>2, <2>3, <2>5 DEF b
  <2>. QED
    BY <2>4, <2>5
<1>4. K = Nat
  <2> HIDE DEF K
  <2>. QED
    BY <1>0, <1>2, <1>3, Counting
<1>5. PICK d \in Nat : m + d = Len(t)
  <2>1. Len(t) - m \in Nat /\ m + (Len(t) - m) = Len(t)
    BY <1>0
  <2>. QED
    BY <2>1
<1>6. d \in K
  <2> HIDE DEF K
  <2>. QED
    BY <1>4
<1>. QED
  BY <1>1, <1>5, <1>6, <1>0

---------------------------------------------------------------------------
(* Sets of numbers in order.                                                  *)

LEMMA FirstIn ==
    ASSUME NEW T \in SUBSET Nat, T # {}
    PROVE  \E m \in T : \A n \in T : m <= n
<1> DEFINE R == OpToRel(<, Nat)
<1>1. PICK m \in T : \A e \in T : ~ (<<e, m>> \in R)
  <2>1. IsWellFoundedOn(R, Nat)
    BY NatLessThanWellFounded, Zenon
  <2> HIDE DEF R
  <2>. QED
    BY <2>1, WFMin
<1>2. ASSUME NEW n \in T PROVE m <= n
  <2>1. ~ (n < m) /\ n \in Nat /\ m \in Nat
    BY <1>1 DEF OpToRel
  <2>. QED
    BY <2>1
<1>. QED
  BY <1>2

Rising(s) == \A i, j \in DOMAIN s : i < j => s[i] < s[j]
LEMMA SortedExists ==
    ASSUME NEW S \in SUBSET Nat, IsFiniteSet(S)
    PROVE  \E s \in [1 .. Cardinality(S) -> S] : Rising(s) /\ ToSet(s) = S
<1> DEFINE Sorted(Z, n) == \E s \in [1 .. n -> Z] : Rising(s) /\ ToSet(s) = Z
           K == {n \in Nat : \A Z \in SUBSET Nat : IsFiniteSet(Z) /\ Cardinality(Z) = n => Sorted(Z, n)}
<1>1. 0 \in K
  <2>. SUFFICES ASSUME NEW Z \in SUBSET Nat, IsFiniteSet(Z), Cardinality(Z) = 0 PROVE Sorted(Z, 0)
    OBVIOUS
  <2>1. Z = {}
    BY FS_EmptySet
  <2> DEFINE s == [i \in 1 .. 0 |-> 0]
  <2>2. s \in [1 .. 0 -> Z] /\ DOMAIN s = {}
    OBVIOUS
  <2> HIDE DEF s
  <2>. QED
    BY <2>1, <2>2 DEF Rising, ToSet
<1>2. ASSUME NEW n \in K PROVE n + 1 \in K
  <2>. SUFFICES ASSUME NEW Z \in SUBSET Nat, IsFiniteSet(Z), Cardinality(Z) = n + 1 PROVE Sorted(Z, n + 1)
    OBVIOUS
  <2>0. n \in Nat
    OBVIOUS
  <2>1. Z # {}
    BY <2>0, FS_EmptySet
  <2>2. PICK m \in Z : \A z \in Z : m <= z
    BY <2>1, FirstIn
  <2> DEFINE Y == Z \ {m}
  <2>3. IsFiniteSet(Y) /\ Cardinality(Y) = n /\ Y \in SUBSET Nat
    BY <2>0, FS_RemoveElement
  <2>4. PICK t \in [1 .. n -> Y] : Rising(t) /\ ToSet(t) = Y
    BY <2>3
  <2> DEFINE s == [i \in 1 .. n + 1 |-> IF i = 1 THEN m ELSE t[i - 1]]
  <2>5. s \in [1 .. n + 1 -> Z] /\ DOMAIN s = 1 .. n + 1 /\ s[1] = m
        /\ \A i \in 2 .. n + 1 : s[i] = t[i - 1]
    BY <2>0
  <2> HIDE DEF s
  <2>6. Rising(s)
    <3>. SUFFICES ASSUME NEW i \in 1 .. n + 1, NEW j \in 1 .. n + 1, i < j PROVE s[i] < s[j]
      BY <2>5 DEF Rising
    <3>1. j \in 2 .. n + 1 /\ j - 1 \in 1 .. n /\ s[j] = t[j - 1]
      BY <2>0, <2>5
    <3>2. CASE i = 1
      <4>1. t[j - 1] \in Y
        BY <3>1
      <4>2. t[j - 1] \in Z /\ t[j - 1] # m /\ m \in Nat /\ t[j - 1] \in Nat
        BY <4>1
      <4>. QED
        BY <4>2, <3>1, <3>2, <2>2, <2>5
    <3>3. CASE i # 1
      <4>1. i - 1 \in 1 .. n /\ s[i] = t[i - 1] /\ i - 1 < j - 1
        BY <3>3, <2>0, <2>5
      <4>. QED
        BY <4>1, <3>1, <2>4 DEF Rising
    <3>. QED
      BY <3>2, <3>3
  <2>7. ToSet(s) = Z
    <3>1. \A z \in Z : \E i \in DOMAIN s : s[i] = z
      <4>. SUFFICES ASSUME NEW z \in Z, z # m PROVE \E i \in 1 .. n + 1 : s[i] = z
        BY <2>0, <2>5
      <4>1. PICK k \in 1 .. n : t[k] = z
        BY <2>4 DEF ToSet
      <4>2. k + 1 \in 2 .. n + 1 /\ k + 1 \in 1 .. n + 1 /\ (k + 1) - 1 = k
        BY <2>0
      <4>. QED
        BY <4>1, <4>2, <2>5
    <3>2. \A i \in DOMAIN s : s[i] \in Z
      BY <2>5
    <3>3. \A z \in ToSet(s) : z \in Z
      BY <3>2 DEF ToSet
    <3>4. \A z \in Z : z \in ToSet(s)
      BY <3>1, Zenon DEF ToSet
    <3>. QED
      BY <3>3, <3>4
  <2>. QED
    BY <2>5, <2>6, <2>7
<1>3. K = Nat
  <2>1. K \in SUBSET Nat
    OBVIOUS
  <2> HIDE DEF K
  <2>. QED
    BY <1>1, <1>2, <2>1, Counting
<1>4. Cardinality(S) \in K
  <2> HIDE DEF K
  <2>. QED
    BY <1>3, FS_CardinalityType
<1>. QED
  BY <1>4

\* What ByRank returns: the whole set, once each, of the set's size.
LEMMA ByRankIs ==
    ASSUME NEW S \in SUBSET Nat, IsFiniteSet(S)
    PROVE  /\ ByRank(S) \in Seq(S) /\ Len(ByRank(S)) = Cardinality(S)
           /\ ToSet(ByRank(S)) \subseteq S /\ IsInjective(ByRank(S))
<1>1. Cardinality(S) \in Nat
  BY FS_CardinalityType
<1>2. ByRank(S) \in [1 .. Cardinality(S) -> S] /\ Rising(ByRank(S))
  BY SortedExists DEF ByRank, Rising
<1> DEFINE s == ByRank(S)
<1>3. s \in [1 .. Cardinality(S) -> S] /\ DOMAIN s = 1 .. Cardinality(S) /\ Rising(s)
  BY <1>2
<1> HIDE DEF s
<1>4. s \in Seq(S) /\ Len(s) = Cardinality(S)
  BY <1>1, <1>3
<1>5. IsInjective(s)
  <2>. SUFFICES ASSUME NEW i \in DOMAIN s, NEW j \in DOMAIN s, s[i] = s[j] PROVE i = j
    BY DEF IsInjective
  <2>1. i \in Nat /\ j \in Nat /\ s[i] \in Nat /\ s[j] \in Nat
    <3>1. i \in 1 .. Cardinality(S) /\ j \in 1 .. Cardinality(S) /\ s[i] \in S /\ s[j] \in S
      BY <1>3
    <3>2. \A k \in 1 .. Cardinality(S) : k \in Nat
      BY <1>1
    <3>. QED
      BY <3>1, <3>2, Zenon
  <2>2. ~(s[i] < s[j]) /\ ~(s[j] < s[i])
    BY <2>1
  <2>. QED
    BY <2>1, <2>2, <1>3 DEF Rising
<1>6. ToSet(s) \subseteq S
  BY <1>3 DEF ToSet
<1>. QED
  BY <1>4, <1>5, <1>6 DEF s

\* The largest of some levels.
LEMMA MaxIn ==
    ASSUME NEW k \in Nat, NEW S \in SUBSET (1 .. k), S # {}
    PROVE  Max(S) \in S /\ Max(S) \in Nat /\ \A x \in S : x <= Max(S)
<1> DEFINE D == {d \in Nat : \E x \in S : d = k - x}
<1>1. D # {}
  <2>1. PICK x \in S : TRUE
    OBVIOUS
  <2>2. x \in 1 .. k
    BY <2>1
  <2>3. k - x \in D
    BY <2>2
  <2>. QED
    BY <2>3
<1>2. PICK d \in D : \A e \in D : d <= e
  <2>1. D \in SUBSET Nat
    OBVIOUS
  <2> HIDE DEF D
  <2>. QED
    BY <2>1, <1>1, FirstIn
<1>3. PICK m \in S : d = k - m
  OBVIOUS
<1>4. ASSUME NEW x \in S PROVE m >= x
  <2>1. x \in 1 .. k /\ m \in 1 .. k
    OBVIOUS
  <2>2. k - x \in D
    BY <2>1
  <2>3. d <= k - x
    BY <2>2, <1>2
  <2>. QED
    BY <2>1, <2>3, <1>3
<1>5. Max(S) \in S /\ \A x \in S : Max(S) >= x
  BY <1>4 DEF Max
<1>6. S \subseteq Nat
  OBVIOUS
<1>7. Max(S) \in Nat
  BY <1>5, <1>6, Zenon
<1>8. \A x \in S : x <= Max(S)
  BY <1>5, <1>6, <1>7
<1>. QED
  BY <1>5, <1>7, <1>8

\* Sequences without repetition; functions on some of the levels; the values that
\* the parts of the state take.
Distinct == {s \in Seq(Quizzes) : IsInjective(s)}
Partial(S) == UNION {[D -> S] : D \in SUBSET Levels}
EnemySets == SUBSET (SUBSET Nat)
Battles == {NoFight} \cup [stage : {"boss", "enemy"}, asked : Nat, quiz : Quizzes]
Saves == [rev : Nat, quizzes : Distinct, pools : Partial(Distinct), enemies : Partial(EnemySets),
          battle : Battles]
Asks == [stage : {"look", "put", "ready", "short"}, level : Levels, at : Levels,
         got : Distinct, seed : Distinct, wrote : Partial(Distinct), late : SUBSET Levels,
         rev : Nat]
JobStates == [stage : {"none", "reserving", "queued", "synced"}]
             \cup [stage : {"prepared"}, need : Nat]

---------------------------------------------------------------------------
LEMMA PartialIs ==
    ASSUME NEW S, NEW f \in Partial(S)
    PROVE  /\ DOMAIN f \subseteq Levels /\ f \in [DOMAIN f -> S]
           /\ \A l \in DOMAIN f : f[l] \in S
BY DEF Partial

LEMMA PartialOf ==
    ASSUME NEW S, NEW D \in SUBSET Levels, NEW f \in [D -> S]
    PROVE  f \in Partial(S)
BY DEF Partial

LEMMA PartialNone == ASSUME NEW S PROVE <<>> \in Partial(S)
<1>1. <<>> \in [{} -> S]
  OBVIOUS
<1>. QED
  BY <1>1 DEF Partial

\* What h is if it is f over g.
Merged(h, f, g) ==
    /\ DOMAIN h = DOMAIN f \cup DOMAIN g
    /\ \A l \in DOMAIN h : h[l] = IF l \in DOMAIN f THEN f[l] ELSE g[l]

LEMMA UponIs ==
    ASSUME NEW S, NEW f \in Partial(S), NEW g \in Partial(S)
    PROVE  Upon(f, g) \in Partial(S) /\ Merged(Upon(f, g), f, g)
<1> DEFINE D == DOMAIN f \cup DOMAIN g
<1>a. \A l \in D : (IF l \in DOMAIN f THEN f[l] ELSE g[l]) \in S
  BY PartialIs
<1>1. /\ Upon(f, g) \in [D -> S] /\ DOMAIN Upon(f, g) = D
      /\ \A l \in D : Upon(f, g)[l] = IF l \in DOMAIN f THEN f[l] ELSE g[l]
  BY <1>a DEF Upon
<1>2. D \in SUBSET Levels
  BY PartialIs
<1> HIDE DEF D
<1>3. Upon(f, g) \in Partial(S)
  BY <1>1, <1>2, PartialOf
<1>. QED
  BY <1>1, <1>3 DEF D, Merged

\* What h is if it is f with x at l.
Differs(h, f, l, x) ==
    /\ DOMAIN h = DOMAIN f \cup {l}
    /\ \A k \in DOMAIN h : h[k] = IF k = l THEN x ELSE f[k]

LEMMA WithIs ==
    ASSUME NEW S, NEW f \in Partial(S), NEW l \in Levels, NEW x \in S
    PROVE  With(f, l, x) \in Partial(S) /\ Differs(With(f, l, x), f, l, x)
<1> DEFINE one == [k \in {l} |-> x]
<1>1. one \in [{l} -> S] /\ {l} \in SUBSET Levels /\ one[l] = x /\ DOMAIN one = {l}
  OBVIOUS
<1> HIDE DEF one
<1>2. one \in Partial(S)
  BY <1>1, PartialOf
<1>3. With(f, l, x) = Upon(one, f)
  BY DEF With, one
<1>4. With(f, l, x) \in Partial(S) /\ Merged(With(f, l, x), one, f)
  BY <1>2, <1>3, UponIs
<1>. QED
  BY <1>1, <1>4 DEF Merged, Differs

LEMMA LeastIs ==
    ASSUME NEW m \in Nat, NEW n \in Nat
    PROVE  Least(m, n) \in Nat /\ Least(m, n) <= m /\ Least(m, n) <= n
BY DEF Least

LEMMA InQuizzes == Available \subseteq Quizzes /\ Present \subseteq Quizzes /\ Available \subseteq Present
BY DEF Available, Present

LEMMA PartsFinite == ASSUME NEW Z \in SUBSET Quizzes PROVE IsFiniteSet(Z) /\ Z \in SUBSET Nat
BY PoolsAssumption, FS_Subset

LEMMA EmptyIs == <<>> \in Distinct /\ ToSet(<<>>) = {}
BY DEF Distinct, IsInjective, ToSet

LEMMA OnlyDistinct ==
    ASSUME NEW s \in Distinct, NEW P
    PROVE  Only(s, P) \in Distinct /\ ToSet(Only(s, P)) = ToSet(s) \cap P
BY OnlyOf DEF Distinct

LEMMA RankDistinct ==
    ASSUME NEW Z \in SUBSET Quizzes
    PROVE  ByRank(Z) \in Distinct /\ ToSet(ByRank(Z)) \subseteq Z /\ Len(ByRank(Z)) = Cardinality(Z)
<1>1. ByRank(Z) \in Seq(Z) /\ ToSet(ByRank(Z)) \subseteq Z /\ IsInjective(ByRank(Z))
      /\ Len(ByRank(Z)) = Cardinality(Z)
  BY PartsFinite, ByRankIs
<1>2. ByRank(Z) \in Seq(Quizzes)
  BY <1>1
<1>. QED
  BY <1>1, <1>2 DEF Distinct

\* What is put behind a content or a pool.
LEMMA Behind ==
    ASSUME NEW s \in Distinct, NEW t \in Distinct, ToSet(s) \cap ToSet(t) = {}
    PROVE  /\ s \o t \in Distinct /\ ToSet(s \o t) = ToSet(s) \cup ToSet(t) /\ IsPrefix(s, s \o t)
           /\ \A i \in DOMAIN s : i \in DOMAIN (s \o t) /\ (s \o t)[i] = s[i]
<1>0. s \in Seq(Quizzes) /\ t \in Seq(Quizzes) /\ IsInjective(s) /\ IsInjective(t)
  BY DEF Distinct
<1>1. /\ s \o t \in Seq(Quizzes) /\ Len(s \o t) = Len(s) + Len(t)
      /\ ToSet(s \o t) = ToSet(s) \cup ToSet(t) /\ IsInjective(s \o t)
      /\ \A i \in DOMAIN s : i \in DOMAIN (s \o t) /\ (s \o t)[i] = s[i]
  BY <1>0, Joining
<1>2. Len(s) <= Len(s \o t) /\ \A i \in 1 .. Len(s) : s[i] = (s \o t)[i]
  BY <1>0, <1>1
<1>3. IsPrefix(s, s \o t)
  BY <1>0, <1>1, <1>2, PrefixIs
<1>. QED
  BY <1>1, <1>3 DEF Distinct

LEMMA CutDistinct ==
    ASSUME NEW s \in Distinct, NEW n \in Nat, n <= Len(s)
    PROVE  SubSeq(s, 1, n) \in Distinct /\ ToSet(SubSeq(s, 1, n)) \subseteq ToSet(s)
BY Cutting DEF Distinct

LEMMA LenNat == ASSUME NEW s \in Distinct PROVE Len(s) \in Nat
BY DEF Distinct

LEMMA PrefixTrans ==
    ASSUME NEW s \in Distinct, NEW t \in Distinct, NEW u \in Distinct, IsPrefix(s, t), IsPrefix(t, u)
    PROVE  IsPrefix(s, u)
<1>0. s \in Seq(Quizzes) /\ t \in Seq(Quizzes) /\ u \in Seq(Quizzes)
  BY DEF Distinct
<1>1. Len(s) <= Len(t) /\ \A i \in 1 .. Len(s) : s[i] = t[i]
  BY <1>0, PrefixIs
<1>2. Len(t) <= Len(u) /\ \A i \in 1 .. Len(t) : t[i] = u[i]
  BY <1>0, PrefixIs
<1>3. Len(s) <= Len(u) /\ \A i \in 1 .. Len(s) : s[i] = u[i]
  BY <1>0, <1>1, <1>2
<1>. QED
  BY <1>0, <1>3, PrefixIs

LEMMA EmptyPrefix == ASSUME NEW s \in Distinct PROVE IsPrefix(<<>>, s) /\ IsPrefix(s, s)
<1>0. s \in Seq(Quizzes) /\ <<>> \in Seq(Quizzes)
  BY DEF Distinct
<1>1. Len(<<>>) <= Len(s) /\ \A i \in 1 .. Len(<<>>) : <<>>[i] = s[i]
  BY <1>0
<1>2. Len(s) <= Len(s)
  BY <1>0
<1>. QED
  BY <1>0, <1>1, <1>2, PrefixIs

\* One step of filling: s, and behind it the first of m that are not in s.
LEMMA TakeIs ==
    ASSUME NEW s \in Distinct, NEW m \in Distinct, ToSet(s) \cap ToSet(m) = {}, NEW k \in Nat
    PROVE  LET n == IF Len(s) >= k THEN 0 ELSE k - Len(s)
               u == s \o SubSeq(m, 1, Least(n, Len(m)))
           IN u \in Distinct /\ IsPrefix(s, u)
<1> DEFINE n == IF Len(s) >= k THEN 0 ELSE k - Len(s)
<1>1. n \in Nat /\ Len(m) \in Nat
  BY LenNat
<1> HIDE DEF n
<1>2. Least(n, Len(m)) \in Nat /\ Least(n, Len(m)) <= Len(m)
  BY <1>1, LeastIs
<1> DEFINE v == SubSeq(m, 1, Least(n, Len(m)))
<1>3. v \in Distinct /\ ToSet(v) \subseteq ToSet(m)
  BY <1>2, CutDistinct
<1> HIDE DEF v
<1>4. s \o v \in Distinct /\ IsPrefix(s, s \o v)
  BY <1>3, Behind
<1>. QED
  BY <1>4 DEF v, n

(* What a battle and the enemies of a save point at.                          *)
Sound(s) ==
    /\ s \in Saves
    /\ s.battle # NoFight => /\ s.battle.asked \in DOMAIN s.quizzes
                             /\ s.quizzes[s.battle.asked] = s.battle.quiz
    /\ \A l \in DOMAIN s.enemies \cap DOMAIN s.pools : \A i \in UNION s.enemies[l] :
          i \in DOMAIN s.quizzes /\ s.quizzes[i] \in ToSet(s.pools[l])

(* What a request that fills pools has stored in its transaction, and is about
   to store, begins with what is stored. *)
Filling(a, held, inGraph) ==
    /\ a.at <= a.level
    /\ \A l \in DOMAIN a.wrote :
          /\ ToSet(a.wrote[l]) \subseteq held
          /\ l <= a.at /\ (l = a.at => a.stage = "ready")
          /\ l \notin a.late => IsPrefix(inGraph[l], a.wrote[l])
    /\ a.stage = "put" /\ a.at \notin a.late => IsPrefix(inGraph[a.at], a.got)

\* The pools in the graph and what the requests make of them.
Graph ==
    /\ quiz \in [Quizzes -> {"none", "usable", "broken", "gone"}]
    /\ pooled \in [Levels -> Distinct] /\ \A l \in Levels : ToSet(pooled[l]) \subseteq Present
    /\ ask \in [Clients -> Asks \cup {NoAsk}]
    /\ \A c \in Clients : ask[c] # NoAsk => Filling(ask[c], Present, pooled)

\* The background jobs.
Jobbing == rebuild \in [Jobs -> JobStates] /\ RebuildReleased

\* The inductive invariant.
PoolInv == Graph /\ Sound(save) /\ Jobbing

---------------------------------------------------------------------------
LEMMA StoredPartial == ASSUME pooled \in [Levels -> Distinct] PROVE pooled \in Partial(Distinct)
BY PartialOf

LEMMA AskIs ==
    ASSUME Graph, NEW c \in Clients, ask[c] # NoAsk
    PROVE  /\ ask[c] \in Asks /\ Filling(ask[c], Present, pooled)
           /\ ask[c].got \in Distinct /\ ask[c].wrote \in Partial(Distinct) /\ ask[c].level \in Levels
           /\ ask[c].at \in Levels /\ ask[c].seed \in Distinct /\ ask[c].late \in SUBSET Levels
<1>1. ask[c] \in Asks /\ Filling(ask[c], Present, pooled)
  BY DEF Graph
<1>. QED
  BY <1>1 DEF Asks

LEMMA RequiredNat == ASSUME NEW l \in Levels PROVE RequiredAt(l) \in Nat
<1>1. l \in Nat /\ N \in Nat
  BY PoolsAssumption DEF Levels
<1>. QED
  BY <1>1 DEF RequiredAt

LEMMA PoolIs ==
    ASSUME Graph, NEW c \in Clients, ask[c] # NoAsk, NEW l \in Levels
    PROVE  Pool(c, l) \in Distinct
BY AskIs, PartialIs DEF Pool, Graph

LEMMA FilledIs ==
    ASSUME Graph, NEW c \in Clients, ask[c] # NoAsk
    PROVE  LET a == ask[c]
               base == IF Pool(c, a.at) # <<>> THEN Pool(c, a.at) ELSE a.got
           IN Filled(c) \in Distinct /\ IsPrefix(base, Filled(c))
<1> DEFINE a == ask[c]
           base == IF Pool(c, a.at) # <<>> THEN Pool(c, a.at) ELSE a.got
           k == RequiredAt(a.at)
           need(s) == IF Len(s) >= k THEN 0 ELSE k - Len(s)
           take(s, more) == s \o SubSeq(more, 1, Least(need(s), Len(more)))
           more == Only(a.seed, Quizzes \ ToSet(base))
           topped == take(base, more)
           rest == ByRank(Available \ ToSet(topped))
<1>1. base \in Distinct /\ a.seed \in Distinct /\ k \in Nat
  BY AskIs, PoolIs, RequiredNat
<1>2. more \in Distinct /\ ToSet(base) \cap ToSet(more) = {}
  <2>1. a.seed \in Distinct
    BY <1>1
  <2> HIDE DEF base, a
  <2>. QED
    BY <2>1, OnlyDistinct
<1>3. topped \in Distinct /\ IsPrefix(base, topped)
  <2> HIDE DEF base, more, k
  <2>. QED
    BY <1>1, <1>2, TakeIs
<1>4. rest \in Distinct /\ ToSet(topped) \cap ToSet(rest) = {}
  <2> HIDE DEF topped
  <2>1. Available \ ToSet(topped) \in SUBSET Quizzes
    BY InQuizzes
  <2>2. rest \in Distinct /\ ToSet(rest) \subseteq Available \ ToSet(topped)
    BY <2>1, RankDistinct
  <2>. QED
    BY <2>2
<1>5. take(topped, rest) \in Distinct /\ IsPrefix(topped, take(topped, rest))
  <2> HIDE DEF topped, rest, k
  <2>. QED
    BY <1>1, <1>3, <1>4, TakeIs
<1>6. Filled(c) = take(topped, rest)
  BY DEF Filled
<1>7. IsPrefix(base, take(topped, rest))
  <2> HIDE DEF topped, rest, base
  <2>. QED
    BY <1>1, <1>3, <1>5, PrefixTrans
<1>. QED
  BY <1>5, <1>6, <1>7

---------------------------------------------------------------------------
(* Contents, pools and enemies of a save.                                     *)

LEMMA GroupsIn == ASSUME NEW ix, NEW g \in Groups(ix) PROVE g \in SUBSET (SUBSET ix)
<1>1. CASE ix = {}
  BY <1>1 DEF Groups
<1>2. CASE ix # {}
  <2> DEFINE sets == kSubset(Least(EnemySize, Cardinality(ix)), ix)
  <2>1. sets \subseteq SUBSET ix
    BY DEF kSubset
  <2>2. g \in kSubset(Least(EnemyTypes, Cardinality(sets)), sets)
    BY <1>2 DEF Groups
  <2> HIDE DEF sets
  <2>3. g \subseteq sets
    BY <2>2 DEF kSubset
  <2>. QED
    BY <2>1, <2>3
<1>. QED
  BY <1>1, <1>2

\* The enemies drawn for a pool ask what is in it.
LEMMA DrawnIs ==
    ASSUME NEW qs \in Distinct, NEW ids, NEW g \in Groups(Positions(ids, qs))
    PROVE  /\ g \in EnemySets
           /\ \A i \in UNION g : i \in DOMAIN qs /\ qs[i] \in ids
<1>0. g \in SUBSET (SUBSET Positions(ids, qs))
  BY GroupsIn
<1>1. DOMAIN qs \subseteq Nat
  BY DEF Distinct
<1>2. Positions(ids, qs) \subseteq Nat /\ \A i \in Positions(ids, qs) : i \in DOMAIN qs /\ qs[i] \in ids
  BY <1>1 DEF Positions
<1>. QED
  BY <1>0, <1>2 DEF EnemySets

LEMMA SaveIs ==
    ASSUME Sound(save)
    PROVE  /\ save \in Saves /\ save.rev \in Nat /\ save.quizzes \in Distinct
           /\ save.pools \in Partial(Distinct) /\ save.enemies \in Partial(EnemySets)
           /\ save.battle \in Battles
BY DEF Sound, Saves

LEMMA RegionsIn == ASSUME Sound(save) PROVE Regions \subseteq Levels
BY SaveIs, PartialIs DEF Regions

LEMMA NeededNat == ASSUME Sound(save) PROVE Needed \in Nat
<1>1. CASE Regions = {}
  BY <1>1 DEF Needed
<1>2. CASE Regions # {}
  <2>1. Max(Regions) \in Levels
    BY <1>2, RegionsIn, PoolsAssumption, MaxIn DEF Levels
  <2>. QED
    BY <1>2, <2>1, RequiredNat DEF Needed
<1>. QED
  BY <1>1, <1>2

\* The content with what a request brings, behind what is there.
LEMMA JoinedIs ==
    ASSUME NEW s \in Distinct, NEW t \in Distinct
    PROVE  LET u == s \o Only(t, Quizzes \ ToSet(s))
           IN /\ u \in Distinct
              /\ \A i \in DOMAIN s : i \in DOMAIN u /\ u[i] = s[i]
<1>1. Only(t, Quizzes \ ToSet(s)) \in Distinct /\ ToSet(s) \cap ToSet(Only(t, Quizzes \ ToSet(s))) = {}
  BY OnlyDistinct
<1>. QED
  BY <1>1, Behind

LEMMA PoolOfIs == ASSUME Sound(save), NEW l \in Regions PROVE PoolOf(l) \in Distinct
<1>1. CASE l \in DOMAIN save.pools
  BY <1>1, SaveIs, PartialIs, OnlyDistinct DEF PoolOf
<1>2. CASE l \notin DOMAIN save.pools
  <2> DEFINE Z == Legacy(l)
             n == Cardinality(Z)
             r == ByRank(Z)
             p == [k \in 1 .. n |-> save.quizzes[r[k]]]
  <2>0. save.quizzes \in Seq(Quizzes) /\ IsInjective(save.quizzes)
    BY SaveIs DEF Distinct
  <2>1. Z \subseteq DOMAIN save.quizzes
    BY DEF Legacy
  <2>2. IsFiniteSet(DOMAIN save.quizzes) /\ DOMAIN save.quizzes \subseteq Nat
    <3>1. DOMAIN save.quizzes = 1 .. Len(save.quizzes) /\ Len(save.quizzes) \in Nat
      BY <2>0
    <3>. QED
      BY <3>1, FS_Interval
  <2>3. IsFiniteSet(Z) /\ Z \in SUBSET Nat
    BY <2>1, <2>2, FS_Subset
  <2> HIDE DEF Z
  <2>4. n \in Nat /\ r \in Seq(Z) /\ Len(r) = n /\ IsInjective(r)
    BY <2>3, ByRankIs, FS_CardinalityType
  <2> HIDE DEF n, r
  <2>5. DOMAIN r = 1 .. n /\ \A k \in 1 .. n : r[k] \in Z
    BY <2>4
  <2>6. \A k \in 1 .. n : r[k] \in DOMAIN save.quizzes /\ save.quizzes[r[k]] \in Quizzes
    <3>1. \A i \in DOMAIN save.quizzes : save.quizzes[i] \in Quizzes
      BY <2>0
    <3>. QED
      BY <2>5, <2>1, <3>1
  <2>7. p \in [1 .. n -> Quizzes] /\ \A k \in 1 .. n : p[k] = save.quizzes[r[k]]
    BY <2>6
  <2>8. PoolOf(l) = p
    BY <1>2 DEF PoolOf, p, n, r, Z
  <2> HIDE DEF p
  <2>9. p \in Seq(Quizzes) /\ DOMAIN p = 1 .. n
    BY <2>7, <2>4
  <2>10. IsInjective(p)
    BY <2>9, <2>7, <2>6, <2>5, <2>4, <2>0 DEF IsInjective
  <2>. QED
    BY <2>8, <2>9, <2>10 DEF Distinct
<1>. QED
  BY <1>1, <1>2

LEMMA RankedIs == ASSUME Sound(save), NEW kept PROVE Ranked(kept) \in Distinct
<1> DEFINE G == Available \cup kept
           s == ByRank(ToSet(save.quizzes) \cap G)
           t == Only(save.quizzes, Quizzes \ G)
<1>1. save.quizzes \in Distinct /\ ToSet(save.quizzes) \subseteq Quizzes
  <2>1. save.quizzes \in Seq(Quizzes)
    BY SaveIs DEF Distinct
  <2>. QED
    BY <2>1, SaveIs DEF ToSet
<1>2. s \in Distinct /\ ToSet(s) \subseteq G
  <2>1. ToSet(save.quizzes) \cap G \in SUBSET Quizzes
    BY <1>1
  <2> HIDE DEF G
  <2>2. s \in Distinct /\ ToSet(s) \subseteq ToSet(save.quizzes) \cap G
    BY <2>1, RankDistinct
  <2>. QED
    BY <2>2
<1>3. t \in Distinct /\ ToSet(t) \cap G = {}
  <2> HIDE DEF G
  <2>. QED
    BY <1>1, OnlyDistinct
<1>4. Ranked(kept) = s \o t
  BY DEF Ranked
<1> HIDE DEF s, t
<1>. QED
  BY <1>2, <1>3, <1>4, Behind

LEMMA LevelNat == Levels \subseteq Nat /\ \A l \in Levels : 1 \in Levels /\ 1 <= l
BY PoolsAssumption DEF Levels

LEMMA NextLevel ==
    ASSUME NEW l \in Levels, NEW k \in Levels, l <= k
    PROVE  l = k \/ (l + 1 \in Levels /\ l + 1 <= k)
BY PoolsAssumption DEF Levels

LEMMA NotNoAsk == \A a \in Asks : a # NoAsk
<1>1. \A a \in Asks : a.stage # "idle"
  BY DEF Asks
<1>2. NoAsk.stage = "idle"
  BY DEF NoAsk
<1>. QED
  BY <1>1, <1>2

LEMMA OneAsk ==
    ASSUME Graph, NEW c \in Clients, NEW x, x \in Asks, Filling(x, Present, pooled),
           ask' = [ask EXCEPT ![c] = x], UNCHANGED <<quiz, pooled>>
    PROVE  Graph'
<1>1. Present' = Present
  BY DEF Present
<1>2. ask' \in [Clients -> Asks \cup {NoAsk}]
  BY DEF Graph
<1>3. \A d \in Clients : ask'[d] = IF d = c THEN x ELSE ask[d]
  BY DEF Graph
<1>4. \A d \in Clients : ask'[d] # NoAsk => Filling(ask'[d], Present, pooled)
  BY <1>3 DEF Graph
<1>. QED
  BY <1>1, <1>2, <1>4 DEF Graph

LEMMA AskPoolStep ==
    ASSUME Graph, NEW c \in Clients, NEW l \in Levels, NEW seed \in Distinct, save.rev \in Nat,
           AskPool(c, l, seed)
    PROVE  Graph'
<1> DEFINE x == [stage |-> "look", level |-> l, at |-> 1, got |-> <<>>, seed |-> Seeded(l, seed),
                 wrote |-> <<>>, late |-> {}, rev |-> save.rev]
<1>1. Seeded(l, seed) \in Distinct
  BY EmptyIs DEF Seeded
<1>2. x \in Asks
  BY <1>1, EmptyIs, PartialNone, LevelNat DEF Asks
<1>3. Filling(x, Present, pooled)
  <2>1. x.at <= x.level /\ DOMAIN x.wrote = {} /\ x.stage # "put"
    BY LevelNat
  <2> HIDE DEF x
  <2>. QED
    BY <2>1 DEF Filling
<1>4. ask' = [ask EXCEPT ![c] = x] /\ UNCHANGED <<quiz, pooled>>
  BY DEF AskPool
<1> HIDE DEF x
<1>. QED
  BY <1>2, <1>3, <1>4, OneAsk

LEMMA LookStep ==
    ASSUME Graph, NEW c \in Clients, Look(c)
    PROVE  Graph'
<1> DEFINE a == ask[c]
           p == Filled(c)
           rest == IF a.at = a.level THEN "ready" ELSE "look"
<1>1. a.stage = "look" /\ a # NoAsk /\ UNCHANGED <<quiz, pooled>>
  BY DEF Look, NoAsk
<1>2. a \in Asks /\ Filling(a, Present, pooled) /\ a.at \in Levels /\ a.level \in Levels
      /\ a.wrote \in Partial(Distinct) /\ a.got \in Distinct
  BY <1>1, AskIs
<1>3. p \in Distinct /\ (Pool(c, a.at) # <<>> => IsPrefix(Pool(c, a.at), p))
  BY <1>1, FilledIs
<1>4. a.at \notin DOMAIN a.wrote
  BY <1>1, <1>2 DEF Filling
<1>5. Pool(c, a.at) = pooled[a.at] /\ pooled[a.at] \in Distinct
  BY <1>2, <1>4 DEF Pool, Graph
<1>6. IsPrefix(pooled[a.at], p)
  BY <1>3, <1>5, EmptyPrefix
<1> HIDE DEF p
<1>7. CASE Len(p) < RequiredAt(a.at)
  <2> DEFINE x == [a EXCEPT !.stage = "short"]
  <2>1. x \in Asks /\ x.at = a.at /\ x.level = a.level /\ x.wrote = a.wrote /\ x.late = a.late
        /\ x.stage = "short"
    BY <1>2 DEF Asks
  <2>2. ask' = [ask EXCEPT ![c] = x]
    BY <1>7 DEF Look, p
  <2> HIDE DEF x
  <2>3. Filling(x, Present, pooled)
    BY <2>1, <1>1, <1>2, <1>4 DEF Filling
  <2> HIDE DEF a
  <2>. QED
    BY <2>1, <2>2, <2>3, <1>1, OneAsk
<1>8. CASE ~(Len(p) < RequiredAt(a.at)) /\ Len(Pool(c, a.at)) < RequiredAt(a.at)
  <2> DEFINE x == [a EXCEPT !.stage = "put", !.got = p]
  <2>1. x \in Asks /\ x.at = a.at /\ x.level = a.level /\ x.wrote = a.wrote /\ x.late = a.late
        /\ x.stage = "put" /\ x.got = p
    BY <1>2, <1>3 DEF Asks
  <2>2. ask' = [ask EXCEPT ![c] = x]
    BY <1>8 DEF Look, p
  <2> HIDE DEF x
  <2>3. Filling(x, Present, pooled)
    BY <2>1, <1>1, <1>2, <1>4, <1>6 DEF Filling
  <2> HIDE DEF a
  <2>. QED
    BY <2>1, <2>2, <2>3, <1>1, OneAsk
<1>9. CASE ~(Len(p) < RequiredAt(a.at)) /\ ~(Len(Pool(c, a.at)) < RequiredAt(a.at))
  <2> DEFINE x == [a EXCEPT !.stage = rest, !.got = p, !.at = IF a.at = a.level THEN @ ELSE @ + 1]
  <2>0. a.at = a.level \/ (a.at + 1 \in Levels /\ a.at + 1 <= a.level)
    BY <1>2, NextLevel DEF Filling
  <2>a. x.at = (IF a.at = a.level THEN a.at ELSE a.at + 1) /\ x.level = a.level
    BY <1>2 DEF Asks
  <2>1. x.at \in Levels /\ x.at <= x.level /\ a.at <= x.at
    BY <1>2, <2>0, <2>a, LevelNat
  <2>2. x \in Asks /\ x.wrote = a.wrote /\ x.late = a.late /\ x.stage \in {"ready", "look"}
    BY <1>2, <1>3, <2>1 DEF Asks
  <2>3. ask' = [ask EXCEPT ![c] = x]
    BY <1>9 DEF Look, p
  <2>4. \A l \in DOMAIN a.wrote : l <= x.at /\ l # x.at
    <3>1. \A l \in DOMAIN a.wrote : l \in Levels /\ l <= a.at /\ l # a.at
      BY <1>2, <1>4, PartialIs DEF Filling
    <3>. QED
      BY <3>1, <2>1, <1>2, LevelNat
  <2> HIDE DEF x
  <2>5. Filling(x, Present, pooled)
    BY <2>1, <2>2, <2>4, <1>2 DEF Filling
  <2> HIDE DEF a
  <2>. QED
    BY <2>2, <2>3, <2>5, <1>1, OneAsk
<1>. QED
  BY <1>7, <1>8, <1>9

LEMMA PutPoolStep ==
    ASSUME Graph, NEW c \in Clients, PutPool(c)
    PROVE  Graph'
<1> DEFINE a == ask[c]
           renewed == Only(a.got, Present)
           w == With(a.wrote, a.at, renewed)
           b == [a EXCEPT !.wrote = w,
                          !.stage = IF a.at = a.level THEN "ready" ELSE "look",
                          !.at = IF a.at = a.level THEN @ ELSE @ + 1]
<1>1. a.stage = "put" /\ a # NoAsk /\ UNCHANGED <<quiz, pooled>>
  BY DEF PutPool, NoAsk
<1>2. a \in Asks /\ Filling(a, Present, pooled) /\ a.at \in Levels /\ a.level \in Levels
      /\ a.wrote \in Partial(Distinct) /\ a.got \in Distinct
  BY <1>1, AskIs
<1>3. renewed \in Distinct /\ ToSet(renewed) \subseteq Present
  BY <1>2, OnlyDistinct
<1>4. /\ w \in Partial(Distinct) /\ DOMAIN w = DOMAIN a.wrote \cup {a.at}
      /\ \A l \in DOMAIN w : w[l] = IF l = a.at THEN renewed ELSE a.wrote[l]
  <2>1. With(a.wrote, a.at, renewed) \in Partial(Distinct) /\ Differs(With(a.wrote, a.at, renewed), a.wrote, a.at, renewed)
    BY <1>2, <1>3, WithIs
  <2>. QED
    BY <2>1 DEF Differs
<1>5. ask' = [ask EXCEPT ![c] = b]
  BY DEF PutPool, Graph
<1>6. a.at \notin a.late => IsPrefix(pooled[a.at], renewed)
  <2>. SUFFICES ASSUME a.at \notin a.late PROVE IsPrefix(pooled[a.at], renewed)
    OBVIOUS
  <2>1. IsPrefix(pooled[a.at], a.got)
    BY <1>1, <1>2 DEF Filling
  <2>2. pooled[a.at] \in Seq(Quizzes) /\ a.got \in Seq(Quizzes) /\ ToSet(pooled[a.at]) \subseteq Present
    BY <1>2 DEF Graph, Distinct
  <2>. QED
    BY <2>1, <2>2, OnlyPrefix
<1> HIDE DEF w, renewed
<1>7. /\ b.at \in Levels /\ b.at <= b.level /\ a.at <= b.at
      /\ a.at = b.at => b.stage = "ready"
  <2>0. a.at = a.level \/ (a.at + 1 \in Levels /\ a.at + 1 <= a.level)
    BY <1>2, NextLevel DEF Filling
  <2>1. /\ b.at = (IF a.at = a.level THEN a.at ELSE a.at + 1) /\ b.level = a.level
        /\ b.stage = (IF a.at = a.level THEN "ready" ELSE "look")
    BY <1>2 DEF Asks
  <2>. QED
    BY <1>2, <2>0, <2>1, LevelNat
<1>8. b \in Asks /\ b.wrote = w /\ b.late = a.late /\ b.stage \in {"ready", "look"}
  BY <1>2, <1>4, <1>7 DEF Asks
<1>9. \A l \in DOMAIN w : l <= b.at /\ (l = b.at => b.stage = "ready")
  <2>1. \A l \in DOMAIN w : l \in Levels /\ l <= a.at /\ (l # a.at => l < a.at)
    <3>1. \A l \in DOMAIN a.wrote : l \in Levels /\ l <= a.at /\ l # a.at
      BY <1>1, <1>2, PartialIs DEF Filling
    <3>2. a.at \in Levels /\ a.at \in Nat /\ DOMAIN w = DOMAIN a.wrote \cup {a.at}
      BY <1>2, <1>4, LevelNat
    <3>3. \A l \in DOMAIN w : l = a.at \/ l \in DOMAIN a.wrote
      BY <3>2
    <3> HIDE DEF b, a
    <3>4. \A l \in DOMAIN w : l \in Levels /\ l <= a.at
      BY <3>1, <3>2, <3>3, LevelNat
    <3>5. ASSUME NEW l \in DOMAIN w PROVE l \in Levels /\ l <= a.at /\ (l # a.at => l < a.at)
      <4>1. l \in Nat /\ l <= a.at /\ l \in Levels
        BY <3>4, LevelNat
      <4>. QED
        BY <4>1, <3>2
    <3>. QED
      BY <3>5
  <2>. QED
    BY <2>1, <1>7, <1>2, LevelNat
<1> HIDE DEF b
<1>10. \A l \in DOMAIN w : ToSet(w[l]) \subseteq Present /\ (l \notin a.late => IsPrefix(pooled[l], w[l]))
  BY <1>2, <1>3, <1>4, <1>6 DEF Filling
<1>11. Filling(b, Present, pooled)
  BY <1>7, <1>8, <1>9, <1>10 DEF Filling
<1> HIDE DEF a
<1>. QED
  BY <1>1, <1>5, <1>8, <1>11, OneAsk

LEMMA EndsStep ==
    ASSUME Graph, NEW c, NEW L \in SUBSET Levels, Ends(c, L),
           quiz' \in [Quizzes -> {"none", "usable", "broken", "gone"}],
           pooled' \in [Levels -> Distinct], \A l \in Levels : ToSet(pooled'[l]) \subseteq Present',
           \A l \in Levels \ L : pooled'[l] = pooled[l],
           \A d \in Clients : ask[d] # NoAsk =>
              \A l \in DOMAIN ask[d].wrote : ToSet(ask[d].wrote[l]) \subseteq Present'
    PROVE  Graph'
<1>1. \A d \in Clients : ask'[d] = IF d = c \/ ask[d] = NoAsk THEN NoAsk
                                    ELSE [ask[d] EXCEPT !.late = @ \cup L]
  BY DEF Ends
<1>2. ASSUME NEW d \in Clients, ask'[d] # NoAsk
      PROVE  ask'[d] \in Asks /\ Filling(ask'[d], Present', pooled')
  <2> DEFINE a == ask[d]
             b == [a EXCEPT !.late = @ \cup L]
  <2>1. ask[d] # NoAsk /\ ask'[d] = b
    BY <1>1, <1>2
  <2>2. a \in Asks /\ Filling(a, Present, pooled) /\ a.wrote \in Partial(Distinct) /\ a.at \in Levels
    BY <2>1, AskIs
  <2>3. b \in Asks /\ b.late = a.late \cup L /\ b.wrote = a.wrote /\ b.at = a.at /\ b.got = a.got
        /\ b.stage = a.stage /\ b.level = a.level
    BY <2>2 DEF Asks
  <2> HIDE DEF b
  <2>4. \A l \in DOMAIN a.wrote : l \in Levels /\ ToSet(a.wrote[l]) \subseteq Present'
    BY <2>1, <2>2, PartialIs
  <2>5. Filling(b, Present', pooled')
    <3> HIDE DEF a
    <3>1. b.at <= b.level
      BY <2>2, <2>3 DEF Filling
    <3>2. ASSUME NEW l \in DOMAIN b.wrote
          PROVE  /\ ToSet(b.wrote[l]) \subseteq Present'
                 /\ l <= b.at /\ (l = b.at => b.stage = "ready")
                 /\ l \notin b.late => IsPrefix(pooled'[l], b.wrote[l])
      <4>1. l \in DOMAIN a.wrote /\ l \in Levels
        BY <2>3, <2>4
      <4>2. l <= a.at /\ (l = a.at => a.stage = "ready")
            /\ (l \notin a.late => IsPrefix(pooled[l], a.wrote[l]))
        BY <4>1, <2>2 DEF Filling
      <4>. QED
        BY <4>1, <4>2, <2>3, <2>4
    <3>3. b.stage = "put" /\ b.at \notin b.late => IsPrefix(pooled'[b.at], b.got)
      BY <2>2, <2>3 DEF Filling
    <3>. QED
      BY <3>1, <3>2, <3>3 DEF Filling
  <2>. QED
    BY <2>1, <2>3, <2>5
<1>3. ask' \in [Clients -> Asks \cup {NoAsk}]
  <2>1. ask' = [d \in Clients |-> ask'[d]]
    BY DEF Ends
  <2>2. \A d \in Clients : ask'[d] \in Asks \cup {NoAsk}
    BY <1>2
  <2>. QED
    BY <2>1, <2>2
<1>. QED
  BY <1>2, <1>3 DEF Graph

LEMMA EndsOnly ==
    ASSUME Graph, NEW c, Ends(c, {}), UNCHANGED <<quiz, pooled>>
    PROVE  Graph'
<1>1. Present' = Present
  BY DEF Present
<1>2. \A d \in Clients : ask[d] # NoAsk =>
         \A l \in DOMAIN ask[d].wrote : ToSet(ask[d].wrote[l]) \subseteq Present'
  BY <1>1 DEF Graph, Filling
<1>3. /\ quiz' \in [Quizzes -> {"none", "usable", "broken", "gone"}]
      /\ pooled' \in [Levels -> Distinct] /\ \A l \in Levels : ToSet(pooled'[l]) \subseteq Present'
      /\ \A l \in Levels \ {} : pooled'[l] = pooled[l]
  BY <1>1 DEF Graph
<1>. QED
  BY <1>2, <1>3, EndsStep

\* What is stored over the pools of some levels.
LEMMA StoresStep ==
    ASSUME Graph, NEW c, NEW f \in Partial(Distinct), \A l \in DOMAIN f : ToSet(f[l]) \subseteq Present,
           pooled' = Upon(f, pooled), Ends(c, DOMAIN f), UNCHANGED quiz
    PROVE  Graph'
<1>1. Present' = Present
  BY DEF Present
<1>2. pooled \in Partial(Distinct) /\ DOMAIN pooled = Levels /\ DOMAIN f \in SUBSET Levels
  BY StoredPartial, PartialIs DEF Graph
<1>3. /\ Upon(f, pooled) \in Partial(Distinct) /\ DOMAIN Upon(f, pooled) = Levels
      /\ \A l \in Levels : Upon(f, pooled)[l] = IF l \in DOMAIN f THEN f[l] ELSE pooled[l]
  <2>1. Upon(f, pooled) \in Partial(Distinct) /\ Merged(Upon(f, pooled), f, pooled)
    BY <1>2, UponIs
  <2>. QED
    BY <2>1, <1>2 DEF Merged
<1>4. /\ pooled' \in [Levels -> Distinct] /\ \A l \in Levels : ToSet(pooled'[l]) \subseteq Present'
      /\ \A l \in Levels \ DOMAIN f : pooled'[l] = pooled[l]
  <2>1. pooled' \in [Levels -> Distinct]
    BY <1>3, PartialIs
  <2>2. \A l \in Levels : ToSet(pooled[l]) \subseteq Present
    BY DEF Graph
  <2>. QED
    BY <2>1, <2>2, <1>1, <1>3
<1>5. \A d \in Clients : ask[d] # NoAsk =>
         \A l \in DOMAIN ask[d].wrote : ToSet(ask[d].wrote[l]) \subseteq Present'
  BY <1>1 DEF Graph, Filling
<1>6. quiz' \in [Quizzes -> {"none", "usable", "broken", "gone"}]
  BY DEF Graph
<1>. QED
  BY <1>2, <1>4, <1>5, <1>6, EndsStep

LEMMA StoreStep ==
    ASSUME Graph, NEW c \in Clients, ask[c] # NoAsk, Store(c), UNCHANGED quiz
    PROVE  Graph'
<1>1. ask[c].wrote \in Partial(Distinct) /\ \A l \in DOMAIN ask[c].wrote : ToSet(ask[c].wrote[l]) \subseteq Present
  BY AskIs DEF Filling
<1>. QED
  BY <1>1, StoresStep DEF Store

LEMMA StageAsks == ASSUME NEW c, ask[c].stage \in {"ready", "short"} PROVE ask[c] # NoAsk
BY DEF NoAsk

---------------------------------------------------------------------------
(* The saved adventure.                                                       *)

LEMMA ChangedIs ==
    ASSUME NEW s, Sound(s), Changed(s)
    PROVE  Sound(save')
<1>1. s \in Saves
  BY DEF Sound
<1>2. /\ save' \in Saves /\ save'.quizzes = s.quizzes /\ save'.pools = s.pools
      /\ save'.enemies = s.enemies /\ save'.battle = s.battle
  BY <1>1 DEF Changed, Saves
<1>. QED
  BY <1>2 DEF Sound

LEMMA SoundSame == ASSUME Sound(save), UNCHANGED save PROVE Sound(save')
OBVIOUS

Keeps(u, qs) == \A i \in DOMAIN qs : i \in DOMAIN u /\ u[i] = qs[i]

LEMMA SoundJoin ==
    ASSUME Sound(save), NEW u \in Distinct, Keeps(u, save.quizzes)
    PROVE  Sound([save EXCEPT !.quizzes = u])
<1> DEFINE t == [save EXCEPT !.quizzes = u]
<1>1. save \in Saves
  BY DEF Sound
<1>2. /\ t \in Saves /\ t.quizzes = u /\ t.pools = save.pools
      /\ t.enemies = save.enemies /\ t.battle = save.battle
  BY <1>1 DEF Saves
<1> HIDE DEF t
<1>3. t.battle # NoFight => /\ t.battle.asked \in DOMAIN t.quizzes
                            /\ t.quizzes[t.battle.asked] = t.battle.quiz
  BY <1>2 DEF Sound, Keeps
<1>4. \A l \in DOMAIN t.enemies \cap DOMAIN t.pools : \A i \in UNION t.enemies[l] :
          i \in DOMAIN t.quizzes /\ t.quizzes[i] \in ToSet(t.pools[l])
  BY <1>2 DEF Sound, Keeps
<1>5. Sound(t)
  BY <1>2, <1>3, <1>4 DEF Sound
<1>. QED
  BY <1>5 DEF t

\* A region and what it asks, in a content that keeps what it had.
LEMMA SoundTaken ==
    ASSUME Sound(save), save.battle = NoFight, NEW u \in Distinct, Keeps(u, save.quizzes),
           NEW l \in Levels, NEW p \in Distinct, NEW g \in Groups(Positions(ToSet(p), u))
    PROVE  Sound([save EXCEPT !.quizzes = u, !.pools = With(@, l, p), !.enemies = With(@, l, g)])
<1> DEFINE P == With(save.pools, l, p)
           E == With(save.enemies, l, g)
           t == [save EXCEPT !.quizzes = u, !.pools = P, !.enemies = E]
<1>1. save \in Saves /\ save.pools \in Partial(Distinct) /\ save.enemies \in Partial(EnemySets)
  BY SaveIs
<1>2. g \in EnemySets /\ \A i \in UNION g : i \in DOMAIN u /\ u[i] \in ToSet(p)
  BY DrawnIs
<1>3. P \in Partial(Distinct) /\ Differs(P, save.pools, l, p)
  BY <1>1, WithIs
<1>4. E \in Partial(EnemySets) /\ Differs(E, save.enemies, l, g)
  BY <1>1, <1>2, WithIs
<1> HIDE DEF P, E
<1>5. t \in Saves /\ t.quizzes = u /\ t.pools = P /\ t.enemies = E /\ t.battle = NoFight
  BY <1>1, <1>3, <1>4 DEF Saves
<1> HIDE DEF t
<1>6. ASSUME NEW k \in DOMAIN E \cap DOMAIN P, NEW i \in UNION E[k]
      PROVE  i \in DOMAIN u /\ u[i] \in ToSet(P[k])
  <2>1. CASE k = l
    BY <2>1, <1>2, <1>3, <1>4, <1>6 DEF Differs
  <2>2. CASE k # l
    <3>1. k \in DOMAIN save.enemies \cap DOMAIN save.pools /\ E[k] = save.enemies[k] /\ P[k] = save.pools[k]
      BY <2>2, <1>3, <1>4, <1>6 DEF Differs
    <3>2. i \in DOMAIN save.quizzes /\ save.quizzes[i] \in ToSet(save.pools[k])
      BY <3>1, <1>6 DEF Sound
    <3>. QED
      BY <3>1, <3>2 DEF Keeps
  <2>. QED
    BY <2>1, <2>2
<1>7. Sound(t)
  BY <1>5, <1>6 DEF Sound
<1>. QED
  BY <1>7 DEF t, P, E

LEMMA SoundAsked ==
    ASSUME NEW s, Sound(s), NEW st \in {"boss", "enemy"}, NEW i \in DOMAIN s.quizzes
    PROVE  Sound([s EXCEPT !.battle = [stage |-> st, asked |-> i, quiz |-> s.quizzes[i]]])
<1> DEFINE b == [stage |-> st, asked |-> i, quiz |-> s.quizzes[i]]
           t == [s EXCEPT !.battle = b]
<1>1. s \in Saves /\ s.quizzes \in Seq(Quizzes)
  BY DEF Sound, Saves, Distinct
<1>2. i \in Nat /\ s.quizzes[i] \in Quizzes
  BY <1>1
<1>3. b \in Battles /\ b.asked = i /\ b.quiz = s.quizzes[i]
  BY <1>2 DEF Battles
<1> HIDE DEF b
<1>4. /\ t \in Saves /\ t.quizzes = s.quizzes /\ t.pools = s.pools
      /\ t.enemies = s.enemies /\ t.battle = b
  BY <1>1, <1>3 DEF Saves
<1> HIDE DEF t
<1>5. Sound(t)
  BY <1>3, <1>4 DEF Sound
<1>. QED
  BY <1>5 DEF t, b

LEMMA SoundParted == ASSUME Sound(save) PROVE Sound([save EXCEPT !.battle = NoFight])
<1> DEFINE t == [save EXCEPT !.battle = NoFight]
<1>1. save \in Saves
  BY DEF Sound
<1>4. /\ t \in Saves /\ t.quizzes = save.quizzes /\ t.pools = save.pools
      /\ t.enemies = save.enemies /\ t.battle = NoFight
  BY <1>1 DEF Saves, Battles
<1> HIDE DEF t
<1>5. Sound(t)
  BY <1>4 DEF Sound
<1>. QED
  BY <1>5 DEF t

\* What a request takes into the content, behind what is there.
LEMMA TakenIs ==
    ASSUME Sound(save), NEW p \in Distinct
    PROVE  LET u == save.quizzes \o Only(p, Quizzes \ ToSet(save.quizzes))
           IN u \in Distinct /\ Keeps(u, save.quizzes)
BY SaveIs, JoinedIs DEF Keeps

LEMMA AnswerStep ==
    ASSUME Graph, Sound(save), NEW c \in Clients, Answer(c)
    PROVE  Graph' /\ Sound(save')
<1> DEFINE a == ask[c]
           u == save.quizzes \o Only(a.got, Quizzes \ ToSet(save.quizzes))
<1>0. a.stage = "ready" /\ Store(c) /\ UNCHANGED quiz
  BY Zenon DEF Answer
<1>1. a # NoAsk /\ Store(c) /\ UNCHANGED quiz
  BY <1>0, StageAsks
<1>2. Graph'
  BY <1>1, StoreStep
<1>3. a.got \in Distinct /\ a.level \in Levels
  BY <1>1, AskIs
<1>4. u \in Distinct /\ Keeps(u, save.quizzes)
  BY <1>3, TakenIs
<1>5. \/ UNCHANGED save
      \/ /\ save.battle = NoFight
         /\ \E g \in Groups(Positions(ToSet(a.got), u)) :
               Changed([save EXCEPT !.quizzes = u, !.pools = With(@, a.level, a.got),
                                    !.enemies = With(@, a.level, g)])
  BY DEF Answer
<1> HIDE DEF u, a
<1>6. Sound(save')
  BY <1>3, <1>4, <1>5, SoundSame, SoundTaken, ChangedIs
<1>. QED
  BY <1>2, <1>6

LEMMA MeetBossStep ==
    ASSUME Graph, Sound(save), NEW c \in Clients, MeetBoss(c)
    PROVE  Graph' /\ Sound(save')
<1> DEFINE a == ask[c]
           u == save.quizzes \o Only(a.got, Quizzes \ ToSet(save.quizzes))
           s == [save EXCEPT !.quizzes = u]
<1>1. a # NoAsk /\ Store(c) /\ UNCHANGED quiz
  BY StageAsks DEF MeetBoss
<1>2. Graph'
  BY <1>1, StoreStep
<1>3. a.got \in Distinct
  BY <1>1, AskIs
<1>4. u \in Distinct /\ Keeps(u, save.quizzes)
  BY <1>3, TakenIs
<1>5. PICK i \in Positions(ToSet(a.got), u) :
        Changed([save EXCEPT !.quizzes = u,
                             !.battle = [stage |-> "boss", asked |-> i, quiz |-> u[i]]])
  BY DEF MeetBoss
<1>6. i \in DOMAIN u
  BY DEF Positions
<1> HIDE DEF u, a
<1>7. s.quizzes = u /\ Sound(s)
  BY <1>4, SoundJoin, SaveIs DEF Saves
<1>8. Sound([s EXCEPT !.battle = [stage |-> "boss", asked |-> i, quiz |-> s.quizzes[i]]])
  <2> HIDE DEF s
  <2>. QED
    BY <1>6, <1>7, SoundAsked
<1>9. [s EXCEPT !.battle = [stage |-> "boss", asked |-> i, quiz |-> s.quizzes[i]]]
      = [save EXCEPT !.quizzes = u, !.battle = [stage |-> "boss", asked |-> i, quiz |-> u[i]]]
  BY <1>7, SaveIs DEF Saves
<1>. QED
  BY <1>2, <1>5, <1>8, <1>9, ChangedIs

LEMMA MeetStep ==
    ASSUME Sound(save), NEW l, Meet(l)
    PROVE  Sound(save')
<1>1. PICK i \in DOMAIN save.quizzes :
        Changed([save EXCEPT !.battle = [stage |-> "enemy", asked |-> i, quiz |-> save.quizzes[i]]])
  BY DEF Meet
<1>. QED
  BY <1>1, SoundAsked, ChangedIs

LEMMA PartStep ==
    ASSUME Sound(save), Part
    PROVE  Sound(save')
BY SoundParted, ChangedIs DEF Part

---------------------------------------------------------------------------
(* Rebuilds.                                                                  *)

LEMMA SoundRebuilt ==
    ASSUME Sound(save), NotInBattle, NEW u \in Distinct, NEW D \in SUBSET Levels, NEW P \in [D -> Distinct],
           NEW E, DOMAIN E = D, E = [l \in D |-> E[l]],
           \A l \in D : E[l] \in Groups(Positions(ToSet(P[l]), u))
    PROVE  Sound([save EXCEPT !.quizzes = u, !.pools = P, !.enemies = E])
<1> DEFINE t == [save EXCEPT !.quizzes = u, !.pools = P, !.enemies = E]
<1>1. save \in Saves
  BY SaveIs
<1>2. \A l \in D : E[l] \in EnemySets /\ \A i \in UNION E[l] : i \in DOMAIN u /\ u[i] \in ToSet(P[l])
  BY DrawnIs
<1>3. E \in [D -> EnemySets]
  BY <1>2
<1>4. P \in Partial(Distinct) /\ E \in Partial(EnemySets)
  BY <1>3, PartialOf
<1>5. t \in Saves /\ t.quizzes = u /\ t.pools = P /\ t.enemies = E /\ t.battle = NoFight
  BY <1>1, <1>4 DEF Saves, NotInBattle
<1> HIDE DEF t
<1>6. Sound(t)
  BY <1>2, <1>5 DEF Sound
<1>. QED
  BY <1>6 DEF t

LEMMA Monotone ==
    ASSUME NEW m \in Nat, NEW n \in Nat, NEW k \in Nat, m <= n
    PROVE  m * k \in Nat /\ n * k \in Nat /\ m * k <= n * k
<1>1. n * k = m * k + (n - m) * k /\ (n - m) \in Nat
  OBVIOUS
<1>2. (n - m) * k \in Nat /\ m * k \in Nat
  BY <1>1
<1>. QED
  BY <1>1, <1>2

LEMMA RebuildWithStep ==
    ASSUME Graph, Sound(save), NEW reroll \in BOOLEAN, NEW graph \in BOOLEAN, NEW kept,
           RebuildWith(reroll, graph, kept), UNCHANGED quiz
    PROVE  Graph' /\ Sound(save')
<1> DEFINE u == IF reroll THEN Ranked(kept) ELSE save.quizzes
           D == Regions
           P == [l \in D |-> IF reroll THEN SubSeq(u, 1, RequiredAt(l)) ELSE PoolOf(l)]
           drawn == [l \in D |-> Groups(Positions(ToSet(P[l]), u))]
           held == [l \in D |-> Only(P[l], Present)]
<1>1. D # {} /\ NotInBattle /\ (reroll => Len(u) >= Needed)
  BY DEF RebuildWith
<1>2. PICK E \in [D -> UNION {drawn[l] : l \in D}] :
        (\A l \in D : E[l] \in drawn[l]) /\ Rebuilt(u, P, E)
  BY DEF RebuildWith
<1>3. IF graph THEN pooled' = Upon(held, pooled) /\ Ends("rebuild", D) ELSE UNCHANGED <<pooled, ask>>
  BY DEF RebuildWith
<1>4. D \in SUBSET Levels
  BY RegionsIn
<1>5. u \in Distinct
  BY RankedIs, SaveIs
<1>6. P \in [D -> Distinct]
  <2>1. ASSUME NEW l \in D, reroll PROVE SubSeq(u, 1, RequiredAt(l)) \in Distinct
    <3>1. RequiredAt(l) \in Nat /\ RequiredAt(l) <= Len(u)
      <4>1. l \in Levels /\ Max(D) \in Levels /\ l <= Max(D) /\ Needed = RequiredAt(Max(D))
        <5>1. Max(D) \in D /\ \A k \in D : k <= Max(D)
          BY <1>1, <1>4, MaxIn, PoolsAssumption DEF Levels
        <5>. QED
          BY <1>1, <1>4, <5>1 DEF Needed
      <4>2. RequiredAt(l) \in Nat /\ RequiredAt(Max(D)) \in Nat /\ RequiredAt(l) <= RequiredAt(Max(D))
        <5>1. l \in Nat /\ Max(D) \in Nat /\ N \in Nat /\ l <= Max(D)
          BY <4>1, LevelNat, PoolsAssumption
        <5> HIDE DEF D
        <5>. QED
          BY <5>1, Monotone DEF RequiredAt
      <4>3. Len(u) \in Nat /\ Len(u) >= Needed
        BY <1>1, <1>5, <2>1, LenNat
      <4> HIDE DEF u, D
      <4>. QED
        BY <4>1, <4>2, <4>3
    <3> HIDE DEF u
    <3>. QED
      BY <3>1, <1>5, CutDistinct
  <2>2. ASSUME NEW l \in D, ~reroll PROVE PoolOf(l) \in Distinct
    BY PoolOfIs
  <2> HIDE DEF u
  <2>. QED
    BY <2>1, <2>2
<1> HIDE DEF P, u
<1>7. Sound(save')
  <2>1. \A l \in D : E[l] \in Groups(Positions(ToSet(P[l]), u))
    BY <1>2
  <2>2. DOMAIN E = D /\ E = [l \in D |-> E[l]]
    BY <1>2
  <2> HIDE DEF D
  <2>3. Sound([save EXCEPT !.quizzes = u, !.pools = P, !.enemies = E])
    BY <2>1, <2>2, <1>1, <1>4, <1>5, <1>6, SoundRebuilt
  <2>. QED
    BY <2>3, <1>2, ChangedIs DEF Rebuilt
<1>8. CASE graph
  <2>1. held \in [D -> Distinct] /\ DOMAIN held = D /\ \A l \in D : ToSet(held[l]) \subseteq Present
    <3>1. \A l \in D : Only(P[l], Present) \in Distinct /\ ToSet(Only(P[l], Present)) \subseteq Present
      <4> HIDE DEF D
      <4>. QED
        BY <1>6, OnlyDistinct
    <3>. QED
      BY <3>1
  <2> HIDE DEF held, D
  <2>2. held \in Partial(Distinct)
    BY <2>1, <1>4, PartialOf
  <2>3. Graph'
    BY <2>1, <2>2, <1>3, <1>8, StoresStep
  <2>. QED
    BY <2>3, <1>7
<1>9. CASE ~graph
  <2>1. UNCHANGED <<quiz, pooled, ask>> /\ Present' = Present
    BY <1>3, <1>9 DEF Present
  <2>2. Graph'
    BY <2>1 DEF Graph
  <2>. QED
    BY <2>2, <1>7
<1>. QED
  BY <1>8, <1>9

LEMMA SameGraph == ASSUME Graph, UNCHANGED <<quiz, pooled, ask>> PROVE Graph'
<1>1. Present' = Present
  BY DEF Present
<1>. QED
  BY <1>1 DEF Graph

LEMMA AnswerShortStep ==
    ASSUME Graph, Sound(save), NEW c \in Clients, AnswerShort(c)
    PROVE  Graph' /\ Sound(save')
<1>1. ask[c] # NoAsk /\ UNCHANGED <<quiz, save>> /\ (Store(c) \/ (UNCHANGED pooled /\ Ends(c, {})))
  BY StageAsks DEF AnswerShort
<1>. QED
  BY <1>1, StoreStep, EndsOnly, SoundSame

LEMMA RefusePoolStep ==
    ASSUME Graph, Sound(save), NEW c, RefusePool(c)
    PROVE  Graph' /\ Sound(save')
BY EndsOnly, SoundSame DEF RefusePool

LEMMA RebuildStep ==
    ASSUME Graph, Sound(save), NEW reroll \in BOOLEAN, NEW graph \in BOOLEAN,
           Rebuild(reroll, graph), UNCHANGED quiz
    PROVE  Graph' /\ Sound(save')
<1>1. PICK kept : RebuildWith(reroll, graph, kept)
  BY DEF Rebuild
<1>. QED
  BY <1>1, RebuildWithStep

LEMMA SyncContentStep ==
    ASSUME Graph, Sound(save), Jobbing, NEW j \in Jobs, SyncContent(j)
    PROVE  Graph' /\ Sound(save')
<1> DEFINE n == rebuild[j].need
           b == Best(n)
           u == save.quizzes \o Only(b, Quizzes \ ToSet(save.quizzes))
<1>1. n \in Nat
  <2>1. rebuild[j].stage = "prepared" /\ rebuild[j] \in JobStates
    BY DEF SyncContent, Jobbing
  <2>. QED
    BY <2>1 DEF JobStates
<1>2. b \in Distinct
  <2>1. Available \in SUBSET Quizzes
    BY InQuizzes
  <2>2. ByRank(Available) \in Distinct /\ Len(ByRank(Available)) = Cardinality(Available)
        /\ Cardinality(Available) \in Nat
    BY <2>1, RankDistinct, PartsFinite, FS_CardinalityType
  <2>3. Least(n, Cardinality(Available)) \in Nat
        /\ Least(n, Cardinality(Available)) <= Len(ByRank(Available))
    BY <1>1, <2>2, LeastIs
  <2> HIDE DEF n
  <2>. QED
    BY <2>2, <2>3, CutDistinct DEF Best
<1> HIDE DEF b
<1>3. u \in Distinct /\ Keeps(u, save.quizzes)
  BY <1>2, TakenIs
<1>4. Changed([save EXCEPT !.quizzes = u]) /\ UNCHANGED <<quiz, pooled, ask>>
  BY DEF SyncContent, Synced, b
<1> HIDE DEF u
<1>5. Sound(save')
  BY <1>3, <1>4, SoundJoin, ChangedIs
<1>. QED
  BY <1>4, <1>5, SameGraph

LEMMA MoreQuizzes ==
    ASSUME Graph, UNCHANGED <<pooled, ask>>, Present \subseteq Present',
           quiz' \in [Quizzes -> {"none", "usable", "broken", "gone"}]
    PROVE  Graph'
<1>1. \A c \in Clients : ask'[c] # NoAsk => Filling(ask'[c], Present', pooled')
  BY DEF Graph, Filling
<1>2. pooled' \in [Levels -> Distinct] /\ \A l \in Levels : ToSet(pooled'[l]) \subseteq Present'
  BY DEF Graph
<1>3. ask' \in [Clients -> Asks \cup {NoAsk}]
  BY DEF Graph
<1>. QED
  BY <1>1, <1>2, <1>3 DEF Graph

LEMMA PrepareMoreStep ==
    ASSUME Graph, Sound(save), NEW j \in Jobs, PrepareMore(j)
    PROVE  Graph' /\ Sound(save')
<1>1. PICK arrived \in SUBSET {q \in Quizzes : quiz[q] = "none"} :
        quiz' = [q \in Quizzes |-> IF q \in arrived THEN "usable" ELSE quiz[q]]
  BY DEF PrepareMore
<1>2. quiz' \in [Quizzes -> {"none", "usable", "broken", "gone"}]
  BY <1>1 DEF Graph
<1>3. Present \subseteq Present'
  BY <1>1 DEF Present
<1>4. UNCHANGED <<pooled, ask, save>>
  BY DEF PrepareMore
<1>. QED
  BY <1>2, <1>3, <1>4, MoreQuizzes, SoundSame

LEMMA RestartStep ==
    ASSUME Graph, Sound(save), Restart
    PROVE  Graph' /\ Sound(save')
<1>1. ask' \in [Clients -> Asks \cup {NoAsk}] /\ \A c \in Clients : ask'[c] = NoAsk
  BY DEF Restart
<1>2. UNCHANGED <<quiz, pooled, save>> /\ Present' = Present
  BY DEF Restart, Present
<1>. QED
  BY <1>1, <1>2, SoundSame DEF Graph

LEMMA BrokenStep ==
    ASSUME Graph, Sound(save), NEW q \in Quizzes, Broken(q)
    PROVE  Graph' /\ Sound(save')
<1>1. quiz[q] = "usable" /\ quiz' = [quiz EXCEPT ![q] = "broken"] /\ UNCHANGED <<save, pooled, ask>>
  BY DEF Broken, World
<1>2. quiz' \in [Quizzes -> {"none", "usable", "broken", "gone"}]
  BY <1>1 DEF Graph
<1>3. Present \subseteq Present'
  BY <1>1 DEF Present, Graph
<1>. QED
  BY <1>1, <1>2, <1>3, MoreQuizzes, SoundSame

LEMMA DeletedStep ==
    ASSUME Graph, Sound(save), NEW q \in Quizzes, Deleted(q)
    PROVE  Graph' /\ Sound(save')
<1> DEFINE L == {l \in Levels : q \in ToSet(pooled[l])}
<1>1. /\ quiz' = [quiz EXCEPT ![q] = "gone"] /\ UNCHANGED save
      /\ \A c \in Clients : ask[c] # NoAsk => \A l \in DOMAIN ask[c].wrote :
                               q \notin ToSet(ask[c].wrote[l])
      /\ pooled' = [l \in Levels |-> Only(pooled[l], Quizzes \ {q})]
      /\ Ends("deletion", L)
  BY DEF Deleted, World
<1>2. quiz' \in [Quizzes -> {"none", "usable", "broken", "gone"}]
  BY <1>1 DEF Graph
<1>3. Present' = Present \ {q}
  BY <1>1 DEF Present, Graph
<1>4. ASSUME NEW l \in Levels
      PROVE  /\ Only(pooled[l], Quizzes \ {q}) \in Distinct
             /\ ToSet(Only(pooled[l], Quizzes \ {q})) \subseteq Present'
             /\ l \notin L => Only(pooled[l], Quizzes \ {q}) = pooled[l]
  <2>1. pooled[l] \in Distinct /\ ToSet(pooled[l]) \subseteq Present
    BY DEF Graph
  <2>2. pooled[l] \in Seq(Quizzes)
    BY <2>1 DEF Distinct
  <2>3. Only(pooled[l], Quizzes \ {q}) \in Distinct
        /\ ToSet(Only(pooled[l], Quizzes \ {q})) = ToSet(pooled[l]) \cap (Quizzes \ {q})
    BY <2>1, OnlyDistinct
  <2>4. l \notin L => ToSet(pooled[l]) \subseteq Quizzes \ {q}
    BY <2>1, InQuizzes
  <2>5. l \notin L => Only(pooled[l], Quizzes \ {q}) = pooled[l]
    BY <2>2, <2>4, OnlyOf
  <2>. QED
    BY <1>3, <2>1, <2>3, <2>5
<1>5. /\ pooled' \in [Levels -> Distinct] /\ \A l \in Levels : ToSet(pooled'[l]) \subseteq Present'
      /\ \A l \in Levels \ L : pooled'[l] = pooled[l]
  BY <1>1, <1>4
<1>6. \A d \in Clients : ask[d] # NoAsk =>
         \A l \in DOMAIN ask[d].wrote : ToSet(ask[d].wrote[l]) \subseteq Present'
  BY <1>1, <1>3 DEF Graph, Filling
<1>7. L \in SUBSET Levels
  OBVIOUS
<1> HIDE DEF L
<1>8. Graph'
  BY <1>1, <1>2, <1>5, <1>6, <1>7, EndsStep
<1>. QED
  BY <1>1, <1>8, SoundSame

LEMMA AskingStep ==
    ASSUME Graph, Sound(save), NEW c \in Clients, Asking(c)
    PROVE  Graph' /\ Sound(save')
<1>0. save.rev \in Nat
  BY SaveIs
<1>1. ASSUME NEW l \in Levels, AskPool(c, l, <<>>) PROVE Graph' /\ Sound(save')
  <2>1. UNCHANGED save
    BY <1>1 DEF AskPool
  <2>. QED
    BY <1>0, <1>1, <2>1, EmptyIs, AskPoolStep, SoundSame
<1>2. ASSUME NEW l \in Levels, l \in DOMAIN save.enemies, AskPool(c, l, PoolOf(l))
      PROVE Graph' /\ Sound(save')
  <2>1. UNCHANGED save
    BY <1>2 DEF AskPool
  <2>2. PoolOf(l) \in Distinct
    BY <1>2, PoolOfIs DEF Regions
  <2>. QED
    BY <1>0, <1>2, <2>1, <2>2, AskPoolStep, SoundSame
<1>3. CASE Look(c)
  BY <1>3, LookStep, SoundSame DEF Look
<1>4. CASE PutPool(c)
  <2>1. UNCHANGED save
    BY <1>4 DEF PutPool
  <2>. QED
    BY <1>4, <2>1, PutPoolStep, SoundSame
<1>. QED
  BY <1>1, <1>2, <1>3, <1>4, AnswerStep, MeetBossStep, AnswerShortStep, RefusePoolStep DEF Asking

LEMMA RunningStep ==
    ASSUME Graph, Sound(save), Jobbing, NEW j \in Jobs, Running(j)
    PROVE  Graph' /\ Sound(save')
<1>1. CASE Reserve(j) \/ Schedule(j) \/ Unstarted(j) \/ FailJob(j)
  <2>1. UNCHANGED <<quiz, pooled, ask, save>>
    BY <1>1 DEF Reserve, Schedule, Unstarted, FailJob
  <2>. QED
    BY <2>1, SameGraph, SoundSame
<1>2. CASE RebuildAfter(j)
  BY <1>2, RebuildStep DEF RebuildAfter
<1>. QED
  BY <1>1, <1>2, PrepareMoreStep, SyncContentStep DEF Running

LEMMA ContentNext ==
    ASSUME Graph, Sound(save), Jobbing, [PoolsNext]_poolVars
    PROVE  Graph' /\ Sound(save')
<1>1. CASE UNCHANGED poolVars
  BY <1>1, SameGraph, SoundSame DEF poolVars
<1>2. ASSUME NEW l, Meet(l) PROVE Graph' /\ Sound(save')
  <2>1. UNCHANGED <<quiz, pooled, ask>>
    BY <1>2 DEF Meet
  <2>. QED
    BY <1>2, <2>1, SameGraph, MeetStep
<1>3. CASE Part
  <2>1. UNCHANGED <<quiz, pooled, ask>>
    BY <1>3 DEF Part
  <2>. QED
    BY <1>3, <2>1, SameGraph, PartStep
<1>4. CASE RebuildUser
  BY <1>4, RebuildStep DEF RebuildUser
<1>5. ASSUME NEW reroll \in BOOLEAN, RebuildDungeon(reroll) PROVE Graph' /\ Sound(save')
  BY <1>5, RebuildStep DEF RebuildDungeon
<1>. QED
  BY <1>1, <1>2, <1>3, <1>4, <1>5, AskingStep, RunningStep, RestartStep, BrokenStep, DeletedStep
  DEF PoolsNext

---------------------------------------------------------------------------
Going == {"queued", "prepared", "synced"}
Started(x) == x.stage \in Going

LEMMA JobsSame == ASSUME Jobbing, UNCHANGED <<rebuild, scheduled, lost>> PROVE Jobbing'
BY DEF Jobbing, RebuildReleased

LEMMA JobMoves ==
    ASSUME Jobbing, NEW j \in Jobs, NEW x \in JobStates, rebuild' = [rebuild EXCEPT ![j] = x],
           \/ UNCHANGED <<scheduled, lost>> /\ (Started(rebuild[j]) => Started(x))
           \/ Started(x)
           \/ scheduled' = FALSE
           \/ lost' = TRUE
    PROVE  Jobbing'
<1>1. rebuild' \in [Jobs -> JobStates] /\ rebuild'[j] = x /\ \A i \in Jobs \ {j} : rebuild'[i] = rebuild[i]
  BY DEF Jobbing
<1>2. CASE UNCHANGED <<scheduled, lost>> /\ (Started(rebuild[j]) => Started(x))
  BY <1>1, <1>2 DEF Jobbing, RebuildReleased, Started, Going
<1>3. CASE Started(x)
  BY <1>1, <1>3 DEF Jobbing, RebuildReleased, Started, Going
<1>4. CASE scheduled' = FALSE
  BY <1>1, <1>4 DEF Jobbing, RebuildReleased
<1>5. CASE lost' = TRUE
  BY <1>1, <1>5 DEF Jobbing, RebuildReleased
<1>. QED
  BY <1>2, <1>3, <1>4, <1>5

LEMMA JobIn ==
    /\ NoJob \in JobStates
    /\ \A st \in {"none", "reserving", "queued", "synced"} : [stage |-> st] \in JobStates
    /\ \A n \in Nat : [stage |-> "prepared", need |-> n] \in JobStates
BY DEF JobStates, NoJob

LEMMA RunningJobs ==
    ASSUME Sound(save), Jobbing, NEW j \in Jobs, Running(j)
    PROVE  Jobbing'
<1>1. CASE Reserve(j)
  <2>1. rebuild[j] = NoJob /\ rebuild' = [rebuild EXCEPT ![j] = [stage |-> "reserving"]] /\ UNCHANGED <<scheduled, lost>>
    BY <1>1 DEF Reserve
  <2>2. ~Started(rebuild[j])
    BY <2>1 DEF Started, NoJob, Going
  <2>. QED
    BY <2>1, <2>2, JobIn, JobMoves
<1>2. CASE Schedule(j)
  <2>1. rebuild[j].stage = "reserving" /\ UNCHANGED lost
        /\ \/ rebuild' = [rebuild EXCEPT ![j] = [stage |-> "queued"]]
           \/ rebuild' = [rebuild EXCEPT ![j] = NoJob] /\ UNCHANGED scheduled
    BY <1>2 DEF Schedule
  <2>2. ~Started(rebuild[j]) /\ Started([stage |-> "queued"])
    BY <2>1 DEF Started, Going
  <2>. QED
    BY <2>1, <2>2, JobIn, JobMoves
<1>3. CASE Unstarted(j)
  BY <1>3, JobIn, JobMoves DEF Unstarted
<1>4. CASE PrepareMore(j)
  <2>1. rebuild' = [rebuild EXCEPT ![j] = [stage |-> "prepared", need |-> Needed]]
    BY <1>4 DEF PrepareMore
  <2>2. Started([stage |-> "prepared", need |-> Needed]) /\ Needed \in Nat
    BY NeededNat DEF Started, Going
  <2>. QED
    BY <2>1, <2>2, JobIn, JobMoves
<1>5. CASE SyncContent(j)
  <2>1. rebuild' = [rebuild EXCEPT ![j] = [stage |-> "synced"]] /\ Started([stage |-> "synced"])
    BY <1>5 DEF SyncContent, Started, Going
  <2>. QED
    BY <2>1, JobIn, JobMoves
<1>6. CASE RebuildAfter(j)
  BY <1>6, JobIn, JobMoves DEF RebuildAfter, ClearEntry
<1>7. CASE FailJob(j)
  BY <1>7, JobIn, JobMoves DEF FailJob, ClearEntry
<1>. QED
  BY <1>1, <1>2, <1>3, <1>4, <1>5, <1>6, <1>7 DEF Running

LEMMA JobsNext ==
    ASSUME Sound(save), Jobbing, [PoolsNext]_poolVars
    PROVE  Jobbing'
<1>1. CASE Restart
  <2>1. rebuild' \in [Jobs -> JobStates] /\ scheduled' = FALSE
    BY <1>1, JobIn DEF Restart
  <2>. QED
    BY <2>1 DEF Jobbing, RebuildReleased
<1>2. ASSUME NEW c \in Clients, Asking(c) PROVE UNCHANGED <<rebuild, scheduled, lost>>
  BY <1>2 DEF Asking, AskPool, Look, PutPool, Answer, MeetBoss, AnswerShort, RefusePool
<1>3. ASSUME NEW l, Meet(l) PROVE UNCHANGED <<rebuild, scheduled, lost>>
  BY <1>3 DEF Meet
<1>4. CASE Part \/ RebuildUser \/ \E reroll \in BOOLEAN : RebuildDungeon(reroll)
  BY <1>4, JobsSame DEF Part, RebuildUser, RebuildDungeon
<1>5. ASSUME NEW q, Broken(q) \/ Deleted(q) PROVE UNCHANGED <<rebuild, scheduled, lost>>
  BY <1>5 DEF Broken, Deleted, World
<1>6. CASE UNCHANGED poolVars
  BY <1>6, JobsSame DEF poolVars
<1>. QED
  BY <1>1, <1>2, <1>3, <1>4, <1>5, <1>6, JobsSame, RunningJobs DEF PoolsNext

---------------------------------------------------------------------------
LEMMA SaveStarts == ASSUME NEW s \in {NewSave} \cup OldSaves PROVE Sound(s)
<1>1. NewSave \in Saves /\ NewSave.battle = NoFight /\ NewSave.pools = <<>> /\ NewSave.quizzes = <<>>
      /\ NewSave.rev = 0
  BY EmptyIs, PartialNone DEF NewSave, Saves, Battles
<1>2. DOMAIN NewSave.pools = {}
  BY <1>1
<1>3. CASE s = NewSave
  BY <1>1, <1>2, <1>3 DEF Sound
<1>4. CASE s \in OldSaves
  <2> DEFINE qs == s.quizzes
             es == s.enemies
  <2>1. /\ s = [NewSave EXCEPT !.quizzes = qs, !.enemies = es]
        /\ qs \in Seq(Quizzes) /\ IsInjective(qs)
        /\ \E known \in SUBSET Levels : es \in [known -> EnemySets]
    BY <1>4, OldSavesAssumption DEF EnemySets
  <2>2. qs \in Distinct
    BY <2>1 DEF Distinct
  <2> HIDE DEF qs, es
  <2>3. s.battle = NoFight /\ s.pools = <<>> /\ s.quizzes = qs /\ s.enemies = es
    BY <2>1, <1>1 DEF Saves
  <2>4. es \in Partial(EnemySets)
    BY <2>1, PartialOf
  <2>5. s \in Saves
    BY <2>1, <2>2, <2>4, <1>1 DEF Saves
  <2>. QED
    BY <2>5, <2>3, <1>1, <1>2 DEF Sound
<1>. QED
  BY <1>3, <1>4

---------------------------------------------------------------------------
(* The invariant.                                                             *)

LEMMA PoolInvInit == ASSUME PoolsInit PROVE PoolInv
<1>1. quiz \in [Quizzes -> {"none", "usable", "broken", "gone"}]
  BY DEF PoolsInit
<1>2. pooled \in [Levels -> Distinct] /\ \A l \in Levels : ToSet(pooled[l]) \subseteq Present
  BY EmptyIs DEF PoolsInit
<1>3. ask \in [Clients -> Asks \cup {NoAsk}] /\ \A c \in Clients : ask[c] = NoAsk
  BY DEF PoolsInit
<1>4. Sound(save)
  BY SaveStarts DEF PoolsInit
<1>5. rebuild \in [Jobs -> JobStates] /\ scheduled = FALSE
  BY JobIn DEF PoolsInit
<1>. QED
  BY <1>1, <1>2, <1>3, <1>4, <1>5 DEF PoolInv, Graph, Jobbing, RebuildReleased

LEMMA PoolInvHolds == ASSUME PoolInv PROVE PoolsHold
<1>0. Graph /\ Sound(save) /\ Jobbing
  BY DEF PoolInv
<1>1. PoolTypeOK
  <2>1. \A s \in Distinct : IsInjective(s)
    BY DEF Distinct
  <2>2. \A l \in Levels : IsInjective(pooled[l]) /\ ToSet(pooled[l]) \subseteq Present
    BY <1>0, <2>1 DEF Graph
  <2>3. IsInjective(save.quizzes) /\ \A l \in DOMAIN save.pools : IsInjective(save.pools[l])
    BY <1>0, <2>1, SaveIs, PartialIs
  <2>4. \A x \in JobStates : x.stage \in {"none", "reserving", "queued", "prepared", "synced"}
    BY DEF JobStates
  <2>5. \A j \in Jobs : rebuild[j].stage \in {"none", "reserving", "queued", "prepared", "synced"}
    BY <1>0, <2>4 DEF Jobbing
  <2>. QED
    BY <1>0, <2>2, <2>3, <2>5 DEF PoolTypeOK, Graph
<1>2. BattleAsksSame /\ EnemiesAskPool
  BY <1>0 DEF Sound, BattleAsksSame, EnemiesAskPool
<1>3. PoolsOnlyGrow
  BY <1>0 DEF Graph, Filling, PoolsOnlyGrow
<1>. QED
  BY <1>0, <1>1, <1>2, <1>3 DEF PoolsHold, Jobbing

\* Whatever requests fill, store or refuse, whatever the rebuilds, the background
\* jobs and a restart do, and whichever quizzes break or are deleted: the battle of
\* a save asks the quiz it began with at the position it kept, the enemies of a
\* region ask what is in its pool, what a request is about to store begins with
\* what is stored, pools hold a quiz once, and a dungeon registered for a rebuild
\* has a job that clears it unless the request that registered it failed.
THEOREM RegionPoolsHold == PoolsSpec => []PoolsHold
<1>1. PoolsInit => PoolInv
  BY PoolInvInit
<1>2. PoolInv /\ [PoolsNext]_poolVars => PoolInv'
  <2>1. ASSUME PoolInv, [PoolsNext]_poolVars PROVE PoolInv'
    <3>1. Graph /\ Sound(save) /\ Jobbing
      BY <2>1 DEF PoolInv
    <3>2. Graph' /\ Sound(save') /\ Jobbing'
      BY <2>1, <3>1, ContentNext, JobsNext
    <3>. QED
      BY <3>2 DEF PoolInv
  <2>. QED
    BY <2>1
<1>3. PoolInv => PoolsHold
  BY PoolInvHolds
<1>. QED
  BY <1>1, <1>2, <1>3, PTL DEF PoolsSpec

---------------------------------------------------------------------------
(* MediaCleanup.                                                              *)

USE DEF imgVars, userVars, jobVars, callVars, reqVars, bounds, Requests, Calling, At, Goto

----------------------------------------------------------------------------
(* Types *)

ImageTypes ==
  /\ stored \subseteq Images /\ signed \subseteq Images /\ fresh \subseteq signed
  /\ used \subseteq Images /\ restored \subseteq Images /\ manual \subseteq Images
  /\ avatar \in Images \cup {NoImage} /\ account \in BOOLEAN

JobTypes ==
  /\ job \in [Images -> {"none", "waiting", "due"}]
  /\ jlease \in [Images -> BOOLEAN] /\ jtoken \in [Images -> Workers \cup {NoWorker}]
  /\ qlease \in BOOLEAN /\ qtoken \in Workers \cup {NoWorker}

CallTypes ==
  /\ pc \in [Workers -> Calling \cup {"idle"}]
  /\ mine \in [Workers -> Images \cup {NoImage}]
  /\ \A w \in Workers : pc[w] = "idle" <=> mine[w] = NoImage

RequestTypes ==
  /\ dpc \in [Devices -> Requests \cup {"idle"}]
  /\ old \in [Devices -> Images \cup {NoImage}]
  /\ new \in [Devices -> Images \cup {NoImage}]
  /\ \A d \in Devices : dpc[d] = "replace" <=> new[d] # NoImage

Types == /\ ImageTypes /\ JobTypes /\ CallTypes /\ RequestTypes
         /\ faults \in Nat /\ rare \in Nat

USE MediaAssumption

LEMMA InitTypes == Init => Types
<1>. SUFFICES ASSUME Init PROVE Types
  OBVIOUS
<1>1. ImageTypes /\ JobTypes /\ faults \in Nat /\ rare \in Nat
  BY DEF Init, ImageTypes, JobTypes
<1>2. CallTypes
  BY DEF Init, CallTypes
<1>3. RequestTypes
  BY DEF Init, RequestTypes
<1>. QED
  BY <1>1, <1>2, <1>3 DEF Types

LEMMA CloseTypes ==
  ASSUME RequestTypes, NEW d \in Devices, Close(d)
  PROVE  RequestTypes'
BY DEF RequestTypes, Close

LEMMA ScheduledTypes ==
  ASSUME JobTypes, NEW i \in Images, NEW due \in {"waiting", "due"}
  PROVE  Scheduled(i, due) \in [Images -> {"none", "waiting", "due"}]
BY DEF JobTypes, Scheduled

LEMMA MoveTypes ==
  ASSUME CallTypes, NEW w \in Workers, pc[w] # "idle", NEW label \in Calling,
         Goto(w, label), UNCHANGED mine
  PROVE  CallTypes'
BY DEF CallTypes

LEMMA ReturnTypes ==
  ASSUME CallTypes, JobTypes, NEW w \in Workers, Return(w)
  PROVE  /\ CallTypes'
         /\ jtoken' \in [Images -> Workers \cup {NoWorker}]
         /\ qtoken' \in Workers \cup {NoWorker}
BY DEF CallTypes, JobTypes, Return

LEMMA FrameTypes ==
  /\ ImageTypes /\ UNCHANGED <<stored, signed, fresh, userVars, manual>> => ImageTypes'
  /\ JobTypes /\ UNCHANGED jobVars => JobTypes'
  /\ CallTypes /\ UNCHANGED callVars => CallTypes'
  /\ RequestTypes /\ UNCHANGED reqVars => RequestTypes'
BY DEF ImageTypes, JobTypes, CallTypes, RequestTypes

LEMMA RequestsKeepTypes ==
  ASSUME Types, NEW d \in Devices,
         (\E kind \in Requests : Begin(d, kind)) \/ Finish(d) \/ Cancel(d)
  PROVE  Types'
<1>1. ASSUME NEW kind \in Requests, Begin(d, kind) PROVE Types'
  <2>0. rare' \in Nat
    BY <1>1 DEF Begin, Types
  <2>1. RequestTypes'
    <3>1. CASE kind = "replace"
      BY <1>1, <3>1 DEF Begin, Types, RequestTypes, ImageTypes
    <3>2. CASE kind # "replace"
      BY <1>1, <3>2 DEF Begin, Types, RequestTypes, ImageTypes
    <3>. QED
      BY <3>1, <3>2
  <2>. QED
    BY <1>1, <2>0, <2>1, FrameTypes DEF Begin, Types
<1>2. CASE Replace(d)
  <2>1. ImageTypes'
    BY <1>2 DEF Replace, Types, ImageTypes, RequestTypes
  <2>2. JobTypes'
    BY <1>2, ScheduledTypes DEF Replace, Types, JobTypes, RequestTypes
  <2>. QED
    BY <1>2, <2>1, <2>2, FrameTypes, CloseTypes DEF Replace, Types
<1>3. CASE RemoveAvatar(d)
  <2>1. ImageTypes'
    BY <1>3 DEF RemoveAvatar, Types, ImageTypes
  <2>2. JobTypes'
    BY <1>3, ScheduledTypes DEF RemoveAvatar, Types, JobTypes, RequestTypes
  <2>. QED
    BY <1>3, <2>1, <2>2, FrameTypes, CloseTypes DEF RemoveAvatar, Types
<1>4. CASE Leave(d)
  <2>1. ImageTypes'
    BY <1>4 DEF Leave, Types, ImageTypes
  <2>2. JobTypes'
    BY <1>4, ScheduledTypes DEF Leave, Types, JobTypes, RequestTypes
  <2>3. RequestTypes'
    BY <1>4 DEF Leave, RequestTypes
  <2>. QED
    BY <1>4, <2>1, <2>2, <2>3, FrameTypes DEF Leave, Types
<1>5. CASE Cancel(d)
  BY <1>5, FrameTypes, CloseTypes DEF Cancel, Types
<1>6. CASE Edit(d)
  <2>1. ImageTypes'
    BY <1>6 DEF Edit, Types, ImageTypes, RequestTypes
  <2>. QED
    BY <1>6, <2>1, FrameTypes, CloseTypes DEF Edit, Types
<1>. QED
  BY <1>1, <1>2, <1>3, <1>4, <1>5, <1>6 DEF Finish

LEMMA ImagesKeepTypes ==
  ASSUME Types, NEW i \in Images,
         SignAndUpload(i) \/ BecomeDue(i) \/ AdminSchedule(i) \/ AdminDelete(i)
  PROVE  Types'
<1>1. ImageTypes'
  BY DEF SignAndUpload, BecomeDue, AdminSchedule, AdminDelete, Types, ImageTypes
<1>2. JobTypes'
  <2>1. CASE SignAndUpload(i) \/ AdminSchedule(i)
    BY <2>1, ScheduledTypes DEF SignAndUpload, AdminSchedule, Types, JobTypes
  <2>2. CASE BecomeDue(i)
    BY <2>2 DEF BecomeDue, Types, JobTypes
  <2>3. CASE AdminDelete(i)
    BY <2>3, FrameTypes DEF AdminDelete, Types
  <2>. QED
    BY <2>1, <2>2, <2>3
<1>3. UNCHANGED <<callVars, reqVars>> /\ faults' \in Nat /\ rare' \in Nat
  BY DEF SignAndUpload, BecomeDue, AdminSchedule, AdminDelete, ByHand, Types
<1>. QED
  BY <1>1, <1>2, <1>3, FrameTypes DEF Types

LEMMA CallsKeepTypes ==
  ASSUME Types, NEW w \in Workers,
         Claim(w) \/ Step(w) \/ Fail(w) \/ Stop(w) \/ Stall(w)
  PROVE  Types'
<1>1. ImageTypes'
  <2>1. CASE Destroy(w)
    BY <2>1 DEF Destroy, Types, ImageTypes
  <2>2. CASE Fail(w)
    <3>1. stored' \subseteq stored /\ UNCHANGED <<signed, fresh, userVars, manual>>
      BY <2>2 DEF Fail
    <3>. QED
      BY <3>1 DEF Types, ImageTypes
  <2>3. CASE ~Destroy(w) /\ ~Fail(w)
    BY <2>3, FrameTypes
       DEF Claim, Step, Check, Delete, Defer, Release, Stop, Stall, Types
  <2>. QED
    BY <2>1, <2>2, <2>3
<1>2. UNCHANGED reqVars /\ faults' \in Nat /\ rare' \in Nat
  BY DEF Claim, Step, Check, Destroy, Delete, Defer, Release, Fail, Stop, Stall, Types
<1>3. CASE Claim(w)
  <2>1. PICK i \in Images : /\ mine' = [mine EXCEPT ![w] = i]
                            /\ jlease' = [jlease EXCEPT ![i] = TRUE]
                            /\ jtoken' = [jtoken EXCEPT ![i] = w]
    BY <1>3 DEF Claim
  <2>2. CallTypes'
    BY <1>3, <2>1 DEF Claim, Types, CallTypes
  <2>3. JobTypes'
    BY <1>3, <2>1 DEF Claim, Types, JobTypes
  <2>. QED
    BY <1>1, <1>2, <2>2, <2>3, FrameTypes DEF Types
<1>4. CASE Check(w) \/ Destroy(w) \/ Delete(w) \/ Defer(w) \/ Fail(w)
  <2>1. PICK label \in Calling : Goto(w, label)
    BY <1>4 DEF Check, Destroy, Delete, Defer, Fail
  <2>2. CallTypes'
    BY <1>4, <2>1, MoveTypes DEF Check, Destroy, Delete, Defer, Fail, Types
  <2>3. JobTypes'
    <3>1. CASE Check(w) \/ Destroy(w) \/ Fail(w)
      BY <3>1, FrameTypes DEF Check, Destroy, Fail, Types
    <3>2. CASE Delete(w)
      BY <3>2 DEF Delete, Types, JobTypes, CallTypes
    <3>3. CASE Defer(w)
      BY <3>3 DEF Defer, Types, JobTypes, CallTypes
    <3>. QED
      BY <1>4, <3>1, <3>2, <3>3
  <2>. QED
    BY <1>1, <1>2, <2>2, <2>3, FrameTypes DEF Types
<1>5. CASE Release(w) \/ Stop(w)
  <2>1. CASE Return(w)
    <3>1. UNCHANGED <<job, jlease>> /\ qlease' \in BOOLEAN
      BY <1>5 DEF Release, Stop, Types, JobTypes
    <3>. QED
      BY <1>1, <1>2, <2>1, <3>1, ReturnTypes, FrameTypes DEF Types, JobTypes
  <2>2. CASE ~Return(w)
    <3>1. pc[w] # "idle" /\ Goto(w, "release") /\ UNCHANGED <<mine, jobVars>>
      BY <1>5, <2>2 DEF Release, Stop
    <3>. QED
      BY <1>1, <1>2, <3>1, MoveTypes, FrameTypes DEF Types
  <2>. QED
    BY <2>1, <2>2
<1>6. CASE Stall(w)
  <2>1. JobTypes'
    BY <1>6 DEF Stall, Types, JobTypes
  <2>. QED
    BY <1>1, <1>2, <1>6, <2>1, FrameTypes DEF Stall, Types
<1>. QED
  BY <1>3, <1>4, <1>5, <1>6 DEF Step

LEMMA NextTypes == Types /\ [Next]_vars => Types'
<1>. SUFFICES ASSUME Types, [Next]_vars PROVE Types'
  OBVIOUS
<1>1. CASE UNCHANGED vars
  BY <1>1, FrameTypes DEF vars, Types
<1>2. CASE Expire
  <2>1. JobTypes'
    BY <1>2 DEF Expire, Types, JobTypes
  <2>. QED
    BY <1>2, <2>1, FrameTypes DEF Expire, Types
<1>. QED
  BY <1>1, <1>2, RequestsKeepTypes, ImagesKeepTypes, CallsKeepTypes DEF Next

----------------------------------------------------------------------------
(* Which images may be deleted *)

\* No replacement can make the image an avatar any more; the save of another field could.
Doomed(i) == i \in signed /\ i \notin Choosing /\ (i \notin fresh \/ i \in used)

ProfileInv ==
  /\ stored \subseteq signed /\ used \subseteq signed /\ avatar \in used \cup {NoImage}
  /\ LiveAvatarSurvives

\* A request that replaces the avatar has an image of its own, never used before.
RequestInv ==
  /\ \A d \in Devices : old[d] \in used \cup {NoImage}
  /\ \A d \in Devices : new[d] # NoImage => /\ new[d] \in signed \ used
                                            /\ new[d] \in stored \cup manual
  /\ \A d, e \in Devices : new[d] = new[e] /\ new[d] # NoImage => d = e

JobInv ==
  \A i \in Images : (job[i] # "none" => i \in signed) /\ (job[i] = "due" => Doomed(i))

CallSafe(w) ==
  /\ mine[w] # NoImage => Doomed(mine[w])
  /\ pc[w] = "destroy" => mine[w] # avatar \/ avatar \in restored
  /\ pc[w] = "delete" => mine[w] \notin stored

CallInv == \A w \in Workers : CallSafe(w)

SafeInv == Types /\ ProfileInv /\ RequestInv /\ JobInv /\ CallInv

LEMMA InitSafe == Init => SafeInv
<1>. SUFFICES ASSUME Init PROVE SafeInv
  OBVIOUS
<1>1. ProfileInv /\ RequestInv
  BY DEF Init, ProfileInv, LiveAvatarSurvives, RequestInv
<1>2. JobInv /\ CallInv
  BY DEF Init, JobInv, CallInv, CallSafe
<1>. QED
  BY <1>1, <1>2, InitTypes DEF SafeInv

\* Steps that do not concern the profile.
LEMMA QuietProfile ==
  ASSUME SafeInv, UNCHANGED <<signed, fresh, userVars, reqVars>>
  PROVE  /\ \A i \in Images : Doomed(i) => Doomed(i)'
         /\ UNCHANGED <<stored, manual>> => ProfileInv' /\ RequestInv'
<1>1. Choosing' = Choosing
  BY DEF Choosing
<1>. QED
  BY <1>1 DEF SafeInv, Doomed, ProfileInv, LiveAvatarSurvives, RequestInv

\* Requests to come choose images that are recent and unused.
LEMMA DoomedRequest ==
  ASSUME SafeInv, NEW d \in Devices,
         (\E kind \in Requests : Begin(d, kind)) \/ Finish(d) \/ Cancel(d)
  PROVE  \A i \in Images : Doomed(i) => Doomed(i)'
<1>. TAKE i \in Images
<1>1. UNCHANGED <<stored, signed, fresh>> /\ used \subseteq used'
  BY DEF Begin, Finish, Replace, Edit, RemoveAvatar, Leave, Cancel
<1>2. ASSUME Doomed(i) PROVE i \notin Choosing'
  <2>1. \A e \in Devices : new[e] # i
    BY <1>2 DEF Doomed, Choosing
  <2>2. \A e \in Devices : new'[e] # i
    <3>1. ASSUME NEW kind \in Requests, Begin(d, kind) PROVE \A e \in Devices : new'[e] # i
      <4>1. UNCHANGED new \/ \E j \in fresh : j \notin used /\ new' = [new EXCEPT ![d] = j]
        BY <3>1 DEF Begin
      <4>. QED
        BY <1>2, <2>1, <4>1 DEF Doomed, SafeInv, Types, RequestTypes
    <3>2. CASE Finish(d) \/ Cancel(d)
      <4>1. \A e \in Devices : new'[e] = new[e] \/ new'[e] = NoImage
        BY <3>2 DEF Finish, Replace, Edit, RemoveAvatar, Leave, Cancel, Close, SafeInv, Types, RequestTypes
      <4>. QED
        BY <2>1, <4>1
    <3>. QED
      BY <3>1, <3>2
  <2>. QED
    BY <2>2 DEF Choosing
<1>. QED
  BY <1>1, <1>2 DEF Doomed

LEMMA RequestsSafe ==
  ASSUME SafeInv, NEW d \in Devices,
         (\E kind \in Requests : Begin(d, kind)) \/ Finish(d) \/ Cancel(d)
  PROVE  SafeInv'
<1>1. Types' /\ UNCHANGED <<imgVars, callVars, manual>>
  BY RequestsKeepTypes DEF SafeInv, Begin, Finish, Replace, Edit, RemoveAvatar, Leave, Cancel
<1>2. \A i \in Images : Doomed(i) => Doomed(i)'
  BY DoomedRequest
<1>3. ASSUME NEW kind \in Requests, Begin(d, kind) PROVE SafeInv'
  <2>1. UNCHANGED <<userVars, job>>
    BY <1>3 DEF Begin
  <2>2. ProfileInv' /\ JobInv' /\ CallInv'
    BY <1>1, <1>2, <2>1
       DEF SafeInv, ProfileInv, LiveAvatarSurvives, JobInv, CallInv, CallSafe, Types, CallTypes
  <2>3. RequestInv'
    <3>1. old' = [old EXCEPT ![d] = avatar]
      BY <1>3 DEF Begin
    <3>2. UNCHANGED new \/ \E i \in stored : i \notin used \cup Choosing /\ new' = [new EXCEPT ![d] = i]
      BY <1>3 DEF Begin
    <3>3. \A e \in Devices : new[e] \in Choosing
      BY DEF Choosing
    <3>. QED
      BY <1>1, <2>1, <3>1, <3>2, <3>3
         DEF SafeInv, RequestInv, ProfileInv, LiveAvatarSurvives, Types, RequestTypes
  <2>. QED
    BY <1>1, <2>2, <2>3 DEF SafeInv
<1>4. CASE Replace(d)
  <2>1. /\ avatar' = new[d] /\ used' = used \cup {new[d]} /\ Close(d)
        /\ job' = IF old[d] = NoImage THEN job ELSE Scheduled(old[d], "due")
        /\ UNCHANGED restored
    BY <1>4 DEF Replace
  <2>2. new[d] # NoImage /\ new[d] \in signed \ used /\ new[d] \in stored \cup manual
    BY <1>4 DEF Replace, SafeInv, Types, RequestTypes, RequestInv
  <2>3. ProfileInv'
    BY <1>1, <2>1, <2>2 DEF SafeInv, ProfileInv, LiveAvatarSurvives
  <2>4. RequestInv'
    <3>1. \A e \in Devices \ {d} : old'[e] = old[e] /\ new'[e] = new[e]
      BY <2>1 DEF Close, SafeInv, Types, RequestTypes
    <3>2. old'[d] = NoImage /\ new'[d] = NoImage
      BY <2>1 DEF Close, SafeInv, Types, RequestTypes
    <3>. QED
      BY <1>1, <2>1, <2>2, <3>1, <3>2 DEF SafeInv, RequestInv
  <2>5. CallInv'
    <3>1. \A w \in Workers : mine[w] # new[d] \/ mine[w] = NoImage
      BY DEF SafeInv, CallInv, CallSafe, Doomed, Choosing
    <3>. QED
      BY <1>1, <1>2, <2>1, <2>2, <3>1 DEF SafeInv, CallInv, CallSafe, Types, CallTypes
  <2>6. JobInv'
    <3>1. CASE old[d] = NoImage
      BY <1>1, <1>2, <2>1, <3>1 DEF SafeInv, JobInv
    <3>2. CASE old[d] # NoImage
      <4>1. old[d] \in used /\ old[d] \in Images
        BY <3>2 DEF SafeInv, RequestInv, Types, RequestTypes
      <4>2. Doomed(old[d])
        BY <4>1 DEF Doomed, Choosing, SafeInv, RequestInv, ProfileInv, LiveAvatarSurvives, Types, ImageTypes
      <4>3. \A i \in Images : i # old[d] => job'[i] = job[i]
        BY <2>1, <3>2 DEF Scheduled, SafeInv, Types, JobTypes
      <4>. QED
        BY <1>1, <1>2, <4>1, <4>2, <4>3 DEF SafeInv, JobInv, Doomed
    <3>. QED
      BY <3>1, <3>2
  <2>. QED
    BY <1>1, <2>3, <2>4, <2>5, <2>6 DEF SafeInv
<1>5. CASE RemoveAvatar(d) \/ Leave(d) \/ Cancel(d)
  <2>1. /\ avatar' \in {avatar, NoImage} /\ UNCHANGED <<used, restored>>
        /\ job' = job \/ (old[d] # NoImage /\ job' = Scheduled(old[d], "waiting"))
    BY <1>5 DEF RemoveAvatar, Leave, Cancel
  <2>2. ProfileInv'
    BY <1>1, <2>1 DEF SafeInv, ProfileInv, LiveAvatarSurvives
  <2>3. \A e \in Devices : \/ old'[e] = old[e] /\ new'[e] = new[e]
                           \/ old'[e] = NoImage /\ new'[e] = NoImage
    BY <1>5 DEF RemoveAvatar, Leave, Cancel, Close, SafeInv, Types, RequestTypes
  <2>4. RequestInv'
    BY <1>1, <2>1, <2>3 DEF SafeInv, RequestInv
  <2>5. CallInv'
    BY <1>1, <1>2, <2>1 DEF SafeInv, CallInv, CallSafe, Types, CallTypes
  <2>6. JobInv'
    <3>1. CASE job' = job
      BY <1>1, <1>2, <3>1 DEF SafeInv, JobInv
    <3>2. CASE old[d] # NoImage /\ job' = Scheduled(old[d], "waiting")
      <4>1. old[d] \in signed
        BY <3>2 DEF SafeInv, RequestInv, ProfileInv, LiveAvatarSurvives
      <4>2. \A i \in Images : /\ i # old[d] => job'[i] = job[i]
                              /\ job'[i] = "due" => job[i] = "due"
        BY <3>2 DEF Scheduled, SafeInv, Types, JobTypes
      <4>. QED
        BY <1>1, <1>2, <4>1, <4>2 DEF SafeInv, JobInv
    <3>. QED
      BY <2>1, <3>1, <3>2
  <2>. QED
    BY <1>1, <2>2, <2>4, <2>5, <2>6 DEF SafeInv
<1>6. CASE Edit(d)
  <2>1. /\ avatar' = old[d] /\ Close(d) /\ UNCHANGED <<used, job>>
        /\ restored' = IF old[d] = avatar THEN restored ELSE restored \cup ({old[d]} \ {NoImage})
    BY <1>6 DEF Edit
  <2>2. old[d] \in used \cup {NoImage}
    BY DEF SafeInv, RequestInv
  <2>3. ProfileInv'
    BY <1>1, <2>1, <2>2 DEF SafeInv, ProfileInv, LiveAvatarSurvives
  <2>4. RequestInv'
    <3>1. \A e \in Devices : \/ old'[e] = old[e] /\ new'[e] = new[e]
                             \/ old'[e] = NoImage /\ new'[e] = NoImage
      BY <2>1 DEF Close, SafeInv, Types, RequestTypes
    <3>. QED
      BY <1>1, <2>1, <3>1 DEF SafeInv, RequestInv
  <2>5. CallInv'
    <3>1. (avatar' = avatar /\ restored' = restored) \/ avatar' = NoImage \/ avatar' \in restored'
      BY <2>1
    <3>2. \A w \in Workers : pc[w] = "destroy" => mine[w] # NoImage
      BY DEF SafeInv, Types, CallTypes
    <3>. QED
      BY <1>1, <1>2, <2>1, <3>1, <3>2 DEF SafeInv, CallInv, CallSafe, Types, CallTypes
  <2>6. JobInv'
    BY <1>1, <1>2, <2>1 DEF SafeInv, JobInv
  <2>. QED
    BY <1>1, <2>3, <2>4, <2>5, <2>6 DEF SafeInv
<1>. QED
  BY <1>3, <1>4, <1>5, <1>6 DEF Finish

LEMMA ImagesSafe ==
  ASSUME SafeInv, NEW i \in Images,
         SignAndUpload(i) \/ BecomeDue(i) \/ AdminSchedule(i) \/ AdminDelete(i)
  PROVE  SafeInv'
<1>1. Types' /\ UNCHANGED <<userVars, callVars, reqVars>>
  BY ImagesKeepTypes DEF SafeInv, SignAndUpload, BecomeDue, AdminSchedule, AdminDelete
<1>2. Choosing' = Choosing
  BY <1>1 DEF Choosing
<1>3. CASE SignAndUpload(i)
  <2>1. /\ i \notin signed /\ signed' = signed \cup {i} /\ stored' = stored \cup {i}
        /\ fresh' = fresh \cup {i} /\ UNCHANGED manual
        /\ job' = Scheduled(i, "waiting")
    BY <1>3 DEF SignAndUpload
  <2>2. \A k \in Images : Doomed(k) => Doomed(k)'
    BY <1>1, <1>2, <2>1 DEF Doomed
  <2>3. ProfileInv' /\ RequestInv'
    BY <1>1, <2>1 DEF SafeInv, ProfileInv, LiveAvatarSurvives, RequestInv
  <2>4. \A k \in Images : /\ k # i => job'[k] = job[k]
                          /\ job'[k] = "due" => job[k] = "due"
    BY <2>1 DEF Scheduled, SafeInv, Types, JobTypes
  <2>5. JobInv'
    BY <2>1, <2>2, <2>4 DEF SafeInv, JobInv
  <2>6. CallInv'
    <3>1. \A w \in Workers : pc[w] = "delete" => mine[w] \in Images /\ mine[w] # i
      BY <2>1 DEF SafeInv, CallInv, CallSafe, Doomed, Types, CallTypes
    <3>. QED
      BY <1>1, <2>1, <2>2, <3>1 DEF SafeInv, CallInv, CallSafe, Types, CallTypes
  <2>. QED
    BY <1>1, <2>3, <2>5, <2>6 DEF SafeInv
<1>4. CASE BecomeDue(i)
  <2>1. /\ job[i] = "waiting" /\ fresh' = fresh \ {i} /\ UNCHANGED <<stored, signed, manual>>
        /\ job' = [job EXCEPT ![i] = "due"] /\ \A d \in Devices : dpc[d] = "idle"
    BY <1>4 DEF BecomeDue
  <2>2. \A k \in Images : Doomed(k) => Doomed(k)'
    BY <1>1, <1>2, <2>1 DEF Doomed
  <2>3. i \notin Choosing
    BY <2>1 DEF Choosing, SafeInv, Types, RequestTypes
  <2>4. Doomed(i)'
    BY <1>2, <2>1, <2>3 DEF SafeInv, JobInv, Doomed
  <2>5. JobInv'
    BY <2>1, <2>2, <2>4 DEF SafeInv, JobInv, Types, JobTypes, Doomed
  <2>6. ProfileInv' /\ RequestInv' /\ CallInv'
    BY <1>1, <2>1, <2>2
       DEF SafeInv, ProfileInv, LiveAvatarSurvives, RequestInv, CallInv, CallSafe, Types, CallTypes
  <2>. QED
    BY <1>1, <2>5, <2>6 DEF SafeInv
<1>5. CASE AdminSchedule(i)
  <2>1. /\ i \in stored /\ UNCHANGED <<imgVars, manual>> /\ job' = Scheduled(i, "waiting")
    BY <1>5 DEF AdminSchedule, ByHand
  <2>2. \A k \in Images : Doomed(k) => Doomed(k)'
    BY <1>1, <1>2, <2>1 DEF Doomed
  <2>3. \A k \in Images : /\ k # i => job'[k] = job[k]
                          /\ job'[k] = "due" => job[k] = "due"
    BY <2>1 DEF Scheduled, SafeInv, Types, JobTypes
  <2>4. JobInv'
    BY <2>1, <2>2, <2>3 DEF SafeInv, JobInv, ProfileInv, LiveAvatarSurvives
  <2>5. ProfileInv' /\ RequestInv' /\ CallInv'
    BY <1>1, <2>1, <2>2
       DEF SafeInv, ProfileInv, LiveAvatarSurvives, RequestInv, CallInv, CallSafe, Types, CallTypes
  <2>. QED
    BY <1>1, <2>4, <2>5 DEF SafeInv
<1>6. CASE AdminDelete(i)
  <2>1. /\ stored' = stored \ {i} /\ manual' = manual \cup {i} /\ UNCHANGED <<signed, fresh, job>>
    BY <1>6 DEF AdminDelete
  <2>2. \A k \in Images : Doomed(k) => Doomed(k)'
    BY <1>1, <1>2, <2>1 DEF Doomed
  <2>3. JobInv' /\ ProfileInv'
    BY <1>1, <2>1, <2>2 DEF SafeInv, JobInv, ProfileInv, LiveAvatarSurvives
  <2>4. RequestInv' /\ CallInv'
    BY <1>1, <2>1, <2>2 DEF SafeInv, RequestInv, CallInv, CallSafe, Types, CallTypes
  <2>. QED
    BY <1>1, <2>3, <2>4 DEF SafeInv
<1>. QED
  BY <1>3, <1>4, <1>5, <1>6

\* What a call leaves of an image that it destroys: not the avatar, nor the image of a
\* request under way.
LEMMA DestroySafe ==
  ASSUME SafeInv, NEW w \in Workers, pc[w] = "destroy",
         stored' \in {stored, stored \ {mine[w]}},
         UNCHANGED <<signed, fresh, userVars, reqVars, manual>>
  PROVE  ProfileInv' /\ RequestInv'
<1>1. (mine[w] # avatar \/ avatar \in restored) /\ Doomed(mine[w])
  BY DEF SafeInv, CallInv, CallSafe, Types, CallTypes
<1>2. \A d \in Devices : new[d] # mine[w]
  BY <1>1 DEF Doomed, Choosing
<1>. QED
  BY <1>1, <1>2 DEF SafeInv, ProfileInv, LiveAvatarSurvives, RequestInv

LEMMA CallsSafe ==
  ASSUME SafeInv, NEW w \in Workers,
         Claim(w) \/ Step(w) \/ Fail(w) \/ Stop(w) \/ Stall(w)
  PROVE  SafeInv'
<1>1. Types' /\ UNCHANGED <<signed, fresh, userVars, reqVars, manual>>
  BY CallsKeepTypes
     DEF SafeInv, Claim, Step, Check, Destroy, Delete, Defer, Release, Fail, Stop, Stall
<1>2. \A i \in Images : Doomed(i) => Doomed(i)'
  BY <1>1, QuietProfile
<1>3. stored' \subseteq stored
  BY DEF Claim, Step, Check, Destroy, Delete, Defer, Release, Fail, Stop, Stall
<1>4. ProfileInv' /\ RequestInv'
  <2>1. CASE Destroy(w)
    BY <1>1, <2>1, DestroySafe DEF Destroy
  <2>2. CASE Fail(w) /\ pc[w] = "destroy"
    BY <1>1, <2>2, DestroySafe DEF Fail
  <2>3. CASE ~Destroy(w) /\ ~(Fail(w) /\ pc[w] = "destroy")
    <3>1. UNCHANGED stored
      BY <2>3 DEF Claim, Step, Check, Destroy, Delete, Defer, Release, Fail, Stop, Stall
    <3>. QED
      BY <1>1, <3>1, QuietProfile
  <2>. QED
    BY <2>1, <2>2, <2>3
<1>5. JobInv'
  <2>1. \A i \in Images : job'[i] = job[i] \/ job'[i] = "none"
                          \/ (job'[i] = "waiting" /\ i = mine[w])
    BY DEF Claim, Step, Check, Destroy, Delete, Defer, Release, Fail, Stop, Stall,
           SafeInv, Types, JobTypes
  <2>2. mine[w] # NoImage => mine[w] \in signed
    BY DEF SafeInv, CallInv, CallSafe, Doomed
  <2>. QED
    BY <1>1, <1>2, <2>1, <2>2 DEF SafeInv, JobInv
<1>6. \A v \in Workers \ {w} : pc'[v] = pc[v] /\ mine'[v] = mine[v]
  BY DEF Claim, Step, Check, Destroy, Delete, Defer, Release, Return, Fail, Stop, Stall,
         SafeInv, Types, CallTypes
<1>7. ASSUME NEW v \in Workers \ {w} PROVE CallSafe(v)'
  <2>1. mine[v] # NoImage => Doomed(mine[v]) /\ mine[v] \in Images
    BY DEF SafeInv, CallInv, CallSafe, Types, CallTypes
  <2>2. \A i \in Images : mine'[v] = i => Doomed(i)'
    BY <1>2, <1>6, <2>1 DEF SafeInv, Types, ImageTypes
  <2>3. mine'[v] # NoImage => mine'[v] \in Images
    BY <1>6, <2>1
  <2>4. mine'[v] # NoImage => Doomed(mine[v])'
    BY <2>2, <2>3
  <2>. QED
    BY <1>1, <1>3, <1>6, <2>4 DEF SafeInv, CallInv, CallSafe
<1>8. CallSafe(w)'
  <2>1. CASE Claim(w)
    <3>1. PICK i \in Images : job[i] = "due" /\ mine' = [mine EXCEPT ![w] = i]
      BY <2>1 DEF Claim
    <3>2. mine'[w] = i /\ pc'[w] = "check" /\ Doomed(i)'
      BY <1>2, <2>1, <3>1 DEF Claim, SafeInv, JobInv, Types, CallTypes
    <3>3. Doomed(mine[w])'
      BY <3>2
    <3>. QED
      BY <3>2, <3>3 DEF CallSafe
  <2>2. CASE mine'[w] = mine[w] /\ ~Claim(w)
    <3>1. \A i \in Images : mine'[w] = i => Doomed(i)'
      BY <1>2, <2>2 DEF SafeInv, CallInv, CallSafe, Types, CallTypes
    <3>2. mine'[w] # NoImage => mine'[w] \in Images
      BY <2>2 DEF SafeInv, Types, CallTypes
    <3>3. mine'[w] # NoImage => Doomed(mine[w])'
      BY <3>1, <3>2
    <3>4. pc'[w] = "destroy" => mine[w] # avatar \/ avatar \in restored
      BY <2>2 DEF Step, Check, Destroy, Delete, Defer, Release, Return, Fail, Stop, Stall,
                  SafeInv, CallInv, CallSafe, Types, CallTypes
    <3>5. pc'[w] = "delete" => mine[w] \notin stored'
      <4>2. CASE Destroy(w)
        BY <4>2 DEF Destroy
      <4>3. CASE ~Destroy(w)
        <5>1. pc'[w] = "delete" => pc[w] = "delete"
          BY <2>2, <4>3 DEF Step, Check, Delete, Defer, Release, Return, Fail, Stop, Stall,
                      SafeInv, Types, CallTypes
        <5>. QED
          BY <1>3, <5>1 DEF SafeInv, CallInv, CallSafe
      <4>. QED
        BY <4>2, <4>3
    <3>. QED
      BY <1>1, <2>2, <3>3, <3>4, <3>5 DEF CallSafe
  <2>3. CASE mine'[w] # mine[w] /\ ~Claim(w)
    <3>1. mine'[w] = NoImage /\ pc'[w] = "idle"
      BY <2>3 DEF Step, Check, Destroy, Delete, Defer, Release, Return, Fail, Stop, Stall,
                  SafeInv, Types, CallTypes
    <3>. QED
      BY <3>1 DEF CallSafe
  <2>. QED
    BY <2>1, <2>2, <2>3
<1>9. CallInv'
  BY <1>7, <1>8 DEF CallInv
<1>. QED
  BY <1>1, <1>4, <1>5, <1>9 DEF SafeInv

LEMMA NextSafe == SafeInv /\ [Next]_vars => SafeInv'
<1>. SUFFICES ASSUME SafeInv, [Next]_vars PROVE SafeInv'
  OBVIOUS
<1>1. CASE Expire \/ UNCHANGED vars
  <2>1. UNCHANGED <<imgVars, userVars, job, callVars, reqVars, manual>>
    BY <1>1 DEF Expire, vars
  <2>2. Types'
    BY <1>1, NextTypes DEF Next, SafeInv
  <2>3. ProfileInv' /\ RequestInv' /\ \A i \in Images : Doomed(i) => Doomed(i)'
    BY <2>1, QuietProfile
  <2>4. JobInv' /\ CallInv'
    BY <2>1, <2>3 DEF SafeInv, JobInv, CallInv, CallSafe, Types, CallTypes
  <2>. QED
    BY <2>2, <2>3, <2>4 DEF SafeInv
<1>. QED
  BY <1>1, RequestsSafe, ImagesSafe, CallsSafe DEF Next

----------------------------------------------------------------------------
(* One image at a time *)

Busy == {"check", "destroy", "spare", "delete", "defer"}

\* A call that works on an image holds the lease of the queue, until it is stuck.
LeaseInv == ~stalled => \A w \in Workers : pc[w] \in Busy => qlease /\ qtoken = w

LEMMA NextLease == Types /\ LeaseInv /\ [Next]_vars => LeaseInv'
<1>. SUFFICES ASSUME Types, LeaseInv, [Next]_vars PROVE LeaseInv'
  OBVIOUS
<1>1. CASE UNCHANGED <<pc, qlease, qtoken, stalled>>
  BY <1>1 DEF LeaseInv
<1>2. ASSUME NEW w \in Workers, Claim(w) PROVE LeaseInv'
  <2>1. /\ ~qlease /\ qlease' = TRUE /\ qtoken' = w /\ UNCHANGED stalled
        /\ \A v \in Workers \ {w} : pc'[v] = pc[v]
    BY <1>2 DEF Claim, Types, CallTypes
  <2>. QED
    BY <2>1 DEF LeaseInv
<1>3. ASSUME NEW w \in Workers,
             Check(w) \/ Destroy(w) \/ Delete(w) \/ Defer(w) \/ Fail(w)
      PROVE  LeaseInv'
  <2>1. /\ pc[w] \in Busy /\ UNCHANGED <<qlease, qtoken, stalled>>
        /\ \A v \in Workers \ {w} : pc'[v] = pc[v]
    BY <1>3 DEF Check, Destroy, Delete, Defer, Fail, Busy, Types, CallTypes
  <2>. QED
    BY <2>1 DEF LeaseInv
<1>4. ASSUME NEW w \in Workers, Release(w) \/ Stop(w) PROVE LeaseInv'
  <2>1. /\ UNCHANGED stalled /\ pc'[w] \notin Busy
        /\ \A v \in Workers \ {w} : pc'[v] = pc[v]
        /\ qtoken' = qtoken \/ qtoken = w
        /\ qlease' = qlease \/ qtoken = w
    BY <1>4 DEF Release, Stop, Return, Busy, Types, CallTypes, JobTypes
  <2>. QED
    BY <2>1 DEF LeaseInv
<1>5. ASSUME NEW w \in Workers, Stall(w) PROVE LeaseInv'
  BY <1>5 DEF Stall, LeaseInv
<1>6. CASE Expire
  <2>1. /\ UNCHANGED <<pc, qtoken, stalled>>
        /\ qlease' = qlease \/ qtoken = NoWorker
    BY <1>6 DEF Expire
  <2>. QED
    BY <2>1 DEF LeaseInv
<1>7. ASSUME NEW i \in Images,
             SignAndUpload(i) \/ BecomeDue(i) \/ AdminSchedule(i) \/ AdminDelete(i)
      PROVE  LeaseInv'
  BY <1>1, <1>7 DEF SignAndUpload, BecomeDue, AdminSchedule, AdminDelete
<1>8. ASSUME NEW d \in Devices,
             (\E kind \in Requests : Begin(d, kind)) \/ Finish(d) \/ Cancel(d)
      PROVE  LeaseInv'
  BY <1>1, <1>8 DEF Begin, Finish, Replace, Edit, RemoveAvatar, Leave, Cancel
<1>. QED
  BY <1>1, <1>2, <1>3, <1>4, <1>5, <1>6, <1>7, <1>8 DEF Next, Step, vars

LEMMA LeaseOneAtATime == LeaseInv => OneAtATime
<1>. SUFFICES ASSUME LeaseInv, ~stalled PROVE OneAtATime
  BY DEF OneAtATime
<1>. DEFINE S == {w \in Workers : pc[w] \in {"check", "destroy", "spare", "delete", "defer"}}
<1>1. S \subseteq {qtoken}
  BY DEF LeaseInv, Busy
<1>2. IsFiniteSet({qtoken}) /\ Cardinality({qtoken}) = 1
  BY FS_Singleton
<1>3. Cardinality(S) <= 1
  BY <1>1, <1>2, FS_Subset
<1>. QED
  BY <1>3 DEF OneAtATime

----------------------------------------------------------------------------
(* Jobs *)

JobsKept ==
  \A i \in Images : job[i] # "none" /\ job'[i] = "none" =>
    \E w \in Workers : mine[w] = i /\ jtoken[i] = w /\ (i \notin stored \/ At(w, "spare"))

LEMMA NextKeepsJobs == SafeInv /\ [Next]_vars => [JobsKept]_vars
<1>. SUFFICES ASSUME SafeInv, Next, NEW i \in Images, job[i] # "none", job'[i] = "none"
              PROVE  \E w \in Workers : mine[w] = i /\ jtoken[i] = w
                                        /\ (i \notin stored \/ At(w, "spare"))
  BY DEF JobsKept
<1>1. \A k \in Images, due \in {"waiting", "due"} : Scheduled(k, due)[i] # "none"
  BY DEF Scheduled, SafeInv, Types, JobTypes
<1>2. ASSUME NEW d \in Devices,
             (\E kind \in Requests : Begin(d, kind)) \/ Finish(d) \/ Cancel(d)
      PROVE  FALSE
  <2>1. old[d] # NoImage => old[d] \in Images
    BY DEF SafeInv, Types, RequestTypes
  <2>. QED
    BY <1>1, <1>2, <2>1 DEF Begin, Finish, Replace, Edit, RemoveAvatar, Leave, Cancel
<1>3. ASSUME NEW k \in Images,
             SignAndUpload(k) \/ BecomeDue(k) \/ AdminSchedule(k) \/ AdminDelete(k)
      PROVE  FALSE
  BY <1>1, <1>3 DEF SignAndUpload, BecomeDue, AdminSchedule, AdminDelete,
                    SafeInv, Types, JobTypes
<1>4. ASSUME NEW w \in Workers,
             Claim(w) \/ Check(w) \/ Destroy(w) \/ Defer(w) \/ Release(w) \/ Fail(w)
               \/ Stop(w) \/ Stall(w)
      PROVE  FALSE
  BY <1>4 DEF Claim, Check, Destroy, Defer, Release, Fail, Stop, Stall, SafeInv, Types, JobTypes
<1>5. ASSUME NEW w \in Workers, Delete(w)
      PROVE  mine[w] = i /\ jtoken[i] = w /\ (i \notin stored \/ At(w, "spare"))
  <2>1. mine[w] = i /\ jtoken[mine[w]] = w
    BY <1>5 DEF Delete, SafeInv, Types, JobTypes
  <2>. QED
    BY <1>5, <2>1 DEF Delete, SafeInv, CallInv, CallSafe
<1>6. ~Expire
  BY DEF Expire
<1>. QED
  BY <1>2, <1>3, <1>4, <1>5, <1>6 DEF Next, Step

----------------------------------------------------------------------------
(* Theorems *)

LEMMA Safety == Spec => []SafeInv
BY InitSafe, NextSafe, PTL DEF Spec

\* Every variable keeps its type.
THEOREM TypeCorrect == Spec => []TypeOK
<1>1. SafeInv => TypeOK
  BY DEF SafeInv, Types, ImageTypes, JobTypes, CallTypes, RequestTypes, TypeOK
<1>. QED
  BY <1>1, Safety, PTL

\* No cleanup job deletes the image of a profile, in whatever order uploads, requests,
\* roll-backs, checks and deletions of any number of processes come, unless a save of other
\* fields put that image back after it had been replaced.
THEOREM AvatarIsSafe == Spec => []LiveAvatarSurvives
<1>1. SafeInv => LiveAvatarSurvives
  BY DEF SafeInv, ProfileInv
<1>. QED
  BY <1>1, Safety, PTL

\* All processes together delete one image at a time while no call outlives its lease.
THEOREM DeletesOneAtATime == Spec => []OneAtATime
<1>1. Init => LeaseInv
  BY DEF Init, LeaseInv, Busy
<1>2. SafeInv => Types
  BY DEF SafeInv
<1>. QED
  BY <1>1, <1>2, Safety, NextLease, LeaseOneAtATime, PTL DEF Spec

\* A job disappears only by the call that holds it, and only when its image is gone or
\* that call found it to be the avatar.
THEOREM NoJobIsLost == Spec => JobsAreKept
BY Safety, NextKeepsJobs, PTL DEF Spec, JobsAreKept, JobsKept

===========================================================================
