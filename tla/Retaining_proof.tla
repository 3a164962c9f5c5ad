--------------------------- MODULE Retaining_proof ---------------------------
(***************************************************************************)
(* What Retain leaves of a sequence, for every sequence and set: its       *)
(* elements that are in the set, each where it was among the others.       *)
(* Retain is a recursive function of the index, and what it does is found  *)
(* by induction over the numbers, which rests on their well-foundedness.   *)
(***************************************************************************)
EXTENDS Retaining, SequencesExt, SequenceTheorems, WellFoundedInduction, TLAPS

\* Induction over the numbers.
LEMMA NatInd ==
  ASSUME NEW S, 0 \in S, \A n \in Nat : n \in S => n + 1 \in S
  PROVE  Nat \subseteq S
<1> DEFINE T == {n \in Nat : n \notin S}
<1>1. SUFFICES ASSUME T # {} PROVE FALSE
  OBVIOUS
<1>2. \E x \in T : \A y \in T : ~ (<<y, x>> \in OpToRel(<,Nat))
  BY <1>1, NatLessThanWellFounded, WFMin
<1>3. PICK x \in T : \A y \in T : ~ (y < x)
  BY <1>2 DEF OpToRel
<1>4. x - 1 \in Nat /\ x - 1 \notin T
  BY <1>3
<1> QED BY <1>3, <1>4

\* r is made of elements of the first n of s that are in K, in their order.
Within(r, s, n, K) ==
  \E f \in [1..Len(r) -> 1..n] :
    /\ \A j \in 1..Len(r) : r[j] = s[f[j]] /\ r[j] \in K
    /\ \A i, j \in 1..Len(r) : i < j => f[i] < f[j]

\* and has all of them.
Complete(r, s, n, K) ==
  \A i \in 1..n : s[i] \in K => \E j \in 1..Len(r) : r[j] = s[i]

\* The function of Retain has its values up to n.
Steps(g, s, n, K) ==
  /\ DOMAIN g = 0..n
  /\ g[0] = <<>>
  /\ \A i \in 1..n : g[i] = IF s[i] \in K THEN Append(g[i - 1], s[i]) ELSE g[i - 1]

\* The function of Retain has its steps.
LEMMA RetainSteps ==
  ASSUME NEW T, NEW s \in Seq(T), NEW K
  PROVE  \E g : Steps(g, s, Len(s), K) /\ Retain(s, K) = g[Len(s)]
<1> DEFINE S == {n \in Nat : n <= Len(s) => \E g : Steps(g, s, n, K)}
<1>1. 0 \in S
  <2>1. Steps([i \in 0..0 |-> <<>>], s, 0, K)
    BY DEF Steps
  <2> QED BY <2>1
<1>2. ASSUME NEW n \in Nat, n \in S PROVE n + 1 \in S
  <2> SUFFICES ASSUME n + 1 <= Len(s) PROVE \E g : Steps(g, s, n + 1, K)
    OBVIOUS
  <2>1. PICK g : Steps(g, s, n, K)
    BY <1>2
  <2> DEFINE v == IF s[n + 1] \in K THEN Append(g[n], s[n + 1]) ELSE g[n]
             h == [i \in 0..(n + 1) |-> IF i = n + 1 THEN v ELSE g[i]]
  <2>2. DOMAIN h = 0..(n + 1) /\ h[0] = <<>>
    BY <2>1 DEF Steps
  <2>3. ASSUME NEW i \in 1..(n + 1)
        PROVE  h[i] = IF s[i] \in K THEN Append(h[i - 1], s[i]) ELSE h[i - 1]
    <3>1. h[i - 1] = g[i - 1]
      OBVIOUS
    <3>2. CASE i = n + 1
      BY <3>1, <3>2
    <3>3. CASE i # n + 1
      <4>1. i \in 1..n /\ h[i] = g[i]
        BY <3>3
      <4> QED
        BY <3>1, <4>1, <2>1 DEF Steps
    <3> QED BY <3>2, <3>3
  <2>4. Steps(h, s, n + 1, K)
    BY <2>2, <2>3 DEF Steps
  <2> QED BY <2>4
<1>3. Len(s) \in S
  <2> HIDE DEF S
  <2> QED BY <1>1, <1>2, NatInd
<1>4. PICK g : Steps(g, s, Len(s), K)
  BY <1>3
<1> DEFINE IsR(R) == R = [i \in 0..Len(s) |-> IF i = 0 THEN <<>>
                         ELSE IF s[i] \in K THEN Append(R[i - 1], s[i]) ELSE R[i - 1]]
<1>5. IsR(g)
  <2> DEFINE h == [i \in 0..Len(s) |-> IF i = 0 THEN <<>>
                         ELSE IF s[i] \in K THEN Append(g[i - 1], s[i]) ELSE g[i - 1]]
  <2>1. ASSUME NEW i \in 0..Len(s) PROVE g[i] = h[i]
    <3>1. i = 0 \/ i \in 1..Len(s)
      OBVIOUS
    <3> QED
      BY <3>1, <1>4 DEF Steps
  <2>2. DOMAIN g = 0..Len(s) /\ g = [i \in DOMAIN g |-> g[i]]
    BY <1>4 DEF Steps
  <2> QED BY <2>1, <2>2
<1>6. \E R : IsR(R) /\ Retain(s, K) = R[Len(s)]
  <2>1. Retain(s, K) = (CHOOSE R : IsR(R))[Len(s)]
    BY DEF Retain
  <2>2. IsR(CHOOSE R : IsR(R))
    BY <1>5
  <2> QED BY <2>1, <2>2
<1>7. PICK R : IsR(R) /\ Retain(s, K) = R[Len(s)]
  BY <1>6
<1>8. Steps(R, s, Len(s), K)
  <2>1. DOMAIN R = 0..Len(s) /\ Len(s) \in Nat
    BY <1>7
  <2>2. \A i \in 0..Len(s) : R[i] = IF i = 0 THEN <<>>
                         ELSE IF s[i] \in K THEN Append(R[i - 1], s[i]) ELSE R[i - 1]
    BY <1>7
  <2>3. R[0] = <<>>
    BY <2>1, <2>2
  <2>4. ASSUME NEW i \in 1..Len(s)
        PROVE  R[i] = IF s[i] \in K THEN Append(R[i - 1], s[i]) ELSE R[i - 1]
    <3>1. i \in 0..Len(s) /\ i # 0
      OBVIOUS
    <3> QED BY <3>1, <2>2
  <2> QED BY <2>1, <2>3, <2>4 DEF Steps
<1> QED BY <1>7, <1>8

\* What Retain gives.
LEMMA RetainMade ==
  ASSUME NEW T, NEW s \in Seq(T), NEW K
  PROVE  /\ Retain(s, K) \in Seq(T)
         /\ Within(Retain(s, K), s, Len(s), K)
         /\ Complete(Retain(s, K), s, Len(s), K)
<1>1. PICK g : Steps(g, s, Len(s), K) /\ Retain(s, K) = g[Len(s)]
  BY RetainSteps
<1> DEFINE S == {n \in Nat : n <= Len(s) =>
                   g[n] \in Seq(T) /\ Within(g[n], s, n, K) /\ Complete(g[n], s, n, K)}
<1>2. 0 \in S
  <2>1. g[0] = <<>> /\ <<>> \in Seq(T) /\ Len(<<>>) = 0
    BY <1>1 DEF Steps
  <2>2. Within(<<>>, s, 0, K)
    <3> DEFINE f == [j \in 1..0 |-> j]
    <3>1. 1..Len(<<>>) = {} /\ 1..0 = {}
      BY <2>1
    <3>2. f \in [1..Len(<<>>) -> 1..0]
      BY <3>1
    <3> HIDE DEF f
    <3> QED BY <3>1, <3>2 DEF Within
  <2>3. Complete(<<>>, s, 0, K)
    BY DEF Complete
  <2> QED BY <2>1, <2>2, <2>3
<1>3. ASSUME NEW n \in Nat, n \in S PROVE n + 1 \in S
  <2> SUFFICES ASSUME n + 1 <= Len(s)
               PROVE  g[n + 1] \in Seq(T) /\ Within(g[n + 1], s, n + 1, K)
                        /\ Complete(g[n + 1], s, n + 1, K)
    OBVIOUS
  <2>1. g[n] \in Seq(T) /\ Within(g[n], s, n, K) /\ Complete(g[n], s, n, K)
    BY <1>3
  <2>2. PICK f \in [1..Len(g[n]) -> 1..n] :
          /\ \A j \in 1..Len(g[n]) : g[n][j] = s[f[j]] /\ g[n][j] \in K
          /\ \A i, j \in 1..Len(g[n]) : i < j => f[i] < f[j]
    BY <2>1 DEF Within
  <2>3. g[n + 1] = IF s[n + 1] \in K THEN Append(g[n], s[n + 1]) ELSE g[n]
    <3>1. n + 1 \in 1..Len(s) /\ (n + 1) - 1 = n
      OBVIOUS
    <3> QED BY <1>1, <3>1 DEF Steps
  <2>4. s[n + 1] \in T
    OBVIOUS
  <2>5. CASE s[n + 1] \notin K
    <3>1. g[n + 1] = g[n]
      BY <2>3, <2>5
    <3>2. Within(g[n], s, n + 1, K)
      <4>1. f \in [1..Len(g[n]) -> 1..(n + 1)]
        OBVIOUS
      <4> QED BY <4>1, <2>2 DEF Within
    <3>3. Complete(g[n], s, n + 1, K)
      <4> SUFFICES ASSUME NEW i \in 1..(n + 1), s[i] \in K
                   PROVE  \E j \in 1..Len(g[n]) : g[n][j] = s[i]
        BY DEF Complete
      <4>1. i \in 1..n
        BY <2>5
      <4> QED BY <2>1, <4>1 DEF Complete
    <3> QED BY <2>1, <3>1, <3>2, <3>3
  <2>6. CASE s[n + 1] \in K
    <3> DEFINE r == Append(g[n], s[n + 1])
               L == Len(g[n])
               h == [j \in 1..(L + 1) |-> IF j = L + 1 THEN n + 1 ELSE f[j]]
    <3>1. /\ g[n + 1] = r /\ r \in Seq(T) /\ L \in Nat
          /\ Len(r) = L + 1 /\ r[L + 1] = s[n + 1]
          /\ \A j \in 1..L : r[j] = g[n][j]
      BY <2>1, <2>3, <2>4, <2>6
    <3> HIDE DEF r
    <3>2. h \in [1..Len(r) -> 1..(n + 1)]
      <4>1. ASSUME NEW j \in 1..(L + 1) PROVE h[j] \in 1..(n + 1)
        <5>1. CASE j = L + 1
          BY <5>1
        <5>2. CASE j # L + 1
          <6>1. j \in 1..L
            BY <3>1, <5>2
          <6>2. f[j] \in 1..n
            BY <6>1
          <6> QED BY <5>2, <6>2
        <5> QED BY <5>1, <5>2
      <4> QED BY <3>1, <4>1
    <3>3. ASSUME NEW j \in 1..(L + 1) PROVE r[j] = s[h[j]] /\ r[j] \in K
      <4>1. CASE j = L + 1
        BY <2>6, <3>1, <4>1
      <4>2. CASE j # L + 1
        <5>1. j \in 1..L
          BY <3>1, <4>2
        <5> QED BY <2>2, <3>1, <4>2, <5>1
      <4> QED BY <4>1, <4>2
    <3>4. ASSUME NEW i \in 1..(L + 1), NEW j \in 1..(L + 1), i < j PROVE h[i] < h[j]
      <4>0. i \in 1..L
        BY <3>1, <3>4
      <4>a. f[i] \in 1..n
        BY <4>0
      <4>b. i # L + 1
        BY <3>1, <4>0
      <4>1. h[i] = f[i] /\ f[i] \in 1..n
        BY <4>a, <4>b
      <4>2. CASE j = L + 1
        BY <4>1, <4>2
      <4>3. CASE j # L + 1
        <5>1. j \in 1..L /\ h[j] = f[j]
          BY <3>1, <4>3
        <5> QED BY <2>2, <3>4, <4>1, <5>1
      <4> QED BY <4>2, <4>3
    <3> HIDE DEF h
    <3>5. Within(r, s, n + 1, K)
      BY <3>1, <3>2, <3>3, <3>4 DEF Within
    <3>6. Complete(r, s, n + 1, K)
      <4> SUFFICES ASSUME NEW i \in 1..(n + 1), s[i] \in K
                   PROVE  \E j \in 1..Len(r) : r[j] = s[i]
        BY DEF Complete
      <4>1. CASE i = n + 1
        BY <3>1, <4>1
      <4>2. CASE i # n + 1
        <5>1. i \in 1..n
          BY <4>2
        <5>2. PICK j \in 1..L : g[n][j] = s[i]
          BY <5>1, <2>1 DEF Complete
        <5> QED BY <3>1, <5>2
      <4> QED BY <4>1, <4>2
    <3> QED BY <3>1, <3>5, <3>6
  <2> QED BY <2>5, <2>6
<1>4. Len(s) \in S
  <2> HIDE DEF S
  <2> QED BY <1>2, <1>3, NatInd
<1> QED BY <1>1, <1>4

\* What Retain keeps was there, in the same order.
LEMMA RetainEmbeds ==
  ASSUME NEW T, NEW s \in Seq(T), NEW K
  PROVE  /\ Retain(s, K) \in Seq(T)
         /\ \E f \in [1..Len(Retain(s, K)) -> 1..Len(s)] :
              /\ \A j \in 1..Len(Retain(s, K)) :
                   Retain(s, K)[j] = s[f[j]] /\ Retain(s, K)[j] \in K
              /\ \A i, j \in 1..Len(Retain(s, K)) : i < j => f[i] < f[j]
BY RetainMade DEF Within

\* The function of Retain depends on the elements alone.
LEMMA StepsUnique ==
  ASSUME NEW n \in Nat, NEW s, NEW t, NEW K, NEW L, NEW g, NEW h,
         Steps(g, s, n, K), Steps(h, t, n, L),
         \A i \in 1..n : s[i] = t[i] /\ (s[i] \in K <=> t[i] \in L)
  PROVE  g[n] = h[n]
<1> DEFINE S == {i \in Nat : i <= n => g[i] = h[i]}
<1>1. 0 \in S
  BY DEF Steps
<1>2. ASSUME NEW i \in Nat, i \in S PROVE i + 1 \in S
  <2> SUFFICES ASSUME i + 1 <= n PROVE g[i + 1] = h[i + 1]
    OBVIOUS
  <2>1. i + 1 \in 1..n /\ (i + 1) - 1 = i /\ g[i] = h[i]
    BY <1>2
  <2> QED BY <2>1 DEF Steps
<1>3. n \in S
  <2> HIDE DEF S
  <2> QED BY <1>1, <1>2, NatInd
<1> QED BY <1>3

\* Two lists of which the same is kept.
LEMMA RetainAgrees ==
  ASSUME NEW T, NEW s \in Seq(T), NEW K, NEW L, \A i \in 1..Len(s) : s[i] \in K <=> s[i] \in L
  PROVE  Retain(s, K) = Retain(s, L)
<1>1. PICK g : Steps(g, s, Len(s), K) /\ Retain(s, K) = g[Len(s)]
  BY RetainSteps
<1>2. PICK h : Steps(h, s, Len(s), L) /\ Retain(s, L) = h[Len(s)]
  BY RetainSteps
<1>3. g[Len(s)] = h[Len(s)]
  BY <1>1, <1>2, StepsUnique
<1> QED BY <1>1, <1>2, <1>3

\* One more at the end.
LEMMA RetainAppend ==
  ASSUME NEW T, NEW s \in Seq(T), NEW x \in T, NEW K
  PROVE  Retain(Append(s, x), K) = IF x \in K THEN Append(Retain(s, K), x) ELSE Retain(s, K)
<1> DEFINE t == Append(s, x)
           n == Len(s)
<1>0. /\ t \in Seq(T) /\ n \in Nat /\ Len(t) = n + 1
      /\ \A i \in 1..n : t[i] = s[i]
      /\ t[n + 1] = x
  BY AppendProperties
<1> HIDE DEF t
<1>1. PICK g : Steps(g, s, n, K) /\ Retain(s, K) = g[n]
  BY RetainSteps
<1>2. PICK h : Steps(h, t, Len(t), K) /\ Retain(t, K) = h[Len(t)]
  BY <1>0, RetainSteps
<1> HIDE DEF n
<1> DEFINE f == [i \in 0..n |-> h[i]]
<1>3. Steps(f, t, n, K)
  <2>1. DOMAIN f = 0..n /\ f[0] = <<>>
    BY <1>0, <1>2 DEF Steps
  <2>2. ASSUME NEW i \in 1..n PROVE f[i] = IF t[i] \in K THEN Append(f[i - 1], t[i]) ELSE f[i - 1]
    <3>1. i \in 1..Len(t) /\ i \in 0..n /\ i - 1 \in 0..n
      BY <1>0
    <3>2. h[i] = IF t[i] \in K THEN Append(h[i - 1], t[i]) ELSE h[i - 1]
      BY <1>2, <3>1 DEF Steps
    <3> QED BY <3>1, <3>2
  <2> HIDE DEF f
  <2> QED BY <2>1, <2>2 DEF Steps
<1>4. f[n] = h[n]
  BY <1>0
<1> HIDE DEF f
<1>5. g[n] = f[n]
  BY <1>0, <1>1, <1>3, StepsUnique
<1>6. h[n + 1] = IF x \in K THEN Append(h[n], x) ELSE h[n]
  <2>1. n + 1 \in 1..Len(t) /\ (n + 1) - 1 = n
    BY <1>0
  <2> QED BY <1>0, <1>2, <2>1 DEF Steps
<1>7. Retain(t, K) = h[n + 1] /\ Retain(s, K) = h[n]
  BY <1>0, <1>1, <1>2, <1>4, <1>5
<1> QED BY <1>6, <1>7 DEF t

\* The elements of a sequence are those at its places.
LEMMA Elements ==
  ASSUME NEW T, NEW s \in Seq(T)
  PROVE  ToSet(s) = {s[i] : i \in 1..Len(s)} /\ ToSet(s) \subseteq T
BY DEF ToSet

\* What Retain leaves, as a set.
LEMMA RetainElements ==
  ASSUME NEW T, NEW s \in Seq(T), NEW K
  PROVE  /\ Retain(s, K) \in Seq(T)
         /\ ToSet(Retain(s, K)) = ToSet(s) \cap K
         /\ IsInjective(s) => IsInjective(Retain(s, K))
<1> DEFINE r == Retain(s, K)
<1>1. r \in Seq(T) /\ Within(r, s, Len(s), K) /\ Complete(r, s, Len(s), K)
  BY RetainMade
<1> HIDE DEF r
<1>2. PICK f \in [1..Len(r) -> 1..Len(s)] :
        /\ \A j \in 1..Len(r) : r[j] = s[f[j]] /\ r[j] \in K
        /\ \A i, j \in 1..Len(r) : i < j => f[i] < f[j]
  BY <1>1 DEF Within
<1>3. ToSet(r) = {r[i] : i \in 1..Len(r)} /\ ToSet(s) = {s[i] : i \in 1..Len(s)}
  BY <1>1, Elements
<1>4. ToSet(r) \subseteq ToSet(s) \cap K
  BY <1>2, <1>3
<1>5. ToSet(s) \cap K \subseteq ToSet(r)
  BY <1>1, <1>3 DEF Complete
<1>6. ASSUME IsInjective(s) PROVE IsInjective(r)
  <2> SUFFICES ASSUME NEW i \in 1..Len(r), NEW j \in 1..Len(r), r[i] = r[j] PROVE i = j
    BY <1>1 DEF IsInjective
  <2>1. f[i] \in 1..Len(s) /\ f[j] \in 1..Len(s) /\ s[f[i]] = s[f[j]]
    BY <1>2
  <2>2. f[i] = f[j]
    BY <1>6, <2>1 DEF IsInjective
  <2>3. ~(i < j) /\ ~(j < i)
    BY <1>2, <2>1, <2>2
  <2> QED BY <2>3, <1>1
<1> QED BY <1>1, <1>4, <1>5, <1>6 DEF r

\* What an appended element adds.
LEMMA AppendElements ==
  ASSUME NEW T, NEW s \in Seq(T), NEW x \in T
  PROVE  /\ Append(s, x) \in Seq(T) /\ ToSet(Append(s, x)) = ToSet(s) \cup {x}
         /\ IsInjective(s) /\ x \notin ToSet(s) => IsInjective(Append(s, x))
<1> DEFINE a == Append(s, x)
<1>1. /\ a \in Seq(T) /\ Len(s) \in Nat /\ Len(a) = Len(s) + 1
      /\ \A i \in 1..Len(s) : a[i] = s[i]
      /\ a[Len(s) + 1] = x
  BY AppendProperties
<1> HIDE DEF a
<1>2. ToSet(a) = {a[i] : i \in 1..Len(a)} /\ ToSet(s) = {s[i] : i \in 1..Len(s)}
  BY <1>1, Elements
<1>3. 1..Len(a) = 1..Len(s) \cup {Len(s) + 1}
  BY <1>1
<1>4. ToSet(a) = ToSet(s) \cup {x}
  BY <1>1, <1>2, <1>3
<1>5. ASSUME IsInjective(s), x \notin ToSet(s) PROVE IsInjective(a)
  <2> SUFFICES ASSUME NEW i \in 1..Len(a), NEW j \in 1..Len(a), a[i] = a[j] PROVE i = j
    BY <1>1 DEF IsInjective
  <2>1. \A k, l \in 1..Len(s) : s[k] = s[l] => k = l
    BY <1>5 DEF IsInjective
  <2> QED BY <1>1, <1>2, <1>3, <1>5, <2>1
<1> QED BY <1>1, <1>4, <1>5 DEF a
===============================================================================
