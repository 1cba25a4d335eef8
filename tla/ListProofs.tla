----------------------------- MODULE ListProofs ------------------------------
(***************************************************************************)
(* Facts that the proofs about lists rest on.  The provers know no         *)
(* induction, but that the numbers are well-founded can be cited: what     *)
(* holds of no number holds of a least one.  From it come the induction    *)
(* over a set of numbers and the existence of what a recursion defines,    *)
(* and from these what Kept, the walk that deletes from a list, leaves.    *)
(***************************************************************************)
EXTENDS Lists, FiniteSetsExt, WellFoundedInduction, TLAPS

\* A set of numbers that is not empty has a least one.
LEMMA Least ==
  ASSUME NEW T, T \subseteq Nat, T # {} PROVE \E x \in T : \A y \in T : x <= y
<1>1. IsWellFoundedOn(OpToRel(<,Nat), Nat)
  BY NatLessThanWellFounded
<1>2. PICK x \in T : \A y \in T : ~ (<<y, x>> \in OpToRel(<,Nat))
  BY <1>1, WFMin
<1>3. \A y \in T : ~(y < x)
  BY <1>2 DEF OpToRel
<1> QED
  BY <1>3

\* Induction, over the numbers with a property as a set.
LEMMA Counting ==
  ASSUME NEW S, 0 \in S, \A n \in Nat : n \in S => n + 1 \in S PROVE Nat \subseteq S
<1> DEFINE T == {n \in Nat : n \notin S}
<1> SUFFICES ASSUME T # {} PROVE FALSE
  OBVIOUS
<1>1. T \subseteq Nat
  OBVIOUS
<1>2. PICK x \in T : \A y \in T : x <= y
  <2> HIDE DEF T
  <2> QED
    BY <1>1, Least
<1>3. x # 0 /\ x - 1 \in Nat /\ x - 1 \notin T
  BY <1>2
<1> QED
  BY <1>3

\* F is defined by recursion from base with step.
Solves(F, n, base, step) == F[0] = base /\ \A i \in 1..n : F[i] = step[<<i, F[i - 1]>>]

\* A recursion over 0..n has a solution.
LEMMA RecursionExists ==
  ASSUME NEW n \in Nat, NEW V, NEW base \in V, NEW step \in [(1..n) \X V -> V]
  PROVE  \E F \in [0..n -> V] : Solves(F, n, base, step)
<1> DEFINE Sol(F, m) == F[0] = base /\ \A i \in 1..m : F[i] = step[<<i, F[i - 1]>>]
           S == {m \in Nat : m <= n => \E F \in [0..m -> V] : Sol(F, m)}
<1>1. 0 \in S
  <2> DEFINE F == [j \in 0..0 |-> base]
  <2>1. F \in [0..0 -> V] /\ Sol(F, 0)
    OBVIOUS
  <2> QED
    BY <2>1
<1>2. ASSUME NEW m \in Nat, m \in S PROVE m + 1 \in S
  <2> SUFFICES ASSUME m + 1 <= n PROVE \E F \in [0..(m + 1) -> V] : Sol(F, m + 1)
    OBVIOUS
  <2>1. PICK F \in [0..m -> V] : Sol(F, m)
    BY <1>2
  <2> DEFINE G == [j \in 0..(m + 1) |-> IF j <= m THEN F[j] ELSE step[<<m + 1, F[m]>>]]
  <2>2. G \in [0..(m + 1) -> V]
    OBVIOUS
  <2>3. Sol(G, m + 1)
    <3>1. G[0] = base
      BY <2>1
    <3>2. ASSUME NEW i \in 1..(m + 1) PROVE G[i] = step[<<i, G[i - 1]>>]
      <4>1. CASE i <= m
        BY <2>1, <4>1
      <4>2. CASE i = m + 1
        <5>1. G[i] = step[<<m + 1, F[m]>>] /\ G[i - 1] = F[m]
          BY <4>2
        <5> QED
          BY <5>1, <4>2
      <4> QED
        BY <4>1, <4>2
    <3> QED
      BY <3>1, <3>2
  <2> QED
    BY <2>2, <2>3
<1>3. Nat \subseteq S
  <2> HIDE DEF S
  <2> QED
    BY <1>1, <1>2, Counting
<1> QED
  BY <1>3 DEF Solves

\* F follows the recursion of Kept.
KeptBy(F, s, S) ==
  /\ F[0] = <<>>
  /\ \A k \in 1..Len(s) : F[k] = IF s[k] \in S THEN Append(F[k - 1], s[k]) ELSE F[k - 1]
  /\ Kept(s, S) = F[Len(s)]

\* Kept by its recursion.
LEMMA KeptRecursion ==
  ASSUME NEW T, NEW s \in Seq(T), NEW S
  PROVE  \E F \in [0..Len(s) -> Seq(T)] : KeptBy(F, s, S)
<1> DEFINE n == Len(s)
           step == [p \in (1..n) \X Seq(T) |-> IF s[p[1]] \in S THEN Append(p[2], s[p[1]]) ELSE p[2]]
           kept[k \in 0..n] ==
             IF k = 0 THEN <<>>
             ELSE IF s[k] \in S THEN Append(kept[k - 1], s[k]) ELSE kept[k - 1]
<1>0. n \in Nat /\ <<>> \in Seq(T) /\ \A k \in 1..n : s[k] \in T
  OBVIOUS
<1>1. step \in [(1..n) \X Seq(T) -> Seq(T)]
  BY <1>0
<1>2. PICK F \in [0..n -> Seq(T)] : F[0] = <<>> /\ \A i \in 1..n : F[i] = step[<<i, F[i - 1]>>]
  <2> DEFINE V == Seq(T)
             base == <<>>
  <2>1. base \in V /\ step \in [(1..n) \X V -> V] /\ n \in Nat
    BY <1>0, <1>1
  <2>2. \E F \in [0..n -> V] : Solves(F, n, base, step)
    <3> HIDE DEF n, step, V, base, kept
    <3> QED
      BY <2>1, RecursionExists
  <2> QED
    BY <2>2 DEF Solves
<1>3. ASSUME NEW k \in 1..n
      PROVE  F[k] = IF s[k] \in S THEN Append(F[k - 1], s[k]) ELSE F[k - 1]
  <2>1. k - 1 \in 0..n /\ F[k - 1] \in Seq(T)
    BY <1>0, <1>2
  <2>2. F[k] = step[<<k, F[k - 1]>>]
    BY <1>2
  <2> HIDE DEF n
  <2> QED
    BY <2>1, <2>2
<1>4. F = [k \in 0..n |-> IF k = 0 THEN <<>>
                          ELSE IF s[k] \in S THEN Append(F[k - 1], s[k]) ELSE F[k - 1]]
  <2> HIDE DEF n
  <2>1. ASSUME NEW k \in 0..n
        PROVE  F[k] = IF k = 0 THEN <<>>
                      ELSE IF s[k] \in S THEN Append(F[k - 1], s[k]) ELSE F[k - 1]
    <3>1. k # 0 => k \in 1..n
      BY <1>0
    <3> QED
      BY <3>1, <1>2, <1>3
  <2> QED
    BY <2>1, <1>2
<1>5. kept = [k \in 0..n |-> IF k = 0 THEN <<>>
                          ELSE IF s[k] \in S THEN Append(kept[k - 1], s[k]) ELSE kept[k - 1]]
  <2> HIDE DEF n
  <2> QED
    BY <1>4, Zenon
<1>6. Kept(s, S) = kept[n]
  BY Zenon DEF Kept
<1> HIDE DEF kept, step
<1> DEFINE Q == {k \in Nat : k <= n => kept[k] = F[k]}
<1>7. 0 \in Q
  BY <1>0, <1>2, <1>5
<1>8. ASSUME NEW k \in Nat, k \in Q PROVE k + 1 \in Q
  <2> SUFFICES ASSUME k + 1 <= n PROVE kept[k + 1] = F[k + 1]
    OBVIOUS
  <2>1. kept[k + 1] = IF s[k + 1] \in S THEN Append(kept[k], s[k + 1]) ELSE kept[k]
    <3>1. k + 1 \in 0..n /\ k + 1 # 0 /\ (k + 1) - 1 = k
      BY <1>0
    <3> HIDE DEF n
    <3> QED
      BY <3>1, <1>5
  <2>2. kept[k] = F[k] /\ k + 1 \in 1..n /\ (k + 1) - 1 = k
    BY <1>0, <1>8
  <2> QED
    BY <2>1, <2>2, <1>3
<1>9. n \in Q
  <2> HIDE DEF Q
  <2> QED
    BY <1>0, <1>7, <1>8, Counting
<1> QED
  BY <1>0, <1>2, <1>3, <1>6, <1>9 DEF KeptBy

\* a and b stand to each other as i and j do.
Ordered(a, b, i, j) == (a < b => i < j) /\ (b < a => j < i)

\* v is what Kept leaves of the first k elements of s.
KeptOf(v, s, S, k) ==
  /\ Len(v) <= k
  /\ Len(v) = k => \A i \in 1..k : v[i] = s[i]
  /\ \A a \in 1..Len(v) : v[a] \in S
  /\ \A a, b \in 1..Len(v) : \E i, j \in 1..k : v[a] = s[i] /\ v[b] = s[j] /\ Ordered(a, b, i, j)
  /\ \A i \in 1..k : s[i] \in S => \E a \in 1..Len(v) : v[a] = s[i]

\* One element more.
LEMMA KeptTurn ==
  ASSUME NEW T, NEW s \in Seq(T), NEW S, NEW k \in Nat, k + 1 <= Len(s),
         NEW v \in Seq(T), KeptOf(v, s, S, k), NEW w,
         w = IF s[k + 1] \in S THEN Append(v, s[k + 1]) ELSE v
  PROVE  KeptOf(w, s, S, k + 1)
<1>0. s[k + 1] \in T /\ Len(v) \in Nat /\ k + 1 \in Nat
  OBVIOUS
<1>1. CASE s[k + 1] \notin S
  <2>1. w = v
    BY <1>1
  <2>2. Len(v) < k + 1
    BY <1>0 DEF KeptOf
  <2>3. \A a, b \in 1..Len(v) : \E i, j \in 1..(k + 1) : v[a] = s[i] /\ v[b] = s[j] /\ Ordered(a, b, i, j)
    <3> SUFFICES ASSUME NEW a \in 1..Len(v), NEW b \in 1..Len(v)
                 PROVE  \E i, j \in 1..(k + 1) : v[a] = s[i] /\ v[b] = s[j] /\ Ordered(a, b, i, j)
      OBVIOUS
    <3>1. PICK i \in 1..k, j \in 1..k : v[a] = s[i] /\ v[b] = s[j] /\ Ordered(a, b, i, j)
      BY DEF KeptOf
    <3>2. i \in 1..(k + 1) /\ j \in 1..(k + 1)
      OBVIOUS
    <3> QED
      BY <3>1, <3>2
  <2>4. \A i \in 1..(k + 1) : s[i] \in S => \E a \in 1..Len(v) : v[a] = s[i]
    BY <1>1 DEF KeptOf
  <2>5. \A a \in 1..Len(v) : v[a] \in S
    BY DEF KeptOf
  <2>6. Len(v) <= k + 1 /\ Len(v) # k + 1
    BY <1>0, <2>2
  <2>7. KeptOf(v, s, S, k + 1)
    BY <2>3, <2>4, <2>5, <2>6, Zenon DEF KeptOf
  <2> QED
    BY <2>1, <2>7
<1>2. CASE s[k + 1] \in S
  <2>1. w = Append(v, s[k + 1])
    BY <1>2
  <2>2. Len(w) = Len(v) + 1 /\ w[Len(v) + 1] = s[k + 1] /\ \A a \in 1..Len(v) : w[a] = v[a]
    BY <1>0, <2>1
  <2>3. \A a \in 1..Len(w) : a \in 1..Len(v) \/ a = Len(v) + 1
    BY <1>0, <2>2
  <2>4. Len(w) <= k + 1
    BY <1>0, <2>2 DEF KeptOf
  <2>5. Len(w) = k + 1 => \A i \in 1..(k + 1) : w[i] = s[i]
    BY <1>0, <2>2 DEF KeptOf
  <2>6. \A a \in 1..Len(w) : w[a] \in S
    BY <1>2, <2>2, <2>3 DEF KeptOf
  <2>7. ASSUME NEW a \in 1..Len(w), NEW b \in 1..Len(w)
        PROVE  \E i, j \in 1..(k + 1) : w[a] = s[i] /\ w[b] = s[j] /\ Ordered(a, b, i, j)
    <3>0. k + 1 \in 1..(k + 1) /\ \A i \in 1..k : i \in 1..(k + 1) /\ i # k + 1
      OBVIOUS
    <3>1. CASE a \in 1..Len(v) /\ b \in 1..Len(v)
      <4>1. PICK i \in 1..k, j \in 1..k : v[a] = s[i] /\ v[b] = s[j] /\ Ordered(a, b, i, j)
        BY <3>1 DEF KeptOf
      <4> QED
        BY <3>0, <3>1, <4>1, <2>2
    <3>2. CASE a \in 1..Len(v) /\ b = Len(v) + 1
      <4>1. PICK i \in 1..k : v[a] = s[i]
        BY <3>2 DEF KeptOf
      <4>2. Ordered(a, b, i, k + 1)
        BY <1>0, <3>2 DEF Ordered
      <4> QED
        BY <3>0, <3>2, <4>1, <4>2, <2>2
    <3>3. CASE a = Len(v) + 1 /\ b \in 1..Len(v)
      <4>1. PICK i \in 1..k : v[b] = s[i]
        BY <3>3 DEF KeptOf
      <4>2. Ordered(a, b, k + 1, i)
        BY <1>0, <3>3 DEF Ordered
      <4> QED
        BY <3>0, <3>3, <4>1, <4>2, <2>2
    <3>4. CASE a = Len(v) + 1 /\ b = Len(v) + 1
      <4>1. Ordered(a, b, k + 1, k + 1)
        BY <1>0, <3>4 DEF Ordered
      <4> QED
        BY <3>0, <3>4, <4>1, <2>2
    <3> QED
      BY <2>3, <3>1, <3>2, <3>3, <3>4
  <2>8. ASSUME NEW i \in 1..(k + 1), s[i] \in S PROVE \E a \in 1..Len(w) : w[a] = s[i]
    <3>1. CASE i = k + 1
      BY <1>0, <2>2, <3>1
    <3>2. CASE i \in 1..k
      <4>1. PICK a \in 1..Len(v) : v[a] = s[i]
        BY <2>8, <3>2 DEF KeptOf
      <4> QED
        BY <1>0, <4>1, <2>2
    <3> QED
      BY <3>1, <3>2
  <2> HIDE DEF KeptOf
  <2> QED
    BY <2>4, <2>5, <2>6, <2>7, <2>8 DEF KeptOf
<1> QED
  BY <1>1, <1>2

\* What Kept leaves of a list: its elements in S, each once for each time it was there.
LEMMA KeptIs ==
  ASSUME NEW T, NEW s \in Seq(T), NEW S
  PROVE  Kept(s, S) \in Seq(T) /\ KeptOf(Kept(s, S), s, S, Len(s))
<1>0. PICK F \in [0..Len(s) -> Seq(T)] : KeptBy(F, s, S)
  BY KeptRecursion
<1>1. /\ F[0] = <<>>
      /\ \A k \in 1..Len(s) : F[k] = IF s[k] \in S THEN Append(F[k - 1], s[k]) ELSE F[k - 1]
      /\ Kept(s, S) = F[Len(s)]
  BY <1>0, Zenon DEF KeptBy
<1> DEFINE Q == {k \in Nat : k <= Len(s) => KeptOf(F[k], s, S, k)}
<1>2. 0 \in Q
  BY <1>1 DEF KeptOf
<1>3. ASSUME NEW k \in Nat, k \in Q PROVE k + 1 \in Q
  <2> SUFFICES ASSUME k + 1 <= Len(s) PROVE KeptOf(F[k + 1], s, S, k + 1)
    OBVIOUS
  <2>1. k + 1 \in 1..Len(s) /\ (k + 1) - 1 = k /\ k \in 0..Len(s)
    OBVIOUS
  <2>2. F[k] \in Seq(T) /\ KeptOf(F[k], s, S, k)
    BY <1>3, <2>1
  <2>3. F[k + 1] = IF s[k + 1] \in S THEN Append(F[k], s[k + 1]) ELSE F[k]
    BY <1>1, <2>1
  <2> QED
    BY <2>2, <2>3, KeptTurn
<1>4. Len(s) \in Nat /\ Len(s) \in 0..Len(s)
  OBVIOUS
<1>5. Len(s) \in Q
  <2> HIDE DEF Q
  <2> QED
    BY <1>2, <1>3, <1>4, Counting
<1> QED
  BY <1>1, <1>4, <1>5

\* Min finds the least element.
LEMMA MinIs ==
  ASSUME NEW T, T \subseteq Nat, T # {} PROVE Min(T) \in T /\ \A y \in T : Min(T) <= y
BY Least, Zenon DEF Min

\* One element of a list is replaced.
LEMMA OneElement ==
  ASSUME NEW T, NEW s \in Seq(T), NEW m \in DOMAIN s, NEW e \in T, NEW t, t = [s EXCEPT ![m] = e]
  PROVE  t \in Seq(T) /\ DOMAIN t = DOMAIN s /\ \A k \in DOMAIN s : t[k] = IF k = m THEN e ELSE s[k]
OBVIOUS
=============================================================================
