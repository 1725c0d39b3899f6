------------------------ MODULE CandleQueries_proofs ------------------------
(***************************************************************************)
(* Proofs about the candle store, backfill and the candle queries for any  *)
(* horizon, length of the months, canonical zone, page sizes and           *)
(* histories, and for live writers of either zone or of both.              *)
(***************************************************************************)
EXTENDS CandleQueries, FiniteSetTheorems, WellFoundedInduction, TLAPS

-----------------------------------------------------------------------------
(* Numbers *)

LEMMA LessLess == \A x, y, z \in Nat : x < y /\ y < z => x < z
OBVIOUS

LEMMA LeastNat ==
  ASSUME NEW T, T \subseteq Nat, T # {}
  PROVE  \E x \in T : \A y \in T : x <= y
<1>1. PICK x \in T : \A y \in T : ~(<<y, x>> \in OpToRel(<, Nat))
  BY NatLessThanWellFounded, WFMin
<1>2. \A y \in T : ~(y < x)
  BY <1>1 DEF OpToRel
<1> QED BY <1>2

\* Induction over 1 .. L.
LEMMA UpTo ==
  ASSUME NEW L \in Nat \ {0}, NEW P, 1 \in P,
         ASSUME NEW n \in 1 .. L - 1, n \in P PROVE n + 1 \in P
  PROVE  L \in P /\ \A n \in 1 .. L : n \in P
<1>1. SUFFICES ASSUME {n \in 1 .. L : n \notin P} # {} PROVE FALSE
  OBVIOUS
<1>2. PICK n \in {m \in 1 .. L : m \notin P} : \A k \in {m \in 1 .. L : m \notin P} : n <= k
  <2>1. {m \in 1 .. L : m \notin P} \subseteq Nat
    OBVIOUS
  <2> QED BY <1>1, <2>1, LeastNat
<1>3. n \in 1 .. L /\ n \notin P /\ n # 1
  OBVIOUS
<1>4. n - 1 \in 1 .. L - 1 /\ n - 1 \in 1 .. L /\ (n - 1) + 1 = n /\ ~(n <= n - 1)
  BY <1>3
<1>5. n - 1 \in P
  BY <1>2, <1>4
<1>6. (n - 1) + 1 \in P
  BY <1>4, <1>5
<1> QED BY <1>3, <1>4, <1>6

LEMMA GreatestNat ==
  ASSUME NEW T, T \subseteq Nat, T # {}, IsFiniteSet(T)
  PROVE  Max(T) \in T /\ \A y \in T : y <= Max(T)
<1> DEFINE U == {Cardinality(T) - Cardinality({y \in T : y < x}) : x \in T}
<1>1. \A x \in T : /\ IsFiniteSet({y \in T : y < x}) /\ Cardinality({y \in T : y < x}) \in Nat
                   /\ Cardinality(T) - Cardinality({y \in T : y < x}) \in Nat
  <2>1. ASSUME NEW x \in T
        PROVE  /\ IsFiniteSet({y \in T : y < x}) /\ Cardinality({y \in T : y < x}) \in Nat
               /\ Cardinality(T) - Cardinality({y \in T : y < x}) \in Nat
    <3> DEFINE V == {y \in T : y < x}
    <3>1. V \in SUBSET T
      OBVIOUS
    <3> HIDE DEF V
    <3>2. IsFiniteSet(V) /\ Cardinality(V) <= Cardinality(T)
      BY <3>1, FS_Subset
    <3>3. Cardinality(V) \in Nat /\ Cardinality(T) \in Nat
      BY <3>2, FS_CardinalityType
    <3>4. Cardinality(T) - Cardinality(V) \in Nat
      BY <3>2, <3>3
    <3> QED BY <3>2, <3>3, <3>4 DEF V
  <2> QED BY <2>1
<1>2. U \subseteq Nat /\ U # {}
  BY <1>1
<1>3. PICK u \in U : \A v \in U : u <= v
  BY <1>2, LeastNat
<1>4. PICK x \in T : u = Cardinality(T) - Cardinality({y \in T : y < x})
  BY <1>3
<1>5. ASSUME NEW z \in T, x < z PROVE FALSE
  <2> DEFINE V == {y \in T : y < x}
             W == {y \in T : y < z}
  <2>0. \A y \in T : y < x => y < z
    <3>1. x \in Nat /\ z \in Nat /\ \A y \in T : y \in Nat
      OBVIOUS
    <3> QED BY <1>5, <3>1, LessLess
  <2>9. ~(x < x)
    BY x \in Nat
  <2>1. V \in SUBSET W /\ x \in W /\ x \notin V
    BY <1>5, <2>0, <2>9, Zenon
  <2>2. IsFiniteSet(W) /\ Cardinality(W) \in Nat /\ Cardinality(V) \in Nat /\ Cardinality(T) \in Nat
    BY <1>1, FS_CardinalityType
  <2>3. u = Cardinality(T) - Cardinality(V) /\ Cardinality(T) - Cardinality(W) \in U
    BY <1>4
  <2> HIDE DEF V, W, U
  <2>4. Cardinality(V) <= Cardinality(W) /\ Cardinality(V) # Cardinality(W)
    BY <2>1, <2>2, FS_Subset
  <2>5. u <= Cardinality(T) - Cardinality(W)
    BY <1>3, <2>3
  <2> QED BY <2>2, <2>3, <2>4, <2>5
<1>6. \A z \in T : x >= z
  BY <1>5
<1> QED BY <1>6 DEF Max

-----------------------------------------------------------------------------
(* Sorted sets *)

Below(S, m) == {n \in S : n < m}
Ascending(s) == \A i, j \in 1 .. Len(s) : i < j => s[i] < s[j]

\* Nothing occurs twice in s.
Once(s) == IsFiniteSet(ToSet(s)) /\ Cardinality(ToSet(s)) = Len(s)

LEMMA Ranks ==
  ASSUME NEW S, S \subseteq Nat, IsFiniteSet(S)
  PROVE  /\ Cardinality(S) \in Nat
         /\ \A m \in S : Cardinality(Below(S, m)) \in 0 .. Cardinality(S) - 1
         /\ \A a, b \in S : a < b => Cardinality(Below(S, a)) < Cardinality(Below(S, b))
         /\ \A a, b \in S : Cardinality(Below(S, a)) = Cardinality(Below(S, b)) => a = b
<1>1. ASSUME NEW A, NEW B, A \subseteq B, B \subseteq S, NEW x \in B, x \notin A
      PROVE  /\ Cardinality(A) \in Nat /\ Cardinality(B) \in Nat
             /\ Cardinality(A) < Cardinality(B)
  <2>1. IsFiniteSet(B) /\ IsFiniteSet(A) /\ Cardinality(A) <= Cardinality(B)
        /\ Cardinality(A) # Cardinality(B)
    BY <1>1, FS_Subset
  <2> QED BY <2>1, FS_CardinalityType
<1>2. Cardinality(S) \in Nat
  BY FS_CardinalityType
<1>3. ASSUME NEW m \in S PROVE Cardinality(Below(S, m)) \in 0 .. Cardinality(S) - 1
  <2>1. Below(S, m) \subseteq S /\ m \notin Below(S, m)
    BY DEF Below
  <2> QED BY <1>1, <1>2, <2>1
<1>4. ASSUME NEW a \in S, NEW b \in S, a < b
      PROVE  Cardinality(Below(S, a)) < Cardinality(Below(S, b))
  <2>0. \A y \in S : y < a => y < b
    <3>1. a \in Nat /\ b \in Nat /\ \A y \in S : y \in Nat
      OBVIOUS
    <3> QED BY <1>4, <3>1, LessLess
  <2>1. /\ Below(S, a) \subseteq Below(S, b) /\ Below(S, b) \subseteq S
        /\ a \in Below(S, b) /\ a \notin Below(S, a)
    <3>1. ~(a < a)
      BY a \in Nat
    <3> QED BY <1>4, <2>0, <3>1, Zenon DEF Below
  <2> QED BY <1>1, <2>1
<1>5. ASSUME NEW a \in S, NEW b \in S, Cardinality(Below(S, a)) = Cardinality(Below(S, b))
      PROVE  a = b
  <2>1. Cardinality(Below(S, a)) \in Nat
    BY <1>2, <1>3
  <2>2. a < b \/ b < a \/ a = b
    OBVIOUS
  <2> QED BY <1>4, <1>5, <2>1, <2>2
<1> QED BY <1>2, <1>3, <1>4, <1>5

LEMMA RanksOnto ==
  ASSUME NEW S, S \subseteq Nat, IsFiniteSet(S), NEW k \in 1 .. Cardinality(S)
  PROVE  \E m \in S : Cardinality(Below(S, m)) = k - 1
<1> DEFINE N == Cardinality(S)
           f == [m \in S |-> Cardinality(Below(S, m)) + 1]
<1>1. N \in Nat /\ \A m \in S : Cardinality(Below(S, m)) \in 0 .. N - 1
  BY Ranks
<1>2. IsFiniteSet(1 .. N) /\ Cardinality(1 .. N) = N
  BY <1>1, FS_Interval
<1>3. f \in [S -> 1 .. N]
  BY <1>1
<1>4. ASSUME NEW a \in S, NEW b \in S, f[a] = f[b] PROVE a = b
  <2>1. Cardinality(Below(S, a)) = Cardinality(Below(S, b))
    BY <1>1, <1>4
  <2> QED BY <2>1, Ranks
<1>5. \A m \in S : f[m] = Cardinality(Below(S, m)) + 1
  OBVIOUS
<1> HIDE DEF f
<1>6. f \in Injection(S, 1 .. N)
  BY <1>3, <1>4 DEF Injection, IsInjective
<1>7. f \in Surjection(S, 1 .. N)
  BY <1>2, <1>6, FS_Injection
<1>8. PICK m \in S : f[m] = k
  BY <1>7 DEF Surjection
<1> QED BY <1>1, <1>5, <1>8

\* Sorted enumerates a finite set in ascending order.
LEMMA SortedIsSorted ==
  ASSUME NEW S, S \subseteq Nat, IsFiniteSet(S)
  PROVE  /\ Sorted(S) \in [1 .. Cardinality(S) -> S] /\ Sorted(S) \in Seq(Nat)
         /\ Len(Sorted(S)) = Cardinality(S) /\ Cardinality(S) \in Nat
         /\ Ascending(Sorted(S)) /\ ToSet(Sorted(S)) = S
         /\ \A k \in 1 .. Cardinality(S) : Cardinality(Below(S, Sorted(S)[k])) = k - 1
<1> DEFINE N == Cardinality(S)
           s == Sorted(S)
<1>1. N \in Nat
  BY Ranks
<1>2. ASSUME NEW k \in 1 .. N PROVE s[k] \in S /\ Cardinality(Below(S, s[k])) = k - 1
  <2>1. s[k] = CHOOSE m \in S : Cardinality(Below(S, m)) = k - 1
    BY DEF Sorted, Below
  <2> QED BY <2>1, RanksOnto
<1>3. \E f : s = [k \in 1 .. N |-> f[k]]
  <2> DEFINE f == [k \in 1 .. N |-> CHOOSE m \in S : Cardinality(Below(S, m)) = k - 1]
  <2>1. s = f
    BY DEF Sorted, Below
  <2> WITNESS f
  <2> QED BY <2>1
<1> HIDE DEF s
<1>4. s \in [1 .. N -> S]
  BY <1>2, <1>3
<1>5. s \in Seq(Nat) /\ Len(s) = N
  <2>1. s \in [1 .. N -> Nat]
    BY <1>4
  <2> QED BY <1>1, <2>1
<1>6. Ascending(s)
  <2>1. ASSUME NEW i \in 1 .. N, NEW j \in 1 .. N, i < j PROVE s[i] < s[j]
    <3>1. s[i] \in S /\ s[j] \in S /\ s[i] \in Nat /\ s[j] \in Nat
      BY <1>2
    <3>2. Cardinality(Below(S, s[i])) = i - 1 /\ Cardinality(Below(S, s[j])) = j - 1
      BY <1>2
    <3>3. s[i] # s[j]
      BY <2>1, <3>2
    <3>4. ~(s[j] < s[i])
      <4>1. s[j] < s[i] => Cardinality(Below(S, s[j])) < Cardinality(Below(S, s[i]))
        BY <3>1, Ranks
      <4> QED BY <2>1, <3>2, <4>1
    <3> QED BY <3>1, <3>3, <3>4
  <2> QED BY <1>5, <2>1 DEF Ascending
<1>7. ToSet(s) = S
  <2>1. ASSUME NEW m \in S PROVE \E k \in 1 .. N : s[k] = m
    <3> DEFINE c == Cardinality(Below(S, m))
               k == c + 1
    <3>0. c \in 0 .. N - 1
      BY Ranks
    <3> HIDE DEF c
    <3>1. k \in 1 .. N /\ k - 1 = Cardinality(Below(S, m))
      BY <1>1, <3>0 DEF c
    <3> HIDE DEF k
    <3>2. s[k] \in S /\ Cardinality(Below(S, s[k])) = Cardinality(Below(S, m))
      BY <1>2, <3>1
    <3>3. s[k] = m
      BY <3>2, Ranks
    <3> QED BY <3>1, <3>3
  <2> QED BY <1>4, <2>1 DEF ToSet
<1> QED BY <1>1, <1>2, <1>4, <1>5, <1>6, <1>7 DEF s

\* An ascending sequence is the only one of its elements.
LEMMA AscendingIsSorted ==
  ASSUME NEW s \in Seq(Nat), Ascending(s)
  PROVE  /\ ToSet(s) \subseteq Nat /\ IsFiniteSet(ToSet(s)) /\ Cardinality(ToSet(s)) = Len(s)
         /\ s = Sorted(ToSet(s))
<1> DEFINE S == ToSet(s)
           N == Len(s)
<1>1. N \in Nat /\ s \in [1 .. N -> Nat] /\ DOMAIN s = 1 .. N
  OBVIOUS
<1>2. S \subseteq Nat /\ S = {s[i] : i \in 1 .. N}
  BY <1>1 DEF ToSet
<1>3. \A i, j \in 1 .. N : s[i] = s[j] => i = j
  <2>1. ASSUME NEW i \in 1 .. N, NEW j \in 1 .. N, s[i] = s[j] PROVE i = j
    <3>1. i < j \/ j < i \/ i = j
      BY <1>1
    <3>2. ~(s[i] < s[j]) /\ ~(s[j] < s[i])
      BY <1>1, <2>1
    <3> QED BY <3>1, <3>2 DEF Ascending
  <2> QED BY <2>1
<1> HIDE DEF S
<1>4. \A k \in 0 .. N : /\ IsFiniteSet({s[i] : i \in 1 .. k})
                       /\ Cardinality({s[i] : i \in 1 .. k}) = k
  <2>1. ASSUME NEW k \in 0 .. N
        PROVE  IsFiniteSet({s[i] : i \in 1 .. k}) /\ Cardinality({s[i] : i \in 1 .. k}) = k
    <3> DEFINE V == {s[i] : i \in 1 .. k}
               f == [i \in 1 .. k |-> s[i]]
    <3>1. 1 .. k \subseteq 1 .. N
      BY <1>1
    <3>2. f \in [1 .. k -> V] /\ \A i, j \in 1 .. k : f[i] = f[j] => i = j
      BY <1>3, <3>1
    <3>3. \A v \in V : \E i \in 1 .. k : f[i] = v
      OBVIOUS
    <3> HIDE DEF f, V
    <3>4. f \in Bijection(1 .. k, V)
      BY <3>2, <3>3 DEF Bijection, Injection, Surjection, IsInjective
    <3>5. IsFiniteSet(1 .. k) /\ Cardinality(1 .. k) = k
      BY FS_Interval
    <3>6. ExistsBijection(1 .. k, V)
      BY <3>4 DEF ExistsBijection
    <3> QED BY <3>5, <3>6, FS_Bijection DEF V
  <2> QED BY <2>1
<1>5. IsFiniteSet(S) /\ Cardinality(S) = N
  <2>1. N \in 0 .. N
    BY <1>1
  <2> QED BY <1>2, <1>4, <2>1
<1>6. IsFiniteSet(S) /\ S \subseteq Nat
  BY <1>2, <1>5
<1>7. Sorted(S) \in [1 .. N -> S]
  BY <1>5, <1>6, SortedIsSorted
<1>8. \A k \in 1 .. N : Cardinality(Below(S, Sorted(S)[k])) = k - 1 /\ Sorted(S)[k] \in S
  <2>1. \A k \in 1 .. Cardinality(S) : Cardinality(Below(S, Sorted(S)[k])) = k - 1
    BY <1>6, SortedIsSorted
  <2> QED BY <1>5, <1>7, <2>1
<1>9. \A a, b \in S : Cardinality(Below(S, a)) = Cardinality(Below(S, b)) => a = b
  BY <1>6, Ranks
<1>10. ASSUME NEW k \in 1 .. N PROVE s[k] = Sorted(S)[k]
  <2>1. Below(S, s[k]) = {s[i] : i \in 1 .. k - 1}
    <3>1. ASSUME NEW i \in 1 .. N PROVE s[i] < s[k] <=> i \in 1 .. k - 1
      <4>1. i < k \/ i = k \/ k < i
        OBVIOUS
      <4>2. s[i] \in Nat /\ s[k] \in Nat
        BY <1>1
      <4> QED BY <1>1, <4>1, <4>2 DEF Ascending
    <3>2. 1 .. k - 1 \subseteq 1 .. N
      BY <1>1
    <3> QED BY <1>2, <3>1, <3>2 DEF Below
  <2>2. k - 1 \in 0 .. N
    BY <1>1
  <2>3. Cardinality(Below(S, s[k])) = k - 1
    BY <1>4, <2>1, <2>2
  <2>4. Cardinality(Below(S, Sorted(S)[k])) = k - 1 /\ Sorted(S)[k] \in S
    BY <1>7, <1>8
  <2>5. s[k] \in S
    BY <1>2
  <2> QED BY <1>9, <2>3, <2>4, <2>5
<1>11. s = Sorted(S)
  BY <1>1, <1>10, <1>7
<1> QED BY <1>2, <1>5, <1>11 DEF S

-----------------------------------------------------------------------------
(* Sequences of sequences *)

\* A sequence appended to another.
LEMMA AppendReads ==
  ASSUME NEW s \in Seq(Nat), NEW t \in Seq(Nat)
  PROVE  /\ s \o t \in Seq(Nat) /\ Len(s \o t) = Len(s) + Len(t)
         /\ ToSet(s \o t) = ToSet(s) \cup ToSet(t)
<1> DEFINE M == Len(s)
           N == Len(t)
           u == s \o t
<1>1. M \in Nat /\ N \in Nat /\ u \in Seq(Nat) /\ Len(u) = M + N
  OBVIOUS
<1>2. \A i \in 1 .. M : u[i] = s[i] /\ s[i] \in ToSet(s) /\ s[i] \in Nat
  BY DEF ToSet
<1>3. \A i \in M + 1 .. M + N : u[i] = t[i - M] /\ t[i - M] \in ToSet(t) /\ i - M \in 1 .. N
  BY DEF ToSet
<1>4. \A i \in 1 .. N : u[M + i] = t[i] /\ M + i \in 1 .. M + N
  OBVIOUS
<1>5. ToSet(s) = {s[i] : i \in 1 .. M} /\ ToSet(t) = {t[i] : i \in 1 .. N}
      /\ ToSet(u) = {u[i] : i \in 1 .. M + N}
  <2>1. DOMAIN s = 1 .. M /\ DOMAIN t = 1 .. N
    OBVIOUS
  <2>2. DOMAIN u = 1 .. M + N
    BY <1>1
  <2> HIDE DEF u, M, N
  <2> QED BY <2>1, <2>2 DEF ToSet
<1> HIDE DEF u
<1>8. ToSet(u) \subseteq ToSet(s) \cup ToSet(t)
  <2>1. ASSUME NEW i \in 1 .. M + N PROVE u[i] \in ToSet(s) \cup ToSet(t)
    <3>1. i \in 1 .. M \/ i \in M + 1 .. M + N
      BY <1>1
    <3> QED BY <1>2, <1>3, <3>1
  <2> QED BY <1>5, <2>1
<1>9. ToSet(s) \subseteq ToSet(u)
  <2>1. \A i \in 1 .. M : i \in 1 .. M + N
    BY <1>1
  <2> QED BY <1>2, <1>5, <2>1
<1>10. ToSet(t) \subseteq ToSet(u)
  BY <1>4, <1>5
<1> QED BY <1>1, <1>8, <1>9, <1>10 DEF u

\* Appending what comes later keeps the order.
LEMMA AppendAscending ==
  ASSUME NEW s \in Seq(Nat), NEW t \in Seq(Nat), Ascending(s), Ascending(t),
         \A x \in ToSet(s), y \in ToSet(t) : x < y
  PROVE  Ascending(s \o t)
<1> DEFINE M == Len(s)
           N == Len(t)
           u == s \o t
<1>1. M \in Nat /\ N \in Nat /\ Len(u) = M + N
  OBVIOUS
<1>2. \A i \in 1 .. M : u[i] = s[i] /\ s[i] \in ToSet(s) /\ s[i] \in Nat
  BY DEF ToSet
<1>3. \A i \in M + 1 .. M + N : u[i] = t[i - M] /\ t[i - M] \in ToSet(t) /\ i - M \in 1 .. N
  BY DEF ToSet
<1> HIDE DEF u
<1>6. ASSUME NEW i \in 1 .. M + N, NEW j \in 1 .. M + N, i < j PROVE u[i] < u[j]
  <2>1. CASE j <= M
    <3>1. i \in 1 .. M /\ j \in 1 .. M
      BY <1>1, <1>6, <2>1
    <3> QED BY <1>2, <1>6, <3>1 DEF Ascending
  <2>2. CASE i > M
    <3>1. i \in M + 1 .. M + N /\ j \in M + 1 .. M + N /\ i - M < j - M
      BY <1>1, <1>6, <2>2, SMTT(30)
    <3> QED BY <1>3, <3>1 DEF Ascending
  <2>3. CASE i <= M /\ j > M
    <3>1. i \in 1 .. M /\ j \in M + 1 .. M + N
      BY <1>1, <2>3
    <3> QED BY <1>2, <1>3, <3>1
  <2>4. j <= M \/ i > M \/ (i <= M /\ j > M)
    <3> HIDE DEF M, N
    <3> QED BY <1>1
  <2> QED BY <2>1, <2>2, <2>3, <2>4
<1> QED BY <1>1, <1>6 DEF Ascending, u

\* FlattenSeq appends one sequence after another.
Flattening(g, ss, n) == g = [i \in 1 .. n |-> IF i = 1 THEN ss[i] ELSE g[i - 1] \o ss[i]]

LEMMA FlattenExists ==
  ASSUME NEW L \in Nat \ {0}, NEW ss \in [1 .. L -> Seq(Nat)]
  PROVE  \E g \in [1 .. L -> Seq(Nat)] : Flattening(g, ss, L)
<1> DEFINE P == {n \in 1 .. L : \E g \in [1 .. n -> Seq(Nat)] : Flattening(g, ss, n)}
<1>1. 1 \in P
  <2> DEFINE g == [i \in 1 .. 1 |-> ss[1]]
  <2>1. g \in [1 .. 1 -> Seq(Nat)]
    OBVIOUS
  <2>2. Flattening(g, ss, 1)
    BY DEF Flattening
  <2> QED BY <2>1, <2>2
<1>2. ASSUME NEW n \in 1 .. L - 1, n \in P PROVE n + 1 \in P
  <2>1. PICK g \in [1 .. n -> Seq(Nat)] : Flattening(g, ss, n)
    BY <1>2
  <2> DEFINE h == [i \in 1 .. n + 1 |-> IF i = n + 1 THEN g[n] \o ss[n + 1] ELSE g[i]]
  <2>2. ASSUME NEW i \in 1 .. n + 1
        PROVE  h[i] \in Seq(Nat) /\ h[i] = IF i = 1 THEN ss[i] ELSE h[i - 1] \o ss[i]
    <3>1. CASE i = n + 1
      <4>1. i - 1 = n /\ i - 1 \in 1 .. n + 1 /\ i - 1 # n + 1 /\ i # 1 /\ n \in 1 .. n
        BY <3>1
      <4>2. h[i] = g[n] \o ss[n + 1] /\ h[i - 1] = g[n]
        BY <3>1, <4>1
      <4>3. g[n] \in Seq(Nat) /\ ss[n + 1] \in Seq(Nat)
        BY <4>1
      <4> HIDE DEF h
      <4>4. g[n] \o ss[n + 1] \in Seq(Nat) /\ ss[i] = ss[n + 1]
        BY <3>1, <4>3
      <4> QED BY <4>1, <4>2, <4>4
    <3>2. CASE i # n + 1
      <4>1. i \in 1 .. n
        BY <3>2
      <4>2. h[i] = g[i] /\ g[i] = IF i = 1 THEN ss[i] ELSE g[i - 1] \o ss[i]
        BY <2>1, <3>2, <4>1 DEF Flattening
      <4>3. i # 1 => h[i - 1] = g[i - 1]
        <5>1. i # 1 => i - 1 \in 1 .. n + 1 /\ i - 1 # n + 1
          BY <4>1
        <5> QED BY <5>1
      <4>4. g[i] \in Seq(Nat)
        BY <4>1
      <4> QED BY <4>2, <4>3, <4>4
    <3> QED BY <3>1, <3>2
  <2>3. h = [i \in 1 .. n + 1 |-> h[i]]
    OBVIOUS
  <2> HIDE DEF h
  <2>4. h \in [1 .. n + 1 -> Seq(Nat)]
    BY <2>2, <2>3
  <2>5. Flattening(h, ss, n + 1)
    BY <2>2, <2>3 DEF Flattening
  <2>6. n + 1 \in 1 .. L
    OBVIOUS
  <2> QED BY <2>4, <2>5, <2>6
<1> HIDE DEF P
<1>3. L \in P
  BY <1>1, <1>2, UpTo
<1> QED BY <1>3 DEF P

LEMMA Flattened ==
  ASSUME NEW L \in Nat \ {0}, NEW ss \in [1 .. L -> Seq(Nat)]
  PROVE  \E g : /\ g[1] = ss[1] /\ \A i \in 1 .. L - 1 : g[i + 1] = g[i] \o ss[i + 1]
                /\ \A i \in 1 .. L : g[i] \in Seq(Nat)
                /\ FlattenSeq(ss) = g[L]
<1> DEFINE G == CHOOSE g : g = [i \in 1 .. L |-> IF i = 1 THEN ss[i] ELSE g[i - 1] \o ss[i]]
<1>1. ss \in Seq(Seq(Nat)) /\ Len(ss) = L
  OBVIOUS
<1>2. FlattenSeq(ss) = G[L]
  BY <1>1 DEF FlattenSeq
<1>3. \E g : g = [i \in 1 .. L |-> IF i = 1 THEN ss[i] ELSE g[i - 1] \o ss[i]]
  <2>1. PICK g \in [1 .. L -> Seq(Nat)] : Flattening(g, ss, L)
    BY FlattenExists
  <2>2. g = [i \in 1 .. L |-> IF i = 1 THEN ss[i] ELSE g[i - 1] \o ss[i]]
    BY <2>1 DEF Flattening
  <2> QED BY <2>2
<1>4. G = [i \in 1 .. L |-> IF i = 1 THEN ss[i] ELSE G[i - 1] \o ss[i]]
  BY <1>3
<1> HIDE DEF G
<1>5. G[1] = ss[1]
  <2>1. 1 \in 1 .. L
    OBVIOUS
  <2> QED BY <1>4, <2>1
<1>6. ASSUME NEW i \in 1 .. L - 1 PROVE G[i + 1] = G[i] \o ss[i + 1]
  <2>1. i + 1 \in 1 .. L /\ i + 1 # 1 /\ (i + 1) - 1 = i
    OBVIOUS
  <2> QED BY <1>4, <2>1
<1>7. \A i \in 1 .. L : G[i] \in Seq(Nat)
  <2> DEFINE P == {i \in 1 .. L : G[i] \in Seq(Nat)}
  <2>1. 1 \in P
    BY <1>5
  <2>2. ASSUME NEW i \in 1 .. L - 1, i \in P PROVE i + 1 \in P
    <3>1. i + 1 \in 1 .. L
      OBVIOUS
    <3>2. G[i] \in Seq(Nat) /\ ss[i + 1] \in Seq(Nat)
      BY <2>2, <3>1
    <3>3. G[i] \o ss[i + 1] \in Seq(Nat)
      BY <3>2
    <3> QED BY <1>6, <3>1, <3>3
  <2> HIDE DEF P
  <2>3. \A i \in 1 .. L : i \in P
    BY <2>1, <2>2, UpTo
  <2> QED BY <2>3 DEF P
<1> QED BY <1>2, <1>5, <1>6, <1>7

\* What is in the pieces is in the whole, and nothing else; pieces in ascending
\* order whose minutes follow each other make a whole in order, and pieces that
\* have nothing in common one that repeats nothing.
LEMMA FlattenReads ==
  ASSUME NEW L \in Nat \ {0}, NEW ss \in [1 .. L -> Seq(Nat)],
         \A i \in 1 .. L : Ascending(ss[i])
  PROVE  /\ FlattenSeq(ss) \in Seq(Nat)
         /\ ToSet(FlattenSeq(ss)) = UNION {ToSet(ss[i]) : i \in 1 .. L}
         /\ (\A i, j \in 1 .. L : i < j => \A x \in ToSet(ss[i]), y \in ToSet(ss[j]) : x < y)
              => Ascending(FlattenSeq(ss))
         /\ (\A i, j \in 1 .. L : i < j => ToSet(ss[i]) \cap ToSet(ss[j]) = {})
              => Once(FlattenSeq(ss))
<1> DEFINE Later == \A i, j \in 1 .. L : i < j => \A x \in ToSet(ss[i]), y \in ToSet(ss[j]) : x < y
           Disjoint == \A i, j \in 1 .. L : i < j => ToSet(ss[i]) \cap ToSet(ss[j]) = {}
<1>1. PICK g : /\ g[1] = ss[1] /\ \A i \in 1 .. L - 1 : g[i + 1] = g[i] \o ss[i + 1]
               /\ \A i \in 1 .. L : g[i] \in Seq(Nat)
               /\ FlattenSeq(ss) = g[L]
  BY Flattened
<1>2. \A i \in 1 .. L : Once(ss[i])
  <2>1. \A i \in 1 .. L : ss[i] \in Seq(Nat) /\ Ascending(ss[i])
    OBVIOUS
  <2> QED BY <2>1, AscendingIsSorted DEF Once
<1> DEFINE P == {n \in 1 .. L : /\ ToSet(g[n]) = UNION {ToSet(ss[i]) : i \in 1 .. n}
                                /\ Later => Ascending(g[n])
                                /\ Disjoint => Once(g[n])}
<1>3. 1 \in P
  <2>1. 1 \in 1 .. L /\ 1 .. 1 = {1}
    OBVIOUS
  <2>2. ToSet(g[1]) = UNION {ToSet(ss[i]) : i \in 1 .. 1}
    BY <1>1, <2>1
  <2> QED BY <1>1, <1>2, <2>1, <2>2
<1>4. ASSUME NEW n \in 1 .. L - 1, n \in P PROVE n + 1 \in P
  <2>1. n \in 1 .. L /\ n + 1 \in 1 .. L
    OBVIOUS
  <2>2. ToSet(g[n]) = UNION {ToSet(ss[i]) : i \in 1 .. n}
    BY <1>4
  <2>3. \A i \in 1 .. n : i \in 1 .. L /\ i < n + 1
    OBVIOUS
  <2>4. PICK a \in Seq(Nat) : a = g[n]
    BY <1>1, <2>1
  <2>5. PICK b \in Seq(Nat) : b = ss[n + 1]
    BY <2>1
  <2>6. g[n + 1] = a \o b
    BY <1>1, <2>4, <2>5
  <2>7. Ascending(b) /\ Once(b)
    BY <1>2, <2>1, <2>5
  <2>8. ToSet(a \o b) = ToSet(a) \cup ToSet(b) /\ Len(a \o b) = Len(a) + Len(b)
    BY AppendReads
  <2>9. 1 .. n + 1 = (1 .. n) \cup {n + 1}
    OBVIOUS
  <2>10. ToSet(g[n + 1]) = UNION {ToSet(ss[i]) : i \in 1 .. n + 1}
    BY <2>2, <2>4, <2>5, <2>6, <2>8, <2>9
  <2>11. ASSUME Later PROVE Ascending(g[n + 1])
    <3>1. \A x \in ToSet(a), y \in ToSet(b) : x < y
      BY <2>1, <2>2, <2>3, <2>4, <2>5, <2>11
    <3>2. Ascending(a)
      BY <1>4, <2>4, <2>11
    <3> QED BY <2>6, <2>7, <3>1, <3>2, AppendAscending
  <2>12. ASSUME Disjoint PROVE Once(g[n + 1])
    <3>1. ToSet(a) \cap ToSet(b) = {}
      BY <2>1, <2>2, <2>3, <2>4, <2>5, <2>12
    <3>2. Once(a)
      BY <1>4, <2>4, <2>12
    <3>3. /\ IsFiniteSet(ToSet(a) \cup ToSet(b))
          /\ Cardinality(ToSet(a) \cup ToSet(b)) =
               Cardinality(ToSet(a)) + Cardinality(ToSet(b)) - Cardinality(ToSet(a) \cap ToSet(b))
      BY <2>7, <3>2, FS_Union DEF Once
    <3>4. Cardinality(ToSet(a) \cap ToSet(b)) = 0
      BY <3>1, FS_EmptySet
    <3>5. Cardinality(ToSet(a) \cup ToSet(b)) = Len(a) + Len(b)
      BY <2>7, <3>2, <3>3, <3>4 DEF Once
    <3> QED BY <2>6, <2>8, <3>3, <3>5 DEF Once
  <2> QED BY <2>1, <2>10, <2>11, <2>12
<1> HIDE DEF P
<1>5. L \in P
  BY <1>3, <1>4, UpTo
<1>6. L \in 1 .. L
  OBVIOUS
<1> QED BY <1>1, <1>5, <1>6 DEF P

-----------------------------------------------------------------------------
(* Reading the store *)

LEMMA Quotient ==
  ASSUME NEW n \in Nat \ {0}, NEW a \in Nat
  PROVE  a \div n \in Nat /\ n * (a \div n) <= a /\ a < n * (a \div n) + n
OBVIOUS

LEMMA QuotientGrows ==
  ASSUME NEW n \in Nat \ {0}, NEW a \in Nat, NEW b \in Nat, a <= b
  PROVE  a \div n <= b \div n
<1> DEFINE p == a \div n
           q == b \div n
<1>1. p \in Nat /\ n * p <= a
  BY Quotient
<1>2. q \in Nat /\ b < n * q + n
  BY Quotient
<1> HIDE DEF p, q
<1>3. ASSUME q < p PROVE FALSE
  <2>1. PICK d \in Nat : p = q + 1 + d
    <3>1. p - q - 1 \in Nat /\ p = q + 1 + (p - q - 1)
      BY <1>1, <1>2, <1>3
    <3> QED BY <3>1
  <2>2. n * p = n * q + n + n * d /\ n * d \in Nat
    BY <1>2, <2>1
  <2>3. n * q \in Nat /\ n * p \in Nat
    BY <1>1, <1>2
  <2> QED BY <1>1, <1>2, <2>2, <2>3
<1> QED BY <1>1, <1>2, <1>3 DEF p, q

LEMMA MonthGrows ==
  ASSUME NEW zone \in 0 .. MonthLength, NEW a \in Nat, NEW b \in Nat, a <= b
  PROVE  /\ Month(zone, a) \in Nat /\ Month(zone, a) <= Month(zone, b)
         /\ Month(zone, a) <= Month(UTC, b)
<1> DEFINE n == MonthLength
           x == a + n - zone
           y == b + n - zone
           z == b + n
<1>1. n \in Nat \ {0}
  BY CalendarAssumption
<1>2. x \in Nat /\ y \in Nat /\ z \in Nat /\ x <= y /\ x <= z
  BY <1>1
<1>3. Month(zone, a) = x \div n /\ Month(zone, b) = y \div n
  BY DEF Month
<1>4. Month(UTC, b) = z \div n
  <2>1. b + n - 0 = z
    BY <1>1
  <2> QED BY <2>1 DEF Month, UTC
<1> HIDE DEF n, x, y, z
<1>5. x \div n \in Nat /\ x \div n <= y \div n /\ x \div n <= z \div n
  BY <1>1, <1>2, Quotient, QuotientGrows
<1> QED BY <1>3, <1>4, <1>5

\* Every file has minutes of its own month only, by one of the two zones.
Filed ==
  /\ files \in [Months -> SUBSET Minutes]
  /\ \A k \in Months : \A m \in files[k] :
       k = Month(UTC, m) \/ (k = Month(Canonical, m) /\ "builder" \in writers)

LEMMA UTCIsAZone == UTC \in 0 .. MonthLength /\ Canonical \in 0 .. MonthLength /\ Horizon \in Nat
BY CalendarAssumption DEF UTC

LEMMA MinutesAreFinite ==
  /\ Minutes \subseteq Nat
  /\ \A S : S \subseteq Minutes => S \subseteq Nat /\ IsFiniteSet(S)
<1>1. Minutes \subseteq Nat
  BY UTCIsAZone DEF Minutes
<1>2. IsFiniteSet(Minutes)
  <2>1. Horizon - 1 \in Int /\ 0 \in Int
    BY UTCIsAZone
  <2> QED BY <2>1, FS_Interval DEF Minutes
<1> QED BY <1>1, <1>2, FS_Subset

\* What read_range finds: the minutes of the range in the files that the zone of
\* its start makes it open; in order unless these overlap, and none twice unless
\* two files have it.
LEMMA ReadRangeReads ==
  ASSUME Filed, NEW zone \in 0 .. MonthLength, NEW start \in Nat, NEW end \in 0 .. Horizon
  PROVE  LET r == ReadRange(zone, start, end)
         IN  /\ r \in Seq(Nat)
             /\ \A m : m \in ToSet(r) <=>
                         \E k \in Months : /\ m \in files[k] /\ start <= m /\ m < end
                                           /\ Month(zone, start) <= k
                                           /\ k <= Month(zone, end - 1)
             /\ ~Overlapping(start, end) => Ascending(r)
             /\ ~Twice(start, end) => Once(r)
<1>0. \A k \in Months : \A m \in files[k] : m \in Nat
  BY MinutesAreFinite DEF Filed
<1>1. CASE start >= end
  <2>1. ReadRange(zone, start, end) = << >>
    BY <1>1 DEF ReadRange
  <2>2. << >> \in Seq(Nat) /\ Ascending(<< >>) /\ ToSet(<< >>) = {} /\ Once(<< >>)
    <3>1. ToSet(<< >>) = {} /\ Len(<< >>) = 0
      BY DEF ToSet
    <3>2. IsFiniteSet({}) /\ Cardinality({}) = 0
      BY FS_EmptySet
    <3>3. Once(<< >>)
      BY <3>1, <3>2 DEF Once
    <3> QED BY <3>1, <3>3 DEF Ascending
  <2>3. ASSUME NEW k \in Months, NEW m \in files[k] PROVE ~(start <= m /\ m < end)
    <3>1. m \in Nat
      BY <1>0
    <3> QED BY <1>1, <3>1
  <2> QED BY <2>1, <2>2, <2>3
<1>2. CASE start < end
  <2> DEFINE first == Month(zone, start)
             last == Month(zone, end - 1)
             L == last - first + 1
             A(k) == {m \in files[k] : start <= m /\ m < end}
             ss == [k \in 1 .. L |-> Rows(first + k - 1, start, end)]
  <2>1. /\ first \in Nat /\ last \in Nat /\ first <= last /\ last <= Month(UTC, Horizon)
        /\ Month(UTC, Horizon) \in Nat
    <3>1. end - 1 \in Nat /\ start <= end - 1 /\ end - 1 <= Horizon /\ Horizon \in Nat
      BY <1>2, UTCIsAZone
    <3> QED BY <3>1, MonthGrows, UTCIsAZone
  <2>2. \A k \in first .. last : k \in Months
    BY <2>1 DEF Months
  <2>3. ReadRange(zone, start, end) = FlattenSeq(ss)
    BY <1>2 DEF ReadRange
  <2>4. L \in Nat \ {0}
    BY <2>1
  <2> HIDE DEF first, last
  <2>5. ASSUME NEW k \in 1 .. L
        PROVE  /\ first + k - 1 \in first .. last /\ first + k - 1 \in Months
               /\ ss[k] \in Seq(Nat) /\ Ascending(ss[k]) /\ ToSet(ss[k]) = A(first + k - 1)
    <3>1. first + k - 1 \in first .. last
      BY <2>1
    <3>2. first + k - 1 \in Months
      BY <2>2, <3>1
    <3>3. ss[k] = Sorted(A(first + k - 1))
      BY DEF Rows
    <3>4. A(first + k - 1) \subseteq Minutes
      BY <3>2 DEF Filed
    <3>5. A(first + k - 1) \subseteq Nat /\ IsFiniteSet(A(first + k - 1))
      BY <3>4, MinutesAreFinite
    <3> HIDE DEF A, ss
    <3>6. /\ Sorted(A(first + k - 1)) \in Seq(Nat)
          /\ Ascending(Sorted(A(first + k - 1)))
          /\ ToSet(Sorted(A(first + k - 1))) = A(first + k - 1)
      BY <3>5, SortedIsSorted
    <3> QED BY <3>1, <3>2, <3>3, <3>6
  <2>6. ss = [k \in 1 .. L |-> ss[k]]
    OBVIOUS
  <2>7. ASSUME NEW i \in 1 .. L, NEW j \in 1 .. L, i < j
        PROVE  first + i - 1 \in Months /\ first + j - 1 \in Months /\ first + i - 1 < first + j - 1
    <3>1. first + i - 1 \in Months /\ first + j - 1 \in Months
      BY <2>5
    <3>2. i \in Int /\ j \in Int
      BY <2>4
    <3>3. first + i - 1 < first + j - 1
      BY <2>1, <2>7, <3>2
    <3> QED BY <3>1, <3>3
  <2> HIDE DEF ss, L
  <2>8. ss \in [1 .. L -> Seq(Nat)]
    BY <2>5, <2>6
  <2>9. ASSUME ~Overlapping(start, end), NEW i \in 1 .. L, NEW j \in 1 .. L, i < j,
               NEW x \in ToSet(ss[i]), NEW y \in ToSet(ss[j])
        PROVE  x < y
    <3> DEFINE a == first + i - 1
               b == first + j - 1
    <3>1. x \in A(a) /\ y \in A(b) /\ a \in Months /\ b \in Months /\ a < b
      BY <2>5, <2>7, <2>9
    <3> HIDE DEF a, b
    <3>2. /\ x \in files[a] /\ y \in files[b] /\ start <= y /\ x < end
          /\ x \in Nat /\ y \in Nat
      BY <1>0, <3>1
    <3>3. ~(y <= x)
      BY <2>9, <3>1, <3>2 DEF Overlapping
    <3> QED BY <3>2, <3>3
  <2>10. ASSUME ~Twice(start, end), NEW i \in 1 .. L, NEW j \in 1 .. L, i < j
         PROVE  ToSet(ss[i]) \cap ToSet(ss[j]) = {}
    <3> DEFINE a == first + i - 1
               b == first + j - 1
    <3>1. ToSet(ss[i]) = A(a) /\ ToSet(ss[j]) = A(b) /\ a \in Months /\ b \in Months /\ a < b
          /\ a \in Nat /\ b \in Nat
      BY <2>1, <2>5, <2>7, <2>10
    <3> HIDE DEF a, b
    <3>2. files[a] \cap files[b] \cap start .. end - 1 = {}
      <4>1. a # b
        BY <3>1
      <4> QED BY <2>10, <3>1, <4>1 DEF Twice
    <3>3. \A m \in A(a) : m \in start .. end - 1
      <4>1. \A m \in A(a) : m \in Nat /\ start <= m /\ m < end
        BY <1>0, <3>1
      <4>2. end \in Nat
        BY UTCIsAZone
      <4> QED BY <4>1, <4>2
    <3> QED BY <3>1, <3>2, <3>3
  <2>11. /\ FlattenSeq(ss) \in Seq(Nat)
         /\ ToSet(FlattenSeq(ss)) = UNION {ToSet(ss[k]) : k \in 1 .. L}
         /\ ~Overlapping(start, end) => Ascending(FlattenSeq(ss))
         /\ ~Twice(start, end) => Once(FlattenSeq(ss))
    <3>1. \A k \in 1 .. L : Ascending(ss[k])
      BY <2>5
    <3>2. /\ FlattenSeq(ss) \in Seq(Nat)
          /\ ToSet(FlattenSeq(ss)) = UNION {ToSet(ss[i]) : i \in 1 .. L}
          /\ (\A i, j \in 1 .. L : i < j => \A x \in ToSet(ss[i]), y \in ToSet(ss[j]) : x < y)
               => Ascending(FlattenSeq(ss))
          /\ (\A i, j \in 1 .. L : i < j => ToSet(ss[i]) \cap ToSet(ss[j]) = {})
               => Once(FlattenSeq(ss))
      BY <2>4, <2>8, <3>1, FlattenReads
    <3> QED BY <2>9, <2>10, <3>2
  <2>12. ASSUME NEW m
         PROVE  m \in UNION {ToSet(ss[k]) : k \in 1 .. L} <=>
                  \E k \in Months : /\ m \in files[k] /\ start <= m /\ m < end
                                    /\ first <= k /\ k <= last
    <3>1. ASSUME NEW k \in 1 .. L, m \in ToSet(ss[k])
          PROVE  \E j \in Months : /\ m \in files[j] /\ start <= m /\ m < end
                                    /\ first <= j /\ j <= last
      <4>1. first + k - 1 \in Months /\ m \in A(first + k - 1) /\ first + k - 1 \in first .. last
        BY <2>5, <3>1
      <4> QED BY <4>1
    <3>2. ASSUME NEW k \in Months, m \in files[k], start <= m, m < end, first <= k, k <= last
          PROVE  \E j \in 1 .. L : m \in ToSet(ss[j])
      <4>1. k \in Nat
        BY <2>1 DEF Months
      <4>2. k - first + 1 \in 1 .. L /\ first + (k - first + 1) - 1 = k
        BY <2>1, <3>2, <4>1 DEF L
      <4>3. ToSet(ss[k - first + 1]) = A(k)
        BY <2>5, <4>2
      <4> QED BY <3>2, <4>2, <4>3
    <3> QED BY <3>1, <3>2
  <2> QED BY <2>3, <2>11, <2>12 DEF first, last
<1> QED BY <1>1, <1>2, UTCIsAZone

\* In the minutes of start .. end - 1 the months of a zone go from that of
\* start to that of end - 1.
LEMMA MonthsOfRange ==
  ASSUME NEW zone \in 0 .. MonthLength, NEW start \in Nat, NEW end \in 0 .. Horizon,
         NEW m \in Nat, start <= m, m < end
  PROVE  Month(zone, start) <= Month(zone, m) /\ Month(zone, m) <= Month(zone, end - 1)
<1>1. end - 1 \in Nat /\ m <= end - 1
  BY UTCIsAZone
<1> QED BY <1>1, MonthGrows

\* Where all candles are stamped in UTC, a range in UTC is found whole.
LEMMA ReadRangeFindsAll ==
  ASSUME Filed, "builder" \notin writers, NEW start \in Nat, NEW end \in 0 .. Horizon
  PROVE  ToSet(ReadRange(UTC, start, end)) = {m \in Stored : start <= m /\ m < end}
<1>1. \A m : m \in ToSet(ReadRange(UTC, start, end)) <=>
              \E k \in Months : /\ m \in files[k] /\ start <= m /\ m < end
                                /\ Month(UTC, start) <= k /\ k <= Month(UTC, end - 1)
  BY ReadRangeReads, UTCIsAZone
<1>2. ASSUME NEW m, NEW k \in Months, m \in files[k], start <= m, m < end
      PROVE  Month(UTC, start) <= k /\ k <= Month(UTC, end - 1)
  <2>1. m \in Nat /\ k = Month(UTC, m)
    BY <1>2, MinutesAreFinite DEF Filed
  <2> QED BY <1>2, <2>1, MonthsOfRange, UTCIsAZone
<1>3. \A m : m \in Stored <=> \E k \in Months : m \in files[k]
  BY DEF Stored
<1> QED BY <1>1, <1>2, <1>3

\* A canonical read misses at most minutes whose month depends on the zone.
LEMMA CanonicalFindsItsMonths ==
  ASSUME Filed, NEW start \in Nat, NEW end \in 0 .. Horizon
  PROVE  FindsItsMonths(start, end)
<1> SUFFICES ASSUME NEW m \in Stored, start <= m, m < end, Month(UTC, m) = Month(Canonical, m)
             PROVE  m \in ToSet(ReadRange(Canonical, start, end))
  BY DEF FindsItsMonths
<1>1. PICK k \in Months : m \in files[k]
  BY DEF Stored
<1>2. m \in Nat /\ k = Month(Canonical, m)
  BY <1>1, MinutesAreFinite DEF Filed
<1>3. Month(Canonical, start) <= k /\ k <= Month(Canonical, end - 1)
  BY <1>2, MonthsOfRange, UTCIsAZone
<1> QED BY <1>1, <1>3, ReadRangeReads, UTCIsAZone

-----------------------------------------------------------------------------
(* Gaps *)

Gap == [start : Nat, end : Nat]

\* A gap of the candles S in start .. end - 1: nothing in it, and nothing left
\* of it at either side.
IsGap(g, S, start, end) ==
  /\ g \in Gap /\ start <= g.start /\ g.start < g.end /\ g.end <= end
  /\ Span(g) \cap S = {}
  /\ g.start = start \/ g.start - 1 \in S
  /\ g.end = end \/ g.end \in S

LEMMA GapsAreApart ==
  ASSUME NEW S, NEW start \in Nat, NEW end \in Nat, NEW g, NEW h,
         IsGap(g, S, start, end), IsGap(h, S, start, end)
  PROVE  g = h \/ Span(g) \cap Span(h) = {}
<1>1. SUFFICES ASSUME NEW m \in Span(g), m \in Span(h) PROVE g = h
  OBVIOUS
<1>2. /\ g.start \in Nat /\ g.end \in Nat /\ h.start \in Nat /\ h.end \in Nat
      /\ start <= g.start /\ start <= h.start /\ g.end <= end /\ h.end <= end
      /\ m \in Nat /\ g.start <= m /\ m < g.end /\ h.start <= m /\ m < h.end
  BY <1>1 DEF IsGap, Gap, Span
<1>3. \A x \in Nat : (g.start <= x /\ x < g.end) \/ (h.start <= x /\ x < h.end) => x \notin S
  BY <1>2 DEF IsGap, Span
<1>4. /\ g.start = start \/ g.start - 1 \in S
      /\ h.start = start \/ h.start - 1 \in S
      /\ g.end = end \/ g.end \in S
      /\ h.end = end \/ h.end \in S
  BY DEF IsGap
<1>5. g.start = h.start
  <2>1. ASSUME g.start < h.start PROVE FALSE
    <3>1. h.start - 1 \in Nat /\ h.start - 1 \in S /\ g.start <= h.start - 1 /\ h.start - 1 < g.end
      BY <1>2, <1>4, <2>1
    <3> QED BY <1>3, <3>1
  <2>2. ASSUME h.start < g.start PROVE FALSE
    <3>1. g.start - 1 \in Nat /\ g.start - 1 \in S /\ h.start <= g.start - 1 /\ g.start - 1 < h.end
      BY <1>2, <1>4, <2>2
    <3> QED BY <1>3, <3>1
  <2> QED BY <1>2, <2>1, <2>2
<1>6. g.end = h.end
  <2>1. ASSUME g.end < h.end PROVE FALSE
    <3>1. g.end \in S /\ h.start <= g.end
      BY <1>2, <1>4, <2>1
    <3> QED BY <1>2, <1>3, <2>1, <3>1
  <2>2. ASSUME h.end < g.end PROVE FALSE
    <3>1. h.end \in S /\ g.start <= h.end
      BY <1>2, <1>4, <2>2
    <3> QED BY <1>2, <1>3, <2>2, <3>1
  <2> QED BY <1>2, <2>1, <2>2
<1>7. g \in Gap /\ h \in Gap
  BY DEF IsGap
<1> QED BY <1>5, <1>6, <1>7 DEF Gap

\* find_gaps finds ranges that are not empty, and every minute that has no candle
\* is in one of them, whatever the order of the candles.
LEMMA FindGapsCovers ==
  ASSUME NEW c \in Seq(Nat), NEW start \in Nat, NEW end \in Nat, start < end,
         \A m \in ToSet(c) : start <= m /\ m < end
  PROVE  /\ \A g \in FindGaps(c, start, end) :
              g \in Gap /\ start <= g.start /\ g.start < g.end /\ g.end <= end
         /\ \A m \in start .. end - 1 :
              m \in ToSet(c) \/ \E g \in FindGaps(c, start, end) : m \in Span(g)
<1> DEFINE N == Len(c)
           S == ToSet(c)
           F == FindGaps(c, start, end)
           whole == [start |-> start, end |-> end]
           Inside(g) == g \in Gap /\ start <= g.start /\ g.start < g.end /\ g.end <= end
<1>1. CASE c = << >>
  <2>1. F = {whole}
    BY <1>1 DEF FindGaps
  <2>2. Inside(whole)
    BY DEF Gap
  <2>3. \A m \in start .. end - 1 : m \in Span(whole)
    BY DEF Span
  <2> QED BY <2>1, <2>2, <2>3
<1>2. CASE c # << >>
  <2>1. N \in Nat \ {0}
    BY <1>2
  <2>2. \A i \in 1 .. N : c[i] \in S /\ c[i] \in Nat /\ start <= c[i] /\ c[i] < end
    <3>1. \A i \in 1 .. N : c[i] \in S /\ c[i] \in Nat
      BY DEF ToSet
    <3> QED BY <3>1
  <2> DEFINE before == [start |-> start, end |-> c[1]]
             after == [start |-> c[N] + 1, end |-> end]
             gap(k) == [start |-> c[k] + 1, end |-> c[k + 1]]
  <2>5. \A g : g \in F <=> \/ \E k \in 1 .. N - 1 : c[k + 1] > c[k] + 1 /\ g = gap(k)
                           \/ c[1] > start /\ g = before
                           \/ c[N] + 1 < end /\ g = after
    BY <1>2 DEF FindGaps, Between
  <2> HIDE DEF N, S, F
  <2>6. ASSUME NEW k \in 1 .. N - 1, c[k + 1] > c[k] + 1
        PROVE  Inside(gap(k))
    <3>1. k \in 1 .. N /\ k + 1 \in 1 .. N
      BY <2>1
    <3> DEFINE x == c[k]
               y == c[k + 1]
    <3>2. x \in Nat /\ y \in Nat /\ start <= x /\ y < end
      BY <2>2, <3>1
    <3>3. x + 1 < y
      BY <2>6, <3>2
    <3>4. gap(k) = [start |-> x + 1, end |-> y]
      OBVIOUS
    <3> HIDE DEF gap, x, y
    <3> QED BY <3>2, <3>3, <3>4 DEF Gap
  <2>7. ASSUME c[1] > start PROVE Inside(before)
    <3>1. 1 \in 1 .. N
      BY <2>1
    <3>2. c[1] \in Nat /\ c[1] < end
      BY <2>2, <3>1
    <3> QED BY <2>7, <3>2 DEF Gap
  <2>8. ASSUME c[N] + 1 < end PROVE Inside(after)
    <3>1. N \in 1 .. N
      BY <2>1
    <3>2. c[N] \in Nat /\ start <= c[N]
      BY <2>2, <3>1
    <3> QED BY <2>8, <3>2 DEF Gap
  <2>9. ASSUME NEW m \in start .. end - 1, m \notin S PROVE \E g \in F : m \in Span(g)
    <3> DEFINE T == {i \in 1 .. N : m < c[i]}
    <3>1. \A i \in 1 .. N : c[i] # m /\ c[i] \in Nat /\ m \in Nat
      BY <2>2, <2>9
    <3>2. CASE T = {}
      <4>1. N \in 1 .. N /\ c[N] < m
        BY <2>1, <3>1, <3>2
      <4>2. c[N] + 1 < end /\ m \in Span(after)
        BY <3>1, <4>1 DEF Span
      <4> QED BY <2>5, <4>2
    <3>3. CASE T # {}
      <4>1. T \subseteq Nat
        BY <2>1
      <4>2. PICK i \in T : \A j \in T : i <= j
        BY <3>3, <4>1, LeastNat
      <4>3. i \in 1 .. N /\ m < c[i]
        OBVIOUS
      <4>4. CASE i = 1
        <5>1. c[1] > start /\ m \in Span(before)
          BY <3>1, <4>3, <4>4 DEF Span
        <5> QED BY <2>5, <5>1
      <4>5. CASE i # 1
        <5>1. i - 1 \in 1 .. N - 1 /\ i - 1 \in 1 .. N /\ (i - 1) + 1 = i /\ ~(i <= i - 1)
          BY <2>1, <4>3, <4>5
        <5>2. ~(m < c[i - 1])
          BY <4>2, <5>1
        <5>3. c[i - 1] < m
          BY <3>1, <5>1, <5>2, SMTT(30)
        <5>4. c[i] > c[i - 1] + 1 /\ c[i - 1] \in Nat /\ c[i] \in Nat
          BY <3>1, <4>3, <5>1, <5>3, SMTT(30)
        <5>5. gap(i - 1) = [start |-> c[i - 1] + 1, end |-> c[i]]
          BY <5>1
        <5>6. gap(i - 1) \in F
          BY <2>5, <5>1, <5>4
        <5>7. m \in Span(gap(i - 1))
          BY <3>1, <4>3, <5>3, <5>4, <5>5, SMTT(30) DEF Span
        <5> QED BY <5>6, <5>7
      <4> QED BY <4>4, <4>5
    <3> QED BY <3>2, <3>3
  <2>10. \A g \in F : Inside(g)
    BY <2>5, <2>6, <2>7, <2>8
  <2> QED BY <2>9, <2>10 DEF S, F
<1> QED BY <1>1, <1>2

\* Of candles in order it finds gaps only, and every minute that has no candle is
\* in one.
LEMMA FindGapsFinds ==
  ASSUME NEW c \in Seq(Nat), Ascending(c), NEW start \in Nat, NEW end \in Nat, start < end,
         \A m \in ToSet(c) : start <= m /\ m < end
  PROVE  /\ \A g \in FindGaps(c, start, end) : IsGap(g, ToSet(c), start, end)
         /\ \A m \in start .. end - 1 :
              m \in ToSet(c) \/ \E g \in FindGaps(c, start, end) : m \in Span(g)
<1> DEFINE N == Len(c)
           S == ToSet(c)
           F == FindGaps(c, start, end)
           whole == [start |-> start, end |-> end]
<1>1. ASSUME c = << >> PROVE \A g \in F : IsGap(g, S, start, end)
  <2>1. F = {whole} /\ S = {}
    BY <1>1 DEF FindGaps, ToSet
  <2>2. IsGap(whole, S, start, end)
    BY <2>1 DEF IsGap, Gap, Span
  <2> QED BY <2>1, <2>2
<1>2. ASSUME c # << >> PROVE \A g \in F : IsGap(g, S, start, end)
  <2>1. N \in Nat \ {0}
    BY <1>2
  <2>2. \A i \in 1 .. N : c[i] \in S /\ c[i] \in Nat /\ start <= c[i] /\ c[i] < end
    <3>1. \A i \in 1 .. N : c[i] \in S /\ c[i] \in Nat
      BY DEF ToSet
    <3> QED BY <3>1
  <2>3. \A m \in S : \E i \in 1 .. N : c[i] = m
    BY DEF ToSet
  <2>4. \A i, j \in 1 .. N : i < j => c[i] < c[j]
    BY DEF Ascending
  <2> DEFINE before == [start |-> start, end |-> c[1]]
             after == [start |-> c[N] + 1, end |-> end]
             gap(k) == [start |-> c[k] + 1, end |-> c[k + 1]]
  <2>5. \A g : g \in F <=> \/ \E k \in 1 .. N - 1 : c[k + 1] > c[k] + 1 /\ g = gap(k)
                           \/ c[1] > start /\ g = before
                           \/ c[N] + 1 < end /\ g = after
    BY <1>2 DEF FindGaps, Between
  <2> HIDE DEF N, S, F, before, after
  <2>6. ASSUME NEW k \in 1 .. N - 1, c[k + 1] > c[k] + 1
        PROVE  IsGap(gap(k), S, start, end)
    <3>1. k \in 1 .. N /\ k + 1 \in 1 .. N
      BY <2>1
    <3> DEFINE x == c[k]
               y == c[k + 1]
    <3>2. x \in Nat /\ y \in Nat /\ start <= x /\ y < end /\ x \in S /\ y \in S
      BY <2>2, <3>1
    <3>3. x + 1 < y
      BY <2>6, <3>2
    <3>4. gap(k) = [start |-> x + 1, end |-> y]
      OBVIOUS
    <3>5. \A i \in 1 .. N : c[i] \in Nat /\ (i < k => c[i] < x) /\ (k + 1 < i => y < c[i])
      BY <2>2, <2>4, <3>1
    <3>6. c[k] = x /\ c[k + 1] = y
      OBVIOUS
    <3> HIDE DEF gap, x, y
    <3>7. ASSUME NEW m \in S, x + 1 <= m, m <= y - 1 PROVE FALSE
      <4>1. PICK i \in 1 .. N : c[i] = m
        BY <2>3
      <4>2. m \in Nat /\ (i < k => m < x) /\ (k + 1 < i => y < m)
        BY <3>5, <4>1
      <4>3. x < m /\ m < y
        BY <3>2, <3>7, <4>2
      <4>4. i # k /\ i # k + 1
        BY <3>2, <3>6, <4>1, <4>3
      <4>5. i < k \/ k + 1 < i
        BY <2>1, <4>4
      <4> QED BY <3>2, <4>2, <4>3, <4>5
    <3>8. gap(k) \in Gap /\ Span(gap(k)) = x + 1 .. y - 1 /\ gap(k).start - 1 = x /\ gap(k).end = y
      BY <3>2, <3>4 DEF Gap, Span
    <3>9. Span(gap(k)) \cap S = {}
      BY <3>2, <3>7, <3>8
    <3>10. start <= gap(k).start /\ gap(k).start < gap(k).end /\ gap(k).end <= end
      BY <3>2, <3>3, <3>4
    <3> QED BY <3>2, <3>8, <3>9, <3>10 DEF IsGap
  <2> USE DEF before, after
  <2>7. ASSUME c[1] > start PROVE IsGap(before, S, start, end)
    <3>1. 1 \in 1 .. N
      BY <2>1
    <3>2. c[1] \in Nat /\ c[1] < end /\ c[1] \in S
      BY <2>2, <3>1
    <3>3. ASSUME NEW m \in S, m <= c[1] - 1 PROVE FALSE
      <4>1. PICK i \in 1 .. N : c[i] = m
        BY <2>3
      <4>2. i = 1 \/ c[1] < c[i]
        BY <2>1, <2>4
      <4>3. c[i] \in Nat
        BY <2>2
      <4> QED BY <3>2, <3>3, <4>1, <4>2, <4>3
    <3> QED BY <2>7, <3>2, <3>3 DEF IsGap, Gap, Span
  <2>8. ASSUME c[N] + 1 < end PROVE IsGap(after, S, start, end)
    <3>1. N \in 1 .. N
      BY <2>1
    <3>2. c[N] \in Nat /\ start <= c[N] /\ c[N] \in S
      BY <2>2, <3>1
    <3>3. ASSUME NEW m \in S, c[N] + 1 <= m PROVE FALSE
      <4>1. PICK i \in 1 .. N : c[i] = m
        BY <2>3
      <4>2. i = N \/ c[i] < c[N]
        BY <2>1, <2>4
      <4>3. c[i] \in Nat
        BY <2>2
      <4> QED BY <3>2, <3>3, <4>1, <4>2, <4>3
    <3>4. c[N] + 1 - 1 = c[N]
      BY <3>2
    <3>5. Span(after) \cap S = {}
      BY <3>3, <3>2 DEF Span
    <3>6. after \in Gap /\ after.start = c[N] + 1 /\ after.end = end
      BY <3>2 DEF Gap
    <3> HIDE DEF after
    <3> QED BY <2>8, <3>2, <3>4, <3>5, <3>6 DEF IsGap
  <2>9. \A g \in F : IsGap(g, S, start, end)
    BY <2>5, <2>6, <2>7, <2>8
  <2> QED BY <2>9 DEF S, F
<1>3. \A m \in start .. end - 1 : m \in S \/ \E g \in F : m \in Span(g)
  BY FindGapsCovers
<1> QED BY <1>1, <1>2, <1>3

-----------------------------------------------------------------------------
(* Counting *)

LEMMA MaxOfTwo ==
  ASSUME NEW a \in Int, NEW b \in Int
  PROVE  Max({a, b}) = IF a <= b THEN b ELSE a
<1> DEFINE c == IF a <= b THEN b ELSE a
<1>1. c \in {a, b} /\ \A y \in {a, b} : c >= y
  OBVIOUS
<1>2. \A x \in {a, b} : (\A y \in {a, b} : x >= y) => x = c
  OBVIOUS
<1> HIDE DEF c
<1>3. Max({a, b}) = c
  BY <1>1, <1>2 DEF Max
<1> QED BY <1>3 DEF c

LEMMA MinOfTwo ==
  ASSUME NEW a \in Int, NEW b \in Int
  PROVE  Min({a, b}) = IF a <= b THEN a ELSE b
<1> DEFINE c == IF a <= b THEN a ELSE b
<1>1. c \in {a, b} /\ \A y \in {a, b} : c <= y
  OBVIOUS
<1>2. \A x \in {a, b} : (\A y \in {a, b} : x <= y) => x = c
  OBVIOUS
<1> HIDE DEF c
<1>3. Min({a, b}) = c
  BY <1>1, <1>2 DEF Min
<1> QED BY <1>3 DEF c

\* A range that lacks candles is not empty, whatever the candles.
LEMMA MissingIsPositive ==
  ASSUME NEW c \in Seq(Nat), NEW start \in Nat, NEW end \in Nat, MissingCount(c, start, end) # 0
  PROVE  start < end
<1>1. Len(c) \in Nat /\ end - start - Len(c) \in Int
  OBVIOUS
<1>2. MissingCount(c, start, end) = IF 0 <= end - start - Len(c) THEN end - start - Len(c) ELSE 0
  BY <1>1, MaxOfTwo DEF MissingCount
<1> QED BY <1>1, <1>2

\* The candles of a range are missing none exactly if they are all of it, where
\* none is counted twice.
LEMMA MissingCounts ==
  ASSUME NEW c \in Seq(Nat), Once(c), NEW start \in Nat, NEW end \in Nat,
         \A m \in ToSet(c) : start <= m /\ m < end
  PROVE  /\ MissingCount(c, start, end) = 0 <=> ToSet(c) = start .. end - 1
         /\ MissingCount(c, start, end) = Cardinality(start .. end - 1 \ ToSet(c))
         /\ MissingCount(c, start, end) # 0 => start < end
<1> DEFINE S == ToSet(c)
           R == start .. end - 1
           N == IF start < end THEN end - start ELSE 0
<1>1. /\ IsFiniteSet(S) /\ Cardinality(S) = Len(c) /\ Len(c) \in Nat /\ S \subseteq Nat
  BY DEF Once, ToSet
<1>2. IsFiniteSet(R) /\ Cardinality(R) = N
  <2>1. start \in Int /\ end - 1 \in Int
    OBVIOUS
  <2> QED BY <2>1, FS_Interval
<1>3. S \subseteq R
  <2>1. \A m \in S : m \in Nat
    BY <1>1
  <2> QED BY <2>1
<1>4. N \in Nat
  OBVIOUS
<1>5. MissingCount(c, start, end) = IF 0 <= end - start - Len(c) THEN end - start - Len(c) ELSE 0
  <2>1. end - start - Len(c) \in Int /\ 0 \in Int
    BY <1>1
  <2> QED BY <2>1, MaxOfTwo DEF MissingCount
<1> DEFINE M == MissingCount(c, start, end)
<1>6. N = IF start < end THEN end - start ELSE 0
  OBVIOUS
<1> HIDE DEF S, R, N, M
<1>7. Len(c) <= N /\ (Len(c) = N => S = R)
  BY <1>1, <1>2, <1>3, FS_Subset, ZenonT(30)
<1>8. M = N - Len(c) /\ M \in Nat
  BY <1>1, <1>5, <1>6, <1>7 DEF M
<1>9. M = 0 <=> S = R
  <2>1. S = R => Len(c) = N
    BY <1>1, <1>2
  <2> QED BY <1>1, <1>4, <1>7, <1>8, <2>1
<1>10. Cardinality(R \ S) = M
  <2>1. IsFiniteSet(R \ S) /\ Cardinality(R \ S) \in Nat
    BY <1>2, FS_Subset, FS_CardinalityType
  <2>2. Cardinality((R \ S) \cup S) = Cardinality(R \ S) + Cardinality(S) - Cardinality((R \ S) \cap S)
    BY <1>1, <2>1, FS_Union
  <2>3. (R \ S) \cup S = R /\ (R \ S) \cap S = {}
    BY <1>3
  <2>4. Cardinality({}) = 0
    BY FS_EmptySet
  <2>5. Cardinality(R) = Cardinality(R \ S) + Cardinality(S) - 0
    BY <2>2, <2>3, <2>4
  <2> QED BY <1>1, <1>2, <1>4, <1>8, <2>1, <2>5
<1>11. M # 0 => start < end
  BY <1>1, <1>6, <1>8
<1> QED BY <1>8, <1>9, <1>10, <1>11 DEF S, R, M

-----------------------------------------------------------------------------
(* Backfill *)

\* A round asks for minutes of its own range.
GoodRound ==
  /\ round \in [start : 0 .. Horizon, end : 0 .. Horizon, gaps : SUBSET Gap, whole : BOOLEAN]
  /\ round.end <= now
  /\ \A g \in round.gaps : round.start <= g.start /\ g.start < g.end /\ g.end <= round.end

Roles ==
  /\ now \in 0 .. Horizon /\ writers \in SUBSET {"builder", "ingest"}
  /\ service \in {"off", "first", "loop", "deaf"}
  /\ service # "off" => "builder" \in writers
  /\ round # NoRound => service \in {"first", "loop"}

BackfillInv == Filed /\ Roles /\ (round # NoRound => GoodRound) /\ RoundFills

LEMMA MonthsOfMinutes ==
  /\ \A m \in Minutes : Month(UTC, m) \in Months /\ Month(Canonical, m) \in Months
  /\ \A t \in 0 .. Horizon : 0 .. Month(Canonical, t) \subseteq Months
  /\ \A t \in 0 .. Horizon : Month(Canonical, t) \in Nat
<1>1. Month(UTC, Horizon) \in Nat
  BY UTCIsAZone, MonthGrows
<1>2. ASSUME NEW zone \in 0 .. MonthLength, NEW t \in 0 .. Horizon
      PROVE  Month(zone, t) \in Nat /\ 0 .. Month(zone, t) \subseteq Months /\ Month(zone, t) \in Months
  <2>1. t \in Nat /\ Horizon \in Nat /\ t <= Horizon
    BY UTCIsAZone
  <2>2. Month(zone, t) \in Nat /\ Month(zone, t) <= Month(UTC, Horizon)
    BY <2>1, MonthGrows
  <2> QED BY <1>1, <2>2 DEF Months
<1>3. Minutes \subseteq 0 .. Horizon
  BY UTCIsAZone DEF Minutes
<1> QED BY <1>2, <1>3, UTCIsAZone

\* The store only grows, and each minute goes to the file of its month.
LEMMA PatchKeepsFiles ==
  ASSUME Filed, NEW new \in SUBSET Minutes, Patch(UTC, new), writers' = writers
  PROVE  Filed' /\ Stored' = Stored \cup new /\ \A k \in Months : files[k] \subseteq files'[k]
<1>1. files' = [k \in Months |-> files[k] \cup {m \in new : Month(UTC, m) = k}]
  BY DEF Patch
<1>2. \A k \in Months : files'[k] = files[k] \cup {m \in new : Month(UTC, m) = k}
  BY <1>1
<1>3. files' \in [Months -> SUBSET Minutes]
  BY <1>1 DEF Filed
<1>4. \A k \in Months : \A m \in files'[k] :
        k = Month(UTC, m) \/ (k = Month(Canonical, m) /\ "builder" \in writers')
  BY <1>2 DEF Filed
<1>5. \A m \in new : Month(UTC, m) \in Months
  BY MonthsOfMinutes
<1>6. ASSUME NEW m
      PROVE  (\E k \in Months : m \in files'[k]) <=> (\E k \in Months : m \in files[k]) \/ m \in new
  BY <1>2, <1>5
<1>7. Stored' = Stored \cup new
  BY <1>6 DEF Stored
<1>8. Filed'
  BY <1>3, <1>4 DEF Filed
<1> QED BY <1>2, <1>7, <1>8

LEMMA AppendKeepsFiles ==
  ASSUME Filed, NEW writer \in writers, writers \subseteq {"builder", "ingest"},
         NEW m \in Minutes, AppendCandle(Zone(writer), m), writers' = writers
  PROVE  Filed' /\ \A k \in Months : files[k] \subseteq files'[k]
<1> DEFINE z == Month(Zone(writer), m)
<1>1. z = Month(UTC, m) \/ (z = Month(Canonical, m) /\ "builder" \in writers)
  BY DEF Zone
<1>2. files' = [files EXCEPT ![z] = @ \cup {m}]
  BY DEF AppendCandle
<1> HIDE DEF z
<1>3. files \in [Months -> SUBSET Minutes]
  BY DEF Filed
<1>4. files' \in [Months -> SUBSET Minutes]
  BY <1>2, <1>3
<1>5. \A k \in Months : files'[k] = IF k = z THEN files[k] \cup {m} ELSE files[k]
  BY <1>2, <1>3
<1>6. \A k \in Months : \A n \in files'[k] :
        k = Month(UTC, n) \/ (k = Month(Canonical, n) /\ "builder" \in writers')
  BY <1>1, <1>5 DEF Filed
<1> QED BY <1>4, <1>5, <1>6 DEF Filed

LEMMA LastIsAMinute ==
  ASSUME Filed, NEW t \in 0 .. Horizon
  PROVE  LastTimestamp(t) = -1 \/ LastTimestamp(t) \in Minutes
<1> DEFINE filled == {k \in 0 .. Month(Canonical, t) : files[k] # {}}
<1>1. CASE filled = {}
  BY <1>1 DEF LastTimestamp
<1>2. CASE filled # {}
  <2>1. filled \subseteq Nat /\ filled \subseteq Months
    BY MonthsOfMinutes
  <2>2. IsFiniteSet(0 .. Month(Canonical, t))
    BY MonthsOfMinutes, FS_Interval
  <2>3. IsFiniteSet(filled)
    BY <2>2, FS_Subset
  <2>4. Max(filled) \in filled
    BY <1>2, <2>1, <2>3, GreatestNat
  <2>5. files[Max(filled)] # {} /\ files[Max(filled)] \subseteq Minutes
    BY <2>1, <2>4 DEF Filed
  <2>6. files[Max(filled)] \subseteq Nat /\ IsFiniteSet(files[Max(filled)])
    BY <2>5, MinutesAreFinite
  <2>7. Max(files[Max(filled)]) \in files[Max(filled)]
    BY <2>5, <2>6, GreatestNat
  <2>8. LastTimestamp(t) = Max(files[Max(filled)])
    BY <1>2 DEF LastTimestamp
  <2> QED BY <2>5, <2>7, <2>8
<1> QED BY <1>1, <1>2

\* The gaps of a round are what its range is missing, if nothing is counted twice.
LEMMA GapsOfRound ==
  ASSUME Filed, NEW start \in 0 .. Horizon, now \in 0 .. Horizon
  PROVE  /\ Gaps(start) \subseteq Gap
         /\ \A g \in Gaps(start) : start <= g.start /\ g.start < g.end /\ g.end <= now
         /\ ~Twice(start, now) =>
              start .. now - 1 \subseteq Stored \cup UNION {Span(g) : g \in Gaps(start)}
<1>0. start \in Nat /\ now \in Nat
  BY UTCIsAZone
<1>1. PICK c \in Seq(Nat) : c = ReadRange(UTC, start, now)
  BY <1>0, ReadRangeReads, UTCIsAZone
<1>2. /\ \A m \in ToSet(c) : start <= m /\ m < now /\ m \in Stored
      /\ ~Twice(start, now) => Once(c)
  <2>1. \A m : m \in ToSet(c) <=>
               \E k \in Months : /\ m \in files[k] /\ start <= m /\ m < now
                                 /\ Month(UTC, start) <= k /\ k <= Month(UTC, now - 1)
    BY <1>0, <1>1, ReadRangeReads, UTCIsAZone
  <2>2. ~Twice(start, now) => Once(c)
    BY <1>0, <1>1, ReadRangeReads, UTCIsAZone
  <2> QED BY <2>1, <2>2 DEF Stored
<1>4. CASE MissingCount(c, start, now) = 0
  <2>1. Gaps(start) = {}
    BY <1>1, <1>4 DEF Gaps
  <2>2. ASSUME ~Twice(start, now) PROVE ToSet(c) = start .. now - 1
    <3>1. Once(c)
      BY <1>2, <2>2
    <3> QED BY <1>0, <1>2, <1>4, <3>1, MissingCounts, ZenonT(30)
  <2> QED BY <1>2, <2>1, <2>2
<1>5. CASE MissingCount(c, start, now) # 0
  <2>1. Gaps(start) = FindGaps(c, start, now)
    BY <1>1, <1>5 DEF Gaps
  <2>2. start < now
    BY <1>0, <1>5, MissingIsPositive
  <2>3. /\ \A g \in FindGaps(c, start, now) :
             g \in Gap /\ start <= g.start /\ g.start < g.end /\ g.end <= now
        /\ \A m \in start .. now - 1 :
             m \in ToSet(c) \/ \E g \in FindGaps(c, start, now) : m \in Span(g)
    BY <1>0, <1>2, <2>2, FindGapsCovers
  <2> QED BY <1>2, <2>1, <2>3
<1> QED BY <1>4, <1>5

\* A round is none the worse for a store that grows and for the clock.
LEMMA RoundLasts ==
  ASSUME BackfillInv, Filed', Roles', round' = round, now <= now',
         \A k \in Months : files[k] \subseteq files'[k]
  PROVE  BackfillInv'
<1>1. ASSUME round # NoRound PROVE GoodRound'
  <2>1. GoodRound
    BY <1>1 DEF BackfillInv
  <2>2. now \in Nat /\ now' \in Nat /\ round.end \in Nat /\ round.end <= now
    BY <2>1, UTCIsAZone DEF BackfillInv, Roles, GoodRound
  <2>3. round.end <= now'
    BY <2>2
  <2> QED BY <2>1, <2>3 DEF GoodRound
<1>2. RoundFills'
  <2>1. ASSUME round # NoRound, round.whole, ~Twice(round.start, round.end)'
        PROVE  round.start .. round.end - 1 \subseteq Stored' \cup UNION {Span(g) : g \in round.gaps}
    <3>1. ~Twice(round.start, round.end)
      BY <2>1 DEF Twice
    <3>2. Stored \subseteq Stored'
      BY DEF Stored
    <3> QED BY <2>1, <3>1, <3>2 DEF BackfillInv, RoundFills
  <2> QED BY <2>1 DEF RoundFills
<1> QED BY <1>1, <1>2 DEF BackfillInv

LEMMA BackfillStep ==
  ASSUME BackfillInv, [Next]_vars
  PROVE  BackfillInv'
<1> USE UTCIsAZone
<1>1. /\ Filed /\ Roles /\ (round # NoRound => GoodRound) /\ RoundFills
      /\ now \in 0 .. Horizon /\ writers \in SUBSET {"builder", "ingest"}
      /\ service \in {"off", "first", "loop", "deaf"}
  BY DEF BackfillInv, Roles
<1>2. ASSUME UNCHANGED <<files, writers>>
      PROVE  Filed' /\ Stored' = Stored /\ \A k \in Months : files[k] \subseteq files'[k]
  BY <1>1, <1>2 DEF Filed, Stored
<1>3. CASE Tick
  <2>1. now' = now + 1 /\ now < Horizon /\ UNCHANGED <<files, writers, service, round>>
    BY <1>3 DEF Tick
  <2>2. Roles' /\ now <= now'
    BY <1>1, <2>1 DEF Roles
  <2> QED BY <1>2, <2>1, <2>2, RoundLasts
<1>4. ASSUME NEW writer \in {"builder", "ingest"}, NEW m \in Minutes, LiveAppend(writer, m)
      PROVE  BackfillInv'
  <2>1. /\ writer \in writers /\ AppendCandle(Zone(writer), m)
        /\ UNCHANGED <<now, writers, service, round>>
    BY <1>4 DEF LiveAppend
  <2>2. Filed' /\ \A k \in Months : files[k] \subseteq files'[k]
    BY <1>1, <2>1, AppendKeepsFiles
  <2>3. Roles' /\ now <= now'
    BY <1>1, <2>1 DEF Roles
  <2> QED BY <2>1, <2>2, <2>3, RoundLasts
<1>5. CASE Start \/ Started
  <2>1. /\ UNCHANGED <<files, now, writers, round>>
        /\ service' \in {"off", "first", "loop", "deaf"}
        /\ service' # "off" => "builder" \in writers
        /\ round # NoRound => service' \in {"first", "loop"}
    BY <1>1, <1>5 DEF Start, Started, Roles
  <2>2. Roles' /\ now <= now'
    BY <1>1, <2>1 DEF Roles
  <2> QED BY <1>2, <2>1, <2>2, RoundLasts
<1>6. CASE Stop \/ End
  <2>1. /\ UNCHANGED <<files, now, writers>> /\ round' = NoRound
        /\ service' = "off" \/ service' = service
    BY <1>6 DEF Stop, End
  <2>2. Roles'
    BY <1>1, <2>1 DEF Roles
  <2> QED BY <1>2, <2>1, <2>2 DEF BackfillInv, RoundFills
<1>7. CASE Begin
  <2>1. /\ UNCHANGED <<files, now, writers, service>> /\ LastTimestamp(now) # -1
        /\ service \in {"first", "loop"}
        /\ round' = [start |-> From, end |-> now, gaps |-> Gaps(From), whole |-> TRUE]
    BY <1>7 DEF Begin
  <2>2. Roles'
    BY <1>1, <2>1 DEF Roles
  <2>3. From \in 0 .. Horizon
    <3>1. LastTimestamp(now) \in 0 .. Horizon - 1
      BY <1>1, <2>1, LastIsAMinute DEF Minutes
    <3> QED BY <3>1, WindowAssumption DEF From
  <2>4. PICK start \in 0 .. Horizon : start = From
    BY <2>3
  <2>5. PICK gaps : gaps = Gaps(start)
    OBVIOUS
  <2>6. round' = [start |-> start, end |-> now, gaps |-> gaps, whole |-> TRUE]
    BY <2>1, <2>4, <2>5
  <2>7. /\ gaps \in SUBSET Gap
        /\ \A g \in gaps : start <= g.start /\ g.start < g.end /\ g.end <= now
        /\ ~Twice(start, now) => start .. now - 1 \subseteq Stored \cup UNION {Span(g) : g \in gaps}
    BY <1>1, <2>5, GapsOfRound
  <2>8. /\ round'.start = start /\ round'.end = now /\ round'.gaps = gaps
        /\ round'.whole = TRUE
    BY <2>6
  <2>9. now' = now /\ now <= now /\ now \in 0 .. Horizon
    BY <1>1, <2>1
  <2>10. GoodRound'
    <3>1. round' \in [start : 0 .. Horizon, end : 0 .. Horizon, gaps : SUBSET Gap, whole : BOOLEAN]
      BY <2>6, <2>7, <2>9
    <3> QED BY <2>7, <2>8, <2>9, <3>1 DEF GoodRound
  <2>11. RoundFills'
    <3>1. Twice(round.start, round.end)' <=> Twice(start, now)
      BY <2>1, <2>8 DEF Twice
    <3> QED BY <1>2, <2>1, <2>7, <2>8, <3>1 DEF RoundFills
  <2> QED BY <1>2, <2>1, <2>2, <2>10, <2>11 DEF BackfillInv
<1>8. ASSUME round # NoRound, UNCHANGED <<now, writers, service>>,
             NEW gap, NEW full \in BOOLEAN,
             round' = [round EXCEPT !.gaps = @ \ {gap}, !.whole = full],
             full => round.whole /\ Span(gap) \subseteq Stored',
             Filed', \A k \in Months : files[k] \subseteq files'[k]
      PROVE  BackfillInv'
  <2>1. Roles'
    BY <1>1, <1>8 DEF Roles
  <2>2. GoodRound
    BY <1>1, <1>8
  <2>3. /\ round'.start = round.start /\ round'.end = round.end
        /\ round'.gaps = round.gaps \ {gap} /\ round'.whole = full
        /\ round' \in [start : 0 .. Horizon, end : 0 .. Horizon, gaps : SUBSET Gap, whole : BOOLEAN]
    BY <1>8, <2>2 DEF GoodRound
  <2>4. GoodRound'
    BY <1>8, <2>2, <2>3 DEF GoodRound
  <2>5. ASSUME full, ~Twice(round.start, round.end)'
        PROVE  round.start .. round.end - 1
                 \subseteq Stored' \cup UNION {Span(g) : g \in round.gaps \ {gap}}
    <3>1. ~Twice(round.start, round.end)
      BY <1>8, <2>3, <2>5 DEF Twice
    <3>2. round.start .. round.end - 1 \subseteq Stored \cup UNION {Span(g) : g \in round.gaps}
      BY <1>1, <1>8, <2>5, <3>1 DEF RoundFills
    <3>3. Stored \subseteq Stored'
      BY <1>8 DEF Stored
    <3> QED BY <1>8, <2>5, <3>2, <3>3
  <2>6. RoundFills'
    BY <2>3, <2>5 DEF RoundFills
  <2> QED BY <1>8, <2>1, <2>4, <2>6 DEF BackfillInv
<1>9. CASE SkipGap
  <2>1. /\ round # NoRound /\ UNCHANGED <<files, now, writers, service>>
        /\ round' = [round EXCEPT !.gaps = @ \ {NextGap}, !.whole = FALSE]
    BY <1>9 DEF SkipGap
  <2>2. PICK gap : gap = NextGap
    OBVIOUS
  <2> QED BY <1>2, <1>8, <2>1, <2>2
<1>10. ASSUME NEW answer \in SUBSET Minutes, Fill(answer) PROVE BackfillInv'
  <2>1. /\ round # NoRound /\ Patch(UTC, answer) /\ UNCHANGED <<now, writers, service>>
        /\ round' = [round EXCEPT !.gaps = @ \ {NextGap},
                                  !.whole = @ /\ Span(NextGap) \subseteq answer]
    BY <1>10 DEF Fill
  <2>2. PICK gap : gap = NextGap
    OBVIOUS
  <2>3. PICK full \in BOOLEAN : full = (round.whole /\ Span(gap) \subseteq answer)
    OBVIOUS
  <2>4. round' = [round EXCEPT !.gaps = @ \ {gap}, !.whole = full]
    BY <2>1, <2>2, <2>3
  <2>5. Filed' /\ answer \subseteq Stored' /\ \A k \in Months : files[k] \subseteq files'[k]
    BY <1>1, <2>1, PatchKeepsFiles
  <2>6. full => round.whole /\ Span(gap) \subseteq Stored'
    BY <2>3, <2>5
  <2> QED BY <1>8, <2>1, <2>4, <2>5, <2>6
<1>11. CASE UNCHANGED vars
  <2>1. UNCHANGED <<files, now, writers, service, round>>
    BY <1>11 DEF vars
  <2>2. Roles' /\ now <= now'
    BY <1>1, <2>1 DEF Roles
  <2> QED BY <1>2, <2>1, <2>2, RoundLasts
<1> QED BY <1>3, <1>4, <1>5, <1>6, <1>7, <1>9, <1>10, <1>11 DEF Next

LEMMA BackfillInit == Init => BackfillInv
<1> SUFFICES ASSUME Init PROVE BackfillInv
  OBVIOUS
<1>1. /\ files = [k \in Months |-> {}] /\ now = 0 /\ service = "off" /\ round = NoRound
      /\ writers \in SUBSET {"builder", "ingest"}
  BY DEF Init
<1>2. Filed
  BY <1>1 DEF Filed
<1>3. Roles
  BY <1>1, UTCIsAZone DEF Roles
<1> QED BY <1>1, <1>2, <1>3 DEF BackfillInv, RoundFills

LEMMA BackfillIsSound == Spec => []BackfillInv
<1>1. BackfillInv /\ [Next]_vars => BackfillInv'
  BY BackfillStep
<1> QED BY <1>1, BackfillInit, PTL DEF Spec

\* The clock, the files and the rounds stay what they are: a minute is filed
\* under its month in the zone of one of the writers, and the gaps of a round are
\* within its range.
THEOREM TypeCorrect == Spec => []TypeOK
<1>1. BackfillInv => TypeOK
  <2> SUFFICES ASSUME BackfillInv PROVE TypeOK
    OBVIOUS
  <2>1. Filed /\ Roles
    BY DEF BackfillInv
  <2>2. ASSUME round # NoRound
        PROVE  /\ round.start \in 0 .. Horizon /\ round.end \in 0 .. now /\ round.whole \in BOOLEAN
               /\ \A g \in round.gaps : round.start <= g.start /\ g.start < g.end /\ g.end <= round.end
    BY <2>1, <2>2, UTCIsAZone DEF BackfillInv, GoodRound, Roles
  <2> QED BY <2>1, <2>2 DEF TypeOK, Filed, Roles
<1> QED BY <1>1, BackfillIsSound, PTL

\* A round that was answered in full leaves nothing of its range missing, unless
\* a minute of it is in two files.
THEOREM RoundIsFilled == Spec => []RoundFills
<1>1. BackfillInv => RoundFills
  BY DEF BackfillInv
<1> QED BY <1>1, BackfillIsSound, PTL

-----------------------------------------------------------------------------
(* GET /broker/ohlcv *)

LEMMA ReplyIsHonest ==
  ASSUME NEW c \in Seq(Nat), Ascending(c), NEW start \in Nat, NEW end \in Nat,
         \A m \in ToSet(c) : start <= m /\ m < end,
         NEW kept, ToSet(kept) \subseteq ToSet(c)
  PROVE  Honest(Reply(c, start, end), kept, start, end)
<1>1. Reply(c, start, end).candles = c
      /\ Reply(c, start, end).complete = (MissingCount(c, start, end) = 0)
  BY DEF Reply
<1>2. MissingCount(c, start, end) = 0 <=> ToSet(c) = start .. end - 1
  <2>1. Once(c)
    BY AscendingIsSorted DEF Once
  <2> QED BY <2>1, MissingCounts
<1>3. \A k \in 1 .. Len(c) - 1 : c[k] < c[k + 1]
  BY DEF Ascending
<1> QED BY <1>1, <1>2, <1>3 DEF Honest

LEMMA AnswersAreInRange ==
  ASSUME NEW R, NEW answer \in Answers(R)
  PROVE  answer \subseteq R
BY DEF Answers

\* Read-through adds what was answered, and calls the response complete exactly
\* if that is all it lacked: no minute is filled from two gaps.
LEMMA ReadThroughIsHonest ==
  ASSUME NEW c \in Seq(Nat), Ascending(c), NEW start \in Nat, NEW end \in Nat,
         \A m \in ToSet(c) : start <= m /\ m < end,
         NEW answer \in SUBSET (start .. end - 1), NEW failing \in BOOLEAN
  PROVE  Honest(ReadThrough(c, start, end, answer, failing), c, start, end)
<1> DEFINE S == ToSet(c)
           R == start .. end - 1
           gaps == FindGaps(c, start, end)
           missing == MissingCount(c, start, end)
           fills == {f \in gaps \X answer : f[2] \in Span(f[1])}
           V == answer \ S
           filled == Sorted(S \cup {f[2] : f \in fills})
           full == (missing = Cardinality(fills))
<1>1. CASE missing = 0 \/ missing > MaxMissing \/ failing
  <2>1. ReadThrough(c, start, end, answer, failing) = Reply(c, start, end)
    BY <1>1 DEF ReadThrough
  <2> QED BY <2>1, ReplyIsHonest
<1>2. CASE ~(missing = 0 \/ missing > MaxMissing \/ failing)
  <2>1. ReadThrough(c, start, end, answer, failing) = [candles |-> filled, complete |-> full, status |-> 200]
    BY <1>2 DEF ReadThrough
  <2>2. missing = Cardinality(R \ S) /\ start < end
    <3>1. Once(c)
      BY AscendingIsSorted DEF Once
    <3> QED BY <1>2, <3>1, MissingCounts
  <2>3. /\ \A g \in gaps : IsGap(g, S, start, end)
        /\ \A m \in R : m \in S \/ \E g \in gaps : m \in Span(g)
    BY <2>2, FindGapsFinds
  <2>4. \A g, h \in gaps : g = h \/ Span(g) \cap Span(h) = {}
    BY <2>3, GapsAreApart
  <2>5. IsFiniteSet(R) /\ R \subseteq Nat
    <3>1. start \in Int /\ end - 1 \in Int
      OBVIOUS
    <3> QED BY <3>1, FS_Interval
  <2>6. S \subseteq R
    <3>1. S \subseteq Nat
      BY AscendingIsSorted
    <3>2. \A m \in S : m \in Nat /\ start <= m /\ m < end
      BY <3>1
    <3> QED BY <3>2
  <2> HIDE DEF S, R, gaps, missing
  <2>7. \A g \in gaps : Span(g) \cap S = {}
    BY <2>3 DEF IsGap
  <2>8. \A f \in fills : f[1] \in gaps /\ f[2] \in V /\ f = <<f[1], f[2]>> /\ f[2] \in Span(f[1])
    BY <2>7
  <2>9. ASSUME NEW v \in V PROVE \E f \in fills : f[2] = v
    <3>1. PICK g \in gaps : v \in Span(g)
      BY <2>3 DEF R
    <3>2. <<g, v>> \in fills /\ <<g, v>>[2] = v
      BY <3>1
    <3> QED BY <3>2
  <2>10. ASSUME NEW e \in fills, NEW f \in fills, e[2] = f[2] PROVE e = f
    <3>1. e[1] = f[1]
      BY <2>4, <2>8, <2>10
    <3> QED BY <2>8, <2>10, <3>1
  <2> HIDE DEF fills
  <2>11. {f[2] : f \in fills} = V
    BY <2>8, <2>9
  <2>12. V \subseteq R \ S /\ IsFiniteSet(R \ S) /\ IsFiniteSet(V)
    <3>1. V \subseteq R \ S
      BY DEF R
    <3>2. IsFiniteSet(R \ S)
      BY <2>5, FS_Subset
    <3> QED BY <3>1, <3>2, FS_Subset
  <2>13. Cardinality(fills) = Cardinality(V)
    <3> DEFINE h == [v \in V |-> CHOOSE f \in fills : f[2] = v]
    <3>1. \A v \in V : h[v] \in fills /\ h[v][2] = v
      BY <2>9
    <3>2. h \in [V -> fills]
      BY <3>1
    <3> HIDE DEF h
    <3>3. \A f \in fills : f[2] \in V /\ h[f[2]] = f
      BY <2>8, <2>10, <3>1
    <3>4. h \in Bijection(V, fills)
      <4>1. h \in Injection(V, fills)
        BY <3>1, <3>2 DEF Injection, IsInjective
      <4>2. h \in Surjection(V, fills)
        BY <3>2, <3>3 DEF Surjection
      <4> QED BY <4>1, <4>2 DEF Bijection
    <3>5. ExistsBijection(V, fills)
      BY <3>4 DEF ExistsBijection
    <3> QED BY <2>12, <3>5, FS_Bijection
  <2>14. full <=> V = R \ S
    <3>1. full <=> Cardinality(V) = Cardinality(R \ S)
      BY <2>2, <2>13
    <3>2. Cardinality(V) = Cardinality(R \ S) => V = R \ S
      BY <2>12, FS_Subset
    <3> QED BY <3>1, <3>2
  <2>15. filled = Sorted(S \cup V) /\ S \cup V \subseteq R
    BY <2>6, <2>11, <2>12
  <2>16. S \cup V \subseteq Nat /\ IsFiniteSet(S \cup V)
    BY <2>5, <2>15, FS_Subset
  <2>17. Ascending(filled) /\ ToSet(filled) = S \cup V
    BY <2>15, <2>16, SortedIsSorted
  <2> HIDE DEF filled, full, V
  <2>18. V = R \ S <=> ToSet(filled) = R
    BY <2>6, <2>12, <2>17
  <2>19. \A k \in 1 .. Len(filled) - 1 : filled[k] < filled[k + 1]
    BY <2>17 DEF Ascending
  <2>20. full <=> ToSet(filled) = start .. end - 1
    BY <2>14, <2>18 DEF R
  <2>21. ToSet(c) \subseteq ToSet(filled)
    BY <2>17 DEF S
  <2> DEFINE reply == [candles |-> filled, complete |-> full, status |-> 200]
  <2>22. reply.candles = filled /\ reply.complete = full
    OBVIOUS
  <2> HIDE DEF reply
  <2>23. Honest(reply, c, start, end)
    BY <2>19, <2>20, <2>21, <2>22 DEF Honest
  <2> QED BY <2>1, <2>23 DEF reply
<1> QED BY <1>1, <1>2

\* The last rows of a sequence that has no more of them.
LEMMA LastOfFew ==
  ASSUME NEW rows \in Seq(Nat), NEW limit \in Nat, Len(rows) <= limit
  PROVE  LastOf(limit, rows) = rows
<1>1. Len(rows) \in Nat /\ Len(rows) - limit + 1 \in Int /\ Len(rows) - limit + 1 <= 1
  OBVIOUS
<1>2. Max({1, Len(rows) - limit + 1}) = 1
  <2>1. Max({1, Len(rows) - limit + 1}) =
          IF 1 <= Len(rows) - limit + 1 THEN Len(rows) - limit + 1 ELSE 1
    BY <1>1, MaxOfTwo
  <2> QED BY <1>1, <2>1
<1>3. SubSeq(rows, 1, Len(rows)) = rows
  OBVIOUS
<1> QED BY <1>2, <1>3 DEF LastOf

\* The sources of a range: each is served in order and within the range, or the
\* request refused.
LEMMA SourcesAreHonest ==
  ASSUME Filed, NEW start \in Nat, NEW end \in 0 .. Horizon, start < end,
         NEW answer \in SUBSET (start .. end - 1),
         NEW cutover \in Frontiers, NEW agree \in BOOLEAN, NEW provider \in BOOLEAN
  PROVE  LET source == Source(start, end, cutover, agree)
             reply == FromSource(start, end, cutover, agree, provider, end - start,
                                 Sorted(answer))
         IN  IF source = "deny" THEN reply = Refused(422)
             ELSE IF source # "primary" /\ ~provider THEN reply = Refused(503)
             ELSE \/ source = "primary" /\ Overlapping(start, end)
                  \/ Honest(reply, Kept(start, end, cutover), start, end)
<1> DEFINE source == Source(start, end, cutover, agree)
           reply == FromSource(start, end, cutover, agree, provider, end - start, Sorted(answer))
<1>1. end \in Nat
  BY UTCIsAZone
<1>2. \A S \in SUBSET (start .. end - 1) :
        /\ S \subseteq Nat /\ IsFiniteSet(S) /\ Sorted(S) \in Seq(Nat)
        /\ Ascending(Sorted(S)) /\ ToSet(Sorted(S)) = S
        /\ Len(Sorted(S)) \in Nat /\ Len(Sorted(S)) <= end - start
  <2>1. IsFiniteSet(start .. end - 1) /\ start .. end - 1 \subseteq Nat
        /\ Cardinality(start .. end - 1) = end - start
    <3>1. start \in Int /\ end - 1 \in Int /\ end - 1 - start + 1 = end - start
      BY <1>1
    <3> QED BY <1>1, <3>1, FS_Interval
  <2>2. ASSUME NEW S \in SUBSET (start .. end - 1)
        PROVE  /\ S \subseteq Nat /\ IsFiniteSet(S) /\ Sorted(S) \in Seq(Nat)
               /\ Ascending(Sorted(S)) /\ ToSet(Sorted(S)) = S
               /\ Len(Sorted(S)) \in Nat /\ Len(Sorted(S)) <= end - start
    <3>1. S \subseteq Nat /\ IsFiniteSet(S) /\ Cardinality(S) <= end - start
      BY <2>1, FS_Subset
    <3>2. /\ Sorted(S) \in Seq(Nat) /\ Ascending(Sorted(S)) /\ ToSet(Sorted(S)) = S
          /\ Len(Sorted(S)) = Cardinality(S) /\ Cardinality(S) \in Nat
      BY <3>1, SortedIsSorted
    <3> QED BY <3>1, <3>2
  <2> QED BY <2>2
<1>3. \A m \in start .. end - 1 : m \in Nat /\ start <= m /\ m < end
  BY <1>1
<1>4. cutover # None => cutover \in Nat
  BY MinutesAreFinite DEF Frontiers, Stored, Filed
<1>5. CASE source = "deny"
  BY <1>5 DEF FromSource
<1>6. CASE source = "primary"
  <2>1. cutover # None /\ start >= cutover
    BY <1>6 DEF Source
  <2>2. reply = Reply(ReadRange(Canonical, start, end), start, end)
    BY <1>6 DEF FromSource
  <2>3. Max({start, cutover}) = start
    BY <1>4, <2>1, MaxOfTwo
  <2>4. PICK c \in Seq(Nat) : c = ReadRange(Canonical, start, end)
    BY ReadRangeReads, UTCIsAZone
  <2>5. Kept(start, end, cutover) = c
    BY <2>1, <2>3, <2>4 DEF Kept
  <2>6. \A m \in ToSet(c) : start <= m /\ m < end
    BY <2>4, ReadRangeReads, UTCIsAZone
  <2>7. ASSUME ~Overlapping(start, end) PROVE Honest(reply, Kept(start, end, cutover), start, end)
    <3>1. Ascending(c)
      BY <2>4, <2>7, ReadRangeReads, UTCIsAZone
    <3> QED BY <1>1, <2>2, <2>4, <2>5, <2>6, <3>1, ReplyIsHonest
  <2> QED BY <1>6, <2>7
<1>7. CASE source \notin {"deny", "primary"} /\ ~provider
  BY <1>7 DEF FromSource
<1>8. CASE source = "fallback" /\ provider
  <2>1. cutover = None \/ end <= cutover
    BY <1>8 DEF Source
  <2>2. PICK c \in Seq(Nat) : c = Sorted(answer)
    BY <1>2
  <2>3. reply = Reply(c, start, end)
    BY <1>8, <2>2 DEF FromSource
  <2>4. Ascending(c) /\ ToSet(c) = answer
    BY <1>2, <2>2
  <2>5. \A m \in ToSet(c) : start <= m /\ m < end
    BY <1>3, <2>4
  <2>6. ToSet(Kept(start, end, cutover)) = {}
    <3>1. ToSet(<< >>) = {}
      BY DEF ToSet
    <3>2. CASE cutover = None
      BY <3>1, <3>2 DEF Kept
    <3>3. CASE cutover # None
      <4>1. cutover \in Nat /\ end <= cutover
        BY <1>4, <2>1, <3>3
      <4>2. Max({start, cutover}) = cutover
        BY <1>1, <4>1, MaxOfTwo
      <4>3. Kept(start, end, cutover) = << >>
        BY <1>1, <3>3, <4>1, <4>2 DEF Kept, ReadRange
      <4> QED BY <3>1, <4>3
    <3> QED BY <3>2, <3>3
  <2>7. Honest(reply, Kept(start, end, cutover), start, end)
    BY <1>1, <2>3, <2>4, <2>5, <2>6, ReplyIsHonest
  <2> QED BY <1>8, <2>7
<1>9. CASE source = "mixed" /\ provider
  <2>1. cutover # None /\ ~(end <= cutover) /\ ~(start >= cutover)
    BY <1>9 DEF Source
  <2>2. cutover \in Nat /\ cutover < end /\ start < cutover
    BY <1>1, <1>4, <2>1
  <2>3. PICK r \in Seq(Nat) : r = ReadRange(Canonical, cutover, end)
    BY <2>2, ReadRangeReads, UTCIsAZone
  <2>4. \A m \in ToSet(r) : cutover <= m /\ m < end
    BY <2>2, <2>3, ReadRangeReads, UTCIsAZone
  <2>5. ToSet(r) \subseteq Nat
    BY DEF ToSet
  <2> DEFINE before == {m \in ToSet(Sorted(answer)) : m < cutover}
             from == {m \in ToSet(r) : cutover <= m}
             T == before \cup from
  <2>6. reply = Reply(LastOf(end - start, Sorted(T)), start, end)
    BY <1>9, <2>3 DEF FromSource, Stitched
  <2>7. before \subseteq start .. end - 1
    BY <1>2
  <2>8. from = ToSet(r) /\ from \subseteq start .. end - 1
    <3>1. \A m \in ToSet(r) : m \in start .. end - 1
      <4>1. \A m \in ToSet(r) : m \in Nat /\ cutover <= m /\ m < end
        BY <2>4, <2>5
      <4> QED BY <1>1, <2>2, <4>1
    <3> QED BY <2>4, <3>1
  <2> HIDE DEF before, from
  <2>9. T \in SUBSET (start .. end - 1)
    BY <2>7, <2>8
  <2> HIDE DEF T
  <2>10. PICK c \in Seq(Nat) : c = Sorted(T)
    BY <1>2, <2>9
  <2>11. Ascending(c) /\ ToSet(c) = T /\ Len(c) <= end - start /\ end - start \in Nat
    BY <1>1, <1>2, <2>9, <2>10
  <2>12. LastOf(end - start, c) = c
    BY <2>11, LastOfFew
  <2>13. reply = Reply(c, start, end)
    BY <2>6, <2>10, <2>12
  <2>14. \A m \in ToSet(c) : start <= m /\ m < end
    BY <1>3, <2>9, <2>11
  <2>15. Max({start, cutover}) = cutover
    BY <2>2, MaxOfTwo
  <2>16. Kept(start, end, cutover) = r
    BY <2>1, <2>3, <2>15 DEF Kept
  <2>17. ToSet(r) \subseteq ToSet(c)
    BY <2>8, <2>11 DEF T
  <2>18. Honest(reply, Kept(start, end, cutover), start, end)
    BY <1>1, <2>11, <2>13, <2>14, <2>16, <2>17, ReplyIsHonest
  <2> QED BY <1>9, <2>18
<1>10. source \in {"deny", "primary", "fallback", "mixed"}
  BY DEF Source
<1> QED BY <1>5, <1>6, <1>7, <1>8, <1>9, <1>10

\* The responses of /broker/ohlcv are honest.
THEOREM ResponsesAreHonest == Spec => []ResponseIsHonest
<1>1. ASSUME BackfillInv PROVE ResponseIsHonest
  <2>1. Filed
    BY <1>1 DEF BackfillInv
  <2>2. ASSUME NEW start \in Minutes, NEW end \in start + 1 .. Horizon
        PROVE  start \in Nat /\ end \in 0 .. Horizon /\ end \in Nat /\ start < end
    BY UTCIsAZone DEF Minutes
  <2>3. ASSUME NEW start \in Minutes, NEW end \in start + 1 .. Horizon,
               NEW answer \in Answers(start .. end - 1), NEW failing \in BOOLEAN,
               ~Overlapping(start, end)
        PROVE  Honest(ReadThrough(ReadRange(Canonical, start, end), start, end, answer, failing),
                      ReadRange(Canonical, start, end), start, end)
    <3>1. /\ start \in Nat /\ end \in 0 .. Horizon /\ end \in Nat
          /\ answer \in SUBSET (start .. end - 1)
      BY <2>2, AnswersAreInRange
    <3>2. PICK c : c = ReadRange(Canonical, start, end)
      OBVIOUS
    <3>3. c \in Seq(Nat) /\ Ascending(c) /\ \A m \in ToSet(c) : start <= m /\ m < end
      BY <2>1, <2>3, <3>1, <3>2, ReadRangeReads, UTCIsAZone
    <3>4. Honest(ReadThrough(c, start, end, answer, failing), c, start, end)
      BY <3>1, <3>3, ReadThroughIsHonest
    <3> QED BY <3>2, <3>4
  <2>4. ASSUME NEW start \in Minutes, NEW end \in start + 1 .. Horizon,
               NEW answer \in Answers(start .. end - 1), NEW cutover \in Frontiers,
               NEW agree \in BOOLEAN, NEW provider \in BOOLEAN
        PROVE  LET source == Source(start, end, cutover, agree)
                   reply == FromSource(start, end, cutover, agree, provider, end - start,
                                       Sorted(answer))
               IN  IF source = "deny" THEN reply = Refused(422)
                   ELSE IF source # "primary" /\ ~provider THEN reply = Refused(503)
                   ELSE \/ source = "primary" /\ Overlapping(start, end)
                        \/ Honest(reply, Kept(start, end, cutover), start, end)
    <3>1. answer \in SUBSET (start .. end - 1)
      BY AnswersAreInRange
    <3> QED BY <2>1, <2>2, <3>1, SourcesAreHonest
  <2>5. ASSUME NEW start \in Minutes, NEW end \in start + 1 .. Horizon
        PROVE  FindsItsMonths(start, end)
    BY <2>1, <2>2, CanonicalFindsItsMonths
  <2> SUFFICES ASSUME NEW start \in Minutes, NEW end \in start + 1 .. Horizon
               PROVE  LET overlapping == Overlapping(start, end)
                          kept == ReadRange(Canonical, start, end)
                      IN  /\ FindsItsMonths(start, end)
                          /\ \A answer \in Answers(start .. end - 1), failing \in BOOLEAN :
                               \/ overlapping
                               \/ Honest(ReadThrough(kept, start, end, answer, failing),
                                         kept, start, end)
                          /\ \A answer \in Answers(start .. end - 1), cutover \in Frontiers,
                                agree \in BOOLEAN, provider \in BOOLEAN :
                               LET source == Source(start, end, cutover, agree)
                                   reply == FromSource(start, end, cutover, agree, provider,
                                                       end - start, Sorted(answer))
                               IN  IF source = "deny" THEN reply = Refused(422)
                                   ELSE IF source # "primary" /\ ~provider
                                        THEN reply = Refused(503)
                                   ELSE \/ source = "primary" /\ overlapping
                                        \/ Honest(reply, Kept(start, end, cutover), start, end)
    BY Zenon DEF ResponseIsHonest
  <2>6. \A answer \in Answers(start .. end - 1), failing \in BOOLEAN :
          \/ Overlapping(start, end)
          \/ Honest(ReadThrough(ReadRange(Canonical, start, end), start, end, answer, failing),
                    ReadRange(Canonical, start, end), start, end)
    BY <2>3, Zenon
  <2> QED BY <2>4, <2>5, <2>6, Zenon
<1> QED BY <1>1, BackfillIsSound, PTL

-----------------------------------------------------------------------------
(* GET /api/v1/data/ohlcv *)

\* The minutes of S with fewer than l before them.
Low(l, S) == {m \in S : Cardinality(Below(S, m)) < l}

LEMMA BelowGrows ==
  ASSUME NEW T, IsFiniteSet(T), NEW S \in SUBSET T, NEW m
  PROVE  /\ Below(S, m) \subseteq Below(T, m)
         /\ IsFiniteSet(Below(S, m)) /\ Cardinality(Below(S, m)) \in Nat
         /\ IsFiniteSet(Below(T, m)) /\ Cardinality(Below(T, m)) \in Nat
         /\ Cardinality(Below(S, m)) <= Cardinality(Below(T, m))
<1>1. Below(S, m) \subseteq Below(T, m) /\ Below(T, m) \subseteq T
  BY DEF Below
<1>2. IsFiniteSet(Below(T, m))
  BY <1>1, FS_Subset
<1>3. IsFiniteSet(Below(S, m)) /\ Cardinality(Below(S, m)) <= Cardinality(Below(T, m))
  BY <1>1, <1>2, FS_Subset
<1> QED BY <1>1, <1>2, <1>3, FS_CardinalityType

\* The first l rows of a sorted set are the sorted minutes with fewer than l
\* before them.
LEMMA FirstOfSorted ==
  ASSUME NEW S, S \subseteq Nat, IsFiniteSet(S), NEW l \in Nat \ {0}
  PROVE  /\ FirstOf(l, Sorted(S)) = Sorted(Low(l, S))
         /\ ToSet(FirstOf(l, Sorted(S))) = Low(l, S)
         /\ Len(FirstOf(l, Sorted(S))) = IF l <= Cardinality(S) THEN l ELSE Cardinality(S)
         /\ Cardinality(Low(l, S)) = Len(FirstOf(l, Sorted(S)))
         /\ \A i \in 1 .. Len(FirstOf(l, Sorted(S))) : FirstOf(l, Sorted(S))[i] = Sorted(S)[i]
<1> DEFINE N == Cardinality(S)
           rows == Sorted(S)
           n == IF l <= N THEN l ELSE N
           s == FirstOf(l, rows)
<1>1. /\ N \in Nat /\ rows \in Seq(Nat) /\ Len(rows) = N /\ rows \in [1 .. N -> S]
      /\ Ascending(rows) /\ \A k \in 1 .. N : Cardinality(Below(S, rows[k])) = k - 1
  BY SortedIsSorted
<1>2. /\ \A m \in S : Cardinality(Below(S, m)) \in 0 .. N - 1
      /\ \A a, b \in S : Cardinality(Below(S, a)) = Cardinality(Below(S, b)) => a = b
  BY Ranks
<1>3. n \in 0 .. N /\ n <= l /\ (n < N => n = l)
  BY <1>1
<1>4. s = SubSeq(rows, 1, n)
  <2>1. s = SubSeq(rows, 1, Min({l, Len(rows)}))
    BY DEF FirstOf
  <2> HIDE DEF s, rows
  <2>2. Min({l, N}) = n
    BY <1>1, MinOfTwo
  <2> QED BY <1>1, <2>1, <2>2
<1>5. n = IF l <= N THEN l ELSE N
  OBVIOUS
<1> HIDE DEF N, rows, n, s
<1>6. s \in Seq(Nat) /\ Len(s) = n /\ \A i \in 1 .. n : s[i] = rows[i] /\ i \in 1 .. N
  <2>1. n \in Nat /\ n <= N /\ N \in Nat
    BY <1>1, <1>3
  <2>2. \A i \in 1 .. n : i \in 1 .. N
    BY <2>1
  <2>3. s = [i \in 1 .. n |-> rows[i]]
    BY <1>1, <1>4, <2>1
  <2>4. \A i \in 1 .. n : s[i] = rows[i] /\ rows[i] \in Nat
    BY <1>1, <2>2, <2>3
  <2>5. s \in [1 .. n -> Nat]
    BY <2>3, <2>4
  <2> QED BY <2>1, <2>2, <2>4, <2>5
<1>7. Ascending(s)
  BY <1>1, <1>6 DEF Ascending
<1>8. ToSet(s) = {s[i] : i \in 1 .. n}
  BY <1>6 DEF ToSet
<1>9. ToSet(s) \subseteq Low(l, S)
  <2>1. ASSUME NEW i \in 1 .. n PROVE s[i] \in Low(l, S)
    <3>1. s[i] \in S /\ Cardinality(Below(S, s[i])) = i - 1
      BY <1>1, <1>6
    <3>2. i - 1 < l
      BY <1>3
    <3> QED BY <3>1, <3>2 DEF Low
  <2> QED BY <1>8, <2>1
<1>10. Low(l, S) \subseteq ToSet(s)
  <2>1. ASSUME NEW m \in Low(l, S) PROVE m \in ToSet(s)
    <3>1. PICK r \in 0 .. N - 1 : r = Cardinality(Below(S, m))
      BY <1>2 DEF Low
    <3>2. m \in S /\ r < l
      BY <3>1 DEF Low
    <3>3. r + 1 \in 1 .. n /\ r + 1 \in 1 .. N /\ (r + 1) - 1 = r
      BY <1>1, <1>3, <3>1, <3>2
    <3>4. rows[r + 1] \in S /\ Cardinality(Below(S, rows[r + 1])) = r
      BY <1>1, <3>3
    <3>5. rows[r + 1] = m
      BY <1>2, <3>1, <3>2, <3>4
    <3> QED BY <1>6, <1>8, <3>3, <3>5
  <2> QED BY <2>1
<1>11. ToSet(s) = Low(l, S)
  BY <1>9, <1>10
<1>12. s = Sorted(Low(l, S)) /\ Cardinality(Low(l, S)) = Len(s)
  BY <1>6, <1>7, <1>11, AscendingIsSorted
<1> QED BY <1>5, <1>6, <1>11, <1>12 DEF s, rows, N

\* To cut one of two sets before they are merged changes nothing in what is cut
\* from the result.
LEMMA CutAndMerge ==
  ASSUME NEW A, NEW B, A \subseteq Nat, B \subseteq Nat, IsFiniteSet(A), IsFiniteSet(B),
         NEW l \in Nat \ {0}
  PROVE  Low(l, Low(l, A) \cup B) = Low(l, A \cup B)
<1> DEFINE C == Low(l, A)
           U == C \cup B
           T == A \cup B
<1>1. IsFiniteSet(T) /\ U \in SUBSET T /\ A \in SUBSET T /\ T \subseteq Nat /\ C \subseteq A
  BY FS_Union DEF Low
<1>2. IsFiniteSet(U) /\ IsFiniteSet(C)
  BY <1>1, FS_Subset
<1>3. Cardinality(C) = IF l <= Cardinality(A) THEN l ELSE Cardinality(A)
  BY FirstOfSorted
<1>4. /\ Cardinality(A) \in Nat /\ \A a \in A : Cardinality(Below(A, a)) \in 0 .. Cardinality(A) - 1
      /\ \A a, b \in A : a < b => Cardinality(Below(A, a)) < Cardinality(Below(A, b))
  BY Ranks
<1>5. C = {m \in A : Cardinality(Below(A, m)) < l}
  BY DEF Low
<1> HIDE DEF C, U, T
<1>6. ASSUME NEW m \in Low(l, T) PROVE m \in Low(l, U)
  <2>1. m \in T /\ Cardinality(Below(T, m)) < l
    BY DEF Low
  <2>2. Cardinality(Below(A, m)) <= Cardinality(Below(T, m))
        /\ Cardinality(Below(A, m)) \in Nat /\ Cardinality(Below(T, m)) \in Nat
    BY <1>1, BelowGrows
  <2>3. Cardinality(Below(U, m)) <= Cardinality(Below(T, m)) /\ Cardinality(Below(U, m)) \in Nat
    BY <1>1, BelowGrows
  <2>4. Cardinality(Below(A, m)) < l /\ Cardinality(Below(U, m)) < l
    BY <2>1, <2>2, <2>3
  <2>5. m \in U
    BY <1>5, <2>1, <2>4 DEF U, T
  <2> QED BY <2>4, <2>5 DEF Low
<1>7. ASSUME NEW m \in Low(l, U) PROVE m \in Low(l, T)
  <2>1. m \in U /\ Cardinality(Below(U, m)) < l /\ m \in T /\ m \in Nat
    BY <1>1 DEF Low
  <2>2. ASSUME NEW x \in Below(T, m), x \notin U PROVE FALSE
    <3>1. x \in A /\ x \notin C /\ x < m /\ x \in Nat
      BY <1>1, <2>2 DEF Below, T, U
    <3>2. ~(Cardinality(Below(A, x)) < l)
      BY <1>5, <3>1
    <3>3. Cardinality(Below(A, x)) \in 0 .. Cardinality(A) - 1
      BY <1>4, <3>1
    <3>4. Cardinality(C) = l
      BY <1>3, <1>4, <3>2, <3>3
    <3>5. ASSUME NEW y \in C PROVE y \in Below(U, m)
      <4>1. y \in A /\ Cardinality(Below(A, y)) < l /\ y \in Nat
        BY <1>5
      <4>2. Cardinality(Below(A, y)) \in Nat /\ Cardinality(Below(A, x)) \in Nat
        BY <1>4, <3>1, <4>1
      <4>3. ~(Cardinality(Below(A, x)) < Cardinality(Below(A, y)))
        BY <3>2, <4>1, <4>2
      <4>4. ~(x < y)
        BY <1>4, <3>1, <4>1, <4>3
      <4>5. y < m
        BY <2>1, <3>1, <4>1, <4>4
      <4> QED BY <4>5 DEF Below, U
    <3>6. IsFiniteSet(Below(U, m)) /\ Cardinality(Below(U, m)) \in Nat
      BY <1>2, BelowGrows
    <3>7. Cardinality(C) <= Cardinality(Below(U, m))
      BY <3>5, <3>6, FS_Subset
    <3> QED BY <2>1, <3>4, <3>6, <3>7
  <2>3. Below(T, m) \subseteq Below(U, m)
    BY <2>2 DEF Below
  <2>4. Below(U, m) \subseteq Below(T, m)
    BY <1>1, BelowGrows
  <2>5. Below(T, m) = Below(U, m)
    BY <2>3, <2>4
  <2> QED BY <2>1, <2>5 DEF Low
<1>8. Low(l, U) = Low(l, T)
  BY <1>6, <1>7
<1> QED BY <1>8 DEF C, U, T

\* A page of the history A and the store B from the cursor on.
LEMMA PageIsExact ==
  ASSUME Filed, "builder" \notin writers, NEW start \in Nat, NEW end \in 0 .. Horizon,
         NEW history \in SUBSET Minutes, NEW limit \in Nat \ {0},
         NEW cursor, After(cursor, start) \in Nat, start <= After(cursor, start)
  PROVE  LET page == Page(history, start, end, limit, cursor)
             left == Sorted({m \in history \cup Stored : After(cursor, start) <= m /\ m < end})
             cut  == Historical(history, start, end, limit, cursor)
         IN  /\ page.candles = FirstOf(limit, left)
             /\ page.next # None => page.next = page.candles[limit]
             /\ page.next = None /\ Len(left) > limit =>
                  /\ Len(cut) = limit /\ Stored \cap start .. end - 1 # {}
                  /\ \A m \in Stored : After(cursor, start) <= m /\ m < end => m \in ToSet(cut)
<1> DEFINE from == After(cursor, start)
           A == {m \in history : from <= m /\ m < end}
           X == {m \in Stored : from <= m /\ m < end}
           realtime == ToSet(ReadRange(UTC, start, end))
           cut == FirstOf(limit, Sorted(A))
           rows == Sorted(ToSet(cut) \cup X)
           left == Sorted(A \cup X)
           more == IF realtime = {} THEN Len(rows) = limit ELSE Len(rows) > limit
           page == Page(history, start, end, limit, cursor)
<1>1. Stored \subseteq Minutes
  BY DEF Stored, Filed
<1>2. realtime = {m \in Stored : start <= m /\ m < end}
  BY ReadRangeFindsAll
<1>3. \A m \in Minutes : m \in Nat
  BY MinutesAreFinite
<1>4. {m \in realtime : from <= m} = X
  <2>1. ASSUME NEW m \in Stored, from <= m PROVE start <= m
    BY <1>1, <1>3, <2>1
  <2> QED BY <1>2, <2>1
<1>5. page = [candles |-> FirstOf(limit, rows), next |-> IF more THEN rows[limit] ELSE None]
  BY <1>4 DEF Page, Historical
<1>6. Historical(history, start, end, limit, cursor) = cut
  BY DEF Historical
<1>7. {m \in history \cup Stored : from <= m /\ m < end} = A \cup X
  OBVIOUS
<1>8. /\ A \subseteq Nat /\ X \subseteq Nat /\ IsFiniteSet(A) /\ IsFiniteSet(X)
      /\ A \cup X \subseteq Nat /\ IsFiniteSet(A \cup X)
  <2>1. A \subseteq Minutes /\ X \subseteq Minutes /\ A \cup X \subseteq Minutes
    BY <1>1
  <2> QED BY <2>1, MinutesAreFinite
<1>9. X # {} => realtime # {}
  BY <1>4
<1>10. \A m \in Stored : from <= m /\ m < end => m \in X
  OBVIOUS
<1>11. realtime # {} => Stored \cap start .. end - 1 # {}
  <2>1. ASSUME NEW m \in Stored, start <= m, m < end PROVE m \in start .. end - 1
    BY <1>1, <1>3, <2>1, UTCIsAZone
  <2> QED BY <1>2, <2>1
<1> HIDE DEF A, X, realtime, page
<1>12. /\ ToSet(cut) = Low(limit, A) /\ Cardinality(Low(limit, A)) = Len(cut)
       /\ Len(cut) = IF limit <= Cardinality(A) THEN limit ELSE Cardinality(A)
  BY <1>8, FirstOfSorted
<1> DEFINE C == Low(limit, A)
<1>13. C \subseteq A /\ IsFiniteSet(C) /\ C \cup X \subseteq Nat /\ IsFiniteSet(C \cup X)
  <2>1. C \subseteq A
    BY DEF Low
  <2>2. IsFiniteSet(C)
    BY <1>8, <2>1, FS_Subset
  <2> QED BY <1>8, <2>1, <2>2, FS_Union
<1>14. rows = Sorted(C \cup X)
  BY <1>12
<1>15. FirstOf(limit, rows) = FirstOf(limit, left)
  <2>1. FirstOf(limit, Sorted(C \cup X)) = Sorted(Low(limit, C \cup X))
    BY <1>13, FirstOfSorted
  <2>2. FirstOf(limit, Sorted(A \cup X)) = Sorted(Low(limit, A \cup X))
    BY <1>8, FirstOfSorted
  <2>3. Low(limit, C \cup X) = Low(limit, A \cup X)
    BY <1>8, CutAndMerge
  <2> QED BY <1>14, <2>1, <2>2, <2>3
<1>16. /\ Len(rows) = Cardinality(C \cup X) /\ Cardinality(C \cup X) \in Nat
       /\ rows \in Seq(Nat)
  BY <1>13, <1>14, SortedIsSorted
<1>17. Len(left) = Cardinality(A \cup X) /\ Cardinality(A \cup X) \in Nat
  BY <1>8, SortedIsSorted
<1>18. Len(rows) >= limit => FirstOf(limit, rows)[limit] = rows[limit]
  <2>1. Len(FirstOf(limit, rows)) = IF limit <= Cardinality(C \cup X) THEN limit ELSE Cardinality(C \cup X)
    BY <1>13, <1>14, FirstOfSorted
  <2>2. \A i \in 1 .. Len(FirstOf(limit, rows)) : FirstOf(limit, rows)[i] = rows[i]
    BY <1>13, <1>14, FirstOfSorted
  <2>3. Len(rows) >= limit => limit \in 1 .. Len(FirstOf(limit, rows))
    BY <1>16, <2>1
  <2> QED BY <2>2, <2>3
<1>19. more => Len(rows) >= limit
  BY <1>16
<1>20. ASSUME more PROVE rows[limit] # None
  <2>1. limit \in 1 .. Len(rows)
    BY <1>16, <1>19, <1>20
  <2>2. rows[limit] \in Nat
    BY <1>16, <2>1
  <2> QED BY <2>2, QueryAssumption
<1>21. ASSUME ~more, Len(left) > limit
       PROVE  Len(cut) = limit /\ realtime # {} /\ X \subseteq C
  <2>1. Cardinality(A) \in Nat /\ Cardinality(C) = Len(cut)
    BY <1>8, <1>12, FS_CardinalityType
  <2>2. CASE realtime = {}
    <3>1. X = {} /\ C \cup X = C /\ A \cup X = A
      BY <1>9, <2>2
    <3>2. Cardinality(A) > limit /\ Cardinality(C) # limit
      BY <1>16, <1>17, <1>21, <2>2, <3>1
    <3> QED BY <1>12, <2>1, <3>2
  <2>3. CASE realtime # {}
    <3>1. Cardinality(C \cup X) <= limit
      BY <1>16, <1>21, <2>3
    <3>2. Cardinality(A) > limit
      <4>1. ASSUME Cardinality(A) <= limit PROVE FALSE
        <5>1. Cardinality(C) = Cardinality(A)
          BY <1>12, <2>1, <4>1
        <5>2. C = A
          BY <1>8, <1>13, <5>1, FS_Subset
        <5> QED BY <1>16, <1>17, <1>21, <3>1, <5>2
      <4> QED BY <2>1, <4>1
    <3>3. Cardinality(C) = limit
      BY <1>12, <2>1, <3>2
    <3>4. Cardinality(C) <= Cardinality(C \cup X)
          /\ (Cardinality(C) = Cardinality(C \cup X) => C = C \cup X)
      BY <1>13, FS_Subset
    <3>5. C = C \cup X
      BY <1>16, <3>1, <3>3, <3>4
    <3> QED BY <2>1, <2>3, <3>3, <3>5
  <2> QED BY <2>2, <2>3
<1> HIDE DEF rows, left, cut, more, C
<1>22. /\ page.candles = FirstOf(limit, left)
       /\ page.next = IF more THEN rows[limit] ELSE None
  BY <1>5, <1>15
<1>23. page.next # None => page.next = page.candles[limit]
  BY <1>15, <1>18, <1>19, <1>22
<1>24. ASSUME page.next = None, Len(left) > limit
       PROVE  /\ Len(cut) = limit /\ Stored \cap start .. end - 1 # {}
              /\ \A m \in Stored : from <= m /\ m < end => m \in ToSet(cut)
  <2>1. ~more
    BY <1>20, <1>22, <1>24
  <2>2. Len(cut) = limit /\ realtime # {} /\ X \subseteq C
    BY <1>21, <1>24, <2>1
  <2> QED BY <1>10, <1>11, <1>12, <2>2 DEF C
<1> QED BY <1>6, <1>7, <1>22, <1>23, <1>24 DEF left, page

\* Over a store whose candles are stamped in UTC, a page has exactly the next
\* candles, and the walk goes on from its last one.
THEOREM PagesAreTheNextCandles == Spec => []PagesAreExact
<1>1. ASSUME BackfillInv, writers = {"ingest"} PROVE PagesAreExact
  <2>1. Filed /\ "builder" \notin writers
    BY <1>1 DEF BackfillInv
  <2>2. ASSUME NEW start \in Minutes, NEW end \in start + 1 .. Horizon,
               NEW history \in Histories, NEW limit \in Limits,
               NEW cursor \in {None} \cup start .. end - 2
        PROVE  /\ start \in Nat /\ end \in 0 .. Horizon
               /\ history \in SUBSET Minutes /\ limit \in Nat \ {0}
               /\ After(cursor, start) \in Nat /\ start <= After(cursor, start)
    <3>1. start \in Nat /\ end \in 0 .. Horizon
      BY UTCIsAZone DEF Minutes
    <3>2. cursor # None => cursor + 1 \in Nat /\ start <= cursor + 1
      BY <3>1
    <3> QED BY <3>1, <3>2, QueryAssumption DEF After
  <2>3. ASSUME NEW start \in Minutes, NEW end \in start + 1 .. Horizon,
               NEW history \in Histories, NEW limit \in Limits,
               NEW cursor \in {None} \cup start .. end - 2
        PROVE  LET page == Page(history, start, end, limit, cursor)
                   left == Sorted({m \in history \cup Stored :
                                     After(cursor, start) <= m /\ m < end})
                   cut  == Historical(history, start, end, limit, cursor)
               IN  /\ page.candles = FirstOf(limit, left)
                   /\ page.next # None => page.next = page.candles[limit]
                   /\ page.next = None /\ Len(left) > limit =>
                        /\ Len(cut) = limit /\ Stored \cap start .. end - 1 # {}
                        /\ \A m \in Stored : After(cursor, start) <= m /\ m < end => m \in ToSet(cut)
    BY <2>1, <2>2, PageIsExact
  <2> QED BY <2>3, Zenon DEF PagesAreExact
<1>2. BackfillInv => PagesAreExact
  <2>1. CASE writers = {"ingest"}
    BY <1>1, <2>1
  <2>2. CASE writers # {"ingest"}
    BY <2>2 DEF PagesAreExact
  <2> QED BY <2>1, <2>2
<1> QED BY <1>2, BackfillIsSound, PTL

=============================================================================
