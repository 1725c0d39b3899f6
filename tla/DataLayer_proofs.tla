------------------------- MODULE DataLayer_proofs -------------------------
(***************************************************************************)
(* Proofs about DataLayer for any horizon, calendar, window and limits.    *)
(***************************************************************************)
EXTENDS DataLayer, FiniteSetTheorems, WellFoundedInduction, TLAPS

-----------------------------------------------------------------------------
(* Numbers *)

LEMMA LeastNat ==
  ASSUME NEW T, T \subseteq Nat, T # {}
  PROVE  \E x \in T : \A y \in T : x <= y
<1>1. PICK x \in T : \A y \in T : ~(<<y, x>> \in OpToRel(<, Nat))
  BY NatLessThanWellFounded, WFMin
<1>2. \A y \in T : ~(y < x)
  BY <1>1 DEF OpToRel
<1> QED BY <1>2

\* Induction over 1 .. L.
LEMMA UpTo ==
  ASSUME NEW L \in Nat \ {0}, NEW P, 1 \in P,
         ASSUME NEW n \in 1 .. L - 1, n \in P PROVE n + 1 \in P
  PROVE  L \in P /\ \A n \in 1 .. L : n \in P
<1>1. SUFFICES ASSUME {n \in 1 .. L : n \notin P} # {} PROVE FALSE
  OBVIOUS
<1>2. PICK n \in {m \in 1 .. L : m \notin P} : \A k \in {m \in 1 .. L : m \notin P} : n <= k
  <2>1. {m \in 1 .. L : m \notin P} \subseteq Nat
    OBVIOUS
  <2> QED BY <1>1, <2>1, LeastNat
<1>3. n \in 1 .. L /\ n \notin P /\ n # 1
  OBVIOUS
<1>4. n - 1 \in 1 .. L - 1 /\ n - 1 \in 1 .. L /\ (n - 1) + 1 = n /\ ~(n <= n - 1)
  BY <1>3
<1>5. n - 1 \in P
  BY <1>2, <1>4
<1>6. (n - 1) + 1 \in P
  BY <1>4, <1>5
<1> QED BY <1>3, <1>4, <1>6

LEMMA MaxOfTwo ==
  ASSUME NEW a \in Int, NEW b \in Int
  PROVE  Max({a, b}) = IF a <= b THEN b ELSE a
<1> DEFINE c == IF a <= b THEN b ELSE a
<1>1. c \in {a, b} /\ \A y \in {a, b} : c >= y
  OBVIOUS
<1>2. \A x \in {a, b} : (\A y \in {a, b} : x >= y) => x = c
  OBVIOUS
<1> HIDE DEF c
<1>3. Max({a, b}) = c
  BY <1>1, <1>2 DEF Max
<1> QED BY <1>3 DEF c

LEMMA MinOfTwo ==
  ASSUME NEW a \in Int, NEW b \in Int
  PROVE  Min({a, b}) = IF a <= b THEN a ELSE b
<1> DEFINE c == IF a <= b THEN a ELSE b
<1>1. c \in {a, b} /\ \A y \in {a, b} : c <= y
  OBVIOUS
<1>2. \A x \in {a, b} : (\A y \in {a, b} : x <= y) => x = c
  OBVIOUS
<1> HIDE DEF c
<1>3. Min({a, b}) = c
  BY <1>1, <1>2 DEF Min
<1> QED BY <1>3 DEF c

LEMMA Quotient ==
  ASSUME NEW n \in Nat \ {0}, NEW a \in Nat
  PROVE  a \div n \in Nat /\ n * (a \div n) <= a /\ a < n * (a \div n) + n
OBVIOUS

LEMMA QuotientGrows ==
  ASSUME NEW n \in Nat \ {0}, NEW a \in Nat, NEW b \in Nat, a <= b
  PROVE  a \div n <= b \div n
<1> DEFINE p == a \div n
           q == b \div n
<1>1. p \in Nat /\ n * p <= a
  BY Quotient
<1>2. q \in Nat /\ b < n * q + n
  BY Quotient
<1> HIDE DEF p, q
<1>3. ASSUME q < p PROVE FALSE
  <2>1. PICK d \in Nat : p = q + 1 + d
    <3>1. p - q - 1 \in Nat /\ p = q + 1 + (p - q - 1)
      BY <1>1, <1>2, <1>3
    <3> QED BY <3>1
  <2>2. n * p = n * q + n + n * d /\ n * d \in Nat
    BY <1>2, <2>1
  <2>3. n * q \in Nat /\ n * p \in Nat
    BY <1>1, <1>2
  <2> QED BY <1>1, <1>2, <2>2, <2>3
<1> QED BY <1>1, <1>2, <1>3 DEF p, q

-----------------------------------------------------------------------------
(* The store *)

LEMMA Constants ==
  /\ Horizon \in Nat \ {0} /\ MonthLength \in Nat \ {0}
  /\ UTC \in 0 .. MonthLength /\ Canonical \in 0 .. MonthLength
  /\ Day \in Nat \ {0} /\ Warmup \in Nat \ {0} /\ Closed \subseteq Int
  /\ Prefetch \in Nat /\ MaxMissing24h \in Nat /\ StaleMinutes \in Nat
BY CalendarAssumption, GateAssumption DEF UTC

LEMMA MonthGrows ==
  ASSUME NEW zone \in 0 .. MonthLength, NEW a \in Nat, NEW b \in Nat, a <= b
  PROVE  /\ Month(zone, a) \in Nat /\ Month(zone, a) <= Month(zone, b)
         /\ Month(zone, a) <= Month(UTC, b)
<1> DEFINE n == MonthLength
           x == a + n - zone
           y == b + n - zone
           z == b + n
<1>1. n \in Nat \ {0}
  BY CalendarAssumption
<1>2. x \in Nat /\ y \in Nat /\ z \in Nat /\ x <= y /\ x <= z
  BY <1>1
<1>3. Month(zone, a) = x \div n /\ Month(zone, b) = y \div n
  BY DEF Month
<1>4. Month(UTC, b) = z \div n
  <2>1. b + n - 0 = z
    BY <1>1
  <2> QED BY <2>1 DEF Month, UTC
<1> HIDE DEF n, x, y, z
<1>5. x \div n \in Nat /\ x \div n <= y \div n /\ x \div n <= z \div n
  BY <1>1, <1>2, Quotient, QuotientGrows
<1> QED BY <1>3, <1>4, <1>5

\* Every file has minutes of its own month only.
Filed ==
  /\ files \in [Months -> SUBSET Minutes]
  /\ \A k \in Months : \A m \in files[k] : Month(UTC, m) = k

LEMMA MinutesAreFinite ==
  /\ Minutes \subseteq Nat
  /\ \A S : S \subseteq Minutes => S \subseteq Nat /\ IsFiniteSet(S)
<1>1. Minutes \subseteq Nat
  BY Constants DEF Minutes
<1>2. IsFiniteSet(Minutes)
  <2>1. Horizon - 1 \in Int /\ 0 \in Int
    BY Constants
  <2> QED BY <2>1, FS_Interval DEF Minutes
<1> QED BY <1>1, <1>2, FS_Subset

\* The value of any row of any file, for the type of the sequences.
Nth(S, k) == CHOOSE m \in S : Cardinality({n \in S : n < m}) = k - 1
Entry == {Nth(S, k) : S \in SUBSET Minutes, k \in Nat}

LEMMA SortedHasLength ==
  ASSUME NEW S \in SUBSET Minutes
  PROVE  Sorted(S) \in Seq(Entry) /\ Len(Sorted(S)) = Cardinality(S)
<1> DEFINE N == Cardinality(S)
<1>1. N \in Nat
  BY MinutesAreFinite, FS_CardinalityType
<1>2. Sorted(S) = [k \in 1 .. N |-> Nth(S, k)]
  BY DEF Sorted, Nth
<1> HIDE DEF N
<1>3. \A k \in 1 .. N : Nth(S, k) \in Entry
  <2>1. \A k \in 1 .. N : k \in Nat
    OBVIOUS
  <2> QED BY <2>1 DEF Entry
<1>4. Sorted(S) \in [1 .. N -> Entry]
  BY <1>2, <1>3
<1> QED BY <1>1, <1>4 DEF N

\* FlattenSeq appends one sequence after another.
Flattening(g, ss, n) == g = [i \in 1 .. n |-> IF i = 1 THEN ss[i] ELSE g[i - 1] \o ss[i]]

LEMMA FlattenExists ==
  ASSUME NEW L \in Nat \ {0}, NEW ss \in [1 .. L -> Seq(Entry)]
  PROVE  \E g \in [1 .. L -> Seq(Entry)] : Flattening(g, ss, L)
<1> DEFINE P == {n \in 1 .. L : \E g \in [1 .. n -> Seq(Entry)] : Flattening(g, ss, n)}
<1>1. 1 \in P
  <2> DEFINE g == [i \in 1 .. 1 |-> ss[1]]
  <2>1. g \in [1 .. 1 -> Seq(Entry)]
    OBVIOUS
  <2>2. Flattening(g, ss, 1)
    BY DEF Flattening
  <2> QED BY <2>1, <2>2
<1>2. ASSUME NEW n \in 1 .. L - 1, n \in P PROVE n + 1 \in P
  <2>1. PICK g \in [1 .. n -> Seq(Entry)] : Flattening(g, ss, n)
    BY <1>2
  <2> DEFINE h == [i \in 1 .. n + 1 |-> IF i = n + 1 THEN g[n] \o ss[n + 1] ELSE g[i]]
  <2>2. ASSUME NEW i \in 1 .. n + 1
        PROVE  h[i] \in Seq(Entry) /\ h[i] = IF i = 1 THEN ss[i] ELSE h[i - 1] \o ss[i]
    <3>1. CASE i = n + 1
      <4>1. i - 1 = n /\ i - 1 \in 1 .. n + 1 /\ i - 1 # n + 1 /\ i # 1 /\ n \in 1 .. n
        BY <3>1
      <4>2. h[i] = g[n] \o ss[n + 1] /\ h[i - 1] = g[n]
        BY <3>1, <4>1
      <4>3. g[n] \in Seq(Entry) /\ ss[n + 1] \in Seq(Entry)
        BY <4>1
      <4> QED BY <3>1, <4>1, <4>2, <4>3, SMTT(30)
    <3>2. CASE i # n + 1
      <4>1. i \in 1 .. n
        BY <3>2
      <4>2. h[i] = g[i] /\ g[i] = IF i = 1 THEN ss[i] ELSE g[i - 1] \o ss[i]
        BY <2>1, <3>2, <4>1 DEF Flattening
      <4>3. i # 1 => h[i - 1] = g[i - 1]
        <5>1. i # 1 => i - 1 \in 1 .. n + 1 /\ i - 1 # n + 1
          BY <4>1
        <5> QED BY <5>1
      <4>4. g[i] \in Seq(Entry)
        BY <4>1
      <4> QED BY <4>2, <4>3, <4>4
    <3> QED BY <3>1, <3>2
  <2>3. h = [i \in 1 .. n + 1 |-> h[i]]
    OBVIOUS
  <2> HIDE DEF h
  <2>4. h \in [1 .. n + 1 -> Seq(Entry)]
    BY <2>2, <2>3
  <2>5. Flattening(h, ss, n + 1)
    BY <2>2, <2>3 DEF Flattening
  <2>6. n + 1 \in 1 .. L
    OBVIOUS
  <2> QED BY <2>4, <2>5, <2>6
<1> HIDE DEF P
<1>3. L \in P
  BY <1>1, <1>2, UpTo
<1> QED BY <1>3 DEF P

LEMMA Flattened ==
  ASSUME NEW L \in Nat \ {0}, NEW ss \in [1 .. L -> Seq(Entry)]
  PROVE  \E g : /\ g[1] = ss[1] /\ \A i \in 1 .. L - 1 : g[i + 1] = g[i] \o ss[i + 1]
                /\ \A i \in 1 .. L : g[i] \in Seq(Entry)
                /\ FlattenSeq(ss) = g[L]
<1> DEFINE G == CHOOSE g : g = [i \in 1 .. L |-> IF i = 1 THEN ss[i] ELSE g[i - 1] \o ss[i]]
<1>1. ss \in Seq(Seq(Entry)) /\ Len(ss) = L
  OBVIOUS
<1>2. FlattenSeq(ss) = G[L]
  BY <1>1 DEF FlattenSeq
<1>3. \E g : g = [i \in 1 .. L |-> IF i = 1 THEN ss[i] ELSE g[i - 1] \o ss[i]]
  <2>1. PICK g \in [1 .. L -> Seq(Entry)] : Flattening(g, ss, L)
    BY FlattenExists
  <2>2. g = [i \in 1 .. L |-> IF i = 1 THEN ss[i] ELSE g[i - 1] \o ss[i]]
    BY <2>1 DEF Flattening
  <2> QED BY <2>2
<1>4. G = [i \in 1 .. L |-> IF i = 1 THEN ss[i] ELSE G[i - 1] \o ss[i]]
  BY <1>3
<1> HIDE DEF G
<1>5. G[1] = ss[1]
  <2>1. 1 \in 1 .. L
    OBVIOUS
  <2> QED BY <1>4, <2>1
<1>6. ASSUME NEW i \in 1 .. L - 1 PROVE G[i + 1] = G[i] \o ss[i + 1]
  <2>1. i + 1 \in 1 .. L /\ i + 1 # 1 /\ (i + 1) - 1 = i
    OBVIOUS
  <2> QED BY <1>4, <2>1
<1>7. \A i \in 1 .. L : G[i] \in Seq(Entry)
  <2> DEFINE P == {i \in 1 .. L : G[i] \in Seq(Entry)}
  <2>1. 1 \in P
    BY <1>5
  <2>2. ASSUME NEW i \in 1 .. L - 1, i \in P PROVE i + 1 \in P
    <3>1. i + 1 \in 1 .. L
      OBVIOUS
    <3>2. G[i] \in Seq(Entry) /\ ss[i + 1] \in Seq(Entry)
      BY <2>2, <3>1
    <3>3. G[i] \o ss[i + 1] \in Seq(Entry)
      BY <3>2
    <3> QED BY <1>6, <3>1, <3>3
  <2> HIDE DEF P
  <2>3. \A i \in 1 .. L : i \in P
    BY <2>1, <2>2, UpTo
  <2> QED BY <2>3 DEF P
<1> QED BY <1>2, <1>5, <1>6, <1>7

\* The minutes of the first n files.
Together(A, n) == UNION {A[i] : i \in 1 .. n}

\* As many rows are read as the sets of the files have minutes, if no two of
\* them share one.
LEMMA FlattenCounts ==
  ASSUME NEW L \in Nat \ {0}, NEW ss \in [1 .. L -> Seq(Entry)],
         NEW A \in [1 .. L -> SUBSET Minutes],
         \A i \in 1 .. L : Len(ss[i]) = Cardinality(A[i]),
         \A i, j \in 1 .. L : i # j => A[i] \cap A[j] = {}
  PROVE  Len(FlattenSeq(ss)) = Cardinality(Together(A, L))
<1>1. PICK g : /\ g[1] = ss[1] /\ \A i \in 1 .. L - 1 : g[i + 1] = g[i] \o ss[i + 1]
               /\ \A i \in 1 .. L : g[i] \in Seq(Entry)
               /\ FlattenSeq(ss) = g[L]
  BY Flattened
<1> DEFINE W(n) == Together(A, n)
           P == {n \in 1 .. L : Len(g[n]) = Cardinality(W(n))}
<1>2. 1 \in P
  <2>1. 1 \in 1 .. L /\ 1 .. 1 = {1}
    OBVIOUS
  <2>2. W(1) = A[1]
    BY <2>1 DEF Together
  <2> QED BY <1>1, <2>1, <2>2
<1>3. ASSUME NEW n \in 1 .. L - 1, n \in P PROVE n + 1 \in P
  <2>1. n \in 1 .. L /\ n + 1 \in 1 .. L
    OBVIOUS
  <2>2. Len(g[n]) = Cardinality(W(n))
    BY <1>3
  <2>3. \A i \in 1 .. n : i \in 1 .. L /\ i # n + 1
    OBVIOUS
  <2>4. 1 .. n + 1 = (1 .. n) \cup {n + 1}
    BY SMTT(30)
  <2>5. W(n + 1) = W(n) \cup A[n + 1]
    BY <2>4 DEF Together
  <2>6. W(n) \subseteq Minutes /\ W(n) \cap A[n + 1] = {} /\ A[n + 1] \subseteq Minutes
    BY <2>1, <2>3 DEF Together
  <2>7. g[n + 1] = g[n] \o ss[n + 1] /\ g[n] \in Seq(Entry) /\ ss[n + 1] \in Seq(Entry)
    BY <1>1, <2>1
  <2>8. Len(g[n + 1]) = Len(g[n]) + Len(ss[n + 1])
    BY <2>7
  <2> HIDE DEF W
  <2>9. IsFiniteSet(W(n)) /\ IsFiniteSet(A[n + 1])
    BY <2>6, MinutesAreFinite
  <2>10. Cardinality(W(n)) \in Nat /\ Cardinality(A[n + 1]) \in Nat /\ Cardinality({}) = 0
    BY <2>9, FS_CardinalityType, FS_EmptySet
  <2>11. Cardinality(W(n) \cup A[n + 1]) =
           Cardinality(W(n)) + Cardinality(A[n + 1]) - Cardinality(W(n) \cap A[n + 1])
    BY <2>9, FS_Union
  <2>12. Cardinality(W(n) \cup A[n + 1]) = Cardinality(W(n)) + Cardinality(A[n + 1])
    <3>1. Cardinality(W(n) \cap A[n + 1]) = 0
      BY <2>6, <2>10
    <3> QED BY <2>10, <2>11, <3>1
  <2> QED BY <2>1, <2>2, <2>5, <2>8, <2>12
<1> HIDE DEF P
<1>4. L \in P
  BY <1>2, <1>3, UpTo
<1> QED BY <1>1, <1>4 DEF P

\* A range read in the zone of the files has as many candles as the store has
\* minutes in it.
LEMMA ReadRangeCounts ==
  ASSUME Filed, NEW start \in Nat, NEW end \in 0 .. Horizon
  PROVE  Len(ReadRange(UTC, start, end)) = Cardinality({m \in Stored : start <= m /\ m < end})
<1> USE Constants
<1>1. \A m \in Stored : m \in Nat /\ m \in Minutes
  BY MinutesAreFinite DEF Stored, Filed
<1>2. CASE start >= end
  <2>1. ReadRange(UTC, start, end) = << >>
    BY <1>2 DEF ReadRange
  <2>2. {m \in Stored : start <= m /\ m < end} = {}
    BY <1>1, <1>2
  <2> QED BY <2>1, <2>2, FS_EmptySet
<1>3. CASE start < end
  <2> DEFINE first == Month(UTC, start)
             last == Month(UTC, end - 1)
             L == last - first + 1
             B(k) == {m \in files[k] : start <= m /\ m < end}
             ss == [k \in 1 .. L |-> Rows(first + k - 1, start, end)]
             A == [k \in 1 .. L |-> B(first + k - 1)]
  <2>1. /\ first \in Nat /\ last \in Nat /\ first <= last /\ last <= Month(UTC, Horizon)
        /\ Month(UTC, Horizon) \in Nat
    <3>1. end - 1 \in Nat /\ start <= end - 1 /\ end - 1 <= Horizon /\ Horizon \in Nat
      BY <1>3
    <3> QED BY <3>1, MonthGrows
  <2>2. \A k \in first .. last : k \in Months
    BY <2>1 DEF Months
  <2>3. ReadRange(UTC, start, end) = FlattenSeq(ss)
    BY <1>3 DEF ReadRange
  <2>4. ASSUME NEW m \in Stored, start <= m, m < end
        PROVE  first <= Month(UTC, m) /\ Month(UTC, m) <= last
    <3>1. m \in Nat /\ end - 1 \in Nat /\ m <= end - 1
      BY <1>1, <1>3, <2>4
    <3> QED BY <2>4, <3>1, MonthGrows
  <2> HIDE DEF first, last
  <2>5. L \in Nat \ {0}
    BY <2>1
  <2>6. ASSUME NEW k \in 1 .. L
        PROVE  first + k - 1 \in first .. last /\ first + k - 1 \in Months
    <3>1. first + k - 1 \in first .. last
      BY <2>1
    <3> QED BY <2>2, <3>1
  <2>7. ASSUME NEW k \in 1 .. L
        PROVE  /\ ss[k] = Sorted(A[k]) /\ A[k] = B(first + k - 1) /\ A[k] \in SUBSET Minutes
               /\ ss[k] \in Seq(Entry) /\ Len(ss[k]) = Cardinality(A[k])
    <3>1. first + k - 1 \in Months
      BY <2>6
    <3>2. A[k] = B(first + k - 1) /\ ss[k] = Sorted(B(first + k - 1))
      BY DEF Rows
    <3>3. B(first + k - 1) \in SUBSET Minutes
      BY <3>1 DEF Filed
    <3> HIDE DEF ss, A, B
    <3> QED BY <3>2, <3>3, SortedHasLength
  <2>8. ss = [k \in 1 .. L |-> ss[k]] /\ A = [k \in 1 .. L |-> A[k]]
    OBVIOUS
  <2>9. \A k \in Months : \A m \in B(k) : m \in files[k] /\ Month(UTC, m) = k
    BY DEF Filed
  <2>10. \A k \in Months : \A m \in B(k) : start <= m /\ m < end
    OBVIOUS
  <2>11. \A k \in Months : \A m \in files[k] : start <= m /\ m < end => m \in B(k)
    OBVIOUS
  <2> HIDE DEF ss, A, L, B
  <2>12. ss \in [1 .. L -> Seq(Entry)] /\ A \in [1 .. L -> SUBSET Minutes]
    BY <2>7, <2>8
  <2>13. ASSUME NEW i \in 1 .. L, NEW j \in 1 .. L, i # j PROVE A[i] \cap A[j] = {}
    <3>1. first + i - 1 # first + j - 1
      BY <2>1, <2>5, <2>13
    <3>2. ASSUME NEW m \in A[i], m \in A[j] PROVE FALSE
      <4>1. Month(UTC, m) = first + i - 1
        BY <2>6, <2>7, <2>9
      <4>2. Month(UTC, m) = first + j - 1
        BY <2>6, <2>7, <2>9, <3>2
      <4> QED BY <3>1, <4>1, <4>2
    <3> QED BY <3>2
  <2>14. Len(FlattenSeq(ss)) = Cardinality(Together(A, L))
    <3>1. \A i \in 1 .. L : Len(ss[i]) = Cardinality(A[i])
      BY <2>7
    <3>2. \A i, j \in 1 .. L : i # j => A[i] \cap A[j] = {}
      BY <2>13
    <3> QED BY <2>5, <2>12, <3>1, <3>2, FlattenCounts
  <2>15. ASSUME NEW m
         PROVE  m \in Together(A, L) <=> m \in Stored /\ start <= m /\ m < end
    <3>1. ASSUME NEW k \in 1 .. L, m \in A[k] PROVE m \in Stored /\ start <= m /\ m < end
      BY <2>6, <2>7, <2>9, <2>10, <3>1 DEF Stored
    <3>2. ASSUME m \in Stored, start <= m, m < end PROVE \E k \in 1 .. L : m \in A[k]
      <4>1. PICK k \in Months : m \in files[k]
        BY <3>2 DEF Stored
      <4>2. k = Month(UTC, m) /\ m \in B(k)
        BY <2>11, <3>2, <4>1 DEF Filed
      <4>3. k \in Nat
        BY <2>1 DEF Months
      <4>4. k - first + 1 \in 1 .. L /\ first + (k - first + 1) - 1 = k
        BY <2>1, <2>4, <3>2, <4>2, <4>3 DEF L
      <4> QED BY <2>7, <4>2, <4>4
    <3> QED BY <3>1, <3>2 DEF Together
  <2>16. Together(A, L) = {m \in Stored : start <= m /\ m < end}
    BY <2>15
  <2> QED BY <2>3, <2>14, <2>16
<1> QED BY <1>2, <1>3

-----------------------------------------------------------------------------
(* The invariant *)

USE DEF published

Modes == {"realtime", "realtime_only", "backfill_only"}
Reasons == {"no", "data", "stale", "missing"}
Statuses == {"initializing", "warming_up", "ready", "degraded"}

\* No candle is of the running minute or a later one.
Past == \A m \in Stored : m < now

\* A round of the writer loop asks for one minute.
OneAsked == pc = "fetch" => \E x \in 0 .. now - 1 : asked = {x}

LayerInv == VariablesOK /\ Filed /\ Past /\ OneAsked

LEMMA MonthsOfMinutes == \A m \in Minutes : Month(UTC, m) \in Months
<1>1. ASSUME NEW m \in Minutes PROVE Month(UTC, m) \in Months
  <2>1. m \in Nat /\ Horizon \in Nat /\ m <= Horizon
    BY Constants DEF Minutes
  <2>2. /\ Month(UTC, m) \in Nat /\ Month(UTC, m) <= Month(UTC, Horizon)
        /\ Month(UTC, Horizon) \in Nat
    BY <2>1, MonthGrows, Constants
  <2> QED BY <2>2 DEF Months
<1> QED BY <1>1

\* The store only grows, and each minute goes to the file of its month.
LEMMA PatchKeepsFiles ==
  ASSUME Filed, NEW new \in SUBSET Minutes, Patch(UTC, new)
  PROVE  Filed' /\ Stored' = Stored \cup new
<1>1. files' = [k \in Months |-> files[k] \cup {m \in new : Month(UTC, m) = k}]
  BY DEF Patch
<1>2. \A k \in Months : files'[k] = files[k] \cup {m \in new : Month(UTC, m) = k}
  BY <1>1
<1>3. files' \in [Months -> SUBSET Minutes]
  BY <1>1 DEF Filed
<1>4. \A k \in Months : \A m \in files'[k] : Month(UTC, m) = k
  BY <1>2 DEF Filed
<1>5. \A m \in new : Month(UTC, m) \in Months
  BY MonthsOfMinutes
<1>6. ASSUME NEW m
      PROVE  (\E k \in Months : m \in files'[k]) <=> (\E k \in Months : m \in files[k]) \/ m \in new
  BY <1>2, <1>5
<1>7. Stored' = Stored \cup new
  BY <1>6 DEF Stored
<1>8. Filed'
  BY <1>3, <1>4 DEF Filed
<1> QED BY <1>7, <1>8

LEMMA AppendIsPatch ==
  ASSUME Filed, NEW m \in Minutes, AppendCandle(UTC, m)
  PROVE  Patch(UTC, {m})
<1>1. files' = [files EXCEPT ![Month(UTC, m)] = @ \cup {m}]
  BY DEF AppendCandle
<1>2. \A k \in Months : files'[k] = files[k] \cup {n \in {m} : Month(UTC, n) = k}
  BY <1>1 DEF Filed
<1>3. files' = [k \in Months |-> files'[k]]
  BY <1>1 DEF Filed
<1> QED BY <1>2, <1>3 DEF Patch

\* What the gates make of a reason is a reason, and the status is one.
LEMMA GatesTypes ==
  ASSUME NEW was \in Reasons, Gates(was)
  PROVE  degraded' \in Reasons /\ status' \in Statuses /\ counted' \in BOOLEAN
<1>1. PICK made, missing, observed :
        /\ made \in BOOLEAN /\ counted' = made
        /\ degraded' = IF NoData' THEN was ELSE Verdict(was, Stale', missing, observed)
        /\ status' = IF degraded' # "no" THEN "degraded"
                     ELSE IF observed < Warmup THEN "warming_up" ELSE "ready"
  BY DEF Gates
<1>2. degraded' \in Reasons
  <2>1. Verdict(was, Stale', missing, observed) \in Reasons
    BY DEF Verdict, Reasons
  <2> QED BY <1>1, <2>1
<1>3. status' \in Statuses
  BY <1>1 DEF Statuses
<1> QED BY <1>1, <1>2, <1>3

LEMMA EnterTypes ==
  ASSUME VariablesOK, NEW loop, NEW was \in Reasons, Enter(loop, was)
  PROVE  /\ pc' = loop /\ asked' = {}
         /\ degraded' \in Reasons /\ status' \in Statuses /\ counted' \in BOOLEAN
<1>1. ASSUME Gates(was)
      PROVE  degraded' \in Reasons /\ status' \in Statuses /\ counted' \in BOOLEAN
  BY <1>1, GatesTypes
<1>2. "initializing" \in Statuses
  BY DEF Statuses
<1> QED BY <1>1, <1>2 DEF Enter

LEMMA LoopOfMode ==
  ASSUME mode \in Modes
  PROVE  /\ Loop \in {"writer", "gates"}
         /\ Loop = "writer" => mode = "realtime"
BY DEF Loop

\* A store that grows by minutes that are over.
LEMMA GrowsByThePast ==
  ASSUME LayerInv, Filed', NEW new, Stored' = Stored \cup new, \A m \in new : m < now',
         now' \in Minutes, now <= now'
  PROVE  Past'
<1>1. ASSUME NEW m \in Stored PROVE m < now'
  <2>1. m \in Nat /\ m < now /\ now \in Nat /\ now' \in Nat
    BY MinutesAreFinite DEF LayerInv, VariablesOK, Past, Stored, Filed
  <2> QED BY <2>1
<1> QED BY <1>1 DEF Past

LEMMA StartStep ==
  ASSUME LayerInv, Start
  PROVE  LayerInv'
<1>1. PICK available \in BOOLEAN : Fresh(available)
  BY DEF Start
<1>2. /\ VariablesOK /\ Filed /\ Past /\ now \in Minutes /\ mode \in Modes /\ live \in -1 .. Horizon - 1
      /\ files \in [Months -> SUBSET Minutes] /\ asked = {} /\ pc = "off"
  BY <1>1 DEF LayerInv, VariablesOK, Modes, Fresh
<1>3. UNCHANGED <<files, now, live, mode>> /\ since' = now
  BY <1>1 DEF Fresh
<1>4. now \in Nat /\ since' \in 0 .. now'
  BY <1>2, <1>3, Constants DEF Minutes
<1>5. Filed' /\ Past'
  BY <1>2, <1>3 DEF Filed, Past, Stored
<1>6. /\ asked' \subseteq 0 .. now - 1 /\ (asked' # {} => pc' = "prefetch")
      /\ pc' \in {"off", "prefetch", "writer", "gates"} /\ (pc' = "writer" => mode = "realtime")
      /\ degraded' \in Reasons /\ status' \in Statuses /\ counted' \in BOOLEAN
  <2>1. CASE pc' = "prefetch" /\ asked' = Max({0, now - Prefetch}) .. now - 1
             /\ degraded' = "no" /\ status' = "initializing" /\ counted' = TRUE
    <3>1. Max({0, now - Prefetch}) \in Nat
      BY <1>4, Constants, MaxOfTwo
    <3> QED BY <1>4, <2>1, <3>1 DEF Reasons, Statuses
  <2>2. CASE Enter(Loop, "no")
    BY <1>2, <2>2, EnterTypes, LoopOfMode DEF Reasons
  <2>3. CASE Enter("gates", "no")
    BY <1>2, <2>3, EnterTypes DEF Reasons
  <2>4. CASE Enter("off", "no")
    BY <1>2, <2>4, EnterTypes DEF Reasons
  <2> QED BY <1>1, <2>1, <2>2, <2>3, <2>4 DEF Fresh
<1>7. VariablesOK'
  BY <1>2, <1>3, <1>4, <1>6 DEF VariablesOK, Modes, Reasons, Statuses
<1> QED BY <1>5, <1>6, <1>7 DEF LayerInv, OneAsked

LEMMA AnsweredStep ==
  ASSUME LayerInv, Answered
  PROVE  LayerInv'
<1>1. PICK answer \in SUBSET asked, twice \in BOOLEAN :
        Prefetched(answer, twice) \/ WriterAnswered(answer, twice)
  BY DEF Answered
<1>2. /\ VariablesOK /\ Filed /\ now \in Minutes /\ mode \in Modes /\ live \in -1 .. Horizon - 1
      /\ asked \subseteq 0 .. now - 1 /\ since \in 0 .. now
  BY DEF LayerInv, VariablesOK, Modes
<1>3. UNCHANGED <<now, live, mode, since>>
  BY <1>1 DEF Prefetched, WriterAnswered
<1>4. answer \in SUBSET Minutes /\ \A m \in answer : m < now
  <2>1. now \in Nat /\ now <= Horizon
    BY <1>2, Constants DEF Minutes
  <2>2. \A m \in answer : m \in 0 .. now - 1
    BY <1>2
  <2> QED BY <2>1, <2>2, Constants DEF Minutes
<1>5. Filed' /\ \E new \in SUBSET answer : Stored' = Stored \cup new
  <2>1. ASSUME UNCHANGED files PROVE Filed' /\ Stored' = Stored \cup {}
    BY <1>2, <2>1 DEF Filed, Stored
  <2>2. ASSUME Patch(UTC, answer) PROVE Filed' /\ Stored' = Stored \cup answer
    BY <1>2, <1>4, <2>2, PatchKeepsFiles
  <2>3. ASSUME WriterAnswered(answer, twice), answer # {}, ~twice PROVE Patch(UTC, answer)
    <3>1. PICK x \in 0 .. now - 1 : asked = {x}
      BY <2>3 DEF LayerInv, OneAsked, WriterAnswered
    <3>2. answer = {x} /\ Max(asked) = x
      <4>1. Max({x}) = x
        BY DEF Max
      <4> QED BY <2>3, <3>1, <4>1
    <3>3. files' = [files EXCEPT ![Month(UTC, x)] = @ \cup {x}]
      BY <2>3, <3>2 DEF WriterAnswered
    <3>4. x \in Minutes
      BY <1>4, <3>2
    <3>5. AppendCandle(UTC, x)
      BY <3>3 DEF AppendCandle
    <3> QED BY <1>2, <3>2, <3>4, <3>5, AppendIsPatch
  <2> QED BY <1>1, <2>1, <2>2, <2>3 DEF Prefetched, WriterAnswered
<1>6. Past'
  <2>1. PICK new \in SUBSET answer : Stored' = Stored \cup new
    BY <1>5
  <2>2. now' \in Minutes /\ now <= now' /\ \A m \in new : m < now'
    <3>1. now' = now /\ now <= now
      BY <1>2, <1>3, Constants DEF Minutes
    <3> QED BY <1>2, <1>4, <3>1
  <2> QED BY <1>5, <2>1, <2>2, GrowsByThePast
<1>7. /\ asked' = {} /\ pc' \in {"writer", "gates"} /\ (pc' = "writer" => mode = "realtime")
      /\ degraded' \in Reasons /\ status' \in Statuses /\ counted' \in BOOLEAN
  <2>1. CASE Prefetched(answer, twice)
    <3>1. Enter(Loop, "no") \/ Enter(Loop, "data")
      BY <2>1 DEF Prefetched
    <3> QED BY <1>2, <3>1, EnterTypes, LoopOfMode DEF Reasons
  <2>2. CASE WriterAnswered(answer, twice)
    <3>1. /\ pc = "fetch" /\ pc' = "writer" /\ asked' = {}
          /\ Gates(IF twice THEN "data" ELSE "no")
      BY <2>2 DEF WriterAnswered
    <3>2. mode = "realtime"
      BY <1>2, <3>1 DEF VariablesOK
    <3>3. (IF twice THEN "data" ELSE "no") \in Reasons
      BY DEF Reasons
    <3> QED BY <3>1, <3>2, <3>3, GatesTypes
  <2> QED BY <1>1, <2>1, <2>2
<1>8. VariablesOK'
  BY <1>2, <1>3, <1>5, <1>7 DEF VariablesOK, Filed, Modes, Reasons, Statuses
<1> QED BY <1>5, <1>6, <1>7, <1>8 DEF LayerInv, OneAsked

LEMMA LayerStep ==
  ASSUME LayerInv, [Next]_vars
  PROVE  LayerInv'
<1>1. /\ VariablesOK /\ Filed /\ now \in Minutes /\ now \in Nat /\ live \in -1 .. Horizon - 1
      /\ asked \subseteq 0 .. now - 1 /\ since \in 0 .. now /\ Past /\ OneAsked
  BY Constants DEF LayerInv, VariablesOK, Minutes
<1>2. ASSUME UNCHANGED files PROVE Filed' /\ Stored' = Stored
  BY <1>1, <1>2 DEF Filed, Stored
<1>3. CASE Tick
  <2>1. now < Horizon - 1 /\ now' = now + 1
        /\ UNCHANGED <<files, live, mode, pc, asked, since, published>>
    BY <1>3 DEF Tick
  <2>2. now' \in Minutes /\ now <= now' /\ since' \in 0 .. now'
        /\ 0 .. now - 1 \subseteq 0 .. now' - 1
    BY <1>1, <2>1, Constants DEF Minutes
  <2>3. Filed' /\ Stored' = Stored \cup {}
    BY <1>2, <2>1
  <2>4. Past'
    <3>1. PICK none : none = {}
      OBVIOUS
    <3>2. Stored' = Stored \cup none /\ \A m \in none : m < now'
      BY <2>3, <3>1
    <3> QED BY <2>2, <2>3, <3>2, GrowsByThePast
  <2>5. VariablesOK'
    BY <1>1, <2>1, <2>2 DEF VariablesOK
  <2>6. OneAsked'
    BY <1>1, <2>1, <2>2 DEF OneAsked
  <2> QED BY <2>3, <2>4, <2>5, <2>6 DEF LayerInv
<1>4. ASSUME NEW m \in Minutes, LiveAppend(m) \/ Repair(m) PROVE LayerInv'
  <2>1. /\ m < now
        /\ AppendCandle(UTC, m) \/ Patch(UTC, {m})
        /\ UNCHANGED <<now, mode, pc, asked, since, published>>
        /\ live' = m \/ live' = live
    BY <1>4 DEF LiveAppend, Repair
  <2>2. Filed' /\ Stored' = Stored \cup {m}
    BY <1>1, <2>1, AppendIsPatch, PatchKeepsFiles
  <2>3. now' = now /\ now <= now /\ live' \in -1 .. Horizon - 1
    BY <1>1, <2>1, Constants DEF Minutes
  <2>4. Past'
    <3>1. PICK new : new = {m}
      OBVIOUS
    <3>2. Stored' = Stored \cup new /\ \A n \in new : n < now'
      BY <2>1, <2>2, <2>3, <3>1
    <3> QED BY <1>1, <2>2, <2>3, <3>2, GrowsByThePast
  <2>5. VariablesOK'
    BY <1>1, <2>1, <2>2, <2>3 DEF VariablesOK, Filed
  <2>6. OneAsked'
    BY <1>1, <2>1 DEF OneAsked
  <2> QED BY <2>2, <2>4, <2>5, <2>6 DEF LayerInv
<1>5. CASE Stop
  <2>1. pc' = "off" /\ asked' = {}
        /\ UNCHANGED <<files, now, live, mode, since, published>>
    BY <1>5 DEF Stop
  <2>2. Filed' /\ Past'
    BY <1>1, <1>2, <2>1 DEF Past
  <2>3. VariablesOK'
    BY <1>1, <2>1 DEF VariablesOK
  <2> QED BY <2>1, <2>2, <2>3 DEF LayerInv, OneAsked
<1>6. CASE WriterAsks
  <2>1. /\ pc = "writer" /\ now > 0 /\ pc' = "fetch" /\ asked' = {now - 1}
        /\ UNCHANGED <<files, now, live, mode, since, published>>
    BY <1>6 DEF WriterAsks
  <2>2. Filed' /\ Past'
    BY <1>1, <1>2, <2>1 DEF Past
  <2>3. now - 1 \in 0 .. now - 1
    BY <1>1, <2>1
  <2>4. mode = "realtime"
    BY <1>1, <2>1 DEF VariablesOK
  <2>5. VariablesOK'
    BY <1>1, <2>1, <2>3, <2>4 DEF VariablesOK
  <2>6. OneAsked'
    BY <2>1, <2>3 DEF OneAsked
  <2> QED BY <2>2, <2>5, <2>6 DEF LayerInv
<1>7. CASE GatesRound
  <2>1. UNCHANGED <<files, now, live, mode, pc, asked, since>> /\ Gates(degraded)
    BY <1>7 DEF GatesRound
  <2>2. Filed' /\ Past'
    BY <1>1, <1>2, <2>1 DEF Past
  <2>3. degraded \in Reasons
    BY <1>1 DEF VariablesOK, Reasons
  <2>4. degraded' \in Reasons /\ status' \in Statuses /\ counted' \in BOOLEAN
    BY <2>1, <2>3, GatesTypes
  <2>5. VariablesOK'
    BY <1>1, <2>1, <2>4 DEF VariablesOK, Reasons, Statuses
  <2>6. OneAsked'
    BY <1>1, <2>1 DEF OneAsked
  <2> QED BY <2>2, <2>5, <2>6 DEF LayerInv
<1>8. CASE UNCHANGED vars
  <2>1. UNCHANGED <<files, now, live, mode, pc, asked, since, published>>
    BY <1>8 DEF vars
  <2>2. Filed' /\ Past'
    BY <1>1, <1>2, <2>1 DEF Past
  <2>3. VariablesOK' /\ OneAsked'
    BY <1>1, <2>1 DEF VariablesOK, OneAsked
  <2> QED BY <2>2, <2>3 DEF LayerInv
<1> QED BY <1>3, <1>4, <1>5, <1>6, <1>7, <1>8, StartStep, AnsweredStep DEF Next

LEMMA LayerInit == Init => LayerInv
<1> SUFFICES ASSUME Init PROVE LayerInv
  OBVIOUS
<1>1. /\ files = [k \in Months |-> {}] /\ now = 0 /\ live = -1 /\ mode \in Modes
      /\ pc = "off" /\ asked = {} /\ since = 0 /\ degraded = "no" /\ status = "initializing"
      /\ counted = TRUE
  BY DEF Init, Modes
<1>2. Filed /\ Stored = {}
  BY <1>1 DEF Filed, Stored
<1>3. VariablesOK
  BY <1>1, <1>2, Constants DEF VariablesOK, Filed, Minutes, Modes
<1> QED BY <1>1, <1>2, <1>3 DEF LayerInv, Past, OneAsked

LEMMA LayerIsSound == Spec => []LayerInv
<1>1. LayerInv /\ [Next]_vars => LayerInv'
  BY LayerStep
<1> QED BY <1>1, LayerInit, PTL DEF Spec

-----------------------------------------------------------------------------
(* The gates *)

\* The candles of the window of the gates, the running minute included.
Seen == {m \in Stored : now - Day + 1 <= m /\ m <= now}

\* What the gates count, in terms of the store: no candle of the running minute
\* is there, but its minute is expected.
LEMMA GatesCount ==
  ASSUME LayerInv
  PROVE  /\ Seen = Window \cap Stored /\ IsFiniteSet(Seen)
         /\ Cardinality(Seen) \in Nat /\ ClosedCount \in Nat /\ now - since \in Nat
         /\ Missing = IF 0 <= Day - Cardinality(Seen) - ClosedCount
                      THEN Day - Cardinality(Seen) - ClosedCount ELSE 0
<1> USE Constants
<1>1. /\ Filed /\ now \in Nat /\ now + 1 \in 0 .. Horizon /\ since \in 0 .. now
      /\ Stored \subseteq Minutes
  BY DEF LayerInv, VariablesOK, Minutes, Stored, Filed
<1>2. \A m \in Stored : m \in Nat /\ m < now
  BY <1>1, MinutesAreFinite DEF LayerInv, Past
<1>3. PICK start \in Nat : /\ start = Max({0, now - Day + 1})
                           /\ start = IF 0 <= now - Day + 1 THEN now - Day + 1 ELSE 0
  <2>1. now - Day + 1 \in Int /\ 0 \in Int
    BY <1>1
  <2>2. Max({0, now - Day + 1}) = IF 0 <= now - Day + 1 THEN now - Day + 1 ELSE 0
    BY <2>1, MaxOfTwo
  <2>3. Max({0, now - Day + 1}) \in Nat
    BY <2>1, <2>2
  <2> QED BY <2>2, <2>3
<1>4. {m \in Stored : start <= m /\ m < now + 1} = Seen
  <2>1. ASSUME NEW m \in Stored
        PROVE  start <= m /\ m < now + 1 <=> now - Day + 1 <= m /\ m <= now
    BY <1>1, <1>2, <1>3
  <2> QED BY <2>1 DEF Seen
<1>5. Len(ReadRange(UTC, start, now + 1)) = Cardinality(Seen)
  BY <1>1, <1>4, ReadRangeCounts
<1>6. Seen = Window \cap Stored
  <2>1. ASSUME NEW m \in Stored
        PROVE  now - Day + 1 <= m /\ m <= now <=> m \in now - Day + 1 .. now - 1
    BY <1>1, <1>2
  <2> QED BY <2>1 DEF Seen, Window
<1>7. IsFiniteSet(Seen)
  <2>1. Seen \subseteq Minutes
    BY <1>1 DEF Seen
  <2> QED BY <2>1, MinutesAreFinite
<1>8. Cardinality(Seen) \in Nat
  BY <1>7, FS_CardinalityType
<1>9. ClosedCount \in Nat
  <2>1. IsFiniteSet(now - Day .. now)
    BY <1>1, FS_Interval
  <2>2. IsFiniteSet(Closed \cap now - Day .. now)
    BY <2>1, FS_Subset
  <2> QED BY <2>2, FS_CardinalityType DEF ClosedCount
<1>10. Missing = Max({0, Day - Cardinality(Seen) - ClosedCount})
  BY <1>3, <1>5 DEF Missing
<1>11. Day - Cardinality(Seen) - ClosedCount \in Int /\ 0 \in Int
  BY <1>8, <1>9
<1>12. now - since \in Nat
  BY <1>1
<1> QED BY <1>6, <1>7, <1>8, <1>9, <1>10, <1>11, <1>12, MaxOfTwo

\* If every open minute of the window that is over has its candle, at most the
\* running minute is missing.
MissingIsSmall == Missing \in 0 .. Day /\ (Window \ Closed \subseteq Stored => Missing <= 1)

\* The open minutes that were observed are there.
ObservedIsThere ==
  Observed \in 0 .. Day /\ (Observed >= Warmup => Cardinality(Window \cap Stored) >= Warmup)

LEMMA MissingIsRight == LayerInv => MissingIsSmall
<1>0. LayerInv => Missing \in 0 .. Day
  <2> SUFFICES ASSUME LayerInv PROVE Missing \in 0 .. Day
    OBVIOUS
  <2>1. /\ Cardinality(Seen) \in Nat /\ ClosedCount \in Nat
        /\ Missing = IF 0 <= Day - Cardinality(Seen) - ClosedCount
                     THEN Day - Cardinality(Seen) - ClosedCount ELSE 0
    BY GatesCount
  <2> QED BY <2>1, Constants
<1> SUFFICES ASSUME LayerInv, Window \ Closed \subseteq Stored PROVE Missing <= 1
  BY <1>0 DEF MissingIsSmall
<1> DEFINE V == Window \ Closed
           W == Window \cap Closed
<1>1. now \in Int /\ Day \in Nat \ {0}
  BY Constants DEF LayerInv, VariablesOK, Minutes
<1>2. IsFiniteSet(Window) /\ Cardinality(Window) = Day - 1
  <2>1. now - Day + 1 \in Int /\ now - 1 \in Int
    BY <1>1
  <2>2. /\ IsFiniteSet(now - Day + 1 .. now - 1)
        /\ Cardinality(now - Day + 1 .. now - 1) =
             IF now - Day + 1 > now - 1 THEN 0 ELSE (now - 1) - (now - Day + 1) + 1
    BY <2>1, FS_Interval
  <2> QED BY <1>1, <2>2 DEF Window
<1>3. IsFiniteSet(V) /\ IsFiniteSet(W)
  BY <1>2, FS_Subset
<1>4. Cardinality(V) \in Nat /\ Cardinality(W) \in Nat /\ Cardinality({}) = 0
  BY <1>3, FS_CardinalityType, FS_EmptySet
<1>5. Cardinality(V) + Cardinality(W) = Day - 1
  <2>1. V \cup W = Window /\ V \cap W = {}
    OBVIOUS
  <2>2. Cardinality(V \cup W) = Cardinality(V) + Cardinality(W) - Cardinality(V \cap W)
    BY <1>3, FS_Union
  <2> HIDE DEF V, W
  <2>3. Cardinality(Window) = Cardinality(V) + Cardinality(W) - 0
    BY <1>4, <2>1, <2>2
  <2> QED BY <1>2, <1>4, <2>3
<1>6. /\ Seen = Window \cap Stored /\ IsFiniteSet(Seen)
      /\ Cardinality(Seen) \in Nat /\ ClosedCount \in Nat
      /\ Missing = IF 0 <= Day - Cardinality(Seen) - ClosedCount
                   THEN Day - Cardinality(Seen) - ClosedCount ELSE 0
  BY GatesCount
<1>7. Cardinality(V) <= Cardinality(Seen)
  <2>1. V \in SUBSET Seen
    BY <1>6
  <2> QED BY <1>6, <2>1, FS_Subset
<1>8. Cardinality(W) <= ClosedCount
  <2>1. now - Day + 1 .. now - 1 \subseteq now - Day .. now
    BY <1>1
  <2>2. W \in SUBSET (Closed \cap now - Day .. now)
    BY <2>1 DEF Window
  <2>3. IsFiniteSet(now - Day .. now)
    BY <1>1, FS_Interval
  <2>4. IsFiniteSet(Closed \cap now - Day .. now)
    BY <2>3, FS_Subset
  <2> QED BY <2>2, <2>4, FS_Subset DEF ClosedCount
<1> HIDE DEF V, W
<1>9. Day - Cardinality(Seen) - ClosedCount <= 1
  BY <1>1, <1>4, <1>5, <1>6, <1>7, <1>8
<1> QED BY <1>6, <1>9

LEMMA ObservedIsRight == LayerInv => ObservedIsThere
<1> SUFFICES ASSUME LayerInv
             PROVE  /\ Observed \in 0 .. Day
                    /\ Observed >= Warmup => Cardinality(Window \cap Stored) >= Warmup
  BY DEF ObservedIsThere
<1>1. /\ Seen = Window \cap Stored
      /\ Cardinality(Seen) \in Nat /\ ClosedCount \in Nat /\ now - since \in Nat
      /\ Missing = IF 0 <= Day - Cardinality(Seen) - ClosedCount
                   THEN Day - Cardinality(Seen) - ClosedCount ELSE 0
  BY GatesCount
<1>2. Warmup \in Nat \ {0} /\ Day \in Nat
  BY Constants
<1> DEFINE Formula == Max({0, Max({0, Min({Day, now - since}) - ClosedCount}) - Missing})
<1>3. Observed = 0 \/ Observed = Formula
  BY DEF Observed
<1>4. PICK up \in Nat : up = Min({Day, now - since}) /\ up <= Day
  BY <1>1, <1>2, MinOfTwo
<1>5. PICK missing \in Nat : missing = Missing /\ missing >= Day - Cardinality(Seen) - ClosedCount
  BY <1>1, <1>2
<1>6. PICK open \in Nat : /\ open = Max({0, up - ClosedCount})
                          /\ open = IF 0 <= up - ClosedCount THEN up - ClosedCount ELSE 0
  <2>1. up - ClosedCount \in Int /\ 0 \in Int
    BY <1>1
  <2>2. Max({0, up - ClosedCount}) = IF 0 <= up - ClosedCount THEN up - ClosedCount ELSE 0
    BY <2>1, MaxOfTwo
  <2>3. Max({0, up - ClosedCount}) \in Nat
    BY <2>1, <2>2
  <2> QED BY <2>2, <2>3
<1>7. Formula = IF 0 <= open - missing THEN open - missing ELSE 0
  BY <1>4, <1>5, <1>6, MaxOfTwo
<1> HIDE DEF Formula
<1>8. Observed \in 0 .. Day
  <2>1. open <= Day
    BY <1>1, <1>2, <1>4, <1>6
  <2> QED BY <1>2, <1>3, <1>7, <2>1
<1>9. ASSUME Observed >= Warmup PROVE Cardinality(Seen) >= Warmup
  <2>1. open - missing >= Warmup
    BY <1>2, <1>3, <1>7, <1>9
  <2>2. up - ClosedCount - missing >= Warmup
    BY <1>1, <1>2, <1>6, <2>1
  <2> QED BY <1>1, <1>2, <1>4, <1>5, <2>2
<1> QED BY <1>1, <1>8, <1>9

LEMMA GatesAreSound == Spec => [](MissingIsSmall /\ ObservedIsThere)
BY LayerIsSound, MissingIsRight, ObservedIsRight, PTL

LEMMA CountersAreRight == LayerInv => CountersOK
<1> SUFFICES ASSUME LayerInv PROVE CountersOK
  OBVIOUS
<1>1. Missing \in 0 .. Day /\ Observed \in 0 .. Day
  BY MissingIsRight, ObservedIsRight DEF MissingIsSmall, ObservedIsThere
<1>2. Uptime \in 0 .. Day
  <2>1. now - since \in Nat /\ Day \in Nat
    BY GatesCount, Constants
  <2>2. Min({Day, now - since}) \in 0 .. Day
    BY <2>1, MinOfTwo
  <2> QED BY <2>1, <2>2 DEF Uptime
<1>3. ClosedCount \in 0 .. Day + 1
  <2>1. now \in Int /\ Day \in Nat
    BY Constants DEF LayerInv, VariablesOK, Minutes
  <2>2. /\ IsFiniteSet(now - Day .. now)
        /\ Cardinality(now - Day .. now) =
             IF now - Day > now THEN 0 ELSE now - (now - Day) + 1
    BY <2>1, FS_Interval
  <2>3. Cardinality(now - Day .. now) = Day + 1
    BY <2>1, <2>2
  <2>4. Cardinality(Closed \cap now - Day .. now) <= Cardinality(now - Day .. now)
    BY <2>2, FS_Subset
  <2>5. ClosedCount \in Nat
    BY GatesCount
  <2> QED BY <2>1, <2>3, <2>4, <2>5 DEF ClosedCount
<1> QED BY <1>1, <1>2, <1>3 DEF CountersOK

\* The service keeps its state, only mode "realtime" has a writer loop, and the
\* minutes that the gates count are within their window.
THEOREM TypeCorrect == Spec => []TypeOK
<1>1. LayerInv => TypeOK
  BY CountersAreRight DEF LayerInv, TypeOK
<1> QED BY <1>1, LayerIsSound, PTL

\* Where the reason and the status come from.
LEMMA NewReason ==
  ASSUME LayerInv, LayerInv', Next, degraded' = "missing", degraded # "missing"
  PROVE  Missing' > MaxMissing24h
<1>1. ASSUME NEW was, was # "missing", Gates(was) PROVE Missing' > MaxMissing24h
  <2>1. PICK made, observed :
          /\ made \in BOOLEAN
          /\ degraded' = IF NoData' THEN was
                         ELSE Verdict(was, Stale', IF made THEN Missing' ELSE 0, observed)
    <3>1. PICK made \in BOOLEAN :
            degraded' = IF NoData' THEN was
                        ELSE Verdict(was, Stale', Count(made)'.missing, Count(made)'.observed)
      BY <1>1 DEF Gates
    <3>2. Count(made)'.missing = IF made THEN Missing' ELSE 0
      BY DEF Count
    <3> QED BY <3>1, <3>2
  <2>2. Verdict(was, Stale', IF made THEN Missing' ELSE 0, observed) = "missing"
    BY <1>1, <2>1
  <2>3. (IF made THEN Missing' ELSE 0) > MaxMissing24h
    BY <1>1, <2>2 DEF Verdict
  <2> QED BY <2>3, Constants
<1>2. ASSUME NEW loop, NEW was, was # "missing", Enter(loop, was) PROVE Missing' > MaxMissing24h
  BY <1>1, <1>2 DEF Enter
<1>3. CASE Start
  <2>1. PICK available \in BOOLEAN : Fresh(available)
    BY <1>3 DEF Start
  <2>2. Enter(Loop, "no") \/ Enter("gates", "no") \/ Enter("off", "no")
    BY <2>1 DEF Fresh
  <2> QED BY <1>2, <2>2
<1>4. CASE Answered
  <2>1. PICK answer \in SUBSET asked, twice \in BOOLEAN :
          Prefetched(answer, twice) \/ WriterAnswered(answer, twice)
    BY <1>4 DEF Answered
  <2>2. CASE Prefetched(answer, twice)
    <3>1. Enter(Loop, "no") \/ Enter(Loop, "data")
      BY <2>2 DEF Prefetched
    <3> QED BY <1>2, <3>1
  <2>3. CASE WriterAnswered(answer, twice)
    <3>1. Gates(IF twice THEN "data" ELSE "no")
      BY <2>3 DEF WriterAnswered
    <3>2. Gates("data") \/ Gates("no")
      BY <3>1
    <3> QED BY <1>1, <3>2
  <2> QED BY <2>1, <2>2, <2>3
<1>5. CASE GatesRound
  BY <1>1, <1>5 DEF GatesRound
<1>6. CASE Tick \/ (\E m \in Minutes : LiveAppend(m) \/ Repair(m)) \/ Stop \/ WriterAsks
  BY <1>6 DEF Tick, LiveAppend, Repair, Stop, WriterAsks
<1> QED BY <1>3, <1>4, <1>5, <1>6 DEF Next

LEMMA NewReady ==
  ASSUME Next, status' = "ready", status # "ready"
  PROVE  counted' => ~(Observed' < Warmup)
<1>1. ASSUME NEW was, Gates(was) PROVE counted' => ~(Observed' < Warmup)
  <2>1. PICK made \in BOOLEAN :
          /\ counted' = made
          /\ status' = IF degraded' # "no" THEN "degraded"
                       ELSE IF Count(made)'.observed < Warmup THEN "warming_up" ELSE "ready"
    BY <1>1 DEF Gates
  <2>2. made => Count(made)'.observed = Observed'
    BY DEF Count
  <2> QED BY <2>1, <2>2
<1>2. ASSUME NEW loop, NEW was, Enter(loop, was) PROVE counted' => ~(Observed' < Warmup)
  BY <1>1, <1>2 DEF Enter
<1>3. CASE Start
  <2>1. PICK available \in BOOLEAN : Fresh(available)
    BY <1>3 DEF Start
  <2>2. Enter(Loop, "no") \/ Enter("gates", "no") \/ Enter("off", "no")
    BY <2>1 DEF Fresh
  <2> QED BY <1>2, <2>2
<1>4. CASE Answered
  <2>1. PICK answer \in SUBSET asked, twice \in BOOLEAN :
          Prefetched(answer, twice) \/ WriterAnswered(answer, twice)
    BY <1>4 DEF Answered
  <2> QED BY <1>1, <1>2, <2>1 DEF Prefetched, WriterAnswered
<1>5. CASE GatesRound
  BY <1>1, <1>5 DEF GatesRound
<1>6. CASE Tick \/ (\E m \in Minutes : LiveAppend(m) \/ Repair(m)) \/ Stop \/ WriterAsks
  BY <1>6 DEF Tick, LiveAppend, Repair, Stop, WriterAsks
<1> QED BY <1>3, <1>4, <1>5, <1>6 DEF Next

\* A symbol is degraded for missing minutes only if one is: with a limit of one
\* or more, the running minute alone never is too much.
THEOREM DegradedIsReal ==
  ASSUME MaxMissing24h # 0
  PROVE  Spec => MissingIsReal
<1>1. ASSUME LayerInv, LayerInv', MissingIsSmall', [Next]_vars,
             degraded' = "missing", degraded # "missing"
      PROVE  ~(Window \ Closed \subseteq Stored)'
  <2>1. Next
    BY <1>1 DEF vars
  <2>2. Missing' > MaxMissing24h
    BY <1>1, <2>1, NewReason
  <2>3. Missing' \in Nat
    BY <1>1 DEF MissingIsSmall
  <2>4. ~(Missing' <= 1)
    BY <2>2, <2>3, Constants
  <2> QED BY <1>1, <2>4 DEF MissingIsSmall
<1> QED BY <1>1, LayerIsSound, GatesAreSound, PTL DEF Spec, MissingIsReal

\* The data layer turns ready only when the last day has the candles of the
\* warmup.
THEOREM ReadyHasCandles == Spec => ReadyIsCovered
<1>1. ASSUME LayerInv', ObservedIsThere', [Next]_vars, status' = "ready", status # "ready", counted'
      PROVE  Cardinality((Window \cap Stored)') >= Warmup
  <2>1. Next
    BY <1>1 DEF vars
  <2>2. ~(Observed' < Warmup)
    BY <1>1, <2>1, NewReady
  <2>3. Observed' \in Nat /\ Warmup \in Nat
    BY <1>1, Constants DEF ObservedIsThere
  <2>4. Observed' >= Warmup
    BY <2>2, <2>3
  <2> QED BY <1>1, <2>4 DEF ObservedIsThere
<1> QED BY <1>1, LayerIsSound, GatesAreSound, PTL DEF Spec, ReadyIsCovered

=============================================================================
