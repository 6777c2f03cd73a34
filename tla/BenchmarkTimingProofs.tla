------------------------ MODULE BenchmarkTimingProofs ------------------------
(***************************************************************************)
(* Proofs about BenchmarkTiming for any settings and any clock.            *)
(*                                                                         *)
(* The block (IInv): while it is being chosen every block that was tried   *)
(* is smaller than the next one and was too short (Growing), and nothing   *)
(* has been reported (Unreported); from then on the choice stands.         *)
(*                                                                         *)
(* The result (RInv): the checksum is that of the runs so far (Counted),   *)
(* no verdict is out before the end (Pending), and every test so far has   *)
(* failed (Sampling).  What the statistics say of the samples is shown     *)
(* first: sums and spread by induction on the loops, quartiles from how    *)
(* many samples lie on either side.                                        *)
(***************************************************************************)
EXTENDS BenchmarkTiming, SequenceTheorems, FiniteSetTheorems, WellFoundedInduction, TLAPS

(* Loops that add up *)

\* Induction: a set with zero and with every successor holds all natural numbers.
LEMMA SetInduction ==
  ASSUME NEW S, 0 \in S, \A n \in Nat : n \in S => n + 1 \in S
  PROVE  Nat \subseteq S
<1> DEFINE rest == {n \in Nat : n \notin S}
<1>1. SUFFICES ASSUME rest # {} PROVE FALSE
  OBVIOUS
<1>2. PICK m \in rest : \A k \in rest : <<k, m>> \notin OpToRel(<, Nat)
  BY <1>1, WFMin, NatLessThanWellFounded, Zenon
<1>3. m - 1 \in Nat /\ m - 1 < m /\ (m - 1) + 1 = m
  OBVIOUS
<1>4. m - 1 \in rest
  BY <1>3
<1> QED
  BY <1>2, <1>3, <1>4 DEF OpToRel

\* What has been added up before, g, and after each of the elements of s.
RunsUp(g, s) ==
  /\ g \in [0..Len(s) -> Int]
  /\ g[0] = 0
  /\ \A k \in 1..Len(s) : g[k] = g[k - 1] + s[k]

\* Every sequence of numbers can be added up.
LEMMA RunningSumExists ==
  ASSUME NEW s \in Seq(Int)
  PROVE  \E g : RunsUp(g, s)
<1> DEFINE Upto(n) == \E g \in [0..n -> Int] :
                        g[0] = 0 /\ \A k \in 1..n : g[k] = g[k - 1] + s[k]
           S == {n \in Nat : n <= Len(s) => Upto(n)}
<1>1. Len(s) \in Nat /\ \A k \in 1..Len(s) : s[k] \in Int
  BY LenProperties, ElementOfSeq
<1>2. Upto(0)
  <2> DEFINE zero == [k \in 0..0 |-> 0]
  <2>1. zero \in [0..0 -> Int] /\ zero[0] = 0 /\ 1..0 = {}
    OBVIOUS
  <2> QED
    BY <2>1
<1>3. ASSUME NEW n \in Nat, Upto(n), n + 1 <= Len(s)
      PROVE  Upto(n + 1)
  <2>1. PICK g \in [0..n -> Int] : g[0] = 0 /\ \A k \in 1..n : g[k] = g[k - 1] + s[k]
    BY <1>3
  <2> DEFINE h == [k \in 0..(n + 1) |-> IF k = n + 1 THEN g[n] + s[n + 1] ELSE g[k]]
  <2>2. s[n + 1] \in Int /\ g[n] \in Int /\ \A k \in 0..n : g[k] \in Int
    BY <1>1, <1>3, <2>1
  <2>3. h \in [0..(n + 1) -> Int] /\ h[0] = 0
    BY <2>1, <2>2
  <2>4. ASSUME NEW k \in 1..(n + 1)
        PROVE  h[k] = h[k - 1] + s[k]
    <3>1. CASE k = n + 1
      BY <3>1
    <3>2. CASE k \in 1..n
      BY <3>2, <2>1
    <3> QED
      BY <3>1, <3>2
  <2> QED
    BY <2>3, <2>4
<1> HIDE DEF Upto
<1>4. 0 \in S /\ \A n \in Nat : n \in S => n + 1 \in S
  BY <1>1, <1>2, <1>3
<1> HIDE DEF S
<1>5. Nat \subseteq S
  BY <1>4, SetInduction
<1>6. Upto(Len(s))
  BY <1>1, <1>5 DEF S
<1> QED
  BY <1>6 DEF Upto, RunsUp

\* The loop has added up everything when it ends.
LEMMA SumIsLast ==
  ASSUME NEW s \in Seq(Int), NEW g, RunsUp(g, s)
  PROVE  SumOf(s) = g[Len(s)]
<1> DEFINE Step(f) == [k \in 0..Len(s) |-> IF k = 0 THEN 0 ELSE f[k - 1] + s[k]]
           sum == CHOOSE f : f = Step(f)
           S == {n \in Nat : n <= Len(s) => sum[n] = g[n]}
<1>1. Len(s) \in Nat
  BY LenProperties
<1>2. g = Step(g)
  BY <1>1 DEF RunsUp
<1>3. sum = Step(sum)
  BY <1>2
<1>4. SumOf(s) = sum[Len(s)]
  BY DEF SumOf
<1> HIDE DEF sum
<1>5. /\ sum[0] = 0
      /\ \A k \in 1..Len(s) : sum[k] = sum[k - 1] + s[k]
  BY <1>1, <1>3
<1>6. 0 \in S
  BY <1>5 DEF RunsUp
<1>7. ASSUME NEW n \in Nat, n \in S
      PROVE  n + 1 \in S
  <2> SUFFICES ASSUME n + 1 <= Len(s) PROVE sum[n + 1] = g[n + 1]
    OBVIOUS
  <2>1. sum[n] = g[n] /\ n + 1 \in 1..Len(s) /\ (n + 1) - 1 = n
    BY <1>1, <1>7
  <2> QED
    BY <1>5, <2>1 DEF RunsUp
<1> HIDE DEF S
<1>8. Len(s) \in S
  BY <1>1, <1>6, <1>7, SetInduction
<1> QED
  BY <1>1, <1>4, <1>8 DEF S

LEMMA SumType ==
  ASSUME NEW s \in Seq(Int)
  PROVE  SumOf(s) \in Int
<1>1. PICK g : RunsUp(g, s)
  BY RunningSumExists
<1>2. Len(s) \in Nat /\ g[Len(s)] \in Int
  BY <1>1, LenProperties DEF RunsUp
<1> QED
  BY <1>1, <1>2, SumIsLast

\* One more element adds one more number.
LEMMA SumOfAppend ==
  ASSUME NEW s \in Seq(Int), NEW x \in Int
  PROVE  SumOf(Append(s, x)) = SumOf(s) + x
<1> DEFINE n == Len(s)
           t == Append(s, x)
<1>1. /\ n \in Nat /\ t \in Seq(Int) /\ Len(t) = n + 1
      /\ t[n + 1] = x /\ \A k \in 1..n : t[k] = s[k]
  BY AppendProperties, LenProperties
<1>2. PICK g : RunsUp(g, s)
  BY RunningSumExists
<1> DEFINE h == [k \in 0..(n + 1) |-> IF k = n + 1 THEN g[n] + x ELSE g[k]]
<1>3. g \in [0..n -> Int] /\ g[0] = 0 /\ \A k \in 1..n : g[k] = g[k - 1] + s[k]
  BY <1>2 DEF RunsUp
<1>4. h \in [0..(n + 1) -> Int] /\ h[0] = 0 /\ h[n + 1] = g[n] + x
  BY <1>1, <1>3
<1>5. ASSUME NEW k \in 1..(n + 1)
      PROVE  h[k] = h[k - 1] + t[k]
  <2>1. CASE k = n + 1
    BY <1>1, <1>3, <2>1
  <2>2. CASE k \in 1..n
    BY <1>1, <1>3, <2>2
  <2> QED
    BY <1>1, <2>1, <2>2
<1> HIDE DEF h, t, n
<1>6. RunsUp(h, t)
  BY <1>1, <1>4, <1>5 DEF RunsUp
<1>7. SumOf(t) = h[n + 1] /\ SumOf(s) = g[n]
  BY <1>1, <1>2, <1>6, SumIsLast DEF n
<1> QED
  BY <1>4, <1>7 DEF t

\* A sum of numbers between two bounds.
LEMMA SumIsBetween ==
  ASSUME NEW s \in Seq(Nat), NEW low \in Nat, NEW high \in Nat,
         \A i \in DOMAIN s : low <= s[i] /\ s[i] <= high
  PROVE  Len(s) * low <= SumOf(s) /\ SumOf(s) <= Len(s) * high
<1> DEFINE n == Len(s)
<1>1. n \in Nat /\ DOMAIN s = 1..n /\ s \in Seq(Int) /\ \A k \in 1..n : s[k] \in Nat
  <2>1. \A k \in 1..n : s[k] \in Nat
    BY ElementOfSeq
  <2>2. s \in [1..n -> Int] /\ n \in Nat
    BY <2>1, LenProperties
  <2> QED
    BY <2>1, <2>2, LenProperties, SeqDef
<1>2. PICK g : RunsUp(g, s)
  BY <1>1, RunningSumExists
<1>3. g \in [0..n -> Int] /\ g[0] = 0 /\ \A k \in 1..n : g[k] = g[k - 1] + s[k]
  BY <1>2 DEF RunsUp
<1>4. \A k \in 1..n : low <= s[k] /\ s[k] <= high
  BY <1>1
<1> DEFINE S == {k \in Nat : k <= n => k * low <= g[k] /\ g[k] <= k * high}
<1> HIDE DEF n
<1>5. 0 \in S
  BY <1>3
<1>6. ASSUME NEW k \in Nat, k \in S
      PROVE  k + 1 \in S
  <2> SUFFICES ASSUME k + 1 <= n
               PROVE  (k + 1) * low <= g[k + 1] /\ g[k + 1] <= (k + 1) * high
    OBVIOUS
  <2>1. k * low <= g[k] /\ g[k] <= k * high /\ k + 1 \in 1..n /\ (k + 1) - 1 = k /\ k \in 0..n
    BY <1>1, <1>6
  <2>2. g[k + 1] = g[k] + s[k + 1] /\ g[k] \in Int
    BY <1>3, <2>1
  <2>3. s[k + 1] \in Int /\ low <= s[k + 1] /\ s[k + 1] <= high
    BY <1>1, <1>4, <2>1
  <2>4. /\ (k + 1) * low = k * low + low /\ (k + 1) * high = k * high + high
        /\ k * low \in Int /\ k * high \in Int
    OBVIOUS
  <2> QED
    BY <2>1, <2>2, <2>3, <2>4
<1> HIDE DEF S
<1>7. n \in S
  BY <1>1, <1>5, <1>6, SetInduction
<1>8. SumOf(s) = g[n]
  BY <1>1, <1>2, SumIsLast DEF n
<1> QED
  BY <1>1, <1>7, <1>8 DEF S, n

-----------------------------------------------------------------------------
(* Sorted samples *)

\* A set of natural numbers that is not empty has a least element.
LEMMA LeastExists ==
  ASSUME NEW S \in SUBSET Nat, S # {}
  PROVE  Min(S) \in S /\ \A k \in S : Min(S) <= k
<1>1. PICK m \in S : \A k \in S : <<k, m>> \notin OpToRel(<, Nat)
  BY WFMin, NatLessThanWellFounded, Zenon
<1>2. ASSUME NEW k \in S
      PROVE  m <= k
  <2>1. k \in Nat /\ m \in Nat /\ ~(k < m)
    BY <1>1 DEF OpToRel
  <2> QED
    BY <2>1
<1> QED
  BY <1>2 DEF Min

\* Among some of the samples there is one that no other exceeds.
LEMMA GreatestSample ==
  ASSUME NEW s \in Seq(Nat), NEW T \in SUBSET (1..Len(s)), T # {}
  PROVE  \E i \in T : \A j \in T : s[j] <= s[i]
<1> DEFINE Has(n) == (T \cap 1..n # {}) => \E i \in T \cap 1..n : \A j \in T \cap 1..n : s[j] <= s[i]
           S == {n \in Nat : n <= Len(s) => Has(n)}
<1>1. Len(s) \in Nat /\ \A k \in 1..Len(s) : s[k] \in Nat
  BY LenProperties, ElementOfSeq
<1>2. 0 \in S
  <2>1. 1..0 = {}
    OBVIOUS
  <2> QED
    BY <2>1
<1>3. ASSUME NEW n \in Nat, Has(n), n + 1 <= Len(s)
      PROVE  Has(n + 1)
  <2>1. 1..(n + 1) = (1..n) \cup {n + 1}
    OBVIOUS
  <2>2. CASE n + 1 \notin T
    <3>1. T \cap 1..(n + 1) = T \cap 1..n
      BY <2>1, <2>2
    <3> QED
      BY <1>3, <3>1
  <2>3. CASE n + 1 \in T /\ T \cap 1..n = {}
    <3>1. T \cap 1..(n + 1) = {n + 1} /\ s[n + 1] \in Nat
      BY <1>1, <1>3, <2>1, <2>3
    <3>2. s[n + 1] <= s[n + 1]
      BY <3>1
    <3> QED
      BY <3>1, <3>2
  <2>4. CASE n + 1 \in T /\ T \cap 1..n # {}
    <3>1. PICK i \in T \cap 1..n : \A j \in T \cap 1..n : s[j] <= s[i]
      BY <1>3, <2>4
    <3>2. s[n + 1] \in Nat /\ s[i] \in Nat /\ \A j \in T \cap 1..n : s[j] \in Nat
      BY <1>1, <1>3, <3>1
    <3>3. CASE s[n + 1] <= s[i]
      BY <2>1, <3>1, <3>3
    <3>4. CASE s[i] <= s[n + 1]
      <4>1. \A j \in T \cap 1..n : s[j] <= s[n + 1]
        BY <3>1, <3>2, <3>4
      <4>2. s[n + 1] <= s[n + 1]
        BY <3>2
      <4>3. n + 1 \in T \cap 1..(n + 1)
        BY <2>1, <2>4
      <4> QED
        BY <2>1, <4>1, <4>2, <4>3
    <3>5. s[n + 1] <= s[i] \/ s[i] <= s[n + 1]
      BY <3>2
    <3> QED
      BY <3>3, <3>4, <3>5
  <2> QED
    BY <2>2, <2>3, <2>4
<1> HIDE DEF Has
<1>4. \A n \in Nat : n \in S => n + 1 \in S
  BY <1>1, <1>3
<1> HIDE DEF S
<1>5. Len(s) \in S
  BY <1>1, <1>2, <1>4, SetInduction
<1>6. Has(Len(s))
  BY <1>1, <1>5 DEF S
<1> QED
  BY <1>1, <1>6 DEF Has

\* How many samples are below, or above, v.
AtMost(s, v) == {i \in DOMAIN s : s[i] <= v}
Below(s, v)  == {i \in DOMAIN s : s[i] < v}
Above(s, v)  == {i \in DOMAIN s : s[i] > v}

LEMMA SamplesAreFinite ==
  ASSUME NEW s \in Seq(Nat)
  PROVE  /\ Len(s) \in Nat /\ DOMAIN s = 1..Len(s)
         /\ \A i \in DOMAIN s : s[i] \in Nat /\ s[i] \in ToSet(s)
         /\ \A v \in ToSet(s) : v \in Nat /\ \E i \in DOMAIN s : s[i] = v
         /\ Cardinality(DOMAIN s) = Len(s)
         /\ \A T \in SUBSET (DOMAIN s) : /\ IsFiniteSet(T) /\ Cardinality(T) \in Nat
                                         /\ Cardinality(T) <= Len(s)
<1>1. Len(s) \in Nat /\ DOMAIN s = 1..Len(s) /\ \A i \in DOMAIN s : s[i] \in Nat
  BY LenProperties, ElementOfSeq
<1>2. IsFiniteSet(1..Len(s)) /\ Cardinality(1..Len(s)) = Len(s)
  <2> DEFINE n == Len(s)
  <2>1. n \in Int /\ 1 \in Int /\ n >= 0
    BY <1>1
  <2> HIDE DEF n
  <2>2. IsFiniteSet(1..n) /\ Cardinality(1..n) = IF 1 > n THEN 0 ELSE n - 1 + 1
    BY <2>1, FS_Interval
  <2>3. (IF 1 > n THEN 0 ELSE n - 1 + 1) = n
    BY <2>1
  <2> QED
    BY <2>2, <2>3 DEF n
<1>3. ASSUME NEW T \in SUBSET (DOMAIN s)
      PROVE  IsFiniteSet(T) /\ Cardinality(T) \in Nat /\ Cardinality(T) <= Len(s)
  BY <1>1, <1>2, FS_Subset, FS_CardinalityType
<1> QED
  BY <1>1, <1>2, <1>3 DEF ToSet

\* Element k of the sorted samples is a sample; at least k do not exceed it, and it is
\* the least of which that is so; fewer than k are below it.
LEMMA SortedIs ==
  ASSUME NEW s \in Seq(Nat), NEW k \in 1..Len(s)
  PROVE  LET v == Sorted(s, k)
         IN  /\ v \in ToSet(s) /\ v \in Nat
             /\ Cardinality(AtMost(s, v)) >= k
             /\ Cardinality(Below(s, v)) < k
             /\ \A u \in ToSet(s) : Cardinality(AtMost(s, u)) >= k => v <= u
<1> DEFINE C == {v \in ToSet(s) : Cardinality(AtMost(s, v)) >= k}
           v == Sorted(s, k)
<1>1. /\ Len(s) \in Nat /\ DOMAIN s = 1..Len(s) /\ k \in Nat /\ k > 0 /\ k <= Len(s)
      /\ \A i \in DOMAIN s : s[i] \in Nat /\ s[i] \in ToSet(s)
      /\ \A u \in ToSet(s) : u \in Nat
  BY SamplesAreFinite
<1>2. v = Min(C)
  BY DEF Sorted, AtMost
<1>3. C # {}
  <2>1. 1..Len(s) # {} /\ 1..Len(s) \subseteq 1..Len(s)
    BY <1>1
  <2>2. PICK i \in 1..Len(s) : \A j \in 1..Len(s) : s[j] <= s[i]
    BY <2>1, GreatestSample
  <2>3. AtMost(s, s[i]) = 1..Len(s)
    BY <1>1, <2>2 DEF AtMost
  <2>4. Cardinality(AtMost(s, s[i])) = Len(s)
    BY <1>1, <2>3, SamplesAreFinite
  <2>5. s[i] \in C
    BY <1>1, <2>4
  <2> QED
    BY <2>5
<1>4. v \in C /\ \A u \in C : v <= u
  BY <1>1, <1>2, <1>3, LeastExists
<1> HIDE DEF v
<1>5. Cardinality(Below(s, v)) < k
  <2> SUFFICES ASSUME ~(Cardinality(Below(s, v)) < k)
               PROVE  FALSE
    OBVIOUS
  <2>1. Below(s, v) \in SUBSET (DOMAIN s) /\ Cardinality(Below(s, v)) \in Nat
    BY SamplesAreFinite DEF Below
  <2>2. Below(s, v) # {}
    <3>1. Cardinality({}) = 0
      BY FS_EmptySet
    <3> QED
      BY <1>1, <2>1, <3>1
  <2>3. PICK i \in Below(s, v) : \A j \in Below(s, v) : s[j] <= s[i]
    BY <1>1, <2>1, <2>2, GreatestSample
  <2>4. s[i] < v /\ s[i] \in Nat /\ v \in Nat /\ s[i] \in ToSet(s)
    BY <1>1, <1>4, <2>3 DEF Below
  <2>5. Below(s, v) \subseteq AtMost(s, s[i])
    BY <2>1, <2>3 DEF AtMost
  <2>6. Cardinality(AtMost(s, s[i])) >= Cardinality(Below(s, v))
    <3>1. AtMost(s, s[i]) \in SUBSET (DOMAIN s)
      BY DEF AtMost
    <3>2. IsFiniteSet(AtMost(s, s[i]))
      BY <3>1, SamplesAreFinite
    <3>3. Cardinality(Below(s, v)) <= Cardinality(AtMost(s, s[i]))
      BY <2>5, <3>2, FS_Subset
    <3>4. Cardinality(AtMost(s, s[i])) \in Nat
      BY <3>1, SamplesAreFinite
    <3> QED
      BY <2>1, <3>3, <3>4
  <2>7. s[i] \in C
    <3>1. Cardinality(AtMost(s, s[i])) \in Nat
      BY SamplesAreFinite DEF AtMost
    <3> QED
      BY <1>1, <2>1, <2>4, <2>6, <3>1
  <2>8. v <= s[i]
    BY <1>4, <2>7
  <2> QED
    BY <2>4, <2>8
<1> QED
  BY <1>1, <1>4, <1>5 DEF v

\* The elements of the sorted samples ascend.
LEMMA SortedAscends ==
  ASSUME NEW s \in Seq(Nat), NEW k \in 1..Len(s), NEW l \in 1..Len(s), k <= l
  PROVE  Sorted(s, k) <= Sorted(s, l)
<1> DEFINE v == Sorted(s, l)
<1>1. v \in ToSet(s) /\ Cardinality(AtMost(s, v)) >= l /\ Cardinality(AtMost(s, v)) \in Nat
  <2>1. AtMost(s, v) \in SUBSET (DOMAIN s)
    BY DEF AtMost
  <2> QED
    BY <2>1, SortedIs, SamplesAreFinite
<1>2. Cardinality(AtMost(s, v)) >= k
  BY <1>1
<1> HIDE DEF v
<1>3. \A u \in ToSet(s) : Cardinality(AtMost(s, u)) >= k => Sorted(s, k) <= u
  BY SortedIs
<1> QED
  BY <1>1, <1>2, <1>3 DEF v

\* As many samples are above v as are not at most v.
LEMMA AboveIsRest ==
  ASSUME NEW s \in Seq(Nat), NEW v \in Nat
  PROVE  Cardinality(Above(s, v)) = Len(s) - Cardinality(AtMost(s, v))
<1>1. /\ Len(s) \in Nat /\ Cardinality(DOMAIN s) = Len(s) /\ IsFiniteSet(DOMAIN s)
      /\ \A i \in DOMAIN s : s[i] \in Nat
  BY SamplesAreFinite
<1>2. AtMost(s, v) \subseteq DOMAIN s /\ Above(s, v) = (DOMAIN s) \ AtMost(s, v)
  BY <1>1 DEF AtMost, Above
<1>3. (DOMAIN s) \cap AtMost(s, v) = AtMost(s, v)
  BY <1>2
<1> QED
  BY <1>1, <1>2, <1>3, FS_Difference

\* The samples between which a quartile lies.
Lower(s, q) == (q * (Len(s) - 1)) \div 4 + 1
Upper(s, q) == IF (q * (Len(s) - 1)) % 4 = 0 THEN Lower(s, q) ELSE Lower(s, q) + 1

\* Where they are among n samples.
LEMMA QuartilePlaces ==
  ASSUME NEW s \in Seq(Nat), s # <<>>, NEW q \in 1..3
  PROVE  /\ Lower(s, q) \in 1..Len(s) /\ Upper(s, q) \in 1..Len(s) /\ Lower(s, q) <= Upper(s, q)
         /\ q = 2 => 2 * (Upper(s, q) - 1) <= Len(s) /\ 2 * (Len(s) - Lower(s, q)) <= Len(s)
<1> DEFINE n == Len(s)
<1>1. n \in Nat /\ n > 0
  BY LenProperties, EmptySeq
<1> HIDE DEF n
<1>2. /\ (q * (n - 1)) \div 4 \in Nat /\ (q * (n - 1)) % 4 \in 0..3
      /\ q * (n - 1) = 4 * ((q * (n - 1)) \div 4) + ((q * (n - 1)) % 4)
  <2>1. q * (n - 1) \in Nat
    BY <1>1
  <2> DEFINE x == q * (n - 1)
  <2>2. x \in Nat
    BY <2>1
  <2> HIDE DEF x
  <2>3. x \div 4 \in Nat /\ x % 4 \in 0..3 /\ x = 4 * (x \div 4) + (x % 4)
    BY <2>2
  <2> QED
    BY <2>3 DEF x
<1> DEFINE lower == (q * (n - 1)) \div 4
           fraction == (q * (n - 1)) % 4
           upper == IF fraction = 0 THEN lower ELSE lower + 1
<1>3. /\ lower \in Nat /\ fraction \in 0..3 /\ q * (n - 1) = 4 * lower + fraction
      /\ Lower(s, q) = lower + 1 /\ Upper(s, q) = upper + 1 /\ upper \in Nat
      /\ (fraction = 0 /\ upper = lower) \/ (fraction # 0 /\ upper = lower + 1)
  BY <1>2 DEF Lower, Upper, n
<1> HIDE DEF lower, fraction, upper
<1>4. CASE q = 1
  BY <1>1, <1>3, <1>4 DEF n
<1>5. CASE q = 2
  BY <1>1, <1>3, <1>5 DEF n
<1>6. CASE q = 3
  BY <1>1, <1>3, <1>6 DEF n
<1> QED
  BY <1>4, <1>5, <1>6

\* A quartile lies between them.
LEMMA QuartileIsBetween ==
  ASSUME NEW s \in Seq(Nat), s # <<>>, NEW q \in 1..3
  PROVE  /\ Quartile(s, q) \in Nat
         /\ 4 * Sorted(s, Lower(s, q)) <= Quartile(s, q)
         /\ Quartile(s, q) <= 4 * Sorted(s, Upper(s, q))
<1> DEFINE fraction == (q * (Len(s) - 1)) % 4
           a == Sorted(s, Lower(s, q))
           b == Sorted(s, Upper(s, q))
<1>1. a \in Nat /\ b \in Nat /\ a <= b
  BY QuartilePlaces, SortedIs, SortedAscends
<1>2. fraction \in 0..3
  <2>1. Len(s) \in Nat
    BY LenProperties
  <2>2. q * (Len(s) - 1) \in Int
    BY <2>1
  <2> QED
    BY <2>2
<1>3. Quartile(s, q) = a * (4 - fraction) + b * fraction
  BY DEF Quartile, Lower, Upper
<1> HIDE DEF a, b, fraction
<1>4. /\ a * (4 - fraction) + b * fraction \in Nat
      /\ 4 * a <= a * (4 - fraction) + b * fraction
      /\ a * (4 - fraction) + b * fraction <= 4 * b
  <2>1. fraction = 0 \/ fraction = 1 \/ fraction = 2 \/ fraction = 3
    BY <1>2
  <2> QED
    BY <1>1, <2>1
<1> QED
  BY <1>3, <1>4 DEF a, b

\* Half of the samples or fewer are on either side of the median.
LEMMA MedianHalves ==
  ASSUME NEW s \in Seq(Nat), s # <<>>
  PROVE  IsMedian(Quartile(s, 2), s)
<1> DEFINE n == Len(s)
           m == Quartile(s, 2)
           low == Lower(s, 2)
           up == Upper(s, 2)
           a == Sorted(s, low)
           b == Sorted(s, up)
           Less == {i \in DOMAIN s : 4 * s[i] < m}
           More == {i \in DOMAIN s : 4 * s[i] > m}
<1>1. low \in 1..n /\ up \in 1..n /\ 2 * (up - 1) <= n /\ 2 * (n - low) <= n
  BY QuartilePlaces
<1>2. m \in Nat /\ 4 * a <= m /\ m <= 4 * b
  BY QuartileIsBetween
<1>3. n \in Nat /\ \A i \in DOMAIN s : s[i] \in Nat
  BY SamplesAreFinite
<1>4. /\ a \in Nat /\ b \in Nat
      /\ Cardinality(AtMost(s, a)) >= low /\ Cardinality(Below(s, b)) < up
  BY <1>1, SortedIs
<1> HIDE DEF n, m, low, up, a, b
<1>5. Less \subseteq Below(s, b) /\ More \subseteq Above(s, a)
  BY <1>2, <1>3, <1>4 DEF Below, Above
<1>6. /\ IsFiniteSet(Below(s, b)) /\ IsFiniteSet(Above(s, a))
      /\ Cardinality(Below(s, b)) \in Nat /\ Cardinality(Above(s, a)) \in Nat
      /\ Cardinality(AtMost(s, a)) \in Nat
  <2>1. /\ Below(s, b) \in SUBSET (DOMAIN s) /\ Above(s, a) \in SUBSET (DOMAIN s)
        /\ AtMost(s, a) \in SUBSET (DOMAIN s)
    BY DEF Below, Above, AtMost
  <2> QED
    BY <2>1, SamplesAreFinite
<1>7. /\ Cardinality(Less) <= Cardinality(Below(s, b)) /\ Cardinality(More) <= Cardinality(Above(s, a))
      /\ Cardinality(Less) \in Nat /\ Cardinality(More) \in Nat
  BY <1>5, <1>6, FS_Subset, FS_CardinalityType
<1>8. Cardinality(Above(s, a)) = n - Cardinality(AtMost(s, a))
  BY <1>4, AboveIsRest DEF n
<1> HIDE DEF Less, More
<1>9. low \in Nat /\ up \in Nat
  BY <1>1, <1>3
<1>10. 2 * Cardinality(Less) <= n
  BY <1>1, <1>3, <1>4, <1>6, <1>7, <1>9
<1>11. 2 * Cardinality(More) <= n
  BY <1>1, <1>3, <1>4, <1>6, <1>7, <1>8, <1>9
<1> QED
  BY <1>10, <1>11 DEF IsMedian, Less, More, n, m

\* The upper quartile is not below the lower, and both are within the samples.
LEMMA RangeOfQuartiles ==
  ASSUME NEW s \in Seq(Nat), s # <<>>
  PROVE  Quartile(s, 3) - Quartile(s, 1) \in 0..(4 * (Sorted(s, Len(s)) - Sorted(s, 1)))
<1> DEFINE n == Len(s)
           l1 == Lower(s, 1)
           u1 == Upper(s, 1)
           l3 == Lower(s, 3)
           u3 == Upper(s, 3)
           v(k) == Sorted(s, k)
           q1 == Quartile(s, 1)
           q3 == Quartile(s, 3)
<1>1. n \in Nat /\ n > 0
  BY LenProperties, EmptySeq
<1>2. l1 \in 1..n /\ u1 \in 1..n /\ l1 <= u1 /\ l3 \in 1..n /\ u3 \in 1..n /\ l3 <= u3
  BY QuartilePlaces
<1>3. /\ q1 \in Nat /\ 4 * v(l1) <= q1 /\ q1 <= 4 * v(u1)
      /\ q3 \in Nat /\ 4 * v(l3) <= q3 /\ q3 <= 4 * v(u3)
  BY QuartileIsBetween
<1>4. \A k \in 1..n : v(k) \in Nat
  BY SortedIs
<1>5. \A k \in 1..n, l \in 1..n : k <= l => v(k) <= v(l)
  BY SortedAscends
<1>6. q1 <= q3
  <2>1. CASE n = 2
    <3>1. /\ (1 * (Len(s) - 1)) \div 4 = 0 /\ (1 * (Len(s) - 1)) % 4 = 1
          /\ (3 * (Len(s) - 1)) \div 4 = 0 /\ (3 * (Len(s) - 1)) % 4 = 3
      BY <2>1
    <3>2. 0 + 1 = 1 /\ 1 + 1 = 2 /\ 4 - 1 = 3 /\ 4 - 3 = 1 /\ 1 # 0 /\ 3 # 0
      OBVIOUS
    <3>3. /\ q1 = v(0 + 1) * (4 - 1) + v((0 + 1) + 1) * 1
          /\ q3 = v(0 + 1) * (4 - 3) + v((0 + 1) + 1) * 3
      BY <3>1, <3>2, Zenon DEF Quartile
    <3>4. v(1) \in Nat /\ v(2) \in Nat /\ v(1) <= v(2)
      BY <1>4, <1>5, <2>1
    <3> HIDE DEF v, q1, q3
    <3> QED
      BY <3>2, <3>3, <3>4
  <2>2. CASE n # 2
    <3>1. u1 <= l3
      <4> HIDE DEF n
      <4>1. l1 = (n - 1) \div 4 + 1 /\ l3 = (3 * (n - 1)) \div 4 + 1
            /\ u1 = IF (n - 1) % 4 = 0 THEN l1 ELSE l1 + 1
        <5>1. 1 * (Len(s) - 1) = Len(s) - 1
          BY <1>1 DEF n
        <5> QED
          BY <5>1 DEF Lower, Upper, n
      <4> HIDE DEF l1, l3, u1
      <4> QED
        BY <1>1, <2>2, <4>1
    <3> HIDE DEF n, l1, u1, l3, u3, q1, q3, v
    <3>2. v(u1) <= v(l3) /\ v(u1) \in Nat /\ v(l3) \in Nat
      BY <1>2, <1>4, <1>5, <3>1
    <3> QED
      BY <1>3, <3>2
  <2> QED
    BY <2>1, <2>2
<1>7. 1 \in 1..n /\ n \in 1..n
  BY <1>1
<1> HIDE DEF n, l1, u1, l3, u3, q1, q3, v
<1>8. v(1) <= v(l1) /\ v(u3) <= v(n) /\ v(1) \in Nat /\ v(n) \in Nat /\ v(l1) \in Nat /\ v(u3) \in Nat
  BY <1>2, <1>4, <1>5, <1>7, <1>1
<1>9. q3 - q1 \in 0..(4 * (v(n) - v(1)))
  BY <1>3, <1>6, <1>8
<1> QED
  BY <1>9 DEF n, q1, q3, v

\* The least sample is the first and the greatest the last of the sorted.
LEMMA Extremes ==
  ASSUME NEW s \in Seq(Nat), s # <<>>
  PROVE  LET min == Min(ToSet(s))
             max == Max(ToSet(s))
         IN  /\ min \in ToSet(s) /\ max \in ToSet(s) /\ min \in Nat /\ max \in Nat
             /\ \A i \in DOMAIN s : min <= s[i] /\ s[i] <= max
             /\ min = Sorted(s, 1) /\ max = Sorted(s, Len(s))
<1> DEFINE min == Min(ToSet(s))
           max == Max(ToSet(s))
           first == Sorted(s, 1)
           last == Sorted(s, Len(s))
<1>1. /\ Len(s) \in Nat /\ Len(s) > 0 /\ DOMAIN s = 1..Len(s)
      /\ \A i \in DOMAIN s : s[i] \in Nat /\ s[i] \in ToSet(s)
      /\ \A v \in ToSet(s) : v \in Nat /\ \E i \in DOMAIN s : s[i] = v
  BY SamplesAreFinite, EmptySeq, LenProperties
<1>2. 1 \in 1..Len(s) /\ Len(s) \in 1..Len(s)
  BY <1>1
<1>3. min \in ToSet(s) /\ \A v \in ToSet(s) : min <= v
  <2>1. ToSet(s) \in SUBSET Nat /\ ToSet(s) # {}
    BY <1>1, <1>2
  <2> QED
    BY <2>1, LeastExists
<1>4. max \in ToSet(s) /\ \A v \in ToSet(s) : max >= v
  <2>1. 1..Len(s) # {} /\ 1..Len(s) \subseteq 1..Len(s)
    BY <1>2
  <2>2. PICK i \in 1..Len(s) : \A j \in 1..Len(s) : s[j] <= s[i]
    BY <2>1, GreatestSample
  <2>3. s[i] \in ToSet(s) /\ \A v \in ToSet(s) : s[i] >= v
    BY <1>1, <2>2
  <2> QED
    BY <2>3 DEF Max
<1>5. first \in ToSet(s) /\ first \in Nat /\ Cardinality(Below(s, first)) < 1
  BY <1>2, SortedIs
<1>6. last \in ToSet(s) /\ last \in Nat /\ Cardinality(AtMost(s, last)) >= Len(s)
  BY <1>2, SortedIs
<1> HIDE DEF min, max, first, last
<1>7. min \in Nat /\ max \in Nat
  BY <1>1, <1>3, <1>4
<1>8. first <= min
  <2>1. Below(s, first) \in SUBSET (DOMAIN s)
    BY DEF Below
  <2>2. IsFiniteSet(Below(s, first)) /\ Cardinality(Below(s, first)) \in Nat
    BY <2>1, SamplesAreFinite
  <2>3. Below(s, first) = {}
    BY <1>5, <2>2, FS_EmptySet
  <2>4. PICK i \in DOMAIN s : s[i] = min
    BY <1>1, <1>3
  <2>5. ~(s[i] < first)
    BY <2>3 DEF Below
  <2> QED
    BY <1>5, <1>7, <2>4, <2>5
<1>9. max <= last
  <2>1. AtMost(s, last) \subseteq DOMAIN s
    BY DEF AtMost
  <2>2. /\ Cardinality(AtMost(s, last)) \in Nat /\ Cardinality(AtMost(s, last)) <= Len(s)
        /\ Cardinality(DOMAIN s) = Len(s) /\ IsFiniteSet(DOMAIN s)
    BY <2>1, SamplesAreFinite
  <2>3. Cardinality(AtMost(s, last)) = Cardinality(DOMAIN s)
    BY <1>1, <1>6, <2>2
  <2>4. AtMost(s, last) = DOMAIN s
    BY <2>1, <2>2, <2>3, FS_Subset
  <2>5. PICK i \in DOMAIN s : s[i] = max
    BY <1>1, <1>4
  <2> QED
    BY <2>4, <2>5 DEF AtMost
<1>10. min <= first /\ last <= max
  BY <1>3, <1>4, <1>5, <1>6, <1>7
<1>11. min = first /\ max = last
  BY <1>5, <1>6, <1>7, <1>8, <1>9, <1>10
<1>12. \A i \in DOMAIN s : min <= s[i] /\ s[i] <= max
  BY <1>1, <1>3, <1>4, <1>7
<1> QED
  BY <1>3, <1>4, <1>7, <1>11, <1>12 DEF min, max, first, last

-----------------------------------------------------------------------------
(* The spread of the samples *)

\* A function on 1..n with values in Int is a sequence.
LEMMA FunctionIsSeq ==
  ASSUME NEW n \in Nat, NEW s \in [1..n -> Int]
  PROVE  s \in Seq(Int) /\ Len(s) = n
<1>1. s \in Seq(Int)
  BY SeqDef
<1> QED
  BY <1>1, LenProperties

\* What one sample adds: the squares of its differences from those before, as the loop
\* of the code has their sum and the sum of their squares.
LEMMA GapsOfOne ==
  ASSUME NEW s \in Seq(Nat), NEW g, RunsUp(g, s), NEW q, RunsUp(q, Squares(s)), NEW j \in 1..Len(s)
  PROVE  SumOf([i \in 1..(j - 1) |-> (s[i] - s[j]) * (s[i] - s[j])])
           = q[j - 1] - 2 * s[j] * g[j - 1] + (j - 1) * s[j] * s[j]
<1> DEFINE n == Len(s)
           x == s[j]
           inner == [i \in 1..(j - 1) |-> (s[i] - x) * (s[i] - x)]
           f == [k \in 0..(j - 1) |-> q[k] - 2 * x * g[k] + k * x * x]
<1>1. n \in Nat /\ DOMAIN s = 1..n /\ \A k \in 1..n : s[k] \in Nat
  BY LenProperties, ElementOfSeq
<1>2. DOMAIN Squares(s) = 1..n /\ \A k \in 1..n : Squares(s)[k] = s[k] * s[k]
  BY <1>1 DEF Squares
<1>3. Len(Squares(s)) = n
  <2>1. Squares(s) \in [1..n -> Int]
    <3>1. \A k \in 1..n : s[k] * s[k] \in Int
      BY <1>1
    <3> QED
      BY <1>1, <3>1 DEF Squares
  <2> QED
    BY <1>1, <2>1, FunctionIsSeq
<1>4. /\ g[0] = 0 /\ \A k \in 0..n : g[k] \in Int
      /\ \A k \in 1..n : g[k] = g[k - 1] + s[k]
      /\ q[0] = 0 /\ \A k \in 0..n : q[k] \in Int
      /\ \A k \in 1..n : q[k] = q[k - 1] + s[k] * s[k]
  BY <1>2, <1>3 DEF RunsUp
<1>5. x \in Int /\ j \in Nat /\ j - 1 \in Nat /\ j - 1 < n /\ 0 \in 0..(j - 1) /\ j - 1 \in 0..(j - 1)
  BY <1>1
<1>6. inner \in [1..(j - 1) -> Int] /\ \A i \in 1..(j - 1) : inner[i] = (s[i] - x) * (s[i] - x)
  <2>1. ASSUME NEW i \in 1..(j - 1)
        PROVE  (s[i] - x) * (s[i] - x) \in Int
    <3>1. s[i] \in Int
      BY <1>1, <1>5
    <3> HIDE DEF x
    <3> QED
      BY <1>5, <3>1
  <2> QED
    BY <2>1
<1>7. inner \in Seq(Int) /\ Len(inner) = j - 1
  BY <1>5, <1>6, FunctionIsSeq
<1> HIDE DEF n, x, inner
<1>8. f \in [0..(j - 1) -> Int]
  <2>1. ASSUME NEW k \in 0..(j - 1)
        PROVE  q[k] - 2 * x * g[k] + k * x * x \in Int
    <3> DEFINE a == q[k]
               b == g[k]
    <3>1. a \in Int /\ b \in Int /\ k \in Int
      <4>1. k \in 0..n
        BY <1>1, <1>5
      <4> QED
        BY <1>4, <4>1
    <3> HIDE DEF a, b
    <3>2. a - 2 * x * b + k * x * x \in Int
      BY <1>5, <3>1
    <3> QED
      BY <3>2 DEF a, b
  <2> QED
    BY <2>1
<1>9. f[0] = 0
  <2>1. f[0] = 0 - 2 * x * 0 + 0 * x * x
    BY <1>4, <1>5
  <2> QED
    BY <1>5, <2>1
<1>10. ASSUME NEW k \in 1..(j - 1)
       PROVE  f[k] = f[k - 1] + inner[k]
  <2>1. k \in 1..n /\ k \in 0..(j - 1) /\ k - 1 \in 0..(j - 1) /\ k - 1 \in 0..n /\ k \in Nat
    BY <1>1, <1>5
  <2> DEFINE a == q[k - 1]
             b == g[k - 1]
             y == s[k]
  <2>2. a \in Int /\ b \in Int /\ y \in Int
    <3>1. s[k] \in Int
      BY <1>1, <2>1
    <3>2. q[k - 1] \in Int /\ g[k - 1] \in Int
      BY <1>4, <2>1
    <3> QED
      BY <3>1, <3>2
  <2>3. /\ f[k] = (a + y * y) - 2 * x * (b + y) + k * x * x
        /\ f[k - 1] = a - 2 * x * b + (k - 1) * x * x
        /\ inner[k] = (y - x) * (y - x)
    BY <1>4, <1>6, <2>1
  <2> HIDE DEF f, a, b, y
  <2>4. (a + y * y) - 2 * x * (b + y) + k * x * x
          = (a - 2 * x * b + (k - 1) * x * x) + (y - x) * (y - x)
    BY <1>5, <2>1, <2>2
  <2> QED
    BY <2>3, <2>4
<1>11. f[j - 1] = q[j - 1] - 2 * x * g[j - 1] + (j - 1) * x * x
  BY <1>5
<1> HIDE DEF f
<1>12. RunsUp(f, inner)
  BY <1>7, <1>8, <1>9, <1>10 DEF RunsUp
<1>13. SumOf(inner) = f[j - 1]
  BY <1>7, <1>12, SumIsLast
<1> QED
  BY <1>11, <1>13 DEF inner, x

\* n times the sum of squares less the square of the sum is what any two samples
\* differ by, squared and added up.
LEMMA SpreadIs ==
  ASSUME NEW s \in Seq(Nat)
  PROVE  Len(s) * SumOf(Squares(s)) - SumOf(s) * SumOf(s) = Spread(s)
<1> DEFINE n == Len(s)
           outer == [j \in DOMAIN s |-> SumOf([i \in 1..(j - 1) |-> (s[i] - s[j]) * (s[i] - s[j])])]
<1>1. n \in Nat /\ DOMAIN s = 1..n /\ \A k \in 1..n : s[k] \in Nat
  BY LenProperties, ElementOfSeq
<1>2. s \in Seq(Int) /\ Squares(s) \in Seq(Int) /\ Len(Squares(s)) = n
  <2>1. \A k \in 1..n : s[k] * s[k] \in Int
    BY <1>1
  <2>2. Squares(s) \in [1..n -> Int]
    BY <1>1, <2>1 DEF Squares
  <2>3. s \in [1..n -> Int]
    BY <1>1, LenProperties
  <2> QED
    BY <1>1, <2>2, <2>3, FunctionIsSeq
<1>3. PICK g : RunsUp(g, s)
  BY <1>2, RunningSumExists
<1>4. PICK q : RunsUp(q, Squares(s))
  BY <1>2, RunningSumExists
<1>5. /\ g[0] = 0 /\ \A k \in 0..n : g[k] \in Int
      /\ \A k \in 1..n : g[k] = g[k - 1] + s[k]
      /\ q[0] = 0 /\ \A k \in 0..n : q[k] \in Int
      /\ \A k \in 1..n : q[k] = q[k - 1] + s[k] * s[k]
  BY <1>1, <1>2, <1>3, <1>4 DEF RunsUp, Squares
<1>6. \A j \in 1..n : outer[j] = q[j - 1] - 2 * s[j] * g[j - 1] + (j - 1) * s[j] * s[j]
  BY <1>1, <1>3, <1>4, GapsOfOne
<1> HIDE DEF n
<1> DEFINE f == [k \in 0..n |-> k * q[k] - g[k] * g[k]]
<1>7. f \in [0..n -> Int]
  <2>1. ASSUME NEW k \in 0..n
        PROVE  k * q[k] - g[k] * g[k] \in Int
    BY <1>5
  <2> QED
    BY <2>1
<1>8. f[0] = 0 /\ f[n] = n * q[n] - g[n] * g[n]
  <2>1. 0 \in 0..n /\ n \in 0..n
    BY <1>1
  <2>2. f[0] = 0 * 0 - 0 * 0
    BY <1>5, <2>1
  <2> QED
    BY <2>1, <2>2
<1>9. ASSUME NEW j \in 1..n
      PROVE  f[j] = f[j - 1] + outer[j]
  <2>1. j \in 0..n /\ j - 1 \in 0..n /\ j \in Nat
    BY <1>1
  <2> DEFINE a == q[j - 1]
             b == g[j - 1]
             y == s[j]
  <2>2. a \in Int /\ b \in Int /\ y \in Int
    BY <1>1, <1>5, <2>1
  <2>3. /\ f[j] = j * (a + y * y) - (b + y) * (b + y)
        /\ f[j - 1] = (j - 1) * a - b * b
        /\ outer[j] = a - 2 * y * b + (j - 1) * y * y
    BY <1>5, <1>6, <2>1
  <2> HIDE DEF f, outer, a, b, y
  <2>4. j * (a + y * y) - (b + y) * (b + y)
          = ((j - 1) * a - b * b) + (a - 2 * y * b + (j - 1) * y * y)
    BY <2>1, <2>2
  <2> QED
    BY <2>3, <2>4
<1>10. outer \in [1..n -> Int]
  <2>1. \A j \in 1..n : outer[j] \in Int
    <3>1. ASSUME NEW j \in 1..n
          PROVE  outer[j] \in Int
      <4>1. j - 1 \in 0..n /\ j \in Int /\ s[j] \in Int
        BY <1>1
      <4>2. q[j - 1] \in Int /\ g[j - 1] \in Int
        BY <1>5, <4>1
      <4> DEFINE a == q[j - 1]
                 b == g[j - 1]
                 y == s[j]
      <4>3. a \in Int /\ b \in Int /\ y \in Int
        BY <4>1, <4>2
      <4>4. outer[j] = a - 2 * y * b + (j - 1) * y * y
        BY <1>6
      <4> HIDE DEF a, b, y, outer
      <4> QED
        BY <4>1, <4>3, <4>4
    <3> QED
      BY <3>1
  <2> QED
    BY <1>1, <2>1
<1>11. outer \in Seq(Int) /\ Len(outer) = n
  BY <1>1, <1>10, FunctionIsSeq
<1>12. Spread(s) = SumOf(outer)
  BY DEF Spread
<1> HIDE DEF f, outer
<1>13. RunsUp(f, outer)
  BY <1>7, <1>8, <1>9, <1>11 DEF RunsUp
<1>14. SumOf(outer) = f[n] /\ SumOf(s) = g[n] /\ SumOf(Squares(s)) = q[n]
  BY <1>2, <1>3, <1>4, <1>11, <1>13, SumIsLast DEF n
<1> QED
  BY <1>8, <1>12, <1>14 DEF n

-----------------------------------------------------------------------------
(* UpdateTimingStatistics *)

Fields == {"n_measurements", "total", "spread", "min", "max", "median", "iqr", "checksum", "status"}

\* What UpdateTimingStatistics has written for samples s, if there are any.
IsUpdated(r, s) ==
  /\ r.n_measurements = Len(s)
  /\ r.total = SumOf(s)
  /\ r.spread = Len(s) * SumOf(Squares(s)) - SumOf(s) * SumOf(s)
  /\ r.min = Min(ToSet(s)) /\ r.max = Max(ToSet(s))
  /\ r.median = Quartile(s, 2)
  /\ r.iqr = Quartile(s, 3) - Quartile(s, 1)

\* It writes the statistics and nothing else.
LEMMA UpdateWrites ==
  ASSUME NEW r, DOMAIN r = Fields, NEW s, s # <<>>
  PROVE  LET u == UpdateTimingStatistics(r, s)
         IN  /\ DOMAIN u = Fields /\ IsUpdated(u, s)
             /\ u.checksum = r.checksum /\ u.status = r.status
<1> DEFINE u == UpdateTimingStatistics(r, s)
           spread == Len(s) * SumOf(Squares(s)) - SumOf(s) * SumOf(s)
           iqr == Quartile(s, 3) - Quartile(s, 1)
<1>1. u = [r EXCEPT !.n_measurements = Len(s), !.total = SumOf(s), !.spread = spread,
                    !.min = Min(ToSet(s)), !.max = Max(ToSet(s)),
                    !.median = Quartile(s, 2), !.iqr = iqr]
  BY DEF UpdateTimingStatistics
<1> HIDE DEF u, spread, iqr
<1>2. /\ DOMAIN u = Fields
      /\ u.n_measurements = Len(s) /\ u.total = SumOf(s) /\ u.spread = spread
      /\ u.min = Min(ToSet(s)) /\ u.max = Max(ToSet(s))
      /\ u.median = Quartile(s, 2) /\ u.iqr = iqr
      /\ u.checksum = r.checksum /\ u.status = r.status
  BY <1>1 DEF Fields
<1> QED
  BY <1>2 DEF IsUpdated, u, spread, iqr

\* What it has written describes the samples.
LEMMA UpdatedDescribes ==
  ASSUME NEW s \in Seq(Nat), s # <<>>, NEW r, IsUpdated(r, s)
  PROVE  Describes(r, s)
<1>1. r.n_measurements = Len(s) /\ r.spread = Spread(s)
  BY SpreadIs DEF IsUpdated
<1>2. /\ r.min \in ToSet(s) /\ r.max \in ToSet(s) /\ r.min \in Nat /\ r.max \in Nat
      /\ \A i \in DOMAIN s : r.min <= s[i] /\ s[i] <= r.max
      /\ r.min = Sorted(s, 1) /\ r.max = Sorted(s, Len(s))
  BY Extremes DEF IsUpdated
<1>3. \A i \in DOMAIN s : s[i] \in r.min..r.max
  <2>1. \A i \in DOMAIN s : s[i] \in Int
    BY SamplesAreFinite
  <2> QED
    BY <1>2, <2>1
<1>4. r.total \in (Len(s) * r.min)..(Len(s) * r.max)
  <2>1. r.total = SumOf(s)
    BY DEF IsUpdated
  <2>2. Len(s) * r.min <= SumOf(s) /\ SumOf(s) <= Len(s) * r.max
    BY <1>2, SumIsBetween
  <2>3. s \in Seq(Int) /\ Len(s) \in Nat
    <3>1. \A k \in 1..Len(s) : s[k] \in Int
      BY ElementOfSeq
    <3>2. s \in [1..Len(s) -> Int] /\ Len(s) \in Nat
      BY <3>1, LenProperties
    <3> QED
      BY <3>2, FunctionIsSeq
  <2>4. SumOf(s) \in Int
    BY <2>3, SumType
  <2> QED
    BY <2>1, <2>2, <2>4
<1>5. IsMedian(r.median, s)
  BY MedianHalves DEF IsUpdated
<1>6. r.iqr \in 0..(4 * (r.max - r.min))
  <2>1. r.iqr = Quartile(s, 3) - Quartile(s, 1)
    BY DEF IsUpdated
  <2> QED
    BY <1>2, <2>1, RangeOfQuartiles
<1> QED
  BY <1>1, <1>2, <1>3, <1>4, <1>5, <1>6 DEF Describes

\* And the test of the interval is the one the samples call for.
LEMMA UpdatedTests ==
  ASSUME NEW s \in Seq(Nat), s # <<>>, NEW r, IsUpdated(r, s)
  PROVE  Precise(r, settings.target_ci95_relative) <=> PreciseFor(s)
<1>1. r.n_measurements = Len(s) /\ r.total = SumOf(s) /\ r.spread = Spread(s)
  BY SpreadIs DEF IsUpdated
<1>2. Len(s) > 1 <=> Len(s) >= 2
  BY LenProperties
<1> QED
  BY <1>1, <1>2, Zenon DEF Precise, PreciseFor

-----------------------------------------------------------------------------
(* The state of the measurement *)

Typed ==
  /\ at \in {"calibrate", "warmup", "measure", "end"}
  /\ settings \in Settings
  /\ block_size \in Nat
  /\ warmed \in Nat
  /\ measurements \in Seq(Nat)
  /\ checksum \in Nat
  /\ tried \in Seq([block_size : Nat, elapsed : Nat])
  /\ DOMAIN result = Fields

LEMMA SettingsAreTyped ==
  ASSUME Typed
  PROVE  /\ settings.warmup \in Nat /\ settings.min_measurements \in Nat
         /\ settings.max_measurements \in Nat /\ settings.max_block_size \in Nat
  BY SettingsAssumption DEF Typed

LEMMA NextBlockIsTyped ==
  ASSUME Typed
  PROVE  NextBlockSize \in Nat
<1> DEFINE wrapped == (block_size * 10) % SizeValues
<1>1. wrapped \in Nat
  <2>1. block_size * 10 \in Nat /\ SizeValues \in Nat \ {0}
    BY SizeAssumption DEF Typed
  <2> DEFINE product == block_size * 10
  <2>2. product \in Nat
    BY <2>1
  <2> HIDE DEF product
  <2>3. product % SizeValues \in Nat
    BY <2>1, <2>2
  <2> QED
    BY <2>3 DEF product
<1>2. settings.max_block_size \in Nat
  BY SettingsAreTyped
<1> QED
  BY <1>1, <1>2 DEF NextBlockSize, Least

LEMMA InitIsTyped == Init => Typed
  BY EmptySeq DEF Init, Typed, NotRun, Fields

\* What Return writes.
LEMMA ReturnWrites ==
  ASSUME NEW r, DOMAIN r = Fields, Return(r)
  PROVE  /\ at' = "end" /\ DOMAIN result' = Fields
         /\ result'.checksum = checksum' /\ result'.status = r.status
         /\ \A s : IsUpdated(r, s) => IsUpdated(result', s)
         /\ result'.n_measurements = r.n_measurements /\ result'.spread = r.spread
  BY DEF Return, Fields, IsUpdated

\* A status that is set leaves the statistics alone.
LEMMA StatusWrites ==
  ASSUME NEW r, DOMAIN r = Fields, NEW status
  PROVE  LET u == [r EXCEPT !.status = status]
         IN  /\ DOMAIN u = Fields /\ u.status = status
             /\ \A s : IsUpdated(r, s) => IsUpdated(u, s)
             /\ u.n_measurements = r.n_measurements /\ u.spread = r.spread
  BY DEF Fields, IsUpdated

LEMMA UpdateIsTyped ==
  ASSUME NEW r, DOMAIN r = Fields, NEW s
  PROVE  DOMAIN UpdateTimingStatistics(r, s) = Fields
<1>1. CASE s = <<>>
  BY <1>1 DEF UpdateTimingStatistics
<1>2. CASE s # <<>>
  BY <1>2, UpdateWrites
<1> QED
  BY <1>1, <1>2

LEMMA StepIsTyped ==
  ASSUME Typed, [Next]_vars
  PROVE  Typed'
<1> USE DEF Typed
<1>1. CASE ChooseTimingBlockSize
  <2>1. PICK elapsed \in Elapsed :
          /\ tried' = Append(tried, [block_size |-> block_size, elapsed |-> elapsed])
          /\ IF BlockIsChosen(elapsed) THEN at' = "warmup" /\ UNCHANGED block_size
                                       ELSE block_size' = NextBlockSize /\ UNCHANGED at
    BY <1>1 DEF ChooseTimingBlockSize
  <2>2. [block_size |-> block_size, elapsed |-> elapsed] \in [block_size : Nat, elapsed : Nat]
    BY ElapsedAssumption
  <2>3. tried' \in Seq([block_size : Nat, elapsed : Nat])
    BY <2>1, <2>2, AppendProperties
  <2>4. block_size' \in Nat /\ at' \in {"calibrate", "warmup"}
    BY <1>1, <2>1, NextBlockIsTyped DEF ChooseTimingBlockSize
  <2> QED
    BY <1>1, <2>3, <2>4 DEF ChooseTimingBlockSize, RunTimingBlock
<1>2. CASE WarmUp
  BY <1>2 DEF WarmUp, RunTimingBlock
<1>3. CASE WarmUpEnds
  BY <1>3 DEF WarmUpEnds
<1>4. CASE Measure
  <2>1. PICK elapsed \in Elapsed : measurements' = Append(measurements, elapsed)
    BY <1>4 DEF Measure
  <2>2. measurements' \in Seq(Nat)
    BY <2>1, ElapsedAssumption, AppendProperties
  <2>3. checksum' \in Nat
    BY <1>4 DEF Measure, RunTimingBlock
  <2> DEFINE r == UpdateTimingStatistics(result, measurements')
             u == [r EXCEPT !.status = "converged"]
  <2>4. DOMAIN r = Fields /\ DOMAIN u = Fields
    BY UpdateIsTyped, StatusWrites
  <2>5. (UNCHANGED <<at, result>>) \/ Return(u) \/ (result' = r /\ UNCHANGED at)
    BY <1>4 DEF Measure
  <2> HIDE DEF r, u
  <2>6. DOMAIN result' = Fields /\ at' \in {"measure", "end"}
    <3>1. CASE UNCHANGED <<at, result>>
      BY <1>4, <3>1 DEF Measure
    <3>2. CASE Return(u)
      BY <2>4, <3>2, ReturnWrites
    <3>3. CASE result' = r /\ UNCHANGED at
      BY <1>4, <2>4, <3>3 DEF Measure
    <3> QED
      BY <2>5, <3>1, <3>2, <3>3
  <2> QED
    BY <1>4, <2>2, <2>3, <2>6 DEF Measure
<1>5. CASE MeasurementsUsedUp
  <2> DEFINE r == AtTheEnd(result)
             u == [r EXCEPT !.status = "max_measurements"]
  <2>1. DOMAIN u = Fields
    BY UpdateIsTyped, StatusWrites DEF AtTheEnd
  <2>2. Return(u)
    BY <1>5 DEF MeasurementsUsedUp
  <2> HIDE DEF u
  <2>3. at' = "end" /\ DOMAIN result' = Fields
    BY <2>1, <2>2, ReturnWrites
  <2> QED
    BY <1>5, <2>3 DEF MeasurementsUsedUp
<1>6. CASE Fail
  BY <1>6 DEF Fail
<1>7. CASE UNCHANGED vars
  BY <1>7 DEF vars
<1> QED
  BY <1>1, <1>2, <1>3, <1>4, <1>5, <1>6, <1>7 DEF Next

-----------------------------------------------------------------------------
(* The block size *)

\* Ten times a block that is still below its limit is a Size: MeasureBenchmark
\* multiplies without looking.  With a Size of 64 bits every limit below 10^18 is
\* such; the default is 10000.
TenTimesIsASize == \A s \in Settings : 10 * (s.max_block_size - 1) < SizeValues

TooShort(elapsed) == ~LongEnough(elapsed)

Limited ==
  /\ settings \in Settings
  /\ block_size \in Nat \ {0}
  /\ block_size = 1 \/ block_size <= settings.max_block_size

Growing ==
  at = "calibrate" =>
    \A k \in DOMAIN tried : tried[k].block_size < block_size /\ TooShort(tried[k].elapsed)

Unreported == at = "calibrate" => result = NotRun

IInv == Typed /\ Limited /\ Growing /\ Unreported /\ BlockIsJustified

-----------------------------------------------------------------------------

\* Nothing has been tried at the start.
LEMMA InitIsInv == Init => IInv
<1> SUFFICES ASSUME Init
             PROVE  IInv
  OBVIOUS
<1>1. Typed
  BY InitIsTyped
<1>2. DOMAIN tried = {}
  BY DEF Init
<1> QED
  BY <1>1, <1>2 DEF Init, IInv, Limited, Growing, Unreported, BlockIsJustified, Returned, NotRun

\* The next block is larger, and within the limit: this is where the product must
\* not wrap.
LEMMA NextBlockIsLarger ==
  ASSUME TenTimesIsASize, Limited, block_size < settings.max_block_size
  PROVE  /\ NextBlockSize \in Nat
         /\ block_size < NextBlockSize /\ NextBlockSize <= settings.max_block_size
<1> DEFINE max == settings.max_block_size
<1>1. max \in Nat /\ 10 * (max - 1) < SizeValues
  BY SettingsAssumption DEF Limited, TenTimesIsASize
<1>2. block_size \in Nat \ {0} /\ SizeValues \in Nat \ {0}
  BY SizeAssumption DEF Limited
<1> HIDE DEF max
<1>3. block_size <= max - 1
  BY <1>1, <1>2 DEF max
<1>4. 10 * block_size < SizeValues
  BY <1>1, <1>2, <1>3
<1>5. (block_size * 10) % SizeValues = 10 * block_size
  BY <1>2, <1>4
<1>6. NextBlockSize = Least(10 * block_size, max)
  BY <1>5 DEF NextBlockSize, max
<1>7. block_size < 10 * block_size
  BY <1>2
<1> QED
  BY <1>1, <1>2, <1>3, <1>6, <1>7 DEF Least, max

\* A step that leaves the block alone leaves the choice alone: it has been made, or
\* the measurement ends without a result.
LEMMA ChoiceStands ==
  ASSUME IInv, Typed', UNCHANGED <<settings, block_size, tried>>, at' \in {"warmup", "measure", "end"},
         at \in {"warmup", "measure"} \/ (at = "calibrate" /\ at' = "end" /\ UNCHANGED result)
  PROVE  IInv'
<1>1. Limited' /\ Growing' /\ Unreported'
  BY DEF IInv, Limited, Growing, Unreported
<1>2. CASE at = "calibrate" /\ at' = "end" /\ UNCHANGED result
  <2>1. ~Returned'
    BY <1>2 DEF IInv, Unreported, NotRun, Returned
  <2> QED
    BY <1>1, <1>2, <2>1 DEF IInv, BlockIsJustified
<1>3. CASE at \in {"warmup", "measure"}
  BY <1>1, <1>3 DEF IInv, BlockIsJustified, LongEnough
<1> QED
  BY <1>2, <1>3

-----------------------------------------------------------------------------

\* Calibration either keeps the block, which then was long enough or at the limit,
\* or notes it as too short and goes on to a larger one.
LEMMA CalibrationPreservesInv ==
  ASSUME TenTimesIsASize, IInv, Typed', ChooseTimingBlockSize
  PROVE  IInv'
<1> DEFINE max == settings.max_block_size
           n == Len(tried)
<1>1. PICK elapsed \in Elapsed :
        /\ tried' = Append(tried, [block_size |-> block_size, elapsed |-> elapsed])
        /\ IF BlockIsChosen(elapsed) THEN at' = "warmup" /\ UNCHANGED block_size
                                     ELSE block_size' = NextBlockSize /\ UNCHANGED at
  BY DEF ChooseTimingBlockSize
<1>2. at = "calibrate" /\ UNCHANGED <<settings, result>>
  BY DEF ChooseTimingBlockSize
<1>3. /\ Limited /\ result = NotRun
      /\ \A k \in DOMAIN tried : tried[k].block_size < block_size /\ TooShort(tried[k].elapsed)
  BY <1>2 DEF IInv, Growing, Unreported
<1>4. block_size \in Nat \ {0} /\ max \in Nat
  BY <1>3, SettingsAssumption DEF Limited
<1>5. /\ n \in Nat /\ Len(tried') = n + 1 /\ DOMAIN tried = 1..n /\ DOMAIN tried' = 1..(n + 1)
      /\ \A k \in 1..n : tried'[k] = tried[k] /\ tried[k].block_size \in Nat
      /\ tried'[n + 1] = [block_size |-> block_size, elapsed |-> elapsed]
  <2>1. tried \in Seq([block_size : Nat, elapsed : Nat])
    BY DEF IInv, Typed
  <2>2. [block_size |-> block_size, elapsed |-> elapsed] \in [block_size : Nat, elapsed : Nat]
    BY <1>4, ElapsedAssumption
  <2>3. \A k \in 1..n : tried[k] \in [block_size : Nat, elapsed : Nat]
    BY <2>1, ElementOfSeq
  <2> QED
    BY <1>1, <2>1, <2>2, <2>3, AppendProperties, LenProperties
<1> HIDE DEF n
<1>6. CASE BlockIsChosen(elapsed)
  <2>1. at' = "warmup" /\ UNCHANGED block_size
    BY <1>1, <1>6
  <2>2. Limited' /\ Growing' /\ Unreported'
    BY <1>2, <1>3, <2>1 DEF Limited, Growing, Unreported
  <2>3. LongEnough(elapsed)' \/ block_size >= max
    BY <1>2, <1>6 DEF BlockIsChosen, LongEnough
  <2>4. ASSUME NEW k \in DOMAIN tried'
        PROVE  (IF k = Len(tried)
                THEN /\ tried[k].block_size = block_size
                     /\ LongEnough(tried[k].elapsed) \/ block_size >= settings.max_block_size
                ELSE tried[k].block_size < block_size /\ ~LongEnough(tried[k].elapsed))'
    <3>1. CASE k \in 1..n
      BY <1>2, <1>3, <1>5, <2>1, <3>1 DEF TooShort, LongEnough
    <3>2. CASE k = n + 1
      BY <1>2, <1>5, <2>1, <2>3, <3>2
    <3> QED
      BY <1>5, <3>1, <3>2
  <2>5. tried' # <<>>
    BY <1>5
  <2> QED
    BY <2>2, <2>4, <2>5 DEF IInv, BlockIsJustified, Limited
<1>7. CASE ~BlockIsChosen(elapsed)
  <2>1. at' = "calibrate" /\ block_size' = NextBlockSize
    BY <1>1, <1>2, <1>7
  <2>2. block_size < max /\ TooShort(elapsed)
    BY <1>4, <1>7 DEF BlockIsChosen, TooShort
  <2>3. NextBlockSize \in Nat /\ block_size < NextBlockSize /\ NextBlockSize <= max
    BY <1>3, <2>2, NextBlockIsLarger
  <2>4. Limited' /\ Unreported'
    BY <1>2, <1>3, <1>4, <2>1, <2>3 DEF Limited, Unreported
  <2>5. ASSUME NEW k \in DOMAIN tried'
        PROVE  (tried[k].block_size < block_size /\ TooShort(tried[k].elapsed))'
    <3>1. /\ tried'[k].block_size \in Nat /\ tried'[k].block_size <= block_size
          /\ TooShort(tried'[k].elapsed)
      <4>1. CASE k \in 1..n
        BY <1>3, <1>4, <1>5, <4>1
      <4>2. CASE k = n + 1
        BY <1>4, <1>5, <2>2, <4>2
      <4> QED
        BY <1>5, <4>1, <4>2
    <3> QED
      BY <1>2, <1>4, <2>1, <2>3, <3>1 DEF TooShort, LongEnough
  <2>6. ~Returned'
    BY <1>2, <1>3, <2>1 DEF Returned
  <2> QED
    BY <2>1, <2>4, <2>5, <2>6 DEF IInv, Growing, BlockIsJustified
<1> QED
  BY <1>6, <1>7

\* No other step touches the block.
LEMMA StepPreservesInv ==
  ASSUME TenTimesIsASize, IInv, [Next]_vars
  PROVE  IInv'
<1>0. Typed'
  BY StepIsTyped DEF IInv
<1>1. CASE ChooseTimingBlockSize
  BY <1>0, <1>1, CalibrationPreservesInv
<1>2. CASE WarmUp
  BY <1>0, <1>2, ChoiceStands DEF WarmUp
<1>3. CASE WarmUpEnds
  BY <1>0, <1>3, ChoiceStands DEF WarmUpEnds
<1>4. CASE Measure
  <2>1. at = "measure" /\ UNCHANGED <<settings, block_size, tried>>
    BY <1>4 DEF Measure
  <2>2. at' \in {"measure", "end"}
    BY <1>4, <2>1 DEF Measure, Return
  <2> QED
    BY <1>0, <2>1, <2>2, ChoiceStands
<1>5. CASE MeasurementsUsedUp
  BY <1>0, <1>5, ChoiceStands DEF MeasurementsUsedUp, Return
<1>6. CASE Fail
  <2>1. at # "end" /\ at' = "end" /\ UNCHANGED <<settings, block_size, tried>> /\ UNCHANGED result
    BY <1>6 DEF Fail
  <2>2. at \in {"warmup", "measure"} \/ at = "calibrate"
    BY <2>1 DEF IInv, Typed
  <2> QED
    BY <1>0, <2>1, <2>2, ChoiceStands
<1>7. CASE UNCHANGED vars
  BY <1>0, <1>7 DEF vars, IInv, Limited, Growing, Unreported, BlockIsJustified, Returned, TooShort, LongEnough
<1> QED
  BY <1>1, <1>2, <1>3, <1>4, <1>5, <1>6, <1>7 DEF Next

\* The block that is measured with is within its limit; it took long enough, unless
\* it is at the limit; and every smaller block that MeasureBenchmark tried did not:
\* whatever the settings and however the clock runs, if ten times a block below the
\* limit is a Size.
THEOREM BlockIsAlwaysJustified ==
  ASSUME TenTimesIsASize
  PROVE  Spec => []BlockIsJustified
<1>1. Init => IInv
  BY InitIsInv
<1>2. IInv /\ [Next]_vars => IInv'
  BY StepPreservesInv
<1>3. IInv => BlockIsJustified
  BY DEF IInv
<1> QED
  BY <1>1, <1>2, <1>3, PTL DEF Spec

-----------------------------------------------------------------------------
(* The result *)

\* The kernel has run once for every call in the blocks so far.
Counted ==
  /\ at # "end" => checksum = (warmed + Len(measurements)) * block_size + SumOf(BlockSizes)
  /\ at = "calibrate" => warmed = 0
  /\ at \in {"calibrate", "warmup"} => measurements = <<>>
  /\ warmed <= settings.warmup
  /\ at = "measure" => warmed = settings.warmup

\* Nothing has been decided, and without samples nothing written.
Pending == at # "end" => result.status = "not_run" /\ (measurements = <<>> => result = NotRun)

\* Every sample from the minimum on has been tested, and in vain.
Sampling ==
  at # "end" => /\ Len(measurements) <= settings.max_measurements
                /\ \A n \in 1..Len(measurements) : n >= settings.min_measurements => ~PreciseAfter(n)

Ended == ResultIsOfAllSamples /\ ConvergedIsJustified

RInv == Typed /\ Counted /\ Pending /\ Sampling /\ Ended

\* The sizes of the blocks are numbers, and a block that is tried adds its size.
LEMMA BlockSizesAreNumbers ==
  ASSUME Typed
  PROVE  BlockSizes \in Seq(Int) /\ Len(BlockSizes) = Len(tried)
<1>1. Len(tried) \in Nat /\ DOMAIN tried = 1..Len(tried)
  BY LenProperties DEF Typed
<1>2. \A k \in 1..Len(tried) : tried[k] \in [block_size : Nat, elapsed : Nat]
  BY ElementOfSeq DEF Typed
<1>3. BlockSizes \in [1..Len(tried) -> Int]
  BY <1>1, <1>2 DEF BlockSizes
<1> QED
  BY <1>1, <1>3, FunctionIsSeq

LEMMA BlockSizesGrow ==
  ASSUME Typed, Typed', NEW elapsed,
         tried' = Append(tried, [block_size |-> block_size, elapsed |-> elapsed])
  PROVE  SumOf(BlockSizes') = SumOf(BlockSizes) + block_size
<1> DEFINE n == Len(tried)
           e == [block_size |-> block_size, elapsed |-> elapsed]
<1>1. BlockSizes \in Seq(Int) /\ Len(BlockSizes) = n
  BY BlockSizesAreNumbers
<1>2. BlockSizes' \in Seq(Int) /\ Len(BlockSizes') = Len(tried')
  <2>1. Len(tried') \in Nat /\ DOMAIN tried' = 1..Len(tried')
    BY LenProperties DEF Typed
  <2>2. \A k \in 1..Len(tried') : tried'[k] \in [block_size : Nat, elapsed : Nat]
    BY ElementOfSeq DEF Typed
  <2>3. BlockSizes' \in [1..Len(tried') -> Int]
    BY <2>1, <2>2 DEF BlockSizes
  <2> QED
    BY <2>1, <2>3, FunctionIsSeq
<1>3. block_size \in Int /\ n \in Nat /\ DOMAIN tried = 1..n
  BY LenProperties DEF Typed
<1>4. /\ Len(tried') = n + 1 /\ DOMAIN tried' = 1..(n + 1) /\ tried'[n + 1] = e
      /\ \A k \in 1..n : tried'[k] = tried[k]
  <2>1. tried \in Seq([block_size : Nat, elapsed : Nat] \cup {e})
    <3>1. \A k \in 1..n : tried[k] \in [block_size : Nat, elapsed : Nat]
      BY ElementOfSeq DEF Typed
    <3>2. tried = [k \in 1..n |-> tried[k]]
      BY LenProperties DEF Typed
    <3> QED
      BY <1>3, <3>1, <3>2, IsASeq
  <2>2. e \in [block_size : Nat, elapsed : Nat] \cup {e}
    OBVIOUS
  <2>3. tried' \in Seq([block_size : Nat, elapsed : Nat])
    BY DEF Typed
  <2> QED
    BY <1>3, <2>1, <2>2, <2>3, AppendProperties, LenProperties
<1> DEFINE t == Append(BlockSizes, block_size)
<1>5. /\ t \in Seq(Int) /\ Len(t) = n + 1 /\ t[n + 1] = block_size
      /\ \A k \in 1..n : t[k] = BlockSizes[k]
  BY <1>1, <1>3, AppendProperties
<1> HIDE DEF t, n
<1>6. \A k \in 1..(n + 1) : BlockSizes'[k] = t[k]
  <2>1. ASSUME NEW k \in 1..n
        PROVE  BlockSizes'[k] = t[k]
    BY <1>3, <1>4, <1>5 DEF BlockSizes
  <2>2. BlockSizes'[n + 1] = t[n + 1]
    BY <1>3, <1>4, <1>5 DEF BlockSizes
  <2>3. \A k \in 1..(n + 1) : k \in 1..n \/ k = n + 1
    BY <1>3 DEF n
  <2> QED
    BY <2>1, <2>2, <2>3
<1>7. BlockSizes' = t
  BY <1>2, <1>4, <1>5, <1>6, SeqEqual
<1> QED
  BY <1>1, <1>3, <1>7, SumOfAppend DEF t

\* What a test finds does not depend on what is sampled later.
LEMMA EarlierTestsStand ==
  ASSUME NEW s \in Seq(Nat), NEW x \in Nat, NEW n \in 1..Len(s)
  PROVE  SubSeq(Append(s, x), 1, n) = SubSeq(s, 1, n)
<1>1. /\ Append(s, x) \in Seq(Nat) /\ Len(Append(s, x)) = Len(s) + 1 /\ Len(s) \in Nat
      /\ \A k \in 1..Len(s) : Append(s, x)[k] = s[k]
  BY AppendProperties, LenProperties
<1>2. n \in 0..Len(s) /\ n \in 0..Len(Append(s, x)) /\ 1..n \subseteq 1..Len(s)
  BY <1>1
<1>3. SubSeq(Append(s, x), 1, n) = Restrict(Append(s, x), 1..n) /\ SubSeq(s, 1, n) = Restrict(s, 1..n)
  BY <1>1, <1>2, SubSeqRestrict
<1> QED
  BY <1>1, <1>2, <1>3 DEF Restrict

\* Nothing has been added up at the start.
LEMMA SumOfNone == SumOf(<<>>) = 0
<1>1. <<>> \in Seq(Int) /\ Len(<<>>) = 0
  BY EmptySeq
<1>2. PICK g : RunsUp(g, <<>>)
  BY <1>1, RunningSumExists
<1> QED
  BY <1>1, <1>2, SumIsLast DEF RunsUp

LEMMA InitIsReported == Init => RInv
<1> SUFFICES ASSUME Init
             PROVE  RInv
  OBVIOUS
<1>1. Typed
  BY InitIsTyped
<1>2. BlockSizes = <<>>
  <2>1. Len(BlockSizes) = Len(tried) /\ BlockSizes \in Seq(Int)
    BY <1>1, BlockSizesAreNumbers
  <2>2. Len(tried) = 0
    BY EmptySeq DEF Init
  <2> QED
    BY <2>1, <2>2, EmptySeq
<1>3. /\ at = "calibrate" /\ warmed = 0 /\ measurements = <<>> /\ block_size = 1 /\ checksum = 0
      /\ result = NotRun /\ Len(measurements) = 0
  BY EmptySeq DEF Init
<1>4. settings.warmup \in Nat /\ settings.max_measurements \in Nat
  BY <1>1, SettingsAreTyped
<1>5. Counted
  BY <1>2, <1>3, <1>4, SumOfNone DEF Counted
<1>6. Pending /\ Sampling /\ Ended
  BY <1>3, <1>4 DEF Pending, Sampling, Ended, ResultIsOfAllSamples, ConvergedIsJustified, Returned, NotRun
<1> QED
  BY <1>1, <1>5, <1>6 DEF RInv

\* Before the first sample, and when the measurement has failed, there is no verdict.
LEMMA NoVerdict ==
  ASSUME ~Returned
  PROVE  Ended
  BY DEF Ended, ResultIsOfAllSamples, ConvergedIsJustified

\* A step that takes no sample and runs one block, or none, keeps the count.
LEMMA QuietStepIsCounted ==
  ASSUME RInv, Typed', Counted', UNCHANGED <<settings, measurements, result>>,
         at # "end", at' # "end"
  PROVE  RInv'
<1>1. Pending'
  BY DEF RInv, Pending
<1>2. Sampling'
  <2>1. \A n : PreciseAfter(n)' <=> PreciseAfter(n)
    BY DEF PreciseAfter, PreciseFor
  <2> QED
    BY <2>1 DEF RInv, Sampling
<1>3. ~Returned'
  BY DEF Returned
<1>4. Ended'
  BY <1>3 DEF Ended, ResultIsOfAllSamples, ConvergedIsJustified
<1> QED
  BY <1>1, <1>2, <1>4 DEF RInv

LEMMA CalibrationIsCounted ==
  ASSUME RInv, Typed', ChooseTimingBlockSize
  PROVE  RInv'
<1>1. PICK elapsed \in Elapsed :
        /\ tried' = Append(tried, [block_size |-> block_size, elapsed |-> elapsed])
        /\ IF BlockIsChosen(elapsed) THEN at' = "warmup" /\ UNCHANGED block_size
                                     ELSE block_size' = NextBlockSize /\ UNCHANGED at
  BY DEF ChooseTimingBlockSize
<1>2. /\ at = "calibrate" /\ at' \in {"calibrate", "warmup"} /\ checksum' = checksum + block_size
      /\ UNCHANGED <<settings, warmed, measurements, result>>
  BY <1>1 DEF ChooseTimingBlockSize, RunTimingBlock
<1>3. SumOf(BlockSizes') = SumOf(BlockSizes) + block_size
  BY <1>1, BlockSizesGrow DEF RInv
<1>4. SumOf(BlockSizes) \in Int /\ block_size \in Nat /\ block_size' \in Nat
  BY BlockSizesAreNumbers, SumType DEF RInv, Typed
<1>5. warmed = 0 /\ measurements = <<>> /\ Len(measurements) = 0
  BY <1>2, EmptySeq DEF RInv, Counted
<1>6. checksum = (0 + 0) * block_size + SumOf(BlockSizes)
  BY <1>2, <1>5 DEF RInv, Counted
<1>7. checksum' = (0 + 0) * block_size' + SumOf(BlockSizes')
  BY <1>2, <1>3, <1>4, <1>6
<1>8. Counted'
  BY <1>2, <1>5, <1>7 DEF RInv, Counted
<1> QED
  BY <1>2, <1>8, QuietStepIsCounted

LEMMA WarmUpIsCounted ==
  ASSUME RInv, Typed', WarmUp \/ WarmUpEnds
  PROVE  RInv'
<1>1. /\ at = "warmup" /\ at' \in {"warmup", "measure"} /\ UNCHANGED <<settings, measurements, result>>
      /\ UNCHANGED <<block_size, tried>>
  BY DEF WarmUp, WarmUpEnds
<1>2. measurements = <<>> /\ Len(measurements) = 0
  BY <1>1, EmptySeq DEF RInv, Counted
<1>3. UNCHANGED BlockSizes
  BY <1>1 DEF BlockSizes
<1>4. /\ SumOf(BlockSizes) \in Int /\ block_size \in Nat /\ warmed \in Nat /\ settings.warmup \in Nat
      /\ warmed <= settings.warmup
  BY BlockSizesAreNumbers, SumType, SettingsAreTyped DEF RInv, Typed, Counted
<1>5. checksum = (warmed + 0) * block_size + SumOf(BlockSizes)
  BY <1>1, <1>2 DEF RInv, Counted
<1>6. CASE WarmUp
  <2>1. /\ checksum' = checksum + block_size /\ warmed' = warmed + 1 /\ warmed < settings.warmup
        /\ at' = "warmup"
    BY <1>1, <1>6 DEF WarmUp, RunTimingBlock
  <2>2. (warmed + 1 + 0) * block_size = (warmed + 0) * block_size + block_size
    BY <1>4
  <2>3. (warmed + 0) * block_size \in Int
    BY <1>4
  <2>4. checksum' = (warmed' + 0) * block_size' + SumOf(BlockSizes')
    BY <1>1, <1>3, <1>4, <1>5, <2>1, <2>2, <2>3
  <2>5. Counted'
    BY <1>1, <1>2, <1>4, <2>1, <2>4 DEF Counted
  <2> QED
    BY <1>1, <2>5, QuietStepIsCounted
<1>7. CASE WarmUpEnds
  <2>1. UNCHANGED <<checksum, warmed>> /\ warmed >= settings.warmup /\ at' = "measure"
    BY <1>1, <1>7 DEF WarmUpEnds
  <2>2. Counted'
    BY <1>1, <1>2, <1>3, <1>4, <1>5, <2>1 DEF Counted
  <2> QED
    BY <1>1, <2>2, QuietStepIsCounted
<1> QED
  BY <1>6, <1>7

\* A sample is counted; if there are enough it is tested, and a test that succeeds
\* ends the measurement with what was written for the test.
LEMMA SampleIsCounted ==
  ASSUME RInv, Typed', Measure
  PROVE  RInv'
<1> DEFINE n == Len(measurements)
           r == UpdateTimingStatistics(result, measurements')
           u == [r EXCEPT !.status = "converged"]
           target == settings.target_ci95_relative
<1>1. PICK elapsed \in Elapsed : measurements' = Append(measurements, elapsed)
  BY DEF Measure
<1>2. /\ at = "measure" /\ n < settings.max_measurements /\ checksum' = checksum + block_size
      /\ UNCHANGED <<settings, block_size, warmed, tried>>
  BY DEF Measure, RunTimingBlock
<1>3. /\ measurements \in Seq(Nat) /\ measurements' \in Seq(Nat) /\ elapsed \in Nat /\ n \in Nat
      /\ Len(measurements') = n + 1 /\ measurements' # <<>>
  <2>1. measurements \in Seq(Nat) /\ measurements' \in Seq(Nat) /\ elapsed \in Nat
    BY ElapsedAssumption DEF RInv, Typed
  <2>2. Len(measurements') = n + 1 /\ n \in Nat
    BY <1>1, <2>1, AppendProperties, LenProperties
  <2> QED
    BY <2>1, <2>2, EmptySeq
<1>4. /\ settings.warmup \in Nat /\ settings.min_measurements \in Nat /\ settings.max_measurements \in Nat
      /\ warmed = settings.warmup /\ block_size \in Nat
  BY <1>2, SettingsAreTyped DEF RInv, Typed, Counted
<1>5. /\ result.status = "not_run" /\ DOMAIN result = Fields
      /\ \A k \in 1..n : k >= settings.min_measurements => ~PreciseAfter(k)
  BY <1>2 DEF RInv, Typed, Pending, Sampling
<1>6. \A k \in 1..n : PreciseAfter(k)' <=> PreciseAfter(k)
  <2>1. \A k \in 1..n : SubSeq(measurements', 1, k) = SubSeq(measurements, 1, k)
    BY <1>1, <1>3, EarlierTestsStand
  <2> QED
    BY <1>2, <2>1 DEF PreciseAfter, PreciseFor
<1>7. DOMAIN r = Fields /\ IsUpdated(r, measurements') /\ r.status = "not_run"
  BY <1>3, <1>5, UpdateWrites
<1>8. DOMAIN u = Fields /\ IsUpdated(u, measurements') /\ u.status = "converged"
  BY <1>7, StatusWrites
<1>9. PICK m \in Nat : m = n + 1
  BY <1>3
<1>10. Precise(r, target) <=> PreciseAfter(m)'
  <2>1. Precise(r, target) <=> PreciseFor(measurements')
    BY <1>3, <1>7, UpdatedTests
  <2>2. SubSeq(measurements', 1, m) = measurements'
    BY <1>3, <1>9, SubSeqFull
  <2> HIDE DEF r
  <2>3. PreciseAfter(m)' <=> PreciseFor(measurements')
    BY <1>2, <2>2 DEF PreciseAfter, PreciseFor
  <2> QED
    BY <2>1, <2>3
<1>11. UNCHANGED BlockSizes /\ SumOf(BlockSizes) \in Int
  BY <1>2, BlockSizesAreNumbers, SumType DEF BlockSizes, RInv
<1>12. checksum' = (warmed + m) * block_size + SumOf(BlockSizes)
  <2>1. checksum = (warmed + n) * block_size + SumOf(BlockSizes)
    BY <1>2 DEF RInv, Counted
  <2> DEFINE w == warmed
  <2>2. w \in Nat
    BY <1>4
  <2> HIDE DEF n, w
  <2>3. (w + (n + 1)) * block_size = (w + n) * block_size + block_size /\ (w + n) * block_size \in Int
    BY <1>3, <1>4, <2>2
  <2> QED
    BY <1>2, <1>4, <1>9, <1>11, <2>1, <2>3 DEF w
<1>13. /\ m = Len(measurements') /\ m <= settings.max_measurements /\ 1..m = (1..n) \cup {m}
  BY <1>2, <1>3, <1>4, <1>9
<1> HIDE DEF n, u
\* The measurement goes on: there are too few samples, or they are not precise.
<1>14. ASSUME at' = "measure", result'.status = "not_run", m >= settings.min_measurements => ~PreciseAfter(m)'
       PROVE  RInv'
  <2>1. Counted'
    BY <1>2, <1>4, <1>11, <1>12, <1>13, <1>14 DEF Counted
  <2>2. Pending'
    BY <1>3, <1>14 DEF Pending
  <2>3. \A k \in 1..m : k >= settings.min_measurements => ~PreciseAfter(k)'
    BY <1>5, <1>6, <1>13, <1>14
  <2>4. Sampling'
    BY <1>2, <1>13, <2>3 DEF Sampling
  <2>5. ~Returned'
    BY <1>14 DEF Returned
  <2>6. Ended'
    BY <2>5 DEF Ended, ResultIsOfAllSamples, ConvergedIsJustified
  <2> QED
    BY <2>1, <2>2, <2>4, <2>6 DEF RInv
<1>15. CASE Len(measurements') < settings.min_measurements
  <2>1. UNCHANGED <<at, result>>
    BY <1>15 DEF Measure
  <2>2. ~(m >= settings.min_measurements)
    BY <1>3, <1>4, <1>9, <1>15
  <2> QED
    BY <1>2, <1>5, <1>14, <2>1, <2>2
<1>16. CASE ~(Len(measurements') < settings.min_measurements) /\ ~Precise(r, target)
  <2>1. result' = r /\ UNCHANGED at
    BY <1>16 DEF Measure
  <2> QED
    BY <1>2, <1>7, <1>10, <1>14, <1>16, <2>1
\* The measurement ends.
<1>17. CASE ~(Len(measurements') < settings.min_measurements) /\ Precise(r, target)
  <2>1. Return(u)
    BY <1>17 DEF Measure, u
  <2>2. /\ at' = "end" /\ IsUpdated(result', measurements') /\ result'.checksum = checksum'
        /\ result'.status = "converged"
    BY <1>8, <2>1, ReturnWrites
  <2>3. Describes(result', measurements')
    BY <1>3, <2>2, UpdatedDescribes
  <2>4. ResultIsOfAllSamples'
    BY <1>2, <1>4, <1>11, <1>12, <1>13, <2>2, <2>3 DEF ResultIsOfAllSamples
  <2>5. m >= settings.min_measurements /\ PreciseAfter(m)'
    BY <1>3, <1>4, <1>9, <1>10, <1>17
  <2>6. {k \in 1..Len(measurements') : k >= settings'.min_measurements /\ PreciseAfter(k)'} = {m}
    BY <1>2, <1>5, <1>6, <1>13, <2>5
  <2>7. ConvergedIsJustified'
    BY <1>13, <2>2, <2>6 DEF ConvergedIsJustified
  <2>8. Counted' /\ Pending' /\ Sampling'
    BY <1>2, <1>4, <2>2 DEF Counted, Pending, Sampling
  <2> QED
    BY <2>4, <2>7, <2>8 DEF RInv, Ended
<1> QED
  BY <1>15, <1>16, <1>17

\* When the samples are used up the result is written for all of them; if none was
\* asked for it is the result of no measurement, which describes no samples.
LEMMA EndIsReported ==
  ASSUME RInv, Typed', MeasurementsUsedUp
  PROVE  RInv'
<1> DEFINE r == AtTheEnd(result)
           u == [r EXCEPT !.status = "max_measurements"]
<1>1. /\ at = "measure" /\ Len(measurements) >= settings.max_measurements
      /\ UNCHANGED <<settings, block_size, warmed, measurements, checksum, tried>> /\ Return(u)
  BY DEF MeasurementsUsedUp
<1>2. /\ measurements \in Seq(Nat) /\ Len(measurements) \in Nat /\ DOMAIN result = Fields
      /\ settings.max_measurements \in Nat /\ warmed <= settings.warmup
  BY LenProperties, SettingsAreTyped DEF RInv, Typed, Counted
<1>3. DOMAIN r = Fields /\ DOMAIN u = Fields /\ u.status = "max_measurements"
  BY <1>2, UpdateIsTyped, StatusWrites DEF AtTheEnd
<1> HIDE DEF u
<1>4. at' = "end" /\ result'.status = "max_measurements" /\ result'.checksum = checksum'
  BY <1>1, <1>3, ReturnWrites
<1>5. Describes(result', measurements)
  <2>1. CASE measurements = <<>>
    <3>1. result = NotRun
      BY <1>1, <2>1 DEF RInv, Pending
    <3>2. r.n_measurements = 0 /\ r.spread = 0
      BY <2>1, <3>1 DEF AtTheEnd, UpdateTimingStatistics, NotRun
    <3>3. result'.n_measurements = 0 /\ result'.spread = 0
      <4>1. u.n_measurements = 0 /\ u.spread = 0
        BY <1>3, <3>2, StatusWrites DEF u
      <4> QED
        BY <1>1, <1>3, <4>1, ReturnWrites
    <3>4. Spread(<<>>) = 0 /\ Len(<<>>) = 0
      <4>1. <<>> \in Seq(Nat) /\ <<>> \in Seq(Int) /\ Len(<<>>) = 0
        BY EmptySeq
      <4>2. Squares(<<>>) = <<>>
        <5>1. Squares(<<>>) \in [1..0 -> Int]
          BY DEF Squares
        <5>2. Squares(<<>>) \in Seq(Int) /\ Len(Squares(<<>>)) = 0
          BY <5>1, FunctionIsSeq
        <5> QED
          BY <5>2, EmptySeq
      <4>3. Spread(<<>>) = 0 * 0 - 0 * 0
        BY <4>1, <4>2, SpreadIs, SumOfNone
      <4> QED
        BY <4>1, <4>3
    <3> QED
      BY <2>1, <3>3, <3>4 DEF Describes
  <2>2. CASE measurements # <<>>
    <3>1. IsUpdated(r, measurements)
      BY <1>2, <2>2, UpdateWrites DEF AtTheEnd
    <3>2. IsUpdated(u, measurements)
      BY <1>3, <3>1, StatusWrites DEF u
    <3>3. IsUpdated(result', measurements)
      BY <1>1, <1>3, <3>2, ReturnWrites
    <3> QED
      BY <1>2, <2>2, <3>3, UpdatedDescribes
  <2> QED
    BY <2>1, <2>2
<1> HIDE DEF r
<1>6. UNCHANGED BlockSizes
  BY <1>1 DEF BlockSizes
<1>7. checksum = (settings.warmup + Len(measurements)) * block_size + SumOf(BlockSizes)
  BY <1>1 DEF RInv, Counted
<1>8. ResultIsOfAllSamples'
  BY <1>1, <1>4, <1>5, <1>6, <1>7 DEF ResultIsOfAllSamples
<1>9. \A k \in 1..Len(measurements) : k >= settings.min_measurements => ~PreciseAfter(k)
  BY <1>1 DEF RInv, Sampling
<1>10. Len(measurements) = settings.max_measurements
  <2>1. Len(measurements) <= settings.max_measurements
    BY <1>1 DEF RInv, Sampling
  <2> QED
    BY <1>1, <1>2, <2>1
<1>11. \A k : PreciseAfter(k)' <=> PreciseAfter(k)
  BY <1>1 DEF PreciseAfter, PreciseFor
<1>12. {k \in 1..Len(measurements') : k >= settings'.min_measurements /\ PreciseAfter(k)'} = {}
  BY <1>1, <1>9, <1>11
<1>13. ConvergedIsJustified'
  BY <1>1, <1>4, <1>10, <1>12 DEF ConvergedIsJustified
<1>14. Counted' /\ Pending' /\ Sampling'
  BY <1>1, <1>2, <1>4 DEF Counted, Pending, Sampling
<1> QED
  BY <1>8, <1>13, <1>14 DEF RInv, Ended

LEMMA FailureIsNotReported ==
  ASSUME RInv, Typed', Fail
  PROVE  RInv'
<1>1. /\ at # "end" /\ at' = "end" /\ UNCHANGED <<settings, warmed, result>>
      /\ result.status = "not_run" /\ warmed <= settings.warmup
  BY DEF Fail, RInv, Pending, Counted
<1>2. ~Returned'
  BY <1>1 DEF Returned
<1>3. Ended'
  BY <1>2 DEF Ended, ResultIsOfAllSamples, ConvergedIsJustified
<1> QED
  BY <1>1, <1>3 DEF RInv, Counted, Pending, Sampling

LEMMA StepIsReported ==
  ASSUME RInv, [Next]_vars
  PROVE  RInv'
<1>1. Typed'
  BY StepIsTyped DEF RInv
<1>2. CASE UNCHANGED vars
  <2>1. UNCHANGED BlockSizes /\ \A k : PreciseAfter(k)' <=> PreciseAfter(k)
    BY <1>2 DEF vars, BlockSizes, PreciseAfter, PreciseFor
  <2>2. Counted' /\ Pending' /\ Sampling'
    BY <1>2, <2>1 DEF vars, RInv, Counted, Pending, Sampling
  <2>3. ResultIsOfAllSamples'
    BY <1>2, <2>1 DEF vars, RInv, Ended, ResultIsOfAllSamples, Returned
  <2>4. ConvergedIsJustified'
    <3>1. {k \in 1..Len(measurements') : k >= settings'.min_measurements /\ PreciseAfter(k)'}
            = {k \in 1..Len(measurements) : k >= settings.min_measurements /\ PreciseAfter(k)}
      BY <1>2, <2>1 DEF vars
    <3> QED
      BY <1>2, <3>1 DEF vars, RInv, Ended, ConvergedIsJustified, Returned
  <2> QED
    BY <1>1, <2>2, <2>3, <2>4 DEF RInv, Ended
<1> QED
  BY <1>1, <1>2, CalibrationIsCounted, WarmUpIsCounted, SampleIsCounted, EndIsReported,
     FailureIsNotReported DEF Next

\* What MeasureBenchmark returns describes every sample that was taken and no other run
\* of the kernel, and its checksum is of every run: for any settings, any clock and any
\* number of samples.
THEOREM ResultIsAlwaysOfAllSamples == Spec => []ResultIsOfAllSamples
<1>1. Init => RInv
  BY InitIsReported
<1>2. RInv /\ [Next]_vars => RInv'
  BY StepIsReported
<1>3. RInv => ResultIsOfAllSamples
  BY DEF RInv, Ended
<1> QED
  BY <1>1, <1>2, <1>3, PTL DEF Spec

\* MeasureBenchmark stops at the first sample, from the minimum on, with which the
\* confidence interval is within the target, and says "converged" only then; otherwise
\* it takes every sample it may.
THEOREM ConvergedIsAlwaysJustified == Spec => []ConvergedIsJustified
<1>1. Init => RInv
  BY InitIsReported
<1>2. RInv /\ [Next]_vars => RInv'
  BY StepIsReported
<1>3. RInv => ConvergedIsJustified
  BY DEF RInv, Ended
<1> QED
  BY <1>1, <1>2, <1>3, PTL DEF Spec
=============================================================================
