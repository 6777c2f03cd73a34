-------------------------- MODULE CellGradientProofs --------------------------
(***************************************************************************)
(* Proofs about CellGradient for any meshes, weights, tolerances and       *)
(* fields.  Whatever the host did, its workspace is one that a build       *)
(* returned and its result is that workspace applied to a field (IInv);    *)
(* the rest is algebra on the sums that a stencil is made of.              *)
(*                                                                         *)
(* A loop is a function of the iterations done.  What it computes is shown *)
(* by induction on them, for a set of numbers instead of a predicate.      *)
(***************************************************************************)
EXTENDS CellGradient, SequenceTheorems, FiniteSetTheorems, WellFoundedInduction, TLAPS

-----------------------------------------------------------------------------
(* Loops *)

\* Induction: a set with zero and with every successor holds all natural numbers.
LEMMA SetInduction ==
  ASSUME NEW S, 0 \in S, \A n \in Nat : n \in S => n + 1 \in S
  PROVE  Nat \subseteq S
<1> DEFINE rest == {n \in Nat : n \notin S}
<1>1. SUFFICES ASSUME rest # {} PROVE FALSE
  OBVIOUS
<1>2. PICK m \in rest : \A k \in rest : <<k, m>> \notin OpToRel(<, Nat)
  BY <1>1, WFMin, NatLessThanWellFounded, Zenon
<1>3. m - 1 \in Nat /\ m - 1 < m /\ (m - 1) + 1 = m
  OBVIOUS
<1>4. m - 1 \in rest
  BY <1>3
<1> QED
  BY <1>2, <1>3, <1>4 DEF OpToRel

\* A set of natural numbers that is not empty has a least element.
LEMMA LeastExists ==
  ASSUME NEW S \in SUBSET Nat, S # {}
  PROVE  Min(S) \in S /\ \A k \in S : Min(S) <= k
<1>1. PICK m \in S : \A k \in S : <<k, m>> \notin OpToRel(<, Nat)
  BY WFMin, NatLessThanWellFounded, Zenon
<1>2. ASSUME NEW k \in S
      PROVE  m <= k
  <2>1. k \in Nat /\ m \in Nat /\ ~(k < m)
    BY <1>1 DEF OpToRel
  <2> QED
    BY <2>1
<1> QED
  BY <1>2 DEF Min

\* What has been added up before, g, and after each of the elements of s.
RunsUp(g, s) ==
  /\ g \in [0..Len(s) -> Int]
  /\ g[0] = 0
  /\ \A k \in 1..Len(s) : g[k] = g[k - 1] + s[k]

\* Every sequence of numbers can be added up.
LEMMA RunningSumExists ==
  ASSUME NEW s \in Seq(Int)
  PROVE  \E g : RunsUp(g, s)
<1> DEFINE Upto(n) == \E g \in [0..n -> Int] :
                        g[0] = 0 /\ \A k \in 1..n : g[k] = g[k - 1] + s[k]
           S == {n \in Nat : n <= Len(s) => Upto(n)}
<1>1. Len(s) \in Nat /\ \A k \in 1..Len(s) : s[k] \in Int
  BY LenProperties, ElementOfSeq
<1>2. Upto(0)
  <2> DEFINE zero == [k \in 0..0 |-> 0]
  <2>1. zero \in [0..0 -> Int] /\ zero[0] = 0 /\ 1..0 = {}
    OBVIOUS
  <2> QED
    BY <2>1
<1>3. ASSUME NEW n \in Nat, Upto(n), n + 1 <= Len(s)
      PROVE  Upto(n + 1)
  <2>1. PICK g \in [0..n -> Int] : g[0] = 0 /\ \A k \in 1..n : g[k] = g[k - 1] + s[k]
    BY <1>3
  <2> DEFINE h == [k \in 0..(n + 1) |-> IF k = n + 1 THEN g[n] + s[n + 1] ELSE g[k]]
  <2>2. s[n + 1] \in Int /\ g[n] \in Int /\ \A k \in 0..n : g[k] \in Int
    BY <1>1, <1>3, <2>1
  <2>3. h \in [0..(n + 1) -> Int] /\ h[0] = 0
    BY <2>1, <2>2
  <2>4. ASSUME NEW k \in 1..(n + 1)
        PROVE  h[k] = h[k - 1] + s[k]
    <3>1. CASE k = n + 1
      BY <3>1
    <3>2. CASE k \in 1..n
      BY <3>2, <2>1
    <3> QED
      BY <3>1, <3>2
  <2> QED
    BY <2>3, <2>4
<1> HIDE DEF Upto
<1>4. 0 \in S /\ \A n \in Nat : n \in S => n + 1 \in S
  BY <1>1, <1>2, <1>3
<1> HIDE DEF S
<1>5. Nat \subseteq S
  BY <1>4, SetInduction
<1>6. Upto(Len(s))
  BY <1>1, <1>5 DEF S
<1> QED
  BY <1>6 DEF Upto, RunsUp

\* The loop has added up everything when it ends.
LEMMA SumIsLast ==
  ASSUME NEW s \in Seq(Int), NEW g, RunsUp(g, s)
  PROVE  SumOf(s) = g[Len(s)]
<1> DEFINE Step(f) == [k \in 0..Len(s) |-> IF k = 0 THEN 0 ELSE f[k - 1] + s[k]]
           sum == CHOOSE f : f = Step(f)
           S == {n \in Nat : n <= Len(s) => sum[n] = g[n]}
<1>1. Len(s) \in Nat
  BY LenProperties
<1>2. g = Step(g)
  BY <1>1 DEF RunsUp
<1>3. sum = Step(sum)
  BY <1>2
<1>4. SumOf(s) = sum[Len(s)]
  BY DEF SumOf
<1> HIDE DEF sum
<1>5. /\ sum[0] = 0
      /\ \A k \in 1..Len(s) : sum[k] = sum[k - 1] + s[k]
  BY <1>1, <1>3
<1>6. 0 \in S
  BY <1>5 DEF RunsUp
<1>7. ASSUME NEW n \in Nat, n \in S
      PROVE  n + 1 \in S
  <2> SUFFICES ASSUME n + 1 <= Len(s) PROVE sum[n + 1] = g[n + 1]
    OBVIOUS
  <2>1. sum[n] = g[n] /\ n + 1 \in 1..Len(s) /\ (n + 1) - 1 = n
    BY <1>1, <1>7
  <2> QED
    BY <1>5, <2>1 DEF RunsUp
<1> HIDE DEF S
<1>8. Len(s) \in S
  BY <1>1, <1>6, <1>7, SetInduction
<1> QED
  BY <1>1, <1>4, <1>8 DEF S

LEMMA SumType ==
  ASSUME NEW s \in Seq(Int)
  PROVE  SumOf(s) \in Int
<1>1. PICK g : RunsUp(g, s)
  BY RunningSumExists
<1>2. Len(s) \in Nat /\ g[Len(s)] \in Int
  BY <1>1, LenProperties DEF RunsUp
<1> QED
  BY <1>1, <1>2, SumIsLast

\* A function on 1..n is a sequence of length n.
LEMMA LenOfFunction ==
  ASSUME NEW n \in Nat, NEW s, s = [k \in 1..n |-> s[k]]
  PROVE  Len(s) = n
<1>1. s \in [1..n -> {s[k] : k \in 1..n}]
  OBVIOUS
<1>2. s \in Seq({s[k] : k \in 1..n}) /\ DOMAIN s = 1..n
  BY <1>1, SeqDef
<1> QED
  BY <1>2, LenProperties

\* Each element of r is a times that of s and b times that of t.
Combines(n, r, a, s, b, t) ==
  /\ n \in Nat /\ a \in Int /\ b \in Int
  /\ r \in [1..n -> Int] /\ s \in [1..n -> Int] /\ t \in [1..n -> Int]
  /\ \A k \in 1..n : r[k] = a * s[k] + b * t[k]

\* Sums are linear.
LEMMA SumIsLinear ==
  ASSUME NEW n, NEW a, NEW b, NEW s, NEW t, NEW r, Combines(n, r, a, s, b, t)
  PROVE  SumOf(r) = a * SumOf(s) + b * SumOf(t)
<1>1. /\ n \in Nat /\ a \in Int /\ b \in Int
      /\ r \in [1..n -> Int] /\ s \in [1..n -> Int] /\ t \in [1..n -> Int]
      /\ \A k \in 1..n : r[k] = a * s[k] + b * t[k]
  BY DEF Combines
<1>2. /\ s \in Seq(Int) /\ t \in Seq(Int) /\ r \in Seq(Int)
      /\ Len(s) = n /\ Len(t) = n /\ Len(r) = n
  BY <1>1, SeqDef, LenProperties
<1>3. PICK g : RunsUp(g, s)
  BY <1>2, RunningSumExists
<1>4. PICK h : RunsUp(h, t)
  BY <1>2, RunningSumExists
<1> DEFINE f == [k \in 0..n |-> a * g[k] + b * h[k]]
<1>5. /\ \A k \in 0..n : g[k] \in Int /\ h[k] \in Int
      /\ \A k \in 1..n : s[k] \in Int /\ t[k] \in Int
  BY <1>1, <1>2, <1>3, <1>4 DEF RunsUp
<1>6. f \in [0..n -> Int] /\ f[0] = 0
  BY <1>1, <1>2, <1>3, <1>4, <1>5 DEF RunsUp
<1>7. ASSUME NEW k \in 1..n
      PROVE  f[k] = f[k - 1] + r[k]
  <2>1. g[k] = g[k - 1] + s[k] /\ h[k] = h[k - 1] + t[k]
    BY <1>2, <1>3, <1>4 DEF RunsUp
  <2>2. /\ g[k - 1] \in Int /\ h[k - 1] \in Int /\ s[k] \in Int /\ t[k] \in Int
        /\ f[k] = a * g[k] + b * h[k] /\ f[k - 1] = a * g[k - 1] + b * h[k - 1]
        /\ r[k] = a * s[k] + b * t[k]
    <3>1. k - 1 \in 0..n /\ k \in 0..n
      BY <1>1
    <3> QED
      BY <1>1, <1>5, <3>1
  <2> DEFINE p == g[k - 1]
             q == h[k - 1]
             x == s[k]
             y == t[k]
  <2>3. f[k] = a * (p + x) + b * (q + y) /\ f[k - 1] = a * p + b * q /\ r[k] = a * x + b * y
    BY <2>1, <2>2
  <2>4. p \in Int /\ q \in Int /\ x \in Int /\ y \in Int
    BY <2>2
  <2> HIDE DEF f, p, q, x, y
  <2>5. a * (p + x) + b * (q + y) = (a * p + b * q) + (a * x + b * y)
    BY <1>1, <2>4
  <2> QED
    BY <2>3, <2>5
<1>8. RunsUp(f, r)
  BY <1>1, <1>2, <1>6, <1>7 DEF RunsUp
<1>9. SumOf(r) = f[n] /\ SumOf(s) = g[n] /\ SumOf(t) = h[n]
  BY <1>1, <1>2, <1>3, <1>4, <1>8, SumIsLast
<1> QED
  BY <1>1, <1>9

\* Three sums at once.
CombinesThree(n, r, a, s, b, t, c, u) ==
  /\ n \in Nat /\ a \in Int /\ b \in Int /\ c \in Int /\ r \in [1..n -> Int]
  /\ s \in [1..n -> Int] /\ t \in [1..n -> Int] /\ u \in [1..n -> Int]
  /\ \A k \in 1..n : r[k] = a * s[k] + b * t[k] + c * u[k]

LEMMA SumOfThree ==
  ASSUME NEW n, NEW a, NEW b, NEW c, NEW s, NEW t, NEW u, NEW r,
         CombinesThree(n, r, a, s, b, t, c, u)
  PROVE  SumOf(r) = a * SumOf(s) + b * SumOf(t) + c * SumOf(u)
<1>1. /\ n \in Nat /\ a \in Int /\ b \in Int /\ c \in Int /\ r \in [1..n -> Int]
      /\ s \in [1..n -> Int] /\ t \in [1..n -> Int] /\ u \in [1..n -> Int]
      /\ \A k \in 1..n : r[k] = a * s[k] + b * t[k] + c * u[k]
  BY DEF CombinesThree
<1> DEFINE v == [k \in 1..n |-> b * t[k] + c * u[k]]
<1>2. \A k \in 1..n : s[k] \in Int /\ t[k] \in Int /\ u[k] \in Int
  BY <1>1
<1>3. v \in [1..n -> Int] /\ \A k \in 1..n : v[k] = b * t[k] + c * u[k]
  BY <1>1, <1>2
<1> HIDE DEF v
<1>4. ASSUME NEW k \in 1..n
      PROVE  r[k] = a * s[k] + 1 * v[k]
  <2>1. a * s[k] \in Int /\ b * t[k] \in Int /\ c * u[k] \in Int
    BY <1>1, <1>2
  <2> QED
    BY <1>1, <1>2, <1>3, <2>1
<1>5. SumOf(v) = b * SumOf(t) + c * SumOf(u)
  <2>1. Combines(n, v, b, t, c, u)
    BY <1>1, <1>3 DEF Combines
  <2> QED
    BY <2>1, SumIsLinear
<1>6. SumOf(r) = a * SumOf(s) + 1 * SumOf(v)
  <2>1. Combines(n, r, a, s, 1, v)
    BY <1>1, <1>3, <1>4 DEF Combines
  <2> QED
    BY <2>1, SumIsLinear
<1>7. SumOf(s) \in Int /\ SumOf(t) \in Int /\ SumOf(u) \in Int
  BY <1>1, SeqDef, SumType
<1>8. a * SumOf(s) \in Int /\ b * SumOf(t) \in Int /\ c * SumOf(u) \in Int
  BY <1>1, <1>7
<1> QED
  BY <1>5, <1>6, <1>8

\* A sum of natural numbers is at least each of them.
LEMMA SumIsAtLeast ==
  ASSUME NEW n \in Nat, NEW s \in [1..n -> Int], \A k \in 1..n : s[k] >= 0
  PROVE  SumOf(s) \in Nat /\ \A k \in 1..n : s[k] <= SumOf(s)
<1>1. s \in Seq(Int) /\ Len(s) = n
  BY SeqDef, LenProperties
<1>2. PICK g : RunsUp(g, s)
  BY <1>1, RunningSumExists
<1> DEFINE S == {k \in Nat : k <= n => g[k] >= 0 /\ \A j \in 1..k : s[j] <= g[k]}
<1>3. g \in [0..n -> Int] /\ g[0] = 0 /\ \A k \in 1..n : g[k] = g[k - 1] + s[k]
  BY <1>1, <1>2 DEF RunsUp
<1>4. 0 \in S
  BY <1>3
<1>5. ASSUME NEW k \in Nat, k \in S
      PROVE  k + 1 \in S
  <2> SUFFICES ASSUME k + 1 <= n
               PROVE  g[k + 1] >= 0 /\ \A j \in 1..(k + 1) : s[j] <= g[k + 1]
    OBVIOUS
  <2>1. /\ g[k] >= 0 /\ \A j \in 1..k : s[j] <= g[k]
        /\ k + 1 \in 1..n /\ (k + 1) - 1 = k
    BY <1>5
  <2>2. g[k + 1] = g[k] + s[k + 1] /\ s[k + 1] >= 0 /\ s[k + 1] \in Int /\ g[k] \in Int
    BY <1>3, <2>1
  <2>3. ASSUME NEW j \in 1..(k + 1)
        PROVE  s[j] <= g[k + 1]
    <3>1. CASE j = k + 1
      BY <2>1, <2>2, <3>1
    <3>2. CASE j \in 1..k
      <4>1. s[j] <= g[k] /\ s[j] \in Int
        BY <2>1, <3>2
      <4> QED
        BY <2>2, <4>1
    <3> QED
      BY <3>1, <3>2
  <2> QED
    BY <2>1, <2>2, <2>3
<1> HIDE DEF S
<1>6. n \in S
  BY <1>4, <1>5, SetInduction
<1>7. SumOf(s) = g[n] /\ g[n] \in Int
  BY <1>1, <1>2, <1>3, SumIsLast
<1> QED
  BY <1>6, <1>7 DEF S

\* A sum of nothing but zeros, ...
LEMMA SumOfZeros ==
  ASSUME NEW n \in Nat, NEW s \in [1..n -> Int], \A k \in 1..n : s[k] = 0
  PROVE  SumOf(s) = 0
<1>1. SumOf(s) \in Int
  BY SeqDef, SumType
<1>2. Combines(n, s, 0, s, 0, s)
  BY DEF Combines
<1>3. SumOf(s) = 0 * SumOf(s) + 0 * SumOf(s)
  BY <1>2, SumIsLinear
<1> QED
  BY <1>1, <1>3

\* ... and with one other number.
LEMMA SumOfOne ==
  ASSUME NEW n \in Nat, NEW p \in 1..n, NEW s \in [1..n -> Int],
         \A k \in 1..n : k # p => s[k] = 0
  PROVE  SumOf(s) = s[p]
<1> DEFINE g == [k \in 0..n |-> IF k < p THEN 0 ELSE s[p]]
<1>1. s \in Seq(Int) /\ Len(s) = n
  BY SeqDef, LenProperties
<1>2. s[p] \in Int /\ p \in Nat /\ n \in Nat /\ 0 < p /\ p <= n
  OBVIOUS
<1>3. g \in [0..n -> Int] /\ g[0] = 0 /\ g[n] = s[p]
  BY <1>2
<1>4. ASSUME NEW k \in 1..n
      PROVE  g[k] = g[k - 1] + s[k]
  <2>1. CASE k < p
    BY <1>2, <2>1
  <2>2. CASE k = p
    BY <1>2, <2>2
  <2>3. CASE k > p
    BY <1>2, <2>3
  <2> QED
    BY <1>2, <2>1, <2>2, <2>3
<1> HIDE DEF g
<1>5. RunsUp(g, s)
  BY <1>1, <1>3, <1>4 DEF RunsUp
<1> QED
  BY <1>1, <1>3, <1>5, SumIsLast

\* One more element.
LEMMA SumOfAppend ==
  ASSUME NEW s \in Seq(Int), NEW x \in Int
  PROVE  SumOf(Append(s, x)) = SumOf(s) + x
<1> DEFINE n == Len(s)
           t == Append(s, x)
<1>1. PICK g : RunsUp(g, s)
  BY RunningSumExists
<1>2. n \in Nat /\ t \in Seq(Int) /\ Len(t) = n + 1
  BY LenProperties, AppendProperties
<1>3. t[n + 1] = x /\ \A k \in 1..n : t[k] = s[k]
  BY AppendProperties
<1>4. g \in [0..n -> Int] /\ g[0] = 0 /\ \A k \in 1..n : g[k] = g[k - 1] + s[k]
  BY <1>1 DEF RunsUp
<1>5. SumOf(s) = g[n] /\ g[n] \in Int
  BY <1>1, <1>2, <1>4, SumIsLast
<1> HIDE DEF n, t
<1> DEFINE h == [k \in 0..(n + 1) |-> IF k = n + 1 THEN g[n] + x ELSE g[k]]
<1>6. h \in [0..(n + 1) -> Int] /\ h[0] = 0 /\ h[n + 1] = g[n] + x
  BY <1>2, <1>4, <1>5
<1>7. ASSUME NEW k \in 1..(n + 1)
      PROVE  h[k] = h[k - 1] + t[k]
  <2>1. CASE k = n + 1
    BY <1>2, <1>3, <2>1
  <2>2. CASE k \in 1..n
    BY <1>2, <1>3, <1>4, <2>2
  <2> QED
    BY <1>2, <2>1, <2>2
<1> HIDE DEF h
<1>8. RunsUp(h, t)
  BY <1>2, <1>6, <1>7 DEF RunsUp
<1>9. SumOf(t) = h[n + 1]
  BY <1>2, <1>8, SumIsLast
<1> QED
  BY <1>5, <1>6, <1>9 DEF n, t

\* What has been collected before and after each of the numbers up to n.
Keeps(f, S, n) ==
  /\ f \in [0..n -> Seq(S \cap 1..n)]
  /\ f[0] = <<>>
  /\ \A k \in 1..n : f[k] = IF k \in S THEN Append(f[k - 1], k) ELSE f[k - 1]

\* The loop that collects ends, with what it has collected.
LEMMA CollectedIsLast ==
  ASSUME NEW n \in Nat, NEW S
  PROVE  \E f : Keeps(f, S, n) /\ Collected(S, n) = f[n]
<1> DEFINE T == S \cap 1..n
           Step(f) == [k \in 0..n |-> IF k = 0 THEN <<>>
                                      ELSE IF k \in S THEN Append(f[k - 1], k) ELSE f[k - 1]]
           kept == CHOOSE f : f = Step(f)
           Upto(m) == \E f \in [0..m -> Seq(T)] :
                        /\ f[0] = <<>>
                        /\ \A k \in 1..m : f[k] = IF k \in S THEN Append(f[k - 1], k) ELSE f[k - 1]
           R == {m \in Nat : m <= n => Upto(m)}
<1>1. Upto(0)
  <2> DEFINE none == [k \in 0..0 |-> <<>>]
  <2>1. none \in [0..0 -> Seq(T)] /\ none[0] = <<>> /\ 1..0 = {}
    BY EmptySeq
  <2> QED
    BY <2>1
<1>2. ASSUME NEW m \in Nat, Upto(m), m + 1 <= n
      PROVE  Upto(m + 1)
  <2> HIDE DEF T
  <2>1. PICK f \in [0..m -> Seq(T)] :
           /\ f[0] = <<>>
           /\ \A k \in 1..m : f[k] = IF k \in S THEN Append(f[k - 1], k) ELSE f[k - 1]
    BY <1>2
  <2> DEFINE next == IF m + 1 \in S THEN Append(f[m], m + 1) ELSE f[m]
             h == [k \in 0..(m + 1) |-> IF k = m + 1 THEN next ELSE f[k]]
  <2>2. f[m] \in Seq(T) /\ \A k \in 0..m : f[k] \in Seq(T)
    BY <2>1
  <2>3. next \in Seq(T)
    <3>1. m + 1 \in S => m + 1 \in T
      BY <1>2 DEF T
    <3> QED
      BY <2>2, <3>1, AppendProperties
  <2>4. h \in [0..(m + 1) -> Seq(T)] /\ h[0] = <<>>
    <3> HIDE DEF next
    <3> QED
      BY <2>1, <2>2, <2>3
  <2>5. ASSUME NEW k \in 1..(m + 1)
        PROVE  h[k] = IF k \in S THEN Append(h[k - 1], k) ELSE h[k - 1]
    <3>1. k - 1 \in 0..m /\ h[k - 1] = f[k - 1]
      OBVIOUS
    <3>2. CASE k = m + 1
      <4>1. h[k] = next /\ k - 1 = m
        BY <3>2
      <4> QED
        BY <3>1, <3>2, <4>1
    <3>3. CASE k \in 1..m
      <4>1. h[k] = f[k]
        BY <3>3
      <4> QED
        BY <2>1, <3>1, <3>3, <4>1
    <3> QED
      BY <3>2, <3>3
  <2> HIDE DEF h
  <2> QED
    BY <2>4, <2>5
<1> HIDE DEF Upto
<1>3. 0 \in R /\ \A m \in Nat : m \in R => m + 1 \in R
  BY <1>1, <1>2
<1> HIDE DEF R
<1>4. Upto(n)
  <2>1. Nat \subseteq R
    BY <1>3, SetInduction
  <2> QED
    BY <2>1 DEF R
<1>5. PICK f \in [0..n -> Seq(T)] :
         /\ f[0] = <<>>
         /\ \A k \in 1..n : f[k] = IF k \in S THEN Append(f[k - 1], k) ELSE f[k - 1]
  BY <1>4 DEF Upto
<1>6. Keeps(f, S, n)
  BY <1>5 DEF Keeps
<1>7. kept = Step(kept)
  <2>1. f = Step(f)
    <3>1. ASSUME NEW k \in 0..n
          PROVE  f[k] = Step(f)[k]
      <4>1. CASE k = 0
        BY <1>5, <4>1
      <4>2. CASE k # 0
        <5>1. k \in 1..n
          BY <4>2
        <5> QED
          BY <1>5, <4>2, <5>1
      <4> QED
        BY <4>1, <4>2
    <3>2. Step(f) = [k \in 0..n |-> Step(f)[k]] /\ f = [k \in 0..n |-> f[k]]
      BY <1>5
    <3> HIDE DEF Step
    <3> QED
      BY <3>1, <3>2
  <2> HIDE DEF Step
  <2> QED
    BY <2>1
<1>8. Collected(S, n) = kept[n]
  BY DEF Collected
<1> HIDE DEF kept
<1> DEFINE Q == {m \in Nat : m <= n => kept[m] = f[m]}
<1>9. /\ kept[0] = <<>>
      /\ \A k \in 1..n : kept[k] = IF k \in S THEN Append(kept[k - 1], k) ELSE kept[k - 1]
  <2>1. \A k \in 0..n : kept[k] = Step(kept)[k]
    BY <1>7
  <2>2. ASSUME NEW k \in 0..n
        PROVE  Step(kept)[k] = IF k = 0 THEN <<>>
                               ELSE IF k \in S THEN Append(kept[k - 1], k) ELSE kept[k - 1]
    OBVIOUS
  <2> HIDE DEF Step
  <2>3. 0 \in 0..n /\ \A k \in 1..n : k \in 0..n /\ k # 0
    OBVIOUS
  <2>4. kept[0] = <<>>
    BY <2>1, <2>2, <2>3
  <2>5. \A k \in 1..n : kept[k] = IF k \in S THEN Append(kept[k - 1], k) ELSE kept[k - 1]
    BY <2>1, <2>2, <2>3
  <2> QED
    BY <2>4, <2>5
<1>10. 0 \in Q
  BY <1>5, <1>9
<1>11. ASSUME NEW m \in Nat, m \in Q
       PROVE  m + 1 \in Q
  <2> SUFFICES ASSUME m + 1 <= n PROVE kept[m + 1] = f[m + 1]
    OBVIOUS
  <2>1. kept[m] = f[m] /\ m + 1 \in 1..n /\ (m + 1) - 1 = m
    BY <1>11
  <2> QED
    BY <1>5, <1>9, <2>1
<1> HIDE DEF Q
<1>12. kept[n] = f[n]
  <2>1. Nat \subseteq Q
    BY <1>10, <1>11, SetInduction
  <2> QED
    BY <2>1 DEF Q
<1> QED
  BY <1>6, <1>8, <1>12

\* What is collected are members of S.
LEMMA CollectedType ==
  ASSUME NEW n \in Nat, NEW S
  PROVE  Collected(S, n) \in Seq(S \cap 1..n)
<1>1. PICK f : Keeps(f, S, n) /\ Collected(S, n) = f[n]
  BY CollectedIsLast
<1> QED
  BY <1>1 DEF Keeps

\* All members of S are collected.
LEMMA CollectedIsAll ==
  ASSUME NEW n \in Nat, NEW S, NEW p \in S \cap 1..n
  PROVE  \E k \in DOMAIN Collected(S, n) : Collected(S, n)[k] = p
<1> DEFINE T == S \cap 1..n
<1>1. PICK f : Keeps(f, S, n) /\ Collected(S, n) = f[n]
  BY CollectedIsLast
<1> DEFINE Has(m) == \E k \in DOMAIN f[m] : f[m][k] = p
           R == {m \in Nat : p <= m /\ m <= n => Has(m)}
<1>2. /\ \A k \in 0..n : f[k] \in Seq(T)
      /\ \A k \in 1..n : f[k] = IF k \in S THEN Append(f[k - 1], k) ELSE f[k - 1]
  BY <1>1 DEF Keeps
<1>3. \A k \in 0..n : Len(f[k]) \in Nat /\ DOMAIN f[k] = 1..Len(f[k])
  BY <1>2, LenProperties
<1>4. ASSUME NEW m \in 1..n, m \in S, m = p \/ Has(m - 1)
      PROVE  Has(m)
  <2>0. m \in T /\ m - 1 \in 0..n
    BY <1>4
  <2> HIDE DEF T
  <2>1. m \in T /\ m - 1 \in 0..n /\ f[m] = Append(f[m - 1], m) /\ f[m - 1] \in Seq(T)
    BY <1>2, <1>4, <2>0
  <2>2. /\ DOMAIN f[m] = 1..(Len(f[m - 1]) + 1) /\ f[m][Len(f[m - 1]) + 1] = m
        /\ Len(f[m - 1]) \in Nat /\ DOMAIN f[m - 1] = 1..Len(f[m - 1])
        /\ \A k \in 1..Len(f[m - 1]) : f[m][k] = f[m - 1][k]
    BY <2>1, AppendProperties, LenProperties
  <2>3. CASE m = p
    BY <2>2, <2>3
  <2>4. CASE Has(m - 1)
    BY <2>2, <2>4
  <2> QED
    BY <1>4, <2>3, <2>4
<1>5. ASSUME NEW m \in 1..n, m \notin S, Has(m - 1)
      PROVE  Has(m)
  BY <1>2, <1>5
<1> HIDE DEF Has
<1>6. 0 \in R
  OBVIOUS
<1>7. ASSUME NEW m \in Nat, m \in R
      PROVE  m + 1 \in R
  <2> SUFFICES ASSUME p <= m + 1, m + 1 <= n PROVE Has(m + 1)
    OBVIOUS
  <2>1. m + 1 \in 1..n /\ (m + 1) - 1 = m /\ (m + 1 = p \/ Has(m))
    BY <1>7
  <2> QED
    BY <1>4, <1>5, <2>1
<1> HIDE DEF R
<1>8. Nat \subseteq R
  BY <1>6, <1>7, SetInduction
<1>9. Has(n)
  BY <1>8 DEF R
<1> QED
  BY <1>1, <1>9 DEF Has

\* A sum over what is collected is a sum over everything, with zero elsewhere.
LEMMA SumOfCollected ==
  ASSUME NEW n \in Nat, NEW S, NEW s \in [1..n -> Int]
  PROVE  LET c == Collected(S, n)
         IN  SumOf([j \in DOMAIN c |-> s[c[j]]]) = SumOf([k \in 1..n |-> IF k \in S THEN s[k] ELSE 0])
<1> DEFINE T == S \cap 1..n
           Of(c) == [j \in DOMAIN c |-> s[c[j]]]
           masked == [k \in 1..n |-> IF k \in S THEN s[k] ELSE 0]
<1>1. PICK f : Keeps(f, S, n) /\ Collected(S, n) = f[n]
  BY CollectedIsLast
<1>2. masked \in Seq(Int) /\ Len(masked) = n
  BY SeqDef, LenProperties
<1>3. PICK g : RunsUp(g, masked)
  BY <1>2, RunningSumExists
<1>4. \A k \in 1..n : masked[k] = IF k \in S THEN s[k] ELSE 0
  OBVIOUS
<1> HIDE DEF masked
<1>5. /\ g \in [0..n -> Int] /\ g[0] = 0
      /\ \A k \in 1..n : g[k] = g[k - 1] + masked[k]
  BY <1>2, <1>3 DEF RunsUp
<1>6. \A k \in T : k \in 1..n /\ s[k] \in Int
  OBVIOUS
<1> HIDE DEF T
<1>7. /\ \A k \in 0..n : f[k] \in Seq(T)
      /\ f[0] = <<>>
      /\ \A k \in 1..n : f[k] = IF k \in S THEN Append(f[k - 1], k) ELSE f[k - 1]
  BY <1>1 DEF Keeps, T
<1>8. ASSUME NEW c \in Seq(T)
      PROVE  Of(c) \in Seq(Int) /\ Len(Of(c)) = Len(c) /\ DOMAIN Of(c) = 1..Len(c)
  <2>1. Len(c) \in Nat /\ DOMAIN c = 1..Len(c) /\ \A j \in 1..Len(c) : c[j] \in T
    BY LenProperties, ElementOfSeq
  <2>2. Of(c) \in [1..Len(c) -> Int]
    BY <1>6, <2>1
  <2> HIDE DEF Of
  <2> QED
    BY <2>1, <2>2, SeqDef, LenProperties
<1>9. ASSUME NEW c \in Seq(T), NEW k \in T
      PROVE  Of(Append(c, k)) = Append(Of(c), s[k])
  <2>1. /\ Append(c, k) \in Seq(T) /\ Len(Append(c, k)) = Len(c) + 1 /\ Len(c) \in Nat
        /\ DOMAIN c = 1..Len(c) /\ DOMAIN Append(c, k) = 1..(Len(c) + 1)
        /\ \A j \in 1..Len(c) : Append(c, k)[j] = c[j]
        /\ Append(c, k)[Len(c) + 1] = k
    BY AppendProperties, LenProperties
  <2>2. /\ Of(c) \in Seq(Int) /\ Len(Of(c)) = Len(c) /\ s[k] \in Int
        /\ Of(Append(c, k)) \in Seq(Int) /\ Len(Of(Append(c, k))) = Len(c) + 1
    BY <1>6, <1>8, <2>1
  <2>3. /\ \A j \in 1..Len(c) : Of(c)[j] = s[c[j]] /\ Of(Append(c, k))[j] = s[c[j]]
        /\ Of(Append(c, k))[Len(c) + 1] = s[k]
    <3>1. 1..Len(c) \subseteq 1..(Len(c) + 1) /\ Len(c) + 1 \in 1..(Len(c) + 1)
      BY <2>1
    <3> QED
      BY <2>1, <3>1
  <2> HIDE DEF Of
  <2> DEFINE t == Append(Of(c), s[k])
  <2>4. /\ t \in Seq(Int) /\ Len(t) = Len(c) + 1
        /\ \A j \in 1..Len(c) : t[j] = Of(c)[j]
        /\ t[Len(c) + 1] = s[k]
    BY <2>2, AppendProperties
  <2> HIDE DEF t
  <2>5. ASSUME NEW j \in 1..(Len(c) + 1)
        PROVE  Of(Append(c, k))[j] = t[j]
    <3>1. j \in 1..Len(c) \/ j = Len(c) + 1
      BY <2>1
    <3> QED
      BY <2>3, <2>4, <3>1
  <2>6. Of(Append(c, k)) = t
    BY <2>2, <2>4, <2>5, SeqEqual
  <2> QED
    BY <2>6 DEF t
<1> HIDE DEF Of
<1> DEFINE R == {m \in Nat : m <= n => SumOf(Of(f[m])) = g[m]}
<1>10. 0 \in R
  <2>1. Of(<<>>) \in Seq(Int) /\ Len(Of(<<>>)) = 0
    BY <1>8, EmptySeq
  <2>2. Of(<<>>) \in [1..0 -> Int] /\ 1..0 = {}
    BY <2>1, LenProperties
  <2>3. SumOf(Of(<<>>)) = 0
    BY <2>2, SumOfZeros
  <2> QED
    BY <1>5, <1>7, <2>3
<1>11. ASSUME NEW m \in Nat, m \in R
       PROVE  m + 1 \in R
  <2> SUFFICES ASSUME m + 1 <= n PROVE SumOf(Of(f[m + 1])) = g[m + 1]
    OBVIOUS
  <2>1. SumOf(Of(f[m])) = g[m] /\ m + 1 \in 1..n /\ (m + 1) - 1 = m /\ m \in 0..n
    BY <1>11
  <2>2. f[m] \in Seq(T) /\ g[m] \in Int /\ g[m + 1] = g[m] + masked[m + 1]
    BY <1>5, <1>7, <2>1
  <2>3. CASE m + 1 \in S
    <3>1. m + 1 \in T /\ f[m + 1] = Append(f[m], m + 1) /\ masked[m + 1] = s[m + 1]
      BY <1>4, <1>7, <2>1, <2>3 DEF T
    <3>2. Of(f[m + 1]) = Append(Of(f[m]), s[m + 1]) /\ Of(f[m]) \in Seq(Int) /\ s[m + 1] \in Int
      BY <1>6, <1>8, <1>9, <2>2, <3>1
    <3> QED
      BY <2>1, <2>2, <3>1, <3>2, SumOfAppend
  <2>4. CASE m + 1 \notin S
    <3>1. f[m + 1] = f[m] /\ masked[m + 1] = 0
      BY <1>4, <1>7, <2>1, <2>4
    <3> QED
      BY <2>1, <2>2, <3>1
  <2> QED
    BY <2>3, <2>4
<1> HIDE DEF R
<1>12. SumOf(Of(f[n])) = g[n]
  <2>1. Nat \subseteq R
    BY <1>10, <1>11, SetInduction
  <2> QED
    BY <2>1 DEF R
<1>13. SumOf(masked) = g[n]
  BY <1>2, <1>3, SumIsLast
<1> QED
  BY <1>1, <1>12, <1>13 DEF Of, masked

\* The first error is one of the errors, and none only if there is none.
LEMMA FirstErrorProperties ==
  ASSUME NEW n \in Nat, NEW errors, DOMAIN errors = 1..n
  PROVE  /\ FirstError(errors) = Succeeds => \A k \in 1..n : errors[k] = Succeeds
         /\ FirstError(errors) # Succeeds => \E k \in 1..n : errors[k] = FirstError(errors)
<1> DEFINE raised == {k \in DOMAIN errors : errors[k] # Succeeds}
<1>1. CASE raised = {}
  <2>1. FirstError(errors) = Succeeds
    BY <1>1 DEF FirstError
  <2> QED
    BY <1>1, <2>1
<1>2. CASE raised # {}
  <2>1. raised \in SUBSET Nat
    OBVIOUS
  <2>2. FirstError(errors) = errors[Min(raised)]
    BY <1>2 DEF FirstError
  <2> HIDE DEF raised
  <2>3. Min(raised) \in raised
    BY <1>2, <2>1, LeastExists
  <2> QED
    BY <2>2, <2>3 DEF raised
<1> QED
  BY <1>1, <1>2

-----------------------------------------------------------------------------
(* The invariant *)

\* A workspace the host may have: none yet, or one that a build returned.
IsBuilt(w) ==
  /\ w.mesh \in Meshes
  /\ w.options \in Options
  /\ BuildError(w.mesh, w.options) = Succeeds
  /\ w = Workspace(w.mesh, w.options)
IsKept(w) == w = NoWorkspace \/ IsBuilt(w)

WorkspaceIsKept == IsKept(workspace)

\* A call raised an error, or applied such a workspace to a field.
OutcomeIsReal ==
  \/ outcome = Raised(outcome.error)
  \/ IsKept(outcome.workspace) /\ outcome = Applied(outcome.workspace, outcome.field)

IInv == mesh \in Meshes /\ WorkspaceIsKept /\ OutcomeIsReal

\* What a build returns.
LEMMA BuiltIsKept ==
  ASSUME NEW m \in Meshes, NEW o \in Options, BuildError(m, o) = Succeeds
  PROVE  IsKept(Workspace(m, o))
<1>1. Workspace(m, o).mesh = m /\ Workspace(m, o).options = o
  BY DEF Workspace
<1> QED
  BY <1>1 DEF IsKept, IsBuilt

\* What an application returns.
LEMMA AppliedIsReal ==
  ASSUME NEW w, NEW field
  PROVE  Applied(w, field) = Applied(Applied(w, field).workspace, Applied(w, field).field)
<1>1. Applied(w, field).workspace = w /\ Applied(w, field).field = field
  BY DEF Applied
<1> QED
  BY <1>1

LEMMA RaisedIsReal ==
  ASSUME NEW e
  PROVE  Raised(e) = Raised(Raised(e).error)
BY DEF Raised

LEMMA InitIsInv == Init => IInv
<1> SUFFICES ASSUME Init PROVE IInv
  OBVIOUS
<1>1. OutcomeIsReal
  BY RaisedIsReal DEF Init, OutcomeIsReal
<1> QED
  BY <1>1 DEF Init, IInv, WorkspaceIsKept, IsKept

\* Every step keeps the invariant.
LEMMA StepKeepsInv == IInv /\ [Next]_vars => IInv'
<1> SUFFICES ASSUME IInv, [Next]_vars PROVE IInv'
  OBVIOUS
<1>1. mesh \in Meshes /\ IsKept(workspace) /\ OutcomeIsReal
  BY DEF IInv, WorkspaceIsKept
<1>2. CASE Return
  <2>1. OutcomeIsReal'
    BY <1>2, RaisedIsReal DEF Return, OutcomeIsReal
  <2> QED
    BY <1>1, <1>2, <2>1 DEF Return, IInv, WorkspaceIsKept
<1>3. CASE \E m \in Meshes : UseMesh(m)
  BY <1>1, <1>3 DEF UseMesh, IInv, WorkspaceIsKept, OutcomeIsReal
<1>4. ASSUME NEW o \in Options, BuildCellGradientWorkspace(o)
      PROVE  IInv'
  <2>1. OutcomeIsReal'
    BY <1>4, RaisedIsReal DEF BuildCellGradientWorkspace, OutcomeIsReal
  <2>2. IsKept(workspace')
    BY <1>1, <1>4, BuiltIsKept DEF BuildCellGradientWorkspace
  <2> QED
    BY <1>1, <1>4, <2>1, <2>2 DEF BuildCellGradientWorkspace, IInv, WorkspaceIsKept
<1>5. ASSUME NEW field \in FieldsOn(mesh), ComputeWithWorkspace(field)
      PROVE  IInv'
  <2>1. Applied(workspace, field).workspace = workspace
    BY DEF Applied
  <2>2. outcome' = Applied(workspace, field)
    BY <1>5 DEF ComputeWithWorkspace
  <2>3. IsKept(outcome'.workspace) /\ outcome' = Applied(outcome'.workspace, outcome'.field)
    BY <1>1, <2>1, <2>2, AppliedIsReal
  <2> QED
    BY <1>1, <1>5, <2>3 DEF ComputeWithWorkspace, IInv, WorkspaceIsKept, OutcomeIsReal
<1>6. ASSUME NEW field \in FieldsOn(mesh), NEW o \in Options, ComputeWithMesh(field, o)
      PROVE  IInv'
  <2>1. CASE \E e : outcome' = Raised(e)
    BY <1>1, <1>6, <2>1, RaisedIsReal DEF ComputeWithMesh, IInv, WorkspaceIsKept, OutcomeIsReal
  <2>2. CASE BuildError(mesh, o) = Succeeds /\ outcome' = Applied(Workspace(mesh, o), field)
    <3>1. Applied(Workspace(mesh, o), field).workspace = Workspace(mesh, o)
      BY DEF Applied
    <3>2. IsKept(outcome'.workspace) /\ outcome' = Applied(outcome'.workspace, outcome'.field)
      BY <1>1, <2>2, <3>1, BuiltIsKept, AppliedIsReal
    <3> QED
      BY <1>1, <1>6, <3>2 DEF ComputeWithMesh, IInv, WorkspaceIsKept, OutcomeIsReal
  <2> QED
    BY <1>6, <2>1, <2>2 DEF ComputeWithMesh
<1>7. CASE UNCHANGED vars
  BY <1>1, <1>7 DEF vars, IInv, WorkspaceIsKept, OutcomeIsReal
<1> QED
  BY <1>2, <1>3, <1>4, <1>5, <1>6, <1>7 DEF Next

\* The invariant of every host.
THEOREM InvAlwaysHolds == Spec => []IInv
<1>1. Init => IInv
  BY InitIsInv
<1>2. IInv /\ [Next]_vars => IInv'
  BY StepKeepsInv
<1> QED
  BY <1>1, <1>2, PTL DEF Spec

-----------------------------------------------------------------------------
(* Meshes and stencils *)

\* The elements of a mesh.
LEMMA MeshElements ==
  ASSUME NEW m \in Meshes
  PROVE  /\ Len(m.cells) \in Nat /\ DOMAIN m.cells = 1..Len(m.cells)
         /\ \A i \in DOMAIN m.cells : m.cells[i] \in LatticeCell
         /\ Len(m.faces) \in Nat /\ DOMAIN m.faces = 1..Len(m.faces)
         /\ \A i \in DOMAIN m.faces : m.faces[i] \in LatticeFace
<1>1. m.cells \in Seq(LatticeCell) /\ m.faces \in Seq(LatticeFace)
  BY MeshesAssumption DEF IsMesh
<1> QED
  BY <1>1, LenProperties, ElementOfSeq

\* CellNeighbours returns a vector of indices.
LEMMA NeighboursAreIndices ==
  ASSUME NEW m \in Meshes, NEW id
  PROVE  CellNeighbours(m, id) \in Seq(Int)
<1> DEFINE across == NeighbourAcross(m, id)
           shared == Collected(DOMAIN across, Len(m.faces))
<1>1. \A i \in DOMAIN m.faces : m.faces[i].owner \in Int /\ m.faces[i].neighbour \in Int
  BY MeshElements DEF LatticeFace
<1>2. \A i \in DOMAIN across : i \in DOMAIN m.faces /\ across[i] \in Int
  BY <1>1 DEF NeighbourAcross
<1> HIDE DEF across
<1>3. shared \in Seq((DOMAIN across) \cap 1..Len(m.faces))
  BY MeshElements, CollectedType
<1>4. /\ Len(shared) \in Nat /\ DOMAIN shared = 1..Len(shared)
      /\ \A k \in 1..Len(shared) : shared[k] \in DOMAIN across
  BY <1>3, LenProperties, ElementOfSeq
<1> HIDE DEF shared
<1>5. [k \in DOMAIN shared |-> across[shared[k]]] \in [1..Len(shared) -> Int]
  BY <1>2, <1>4
<1>6. [k \in DOMAIN shared |-> across[shared[k]]] \in Seq(Int)
  BY <1>4, <1>5, SeqDef
<1> QED
  BY <1>6 DEF CellNeighbours, across, shared

\* The stencils of a workspace that was built.
LEMMA StencilsOfBuilt ==
  ASSUME NEW w, IsBuilt(w)
  PROVE  /\ w.mesh \in Meshes
         /\ w.method \in {WLS, GG} /\ w.method = w.options.method
         /\ DOMAIN w.stencils = 1..Len(w.mesh.cells) /\ Len(w.stencils) = Len(w.mesh.cells)
         /\ \A i \in 1..Len(w.mesh.cells) :
              /\ w.stencils[i] = IF w.method = WLS THEN WLSStencil(w.mesh, w.mesh.cells[i], w.options)
                                                   ELSE GGStencil(w.mesh, w.mesh.cells[i])
              /\ w.stencils[i].cell = w.mesh.cells[i].id
<1> DEFINE n == Len(w.mesh.cells)
           stencil(i) == IF w.method = WLS THEN WLSStencil(w.mesh, w.mesh.cells[i], w.options)
                                           ELSE GGStencil(w.mesh, w.mesh.cells[i])
<1>1. w.mesh \in Meshes /\ w.options \in Options /\ w = Workspace(w.mesh, w.options)
  BY DEF IsBuilt
<1>2. n \in Nat /\ DOMAIN w.mesh.cells = 1..n
  BY <1>1, MeshElements
<1>3. w.method = w.options.method /\ w.stencils = [i \in 1..n |-> stencil(i)]
  BY <1>1, <1>2 DEF Workspace
<1>4. w.options.method # "unregistered"
  BY DEF IsBuilt, BuildError, Succeeds
<1>5. w.method \in {WLS, GG}
  BY <1>1, <1>3, <1>4 DEF Options
<1>6. \A i \in 1..n : stencil(i).cell = w.mesh.cells[i].id
  BY DEF WLSStencil, GGStencil
<1> HIDE DEF stencil
<1>7. w.stencils \in Seq({stencil(i) : i \in 1..n})
  BY <1>2, <1>3, IsASeq
<1>8. DOMAIN w.stencils = 1..n /\ Len(w.stencils) = n
  BY <1>2, <1>3, <1>7, LenProperties
<1> QED
  BY <1>1, <1>3, <1>5, <1>6, <1>8 DEF stencil

\* SharedFaces returns faces of the mesh that lie between the cell and another.
LEMMA SharedFacesAreShared ==
  ASSUME NEW m \in Meshes, NEW cell
  PROVE  /\ Len(SharedFaces(m, cell)) \in Nat
         /\ DOMAIN SharedFaces(m, cell) = 1..Len(SharedFaces(m, cell))
         /\ \A k \in DOMAIN SharedFaces(m, cell) : \E f \in DOMAIN m.faces :
              SharedFaces(m, cell)[k] = m.faces[f] /\ IsShared(m.faces[f], cell)
<1> DEFINE S == {i \in DOMAIN m.faces : IsShared(m.faces[i], cell)}
           shared == Collected(S, Len(m.faces))
<1>1. \A i \in S : i \in DOMAIN m.faces /\ IsShared(m.faces[i], cell)
  OBVIOUS
<1>2. SharedFaces(m, cell) = [k \in DOMAIN shared |-> m.faces[shared[k]]]
  BY DEF SharedFaces
<1> HIDE DEF S
<1>3. shared \in Seq(S \cap 1..Len(m.faces))
  BY MeshElements, CollectedType
<1>4. /\ Len(shared) \in Nat /\ DOMAIN shared = 1..Len(shared)
      /\ \A k \in 1..Len(shared) : shared[k] \in S
  BY <1>3, LenProperties, ElementOfSeq
<1> HIDE DEF shared
<1>5. SharedFaces(m, cell) \in Seq({m.faces[shared[k]] : k \in 1..Len(shared)})
  BY <1>2, <1>4, IsASeq
<1>6. DOMAIN SharedFaces(m, cell) = 1..Len(shared) /\ Len(SharedFaces(m, cell)) = Len(shared)
  BY <1>2, <1>4, <1>5, LenProperties
<1>7. \A k \in 1..Len(shared) : SharedFaces(m, cell)[k] = m.faces[shared[k]]
  BY <1>2, <1>4
<1> QED
  BY <1>1, <1>4, <1>6, <1>7

\* A least-squares build that succeeds has met only neighbours that exist, and none
\* at the cell's own place.
LEMMA NeighboursAreInRange ==
  ASSUME NEW w, IsBuilt(w), w.method = WLS, NEW i \in 1..Len(w.mesh.cells),
         NEW k \in DOMAIN CellNeighbours(w.mesh, w.mesh.cells[i].id)
  PROVE  LET id == CellNeighbours(w.mesh, w.mesh.cells[i].id)[k]
         IN  InRange(w.mesh, id) /\ DistanceSquared(Delta(w.mesh, w.mesh.cells[i], id)) # 0
<1> DEFINE m == w.mesh
           ids == CellNeighbours(m, m.cells[i].id)
           errors == [j \in DOMAIN m.cells |-> WLSError(m, m.cells[j])]
           reasons == [j \in DOMAIN ids |-> NeighbourError(m, m.cells[i], ids[j])]
<1>1. m \in Meshes /\ w.options.method = WLS
  BY StencilsOfBuilt
<1>2. Len(m.cells) \in Nat /\ DOMAIN m.cells = 1..Len(m.cells)
  BY <1>1, MeshElements
<1>3. FirstError(errors) = Succeeds
  BY <1>1 DEF IsBuilt, BuildError, WLS, GG
<1>4. WLSError(m, m.cells[i]) = Succeeds
  <2>1. errors[i] = Succeeds
    <3>1. DOMAIN errors = 1..Len(m.cells)
      BY <1>2
    <3> HIDE DEF errors
    <3> QED
      BY <1>2, <1>3, <3>1, FirstErrorProperties
  <2> QED
    BY <1>2, <2>1
<1>5. Len(ids) \in Nat /\ DOMAIN ids = 1..Len(ids)
  BY <1>1, NeighboursAreIndices, LenProperties
<1>6. reasons[k] = Succeeds
  <2>1. DOMAIN reasons = 1..Len(ids) /\ FirstError(reasons) = Succeeds
    BY <1>4, <1>5 DEF WLSError
  <2> HIDE DEF reasons
  <2> QED
    BY <1>5, <2>1, FirstErrorProperties
<1>7. NeighbourError(m, m.cells[i], ids[k]) = Succeeds
  BY <1>6
<1> QED
  BY <1>7 DEF NeighbourError, Succeeds

\* The coefficients of a least-squares stencil times its determinant.
Coefficients(g, a) ==
  [k \in DOMAIN g |-> [neighbour |-> g[k].neighbour,
                      x |-> g[k].weight * (a.a11 * g[k].dx + (-a.a01) * g[k].dy),
                      y |-> g[k].weight * ((-a.a01) * g[k].dx + a.a00 * g[k].dy)]]

\* A least-squares stencil s, from the geometry g of the neighbours.
Solves(s, g, tolerance) ==
  LET a == NormalEquation(g)
  IN  /\ s.over = a.a00 * a.a11 - a.a01 * a.a01
      /\ s.well_conditioned = ~IsSingular(g, s.over, tolerance)
      /\ s.coefficients = IF s.well_conditioned THEN Coefficients(g, a) ELSE <<>>

LEMMA StencilSolves ==
  ASSUME NEW m, NEW cell, NEW o
  PROVE  Solves(WLSStencil(m, cell, o), NeighbourGeometry(m, cell, o.weighting), o.tolerance)
<1> DEFINE g == NeighbourGeometry(m, cell, o.weighting)
           a == NormalEquation(g)
           s == WLSStencil(m, cell, o)
           inv == InverseTimesDeterminant(a)
           determinant == a.a00 * a.a11 - a.a01 * a.a01
           singular == IsSingular(g, determinant, o.tolerance)
           coefficients == [k \in DOMAIN g |->
                              [neighbour |-> g[k].neighbour,
                               x |-> g[k].weight * (inv.i00 * g[k].dx + inv.i01 * g[k].dy),
                               y |-> g[k].weight * (inv.i01 * g[k].dx + inv.i11 * g[k].dy)]]
<1>1. inv.i00 = a.a11 /\ inv.i01 = -a.a01 /\ inv.i11 = a.a00
  BY DEF InverseTimesDeterminant
<1>2. s = [cell |-> cell.id, well_conditioned |-> ~singular, over |-> determinant,
           coefficients |-> IF singular THEN <<>> ELSE coefficients]
  BY DEF WLSStencil
<1> HIDE DEF g, a, s, inv
<1>3. coefficients = Coefficients(g, a)
  BY <1>1 DEF Coefficients
<1> HIDE DEF coefficients
<1>4. /\ s.over = determinant
      /\ s.well_conditioned = ~IsSingular(g, s.over, o.tolerance)
      /\ s.coefficients = IF s.well_conditioned THEN coefficients ELSE <<>>
  BY <1>2
<1> QED
  BY <1>3, <1>4 DEF Solves, g, a, s

\* A mesh that a workspace was built for and that is navigable holds every cell
\* that its stencils read.
LEMMA IndicesAreHeld ==
  ASSUME NEW w, IsBuilt(w), IsNavigable(w.mesh), NEW values, Len(values) = Len(w.mesh.cells),
         NEW i \in 1..Len(w.mesh.cells)
  PROVE  /\ Holds(values, w.stencils[i].cell)
         /\ \A k \in DOMAIN w.stencils[i].coefficients :
              Holds(values, w.stencils[i].coefficients[k].neighbour)
<1> DEFINE m == w.mesh
           cell == m.cells[i]
           c == w.stencils[i].coefficients
<1>1. m \in Meshes /\ w.method \in {WLS, GG} /\ w.stencils[i].cell = cell.id
  BY StencilsOfBuilt
<1>2. /\ Len(m.cells) \in Nat /\ DOMAIN m.cells = 1..Len(m.cells)
      /\ DOMAIN m.faces = 1..Len(m.faces)
      /\ \A f \in DOMAIN m.faces : m.faces[f].owner \in Int /\ m.faces[f].neighbour \in Int
  BY <1>1, MeshElements DEF LatticeFace
<1>3. cell.id = i - 1
  BY <1>2 DEF IsNavigable
<1>4. CASE w.method = WLS
  <2>1. w.stencils[i] = WLSStencil(m, cell, w.options)
    BY <1>4, StencilsOfBuilt
  <2>2. ASSUME NEW k \in DOMAIN c
        PROVE  Holds(values, c[k].neighbour)
    <3> DEFINE ids == CellNeighbours(m, cell.id)
    <3>1. DOMAIN NeighbourGeometry(m, cell, w.options.weighting) = DOMAIN ids
      BY DEF NeighbourGeometry
    <3>2. k \in DOMAIN ids /\ c[k].neighbour = ids[k]
      <4> DEFINE g == NeighbourGeometry(m, cell, w.options.weighting)
      <4>1. \A j \in DOMAIN ids : g[j].neighbour = ids[j]
        BY DEF NeighbourGeometry
      <4>2. c = <<>> \/ (DOMAIN c = DOMAIN g /\ \A j \in DOMAIN g : c[j].neighbour = g[j].neighbour)
        <5>1. Solves(w.stencils[i], g, w.options.tolerance)
          BY <2>1, StencilSolves
        <5> HIDE DEF g
        <5> QED
          BY <5>1 DEF Solves, Coefficients
      <4>3. c # <<>>
        BY <2>2
      <4> QED
        BY <2>2, <3>1, <4>1, <4>2, <4>3
    <3>3. ids \in Seq(Int)
      BY <1>1, NeighboursAreIndices
    <3>4. ids[k] \in Int
      <4> HIDE DEF ids
      <4> QED
        BY <3>2, <3>3, LenProperties, ElementOfSeq
    <3>5. InRange(m, ids[k])
      BY <1>4, <3>2, NeighboursAreInRange
    <3> HIDE DEF ids
    <3>6. ids[k] >= 0 /\ ids[k] < Len(m.cells)
      BY <3>5 DEF InRange, IsValidIndex
    <3> HIDE DEF c
    <3> QED
      BY <1>2, <3>2, <3>4, <3>6 DEF Holds
  <2> QED
    BY <1>1, <1>2, <1>3, <2>2 DEF Holds
<1>5. CASE w.method = GG
  <2>1. w.stencils[i] = GGStencil(m, cell)
    BY <1>5, StencilsOfBuilt DEF WLS, GG
  <2>2. ASSUME NEW k \in DOMAIN c
        PROVE  Holds(values, c[k].neighbour)
    <3> DEFINE shared == SharedFaces(m, cell)
    <3>1. k \in DOMAIN shared /\ c[k].neighbour = OtherSide(shared[k], cell)
      <4> HIDE DEF m, cell
      <4>1. c = GGStencil(m, cell).coefficients
        BY <2>1
      <4> HIDE DEF c
      <4> QED
        BY <2>2, <4>1 DEF GGStencil
    <3>2. PICK f \in DOMAIN m.faces : shared[k] = m.faces[f] /\ IsShared(m.faces[f], cell)
      <4> HIDE DEF m, cell
      <4> QED
        BY <1>1, <3>1, SharedFacesAreShared
    <3>3. OtherSide(m.faces[f], cell) \in 0..(Len(m.cells) - 1)
      BY <1>2, <3>2 DEF IsNavigable, IsShared, OtherSide, IsValidIndex
    <3> QED
      BY <3>1, <3>2, <3>3 DEF Holds
  <2> QED
    BY <1>1, <1>2, <1>3, <2>2 DEF Holds
<1> QED
  BY <1>1, <1>4, <1>5

\* Diagnostics counts as many ill-conditioned stencils as there are: none, or some.
LEMMA IllConditionedCount ==
  ASSUME NEW w, NEW n \in Nat, DOMAIN w.stencils = 1..n
  PROVE  LET ill == Diagnostics(w).ill_conditioned_count
         IN  /\ ill = 0 <=> \A i \in 1..n : w.stencils[i].well_conditioned
             /\ ill > 0 <=> \E i \in 1..n : ~w.stencils[i].well_conditioned
<1> DEFINE S == {i \in DOMAIN w.stencils : ~w.stencils[i].well_conditioned}
<1>1. S \subseteq 1..n
  OBVIOUS
<1>2. \A i \in 1..n : i \in S <=> ~w.stencils[i].well_conditioned
  OBVIOUS
<1>3. Diagnostics(w).ill_conditioned_count = Cardinality(S)
  BY DEF Diagnostics
<1> HIDE DEF S
<1>4. IsFiniteSet(S)
  <2>1. IsFiniteSet(1..n)
    BY FS_Interval
  <2> QED
    BY <1>1, <2>1, FS_Subset
<1>5. Cardinality(S) \in Nat /\ (Cardinality(S) = 0 <=> S = {})
  BY <1>4, FS_CardinalityType, FS_EmptySet
<1>6. S = {} <=> \A i \in 1..n : w.stencils[i].well_conditioned
  BY <1>1, <1>2
<1> QED
  BY <1>3, <1>5, <1>6

-----------------------------------------------------------------------------
(* Diagnostics *)

\* A result has a workspace only if one was applied.
LEMMA OutcomeIsApplied ==
  ASSUME OutcomeIsReal, "workspace" \in DOMAIN outcome
  PROVE  IsKept(outcome.workspace) /\ outcome = Applied(outcome.workspace, outcome.field)
<1>1. DOMAIN Raised(outcome.error) = {"error", "gradients"}
  BY DEF Raised
<1>2. outcome # Raised(outcome.error)
  BY <1>1
<1> QED
  BY <1>2 DEF OutcomeIsReal

\* The stencils of any workspace that the host may have.
LEMMA StencilsOfKept ==
  ASSUME NEW w, IsKept(w)
  PROVE  Len(w.stencils) \in Nat /\ DOMAIN w.stencils = 1..Len(w.stencils)
<1>1. CASE w = NoWorkspace
  <2>1. w.stencils = <<>>
    BY <1>1 DEF NoWorkspace
  <2> QED
    BY <2>1
<1>2. CASE IsBuilt(w)
  <2>1. Len(w.mesh.cells) \in Nat
    BY <1>2, StencilsOfBuilt, MeshElements
  <2> QED
    BY <1>2, <2>1, StencilsOfBuilt
<1> QED
  BY <1>1, <1>2 DEF IsKept

LEMMA DiagnosticsPredict == IInv => DiagnosticsPredictFailure
<1> DEFINE w == outcome.workspace
           values == outcome.field.values
           n == Len(w.stencils)
           error(i) == StencilError(w.stencils[i], values)
           ill == Diagnostics(w).ill_conditioned_count
<1> SUFFICES ASSUME IInv, "workspace" \in DOMAIN outcome, FieldError(outcome.field, n) = Succeeds
             PROVE  /\ outcome.error = "numerics.singular_least_squares" => ill > 0
                    /\ outcome.error = Succeeds => ill = 0
                    /\ outcome.error = OutOfRange => ~IsNavigable(w.mesh)
  BY DEF DiagnosticsPredictFailure
<1>1. IsKept(w) /\ outcome = Applied(w, outcome.field)
  BY OutcomeIsApplied DEF IInv
<1>2. n \in Nat /\ DOMAIN w.stencils = 1..n
  BY <1>1, StencilsOfKept
<1>3. outcome.error = FirstError([i \in 1..n |-> error(i)])
  <2>1. outcome.error = ComputeError(w, outcome.field)
    BY <1>1 DEF Applied
  <2> QED
    BY <1>2, <2>1 DEF ComputeError
<1>4. /\ outcome.error = Succeeds => \A i \in 1..n : error(i) = Succeeds
      /\ outcome.error # Succeeds => \E i \in 1..n : error(i) = outcome.error
  <2> DEFINE errors == [i \in 1..n |-> error(i)]
  <2>1. DOMAIN errors = 1..n /\ \A i \in 1..n : errors[i] = error(i)
    OBVIOUS
  <2> HIDE DEF errors, error
  <2>2. /\ FirstError(errors) = Succeeds => \A k \in 1..n : errors[k] = Succeeds
        /\ FirstError(errors) # Succeeds => \E k \in 1..n : errors[k] = FirstError(errors)
    BY <1>2, <2>1, FirstErrorProperties
  <2>3. FirstError(errors) = outcome.error
    BY <1>3 DEF errors
  <2> QED
    BY <2>1, <2>2, <2>3
<1>5. /\ ill = 0 <=> \A i \in 1..n : w.stencils[i].well_conditioned
      /\ ill > 0 <=> \E i \in 1..n : ~w.stencils[i].well_conditioned
  BY <1>2, IllConditionedCount
<1>6. ASSUME outcome.error = "numerics.singular_least_squares"
      PROVE  ill > 0
  <2>1. PICK i \in 1..n : error(i) = "numerics.singular_least_squares"
    BY <1>4, <1>6 DEF Succeeds
  <2>2. ~w.stencils[i].well_conditioned
    BY <2>1 DEF StencilError, Succeeds, OutOfRange
  <2> QED
    BY <1>5, <2>2
<1>7. ASSUME outcome.error = Succeeds
      PROVE  ill = 0
  <2>1. \A i \in 1..n : error(i) = Succeeds
    BY <1>4, <1>7
  <2>2. \A i \in 1..n : w.stencils[i].well_conditioned
    BY <2>1 DEF StencilError, Succeeds
  <2> QED
    BY <1>5, <2>2
<1>8. ASSUME outcome.error = OutOfRange
      PROVE  ~IsNavigable(w.mesh)
  <2>1. PICK i \in 1..n : error(i) = OutOfRange
    BY <1>4, <1>8 DEF Succeeds, OutOfRange
  <2>2. ~(/\ Holds(values, w.stencils[i].cell)
          /\ \A k \in DOMAIN w.stencils[i].coefficients :
               Holds(values, w.stencils[i].coefficients[k].neighbour))
    BY <2>1 DEF StencilError, Succeeds, OutOfRange
  <2>3. IsBuilt(w)
    <3>1. NoWorkspace.stencils = <<>> /\ Len(<<>>) = 0
      BY DEF NoWorkspace
    <3>2. n # 0
      BY <1>2, <2>1
    <3> QED
      BY <1>1, <3>1, <3>2 DEF IsKept
  <2>4. Len(values) = n
    BY DEF FieldError, Succeeds
  <2>5. n = Len(w.mesh.cells)
    BY <2>3, StencilsOfBuilt
  <2> QED
    BY <2>1, <2>2, <2>3, <2>4, <2>5, IndicesAreHeld
<1> QED
  BY <1>6, <1>7, <1>8

\* Diagnostics tells, for every workspace the host can have and whatever mesh it has
\* turned to since, whether a cell field of the right size will give gradients; an
\* index leaves the field only on a mesh that names cells it does not have.
THEOREM DiagnosticsAlwaysPredict == Spec => []DiagnosticsPredictFailure
BY InvAlwaysHolds, DiagnosticsPredict, PTL

-----------------------------------------------------------------------------
(* Weights *)

\* Every number has a root, rounded down.
LEMMA RootProperties ==
  ASSUME NEW d \in Nat, d > 0
  PROVE  Root(d) \in 1..d
<1> DEFINE S == {r \in Nat : (r + 1) * (r + 1) > d}
           m == Min(S)
<1>1. (d + 1) * (d + 1) > d
  <2>1. (d + 1) * (d + 1) = d * d + 2 * d + 1 /\ d * d \in Nat
    OBVIOUS
  <2> QED
    BY <2>1
<1>2. d \in S
  BY <1>1
<1>3. m \in S /\ \A r \in S : m <= r
  <2>1. S \in SUBSET Nat /\ S # {}
    BY <1>2
  <2> HIDE DEF S
  <2> QED
    BY <2>1, LeastExists
<1>4. m \in Nat /\ (m + 1) * (m + 1) > d /\ m <= d
  BY <1>2, <1>3
<1>5. m * m <= d
  <2> HIDE DEF m
  <2>1. CASE m = 0
    BY <2>1
  <2>2. CASE m > 0
    <3>1. m - 1 \in Nat /\ m - 1 < m /\ (m - 1) + 1 = m
      BY <1>4, <2>2
    <3>2. m - 1 \notin S
      BY <1>3, <1>4, <3>1
    <3>3. ~(m * m > d) /\ m * m \in Int
      BY <1>4, <3>1, <3>2
    <3> QED
      BY <3>3
  <2> QED
    BY <1>4, <2>1, <2>2
<1> HIDE DEF m
<1>6. \E r \in 0..d : r * r <= d /\ (r + 1) * (r + 1) > d
  BY <1>4, <1>5
<1>7. Root(d) \in 0..d /\ (Root(d) + 1) * (Root(d) + 1) > d
  BY <1>6 DEF Root
<1>8. Root(d) # 0
  BY <1>7
<1> QED
  BY <1>7, <1>8

LEMMA QuotientProperties ==
  ASSUME NEW n \in Nat, NEW d \in Nat, d > 0
  PROVE  n \div d \in Nat /\ (d <= n => n \div d >= 1)
<1>1. n \div d \in Int
  OBVIOUS
<1>2. n = d * (n \div d) + (n % d) /\ 0 <= (n % d) /\ (n % d) < d
  OBVIOUS
<1> DEFINE q == n \div d
           r == n % d
<1>3. q \in Int /\ r \in Int /\ n = d * q + r /\ 0 <= r /\ r < d
  BY <1>1, <1>2
<1> HIDE DEF q, r
<1>4. q >= 0
  <2> SUFFICES ASSUME q <= -1 PROVE FALSE
    BY <1>3
  <2>1. d * q <= -d
    BY <1>3
  <2> QED
    BY <1>3, <2>1
<1>5. q = 0 => n < d
  BY <1>3
<1> QED
  BY <1>3, <1>4, <1>5 DEF q

\* Weights are whole numbers, and those of the library are positive.
LEMMA WeightProperties ==
  ASSUME NEW m \in Meshes, NEW d \in Distances(m), d \in Nat, d > 0, NEW policy
  PROVE  Weight(policy, d) \in Int /\ (policy \in BuiltIn => Weight(policy, d) >= 1)
<1>1. Unit \in Nat /\ Unit >= 1 /\ d <= Unit /\ HostWeight(d) \in Int
  BY MeshesAssumption, UnitAssumption
<1>2. Root(d) \in Nat /\ Root(d) > 0 /\ Root(d) <= Unit
  BY <1>1, RootProperties
<1>3. InverseDistance(d) \in Int /\ InverseDistance(d) >= 1
  BY <1>1, <1>2, QuotientProperties DEF InverseDistance
<1>4. InverseDistanceSquared(d) \in Int /\ InverseDistanceSquared(d) >= 1
  BY <1>1, QuotientProperties DEF InverseDistanceSquared
<1>5. CASE policy = "uniform"
  BY <1>1, <1>5 DEF Weight
<1>6. CASE policy = "inverse_distance"
  BY <1>3, <1>6 DEF Weight
<1>7. CASE policy = "inverse_distance_squared"
  BY <1>4, <1>7 DEF Weight
<1>8. CASE policy \notin BuiltIn
  BY <1>1, <1>8 DEF Weight, BuiltIn
<1> QED
  BY <1>5, <1>6, <1>7, <1>8 DEF BuiltIn

-----------------------------------------------------------------------------
(* The normal equation *)

\* What NeighbourGeometry returns on a mesh of which all neighbours exist.
IsGeometry(g, n) ==
  /\ n \in Nat /\ DOMAIN g = 1..n /\ Len(g) = n
  /\ \A k \in 1..n : g[k].dx \in Int /\ g[k].dy \in Int /\ g[k].weight \in Int

\* The neighbours of cell, where they lie, and their weights if the library's own.
IsGeometryOf(g, m, cell, weighting) ==
  LET ids == CellNeighbours(m, cell.id)
  IN  /\ IsGeometry(g, Len(ids))
      /\ \A k \in 1..Len(ids) :
           /\ g[k].neighbour = ids[k] /\ ids[k] \in 0..(Len(m.cells) - 1)
           /\ g[k].dx = m.cells[ids[k] + 1].x - cell.x
           /\ g[k].dy = m.cells[ids[k] + 1].y - cell.y
           /\ weighting \in BuiltIn => g[k].weight >= 1

\* Where the neighbours of a least-squares workspace lie: elsewhere than the cell.
LEMMA DistancesOfBuilt ==
  ASSUME NEW w, IsBuilt(w), w.method = WLS, NEW i \in 1..Len(w.mesh.cells),
         NEW k \in DOMAIN CellNeighbours(w.mesh, w.mesh.cells[i].id)
  PROVE  LET id == CellNeighbours(w.mesh, w.mesh.cells[i].id)[k]
             d  == Delta(w.mesh, w.mesh.cells[i], id)
         IN  /\ id \in 0..(Len(w.mesh.cells) - 1)
             /\ d.x \in Int /\ d.y \in Int
             /\ DistanceSquared(d) \in Nat /\ DistanceSquared(d) > 0
             /\ DistanceSquared(d) \in Distances(w.mesh)
<1> DEFINE m == w.mesh
           cell == m.cells[i]
           ids == CellNeighbours(m, cell.id)
           id == ids[k]
           d == Delta(m, cell, id)
<1>1. m \in Meshes
  BY StencilsOfBuilt
<1>2. /\ Len(m.cells) \in Nat /\ DOMAIN m.cells = 1..Len(m.cells)
      /\ \A j \in 1..Len(m.cells) : m.cells[j].x \in Int /\ m.cells[j].y \in Int
  BY <1>1, MeshElements DEF LatticeCell
<1>3. id \in Int /\ InRange(m, id) /\ DistanceSquared(d) # 0
  <2>1. ids \in Seq(Int)
    BY <1>1, NeighboursAreIndices
  <2>2. id \in Int
    BY <2>1, LenProperties, ElementOfSeq
  <2> QED
    BY <2>2, NeighboursAreInRange
<1>4. id \in 0..(Len(m.cells) - 1)
  BY <1>2, <1>3 DEF InRange, IsValidIndex
<1>5. d.x \in Int /\ d.y \in Int
  <2>1. id + 1 \in 1..Len(m.cells)
    BY <1>2, <1>4
  <2>2. d.x = m.cells[id + 1].x - cell.x /\ d.y = m.cells[id + 1].y - cell.y
    BY DEF Delta, CellAt
  <2>3. /\ m.cells[id + 1].x \in Int /\ m.cells[id + 1].y \in Int
        /\ cell.x \in Int /\ cell.y \in Int
    BY <1>2, <2>1
  <2> HIDE DEF d, cell, id
  <2> QED
    BY <2>2, <2>3
<1>6. DistanceSquared(d) \in Nat /\ DistanceSquared(d) > 0
  <2>1. ASSUME NEW x \in Int PROVE x * x \in Nat
    OBVIOUS
  <2> HIDE DEF d
  <2>2. d.x * d.x \in Nat /\ d.y * d.y \in Nat
    BY <1>5, <2>1
  <2>3. DistanceSquared(d) = d.x * d.x + d.y * d.y
    BY DEF DistanceSquared
  <2> QED
    BY <1>3, <2>2, <2>3
<1>7. DistanceSquared(d) \in Distances(m)
  <2>1. id \in ToSet(ids)
    BY DEF ToSet
  <2> QED
    BY <1>2, <1>3, <2>1 DEF Distances
<1> QED
  BY <1>4, <1>5, <1>6, <1>7

\* The geometry of a least-squares workspace, with the weights taken of its distances.
LEMMA GeometryOfBuilt ==
  ASSUME NEW w, IsBuilt(w), w.method = WLS, NEW i \in 1..Len(w.mesh.cells)
  PROVE  IsGeometryOf(NeighbourGeometry(w.mesh, w.mesh.cells[i], w.options.weighting),
                      w.mesh, w.mesh.cells[i], w.options.weighting)
<1> DEFINE m == w.mesh
           cell == m.cells[i]
           ids == CellNeighbours(m, cell.id)
           n == Len(ids)
           g == NeighbourGeometry(m, cell, w.options.weighting)
           d(k) == Delta(m, cell, ids[k])
<1>1. m \in Meshes
  BY StencilsOfBuilt
<1>2. n \in Nat /\ DOMAIN ids = 1..n
  BY <1>1, NeighboursAreIndices, LenProperties
<1>3. \A k \in 1..n : /\ ids[k] \in 0..(Len(m.cells) - 1) /\ d(k).x \in Int /\ d(k).y \in Int
                      /\ DistanceSquared(d(k)) \in Nat /\ DistanceSquared(d(k)) > 0
                      /\ DistanceSquared(d(k)) \in Distances(m)
  BY <1>2, DistancesOfBuilt
<1>4. \A k \in 1..n : /\ d(k).x = m.cells[ids[k] + 1].x - cell.x
                      /\ d(k).y = m.cells[ids[k] + 1].y - cell.y
  BY DEF Delta, CellAt
<1> HIDE DEF d
<1>5. ASSUME NEW k \in 1..n
      PROVE  /\ Weight(w.options.weighting, DistanceSquared(d(k))) \in Int
             /\ w.options.weighting \in BuiltIn
                  => Weight(w.options.weighting, DistanceSquared(d(k))) >= 1
  BY <1>1, <1>3, WeightProperties
<1>6. /\ DOMAIN g = 1..n
      /\ \A k \in 1..n : g[k] = [neighbour |-> ids[k], dx |-> d(k).x, dy |-> d(k).y,
                                 weight |-> Weight(w.options.weighting, DistanceSquared(d(k)))]
  BY <1>2 DEF NeighbourGeometry, d
<1>7. Len(g) = n
  <2>1. g = [k \in 1..n |-> g[k]]
    BY <1>2 DEF NeighbourGeometry
  <2>2. g \in Seq({g[k] : k \in 1..n})
    BY <1>2, <2>1, IsASeq
  <2> QED
    BY <1>2, <1>6, <2>2, LenProperties
<1> HIDE DEF g, ids
<1>8. ASSUME NEW k \in 1..n
      PROVE  /\ g[k].neighbour = ids[k] /\ g[k].dx = d(k).x /\ g[k].dy = d(k).y
             /\ g[k].weight = Weight(w.options.weighting, DistanceSquared(d(k)))
  BY <1>6
<1>9. IsGeometry(g, n)
  BY <1>2, <1>3, <1>5, <1>6, <1>7, <1>8 DEF IsGeometry
<1>10. ASSUME NEW k \in 1..n
       PROVE  /\ g[k].neighbour = ids[k] /\ ids[k] \in 0..(Len(m.cells) - 1)
              /\ g[k].dx = m.cells[ids[k] + 1].x - cell.x
              /\ g[k].dy = m.cells[ids[k] + 1].y - cell.y
              /\ w.options.weighting \in BuiltIn => g[k].weight >= 1
  BY <1>3, <1>4, <1>5, <1>8
<1> QED
  BY <1>9, <1>10 DEF IsGeometryOf, ids, g

\* The products that the normal equation adds up.
NormalSums(g, n) ==
  [a00 |-> [k \in 1..n |-> g[k].weight * g[k].dx * g[k].dx],
   a01 |-> [k \in 1..n |-> g[k].weight * g[k].dx * g[k].dy],
   a11 |-> [k \in 1..n |-> g[k].weight * g[k].dy * g[k].dy]]

LEMMA NormalEquationType ==
  ASSUME NEW g, NEW n, IsGeometry(g, n)
  PROVE  LET s == NormalSums(g, n)
             a == NormalEquation(g)
         IN  /\ s.a00 \in [1..n -> Int] /\ s.a01 \in [1..n -> Int] /\ s.a11 \in [1..n -> Int]
             /\ a.a00 = SumOf(s.a00) /\ a.a01 = SumOf(s.a01) /\ a.a11 = SumOf(s.a11)
             /\ a.a00 \in Int /\ a.a01 \in Int /\ a.a11 \in Int
<1> DEFINE s == NormalSums(g, n)
           a == NormalEquation(g)
<1>1. /\ n \in Nat /\ DOMAIN g = 1..n
      /\ \A k \in 1..n : g[k].dx \in Int /\ g[k].dy \in Int /\ g[k].weight \in Int
  BY DEF IsGeometry
<1>2. s.a00 \in [1..n -> Int] /\ s.a01 \in [1..n -> Int] /\ s.a11 \in [1..n -> Int]
  <2>1. \A k \in 1..n : /\ g[k].weight * g[k].dx * g[k].dx \in Int
                        /\ g[k].weight * g[k].dx * g[k].dy \in Int
                        /\ g[k].weight * g[k].dy * g[k].dy \in Int
    BY <1>1
  <2> QED
    BY <2>1 DEF NormalSums
<1>3. a.a00 = SumOf(s.a00) /\ a.a01 = SumOf(s.a01) /\ a.a11 = SumOf(s.a11)
  BY <1>1 DEF NormalEquation, NormalSums
<1> HIDE DEF s, a
<1>4. a.a00 \in Int /\ a.a01 \in Int /\ a.a11 \in Int
  <2>1. s.a00 \in Seq(Int) /\ s.a01 \in Seq(Int) /\ s.a11 \in Seq(Int)
    BY <1>1, <1>2, SeqDef
  <2> QED
    BY <1>3, <2>1, SumType
<1> QED
  BY <1>2, <1>3, <1>4 DEF s, a

\* The weighted sum of (u dx + v dy) (a dx + b dy) is a bilinear form in the elements
\* of the normal equation.
BilinearSum(g, n, u, v, a, b) ==
  SumOf([k \in 1..n |-> (g[k].weight * (u * g[k].dx + v * g[k].dy)) * (a * g[k].dx + b * g[k].dy)])

LEMMA SumOfProducts ==
  ASSUME NEW g, NEW n, IsGeometry(g, n),
         NEW u \in Int, NEW v \in Int, NEW a \in Int, NEW b \in Int
  PROVE  LET e == NormalEquation(g)
         IN  BilinearSum(g, n, u, v, a, b)
               = (u * a) * e.a00 + (u * b + v * a) * e.a01 + (v * b) * e.a11
<1> DEFINE s == NormalSums(g, n)
           e == NormalEquation(g)
           r == [k \in 1..n |-> (g[k].weight * (u * g[k].dx + v * g[k].dy))
                                  * (a * g[k].dx + b * g[k].dy)]
<1>1. n \in Nat /\ \A k \in 1..n : g[k].dx \in Int /\ g[k].dy \in Int /\ g[k].weight \in Int
  BY DEF IsGeometry
<1>2. /\ s.a00 \in [1..n -> Int] /\ s.a01 \in [1..n -> Int] /\ s.a11 \in [1..n -> Int]
      /\ e.a00 = SumOf(s.a00) /\ e.a01 = SumOf(s.a01) /\ e.a11 = SumOf(s.a11)
  BY NormalEquationType
<1>3. \A k \in 1..n : /\ s.a00[k] = g[k].weight * g[k].dx * g[k].dx
                      /\ s.a01[k] = g[k].weight * g[k].dx * g[k].dy
                      /\ s.a11[k] = g[k].weight * g[k].dy * g[k].dy
  BY DEF NormalSums
<1>4. ASSUME NEW x \in Int, NEW y \in Int, NEW t \in Int
      PROVE  /\ (t * (u * x + v * y)) * (a * x + b * y) \in Int
             /\ (t * (u * x + v * y)) * (a * x + b * y)
                  = (u * a) * (t * x * x) + (u * b + v * a) * (t * x * y) + (v * b) * (t * y * y)
  OBVIOUS
<1>5. \A k \in 1..n :
        /\ r[k] \in Int
        /\ r[k] = (u * a) * s.a00[k] + (u * b + v * a) * s.a01[k] + (v * b) * s.a11[k]
  BY <1>1, <1>3, <1>4
<1>6. r \in [1..n -> Int]
  BY <1>5
<1> HIDE DEF r, s, e
<1>7. u * a \in Int /\ u * b + v * a \in Int /\ v * b \in Int
  OBVIOUS
<1>8. CombinesThree(n, r, u * a, s.a00, u * b + v * a, s.a01, v * b, s.a11)
  BY <1>1, <1>2, <1>5, <1>6, <1>7 DEF CombinesThree
<1>9. SumOf(r) = (u * a) * SumOf(s.a00) + (u * b + v * a) * SumOf(s.a01) + (v * b) * SumOf(s.a11)
  BY <1>8, SumOfThree
<1> QED
  BY <1>2, <1>9 DEF r, e, BilinearSum

-----------------------------------------------------------------------------
(* Linear fields *)

LEMMA LinearValuesAt ==
  ASSUME NumberedCells, NEW m \in Meshes, NEW a, NEW b, NEW c, NEW j \in 1..Len(m.cells)
  PROVE  LinearValues(m, a, b, c)[j] = a * m.cells[j].x + b * m.cells[j].y + c
<1> DEFINE n == Len(m.cells)
           at == CHOOSE k \in 1..n : m.cells[k].id = j - 1
<1>1. n \in Nat /\ DOMAIN m.cells = 1..n
  BY MeshElements
<1>2. \A k \in 1..n : m.cells[k].id = k - 1
  BY <1>1 DEF NumberedCells
<1>3. \E k \in 1..n : m.cells[k].id = j - 1
  BY <1>2
<1>4. at \in 1..n /\ m.cells[at].id = j - 1
  BY <1>3
<1> HIDE DEF at
<1>5. at = j
  BY <1>1, <1>2, <1>4
<1>6. LinearValues(m, a, b, c)[j] = a * m.cells[at].x + b * m.cells[at].y + c
  BY <1>1, <1>3 DEF LinearValues, at
<1> QED
  BY <1>5, <1>6

\* Gradients are returned only by a workspace that was built, of stencils that are
\* all well conditioned and read nothing outside the field.
LEMMA ComputedIsSound ==
  ASSUME OutcomeIsReal, Computed, outcome.workspace.method \in {WLS, GG}
  PROVE  /\ IsBuilt(outcome.workspace)
         /\ outcome.gradients = Gradients(outcome.workspace, outcome.field.values)
         /\ Len(outcome.field.values) = Len(outcome.workspace.mesh.cells)
         /\ \A i \in 1..Len(outcome.workspace.mesh.cells) :
              LET s == outcome.workspace.stencils[i]
              IN  /\ s.well_conditioned
                  /\ \A k \in DOMAIN s.coefficients :
                       Holds(outcome.field.values, s.coefficients[k].neighbour)
<1> DEFINE w == outcome.workspace
           n == Len(w.mesh.cells)
           values == outcome.field.values
           errors == [i \in DOMAIN w.stencils |-> StencilError(w.stencils[i], values)]
<1>1. outcome # Raised(outcome.error)
  BY DEF Computed, Raised
<1>2. IsKept(w) /\ outcome = Applied(w, outcome.field)
  BY <1>1 DEF OutcomeIsReal
<1>3. IsBuilt(w)
  <2>1. NoWorkspace.method = ""
    BY DEF NoWorkspace
  <2> QED
    BY <1>2, <2>1 DEF IsKept, WLS, GG
<1>4. ComputeError(w, outcome.field) = Succeeds /\ outcome.gradients = Gradients(w, values)
  <2>1. outcome.gradients = IF ComputeError(w, outcome.field) = Succeeds
                            THEN Gradients(w, values) ELSE NoGradients
    BY <1>2 DEF Applied
  <2> QED
    BY <2>1 DEF Computed
<1>5. FieldError(outcome.field, Len(w.stencils)) = Succeeds /\ FirstError(errors) = Succeeds
  BY <1>4 DEF ComputeError
<1>6. n \in Nat /\ DOMAIN w.stencils = 1..n
  BY <1>3, StencilsOfBuilt, MeshElements
<1>7. \A i \in 1..n : errors[i] = Succeeds
  <2>1. DOMAIN errors = 1..n
    BY <1>6
  <2> HIDE DEF errors
  <2> QED
    BY <1>5, <1>6, <2>1, FirstErrorProperties
<1>8. \A i \in 1..n : /\ w.stencils[i].well_conditioned
                      /\ \A k \in DOMAIN w.stencils[i].coefficients :
                           Holds(values, w.stencils[i].coefficients[k].neighbour)
  BY <1>6, <1>7 DEF StencilError, Succeeds, OutOfRange
<1>9. Len(values) = n
  <2>1. Len(values) = Len(w.stencils)
    BY <1>5 DEF FieldError, Succeeds
  <2> QED
    BY <1>3, <2>1, StencilsOfBuilt
<1> QED
  BY <1>3, <1>4, <1>8, <1>9

\* With cells numbered by position, each has the gradient of its own stencil.
LEMMA GradientOfCell ==
  ASSUME NumberedCells, NEW w, IsBuilt(w), NEW values, DOMAIN values = 1..Len(w.mesh.cells),
         NEW i \in 1..Len(w.mesh.cells)
  PROVE  /\ w.stencils[i].cell = i - 1
         /\ Gradients(w, values)[i] = GradientOf(w.stencils[i], values)
<1> DEFINE n == Len(w.mesh.cells)
           written == {k \in DOMAIN w.stencils : w.stencils[k].cell = i - 1}
<1>1. w.mesh \in Meshes /\ DOMAIN w.stencils = 1..n
  BY StencilsOfBuilt
<1>2. n \in Nat /\ DOMAIN w.mesh.cells = 1..n
  BY <1>1, MeshElements
<1>3. \A k \in 1..n : w.stencils[k].cell = k - 1
  BY <1>1, <1>2, StencilsOfBuilt DEF NumberedCells
<1>4. written = {i}
  BY <1>1, <1>2, <1>3
<1>5. Gradients(w, values)[i] = IF written = {} THEN Zero
                                ELSE GradientOf(w.stencils[Max(written)], values)
  BY DEF Gradients
<1> HIDE DEF written
<1>6. Max({i}) = i
  BY DEF Max
<1> QED
  BY <1>3, <1>4, <1>5, <1>6

\* Between the cell of s and its neighbours, values differ as a x + b y does.
IsLinearAcross(values, s, g, n, a, b) ==
  \A k \in 1..n : values[g[k].neighbour + 1] - values[s.cell + 1] = a * g[k].dx + b * g[k].dy

\* A well-conditioned least-squares stencil applied to a linear field.
LEMMA LeastSquaresIsExact ==
  ASSUME NEW g, NEW n, IsGeometry(g, n), NEW s, NEW tolerance, Solves(s, g, tolerance),
         s.well_conditioned, NEW a \in Int, NEW b \in Int, NEW values,
         IsLinearAcross(values, s, g, n, a, b)
  PROVE  Is(GradientOf(s, values), a, b)
<1> DEFINE e == NormalEquation(g)
           c == s.coefficients
<1>1. c = Coefficients(g, e) /\ s.over = e.a00 * e.a11 - e.a01 * e.a01
  BY DEF Solves
<1>2. n \in Nat /\ DOMAIN g = 1..n
  BY DEF IsGeometry
<1>3. e.a00 \in Int /\ e.a01 \in Int /\ e.a11 \in Int
  BY NormalEquationType
<1> DEFINE Term(k, u, v) == (g[k].weight * (u * g[k].dx + v * g[k].dy))
                              * (a * g[k].dx + b * g[k].dy)
<1>4. DOMAIN c = 1..n
  BY <1>1, <1>2 DEF Coefficients
<1>5. \A k \in 1..n :
        /\ c[k].x * Difference(s, c[k], values) = Term(k, e.a11, -e.a01)
        /\ c[k].y * Difference(s, c[k], values) = Term(k, -e.a01, e.a00)
  <2> SUFFICES ASSUME NEW k \in 1..n
               PROVE  /\ c[k].x * Difference(s, c[k], values) = Term(k, e.a11, -e.a01)
                      /\ c[k].y * Difference(s, c[k], values) = Term(k, -e.a01, e.a00)
    OBVIOUS
  <2>1. /\ c[k].neighbour = g[k].neighbour
        /\ c[k].x = g[k].weight * (e.a11 * g[k].dx + (-e.a01) * g[k].dy)
        /\ c[k].y = g[k].weight * ((-e.a01) * g[k].dx + e.a00 * g[k].dy)
    BY <1>1, <1>2 DEF Coefficients
  <2>2. Difference(s, c[k], values) = a * g[k].dx + b * g[k].dy
    BY <2>1 DEF Difference, IsLinearAcross
  <2> QED
    BY <2>1, <2>2
<1>6. /\ GradientOf(s, values).x = BilinearSum(g, n, e.a11, -e.a01, a, b)
      /\ GradientOf(s, values).y = BilinearSum(g, n, -e.a01, e.a00, a, b)
      /\ GradientOf(s, values).over = s.over
  <2>1. /\ GradientOf(s, values).x = SumOf([k \in DOMAIN c |-> c[k].x * Difference(s, c[k], values)])
        /\ GradientOf(s, values).y = SumOf([k \in DOMAIN c |-> c[k].y * Difference(s, c[k], values)])
        /\ GradientOf(s, values).over = s.over
    BY DEF GradientOf
  <2> HIDE DEF c, e, Term
  <2>2. /\ [k \in 1..n |-> c[k].x * Difference(s, c[k], values)]
             = [k \in 1..n |-> Term(k, e.a11, -e.a01)]
        /\ [k \in 1..n |-> c[k].y * Difference(s, c[k], values)]
             = [k \in 1..n |-> Term(k, -e.a01, e.a00)]
    BY <1>5
  <2>3. \A u, v : BilinearSum(g, n, u, v, a, b) = SumOf([k \in 1..n |-> Term(k, u, v)])
    BY DEF BilinearSum, Term
  <2> QED
    BY <1>4, <2>1, <2>2, <2>3
<1> HIDE DEF Term
<1>7. -e.a01 \in Int
  BY <1>3
<1>8. /\ BilinearSum(g, n, e.a11, -e.a01, a, b)
           = (e.a11 * a) * e.a00 + (e.a11 * b + (-e.a01) * a) * e.a01 + ((-e.a01) * b) * e.a11
      /\ BilinearSum(g, n, -e.a01, e.a00, a, b)
           = ((-e.a01) * a) * e.a00 + ((-e.a01) * b + e.a00 * a) * e.a01 + (e.a00 * b) * e.a11
  BY <1>3, <1>7, SumOfProducts
<1> HIDE DEF e
<1>9. /\ (e.a11 * a) * e.a00 + (e.a11 * b + (-e.a01) * a) * e.a01 + ((-e.a01) * b) * e.a11
           = a * (e.a00 * e.a11 - e.a01 * e.a01)
      /\ ((-e.a01) * a) * e.a00 + ((-e.a01) * b + e.a00 * a) * e.a01 + (e.a00 * b) * e.a11
           = b * (e.a00 * e.a11 - e.a01 * e.a01)
  <2> DEFINE p == e.a00
             q == e.a01
             r == e.a11
  <2>1. p \in Int /\ q \in Int /\ r \in Int
    BY <1>3
  <2> HIDE DEF p, q, r
  <2>2. (r * a) * p + (r * b + (-q) * a) * q + ((-q) * b) * r = a * (p * r - q * q)
    BY <2>1
  <2>3. ((-q) * a) * p + ((-q) * b + p * a) * q + (p * b) * r = b * (p * r - q * q)
    BY <2>1
  <2> QED
    BY <2>2, <2>3 DEF p, q, r
<1>10. /\ GradientOf(s, values).x = a * s.over
       /\ GradientOf(s, values).y = b * s.over
  BY <1>1, <1>6, <1>8, <1>9
<1> QED
  BY <1>6, <1>10 DEF Is

\* LinearIsExact for every slope and every constant.
ExactOnLinear ==
  Computed /\ outcome.workspace.method = WLS =>
    \A a, b, c \in Int :
      outcome.field.values = LinearValues(outcome.workspace.mesh, a, b, c)
        => \A i \in DOMAIN outcome.gradients : Is(outcome.gradients[i], a, b)

LEMMA LinearFieldsAreExact ==
  ASSUME NumberedCells, IInv
  PROVE  ExactOnLinear
<1> DEFINE w == outcome.workspace
           m == w.mesh
           n == Len(m.cells)
           values == outcome.field.values
<1> SUFFICES ASSUME Computed, w.method = WLS, NEW a \in Int, NEW b \in Int, NEW c \in Int,
                    values = LinearValues(m, a, b, c), NEW i \in DOMAIN outcome.gradients
             PROVE  Is(outcome.gradients[i], a, b)
  BY DEF ExactOnLinear
<1>1. /\ IsBuilt(w)
      /\ outcome.gradients = Gradients(w, values)
      /\ \A j \in 1..n : w.stencils[j].well_conditioned
  BY ComputedIsSound DEF IInv
<1>2. /\ m \in Meshes
      /\ \A j \in 1..n : w.stencils[j] = WLSStencil(m, m.cells[j], w.options)
  BY <1>1, StencilsOfBuilt
<1>3. /\ n \in Nat /\ DOMAIN m.cells = 1..n
      /\ \A j \in 1..n : m.cells[j].x \in Int /\ m.cells[j].y \in Int
  BY <1>2, MeshElements DEF LatticeCell
<1>4. DOMAIN values = 1..n /\ DOMAIN outcome.gradients = 1..n
  <2>1. DOMAIN values = 1..n
    BY <1>3 DEF LinearValues
  <2>2. DOMAIN Gradients(w, values) = DOMAIN values
    BY DEF Gradients
  <2> QED
    BY <1>1, <2>1, <2>2
<1> DEFINE s == w.stencils[i]
           g == NeighbourGeometry(m, m.cells[i], w.options.weighting)
           ids == CellNeighbours(m, m.cells[i].id)
<1>5. s.cell = i - 1 /\ outcome.gradients[i] = GradientOf(s, values)
  BY <1>1, <1>4, GradientOfCell
<1>6. Solves(s, g, w.options.tolerance)
  BY <1>2, <1>4, StencilSolves
<1>7. /\ IsGeometry(g, Len(ids))
      /\ \A k \in 1..Len(ids) :
           /\ g[k].neighbour = ids[k] /\ ids[k] \in 0..(n - 1)
           /\ g[k].dx = m.cells[ids[k] + 1].x - m.cells[i].x
           /\ g[k].dy = m.cells[ids[k] + 1].y - m.cells[i].y
  <2>1. IsGeometryOf(g, m, m.cells[i], w.options.weighting)
    BY <1>1, <1>4, GeometryOfBuilt
  <2> HIDE DEF g
  <2> QED
    BY <2>1 DEF IsGeometryOf
<1>8. \A j \in 1..n : values[j] = a * m.cells[j].x + b * m.cells[j].y + c
  BY <1>2, LinearValuesAt
<1>9. ASSUME NEW k \in 1..Len(ids)
      PROVE  values[g[k].neighbour + 1] - values[s.cell + 1] = a * g[k].dx + b * g[k].dy
  <2> HIDE DEF m, values, g, s, ids
  <2>1. i \in 1..n /\ n \in Nat /\ s.cell + 1 = i
    BY <1>3, <1>4, <1>5
  <2>2. ids[k] \in 0..(n - 1) /\ g[k].neighbour = ids[k]
    BY <1>7
  <2> DEFINE j == ids[k] + 1
             p == m.cells[j].x
             q == m.cells[j].y
             x == m.cells[i].x
             y == m.cells[i].y
  <2>3. j \in 1..n /\ g[k].neighbour + 1 = j
    BY <2>1, <2>2
  <2>4. g[k].dx = p - x /\ g[k].dy = q - y
    BY <1>7
  <2> HIDE DEF j
  <2>5. p \in Int /\ q \in Int /\ x \in Int /\ y \in Int
    BY <1>3, <2>1, <2>3
  <2>6. values[j] = a * p + b * q + c /\ values[i] = a * x + b * y + c
    BY <1>8, <2>1, <2>3
  <2> HIDE DEF p, q, x, y
  <2>7. (a * p + b * q + c) - (a * x + b * y + c) = a * (p - x) + b * (q - y)
    BY <2>5
  <2> QED
    BY <2>1, <2>3, <2>4, <2>6, <2>7
<1>10. s.well_conditioned
  BY <1>1, <1>4
<1> HIDE DEF s, g, values, ids
<1>11. IsLinearAcross(values, s, g, Len(ids), a, b)
  BY <1>9 DEF IsLinearAcross
<1>12. Is(GradientOf(s, values), a, b)
  BY <1>6, <1>7, <1>10, <1>11, LeastSquaresIsExact
<1> QED
  BY <1>5, <1>12

\* Least squares returns (a, b) in every cell for a x + b y + c, whatever the mesh,
\* the weights and the tolerance, whenever it returns at all.
THEOREM LinearFieldsAlwaysExact ==
  ASSUME NumberedCells
  PROVE  Spec => [](LinearIsExact /\ ExactOnLinear)
<1>1. ASSUME IInv PROVE LinearIsExact /\ ExactOnLinear
  <2>1. ExactOnLinear
    BY <1>1, LinearFieldsAreExact
  <2>2. -3..3 \subseteq Int /\ 5 \in Int
    OBVIOUS
  <2>3. LinearIsExact
    BY <2>1, <2>2 DEF LinearIsExact, ExactOnLinear
  <2> QED
    BY <2>1, <2>3
<1> QED
  BY <1>1, InvAlwaysHolds, PTL

-----------------------------------------------------------------------------
(* Planes *)

\* Two vectors are parallel element by element.
Parallel(n, a, s, b, t) ==
  /\ n \in Nat /\ a \in Int /\ b \in Int /\ s \in [1..n -> Int] /\ t \in [1..n -> Int]
  /\ \A k \in 1..n : a * s[k] = b * t[k]

LEMMA SumsAreParallel ==
  ASSUME NEW n, NEW a, NEW b, NEW s, NEW t, Parallel(n, a, s, b, t)
  PROVE  a * SumOf(s) = b * SumOf(t)
<1>1. /\ n \in Nat /\ a \in Int /\ b \in Int /\ s \in [1..n -> Int] /\ t \in [1..n -> Int]
      /\ \A k \in 1..n : a * s[k] = b * t[k]
  BY DEF Parallel
<1> DEFINE r == [k \in 1..n |-> a * s[k]]
<1>2. /\ r \in [1..n -> Int]
      /\ \A k \in 1..n : r[k] = a * s[k] /\ s[k] \in Int /\ t[k] \in Int
  BY <1>1
<1> HIDE DEF r
<1>3. Combines(n, r, a, s, 0, t) /\ Combines(n, r, b, t, 0, s)
  BY <1>1, <1>2 DEF Combines
<1>4. SumOf(r) = a * SumOf(s) + 0 * SumOf(t) /\ SumOf(r) = b * SumOf(t) + 0 * SumOf(s)
  BY <1>3, SumIsLinear
<1>5. SumOf(s) \in Int /\ SumOf(t) \in Int
  BY <1>1, SumType, SeqDef
<1>6. a * SumOf(s) \in Int /\ b * SumOf(t) \in Int
  BY <1>1, <1>5
<1> QED
  BY <1>4, <1>5, <1>6

\* Two of the neighbours are not on one line with the cell.
IsPlane(g, n) == \E j, k \in 1..n : g[j].dx * g[k].dy # g[j].dy * g[k].dx

Determinant(a) == a.a00 * a.a11 - a.a01 * a.a01

\* On a line the normal equation is singular.
LEMMA LineIsSingular ==
  ASSUME NEW g, NEW n, IsGeometry(g, n), ~IsPlane(g, n)
  PROVE  Determinant(NormalEquation(g)) = 0
<1> DEFINE a == NormalEquation(g)
           s == NormalSums(g, n)
           p == a.a00
           q == a.a01
           r == a.a11
<1>1. n \in Nat /\ \A k \in 1..n : g[k].dx \in Int /\ g[k].dy \in Int /\ g[k].weight \in Int
  BY DEF IsGeometry
<1>2. /\ s.a00 \in [1..n -> Int] /\ s.a01 \in [1..n -> Int] /\ s.a11 \in [1..n -> Int]
      /\ p = SumOf(s.a00) /\ q = SumOf(s.a01) /\ r = SumOf(s.a11)
      /\ p \in Int /\ q \in Int /\ r \in Int
  BY NormalEquationType
<1>3. \A k \in 1..n : /\ s.a00[k] = g[k].weight * g[k].dx * g[k].dx
                      /\ s.a01[k] = g[k].weight * g[k].dx * g[k].dy
                      /\ s.a11[k] = g[k].weight * g[k].dy * g[k].dy
  BY DEF NormalSums
<1>4. Determinant(a) = p * r - q * q
  BY DEF Determinant
<1> HIDE DEF p, q, r, s, a
<1>5. CASE \A k \in 1..n : g[k].dx = 0
  <2>1. \A k \in 1..n : s.a00[k] = 0 /\ s.a01[k] = 0
    <3> SUFFICES ASSUME NEW k \in 1..n PROVE s.a00[k] = 0 /\ s.a01[k] = 0
      OBVIOUS
    <3>1. g[k].weight \in Int /\ g[k].dy \in Int /\ g[k].dx = 0
      BY <1>1, <1>5
    <3>2. g[k].weight * 0 = 0 /\ 0 * g[k].dy = 0
      BY <3>1
    <3> QED
      BY <1>3, <3>1, <3>2
  <2>2. p = 0 /\ q = 0
    BY <1>1, <1>2, <2>1, SumOfZeros
  <2>3. p * r - q * q = 0
    BY <1>2, <2>2
  <2> QED
    BY <1>4, <2>3 DEF a
<1>6. ASSUME NEW j \in 1..n, g[j].dx # 0
      PROVE  Determinant(a) = 0
  <2> DEFINE x == g[j].dx
             y == g[j].dy
  <2>1. x \in Int /\ y \in Int /\ x # 0
    BY <1>1, <1>6
  <2>2. \A k \in 1..n : x * g[k].dy = y * g[k].dx
    BY DEF IsPlane
  <2> HIDE DEF x, y
  <2>3. \A k \in 1..n : x * s.a01[k] = y * s.a00[k] /\ x * s.a11[k] = y * s.a01[k]
    <3> SUFFICES ASSUME NEW k \in 1..n
                 PROVE  x * s.a01[k] = y * s.a00[k] /\ x * s.a11[k] = y * s.a01[k]
      OBVIOUS
    <3> DEFINE t == g[k].weight
               u == g[k].dx
               v == g[k].dy
    <3>1. t \in Int /\ u \in Int /\ v \in Int
      BY <1>1
    <3>2. s.a00[k] = t * u * u /\ s.a01[k] = t * u * v /\ s.a11[k] = t * v * v
      BY <1>3
    <3>3. x * v = y * u
      BY <2>2
    <3> HIDE DEF t, u, v
    <3>4. x * (t * u * v) = (t * u) * (x * v) /\ y * (t * u * u) = (t * u) * (y * u)
      BY <2>1, <3>1
    <3>5. x * (t * v * v) = (t * v) * (x * v) /\ y * (t * u * v) = (t * v) * (y * u)
      BY <2>1, <3>1
    <3> QED
      BY <3>2, <3>3, <3>4, <3>5
  <2>4. Parallel(n, x, s.a01, y, s.a00) /\ Parallel(n, x, s.a11, y, s.a01)
    BY <1>1, <1>2, <2>1, <2>3 DEF Parallel
  <2>5. x * q = y * p /\ x * r = y * q
    BY <1>2, <2>4, SumsAreParallel
  <2>6. x * (p * r - q * q) = p * (x * r) - q * (x * q)
    BY <1>2, <2>1
  <2>7. p * (y * q) = q * (y * p)
    BY <1>2, <2>1
  <2>8. x * (p * r - q * q) = 0
    <3>1. p * (y * q) \in Int
      BY <1>2, <2>1
    <3> QED
      BY <2>5, <2>6, <2>7, <3>1
  <2>9. p * r - q * q \in Int
    BY <1>2
  <2> QED
    BY <1>4, <2>1, <2>8, <2>9
<1> QED
  BY <1>5, <1>6 DEF a

\* With positive weights, a form that takes the value zero is zero at each neighbour.
LEMMA FormIsDefinite ==
  ASSUME NEW g, NEW n, IsGeometry(g, n), \A k \in 1..n : g[k].weight >= 1,
         NEW u \in Int, NEW v \in Int, BilinearSum(g, n, u, v, u, v) = 0, NEW k \in 1..n
  PROVE  u * g[k].dx + v * g[k].dy = 0
<1> DEFINE f(i) == u * g[i].dx + v * g[i].dy
           r == [i \in 1..n |-> (g[i].weight * f(i)) * f(i)]
<1>1. n \in Nat /\ \A i \in 1..n : g[i].dx \in Int /\ g[i].dy \in Int /\ g[i].weight \in Int
  BY DEF IsGeometry
<1>2. \A i \in 1..n : f(i) \in Int
  BY <1>1
<1>3. SumOf(r) = 0
  BY DEF BilinearSum
<1> HIDE DEF f
<1>4. ASSUME NEW t \in Int, t >= 1, NEW x \in Int
      PROVE  (t * x) * x \in Nat /\ ((t * x) * x = 0 => x = 0)
  <2>1. x * x \in Nat /\ (t * x) * x = t * (x * x)
    OBVIOUS
  <2>2. t * (x * x) >= x * x
    BY <1>4, <2>1
  <2>3. t * (x * x) \in Int
    BY <2>1
  <2>4. x * x = 0 => x = 0
    OBVIOUS
  <2> QED
    BY <2>1, <2>2, <2>3, <2>4
<1>5. \A i \in 1..n : r[i] \in Nat /\ (r[i] = 0 => f(i) = 0)
  <2> SUFFICES ASSUME NEW i \in 1..n PROVE r[i] \in Nat /\ (r[i] = 0 => f(i) = 0)
    OBVIOUS
  <2>1. r[i] = (g[i].weight * f(i)) * f(i) /\ g[i].weight \in Int /\ g[i].weight >= 1 /\ f(i) \in Int
    BY <1>1, <1>2
  <2> HIDE DEF r
  <2> QED
    BY <1>4, <2>1
<1>6. r \in [1..n -> Int]
  BY <1>5
<1> HIDE DEF r
<1>7. r[k] <= 0
  <2>1. r \in [1..n -> Int] /\ \A i \in 1..n : r[i] >= 0
    BY <1>5, <1>6
  <2>2. \A i \in 1..n : r[i] <= SumOf(r)
    BY <1>1, <2>1, SumIsAtLeast
  <2> QED
    BY <1>3, <2>2
<1> QED
  BY <1>5, <1>7 DEF f

\* With positive weights the normal equation of a plane is regular: if it were
\* singular, the form with its first row as coefficients would be zero everywhere.
LEMMA PlaneIsRegular ==
  ASSUME NEW g, NEW n, IsGeometry(g, n), \A k \in 1..n : g[k].weight >= 1, IsPlane(g, n)
  PROVE  Determinant(NormalEquation(g)) # 0
<1> DEFINE a == NormalEquation(g)
           p == a.a00
           q == a.a01
           r == a.a11
           x(k) == g[k].dx
           y(k) == g[k].dy
<1>1. \A k \in 1..n : x(k) \in Int /\ y(k) \in Int
  BY DEF IsGeometry
<1>2. p \in Int /\ q \in Int /\ r \in Int /\ -q \in Int
  BY NormalEquationType
<1>3. \A u, v \in Int : BilinearSum(g, n, u, v, u, v)
                          = (u * u) * p + (u * v + v * u) * q + (v * v) * r
  BY SumOfProducts
<1>4. \A u, v \in Int : BilinearSum(g, n, u, v, u, v) = 0 => \A k \in 1..n : u * x(k) + v * y(k) = 0
  BY FormIsDefinite
<1>5. PICK j \in 1..n, k \in 1..n : x(j) * y(k) # y(j) * x(k)
  BY DEF IsPlane
<1> HIDE DEF p, q, r, x, y
<1>6. SUFFICES ASSUME p * r - q * q = 0 PROVE FALSE
  BY DEF Determinant, p, q, r
<1>7. p # 0
  <2> SUFFICES ASSUME p = 0 PROVE FALSE
    OBVIOUS
  <2>1. BilinearSum(g, n, 1, 0, 1, 0) = 0
    <3>1. BilinearSum(g, n, 1, 0, 1, 0) = (1 * 1) * p + (1 * 0 + 0 * 1) * q + (0 * 0) * r
      BY <1>3
    <3> QED
      BY <1>2, <3>1
  <2>2. \A i \in 1..n : 1 * x(i) + 0 * y(i) = 0
    BY <1>4, <2>1
  <2>3. x(j) = 0 /\ x(k) = 0
    BY <1>1, <2>2
  <2>4. y(j) \in Int /\ y(k) \in Int
    BY <1>1
  <2> QED
    BY <1>5, <2>3, <2>4
<1>8. \A i \in 1..n : (-q) * x(i) + p * y(i) = 0
  <2>1. BilinearSum(g, n, -q, p, -q, p)
          = ((-q) * (-q)) * p + ((-q) * p + p * (-q)) * q + (p * p) * r
    BY <1>2, <1>3
  <2>2. ((-q) * (-q)) * p + ((-q) * p + p * (-q)) * q + (p * p) * r = p * (p * r - q * q)
    BY <1>2
  <2>3. BilinearSum(g, n, -q, p, -q, p) = 0
    BY <1>2, <1>6, <2>1, <2>2
  <2> QED
    BY <1>2, <1>4, <2>3
<1>9. x(j) \in Int /\ y(j) \in Int /\ x(k) \in Int /\ y(k) \in Int
  BY <1>1
<1>10. p * y(j) = q * x(j) /\ p * y(k) = q * x(k)
  <2>1. (-q) * x(j) + p * y(j) = 0 /\ (-q) * x(k) + p * y(k) = 0
    BY <1>8
  <2> QED
    BY <1>2, <1>9, <2>1
<1>11. p * (x(j) * y(k) - y(j) * x(k)) = 0
  <2>1. p * (x(j) * y(k) - y(j) * x(k)) = x(j) * (p * y(k)) - x(k) * (p * y(j))
    BY <1>2, <1>9
  <2>2. x(j) * (q * x(k)) = x(k) * (q * x(j)) /\ x(j) * (q * x(k)) \in Int
    BY <1>2, <1>9
  <2> QED
    BY <1>10, <2>1, <2>2
<1>12. x(j) * y(k) \in Int /\ y(j) * x(k) \in Int
  BY <1>9
<1>13. x(j) * y(k) - y(j) * x(k) # 0
  BY <1>5, <1>12
<1> QED
  BY <1>2, <1>7, <1>11, <1>12, <1>13

LEMMA RefusedMeansCollinear == IInv => IllConditionedMeansCollinear
<1> DEFINE w == workspace
           m == w.mesh
<1> SUFFICES ASSUME IInv, w.method = WLS, w.options.tolerance = 0, w.options.weighting \in BuiltIn,
                    NEW i \in DOMAIN w.stencils
             PROVE  w.stencils[i].well_conditioned <=> HasPlane(m, i)
  BY DEF IllConditionedMeansCollinear
<1>1. IsBuilt(w)
  <2>1. NoWorkspace.method = ""
    BY DEF NoWorkspace
  <2> QED
    BY <2>1 DEF IInv, WorkspaceIsKept, IsKept, WLS
<1>2. i \in 1..Len(m.cells) /\ m \in Meshes
  BY <1>1, StencilsOfBuilt
<1>3. w.stencils[i] = WLSStencil(m, m.cells[i], w.options)
  BY <1>1, <1>2, StencilsOfBuilt
<1> DEFINE ids == CellNeighbours(m, m.cells[i].id)
           n == Len(ids)
           g == NeighbourGeometry(m, m.cells[i], w.options.weighting)
           a == NormalEquation(g)
           s == w.stencils[i]
<1>4. Solves(s, g, w.options.tolerance)
  BY <1>3, StencilSolves
<1>5. IsGeometryOf(g, m, m.cells[i], w.options.weighting)
  BY <1>1, <1>2, GeometryOfBuilt
<1>6. DOMAIN ids = 1..n
  BY <1>2, NeighboursAreIndices, LenProperties
<1> HIDE DEF g, s, m, w
<1>7. /\ IsGeometry(g, n)
      /\ \A k \in 1..n : /\ g[k].dx = m.cells[ids[k] + 1].x - m.cells[i].x
                         /\ g[k].dy = m.cells[ids[k] + 1].y - m.cells[i].y
                         /\ g[k].weight >= 1
  BY <1>5 DEF IsGeometryOf, w
<1>8. HasPlane(m, i) <=> IsPlane(g, n)
  <2>1. \A k \in 1..n : /\ Delta(m, m.cells[i], ids[k]).x = g[k].dx
                        /\ Delta(m, m.cells[i], ids[k]).y = g[k].dy
    BY <1>7 DEF Delta, CellAt
  <2> HIDE DEF ids
  <2> QED
    BY <1>6, <2>1 DEF HasPlane, IsPlane, ids
<1> HIDE DEF ids
<1>9. s.well_conditioned <=> ~(Len(g) < 2 \/ Absolute(Determinant(a)) <= 0)
  BY <1>4 DEF Solves, IsSingular, Determinant, w
<1>10. n \in Nat /\ Len(g) = n /\ Determinant(a) \in Int
  <2>1. a.a00 \in Int /\ a.a01 \in Int /\ a.a11 \in Int
    BY <1>7, NormalEquationType
  <2> HIDE DEF a
  <2> QED
    BY <1>7, <2>1 DEF IsGeometry, Determinant
<1>11. Absolute(Determinant(a)) <= 0 <=> Determinant(a) = 0
  BY <1>10 DEF Absolute
<1>12. IsPlane(g, n) => n >= 2
  <2> SUFFICES ASSUME IsPlane(g, n), n < 2 PROVE FALSE
    BY <1>10
  <2>1. PICK j \in 1..n, k \in 1..n : g[j].dx * g[k].dy # g[j].dy * g[k].dx
    BY DEF IsPlane
  <2>2. j = 1 /\ k = 1
    BY <1>10
  <2>3. g[1].dx \in Int /\ g[1].dy \in Int
    BY <1>7, <2>2 DEF IsGeometry
  <2> QED
    BY <2>1, <2>2, <2>3
<1>13. Determinant(a) # 0 <=> IsPlane(g, n)
  BY <1>7, LineIsSingular, PlaneIsRegular
<1>14. s.well_conditioned <=> HasPlane(m, i)
  BY <1>8, <1>9, <1>10, <1>11, <1>12, <1>13
<1> QED
  BY <1>14 DEF s, m, w

\* With one of the library's weights and no tolerance, a stencil is refused exactly
\* where all neighbours lie on one line through the cell.
THEOREM RefusedAlwaysMeansCollinear == Spec => []IllConditionedMeansCollinear
BY InvAlwaysHolds, RefusedMeansCollinear, PTL

-----------------------------------------------------------------------------
(* Units of length *)

LEMMA WholeInverse ==
  ASSUME NEW u \in Nat, NEW d \in Nat, d > 0, u % (4 * d) = 0
  PROVE  u \div (4 * d) \in Nat /\ u \div d = 4 * (u \div (4 * d))
<1> DEFINE q == u \div (4 * d)
           p == u \div d
           r == u % d
<1>1. 4 * d \in Nat /\ 4 * d > 0
  OBVIOUS
<1>2. q \in Nat
  BY <1>1, QuotientProperties
<1>3. u = (4 * d) * q + (u % (4 * d))
  BY <1>1
<1>4. p \in Int /\ r \in Int /\ u = d * p + r /\ 0 <= r /\ r < d
  OBVIOUS
<1>5. u = (4 * d) * q
  <2>1. (4 * d) * q \in Nat
    BY <1>1, <1>2
  <2> HIDE DEF q
  <2> QED
    BY <1>3, <2>1
<1> HIDE DEF q, p, r
<1>6. d * (4 * q - p) = r
  <2>1. (4 * d) * q = d * (4 * q) /\ d * (4 * q - p) = d * (4 * q) - d * p
    BY <1>2, <1>4
  <2>2. d * (4 * q) \in Int /\ d * p \in Int
    BY <1>2, <1>4
  <2> DEFINE a == d * (4 * q)
             b == d * p
  <2>3. u = a /\ u = b + r /\ d * (4 * q - p) = a - b
    BY <1>4, <1>5, <2>1
  <2>4. a \in Int /\ b \in Int
    BY <2>2
  <2> HIDE DEF a, b
  <2> QED
    BY <1>4, <2>3, <2>4
<1>7. p = 4 * q
  <2> DEFINE z == 4 * q - p
  <2>1. z \in Int
    BY <1>2, <1>4
  <2> HIDE DEF z
  <2>2. d * z = r
    BY <1>6 DEF z
  <2>3. z <= 0
    <3> SUFFICES ASSUME z >= 1 PROVE FALSE
      BY <2>1
    <3>1. d * z >= d
      BY <2>1
    <3> QED
      BY <1>4, <2>2, <3>1
  <2>4. z >= 0
    <3> SUFFICES ASSUME z <= -1 PROVE FALSE
      BY <2>1
    <3>1. d * z <= -d
      BY <2>1
    <3> QED
      BY <1>4, <2>2, <3>1
  <2>5. z = 0
    BY <2>1, <2>3, <2>4
  <2> QED
    BY <1>2, <1>4, <2>5 DEF z
<1> QED
  BY <1>2, <1>7 DEF p, q

\* The mesh in other units: the same faces, and cells twice as far apart.
LEMMA ScaledMesh ==
  ASSUME NEW m \in Meshes
  PROVE  /\ Scaled(m, 2).faces = m.faces
         /\ Len(Scaled(m, 2).cells) = Len(m.cells)
         /\ \A i \in 1..Len(m.cells) :
              /\ Scaled(m, 2).cells[i].id = m.cells[i].id
              /\ Scaled(m, 2).cells[i].x = 2 * m.cells[i].x
              /\ Scaled(m, 2).cells[i].y = 2 * m.cells[i].y
         /\ \A id : CellNeighbours(Scaled(m, 2), id) = CellNeighbours(m, id)
<1> DEFINE n == Len(m.cells)
           scaled(c) == [c EXCEPT !.x = 2 * @, !.y = 2 * @]
           o == Scaled(m, 2)
<1>1. "cells" \in DOMAIN m /\ "faces" \in DOMAIN m
  BY MeshesAssumption DEF IsMesh
<1>2. n \in Nat /\ DOMAIN m.cells = 1..n /\ \A i \in 1..n : m.cells[i] \in LatticeCell
  BY MeshElements
<1>3. o.cells = [i \in 1..n |-> scaled(m.cells[i])] /\ o.faces = m.faces
  <2> DEFINE cells == [i \in DOMAIN m.cells |-> scaled(m.cells[i])]
  <2>1. o = [m EXCEPT !.cells = cells]
    BY DEF Scaled
  <2>2. cells = [i \in 1..n |-> scaled(m.cells[i])]
    BY <1>2
  <2> HIDE DEF cells, o, scaled
  <2> QED
    BY <1>1, <2>1, <2>2
<1>4. \A c \in LatticeCell : scaled(c).id = c.id /\ scaled(c).x = 2 * c.x /\ scaled(c).y = 2 * c.y
  BY DEF LatticeCell
<1> HIDE DEF scaled, o
<1>5. Len(o.cells) = n
  <2>1. o.cells \in Seq({scaled(m.cells[i]) : i \in 1..n}) /\ DOMAIN o.cells = 1..n
    BY <1>2, <1>3, IsASeq
  <2> QED
    BY <1>2, <2>1, LenProperties
<1>6. \A i \in 1..n : /\ o.cells[i].id = m.cells[i].id
                      /\ o.cells[i].x = 2 * m.cells[i].x /\ o.cells[i].y = 2 * m.cells[i].y
  BY <1>2, <1>3, <1>4
<1>7. \A id : CellNeighbours(o, id) = CellNeighbours(m, id)
  <2>1. \A id : NeighbourAcross(o, id) = NeighbourAcross(m, id)
    BY <1>3 DEF NeighbourAcross
  <2> QED
    BY <1>3, <2>1 DEF CellNeighbours
<1> QED
  BY <1>3, <1>5, <1>6, <1>7 DEF o

\* Weights that fall with the square of the distance cancel the units.
LEMMA ProductsHaveNoUnit ==
  ASSUME InversesAreWhole, NEW w, IsBuilt(w), w.method = WLS,
         w.options.weighting = "inverse_distance_squared", NEW i \in 1..Len(w.mesh.cells)
  PROVE  LET m == w.mesh
             o == Scaled(m, 2)
             g == NeighbourGeometry(m, m.cells[i], w.options.weighting)
             h == NeighbourGeometry(o, o.cells[i], w.options.weighting)
         IN  DOMAIN h = DOMAIN g /\ Len(h) = Len(g) /\ NormalEquation(h) = NormalEquation(g)
<1> DEFINE m == w.mesh
           o == Scaled(m, 2)
           ids == CellNeighbours(m, m.cells[i].id)
           n == Len(ids)
           g == NeighbourGeometry(m, m.cells[i], w.options.weighting)
           h == NeighbourGeometry(o, o.cells[i], w.options.weighting)
           d(k) == Delta(m, m.cells[i], ids[k])
           e(k) == Delta(o, o.cells[i], ids[k])
<1>1. m \in Meshes
  BY StencilsOfBuilt
<1>2. n \in Nat /\ DOMAIN ids = 1..n
  BY <1>1, NeighboursAreIndices, LenProperties
<1>3. CellNeighbours(o, o.cells[i].id) = ids
  BY <1>1, ScaledMesh
<1>4. /\ DOMAIN g = 1..n /\ DOMAIN h = 1..n
      /\ \A k \in 1..n :
           /\ g[k].dx = d(k).x /\ g[k].dy = d(k).y
           /\ g[k].weight = Unit \div DistanceSquared(d(k))
           /\ h[k].dx = e(k).x /\ h[k].dy = e(k).y
           /\ h[k].weight = Unit \div DistanceSquared(e(k))
  BY <1>2, <1>3 DEF NeighbourGeometry, Weight, InverseDistanceSquared
<1>5. Len(g) = n /\ Len(h) = n
  <2>1. g = [k \in 1..n |-> g[k]]
    BY <1>2 DEF NeighbourGeometry
  <2>2. h = [k \in 1..n |-> h[k]]
    BY <1>2, <1>3 DEF NeighbourGeometry
  <2> HIDE DEF g, h, n
  <2> QED
    BY <1>2, <2>1, <2>2, LenOfFunction
<1>6. ASSUME NEW k \in 1..n
      PROVE  /\ ids[k] \in 0..(Len(m.cells) - 1) /\ d(k).x \in Int /\ d(k).y \in Int
             /\ DistanceSquared(d(k)) \in Nat /\ DistanceSquared(d(k)) > 0
             /\ DistanceSquared(d(k)) \in Distances(m)
  BY <1>2, DistancesOfBuilt
<1>7. ASSUME NEW k \in 1..n
      PROVE  e(k).x = 2 * d(k).x /\ e(k).y = 2 * d(k).y
  <2> DEFINE j == ids[k] + 1
             p == m.cells[j].x
             q == m.cells[j].y
             x == m.cells[i].x
             y == m.cells[i].y
  <2>1. /\ Len(m.cells) \in Nat
        /\ \A l \in 1..Len(m.cells) : m.cells[l].x \in Int /\ m.cells[l].y \in Int
    BY <1>1, MeshElements DEF LatticeCell
  <2>2. j \in 1..Len(m.cells)
    BY <1>6, <2>1
  <2>3. /\ e(k).x = o.cells[j].x - o.cells[i].x /\ e(k).y = o.cells[j].y - o.cells[i].y
        /\ d(k).x = p - x /\ d(k).y = q - y
    BY DEF Delta, CellAt
  <2> HIDE DEF j, d, e, o
  <2>4. /\ o.cells[j].x = 2 * p /\ o.cells[j].y = 2 * q
        /\ o.cells[i].x = 2 * x /\ o.cells[i].y = 2 * y
    BY <1>1, <2>2, ScaledMesh DEF o
  <2>5. p \in Int /\ q \in Int /\ x \in Int /\ y \in Int
    BY <2>1, <2>2
  <2> HIDE DEF p, q, x, y
  <2> QED
    BY <2>3, <2>4, <2>5
<1>8. Unit \in Nat
  BY UnitAssumption
<1> HIDE DEF d, e, g, h, ids, o
<1>9. ASSUME NEW k \in 1..n
      PROVE  /\ h[k].weight * h[k].dx * h[k].dx = g[k].weight * g[k].dx * g[k].dx
             /\ h[k].weight * h[k].dx * h[k].dy = g[k].weight * g[k].dx * g[k].dy
             /\ h[k].weight * h[k].dy * h[k].dy = g[k].weight * g[k].dy * g[k].dy
  <2> DEFINE s == DistanceSquared(d(k))
             t == Unit \div (4 * s)
             x == d(k).x
             y == d(k).y
  <2>1. x \in Int /\ y \in Int /\ s \in Nat /\ s > 0 /\ s \in Distances(m)
    BY <1>6
  <2>2. DistanceSquared(e(k)) = 4 * s
    <3>1. s = x * x + y * y /\ DistanceSquared(e(k)) = (2 * x) * (2 * x) + (2 * y) * (2 * y)
      BY <1>7 DEF DistanceSquared
    <3> HIDE DEF s, x, y
    <3> QED
      BY <2>1, <3>1
  <2>3. Unit % (4 * s) = 0
    BY <1>1, <2>1 DEF InversesAreWhole
  <2>4. t \in Nat /\ Unit \div s = 4 * t
    <3> HIDE DEF s
    <3> QED
      BY <1>8, <2>1, <2>3, WholeInverse
  <2>5. /\ g[k].weight = 4 * t /\ g[k].dx = x /\ g[k].dy = y
        /\ h[k].weight = t /\ h[k].dx = 2 * x /\ h[k].dy = 2 * y
    BY <1>4, <1>7, <2>2, <2>4
  <2> HIDE DEF t, x, y
  <2>6. /\ t * (2 * x) * (2 * x) = (4 * t) * x * x
        /\ t * (2 * x) * (2 * y) = (4 * t) * x * y
        /\ t * (2 * y) * (2 * y) = (4 * t) * y * y
    BY <2>1, <2>4
  <2> QED
    BY <2>5, <2>6
<1>10. NormalEquation(h) = NormalEquation(g)
  <2>1. /\ [k \in DOMAIN h |-> h[k].weight * h[k].dx * h[k].dx]
             = [k \in DOMAIN g |-> g[k].weight * g[k].dx * g[k].dx]
        /\ [k \in DOMAIN h |-> h[k].weight * h[k].dx * h[k].dy]
             = [k \in DOMAIN g |-> g[k].weight * g[k].dx * g[k].dy]
        /\ [k \in DOMAIN h |-> h[k].weight * h[k].dy * h[k].dy]
             = [k \in DOMAIN g |-> g[k].weight * g[k].dy * g[k].dy]
    BY <1>4, <1>9
  <2> QED
    BY <2>1 DEF NormalEquation
<1> QED
  BY <1>4, <1>5, <1>10 DEF g, h, o

LEMMA UnitsAreIgnored ==
  ASSUME InversesAreWhole, IInv
  PROVE  ConditioningIgnoresUnits
<1> DEFINE w == workspace
           m == w.mesh
           o == Scaled(m, 2)
<1> SUFFICES ASSUME w.method = WLS, w.options.weighting = "inverse_distance_squared",
                    NEW i \in DOMAIN w.stencils
             PROVE  w.stencils[i].well_conditioned
                      = WLSStencil(o, o.cells[i], w.options).well_conditioned
  BY DEF ConditioningIgnoresUnits
<1>1. IsBuilt(w)
  <2>1. NoWorkspace.method = ""
    BY DEF NoWorkspace
  <2> QED
    BY <2>1 DEF IInv, WorkspaceIsKept, IsKept, WLS
<1>2. i \in 1..Len(m.cells) /\ w.stencils[i] = WLSStencil(m, m.cells[i], w.options)
  BY <1>1, StencilsOfBuilt
<1> DEFINE g == NeighbourGeometry(m, m.cells[i], w.options.weighting)
           h == NeighbourGeometry(o, o.cells[i], w.options.weighting)
           s == w.stencils[i]
           t == WLSStencil(o, o.cells[i], w.options)
<1>3. Solves(s, g, w.options.tolerance) /\ Solves(t, h, w.options.tolerance)
  BY <1>2, StencilSolves
<1>4. Len(h) = Len(g) /\ NormalEquation(h) = NormalEquation(g)
  BY <1>1, <1>2, ProductsHaveNoUnit
<1> HIDE DEF g, h, s, t
<1>5. s.over = t.over
  BY <1>3, <1>4 DEF Solves
<1>6. /\ s.well_conditioned = ~IsSingular(g, s.over, w.options.tolerance)
      /\ t.well_conditioned = ~IsSingular(h, t.over, w.options.tolerance)
  BY <1>3 DEF Solves
<1>7. IsSingular(g, s.over, w.options.tolerance) = IsSingular(h, t.over, w.options.tolerance)
  BY <1>4, <1>5 DEF IsSingular
<1> QED
  BY <1>6, <1>7 DEF s, t

\* Under the default weights the same cells are refused in either unit of length,
\* whatever the tolerance.
THEOREM UnitsAlwaysIgnored ==
  ASSUME InversesAreWhole
  PROVE  Spec => []ConditioningIgnoresUnits
<1>1. ASSUME IInv PROVE ConditioningIgnoresUnits
  BY <1>1, UnitsAreIgnored
<1> QED
  BY <1>1, InvAlwaysHolds, PTL

-----------------------------------------------------------------------------
(* Green-Gauss *)

\* The positions of the faces that a cell shares.
SharedPositions(m, cell) == Collected({f \in DOMAIN m.faces : IsShared(m.faces[f], cell)}, Len(m.faces))

\* What the loops over shared faces add up, of what each face gives.
AtShared(m, cell, given) ==
  [k \in DOMAIN SharedPositions(m, cell) |-> given[SharedPositions(m, cell)[k]]]
WhereShared(m, cell, given) ==
  [f \in 1..Len(m.faces) |-> IF IsShared(m.faces[f], cell) THEN given[f] ELSE 0]

LEMMA SharedPositionsProperties ==
  ASSUME NEW m \in Meshes, NEW cell
  PROVE  /\ DOMAIN SharedFaces(m, cell) = DOMAIN SharedPositions(m, cell)
         /\ \A k \in DOMAIN SharedPositions(m, cell) :
              LET f == SharedPositions(m, cell)[k]
              IN  f \in 1..Len(m.faces) /\ IsShared(m.faces[f], cell)
                    /\ SharedFaces(m, cell)[k] = m.faces[f]
<1> DEFINE S == {f \in DOMAIN m.faces : IsShared(m.faces[f], cell)}
           c == SharedPositions(m, cell)
<1>1. Len(m.faces) \in Nat /\ \A f \in S : f \in 1..Len(m.faces) /\ IsShared(m.faces[f], cell)
  BY MeshElements
<1>2. c = Collected(S, Len(m.faces))
  BY DEF SharedPositions
<1>3. SharedFaces(m, cell) = [k \in DOMAIN c |-> m.faces[c[k]]]
  BY DEF SharedFaces, SharedPositions
<1> HIDE DEF S, c
<1>4. c \in Seq(S \cap 1..Len(m.faces))
  BY <1>1, <1>2, CollectedType
<1>5. DOMAIN c = 1..Len(c) /\ \A k \in 1..Len(c) : c[k] \in S
  BY <1>4, LenProperties, ElementOfSeq
<1> QED
  BY <1>1, <1>3, <1>5 DEF c

\* Adding up over the shared faces is adding up over all faces.
LEMMA SumOverFaces ==
  ASSUME NEW m \in Meshes, NEW cell, NEW given \in [1..Len(m.faces) -> Int]
  PROVE  SumOf(AtShared(m, cell, given)) = SumOf(WhereShared(m, cell, given))
<1> DEFINE n == Len(m.faces)
           S == {f \in DOMAIN m.faces : IsShared(m.faces[f], cell)}
           c == Collected(S, n)
<1>1. n \in Nat /\ DOMAIN m.faces = 1..n
  BY MeshElements
<1>2. AtShared(m, cell, given) = [j \in DOMAIN c |-> given[c[j]]]
  BY DEF AtShared, SharedPositions
<1>3. WhereShared(m, cell, given) = [f \in 1..n |-> IF f \in S THEN given[f] ELSE 0]
  BY <1>1 DEF WhereShared
<1> HIDE DEF S
<1>4. SumOf([j \in DOMAIN c |-> given[c[j]]]) = SumOf([f \in 1..n |-> IF f \in S THEN given[f] ELSE 0])
  BY <1>1, SumOfCollected
<1> QED
  BY <1>2, <1>3, <1>4

\* The coefficients of a Green-Gauss stencil, face by face.
LEMMA CoefficientsOfFaces ==
  ASSUME NEW m \in Meshes, NEW cell \in LatticeCell, GGStencil(m, cell).well_conditioned
  PROVE  LET c  == GGStencil(m, cell).coefficients
             at == SharedPositions(m, cell)
         IN  /\ DOMAIN c = DOMAIN at
             /\ \A k \in DOMAIN at :
                  /\ at[k] \in 1..Len(m.faces)
                  /\ c[k].neighbour = OtherSide(m.faces[at[k]], cell)
                  /\ c[k].x = OutwardNormalLengthForCell(m.faces[at[k]], cell).x
                  /\ c[k].y = OutwardNormalLengthForCell(m.faces[at[k]], cell).y
<1> DEFINE c == GGStencil(m, cell).coefficients
           at == SharedPositions(m, cell)
           shared == SharedFaces(m, cell)
<1>1. /\ DOMAIN shared = DOMAIN at
      /\ \A k \in DOMAIN at : at[k] \in 1..Len(m.faces) /\ shared[k] = m.faces[at[k]]
  BY SharedPositionsProperties
<1>2. ~(cell.area <= 0)
  <2>1. cell.area > 0 /\ cell.area \in Int
    BY DEF GGStencil, LatticeCell
  <2> QED
    BY <2>1
<1>3. c = [k \in DOMAIN shared |-> [neighbour |-> OtherSide(shared[k], cell),
                                    x |-> OutwardNormalLengthForCell(shared[k], cell).x,
                                    y |-> OutwardNormalLengthForCell(shared[k], cell).y]]
  BY <1>2 DEF GGStencil
<1> HIDE DEF c, at, shared
<1>4. DOMAIN c = DOMAIN at
  BY <1>1, <1>3
<1>5. ASSUME NEW k \in DOMAIN at
      PROVE  /\ at[k] \in 1..Len(m.faces)
             /\ c[k].neighbour = OtherSide(m.faces[at[k]], cell)
             /\ c[k].x = OutwardNormalLengthForCell(m.faces[at[k]], cell).x
             /\ c[k].y = OutwardNormalLengthForCell(m.faces[at[k]], cell).y
  BY <1>1, <1>3
<1> QED
  BY <1>4, <1>5 DEF c, at

\* What a face gives a cell of what it takes from the cell with the id.
FlowX(m, cell, id) ==
  [f \in 1..Len(m.faces) |-> IF OtherSide(m.faces[f], cell) = id
                             THEN OutwardNormalLengthForCell(m.faces[f], cell).x ELSE 0]
FlowY(m, cell, id) ==
  [f \in 1..Len(m.faces) |-> IF OtherSide(m.faces[f], cell) = id
                             THEN OutwardNormalLengthForCell(m.faces[f], cell).y ELSE 0]

LEMMA NormalsAreWhole ==
  ASSUME NEW m \in Meshes, NEW cell, NEW f \in 1..Len(m.faces)
  PROVE  /\ m.faces[f].owner \in Int /\ m.faces[f].neighbour \in Int /\ m.faces[f].length \in Int
         /\ OutwardNormalLengthForCell(m.faces[f], cell).x \in Int
         /\ OutwardNormalLengthForCell(m.faces[f], cell).y \in Int
<1>1. m.faces[f] \in LatticeFace
  BY MeshElements
<1>2. /\ m.faces[f].owner \in Int /\ m.faces[f].neighbour \in Int /\ m.faces[f].length \in Int
      /\ m.faces[f].nx \in Int /\ m.faces[f].ny \in Int
  BY <1>1 DEF LatticeFace
<1> QED
  BY <1>2 DEF OutwardNormalLengthForCell

LEMMA FlowsAreWhole ==
  ASSUME NEW m \in Meshes, NEW cell, NEW id
  PROVE  /\ FlowX(m, cell, id) \in [1..Len(m.faces) -> Int]
         /\ FlowY(m, cell, id) \in [1..Len(m.faces) -> Int]
         /\ WhereShared(m, cell, FlowX(m, cell, id)) \in [1..Len(m.faces) -> Int]
         /\ WhereShared(m, cell, FlowY(m, cell, id)) \in [1..Len(m.faces) -> Int]
<1>1. /\ FlowX(m, cell, id) \in [1..Len(m.faces) -> Int]
      /\ FlowY(m, cell, id) \in [1..Len(m.faces) -> Int]
  <2> DEFINE x(f) == OutwardNormalLengthForCell(m.faces[f], cell).x
             y(f) == OutwardNormalLengthForCell(m.faces[f], cell).y
  <2>1. \A f \in 1..Len(m.faces) : x(f) \in Int /\ y(f) \in Int
    BY NormalsAreWhole
  <2> HIDE DEF x, y
  <2>2. /\ FlowX(m, cell, id) = [f \in 1..Len(m.faces) |-> IF OtherSide(m.faces[f], cell) = id THEN x(f) ELSE 0]
        /\ FlowY(m, cell, id) = [f \in 1..Len(m.faces) |-> IF OtherSide(m.faces[f], cell) = id THEN y(f) ELSE 0]
    BY DEF FlowX, FlowY, x, y
  <2> QED
    BY <2>1, <2>2
<1>2. ASSUME NEW given \in [1..Len(m.faces) -> Int]
      PROVE  WhereShared(m, cell, given) \in [1..Len(m.faces) -> Int]
  BY DEF WhereShared
<1> QED
  BY <1>1, <1>2

LEMMA TowardsIsFlow ==
  ASSUME NEW m \in Meshes, NEW cell \in LatticeCell, GGStencil(m, cell).well_conditioned, NEW id
  PROVE  /\ Towards(GGStencil(m, cell), id).x = SumOf(WhereShared(m, cell, FlowX(m, cell, id)))
         /\ Towards(GGStencil(m, cell), id).y = SumOf(WhereShared(m, cell, FlowY(m, cell, id)))
<1> DEFINE c == GGStencil(m, cell).coefficients
           at == SharedPositions(m, cell)
           Normal(f) == OutwardNormalLengthForCell(m.faces[f], cell)
<1>1. /\ DOMAIN c = DOMAIN at
      /\ \A k \in DOMAIN at :
           /\ at[k] \in 1..Len(m.faces)
           /\ c[k].neighbour = OtherSide(m.faces[at[k]], cell)
           /\ c[k].x = Normal(at[k]).x /\ c[k].y = Normal(at[k]).y
  BY CoefficientsOfFaces
<1> HIDE DEF c, at, Normal
<1>2. /\ [k \in DOMAIN c |-> IF c[k].neighbour = id THEN c[k].x ELSE 0] = AtShared(m, cell, FlowX(m, cell, id))
      /\ [k \in DOMAIN c |-> IF c[k].neighbour = id THEN c[k].y ELSE 0] = AtShared(m, cell, FlowY(m, cell, id))
  <2>1. \A k \in DOMAIN at :
          /\ FlowX(m, cell, id)[at[k]] = IF c[k].neighbour = id THEN c[k].x ELSE 0
          /\ FlowY(m, cell, id)[at[k]] = IF c[k].neighbour = id THEN c[k].y ELSE 0
    BY <1>1 DEF FlowX, FlowY, Normal
  <2> QED
    BY <1>1, <2>1 DEF AtShared, at
<1>3. FlowX(m, cell, id) \in [1..Len(m.faces) -> Int] /\ FlowY(m, cell, id) \in [1..Len(m.faces) -> Int]
  BY FlowsAreWhole
<1>4. /\ Towards(GGStencil(m, cell), id).x
           = SumOf([k \in DOMAIN c |-> IF c[k].neighbour = id THEN c[k].x ELSE 0])
      /\ Towards(GGStencil(m, cell), id).y
           = SumOf([k \in DOMAIN c |-> IF c[k].neighbour = id THEN c[k].y ELSE 0])
  BY DEF Towards, c
<1> QED
  BY <1>2, <1>3, <1>4, SumOverFaces

\* A face gives one of its cells what it takes from the other.
LEMMA FlowIsConservative ==
  ASSUME NEW m \in Meshes, NEW cell \in LatticeCell, NEW other \in LatticeCell, cell.id # other.id,
         NEW f \in 1..Len(m.faces)
  PROVE  /\ WhereShared(m, cell, FlowX(m, cell, other.id))[f]
              = -WhereShared(m, other, FlowX(m, other, cell.id))[f]
         /\ WhereShared(m, cell, FlowY(m, cell, other.id))[f]
              = -WhereShared(m, other, FlowY(m, other, cell.id))[f]
<1> DEFINE face == m.faces[f]
           i == cell.id
           j == other.id
           x == face.nx * face.length
           y == face.ny * face.length
           Between(a, b) == IsShared(face, a) /\ OtherSide(face, a) = b.id
<1>1. /\ face.owner \in Int /\ face.neighbour \in Int /\ i \in Nat /\ j \in Nat
      /\ face.nx \in Int /\ face.ny \in Int /\ face.length \in Int
  <2>1. face \in LatticeFace
    BY MeshElements
  <2> QED
    BY <2>1 DEF LatticeFace, LatticeCell
<1>2. x \in Int /\ y \in Int
  BY <1>1
<1>3. /\ Between(cell, other) <=> \/ face.owner = i /\ face.neighbour = j
                                  \/ face.owner = j /\ face.neighbour = i
      /\ Between(other, cell) <=> \/ face.owner = i /\ face.neighbour = j
                                  \/ face.owner = j /\ face.neighbour = i
  BY <1>1 DEF IsShared, OtherSide, SameCell, IsValidIndex
<1>4. /\ OutwardNormalLengthForCell(face, cell).x = IF face.owner = i THEN x ELSE -x
      /\ OutwardNormalLengthForCell(face, cell).y = IF face.owner = i THEN y ELSE -y
      /\ OutwardNormalLengthForCell(face, other).x = IF face.owner = j THEN x ELSE -x
      /\ OutwardNormalLengthForCell(face, other).y = IF face.owner = j THEN y ELSE -y
  <2>1. /\ 1 * face.nx * face.length = x /\ (-1) * face.nx * face.length = -x
        /\ 1 * face.ny * face.length = y /\ (-1) * face.ny * face.length = -y
    BY <1>1
  <2> HIDE DEF face, x, y
  <2> QED
    BY <2>1 DEF OutwardNormalLengthForCell, SameCell
<1>5. /\ WhereShared(m, cell, FlowX(m, cell, j))[f]
           = IF Between(cell, other) THEN OutwardNormalLengthForCell(face, cell).x ELSE 0
      /\ WhereShared(m, cell, FlowY(m, cell, j))[f]
           = IF Between(cell, other) THEN OutwardNormalLengthForCell(face, cell).y ELSE 0
      /\ WhereShared(m, other, FlowX(m, other, i))[f]
           = IF Between(other, cell) THEN OutwardNormalLengthForCell(face, other).x ELSE 0
      /\ WhereShared(m, other, FlowY(m, other, i))[f]
           = IF Between(other, cell) THEN OutwardNormalLengthForCell(face, other).y ELSE 0
  BY DEF WhereShared, FlowX, FlowY
<1> HIDE DEF face, x, y, Between
<1> QED
  BY <1>2, <1>3, <1>4, <1>5

LEMMA ConservativeAlways == IInv => GreenGaussIsConservative
<1> DEFINE w == workspace
           m == w.mesh
<1> SUFFICES ASSUME IInv, w.method = GG, NEW i \in DOMAIN w.stencils, NEW j \in DOMAIN w.stencils,
                    w.stencils[i].cell # w.stencils[j].cell,
                    w.stencils[i].well_conditioned, w.stencils[j].well_conditioned
             PROVE  /\ Towards(w.stencils[i], w.stencils[j].cell).x
                         = -Towards(w.stencils[j], w.stencils[i].cell).x
                    /\ Towards(w.stencils[i], w.stencils[j].cell).y
                         = -Towards(w.stencils[j], w.stencils[i].cell).y
  BY DEF GreenGaussIsConservative
<1>1. IsBuilt(w)
  <2>1. NoWorkspace.method = ""
    BY DEF NoWorkspace
  <2> QED
    BY <2>1 DEF IInv, WorkspaceIsKept, IsKept, GG
<1> DEFINE a == m.cells[i]
           b == m.cells[j]
           n == Len(m.faces)
<1>2. /\ m \in Meshes /\ i \in 1..Len(m.cells) /\ j \in 1..Len(m.cells)
      /\ w.stencils[i] = GGStencil(m, a) /\ w.stencils[j] = GGStencil(m, b)
      /\ w.stencils[i].cell = a.id /\ w.stencils[j].cell = b.id
  BY <1>1, StencilsOfBuilt DEF WLS, GG
<1>3. a \in LatticeCell /\ b \in LatticeCell /\ n \in Nat
  BY <1>2, MeshElements
<1> DEFINE ax == WhereShared(m, a, FlowX(m, a, b.id))
           ay == WhereShared(m, a, FlowY(m, a, b.id))
           bx == WhereShared(m, b, FlowX(m, b, a.id))
           by == WhereShared(m, b, FlowY(m, b, a.id))
<1>4. /\ Towards(w.stencils[i], b.id).x = SumOf(ax) /\ Towards(w.stencils[i], b.id).y = SumOf(ay)
      /\ Towards(w.stencils[j], a.id).x = SumOf(bx) /\ Towards(w.stencils[j], a.id).y = SumOf(by)
  BY <1>2, <1>3, TowardsIsFlow
<1>5. /\ ax \in [1..n -> Int] /\ ay \in [1..n -> Int] /\ bx \in [1..n -> Int] /\ by \in [1..n -> Int]
  BY <1>2, <1>3, FlowsAreWhole
<1>6. \A f \in 1..n : ax[f] = -bx[f] /\ ay[f] = -by[f]
  BY <1>2, <1>3, FlowIsConservative
<1> HIDE DEF ax, ay, bx, by
<1>7. \A f \in 1..n : ax[f] = (-1) * bx[f] + 0 * bx[f] /\ ay[f] = (-1) * by[f] + 0 * by[f]
  <2>1. ASSUME NEW x \in Int PROVE -x = (-1) * x + 0 * x
    OBVIOUS
  <2>2. \A f \in 1..n : bx[f] \in Int /\ by[f] \in Int
    BY <1>5
  <2> QED
    BY <1>6, <2>1, <2>2
<1>8. Combines(n, ax, -1, bx, 0, bx) /\ Combines(n, ay, -1, by, 0, by)
  BY <1>3, <1>5, <1>7 DEF Combines
<1>9. SumOf(ax) = (-1) * SumOf(bx) + 0 * SumOf(bx) /\ SumOf(ay) = (-1) * SumOf(by) + 0 * SumOf(by)
  BY <1>8, SumIsLinear
<1>10. SumOf(bx) \in Int /\ SumOf(by) \in Int
  <2>1. n \in Nat
    BY <1>3
  <2> HIDE DEF n
  <2>2. bx \in Seq(Int) /\ by \in Seq(Int)
    BY <1>5, <2>1, SeqDef
  <2> QED
    BY <2>2, SumType
<1>11. SumOf(ax) = -SumOf(bx) /\ SumOf(ay) = -SumOf(by)
  BY <1>9, <1>10
<1> HIDE DEF w, m, a, b
<1> QED
  BY <1>2, <1>4, <1>11

\* What one cell takes from another, the other gives, whatever faces lie between.
THEOREM GreenGaussAlwaysConservative == Spec => []GreenGaussIsConservative
BY InvAlwaysHolds, ConservativeAlways, PTL

\* A sum with two numbers that are not zero.
LEMMA SumOfTwo ==
  ASSUME NEW n \in Nat, NEW s \in [1..n -> Int], NEW p \in 1..n, NEW q \in 1..n, p # q,
         \A k \in 1..n : k \notin {p, q} => s[k] = 0
  PROVE  SumOf(s) = s[p] + s[q]
<1> DEFINE a == [k \in 1..n |-> IF k = p THEN s[p] ELSE 0]
           b == [k \in 1..n |-> IF k = q THEN s[q] ELSE 0]
<1>1. s[p] \in Int /\ s[q] \in Int /\ a \in [1..n -> Int] /\ b \in [1..n -> Int]
  OBVIOUS
<1>2. SumOf(a) = s[p] /\ SumOf(b) = s[q]
  <2>1. a[p] = s[p] /\ \A k \in 1..n : k # p => a[k] = 0
    OBVIOUS
  <2>2. b[q] = s[q] /\ \A k \in 1..n : k # q => b[k] = 0
    OBVIOUS
  <2> HIDE DEF a, b
  <2> QED
    BY <1>1, <2>1, <2>2, SumOfOne
<1>3. ASSUME NEW k \in 1..n
      PROVE  s[k] = 1 * a[k] + 1 * b[k]
  <2>1. CASE k = p
    BY <1>1, <2>1
  <2>2. CASE k = q
    BY <1>1, <2>2
  <2>3. CASE k \notin {p, q}
    BY <2>3
  <2> QED
    BY <2>1, <2>2, <2>3
<1> HIDE DEF a, b
<1>4. Combines(n, s, 1, a, 1, b)
  BY <1>1, <1>3 DEF Combines
<1>5. SumOf(s) = 1 * SumOf(a) + 1 * SumOf(b)
  BY <1>4, SumIsLinear
<1> QED
  BY <1>1, <1>2, <1>5

\* The terms that ComputeCellGradient adds up for cell i, face by face.
TermX(m, i, values) ==
  [f \in 1..Len(m.faces) |->
     IF IsShared(m.faces[f], m.cells[i])
     THEN OutwardNormalLengthForCell(m.faces[f], m.cells[i]).x
            * (values[OtherSide(m.faces[f], m.cells[i]) + 1] - values[i])
     ELSE 0]
TermY(m, i, values) ==
  [f \in 1..Len(m.faces) |->
     IF IsShared(m.faces[f], m.cells[i])
     THEN OutwardNormalLengthForCell(m.faces[f], m.cells[i]).y
            * (values[OtherSide(m.faces[f], m.cells[i]) + 1] - values[i])
     ELSE 0]

LEMMA GradientOverFaces ==
  ASSUME NEW m \in Meshes, NEW i \in 1..Len(m.cells), m.cells[i].id = i - 1, NEW values,
         GGStencil(m, m.cells[i]).well_conditioned,
         TermX(m, i, values) \in [1..Len(m.faces) -> Int],
         TermY(m, i, values) \in [1..Len(m.faces) -> Int]
  PROVE  /\ GradientOf(GGStencil(m, m.cells[i]), values).x = SumOf(TermX(m, i, values))
         /\ GradientOf(GGStencil(m, m.cells[i]), values).y = SumOf(TermY(m, i, values))
         /\ GradientOf(GGStencil(m, m.cells[i]), values).over = 2 * m.cells[i].area
<1> DEFINE cell == m.cells[i]
           s == GGStencil(m, cell)
           c == s.coefficients
           at == SharedPositions(m, cell)
           x == TermX(m, i, values)
           y == TermY(m, i, values)
<1>1. cell \in LatticeCell
  BY MeshElements
<1>2. /\ DOMAIN c = DOMAIN at
      /\ \A k \in DOMAIN at :
           /\ at[k] \in 1..Len(m.faces)
           /\ c[k].neighbour = OtherSide(m.faces[at[k]], cell)
           /\ c[k].x = OutwardNormalLengthForCell(m.faces[at[k]], cell).x
           /\ c[k].y = OutwardNormalLengthForCell(m.faces[at[k]], cell).y
  BY <1>1, CoefficientsOfFaces
<1>3. \A k \in DOMAIN at : IsShared(m.faces[at[k]], cell)
  BY SharedPositionsProperties
<1>4. s.cell = i - 1 /\ s.over = 2 * cell.area
  BY DEF GGStencil, HalfJump
<1>5. s.cell + 1 = i
  BY <1>4
<1>6. /\ GradientOf(s, values).x = SumOf([k \in DOMAIN c |-> c[k].x * Difference(s, c[k], values)])
      /\ GradientOf(s, values).y = SumOf([k \in DOMAIN c |-> c[k].y * Difference(s, c[k], values)])
      /\ GradientOf(s, values).over = s.over
  BY DEF GradientOf
<1> HIDE DEF s, c, at
<1>7. \A k \in DOMAIN at : /\ c[k].x * Difference(s, c[k], values) = x[at[k]]
                           /\ c[k].y * Difference(s, c[k], values) = y[at[k]]
  BY <1>2, <1>3, <1>5 DEF Difference, TermX, TermY
<1>8. /\ [k \in DOMAIN c |-> c[k].x * Difference(s, c[k], values)] = AtShared(m, cell, x)
      /\ [k \in DOMAIN c |-> c[k].y * Difference(s, c[k], values)] = AtShared(m, cell, y)
  <2> HIDE DEF x, y
  <2> QED
    BY <1>2, <1>7 DEF AtShared, at
<1>9. WhereShared(m, cell, x) = x /\ WhereShared(m, cell, y) = y
  BY DEF WhereShared, TermX, TermY
<1>10. SumOf(AtShared(m, cell, x)) = SumOf(x) /\ SumOf(AtShared(m, cell, y)) = SumOf(y)
  <2>1. x \in [1..Len(m.faces) -> Int] /\ y \in [1..Len(m.faces) -> Int]
    OBVIOUS
  <2> HIDE DEF x, y
  <2> QED
    BY <1>9, <2>1, SumOverFaces
<1> QED
  BY <1>4, <1>6, <1>8, <1>10 DEF s

\* On a linear field the two faces across a direction of an inner square give equal
\* terms in it, and the other two faces none.
IsLinearAcrossFaces(values, m, i, a, b) ==
  \A f \in 1..Len(m.faces) : IsShared(m.faces[f], m.cells[i]) =>
    LET d == Delta(m, m.cells[i], OtherSide(m.faces[f], m.cells[i]))
    IN  values[OtherSide(m.faces[f], m.cells[i]) + 1] - values[i] = a * d.x + b * d.y

LEMMA TermsOfInnerSquare ==
  ASSUME NEW m \in Meshes, NEW i \in 1..Len(m.cells), IsInnerSquare(m, i), m.cells[i].area > 0,
         NEW a \in Int, NEW b \in Int, NEW values, IsLinearAcrossFaces(values, m, i, a, b)
  PROVE  /\ TermX(m, i, values) \in [1..Len(m.faces) -> Int]
         /\ TermY(m, i, values) \in [1..Len(m.faces) -> Int]
         /\ SumOf(TermX(m, i, values)) = a * (2 * m.cells[i].area)
         /\ SumOf(TermY(m, i, values)) = b * (2 * m.cells[i].area)
<1> DEFINE cell == m.cells[i]
           n == Len(m.faces)
           touching == {f \in DOMAIN m.faces : cell.id \in {m.faces[f].owner, m.faces[f].neighbour}}
           Normal(f) == OutwardNormalLengthForCell(m.faces[f], cell)
           Away(f) == Delta(m, cell, OtherSide(m.faces[f], cell))
           Jump(f) == values[OtherSide(m.faces[f], cell) + 1] - values[i]
           Faces(f, x, y) == /\ IsShared(m.faces[f], cell)
                             /\ Normal(f) = [x |-> x, y |-> y]
                             /\ Away(f) = [x |-> x, y |-> y]
           X == TermX(m, i, values)
           Y == TermY(m, i, values)
<1>1. n \in Nat /\ DOMAIN m.faces = 1..n
  BY MeshElements
<1>2. PICK east \in touching, west \in touching, north \in touching, south \in touching :
        LET side == m.faces[east].length
        IN  /\ touching = {east, west, north, south} /\ cell.area = side * side
            /\ Faces(east, side, 0)  /\ Faces(west, -side, 0)
            /\ Faces(north, 0, side) /\ Faces(south, 0, -side)
  BY DEF IsInnerSquare
<1> DEFINE side == m.faces[east].length
<1>3. \A f \in 1..n : IsShared(m.faces[f], cell) => f \in {east, west, north, south}
  <2>1. \A f \in 1..n : IsShared(m.faces[f], cell) => f \in touching
    BY <1>1 DEF IsShared, SameCell
  <2> QED
    BY <1>2, <2>1
<1>4. east \in 1..n /\ west \in 1..n /\ north \in 1..n /\ south \in 1..n
  BY <1>1
<1>5. side \in Int
  BY <1>4, NormalsAreWhole
<1>6. side # 0
  <2> SUFFICES ASSUME side = 0 PROVE FALSE
    OBVIOUS
  <2>1. cell.area = side * side
    BY <1>2
  <2> QED
    BY <2>1
<1>7. /\ Normal(east).x = side  /\ Normal(east).y = 0  /\ Away(east).x = side  /\ Away(east).y = 0
      /\ Normal(west).x = -side /\ Normal(west).y = 0  /\ Away(west).x = -side /\ Away(west).y = 0
      /\ Normal(north).x = 0 /\ Normal(north).y = side  /\ Away(north).x = 0 /\ Away(north).y = side
      /\ Normal(south).x = 0 /\ Normal(south).y = -side /\ Away(south).x = 0 /\ Away(south).y = -side
  <2> HIDE DEF Normal, Away, side
  <2> QED
    BY <1>2 DEF side
<1>8. /\ IsShared(m.faces[east], cell) /\ IsShared(m.faces[west], cell)
      /\ IsShared(m.faces[north], cell) /\ IsShared(m.faces[south], cell)
  BY <1>2
<1>9. \A f \in 1..n : IsShared(m.faces[f], cell) => Jump(f) = a * Away(f).x + b * Away(f).y
  BY DEF IsLinearAcrossFaces
<1>10. \A f \in 1..n : /\ X[f] = IF IsShared(m.faces[f], cell) THEN Normal(f).x * Jump(f) ELSE 0
                       /\ Y[f] = IF IsShared(m.faces[f], cell) THEN Normal(f).y * Jump(f) ELSE 0
  BY DEF TermX, TermY
<1>11. cell.area = side * side
  BY <1>2
<1>12. X = [f \in 1..n |-> X[f]] /\ Y = [f \in 1..n |-> Y[f]]
  BY DEF TermX, TermY
<1> HIDE DEF cell, n, Normal, Away, Jump, X, Y, side, touching, Faces
<1>13. east # west /\ north # south
  BY <1>5, <1>6, <1>7
<1>14. /\ Jump(east) = a * side  /\ Jump(west) = -(a * side)
       /\ Jump(north) = b * side /\ Jump(south) = -(b * side)
  <2>1. /\ Jump(east) = a * side + b * 0 /\ Jump(west) = a * (-side) + b * 0
        /\ Jump(north) = a * 0 + b * side /\ Jump(south) = a * 0 + b * (-side)
    BY <1>4, <1>7, <1>8, <1>9
  <2> QED
    BY <1>5, <2>1
<1>15. /\ X[east] = a * (side * side) /\ X[west] = a * (side * side) /\ X[north] = 0 /\ X[south] = 0
       /\ Y[north] = b * (side * side) /\ Y[south] = b * (side * side) /\ Y[east] = 0 /\ Y[west] = 0
  <2>1. /\ X[east] = side * (a * side) /\ X[west] = (-side) * (-(a * side))
        /\ X[north] = 0 * (b * side)   /\ X[south] = 0 * (-(b * side))
        /\ Y[north] = side * (b * side) /\ Y[south] = (-side) * (-(b * side))
        /\ Y[east] = 0 * (a * side)   /\ Y[west] = 0 * (-(a * side))
    BY <1>4, <1>7, <1>8, <1>10, <1>14
  <2>2. /\ side * (a * side) = a * (side * side) /\ (-side) * (-(a * side)) = a * (side * side)
        /\ side * (b * side) = b * (side * side) /\ (-side) * (-(b * side)) = b * (side * side)
    BY <1>5
  <2>3. a * side \in Int /\ b * side \in Int
    BY <1>5
  <2> QED
    BY <2>1, <2>2, <2>3
<1>16. \A f \in 1..n : /\ f \notin {east, west} => X[f] = 0
                       /\ f \notin {north, south} => Y[f] = 0
  BY <1>3, <1>10, <1>15
<1>17. a * (side * side) \in Int /\ b * (side * side) \in Int
  BY <1>5
<1>18. X \in [1..n -> Int] /\ Y \in [1..n -> Int]
  <2>1. \A f \in 1..n : X[f] \in Int /\ Y[f] \in Int
    BY <1>15, <1>16, <1>17
  <2> QED
    BY <1>12, <2>1
<1>19. SumOf(X) = X[east] + X[west] /\ SumOf(Y) = Y[north] + Y[south]
  BY <1>1, <1>4, <1>13, <1>16, <1>18, SumOfTwo
<1>20. /\ a * (side * side) + a * (side * side) = a * (2 * (side * side))
       /\ b * (side * side) + b * (side * side) = b * (2 * (side * side))
  BY <1>5
<1> QED
  BY <1>11, <1>15, <1>18, <1>19, <1>20 DEF X, Y, n, cell

\* A face that a cell shares and a coefficient that reads behind it.
LEMMA SharedFaceIsRead ==
  ASSUME NEW m \in Meshes, NEW cell \in LatticeCell, GGStencil(m, cell).well_conditioned,
         NEW f \in 1..Len(m.faces), IsShared(m.faces[f], cell)
  PROVE  \E k \in DOMAIN GGStencil(m, cell).coefficients :
           GGStencil(m, cell).coefficients[k].neighbour = OtherSide(m.faces[f], cell)
<1> DEFINE S == {p \in DOMAIN m.faces : IsShared(m.faces[p], cell)}
           at == SharedPositions(m, cell)
<1>1. Len(m.faces) \in Nat /\ DOMAIN m.faces = 1..Len(m.faces)
  BY MeshElements
<1>2. f \in S
  BY <1>1
<1>3. \E k \in DOMAIN at : at[k] = f
  <2> HIDE DEF S
  <2>1. \A p \in S \cap 1..Len(m.faces) : \E k \in DOMAIN Collected(S, Len(m.faces)) :
           Collected(S, Len(m.faces))[k] = p
    BY <1>1, CollectedIsAll
  <2> QED
    BY <1>2, <2>1 DEF SharedPositions, S
<1> QED
  BY <1>3, CoefficientsOfFaces

\* GreenGaussExactInside for every slope and every constant.
ExactInside ==
  Computed /\ outcome.workspace.method = GG =>
    \A a, b, c \in Int :
      outcome.field.values = LinearValues(outcome.workspace.mesh, a, b, c) =>
        \A i \in DOMAIN outcome.gradients :
          IsInnerSquare(outcome.workspace.mesh, i) => Is(outcome.gradients[i], a, b)

LEMMA InnerSquaresAreExact ==
  ASSUME NumberedCells, IInv
  PROVE  ExactInside
<1> DEFINE w == outcome.workspace
           m == w.mesh
           n == Len(m.cells)
           values == outcome.field.values
<1> SUFFICES ASSUME Computed, w.method = GG, NEW a \in Int, NEW b \in Int, NEW c \in Int,
                    values = LinearValues(m, a, b, c), NEW i \in DOMAIN outcome.gradients,
                    IsInnerSquare(m, i)
             PROVE  Is(outcome.gradients[i], a, b)
  BY DEF ExactInside
<1>1. /\ IsBuilt(w)
      /\ outcome.gradients = Gradients(w, values)
      /\ Len(values) = n
      /\ \A j \in 1..n : /\ w.stencils[j].well_conditioned
                         /\ \A k \in DOMAIN w.stencils[j].coefficients :
                              Holds(values, w.stencils[j].coefficients[k].neighbour)
  BY ComputedIsSound DEF IInv
<1>2. /\ m \in Meshes
      /\ \A j \in 1..n : w.stencils[j] = GGStencil(m, m.cells[j])
  BY <1>1, StencilsOfBuilt DEF WLS, GG
<1>3. /\ n \in Nat /\ DOMAIN m.cells = 1..n
      /\ \A j \in 1..n : /\ m.cells[j] \in LatticeCell /\ m.cells[j].area \in Int
                         /\ m.cells[j].x \in Int /\ m.cells[j].y \in Int
  BY <1>2, MeshElements DEF LatticeCell
<1>4. DOMAIN values = 1..n /\ DOMAIN outcome.gradients = 1..n
  <2>1. DOMAIN values = 1..n
    BY <1>3 DEF LinearValues
  <2>2. DOMAIN Gradients(w, values) = DOMAIN values
    BY DEF Gradients
  <2> QED
    BY <1>1, <2>1, <2>2
<1> DEFINE cell == m.cells[i]
           s == w.stencils[i]
<1>5. outcome.gradients[i] = GradientOf(s, values)
  BY <1>1, <1>4, GradientOfCell
<1>6. /\ s = GGStencil(m, cell) /\ s.well_conditioned /\ i \in 1..n /\ cell \in LatticeCell
      /\ cell.id = i - 1 /\ cell.area \in Int
  BY <1>1, <1>2, <1>3, <1>4 DEF NumberedCells
<1>7. GGStencil(m, cell).well_conditioned /\ cell.area > 0
  <2>1. GGStencil(m, cell).well_conditioned
    BY <1>6
  <2>2. GGStencil(m, cell).well_conditioned = (cell.area > 0)
    BY DEF GGStencil
  <2> QED
    BY <2>1, <2>2
<1>8. \A j \in 1..n : values[j] = a * m.cells[j].x + b * m.cells[j].y + c
  BY <1>2, LinearValuesAt
<1>9. ASSUME NEW f \in 1..Len(m.faces), IsShared(m.faces[f], cell)
      PROVE  LET d == Delta(m, cell, OtherSide(m.faces[f], cell))
             IN  values[OtherSide(m.faces[f], cell) + 1] - values[i] = a * d.x + b * d.y
  <2> DEFINE id == OtherSide(m.faces[f], cell)
             j == id + 1
             p == m.cells[j].x
             q == m.cells[j].y
             x == cell.x
             y == cell.y
  <2>1. id \in 0..(n - 1)
    <3>1. PICK k \in DOMAIN s.coefficients : s.coefficients[k].neighbour = id
      <4> HIDE DEF m, s
      <4>1. \E k \in DOMAIN GGStencil(m, cell).coefficients :
               GGStencil(m, cell).coefficients[k].neighbour = id
        BY <1>2, <1>6, <1>7, <1>9, SharedFaceIsRead
      <4> QED
        BY <1>6, <4>1
    <3>2. Holds(values, s.coefficients[k].neighbour)
      BY <1>1, <1>6
    <3> QED
      BY <1>1, <3>1, <3>2 DEF Holds
  <2>2. j \in 1..n
    BY <1>3, <2>1
  <2>3. Delta(m, cell, id).x = p - x /\ Delta(m, cell, id).y = q - y
    BY DEF Delta, CellAt
  <2> HIDE DEF id, values, m
  <2>4. p \in Int /\ q \in Int /\ x \in Int /\ y \in Int
    BY <1>3, <1>6, <2>2
  <2>5. values[j] = a * p + b * q + c /\ values[i] = a * x + b * y + c
    BY <1>6, <1>8, <2>2
  <2> HIDE DEF j, p, q, x, y
  <2>6. (a * p + b * q + c) - (a * x + b * y + c) = a * (p - x) + b * (q - y)
    BY <2>4
  <2>7. values[id + 1] - values[i] = a * Delta(m, cell, id).x + b * Delta(m, cell, id).y
    BY <2>3, <2>5, <2>6 DEF j
  <2> QED
    BY <2>7 DEF id, m, values
<1>10. IsLinearAcrossFaces(values, m, i, a, b)
  <2> HIDE DEF values, m
  <2> QED
    BY <1>9 DEF IsLinearAcrossFaces
<1> HIDE DEF s, values, m
<1>11. /\ TermX(m, i, values) \in [1..Len(m.faces) -> Int]
       /\ TermY(m, i, values) \in [1..Len(m.faces) -> Int]
       /\ SumOf(TermX(m, i, values)) = a * (2 * cell.area)
       /\ SumOf(TermY(m, i, values)) = b * (2 * cell.area)
  BY <1>2, <1>6, <1>7, <1>10, TermsOfInnerSquare
<1>12. /\ GradientOf(s, values).x = SumOf(TermX(m, i, values))
       /\ GradientOf(s, values).y = SumOf(TermY(m, i, values))
       /\ GradientOf(s, values).over = 2 * cell.area
  BY <1>2, <1>6, <1>11, GradientOverFaces
<1>13. Is(GradientOf(s, values), a, b)
  BY <1>11, <1>12 DEF Is
<1> QED
  BY <1>5, <1>13

\* Green-Gauss returns (a, b) for a x + b y + c in every square that shares its four
\* sides with equal squares, whatever the rest of the mesh.
THEOREM GreenGaussAlwaysExactInside ==
  ASSUME NumberedCells
  PROVE  Spec => [](GreenGaussExactInside /\ ExactInside)
<1>1. ASSUME IInv PROVE GreenGaussExactInside /\ ExactInside
  <2>1. ExactInside
    BY <1>1, InnerSquaresAreExact
  <2>2. -3..3 \subseteq Int /\ 5 \in Int
    OBVIOUS
  <2>3. GreenGaussExactInside
    BY <2>1, <2>2 DEF GreenGaussExactInside, ExactInside
  <2> QED
    BY <2>1, <2>3
<1> QED
  BY <1>1, InvAlwaysHolds, PTL
=============================================================================
