------------------------ MODULE BootstrapReaderProofs ------------------------
(***************************************************************************)
(* Proofs about BootstrapReader for any texts, alone and as the examples   *)
(* run it.                                                                 *)
(*                                                                         *)
(* Damaged texts: only sections that were begun have elements              *)
(* (FirstReading), and behind the element being read lie the elements as   *)
(* the vector made them (Untouched), with an area or a length of zero.  So *)
(* an element that was not read so far has one still, or one too small;    *)
(* and no later step, all of them failing, gives it another.  Where the    *)
(* size itself was too large a number, the element read next has a zero    *)
(* again; only the last has none behind it (GuessesAreRefused).            *)
(*                                                                         *)
(* Texts from which nothing is missing: what is left of one is always the  *)
(* rest of its sections, joined (Rest), and the mesh is what the sections  *)
(* before it mean (Between); in a section, up to the element read          *)
(* (Within).  An extraction at the beginning of such a rest reads all of   *)
(* its fields (AllIsRead).                                                 *)
(***************************************************************************)
EXTENDS Examples, SequenceTheorems, WellFoundedInduction, TLAPS

Values      == Int \cup Words \cup {"", "digits"}
Elements(s) == [ToSet(FieldsOf[s]) -> Values]
Part(s)     == mesh[PartOf[s]]

Typed ==
  /\ plan \in Plans \cup {NoPlan}
  /\ text \in Seq(Token)
  /\ good \in BOOLEAN
  /\ begun \in Seq(Sections)
  /\ element \in Nat
  /\ DOMAIN mesh = {"dimension", "nodes", "cells", "faces", "patches"}
  /\ \A s \in Sections : Part(s) \in Seq(Elements(s))

Begun(s) == \E i \in DOMAIN begun : begun[i] = s

\* Only sections that were begun have elements.
FirstReading ==
  /\ \A s \in Sections : Begun(s) \/ Part(s) = <<>>
  /\ at = "element" => section \in Sections /\ Begun(section)

Untouched ==
  at = "element" /\ ~Repeated =>
    \A i \in DOMAIN Part(section) : i > element => Part(section)[i] = Fresh(section)

\* An element that MeshView::IsValid refuses for its size; and one whose size was too
\* large, which the next element, if there is one, has not followed yet.
RefusedIn(s) == \E i \in DOMAIN Part(s) : Part(s)[i][SizeOf[s]] \in {0, -MaxReal}
Saturated    == TooLarge /\ (at = "element" \/ element = Len(Part(section)))
GuessesAreRefused ==
  guessed # {} => ~good /\ (Repeated \/ RefusedIn("CELLS") \/ RefusedIn("FACES") \/ Saturated)

Verdict == outcome = "mesh" => at = "end" /\ IsValidMesh(mesh)

IInv == Typed /\ FirstReading /\ Untouched /\ GuessesAreRefused /\ Verdict

-----------------------------------------------------------------------------
(* Texts *)

\* Induction: a set with zero and with every successor holds all natural numbers.
LEMMA SetInduction ==
  ASSUME NEW S, 0 \in S, \A n \in Nat : n \in S => n + 1 \in S
  PROVE  Nat \subseteq S
<1> DEFINE rest == {n \in Nat : n \notin S}
<1>1. SUFFICES ASSUME rest # {} PROVE FALSE
  OBVIOUS
<1>2. PICK m \in rest : \A k \in rest : <<k, m>> \notin OpToRel(<, Nat)
  BY <1>1, WFMin, NatLessThanWellFounded, Zenon
<1>3. m - 1 \in Nat /\ m - 1 < m /\ (m - 1) + 1 = m
  OBVIOUS
<1>4. m - 1 \in rest
  BY <1>3
<1> QED
  BY <1>2, <1>3, <1>4 DEF OpToRel

LEMMA Joining ==
  ASSUME NEW A
  PROVE  /\ \A x, y \in Seq(A) : x \o y \in Seq(A)
         /\ \A x, y, z \in Seq(A) : (x \o y) \o z = x \o (y \o z)
  BY ConcatProperties, ConcatAssociative

\* g is the sequences in s up to each of them, joined.
Joins(g, s) == \A k \in 1..Len(s) : g[k] = IF k = 1 THEN s[k] ELSE g[k - 1] \o s[k]

LEMMA JoinsExist ==
  ASSUME NEW A, NEW s \in Seq(Seq(A))
  PROVE  \E g \in [1..Len(s) -> Seq(A)] : Joins(g, s)
<1> DEFINE Upto(n) == \E g \in [1..n -> Seq(A)] :
                        \A k \in 1..n : g[k] = IF k = 1 THEN s[k] ELSE g[k - 1] \o s[k]
           S == {n \in Nat : n <= Len(s) => Upto(n)}
<1>1. Len(s) \in Nat /\ \A k \in 1..Len(s) : s[k] \in Seq(A)
  BY LenProperties, ElementOfSeq
<1>2. Upto(0)
  <2> DEFINE none == [k \in 1..0 |-> <<>>]
  <2>1. none \in [1..0 -> Seq(A)] /\ 1..0 = {}
    OBVIOUS
  <2> QED
    BY <2>1
<1>3. ASSUME NEW n \in Nat, Upto(n), n + 1 <= Len(s)
      PROVE  Upto(n + 1)
  <2>1. PICK g \in [1..n -> Seq(A)] :
          \A k \in 1..n : g[k] = IF k = 1 THEN s[k] ELSE g[k - 1] \o s[k]
    BY <1>3
  <2> DEFINE x == IF n = 0 THEN s[1] ELSE g[n] \o s[n + 1]
             h == [k \in 1..(n + 1) |-> IF k = n + 1 THEN x ELSE g[k]]
  <2>2. n + 1 \in 1..Len(s) /\ s[n + 1] \in Seq(A)
    BY <1>1, <1>3
  <2>3. x \in Seq(A)
    <3>1. CASE n = 0
      BY <2>2, <3>1
    <3>2. CASE n # 0
      <4>1. g[n] \in Seq(A)
        BY <2>1, <3>2
      <4> QED
        BY <2>2, <3>2, <4>1, ConcatProperties
    <3> QED
      BY <3>1, <3>2
  <2>4. h \in [1..(n + 1) -> Seq(A)]
    <3>1. \A k \in 1..(n + 1) : (IF k = n + 1 THEN x ELSE g[k]) \in Seq(A)
      BY <2>1, <2>3
    <3> HIDE DEF x
    <3> QED
      BY <3>1
  <2>5. ASSUME NEW k \in 1..(n + 1)
        PROVE  h[k] = IF k = 1 THEN s[k] ELSE h[k - 1] \o s[k]
    <3>1. CASE k = n + 1 /\ n = 0
      BY <3>1
    <3>2. CASE k = n + 1 /\ n # 0
      <4>1. k - 1 = n /\ k # 1 /\ n \in 1..(n + 1) /\ n # n + 1
        BY <3>2
      <4>2. h[k] = g[n] \o s[n + 1]
        BY <3>2
      <4>3. h[n] = g[n]
        BY <4>1
      <4> QED
        BY <3>2, <4>1, <4>2, <4>3
    <3>3. CASE k \in 1..n /\ k # 1
      <4>1. k # n + 1 /\ k - 1 \in 1..(n + 1) /\ k - 1 # n + 1
        BY <3>3
      <4>2. h[k] = g[k] /\ h[k - 1] = g[k - 1]
        BY <4>1
      <4> QED
        BY <2>1, <3>3, <4>2
    <3>4. CASE k \in 1..n /\ k = 1
      <4>1. k # n + 1
        BY <3>4
      <4>2. h[k] = g[k]
        BY <4>1
      <4> QED
        BY <2>1, <3>4, <4>2
    <3> QED
      BY <3>1, <3>2, <3>3, <3>4
  <2> HIDE DEF h
  <2> QED
    BY <2>4, <2>5
<1> HIDE DEF Upto
<1>4. 0 \in S /\ \A n \in Nat : n \in S => n + 1 \in S
  BY <1>1, <1>2, <1>3
<1> HIDE DEF S
<1>5. Nat \subseteq S
  BY <1>4, SetInduction
<1>6. Upto(Len(s))
  BY <1>1, <1>5 DEF S
<1> QED
  BY <1>6 DEF Upto, Joins

\* FlattenSeq has joined all when it ends.
LEMMA FlattenIsLast ==
  ASSUME NEW A, NEW s \in Seq(Seq(A)), s # <<>>, NEW g \in [1..Len(s) -> Seq(A)], Joins(g, s)
  PROVE  FlattenSeq(s) = g[Len(s)] /\ FlattenSeq(s) \in Seq(A)
<1> DEFINE Step(f) == [i \in 1..Len(s) |-> IF i = 1 THEN s[i] ELSE f[i - 1] \o s[i]]
           flatten == CHOOSE f : f = Step(f)
           S == {n \in Nat : n + 1 <= Len(s) => flatten[n + 1] = g[n + 1]}
<1>1. Len(s) \in Nat /\ Len(s) >= 1
  BY LenProperties, EmptySeq
<1>2. g = Step(g)
  BY <1>1 DEF Joins
<1>3. flatten = Step(flatten)
  BY <1>2
<1>4. FlattenSeq(s) = flatten[Len(s)]
  BY <1>1 DEF FlattenSeq
<1> HIDE DEF flatten
<1>5. \A k \in 1..Len(s) : flatten[k] = IF k = 1 THEN s[k] ELSE flatten[k - 1] \o s[k]
  BY <1>3
<1>6. 0 \in S
  <2>1. 1 \in 1..Len(s) /\ 0 + 1 = 1
    BY <1>1
  <2>2. flatten[1] = s[1] /\ g[1] = s[1]
    BY <1>5, <2>1 DEF Joins
  <2> QED
    BY <2>1, <2>2
<1>7. ASSUME NEW n \in Nat, n \in S
      PROVE  n + 1 \in S
  <2>1. SUFFICES ASSUME (n + 1) + 1 <= Len(s) PROVE flatten[(n + 1) + 1] = g[(n + 1) + 1]
    OBVIOUS
  <2>2. (n + 1) + 1 \in 1..Len(s) /\ ((n + 1) + 1) - 1 = n + 1 /\ n + 1 <= Len(s) /\ (n + 1) + 1 # 1
    BY <1>1, <2>1
  <2>3. flatten[n + 1] = g[n + 1]
    BY <1>7, <2>2
  <2>4. PICK k \in 1..Len(s) : k = (n + 1) + 1
    BY <2>2
  <2>5. k # 1 /\ k - 1 = n + 1
    BY <2>2, <2>4
  <2>6. flatten[k] = flatten[k - 1] \o s[k] /\ g[k] = g[k - 1] \o s[k]
    BY <1>5, <2>5 DEF Joins
  <2>7. flatten[k] = g[k]
    BY <2>3, <2>5, <2>6
  <2> QED
    BY <2>4, <2>7
<1> HIDE DEF S
<1>8. Nat \subseteq S
  BY <1>6, <1>7, SetInduction
<1>9. Len(s) - 1 \in S /\ (Len(s) - 1) + 1 = Len(s)
  BY <1>1, <1>8
<1>10. flatten[Len(s)] = g[Len(s)]
  BY <1>1, <1>9 DEF S
<1> QED
  BY <1>1, <1>4, <1>10

\* The sequences of s behind the first k, and these joined.
Later(s, k) == [i \in 1..(Len(s) - k) |-> s[k + i]]
Rest(s, k)  == FlattenSeq(Later(s, k))

LEMMA LaterIsSeq ==
  ASSUME NEW A, NEW s \in Seq(Seq(A)), NEW k \in 0..Len(s)
  PROVE  /\ Later(s, k) \in Seq(Seq(A)) /\ Len(Later(s, k)) = Len(s) - k
         /\ \A i \in 1..(Len(s) - k) : Later(s, k)[i] = s[k + i]
<1>1. Len(s) \in Nat /\ \A i \in 1..Len(s) : s[i] \in Seq(A)
  BY LenProperties, ElementOfSeq
<1>2. \A i \in 1..(Len(s) - k) : s[k + i] \in Seq(A)
  BY <1>1
<1>3. Later(s, k) \in [1..(Len(s) - k) -> Seq(A)] /\ Len(s) - k \in Nat
  BY <1>1, <1>2 DEF Later
<1> DEFINE l == Later(s, k)
           m == Len(s) - k
<1>4. l \in [1..m -> Seq(A)] /\ m \in Nat
  BY <1>3
<1> HIDE DEF l, m
<1>5. l \in Seq(Seq(A)) /\ Len(l) = m
  BY <1>4, IsASeq, LenProperties
<1> QED
  BY <1>5 DEF Later, l, m

\* All is behind the first none, nothing is behind the last.
LEMMA RestEnds ==
  ASSUME NEW A, NEW s \in Seq(Seq(A))
  PROVE  Rest(s, 0) = FlattenSeq(s) /\ Rest(s, Len(s)) = <<>>
<1>1. Len(s) \in Nat /\ 0 \in 0..Len(s) /\ Len(s) \in 0..Len(s)
  BY LenProperties
<1>2. Later(s, 0) = s
  <2>1. Later(s, 0) \in Seq(Seq(A)) /\ Len(Later(s, 0)) = Len(s) - 0
        /\ \A i \in 1..(Len(s) - 0) : Later(s, 0)[i] = s[0 + i]
    BY <1>1, LaterIsSeq
  <2>2. Len(Later(s, 0)) = Len(s) /\ \A i \in 1..Len(Later(s, 0)) : Later(s, 0)[i] = s[i]
    BY <1>1, <2>1
  <2> QED
    BY <2>1, <2>2, SeqEqual
<1>3. Later(s, Len(s)) \in Seq(Seq(A)) /\ Len(Later(s, Len(s))) = Len(s) - Len(s)
  BY <1>1, LaterIsSeq
<1>4. Later(s, Len(s)) = <<>> /\ Len(Later(s, Len(s))) = 0
  BY <1>1, <1>3, EmptySeq
<1>5. FlattenSeq(<<>>) = <<>>
  BY EmptySeq DEF FlattenSeq
<1> QED
  BY <1>2, <1>4, <1>5 DEF Rest

\* Behind the first k come the next and what is behind that.
LEMMA RestSplits ==
  ASSUME NEW A, NEW s \in Seq(Seq(A)), NEW k \in 0..Len(s)
  PROVE  /\ Rest(s, k) \in Seq(A)
         /\ k < Len(s) => Rest(s, k) = s[k + 1] \o Rest(s, k + 1) /\ s[k + 1] \in Seq(A)
<1>1. Len(s) \in Nat /\ \A i \in 1..Len(s) : s[i] \in Seq(A)
  BY LenProperties, ElementOfSeq
<1>2. ASSUME NEW j \in 0..Len(s)
      PROVE  Rest(s, j) \in Seq(A)
  <2>1. Later(s, j) \in Seq(Seq(A)) /\ Len(Later(s, j)) = Len(s) - j
    BY LaterIsSeq
  <2>2. CASE Later(s, j) = <<>>
    BY <2>2, EmptySeq DEF Rest, FlattenSeq
  <2>3. CASE Later(s, j) # <<>>
    <3>1. PICK g \in [1..Len(Later(s, j)) -> Seq(A)] : Joins(g, Later(s, j))
      BY <2>1, JoinsExist
    <3> QED
      BY <2>1, <2>3, <3>1, FlattenIsLast DEF Rest
  <2> QED
    BY <2>2, <2>3
<1>3. ASSUME k < Len(s)
      PROVE  Rest(s, k) = s[k + 1] \o Rest(s, k + 1)
  <2> DEFINE n == Len(s) - k
             u == Later(s, k)
             v == Later(s, k + 1)
             x == s[k + 1]
  <2>1. n \in Nat /\ n >= 1 /\ k + 1 \in 0..Len(s) /\ n - 1 \in Nat /\ Len(s) - (k + 1) = n - 1
    BY <1>1, <1>3
  <2>2. u \in Seq(Seq(A)) /\ Len(u) = n /\ \A i \in 1..n : u[i] = s[k + i]
    BY LaterIsSeq
  <2>3. v \in Seq(Seq(A)) /\ Len(v) = n - 1 /\ \A i \in 1..(n - 1) : v[i] = s[(k + 1) + i]
    BY <2>1, LaterIsSeq
  <2> HIDE DEF n, u, v
  <2>4. x \in Seq(A) /\ u[1] = x
    BY <1>1, <1>3, <2>1, <2>2
  <2>5. \A i \in 1..(n - 1) : u[i + 1] = v[i] /\ v[i] \in Seq(A)
    <3>1. ASSUME NEW i \in 1..(n - 1)
          PROVE  i + 1 \in 1..n /\ k + (i + 1) = (k + 1) + i
      BY <2>1
    <3>2. \A i \in 1..(n - 1) : v[i] \in Seq(A)
      BY <2>3, ElementOfSeq
    <3>3. ASSUME NEW i \in 1..(n - 1)
          PROVE  u[i + 1] = v[i]
      <4> DEFINE j == i + 1
      <4>1. j \in 1..n /\ k + j = (k + 1) + i
        BY <3>1
      <4> HIDE DEF j
      <4>2. u[j] = s[k + j]
        BY <2>2, <4>1
      <4>3. v[i] = s[(k + 1) + i]
        BY <2>3
      <4>4. u[j] = v[i]
        BY <4>1, <4>2, <4>3, Zenon
      <4> QED
        BY <4>4 DEF j
    <3> QED
      BY <3>2, <3>3
  <2> HIDE DEF x
  <2>6. PICK h \in [1..(n - 1) -> Seq(A)] : Joins(h, v)
    BY <2>3, JoinsExist
  <2> DEFINE g == [i \in 1..n |-> IF i = 1 THEN x ELSE x \o h[i - 1]]
  <2>7. g \in [1..n -> Seq(A)]
    <3>1. ASSUME NEW i \in 1..n
          PROVE  (IF i = 1 THEN x ELSE x \o h[i - 1]) \in Seq(A)
      <4>1. CASE i = 1
        BY <2>4, <4>1
      <4>2. CASE i # 1
        <5>1. h[i - 1] \in Seq(A)
          BY <2>1, <2>6, <4>2
        <5> QED
          BY <2>4, <4>2, <5>1, ConcatProperties
      <4> QED
        BY <4>1, <4>2
    <3> QED
      BY <3>1
  <2>8. ASSUME NEW i \in 1..n
        PROVE  g[i] = IF i = 1 THEN u[i] ELSE g[i - 1] \o u[i]
    <3>1. CASE i = 1
      BY <2>1, <2>4, <3>1
    <3>2. CASE i = 2
      <4>1. 1 \in 1..(n - 1) /\ i - 1 = 1
        BY <2>1, <3>2
      <4>2. h[1] = v[1]
        BY <2>3, <2>6, <4>1 DEF Joins
      <4>3. u[1 + 1] = v[1]
        BY <2>5, <4>1
      <4>4. 1 \in 1..n /\ 2 \in 1..n /\ 2 - 1 = 1 /\ 1 + 1 = 2
        BY <2>1, <3>2
      <4>5. g[1] = x /\ g[2] = x \o h[1]
        BY <4>4
      <4>6. u[2] = h[1]
        BY <4>2, <4>3, <4>4, Zenon
      <4>7. g[2] = g[1] \o u[2]
        BY <4>5, <4>6, Zenon
      <4> QED
        BY <3>2, <4>4, <4>7
    <3>3. CASE i > 2
      <4>1. i - 1 \in 1..(n - 1) /\ (i - 1) - 1 \in 1..(n - 1) /\ i - 1 # 1 /\ i - 1 \in 1..n /\ (i - 1) + 1 = i
        BY <2>1, <3>3
      <4> DEFINE j == i - 1
      <4>2. j - 1 \in 1..(n - 1) /\ j \in 1..(n - 1) /\ j # 1 /\ j + 1 = i /\ j \in 1..n /\ i # 1
        BY <4>1
      <4>3. g[j] = x \o h[j - 1] /\ g[i] = x \o h[j]
        BY <4>2
      <4> HIDE DEF j, g
      <4>4. h[j] = h[j - 1] \o v[j]
        BY <2>3, <2>6, <4>2 DEF Joins
      <4>5. u[i] = v[j] /\ v[j] \in Seq(A) /\ h[j - 1] \in Seq(A)
        BY <2>5, <2>6, <4>2
      <4> DEFINE y == h[j - 1]
                 z == v[j]
      <4>6. y \in Seq(A) /\ z \in Seq(A)
        BY <4>5
      <4> HIDE DEF y, z
      <4>7. (x \o y) \o z = x \o (y \o z)
        <5>1. x \in Seq(A)
          BY <2>4
        <5>2. \A a, b, c \in Seq(A) : (a \o b) \o c = a \o (b \o c)
          BY Joining
        <5> QED
          BY <4>6, <5>1, <5>2, Zenon
      <4>8. g[i] = g[j] \o u[i]
        BY <4>3, <4>4, <4>5, <4>7 DEF y, z
      <4> QED
        BY <4>2, <4>8 DEF j
    <3> QED
      BY <2>1, <3>1, <3>2, <3>3
  <2>9. Joins(g, u)
    BY <2>2, <2>8 DEF Joins
  <2>10. g[n] = IF n = 1 THEN x ELSE x \o h[n - 1]
    BY <2>1
  <2> HIDE DEF g
  <2>11. FlattenSeq(u) = g[n]
    <3>1. u # <<>>
      BY <2>1, <2>2, EmptySeq
    <3> QED
      BY <2>2, <2>7, <2>9, <3>1, FlattenIsLast
  <2>12. CASE n = 1
    <3>1. v = <<>> /\ Len(v) = 0
      BY <2>3, <2>12, EmptySeq
    <3>2. FlattenSeq(v) = <<>>
      BY <3>1 DEF FlattenSeq
    <3>3. x \o <<>> = x
      BY <2>4, ConcatEmptySeq
    <3> QED
      BY <2>10, <2>11, <2>12, <3>2, <3>3 DEF Rest, u, v, x
  <2>13. CASE n # 1
    <3>1. v # <<>>
      BY <2>1, <2>3, <2>13, EmptySeq
    <3>2. FlattenSeq(v) = h[n - 1]
      BY <2>3, <2>6, <3>1, FlattenIsLast
    <3> QED
      BY <2>10, <2>11, <2>13, <3>2 DEF Rest, u, v, x
  <2> QED
    BY <2>12, <2>13
<1>4. k < Len(s) => s[k + 1] \in Seq(A)
  BY <1>1
<1> QED
  BY <1>2, <1>3, <1>4

-----------------------------------------------------------------------------
(* What an extraction leaves *)

\* Each field occurs once, and the one that is examined last is a number.
LEMMA FieldsAreDistinct ==
  ASSUME NEW s \in Sections
  PROVE  /\ Len(FieldsOf[s]) \in Nat /\ DOMAIN FieldsOf[s] = 1..Len(FieldsOf[s])
         /\ \A i, j \in DOMAIN FieldsOf[s] : FieldsOf[s][i] = FieldsOf[s][j] => i = j
         /\ "count" \notin ToSet(FieldsOf[s])
<1>1. s \in {"NODES", "CELLS", "FACES", "PATCHES"}
  BY DEF Sections, FieldsOf
<1>2. CASE s = "NODES"
  <2>1. FieldsOf[s] = <<"id", "x", "y">>
    BY <1>2 DEF FieldsOf
  <2> QED
    BY <2>1 DEF ToSet
<1>3. CASE s = "CELLS"
  <2>1. FieldsOf[s] = <<"id", "x", "y", "area">>
    BY <1>3 DEF FieldsOf
  <2> QED
    BY <2>1 DEF ToSet
<1>4. CASE s = "FACES"
  <2>1. FieldsOf[s] = <<"id", "owner", "neighbour", "x", "y", "nx", "ny", "length", "patch_id">>
    BY <1>4 DEF FieldsOf
  <2> QED
    BY <2>1 DEF ToSet
<1>5. CASE s = "PATCHES"
  <2>1. FieldsOf[s] = <<"id", "name", "type">>
    BY <1>5 DEF FieldsOf
  <2> QED
    BY <2>1 DEF ToSet
<1> QED
  BY <1>1, <1>2, <1>3, <1>4, <1>5

\* Of a cell the area, and of a face the length, is examined last; it is a number,
\* and zero in an element as the vector makes it.
LEMMA SizeProperties ==
  ASSUME NEW s \in Sections
  PROVE  /\ Examined[s] \in Nat /\ Examined[s] <= Len(FieldsOf[s])
         /\ Examined[s] > 0 => /\ s \in {"CELLS", "FACES"}
                               /\ Examined[s] \in DOMAIN FieldsOf[s]
                               /\ FieldsOf[s][Examined[s]] = SizeOf[s]
                               /\ SizeOf[s] \in Reals /\ SizeOf[s] \notin Texts
                               /\ Fresh(s)[SizeOf[s]] = 0
<1>1. s \in {"NODES", "CELLS", "FACES", "PATCHES"}
  BY DEF Sections, FieldsOf
<1>2. CASE s = "NODES"
  BY <1>2 DEF Examined, FieldsOf
<1>3. CASE s = "CELLS"
  <2>1. /\ FieldsOf[s] = <<"id", "x", "y", "area">>
        /\ SizeOf[s] = "area" /\ Examined[s] = 4 /\ Examined[s] \in Nat
    BY <1>3 DEF FieldsOf, SizeOf, Examined
  <2>2. "area" \in ToSet(FieldsOf[s])
    BY <2>1 DEF ToSet
  <2>3. Fresh(s)["area"] = 0
    BY <2>2 DEF Fresh, Texts
  <2>4. Len(FieldsOf[s]) = 4 /\ 4 \in DOMAIN FieldsOf[s] /\ FieldsOf[s][4] = "area"
    BY <2>1
  <2> QED
    BY <1>3, <2>1, <2>3, <2>4 DEF Texts, Reals
<1>4. CASE s = "FACES"
  <2>1. /\ FieldsOf[s] = <<"id", "owner", "neighbour", "x", "y", "nx", "ny", "length", "patch_id">>
        /\ SizeOf[s] = "length" /\ Examined[s] = 8 /\ Examined[s] \in Nat
    BY <1>4 DEF FieldsOf, SizeOf, Examined
  <2>2. "length" \in ToSet(FieldsOf[s])
    BY <2>1 DEF ToSet
  <2>3. Fresh(s)["length"] = 0
    BY <2>2 DEF Fresh, Texts
  <2>4. Len(FieldsOf[s]) = 9 /\ 8 \in DOMAIN FieldsOf[s] /\ FieldsOf[s][8] = "length"
    BY <2>1
  <2> QED
    BY <1>4, <2>1, <2>3, <2>4 DEF Texts, Reals
<1>5. CASE s = "PATCHES"
  BY <1>5 DEF Examined, FieldsOf
<1> QED
  BY <1>1, <1>2, <1>3, <1>4, <1>5

\* The number of fields read: all before it can be read, and it cannot.
LEMMA CountProperties ==
  ASSUME NEW t, NEW fields, Len(fields) \in Nat
  PROVE  /\ Count(t, fields) \in 0..Len(fields)
         /\ ~good => Count(t, fields) = 0
         /\ good /\ Count(t, fields) < Len(fields) => ~Readable(t, fields, Count(t, fields) + 1)
<1> DEFINE unreadable == {n \in Nat : n < Len(fields) /\ ~Readable(t, fields, n + 1)}
           Stops(n) == /\ \A i \in 1..n : Readable(t, fields, i)
                       /\ n < Len(fields) => ~Readable(t, fields, n + 1)
<1>2. \E n \in 0..Len(fields) : Stops(n)
  <2>1. CASE unreadable = {}
    <3>1. ASSUME NEW i \in 1..Len(fields)
          PROVE  Readable(t, fields, i)
      <4>1. i - 1 \in Nat /\ i - 1 < Len(fields) /\ (i - 1) + 1 = i
        OBVIOUS
      <4> QED
        BY <2>1, <4>1
    <3> QED
      BY <3>1
  <2>2. CASE unreadable # {}
    <3>1. PICK m \in unreadable : \A k \in unreadable : <<k, m>> \notin OpToRel(<, Nat)
      BY <2>2, WFMin, NatLessThanWellFounded, Zenon
    <3>2. ASSUME NEW i \in 1..m
          PROVE  Readable(t, fields, i)
      <4>1. i - 1 \in Nat /\ i - 1 < m /\ (i - 1) + 1 = i /\ m \in Nat
        OBVIOUS
      <4>2. i - 1 \notin unreadable
        BY <3>1, <4>1 DEF OpToRel
      <4> QED
        BY <4>1, <4>2
    <3>3. m \in 0..Len(fields) /\ ~Readable(t, fields, m + 1)
      OBVIOUS
    <3>4. Stops(m)
      BY <3>2, <3>3
    <3> QED
      BY <3>3, <3>4
  <2> QED
    BY <2>1, <2>2
<1>3. CASE good
  <2>1. Count(t, fields) = CHOOSE n \in 0..Len(fields) : Stops(n)
    BY <1>3 DEF Count
  <2> HIDE DEF Stops
  <2>2. Count(t, fields) \in 0..Len(fields) /\ Stops(Count(t, fields))
    BY <1>2, <2>1
  <2> QED
    BY <1>3, <2>2 DEF Stops
<1>4. CASE ~good
  BY <1>4 DEF Count
<1> QED
  BY <1>3, <1>4

\* What is left of a text after n tokens.
LEMMA RestOfText ==
  ASSUME NEW t \in Seq(Token), NEW n \in Nat
  PROVE  SubSeq(t, n + 1, Len(t)) \in Seq(Token)
<1>1. Len(t) \in Nat
  BY LenProperties
<1>2. \A i \in (n + 1)..Len(t) : t[i] \in Token
  <2>1. ASSUME NEW i \in (n + 1)..Len(t)
        PROVE  i \in 1..Len(t)
    BY <1>1
  <2> QED
    BY <2>1, ElementOfSeq
<1> QED
  BY <1>1, <1>2, SubSeqProperties

\* A number goes where a number belongs and a text where a text belongs; what does not
\* suit a size leaves zero or a limit, and what suits is stored as it is.
LEMMA StoredProperties ==
  ASSUME NEW token \in Token, NEW f
  PROVE  /\ Stored(token, f) \in Values
         /\ f \notin Texts => Stored(token, f) \in Int
         /\ f = "count" => Stored(token, f) \in Nat
         /\ f \in Reals /\ f \notin Texts /\ ~Suits(token, f) => Stored(token, f) \in {0, -MaxReal, MaxReal}
         /\ f \notin Texts /\ Suits(token, f) /\ (f = "count" => token.number >= 0) =>
              Stored(token, f) = token.number
<1>1. /\ Least(f) \in Int /\ Most(f) \in Int /\ MaxCount \in Nat
      /\ f \in Reals => Least(f) = -MaxReal /\ Most(f) = MaxReal
      /\ f = "count" => Least(f) = -MaxCount /\ Most(f) = MaxCount /\ f \notin Reals /\ f \notin Texts
  BY LimitsAssumption DEF Least, Most, Reals, Texts
<1>2. Int \subseteq Values /\ Words \subseteq Values /\ "digits" \in Values
  BY DEF Values
<1>3. CASE token \in [kind : {"word"}, word : Words]
  <2>1. token.kind = "word" /\ token.word \in Words
    BY <1>3
  <2>2. f \notin Texts => Stored(token, f) = 0 /\ ~Suits(token, f)
    BY <2>1 DEF Stored, Suits
  <2>3. f \in Texts => Stored(token, f) = token.word
    BY <2>1 DEF Stored
  <2> QED
    BY <1>1, <1>2, <2>1, <2>2, <2>3
<1>4. CASE token \in [kind : {"number"}, number : Int]
  <2> DEFINE n == token.number
  <2>1. token.kind = "number" /\ n \in Int
    BY <1>4
  <2>2. f \in Texts => Stored(token, f) = "digits"
    BY <2>1 DEF Stored
  <2>3. f \notin Texts => Stored(token, f) = IF f = "count" THEN StoredCount(n) ELSE StoredNumber(n, f)
    BY <2>1 DEF Stored
  <2>4. f \notin Texts => (Suits(token, f) <=> Least(f) <= n /\ n <= Most(f))
    BY <2>1 DEF Suits
  <2> HIDE DEF n
  <2>5. StoredCount(n) \in Nat /\ StoredNumber(n, f) \in Int
    BY <1>1, <2>1 DEF StoredCount, StoredNumber
  <2>6. ASSUME f \in Reals, ~(Least(f) <= n /\ n <= Most(f))
        PROVE  StoredNumber(n, f) \in {-MaxReal, MaxReal}
    BY <1>1, <2>1, <2>6 DEF StoredNumber
  <2>7. ASSUME Least(f) <= n, n <= Most(f), f = "count" => n >= 0
        PROVE  StoredNumber(n, f) = n /\ (f = "count" => StoredCount(n) = n)
    BY <1>1, <2>1, <2>7 DEF StoredNumber, StoredCount
  <2>8. f \in Reals => f # "count"
    BY <1>1
  <2> QED
    BY <1>1, <1>2, <2>2, <2>3, <2>4, <2>5, <2>6, <2>7, <2>8 DEF n
<1> QED
  BY <1>3, <1>4 DEF Token

\* An extraction that fails before the size or on it leaves a size of zero, if it was
\* zero, or a limit, the largest only where nothing had failed before; and one that
\* follows a failed extraction leaves everything.
LEMMA ElementExtraction ==
  ASSUME NEW s \in Sections, NEW e \in Elements(s), NEW t \in Seq(Token), good \in BOOLEAN,
         NEW r, r = Extracted(t, FieldsOf[s], e)
  PROVE  /\ r.read \in Nat /\ r.text \in Seq(Token) /\ r.good \in BOOLEAN
         /\ r.e \in Elements(s)
         /\ ~good => r.e = e /\ r.read = 0
         /\ r.good => good /\ r.read >= Examined[s]
         /\ r.read < Examined[s] /\ e[SizeOf[s]] = 0 =>
              r.e[SizeOf[s]] \in {0, -MaxReal} \/ (good /\ r.e[SizeOf[s]] = MaxReal)
<1> DEFINE fields == FieldsOf[s]
           n == Count(t, fields)
           last == SizeOf[s]
           IsRead(f) == \E i \in DOMAIN fields : fields[i] = f /\ good /\ i <= n + 1 /\ i <= Len(t)
           place(f) == CHOOSE i \in DOMAIN fields : fields[i] = f
<1>1. /\ Len(fields) \in Nat /\ DOMAIN fields = 1..Len(fields)
      /\ \A i, j \in DOMAIN fields : fields[i] = fields[j] => i = j
  BY FieldsAreDistinct
<1>2. n \in 0..Len(fields) /\ (~good => n = 0) /\ (good /\ n < Len(fields) => ~Readable(t, fields, n + 1))
  BY <1>1, CountProperties
<1>3. /\ r.read = n /\ r.text = SubSeq(t, n + 1, Len(t)) /\ r.good = (good /\ n = Len(fields))
      /\ r.e = [f \in DOMAIN e |-> IF IsRead(f) THEN Stored(t[place(f)], f) ELSE e[f]]
  BY DEF Extracted
<1>4. ASSUME NEW f, NEW i \in DOMAIN fields, fields[i] = f
      PROVE  place(f) = i
  BY <1>1, <1>4
<1>5. ASSUME NEW i \in DOMAIN fields, i <= Len(t)
      PROVE  t[i] \in Token
  <2>1. Len(t) \in Nat
    BY LenProperties
  <2>2. i \in 1..Len(t)
    BY <1>1, <1>5, <2>1
  <2> QED
    BY <2>2, ElementOfSeq
<1>6. r.text \in Seq(Token)
  BY <1>2, <1>3, RestOfText
<1> HIDE DEF n, place, fields
<1>7. r.e \in Elements(s)
  <2>1. DOMAIN e = ToSet(fields) /\ \A f \in DOMAIN e : e[f] \in Values
    BY DEF Elements, fields
  <2>2. ASSUME NEW f \in DOMAIN e, IsRead(f)
        PROVE  Stored(t[place(f)], f) \in Values
    BY <1>4, <1>5, <2>2, StoredProperties
  <2>3. \A f \in ToSet(fields) : (IF IsRead(f) THEN Stored(t[place(f)], f) ELSE e[f]) \in Values
    BY <2>1, <2>2
  <2> QED
    BY <1>3, <2>1, <2>3 DEF Elements, fields
<1>8. ASSUME ~good PROVE r.e = e
  <2>1. r.e = [f \in DOMAIN e |-> e[f]]
    BY <1>3, <1>8
  <2> QED
    BY <2>1 DEF Elements
<1>9. ASSUME r.read < Examined[s], e[last] = 0
      PROVE  r.e[last] \in {0, -MaxReal} \/ (good /\ r.e[last] = MaxReal)
  <2>1. /\ Examined[s] \in DOMAIN fields /\ fields[Examined[s]] = last /\ last \in Reals /\ last \notin Texts
        /\ Examined[s] <= Len(fields) /\ Examined[s] \in Nat
    BY <1>2, <1>3, <1>9, SizeProperties DEF fields
  <2>2. place(last) = Examined[s] /\ last \in DOMAIN e
    BY <1>4, <2>1 DEF Elements, ToSet, fields
  <2>3. CASE IsRead(last)
    <3>1. good /\ Examined[s] <= n + 1 /\ Examined[s] <= Len(t)
      BY <1>1, <2>1, <2>3
    <3>2. Examined[s] = n + 1 /\ n < Len(fields)
      BY <1>2, <1>3, <1>9, <2>1, <3>1
    <3>3. ~Suits(t[Examined[s]], last)
      BY <1>2, <2>1, <3>1, <3>2 DEF Readable
    <3>4. Stored(t[Examined[s]], last) \in {0, -MaxReal, MaxReal}
      BY <1>5, <2>1, <3>1, <3>3, StoredProperties
    <3>5. r.e[last] = Stored(t[Examined[s]], last)
      BY <1>3, <2>2, <2>3
    <3> QED
      BY <3>1, <3>4, <3>5
  <2>4. CASE ~IsRead(last)
    BY <1>3, <1>9, <2>2, <2>4
  <2> QED
    BY <2>3, <2>4
<1>10. r.good => r.read >= Examined[s]
  <2>1. Examined[s] \in Nat /\ Examined[s] <= Len(fields)
    BY SizeProperties DEF fields
  <2> QED
    BY <1>1, <1>3, <2>1
<1> QED
  BY <1>2, <1>3, <1>6, <1>7, <1>8, <1>9, <1>10

\* A count or the dimension: only this field may change, and to a number.
LEMMA NumberExtraction ==
  ASSUME NEW name, name \notin Texts, NEW e, NEW t \in Seq(Token), good \in BOOLEAN,
         NEW r, r = Extracted(t, <<name>>, e)
  PROVE  /\ r.text \in Seq(Token) /\ r.good \in BOOLEAN
         /\ DOMAIN r.e = DOMAIN e
         /\ \A f \in DOMAIN e \ {name} : r.e[f] = e[f]
         /\ name \in DOMAIN e => r.e[name] = e[name] \/ r.e[name] \in IF name = "count" THEN Nat ELSE Int
<1> DEFINE fields == <<name>>
           n == Count(t, fields)
           IsRead(f) == \E i \in DOMAIN fields : fields[i] = f /\ good /\ i <= n + 1 /\ i <= Len(t)
           place(f) == CHOOSE i \in DOMAIN fields : fields[i] = f
<1>1. Len(fields) \in Nat /\ DOMAIN fields = {1} /\ fields[1] = name
  OBVIOUS
<1>2. n \in Nat
  BY <1>1, CountProperties
<1>3. /\ r.text = SubSeq(t, n + 1, Len(t)) /\ r.good = (good /\ n = Len(fields))
      /\ r.e = [f \in DOMAIN e |-> IF IsRead(f) THEN Stored(t[place(f)], f) ELSE e[f]]
  BY DEF Extracted
<1>4. r.text \in Seq(Token)
  BY <1>2, <1>3, RestOfText
<1> HIDE DEF n, fields
<1>5. \A f : IsRead(f) => f = name
  BY <1>1
<1>6. IsRead(name) => Stored(t[place(name)], name) \in IF name = "count" THEN Nat ELSE Int
  <2> SUFFICES ASSUME IsRead(name) PROVE Stored(t[1], name) \in IF name = "count" THEN Nat ELSE Int
    BY <1>1
  <2>1. Len(t) \in Nat /\ 1 <= Len(t)
    BY <1>1, LenProperties
  <2>2. t[1] \in Token
    BY <2>1, ElementOfSeq
  <2> QED
    BY <2>2, StoredProperties
<1> QED
  BY <1>3, <1>4, <1>5, <1>6

\* The locals are not the fields that are examined last.
LEMMA WithLocalsKeepsLast ==
  ASSUME NEW s \in {"CELLS", "FACES"}, NEW e \in Elements(s)
  PROVE  WithLocals(e, s)[SizeOf[s]] = e[SizeOf[s]]
<1>1. Examined[s] > 0 /\ s \in Sections
  BY DEF Examined, Sections, FieldsOf
<1>2. SizeOf[s] \in ToSet(FieldsOf[s])
  BY <1>1, SizeProperties DEF ToSet
<1>3. SizeOf[s] \notin {"id", "owner", "neighbour"}
  BY DEF SizeOf
<1> QED
  BY <1>2, <1>3 DEF WithLocals, Elements

LEMMA WithLocalsIsElement ==
  ASSUME NEW s \in Sections, NEW x \in Elements(s)
  PROVE  WithLocals(x, s) \in Elements(s)
<1> DEFINE e == WithLocals(x, s)
<1>1. -1 \in Values
  BY DEF Values
<1>2. \A f \in DOMAIN x : e[f] \in {-1, x[f]}
  BY DEF WithLocals
<1>3. e = [f \in ToSet(FieldsOf[s]) |-> e[f]]
  BY DEF WithLocals, Elements
<1>4. \A f \in ToSet(FieldsOf[s]) : e[f] \in Values
  BY <1>1, <1>2 DEF Elements
<1> QED
  BY <1>3, <1>4 DEF Elements

\* A vector of n elements: what it held before, then new ones.
LEMMA ResizedProperties ==
  ASSUME NEW s \in Sections, NEW seq \in Seq(Elements(s)), NEW n \in Nat
  PROVE  /\ Resized(seq, n, s) \in Seq(Elements(s)) /\ Len(Resized(seq, n, s)) = n
         /\ seq = <<>> => \A i \in DOMAIN Resized(seq, n, s) : Resized(seq, n, s)[i] = Fresh(s)
<1>1. Fresh(s) \in Elements(s)
  <2>1. -1 \in Values /\ 0 \in Values
    BY DEF Values
  <2>2. "" \in Values
    BY DEF Values
  <2> QED
    BY <2>1, <2>2 DEF Fresh, Elements
<1>2. Len(seq) \in Nat /\ \A i \in 1..Len(seq) : seq[i] \in Elements(s)
  BY LenProperties, ElementOfSeq
<1>3. \A i \in 1..n : (IF i <= Len(seq) THEN seq[i] ELSE Fresh(s)) \in Elements(s)
  BY <1>1, <1>2
<1>4. Resized(seq, n, s) \in [1..n -> Elements(s)]
  BY <1>3 DEF Resized
<1> DEFINE v == Resized(seq, n, s)
<1>5. v \in Seq(Elements(s)) /\ Len(v) = n
  <2>1. v \in [1..n -> Elements(s)]
    BY <1>4
  <2> HIDE DEF v
  <2> QED
    BY <2>1, SeqDef, LenProperties
<1>6. ASSUME seq = <<>>, NEW i \in DOMAIN Resized(seq, n, s)
      PROVE  Resized(seq, n, s)[i] = Fresh(s)
  BY <1>6, EmptySeq DEF Resized
<1> QED
  BY <1>5, <1>6

-----------------------------------------------------------------------------
(* Plans and their tokens *)

\* An element as it is written: all of its fields, each of its kind.
IsWritten(e, s) ==
  /\ e = [f \in ToSet(FieldsOf[s]) |-> e[f]]
  /\ \A f \in ToSet(FieldsOf[s]) :
       IF f \in Texts THEN e[f] \in Words ELSE e[f] \in Int /\ Least(f) <= e[f] /\ e[f] <= Most(f)

LEMMA ElementsAreWritten ==
  ASSUME NEW s \in Sections, NEW e \in ElementOf[s]
  PROVE  IsWritten(e, s)
<1>1. s \in {"NODES", "CELLS", "FACES", "PATCHES"}
  BY DEF Sections, FieldsOf
<1>2. /\ \A n \in Whole : n \in Int /\ -MaxInteger - 1 <= n /\ n <= MaxInteger
      /\ \A n \in Decimal : n \in Int /\ -MaxReal <= n /\ n <= MaxReal
  BY LimitsAssumption DEF Whole, Decimal
<1>3. /\ \A f \in {"id", "owner", "neighbour", "patch_id"} :
           f \notin Texts /\ Least(f) = -MaxInteger - 1 /\ Most(f) = MaxInteger
      /\ \A f \in {"x", "y", "nx", "ny", "area", "length"} :
           f \notin Texts /\ Least(f) = -MaxReal /\ Most(f) = MaxReal
  BY DEF Least, Most, Reals, Texts
<1> DEFINE IsHeld(f) == e[f] \in Int /\ Least(f) <= e[f] /\ e[f] <= Most(f)
<1>4. CASE s = "NODES"
  <2>1. FieldsOf[s] = <<"id", "x", "y">> /\ e \in [id : Whole, x : Decimal, y : Decimal]
    BY <1>4 DEF FieldsOf, ElementOf
  <2>2. ToSet(FieldsOf[s]) = {"id", "x", "y"}
    BY <2>1 DEF ToSet
  <2>3. \A f \in {"id", "x", "y"} : f \notin Texts /\ IsHeld(f)
    BY <1>2, <1>3, <2>1
  <2> QED
    BY <2>1, <2>2, <2>3 DEF IsWritten
<1>5. CASE s = "CELLS"
  <2>1. /\ FieldsOf[s] = <<"id", "x", "y", "area">>
        /\ e \in [id : Whole, x : Decimal, y : Decimal, area : Decimal]
    BY <1>5 DEF FieldsOf, ElementOf
  <2>2. ToSet(FieldsOf[s]) = {"id", "x", "y", "area"}
    BY <2>1 DEF ToSet
  <2>3. \A f \in {"id", "x", "y", "area"} : f \notin Texts /\ IsHeld(f)
    BY <1>2, <1>3, <2>1
  <2> QED
    BY <2>1, <2>2, <2>3 DEF IsWritten
<1>6. CASE s = "FACES"
  <2>1. /\ FieldsOf[s] = <<"id", "owner", "neighbour", "x", "y", "nx", "ny", "length", "patch_id">>
        /\ e \in [id : Whole, owner : Whole, neighbour : Whole, x : Decimal, y : Decimal,
                  nx : Decimal, ny : Decimal, length : Decimal, patch_id : Whole]
    BY <1>6 DEF FieldsOf, ElementOf
  <2>2. ToSet(FieldsOf[s]) = {"id", "owner", "neighbour", "x", "y", "nx", "ny", "length", "patch_id"}
    BY <2>1 DEF ToSet
  <2>3. /\ \A f \in {"id", "owner", "neighbour", "patch_id"} : e[f] \in Whole
        /\ \A f \in {"x", "y", "nx", "ny", "length"} : e[f] \in Decimal
    BY <2>1
  <2>4. \A f \in ToSet(FieldsOf[s]) : f \notin Texts /\ IsHeld(f)
    BY <1>2, <1>3, <2>2, <2>3
  <2>5. e = [f \in ToSet(FieldsOf[s]) |-> e[f]]
    BY <2>1, <2>2
  <2> QED
    BY <2>4, <2>5 DEF IsWritten
<1>7. CASE s = "PATCHES"
  <2>1. FieldsOf[s] = <<"id", "name", "type">> /\ e \in [id : Whole, name : Words, type : Words]
    BY <1>7 DEF FieldsOf, ElementOf
  <2>2. ToSet(FieldsOf[s]) = {"id", "name", "type"}
    BY <2>1 DEF ToSet
  <2>3. IsHeld("id") /\ "id" \notin Texts
    BY <1>2, <1>3, <2>1
  <2>4. e["name"] \in Words /\ e["type"] \in Words
    BY <2>1
  <2>5. \A f \in {"id", "name", "type"} : IF f \in Texts THEN e[f] \in Words ELSE IsHeld(f)
    BY <2>3, <2>4 DEF Texts
  <2> QED
    BY <2>1, <2>2, <2>5 DEF IsWritten
<1> QED
  BY <1>1, <1>4, <1>5, <1>6, <1>7

\* The kinds of section: one that lists elements, the dimension, or another word.
LEMMA KindsOfSection ==
  ASSUME NEW c \in Section
  PROVE  /\ c.section \in Words
         /\ c.section \in Sections => c.elements \in Seq(ElementOf[c.section]) /\ Len(c.elements) <= Memory
         /\ c.section = "DIM" => c.value \in Whole
         /\ "DIM" \notin Sections
<1>1. Sections = {"NODES", "CELLS", "FACES", "PATCHES"} /\ "DIM" \notin Sections
  BY DEF Sections, FieldsOf
<1>2. Sections \cup {"DIM"} \subseteq Words
  BY TextsAssumption
<1>3. ASSUME NEW s \in Sections, c \in Listing(s)
      PROVE  /\ c.section = s /\ c.section \in Words /\ c.section # "DIM"
             /\ c.elements \in Seq(ElementOf[c.section]) /\ Len(c.elements) <= Memory
  BY <1>1, <1>2, <1>3 DEF Listing
<1>4. CASE c \in Listing("NODES") \cup Listing("CELLS") \cup Listing("FACES") \cup Listing("PATCHES")
  BY <1>1, <1>3, <1>4
<1>5. CASE c \in [section : {"DIM"}, value : Whole]
  BY <1>1, <1>2, <1>5
<1>6. CASE c \in [section : Words \ (Sections \cup {"DIM"})]
  BY <1>1, <1>6
<1> QED
  BY <1>4, <1>5, <1>6 DEF Section

\* The tokens of an element, of the elements of a section, and of all sections.
Line(s, e) == [k \in DOMAIN FieldsOf[s] |-> TokenOf(e, FieldsOf[s][k])]
Lines(c)   == [i \in DOMAIN c.elements |-> Line(c.section, c.elements[i])]
Parts(p)   == [i \in DOMAIN p |-> TokensOf(p[i])]

LEMMA WordsAndNumbers ==
  /\ \A w \in Words : Word(w) \in Token /\ Word(w).kind = "word" /\ Word(w).word = w
  /\ \A n \in Int : Number(n) \in Token /\ Number(n).kind = "number" /\ Number(n).number = n
  BY DEF Word, Number, Token

LEMMA LineIsTyped ==
  ASSUME NEW s \in Sections, NEW e, IsWritten(e, s)
  PROVE  /\ Line(s, e) \in Seq(Token) /\ Len(Line(s, e)) = Len(FieldsOf[s])
         /\ \A k \in 1..Len(FieldsOf[s]) : Line(s, e)[k] = TokenOf(e, FieldsOf[s][k])
<1> DEFINE n == Len(FieldsOf[s])
           l == Line(s, e)
<1>1. n \in Nat /\ DOMAIN FieldsOf[s] = 1..n
  BY FieldsAreDistinct
<1>2. ASSUME NEW k \in 1..n
      PROVE  TokenOf(e, FieldsOf[s][k]) \in Token
  <2> DEFINE f == FieldsOf[s][k]
  <2>1. f \in ToSet(FieldsOf[s])
    BY <1>1 DEF ToSet
  <2> HIDE DEF f
  <2>2. IF f \in Texts THEN e[f] \in Words ELSE e[f] \in Int
    BY <2>1, Zenon DEF IsWritten
  <2>3. TokenOf(e, f) \in Token
    BY <2>2, WordsAndNumbers DEF TokenOf
  <2> QED
    BY <2>3 DEF f
<1>3. l \in [1..n -> Token] /\ \A k \in 1..n : l[k] = TokenOf(e, FieldsOf[s][k])
  BY <1>1, <1>2 DEF Line
<1> HIDE DEF n, l
<1>4. l \in Seq(Token) /\ Len(l) = n
  BY <1>1, <1>3, SeqDef, LenProperties
<1> QED
  BY <1>3, <1>4 DEF n, l

LEMMA LinesAreTyped ==
  ASSUME NEW c \in Section, c.section \in Sections
  PROVE  /\ Lines(c) \in Seq(Seq(Token)) /\ Len(Lines(c)) = Len(c.elements)
         /\ Len(c.elements) \in Nat /\ Len(c.elements) <= Memory
         /\ \A i \in 1..Len(c.elements) : /\ Lines(c)[i] = Line(c.section, c.elements[i])
                                          /\ IsWritten(c.elements[i], c.section)
<1> DEFINE n == Len(c.elements)
           l == Lines(c)
<1>1. c.elements \in Seq(ElementOf[c.section]) /\ n <= Memory
  BY KindsOfSection
<1>2. n \in Nat /\ DOMAIN c.elements = 1..n /\ \A i \in 1..n : c.elements[i] \in ElementOf[c.section]
  BY <1>1, LenProperties, ElementOfSeq
<1>3. \A i \in 1..n : IsWritten(c.elements[i], c.section)
  BY <1>2, ElementsAreWritten
<1>4. \A i \in 1..n : Line(c.section, c.elements[i]) \in Seq(Token)
  BY <1>3, LineIsTyped
<1>5. l \in [1..n -> Seq(Token)] /\ \A i \in 1..n : l[i] = Line(c.section, c.elements[i])
  BY <1>2, <1>4 DEF Lines
<1> HIDE DEF n, l
<1>6. l \in Seq(Seq(Token)) /\ Len(l) = n
  BY <1>2, <1>5, SeqDef, LenProperties
<1> QED
  BY <1>1, <1>2, <1>3, <1>5, <1>6 DEF n, l

\* What a section begins with, and what follows.
LEMMA TokensOfSection ==
  ASSUME NEW c \in Section
  PROVE  /\ c.section \in Sections =>
              TokensOf(c) = <<Word(c.section), Number(Len(c.elements))>> \o Rest(Lines(c), 0)
         /\ c.section = "DIM" => TokensOf(c) = <<Word("DIM"), Number(c.value)>>
         /\ c.section \notin Sections \cup {"DIM"} => TokensOf(c) = <<Word(c.section)>>
         /\ TokensOf(c) \in Seq(Token) /\ TokensOf(c) # <<>>
<1>1. /\ c.section \in Words /\ "DIM" \notin Sections /\ "DIM" \in Words
      /\ c.section = "DIM" => c.value \in Int
  BY KindsOfSection, TextsAssumption, LimitsAssumption DEF Whole
<1>2. CASE c.section \in Sections
  <2>1. Lines(c) \in Seq(Seq(Token)) /\ Len(c.elements) \in Nat
    BY <1>2, LinesAreTyped
  <2>2. Rest(Lines(c), 0) = FlattenSeq(Lines(c))
    BY <2>1, RestEnds
  <2>3. TokensOf(c) = <<Word(c.section), Number(Len(c.elements))>> \o FlattenSeq(Lines(c))
    BY <1>1, <1>2 DEF TokensOf, Lines, Line
  <2>4. Rest(Lines(c), 0) \in Seq(Token)
    <3>1. 0 \in 0..Len(Lines(c))
      BY <2>1, LenProperties
    <3> QED
      BY <2>1, <3>1, RestSplits
  <2> DEFINE head == <<Word(c.section), Number(Len(c.elements))>>
             rest == Rest(Lines(c), 0)
  <2>5. head \in Seq(Token) /\ Len(head) = 2 /\ rest \in Seq(Token)
    <3>1. Word(c.section) \in Token /\ Number(Len(c.elements)) \in Token
      BY <1>1, <2>1, WordsAndNumbers
    <3> QED
      BY <2>4, <3>1
  <2> HIDE DEF head, rest
  <2>6. head \o rest \in Seq(Token) /\ Len(head \o rest) = 2 + Len(rest) /\ Len(rest) \in Nat
    BY <2>5, ConcatProperties, LenProperties
  <2>7. head \o rest # <<>>
    BY <2>6, EmptySeq
  <2> QED
    BY <1>1, <1>2, <2>2, <2>3, <2>6, <2>7 DEF head, rest
<1>3. CASE c.section = "DIM"
  <2>1. TokensOf(c) = <<Word("DIM"), Number(c.value)>>
    BY <1>1, <1>3 DEF TokensOf
  <2>2. Word("DIM") \in Token /\ Number(c.value) \in Token
    BY <1>1, <1>3, WordsAndNumbers
  <2> QED
    BY <1>1, <1>3, <2>1, <2>2
<1>4. CASE c.section \notin Sections \cup {"DIM"}
  <2>1. TokensOf(c) = <<Word(c.section)>>
    BY <1>4 DEF TokensOf
  <2>2. Word(c.section) \in Token
    BY <1>1, WordsAndNumbers
  <2> QED
    BY <1>4, <2>1, <2>2
<1> QED
  BY <1>2, <1>3, <1>4

LEMMA TokensAreTyped ==
  ASSUME NEW p \in Plans
  PROVE  /\ p \in Seq(Section) /\ Len(p) \in Nat /\ \A i \in 1..Len(p) : p[i] \in Section
         /\ Parts(p) \in Seq(Seq(Token)) /\ Len(Parts(p)) = Len(p)
         /\ \A i \in 1..Len(p) : Parts(p)[i] = TokensOf(p[i])
         /\ Rest(Parts(p), 0) \in Seq(Token)
         /\ Tokens(p) = <<Word("MNGMESH1")>> \o Rest(Parts(p), 0) /\ Tokens(p) \in Seq(Token)
<1> DEFINE n == Len(p)
           l == Parts(p)
<1>1. p \in Seq(Section)
  BY TextsAssumption
<1>2. n \in Nat /\ DOMAIN p = 1..n /\ \A i \in 1..n : p[i] \in Section
  BY <1>1, LenProperties, ElementOfSeq
<1>3. \A i \in 1..n : TokensOf(p[i]) \in Seq(Token)
  BY <1>2, TokensOfSection
<1>4. l \in [1..n -> Seq(Token)] /\ \A i \in 1..n : l[i] = TokensOf(p[i])
  BY <1>2, <1>3 DEF Parts
<1> HIDE DEF n, l
<1>5. l \in Seq(Seq(Token)) /\ Len(l) = n
  BY <1>2, <1>4, SeqDef, LenProperties
<1>6. Rest(l, 0) = FlattenSeq(l) /\ Rest(l, 0) \in Seq(Token)
  <2>1. 0 \in 0..Len(l)
    BY <1>2, <1>5
  <2> QED
    BY <1>5, <2>1, RestEnds, RestSplits
<1>7. Tokens(p) = <<Word("MNGMESH1")>> \o FlattenSeq(l)
  BY DEF Tokens, l, Parts
<1>8. <<Word("MNGMESH1")>> \in Seq(Token)
  <2>1. Word("MNGMESH1") \in Token
    BY WordsAndNumbers, TextsAssumption
  <2> QED
    BY <2>1
<1>9. Tokens(p) \in Seq(Token)
  BY <1>6, <1>7, <1>8, ConcatProperties
<1> QED
  BY <1>1, <1>2, <1>4, <1>5, <1>6, <1>7, <1>9 DEF n, l

-----------------------------------------------------------------------------
(* Reading what was written *)

\* A text that begins with the tokens a, and behind them goes on with b.
GoesOn(t, a, b) ==
  /\ t \in Seq(Token) /\ Len(t) = Len(a) + Len(b) /\ Len(a) \in Nat /\ Len(b) \in Nat
  /\ \A i \in 1..Len(a) : t[i] = a[i]
  /\ SubSeq(t, Len(a) + 1, Len(t)) = b

LEMMA RestOfTwo ==
  ASSUME NEW a \in Seq(Token), NEW b \in Seq(Token)
  PROVE  GoesOn(a \o b, a, b)
<1> DEFINE t == a \o b
           m == Len(a)
           n == Len(b)
           r == SubSeq(t, m + 1, m + n)
<1>1. t \in Seq(Token) /\ Len(t) = m + n /\ m \in Nat /\ n \in Nat
  BY ConcatProperties, LenProperties
<1>2. \A i \in 1..(m + n) : t[i] = IF i <= m THEN a[i] ELSE b[i - m]
  BY ConcatProperties
<1> HIDE DEF t, m, n
<1>3. \A i \in (m + 1)..(m + n) : t[i] \in Token
  <2>1. \A i \in (m + 1)..(m + n) : i \in 1..Len(t)
    BY <1>1
  <2> QED
    BY <1>1, <2>1, ElementOfSeq
<1>4. /\ r \in Seq(Token) /\ Len(r) = IF m + 1 <= m + n THEN (m + n) - (m + 1) + 1 ELSE 0
      /\ \A i \in 1..((m + n) - (m + 1) + 1) : r[i] = t[(m + 1) + i - 1]
  BY <1>1, <1>3, SubSeqProperties
<1>5. Len(r) = n
  BY <1>1, <1>4
<1>6. ASSUME NEW i \in 1..n
      PROVE  r[i] = b[i]
  <2>1. i \in 1..((m + n) - (m + 1) + 1) /\ (m + 1) + i - 1 = m + i /\ m + i \in 1..(m + n)
        /\ ~(m + i <= m) /\ (m + i) - m = i
    BY <1>1
  <2>2. r[i] = t[m + i]
    BY <1>4, <2>1
  <2>3. t[m + i] = b[(m + i) - m]
    BY <1>2, <2>1
  <2> QED
    BY <2>1, <2>2, <2>3
<1> HIDE DEF r
<1>7. b \in Seq(Token) /\ Len(b) = n
  BY DEF n
<1>8. r = b
  BY <1>4, <1>5, <1>6, <1>7, SeqEqual
<1>9. \A i \in 1..m : t[i] = a[i]
  BY <1>1, <1>2
<1> QED
  BY <1>1, <1>8, <1>9 DEF GoesOn, r, t, m, n

\* A token behind which a text goes on.
LEMMA HeadOfText ==
  ASSUME NEW x \in Token, NEW b \in Seq(Token)
  PROVE  /\ <<x>> \o b \in Seq(Token) /\ <<x>> \o b # <<>>
         /\ Head(<<x>> \o b) = x /\ Tail(<<x>> \o b) = b
         /\ Len(<<x>>) = 1 /\ <<x>>[1] = x /\ <<x>> \in Seq(Token)
<1> DEFINE a == <<x>>
           t == a \o b
<1>1. a \in Seq(Token) /\ Len(a) = 1 /\ a[1] = x
  OBVIOUS
<1> HIDE DEF a
<1>2. GoesOn(t, a, b)
  BY <1>1, RestOfTwo
<1> HIDE DEF t
<1>3. /\ t \in Seq(Token) /\ Len(t) = 1 + Len(b) /\ Len(b) \in Nat /\ t[1] = x
      /\ SubSeq(t, 2, Len(t)) = b
  BY <1>1, <1>2 DEF GoesOn
<1>4. t # <<>>
  BY <1>3, EmptySeq
<1>5. Tail(t) = b
  BY <1>3, <1>4, TailIsSubSeq
<1>6. Head(t) = x
  BY <1>3, <1>4
<1> QED
  BY <1>1, <1>3, <1>4, <1>5, <1>6 DEF t, a

\* Tokens that can be read into all of the fields; and all of them read.
CanBeRead(a, fields) ==
  /\ a \in Seq(Token) /\ Len(fields) \in Nat /\ DOMAIN fields = 1..Len(fields) /\ Len(a) = Len(fields)
  /\ \A i, j \in DOMAIN fields : fields[i] = fields[j] => i = j
  /\ \A i \in 1..Len(fields) : Suits(a[i], fields[i])
Full(r, a, b, fields, e) ==
  /\ r.text = b /\ r.good = TRUE
  /\ r.e = [f \in DOMAIN e |-> IF f \in ToSet(fields) THEN r.e[f] ELSE e[f]]
  /\ \A i \in 1..Len(fields) : fields[i] \in DOMAIN e => r.e[fields[i]] = Stored(a[i], fields[i])

LEMMA AllIsRead ==
  ASSUME good = TRUE, NEW fields, NEW a, CanBeRead(a, fields), NEW b \in Seq(Token),
         NEW e, NEW r, r = Extracted(a \o b, fields, e)
  PROVE  Full(r, a, b, fields, e)
<1> DEFINE t == a \o b
           n == Count(t, fields)
           m == Len(fields)
           IsRead(f) == \E i \in DOMAIN fields : fields[i] = f /\ good /\ i <= n + 1 /\ i <= Len(t)
           place(f) == CHOOSE i \in DOMAIN fields : fields[i] = f
<1>1. /\ a \in Seq(Token) /\ m \in Nat /\ DOMAIN fields = 1..m /\ Len(a) = m
      /\ \A i, j \in 1..m : fields[i] = fields[j] => i = j
      /\ \A i \in 1..m : Suits(a[i], fields[i])
  BY DEF CanBeRead
<1>2. GoesOn(t, a, b)
  BY <1>1, RestOfTwo
<1>3. n \in 0..m /\ (n < m => ~Readable(t, fields, n + 1))
  BY <1>1, CountProperties
<1>4. /\ r.text = SubSeq(t, n + 1, Len(t)) /\ r.good = (good /\ n = m)
      /\ r.e = [f \in DOMAIN e |-> IF IsRead(f) THEN Stored(t[place(f)], f) ELSE e[f]]
  BY DEF Extracted
<1> HIDE DEF t, n, place, m
<1>5. /\ Len(t) = m + Len(b) /\ Len(b) \in Nat /\ \A i \in 1..m : t[i] = a[i]
      /\ SubSeq(t, m + 1, Len(t)) = b
  BY <1>1, <1>2 DEF GoesOn
<1>6. n = m
  <2>1. SUFFICES ASSUME n < m PROVE FALSE
    BY <1>1, <1>3
  <2>2. n + 1 \in 1..m /\ n + 1 <= Len(t)
    BY <1>1, <1>5, <1>3, <2>1
  <2>3. Readable(t, fields, n + 1)
    BY <1>1, <1>5, <2>2 DEF Readable
  <2> QED
    BY <1>3, <2>1, <2>3
<1>7. ASSUME NEW i \in 1..m
      PROVE  IsRead(fields[i]) /\ place(fields[i]) = i
  <2>1. i \in DOMAIN fields /\ i <= n + 1 /\ i <= Len(t)
    BY <1>1, <1>5, <1>6
  <2>2. place(fields[i]) = i
    BY <1>1, <2>1 DEF place
  <2> QED
    BY <2>1, <2>2
<1>8. \A f : IsRead(f) <=> f \in ToSet(fields)
  BY <1>1, <1>7 DEF ToSet
<1> HIDE DEF IsRead
<1>9. r.e = [f \in DOMAIN e |-> IF f \in ToSet(fields) THEN r.e[f] ELSE e[f]]
  <2>1. DOMAIN r.e = DOMAIN e /\ \A f \in DOMAIN e : r.e[f] = IF f \in ToSet(fields) THEN r.e[f] ELSE e[f]
    BY <1>4, <1>8
  <2>2. r.e = [f \in DOMAIN e |-> r.e[f]]
    BY <1>4
  <2> QED
    BY <2>1, <2>2
<1>10. ASSUME NEW i \in 1..m, fields[i] \in DOMAIN e
      PROVE  r.e[fields[i]] = Stored(a[i], fields[i])
  <2> DEFINE f == fields[i]
  <2>1. IsRead(f) /\ place(f) = i /\ t[i] = a[i] /\ f \in DOMAIN e
    BY <1>5, <1>7, <1>10
  <2> HIDE DEF f
  <2>2. r.e[f] = Stored(t[place(f)], f)
    BY <1>4, <2>1
  <2> QED
    BY <2>1, <2>2 DEF f
<1>11. r.text = b /\ r.good = TRUE
  BY <1>5, <1>4, <1>6
<1> QED
  BY <1>9, <1>10, <1>11 DEF Full, m

\* An element is read as it was written, whatever the place held before.
ElementRead(r, x, b) == r.text = b /\ r.good = TRUE /\ r.e = x

LEMMA ElementIsRead ==
  ASSUME good = TRUE, NEW s \in Sections, NEW x, IsWritten(x, s), NEW e \in Elements(s),
         NEW b \in Seq(Token), NEW r, r = Extracted(Line(s, x) \o b, FieldsOf[s], e)
  PROVE  ElementRead(r, x, b)
<1> DEFINE fields == FieldsOf[s]
           a == Line(s, x)
<1>1. /\ Len(fields) \in Nat /\ DOMAIN fields = 1..Len(fields)
      /\ \A i, j \in DOMAIN fields : fields[i] = fields[j] => i = j
  BY FieldsAreDistinct
<1>2. a \in Seq(Token) /\ Len(a) = Len(fields) /\ \A i \in 1..Len(fields) : a[i] = TokenOf(x, fields[i])
  BY LineIsTyped
<1>3. DOMAIN e = ToSet(fields)
  BY DEF Elements
<1>4. /\ \A f \in ToSet(fields) :
           IF f \in Texts THEN x[f] \in Words ELSE x[f] \in Int /\ Least(f) <= x[f] /\ x[f] <= Most(f)
      /\ x = [f \in ToSet(fields) |-> x[f]]
  BY DEF IsWritten
<1>5. r = Extracted(a \o b, fields, e)
  OBVIOUS
<1> HIDE DEF fields, a
<1>6. ASSUME NEW i \in 1..Len(fields)
      PROVE  /\ fields[i] \in ToSet(fields)
             /\ Suits(a[i], fields[i])
             /\ Stored(a[i], fields[i]) = x[fields[i]]
  <2> DEFINE f == fields[i]
  <2>1. f \in ToSet(fields)
    BY <1>1 DEF ToSet
  <2>2. a[i] = TokenOf(x, f)
    BY <1>2
  <2>3. IF f \in Texts THEN x[f] \in Words ELSE x[f] \in Int /\ Least(f) <= x[f] /\ x[f] <= Most(f)
    BY <1>4, <2>1
  <2>4. f # "count" /\ a[i] \in Token
    <3>1. "count" \notin ToSet(fields)
      BY FieldsAreDistinct DEF fields
    <3> QED
      BY <1>1, <1>2, <2>1, <3>1, ElementOfSeq
  <2> HIDE DEF f
  <2>5. CASE f \in Texts
    <3>1. a[i].kind = "word" /\ a[i].word = x[f]
      BY <2>2, <2>3, <2>5, WordsAndNumbers DEF TokenOf
    <3>2. Stored(a[i], f) = x[f] /\ Suits(a[i], f)
      BY <2>5, <3>1 DEF Stored, Suits
    <3> QED
      BY <2>1, <3>2 DEF f
  <2>6. CASE f \notin Texts
    <3>1. a[i].kind = "number" /\ a[i].number = x[f]
      BY <2>2, <2>3, <2>6, WordsAndNumbers DEF TokenOf
    <3>2. Suits(a[i], f)
      BY <2>3, <2>6, <3>1 DEF Suits
    <3>3. Stored(a[i], f) = x[f]
      BY <2>4, <2>6, <3>1, <3>2, StoredProperties
    <3> QED
      BY <2>1, <3>2, <3>3 DEF f
  <2> QED
    BY <2>5, <2>6
<1>7. /\ r.text = b /\ r.good = TRUE
      /\ r.e = [f \in DOMAIN e |-> IF f \in ToSet(fields) THEN r.e[f] ELSE e[f]]
      /\ \A i \in 1..Len(fields) : fields[i] \in DOMAIN e => r.e[fields[i]] = Stored(a[i], fields[i])
  <2>1. CanBeRead(a, fields)
    BY <1>1, <1>2, <1>6 DEF CanBeRead
  <2>2. Full(r, a, b, fields, e)
    BY <1>5, <2>1, AllIsRead
  <2> QED
    BY <2>2 DEF Full
<1>8. \A f \in ToSet(fields) : r.e[f] = x[f]
  <2>1. ASSUME NEW f \in ToSet(fields)
        PROVE  r.e[f] = x[f]
    <3>1. PICK i \in 1..Len(fields) : fields[i] = f
      BY <1>1 DEF ToSet
    <3> QED
      BY <1>3, <1>6, <1>7, <3>1
  <2> QED
    BY <2>1
<1>9. r.e = [f \in ToSet(fields) |-> r.e[f]]
  BY <1>3, <1>7
<1>10. r.e = x
  BY <1>4, <1>8, <1>9
<1> QED
  BY <1>7, <1>10 DEF ElementRead

\* And so is a number.
NumberRead(r, n, b, name, e) ==
  /\ r.text = b /\ r.good = TRUE /\ r.e[name] = n
  /\ r.e = [f \in DOMAIN e |-> IF f = name THEN n ELSE e[f]]

LEMMA NumberIsRead ==
  ASSUME good = TRUE, NEW name, name \notin Texts, NEW e, name \in DOMAIN e,
         NEW n \in Int, Least(name) <= n, n <= Most(name), name = "count" => n >= 0,
         NEW b \in Seq(Token), NEW r, r = Extracted(<<Number(n)>> \o b, <<name>>, e)
  PROVE  NumberRead(r, n, b, name, e)
<1> DEFINE fields == <<name>>
           a == <<Number(n)>>
<1>1. /\ Len(fields) = 1 /\ DOMAIN fields = 1..Len(fields) /\ fields[1] = name /\ ToSet(fields) = {name}
  BY DEF ToSet
<1>2. a \in Seq(Token) /\ Len(a) = 1 /\ a[1] = Number(n)
  BY WordsAndNumbers
<1>3. Suits(a[1], name) /\ Stored(a[1], name) = n
  <2>1. a[1] \in Token /\ a[1].kind = "number" /\ a[1].number = n
    BY <1>2, WordsAndNumbers
  <2>2. Suits(a[1], name)
    BY <2>1 DEF Suits
  <2> QED
    BY <2>1, <2>2, StoredProperties
<1>4. r = Extracted(a \o b, fields, e)
  OBVIOUS
<1> HIDE DEF fields, a
<1>5. /\ r.text = b /\ r.good = TRUE
      /\ r.e = [f \in DOMAIN e |-> IF f \in ToSet(fields) THEN r.e[f] ELSE e[f]]
      /\ \A i \in 1..Len(fields) : fields[i] \in DOMAIN e => r.e[fields[i]] = Stored(a[i], fields[i])
  <2>1. \A i \in 1..Len(fields) : i = 1
    BY <1>1
  <2>2. Len(fields) \in Nat /\ \A i, j \in DOMAIN fields : fields[i] = fields[j] => i = j
    BY <1>1, <2>1
  <2>3. ASSUME NEW i \in 1..Len(fields)
        PROVE  Suits(a[i], fields[i])
    BY <1>1, <1>3, <2>1
  <2>4. CanBeRead(a, fields)
    BY <1>1, <1>2, <2>2, <2>3 DEF CanBeRead
  <2>5. Full(r, a, b, fields, e)
    BY <1>4, <2>4, AllIsRead
  <2> QED
    BY <2>5 DEF Full
<1>6. r.e[name] = n
  BY <1>1, <1>3, <1>5
<1>7. r.e = [f \in DOMAIN e |-> IF f = name THEN n ELSE e[f]]
  <2>1. \A f \in DOMAIN e : (IF f \in ToSet(fields) THEN r.e[f] ELSE e[f]) = IF f = name THEN n ELSE e[f]
    BY <1>1, <1>6
  <2> QED
    BY <1>5, <2>1
<1> QED
  BY <1>5, <1>6, <1>7 DEF NumberRead

-----------------------------------------------------------------------------

\* Nothing has been read at the start.
LEMMA InitIsInv == Init => IInv
<1> SUFFICES ASSUME Init PROVE IInv
  OBVIOUS
<1>1. NothingRead
  BY DEF Init
<1>2. text \in Seq(Token) /\ plan \in Plans \cup {NoPlan}
  BY TextsAssumption, EmptySeq DEF Init
<1>3. ASSUME NEW s \in Sections PROVE Part(s) = <<>>
  BY <1>1 DEF NothingRead, Part, PartOf, Sections, FieldsOf
<1>4. Typed
  BY <1>1, <1>2, <1>3, EmptySeq DEF Typed, NothingRead
<1> QED
  BY <1>1, <1>3, <1>4 DEF IInv, NothingRead, FirstReading, Untouched, GuessesAreRefused, Verdict

\* A step that reads no section and only moves the reader on.
LEMMA MovingPreservesInv ==
  ASSUME IInv, UNCHANGED <<plan, good, section, element, mesh, begun, guessed>>, text' \in Seq(Token),
         at' = "element" => at = "element",
         at = "element" /\ at' # "element" => ~Unread,
         outcome' = "mesh" => at' = "end" /\ IsValidMesh(mesh)
  PROVE  IInv'
<1>1. Typed'
  BY DEF IInv, Typed, Part
<1>2. FirstReading'
  BY DEF IInv, FirstReading, Part, Begun
<1>3. Untouched'
  BY DEF IInv, Untouched, Part, Repeated
<1>4. GuessesAreRefused'
  <2>1. (RefusedIn("CELLS") => RefusedIn("CELLS")') /\ (RefusedIn("FACES") => RefusedIn("FACES")')
    BY DEF RefusedIn, Part
  <2>2. ASSUME Saturated PROVE Saturated'
    <3> DEFINE v == Part(section)
    <3>1. TooLarge' /\ element \in DOMAIN v /\ section \in Sections
      BY <2>2 DEF Saturated, TooLarge, Part, SizeOf, Sections, FieldsOf
    <3>2. DOMAIN v = 1..Len(v) /\ Len(v) \in Nat
      BY <3>1, LenProperties DEF IInv, Typed
    <3>3. at = "element" /\ at' # "element" => element = Len(v)
      BY <3>1, <3>2 DEF Unread, Part
    <3> QED
      BY <2>2, <3>1, <3>3 DEF Saturated, Part
  <2> QED
    BY <2>1, <2>2 DEF IInv, GuessesAreRefused, Repeated
<1>5. Verdict'
  BY DEF Verdict
<1> QED
  BY <1>1, <1>2, <1>3, <1>4, <1>5 DEF IInv

\* The dimension is no section, and is read only while nothing has failed.
LEMMA DimensionPreservesInv ==
  ASSUME IInv, ReadDimension
  PROVE  IInv'
<1> DEFINE r == Extracted(Tail(text), <<"dimension">>, mesh)
<1>1. /\ Typed /\ at = "section" /\ good /\ text # <<>>
      /\ UNCHANGED <<plan, at, section, element, begun, guessed, outcome>>
  BY DEF IInv, ReadDimension, AtSection, AtToken, history
<1>2. text' = r.text /\ good' = r.good /\ mesh' = r.e
  BY DEF ReadDimension
<1>3. Tail(text) \in Seq(Token) /\ good \in BOOLEAN /\ "dimension" \notin Texts
  BY <1>1 DEF Typed, Texts
<1> HIDE DEF r
<1>4. /\ r.text \in Seq(Token) /\ r.good \in BOOLEAN
      /\ DOMAIN r.e = DOMAIN mesh
      /\ \A f \in DOMAIN mesh \ {"dimension"} : r.e[f] = mesh[f]
  <2> DEFINE rest == Tail(text)
  <2>1. rest \in Seq(Token) /\ r = Extracted(rest, <<"dimension">>, mesh)
    BY <1>3 DEF r
  <2> HIDE DEF rest
  <2> QED
    BY <1>3, <2>1, NumberExtraction
<1>5. ASSUME NEW s \in Sections PROVE Part(s)' = Part(s)
  BY <1>1, <1>2, <1>4 DEF Part, PartOf, Sections, FieldsOf, Typed
<1>6. Typed'
  BY <1>1, <1>2, <1>4, <1>5 DEF Typed
<1>7. FirstReading' /\ Untouched'
  BY <1>1, <1>5 DEF IInv, FirstReading, Untouched, Begun
<1>8. GuessesAreRefused' /\ Verdict'
  BY <1>1 DEF IInv, GuessesAreRefused, Verdict
<1> QED
  BY <1>6, <1>7, <1>8 DEF IInv

\* The vector of a section that begins for the first time was empty, so all of its
\* elements are as the vector makes them.
LEMMA BeginningPreservesInv ==
  ASSUME IInv, NEW s \in Sections, BeginSection(s)
  PROVE  IInv'
<1> DEFINE r == Extracted(Tail(text), <<"count">>, [count |-> 0])
           n == r.e.count
<1>1. /\ Typed /\ at = "section" /\ good /\ text # <<>>
      /\ UNCHANGED <<plan, guessed>>
      /\ section' = s /\ element' = 0 /\ begun' = Append(begun, s)
  BY DEF IInv, BeginSection, AtSection, AtToken
<1>2. /\ text' = r.text /\ good' = r.good
      /\ \/ at' = "end" /\ outcome' # "mesh" /\ UNCHANGED mesh
         \/ /\ ~(n > Memory) /\ at' = "element" /\ UNCHANGED outcome
            /\ mesh' = [mesh EXCEPT ![PartOf[s]] = Resized(@, n, s)]
  BY DEF BeginSection, GoTo, Throw
<1>3. Tail(text) \in Seq(Token) /\ good \in BOOLEAN /\ "count" \notin Texts
  BY <1>1 DEF Typed, Texts
<1> HIDE DEF r
<1>4. r.text \in Seq(Token) /\ r.good \in BOOLEAN /\ n \in Nat
  <2> DEFINE c == [count |-> 0]
             rest == Tail(text)
  <2>1. "count" \in DOMAIN c /\ c["count"] \in Nat
    OBVIOUS
  <2>2. rest \in Seq(Token) /\ r = Extracted(rest, <<"count">>, c)
    BY <1>3 DEF r
  <2> HIDE DEF c, rest
  <2>3. /\ r.text \in Seq(Token) /\ r.good \in BOOLEAN
        /\ r.e["count"] = c["count"] \/ r.e["count"] \in Nat
    BY <1>3, <2>1, <2>2, NumberExtraction
  <2> QED
    BY <2>1, <2>3
<1> HIDE DEF n
<1>5. Part(s) \in Seq(Elements(s)) /\ guessed = {} /\ outcome # "mesh"
  BY <1>1 DEF IInv, Typed, GuessesAreRefused, Verdict
<1>6. /\ Len(begun) \in Nat /\ DOMAIN begun = 1..Len(begun)
      /\ begun' \in Seq(Sections) /\ DOMAIN begun' = 1..(Len(begun) + 1)
      /\ begun'[Len(begun) + 1] = s /\ \A i \in DOMAIN begun : begun'[i] = begun[i]
  BY <1>1, LenProperties, AppendProperties DEF Typed
<1>7. Begun(s)' /\ \A p \in Sections : Begun(p) => Begun(p)'
  BY <1>6 DEF Begun
<1>8. ~Repeated' => ~Begun(s)
  BY <1>6 DEF Repeated, Begun
<1>9. ASSUME NEW p \in Sections, p # s
      PROVE  Part(p)' = Part(p)
  BY <1>1, <1>2, <1>9 DEF Part, PartOf, Sections, FieldsOf, Typed
<1>10. DOMAIN mesh' = DOMAIN mesh
  BY <1>2
<1>11. CASE UNCHANGED mesh /\ at' = "end" /\ outcome' # "mesh"
  <2>1. Typed'
    BY <1>1, <1>2, <1>4, <1>6, <1>11 DEF Typed, Part
  <2>2. FirstReading' /\ Untouched'
    BY <1>7, <1>11 DEF IInv, FirstReading, Untouched, Part
  <2> QED
    BY <1>1, <1>5, <1>11, <2>1, <2>2 DEF IInv, GuessesAreRefused, Verdict
<1>12. CASE /\ ~(n > Memory) /\ at' = "element" /\ UNCHANGED outcome
            /\ mesh' = [mesh EXCEPT ![PartOf[s]] = Resized(@, n, s)]
  <2>1. Part(s)' = Resized(Part(s), n, s)
    BY <1>1, <1>12 DEF Part, PartOf, Sections, FieldsOf, Typed
  <2>2. n \in Nat
    BY <1>4
  <2>3. /\ Part(s)' \in Seq(Elements(s))
        /\ Part(s) = <<>> => \A i \in DOMAIN Part(s)' : Part(s)'[i] = Fresh(s)
    BY <1>5, <2>1, <2>2, ResizedProperties
  <2>4. ASSUME NEW p \in Sections
        PROVE  Part(p)' \in Seq(Elements(p))
    BY <1>1, <1>9, <2>3 DEF Typed
  <2>5. Typed'
    BY <1>1, <1>2, <1>4, <1>6, <1>10, <2>4 DEF Typed
  <2>6. FirstReading'
    BY <1>1, <1>7, <1>9 DEF IInv, FirstReading
  <2>7. Untouched'
    BY <1>1, <1>8, <2>3 DEF IInv, FirstReading, Untouched
  <2> QED
    BY <1>1, <1>5, <1>12, <2>5, <2>6, <2>7 DEF IInv, GuessesAreRefused, Verdict
<1> QED
  BY <1>2, <1>11, <1>12

\* An element that was not read up to the field examined last keeps its zero there;
\* once an extraction has failed, no element changes in that field.
LEMMA ElementPreservesInv ==
  ASSUME IInv, ReadElement
  PROVE  IInv'
<1> DEFINE s == section
           k == element + 1
           e == WithLocals(Part(s)[k], s)
           r == Extracted(text, FieldsOf[s], e)
<1>1. /\ Typed /\ s \in Sections /\ Begun(s) /\ Unread /\ at = "element"
      /\ UNCHANGED <<plan, at, section, begun, outcome>>
  BY DEF IInv, ReadElement, FirstReading
<1>2. /\ element' = k /\ text' = r.text /\ good' = r.good
      /\ mesh' = [mesh EXCEPT ![PartOf[s]][k] = r.e]
      /\ guessed' = IF r.read < Examined[s] THEN guessed \cup {<<s, k>>} ELSE guessed
  BY DEF ReadElement, Part
<1>3. k \in 1..Len(Part(s)) /\ k \in Nat /\ k > element
  BY <1>1, LenProperties DEF Typed, Unread, Part
<1>4. Part(s)[k] \in Elements(s)
  BY <1>1, <1>3, ElementOfSeq DEF Typed
<1>5. e \in Elements(s)
  BY <1>1, <1>4, WithLocalsIsElement
<1>6. /\ r.read \in Nat /\ r.text \in Seq(Token) /\ r.good \in BOOLEAN
      /\ r.e \in Elements(s)
      /\ ~good => r.e = e /\ r.read = 0
      /\ r.good => good /\ r.read >= Examined[s]
      /\ r.read < Examined[s] /\ e[SizeOf[s]] = 0 =>
           r.e[SizeOf[s]] \in {0, -MaxReal} \/ (good /\ r.e[SizeOf[s]] = MaxReal)
  BY <1>1, <1>5, ElementExtraction DEF Typed
<1> HIDE DEF r, e
<1>7. Part(s)' = [Part(s) EXCEPT ![k] = r.e]
  BY <1>1, <1>2 DEF Part, PartOf, Sections, FieldsOf, Typed
<1>8. ASSUME NEW p \in Sections, p # s
      PROVE  Part(p)' = Part(p)
  BY <1>1, <1>2, <1>8 DEF Part, PartOf, Sections, FieldsOf, Typed
<1>9. /\ Part(s)' \in Seq(Elements(s)) /\ DOMAIN Part(s)' = DOMAIN Part(s)
      /\ Part(s)'[k] = r.e /\ \A i \in DOMAIN Part(s) \ {k} : Part(s)'[i] = Part(s)[i]
      /\ k \in DOMAIN Part(s)
  BY <1>1, <1>3, <1>6, <1>7, ExceptSeq, LenProperties DEF Typed
<1>10. Typed'
  <2>1. \A p \in Sections : Part(p)' \in Seq(Elements(p))
    BY <1>1, <1>8, <1>9 DEF Typed
  <2>2. DOMAIN mesh' = DOMAIN mesh
    BY <1>2
  <2> QED
    BY <1>1, <1>2, <1>3, <1>6, <2>1, <2>2 DEF Typed
<1>11. FirstReading'
  BY <1>1, <1>8 DEF IInv, FirstReading, Begun
<1>12. Untouched'
  <2>1. ASSUME ~Repeated, NEW i \in DOMAIN Part(s)', i > k
        PROVE  Part(s)'[i] = Fresh(s)
    <3>1. i \in DOMAIN Part(s) /\ i \in Nat
      BY <1>1, <1>9, LenProperties DEF Typed
    <3>2. i # k /\ i > element
      BY <1>1, <1>3, <2>1, <3>1 DEF Typed
    <3> QED
      BY <1>1, <1>9, <2>1, <3>1, <3>2 DEF IInv, Untouched
  <2> QED
    BY <1>1, <1>2, <2>1 DEF Untouched, Repeated
<1>13. ASSUME s \in DOMAIN SizeOf, ~Repeated
       PROVE  e[SizeOf[s]] = 0
  <2>1. s \in {"CELLS", "FACES"} /\ Examined[s] > 0
    BY <1>13 DEF SizeOf, Examined
  <2>2. Fresh(s)[SizeOf[s]] = 0
    BY <1>1, <2>1, SizeProperties
  <2>3. Part(s)[k] = Fresh(s)
    BY <1>1, <1>3, <1>9, <1>13 DEF IInv, Untouched
  <2> QED
    BY <1>4, <2>1, <2>2, <2>3, WithLocalsKeepsLast DEF e
<1>14. GuessesAreRefused'
  <2>1. CASE guessed # {}
    <3>1. ~good /\ r.e = e /\ ~r.good
      BY <1>6, <2>1 DEF IInv, GuessesAreRefused
    <3>2. ASSUME NEW p \in {"CELLS", "FACES"}, RefusedIn(p)
          PROVE  RefusedIn(p)'
      <4>1. PICK i \in DOMAIN Part(p) : Part(p)[i][SizeOf[p]] \in {0, -MaxReal}
        BY <3>2 DEF RefusedIn
      <4>2. CASE p = s /\ i = k
        <5>1. e[SizeOf[s]] \in {0, -MaxReal}
          BY <1>4, <4>1, <4>2, WithLocalsKeepsLast DEF e
        <5>2. k \in DOMAIN Part(s)' /\ Part(s)'[k][SizeOf[s]] \in {0, -MaxReal}
          BY <1>9, <3>1, <5>1
        <5>3. k \in DOMAIN Part(p)' /\ Part(p)'[k][SizeOf[p]] \in {0, -MaxReal}
          BY <1>1, <4>2, <5>2 DEF Part
        <5> QED
          BY <5>3 DEF RefusedIn
      <4>3. CASE ~(p = s /\ i = k)
        BY <1>1, <1>8, <1>9, <4>1, <4>3 DEF RefusedIn, Sections, FieldsOf
      <4> QED
        BY <4>2, <4>3
    <3>3. ASSUME Saturated, ~Repeated
          PROVE  RefusedIn("CELLS")' \/ RefusedIn("FACES")'
      <4>1. s \in DOMAIN SizeOf /\ s \in {"CELLS", "FACES"}
        BY <3>3 DEF Saturated, TooLarge, SizeOf
      <4>2. Part(s)'[k][SizeOf[s]] = 0 /\ k \in DOMAIN Part(s)'
        BY <1>9, <1>13, <3>1, <3>3, <4>1
      <4> QED
        BY <1>1, <4>1, <4>2 DEF RefusedIn
    <3> QED
      BY <1>1, <1>2, <2>1, <3>1, <3>2, <3>3 DEF IInv, GuessesAreRefused, Repeated
  <2>2. CASE guessed = {} /\ r.read < Examined[s]
    <3>1. s \in {"CELLS", "FACES"} /\ s \in DOMAIN SizeOf
      BY <1>1, <1>6, <2>2, SizeProperties DEF SizeOf
    <3>2. ~r.good
      BY <1>1, <1>6, <2>2, SizeProperties
    <3>3. ASSUME ~Repeated PROVE RefusedIn(s)' \/ Saturated'
      <4>1. r.e[SizeOf[s]] \in {0, -MaxReal, MaxReal}
        BY <1>6, <1>13, <2>2, <3>1, <3>3
      <4>2. CASE r.e[SizeOf[s]] \in {0, -MaxReal}
        BY <1>1, <1>9, <4>2 DEF RefusedIn
      <4>3. CASE r.e[SizeOf[s]] = MaxReal
        <5>1. guessed' = {<<s, k>>} /\ section' = s /\ element' = k /\ at' = "element"
          BY <1>1, <1>2, <2>2
        <5>2. k \in DOMAIN Part(s)' /\ Part(s)'[k][SizeOf[s]] = MaxReal
          BY <1>9, <4>3
        <5> QED
          BY <3>1, <5>1, <5>2 DEF Saturated, TooLarge, Part
      <4> QED
        BY <4>1, <4>2, <4>3
    <3> QED
      BY <1>1, <1>2, <3>1, <3>2, <3>3 DEF GuessesAreRefused, Repeated
  <2>3. CASE guessed = {} /\ ~(r.read < Examined[s])
    BY <1>2, <2>3 DEF GuessesAreRefused
  <2> QED
    BY <2>1, <2>2, <2>3
<1>15. Verdict'
  BY <1>1 DEF IInv, Verdict
<1> QED
  BY <1>10, <1>11, <1>12, <1>14, <1>15 DEF IInv

\* The other steps move the reader on.
LEMMA StepPreservesInv == IInv /\ [Next]_vars => IInv'
<1> SUFFICES ASSUME IInv, [Next]_vars PROVE IInv'
  OBVIOUS
<1>1. Typed /\ text \in Seq(Token) /\ (at # "end" => outcome # "mesh")
  BY DEF IInv, Typed, Verdict
<1>2. CASE OpenFile
  <2>1. text' \in Seq(Token)
    BY <1>1, <1>2, TokensAreTyped DEF OpenFile, Typed
  <2>2. /\ at = "open" /\ at' \in {"magic", "end"} /\ outcome' # "mesh"
        /\ UNCHANGED <<plan, good, section, element, mesh, begun, guessed>>
    BY <1>1, <1>2 DEF OpenFile, GoTo, Throw, parts, history
  <2> QED
    BY <2>1, <2>2, MovingPreservesInv
<1>3. CASE ExpectToken
  <2>1. text' \in Seq(Token)
    BY <1>1, <1>3 DEF ExpectToken
  <2>2. /\ at = "magic" /\ at' \in {"section", "end"} /\ outcome' # "mesh"
        /\ UNCHANGED <<plan, good, section, element, mesh, begun, guessed>>
    BY <1>1, <1>3 DEF ExpectToken, GoTo, Throw, parts, history
  <2> QED
    BY <2>1, <2>2, MovingPreservesInv
<1>4. CASE ReadDimension
  BY <1>4, DimensionPreservesInv
<1>5. ASSUME NEW s \in Sections, BeginSection(s)
      PROVE  IInv'
  BY <1>5, BeginningPreservesInv
<1>6. CASE ReadElement
  BY <1>6, ElementPreservesInv
<1>7. CASE SectionEnds
  <2>1. /\ at = "element" /\ at' = "section" /\ ~Unread /\ outcome' # "mesh"
        /\ UNCHANGED <<plan, text, good, section, element, mesh, begun, guessed>>
    BY <1>1, <1>7 DEF SectionEnds, GoTo, parts, history
  <2> QED
    BY <1>1, <2>1, MovingPreservesInv
<1>8. CASE UnknownSection
  <2>1. /\ at = "section" /\ at' = "end" /\ outcome' # "mesh"
        /\ UNCHANGED <<plan, text, good, section, element, mesh, begun, guessed>>
    BY <1>8 DEF UnknownSection, AtToken, Throw, parts, history
  <2> QED
    BY <1>1, <2>1, MovingPreservesInv
<1>9. CASE End
  <2>1. /\ at = "section" /\ at' = "validate" /\ outcome' # "mesh"
        /\ UNCHANGED <<plan, text, good, section, element, mesh, begun, guessed>>
    BY <1>1, <1>9 DEF End, GoTo, parts, history
  <2> QED
    BY <1>1, <2>1, MovingPreservesInv
<1>10. CASE Validate
  <2>1. /\ at = "validate" /\ at' = "end" /\ (outcome' = "mesh" => IsValidMesh(mesh))
        /\ UNCHANGED <<plan, text, good, section, element, mesh, begun, guessed>>
    BY <1>10 DEF Validate, Throw, parts, history
  <2> QED
    BY <1>1, <2>1, MovingPreservesInv
<1>11. CASE UNCHANGED vars
  <2>1. UNCHANGED <<plan, text, good, at, section, element, mesh, begun, guessed, outcome>>
    BY <1>11 DEF vars, parts, history
  <2> QED
    BY <1>1, <2>1, MovingPreservesInv DEF IInv, Verdict
<1> QED
  BY <1>2, <1>3, <1>4, <1>5, <1>6, <1>7, <1>8, <1>9, <1>10, <1>11 DEF Next

\* Of an accepted mesh no cell has an area and no face a length of zero or less.
LEMMA InvRefusesGuesses == IInv => NothingIsMadeUp
<1> SUFFICES ASSUME IInv, outcome = "mesh", ~Repeated, guessed # {}
             PROVE  TooLarge /\ element = Len(mesh[PartOf[section]])
  BY DEF NothingIsMadeUp
<1>1. at = "end" /\ IsValidMesh(mesh) /\ (RefusedIn("CELLS") \/ RefusedIn("FACES") \/ Saturated)
  BY DEF IInv, Verdict, GuessesAreRefused
<1>2. /\ Part("CELLS") = mesh.cells /\ SizeOf["CELLS"] = "area"
      /\ Part("FACES") = mesh.faces /\ SizeOf["FACES"] = "length"
  BY DEF Part, PartOf, SizeOf
<1>3. ~(0 > 0) /\ ~(-MaxReal > 0)
  BY LimitsAssumption
<1>4. ASSUME RefusedIn("CELLS") \/ RefusedIn("FACES")
      PROVE  FALSE
  <2>1. \/ \E i \in DOMAIN mesh.cells : mesh.cells[i].area \in {0, -MaxReal}
        \/ \E i \in DOMAIN mesh.faces : mesh.faces[i].length \in {0, -MaxReal}
    BY <1>2, <1>4 DEF RefusedIn
  <2>2. /\ \A i \in DOMAIN mesh.cells : mesh.cells[i].area > 0
        /\ \A i \in DOMAIN mesh.faces : mesh.faces[i].length > 0
    BY <1>1 DEF IsValidMesh
  <2> QED
    BY <1>3, <2>1, <2>2
<1> QED
  BY <1>1, <1>4 DEF Saturated, Part

\* However a text is damaged, a cell without an area and a face without a length are
\* refused, so what was not read up to there is in no accepted mesh, but for a size
\* too large for its type behind which nothing more is read, unless a section was
\* given twice (ReadBootstrapMesh tests no extraction).
THEOREM NothingIsEverMadeUp == Spec => []NothingIsMadeUp
  BY InitIsInv, StepPreservesInv, InvRefusesGuesses, PTL DEF Spec

-----------------------------------------------------------------------------
(* What was read so far *)

Known        == Sections \cup {"DIM"}
Beginning(p, k)  == SubSeq(p, 1, k)

LEMMA BeginningProperties ==
  ASSUME NEW p \in Seq(Section), NEW k \in 0..Len(p)
  PROVE  /\ Beginning(p, k) \in Seq(Section) /\ Len(Beginning(p, k)) = k /\ DOMAIN Beginning(p, k) = 1..k
         /\ \A i \in 1..k : Beginning(p, k)[i] = p[i]
         /\ Beginning(p, 0) = <<>> /\ Beginning(p, Len(p)) = p
<1>1. Len(p) \in Nat /\ DOMAIN p = 1..Len(p) /\ \A i \in 1..Len(p) : p[i] \in Section
  BY LenProperties, ElementOfSeq
<1>2. \A i \in 1..k : p[i] \in Section
  BY <1>1
<1> DEFINE q == Beginning(p, k)
<1>3. q \in Seq(Section) /\ Len(q) = (IF 1 <= k THEN k - 1 + 1 ELSE 0) /\ \A i \in 1..(k - 1 + 1) : q[i] = p[1 + i - 1]
  BY <1>1, <1>2, SubSeqProperties DEF Beginning
<1> HIDE DEF q
<1>4. k - 1 + 1 = k /\ \A i \in 1..k : 1 + i - 1 = i
  BY <1>1
<1>5. Len(q) = k /\ DOMAIN q = 1..k /\ \A i \in 1..k : q[i] = p[i]
  BY <1>1, <1>3, <1>4, LenProperties
<1>6. Beginning(p, Len(p)) = p
  BY SubSeqFull DEF Beginning
<1>7. Beginning(p, 0) = <<>>
  BY SubSeqEmpty DEF Beginning
<1> QED
  BY <1>3, <1>5, <1>6, <1>7 DEF q

\* A section that occurs has a last place.
LEMMA LastOccurrence ==
  ASSUME NEW q \in Seq(Section), NEW s, OccursIn(q, s)
  PROVE  /\ LastOf(q, s) \in 1..Len(q) /\ q[LastOf(q, s)].section = s
         /\ \A j \in 1..Len(q) : q[j].section = s => j <= LastOf(q, s)
<1> DEFINE n == Len(q)
           I == {i \in 1..n : q[i].section = s}
           behind == {d \in Nat : n - d \in I}
<1>1. n \in Nat /\ DOMAIN q = 1..n
  BY LenProperties
<1>2. I # {}
  BY <1>1 DEF OccursIn
<1>3. behind # {}
  <2>1. PICK i \in I : TRUE
    BY <1>2
  <2>2. n - i \in Nat /\ n - (n - i) = i
    BY <1>1, <2>1
  <2> QED
    BY <2>1, <2>2
<1>4. PICK d \in behind : \A e \in behind : <<e, d>> \notin OpToRel(<, Nat)
  BY <1>3, WFMin, NatLessThanWellFounded, Zenon
<1> DEFINE last == n - d
<1>5. last \in I /\ \A j \in I : j <= last
  <2>1. last \in I /\ last \in 1..n /\ d \in Nat
    BY <1>4
  <2>2. ASSUME NEW j \in I, ~(j <= last)
        PROVE  FALSE
    <3>1. n - j \in Nat /\ n - (n - j) = j /\ n - j < d
      BY <1>1, <2>1, <2>2
    <3>2. n - j \in behind
      BY <3>1
    <3> QED
      BY <1>4, <2>1, <3>1, <3>2 DEF OpToRel
  <2> QED
    BY <2>1, <2>2
<1>6. LastOf(q, s) = CHOOSE x \in I : \A y \in I : x >= y
  BY <1>2 DEF LastOf, SelectLastInSeq, Max
<1> HIDE DEF last
<1>7. I \subseteq Int
  BY <1>1
<1>8. LastOf(q, s) \in I /\ \A j \in I : LastOf(q, s) >= j
  <2>1. \E x \in I : \A y \in I : x >= y
    BY <1>5, <1>7
  <2> QED
    BY <1>6, <2>1
<1>9. \A j \in I : j <= LastOf(q, s)
  BY <1>7, <1>8
<1> HIDE DEF n
<1> QED
  BY <1>8, <1>9 DEF n

\* One more section: it is the last of its name, the others have kept theirs.
LEMMA LastOfBeginning ==
  ASSUME NEW p \in Seq(Section), NEW k \in 0..(Len(p) - 1), NEW s
  PROVE  /\ p[k + 1].section = s => OccursIn(Beginning(p, k + 1), s) /\ Beginning(p, k + 1)[LastOf(Beginning(p, k + 1), s)] = p[k + 1]
         /\ p[k + 1].section # s =>
              /\ OccursIn(Beginning(p, k + 1), s) <=> OccursIn(Beginning(p, k), s)
              /\ OccursIn(Beginning(p, k), s) =>
                   Beginning(p, k + 1)[LastOf(Beginning(p, k + 1), s)] = Beginning(p, k)[LastOf(Beginning(p, k), s)]
<1> DEFINE q == Beginning(p, k)
           r == Beginning(p, k + 1)
           c == p[k + 1]
<1>1. Len(p) \in Nat /\ k \in Nat /\ k \in 0..Len(p) /\ k + 1 \in 0..Len(p)
  BY LenProperties
<1>2. q \in Seq(Section) /\ Len(q) = k /\ DOMAIN q = 1..k /\ \A i \in 1..k : q[i] = p[i]
  BY <1>1, BeginningProperties
<1>3. r \in Seq(Section) /\ Len(r) = k + 1 /\ DOMAIN r = 1..(k + 1) /\ \A i \in 1..(k + 1) : r[i] = p[i]
  BY <1>1, BeginningProperties
<1> HIDE DEF q, r
<1>4. r[k + 1] = c /\ k + 1 \in 1..(k + 1) /\ \A i \in 1..k : r[i] = q[i] /\ i \in 1..(k + 1)
  BY <1>1, <1>2, <1>3
<1> HIDE DEF c
<1>5. ASSUME c.section = s
      PROVE  OccursIn(r, s) /\ r[LastOf(r, s)] = c
  <2>1. OccursIn(r, s)
    BY <1>3, <1>4, <1>5 DEF OccursIn
  <2>2. LastOf(r, s) \in 1..(k + 1) /\ \A j \in 1..(k + 1) : r[j].section = s => j <= LastOf(r, s)
    BY <1>3, <2>1, LastOccurrence
  <2>3. LastOf(r, s) = k + 1
    BY <1>1, <1>4, <1>5, <2>2
  <2> QED
    BY <1>4, <2>1, <2>3
<1>6. ASSUME c.section # s
      PROVE  OccursIn(r, s) <=> OccursIn(q, s)
  <2>1. ASSUME NEW i \in 1..(k + 1), i # k + 1
        PROVE  i \in 1..k
    BY <1>1, <2>1
  <2> QED
    BY <1>2, <1>3, <1>4, <1>6, <2>1 DEF OccursIn
<1>7. ASSUME c.section # s, OccursIn(q, s)
      PROVE  r[LastOf(r, s)] = q[LastOf(q, s)]
  <2> DEFINE i == LastOf(q, s)
             j == LastOf(r, s)
  <2>1. i \in 1..k /\ q[i].section = s /\ \A x \in 1..k : q[x].section = s => x <= i
    BY <1>2, <1>7, LastOccurrence
  <2>2. j \in 1..(k + 1) /\ r[j].section = s /\ \A x \in 1..(k + 1) : r[x].section = s => x <= j
    BY <1>3, <1>6, <1>7, LastOccurrence
  <2> HIDE DEF i, j
  <2>3. j \in 1..k
    BY <1>1, <1>4, <1>7, <2>2
  <2>4. i <= j /\ j <= i
    BY <1>4, <2>1, <2>2, <2>3
  <2>5. i = j
    BY <1>1, <2>1, <2>3, <2>4
  <2> QED
    BY <1>4, <2>1, <2>5 DEF i, j
<1> QED
  BY <1>5, <1>6, <1>7 DEF q, r, c

\* What the next section adds to the meaning of those before it.
LEMMA MeaningGrows ==
  ASSUME NEW p \in Seq(Section), NEW k \in 0..(Len(p) - 1)
  PROVE  /\ p[k + 1].section = "DIM" =>
              MeaningOf(Beginning(p, k + 1)) = [MeaningOf(Beginning(p, k)) EXCEPT !["dimension"] = p[k + 1].value]
         /\ p[k + 1].section \in Sections =>
              MeaningOf(Beginning(p, k + 1)) = [MeaningOf(Beginning(p, k)) EXCEPT ![PartOf[p[k + 1].section]] = p[k + 1].elements]
<1> DEFINE q == Beginning(p, k)
           r == Beginning(p, k + 1)
           c == p[k + 1]
<1>1. \A s : /\ c.section = s => OccursIn(r, s) /\ r[LastOf(r, s)] = c
             /\ c.section # s => /\ OccursIn(r, s) <=> OccursIn(q, s)
                                 /\ OccursIn(q, s) => r[LastOf(r, s)] = q[LastOf(q, s)]
  BY LastOfBeginning
<1> HIDE DEF q, r, c
<1>2. \A s : /\ c.section = s => ElementsOf(r, s) = c.elements
             /\ c.section # s => ElementsOf(r, s) = ElementsOf(q, s)
  BY <1>1 DEF ElementsOf
<1> DEFINE Dim(x) == IF OccursIn(x, "DIM") THEN x[LastOf(x, "DIM")].value ELSE 2
<1>3. /\ c.section = "DIM" => Dim(r) = c.value
      /\ c.section # "DIM" => Dim(r) = Dim(q)
  BY <1>1
<1>4. \A x : MeaningOf(x) =
        [dimension |-> Dim(x), nodes |-> ElementsOf(x, "NODES"), cells |-> ElementsOf(x, "CELLS"),
         faces |-> ElementsOf(x, "FACES"), patches |-> ElementsOf(x, "PATCHES")]
  BY DEF MeaningOf
<1> HIDE DEF Dim
<1>5. c.section = "DIM" => MeaningOf(r) = [MeaningOf(q) EXCEPT !["dimension"] = c.value]
  BY <1>2, <1>3, <1>4
<1>6. ASSUME c.section \in Sections
      PROVE  MeaningOf(r) = [MeaningOf(q) EXCEPT ![PartOf[c.section]] = c.elements]
  <2>1. c.section \in {"NODES", "CELLS", "FACES", "PATCHES"}
    BY <1>6 DEF Sections, FieldsOf
  <2>2. CASE c.section = "NODES"
    BY <1>2, <1>3, <1>4, <2>2 DEF PartOf
  <2>3. CASE c.section = "CELLS"
    BY <1>2, <1>3, <1>4, <2>3 DEF PartOf
  <2>4. CASE c.section = "FACES"
    BY <1>2, <1>3, <1>4, <2>4 DEF PartOf
  <2>5. CASE c.section = "PATCHES"
    BY <1>2, <1>3, <1>4, <2>5 DEF PartOf
  <2> QED
    BY <2>1, <2>2, <2>3, <2>4, <2>5
<1> QED
  BY <1>5, <1>6 DEF q, r, c

\* The sections before the first END, when all of the first k are known.
LEMMA EffectiveProperties ==
  ASSUME NEW p \in Seq(Section), NEW k \in 0..Len(p), \A i \in 1..k : p[i].section \in Known
  PROVE  /\ k = Len(p) => Effective(p) = Beginning(p, k)
         /\ k < Len(p) /\ p[k + 1].section = "END" => Effective(p) = Beginning(p, k)
         /\ k < Len(p) /\ p[k + 1].section \notin Known \cup {"END"} =>
              k + 1 \in DOMAIN Effective(p) /\ Effective(p)[k + 1] = p[k + 1]
<1> DEFINE ends == {i \in DOMAIN p : p[i].section = "END"}
           n == Len(p)
<1>1. n \in Nat /\ DOMAIN p = 1..n /\ "END" \notin Known
  BY LenProperties DEF Known, Sections, FieldsOf
<1>2. \A i \in ends : i \in Nat /\ i > k
  BY <1>1
<1>3. ends = {} => Effective(p) = p
  BY DEF Effective
<1>4. ASSUME NEW e \in ends, \A j \in ends : e <= j
      PROVE  Effective(p) = Beginning(p, e - 1)
  <2>1. (CHOOSE i \in ends : \A j \in ends : i <= j) = e
    <3> DEFINE least == CHOOSE i \in ends : \A j \in ends : i <= j
    <3>1. least \in ends /\ \A j \in ends : least <= j
      BY <1>4
    <3> HIDE DEF least
    <3>2. least <= e /\ e <= least /\ least \in Nat /\ e \in Nat
      BY <1>2, <1>4, <3>1
    <3>3. least = e
      BY <3>2
    <3> QED
      BY <3>3 DEF least
  <2> QED
    BY <1>4, <2>1 DEF Effective, Beginning
<1>5. ASSUME k = n
      PROVE  Effective(p) = Beginning(p, k)
  <2>1. ends = {}
    BY <1>1, <1>2, <1>5
  <2> QED
    BY <1>3, <1>5, <2>1, BeginningProperties
<1>6. ASSUME k < n, p[k + 1].section = "END"
      PROVE  Effective(p) = Beginning(p, k)
  <2>1. k + 1 \in ends /\ (k + 1) - 1 = k
    BY <1>1, <1>6
  <2>2. \A j \in ends : k + 1 <= j
    BY <1>1, <1>2
  <2>3. PICK e \in ends : e = k + 1
    BY <2>1
  <2>4. Effective(p) = Beginning(p, e - 1)
    BY <1>4, <2>2, <2>3
  <2> QED
    BY <2>1, <2>3, <2>4
<1>7. ASSUME k < n, p[k + 1].section \notin Known \cup {"END"}
      PROVE  k + 1 \in DOMAIN Effective(p) /\ Effective(p)[k + 1] = p[k + 1]
  <2>1. k + 1 \in 1..n /\ k + 1 \notin ends
    BY <1>1, <1>7
  <2>2. CASE ends = {}
    BY <1>1, <1>3, <2>1, <2>2
  <2>3. CASE ends # {}
    <3>1. ends \subseteq Nat
      BY <1>2
    <3>2. PICK e \in ends : \A j \in ends : <<j, e>> \notin OpToRel(<, Nat)
      BY <2>3, <3>1, WFMin, NatLessThanWellFounded, Zenon
    <3>3. ASSUME NEW j \in ends PROVE e <= j
      <4>1. j \in Nat /\ e \in Nat /\ <<j, e>> \notin OpToRel(<, Nat)
        BY <3>1, <3>2
      <4>2. ~(j < e)
        BY <4>1 DEF OpToRel
      <4>3. \A x, y \in Nat : ~(x < y) => y <= x
        OBVIOUS
      <4> QED
        BY <4>1, <4>2, <4>3, Zenon
    <3>4. e - 1 \in 0..n /\ k + 1 \in 1..(e - 1)
      BY <1>1, <1>2, <2>1
    <3>5. Effective(p) = Beginning(p, e - 1)
      BY <1>4, <3>3
    <3> DEFINE m == e - 1
               x == k + 1
    <3>6. m \in 0..n /\ x \in 1..m /\ Effective(p) = Beginning(p, m)
      BY <3>4, <3>5
    <3> HIDE DEF m, x
    <3>7. x \in DOMAIN Effective(p) /\ Effective(p)[x] = p[x]
      BY <3>6, BeginningProperties
    <3> QED
      BY <3>7 DEF x
  <2> QED
    BY <2>2, <2>3
<1> QED
  BY <1>5, <1>6, <1>7

\* A section ahead is known by its word; behind it come its numbers, then the rest.
Ahead(t, c, rest) ==
  /\ c \in Section /\ rest \in Seq(Token) /\ t # <<>>
  /\ \A s : Is(Head(t), s) <=> s = c.section
  /\ c.section = "DIM" => Tail(t) = <<Number(c.value)>> \o rest
  /\ c.section \in Sections =>
       /\ Rest(Lines(c), 0) \o rest \in Seq(Token)
       /\ Tail(t) = <<Number(Len(c.elements))>> \o (Rest(Lines(c), 0) \o rest)

LEMMA SectionAhead ==
  ASSUME NEW c \in Section, NEW rest \in Seq(Token)
  PROVE  Ahead(TokensOf(c) \o rest, c, rest)
<1> DEFINE w == Word(c.section)
           t == TokensOf(c) \o rest
<1>1. /\ c.section \in Words /\ "DIM" \notin Sections
      /\ c.section = "DIM" => c.value \in Int
  BY KindsOfSection, LimitsAssumption DEF Whole
<1>2. w \in Token /\ \A s : Is(w, s) <=> s = c.section
  BY <1>1, WordsAndNumbers DEF Is
<1>3. \A x, y, z \in Seq(Token) : (x \o y) \o z = x \o (y \o z)
  BY Joining
<1>4. \A x, y \in Seq(Token) : x \o y \in Seq(Token)
  BY Joining, Zenon
<1>5. CASE c.section = "DIM"
  <2> DEFINE v == Number(c.value)
  <2>1. TokensOf(c) = <<w, v>> /\ v \in Token
    BY <1>1, <1>5, TokensOfSection, WordsAndNumbers
  <2> HIDE DEF w, v
  <2>2. <<w>> \in Seq(Token) /\ <<v>> \in Seq(Token) /\ <<w, v>> = <<w>> \o <<v>>
    BY <1>2, <2>1
  <2>3. t = <<w>> \o (<<v>> \o rest) /\ <<v>> \o rest \in Seq(Token)
    BY <1>3, <1>4, <2>1, <2>2
  <2>4. t # <<>> /\ Head(t) = w /\ Tail(t) = <<v>> \o rest
    BY <1>2, <2>3, HeadOfText
  <2> QED
    BY <1>1, <1>2, <1>5, <2>4 DEF Ahead, v
<1>6. CASE c.section \in Sections
  <2> DEFINE v == Number(Len(c.elements))
             l == Rest(Lines(c), 0)
  <2>1. TokensOf(c) = <<w, v>> \o l
    BY <1>1, <1>6, TokensOfSection
  <2>2. Lines(c) \in Seq(Seq(Token)) /\ Len(c.elements) \in Nat
    BY <1>6, LinesAreTyped
  <2>3. v \in Token
    BY <2>2, WordsAndNumbers
  <2>4. l \in Seq(Token)
    <3>1. 0 \in 0..Len(Lines(c))
      BY <2>2, LenProperties
    <3> QED
      BY <2>2, <3>1, RestSplits
  <2> HIDE DEF w, v, l
  <2>5. <<w>> \in Seq(Token) /\ <<v>> \in Seq(Token) /\ <<w, v>> = <<w>> \o <<v>>
    BY <1>2, <2>3
  <2>6. TokensOf(c) = <<w>> \o (<<v>> \o l) /\ <<v>> \o l \in Seq(Token)
    BY <1>3, <1>4, <2>1, <2>4, <2>5
  <2>7. t = <<w>> \o ((<<v>> \o l) \o rest) /\ (<<v>> \o l) \o rest = <<v>> \o (l \o rest)
    BY <1>3, <2>4, <2>5, <2>6
  <2>8. l \o rest \in Seq(Token)
    BY <1>4, <2>4
  <2>9. t = <<w>> \o (<<v>> \o (l \o rest)) /\ <<v>> \o (l \o rest) \in Seq(Token)
    BY <1>4, <2>5, <2>7, <2>8
  <2>10. t # <<>> /\ Head(t) = w /\ Tail(t) = <<v>> \o (l \o rest)
    BY <1>2, <2>9, HeadOfText
  <2> QED
    BY <1>1, <1>2, <1>6, <2>8, <2>10 DEF Ahead, v, l
<1>7. CASE c.section \notin Sections \cup {"DIM"}
  <2>1. TokensOf(c) = <<w>>
    BY <1>7, TokensOfSection
  <2> HIDE DEF w
  <2>2. t # <<>> /\ Head(t) = w
    BY <1>2, <2>1, HeadOfText
  <2> QED
    BY <1>2, <1>7, <2>2 DEF Ahead
<1> QED
  BY <1>5, <1>6, <1>7

-----------------------------------------------------------------------------
(* Texts from which nothing is missing *)

\* The reader is between two sections: it has read the first k, all known, and the
\* mesh is what they mean.
KnownUpTo(k) == \A i \in 1..k : plan[i].section \in Known
Between(k) ==
  /\ k \in 0..Len(plan) /\ KnownUpTo(k)
  /\ text = Rest(Parts(plan), k)
  /\ mesh = MeaningOf(Beginning(plan, k))

\* It is in the section behind the first k: the vector has the length of the section
\* and, up to the element read, the elements.
Within(k) ==
  /\ k \in 0..(Len(plan) - 1) /\ KnownUpTo(k)
  /\ section \in Sections /\ plan[k + 1].section = section
  /\ element \in 0..Len(plan[k + 1].elements)
  /\ text = Rest(Lines(plan[k + 1]), element) \o Rest(Parts(plan), k + 1)
  /\ Len(Part(section)) = Len(plan[k + 1].elements)
  /\ \A i \in 1..element : Part(section)[i] = plan[k + 1].elements[i]
  /\ mesh = [MeaningOf(Beginning(plan, k)) EXCEPT ![PartOf[section]] = Part(section)]

Understood ==
  /\ mesh = MeaningOf(Effective(plan))
  /\ \A i \in DOMAIN Effective(plan) : Effective(plan)[i].section \in Known

Written ==
  plan # NoPlan =>
    /\ at \in {"open", "magic", "section", "element", "validate", "end"}
    /\ at # "end" => outcome = "none" /\ good = TRUE
    /\ at \in {"open", "magic"} => mesh = MeaningOf(<<>>)
    /\ at = "magic" => text = Tokens(plan)
    /\ at = "section" => \E k \in 0..Len(plan) : Between(k)
    /\ at = "element" => \E k \in 0..(Len(plan) - 1) : Within(k)
    /\ at = "validate" => Understood
    /\ TextIsReadAsWritten

\* Between two sections the text has ended with the plan, or the next section is ahead.
LEMMA TextAhead ==
  ASSUME plan \in Plans, NEW k, Between(k)
  PROVE  \/ k = Len(plan) /\ text = <<>>
         \/ k \in 0..(Len(plan) - 1) /\ Ahead(text, plan[k + 1], Rest(Parts(plan), k + 1))
<1> DEFINE l == Parts(plan)
           c == plan[k + 1]
           n == Len(plan)
<1>1. /\ n \in Nat /\ \A i \in 1..n : plan[i] \in Section
      /\ l \in Seq(Seq(Token)) /\ Len(l) = n /\ \A i \in 1..n : l[i] = TokensOf(plan[i])
  BY TokensAreTyped
<1>2. k \in 0..n /\ text = Rest(l, k)
  BY DEF Between
<1> HIDE DEF l, n
<1>3. CASE k = n
  BY <1>1, <1>2, <1>3, RestEnds DEF n
<1>4. CASE k # n
  <2>1. k \in 0..(n - 1) /\ k + 1 \in 1..n /\ k + 1 \in 0..n /\ k < Len(l) /\ k \in 0..Len(l)
    BY <1>1, <1>2, <1>4
  <2>2. text = l[k + 1] \o Rest(l, k + 1)
    BY <1>1, <1>2, <2>1, RestSplits
  <2>3. Rest(l, k + 1) \in Seq(Token)
    <3> DEFINE m == k + 1
    <3>1. m \in 0..Len(l)
      BY <1>1, <2>1
    <3> HIDE DEF m
    <3>2. Rest(l, m) \in Seq(Token)
      BY <1>1, <3>1, RestSplits
    <3> QED
      BY <3>2 DEF m
  <2>4. text = TokensOf(c) \o Rest(l, k + 1) /\ c \in Section
    BY <1>1, <2>1, <2>2
  <2>5. Ahead(text, c, Rest(l, k + 1))
    BY <2>3, <2>4, SectionAhead
  <2> QED
    BY <2>1, <2>5 DEF l, n
<1> QED
  BY <1>3, <1>4

\* The dimension is read as it was written.
LEMMA DimensionIsRead ==
  ASSUME IInv, Written, plan # NoPlan, ReadDimension
  PROVE  Written'
<1>1. /\ plan \in Plans /\ at = "section" /\ good = TRUE /\ outcome = "none"
      /\ text # <<>> /\ Is(Head(text), "DIM")
      /\ UNCHANGED <<plan, at, outcome>>
  BY DEF IInv, Typed, Written, ReadDimension, AtSection, AtToken
<1>2. PICK k \in 0..Len(plan) : Between(k)
  BY <1>1 DEF Written
<1>3. k \in 0..(Len(plan) - 1) /\ Ahead(text, plan[k + 1], Rest(Parts(plan), k + 1))
  BY <1>1, <1>2, TextAhead
<1> DEFINE c == plan[k + 1]
           rest == Rest(Parts(plan), k + 1)
           m == MeaningOf(Beginning(plan, k))
           r == Extracted(Tail(text), <<"dimension">>, mesh)
<1>4. /\ c \in Section /\ rest \in Seq(Token) /\ c.section = "DIM"
      /\ Tail(text) = <<Number(c.value)>> \o rest
  BY <1>1, <1>3 DEF Ahead
<1>5. mesh = m /\ KnownUpTo(k) /\ c.value \in Whole /\ plan \in Seq(Section) /\ Len(plan) \in Nat
  BY <1>1, <1>2, <1>4, KindsOfSection, TokensAreTyped DEF Between
<1>6. text' = r.text /\ good' = r.good /\ mesh' = r.e
  BY DEF ReadDimension
<1>7. "dimension" \in DOMAIN mesh /\ "dimension" \notin Texts
  BY DEF IInv, Typed, Texts
<1>8. r = Extracted(<<Number(c.value)>> \o rest, <<"dimension">>, mesh)
  BY <1>4
<1>9. MeaningOf(Beginning(plan, k + 1)) = [m EXCEPT !["dimension"] = c.value]
  BY <1>3, <1>4, <1>5, MeaningGrows
<1> HIDE DEF c, rest, r, m
<1>10. /\ r.text = rest /\ r.good = TRUE
       /\ r.e = [f \in DOMAIN mesh |-> IF f = "dimension" THEN c.value ELSE mesh[f]]
  <2> DEFINE v == c.value
  <2>1. r = Extracted(<<Number(v)>> \o rest, <<"dimension">>, mesh)
    BY <1>8
  <2>2. v \in Int /\ Least("dimension") <= v /\ v <= Most("dimension")
    BY <1>5, LimitsAssumption DEF Whole, Least, Most, Reals
  <2> HIDE DEF v
  <2>3. NumberRead(r, v, rest, "dimension", mesh)
    BY <1>1, <1>4, <1>7, <2>1, <2>2, NumberIsRead
  <2> QED
    BY <2>3 DEF NumberRead, v
<1>11. mesh' = MeaningOf(Beginning(plan, k + 1))
  BY <1>5, <1>6, <1>9, <1>10
<1>12. k + 1 \in 0..Len(plan) /\ \A i \in 1..(k + 1) : i \in 1..k \/ i = k + 1
  BY <1>3, <1>5
<1>13. KnownUpTo(k + 1)
  BY <1>4, <1>5, <1>12 DEF KnownUpTo, Known, c
<1>14. PICK j \in 0..Len(plan) : j = k + 1
  BY <1>12
<1>15. Between(j)'
  BY <1>1, <1>6, <1>10, <1>11, <1>12, <1>13, <1>14 DEF Between, KnownUpTo, rest
<1> QED
  BY <1>1, <1>6, <1>10, <1>15 DEF Written, TextIsReadAsWritten

\* The count of a section, too, and the vector is made as long as it says.
LEMMA CountIsRead ==
  ASSUME IInv, Written, plan # NoPlan, NEW s \in Sections, BeginSection(s)
  PROVE  Written'
<1>1. /\ plan \in Plans /\ at = "section" /\ good = TRUE /\ outcome = "none"
      /\ text # <<>> /\ Is(Head(text), s)
      /\ plan' = plan /\ section' = s /\ element' = 0
  BY DEF IInv, Typed, Written, BeginSection, AtSection, AtToken
<1>2. PICK k \in 0..Len(plan) : Between(k)
  BY <1>1 DEF Written
<1>3. k \in 0..(Len(plan) - 1) /\ Ahead(text, plan[k + 1], Rest(Parts(plan), k + 1))
  BY <1>1, <1>2, TextAhead
<1> DEFINE c == plan[k + 1]
           rest == Rest(Parts(plan), k + 1)
           lines == Rest(Lines(c), 0) \o rest
           m == MeaningOf(Beginning(plan, k))
           n == Len(c.elements)
           e == [count |-> 0]
           r == Extracted(Tail(text), <<"count">>, e)
<1>4. /\ c \in Section /\ c.section = s /\ lines \in Seq(Token)
      /\ Tail(text) = <<Number(n)>> \o lines
  BY <1>1, <1>3 DEF Ahead
<1>5. mesh = m /\ KnownUpTo(k) /\ n \in Nat /\ n <= Memory
  BY <1>1, <1>2, <1>4, LinesAreTyped DEF Between
<1>6. /\ text' = r.text /\ good' = r.good
      /\ \/ r.e.count > Memory
         \/ /\ at' = "element" /\ outcome' = outcome
            /\ mesh' = [mesh EXCEPT ![PartOf[s]] = Resized(@, r.e.count, s)]
  BY DEF BeginSection, GoTo, Throw
<1>7. "count" \in DOMAIN e /\ "count" \notin Texts /\ r = Extracted(<<Number(n)>> \o lines, <<"count">>, e)
  BY <1>4 DEF Texts
<1> HIDE DEF c, lines, r, m, n, e
<1>8. NumberRead(r, n, lines, "count", e)
  <2>1. n \in Int /\ n >= 0 /\ Least("count") <= n /\ n <= Most("count")
    BY <1>5, LimitsAssumption DEF Least, Most, Reals
  <2> QED
    BY <1>1, <1>4, <1>7, <2>1, NumberIsRead
<1>9. r.text = lines /\ r.good = TRUE /\ r.e.count = n
  BY <1>8 DEF NumberRead
<1>10. /\ at' = "element" /\ outcome' = outcome
       /\ mesh' = [m EXCEPT ![PartOf[s]] = Resized(Part(s), n, s)]
  BY <1>5, <1>6, <1>9, LimitsAssumption DEF Part
<1>11. Part(s) \in Seq(Elements(s)) /\ PartOf[s] \in DOMAIN mesh
  BY DEF IInv, Typed, PartOf, Sections, FieldsOf
<1>12. Part(s)' = Resized(Part(s), n, s) /\ Len(Part(s)') = n
  BY <1>5, <1>10, <1>11, ResizedProperties DEF Part
<1>13. Within(k)'
  <2>1. mesh' = [m EXCEPT ![PartOf[s]] = Part(s)']
    BY <1>10, <1>12
  <2>2. element' \in 0..n /\ \A i \in 1..element' : Part(s)'[i] = c.elements[i]
    BY <1>1, <1>5
  <2> QED
    BY <1>1, <1>3, <1>4, <1>5, <1>6, <1>9, <1>12, <2>1, <2>2 DEF Within, KnownUpTo, Part, c, lines, m, n
<1> QED
  BY <1>1, <1>3, <1>6, <1>9, <1>10, <1>13 DEF Written, TextIsReadAsWritten

\* The next element of a section is read as it was written.
LEMMA NextElementIsRead ==
  ASSUME IInv, Written, plan # NoPlan, ReadElement
  PROVE  Written'
<1>1. /\ plan \in Plans /\ at = "element" /\ good = TRUE /\ outcome = "none" /\ Unread
      /\ UNCHANGED <<plan, at, section, outcome>>
  BY DEF IInv, Typed, Written, ReadElement
<1>2. PICK k \in 0..(Len(plan) - 1) : Within(k)
  BY <1>1 DEF Written
<1> DEFINE c == plan[k + 1]
           s == section
           rest == Rest(Parts(plan), k + 1)
           m == MeaningOf(Beginning(plan, k))
           n == Len(c.elements)
           j == element + 1
           e == WithLocals(Part(s)[j], s)
           r == Extracted(text, FieldsOf[s], e)
<1>3. /\ s \in Sections /\ c.section = s /\ element \in 0..n
      /\ text = Rest(Lines(c), element) \o rest
      /\ Len(Part(s)) = n /\ \A i \in 1..element : Part(s)[i] = c.elements[i]
      /\ mesh = [m EXCEPT ![PartOf[s]] = Part(s)] /\ KnownUpTo(k)
  BY <1>2 DEF Within
<1>4. c \in Section /\ rest \in Seq(Token) /\ Len(plan) \in Nat
  <2> DEFINE l == Parts(plan)
             i == k + 1
  <2>1. Len(plan) \in Nat /\ l \in Seq(Seq(Token)) /\ Len(l) = Len(plan) /\ \A x \in 1..Len(plan) : plan[x] \in Section
    BY <1>1, TokensAreTyped
  <2>2. i \in 1..Len(plan) /\ i \in 0..Len(l)
    BY <1>2, <2>1
  <2> HIDE DEF l, i
  <2>3. Rest(l, i) \in Seq(Token) /\ plan[i] \in Section
    BY <2>1, <2>2, RestSplits
  <2> QED
    BY <2>1, <2>3 DEF l, i
<1>5. /\ element' = j /\ text' = r.text /\ good' = r.good
      /\ mesh' = [mesh EXCEPT ![PartOf[s]][j] = r.e]
  BY DEF ReadElement, Part
<1>6. j \in 1..n /\ element \in Nat /\ element < n /\ n \in Nat
  <2>1. n \in Nat
    BY <1>3, <1>4, LinesAreTyped
  <2> HIDE DEF n
  <2>2. element < n
    BY <1>1, <1>3 DEF Unread, Part
  <2> QED
    BY <1>3, <2>1, <2>2
<1>7. Part(s) \in Seq(Elements(s)) /\ PartOf[s] \in DOMAIN mesh
  BY <1>3 DEF IInv, Typed, PartOf, Sections, FieldsOf
<1>8. e \in Elements(s)
  <2>1. Part(s)[j] \in Elements(s)
    BY <1>3, <1>6, <1>7, ElementOfSeq
  <2> QED
    BY <1>3, <2>1, WithLocalsIsElement
<1> DEFINE x == c.elements[j]
           later == Rest(Lines(c), j)
<1>9. /\ IsWritten(x, s) /\ Line(s, x) \in Seq(Token) /\ later \in Seq(Token)
      /\ Rest(Lines(c), element) = Line(s, x) \o later
  <2> DEFINE l == Lines(c)
  <2>1. l \in Seq(Seq(Token)) /\ Len(l) = n /\ l[j] = Line(s, x) /\ IsWritten(x, s)
    BY <1>3, <1>4, <1>6, LinesAreTyped
  <2> HIDE DEF l, n, x
  <2>2. element \in 0..Len(l) /\ element < Len(l) /\ j \in 0..Len(l)
    BY <1>6, <2>1
  <2>3. Rest(l, element) = l[j] \o Rest(l, j) /\ l[j] \in Seq(Token)
    BY <2>1, <2>2, RestSplits
  <2> HIDE DEF j
  <2>4. Rest(l, j) \in Seq(Token)
    BY <2>1, <2>2, RestSplits
  <2> QED
    BY <2>1, <2>3, <2>4 DEF l
<1> HIDE DEF c, rest, m, n, j, e, r, x, later
<1>10. text = Line(s, x) \o (later \o rest) /\ later \o rest \in Seq(Token)
  <2>1. \A u, v, w \in Seq(Token) : (u \o v) \o w = u \o (v \o w)
    BY Joining
  <2>2. \A u, v \in Seq(Token) : u \o v \in Seq(Token)
    BY Joining, Zenon
  <2>3. later \o rest \in Seq(Token)
    BY <1>4, <1>9, <2>2, Zenon
  <2>4. (Line(s, x) \o later) \o rest = Line(s, x) \o (later \o rest)
    BY <1>4, <1>9, <2>1, Zenon
  <2> QED
    BY <1>3, <1>9, <2>3, <2>4, Zenon
<1>11. r.text = later \o rest /\ r.good = TRUE /\ r.e = x
  <2> DEFINE g == later \o rest
  <2>1. r = Extracted(Line(s, x) \o g, FieldsOf[s], e) /\ g \in Seq(Token)
    BY <1>10 DEF r
  <2> HIDE DEF g
  <2>2. ElementRead(r, x, g)
    BY <1>1, <1>3, <1>8, <1>9, <2>1, ElementIsRead
  <2> QED
    BY <2>2 DEF ElementRead, g
<1>12. Part(s)' = [Part(s) EXCEPT ![j] = x]
  BY <1>1, <1>5, <1>7, <1>11 DEF Part
<1>13. /\ Len(Part(s)') = n
       /\ \A i \in 1..j : Part(s)'[i] = c.elements[i]
  <2> DEFINE v == Part(s)
             u == [v EXCEPT ![j] = x]
  <2>1. DOMAIN v = 1..n /\ v \in Seq(Elements(s)) /\ DOMAIN u = 1..n
    BY <1>3, <1>7, LenProperties
  <2>2. Len(u) = n
    <3>1. \A i \in 1..n : u[i] = IF i = j THEN x ELSE v[i]
      BY <2>1
    <3>2. u = [i \in 1..n |-> IF i = j THEN x ELSE v[i]]
      BY <2>1
    <3> QED
      BY <1>6, <3>2
  <2>3. ASSUME NEW i \in 1..j
        PROVE  u[i] = c.elements[i]
    <3>1. i \in 1..n /\ (i = j \/ i \in 1..element)
      BY <1>6 DEF j
    <3> QED
      BY <1>3, <2>1, <3>1 DEF x
  <2> HIDE DEF u
  <2> QED
    BY <1>12, <2>2, <2>3 DEF u
<1>14. mesh' = [m EXCEPT ![PartOf[s]] = Part(s)']
  <2>1. mesh' = [mesh EXCEPT ![PartOf[s]] = Part(s)']
    BY <1>1, <1>5, <1>11, <1>12 DEF Part
  <2> QED
    BY <1>3, <2>1
<1>15. Within(k)'
  <2>1. j \in 0..n
    BY <1>6
  <2> QED
    BY <1>1, <1>2, <1>3, <1>5, <1>11, <1>13, <1>14, <2>1 DEF Within, KnownUpTo, Part, c, rest, m, n, later
<1> QED
  BY <1>1, <1>2, <1>5, <1>11, <1>15 DEF Written, TextIsReadAsWritten

\* A section that has ended is added to what was read.
LEMMA SectionIsAdded ==
  ASSUME IInv, Written, plan # NoPlan, SectionEnds
  PROVE  Written'
<1>1. /\ plan \in Plans /\ at = "element" /\ good = TRUE /\ outcome = "none" /\ ~Unread
      /\ at' = "section" /\ UNCHANGED <<plan, text, good, section, element, mesh, outcome>>
  BY DEF IInv, Typed, Written, SectionEnds, GoTo, parts
<1>2. PICK k \in 0..(Len(plan) - 1) : Within(k)
  BY <1>1 DEF Written
<1> DEFINE c == plan[k + 1]
           s == section
           rest == Rest(Parts(plan), k + 1)
           m == MeaningOf(Beginning(plan, k))
           n == Len(c.elements)
           l == Lines(c)
<1>3. /\ s \in Sections /\ c.section = s /\ element \in 0..n
      /\ text = Rest(l, element) \o rest
      /\ Len(Part(s)) = n /\ \A i \in 1..element : Part(s)[i] = c.elements[i]
      /\ mesh = [m EXCEPT ![PartOf[s]] = Part(s)] /\ KnownUpTo(k)
  BY <1>2 DEF Within
<1>4. c \in Section /\ rest \in Seq(Token) /\ Len(plan) \in Nat /\ plan \in Seq(Section)
  <2> DEFINE p == Parts(plan)
             i == k + 1
  <2>1. /\ Len(plan) \in Nat /\ p \in Seq(Seq(Token)) /\ Len(p) = Len(plan) /\ plan \in Seq(Section)
        /\ \A x \in 1..Len(plan) : plan[x] \in Section
    BY <1>1, TokensAreTyped
  <2>2. i \in 1..Len(plan) /\ i \in 0..Len(p)
    BY <1>2, <2>1
  <2> HIDE DEF p, i
  <2>3. Rest(p, i) \in Seq(Token) /\ plan[i] \in Section
    BY <2>1, <2>2, RestSplits
  <2> QED
    BY <2>1, <2>3 DEF p, i
<1>5. l \in Seq(Seq(Token)) /\ Len(l) = n /\ n \in Nat /\ c.elements \in Seq(ElementOf[s])
  BY <1>3, <1>4, LinesAreTyped, KindsOfSection
<1>6. element = n
  <2>1. ~(element < n)
    BY <1>1, <1>3 DEF Unread, Part
  <2> HIDE DEF n
  <2> QED
    BY <1>3, <1>5, <2>1
<1>7. Part(s) = c.elements
  <2>1. Part(s) \in Seq(Elements(s))
    BY <1>3 DEF IInv, Typed
  <2> DEFINE v == Part(s)
             w == c.elements
  <2>2. DOMAIN v = 1..n /\ DOMAIN w = 1..n /\ v \in [1..n -> Elements(s)] /\ w \in [1..n -> ElementOf[s]]
    BY <1>3, <1>5, <2>1, LenProperties, SeqDef
  <2>3. \A i \in 1..n : v[i] = w[i]
    BY <1>3, <1>6
  <2> DEFINE D == 1..n
  <2>4. /\ v \in [D -> Elements(s)] /\ w \in [D -> ElementOf[s]]
        /\ \A i \in D : v[i] = w[i]
    BY <2>2, <2>3
  <2> HIDE DEF v, w, D
  <2>5. v = [i \in D |-> v[i]] /\ w = [i \in D |-> w[i]]
    BY <2>4
  <2>6. v = w
    BY <2>4, <2>5
  <2> QED
    BY <2>6 DEF v, w
<1>8. mesh = MeaningOf(Beginning(plan, k + 1))
  BY <1>2, <1>3, <1>4, <1>7, MeaningGrows
<1> HIDE DEF c, rest, m, n, l
<1>9. text = rest
  <2>1. Rest(l, element) = <<>>
    BY <1>5, <1>6, RestEnds
  <2> QED
    BY <1>3, <1>4, <2>1, ConcatEmptySeq
<1>10. k + 1 \in 0..Len(plan) /\ \A i \in 1..(k + 1) : i \in 1..k \/ i = k + 1
  BY <1>2, <1>4
<1>11. KnownUpTo(k + 1)
  BY <1>3, <1>10 DEF KnownUpTo, Known, c
<1>12. PICK j \in 0..Len(plan) : j = k + 1
  BY <1>10
<1>13. Between(j)'
  BY <1>1, <1>8, <1>9, <1>10, <1>11, <1>12 DEF Between, KnownUpTo, rest
<1> QED
  BY <1>1, <1>13 DEF Written, TextIsReadAsWritten

\* At the end of the sections the mesh is what those up to the first END mean, and an
\* unknown section is one of them.
LEMMA SectionsEnd ==
  ASSUME IInv, Written, plan # NoPlan, End \/ UnknownSection
  PROVE  Written'
<1>1. /\ plan \in Plans /\ at = "section" /\ good = TRUE /\ outcome = "none"
      /\ UNCHANGED <<plan, text, good, mesh>>
  BY DEF IInv, Typed, Written, End, UnknownSection, AtToken, parts
<1>2. PICK k \in 0..Len(plan) : Between(k)
  BY <1>1 DEF Written
<1> DEFINE c == plan[k + 1]
           p == plan
<1>3. \/ k = Len(plan) /\ text = <<>>
      \/ k \in 0..(Len(plan) - 1) /\ Ahead(text, c, Rest(Parts(plan), k + 1))
  BY <1>1, <1>2, TextAhead
<1>4. text # <<>> => /\ k \in 0..(Len(plan) - 1) /\ text # <<>> /\ \A s : Is(Head(text), s) <=> s = c.section
  BY <1>3 DEF Ahead
<1>5. text = <<>> => k = Len(plan)
  BY <1>3 DEF Ahead
<1>6. /\ mesh = MeaningOf(Beginning(plan, k)) /\ KnownUpTo(k) /\ Len(plan) \in Nat /\ plan \in Seq(Section)
  BY <1>1, <1>2, TokensAreTyped DEF Between
<1>7. \A i \in 1..k : plan[i].section \in Known
  BY <1>6 DEF KnownUpTo
<1>8. /\ k = Len(plan) => Effective(plan) = Beginning(plan, k)
      /\ k < Len(plan) /\ c.section = "END" => Effective(plan) = Beginning(plan, k)
      /\ k < Len(plan) /\ c.section \notin Known \cup {"END"} =>
           k + 1 \in DOMAIN Effective(plan) /\ Effective(plan)[k + 1] = c
  BY <1>6, <1>7, EffectiveProperties
<1> HIDE DEF c
<1>9. CASE End
  <2>1. text = <<>> \/ c.section = "END"
    BY <1>1, <1>4, <1>9 DEF End, NoSectionLeft, AtSection, AtToken
  <2>2. k < Len(plan) \/ k = Len(plan)
    BY <1>2, <1>6
  <2>3. Effective(plan) = Beginning(plan, k)
    BY <1>5, <1>8, <2>1, <2>2
  <2>4. DOMAIN Beginning(plan, k) = 1..k /\ \A i \in 1..k : Beginning(plan, k)[i] = plan[i]
    BY <1>2, <1>6, BeginningProperties
  <2>5. Understood
    BY <1>6, <1>7, <2>3, <2>4 DEF Understood
  <2>6. Understood'
    BY <1>1, <2>5 DEF Understood
  <2>7. at' = "validate" /\ outcome' = outcome
    BY <1>9 DEF End, GoTo
  <2> QED
    BY <1>1, <2>6, <2>7 DEF Written, TextIsReadAsWritten
<1>10. CASE UnknownSection
  <2>1. /\ text # <<>> /\ at' = "end" /\ outcome' = "mesh.parse_error"
        /\ \A s \in Known \cup {"END"} : ~Is(Head(text), s)
    BY <1>10 DEF UnknownSection, Throw, AtSection, AtToken, Known
  <2>2. k < Len(plan) /\ c.section \notin Known \cup {"END"}
    <3>1. k \in 0..(Len(plan) - 1) /\ Is(Head(text), c.section)
      BY <1>4, <2>1
    <3>2. k < Len(plan)
      BY <1>6, <3>1
    <3> QED
      BY <2>1, <3>1, <3>2
  <2>3. \E i \in DOMAIN Effective(plan) : Effective(plan)[i].section \notin Known
    BY <1>8, <2>2
  <2>4. TextIsReadAsWritten'
    BY <1>1, <2>1, <2>3 DEF TextIsReadAsWritten, Known
  <2> QED
    BY <1>1, <2>1, <2>4 DEF Written
<1> QED
  BY <1>9, <1>10

\* The text that was opened is the one that was written.
LEMMA TextIsOpened ==
  ASSUME IInv, Written, plan # NoPlan, OpenFile \/ ExpectToken
  PROVE  Written'
<1>1. /\ plan \in Plans /\ good = TRUE /\ outcome = "none" /\ mesh = MeaningOf(<<>>)
      /\ UNCHANGED <<plan, good, mesh>>
  BY DEF IInv, Typed, Written, OpenFile, ExpectToken, parts
<1>2. CASE OpenFile
  <2>1. /\ text' = Tokens(plan)
        /\ \/ at' = "magic" /\ outcome' = outcome
           \/ at' = "end" /\ outcome' = "mesh.file_not_found"
    BY <1>2 DEF OpenFile, GoTo, Throw
  <2> QED
    BY <1>1, <2>1 DEF Written, TextIsReadAsWritten
<1>3. CASE ExpectToken
  <2> DEFINE w == Word("MNGMESH1")
             rest == Rest(Parts(plan), 0)
  <2>1. /\ plan \in Seq(Section) /\ Len(plan) \in Nat /\ rest \in Seq(Token)
        /\ Tokens(plan) = <<w>> \o rest
    BY <1>1, TokensAreTyped
  <2>2. text = <<w>> \o rest
    BY <1>3, <2>1 DEF ExpectToken, Written
  <2>3. w \in Token /\ Is(w, "MNGMESH1")
    BY WordsAndNumbers, TextsAssumption DEF Is
  <2> HIDE DEF w, rest
  <2>4. text # <<>> /\ Head(text) = w /\ Tail(text) = rest
    BY <2>1, <2>2, <2>3, HeadOfText
  <2>5. text' = rest /\ at' = "section" /\ outcome' = outcome
    BY <1>3, <2>3, <2>4 DEF ExpectToken, GoTo
  <2>6. Beginning(plan, 0) = <<>> /\ 0 \in 0..Len(plan)
    BY <2>1, BeginningProperties
  <2>7. KnownUpTo(0)
    BY DEF KnownUpTo
  <2>8. Between(0)'
    BY <1>1, <2>5, <2>6, <2>7 DEF Between, KnownUpTo, rest
  <2> QED
    BY <1>1, <2>5, <2>6, <2>8 DEF Written, TextIsReadAsWritten
<1> QED
  BY <1>2, <1>3

\* And MeshView::IsValid decides on what was understood.
LEMMA MeshIsJudged ==
  ASSUME IInv, Written, plan # NoPlan, Validate
  PROVE  Written'
<1>1. /\ at' = "end" /\ UNCHANGED <<plan, mesh>> /\ Understood
      /\ outcome' = IF IsValidMesh(mesh) THEN "mesh" ELSE "mesh.invalid_connectivity"
  BY DEF Validate, Throw, Written, parts
<1>2. TextIsReadAsWritten'
  <2>1. ~(\E i \in DOMAIN Effective(plan) : Effective(plan)[i].section \notin Sections \cup {"DIM"})
    BY <1>1 DEF Understood, Known
  <2> QED
    BY <1>1, <2>1 DEF TextIsReadAsWritten, Understood
<1> QED
  BY <1>1, <1>2 DEF Written

\* What was written is what is read, from the start and on every step.
LEMMA InitIsWritten == Init => Written
<1> SUFFICES ASSUME Init, plan # NoPlan PROVE Written
  BY DEF Written
<1>1. at = "open" /\ outcome = "none" /\ good = TRUE
  BY DEF Init, NothingRead
<1>2. mesh = [dimension |-> 2, nodes |-> <<>>, cells |-> <<>>, faces |-> <<>>, patches |-> <<>>]
  BY DEF Init, NothingRead
<1>3. \A s : ~OccursIn(<<>>, s)
  BY DEF OccursIn
<1>4. mesh = MeaningOf(<<>>)
  BY <1>2, <1>3 DEF MeaningOf, ElementsOf
<1> QED
  BY <1>1, <1>4 DEF Written, TextIsReadAsWritten

LEMMA StepPreservesWritten == IInv /\ Written /\ [Next]_vars => Written'
<1> SUFFICES ASSUME IInv, Written, [Next]_vars PROVE Written'
  OBVIOUS
<1>1. plan' = plan
  BY DEF Next, OpenFile, ExpectToken, ReadDimension, BeginSection, ReadElement, SectionEnds,
         UnknownSection, End, Validate, vars
<1>2. SUFFICES ASSUME plan # NoPlan PROVE Written'
  BY <1>1 DEF Written
<1>3. CASE UNCHANGED vars
  <2>1. UNCHANGED <<plan, text, good, at, section, element, mesh, outcome>>
    BY <1>3 DEF vars, parts
  <2> QED
    BY <2>1 DEF Written, Between, Within, KnownUpTo, Understood, Part, TextIsReadAsWritten
<1> QED
  BY <1>2, <1>3, TextIsOpened, DimensionIsRead, CountIsRead, NextElementIsRead, SectionIsAdded,
     SectionsEnd, MeshIsJudged DEF Next

\* A text from which nothing is missing is read as it was written, whatever its
\* sections and their order (the loop of ReadBootstrapMesh): a repeated section
\* replaces the earlier one, nothing counts after END, an unknown section is an error.
THEOREM TextsAreAlwaysReadAsWritten == Spec => []TextIsReadAsWritten
<1>1. Written => TextIsReadAsWritten
  BY DEF Written, TextIsReadAsWritten
<1> QED
  BY <1>1, InitIsInv, InitIsWritten, StepPreservesInv, StepPreservesWritten, PTL DEF Spec

-----------------------------------------------------------------------------
(* Inside the examples *)

\* The reader of the example that runs; the fifth has none and makes its mesh itself.
ReaderInside ==
  /\ program \in MeshPrograms => IInv /\ Written
  /\ program \notin MeshPrograms => plan = NoPlan /\ outcome = "none"
  /\ stage = "mesh" => program = Rectangular

\* Both hold of the reader as the examples run it: no main touches what it reads
\* into before it has returned (main of Ex01, Ex02 and Ex03).
THEOREM ExamplesReadAsWritten == ExampleSpec => [](TextIsReadAsWritten /\ NothingIsMadeUp)
<1>1. Rectangular \notin MeshPrograms
  BY DEF Rectangular, MeshPrograms
<1>2. InitExample => ReaderInside
  BY <1>1, InitIsInv, InitIsWritten DEF InitExample, ReaderInside, NothingRead
<1>3. ASSUME ReaderInside, [NextExample]_allVars
      PROVE  ReaderInside'
  <2>1. ASSUME UNCHANGED vars, UNCHANGED program, stage' = "mesh" => program = Rectangular
        PROVE  ReaderInside'
    <3>1. IInv => IInv'
      BY <2>1, StepPreservesInv
    <3>2. IInv /\ Written => Written'
      BY <2>1, StepPreservesWritten
    <3>3. plan' = plan /\ outcome' = outcome
      BY <2>1 DEF vars
    <3> QED
      BY <1>3, <2>1, <3>1, <3>2, <3>3 DEF ReaderInside
  <2>2. CASE RequireArguments \/ MeshIsRead
    BY <2>1, <2>2 DEF RequireArguments, MeshIsRead, Enter, Finish
  <2>3. CASE ReadMesh
    <3>1. program \in MeshPrograms /\ Next /\ UNCHANGED <<program, stage>>
      BY <2>3 DEF ReadMesh, example
    <3> QED
      BY <1>3, <3>1, StepPreservesInv, StepPreservesWritten DEF ReaderInside
  <2>4. CASE ReadCaseConfig
    BY <2>1, <2>4 DEF ReadCaseConfig, Enter, Finish
  <2>5. CASE MakeMesh
    <3>1. /\ program = Rectangular /\ UNCHANGED <<program, plan, outcome>>
          /\ stage' # "mesh"
      BY <1>3, <2>5 DEF ReaderInside, MakeMesh, Enter, Finish
    <3> QED
      BY <1>1, <1>3, <3>1 DEF ReaderInside
  <2>6. CASE FillField \/ PrintRange \/ BuildWorkspace \/ ComputeGradient \/ CheckGradient
    <3>1. UNCHANGED vars /\ UNCHANGED program /\ stage' # "mesh"
      BY <2>6 DEF FillField, PrintRange, BuildWorkspace, ComputeGradient, CheckGradient, Enter, Finish
    <3> QED
      BY <2>1, <3>1
  <2>7. CASE UNCHANGED allVars
    BY <1>3, <2>1, <2>7 DEF allVars, example, ReaderInside
  <2> QED
    BY <1>3, <2>2, <2>3, <2>4, <2>5, <2>6, <2>7 DEF NextExample, ReadInput
<1>4. ReaderInside => TextIsReadAsWritten /\ NothingIsMadeUp
  <2>1. IInv => NothingIsMadeUp
    BY InvRefusesGuesses
  <2> QED
    BY <2>1 DEF ReaderInside, Written, TextIsReadAsWritten, NothingIsMadeUp
<1> QED
  BY <1>2, <1>3, <1>4, PTL DEF ExampleSpec
=============================================================================
