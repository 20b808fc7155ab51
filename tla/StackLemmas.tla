---------------------------- MODULE StackLemmas ----------------------------
(***************************************************************************)
(* Facts about stacks kept as sequences with the top at the end, about the *)
(* least number of a set, and about sequences put together, for the proofs *)
(* about the machines that have a stack of operators or of calls.          *)
(***************************************************************************)
EXTENDS Sequences, Integers, SequencesExt, SequenceTheorems, WellFoundedInduction, TLAPS

\* A stack with one more on top, and one without its top.
LEMMA PushedStack ==
  ASSUME NEW S, NEW s \in Seq(S), NEW x \in S
  PROVE  /\ Append(s, x) \in Seq(S)
         /\ Len(Append(s, x)) = Len(s) + 1
         /\ \A n \in 1 .. Len(s) : Append(s, x)[n] = s[n]
         /\ Append(s, x)[Len(s) + 1] = x
  OBVIOUS

LEMMA PoppedStack ==
  ASSUME NEW S, NEW s \in Seq(S), s # <<>>
  PROVE  /\ SubSeq(s, 1, Len(s) - 1) \in Seq(S)
         /\ Len(SubSeq(s, 1, Len(s) - 1)) = Len(s) - 1
         /\ \A n \in 1 .. Len(s) - 1 : SubSeq(s, 1, Len(s) - 1)[n] = s[n]
         /\ s[Len(s)] \in S
  <1> DEFINE last == Len(s) - 1
  <1>1. Len(s) \in Nat \ {0} /\ last \in Nat /\ last <= Len(s)
    OBVIOUS
  <1>2. s[Len(s)] \in S
    BY <1>1, ElementOfSeq
  <1>3. \A n \in 1 .. last : s[n] \in S
    BY <1>1, ElementOfSeq
  <1> HIDE DEF last
  <1>4. /\ SubSeq(s, 1, last) \in Seq(S)
        /\ Len(SubSeq(s, 1, last)) = (IF 1 <= last THEN last - 1 + 1 ELSE 0)
        /\ \A n \in 1 .. last - 1 + 1 : SubSeq(s, 1, last)[n] = s[1 + n - 1]
    BY <1>1, <1>3, SubSeqProperties
  <1>5. Len(SubSeq(s, 1, last)) = last
    BY <1>1, <1>4
  <1>6. \A n \in 1 .. last : SubSeq(s, 1, last)[n] = s[n]
    BY <1>1, <1>4
  <1> QED
    BY <1>2, <1>4, <1>5, <1>6 DEF last

\* A set of naturals that is not empty has a least member.
LEMMA LeastNat ==
  ASSUME NEW T \in SUBSET Nat, T # {}
  PROVE  \E n \in T : \A m \in T : n <= m
  <1>1. \E x \in T : \A y \in T : ~ (<<y, x>> \in OpToRel(<, Nat))
    BY NatLessThanWellFounded, WFMin
  <1>2. \A x \in T, y \in T : <<y, x>> \notin OpToRel(<, Nat) => x <= y
    BY DEF OpToRel
  <1> QED
    BY <1>1, <1>2

-----------------------------------------------------------------------------
(* Sequences one after another.                                            *)

LEMMA ConcatLaws ==
    ASSUME NEW S, NEW s \in Seq(S), NEW t \in Seq(S), NEW u \in Seq(S)
    PROVE  /\ s \o t \in Seq(S)
           /\ s \o (t \o u) = (s \o t) \o u
           /\ <<>> \o s = s /\ s \o <<>> = s
BY ConcatProperties, ConcatAssociative, ConcatEmptySeq

\* A sequence from its n-th member on.
LEMMA FromIndex ==
    ASSUME NEW S, NEW s \in Seq(S), NEW n \in 0 .. Len(s)
    PROVE  /\ SubSeq(s, n + 1, Len(s)) \in Seq(S)
           /\ n = 0 => SubSeq(s, n + 1, Len(s)) = s
           /\ n = Len(s) => SubSeq(s, n + 1, Len(s)) = <<>>
           /\ n # Len(s) =>
                 /\ s[n + 1] \in S
                 /\ SubSeq(s, n + 1, Len(s)) = <<s[n + 1]>> \o SubSeq(s, n + 2, Len(s))
<1>1. PICK N \in Nat : N = Len(s) /\ DOMAIN s = 1 .. N
  BY LenProperties
<1>2. \A k \in 1 .. N : s[k] \in S
  BY <1>1, ElementOfSeq
<1>3. ASSUME NEW k \in 1 .. N + 1
      PROVE  /\ SubSeq(s, k, N) \in Seq(S) /\ Len(SubSeq(s, k, N)) = N - k + 1
             /\ \A j \in 1 .. N - k + 1 : SubSeq(s, k, N)[j] = s[k + j - 1]
  <2>1. k \in Int /\ N \in Int /\ \A j \in k .. N : s[j] \in S
    BY <1>2
  <2>2. /\ SubSeq(s, k, N) \in Seq(S)
        /\ Len(SubSeq(s, k, N)) = IF k <= N THEN N - k + 1 ELSE 0
        /\ \A j \in 1 .. N - k + 1 : SubSeq(s, k, N)[j] = s[k + j - 1]
    BY <2>1, SubSeqProperties
  <2> QED BY <2>2
<1>4. n + 1 \in 1 .. N + 1
  BY <1>1
<1>5. n = N => SubSeq(s, n + 1, N) = <<>>
  <2> SUFFICES ASSUME n = N PROVE SubSeq(s, n + 1, N) = <<>>
    OBVIOUS
  <2>1. SubSeq(s, n + 1, N) \in Seq(S) /\ Len(SubSeq(s, n + 1, N)) = N - (n + 1) + 1
    BY <1>3, <1>4
  <2>2. N - (n + 1) + 1 = 0
    OBVIOUS
  <2> QED BY <2>1, <2>2, EmptySeq
<1>6. n = 0 => SubSeq(s, n + 1, N) = s
  <2> SUFFICES ASSUME n = 0 PROVE SubSeq(s, 1, N) = s
    OBVIOUS
  <2>1. 1 \in 1 .. N + 1 /\ N - 1 + 1 = N
    OBVIOUS
  <2>2. /\ SubSeq(s, 1, N) \in Seq(S) /\ Len(SubSeq(s, 1, N)) = N
        /\ \A j \in 1 .. N : SubSeq(s, 1, N)[j] = s[1 + j - 1]
    BY <1>3, <2>1
  <2>3. \A j \in 1 .. N : SubSeq(s, 1, N)[j] = s[j]
    BY <2>2
  <2> QED BY <1>1, <2>2, <2>3, SeqEqual
<1>7. ASSUME n # N
      PROVE  s[n + 1] \in S /\ SubSeq(s, n + 1, N) = <<s[n + 1]>> \o SubSeq(s, n + 2, N)
  <2>1. n + 1 \in 1 .. N /\ n + 2 \in 1 .. N + 1 /\ s[n + 1] \in S
    BY <1>1, <1>2, <1>7
  <2>2. PICK a \in Seq(S) : /\ a = SubSeq(s, n + 1, N) /\ Len(a) = N - (n + 1) + 1
                            /\ \A j \in 1 .. N - (n + 1) + 1 : a[j] = s[(n + 1) + j - 1]
    BY <1>3, <1>4
  <2>3. PICK b \in Seq(S) : /\ b = SubSeq(s, n + 2, N) /\ Len(b) = N - (n + 2) + 1
                            /\ \A j \in 1 .. N - (n + 2) + 1 : b[j] = s[(n + 2) + j - 1]
    BY <1>3, <2>1
  <2>4. PICK x \in S : x = s[n + 1]
    BY <2>1
  <2>5. /\ <<x>> \in Seq(S) /\ Len(<<x>>) = 1 /\ <<x>>[1] = x
    OBVIOUS
  <2>6. /\ <<x>> \o b \in Seq(S) /\ Len(<<x>> \o b) = 1 + Len(b)
        /\ \A j \in 1 .. 1 + Len(b) : (<<x>> \o b)[j] = IF j <= 1 THEN <<x>>[j] ELSE b[j - 1]
    BY <2>5, ConcatProperties
  <2>7. Len(a) = 1 + Len(b)
    BY <1>1, <2>2, <2>3
  <2>8. ASSUME NEW j \in 1 .. Len(a) PROVE a[j] = (<<x>> \o b)[j]
    <3>1. j \in 1 .. N - (n + 1) + 1 /\ j \in 1 .. 1 + Len(b) /\ a[j] = s[(n + 1) + j - 1]
      BY <2>2, <2>7, <2>8
    <3>2. CASE j = 1
      <4>1. (n + 1) + j - 1 = n + 1
        BY <3>2
      <4>2. (<<x>> \o b)[j] = x
        BY <2>5, <2>6, <3>1, <3>2
      <4> QED BY <2>4, <3>1, <4>1, <4>2
    <3>3. CASE j # 1
      <4>1. /\ ~(j <= 1) /\ j - 1 \in 1 .. N - (n + 2) + 1
            /\ (n + 2) + (j - 1) - 1 = (n + 1) + j - 1
        BY <1>1, <3>1, <3>3
      <4>2. (<<x>> \o b)[j] = b[j - 1]
        BY <2>6, <3>1, <4>1
      <4>3. b[j - 1] = s[(n + 1) + j - 1]
        BY <2>3, <4>1
      <4> QED BY <3>1, <4>2, <4>3
    <3> QED BY <3>2, <3>3
  <2>9. a = <<x>> \o b
    BY <2>6, <2>7, <2>8, SeqEqual
  <2> QED BY <2>1, <2>2, <2>3, <2>4, <2>9
<1> QED BY <1>1, <1>3, <1>4, <1>5, <1>6, <1>7

\* Nothing comes after the last member.
LEMMA FromLast ==
    ASSUME NEW S, NEW s \in Seq(S)
    PROVE  SubSeq(s, Len(s) + 1, Len(s)) = <<>>
<1>1. Len(s) \in 0 .. Len(s)
  BY LenProperties
<1> QED BY <1>1, FromIndex

\* Sequences of sequences over S.
Rows(S) == Seq(Seq(S))

LEMMA RowFacts ==
    ASSUME NEW S, NEW s \in Rows(S)
    PROVE  /\ Len(s) \in Nat /\ \A k \in 1 .. Len(s) : s[k] \in Seq(S)
           /\ Len(s) = 0 => s = <<>>
BY ElementOfSeq, EmptySeq DEF Rows

LEMMA RowsOf ==
    ASSUME NEW S, NEW n \in Nat, NEW s, DOMAIN s = 1 .. n, s = [k \in 1 .. n |-> s[k]],
           \A k \in 1 .. n : s[k] \in Seq(S)
    PROVE  s \in Rows(S) /\ Len(s) = n
<1> DEFINE R == Seq(S)
<1>1. \A k \in 1 .. n : s[k] \in R
  OBVIOUS
<1> HIDE DEF R
<1>2. s \in Seq(R) /\ Len(s) = n
  BY <1>1
<1> QED BY <1>2 DEF Rows, R

\* h has the first of the sequences s, the first two of them, and so on.
Sums(S, s, h) ==
    /\ h \in [0 .. Len(s) -> Seq(S)] /\ h[0] = <<>>
    /\ \A k \in 1 .. Len(s) : h[k] = h[k - 1] \o s[k]

LEMMA SumsExist ==
    ASSUME NEW S, NEW s \in Rows(S)
    PROVE  \E h : Sums(S, s, h)
<1>1. PICK N \in Nat : N = Len(s)
  BY RowFacts
<1> DEFINE Upto(k) == \E h : /\ h \in [0 .. k -> Seq(S)] /\ h[0] = <<>>
                             /\ \A j \in 1 .. k : h[j] = h[j - 1] \o s[j]
           Bad     == {k \in 0 .. N : ~Upto(k)}
<1>2. Bad = {}
  <2> SUFFICES ASSUME Bad # {} PROVE FALSE
    OBVIOUS
  <2>1. PICK k \in Bad : \A m \in Bad : k <= m
    <3> HIDE DEF Upto
    <3>1. Bad \in SUBSET Nat
      OBVIOUS
    <3> HIDE DEF Bad
    <3> QED BY <3>1, LeastNat
  <2>2. CASE k = 0
    <3>0. <<>> \in Seq(S)
      BY EmptySeq
    <3>1. [j \in 0 .. 0 |-> <<>>] \in [0 .. 0 -> Seq(S)]
      BY <3>0
    <3>2. Upto(0)
      <4> WITNESS [j \in 0 .. 0 |-> <<>>]
      <4> QED BY <3>1
    <3> QED BY <2>1, <2>2, <3>2
  <2>3. CASE k # 0
    <3>1. k - 1 \in 0 .. N /\ k \in 1 .. N /\ ~(k <= k - 1)
      BY <2>1, <2>3
    <3>2. Upto(k - 1)
      BY <2>1, <3>1
    <3>3. PICK h : /\ h \in [0 .. k - 1 -> Seq(S)] /\ h[0] = <<>>
                   /\ \A j \in 1 .. k - 1 : h[j] = h[j - 1] \o s[j]
      BY <3>2
    <3> DEFINE g == [j \in 0 .. k |-> IF j = k THEN h[k - 1] \o s[k] ELSE h[j]]
    <3>4. s[k] \in Seq(S) /\ h[k - 1] \in Seq(S)
      BY <1>1, <3>1, <3>3, RowFacts
    <3>5. h[k - 1] \o s[k] \in Seq(S)
      BY <3>4, ConcatProperties
    <3>6. \A j \in 0 .. k : j # k => j \in 0 .. k - 1
      BY <3>1
    <3>7. g \in [0 .. k -> Seq(S)]
      BY <3>3, <3>5, <3>6
    <3>8. g[0] = <<>>
      BY <3>1, <3>3
    <3>9. ASSUME NEW j \in 1 .. k PROVE g[j] = g[j - 1] \o s[j]
      <4>1. j - 1 \in 0 .. k /\ j - 1 # k /\ j \in 0 .. k
        BY <3>1
      <4>2. g[j - 1] = h[j - 1]
        BY <4>1
      <4>3. CASE j = k
        BY <4>1, <4>2, <4>3
      <4>4. CASE j # k
        <5>1. j \in 1 .. k - 1 /\ g[j] = h[j]
          BY <3>1, <4>1, <4>4
        <5> QED BY <3>3, <4>2, <5>1
      <4> QED BY <4>3, <4>4
    <3> HIDE DEF g
    <3>10. Upto(k)
      BY <3>7, <3>8, <3>9
    <3> HIDE DEF Upto
    <3> QED BY <2>1, <3>10
  <2> QED BY <2>2, <2>3
<1>3. N \in 0 .. N
  OBVIOUS
<1>4. Upto(N)
  BY <1>2, <1>3
<1>5. PICK h : /\ h \in [0 .. N -> Seq(S)] /\ h[0] = <<>>
               /\ \A j \in 1 .. N : h[j] = h[j - 1] \o s[j]
  BY <1>4
<1> QED BY <1>1, <1>5 DEF Sums

\* FlattenSeq is the last of them.
LEMMA FlattenIs ==
    ASSUME NEW S, NEW s \in Rows(S)
    PROVE  \E h : Sums(S, s, h) /\ FlattenSeq(s) = h[Len(s)]
<1>1. PICK h : Sums(S, s, h)
  BY SumsExist
<1>2. CASE Len(s) = 0
  <2>1. s = <<>>
    BY <1>2, RowFacts
  <2>2. FlattenSeq(s) = <<>>
    BY <1>2, <2>1 DEF FlattenSeq
  <2> QED BY <1>1, <1>2, <2>2 DEF Sums
<1>3. CASE Len(s) # 0
  <2> DEFINE Meets(f) == f = [k \in 1 .. Len(s) |-> IF k = 1 THEN s[k] ELSE f[k-1] \o s[k]]
             flat     == CHOOSE f : Meets(f)
  <2>1. FlattenSeq(s) = flat[Len(s)]
    BY <1>3 DEF FlattenSeq
  <2> DEFINE g == [k \in 1 .. Len(s) |-> h[k]]
  <2>0. Len(s) \in Nat \ {0}
    BY <1>3, RowFacts
  <2>2. /\ Len(s) \in Nat \ {0} /\ h[0] = <<>> /\ h \in [0 .. Len(s) -> Seq(S)]
        /\ \A k \in 1 .. Len(s) : h[k] = h[k - 1] \o s[k]
    BY <1>1, <2>0, Zenon DEF Sums
  <2>3. s[1] \in Seq(S)
    BY <2>0, RowFacts
  <2>4. h[1] = s[1]
    <3>1. 1 \in 1 .. Len(s) /\ 1 - 1 = 0
      BY <2>0
    <3>2. h[1] = <<>> \o s[1]
      <4>1. h[1] = h[1 - 1] \o s[1]
        BY <2>2, <3>1, Zenon
      <4> QED BY <2>2, <3>1, <4>1, Zenon
    <3> QED BY <2>3, <3>2, ConcatEmptySeq, Zenon
  <2>5. ASSUME NEW k \in 1 .. Len(s), k # 1 PROVE h[k] = g[k-1] \o s[k]
    <3>1. k - 1 \in 1 .. Len(s)
      BY <2>5
    <3> QED BY <2>2, <3>1
  <2>6. \A k \in 1 .. Len(s) : h[k] = IF k = 1 THEN s[k] ELSE g[k-1] \o s[k]
    BY <2>4, <2>5
  <2>7. [k \in 1 .. Len(s) |-> h[k]]
            = [k \in 1 .. Len(s) |-> IF k = 1 THEN s[k] ELSE g[k-1] \o s[k]]
    BY <2>6
  <2>8. Meets(g)
    BY <2>7
  <2>9. Meets(flat)
    <3> HIDE DEF Meets, g
    <3> QED BY <2>8
  <2>10. flat = [k \in 1 .. Len(s) |-> IF k = 1 THEN s[k] ELSE flat[k-1] \o s[k]]
    BY <2>9
  <2> HIDE DEF flat, Meets, g
  <2>11. \A k \in 1 .. Len(s) : flat[k] = IF k = 1 THEN s[k] ELSE flat[k-1] \o s[k]
    <3> TAKE k \in 1 .. Len(s)
    <3> QED BY <2>10
  <2> DEFINE Differ == {k \in 1 .. Len(s) : flat[k] # h[k]}
  <2>12. Differ = {}
    <3> SUFFICES ASSUME Differ # {} PROVE FALSE
      OBVIOUS
    <3>1. PICK k \in Differ : \A m \in Differ : k <= m
      <4>1. Differ \in SUBSET Nat
        OBVIOUS
      <4> HIDE DEF Differ
      <4> QED BY <4>1, LeastNat
    <3>2. CASE k = 1
      BY <2>4, <2>11, <3>1, <3>2
    <3>3. CASE k # 1
      <4>1. k - 1 \in 1 .. Len(s) /\ ~(k <= k - 1) /\ k \in 1 .. Len(s)
        BY <3>1, <3>3
      <4>2. flat[k - 1] = h[k - 1]
        BY <3>1, <4>1
      <4>3. flat[k] = flat[k - 1] \o s[k]
        BY <2>11, <3>3, <4>1
      <4> QED BY <2>2, <3>1, <4>1, <4>2, <4>3
    <3> QED BY <3>2, <3>3
  <2>13. flat[Len(s)] = h[Len(s)]
    <3>1. Len(s) \in 1 .. Len(s)
      BY <2>0
    <3> QED BY <2>12, <3>1, Zenon
  <2> QED BY <1>1, <2>1, <2>13
<1> QED BY <1>2, <1>3

\* What is put together from equal parts is equal.
LEMMA SumsAgree ==
    ASSUME NEW S, NEW s \in Rows(S), NEW t \in Rows(S),
           NEW h, Sums(S, s, h), NEW g, Sums(S, t, g),
           NEW n \in Nat, n <= Len(s), n <= Len(t), \A k \in 1 .. n : s[k] = t[k]
    PROVE  h[n] = g[n]
<1> DEFINE Differ == {k \in 0 .. n : h[k] # g[k]}
<1>1. /\ h[0] = <<>> /\ g[0] = <<>>
      /\ \A k \in 1 .. n : h[k] = h[k - 1] \o s[k] /\ g[k] = g[k - 1] \o t[k]
  <2>1. \A k \in 1 .. n : k \in 1 .. Len(s) /\ k \in 1 .. Len(t)
    BY RowFacts
  <2> QED BY <2>1, Zenon DEF Sums
<1>2. Differ = {}
  <2> SUFFICES ASSUME Differ # {} PROVE FALSE
    OBVIOUS
  <2>1. PICK k \in Differ : \A m \in Differ : k <= m
    <3>1. Differ \in SUBSET Nat
      OBVIOUS
    <3> HIDE DEF Differ
    <3> QED BY <3>1, LeastNat
  <2>2. CASE k = 0
    BY <1>1, <2>1, <2>2
  <2>3. CASE k # 0
    <3>1. k - 1 \in 0 .. n /\ ~(k <= k - 1) /\ k \in 1 .. n
      BY <2>1, <2>3
    <3>2. h[k - 1] = g[k - 1]
      BY <2>1, <3>1
    <3> QED BY <1>1, <2>1, <3>1, <3>2
  <2> QED BY <2>2, <2>3
<1> QED BY <1>2

LEMMA FlattenType ==
    ASSUME NEW S, NEW s \in Rows(S)
    PROVE  FlattenSeq(s) \in Seq(S) /\ (Len(s) = 0 => FlattenSeq(s) = <<>>)
<1>1. PICK h : Sums(S, s, h) /\ FlattenSeq(s) = h[Len(s)]
  BY FlattenIs
<1>2. Len(s) \in 0 .. Len(s)
  OBVIOUS
<1> QED BY <1>1, <1>2 DEF Sums

\* One more at the end, and one more at the front.
LEMMA FlattenAppend ==
    ASSUME NEW S, NEW s \in Rows(S), NEW t \in Rows(S), Len(t) = Len(s) + 1,
           \A k \in 1 .. Len(s) : t[k] = s[k]
    PROVE  FlattenSeq(t) = FlattenSeq(s) \o t[Len(t)]
<1>1. PICK h : Sums(S, s, h) /\ FlattenSeq(s) = h[Len(s)]
  BY FlattenIs
<1>2. PICK g : Sums(S, t, g) /\ FlattenSeq(t) = g[Len(t)]
  BY FlattenIs
<1>3. PICK n \in Nat : n = Len(s)
  OBVIOUS
<1>4. h[n] = g[n]
  <2>1. n \in Nat /\ n <= Len(s) /\ n <= Len(t)
    BY <1>3
  <2>3. \A k \in 1 .. n : s[k] = t[k]
    BY <1>3, Zenon
  <2>2. Sums(S, s, h) /\ Sums(S, t, g)
    BY <1>1, <1>2
  <2> HIDE DEF Sums
  <2> QED BY <2>1, <2>2, <2>3, SumsAgree
<1>5. g[n + 1] = g[n] \o t[n + 1]
  <2>1. n + 1 \in 1 .. Len(t) /\ (n + 1) - 1 = n
    BY <1>3
  <2>2. \A k \in 1 .. Len(t) : g[k] = g[k - 1] \o t[k]
    BY <1>2 DEF Sums
  <2> QED BY <2>1, <2>2
<1> QED BY <1>1, <1>2, <1>3, <1>4, <1>5

LEMMA FlattenCons ==
    ASSUME NEW S, NEW s \in Rows(S), NEW t \in Rows(S), Len(t) = Len(s) + 1,
           \A k \in 1 .. Len(s) : t[k + 1] = s[k]
    PROVE  FlattenSeq(t) = t[1] \o FlattenSeq(s)
<1>1. PICK h : Sums(S, s, h) /\ FlattenSeq(s) = h[Len(s)]
  BY FlattenIs
<1>2. PICK g : Sums(S, t, g) /\ FlattenSeq(t) = g[Len(t)]
  BY FlattenIs
<1>3. PICK n \in Nat : n = Len(s)
  OBVIOUS
<1>4. t[1] \in Seq(S) /\ \A k \in 1 .. n : s[k] \in Seq(S)
  BY <1>3, RowFacts
<1>5. /\ h[0] = <<>> /\ \A k \in 0 .. n : h[k] \in Seq(S)
      /\ \A k \in 1 .. n : h[k] = h[k - 1] \o s[k]
  BY <1>1, <1>3 DEF Sums
<1>6. g[0] = <<>> /\ \A k \in 1 .. n + 1 : g[k] = g[k - 1] \o t[k]
  BY <1>2, <1>3 DEF Sums
<1>s. ASSUME NEW k \in 1 .. n, g[k] = t[1] \o h[k - 1]
      PROVE  g[k + 1] = t[1] \o h[k]
  <2>1. g[k + 1] = g[k] \o s[k]
    <3>1. k + 1 \in 1 .. n + 1 /\ (k + 1) - 1 = k /\ t[k + 1] = s[k]
      BY <1>3
    <3> QED BY <1>6, <3>1
  <2>2. t[1] \in Seq(S) /\ h[k - 1] \in Seq(S) /\ s[k] \in Seq(S)
    <3>1. k - 1 \in 0 .. n
      OBVIOUS
    <3> QED BY <1>4, <1>5, <3>1, Zenon
  <2>3. h[k] = h[k - 1] \o s[k]
    BY <1>5, Zenon
  <2>4. \A a, b, c \in Seq(S) : (a \o b) \o c = a \o (b \o c)
    BY ConcatAssociative
  <2>5. (t[1] \o h[k - 1]) \o s[k] = t[1] \o (h[k - 1] \o s[k])
    BY <2>2, <2>4, Zenon
  <2> QED BY <1>s, <2>1, <2>3, <2>5
<1> DEFINE Same(k) == g[k + 1] = t[1] \o h[k]
           Differ  == {k \in 0 .. n : ~Same(k)}
<1>7. Differ = {}
  <2> SUFFICES ASSUME Differ # {} PROVE FALSE
    OBVIOUS
  <2>1. PICK k \in Differ : \A m \in Differ : k <= m
    <3> HIDE DEF Same
    <3>1. Differ \in SUBSET Nat
      OBVIOUS
    <3> HIDE DEF Differ
    <3> QED BY <3>1, LeastNat
  <2>2. CASE k = 0
    <3>1. g[1] = <<>> \o t[1]
      <4>1. 1 \in 1 .. n + 1 /\ 1 - 1 = 0
        OBVIOUS
      <4>2. g[1] = g[1 - 1] \o t[1]
        BY <1>6, <4>1, Zenon
      <4> QED BY <1>6, <4>1, <4>2, Zenon
    <3>2. g[1] = t[1]
      BY <1>4, <3>1, ConcatEmptySeq, Zenon
    <3>3. t[1] \o h[0] = t[1]
      BY <1>4, <1>5, ConcatEmptySeq, Zenon
    <3>4. Same(0)
      <4>1. 0 + 1 = 1
        OBVIOUS
      <4> QED BY <3>2, <3>3, <4>1, Zenon
    <3> HIDE DEF Same
    <3> QED BY <2>1, <2>2, <3>4
  <2>3. CASE k # 0
    <3>1. k - 1 \in 0 .. n /\ ~(k <= k - 1) /\ k \in 1 .. n /\ (k - 1) + 1 = k
      BY <2>1, <2>3
    <3>2. g[k] = t[1] \o h[k - 1]
      BY <2>1, <3>1
    <3>3. Same(k)
      BY <1>s, <3>1, <3>2
    <3> HIDE DEF Same
    <3> QED BY <2>1, <3>3
  <2> QED BY <2>2, <2>3
<1>8. Same(n)
  <2>1. n \in 0 .. n
    OBVIOUS
  <2> HIDE DEF Same
  <2> QED BY <1>7, <2>1
<1> QED BY <1>1, <1>2, <1>3, <1>8
=============================================================================
