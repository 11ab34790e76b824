---------------------------- MODULE SequenceFacts ----------------------------
(***************************************************************************)
(* Facts about sequences and numbers that several proofs need: what is in  *)
(* a sequence and whether anything is in it twice, after the operators of  *)
(* the community modules that the models use, and what a sequence of       *)
(* events makes of a fact that each of them may set or clear.              *)
(***************************************************************************)
EXTENDS SequencesExt, FiniteSetTheorems, SequenceTheorems, WellFoundedInduction, TLAPS

\* Every set of numbers that is not empty has a least member.
LEMMA LowestMember ==
    ASSUME NEW S \in SUBSET Nat, S # {}
    PROVE  \E x \in S : \A y \in S : x <= y
  <1>1. PICK x \in S : \A y \in S : <<y, x>> \notin OpToRel(<, Nat)
    BY WFMin, NatLessThanWellFounded, Zenon
  <1>2. \A y \in S : y < x => <<y, x>> \in OpToRel(<, Nat)
    BY Zenon DEF OpToRel
  <1>3. \A y \in S : x <= y
    <2> SUFFICES ASSUME NEW y \in S PROVE x <= y
      OBVIOUS
    <2>1. ~(y < x)
      BY <1>1, <1>2
    <2> QED
      BY <2>1
  <1> QED
    BY <1>3

\* No element is in the sequence twice.
Once(s) == \A i, j \in 1..Len(s) : s[i] = s[j] => i = j

\* What is in a sequence.
In(s) == {s[i] : i \in 1..Len(s)}

\* Sequences with nothing or with one element in them.
LEMMA InShort == In(<<>>) = {} /\ \A y : In(<<y>>) = {y}
  <1>1. Len(<<>>) = 0 /\ 1..0 = {}
    OBVIOUS
  <1>2. ASSUME NEW y PROVE In(<<y>>) = {y}
    <2>1. Len(<<y>>) = 1 /\ <<y>>[1] = y /\ \A j : j \in 1..1 <=> j = 1
      OBVIOUS
    <2> QED
      BY <2>1 DEF In
  <1> QED
    BY <1>1, <1>2 DEF In

\* The elements of a sequence.
LEMMA InIsRange ==
    ASSUME NEW S, NEW s \in Seq(S)
    PROVE  /\ In(s) = Range(s)
           /\ In(s) \subseteq S
           /\ \A x : Contains(s, x) <=> x \in In(s)
  <1>1. In(s) \subseteq S
    BY ElementOfSeq DEF In
  <1>2. DOMAIN s = 1..Len(s)
    BY LenProperties
  <1> QED
    BY <1>1, <1>2 DEF In, Range, Contains

\* A sequence without repetition has as many elements as places.
LEMMA OnceCounts ==
    ASSUME NEW S, NEW s \in Seq(S), Once(s)
    PROVE  Cardinality(Range(s)) = Len(s)
  <1>1. Len(s) \in Nat /\ DOMAIN s = 1..Len(s) /\ s \in [1..Len(s) -> Range(s)]
    <2>1. Len(s) \in Nat /\ DOMAIN s = 1..Len(s) /\ s \in [1..Len(s) -> S]
      BY LenProperties
    <2> QED
      BY <2>1 DEF Range
  <1>2. s \in Bijection(1..Len(s), Range(s))
    BY <1>1 DEF Bijection, Injection, Surjection, Once, Range, IsInjective
  <1>3. IsFiniteSet(1..Len(s)) /\ Cardinality(1..Len(s)) = Len(s)
    BY <1>1, FS_Interval
  <1>4. ExistsBijection(1..Len(s), Range(s))
    BY <1>2 DEF ExistsBijection
  <1> QED
    BY <1>3, <1>4, FS_Bijection

\* One more at the end.
LEMMA AppendOnce ==
    ASSUME NEW S, NEW s \in Seq(S), NEW x \in S
    PROVE  /\ Append(s, x) \in Seq(S)
           /\ In(Append(s, x)) = In(s) \cup {x}
           /\ Once(s) /\ x \notin In(s) => Once(Append(s, x))
  <1> DEFINE t == Append(s, x)
  <1>1. /\ t \in Seq(S) /\ Len(s) \in Nat /\ Len(t) = Len(s) + 1
        /\ \A i \in 1..Len(s) : t[i] = s[i]
        /\ t[Len(s) + 1] = x
    BY AppendProperties, LenProperties
  <1> HIDE DEF t
  <1>2. \A i \in 1..Len(t) : i \in 1..Len(s) \/ i = Len(s) + 1
    BY <1>1
  <1>3. 1..Len(s) \subseteq 1..Len(t) /\ Len(s) + 1 \in 1..Len(t)
    BY <1>1
  <1>4. In(t) = In(s) \cup {x}
    BY <1>1, <1>2, <1>3 DEF In
  <1>5. Once(s) /\ x \notin In(s) => Once(t)
    BY <1>1, <1>2 DEF Once, In
  <1> QED
    BY <1>1, <1>4, <1>5 DEF t

\* Two sequences that share nothing, one after the other.
LEMMA ConcatOnce ==
    ASSUME NEW S, NEW s \in Seq(S), NEW t \in Seq(S)
    PROVE  /\ s \o t \in Seq(S)
           /\ In(s \o t) = In(s) \cup In(t)
           /\ Once(s) /\ Once(t) /\ In(s) \cap In(t) = {} => Once(s \o t)
  <1> DEFINE r == s \o t
  <1>1. /\ r \in Seq(S) /\ Len(s) \in Nat /\ Len(t) \in Nat /\ Len(r) = Len(s) + Len(t)
        /\ \A i \in 1..Len(s) + Len(t) : r[i] = IF i <= Len(s) THEN s[i] ELSE t[i - Len(s)]
    BY ConcatProperties, LenProperties
  <1> HIDE DEF r
  <1>2. \A i \in 1..Len(r) : \/ i \in 1..Len(s) /\ r[i] = s[i]
                             \/ i - Len(s) \in 1..Len(t) /\ r[i] = t[i - Len(s)]
    BY <1>1
  <1>3. /\ \A i \in 1..Len(s) : i \in 1..Len(r) /\ r[i] = s[i]
        /\ \A i \in 1..Len(t) : i + Len(s) \in 1..Len(r) /\ r[i + Len(s)] = t[i]
    <2>1. \A i \in 1..Len(s) : i \in 1..Len(r) /\ r[i] = s[i]
      BY <1>1
    <2>2. ASSUME NEW i \in 1..Len(t) PROVE i + Len(s) \in 1..Len(r) /\ r[i + Len(s)] = t[i]
      <3>1. /\ i + Len(s) \in 1..Len(s) + Len(t) /\ ~(i + Len(s) <= Len(s))
            /\ i + Len(s) - Len(s) = i
        BY <1>1
      <3> QED
        BY <1>1, <3>1
    <2> QED
      BY <2>1, <2>2
  <1>4. In(r) = In(s) \cup In(t)
    <2>1. \A x : x \in In(r) <=> \E i \in 1..Len(r) : x = r[i]
      BY DEF In
    <2>2. \A x : x \in In(s) <=> \E i \in 1..Len(s) : x = s[i]
      BY DEF In
    <2>3. \A x : x \in In(t) <=> \E i \in 1..Len(t) : x = t[i]
      BY DEF In
    <2>4. ASSUME NEW x \in In(r) PROVE x \in In(s) \/ x \in In(t)
      BY <1>2, <2>1, <2>2, <2>3
    <2>5. ASSUME NEW x, x \in In(s) \/ x \in In(t) PROVE x \in In(r)
      BY <1>3, <2>1, <2>2, <2>3, <2>5
    <2> QED
      BY <2>4, <2>5
  <1>5. ASSUME Once(s), Once(t), In(s) \cap In(t) = {} PROVE Once(r)
    <2> SUFFICES ASSUME NEW i \in 1..Len(r), NEW j \in 1..Len(r), r[i] = r[j] PROVE i = j
      BY DEF Once
    <2>1. CASE i \in 1..Len(s) /\ r[i] = s[i] /\ j \in 1..Len(s) /\ r[j] = s[j]
      BY <1>5, <2>1 DEF Once
    <2>2. CASE /\ i - Len(s) \in 1..Len(t) /\ r[i] = t[i - Len(s)]
               /\ j - Len(s) \in 1..Len(t) /\ r[j] = t[j - Len(s)]
      <3>1. i - Len(s) = j - Len(s)
        BY <1>5, <2>2 DEF Once
      <3> QED
        BY <1>1, <3>1
    <2>3. CASE /\ i \in 1..Len(s) /\ r[i] = s[i]
               /\ j - Len(s) \in 1..Len(t) /\ r[j] = t[j - Len(s)]
      BY <1>5, <2>3 DEF In
    <2>4. CASE /\ j \in 1..Len(s) /\ r[j] = s[j]
               /\ i - Len(s) \in 1..Len(t) /\ r[i] = t[i - Len(s)]
      BY <1>5, <2>4 DEF In
    <2> QED
      BY <1>2, <2>1, <2>2, <2>3, <2>4
  <1> QED
    BY <1>1, <1>4, <1>5 DEF r

\* The first of a sequence and the rest of it.
LEMMA InTail ==
    ASSUME NEW S, NEW q \in Seq(S), q # <<>>
    PROVE  In(q) = {Head(q)} \cup In(Tail(q))
  <1> DEFINE r == Tail(q)
             n == Len(r)
  <1>1. n \in Nat /\ Len(q) = n + 1 /\ Head(q) = q[1] /\ \A i \in 1..n : r[i] = q[i + 1]
    BY HeadTailProperties, EmptySeq, LenProperties
  <1> HIDE DEF r, n
  <1>2. ASSUME NEW i \in 1..n + 1 PROVE i = 1 \/ \E k \in 1..n : i = k + 1
    <2>1. CASE i = 1
      BY <2>1
    <2>2. CASE i # 1
      <3>1. i - 1 \in 1..n /\ i = (i - 1) + 1
        BY <1>1, <2>2
      <3> QED
        BY <3>1
    <2> QED
      BY <2>1, <2>2
  <1>3. 1 \in 1..n + 1 /\ \A k \in 1..n : k + 1 \in 1..n + 1
    BY <1>1
  <1>4. \A x : x \in In(q) <=> \E i \in 1..n + 1 : x = q[i]
    BY <1>1 DEF In
  <1>5. \A x : x \in In(r) <=> \E k \in 1..n : x = q[k + 1]
    BY <1>1 DEF In, n
  <1>6. \A x : x \in In(q) <=> x = Head(q) \/ x \in In(r)
    <2>1. ASSUME NEW x, x \in In(q) PROVE x = Head(q) \/ x \in In(r)
      BY <1>1, <1>2, <1>4, <1>5, <2>1
    <2>2. ASSUME NEW x, x = Head(q) \/ x \in In(r) PROVE x \in In(q)
      BY <1>1, <1>3, <1>4, <1>5, <2>2
    <2> QED
      BY <2>1, <2>2
  <1> QED
    BY <1>6 DEF r

\* Taking out the i-th element.
LEMMA RemovedAt ==
    ASSUME NEW S, NEW s \in Seq(S), NEW i \in 1..Len(s)
    PROVE  /\ RemoveAt(s, i) \in Seq(S)
           /\ Len(RemoveAt(s, i)) = Len(s) - 1
           /\ \A j \in 1..Len(s) - 1 : RemoveAt(s, i)[j] = IF j < i THEN s[j] ELSE s[j + 1]
  <1> DEFINE a == SubSeq(s, 1, i - 1)
             b == SubSeq(s, i + 1, Len(s))
  <1>1. Len(s) \in Nat /\ \A j \in 1..Len(s) : s[j] \in S
    BY LenProperties, ElementOfSeq
  <1>2. /\ a \in Seq(S) /\ Len(a) = i - 1
        /\ \A j \in 1..i - 1 : a[j] = s[j]
    <2>1. \A j \in 1..i - 1 : s[j] \in S
      BY <1>1
    <2>2. 1 \in Int /\ i - 1 \in Int
      BY <1>1
    <2> QED
      BY <1>1, <2>1, <2>2, SubSeqProperties
  <1>3. /\ b \in Seq(S) /\ Len(b) = Len(s) - i
        /\ \A j \in 1..Len(s) - i : b[j] = s[i + j]
    <2>1. \A j \in i + 1..Len(s) : s[j] \in S
      BY <1>1
    <2>2. i + 1 \in Int /\ Len(s) \in Int
      BY <1>1
    <2>3. /\ b \in Seq(S) /\ Len(b) = IF i + 1 <= Len(s) THEN Len(s) - (i + 1) + 1 ELSE 0
          /\ \A j \in 1..Len(s) - (i + 1) + 1 : b[j] = s[(i + 1) + j - 1]
      BY <2>1, <2>2, SubSeqProperties
    <2> QED
      BY <1>1, <2>3
  <1>4. RemoveAt(s, i) = a \o b
    BY DEF RemoveAt
  <1> HIDE DEF a, b
  <1>5. /\ a \o b \in Seq(S) /\ Len(a \o b) = Len(a) + Len(b)
        /\ \A j \in 1..Len(a) + Len(b) :
              (a \o b)[j] = IF j <= Len(a) THEN a[j] ELSE b[j - Len(a)]
    BY <1>2, <1>3, ConcatProperties
  <1> DEFINE c == a \o b
  <1>6. ASSUME NEW j \in 1..Len(s) - 1 PROVE c[j] = IF j < i THEN s[j] ELSE s[j + 1]
    <2>1. c[j] = IF j <= i - 1 THEN a[j] ELSE b[j - (i - 1)]
      BY <1>1, <1>2, <1>3, <1>5
    <2>2. CASE j < i
      BY <1>1, <1>2, <2>1, <2>2
    <2>3. CASE ~(j < i)
      <3> DEFINE k == j - (i - 1)
      <3>1. k \in 1..Len(s) - i /\ i + k = j + 1 /\ ~(j <= i - 1)
        BY <1>1, <2>3
      <3>2. c[j] = b[k]
        BY <2>1, <3>1
      <3> HIDE DEF k, c
      <3>3. b[k] = s[i + k]
        BY <1>3, <3>1
      <3> QED
        BY <2>3, <3>1, <3>2, <3>3
    <2> QED
      BY <2>2, <2>3
  <1> QED
    BY <1>1, <1>2, <1>3, <1>4, <1>5, <1>6

\* Without its i-th element a sequence has the same elements but, when there was no repetition, that one.
LEMMA RemovedOnce ==
    ASSUME NEW S, NEW s \in Seq(S), NEW i \in 1..Len(s)
    PROVE  /\ In(RemoveAt(s, i)) \subseteq In(s)
           /\ \A x \in In(s) : x # s[i] => x \in In(RemoveAt(s, i))
           /\ Once(s) => Once(RemoveAt(s, i)) /\ s[i] \notin In(RemoveAt(s, i))
  <1> DEFINE r == RemoveAt(s, i)
  <1>1. /\ Len(s) \in Nat /\ Len(r) = Len(s) - 1
        /\ \A j \in 1..Len(s) - 1 : r[j] = IF j < i THEN s[j] ELSE s[j + 1]
    BY RemovedAt, LenProperties
  <1> HIDE DEF r
  <1>2. \A j \in 1..Len(r) : /\ j \in 1..Len(s) /\ j + 1 \in 1..Len(s)
                             /\ r[j] = s[IF j < i THEN j ELSE j + 1]
    BY <1>1
  <1>3. \A j \in 1..Len(s) : j # i => \/ j \in 1..Len(r) /\ r[j] = s[j]
                                      \/ j - 1 \in 1..Len(r) /\ r[j - 1] = s[j]
    BY <1>1
  <1>4. In(r) \subseteq In(s)
    BY <1>2 DEF In
  <1>5. \A x \in In(s) : x # s[i] => x \in In(r)
    BY <1>3 DEF In
  <1>6. ASSUME Once(s) PROVE Once(r) /\ s[i] \notin In(r)
    <2>1. \A j \in 1..Len(r) : \A k \in 1..Len(r) :
             (IF j < i THEN j ELSE j + 1) = (IF k < i THEN k ELSE k + 1) => j = k
      BY <1>1
    <2>2. \A j \in 1..Len(r) : (IF j < i THEN j ELSE j + 1) # i
      BY <1>1
    <2>3. ASSUME NEW j \in 1..Len(r), NEW k \in 1..Len(r), r[j] = r[k] PROVE j = k
      <3> DEFINE a == IF j < i THEN j ELSE j + 1
                 b == IF k < i THEN k ELSE k + 1
      <3>1. a \in 1..Len(s) /\ b \in 1..Len(s) /\ s[a] = s[b]
        BY <1>2, <2>3
      <3>2. a = b
        <4> HIDE DEF a, b
        <4> QED
          BY <1>6, <3>1 DEF Once
      <3> QED
        BY <2>1, <3>2
    <2>4. ASSUME NEW j \in 1..Len(r), r[j] = s[i] PROVE FALSE
      <3> DEFINE a == IF j < i THEN j ELSE j + 1
      <3>1. a \in 1..Len(s) /\ s[a] = s[i]
        BY <1>2, <2>4
      <3>2. a = i
        <4> HIDE DEF a
        <4> QED
          BY <1>6, <3>1 DEF Once
      <3> QED
        BY <2>2, <3>2
    <2> QED
      BY <2>3, <2>4 DEF Once, In
  <1> QED
    BY <1>4, <1>5, <1>6 DEF r

\* The place of the first x.
LEMMA FirstPlace ==
    ASSUME NEW S, NEW s \in Seq(S), NEW x, Contains(s, x)
    PROVE  /\ {i \in 1..Len(s) : s[i] = x} # {}
           /\ Min({i \in 1..Len(s) : s[i] = x}) \in 1..Len(s)
           /\ s[Min({i \in 1..Len(s) : s[i] = x})] = x
  <1> DEFINE I == {i \in 1..Len(s) : s[i] = x}
  <1>1. I # {} /\ I \in SUBSET Nat
    BY LenProperties DEF Contains
  <1>2. \E i \in I : \A j \in I : i <= j
    BY <1>1, LowestMember
  <1>3. Min(I) \in I
    BY <1>2 DEF Min
  <1> QED
    BY <1>1, <1>3

\* RemoveFirst removes at one of the element's places.
LEMMA RemovedFirst ==
    ASSUME NEW S, NEW s \in Seq(S), NEW x, Contains(s, x)
    PROVE  \E i \in 1..Len(s) : s[i] = x /\ RemoveFirst(s, x) = RemoveAt(s, i)
  <1>1. RemoveFirst(s, x) = RemoveAt(s, Min({i \in 1..Len(s) : s[i] = x}))
    <2>1. \E i \in 1..Len(s) : s[i] = x
      BY DEF Contains
    <2> QED
      BY <2>1, FirstPlace DEF RemoveFirst, SelectInSeq
  <1> QED
    BY <1>1, FirstPlace

\* The first and the last of some positions.
LEMMA FirstAndLast ==
    ASSUME NEW n \in Nat, NEW I \in SUBSET (1..n), I # {}
    PROVE  Min(I) \in I /\ Max(I) \in I
  <1>1. Min(I) \in I
    <2>1. I \in SUBSET Nat
      OBVIOUS
    <2> QED
      BY <2>1, LowestMember DEF Min
  <1>2. Max(I) \in I
    <2> DEFINE J == {n - i : i \in I}
    <2>1. J \in SUBSET Nat /\ J # {}
      <3>1. \A i \in I : n - i \in Nat
        OBVIOUS
      <3> QED
        BY <3>1
    <2>2. PICK j \in J : \A k \in J : j <= k
      BY <2>1, LowestMember
    <2>3. PICK i \in I : j = n - i
      BY <2>2
    <2>4. \A k \in I : n - i <= n - k
      BY <2>2, <2>3
    <2>5. \A k \in I : i >= k
      <3> SUFFICES ASSUME NEW k \in I PROVE i >= k
        OBVIOUS
      <3>1. n - i <= n - k /\ n \in Int /\ i \in Int /\ k \in Int
        BY <2>4
      <3> QED
        BY <3>1
    <2> QED
      BY <2>5 DEF Max
  <1> QED
    BY <1>1, <1>2

\* A sequence of the elements of a set.
LEMMA SequenceOf ==
    ASSUME NEW S, IsFiniteSet(S)
    PROVE  SetToSeq(S) \in Seq(S) /\ In(SetToSeq(S)) = S /\ Once(SetToSeq(S))
  <1> DEFINE n == Cardinality(S)
             s == SetToSeq(S)
  <1>1. n \in Nat /\ ExistsBijection(1..n, S)
    BY FS_CardinalityType
  <1>2. PICK f : f \in Bijection(1..n, S)
    BY <1>1 DEF ExistsBijection
  <1>3. f \in [1..n -> S] /\ IsInjective(f)
    BY <1>2 DEF Bijection, Injection, IsInjective
  <1>4. s \in [1..n -> S] /\ IsInjective(s)
    BY <1>3 DEF SetToSeq
  <1> HIDE DEF s
  <1>5. s \in Seq(S) /\ Len(s) = n
    BY <1>1, <1>4
  <1>6. Once(s)
    BY <1>4, <1>5 DEF Once, IsInjective
  <1>7. Range(s) \subseteq S /\ Cardinality(Range(s)) = Cardinality(S)
    BY <1>5, <1>6, OnceCounts, InIsRange
  <1>8. Range(s) = S
    BY <1>7, FS_Subset
  <1> QED
    BY <1>5, <1>6, <1>8, InIsRange DEF s

-----------------------------------------------------------------------------
\* What FlattenSeq computes along the way.
Flattening(seqs, n, f) == f = [i \in 1..n |-> IF i = 1 THEN seqs[i] ELSE f[i - 1] \o seqs[i]]

\* What a flattening has come to at each place is a sequence of the same elements.
LEMMA FlatteningType ==
    ASSUME NEW S, NEW seqs, NEW n \in Nat, NEW f, Flattening(seqs, n, f),
           \A i \in 1..n : seqs[i] \in Seq(S)
    PROVE  \A i \in 1..n : f[i] \in Seq(S)
  <1> DEFINE Bad == {i \in 1..n : f[i] \notin Seq(S)}
  <1> SUFFICES Bad = {}
    OBVIOUS
  <1> SUFFICES ASSUME Bad # {} PROVE FALSE
    OBVIOUS
  <1>0. Bad \in SUBSET Nat
    OBVIOUS
  <1>1. PICK x \in Bad : \A y \in Bad : x <= y
    <2> HIDE DEF Bad
    <2> QED
      BY <1>0, LowestMember
  <1>2. f[x] = IF x = 1 THEN seqs[x] ELSE f[x - 1] \o seqs[x]
    BY Zenon DEF Flattening
  <1>3. CASE x = 1
    BY <1>2, <1>3
  <1>4. CASE x # 1
    <2>1. x - 1 \in 1..n /\ x - 1 \notin Bad
      BY <1>1, <1>4
    <2>2. f[x - 1] \in Seq(S) /\ seqs[x] \in Seq(S)
      BY <2>1
    <2>3. f[x - 1] \o seqs[x] \in Seq(S)
      BY <2>2, ConcatProperties
    <2> QED
      BY <1>2, <1>4, <2>3
  <1> QED
    BY <1>3, <1>4

\* FlattenSeq is defined.
LEMMA FlatteningExists ==
    ASSUME NEW seqs, NEW n \in Nat
    PROVE  \E f : Flattening(seqs, n, f)
  <1> DEFINE Bad == {k \in 0..n : ~ \E f : Flattening(seqs, k, f)}
  <1> SUFFICES ASSUME Bad # {} PROVE FALSE
    OBVIOUS
  <1>0. Bad \in SUBSET Nat
    OBVIOUS
  <1>1. PICK x \in Bad : \A y \in Bad : x <= y
    <2> HIDE DEF Bad
    <2> QED
      BY <1>0, LowestMember
  <1>2. CASE x = 0
    <2>1. Flattening(seqs, 0, [i \in {} |-> <<>>])
      BY DEF Flattening
    <2> QED
      BY <1>2, <2>1
  <1>3. CASE x # 0
    <2>1. x - 1 \in 0..n /\ x - 1 \notin Bad
      BY <1>1, <1>3
    <2>2. PICK f : Flattening(seqs, x - 1, f)
      BY <2>1
    <2> DEFINE g == [i \in 1..x |-> IF i = 1 THEN seqs[i] ELSE f[i - 1] \o seqs[i]]
    <2>0. x \in Nat
      OBVIOUS
    <2>3. \A i \in 1..(x - 1) : g[i] = f[i]
      <3>1. \A i \in 1..(x - 1) : f[i] = IF i = 1 THEN seqs[i] ELSE f[i - 1] \o seqs[i]
        BY <2>2, Zenon DEF Flattening
      <3>2. \A i \in 1..(x - 1) : i \in 1..x
        BY <2>0
      <3>3. \A i \in 1..x : g[i] = IF i = 1 THEN seqs[i] ELSE f[i - 1] \o seqs[i]
        OBVIOUS
      <3> HIDE DEF g
      <3> QED
        BY <3>1, <3>2, <3>3
    <2>4. \A i \in 1..x : i # 1 => i - 1 \in 1..(x - 1)
      BY <2>0
    <2>5. \A i \in 1..x : i # 1 => g[i - 1] = f[i - 1]
      BY <2>3, <2>4
    <2>6. Flattening(seqs, x, g)
      BY <2>5 DEF Flattening
    <2> QED
      BY <2>6
  <1> QED
    BY <1>2, <1>3

\* Flattening sequences over S gives a sequence over S.
LEMMA FlattenType ==
    ASSUME NEW S, NEW seqs \in Seq(Seq(S))
    PROVE  FlattenSeq(seqs) \in Seq(S)
  <1> DEFINE n == Len(seqs)
             f == CHOOSE f : Flattening(seqs, n, f)
  <1>0. n \in Nat
    OBVIOUS
  <1>1. CASE n = 0
    <2>1. seqs = <<>>
      BY <1>1
    <2> QED
      BY <2>1 DEF FlattenSeq
  <1>2. CASE n # 0
    <2>1. Flattening(seqs, n, f)
      BY <1>0, FlatteningExists
    <2>2. \A i \in 1..n : seqs[i] \in Seq(S)
      OBVIOUS
    <2>3. f[n] \in Seq(S)
      <3> HIDE DEF f, n
      <3>1. \A i \in 1..n : f[i] \in Seq(S)
        BY <1>0, <2>1, <2>2, FlatteningType
      <3> QED
        BY <1>0, <1>2, <3>1
    <2>4. FlattenSeq(seqs) = f[n]
      BY <1>2 DEF FlattenSeq, Flattening
    <2> QED
      BY <2>3, <2>4
  <1> QED
    BY <1>1, <1>2

\* What has been put in along the way.
LEMMA FlatteningIn ==
    ASSUME NEW S, NEW seqs, NEW n \in Nat, NEW f, Flattening(seqs, n, f),
           \A i \in 1..n : seqs[i] \in Seq(S)
    PROVE  \A k \in 1..n : /\ f[k] \in Seq(S)
                            /\ \A x : x \in In(f[k]) <=> \E i \in 1..k : x \in In(seqs[i])
  <1> DEFINE Right(k) == \A x : x \in In(f[k]) <=> \E i \in 1..k : x \in In(seqs[i])
             Bad == {k \in 1..n : ~Right(k)}
  <1> SUFFICES ASSUME Bad # {} PROVE FALSE
    BY FlatteningType
  <1>0. Bad \in SUBSET Nat
    OBVIOUS
  <1>1. PICK k \in Bad : \A y \in Bad : k <= y
    <2> HIDE DEF Bad
    <2> QED
      BY <1>0, LowestMember
  <1>2. f[k] = IF k = 1 THEN seqs[k] ELSE f[k - 1] \o seqs[k]
    BY Zenon DEF Flattening
  <1>3. \A i \in 1..n : f[i] \in Seq(S)
    BY FlatteningType
  <1>4. CASE k = 1
    <2>1. \A i : i \in 1..1 <=> i = 1
      OBVIOUS
    <2>2. Right(1)
      BY <1>2, <1>4, <2>1
    <2> QED
      BY <1>4, <2>2
  <1>5. CASE k # 1
    <2>1. k \in 1..n /\ k - 1 \in 1..n /\ ~(k <= k - 1)
      BY <1>5
    <2>2. \A i : i \in 1..k <=> i \in 1..k - 1 \/ i = k
      BY <2>1
    <2>3. k - 1 \notin Bad
      BY <1>1, <2>1
    <2>4. Right(k - 1)
      BY <2>1, <2>3
    <2>5. In(f[k - 1] \o seqs[k]) = In(f[k - 1]) \cup In(seqs[k])
      BY <1>3, <2>1, ConcatOnce
    <2>6. In(f[k]) = In(f[k - 1]) \cup In(seqs[k])
      BY <1>2, <1>5, <2>5
    <2>7. Right(k)
      BY <2>2, <2>4, <2>6
    <2> QED
      BY <2>7
  <1> QED
    BY <1>4, <1>5

\* Flattening loses nothing and adds nothing.
LEMMA FlattenIn ==
    ASSUME NEW S, NEW seqs \in Seq(Seq(S))
    PROVE  \A x : x \in In(FlattenSeq(seqs)) <=> \E i \in 1..Len(seqs) : x \in In(seqs[i])
  <1> DEFINE n == Len(seqs)
             f == CHOOSE f : Flattening(seqs, n, f)
  <1>0. n \in Nat
    OBVIOUS
  <1>1. CASE n = 0
    <2>1. seqs = <<>>
      BY <1>1
    <2>2. FlattenSeq(seqs) = <<>>
      BY <2>1 DEF FlattenSeq
    <2>3. \A x : x \notin In(<<>>)
      <3>1. Len(<<>>) = 0 /\ 1..0 = {}
        OBVIOUS
      <3> QED
        BY <3>1 DEF In
    <2> QED
      BY <1>1, <2>2, <2>3
  <1>2. CASE n # 0
    <2>1. Flattening(seqs, n, f)
      BY <1>0, FlatteningExists
    <2>2. \A i \in 1..n : seqs[i] \in Seq(S)
      OBVIOUS
    <2>3. \A x : x \in In(f[n]) <=> \E i \in 1..n : x \in In(seqs[i])
      <3> HIDE DEF f, n
      <3>1. \A k \in 1..n : /\ f[k] \in Seq(S)
                             /\ \A x : x \in In(f[k]) <=> \E i \in 1..k : x \in In(seqs[i])
        BY <1>0, <2>1, <2>2, FlatteningIn
      <3>2. n \in 1..n
        BY <1>0, <1>2
      <3> QED
        BY <3>1, <3>2
    <2>4. FlattenSeq(seqs) = f[n]
      BY <1>2 DEF FlattenSeq, Flattening
    <2> QED
      BY <2>3, <2>4
  <1> QED
    BY <1>1, <1>2

-----------------------------------------------------------------------------
\* What a sequence of events makes of a fact that some of them (S) make true and others
\* (U) make false: it is true in the end if one made it true and none after that made
\* it false, or if it was true before and none made it false.
Clear(q, U) == \A j \in 1..Len(q) : q[j] \notin U
Lasts(q, S, U) == \E i \in 1..Len(q) : q[i] \in S /\ \A j \in i + 1..Len(q) : q[j] \notin U

\* No event at all.
LEMMA NothingLasts == \A S, U : Clear(<<>>, U) /\ ~Lasts(<<>>, S, U)
  BY DEF Clear, Lasts

\* The first event and the rest.
LEMMA LastsTail ==
    ASSUME NEW T, NEW q \in Seq(T), q # <<>>, NEW S, NEW U
    PROVE  /\ Clear(q, U) <=> Head(q) \notin U /\ Clear(Tail(q), U)
           /\ Lasts(q, S, U) <=> \/ Head(q) \in S /\ Clear(Tail(q), U)
                                 \/ Lasts(Tail(q), S, U)
  <1> DEFINE r == Tail(q)
             n == Len(r)
  <1>1. n \in Nat /\ Len(q) = n + 1 /\ Head(q) = q[1] /\ \A i \in 1..n : r[i] = q[i + 1]
    BY HeadTailProperties, EmptySeq, LenProperties
  <1> HIDE DEF r, n
  <1>2. ASSUME NEW i \in 0..n
        PROVE  (\A j \in i + 1..n : r[j] \notin U) <=> \A j \in i + 2..n + 1 : q[j] \notin U
    <2>1. ASSUME \A j \in i + 1..n : r[j] \notin U, NEW j \in i + 2..n + 1 PROVE q[j] \notin U
      <3>1. j - 1 \in i + 1..n /\ j - 1 \in 1..n /\ (j - 1) + 1 = j
        BY <1>1
      <3> QED
        BY <1>1, <2>1, <3>1
    <2>2. ASSUME \A j \in i + 2..n + 1 : q[j] \notin U, NEW j \in i + 1..n PROVE r[j] \notin U
      <3>1. j + 1 \in i + 2..n + 1 /\ j \in 1..n
        BY <1>1
      <3> QED
        BY <1>1, <2>2, <3>1
    <2> QED
      BY <2>1, <2>2
  <1>3. Clear(r, U) <=> \A j \in 2..n + 1 : q[j] \notin U
    <2>1. 0 \in 0..n /\ 0 + 1 = 1 /\ 0 + 2 = 2
      BY <1>1
    <2> QED
      BY <1>2, <2>1 DEF Clear, n
  <1>4. \A j : j \in 1..n + 1 <=> j = 1 \/ j \in 2..n + 1
    BY <1>1
  <1>5. Clear(q, U) <=> Head(q) \notin U /\ Clear(r, U)
    BY <1>1, <1>3, <1>4 DEF Clear
  <1>6. (\E i \in 2..n + 1 : q[i] \in S /\ \A j \in i + 1..n + 1 : q[j] \notin U) <=> Lasts(r, S, U)
    <2>1. ASSUME NEW i \in 2..n + 1, q[i] \in S, \A j \in i + 1..n + 1 : q[j] \notin U
          PROVE  Lasts(r, S, U)
      <3>1. PICK k \in 1..n : k = i - 1 /\ k \in 0..n /\ k + 1 = i /\ k + 2 = i + 1
        BY <1>1
      <3>2. r[k] \in S /\ \A j \in k + 1..n : r[j] \notin U
        BY <1>1, <1>2, <2>1, <3>1
      <3> QED
        BY <3>2 DEF Lasts, n
    <2>2. ASSUME NEW k \in 1..n, r[k] \in S, \A j \in k + 1..n : r[j] \notin U
          PROVE  \E i \in 2..n + 1 : q[i] \in S /\ \A j \in i + 1..n + 1 : q[j] \notin U
      <3>1. k \in 0..n /\ k + 1 \in 2..n + 1 /\ (k + 1) + 1 = k + 2
        BY <1>1
      <3>2. q[k + 1] \in S /\ \A j \in (k + 1) + 1..n + 1 : q[j] \notin U
        BY <1>1, <1>2, <2>2, <3>1
      <3> QED
        BY <3>1, <3>2
    <2> QED
      BY <2>1, <2>2 DEF Lasts, n
  <1>7. Lasts(q, S, U) <=> (Head(q) \in S /\ Clear(r, U)) \/ Lasts(r, S, U)
    <2>1. 1 \in 1..n + 1 /\ 1 + 1 = 2
      BY <1>1
    <2>2. Lasts(q, S, U) <=> \/ q[1] \in S /\ \A j \in 2..n + 1 : q[j] \notin U
                             \/ \E i \in 2..n + 1 : q[i] \in S /\ \A j \in i + 1..n + 1 : q[j] \notin U
      BY <1>1, <1>4, <2>1 DEF Lasts
    <2> QED
      BY <1>1, <1>3, <1>6, <2>2
  <1> QED
    BY <1>5, <1>7 DEF r

\* Further events.
LEMMA LastsAppend ==
    ASSUME NEW T, NEW q \in Seq(T), NEW c \in Seq(T), NEW S, NEW U
    PROVE  /\ Clear(q \o c, U) <=> Clear(q, U) /\ Clear(c, U)
           /\ Lasts(q \o c, S, U) <=> Lasts(c, S, U) \/ (Lasts(q, S, U) /\ Clear(c, U))
  <1> DEFINE r == q \o c
             n == Len(q)
             k == Len(c)
  <1>1. /\ n \in Nat /\ k \in Nat /\ Len(r) = n + k
        /\ \A i \in 1..n : r[i] = q[i]
        /\ \A i \in 1..k : r[n + i] = c[i]
    OBVIOUS
  <1> HIDE DEF r, n, k
  <1>2. ASSUME NEW i \in 0..k
        PROVE  (\A j \in n + i + 1..n + k : r[j] \notin U) <=> \A j \in i + 1..k : c[j] \notin U
    <2>1. ASSUME \A j \in n + i + 1..n + k : r[j] \notin U, NEW j \in i + 1..k PROVE c[j] \notin U
      <3>1. n + j \in n + i + 1..n + k /\ j \in 1..k
        BY <1>1
      <3> QED
        BY <1>1, <2>1, <3>1
    <2>2. ASSUME \A j \in i + 1..k : c[j] \notin U, NEW j \in n + i + 1..n + k PROVE r[j] \notin U
      <3>1. j - n \in i + 1..k /\ j - n \in 1..k /\ n + (j - n) = j
        BY <1>1
      <3> QED
        BY <1>1, <2>2, <3>1
    <2> QED
      BY <2>1, <2>2
  <1>3. Clear(c, U) <=> \A j \in n + 1..n + k : r[j] \notin U
    <2>1. 0 \in 0..k /\ n + 0 + 1 = n + 1 /\ 0 + 1 = 1
      BY <1>1
    <2> QED
      BY <1>2, <2>1 DEF Clear, k
  <1>4. ASSUME NEW i \in 0..n
        PROVE  (\A j \in i + 1..n + k : r[j] \notin U)
                  <=> (\A j \in i + 1..n : q[j] \notin U) /\ Clear(c, U)
    <2>1. /\ \A j : j \in i + 1..n + k <=> j \in i + 1..n \/ j \in n + 1..n + k
          /\ \A j \in i + 1..n : j \in 1..n
      BY <1>1
    <2> QED
      BY <1>1, <1>3, <2>1
  <1>5. Clear(r, U) <=> Clear(q, U) /\ Clear(c, U)
    <2>1. 0 \in 0..n /\ 0 + 1 = 1
      BY <1>1
    <2> QED
      BY <1>1, <1>4, <2>1 DEF Clear, n
  <1>6. ASSUME Lasts(r, S, U) PROVE Lasts(c, S, U) \/ (Lasts(q, S, U) /\ Clear(c, U))
    <2>1. PICK i \in 1..n + k : r[i] \in S /\ \A j \in i + 1..n + k : r[j] \notin U
      BY <1>1, <1>6 DEF Lasts
    <2>2. CASE i \in 1..n
      <3>1. i \in 0..n
        BY <1>1, <2>2
      <3>2. (\A j \in i + 1..n : q[j] \notin U) /\ Clear(c, U)
        BY <1>4, <2>1, <3>1
      <3> QED
        BY <1>1, <2>1, <2>2, <3>2 DEF Lasts, n
    <2>3. CASE i \notin 1..n
      <3>1. PICK p \in 1..k : p = i - n /\ p \in 0..k /\ n + p = i /\ n + p + 1 = i + 1
        BY <1>1, <2>3
      <3>2. c[p] \in S /\ \A j \in p + 1..k : c[j] \notin U
        BY <1>1, <1>2, <2>1, <3>1
      <3> QED
        BY <3>2 DEF Lasts, k
    <2> QED
      BY <2>2, <2>3
  <1>7. ASSUME Lasts(c, S, U) PROVE Lasts(r, S, U)
    <2>1. PICK p \in 1..k : c[p] \in S /\ \A j \in p + 1..k : c[j] \notin U
      BY <1>7 DEF Lasts, k
    <2>2. p \in 0..k /\ n + p \in 1..n + k
      BY <1>1
    <2>3. r[n + p] \in S /\ \A j \in n + p + 1..n + k : r[j] \notin U
      BY <1>1, <1>2, <2>1, <2>2
    <2> QED
      BY <1>1, <2>2, <2>3 DEF Lasts
  <1>8. ASSUME Lasts(q, S, U), Clear(c, U) PROVE Lasts(r, S, U)
    <2>1. PICK i \in 1..n : q[i] \in S /\ \A j \in i + 1..n : q[j] \notin U
      BY <1>8 DEF Lasts, n
    <2>2. i \in 0..n /\ i \in 1..n + k
      BY <1>1
    <2>3. r[i] \in S /\ \A j \in i + 1..n + k : r[j] \notin U
      BY <1>1, <1>4, <1>8, <2>1, <2>2
    <2> QED
      BY <1>1, <2>2, <2>3 DEF Lasts
  <1> QED
    BY <1>5, <1>6, <1>7, <1>8 DEF r

\* What nothing undoes lasts; and with more that makes it true, and less that makes it
\* false, what lasted still does.
LEMMA LastsFrom ==
    ASSUME NEW T, NEW q \in Seq(T), NEW S, NEW U, NEW S1, NEW U1, S \subseteq S1, U1 \subseteq U
    PROVE  /\ (\E x \in In(q) : x \in S) /\ Clear(q, U) => Lasts(q, S, U)
           /\ Lasts(q, S, U) => Lasts(q, S1, U1) /\ \E x \in In(q) : x \in S
           /\ Clear(q, U) <=> \A x \in In(q) : x \notin U
           /\ Clear(q, U) => Clear(q, U1)
  <1>1. Len(q) \in Nat /\ \A i \in 1..Len(q) : \A j \in i + 1..Len(q) : j \in 1..Len(q)
    OBVIOUS
  <1>2. Clear(q, U) <=> \A x \in In(q) : x \notin U
    BY DEF Clear, In
  <1>3. (\E x \in In(q) : x \in S) /\ Clear(q, U) => Lasts(q, S, U)
    BY <1>1 DEF Clear, Lasts, In
  <1>4. Lasts(q, S, U) => Lasts(q, S1, U1) /\ \E x \in In(q) : x \in S
    BY DEF Lasts, In
  <1>5. Clear(q, U) => Clear(q, U1)
    BY DEF Clear
  <1> QED
    BY <1>2, <1>3, <1>4, <1>5
=============================================================================
