------------------------------ MODULE Folding ------------------------------
(***************************************************************************)
(* What a fold keeps.  The community modules' FoldSet, FoldLeft and        *)
(* FoldRight take the step of the fold as a parameter; so does this        *)
(* module, but as a constant, for which an instance of it gives the step   *)
(* of one fold.  Folded is what the definition of such a fold says when it *)
(* is expanded: Pick chooses the element whose step comes last, then the   *)
(* one whose step comes before it, and so on.                              *)
(***************************************************************************)
EXTENDS SequenceFacts

CONSTANTS
    Op(_, _, _),    \* Op(f, x, v): the step for element x, after v; f is whatever else it needs
    Pick(_),        \* the element of a set whose step comes last
    Good(_, _, _)   \* Good(f, s, v): what is true of v after the steps for the elements in s

Folding(f, base, S, iter) ==
    iter = [s \in SUBSET S |-> IF s = {} THEN base ELSE Op(f, Pick(s), iter[s \ {Pick(s)}])]

Folded(f, base, S) ==
    (CHOOSE iter : iter = [s \in SUBSET S |->
                             IF s = {} THEN base ELSE Op(f, Pick(s), iter[s \ {Pick(s)}])])[S]

\* A set loses one when an element of it is taken.
LEMMA OneLess ==
    ASSUME NEW S, IsFiniteSet(S), NEW s \in SUBSET S, s # {}, NEW x \in s
    PROVE  /\ s \ {x} \in SUBSET S
           /\ Cardinality(s) \in Nat \ {0}
           /\ Cardinality(s \ {x}) = Cardinality(s) - 1
  <1>1. IsFiniteSet(s)
    BY FS_Subset
  <1>2. Cardinality(s) \in Nat /\ Cardinality(s) # 0
    BY <1>1, FS_CardinalityType, FS_EmptySet
  <1> QED
    BY <1>1, <1>2, FS_RemoveElement

\* A fold over a finite set is defined.
LEMMA FoldExists ==
    ASSUME NEW S, NEW f, NEW base, IsFiniteSet(S),
           \A s \in SUBSET S : s # {} => Pick(s) \in s
    PROVE  \E iter : Folding(f, base, S, iter)
  <1> DEFINE Level(n) == {s \in SUBSET S : Cardinality(s) <= n}
             Body(g, s) == IF s = {} THEN base ELSE Op(f, Pick(s), g[s \ {Pick(s)}])
             Partly(g, n) == g = [s \in Level(n) |-> Body(g, s)]
             Bad == {n \in Nat : ~ \E g : Partly(g, n)}
  <1>1. \A s \in SUBSET S : Cardinality(s) \in Nat /\ (Cardinality(s) = 0 => s = {})
    <2> SUFFICES ASSUME NEW s \in SUBSET S
                 PROVE  Cardinality(s) \in Nat /\ (Cardinality(s) = 0 => s = {})
      OBVIOUS
    <2>1. IsFiniteSet(s)
      BY FS_Subset
    <2> QED
      BY <2>1, FS_CardinalityType, FS_EmptySet
  <1>2. Bad = {}
    <2> SUFFICES ASSUME Bad # {} PROVE FALSE
      OBVIOUS
    <2>1. PICK n \in Bad : \A k \in Bad : n <= k
      <3> HIDE DEF Partly
      <3> QED
        BY LowestMember
    <2>2. CASE n = 0
      <3> DEFINE g == [s \in Level(0) |-> base]
      <3>1. \A s \in Level(0) : s = {}
        BY <1>1
      <3>2. g = [s \in Level(0) |-> Body(g, s)]
        <4>1. \A s \in Level(0) : Body(g, s) = base
          BY <3>1
        <4> HIDE DEF Body, Level
        <4> QED
          BY <4>1
      <3>3. Partly(g, 0)
        BY <3>2
      <3> HIDE DEF Partly, g
      <3> QED
        BY <2>2, <3>3
    <2>3. CASE n # 0
      <3>1. n - 1 \in Nat /\ n \in Nat
        BY <2>3
      <3>2. \E g : Partly(g, n - 1)
        <4> HIDE DEF Partly
        <4> QED
          BY <2>1, <3>1
      <3>3. PICK g : Partly(g, n - 1)
        BY <3>2
      <3> DEFINE h == [s \in Level(n) |-> Body(g, s)]
      <3>4. \A s \in Level(n - 1) : s \in Level(n) /\ h[s] = g[s]
        <4>1. \A s \in Level(n - 1) : s \in Level(n)
          BY <1>1, <3>1
        <4>2. \A s \in Level(n - 1) : g[s] = Body(g, s)
          <5> HIDE DEF Body, Level
          <5> QED
            BY <3>3
        <4> HIDE DEF Body, Level
        <4> QED
          BY <4>1, <4>2
      <3>5. \A s \in Level(n) : s # {} => s \ {Pick(s)} \in Level(n - 1)
        <4> SUFFICES ASSUME NEW s \in Level(n), s # {} PROVE s \ {Pick(s)} \in Level(n - 1)
          OBVIOUS
        <4>1. Pick(s) \in s
          OBVIOUS
        <4>2. Cardinality(s \ {Pick(s)}) = Cardinality(s) - 1 /\ Cardinality(s) \in Nat
          BY <4>1, OneLess
        <4> QED
          BY <3>1, <4>2
      <3>6. \A s \in Level(n) : Body(g, s) = Body(h, s)
        <4> SUFFICES ASSUME NEW s \in Level(n), s # {} PROVE Body(g, s) = Body(h, s)
          OBVIOUS
        <4>1. h[s \ {Pick(s)}] = g[s \ {Pick(s)}]
          BY <3>4, <3>5
        <4> HIDE DEF h, Level
        <4> QED
          BY <4>1
      <3>7. h = [s \in Level(n) |-> Body(h, s)]
        <4> HIDE DEF Body, Level
        <4> QED
          BY <3>6
      <3>8. Partly(h, n)
        BY <3>7
      <3> HIDE DEF Partly, h
      <3> QED
        BY <3>8
    <2> QED
      BY <2>2, <2>3
  <1>3. Cardinality(S) \in Nat
    BY FS_CardinalityType
  <1>4. PICK g : Partly(g, Cardinality(S))
    <2> HIDE DEF Partly
    <2> QED
      BY <1>2, <1>3
  <1>5. Level(Cardinality(S)) = SUBSET S
    <2>1. \A s \in SUBSET S : Cardinality(s) <= Cardinality(S)
      BY FS_Subset
    <2> QED
      BY <2>1
  <1>6. Folding(f, base, S, g)
    <2> HIDE DEF Level
    <2> QED
      BY <1>4, <1>5 DEF Folding
  <1> QED
    BY <1>6

\* What the base has and each step keeps, as it goes on, the result has.
LEMMA FoldKeeps ==
    \A S, f, base :
        /\ IsFiniteSet(S)
        /\ \A s \in SUBSET S : s # {} => Pick(s) \in s
        /\ Good(f, {}, base)
        /\ \A s \in SUBSET S : s # {} =>
              \A v : Good(f, s \ {Pick(s)}, v) => Good(f, s, Op(f, Pick(s), v))
        => Good(f, S, Folded(f, base, S))
  <1> SUFFICES ASSUME NEW S, NEW f, NEW base, IsFiniteSet(S),
                      \A s \in SUBSET S : s # {} => Pick(s) \in s,
                      Good(f, {}, base),
                      \A s \in SUBSET S : s # {} =>
                         \A v : Good(f, s \ {Pick(s)}, v) => Good(f, s, Op(f, Pick(s), v))
               PROVE  Good(f, S, Folded(f, base, S))
    OBVIOUS
  <1> DEFINE it == CHOOSE iter : Folding(f, base, S, iter)
  <1>1. Folding(f, base, S, it)
    BY FoldExists
  <1>2. Folded(f, base, S) = it[S]
    BY DEF Folded, Folding
  <1> HIDE DEF it
  <1>3. \A s \in SUBSET S :
           it[s] = IF s = {} THEN base ELSE Op(f, Pick(s), it[s \ {Pick(s)}])
    BY <1>1 DEF Folding
  <1> DEFINE Bad == {n \in Nat : \E s \in SUBSET S : Cardinality(s) = n /\ ~Good(f, s, it[s])}
  <1>4. Bad = {}
    <2> SUFFICES ASSUME Bad # {} PROVE FALSE
      OBVIOUS
    <2>1. PICK n \in Bad : \A k \in Bad : n <= k
      BY LowestMember
    <2>2. PICK s \in SUBSET S : Cardinality(s) = n /\ ~Good(f, s, it[s])
      OBVIOUS
    <2>3. s # {}
      BY <1>3, <2>2
    <2> DEFINE x == Pick(s)
    <2>4. x \in s
      BY <2>3
    <2>5. /\ s \ {x} \in SUBSET S
          /\ n \in Nat \ {0}
          /\ Cardinality(s \ {x}) = n - 1
      BY <2>2, <2>3, <2>4, OneLess
    <2>6. n - 1 \notin Bad /\ n - 1 \in Nat
      BY <2>1, <2>5
    <2>7. Good(f, s \ {x}, it[s \ {x}])
      BY <2>5, <2>6
    <2>8. Good(f, s, Op(f, x, it[s \ {x}]))
      BY <2>3, <2>7
    <2> QED
      BY <1>3, <2>2, <2>3, <2>8
  <1>5. Cardinality(S) \in Nat
    BY FS_CardinalityType
  <1> QED
    BY <1>2, <1>4, <1>5

=============================================================================
