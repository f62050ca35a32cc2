---------------------------- MODULE CommonLemmas ----------------------------
(* Facts about numbers, sums and sequences that several components need.   *)
EXTENDS FiniteSetsExt, SequenceTheorems, FiniteSetTheorems, WellFoundedInduction, TLAPS

\* The order of the natural numbers as a relation.
NatLess == OpToRel(<, Nat)

\* A set of natural numbers has a smallest element.
LEMMA LeastExists ==
    ASSUME NEW T \in SUBSET Nat, T # {}
    PROVE  \E x \in T : \A y \in T : x <= y
<1>1. IsWellFoundedOn(NatLess, Nat)
  BY NatLessThanWellFounded DEF NatLess
<1>2. PICK x \in T : \A y \in T : <<y, x>> \notin NatLess
  BY <1>1, WFMin
<1>3. ASSUME NEW y \in T PROVE x <= y
  <2>1. x \in Nat /\ y \in Nat
    OBVIOUS
  <2>2. ~(y < x)
    BY <1>2, <2>1 DEF NatLess, OpToRel
  <2> QED
    BY <2>1, <2>2
<1> QED
  BY <1>3

\* Min is that element.
LEMMA MinOfNats ==
    ASSUME NEW T \in SUBSET Nat, T # {}
    PROVE  Min(T) \in T /\ \A y \in T : Min(T) <= y
BY LeastExists DEF Min

\* A bounded set of natural numbers has a largest element, and Max is it.
LEMMA MaxOfNats ==
    ASSUME NEW T \in SUBSET Nat, T # {}, NEW b \in Nat, \A y \in T : y <= b
    PROVE  Max(T) \in T /\ \A y \in T : y <= Max(T)
<1> DEFINE U == {b - y : y \in T}
<1>1. U \in SUBSET Nat /\ U # {}
  <2>1. \A y \in T : b - y \in Nat
    OBVIOUS
  <2>2. U \subseteq Nat
    BY <2>1
  <2>3. PICK y \in T : TRUE
    OBVIOUS
  <2>4. b - y \in U
    OBVIOUS
  <2> QED
    BY <2>2, <2>4
<1>2. PICK u \in U : \A v \in U : u <= v
  BY <1>1, LeastExists
<1>3. PICK x \in T : u = b - x
  BY <1>2
<1>4. \A y \in T : x >= y
  BY <1>2, <1>3
<1> QED
  BY <1>4 DEF Max

\* Finitely many natural numbers are bounded.
LEMMA Bounded ==
    ASSUME NEW n \in Nat, NEW f \in [1 .. n -> Nat]
    PROVE  \E b \in Nat : \A i \in 1 .. n : f[i] <= b
<1> DEFINE Unbounded(k) == \E g \in [1 .. k -> Nat] : \A b \in Nat : \E i \in 1 .. k : ~(g[i] <= b)
           U == {k \in Nat : Unbounded(k)}
<1> SUFFICES ASSUME U # {} PROVE FALSE
  OBVIOUS
<1>1. PICK k \in U : \A j \in U : k <= j
  <2> HIDE DEF U
  <2>1. U \in SUBSET Nat
    BY DEF U
  <2> QED
    BY <2>1, LeastExists
<1>2. PICK g \in [1 .. k -> Nat] : \A b \in Nat : \E i \in 1 .. k : ~(g[i] <= b)
  BY <1>1
<1>3. k \in Nat \ {0}
  <2>1. \E i \in 1 .. k : TRUE
    BY <1>2
  <2> QED
    BY <1>1, <2>1
<1> HIDE DEF U, Unbounded
<1>4. k - 1 \in Nat /\ k - 1 \notin U
  <2>1. k - 1 \in Nat /\ ~(k <= k - 1)
    BY <1>3
  <2> QED
    BY <1>1, <2>1
<1>5. \A i \in 1 .. (k - 1) : i \in 1 .. k /\ g[i] \in Nat
  <2>1. k \in Int /\ \A i \in 1 .. (k - 1) : i \in 1 .. k
    BY <1>3
  <2>2. \A i \in 1 .. k : g[i] \in Nat
    OBVIOUS
  <2> QED
    BY <2>1, <2>2
<1> DEFINE h == [i \in 1 .. (k - 1) |-> g[i]]
<1>6. h \in [1 .. (k - 1) -> Nat] /\ \A i \in 1 .. (k - 1) : h[i] = g[i]
  BY <1>5
<1>7. PICK b \in Nat : \A i \in 1 .. (k - 1) : g[i] <= b
  BY <1>4, <1>6 DEF U, Unbounded
<1> HIDE DEF h
<1>8. g[k] \in Nat /\ k \in 1 .. k
  BY <1>2, <1>3
<1>9. \A i \in 1 .. k : g[i] <= b + g[k]
  <2> SUFFICES ASSUME NEW i \in 1 .. k PROVE g[i] <= b + g[k]
    OBVIOUS
  <2>1. i = k \/ i \in 1 .. (k - 1)
    BY <1>3
  <2>2. CASE i = k
    BY <1>7, <1>8, <2>2
  <2>3. CASE i \in 1 .. (k - 1)
    <3>1. g[i] \in Nat /\ g[k] \in Nat /\ g[i] <= b /\ b \in Nat
      BY <1>5, <1>7, <1>8, <2>3
    <3> QED
      BY <3>1
  <2> QED
    BY <2>1, <2>2, <2>3
<1>10. b + g[k] \in Nat
  BY <1>7, <1>8
<1> QED
  BY <1>2, <1>9, <1>10

\* What taking the first element leaves.
LEMMA TailFacts ==
    ASSUME NEW S, NEW s \in Seq(S), s # <<>>
    PROVE  /\ Head(s) \in S
           /\ Head(s) = s[1]
           /\ Len(s) \in Nat \ {0}
           /\ Tail(s) \in Seq(S)
           /\ Tail(s) = <<>> <=> Len(s) = 1
           /\ \A i \in 1 .. Len(Tail(s)) : i + 1 \in 1 .. Len(s) /\ Tail(s)[i] = s[i + 1]
<1>1. Head(s) \in S /\ Tail(s) \in Seq(S) /\ Len(Tail(s)) = Len(s) - 1
      /\ \A i \in 1 .. Len(Tail(s)) : Tail(s)[i] = s[i+1]
  BY HeadTailProperties
<1>2. Len(s) \in Nat \ {0}
  BY EmptySeq
<1>3. Tail(s) = <<>> <=> Len(Tail(s)) = 0
  BY <1>1, EmptySeq
<1> QED
  BY <1>1, <1>2, <1>3

-----------------------------------------------------------------------------
(* Sums over finite sets *)

Total(f, S) == MapThenSumSet(LAMBDA x : f[x], S)

AnyOf(s) == CHOOSE x \in s : TRUE

\* What a fold over the subsets of S computes of one of them.
Summed(f, it, s) == IF s = {} THEN 0 ELSE f[AnyOf(s)] + it[s \ {AnyOf(s)}]

FoldOf(f, S, it) == it = [s \in SUBSET S |-> Summed(f, it, s)]

LEMMA TotalIs ==
    ASSUME NEW f, NEW S
    PROVE  Total(f, S) = (CHOOSE it : FoldOf(f, S, it))[S]
BY DEF Total, MapThenSumSet, MapThenFoldSet, FoldOf, Summed, AnyOf

LEMMA WithoutAny ==
    ASSUME NEW s, IsFiniteSet(s), s # {}
    PROVE  /\ AnyOf(s) \in s
           /\ IsFiniteSet(s \ {AnyOf(s)})
           /\ Cardinality(s) \in Nat \ {0}
           /\ Cardinality(s \ {AnyOf(s)}) = Cardinality(s) - 1
<1>1. AnyOf(s) \in s
  BY DEF AnyOf
<1> QED
  BY <1>1, FS_RemoveElement, FS_EmptySet, FS_CardinalityType

\* There is such a fold: each subset is given the sum after those with fewer elements.
LEMMA FoldExists ==
    ASSUME NEW S, IsFiniteSet(S), NEW f, \A y \in S : f[y] \in Nat
    PROVE  \E it : FoldOf(f, S, it)
<1> DEFINE UpTo(n) == \E g \in [SUBSET S -> Nat] :
               \A s \in SUBSET S : Cardinality(s) <= n => g[s] = Summed(f, g, s)
           Missing == {n \in Nat : ~UpTo(n)}
<1>0. \A s \in SUBSET S : IsFiniteSet(s) /\ Cardinality(s) \in Nat
  BY FS_Subset, FS_CardinalityType
<1>1. Missing = {}
  <2> SUFFICES ASSUME Missing # {} PROVE FALSE
    OBVIOUS
  <2>1. PICK n \in Missing : \A k \in Missing : n <= k
    BY LeastExists
  <2>2. n # 0
    <3> DEFINE g == [s \in SUBSET S |-> 0]
    <3>1. g \in [SUBSET S -> Nat]
      OBVIOUS
    <3>2. \A s \in SUBSET S : Cardinality(s) <= 0 => g[s] = Summed(f, g, s)
      BY <1>0, FS_EmptySet DEF Summed
    <3> QED
      BY <3>1, <3>2
  <2>3. n \in Nat /\ n - 1 \in Nat /\ UpTo(n - 1)
    <3>1. n \in Nat /\ n - 1 \in Nat /\ ~(n <= n - 1)
      BY <2>2
    <3> QED
      BY <2>1, <3>1
  <2>4. PICK g \in [SUBSET S -> Nat] :
            \A s \in SUBSET S : Cardinality(s) <= n - 1 => g[s] = Summed(f, g, s)
    BY <2>3
  <2> DEFINE h == [s \in SUBSET S |-> IF Cardinality(s) = n THEN Summed(f, g, s) ELSE g[s]]
  <2>5. ASSUME NEW s \in SUBSET S PROVE Summed(f, g, s) \in Nat
    <3>1. CASE s = {}
      BY <3>1 DEF Summed
    <3>2. CASE s # {}
      <4>1. AnyOf(s) \in S /\ s \ {AnyOf(s)} \in SUBSET S
        BY <1>0, <3>2, WithoutAny
      <4>2. f[AnyOf(s)] \in Nat /\ g[s \ {AnyOf(s)}] \in Nat
        BY <2>4, <4>1
      <4> QED
        BY <3>2, <4>2 DEF Summed
    <3> QED
      BY <3>1, <3>2
  <2>6. h \in [SUBSET S -> Nat]
    BY <2>5
  <2>7. ASSUME NEW s \in SUBSET S, Cardinality(s) <= n
        PROVE  h[s] = Summed(f, h, s)
    <3>1. h[s] = Summed(f, g, s)
      <4>1. Cardinality(s) = n \/ Cardinality(s) <= n - 1
        BY <1>0, <2>3, <2>7
      <4> QED
        BY <2>4, <4>1
    <3>2. Summed(f, h, s) = Summed(f, g, s)
      <4>1. CASE s = {}
        BY <4>1 DEF Summed
      <4>2. CASE s # {}
        <5>1. s \ {AnyOf(s)} \in SUBSET S /\ Cardinality(s \ {AnyOf(s)}) # n
          BY <1>0, <2>3, <2>7, <4>2, WithoutAny
        <5>2. h[s \ {AnyOf(s)}] = g[s \ {AnyOf(s)}]
          BY <5>1
        <5> QED
          BY <4>2, <5>2 DEF Summed
      <4> QED
        BY <4>1, <4>2
    <3> QED
      BY <3>1, <3>2
  <2>8. UpTo(n)
    BY <2>6, <2>7
  <2> QED
    BY <2>1, <2>8
<1>2. UpTo(Cardinality(S))
  BY <1>0, <1>1
<1>3. PICK g \in [SUBSET S -> Nat] :
          \A s \in SUBSET S : Cardinality(s) <= Cardinality(S) => g[s] = Summed(f, g, s)
  BY <1>2
<1>4. \A s \in SUBSET S : g[s] = Summed(f, g, s)
  BY <1>3, FS_Subset
<1>5. FoldOf(f, S, g)
  BY <1>4 DEF FoldOf
<1> QED
  BY <1>5

\* When two functions differ at one element at most, so do their sums.
LEMMA FoldsDiffer ==
    ASSUME NEW S, IsFiniteSet(S), NEW f, NEW g,
           \A y \in S : f[y] \in Nat /\ g[y] \in Nat,
           NEW i, FoldOf(f, S, i), NEW j, FoldOf(g, S, j),
           NEW x, \A y \in S \ {x} : g[y] = f[y]
    PROVE  \A s \in SUBSET S : /\ i[s] \in Nat /\ j[s] \in Nat
                               /\ j[s] = i[s] + (IF x \in s THEN g[x] - f[x] ELSE 0)
<1> DEFINE Right(s) == /\ i[s] \in Nat /\ j[s] \in Nat
                       /\ j[s] = i[s] + (IF x \in s THEN g[x] - f[x] ELSE 0)
           Wrong == {n \in Nat : \E s \in SUBSET S : Cardinality(s) = n /\ ~Right(s)}
<1>0. \A s \in SUBSET S : IsFiniteSet(s) /\ Cardinality(s) \in Nat
  BY FS_Subset, FS_CardinalityType
<1>1. \A s \in SUBSET S : i[s] = Summed(f, i, s) /\ j[s] = Summed(g, j, s)
  BY DEF FoldOf
<1>2. Wrong = {}
  <2> SUFFICES ASSUME Wrong # {} PROVE FALSE
    OBVIOUS
  <2>1. PICK n \in Wrong : \A k \in Wrong : n <= k
    BY LeastExists
  <2>2. PICK s \in SUBSET S : Cardinality(s) = n /\ ~Right(s)
    BY <2>1
  <2>3. CASE s = {}
    <3>1. i[s] = 0 /\ j[s] = 0 /\ x \notin s
      BY <1>1, <2>3 DEF Summed
    <3>2. Right(s)
      BY <3>1
    <3> QED
      BY <2>2, <3>2
  <2>4. CASE s # {}
    <3> DEFINE a == AnyOf(s)
               t == s \ {a}
    <3>1. a \in s /\ t \in SUBSET S /\ Cardinality(t) \in Nat /\ ~(n <= Cardinality(t))
      BY <1>0, <2>2, <2>4, WithoutAny
    <3>2. Right(t)
      BY <2>1, <3>1
    <3>3. i[s] = f[a] + i[t] /\ j[s] = g[a] + j[t]
      BY <1>1, <2>4 DEF Summed
    <3>4. f[a] \in Nat /\ g[a] \in Nat
      BY <3>1
    <3>5. CASE a = x
      <4>1. x \in s /\ x \notin t
        BY <3>1, <3>5
      <4>2. j[t] = i[t]
        BY <3>2, <4>1
      <4> QED
        BY <2>2, <3>2, <3>3, <3>4, <3>5, <4>1, <4>2
    <3>6. CASE a # x
      <4>1. g[a] = f[a] /\ (x \in s <=> x \in t)
        BY <3>1, <3>6
      <4>2. Right(s)
        BY <3>2, <3>3, <3>4, <4>1
      <4> QED
        BY <2>2, <4>2
    <3> QED
      BY <3>5, <3>6
  <2> QED
    BY <2>3, <2>4
<1> QED
  BY <1>0, <1>2

LEMMA TotalsDiffer ==
    ASSUME NEW S, IsFiniteSet(S), NEW f, NEW g,
           \A y \in S : f[y] \in Nat /\ g[y] \in Nat,
           NEW x, \A y \in S \ {x} : g[y] = f[y]
    PROVE  /\ Total(f, S) \in Nat /\ Total(g, S) \in Nat
           /\ Total(g, S) = Total(f, S) + (IF x \in S THEN g[x] - f[x] ELSE 0)
<1> DEFINE i == CHOOSE it : FoldOf(f, S, it)
           j == CHOOSE it : FoldOf(g, S, it)
<1>1. FoldOf(f, S, i) /\ FoldOf(g, S, j)
  BY FoldExists
<1>2. Total(f, S) = i[S] /\ Total(g, S) = j[S]
  BY TotalIs
<1> HIDE DEF i, j
<1> QED
  BY <1>1, <1>2, FoldsDiffer

\* The sum depends on the values at the elements of the set.
LEMMA TotalOfSame ==
    ASSUME NEW S, IsFiniteSet(S), NEW f, NEW g, \A y \in S : f[y] \in Nat /\ g[y] = f[y]
    PROVE  Total(f, S) \in Nat /\ Total(g, S) = Total(f, S)
<1>1. CASE S = {}
  <2>1. Total(g, S) = Total(f, S) + (IF 0 \in S THEN g[0] - f[0] ELSE 0)
    BY <1>1, TotalsDiffer
  <2>2. Total(f, S) \in Nat
    BY <1>1, TotalsDiffer
  <2> QED
    BY <1>1, <2>1, <2>2
<1>2. CASE S # {}
  <2>1. PICK x \in S : TRUE
    BY <1>2
  <2>2. /\ Total(f, S) \in Nat
        /\ Total(g, S) = Total(f, S) + (IF x \in S THEN g[x] - f[x] ELSE 0)
    BY <2>1, TotalsDiffer
  <2>3. g[x] - f[x] = 0
    BY <2>1
  <2> QED
    BY <2>1, <2>2, <2>3
<1> QED
  BY <1>1, <1>2

\* A sum of zeros.
LEMMA TotalOfZeros ==
    ASSUME NEW S, IsFiniteSet(S), NEW f, \A y \in S : f[y] = 0
    PROVE  Total(f, S) = 0
<1> DEFINE i == CHOOSE it : FoldOf(f, S, it)
<1>1. FoldOf(f, S, i)
  BY FoldExists
<1>2. Total(f, S) = i[S]
  BY TotalIs
<1> HIDE DEF i
<1>3. \A s \in SUBSET S : i[s] = Summed(f, i, s)
  BY <1>1 DEF FoldOf
<1> DEFINE Wrong == {n \in Nat : \E s \in SUBSET S : Cardinality(s) = n /\ i[s] # 0}
<1>4. Wrong = {}
  <2> SUFFICES ASSUME Wrong # {} PROVE FALSE
    OBVIOUS
  <2>1. PICK n \in Wrong : \A k \in Wrong : n <= k
    BY LeastExists
  <2>2. PICK s \in SUBSET S : Cardinality(s) = n /\ i[s] # 0
    BY <2>1
  <2>3. s # {}
    BY <1>3, <2>2 DEF Summed
  <2> DEFINE t == s \ {AnyOf(s)}
  <2>4. AnyOf(s) \in S /\ t \in SUBSET S /\ Cardinality(t) \in Nat /\ ~(n <= Cardinality(t))
    BY <2>2, <2>3, WithoutAny, FS_Subset, FS_CardinalityType
  <2>5. i[t] = 0
    BY <2>1, <2>4
  <2>6. i[s] = f[AnyOf(s)] + i[t]
    BY <1>3, <2>3 DEF Summed
  <2> QED
    BY <2>2, <2>4, <2>5, <2>6
<1> QED
  BY <1>2, <1>4, FS_CardinalityType

-----------------------------------------------------------------------------
(* Occurrences in sequences *)

Spots(s, V) == {i \in 1 .. Len(s) : s[i] \in V}
Occurs(s, V) == Cardinality(Spots(s, V))

LEMMA OccursIsNat ==
    ASSUME NEW S, NEW s \in Seq(S), NEW V
    PROVE  IsFiniteSet(Spots(s, V)) /\ Occurs(s, V) \in Nat
<1>1. Spots(s, V) \subseteq 1 .. Len(s) /\ IsFiniteSet(1 .. Len(s))
  BY FS_Interval DEF Spots
<1> QED
  BY <1>1, FS_Subset, FS_CardinalityType DEF Occurs

LEMMA OccursInEmpty == \A V : Occurs(<<>>, V) = 0
<1>1. \A V : Spots(<<>>, V) = {}
  BY DEF Spots
<1> QED
  BY <1>1, FS_EmptySet DEF Occurs

LEMMA OccursInAppend ==
    ASSUME NEW S, NEW s \in Seq(S), NEW e \in S, NEW V
    PROVE  Occurs(Append(s, e), V) = Occurs(s, V) + (IF e \in V THEN 1 ELSE 0)
<1> DEFINE last == Len(s) + 1
<1>1. /\ Append(s, e) \in Seq(S) /\ Len(Append(s, e)) = last
      /\ Append(s, e)[last] = e /\ \A i \in 1 .. Len(s) : Append(s, e)[i] = s[i]
  OBVIOUS
<1>2. Len(s) \in Nat /\ last \notin 1 .. Len(s) /\ 1 .. last = (1 .. Len(s)) \cup {last}
  OBVIOUS
<1> HIDE DEF last
<1>3. CASE e \in V
  <2>1. Spots(Append(s, e), V) = Spots(s, V) \cup {last} /\ last \notin Spots(s, V)
    BY <1>1, <1>2, <1>3 DEF Spots
  <2> QED
    BY <1>3, <2>1, OccursIsNat, FS_AddElement DEF Occurs
<1>4. CASE e \notin V
  <2>1. Spots(Append(s, e), V) = Spots(s, V)
    BY <1>1, <1>2, <1>4 DEF Spots
  <2> QED
    BY <1>4, <2>1, OccursIsNat DEF Occurs
<1> QED
  BY <1>3, <1>4

LEMMA OccursInTail ==
    ASSUME NEW S, NEW s \in Seq(S), s # <<>>, NEW V
    PROVE  Occurs(s, V) = Occurs(Tail(s), V) + (IF Head(s) \in V THEN 1 ELSE 0)
<1> DEFINE t == Tail(s)
           later == Spots(s, V) \ {1}
           shift == [i \in Spots(t, V) |-> i + 1]
<1>1. /\ Len(s) \in Nat \ {0} /\ Head(s) = s[1]
      /\ t \in Seq(S) /\ Len(t) = Len(s) - 1 /\ \A i \in 1 .. Len(t) : t[i] = s[i + 1]
  OBVIOUS
<1>2. IsFiniteSet(Spots(t, V)) /\ IsFiniteSet(Spots(s, V)) /\ Occurs(t, V) \in Nat
  BY <1>1, OccursIsNat
<1>3. shift \in Bijection(Spots(t, V), later)
  <2>1. shift \in [Spots(t, V) -> later]
    BY <1>1 DEF Spots
  <2>2. \A i, j \in Spots(t, V) : shift[i] = shift[j] => i = j
    BY <1>1 DEF Spots
  <2>3. \A j \in later : \E i \in Spots(t, V) : shift[i] = j
    <3> SUFFICES ASSUME NEW j \in later PROVE \E i \in Spots(t, V) : shift[i] = j
      OBVIOUS
    <3>1. j - 1 \in Spots(t, V) /\ (j - 1) + 1 = j
      BY <1>1 DEF Spots
    <3> QED
      BY <3>1
  <2> QED
    BY <2>1, <2>2, <2>3 DEF Bijection, Injection, Surjection, IsInjective
<1>4. Cardinality(later) = Occurs(t, V)
  BY <1>2, <1>3, FS_Bijection DEF Occurs, ExistsBijection
<1>5. CASE Head(s) \in V
  <2>1. 1 \in Spots(s, V)
    BY <1>1, <1>5 DEF Spots
  <2>2. Cardinality(later) = Occurs(s, V) - 1 /\ Occurs(s, V) \in Nat
    BY <1>2, <2>1, FS_RemoveElement, FS_CardinalityType DEF Occurs
  <2> QED
    BY <1>2, <1>4, <1>5, <2>2
<1>6. CASE Head(s) \notin V
  <2>1. later = Spots(s, V)
    BY <1>1, <1>6 DEF Spots
  <2>2. Occurs(s, V) = Occurs(t, V)
    BY <1>4, <2>1 DEF Occurs
  <2> QED
    BY <1>2, <1>6, <2>2
<1> QED
  BY <1>5, <1>6

\* One more at the front.
LEMMA OccursInFront ==
    ASSUME NEW S, NEW s \in Seq(S), NEW e \in S, NEW V
    PROVE  Occurs(<<e>> \o s, V) = Occurs(s, V) + (IF e \in V THEN 1 ELSE 0)
<1> DEFINE t == <<e>> \o s
<1>1. t \in Seq(S) /\ t # <<>> /\ Head(t) = e /\ Tail(t) = s
  <2>1. t \in Seq(S) /\ Len(t) = Len(s) + 1 /\ t[1] = e /\ \A i \in 1 .. Len(s) : t[i + 1] = s[i]
    OBVIOUS
  <2>2. Tail(t) \in Seq(S) /\ Len(Tail(t)) = Len(s) /\ \A i \in 1 .. Len(s) : Tail(t)[i] = s[i]
    BY <2>1
  <2> QED
    BY <2>1, <2>2
<1> HIDE DEF t
<1>2. Occurs(t, V) = Occurs(Tail(t), V) + (IF Head(t) \in V THEN 1 ELSE 0)
  BY <1>1, OccursInTail
<1> QED
  BY <1>1, <1>2 DEF t

\* Occurrences at the same places.
LEMMA OccursAlike ==
    ASSUME NEW s, NEW t, NEW V, Len(t) = Len(s), \A i \in 1 .. Len(s) : t[i] \in V <=> s[i] \in V
    PROVE  Occurs(t, V) = Occurs(s, V)
<1>1. Spots(t, V) = Spots(s, V)
  BY DEF Spots
<1> QED
  BY <1>1 DEF Occurs

\* What occurs in the batches of a set of workers.
InBatches(batches, W, V) == Total([w \in W |-> Occurs(batches[w], V)], W)

LEMMA InBatchesIsNat ==
    ASSUME NEW S, NEW W, IsFiniteSet(W), NEW f \in [W -> Seq(S)], NEW V
    PROVE  InBatches(f, W, V) \in Nat
<1> DEFINE m == [w \in W |-> Occurs(f[w], V)]
<1>1. \A w \in W : m[w] \in Nat /\ m[w] = m[w]
  BY OccursIsNat
<1> HIDE DEF m
<1>2. Total(m, W) \in Nat
  BY <1>1, TotalOfSame
<1> QED
  BY <1>2 DEF InBatches, m

\* One of them is given another batch.
LEMMA BatchReplaced ==
    ASSUME NEW W, IsFiniteSet(W), NEW V, NEW f, NEW g,
           \A v \in W : Occurs(f[v], V) \in Nat /\ Occurs(g[v], V) \in Nat,
           NEW w \in W, \A v \in W \ {w} : g[v] = f[v]
    PROVE  /\ InBatches(f, W, V) \in Nat /\ InBatches(g, W, V) \in Nat
           /\ InBatches(g, W, V) + Occurs(f[w], V) = InBatches(f, W, V) + Occurs(g[w], V)
<1> DEFINE m == [v \in W |-> Occurs(f[v], V)]
           n == [v \in W |-> Occurs(g[v], V)]
<1>2. /\ \A v \in W : m[v] \in Nat /\ n[v] \in Nat
      /\ \A v \in W \ {w} : n[v] = m[v]
      /\ m[w] = Occurs(f[w], V) /\ n[w] = Occurs(g[w], V)
  OBVIOUS
<1> HIDE DEF m, n
<1>3. Total(n, W) = Total(m, W) + (IF w \in W THEN n[w] - m[w] ELSE 0)
  BY <1>2, TotalsDiffer
<1>4. Total(m, W) \in Nat /\ Total(n, W) \in Nat
  BY <1>2, TotalOfSame
<1>5. Total(n, W) + m[w] = Total(m, W) + n[w]
  BY <1>2, <1>3, <1>4
<1>6. InBatches(f, W, V) = Total(m, W) /\ InBatches(g, W, V) = Total(n, W)
  BY DEF InBatches, m, n
<1> QED
  BY <1>2, <1>4, <1>5, <1>6

\* None of them has anything.
LEMMA InBatchesNone ==
    ASSUME NEW W, IsFiniteSet(W), NEW f, \A w \in W : f[w] = <<>>, NEW V
    PROVE  InBatches(f, W, V) = 0
<1> DEFINE m == [w \in W |-> Occurs(f[w], V)]
<1>1. \A w \in W : m[w] = 0
  BY OccursInEmpty
<1> HIDE DEF m
<1>2. Total(m, W) = 0
  BY <1>1, TotalOfZeros
<1> QED
  BY <1>2 DEF InBatches, m

=============================================================================
