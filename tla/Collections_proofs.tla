------------------------ MODULE Collections_proofs ------------------------
(***************************************************************************)
(* Facts about dictionaries, vectors and ordered sets, and the form of     *)
(* induction the other proofs use: a set of naturals without a least       *)
(* element is empty.                                                       *)
(***************************************************************************)
EXTENDS Integers, Collections, SequencesExt, FiniteSetTheorems, WellFoundedInduction, TLAPS

NatLess == {p \in Nat \X Nat : p[1] < p[2]}

-----------------------------------------------------------------------------
(* Induction.                                                              *)

\* Induction over the naturals, as the least element of a set: the set of the
\* counterexamples to a claim.
LEMMA LeastNat ==
  ASSUME NEW T \in SUBSET Nat, T # {}
  PROVE  \E n \in T : \A m \in T : n <= m
<1>1. IsWellFoundedOn(NatLess, Nat)
  BY NatLessThanWellFounded DEF OpToRel, NatLess
<1>2. PICK n \in T : \A m \in T : <<m, n>> \notin NatLess
  BY <1>1, WFMin, Zenon
<1>3. \A m \in T : ~(m < n)
  BY <1>2 DEF NatLess
<1> QED
  BY <1>3

\* A set of naturals that holds 0, and with a number the next one, holds all.
LEMMA AllNats ==
  ASSUME NEW T \in SUBSET Nat, 0 \in T, \A n \in T : n + 1 \in T
  PROVE  T = Nat
<1>1. SUFFICES ASSUME Nat \ T # {} PROVE FALSE
  OBVIOUS
<1>2. PICK n \in Nat \ T : \A m \in Nat \ T : n <= m
  BY <1>1, LeastNat
<1>3. n - 1 \in T
  BY <1>2
<1> QED
  BY <1>2, <1>3

\* A nonempty set of numbers up to n has a greatest one.
LEMMA GreatestNat ==
  ASSUME NEW n \in Nat, NEW T \in SUBSET (0 .. n), T # {}
  PROVE  \E k \in T : \A m \in T : m <= k
<1> DEFINE U == {n - m : m \in T}
<1>1. U \in SUBSET Nat /\ U # {}
  <2>1. \A m \in T : m \in Nat /\ n - m \in Nat
    OBVIOUS
  <2> QED
    BY <2>1
<1>2. PICK u \in U : \A w \in U : u <= w
  <2> HIDE DEF U
  <2> QED
    BY <1>1, LeastNat
<1>3. PICK k \in T : u = n - k
  OBVIOUS
<1>4. ASSUME NEW m \in T
      PROVE  m <= k
  <2>1. n - k <= n - m
    BY <1>2, <1>3
  <2> QED
    BY <2>1
<1> QED
  BY <1>4

-----------------------------------------------------------------------------
(* Finite sets.                                                            *)

\* A list has finitely many elements.
LEMMA FiniteRange ==
  ASSUME NEW T, NEW s \in Seq(T)
  PROVE  IsFiniteSet(Range(s)) /\ Range(s) \subseteq T
<1> DEFINE f == [i \in DOMAIN s |-> s[i]]
<1>1. Len(s) \in Nat /\ DOMAIN s = 1 .. Len(s)
  OBVIOUS
<1>2. f \in Surjection(DOMAIN s, Range(s))
  BY DEF Surjection, Range
<1>3. IsFiniteSet(Range(s))
  BY <1>1, <1>2, FS_Interval, FS_Surjection
<1> QED
  BY <1>3 DEF Range

\* There are finitely many functions between finite sets: each is determined by
\* its graph.
LEMMA FiniteFunctions ==
  ASSUME NEW D, IsFiniteSet(D), NEW T, IsFiniteSet(T)
  PROVE  IsFiniteSet([D -> T])
<1> DEFINE Pairs == SUBSET (D \X T)
           Graph == [f \in [D -> T] |-> {<<x, f[x]>> : x \in D}]
<1>1. IsFiniteSet(Pairs)
  BY FS_Product, FS_SUBSET
<1>2. Graph \in [[D -> T] -> Pairs]
  OBVIOUS
<1>3. ASSUME NEW f \in [D -> T], NEW g \in [D -> T], Graph[f] = Graph[g]
      PROVE  f = g
  <2>1. ASSUME NEW x \in D PROVE f[x] = g[x]
    <3>1. <<x, f[x]>> \in {<<y, g[y]>> : y \in D}
      BY <1>3
    <3> QED
      BY <3>1
  <2> QED
    BY <2>1
<1>4. Graph \in Injection([D -> T], Pairs)
  <2>1. IsInjective(Graph)
    BY <1>3 DEF IsInjective
  <2> HIDE DEF Graph, Pairs
  <2> QED
    BY <1>2, <2>1 DEF Injection
<1> HIDE DEF Graph, Pairs
<1> QED
  BY <1>1, <1>4, FS_Injection

-----------------------------------------------------------------------------
(* Ordered sets.                                                           *)

\* R compares all elements of S, and none with itself.
Orders(R, S) ==
  /\ \A x \in S : <<x, x>> \notin R
  /\ \A x, y, z \in S : <<x, y>> \in R /\ <<y, z>> \in R => <<x, z>> \in R
  /\ \A x, y \in S : x = y \/ <<x, y>> \in R \/ <<y, x>> \in R

Before(x, R, S) == {y \in S : <<y, x>> \in R}

\* The number of elements before one tells it apart, so that each position is
\* taken by one of them.
LEMMA Ranks ==
  ASSUME NEW S, IsFiniteSet(S), NEW R, Orders(R, S), NEW i \in 1 .. Cardinality(S)
  PROVE  \E x \in S : Cardinality(Before(x, R, S)) = i - 1
<1> DEFINE Below(x) == Before(x, R, S)
           n == Cardinality(S)
           f == [x \in S |-> Cardinality(Below(x))]
<1>1. n \in Nat
  BY FS_CardinalityType
<1>2. ASSUME NEW x \in S
      PROVE  IsFiniteSet(Below(x)) /\ Cardinality(Below(x)) \in 0 .. n - 1
  <2>0. Below(x) \in SUBSET S /\ x \notin Below(x)
    BY DEF Orders, Before
  <2> HIDE DEF Below
  <2>1. IsFiniteSet(Below(x)) /\ Cardinality(Below(x)) \in Nat /\ Cardinality(Below(x)) <= n
    BY <2>0, FS_Subset, FS_CardinalityType
  <2>2. Cardinality(Below(x)) # n
    BY <2>0, FS_Subset
  <2> QED
    BY <1>1, <2>1, <2>2
<1>3. f \in [S -> 0 .. n - 1]
  BY <1>2
<1>4. ASSUME NEW x \in S, NEW y \in S, <<x, y>> \in R
      PROVE  f[x] < f[y]
  <2>1. x \in Below(y) /\ x \notin Below(x) /\ Below(x) \in SUBSET Below(y)
    BY <1>4 DEF Orders, Before
  <2>2. /\ Cardinality(Below(x)) <= Cardinality(Below(y))
        /\ Cardinality(Below(x)) # Cardinality(Below(y))
    <3>1. IsFiniteSet(Below(y)) /\ Below(x) \in SUBSET Below(y) /\ Below(x) # Below(y)
      BY <1>2, <2>1
    <3> HIDE DEF Below
    <3> QED
      BY <3>1, FS_Subset
  <2> HIDE DEF Below
  <2> QED
    BY <1>2, <2>2
<1>5. IsInjective(f)
  <2>1. ASSUME NEW x \in S, NEW y \in S, f[x] = f[y] PROVE x = y
    <3> HIDE DEF f
    <3>1. f[x] \in Int /\ f[y] \in Int
      BY <1>1, <1>3
    <3>2. ~(f[x] < f[y]) /\ ~(f[y] < f[x])
      BY <2>1, <3>1
    <3>3. <<x, y>> \notin R /\ <<y, x>> \notin R
      BY <1>4, <3>2
    <3> QED
      BY <3>3 DEF Orders
  <2> QED
    BY <2>1 DEF IsInjective
<1>6. IsFiniteSet(0 .. n - 1) /\ Cardinality(0 .. n - 1) = n
  <2> HIDE DEF n
  <2>1. 0 \in Int /\ n - 1 \in Int
    BY <1>1
  <2>2. IsFiniteSet(0 .. n - 1) /\ Cardinality(0 .. n - 1) = IF 0 > n - 1 THEN 0 ELSE n - 1 - 0 + 1
    BY <2>1, FS_Interval
  <2> QED
    BY <1>1, <2>2
<1>7. f \in Surjection(S, 0 .. n - 1)
  <2>1. f \in Injection(S, 0 .. n - 1)
    <3> HIDE DEF f
    <3> QED
      BY <1>3, <1>5 DEF Injection
  <2> HIDE DEF f
  <2> QED
    BY <1>6, <2>1, FS_Injection
<1>8. i - 1 \in 0 .. n - 1
  BY <1>1
<1>9. PICK x \in S : f[x] = i - 1
  <2> HIDE DEF f
  <2> QED
    BY <1>7, <1>8 DEF Surjection
<1> QED
  BY <1>9

\* The same for integers in their own order.
LEMMA Positions ==
  ASSUME NEW S \in SUBSET Int, IsFiniteSet(S), NEW i \in 1 .. Cardinality(S)
  PROVE  \E x \in S : Cardinality({y \in S : y < x}) = i - 1
<1> DEFINE R == {p \in S \X S : p[1] < p[2]}
<1>1. \A x, y \in S : <<x, y>> \in R <=> x < y
  OBVIOUS
<1> HIDE DEF R
<1>2. Orders(R, S)
  BY <1>1 DEF Orders
<1>3. PICK x \in S : Cardinality(Before(x, R, S)) = i - 1
  BY <1>2, Ranks
<1>4. Before(x, R, S) = {y \in S : y < x}
  BY <1>1 DEF Before
<1> QED
  BY <1>3, <1>4

\* Ascending lists the elements of S, all of them and nothing else.
LEMMA AscendingLists ==
  ASSUME NEW S \in SUBSET Int, IsFiniteSet(S)
  PROVE  /\ Cardinality(S) \in Nat
         /\ Ascending(S) \in [1 .. Cardinality(S) -> S]
         /\ Ascending(S) \in Seq(S)
         /\ \A i \in 1 .. Cardinality(S) :
              Cardinality({y \in S : y < Ascending(S)[i]}) = i - 1
<1>1. Cardinality(S) \in Nat
  BY FS_CardinalityType
<1>2. \A i \in 1 .. Cardinality(S) :
        /\ Ascending(S)[i] \in S
        /\ Cardinality({y \in S : y < Ascending(S)[i]}) = i - 1
  <2> SUFFICES ASSUME NEW i \in 1 .. Cardinality(S)
               PROVE  /\ Ascending(S)[i] \in S
                      /\ Cardinality({y \in S : y < Ascending(S)[i]}) = i - 1
    OBVIOUS
  <2>1. Ascending(S)[i] = CHOOSE x \in S : Cardinality({y \in S : y < x}) = i - 1
    BY DEF Ascending
  <2>2. \E x \in S : Cardinality({y \in S : y < x}) = i - 1
    BY Positions
  <2> QED
    BY <2>1, <2>2
<1>3. Ascending(S) \in [1 .. Cardinality(S) -> S]
  BY <1>2 DEF Ascending
<1> QED
  BY <1>1, <1>2, <1>3

\* What Select keeps are the elements at the given positions.
LEMMA SelectKeeps ==
  ASSUME NEW s, NEW n \in Nat, NEW I \in SUBSET (1 .. n), NEW T, \A i \in I : s[i] \in T
  PROVE  /\ IsFiniteSet(I)
         /\ Select(s, I) \in Seq(T)
         /\ I # {} => Select(s, I) # <<>>
         /\ \A k \in DOMAIN Select(s, I) : \E i \in I : Select(s, I)[k] = s[i]
<1>1. IsFiniteSet(I) /\ I \in SUBSET Int
  <2>1. IsFiniteSet(1 .. n)
    BY FS_Interval
  <2>2. IsFiniteSet(I)
    BY <2>1, FS_Subset
  <2> QED
    BY <2>2
<1>2. Ascending(I) \in [1 .. Cardinality(I) -> I] /\ Cardinality(I) \in Nat
  BY <1>1, AscendingLists
<1>3. Select(s, I) = [k \in 1 .. Cardinality(I) |-> s[Ascending(I)[k]]]
  BY DEF Select
<1>4. \A k \in 1 .. Cardinality(I) : s[Ascending(I)[k]] \in T
  BY <1>2
<1>5. Select(s, I) \in Seq(T)
  BY <1>2, <1>3, <1>4
<1>6. I # {} => Select(s, I) # <<>>
  <2>1. I # {} => Cardinality(I) # 0
    BY <1>1, FS_EmptySet
  <2> QED
    BY <1>2, <1>3, <2>1
<1> QED
  BY <1>1, <1>2, <1>3, <1>5, <1>6

\* Select keeps all of the given positions.
LEMMA SelectHas ==
  ASSUME NEW s, NEW n \in Nat, NEW I \in SUBSET (1 .. n), NEW i \in I
  PROVE  \E k \in DOMAIN Select(s, I) : Select(s, I)[k] = s[i]
<1> DEFINE A == Ascending(I)
           c == Cardinality(I)
<1>1. IsFiniteSet(I) /\ I \in SUBSET Int
  <2>1. IsFiniteSet(1 .. n)
    BY FS_Interval
  <2>2. IsFiniteSet(I)
    BY <2>1, FS_Subset
  <2> QED
    BY <2>2
<1>2. /\ c \in Nat
      /\ A \in [1 .. c -> I]
      /\ \A k \in 1 .. c : Cardinality({y \in I : y < A[k]}) = k - 1
  BY <1>1, AscendingLists
<1>3. Select(s, I) = [k \in 1 .. c |-> s[A[k]]]
  BY DEF Select
<1> HIDE DEF A, c
<1>4. IsInjective(A)
  <2>1. ASSUME NEW k \in 1 .. c, NEW m \in 1 .. c, A[k] = A[m]
        PROVE  k = m
    <3>1. k - 1 = m - 1
      BY <1>2, <2>1
    <3> QED
      BY <3>1
  <2> QED
    BY <1>2, <2>1 DEF IsInjective
<1>5. A \in Injection(1 .. c, I)
  BY <1>2, <1>4 DEF Injection
<1>6. IsFiniteSet(1 .. c) /\ Cardinality(1 .. c) = Cardinality(I)
  BY <1>2, FS_Interval DEF c
<1>7. A \in Surjection(1 .. c, I)
  BY <1>1, <1>5, <1>6, FS_Injection
<1>8. PICK k \in 1 .. c : A[k] = i
  BY <1>7 DEF Surjection
<1> QED
  BY <1>3, <1>8

\* A finite set as a sequence, in some order.
LEMMA SetToSeqLists ==
  ASSUME NEW S, IsFiniteSet(S)
  PROVE  /\ SetToSeq(S) \in Seq(S)
         /\ Range(SetToSeq(S)) = S
         /\ S # {} => SetToSeq(S) # <<>>
<1> DEFINE n == Cardinality(S)
           q == SetToSeq(S)
<1>1. n \in Nat /\ ExistsBijection(1 .. n, S)
  BY FS_CardinalityType
<1>2. \E f \in [1 .. n -> S] : IsInjective(f)
  BY <1>1 DEF ExistsBijection, Bijection, Injection
<1>3. q \in [1 .. n -> S] /\ IsInjective(q)
  BY <1>2 DEF SetToSeq
<1> HIDE DEF q
<1>4. q \in Seq(S)
  BY <1>1, <1>3
<1>5. q \in Injection(1 .. n, S)
  BY <1>3 DEF Injection
<1>6. IsFiniteSet(1 .. n) /\ Cardinality(1 .. n) = n
  BY <1>1, FS_Interval
<1>7. q \in Surjection(1 .. n, S)
  BY <1>5, <1>6, FS_Injection
<1>8. Range(q) = S
  BY <1>3, <1>7 DEF Surjection, Range
<1>9. S # {} => q # <<>>
  BY <1>8 DEF Range
<1> QED
  BY <1>4, <1>8, <1>9 DEF q

\* A function on the numbers up to n is a list of that length.
LEMMA FunctionIsList ==
  ASSUME NEW n \in Nat, NEW f, f = [i \in 1 .. n |-> f[i]]
  PROVE  IsSeq(f) /\ Len(f) = n /\ DOMAIN f = 1 .. n
<1>1. f \in [1 .. n -> Range(f)]
  BY DEF Range
<1> QED
  BY <1>1 DEF IsSeq

\* A list over some set is one over its elements.
LEMMA ListIsSeq ==
  ASSUME NEW T, NEW s \in Seq(T)
  PROVE  IsSeq(s)
<1>1. Len(s) \in Nat /\ s \in [1 .. Len(s) -> T]
  OBVIOUS
<1>2. s = [i \in 1 .. Len(s) |-> s[i]]
  BY <1>1
<1> QED
  BY <1>1, <1>2, FunctionIsList

-----------------------------------------------------------------------------
(* Joining lists.                                                          *)

\* The elements of two lists, one after the other.
LEMMA TwoLists ==
  ASSUME NEW T, NEW a \in Seq(T), NEW b \in Seq(T)
  PROVE  /\ a \o b \in Seq(T)
         /\ Len(a \o b) = Len(a) + Len(b)
         /\ \A p \in 1 .. Len(a) : (a \o b)[p] = a[p]
         /\ \A j \in 1 .. Len(b) : (a \o b)[Len(a) + j] = b[j]
OBVIOUS

\* What joining lists means: the recursion is that of FlattenSeq.
JoiningOf(seqs, f) ==
  f = [i \in 1 .. Len(seqs) |-> IF i = 1 THEN seqs[i] ELSE f[i - 1] \o seqs[i]]

\* There is a joining of any list of lists.
LEMMA JoiningExists ==
  ASSUME NEW T, NEW seqs \in Seq(Seq(T))
  PROVE  \E f : JoiningOf(seqs, f) /\ f \in [1 .. Len(seqs) -> Seq(T)]
<1> DEFINE P(n) == n <= Len(seqs) =>
             \E f \in [1 .. n -> Seq(T)] :
                \A i \in 1 .. n : f[i] = IF i = 1 THEN seqs[i] ELSE f[i - 1] \o seqs[i]
           N == {n \in Nat : P(n)}
<1>1. 0 \in N
  <2> DEFINE f == [i \in 1 .. 0 |-> <<>>]
  <2>1. f \in [1 .. 0 -> Seq(T)]
    OBVIOUS
  <2>2. \A i \in 1 .. 0 : FALSE
    OBVIOUS
  <2> HIDE DEF f
  <2> QED
    BY <2>1, <2>2
<1>2. ASSUME NEW n \in N PROVE n + 1 \in N
  <2>1. SUFFICES ASSUME n + 1 <= Len(seqs)
                 PROVE  \E f \in [1 .. n + 1 -> Seq(T)] :
                           \A i \in 1 .. n + 1 :
                              f[i] = IF i = 1 THEN seqs[i] ELSE f[i - 1] \o seqs[i]
    <3>1. n + 1 \in Nat
      OBVIOUS
    <3> QED
      BY <3>1
  <2>2. n \in Nat /\ n <= Len(seqs)
    BY <2>1
  <2>3. PICK f \in [1 .. n -> Seq(T)] :
          \A i \in 1 .. n : f[i] = IF i = 1 THEN seqs[i] ELSE f[i - 1] \o seqs[i]
    BY <2>2
  <2> DEFINE x == IF n + 1 = 1 THEN seqs[n + 1] ELSE f[n] \o seqs[n + 1]
             g == [i \in 1 .. n + 1 |-> IF i = n + 1 THEN x ELSE f[i]]
  <2>4. x \in Seq(T)
    <3>1. seqs[n + 1] \in Seq(T)
      BY <2>1, <2>2
    <3>2. CASE n = 0
      BY <3>1, <3>2
    <3>3. CASE n # 0
      <4>1. f[n] \in Seq(T)
        BY <2>2, <3>3
      <4> QED
        BY <3>1, <4>1, <3>3, <2>2
    <3> QED
      BY <3>2, <3>3
  <2>5. g \in [1 .. n + 1 -> Seq(T)]
    <3> HIDE DEF x
    <3>1. \A i \in 1 .. n + 1 : i = n + 1 \/ i \in 1 .. n
      BY <2>2
    <3> QED
      BY <2>4, <3>1
  <2>6. ASSUME NEW i \in 1 .. n + 1
        PROVE  g[i] = IF i = 1 THEN seqs[i] ELSE g[i - 1] \o seqs[i]
    <3>1. CASE i = n + 1
      <4>1. g[i] = x
        BY <3>1
      <4>2. i # 1 => i - 1 \in 1 .. n + 1 /\ i - 1 # n + 1 /\ i - 1 = n
        BY <2>2, <3>1
      <4>3. i # 1 => g[i - 1] = f[n]
        <5> HIDE DEF x
        <5> QED
          BY <4>2
      <4> HIDE DEF g
      <4> QED
        BY <3>1, <4>1, <4>3
    <3>2. CASE i # n + 1
      <4> HIDE DEF x
      <4>1. i \in 1 .. n /\ g[i] = f[i]
        BY <2>2, <3>2
      <4>2. i # 1 => i - 1 \in 1 .. n + 1 /\ i - 1 # n + 1
        BY <2>2, <4>1
      <4>3. i # 1 => g[i - 1] = f[i - 1]
        BY <4>2
      <4> HIDE DEF g
      <4> QED
        BY <2>3, <4>1, <4>3
    <3> QED
      BY <3>1, <3>2
  <2> HIDE DEF g
  <2> QED
    BY <2>5, <2>6
<1>3. N = Nat
  <2> HIDE DEF N
  <2>1. N \in SUBSET Nat
    BY DEF N
  <2> QED
    BY <1>1, <1>2, <2>1, AllNats
<1>4. Len(seqs) \in Nat /\ Len(seqs) <= Len(seqs)
  OBVIOUS
<1>5. P(Len(seqs))
  <2> HIDE DEF P
  <2> QED
    BY <1>3, <1>4
<1>6. PICK f \in [1 .. Len(seqs) -> Seq(T)] :
        \A i \in 1 .. Len(seqs) : f[i] = IF i = 1 THEN seqs[i] ELSE f[i - 1] \o seqs[i]
  BY <1>5
<1>7. JoiningOf(seqs, f)
  BY <1>6 DEF JoiningOf
<1> QED
  BY <1>7

\* All joinings of the same lists are the same.
LEMMA JoiningIsUnique ==
  ASSUME NEW T, NEW seqs \in Seq(Seq(T)), NEW f, JoiningOf(seqs, f)
  PROVE  /\ f \in [1 .. Len(seqs) -> Seq(T)]
         /\ \A i \in 1 .. Len(seqs) : f[i] = IF i = 1 THEN seqs[i] ELSE f[i - 1] \o seqs[i]
<1> DEFINE N == {n \in Nat : n \in 1 .. Len(seqs) => f[n] \in Seq(T)}
<1>1. Len(seqs) \in Nat
  OBVIOUS
<1>2. \A i \in 1 .. Len(seqs) : f[i] = IF i = 1 THEN seqs[i] ELSE f[i - 1] \o seqs[i]
  BY DEF JoiningOf
<1>3. ASSUME NEW n \in N PROVE n + 1 \in N
  <2>1. SUFFICES ASSUME n + 1 \in 1 .. Len(seqs) PROVE f[n + 1] \in Seq(T)
    OBVIOUS
  <2>2. seqs[n + 1] \in Seq(T)
    BY <2>1
  <2>3. CASE n = 0
    BY <1>2, <2>1, <2>2, <2>3
  <2>4. CASE n # 0
    <3>1. n \in 1 .. Len(seqs) /\ (n + 1) - 1 = n /\ n + 1 # 1
      BY <1>1, <2>1, <2>4
    <3>2. f[n + 1] = f[n] \o seqs[n + 1]
      BY <1>2, <2>1, <3>1
    <3>3. f[n] \in Seq(T)
      BY <3>1
    <3> QED
      BY <2>2, <3>2, <3>3
  <2> QED
    BY <2>3, <2>4
<1>4. N = Nat
  <2>1. 0 \in N /\ N \in SUBSET Nat
    OBVIOUS
  <2> HIDE DEF N
  <2> QED
    BY <1>3, <2>1, AllNats
<1>5. ASSUME NEW i \in 1 .. Len(seqs) PROVE f[i] \in Seq(T)
  <2>1. i \in N
    <3> HIDE DEF N
    <3> QED
      BY <1>1, <1>4
  <2> QED
    BY <2>1
<1> QED
  BY <1>2, <1>5 DEF JoiningOf

\* The join of lists is the last entry of the joining.
LEMMA FlattenIsJoining ==
  ASSUME NEW T, NEW seqs \in Seq(Seq(T)), seqs # <<>>
  PROVE  \E f \in [1 .. Len(seqs) -> Seq(T)] : JoiningOf(seqs, f) /\ FlattenSeq(seqs) = f[Len(seqs)]
<1>1. Len(seqs) \in Nat /\ Len(seqs) # 0
  OBVIOUS
<1>2. PICK f : f = CHOOSE c : JoiningOf(seqs, c)
  OBVIOUS
<1>3. PICK h : JoiningOf(seqs, h) /\ h \in [1 .. Len(seqs) -> Seq(T)]
  BY JoiningExists
<1>4. JoiningOf(seqs, f)
  BY <1>2, <1>3
<1>5. FlattenSeq(seqs) = f[Len(seqs)]
  <2>1. FlattenSeq(seqs) = (CHOOSE c : c = [i \in 1 .. Len(seqs) |-> IF i = 1 THEN seqs[i] ELSE c[i - 1] \o seqs[i]])[Len(seqs)]
    BY <1>1 DEF FlattenSeq
  <2> QED
    BY <1>2, <2>1 DEF JoiningOf
<1> QED
  BY <1>4, <1>5, JoiningIsUnique

\* Where the elements of seqs[i] begin in the join, from 0.
StartOf(seqs, i) == Len(FlattenSeq(SubSeq(seqs, 1, i - 1)))

\* The join of the first lists is an entry of the joining of all.
LEMMA FlattenPrefix ==
  ASSUME NEW T, NEW seqs \in Seq(Seq(T)), NEW f, JoiningOf(seqs, f), NEW n \in 1 .. Len(seqs)
  PROVE  FlattenSeq(SubSeq(seqs, 1, n)) = f[n]
<1> DEFINE s == SubSeq(seqs, 1, n)
<1>1. s \in Seq(Seq(T)) /\ Len(s) = n /\ s # <<>> /\ \A i \in 1 .. n : s[i] = seqs[i]
  <2>1. Len(seqs) \in Nat /\ n \in Nat /\ n # 0 /\ n <= Len(seqs)
    OBVIOUS
  <2>2. s \in Seq(Seq(T)) /\ Len(s) = n
    BY <2>1
  <2>3. \A i \in 1 .. n : s[i] = seqs[i]
    BY <2>1
  <2> QED
    BY <2>1, <2>2, <2>3
<1>2. PICK g \in [1 .. n -> Seq(T)] : JoiningOf(s, g) /\ FlattenSeq(s) = g[n]
  <2> HIDE DEF s
  <2> QED
    BY <1>1, FlattenIsJoining
<1>3. \A i \in 1 .. n : g[i] = IF i = 1 THEN seqs[i] ELSE g[i - 1] \o seqs[i]
  <2> HIDE DEF s
  <2>1. \A i \in 1 .. Len(s) : g[i] = IF i = 1 THEN s[i] ELSE g[i - 1] \o s[i]
    BY <1>2 DEF JoiningOf
  <2> QED
    BY <1>1, <2>1
<1>4. \A i \in 1 .. n : f[i] = IF i = 1 THEN seqs[i] ELSE f[i - 1] \o seqs[i]
  <2>1. \A i \in 1 .. n : i \in 1 .. Len(seqs)
    OBVIOUS
  <2> QED
    BY <2>1 DEF JoiningOf
<1> DEFINE N == {m \in Nat : m \in 1 .. n => f[m] = g[m]}
<1>5. ASSUME NEW m \in N PROVE m + 1 \in N
  <2>1. SUFFICES ASSUME m + 1 \in 1 .. n PROVE f[m + 1] = g[m + 1]
    OBVIOUS
  <2>2. m # 0 => f[m] = g[m] /\ (m + 1) - 1 = m
    BY <2>1
  <2>3. m = 0 => m + 1 = 1
    OBVIOUS
  <2>4. CASE m = 0
    <3>1. 1 \in 1 .. n
      BY <2>1, <2>3, <2>4
    <3>2. f[1] = seqs[1] /\ g[1] = seqs[1]
      BY <1>3, <1>4, <3>1
    <3> QED
      BY <2>3, <2>4, <3>2
  <2>5. CASE m # 0
    <3>1. m + 1 # 1
      BY <2>5
    <3>2. /\ f[m + 1] = f[(m + 1) - 1] \o seqs[m + 1]
          /\ g[m + 1] = g[(m + 1) - 1] \o seqs[m + 1]
      BY <1>3, <1>4, <2>1, <3>1
    <3> QED
      BY <2>2, <2>5, <3>2
  <2> QED
    BY <2>4, <2>5
<1>6. n \in N
  <2>1. 0 \in N /\ N \in SUBSET Nat /\ n \in Nat
    OBVIOUS
  <2> HIDE DEF N
  <2> QED
    BY <1>5, <2>1, AllNats
<1> QED
  BY <1>2, <1>6

\* The join of lists: its elements are those of the lists, list by list.
LEMMA FlattenPlaces ==
  ASSUME NEW T, NEW seqs \in Seq(Seq(T))
  PROVE  /\ FlattenSeq(seqs) \in Seq(T)
         /\ \A i \in DOMAIN seqs :
              /\ StartOf(seqs, i) \in Nat
              /\ i = 1 => StartOf(seqs, i) = 0
              /\ i + 1 \in DOMAIN seqs => StartOf(seqs, i + 1) = StartOf(seqs, i) + Len(seqs[i])
              /\ i = Len(seqs) => Len(FlattenSeq(seqs)) = StartOf(seqs, i) + Len(seqs[i])
              /\ \A j \in DOMAIN seqs[i] :
                   /\ StartOf(seqs, i) + j \in DOMAIN FlattenSeq(seqs)
                   /\ FlattenSeq(seqs)[StartOf(seqs, i) + j] = seqs[i][j]
         /\ \A p \in DOMAIN FlattenSeq(seqs) :
              \E i \in DOMAIN seqs : \E j \in DOMAIN seqs[i] : p = StartOf(seqs, i) + j
<1> DEFINE n == Len(seqs)
<1>1. n \in Nat /\ DOMAIN seqs = 1 .. n /\ \A i \in 1 .. n : seqs[i] \in Seq(T)
  OBVIOUS
<1>2. CASE seqs = <<>>
  <2>1. FlattenSeq(seqs) = <<>>
    BY <1>2 DEF FlattenSeq
  <2>2. <<>> \in Seq(T) /\ DOMAIN <<>> = {} /\ DOMAIN seqs = {}
    BY <1>2
  <2> QED
    BY <2>1, <2>2, Zenon
<1>3. CASE seqs # <<>>
  <2>1. n \in 1 .. n
    BY <1>1, <1>3
  <2>2. PICK f \in [1 .. n -> Seq(T)] : JoiningOf(seqs, f) /\ FlattenSeq(seqs) = f[n]
    BY <1>3, FlattenIsJoining
  <2>3. \A i \in 1 .. n : f[i] = IF i = 1 THEN seqs[i] ELSE f[i - 1] \o seqs[i]
    BY <2>2 DEF JoiningOf
  <2> DEFINE at(i) == IF i = 1 THEN 0 ELSE Len(f[i - 1])
  <2>4. ASSUME NEW i \in 1 .. n PROVE StartOf(seqs, i) = at(i)
    <3>1. CASE i = 1
      <4>1. SubSeq(seqs, 1, i - 1) = <<>>
        BY <3>1
      <4>2. FlattenSeq(<<>>) = <<>>
        BY DEF FlattenSeq
      <4>3. Len(<<>>) = 0 /\ at(i) = 0
        BY <3>1
      <4>4. StartOf(seqs, i) = Len(FlattenSeq(<<>>))
        BY <4>1 DEF StartOf
      <4> HIDE DEF at
      <4> QED
        BY <4>2, <4>3, <4>4
    <3>2. CASE i # 1
      <4>1. i - 1 \in 1 .. n
        BY <1>1, <3>2
      <4> QED
        BY <2>2, <3>2, <4>1, FlattenPrefix DEF StartOf
    <3> QED
      BY <3>1, <3>2
  <2>5. ASSUME NEW i \in 1 .. n
        PROVE  /\ at(i) \in Nat
               /\ f[i] \in Seq(T)
               /\ Len(f[i]) = at(i) + Len(seqs[i])
               /\ \A j \in 1 .. Len(seqs[i]) : f[i][at(i) + j] = seqs[i][j]
               /\ i # 1 => \A p \in 1 .. at(i) : f[i][p] = f[i - 1][p]
    <3>1. seqs[i] \in Seq(T) /\ f[i] \in Seq(T)
      BY <1>1
    <3>2. CASE i = 1
      <4>1. f[i] = seqs[i] /\ at(i) = 0 /\ Len(seqs[i]) \in Nat
        <5>1. at(i) = 0
          BY <3>2
        <5>2. Len(seqs[i]) \in Nat
          BY <3>1
        <5> HIDE DEF n, at
        <5> QED
          BY <2>3, <3>2, <5>1, <5>2
      <4>2. \A j \in 1 .. Len(seqs[i]) : at(i) + j = j
        BY <4>1
      <4> HIDE DEF at, n
      <4> QED
        BY <3>1, <3>2, <4>1, <4>2
    <3>3. CASE i # 1
      <4>1. i - 1 \in 1 .. n
        BY <1>1, <3>3
      <4>2. f[i - 1] \in Seq(T) /\ f[i] = f[i - 1] \o seqs[i]
        BY <2>3, <3>3, <4>1
      <4>3. at(i) = Len(f[i - 1]) /\ at(i) \in Nat /\ Len(seqs[i]) \in Nat
        BY <3>1, <3>3, <4>2
      <4>4. Len(f[i]) = at(i) + Len(seqs[i])
        <5> HIDE DEF n, at
        <5> QED
          BY <3>1, <4>2, <4>3, TwoLists
      <4>7. /\ \A p \in 1 .. Len(f[i - 1]) : (f[i - 1] \o seqs[i])[p] = f[i - 1][p]
            /\ \A j \in 1 .. Len(seqs[i]) : (f[i - 1] \o seqs[i])[Len(f[i - 1]) + j] = seqs[i][j]
        <5>1. ASSUME NEW a \in Seq(T), NEW b \in Seq(T)
              PROVE  /\ \A p \in 1 .. Len(a) : (a \o b)[p] = a[p]
                     /\ \A j \in 1 .. Len(b) : (a \o b)[Len(a) + j] = b[j]
          BY TwoLists
        <5> HIDE DEF n, at
        <5> QED
          BY <3>1, <4>2, <5>1, Zenon
      <4>5. ASSUME NEW j \in 1 .. Len(seqs[i]) PROVE f[i][at(i) + j] = seqs[i][j]
        <5>1. f[i][Len(f[i - 1]) + j] = seqs[i][j]
          <6> HIDE DEF n, at
          <6> QED
            BY <4>2, <4>7
        <5> QED
          BY <4>3, <5>1
      <4>6. ASSUME NEW p \in 1 .. at(i) PROVE f[i][p] = f[i - 1][p]
        <5>1. p \in 1 .. Len(f[i - 1])
          BY <4>3
        <5> HIDE DEF n, at
        <5> QED
          BY <4>2, <4>7, <5>1
      <4> HIDE DEF at, n
      <4> QED
        BY <3>1, <3>3, <4>3, <4>4, <4>5, <4>6
    <3> QED
      BY <3>2, <3>3
  <2>6. ASSUME NEW i \in 1 .. n, i + 1 \in 1 .. n
        PROVE  at(i + 1) = at(i) + Len(seqs[i])
    <3>1. i + 1 # 1 /\ (i + 1) - 1 = i
      BY <1>1
    <3> HIDE DEF n
    <3> QED
      BY <2>5, <3>1
  <2> DEFINE Kept(m) == m \in 1 .. n =>
               /\ \A i \in 1 .. m : \A j \in 1 .. Len(seqs[i]) :
                     at(i) + j \in 1 .. Len(f[m]) /\ f[m][at(i) + j] = seqs[i][j]
               /\ \A p \in 1 .. Len(f[m]) :
                     \E i \in 1 .. m : \E j \in 1 .. Len(seqs[i]) : p = at(i) + j
             N == {m \in Nat : Kept(m)}
  <2>7. ASSUME NEW m \in N PROVE m + 1 \in N
    <3>1. SUFFICES ASSUME m + 1 \in 1 .. n
                   PROVE  /\ \A i \in 1 .. m + 1 : \A j \in 1 .. Len(seqs[i]) :
                                at(i) + j \in 1 .. Len(f[m + 1])
                                  /\ f[m + 1][at(i) + j] = seqs[i][j]
                          /\ \A p \in 1 .. Len(f[m + 1]) :
                                \E i \in 1 .. m + 1 : \E j \in 1 .. Len(seqs[i]) : p = at(i) + j
      <4>1. m + 1 \in Nat
        OBVIOUS
      <4> HIDE DEF at, n
      <4> QED
        BY <4>1
    <3> DEFINE k == m + 1
    <3>2. /\ at(k) \in Nat /\ f[k] \in Seq(T) /\ Len(f[k]) = at(k) + Len(seqs[k])
          /\ \A j \in 1 .. Len(seqs[k]) : f[k][at(k) + j] = seqs[k][j]
          /\ k # 1 => \A p \in 1 .. at(k) : f[k][p] = f[k - 1][p]
          /\ Len(seqs[k]) \in Nat
      <4> HIDE DEF at, n
      <4> QED
        BY <1>1, <2>5, <3>1
    <3>3. m # 0 => m \in 1 .. n /\ k - 1 = m /\ at(k) = Len(f[m]) /\ k # 1
      BY <1>1, <3>1
    <3>4. m # 0 => Kept(m) /\ m \in 1 .. n
      BY <3>3
    <3>5. m = 0 => at(k) = 0 /\ k = 1
      OBVIOUS
    <3>6. ASSUME NEW i \in 1 .. k, NEW j \in 1 .. Len(seqs[i])
          PROVE  at(i) + j \in 1 .. Len(f[k]) /\ f[k][at(i) + j] = seqs[i][j]
      <4>1. CASE i = k
        <5>1. at(i) = at(k) /\ seqs[i] = seqs[k] /\ j \in 1 .. Len(seqs[k])
          BY <4>1
        <5>2. at(k) + j \in 1 .. Len(f[k]) /\ f[k][at(k) + j] = seqs[k][j]
          <6> HIDE DEF at, k
          <6> QED
            BY <3>2, <5>1
        <5> HIDE DEF at, k
        <5> QED
          BY <5>1, <5>2
      <4>2. CASE i # k
        <5>1. i \in 1 .. m /\ m # 0
          BY <4>2
        <5>2. at(i) + j \in 1 .. Len(f[m]) /\ f[m][at(i) + j] = seqs[i][j]
          <6> HIDE DEF at, N, n
          <6> QED
            BY <3>4, <5>1
        <5> DEFINE p == at(i) + j
        <5>3. p \in 1 .. at(k) /\ f[k][p] = f[m][p]
          <6> HIDE DEF at, k, N, n
          <6> QED
            BY <3>2, <3>3, <5>1, <5>2
        <5>4. p \in 1 .. Len(f[k])
          <6> HIDE DEF at, k, N, n, p
          <6> QED
            BY <3>2, <5>3
        <5> HIDE DEF at, k, N, n
        <5> QED
          BY <5>2, <5>3, <5>4
      <4> QED
        BY <4>1, <4>2
    <3>7. ASSUME NEW p \in 1 .. Len(f[k])
          PROVE  \E i \in 1 .. k : \E j \in 1 .. Len(seqs[i]) : p = at(i) + j
      <4>1. CASE p <= at(k)
        <5>1. m # 0
          <6> HIDE DEF at, k
          <6> QED
            BY <3>5, <4>1
        <5>2. p \in 1 .. Len(f[m])
          <6> HIDE DEF at, k, n
          <6> QED
            BY <3>3, <4>1, <5>1
        <5>3. PICK i \in 1 .. m : \E j \in 1 .. Len(seqs[i]) : p = at(i) + j
          <6> HIDE DEF at, n
          <6> QED
            BY <3>4, <5>1, <5>2
        <5>4. i \in 1 .. k
          OBVIOUS
        <5> HIDE DEF at, k
        <5> QED
          BY <5>3, <5>4
      <4>2. CASE p > at(k)
        <5>1. p - at(k) \in 1 .. Len(seqs[k]) /\ p = at(k) + (p - at(k))
          <6> HIDE DEF at, k
          <6> QED
            BY <3>2, <4>2
        <5>2. k \in 1 .. k
          OBVIOUS
        <5> HIDE DEF at, k
        <5> QED
          BY <5>1, <5>2
      <4> HIDE DEF at, k
      <4> QED
        BY <3>2, <4>1, <4>2
    <3> HIDE DEF at, n, N
    <3> QED
      BY <3>6, <3>7
  <2>8. Kept(n)
    <3>1. 0 \in N /\ N \in SUBSET Nat
      OBVIOUS
    <3> HIDE DEF N, Kept
    <3>2. N = Nat
      BY <2>7, <3>1, AllNats
    <3> QED
      BY <1>1, <3>2 DEF N
  <2>9. \A i \in 1 .. n : DOMAIN seqs[i] = 1 .. Len(seqs[i])
    BY <1>1
  <2>10. FlattenSeq(seqs) \in Seq(T) /\ DOMAIN FlattenSeq(seqs) = 1 .. Len(f[n])
    <3>1. f[n] \in Seq(T) /\ FlattenSeq(seqs) = f[n]
      BY <2>1, <2>2
    <3> HIDE DEF n
    <3> QED
      BY <3>1
  <2>11. /\ 1 \in 1 .. n => at(1) = 0
         /\ Len(FlattenSeq(seqs)) = at(n) + Len(seqs[n])
    BY <2>1, <2>2, <2>5
  <2> HIDE DEF at, n
  <2>12. \A i \in DOMAIN seqs : \A j \in DOMAIN seqs[i] :
           /\ StartOf(seqs, i) + j \in DOMAIN FlattenSeq(seqs)
           /\ FlattenSeq(seqs)[StartOf(seqs, i) + j] = seqs[i][j]
    BY <1>1, <2>1, <2>2, <2>4, <2>8, <2>9, <2>10
  <2>13. \A p \in DOMAIN FlattenSeq(seqs) :
           \E i \in DOMAIN seqs : \E j \in DOMAIN seqs[i] : p = StartOf(seqs, i) + j
    <3> SUFFICES ASSUME NEW p \in 1 .. Len(f[n])
                 PROVE  \E i \in DOMAIN seqs : \E j \in DOMAIN seqs[i] : p = StartOf(seqs, i) + j
      BY <2>10
    <3>1. PICK i \in 1 .. n : \E j \in 1 .. Len(seqs[i]) : p = at(i) + j
      BY <2>1, <2>8
    <3> QED
      BY <1>1, <2>4, <2>9, <3>1
  <2>14. \A i \in DOMAIN seqs :
           /\ StartOf(seqs, i) \in Nat
           /\ i = 1 => StartOf(seqs, i) = 0
           /\ i + 1 \in DOMAIN seqs => StartOf(seqs, i + 1) = StartOf(seqs, i) + Len(seqs[i])
           /\ i = n => Len(FlattenSeq(seqs)) = StartOf(seqs, i) + Len(seqs[i])
    BY <1>1, <2>4, <2>5, <2>6, <2>11
  <2> QED
    BY <2>10, <2>12, <2>13, <2>14 DEF n
<1> QED
  BY <1>2, <1>3

-----------------------------------------------------------------------------
(* Counting.                                                               *)

\* f takes every element of S to one of T, and every one of T is met once.
Matches(f, S, T) ==
  /\ \A x \in S : f[x] \in T
  /\ \A x, y \in S : f[x] = f[y] => x = y
  /\ \A y \in T : \E x \in S : f[x] = y

\* The entries of s are those of u where f leads.
Along(s, f, u, S) == \A x \in S : s[x] = u[f[x]]

\* Sets whose elements match are of one size.
LEMMA MatchedCount ==
  ASSUME NEW S, IsFiniteSet(S), NEW T, NEW f, Matches(f, S, T)
  PROVE  IsFiniteSet(T) /\ Cardinality(T) = Cardinality(S)
<1> DEFINE g == [x \in S |-> f[x]]
<1>1. g \in [S -> T] /\ (\A x, y \in S : g[x] = g[y] => x = y) /\ \A y \in T : \E x \in S : g[x] = y
  BY DEF Matches
<1> HIDE DEF g
<1>2. g \in Bijection(S, T)
  BY <1>1 DEF Bijection, Injection, Surjection, IsInjective
<1> QED
  BY <1>2, FS_Bijection DEF ExistsBijection

\* What matches what matches.
LEMMA MatchedThrough ==
  ASSUME NEW S, NEW T, NEW U, NEW f, Matches(f, S, T), NEW g, Matches(g, T, U),
         NEW h, Along(h, f, g, S)
  PROVE  Matches(h, S, U)
<1>1. \A x \in S : f[x] \in T /\ h[x] \in U /\ h[x] = g[f[x]]
  BY DEF Matches, Along
<1>2. \A x, y \in S : h[x] = h[y] => x = y
  BY <1>1 DEF Matches
<1>3. ASSUME NEW u \in U PROVE \E x \in S : h[x] = u
  <2>1. PICK y \in T : g[y] = u
    BY DEF Matches
  <2>2. PICK x \in S : f[x] = y
    BY DEF Matches
  <2> QED
    BY <1>1, <2>1, <2>2
<1> QED
  BY <1>1, <1>2, <1>3 DEF Matches

\* g leads back along f.
Back(g, f, T) == \A y \in T : f[g[y]] = y

\* What matches does so the other way round.
LEMMA MatchedBack ==
  ASSUME NEW S, NEW T, NEW f, Matches(f, S, T)
  PROVE  \E g : Matches(g, T, S) /\ Back(g, f, T)
<1> DEFINE h == [y \in T |-> CHOOSE x \in S : f[x] = y]
<1>1. PICK g : g = h
  OBVIOUS
<1>2. \A y \in T : g[y] \in S /\ f[g[y]] = y
  BY <1>1 DEF Matches
<1>3. \A x \in S : f[x] \in T /\ g[f[x]] = x
  BY <1>2 DEF Matches
<1>4. Matches(g, T, S)
  BY <1>2, <1>3 DEF Matches
<1> QED
  BY <1>2, <1>4 DEF Back

\* What keeps all apart in a set of the same size reaches all of it.
LEMMA ApartIsMatch ==
  ASSUME NEW S, NEW T, IsFiniteSet(T), NEW f,
         \A x \in S : f[x] \in T, \A x, y \in S : f[x] = f[y] => x = y
  PROVE  /\ IsFiniteSet(S) /\ Cardinality(S) <= Cardinality(T)
         /\ Cardinality(S) = Cardinality(T) => Matches(f, S, T)
<1> DEFINE g == [x \in S |-> f[x]]
<1>1. g \in [S -> T] /\ (\A x, y \in S : g[x] = g[y] => x = y) /\ \A x \in S : g[x] = f[x]
  OBVIOUS
<1> HIDE DEF g
<1>2. g \in Injection(S, T)
  BY <1>1 DEF Injection, IsInjective
<1>3. IsFiniteSet(S) /\ Cardinality(S) <= Cardinality(T)
      /\ (Cardinality(S) = Cardinality(T) => g \in Surjection(S, T))
  BY <1>2, FS_Injection
<1>4. ASSUME g \in Surjection(S, T) PROVE Matches(f, S, T)
  BY <1>1, <1>4 DEF Surjection, Matches
<1> QED
  BY <1>3, <1>4

\* A part of 1 .. n that has what is below each of its elements is an initial part.
LEMMA InitialPart ==
  ASSUME NEW n \in Nat, NEW T \in SUBSET (1 .. n), \A i \in T : \A j \in 1 .. i : j \in T
  PROVE  IsFiniteSet(T) /\ Cardinality(T) \in 0 .. n /\ T = 1 .. Cardinality(T)
<1>1. CASE T = {}
  <2>1. Cardinality(T) = 0 /\ IsFiniteSet(T)
    BY <1>1, FS_EmptySet
  <2> QED
    BY <1>1, <2>1
<1>2. CASE T # {}
  <2>1. T \in SUBSET (0 .. n)
    OBVIOUS
  <2>2. PICK k \in T : \A m \in T : m <= k
    BY <1>2, <2>1, GreatestNat
  <2>3. T = 1 .. k /\ k \in 1 .. n
    <3>1. k \in 1 .. n /\ \A x \in T : x \in 1 .. n
      OBVIOUS
    <3>2. \A x \in T : x \in 1 .. k
      BY <2>2, <3>1
    <3>3. 1 .. k \subseteq T
      OBVIOUS
    <3> QED
      BY <3>1, <3>2, <3>3
  <2>4. Cardinality(1 .. k) = k /\ IsFiniteSet(1 .. k)
    BY <2>3, FS_Interval
  <2> QED
    BY <2>3, <2>4
<1> QED
  BY <1>1, <1>2

\* Fewer are before what comes first.
LEMMA FewerBefore ==
  ASSUME NEW S, IsFiniteSet(S), NEW R, Orders(R, S), NEW x \in S, NEW y \in S, <<x, y>> \in R
  PROVE  /\ Cardinality(Before(x, R, S)) \in Nat /\ Cardinality(Before(y, R, S)) \in Nat
         /\ Cardinality(Before(x, R, S)) < Cardinality(Before(y, R, S))
<1> DEFINE A == Before(x, R, S)
           B == Before(y, R, S)
<1>1. x \in B /\ x \notin A /\ A \in SUBSET B /\ B \in SUBSET S
  BY DEF Orders, Before
<1> HIDE DEF A, B
<1>2. IsFiniteSet(B)
  BY <1>1, FS_Subset
<1>3. IsFiniteSet(A) /\ Cardinality(A) <= Cardinality(B) /\ (Cardinality(B) = Cardinality(A) => B = A)
  BY <1>1, <1>2, FS_Subset
<1>4. Cardinality(A) \in Nat /\ Cardinality(B) \in Nat
  BY <1>2, <1>3, FS_CardinalityType
<1>5. Cardinality(A) < Cardinality(B)
  BY <1>1, <1>3, <1>4
<1> QED
  BY <1>4, <1>5 DEF A, B

\* q has at place i an element of S with i - 1 elements before it.
ByRank(q, R, S) ==
  /\ q \in [1 .. Cardinality(S) -> S]
  /\ \A i \in 1 .. Cardinality(S) : Cardinality(Before(q[i], R, S)) = i - 1

\* q lists S in the order R.
RankedInOrder(q, R, S) ==
  /\ \A i, j \in 1 .. Cardinality(S) : i < j <=> <<q[i], q[j]>> \in R
  /\ \A i, j \in 1 .. Cardinality(S) : q[i] = q[j] => i = j
  /\ \A x \in S : \E i \in 1 .. Cardinality(S) : q[i] = x

\* The places of a list by rank are in the order of its elements, and each
\* element has one.
LEMMA PlacesByRank ==
  ASSUME NEW S, IsFiniteSet(S), NEW R, Orders(R, S), NEW q, ByRank(q, R, S)
  PROVE  RankedInOrder(q, R, S)
<1> DEFINE n == Cardinality(S)
<1>1. n \in Nat
  BY FS_CardinalityType
<1>2. \A i \in 1 .. n : q[i] \in S /\ Cardinality(Before(q[i], R, S)) = i - 1
  BY DEF ByRank
<1>3. \A i, j \in 1 .. n : q[i] = q[j] => i = j
  BY <1>1, <1>2
<1>4. \A i, j \in 1 .. n : <<q[i], q[j]>> \in R => i < j
  <2> SUFFICES ASSUME NEW i \in 1 .. n, NEW j \in 1 .. n, <<q[i], q[j]>> \in R PROVE i < j
    OBVIOUS
  <2>1. Cardinality(Before(q[i], R, S)) < Cardinality(Before(q[j], R, S))
    BY <1>2, FewerBefore
  <2>2. i - 1 < j - 1
    BY <1>2, <2>1
  <2> QED
    BY <1>1, <2>2
<1>5. \A i, j \in 1 .. n : i < j => <<q[i], q[j]>> \in R
  <2> SUFFICES ASSUME NEW i \in 1 .. n, NEW j \in 1 .. n, i < j PROVE <<q[i], q[j]>> \in R
    OBVIOUS
  <2>1. q[i] # q[j] /\ <<q[j], q[i]>> \notin R
    BY <1>1, <1>3, <1>4
  <2> QED
    BY <1>2, <2>1 DEF Orders
<1>6. IsFiniteSet(1 .. n) /\ Cardinality(1 .. n) = n
  BY <1>1, FS_Interval
<1>7. Matches(q, 1 .. n, S)
  BY <1>2, <1>3, <1>6, ApartIsMatch
<1> QED
  BY <1>3, <1>4, <1>5, <1>7 DEF Matches, RankedInOrder

\* So are the places of an ascending list of integers.
LEMMA AscendingOrder ==
  ASSUME NEW S \in SUBSET Int, IsFiniteSet(S)
  PROVE  LET q == Ascending(S)
             n == Cardinality(S)
         IN /\ n \in Nat /\ q \in [1 .. n -> S] /\ q \in Seq(S) /\ Len(q) = n /\ DOMAIN q = 1 .. n
            /\ \A i, j \in 1 .. n : i < j <=> q[i] < q[j]
            /\ \A i, j \in 1 .. n : q[i] = q[j] => i = j
            /\ \A x \in S : \E i \in 1 .. n : q[i] = x
<1> DEFINE q == Ascending(S)
           n == Cardinality(S)
           R == {p \in S \X S : p[1] < p[2]}
<1>1. /\ n \in Nat /\ q \in [1 .. n -> S] /\ q \in Seq(S)
      /\ \A i \in 1 .. n : Cardinality({y \in S : y < q[i]}) = i - 1
  BY AscendingLists
<1>2. \A x, y \in S : <<x, y>> \in R <=> x < y
  OBVIOUS
<1> HIDE DEF R, q
<1>3. Orders(R, S)
  BY <1>2 DEF Orders
<1>4. ByRank(q, R, S)
  <2> SUFFICES ASSUME NEW i \in 1 .. n PROVE Cardinality(Before(q[i], R, S)) = i - 1
    BY <1>1 DEF ByRank
  <2>1. Before(q[i], R, S) = {y \in S : y < q[i]}
    BY <1>1, <1>2 DEF Before
  <2> QED
    BY <1>1, <2>1
<1>5. /\ \A i, j \in 1 .. n : i < j <=> <<q[i], q[j]>> \in R
      /\ \A i, j \in 1 .. n : q[i] = q[j] => i = j
      /\ \A x \in S : \E i \in 1 .. n : q[i] = x
  <2>1. RankedInOrder(q, R, S)
    BY <1>3, <1>4, PlacesByRank
  <2> QED
    BY <2>1 DEF RankedInOrder
<1>6. \A i, j \in 1 .. n : i < j <=> q[i] < q[j]
  BY <1>1, <1>2, <1>5
<1>7. Len(q) = n /\ DOMAIN q = 1 .. n
  BY <1>1
<1> QED
  BY <1>1, <1>5, <1>6, <1>7 DEF q

\* G takes a place and an element of X to one of X.
StaysIn(G, n, X) == \A i \in 2 .. n : \A x \in X : G[<<i, x>>] \in X

\* f starts with x0 and goes on by G.
Repeats(f, G, n, x0) == \A i \in 1 .. n : f[i] = IF i = 1 THEN x0 ELSE G[<<i, f[i - 1]>>]

\* What is computed from its predecessor can be computed n times.
LEMMA RepeatedSteps ==
  ASSUME NEW n \in Nat, NEW X, NEW x0 \in X, NEW G, StaysIn(G, n, X)
  PROVE  \E f \in [1 .. n -> X] : Repeats(f, G, n, x0)
<1> DEFINE Steps(f, m) == \A i \in 1 .. m : f[i] = IF i = 1 THEN x0 ELSE G[<<i, f[i - 1]>>]
           N == {m \in Nat : m <= n => \E f \in [1 .. m -> X] : Steps(f, m)}
<1>1. 0 \in N
  <2> DEFINE f == [i \in 1 .. 0 |-> x0]
  <2>1. f \in [1 .. 0 -> X] /\ Steps(f, 0)
    OBVIOUS
  <2> HIDE DEF f, Steps
  <2> QED
    BY <2>1
<1>2. ASSUME NEW m \in N PROVE m + 1 \in N
  <2>1. SUFFICES ASSUME m + 1 <= n PROVE \E f \in [1 .. m + 1 -> X] : Steps(f, m + 1)
    <3> HIDE DEF Steps
    <3>1. m + 1 \in Nat
      OBVIOUS
    <3> QED
      BY <3>1
  <2>2. m \in Nat /\ m <= n
    BY <2>1
  <2>3. PICK f \in [1 .. m -> X] : Steps(f, m)
    BY <2>2
  <2> DEFINE x == IF m = 0 THEN x0 ELSE G[<<m + 1, f[m]>>]
  <2>4. PICK y : y = x
    OBVIOUS
  <2>5. y \in X
    <3>1. m # 0 => m \in 1 .. m /\ m + 1 \in 2 .. n
      BY <2>1, <2>2
    <3>2. m # 0 => f[m] \in X
      BY <3>1
    <3> QED
      BY <2>4, <3>1, <3>2 DEF StaysIn
  <2> DEFINE g == [i \in 1 .. m + 1 |-> IF i = m + 1 THEN y ELSE f[i]]
  <2>6. \A i \in 1 .. m : i \in 1 .. m + 1 /\ i # m + 1
    BY <2>2
  <2>7. m + 1 \in 1 .. m + 1 /\ \A i \in 1 .. m + 1 : i = m + 1 \/ i \in 1 .. m
    BY <2>2
  <2>8. g \in [1 .. m + 1 -> X]
    BY <2>5, <2>7
  <2>9. g[m + 1] = y /\ \A i \in 1 .. m : g[i] = f[i]
    BY <2>6, <2>7
  <2> HIDE DEF g
  <2>10. ASSUME NEW i \in 1 .. m + 1 PROVE g[i] = IF i = 1 THEN x0 ELSE G[<<i, g[i - 1]>>]
    <3>1. CASE i = m + 1
      <4>1. i = 1 <=> m = 0
        BY <2>2, <3>1
      <4>2. i # 1 => m \in 1 .. m /\ i - 1 = m
        BY <2>2, <3>1
      <4>3. i # 1 => g[i - 1] = f[m]
        BY <2>9, <4>2
      <4> QED
        BY <2>4, <2>9, <3>1, <4>1, <4>3
    <3>2. CASE i \in 1 .. m
      <4>1. i # 1 => i - 1 \in 1 .. m
        BY <2>2, <3>2
      <4>2. f[i] = IF i = 1 THEN x0 ELSE G[<<i, f[i - 1]>>]
        BY <2>3, <3>2
      <4>3. g[i] = f[i] /\ (i # 1 => g[i - 1] = f[i - 1])
        BY <2>9, <3>2, <4>1
      <4> QED
        BY <4>2, <4>3
    <3> QED
      BY <2>7, <3>1, <3>2
  <2> QED
    BY <2>8, <2>10
<1>3. N = Nat
  <2>1. N \in SUBSET Nat
    OBVIOUS
  <2> HIDE DEF N
  <2> QED
    BY <1>1, <1>2, <2>1, AllNats
<1>4. n \in N
  <2> HIDE DEF N
  <2> QED
    BY <1>3
<1>5. \E f \in [1 .. n -> X] : Steps(f, n)
  <2> HIDE DEF Steps
  <2> QED
    BY <1>4
<1> QED
  BY <1>5 DEF Repeats

\* t is b after s.
Appended(t, s, b) ==
  /\ Len(t) = Len(s) + Len(b)
  /\ \A k \in 1 .. Len(s) : t[k] = s[k]
  /\ \A j \in 1 .. Len(b) : t[Len(s) + j] = b[j]

\* What a concatenation consists of.
LEMMA Concatenated ==
  ASSUME NEW T, NEW s \in Seq(T), NEW b \in Seq(T)
  PROVE  s \o b \in Seq(T) /\ Appended(s \o b, s, b)
BY DEF Appended

\* A list is a function on its places.
LEMMA ListIsFunction ==
  ASSUME NEW T, NEW s \in Seq(T), NEW n \in Nat, Len(s) = n
  PROVE  s \in [1 .. n -> T] /\ DOMAIN s = 1 .. n
OBVIOUS

-----------------------------------------------------------------------------
(* Chains: following a partial function r on a finite set S to its end,    *)
(* which is what replacedWith (DeltaUpdates) computes for every map of     *)
(* replacements, cycles included. The walk is a recursive function, so the *)
(* first thing to prove is that a function with that equation exists.      *)

\* The walk of replacedWith along r, which stops at an object it has met.
Walk(r, S) ==
  LET walk[at \in S \X SUBSET S] ==
        LET y == at[1]
            met == at[2]
        IN IF y \notin DOMAIN r THEN y
           ELSE IF r[y] \in met THEN r[y]
           ELSE walk[<<r[y], met \cup {r[y]}>>]
  IN walk

\* Where the walk from x ends.
End(r, S, x) == Walk(r, S)[<<x, {x}>>]

\* r is a partial function on the finite set S.
Partial(r, S) ==
  /\ IsFiniteSet(S)
  /\ DOMAIN r \subseteq S
  /\ \A x \in DOMAIN r : r[x] \in S

\* The right-hand side of the equation of the walk.
Onward(r, f, at) ==
  IF at[1] \notin DOMAIN r THEN at[1]
  ELSE IF r[at[1]] \in at[2] THEN r[at[1]]
  ELSE f[<<r[at[1]], at[2] \cup {r[at[1]]}>>]

IsWalk(r, S, f) == f = [at \in S \X SUBSET S |-> Onward(r, f, at)]

-----------------------------------------------------------------------------
\* Each step of a walk meets one more object: fewer are left.
LEMMA FewerLeft ==
  ASSUME NEW S, IsFiniteSet(S), NEW met \in SUBSET S, NEW x \in S \ met
  PROVE  /\ Cardinality(S \ met) \in Nat
         /\ Cardinality(S \ (met \cup {x})) \in Nat
         /\ Cardinality(S \ (met \cup {x})) = Cardinality(S \ met) - 1
<1>1. IsFiniteSet(S \ met)
  BY FS_Subset
<1>2. S \ (met \cup {x}) = (S \ met) \ {x}
  OBVIOUS
<1>3. /\ IsFiniteSet((S \ met) \ {x})
      /\ Cardinality((S \ met) \ {x}) = Cardinality(S \ met) - 1
  BY <1>1, FS_RemoveElement
<1> QED
  BY <1>1, <1>2, <1>3, FS_CardinalityType

\* There is a function that satisfies the equation of the walk.
LEMMA WalkExists ==
  ASSUME NEW r, NEW S, Partial(r, S)
  PROVE  \E f : IsWalk(r, S, f)
<1> DEFINE Places == S \X SUBSET S
           Left(at) == Cardinality(S \ at[2])
           Fits(f, n) == \A at \in Places : Left(at) < n => f[at] = Onward(r, f, at)
           Next(f) == [at \in Places |-> Onward(r, f, at)]
           Reached == {n \in Nat : \E f : Fits(f, n)}
<1>1. \A at \in Places : Left(at) \in Nat /\ Left(at) <= Cardinality(S)
  BY FS_Subset, FS_CardinalityType DEF Partial
<1>2. ASSUME NEW n \in Nat, NEW f, Fits(f, n)
      PROVE  Fits(Next(f), n + 1)
  <2>1. ASSUME NEW at \in Places, Left(at) < n + 1
        PROVE  Onward(r, f, at) = Onward(r, Next(f), at)
    <3> DEFINE x == r[at[1]]
               to == <<x, at[2] \cup {x}>>
    <3>1. CASE at[1] \in DOMAIN r /\ x \notin at[2]
      <4>1. to \in Places /\ x \in S \ at[2] /\ at[2] \in SUBSET S
        BY <3>1 DEF Partial
      <4>2. Left(to) < n
        BY <1>1, <2>1, <4>1, FewerLeft DEF Partial
      <4>3. f[to] = Next(f)[to]
        BY <1>2, <4>1, <4>2
      <4> QED
        BY <3>1, <4>3 DEF Onward
    <3>2. CASE ~(at[1] \in DOMAIN r /\ x \notin at[2])
      BY <3>2 DEF Onward
    <3> QED
      BY <3>1, <3>2
  <2> QED
    BY <2>1
<1>3. Reached = Nat
  <2>1. 0 \in Reached
    <3>1. Fits(<<>>, 0)
      BY <1>1
    <3> QED
      BY <3>1
  <2>2. ASSUME NEW n \in Reached
        PROVE  n + 1 \in Reached
    <3>1. n \in Nat /\ n + 1 \in Nat
      OBVIOUS
    <3>2. PICK f : Fits(f, n)
      OBVIOUS
    <3> HIDE DEF Fits, Next, Reached
    <3>3. Fits(Next(f), n + 1)
      BY <1>2, <3>1, <3>2
    <3> QED
      BY <3>1, <3>3 DEF Reached
  <2> HIDE DEF Reached
  <2>3. Reached \in SUBSET Nat
    BY DEF Reached
  <2> QED
    BY <2>1, <2>2, <2>3, AllNats
<1>4. Cardinality(S) + 1 \in Nat
  BY FS_CardinalityType DEF Partial
<1>5. PICK f : Fits(f, Cardinality(S) + 1)
  BY <1>3, <1>4
<1>6. \A at \in Places : Next(f)[at] = f[at]
  <2>1. \A at \in Places : Left(at) < Cardinality(S) + 1
    BY <1>1, FS_CardinalityType DEF Partial
  <2> QED
    BY <1>5, <2>1
<1>7. ASSUME NEW at \in Places
      PROVE  Onward(r, f, at) = Onward(r, Next(f), at)
  <2>1. at[1] \in DOMAIN r => <<r[at[1]], at[2] \cup {r[at[1]]}>> \in Places
    BY DEF Partial
  <2> QED
    BY <1>6, <2>1 DEF Onward
<1> DEFINE g == Next(f)
<1>8. IsWalk(r, S, g)
  BY <1>7 DEF IsWalk
<1> QED
  BY <1>8

\* The walk satisfies its equation, everywhere.
LEMMA WalkEquation ==
  ASSUME NEW r, NEW S, Partial(r, S), NEW y \in S, NEW met \in SUBSET S
  PROVE  Walk(r, S)[<<y, met>>] = Onward(r, Walk(r, S), <<y, met>>)
<1> DEFINE W == Walk(r, S)
<1>1. W = CHOOSE f : IsWalk(r, S, f)
  BY DEF Walk, IsWalk, Onward
<1>2. IsWalk(r, S, W)
  BY <1>1, WalkExists
<1> HIDE DEF W
<1>3. W[<<y, met>>] = Onward(r, W, <<y, met>>)
  BY <1>2 DEF IsWalk
<1> QED
  BY <1>3 DEF W

\* A walk ends at an object that is not replaced.
LEMMA WalkEnds ==
  ASSUME NEW r, NEW S, Partial(r, S), NEW y \in S, NEW met \in SUBSET S, y \notin DOMAIN r
  PROVE  Walk(r, S)[<<y, met>>] = y
<1>1. Walk(r, S)[<<y, met>>] = Onward(r, Walk(r, S), <<y, met>>)
  BY WalkEquation
<1> QED
  BY <1>1 DEF Onward

\* A walk stops at an object it has met.
LEMMA WalkMeets ==
  ASSUME NEW r, NEW S, Partial(r, S), NEW y \in S, NEW met \in SUBSET S, y \in DOMAIN r,
         r[y] \in met
  PROVE  Walk(r, S)[<<y, met>>] = r[y]
<1>1. Walk(r, S)[<<y, met>>] = Onward(r, Walk(r, S), <<y, met>>)
  BY WalkEquation
<1> QED
  BY <1>1 DEF Onward

\* Otherwise it goes on with the replacement.
LEMMA WalkGoesOn ==
  ASSUME NEW r, NEW S, Partial(r, S), NEW y \in S, NEW met \in SUBSET S, y \in DOMAIN r,
         r[y] \notin met
  PROVE  Walk(r, S)[<<y, met>>] = Walk(r, S)[<<r[y], met \cup {r[y]}>>]
<1>1. Walk(r, S)[<<y, met>>] = Onward(r, Walk(r, S), <<y, met>>)
  BY WalkEquation
<1> QED
  BY <1>1 DEF Onward
-----------------------------------------------------------------------------
\* The walk does not leave a set that r does not leave.
LEMMA WalkStays ==
  ASSUME NEW r, NEW S, Partial(r, S), NEW K \in SUBSET S,
         \A x \in DOMAIN r : r[x] \in K,
         NEW y \in K, NEW met \in SUBSET S
  PROVE  Walk(r, S)[<<y, met>>] \in K
<1> DEFINE Left(m) == Cardinality(S \ m)
           Stays(n) == \A x \in K, m \in SUBSET S :
                         Left(m) < n => Walk(r, S)[<<x, m>>] \in K
           Reached == {n \in Nat : Stays(n)}
<1>1. \A m \in SUBSET S : Left(m) \in Nat
  BY FS_Subset, FS_CardinalityType DEF Partial
<1>2. ASSUME NEW n \in Nat, Stays(n), NEW x \in K, NEW m \in SUBSET S, Left(m) < n + 1
      PROVE  Walk(r, S)[<<x, m>>] \in K
  <2>1. CASE x \in DOMAIN r /\ r[x] \notin m
    <3>1. r[x] \in S \ m /\ r[x] \in K /\ m \cup {r[x]} \in SUBSET S
      BY <2>1
    <3>2. Left(m \cup {r[x]}) < n
      BY <1>1, <1>2, <3>1, FewerLeft DEF Partial
    <3>3. Walk(r, S)[<<r[x], m \cup {r[x]}>>] \in K
      BY <1>2, <3>1, <3>2
    <3> QED
      BY <2>1, <3>3, WalkEnds, WalkMeets, WalkGoesOn
  <2>2. CASE ~(x \in DOMAIN r /\ r[x] \notin m)
    BY <2>2, WalkEnds, WalkMeets, WalkGoesOn
  <2> QED
    BY <2>1, <2>2
<1>3. Stays(0)
  BY <1>1
<1> HIDE DEF Stays
<1>4. ASSUME NEW n \in Nat, Stays(n)
      PROVE  Stays(n + 1)
  BY <1>2, <1>4 DEF Stays
<1>5. Reached = Nat
  <2>1. 0 \in Reached /\ Reached \in SUBSET Nat
    BY <1>3
  <2>2. \A n \in Reached : n + 1 \in Reached
    BY <1>4
  <2> HIDE DEF Reached
  <2> QED
    BY <2>1, <2>2, AllNats
<1>6. Left(met) + 1 \in Nat /\ Left(met) < Left(met) + 1
  BY <1>1
<1> QED
  BY <1>5, <1>6 DEF Stays

\* The end of a walk is in the set, and where the chain leads if it leads on.
LEMMA EndType ==
  ASSUME NEW r, NEW S, Partial(r, S), NEW x \in S
  PROVE  End(r, S, x) \in S
BY WalkStays DEF End, Partial

\* What the walk has met on its way to y: from every object of met the same
\* walk has come to y.
CameFrom(r, S, y, met) ==
  \A z \in met : \E mz \in SUBSET met :
    /\ {y, z} \subseteq mz
    /\ Walk(r, S)[<<z, {z}>>] = Walk(r, S)[<<y, mz>>]

\* One more step: what was met before has come to the next object too.
LEMMA CameFurther ==
  ASSUME NEW r, NEW S, Partial(r, S), NEW met \in SUBSET S, NEW y \in met,
         CameFrom(r, S, y, met), y \in DOMAIN r, r[y] \notin met
  PROVE  CameFrom(r, S, r[y], met \cup {r[y]})
<1> DEFINE x == r[y]
<1>1. SUFFICES ASSUME NEW z \in met \cup {x}
               PROVE  \E mz \in SUBSET (met \cup {x}) :
                        /\ {x, z} \subseteq mz
                        /\ Walk(r, S)[<<z, {z}>>] = Walk(r, S)[<<x, mz>>]
  BY DEF CameFrom
<1>2. CASE z = x
  BY <1>2
<1>3. CASE z \in met
  <2>1. PICK mz \in SUBSET met :
          /\ {y, z} \subseteq mz
          /\ Walk(r, S)[<<z, {z}>>] = Walk(r, S)[<<y, mz>>]
    BY <1>3 DEF CameFrom
  <2>2. Walk(r, S)[<<y, mz>>] = Walk(r, S)[<<x, mz \cup {x}>>]
    BY <2>1, WalkEnds, WalkMeets, WalkGoesOn
  <2> QED
    BY <2>1, <2>2
<1> QED
  BY <1>2, <1>3

\* The end of a chain stands for itself. It is outside the domain, or it is
\* the first object met twice: then the walk from it goes round the same cycle
\* and meets it first again.
LEMMA EndIsFixed ==
  ASSUME NEW r, NEW S, Partial(r, S), NEW x \in S
  PROVE  End(r, S, End(r, S, x)) = End(r, S, x)
<1> DEFINE W(y, met) == Walk(r, S)[<<y, met>>]
           Left(m) == Cardinality(S \ m)
           Fixed(n) == \A met \in SUBSET S : \A y \in met :
                         Left(met) < n /\ CameFrom(r, S, y, met)
                           => End(r, S, W(y, met)) = W(y, met)
           Reached == {n \in Nat : Fixed(n)}
<1>1. \A m \in SUBSET S : Left(m) \in Nat
  BY FS_Subset, FS_CardinalityType DEF Partial
<1>2. ASSUME NEW n \in Nat, Fixed(n), NEW met \in SUBSET S, NEW y \in met,
             Left(met) < n + 1, CameFrom(r, S, y, met)
      PROVE  End(r, S, W(y, met)) = W(y, met)
  <2>1. CASE y \notin DOMAIN r
    <3>1. y \in S /\ {y} \in SUBSET S
      OBVIOUS
    <3>2. W(y, met) = y /\ W(y, {y}) = y
      BY <2>1, <3>1, WalkEnds, WalkMeets, WalkGoesOn
    <3> QED
      BY <3>2 DEF End
  <2>2. CASE y \in DOMAIN r /\ r[y] \in met
    <3>1. y \in S /\ W(y, met) = r[y]
      BY <2>2, WalkEnds, WalkMeets, WalkGoesOn
    <3>2. PICK mz \in SUBSET met :
            /\ {y, r[y]} \subseteq mz
            /\ W(r[y], {r[y]}) = W(y, mz)
      BY <1>2, <2>2 DEF CameFrom
    <3>3. W(y, mz) = r[y]
      <4>1. mz \in SUBSET S /\ r[y] \in mz
        BY <3>2
      <4> QED
        BY <2>2, <3>1, <4>1, WalkEnds, WalkMeets, WalkGoesOn
    <3> QED
      BY <3>1, <3>2, <3>3 DEF End
  <2>3. CASE y \in DOMAIN r /\ r[y] \notin met
    <3>1. r[y] \in S \ met /\ met \cup {r[y]} \in SUBSET S
      BY <2>3 DEF Partial
    <3>2. Left(met \cup {r[y]}) < n
      BY <1>1, <1>2, <3>1, FewerLeft DEF Partial
    <3>3. CameFrom(r, S, r[y], met \cup {r[y]})
      BY <1>2, <2>3, CameFurther
    <3>4. W(y, met) = W(r[y], met \cup {r[y]})
      BY <2>3, WalkEnds, WalkMeets, WalkGoesOn
    <3> QED
      BY <1>2, <3>1, <3>2, <3>3, <3>4
  <2> QED
    BY <2>1, <2>2, <2>3
<1>3. Fixed(0)
  BY <1>1
<1> HIDE DEF Fixed
<1>4. ASSUME NEW n \in Nat, Fixed(n)
      PROVE  Fixed(n + 1)
  BY <1>2, <1>4 DEF Fixed
<1>5. Reached = Nat
  <2>1. 0 \in Reached /\ Reached \in SUBSET Nat
    BY <1>3
  <2>2. \A n \in Reached : n + 1 \in Reached
    BY <1>4
  <2> HIDE DEF Reached
  <2> QED
    BY <2>1, <2>2, AllNats
<1>6. CameFrom(r, S, x, {x})
  BY DEF CameFrom
<1>7. Left({x}) + 1 \in Nat /\ Left({x}) < Left({x}) + 1
  <2>1. {x} \in SUBSET S
    OBVIOUS
  <2> HIDE DEF Left
  <2> QED
    BY <1>1, <2>1
<1>8. End(r, S, W(x, {x})) = W(x, {x})
  BY <1>5, <1>6, <1>7 DEF Fixed
<1> QED
  BY <1>8 DEF End

-----------------------------------------------------------------------------
\* Every step along r decreases the rank.
Ranked(r, S, rank) ==
  /\ rank \in [S -> Nat]
  /\ \A x \in DOMAIN r : rank[r[x]] < rank[x]

\* Along a ranked function no object is met twice: chains end outside it.
LEMMA RankedChainsEnd ==
  ASSUME NEW r, NEW S, Partial(r, S), NEW rank, Ranked(r, S, rank), NEW x \in S
  PROVE  End(r, S, x) \notin DOMAIN r
<1> DEFINE Above(y, met) == \A z \in met : rank[y] <= rank[z]
           Ends(n) == \A y \in S, met \in SUBSET S :
                        rank[y] < n /\ Above(y, met)
                          => Walk(r, S)[<<y, met>>] \notin DOMAIN r
           Reached == {n \in Nat : Ends(n)}
<1>1. ASSUME NEW n \in Nat, Ends(n), NEW y \in S, NEW met \in SUBSET S,
             rank[y] < n + 1, Above(y, met)
      PROVE  Walk(r, S)[<<y, met>>] \notin DOMAIN r
  <2>1. CASE y \notin DOMAIN r
    <3>1. Walk(r, S)[<<y, met>>] = y
      BY <2>1, WalkEnds, WalkMeets, WalkGoesOn
    <3> QED
      BY <2>1, <3>1
  <2>2. CASE y \in DOMAIN r
    <3>1. r[y] \in S /\ rank[r[y]] \in Nat /\ rank[r[y]] < rank[y] /\ rank[y] \in Nat
      BY <2>2 DEF Partial, Ranked
    <3>2. r[y] \notin met
      BY <1>1, <3>1
    <3>3. Above(r[y], met \cup {r[y]})
      BY <1>1, <3>1 DEF Ranked
    <3>4. Walk(r, S)[<<r[y], met \cup {r[y]}>>] \notin DOMAIN r
      BY <1>1, <3>1, <3>3
    <3> QED
      BY <2>2, <3>2, <3>4, WalkEnds, WalkMeets, WalkGoesOn
  <2> QED
    BY <2>1, <2>2
<1>2. Ends(0)
  BY DEF Ranked
<1> HIDE DEF Ends
<1>3. ASSUME NEW n \in Nat, Ends(n)
      PROVE  Ends(n + 1)
  BY <1>1, <1>3 DEF Ends
<1>4. Reached = Nat
  <2>1. 0 \in Reached /\ Reached \in SUBSET Nat
    BY <1>2
  <2>2. \A n \in Reached : n + 1 \in Reached
    BY <1>3
  <2> HIDE DEF Reached
  <2> QED
    BY <2>1, <2>2, AllNats
<1>5. rank[x] + 1 \in Nat /\ rank[x] < rank[x] + 1 /\ rank[x] <= rank[x]
  BY DEF Ranked
<1>6. Ends(rank[x] + 1)
  BY <1>4, <1>5
<1> QED
  BY <1>5, <1>6 DEF Ends, End

=============================================================================
