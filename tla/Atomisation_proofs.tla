------------------------- MODULE Atomisation_proofs -------------------------
(***************************************************************************)
(* What holds of conditions and atoms for every type, every query and any  *)
(* number of conditions. Literals are ordered lexicographically, whatever  *)
(* they are; between a value and its neighbour there is no other, although *)
(* a string has infinitely many successors once it may grow. So asInterval *)
(* keeps what a comparison admits, and conjoining keeps it for any number  *)
(* of conditions in any order. The values are cut into boxes, of which     *)
(* every object has one, and a node is answered with those of the objects  *)
(* it asks for.                                                            *)
(***************************************************************************)
EXTENDS Atomisation, Collections_proofs, SequenceTheorems, FiniteSetTheorems, TLAPS

\* The values of either type.
All == Strings \cup Doubles

-----------------------------------------------------------------------------
(* The order of the values.                                                *)

\* A string is a sequence of characters, of bounded length.
LEMMA StringIsSequence ==
  ASSUME NEW s
  PROVE  s \in Strings <=> s \in Seq(1..MaxChar) /\ Len(s) <= MaxLength
BY DataPredicatesAssumption DEF Strings, BoundedSeq, SeqOf

\* A double is the sequence of its rank.
LEMMA DoubleIsSequence ==
  ASSUME NEW x \in Doubles
  PROVE  x \in Seq(Nat) /\ Len(x) = 1 /\ x[1] \in 0..MaxDouble /\ x = <<x[1]>>
<1>1. PICK n \in 0..MaxDouble : x = <<n>>
  BY DEF Doubles
<1>2. n \in Nat
  BY DataPredicatesAssumption
<1> QED
  BY <1>1, <1>2

\* All values are sequences of naturals.
LEMMA ValueIsSequence == All \subseteq Seq(Nat)
<1>1. ASSUME NEW s \in Strings
      PROVE  s \in Seq(Nat)
  BY StringIsSequence, DataPredicatesAssumption
<1> QED
  BY <1>1, DoubleIsSequence DEF All

\* The table of the order holds the lexicographic order.
LEMMA OrderIsPrecedes ==
  ASSUME NEW a \in All, NEW b \in All
  PROVE  Less(a, b) <=> Precedes(a, b)
BY DEF Less, Order, Precedes, All

\* Nothing precedes itself.
LEMMA Irreflexive ==
  ASSUME NEW a \in Seq(Nat)
  PROVE  ~ Precedes(a, a)
BY DEF Precedes

\* The earlier of the two places of difference decides.
LEMMA Transitive ==
  ASSUME NEW a \in Seq(Nat), NEW b \in Seq(Nat), NEW c \in Seq(Nat),
         Precedes(a, b), Precedes(b, c)
  PROVE  Precedes(a, c)
<1>1. PICK i \in 1..Len(b) : /\ i <= Len(a) + 1
                             /\ \A j \in 1..(i - 1) : a[j] = b[j]
                             /\ i <= Len(a) => a[i] < b[i]
  BY DEF Precedes
<1>2. PICK k \in 1..Len(c) : /\ k <= Len(b) + 1
                             /\ \A j \in 1..(k - 1) : b[j] = c[j]
                             /\ k <= Len(b) => b[k] < c[k]
  BY DEF Precedes
<1>3. CASE i <= k
  <2>1. i \in 1..Len(c)
    BY <1>3
  <2>2. i <= Len(a) => a[i] < c[i]
    BY <1>1, <1>2, <1>3
  <2>3. \A j \in 1..(i - 1) : a[j] = c[j]
    BY <1>1, <1>2, <1>3
  <2> QED
    BY <1>1, <2>1, <2>2, <2>3 DEF Precedes
<1>4. CASE k < i
  <2>1. k <= Len(a) + 1
    BY <1>1, <1>4
  <2>2. \A j \in 1..(k - 1) : a[j] = c[j]
    BY <1>1, <1>2, <1>4
  <2>3. k <= Len(a) => a[k] < c[k]
    BY <1>1, <1>2, <1>4
  <2> QED
    BY <2>1, <2>2, <2>3 DEF Precedes
<1> QED
  BY <1>3, <1>4

\* Two sequences that differ are ordered by the first place where they do.
LEMMA FirstDifference ==
  ASSUME NEW a \in Seq(Nat), NEW b \in Seq(Nat), Len(a) <= Len(b)
  PROVE  Precedes(a, b) \/ Precedes(b, a) \/ a = b
<1> DEFINE T == {i \in Nat : /\ i >= 1
                             /\ i <= Len(a) + 1
                             /\ i <= Len(a) => a[i] # b[i]}
<1>1. T \in SUBSET Nat /\ Len(a) + 1 \in T
  OBVIOUS
<1>2. PICK i \in T : \A m \in T : i <= m
  <2> HIDE DEF T
  <2> QED
    BY <1>1, LeastNat
<1>3. ASSUME NEW j \in 1..(i - 1)
      PROVE  a[j] = b[j]
  <2>1. j \in Nat /\ j >= 1 /\ j <= Len(a) /\ ~ (i <= j)
    BY <1>2
  <2>2. j \notin T
    BY <1>2, <2>1
  <2> QED
    BY <2>1, <2>2
<1>4. CASE i <= Len(a)
  <2>1. a[i] \in Nat /\ b[i] \in Nat /\ a[i] # b[i]
    BY <1>2, <1>4
  <2>2. i \in 1..Len(a) /\ i \in 1..Len(b) /\ i <= Len(a) + 1 /\ i <= Len(b) + 1
    BY <1>2, <1>4
  <2>3. CASE a[i] < b[i]
    BY <1>3, <2>2, <2>3 DEF Precedes
  <2>4. CASE b[i] < a[i]
    BY <1>3, <2>2, <2>4 DEF Precedes
  <2> QED
    BY <2>1, <2>3, <2>4
<1>5. CASE ~ (i <= Len(a))
  <2>1. i = Len(a) + 1
    BY <1>2, <1>5
  <2>2. CASE Len(a) = Len(b)
    BY <1>3, <2>1, <2>2
  <2>3. CASE Len(a) < Len(b)
    BY <1>3, <2>1, <2>3 DEF Precedes
  <2> QED
    BY <2>2, <2>3
<1> QED
  BY <1>4, <1>5

\* Any two sequences are ordered.
LEMMA Total ==
  ASSUME NEW a \in Seq(Nat), NEW b \in Seq(Nat)
  PROVE  Precedes(a, b) \/ Precedes(b, a) \/ a = b
<1>1. CASE Len(a) <= Len(b)
  BY <1>1, FirstDifference
<1>2. CASE Len(b) <= Len(a)
  BY <1>2, FirstDifference
<1> QED
  BY <1>1, <1>2

-----------------------------------------------------------------------------
(* Lists.                                                                  *)

\* A function on the numbers up to n is a list.
LEMMA ListOver ==
  ASSUME NEW S, NEW n \in Nat, NEW f \in [1..n -> S]
  PROVE  f \in Seq(S) /\ Len(f) = n
OBVIOUS

\* The elements of a list.
LEMMA CharactersOf ==
  ASSUME NEW S, NEW s \in Seq(S)
  PROVE  \A i \in 1..Len(s) : s[i] \in S
OBVIOUS

-----------------------------------------------------------------------------
(* Neighbours.                                                             *)

\* Nothing lies between a sequence and the one with a 1 behind it: x differs from
\* the longer one at i, and from the shorter one at m.
LEMMA NothingBeforeOne ==
  ASSUME NEW u, NEW s, NEW x, NEW k \in Nat, NEW n \in Nat,
         \A j \in 1..k : u[j] \in Nat /\ u[j] = s[j],
         s[k + 1] = 1,
         \A j \in 1..n : x[j] \in Nat \ {0},
         NEW i \in 1..(k + 1), i <= n + 1,
         \A j \in 1..(i - 1) : x[j] = s[j],
         i <= n => x[i] < s[i],
         NEW m \in 1..n, m <= k + 1,
         \A j \in 1..(m - 1) : u[j] = x[j],
         m <= k => u[m] < x[m]
  PROVE  FALSE
<1>1. CASE m < i
  <2>1. m \in 1..k /\ m \in 1..(i - 1) /\ x[m] \in Nat
    BY <1>1
  <2> QED
    BY <2>1
<1>2. CASE i <= m
  <2>1. i \in 1..n /\ x[i] \in Nat \ {0} /\ x[i] < s[i]
    BY <1>2
  <2>2. i # k + 1
    BY <2>1
  <2>3. i \in 1..k /\ u[i] = s[i] /\ u[i] \in Nat
    BY <2>2
  <2> QED
    BY <1>2, <2>1, <2>3
<1> QED
  BY <1>1, <1>2

\* Nothing lies between a sequence and what it becomes when its last number is
\* lowered and the greatest one repeated behind it, among those that are no longer.
LEMMA NothingAbovePadding ==
  ASSUME NEW u, NEW s, NEW x, NEW k \in Nat \ {0}, NEW l \in Nat, NEW n \in Nat, NEW top \in Nat,
         k <= l, n <= l,
         \A j \in 1..k : s[j] \in Nat,
         \A j \in 1..n : x[j] \in Nat /\ x[j] <= top,
         \A j \in 1..(k - 1) : u[j] = s[j],
         u[k] = s[k] - 1,
         \A j \in (k + 1)..l : u[j] = top,
         NEW i \in 1..k, i <= n + 1,
         \A j \in 1..(i - 1) : x[j] = s[j],
         i <= n => x[i] < s[i],
         NEW m \in 1..n, m <= l + 1,
         \A j \in 1..(m - 1) : u[j] = x[j],
         m <= l => u[m] < x[m]
  PROVE  FALSE
<1>1. u[m] < x[m] /\ x[m] \in Nat /\ x[m] <= top
  OBVIOUS
<1>2. m <= k
  <2>1. SUFFICES ASSUME m > k PROVE FALSE
    OBVIOUS
  <2>2. m \in (k + 1)..l
    BY <2>1
  <2> QED
    BY <1>1, <2>2
<1>3. s[m] \in Nat /\ (u[m] = s[m] \/ u[m] = s[m] - 1)
  <2>1. m \in 1..(k - 1) \/ m = k
    BY <1>2
  <2> QED
    BY <1>2, <2>1
<1>4. CASE m < i
  <2>1. m \in 1..(i - 1) /\ m \in 1..(k - 1)
    BY <1>4
  <2> QED
    BY <1>1, <2>1
<1>5. CASE m = i
  BY <1>1, <1>3, <1>5
<1>6. CASE i < m
  <2>1. i \in 1..(m - 1) /\ i \in 1..(k - 1) /\ i \in 1..n
    BY <1>2, <1>6
  <2> QED
    BY <2>1
<1> QED
  BY <1>4, <1>5, <1>6

\* A string that ends in the first character comes right after the string without it.
LEMMA Truncated ==
  ASSUME NEW s \in Strings, s # <<>>, Last(s) = 1
  PROVE  /\ Front(s) \in Strings
         /\ \A x \in Strings : Precedes(x, s) <=> ~ Precedes(Front(s), x)
<1> DEFINE u == Front(s)
           k == Len(s) - 1
<1>1. /\ s \in Seq(1..MaxChar) /\ s \in Seq(Nat)
      /\ Len(s) = k + 1 /\ k \in Nat /\ k + 1 <= MaxLength
      /\ s[k + 1] = 1
  BY StringIsSequence, ValueIsSequence DEF Last, All
<1>2. /\ u \in Seq(1..MaxChar)
      /\ Len(u) = k
      /\ \A j \in 1..k : u[j] = s[j]
  <2>1. \A j \in 1..k : s[j] \in 1..MaxChar
    <3>1. \A j \in 1..Len(s) : s[j] \in 1..MaxChar
      BY <1>1, CharactersOf
    <3> QED
      BY <1>1, <3>1
  <2> QED
    BY <1>1, <2>1, SubSeqProperties DEF Front
<1> HIDE DEF u, k
<1>3. u \in Strings /\ u \in Seq(Nat)
  <2>1. u \in Strings
    BY <1>1, <1>2, StringIsSequence, DataPredicatesAssumption
  <2> QED
    BY <2>1, ValueIsSequence DEF All
<1>4. Precedes(u, s)
  BY <1>1, <1>2 DEF Precedes
<1>5. ASSUME NEW x \in Strings, Precedes(x, s), Precedes(u, x)
      PROVE  FALSE
  <2>1. x \in Seq(1..MaxChar) /\ Len(x) \in Nat
    BY StringIsSequence
  <2>2. \A j \in 1..Len(x) : x[j] \in Nat \ {0}
    BY <2>1, DataPredicatesAssumption
  <2>3. \A j \in 1..k : u[j] \in Nat /\ u[j] = s[j]
    BY <1>2, <1>3
  <2>4. PICK i \in 1..(k + 1) : /\ i <= Len(x) + 1
                                /\ \A j \in 1..(i - 1) : x[j] = s[j]
                                /\ i <= Len(x) => x[i] < s[i]
    BY <1>1, <1>5, Zenon DEF Precedes
  <2>5. PICK m \in 1..Len(x) : /\ m <= k + 1
                               /\ \A j \in 1..(m - 1) : u[j] = x[j]
                               /\ m <= k => u[m] < x[m]
    BY <1>2, <1>5, Zenon DEF Precedes
  <2> HIDE DEF Precedes
  <2> QED
    BY <1>1, <2>1, <2>2, <2>3, <2>4, <2>5, NothingBeforeOne
<1>6. ASSUME NEW x \in Strings, ~ Precedes(u, x)
      PROVE  Precedes(x, s)
  <2>1. x \in Seq(Nat)
    BY ValueIsSequence DEF All
  <2> QED
    BY <1>1, <1>3, <1>4, <1>6, <2>1, Total, Transitive
<1> QED
  BY <1>3, <1>5, <1>6 DEF u

\* A string comes right after the one whose last character is lowered and which is
\* filled up with the greatest character.
LEMMA Lowered ==
  ASSUME NEW s \in Strings, s # <<>>, Last(s) # 1
  PROVE  /\ prev_char(s) \in Strings
         /\ \A x \in Strings : Precedes(x, s) <=> ~ Precedes(prev_char(s), x)
<1> DEFINE u == prev_char(s)
           k == Len(s)
           l == MaxLength
<1>1. /\ s \in Seq(1..MaxChar) /\ s \in Seq(Nat)
      /\ k \in Nat \ {0} /\ k <= l /\ l \in Nat
      /\ s[k] \in 1..MaxChar /\ s[k] # 1
  BY StringIsSequence, ValueIsSequence, DataPredicatesAssumption DEF Last, All
<1>2. u = [i \in 1..l |-> IF i < k THEN s[i] ELSE IF i = k THEN s[i] - 1 ELSE MaxChar]
  BY DEF prev_char
<1> HIDE DEF u, k, l
<1>3. \A i \in 1..l : u[i] \in 1..MaxChar
  <2>1. \A i \in 1..k : s[i] \in 1..MaxChar
    BY <1>1, CharactersOf DEF k
  <2> QED
    BY <1>1, <1>2, <2>1, DataPredicatesAssumption
<1>4. u \in Seq(1..MaxChar) /\ Len(u) = l
  <2>1. u \in [1..l -> 1..MaxChar]
    BY <1>2, <1>3
  <2> QED
    BY <1>1, <2>1, ListOver
<1>5. u \in Strings /\ u \in Seq(Nat)
  <2>1. u \in Strings
    BY <1>1, <1>4, StringIsSequence DEF l
  <2> QED
    BY <2>1, ValueIsSequence DEF All
<1>6. /\ \A j \in 1..k : s[j] \in Nat
      /\ \A j \in 1..(k - 1) : u[j] = s[j]
      /\ u[k] = s[k] - 1
      /\ \A j \in (k + 1)..l : u[j] = MaxChar
  <2>1. \A j \in 1..k : s[j] \in Nat
    BY <1>1 DEF k
  <2> QED
    BY <1>1, <1>2, <2>1
<1>7. Precedes(u, s)
  <2>1. k \in 1..Len(s) /\ k <= Len(u) + 1 /\ u[k] < s[k]
    BY <1>1, <1>4, <1>6 DEF k
  <2> QED
    BY <1>6, <2>1 DEF Precedes
<1>8. ASSUME NEW x \in Strings, Precedes(x, s), Precedes(u, x)
      PROVE  FALSE
  <2>1. x \in Seq(1..MaxChar) /\ Len(x) \in Nat /\ Len(x) <= l
    BY StringIsSequence DEF l
  <2>2. \A j \in 1..Len(x) : x[j] \in Nat /\ x[j] <= MaxChar
    BY <2>1, DataPredicatesAssumption
  <2>4. PICK i \in 1..k : /\ i <= Len(x) + 1
                          /\ \A j \in 1..(i - 1) : x[j] = s[j]
                          /\ i <= Len(x) => x[i] < s[i]
    BY <1>8, Zenon DEF Precedes, k
  <2>5. PICK m \in 1..Len(x) : /\ m <= l + 1
                               /\ \A j \in 1..(m - 1) : u[j] = x[j]
                               /\ m <= l => u[m] < x[m]
    BY <1>4, <1>8, Zenon DEF Precedes
  <2>6. MaxChar \in Nat
    BY DataPredicatesAssumption
  <2> HIDE DEF Precedes
  <2> QED
    BY <1>1, <1>6, <2>1, <2>2, <2>4, <2>5, <2>6, NothingAbovePadding
<1>9. ASSUME NEW x \in Strings, ~ Precedes(u, x)
      PROVE  Precedes(x, s)
  <2>1. x \in Seq(Nat)
    BY ValueIsSequence DEF All
  <2> QED
    BY <1>1, <1>5, <1>7, <1>9, <2>1, Total, Transitive
<1> QED
  BY <1>5, <1>8, <1>9 DEF u

\* The greatest bounded string is a string.
LEMMA MaxStringIsString == MAX_STRING \in Strings
<1>1. MAX_STRING \in [1..MaxLength -> 1..MaxChar]
  BY DataPredicatesAssumption DEF MAX_STRING
<1>2. MaxLength \in Nat
  BY DataPredicatesAssumption
<1>3. MAX_STRING \in Seq(1..MaxChar) /\ Len(MAX_STRING) = MaxLength
  BY <1>1, <1>2, ListOver
<1> QED
  BY <1>2, <1>3, StringIsSequence

\* A full string below the greatest one can be raised somewhere.
LEMMA SomeOpen ==
  ASSUME NEW s \in Strings, Len(s) = MaxLength, ~ Precedes(MAX_STRING, s), s # MAX_STRING
  PROVE  \E i \in DOMAIN s : s[i] # MaxChar
<1>1. Precedes(s, MAX_STRING)
  BY Total, MaxStringIsString, ValueIsSequence DEF All
<1>2. MAX_STRING \in Seq(Nat) /\ Len(MAX_STRING) = MaxLength /\ MaxLength \in Nat
  <2>1. MAX_STRING \in [1..MaxLength -> Nat]
    BY DataPredicatesAssumption DEF MAX_STRING
  <2> QED
    BY <2>1, ListOver, DataPredicatesAssumption
<1>3. PICK i \in 1..MaxLength : s[i] < MAX_STRING[i]
  BY <1>1, <1>2 DEF Precedes
<1>4. MAX_STRING[i] \in Nat /\ MAX_STRING[i] <= MaxChar /\ MaxChar \in Nat
  BY DataPredicatesAssumption DEF MAX_STRING
<1>5. i \in DOMAIN s /\ s[i] \in Nat
  <2>1. s \in Seq(Nat)
    BY ValueIsSequence DEF All
  <2> QED
    BY <2>1, <1>2
<1>6. s[i] # MaxChar
  BY <1>3, <1>4, <1>5
<1> QED
  BY <1>5, <1>6

\* A string that is not full comes right before the one with the first character
\* behind it.
LEMMA Extended ==
  ASSUME NEW s \in Strings, Len(s) < MaxLength
  PROVE  /\ Append(s, 1) \in Strings
         /\ \A x \in Strings : Precedes(x, Append(s, 1)) <=> ~ Precedes(s, x)
<1> DEFINE w == Append(s, 1)
           Chars == 1..MaxChar
<1>1. s \in Seq(Chars) /\ Len(s) \in Nat /\ 1 \in Chars /\ MaxLength \in Nat
  BY StringIsSequence, DataPredicatesAssumption
<1> HIDE DEF Chars
<1>2. w \in Seq(Chars) /\ Len(w) = Len(s) + 1 /\ w[Len(w)] = 1
  BY <1>1
<1>3. Front(w) = s
  BY <1>1 DEF Front
<1> HIDE DEF w
<1>4. w \in Strings
  <2>1. Len(w) <= MaxLength
    BY <1>1, <1>2
  <2> QED
    BY <1>2, <2>1, StringIsSequence DEF Chars
<1>5. w # <<>> /\ Last(w) = 1
  BY <1>1, <1>2 DEF Last
<1>6. \A x \in Strings : Precedes(x, w) <=> ~ Precedes(s, x)
  BY <1>3, <1>4, <1>5, Truncated
<1> QED
  BY <1>4, <1>6 DEF w

\* A full string comes right before the one that ends where it can be raised last.
LEMMA Raised ==
  ASSUME NEW s \in Strings, Len(s) = MaxLength, NEW k \in DOMAIN s, s[k] # MaxChar,
         \A j \in DOMAIN s : s[j] # MaxChar => j <= k
  PROVE  /\ [SubSeq(s, 1, k) EXCEPT ![k] = @ + 1] \in Strings
         /\ \A x \in Strings : Precedes(x, [SubSeq(s, 1, k) EXCEPT ![k] = @ + 1]) <=> ~ Precedes(s, x)
<1> DEFINE w == [SubSeq(s, 1, k) EXCEPT ![k] = @ + 1]
<1>1. /\ s \in Seq(1..MaxChar) /\ s \in [1..MaxLength -> 1..MaxChar]
      /\ MaxLength \in Nat \ {0} /\ MaxChar \in Nat
      /\ k \in 1..MaxLength
  BY StringIsSequence, DataPredicatesAssumption
<1>2. \A j \in 1..MaxLength : s[j] \in 1..MaxChar
  BY <1>1
<1>3. /\ SubSeq(s, 1, k) = [j \in 1..k |-> s[j]]
  BY <1>1, <1>2
<1>4. w = [j \in 1..k |-> IF j = k THEN s[k] + 1 ELSE s[j]]
  BY <1>1, <1>3
<1> HIDE DEF w
<1>5. w \in [1..k -> 1..MaxChar]
  <2>1. \A j \in 1..k : j \in 1..MaxLength
    BY <1>1
  <2>2. s[k] + 1 \in 1..MaxChar
    BY <1>1, <1>2
  <2> QED
    BY <1>2, <1>4, <2>1, <2>2
<1>6. w \in Strings /\ Len(w) = k
  <2>1. k \in Nat /\ k <= MaxLength
    BY <1>1
  <2>2. w \in Seq(1..MaxChar) /\ Len(w) = k
    BY <1>5, <2>1, ListOver
  <2> QED
    BY <2>1, <2>2, StringIsSequence
<1>7. w # <<>> /\ Last(w) # 1 /\ Last(w) = s[k] + 1
  <2>1. w[k] = s[k] + 1 /\ s[k] \in 1..MaxChar
    BY <1>1, <1>2, <1>4
  <2>2. w # <<>>
    BY <1>1, <1>6
  <2> QED
    BY <1>6, <2>1, <2>2, <1>1 DEF Last
<1>8. prev_char(w) = s
  <2>1. prev_char(w) = [i \in 1..MaxLength |-> IF i < k THEN w[i]
                                              ELSE IF i = k THEN w[i] - 1 ELSE MaxChar]
    BY <1>6, <1>7 DEF prev_char
  <2>2. ASSUME NEW i \in 1..MaxLength
        PROVE  prev_char(w)[i] = s[i]
    <3>1. CASE i < k
      <4>1. i \in 1..k /\ i # k
        BY <1>1, <3>1
      <4>2. w[i] = s[i]
        BY <1>4, <4>1
      <4> QED
        BY <2>1, <3>1, <4>2
    <3>2. CASE i = k
      <4>1. w[k] = s[k] + 1 /\ s[k] \in Nat
        BY <1>1, <1>2, <1>4
      <4> QED
        BY <2>1, <3>2, <4>1
    <3>3. CASE k < i
      <4>1. s[i] = MaxChar
        BY <1>1, <3>3
      <4> QED
        BY <1>1, <2>1, <3>3, <4>1
    <3> QED
      BY <1>1, <3>1, <3>2, <3>3
  <2> QED
    BY <1>1, <2>1, <2>2
<1>9. \A x \in Strings : Precedes(x, w) <=> ~ Precedes(s, x)
  BY <1>6, <1>7, <1>8, Lowered
<1> QED
  BY <1>6, <1>9 DEF w

\* The next string, in all its cases.
LEMMA NextString ==
  ASSUME NEW s \in Strings, ~ Precedes(MAX_STRING, s), s # MAX_STRING
  PROVE  /\ next_char(s) \in Strings
         /\ \A x \in Strings : Precedes(x, next_char(s)) <=> ~ Precedes(s, x)
<1> DEFINE open == {i \in DOMAIN s : s[i] # MaxChar}
           k == CHOOSE i \in open : \A j \in open : j <= i
<1>1. s \in Seq(1..MaxChar) /\ Len(s) \in Nat /\ Len(s) <= MaxLength /\ MaxLength \in Nat
  BY StringIsSequence, DataPredicatesAssumption
<1>2. CASE Len(s) < MaxLength
  <2>1. next_char(s) = Append(s, 1)
    BY <1>2 DEF next_char
  <2> QED
    BY <1>2, <2>1, Extended
<1>3. CASE Len(s) = MaxLength
  <2>1. open # {}
    BY <1>3, SomeOpen
  <2>2. open \in SUBSET (0..MaxLength)
    BY <1>1, <1>3
  <2>3. \E i \in open : \A j \in open : j <= i
    <3> HIDE DEF open
    <3> QED
      BY <1>1, <2>1, <2>2, GreatestNat
  <2>4. k \in open /\ \A j \in open : j <= k
    <3> HIDE DEF open
    <3> QED
      BY <2>3, Zenon
  <2>5. next_char(s) = [SubSeq(s, 1, k) EXCEPT ![k] = @ + 1]
    <3>1. ~ (Len(s) < MaxLength)
      BY <1>1, <1>3
    <3> QED
      BY <2>1, <3>1 DEF next_char
  <2>6. k \in DOMAIN s /\ s[k] # MaxChar /\ \A j \in DOMAIN s : s[j] # MaxChar => j <= k
    BY <2>4
  <2> HIDE DEF k, open
  <2>7. /\ [SubSeq(s, 1, k) EXCEPT ![k] = @ + 1] \in Strings
        /\ \A x \in Strings : Precedes(x, [SubSeq(s, 1, k) EXCEPT ![k] = @ + 1]) <=> ~ Precedes(s, x)
    BY <1>3, <2>6, Raised
  <2> QED
    BY <2>5, <2>7, Zenon
<1> QED
  BY <1>1, <1>2, <1>3

\* The order of the doubles is that of their ranks.
LEMMA DoubleOrder ==
  ASSUME NEW a \in Nat, NEW b \in Nat
  PROVE  Precedes(<<a>>, <<b>>) <=> a < b
BY DEF Precedes

Types == {"string", "double"}

\* The values of a type are ordered.
LEMMA OrderOfValues ==
  ASSUME NEW type \in Types
  PROVE  /\ Values(type) \subseteq All
         /\ \A a \in Values(type) : ~ Less(a, a)
         /\ \A a, b \in Values(type) : Less(a, b) \/ Less(b, a) \/ a = b
         /\ \A a, b, c \in Values(type) : Less(a, b) /\ Less(b, c) => Less(a, c)
<1>1. Values(type) \subseteq All
  BY DEF Values, All
<1>2. \A a, b \in Values(type) : Less(a, b) <=> Precedes(a, b)
  BY <1>1, OrderIsPrecedes
<1>3. Values(type) \subseteq Seq(Nat)
  BY <1>1, ValueIsSequence
<1> QED
  BY <1>1, <1>2, <1>3, Irreflexive, Transitive, Total

\* The ends of a type.
LEMMA Ends ==
  ASSUME NEW type \in Types
  PROVE  /\ Lowest(type) \in Bounded(type) /\ Highest(type) \in Bounded(type)
         /\ \A x \in Bounded(type) : AtMost(Lowest(type), x) /\ AtMost(x, Highest(type))
<1>1. Lowest(type) \in Values(type) /\ Highest(type) \in Values(type)
  <2>1. <<>> \in Strings
    <3>1. <<>> \in Seq(1..MaxChar) /\ Len(<<>>) <= MaxLength
      BY EmptySeq, DataPredicatesAssumption
    <3> QED
      BY <3>1, StringIsSequence
  <2>2. <<0>> \in Doubles /\ <<MaxDouble>> \in Doubles
    BY DataPredicatesAssumption DEF Doubles
  <2> QED
    BY <2>1, <2>2, MaxStringIsString DEF Values, Lowest, Highest, Types
<1>2. ASSUME NEW x \in Values(type)
      PROVE  AtMost(Lowest(type), x)
  <2>1. CASE type = "string"
    <3>1. ~ Precedes(x, <<>>)
      BY DEF Precedes
    <3> QED
      BY <1>1, <2>1, <3>1, OrderIsPrecedes, OrderOfValues DEF Lowest, AtMost, Less
  <2>2. CASE type = "double"
    <3>1. PICK b \in 0..MaxDouble : x = <<b>>
      BY <2>2 DEF Values, Doubles
    <3>2. ~ Precedes(x, <<0>>)
      BY <3>1, DoubleOrder, DataPredicatesAssumption
    <3> QED
      BY <1>1, <2>2, <3>2, OrderIsPrecedes, OrderOfValues DEF Lowest, AtMost, Less
  <2> QED
    BY <2>1, <2>2 DEF Types
<1>3. AtMost(Highest(type), Highest(type))
  BY <1>1, OrderOfValues DEF AtMost, Less
<1> QED
  BY <1>1, <1>2, <1>3 DEF Bounded

\* The value before another: nothing lies between them.
LEMMA PrevAdjacent ==
  ASSUME NEW type \in Types, NEW v \in Values(type), v # Lowest(type)
  PROVE  /\ prev_of(type, v) \in Values(type)
         /\ \A x \in Values(type) : Less(x, v) <=> AtMost(x, prev_of(type, v))
<1>1. CASE type = "string"
  <2>1. v \in Strings /\ v # <<>>
    BY <1>1 DEF Values, Lowest
  <2>2. /\ prev_char(v) \in Strings
        /\ \A x \in Strings : Precedes(x, v) <=> ~ Precedes(prev_char(v), x)
    <3>1. CASE Last(v) = 1
      <4>1. prev_char(v) = Front(v)
        BY <2>1, <3>1 DEF prev_char
      <4> QED
        BY <2>1, <3>1, <4>1, Truncated
    <3>2. CASE Last(v) # 1
      BY <2>1, <3>2, Lowered
    <3> QED
      BY <3>1, <3>2
  <2> QED
    BY <1>1, <2>1, <2>2, OrderIsPrecedes DEF Values, prev_of, AtMost, Less, All
<1>2. CASE type = "double"
  <2>1. PICK a \in 0..MaxDouble : v = <<a>>
    BY <1>2 DEF Values, Doubles
  <2>2. a \in Nat /\ a # 0 /\ a - 1 \in 0..MaxDouble /\ a - 1 \in Nat
    BY <1>2, <2>1, DataPredicatesAssumption DEF Lowest
  <2>3. prev_of(type, v) = <<a - 1>>
    BY <1>2, <2>1, <2>2 DEF prev_of, prev_double
  <2>4. <<a - 1>> \in Doubles
    BY <2>2 DEF Doubles
  <2>5. ASSUME NEW x \in Doubles
        PROVE  Precedes(x, v) <=> ~ Precedes(<<a - 1>>, x)
    <3>1. PICK b \in 0..MaxDouble : x = <<b>>
      BY DEF Doubles
    <3>2. b \in Nat
      BY DataPredicatesAssumption
    <3>3. b < a <=> ~ (a - 1 < b)
      BY <2>2, <3>2
    <3> QED
      BY <2>1, <2>2, <3>1, <3>2, <3>3, DoubleOrder
  <2> QED
    BY <1>2, <2>3, <2>4, <2>5, OrderIsPrecedes DEF Values, AtMost, Less, All
<1> QED
  BY <1>1, <1>2 DEF Types

\* The value behind another: nothing lies between them.
LEMMA NextAdjacent ==
  ASSUME NEW type \in Types, NEW v \in Bounded(type), v # Highest(type)
  PROVE  /\ next_of(type, v) \in Values(type)
         /\ \A x \in Values(type) : Less(x, next_of(type, v)) <=> AtMost(x, v)
<1>1. CASE type = "string"
  <2>1. v \in Strings /\ v # MAX_STRING /\ ~ Less(MAX_STRING, v)
    BY <1>1 DEF Values, Highest, Bounded, AtMost, Less
  <2>2. ~ Precedes(MAX_STRING, v)
    BY <2>1, MaxStringIsString, OrderIsPrecedes DEF All
  <2>3. /\ next_char(v) \in Strings
        /\ \A x \in Strings : Precedes(x, next_char(v)) <=> ~ Precedes(v, x)
    BY <2>1, <2>2, NextString
  <2> QED
    BY <1>1, <2>1, <2>3, OrderIsPrecedes DEF Values, next_of, AtMost, Less, All
<1>2. CASE type = "double"
  <2>1. PICK a \in 0..MaxDouble : v = <<a>>
    BY <1>2 DEF Values, Doubles, Bounded
  <2>2. a \in Nat /\ a # MaxDouble /\ a + 1 \in 0..MaxDouble /\ a + 1 \in Nat
    BY <1>2, <2>1, DataPredicatesAssumption DEF Highest
  <2>3. next_of(type, v) = <<a + 1>>
    BY <1>2, <2>1, <2>2 DEF next_of, next_double
  <2>4. <<a + 1>> \in Doubles /\ v \in Doubles
    BY <2>1, <2>2 DEF Doubles
  <2>5. ASSUME NEW x \in Doubles
        PROVE  Precedes(x, <<a + 1>>) <=> ~ Precedes(v, x)
    <3>1. PICK b \in 0..MaxDouble : x = <<b>>
      BY DEF Doubles
    <3>2. b \in Nat
      BY DataPredicatesAssumption
    <3>3. b < a + 1 <=> ~ (a < b)
      BY <2>2, <3>2
    <3> QED
      BY <2>1, <2>2, <3>1, <3>2, <3>3, DoubleOrder
  <2> QED
    BY <1>2, <2>3, <2>4, <2>5, OrderIsPrecedes DEF Values, AtMost, Less, All
<1> QED
  BY <1>1, <1>2 DEF Types

\* Neighbours within the bounds of a type.
LEMMA Neighbours ==
  ASSUME NEW type \in Types, NEW v \in Bounded(type)
  PROVE  /\ v # Lowest(type) =>
              /\ prev_of(type, v) \in Bounded(type)
              /\ \A x \in Bounded(type) : Less(x, v) <=> AtMost(x, prev_of(type, v))
         /\ v # Highest(type) =>
              /\ next_of(type, v) \in Bounded(type)
              /\ \A x \in Bounded(type) : Less(v, x) <=> AtMost(next_of(type, v), x)
<1>1. /\ Bounded(type) \subseteq Values(type)
      /\ \A x \in Values(type) : x \in Bounded(type) <=> ~ Less(Highest(type), x)
      /\ Highest(type) \in Values(type)
  BY Ends DEF Bounded, AtMost, Less
<1>2. ASSUME v # Lowest(type)
      PROVE  /\ prev_of(type, v) \in Bounded(type)
             /\ \A x \in Bounded(type) : Less(x, v) <=> AtMost(x, prev_of(type, v))
  <2>1. /\ prev_of(type, v) \in Values(type)
        /\ \A x \in Values(type) : Less(x, v) <=> ~ Less(prev_of(type, v), x)
    BY <1>1, <1>2, PrevAdjacent DEF AtMost, Less
  <2>2. ~ Less(Highest(type), v)
    BY <1>1
  <2>3. ~ Less(Highest(type), prev_of(type, v))
    BY <1>1, <2>1, <2>2, OrderOfValues
  <2> QED
    BY <1>1, <2>1, <2>3 DEF AtMost, Less
<1>3. ASSUME v # Highest(type)
      PROVE  /\ next_of(type, v) \in Bounded(type)
             /\ \A x \in Bounded(type) : Less(v, x) <=> AtMost(next_of(type, v), x)
  <2>1. /\ next_of(type, v) \in Values(type)
        /\ \A x \in Values(type) : Less(x, next_of(type, v)) <=> ~ Less(v, x)
    BY <1>3, NextAdjacent DEF AtMost, Less
  <2>2. Less(v, Highest(type))
    BY <1>1, <1>3, OrderOfValues
  <2>3. ~ Less(Highest(type), next_of(type, v))
    BY <1>1, <2>1, <2>2
  <2> QED
    BY <1>1, <2>1, <2>3 DEF AtMost, Less
<1> QED
  BY <1>2, <1>3

\* The ends are their own neighbours, so a neighbour is always within the bounds.
LEMMA NeighboursBounded ==
  ASSUME NEW type \in Types, NEW v \in Bounded(type)
  PROVE  /\ prev_of(type, v) \in Bounded(type) /\ next_of(type, v) \in Bounded(type)
         /\ \A x \in Bounded(type) : Less(x, v) => AtMost(x, prev_of(type, v))
         /\ \A x \in Bounded(type) : Less(v, x) => AtMost(next_of(type, v), x)
<1>1. /\ prev_of(type, Lowest(type)) = Lowest(type)
      /\ next_of(type, Highest(type)) = Highest(type)
  BY DEF Lowest, Highest, prev_of, next_of, prev_char, next_char, prev_double, next_double
<1>2. /\ Lowest(type) \in Bounded(type) /\ Highest(type) \in Bounded(type)
      /\ \A x \in Bounded(type) : AtMost(Lowest(type), x) /\ AtMost(x, Highest(type))
  BY Ends
<1>3. \A x \in Bounded(type) : ~ Less(x, Lowest(type)) /\ ~ Less(Highest(type), x)
  BY <1>2 DEF AtMost, Less
<1>4. /\ v # Lowest(type) =>
            /\ prev_of(type, v) \in Bounded(type)
            /\ \A x \in Bounded(type) : Less(x, v) => AtMost(x, prev_of(type, v))
      /\ v # Highest(type) =>
            /\ next_of(type, v) \in Bounded(type)
            /\ \A x \in Bounded(type) : Less(v, x) => AtMost(next_of(type, v), x)
  BY Neighbours
<1> QED
  BY <1>1, <1>2, <1>3, <1>4

-----------------------------------------------------------------------------
(* Conditions.                                                             *)

\* What a condition means: exceptions do not belong to their interval.
Meant(p, x) ==
  IF p.casusu = "INTERVAL"
    THEN AtMost(p.value, x) /\ AtMost(x, p.upper) /\ x \notin p.exceptions
    ELSE testOverSingleVariable(p, x)

\* A condition with its bounds within the type.
Formed(p, type) ==
  /\ p \in [casusu : Comparisons \cup {"TTRUE", "INTERVAL"}, type : {type},
            value : All, upper : All, exceptions : SUBSET Bounded(type)]
  /\ p.casusu # "TTRUE" => p.value \in Bounded(type)
  /\ p.casusu = "INTERVAL" => p.upper \in Bounded(type)
  /\ p.casusu # "INTERVAL" => p.upper = <<>> /\ p.exceptions = {}

\* What is left of two inequations: an interval up to the default bound.
Unset(p, type) ==
  /\ p \in [casusu : {"INTERVAL"}, type : {type}, value : Bounded(type), upper : {<<>>},
            exceptions : SUBSET Bounded(type)]
  /\ p.exceptions # {}
  /\ p.value = <<>> => <<>> \in p.exceptions

\* What is bounded is of the type.
LEMMA BoundedAreValues ==
  ASSUME NEW type \in Types
  PROVE  Bounded(type) \subseteq Values(type) /\ Bounded(type) \subseteq All
BY OrderOfValues DEF Bounded

\* Nothing comes before the empty sequence.
LEMMA EmptyIsFirst ==
  /\ <<>> \in All
  /\ \A x \in All : ~ Less(x, <<>>) /\ (x # <<>> => Less(<<>>, x))
<1>1. <<>> \in All
  <2>1. <<>> \in Bounded("string")
    BY Ends DEF Lowest, Types
  <2> QED
    BY <2>1, BoundedAreValues DEF Types
<1>2. ASSUME NEW x \in All
      PROVE  ~ Less(x, <<>>) /\ (x # <<>> => Less(<<>>, x))
  <2>1. ~ Precedes(x, <<>>)
    BY DEF Precedes
  <2>2. Precedes(x, <<>>) \/ Precedes(<<>>, x) \/ x = <<>>
    BY <1>1, ValueIsSequence, Total
  <2> QED
    BY <1>1, <2>1, <2>2, OrderIsPrecedes
<1> QED
  BY <1>1, <1>2

\* asInterval keeps the meaning of a condition, unless it asks for a value beyond
\* an end; even then it loses nothing.
LEMMA AsIntervalKeeps ==
  ASSUME NEW type \in Types, NEW p, Formed(p, type), p.casusu # "TTRUE"
  PROVE  /\ Formed(asInterval(p), type)
         /\ asInterval(p).casusu = "INTERVAL"
         /\ ~ Beyond(asInterval(p))
         /\ \A x \in Bounded(type) : Meant(p, x) => Meant(asInterval(p), x)
         /\ ~ Beyond(p) => \A x \in Bounded(type) : Meant(asInterval(p), x) => Meant(p, x)
<1> DEFINE v == p.value
           lowest == Lowest(type)
           highest == Highest(type)
<1>1. /\ p.type = type /\ v \in Bounded(type)
      /\ p \in [casusu : Comparisons \cup {"TTRUE", "INTERVAL"}, type : {type},
                value : All, upper : All, exceptions : SUBSET Bounded(type)]
      /\ p.casusu # "INTERVAL" => p.exceptions = {}
      /\ p.casusu \in Comparisons \cup {"INTERVAL"}
  BY DEF Formed
<1>2. /\ lowest \in Bounded(type) /\ highest \in Bounded(type)
      /\ \A x \in Bounded(type) : AtMost(lowest, x) /\ AtMost(x, highest)
  BY Ends
<1>3. Bounded(type) \subseteq All
  BY BoundedAreValues
<1>4. ASSUME NEW lo \in Bounded(type), NEW hi \in Bounded(type), NEW out \in SUBSET Bounded(type),
             asInterval(p) = Interval(p, lo, hi, out)
      PROVE  /\ Formed(asInterval(p), type)
             /\ asInterval(p).casusu = "INTERVAL"
             /\ ~ Beyond(asInterval(p))
             /\ \A x : Meant(asInterval(p), x) <=> AtMost(lo, x) /\ AtMost(x, hi) /\ x \notin out
  <2> DEFINE q == [casusu |-> "INTERVAL", type |-> type, value |-> lo, upper |-> hi, exceptions |-> out]
  <2>1. asInterval(p) = q
    BY <1>1, <1>4 DEF Interval
  <2>2. ~ Beyond(q)
    BY DEF Beyond
  <2>3. Formed(q, type)
    BY <1>3 DEF Formed
  <2>4. \A x : Meant(q, x) <=> AtMost(lo, x) /\ AtMost(x, hi) /\ x \notin out
    BY DEF Meant
  <2>5. q.casusu = "INTERVAL"
    OBVIOUS
  <2> HIDE DEF q
  <2> QED
    BY <2>1, <2>2, <2>3, <2>4, <2>5
<1>5. CASE p.casusu = "LT"
  <2>1. ~ Beyond(p) => v # lowest
    BY <1>1, <1>5 DEF Beyond
  <2>2. /\ prev_of(type, v) \in Bounded(type)
        /\ \A x \in Bounded(type) : Less(x, v) => AtMost(x, prev_of(type, v))
    BY <1>1, NeighboursBounded
  <2>5. ~ Beyond(p) => \A x \in Bounded(type) : AtMost(x, prev_of(type, v)) => Less(x, v)
    BY <1>1, <2>1, Neighbours
  <2>3. asInterval(p) = Interval(p, lowest, prev_of(type, v), {})
    BY <1>1, <1>5 DEF asInterval
  <2>4. \A x : Meant(p, x) <=> Less(x, v)
    BY <1>5 DEF Meant, testOverSingleVariable
  <2> QED
    BY <1>2, <1>4, <2>2, <2>3, <2>4, <2>5
<1>6. CASE p.casusu = "GT"
  <2>1. ~ Beyond(p) => v # highest
    BY <1>1, <1>6 DEF Beyond
  <2>2. /\ next_of(type, v) \in Bounded(type)
        /\ \A x \in Bounded(type) : Less(v, x) => AtMost(next_of(type, v), x)
    BY <1>1, NeighboursBounded
  <2>5. ~ Beyond(p) => \A x \in Bounded(type) : AtMost(next_of(type, v), x) => Less(v, x)
    BY <1>1, <2>1, Neighbours
  <2>3. asInterval(p) = Interval(p, next_of(type, v), highest, {})
    BY <1>1, <1>6 DEF asInterval
  <2>4. \A x : Meant(p, x) <=> Less(v, x)
    BY <1>6 DEF Meant, testOverSingleVariable
  <2> QED
    BY <1>2, <1>4, <2>2, <2>3, <2>4, <2>5
<1>7. CASE p.casusu = "LEQ"
  <2>1. asInterval(p) = Interval(p, lowest, v, {})
    BY <1>1, <1>7 DEF asInterval
  <2>2. \A x : Meant(p, x) <=> AtMost(x, v)
    BY <1>7 DEF Meant, testOverSingleVariable
  <2> QED
    BY <1>1, <1>2, <1>4, <2>1, <2>2
<1>8. CASE p.casusu = "GEQ"
  <2>1. asInterval(p) = Interval(p, v, highest, {})
    BY <1>1, <1>8 DEF asInterval
  <2>2. \A x : Meant(p, x) <=> AtMost(v, x)
    BY <1>8 DEF Meant, testOverSingleVariable
  <2> QED
    BY <1>1, <1>2, <1>4, <2>1, <2>2
<1>9. CASE p.casusu = "EQ"
  <2>1. asInterval(p) = Interval(p, v, v, {})
    BY <1>1, <1>9 DEF asInterval
  <2>2. \A x : Meant(p, x) <=> x = v
    BY <1>9 DEF Meant, testOverSingleVariable
  <2>3. \A x \in Bounded(type) : x = v <=> AtMost(v, x) /\ AtMost(x, v)
    BY <1>1, BoundedAreValues, OrderOfValues DEF AtMost, Less
  <2> QED
    BY <1>1, <1>4, <2>1, <2>2, <2>3
<1>10. CASE p.casusu = "NEQ"
  <2>1. asInterval(p) = Interval(p, lowest, highest, {v})
    BY <1>1, <1>10 DEF asInterval
  <2>2. \A x : Meant(p, x) <=> x # v
    BY <1>10 DEF Meant, testOverSingleVariable
  <2> QED
    BY <1>1, <1>2, <1>4, <2>1, <2>2
<1>11. CASE p.casusu = "INTERVAL"
  BY <1>11 DEF asInterval, Beyond
<1> QED
  BY <1>1, <1>5, <1>6, <1>7, <1>8, <1>9, <1>10, <1>11 DEF Comparisons

\* The greater of two lower bounds.
LEMMA LowerBounds ==
  ASSUME NEW type \in Types, NEW a \in Bounded(type), NEW b \in Bounded(type)
  PROVE  /\ Greater(a, b) \in Bounded(type)
         /\ Greater(a, b) = a \/ Greater(a, b) = b
         /\ \A x \in Bounded(type) :
              /\ AtMost(Greater(a, b), x) <=> AtMost(a, x) /\ AtMost(b, x)
              /\ Less(Greater(a, b), x) <=> Less(a, x) /\ Less(b, x)
<1>1. Bounded(type) \subseteq Values(type)
  BY BoundedAreValues
<1> QED
  BY <1>1, OrderOfValues DEF Greater, AtMost, Less

\* The lesser of two upper bounds.
LEMMA UpperBounds ==
  ASSUME NEW type \in Types, NEW a \in Bounded(type), NEW b \in Bounded(type)
  PROVE  /\ Lesser(a, b) \in Bounded(type)
         /\ Lesser(a, b) = a \/ Lesser(a, b) = b
         /\ \A x \in Bounded(type) :
              /\ AtMost(x, Lesser(a, b)) <=> AtMost(x, a) /\ AtMost(x, b)
              /\ Less(x, Lesser(a, b)) <=> Less(x, a) /\ Less(x, b)
<1>1. Bounded(type) \subseteq Values(type)
  BY BoundedAreValues
<1> QED
  BY <1>1, OrderOfValues DEF Lesser, AtMost, Less

\* What Interval makes of a condition.
LEMMA IntervalMade ==
  ASSUME NEW type, NEW lo, NEW hi, NEW out,
         NEW p \in [casusu : Comparisons \cup {"TTRUE", "INTERVAL"}, type : {type},
                    value : All, upper : All, exceptions : SUBSET Bounded(type)]
  PROVE  Interval(p, lo, hi, out) =
           [casusu |-> "INTERVAL", type |-> type, value |-> lo, upper |-> hi, exceptions |-> out]
<1>1. /\ p = [casusu |-> p.casusu, type |-> p.type, value |-> p.value, upper |-> p.upper,
              exceptions |-> p.exceptions]
      /\ p.type = type
  OBVIOUS
<1> DEFINE q == [casusu |-> "INTERVAL", type |-> type, value |-> lo, upper |-> hi, exceptions |-> out]
           r == Interval(p, lo, hi, out)
<1>2. DOMAIN r = DOMAIN q /\ r = [f \in DOMAIN q |-> r[f]] /\ q = [f \in DOMAIN q |-> q[f]]
  BY <1>1 DEF Interval
<1>3. /\ r.casusu = "INTERVAL" /\ r.type = type /\ r.value = lo /\ r.upper = hi
      /\ r.exceptions = out
  BY <1>1 DEF Interval
<1> QED
  BY <1>2, <1>3

\* Intersecting two intervals conjoins them.
LEMMA IntervalsMeet ==
  ASSUME NEW type \in Types, NEW p, NEW q, Formed(p, type), Formed(q, type),
         p.casusu = "INTERVAL", q.casusu = "INTERVAL"
  PROVE  /\ Formed(IntersectIntervals(p, q).pred, type)
         /\ ~ Beyond(IntersectIntervals(p, q).pred)
         /\ \A x \in Bounded(type) :
              Meant(IntersectIntervals(p, q).pred, x) <=> Meant(p, x) /\ Meant(q, x)
<1> DEFINE lo == Greater(p.value, q.value)
           hi == Lesser(p.upper, q.upper)
           within == {x \in p.exceptions \cup q.exceptions : AtMost(lo, x) /\ AtMost(x, hi)}
           made(out) == [casusu |-> "INTERVAL", type |-> type, value |-> lo, upper |-> hi,
                         exceptions |-> out]
<1>1. /\ p.value \in Bounded(type) /\ q.value \in Bounded(type)
      /\ p.upper \in Bounded(type) /\ q.upper \in Bounded(type)
      /\ p.exceptions \subseteq Bounded(type) /\ q.exceptions \subseteq Bounded(type)
      /\ p \in [casusu : Comparisons \cup {"TTRUE", "INTERVAL"}, type : {type},
                value : All, upper : All, exceptions : SUBSET Bounded(type)]
  BY DEF Formed
<1>2. /\ lo \in Bounded(type) /\ hi \in Bounded(type)
      /\ \A x \in Bounded(type) :
           /\ AtMost(lo, x) <=> AtMost(p.value, x) /\ AtMost(q.value, x)
           /\ AtMost(x, hi) <=> AtMost(x, p.upper) /\ AtMost(x, q.upper)
  <2>1. /\ lo \in Bounded(type)
        /\ \A x \in Bounded(type) : AtMost(lo, x) <=> AtMost(p.value, x) /\ AtMost(q.value, x)
    BY <1>1, LowerBounds
  <2>2. /\ hi \in Bounded(type)
        /\ \A x \in Bounded(type) : AtMost(x, hi) <=> AtMost(x, p.upper) /\ AtMost(x, q.upper)
    BY <1>1, UpperBounds
  <2> QED
    BY <2>1, <2>2
<1>3. ASSUME NEW out
      PROVE  Interval(p, lo, hi, out) = made(out)
  BY <1>1, IntervalMade
<1>4. /\ Less(hi, lo) => IntersectIntervals(p, q).pred = made(p.exceptions)
      /\ ~ Less(hi, lo) => IntersectIntervals(p, q).pred = made(within)
  <2>1. Interval(p, lo, hi, p.exceptions) = made(p.exceptions) /\ Interval(p, lo, hi, within) = made(within)
    BY <1>3
  <2>2. /\ Less(hi, lo) => IntersectIntervals(p, q).pred = Interval(p, lo, hi, p.exceptions)
        /\ ~ Less(hi, lo) => IntersectIntervals(p, q).pred = Interval(p, lo, hi, within)
    BY DEF IntersectIntervals, Outcome
  <2> QED
    BY <2>1, <2>2, Zenon
<1> HIDE DEF lo, hi
<1>5. ASSUME NEW out \in SUBSET Bounded(type)
      PROVE  /\ Formed(made(out), type)
             /\ ~ Beyond(made(out))
             /\ \A x : Meant(made(out), x) <=> AtMost(lo, x) /\ AtMost(x, hi) /\ x \notin out
  BY <1>2, BoundedAreValues DEF Formed, Meant, Beyond
<1>6. \A x \in Bounded(type) :
        Meant(p, x) /\ Meant(q, x) <=>
          AtMost(lo, x) /\ AtMost(x, hi) /\ x \notin p.exceptions \cup q.exceptions
  BY <1>2 DEF Meant
<1>7. CASE Less(hi, lo)
  <2>1. \A x \in Bounded(type) : ~ (AtMost(lo, x) /\ AtMost(x, hi))
    BY <1>2, <1>7, BoundedAreValues, OrderOfValues DEF AtMost, Less
  <2> QED
    BY <1>1, <1>4, <1>5, <1>6, <1>7, <2>1
<1>8. CASE ~ Less(hi, lo)
  <2>1. within \in SUBSET Bounded(type)
    BY <1>1
  <2>2. \A x : AtMost(lo, x) /\ AtMost(x, hi) /\ x \notin within
               <=> AtMost(lo, x) /\ AtMost(x, hi) /\ x \notin p.exceptions \cup q.exceptions
    OBVIOUS
  <2> HIDE DEF within, made
  <2> QED
    BY <1>4, <1>5, <1>6, <1>8, <2>1, <2>2
<1> QED
  BY <1>7, <1>8

\* Two comparisons of one kind, inequations apart, become the stricter one.
LEMMA AlikeMeet ==
  ASSUME NEW type \in Types, NEW p, NEW q, Formed(p, type), Formed(q, type),
         p.casusu = q.casusu, p.casusu \in {"LT", "GT", "LEQ", "GEQ", "EQ"}, AssertsHold(p, q)
  PROVE  /\ Formed(IntersectAlike(p, q).pred, type)
         /\ ~ Beyond(p) /\ ~ Beyond(q) => ~ Beyond(IntersectAlike(p, q).pred)
         /\ \A x \in Bounded(type) :
              Meant(IntersectAlike(p, q).pred, x) <=> Meant(p, x) /\ Meant(q, x)
<1>1. /\ p.value \in Bounded(type) /\ q.value \in Bounded(type)
      /\ p.type = type /\ q.type = type
      /\ p \in [casusu : Comparisons \cup {"TTRUE", "INTERVAL"}, type : {type},
                value : All, upper : All, exceptions : SUBSET Bounded(type)]
      /\ p.upper = <<>> /\ p.exceptions = {}
  BY DEF Formed
<1>2. ASSUME NEW v \in Bounded(type), v = p.value \/ v = q.value,
             IntersectAlike(p, q).pred = [p EXCEPT !.value = v]
      PROVE  /\ Formed(IntersectAlike(p, q).pred, type)
             /\ ~ Beyond(p) /\ ~ Beyond(q) => ~ Beyond(IntersectAlike(p, q).pred)
             /\ IntersectAlike(p, q).pred.casusu = p.casusu
             /\ IntersectAlike(p, q).pred.value = v
  <2> DEFINE r == [p EXCEPT !.value = v]
  <2>1. v \in All
    BY BoundedAreValues
  <2>2. /\ r \in [casusu : Comparisons \cup {"TTRUE", "INTERVAL"}, type : {type},
                  value : All, upper : All, exceptions : SUBSET Bounded(type)]
        /\ r.casusu = p.casusu /\ r.value = v /\ r.type = type
        /\ r.upper = <<>> /\ r.exceptions = {}
    BY <1>1, <2>1
  <2>3. ~ Beyond(p) /\ ~ Beyond(q) => ~ Beyond(r)
    BY <1>1, <1>2, <2>2 DEF Beyond
  <2> HIDE DEF r
  <2>4. Formed(r, type)
    BY <2>2 DEF Formed
  <2> QED
    BY <1>2, <2>2, <2>3, <2>4 DEF r
<1>3. CASE p.casusu = "LT" \/ p.casusu = "LEQ"
  <2> DEFINE v == Lesser(p.value, q.value)
  <2>1. /\ v \in Bounded(type)
        /\ v = p.value \/ v = q.value
        /\ \A x \in Bounded(type) :
              /\ AtMost(x, v) <=> AtMost(x, p.value) /\ AtMost(x, q.value)
              /\ Less(x, v) <=> Less(x, p.value) /\ Less(x, q.value)
    BY <1>1, UpperBounds
  <2>2. IntersectAlike(p, q).pred = [p EXCEPT !.value = v]
    BY <1>3 DEF IntersectAlike, Outcome
  <2> HIDE DEF v
  <2> QED
    BY <1>2, <1>3, <2>1, <2>2 DEF Meant, testOverSingleVariable
<1>4. CASE p.casusu = "GT" \/ p.casusu = "GEQ"
  <2> DEFINE v == Greater(p.value, q.value)
  <2>1. /\ v \in Bounded(type)
        /\ v = p.value \/ v = q.value
        /\ \A x \in Bounded(type) :
              /\ AtMost(v, x) <=> AtMost(p.value, x) /\ AtMost(q.value, x)
              /\ Less(v, x) <=> Less(p.value, x) /\ Less(q.value, x)
    BY <1>1, LowerBounds
  <2>2. IntersectAlike(p, q).pred = [p EXCEPT !.value = v]
    BY <1>4 DEF IntersectAlike, Outcome
  <2> HIDE DEF v
  <2> QED
    BY <1>2, <1>4, <2>1, <2>2 DEF Meant, testOverSingleVariable
<1>5. CASE p.casusu = "EQ"
  <2>1. IntersectAlike(p, q).pred = p
    BY <1>5 DEF IntersectAlike, Outcome
  <2> QED
    BY <1>5, <2>1 DEF Meant, testOverSingleVariable, AssertsHold
<1> QED
  BY <1>3, <1>4, <1>5

\* Two inequations leave an interval whose upper bound is not set.
LEMMA InequationsMeet ==
  ASSUME NEW type \in Types, NEW p, NEW q, Formed(p, type), Formed(q, type),
         p.casusu = "NEQ", q.casusu = "NEQ"
  PROVE  Unset(IntersectAlike(p, q).pred, type)
<1> DEFINE out == {p.value, q.value}
<1>1. /\ p.value \in Bounded(type) /\ q.value \in Bounded(type)
      /\ p.upper = <<>> /\ p.exceptions = {}
      /\ p \in [casusu : Comparisons \cup {"TTRUE", "INTERVAL"}, type : {type},
                value : All, upper : All, exceptions : SUBSET Bounded(type)]
  BY DEF Formed
<1>2. IntersectAlike(p, q).pred = Interval(p, p.value, <<>>, out)
  BY <1>1 DEF IntersectAlike, Outcome
<1>3. Interval(p, p.value, <<>>, out) =
        [casusu |-> "INTERVAL", type |-> type, value |-> p.value, upper |-> <<>>, exceptions |-> out]
  <2> HIDE DEF out
  <2> QED
    BY <1>1, IntervalMade
<1> DEFINE r == [casusu |-> "INTERVAL", type |-> type, value |-> p.value, upper |-> <<>>,
                 exceptions |-> out]
<1>4. /\ r.value = p.value /\ r.exceptions = out
      /\ r \in [casusu : {"INTERVAL"}, type : {type}, value : Bounded(type), upper : {<<>>},
                exceptions : SUBSET Bounded(type)]
  BY <1>1
<1> HIDE DEF r
<1>5. Unset(r, type)
  BY <1>4 DEF Unset
<1> QED
  BY <1>2, <1>3, <1>5 DEF r

\* Nothing sets that bound, and the interval never loses its last exception.
LEMMA UnsetStays ==
  ASSUME NEW type \in Types, NEW p, NEW q, Unset(p, type), Formed(q, type)
  PROVE  Unset(intersect_with(p, q).pred, type)
<1> DEFINE r == IF q.casusu = "INTERVAL" THEN q ELSE asInterval(q)
           lo == Greater(p.value, r.value)
           within == {x \in p.exceptions \cup r.exceptions : AtMost(lo, x) /\ AtMost(x, <<>>)}
           made(out) == [casusu |-> "INTERVAL", type |-> type, value |-> lo, upper |-> <<>>,
                         exceptions |-> out]
<1>1. /\ p.casusu = "INTERVAL" /\ p.upper = <<>> /\ p.value \in Bounded(type)
      /\ p.exceptions \subseteq Bounded(type) /\ p.exceptions # {}
      /\ p.value = <<>> => <<>> \in p.exceptions
      /\ p \in [casusu : Comparisons \cup {"TTRUE", "INTERVAL"}, type : {type},
                value : All, upper : All, exceptions : SUBSET Bounded(type)]
  BY BoundedAreValues, EmptyIsFirst DEF Unset
<1>2. CASE q.casusu = "TTRUE"
  BY <1>2 DEF intersect_with, Outcome
<1>3. CASE q.casusu # "TTRUE"
  <2>1. Formed(r, type) /\ r.casusu = "INTERVAL"
    BY <1>3, AsIntervalKeeps
  <2>2. intersect_with(p, q) = IntersectIntervals(p, r)
    <3>1. q.casusu # "FFALSE" /\ asInterval(p) = p
      BY <1>1 DEF Formed, Comparisons, asInterval
    <3> QED
      BY <1>1, <1>3, <3>1 DEF intersect_with, IntersectAlike
  <2> HIDE DEF r
  <2>3. /\ r.value \in Bounded(type) /\ r.upper \in Bounded(type) /\ r.upper \in All
        /\ r.exceptions \subseteq Bounded(type)
    BY <2>1, BoundedAreValues DEF Formed
  <2>4. Lesser(p.upper, r.upper) = <<>>
    BY <1>1, <2>3, EmptyIsFirst DEF Lesser
  <2>5. lo \in Bounded(type) /\ (lo = p.value \/ lo = r.value) /\ ~ Less(lo, p.value)
    <3>1. lo \in Bounded(type) /\ (lo = p.value \/ lo = r.value)
      BY <1>1, <2>3, LowerBounds
    <3>2. ~ Less(lo, p.value)
      BY <1>1, <2>3, BoundedAreValues, OrderOfValues DEF Greater
    <3> QED
      BY <3>1, <3>2
  <2>6. ASSUME NEW out
        PROVE  Interval(p, lo, <<>>, out) = made(out)
    BY <1>1, IntervalMade
  <2>7. /\ Less(<<>>, lo) => IntersectIntervals(p, r).pred = made(p.exceptions)
        /\ ~ Less(<<>>, lo) => IntersectIntervals(p, r).pred = made(within)
    <3>1. Interval(p, lo, <<>>, p.exceptions) = made(p.exceptions) /\ Interval(p, lo, <<>>, within) = made(within)
      BY <2>6
    <3>2. /\ Less(<<>>, lo) => IntersectIntervals(p, r).pred = Interval(p, lo, <<>>, p.exceptions)
          /\ ~ Less(<<>>, lo) => IntersectIntervals(p, r).pred = Interval(p, lo, <<>>, within)
      BY <2>4 DEF IntersectIntervals, Outcome
    <3> QED
      BY <3>1, <3>2, Zenon
  <2>8. CASE Less(<<>>, lo)
    <3>1. lo # <<>>
      BY <2>8, EmptyIsFirst
    <3> HIDE DEF lo
    <3> QED
      BY <1>1, <2>2, <2>5, <2>7, <2>8, <3>1 DEF Unset
  <2>9. CASE ~ Less(<<>>, lo)
    <3>1. lo = <<>> /\ p.value = <<>>
      BY <1>1, <2>5, <2>9, BoundedAreValues, EmptyIsFirst
    <3>2. <<>> \in within
      BY <1>1, <3>1, EmptyIsFirst DEF AtMost, Less
    <3>3. within \subseteq Bounded(type)
      BY <1>1, <2>3
    <3> HIDE DEF lo, within
    <3> QED
      BY <2>2, <2>5, <2>7, <2>9, <3>2, <3>3 DEF Unset
  <2> QED
    BY <2>8, <2>9
<1> QED
  BY <1>2, <1>3

\* What a caller writes is formed.
LEMMA WrittenIsFormed ==
  ASSUME NEW type \in Types, NEW p \in Conditions(type)
  PROVE  /\ Formed(p, type)
         /\ \A x : Meant(p, x) <=> testOverSingleVariable(p, x)
<1>1. <<>> \in All /\ Bounded(type) \subseteq All
  BY EmptyIsFirst, BoundedAreValues
<1> DEFINE made(k, v, u) == [casusu |-> k, type |-> type, value |-> v, upper |-> u, exceptions |-> {}]
<1>2. CASE p = Truth(type)
  <2>1. p = made("TTRUE", <<>>, <<>>)
    BY <1>2 DEF Truth, Comparison
  <2> QED
    BY <1>1, <2>1 DEF Formed, Meant
<1>3. CASE \E k \in Comparisons, v \in Bounded(type) : p = Comparison(k, type, v)
  <2>1. PICK k \in Comparisons, v \in Bounded(type) : p = made(k, v, <<>>)
    BY <1>3 DEF Comparison
  <2> QED
    BY <1>1, <2>1 DEF Formed, Meant, Comparisons
<1>4. CASE \E lo \in Bounded(type), hi \in Bounded(type) : p = Interval(Truth(type), lo, hi, {})
  <2>1. PICK lo \in Bounded(type), hi \in Bounded(type) : p = Interval(Truth(type), lo, hi, {})
    BY <1>4
  <2>2. p = made("INTERVAL", lo, hi)
    BY <2>1 DEF Interval, Truth, Comparison
  <2> QED
    BY <1>1, <2>2 DEF Formed, Meant, testOverSingleVariable
<1> QED
  BY <1>2, <1>3, <1>4 DEF Conditions

\* The condition that is left holds what was asked, and nothing else if no value
\* beyond an end was asked for; or it is what two inequations leave.
Holds(p, conditions, type) ==
  \/ Unset(p, type)
  \/ /\ Formed(p, type)
     /\ \A x \in Bounded(type) : Admits(conditions, x) => Meant(p, x)
     /\ (\A q \in conditions : ~ Beyond(q)) =>
          ~ Beyond(p) /\ \A x \in Bounded(type) : Meant(p, x) => Admits(conditions, x)

\* r is formed of p and q.
Conjoins(r, p, q, type) ==
  /\ Formed(r, type)
  /\ \A x \in Bounded(type) : Meant(p, x) /\ Meant(q, x) => Meant(r, x)
  /\ ~ Beyond(p) /\ ~ Beyond(q) =>
       ~ Beyond(r) /\ \A x \in Bounded(type) : Meant(r, x) => Meant(p, x) /\ Meant(q, x)

\* Conjoining one more condition.
LEMMA OneMore ==
  ASSUME NEW type \in Types, NEW p, NEW conditions, NEW q \in Conditions(type),
         AssertsHold(p, q), Holds(p, conditions, type)
  PROVE  Holds(intersect_with(p, q).pred, conditions \cup {q}, type)
<1>1. /\ Formed(q, type)
      /\ \A x : Meant(q, x) <=> testOverSingleVariable(q, x)
  BY WrittenIsFormed
<1>2. \A x : Admits(conditions \cup {q}, x) <=> Admits(conditions, x) /\ Meant(q, x)
  BY <1>1 DEF Admits
<1>3. CASE Unset(p, type)
  BY <1>1, <1>3, UnsetStays DEF Holds
<1>4. CASE /\ Formed(p, type)
           /\ \A x \in Bounded(type) : Admits(conditions, x) => Meant(p, x)
           /\ (\A z \in conditions : ~ Beyond(z)) =>
                ~ Beyond(p) /\ \A x \in Bounded(type) : Meant(p, x) => Admits(conditions, x)
  <2> DEFINE r == intersect_with(p, q).pred
  <2>1. SUFFICES Unset(r, type) \/ Conjoins(r, p, q, type)
    <3> HIDE DEF r
    <3>1. ASSUME Conjoins(r, p, q, type) PROVE Holds(r, conditions \cup {q}, type)
      BY <1>2, <1>4, <3>1 DEF Holds, Conjoins
    <3> QED
      BY <3>1 DEF Holds, r
  <2>2. q.casusu # "FFALSE" /\ p.casusu \in Comparisons \cup {"TTRUE", "INTERVAL"}
    BY <1>1, <1>4 DEF Formed, Comparisons
  <2>3. CASE q.casusu = "TTRUE"
    <3>1. r = p
      BY <2>3 DEF intersect_with, Outcome
    <3>2. \A x : Meant(q, x)
      BY <2>3 DEF Meant, testOverSingleVariable
    <3> HIDE DEF r
    <3> QED
      BY <1>4, <3>1, <3>2 DEF Conjoins
  <2>4. CASE q.casusu # "TTRUE" /\ p.casusu = "TTRUE"
    <3>1. r = q
      BY <2>2, <2>4 DEF intersect_with, Outcome
    <3>2. \A x : Meant(p, x)
      BY <2>4 DEF Meant, testOverSingleVariable
    <3> HIDE DEF r
    <3> QED
      BY <1>1, <3>1, <3>2 DEF Conjoins
  <2>5. CASE q.casusu # "TTRUE" /\ p.casusu # "TTRUE" /\ p.casusu # q.casusu
    <3>1. r = IntersectIntervals(asInterval(p), asInterval(q)).pred
      BY <2>2, <2>5 DEF intersect_with
    <3>2. /\ Formed(asInterval(p), type) /\ asInterval(p).casusu = "INTERVAL"
          /\ \A x \in Bounded(type) : Meant(p, x) => Meant(asInterval(p), x)
          /\ ~ Beyond(p) => \A x \in Bounded(type) : Meant(asInterval(p), x) => Meant(p, x)
      BY <1>4, <2>5, AsIntervalKeeps
    <3>3. /\ Formed(asInterval(q), type) /\ asInterval(q).casusu = "INTERVAL"
          /\ \A x \in Bounded(type) : Meant(q, x) => Meant(asInterval(q), x)
          /\ ~ Beyond(q) => \A x \in Bounded(type) : Meant(asInterval(q), x) => Meant(q, x)
      BY <1>1, <2>5, AsIntervalKeeps
    <3>4. /\ Formed(r, type) /\ ~ Beyond(r)
          /\ \A x \in Bounded(type) : Meant(r, x) <=> Meant(asInterval(p), x) /\ Meant(asInterval(q), x)
      BY <3>1, <3>2, <3>3, IntervalsMeet
    <3> HIDE DEF r
    <3> QED
      BY <3>2, <3>3, <3>4 DEF Conjoins
  <2>6. CASE q.casusu # "TTRUE" /\ p.casusu = q.casusu
    <3>1. r = IntersectAlike(p, q).pred
      BY <2>2, <2>6 DEF intersect_with
    <3>2. CASE p.casusu = "NEQ"
      BY <1>1, <1>4, <2>6, <3>1, <3>2, InequationsMeet
    <3>3. CASE p.casusu = "INTERVAL"
      <4>1. r = IntersectIntervals(p, q).pred
        BY <3>1, <3>3 DEF IntersectAlike
      <4> QED
        BY <1>1, <1>4, <2>6, <3>3, <4>1, IntervalsMeet DEF Conjoins
    <3>4. CASE p.casusu \in {"LT", "GT", "LEQ", "GEQ", "EQ"}
      BY <1>1, <1>4, <2>6, <3>1, <3>4, AlikeMeet DEF Conjoins
    <3> QED
      BY <2>2, <2>6, <3>2, <3>3, <3>4 DEF Comparisons
  <2> QED
    BY <2>3, <2>4, <2>5, <2>6
<1> QED
  BY <1>3, <1>4 DEF Holds

-----------------------------------------------------------------------------
(* The query.                                                              *)

\* A table with an entry for every conjunction of every node.
PerConjunction(f) == f = [n \in Nodes |-> [c \in Conjunctions(n) |-> f[n][c]]]

\* The conditions of every node, conjunction by conjunction.
Query ==
  /\ PerConjunction(model)
  /\ PerConjunction(asked)
  /\ \A n \in Nodes : \A c \in Conjunctions(n) :
        /\ DOMAIN asked[n][c] = DOMAIN model[n][c]
        /\ DOMAIN asked[n][c] \subseteq Vars

\* Every condition holds what was asked of its property.
QueryInv ==
  /\ Query
  /\ \A n \in Nodes : \A c \in Conjunctions(n) : \A v \in DOMAIN asked[n][c] :
        Holds(model[n][c][v], asked[n][c][v], TypeOf[v])

\* At first nothing is asked.
LEMMA InitQueryInv == Init => QueryInv
<1> SUFFICES ASSUME Init PROVE QueryInv
  OBVIOUS
<1>1. model = NoConditions /\ asked = NoConditions
  BY DEF Init
<1>2. \A n \in Nodes : \A c \in Conjunctions(n) : NoConditions[n][c] = <<>>
  BY DEF NoConditions
<1>3. DOMAIN <<>> = {}
  OBVIOUS
<1>4. PerConjunction(NoConditions)
  BY DEF NoConditions, PerConjunction
<1> HIDE DEF NoConditions
<1> QED
  BY <1>1, <1>2, <1>3, <1>4 DEF QueryInv, Query

Replaced(g, f, n, c, e) == g = [f EXCEPT ![n][c] = e]

OneEntry(g, f, n, c, e) ==
  /\ g[n][c] = e
  /\ \A m \in Nodes : \A d \in Conjunctions(m) : <<m, d>> # <<n, c>> => g[m][d] = f[m][d]

\* Such a table with one entry changed.
LEMMA Changed ==
  ASSUME NEW f, NEW g, NEW n \in Nodes, NEW c \in Conjunctions(n), NEW e,
         PerConjunction(f), Replaced(g, f, n, c, e)
  PROVE  PerConjunction(g) /\ OneEntry(g, f, n, c, e)
<1>1. f = [m \in Nodes |-> [d \in Conjunctions(m) |-> f[m][d]]]
  BY Zenon DEF PerConjunction
<1>2. DOMAIN f = Nodes /\ DOMAIN g = Nodes /\ g = [m \in Nodes |-> g[m]]
  BY <1>1 DEF Replaced
<1>3. \A m \in Nodes : f[m] = [d \in Conjunctions(m) |-> f[m][d]]
  BY <1>1
<1>4. g[n] = [f[n] EXCEPT ![c] = e]
  BY <1>2 DEF Replaced
<1>5. /\ g[n] = [d \in Conjunctions(n) |-> g[n][d]] /\ g[n][c] = e
      /\ \A d \in Conjunctions(n) : d # c => g[n][d] = f[n][d]
  BY <1>3, <1>4
<1>6. \A m \in Nodes : m # n => g[m] = f[m]
  BY <1>2 DEF Replaced
<1>7. \A m \in Nodes : g[m] = [d \in Conjunctions(m) |-> g[m][d]]
  BY <1>3, <1>5, <1>6
<1> QED
  BY <1>2, <1>5, <1>6, <1>7 DEF PerConjunction, OneEntry

\* addCondition conjoins one condition of one property, and touches no other.
LEMMA AddKeepsQuery ==
  ASSUME QueryInv, NEW n \in Nodes, NEW v \in Vars, NEW c \in Conjunctions(n),
         NEW p \in Written[n][v], addCondition(n, c, v, p)
  PROVE  QueryInv'
<1> DEFINE conj == model[n][c]
           outcome == IF v \in DOMAIN conj THEN intersect_with(conj[v], p) ELSE Outcome(TRUE, p)
           sofar == IF v \in DOMAIN conj THEN asked[n][c][v] ELSE {}
           left == Bind(v, outcome.pred, model[n][c])
           wanted == Bind(v, sofar \cup {p}, asked[n][c])
<1>1. /\ v \in DOMAIN conj => AssertsHold(conj[v], p)
      /\ model' = [model EXCEPT ![n][c] = left]
      /\ asked' = [asked EXCEPT ![n][c] = wanted]
  BY DEF addCondition
<1>2. TypeOf[v] \in Types /\ p \in Conditions(TypeOf[v])
  BY AtomisationAssumption DEF Types
<1> HIDE DEF outcome, sofar
<1>3. /\ DOMAIN left = {v} \cup DOMAIN conj
      /\ left[v] = outcome.pred
      /\ \A w \in DOMAIN conj : w # v => left[w] = conj[w]
  BY DEF Bind, Merge
<1>4. /\ DOMAIN wanted = {v} \cup DOMAIN asked[n][c]
      /\ wanted[v] = sofar \cup {p}
      /\ \A w \in DOMAIN asked[n][c] : w # v => wanted[w] = asked[n][c][w]
  BY DEF Bind, Merge
<1>5. Holds(outcome.pred, sofar \cup {p}, TypeOf[v])
  <2> USE DEF outcome, sofar
  <2>1. CASE v \in DOMAIN conj
    <3>1. v \in DOMAIN asked[n][c]
      BY <2>1 DEF QueryInv, Query
    <3>2. Holds(conj[v], sofar, TypeOf[v])
      BY <2>1, <3>1 DEF QueryInv
    <3>3. outcome.pred = intersect_with(conj[v], p).pred
      BY <2>1
    <3> HIDE DEF outcome, sofar, conj
    <3> QED
      BY <1>1, <1>2, <2>1, <3>2, <3>3, OneMore
  <2>2. CASE v \notin DOMAIN conj
    <3>1. outcome.pred = p /\ sofar \cup {p} = {p}
      BY <2>2 DEF Outcome
    <3>3. /\ Formed(p, TypeOf[v])
          /\ \A x : Meant(p, x) <=> testOverSingleVariable(p, x)
      BY <1>2, WrittenIsFormed
    <3> HIDE DEF outcome, sofar
    <3> QED
      BY <3>1, <3>3 DEF Holds, Admits
  <2> QED
    BY <2>1, <2>2
<1> HIDE DEF left, wanted
<1>6. /\ PerConjunction(model)'
      /\ PerConjunction(asked)'
      /\ model'[n][c] = left /\ asked'[n][c] = wanted
      /\ \A m \in Nodes : \A d \in Conjunctions(m) :
            <<m, d>> # <<n, c>> => model'[m][d] = model[m][d] /\ asked'[m][d] = asked[m][d]
  <2>1. PerConjunction(model) /\ PerConjunction(asked)
    BY DEF QueryInv, Query
  <2>2. Replaced(model', model, n, c, left) /\ Replaced(asked', asked, n, c, wanted)
    BY <1>1 DEF Replaced
  <2>3. PerConjunction(model)' /\ PerConjunction(asked)'
    <3>1. PerConjunction(model') /\ PerConjunction(asked')
      BY <2>1, <2>2, Changed, Zenon
    <3> QED
      BY <3>1 DEF PerConjunction, Conjunctions
  <2>4. OneEntry(model', model, n, c, left) /\ OneEntry(asked', asked, n, c, wanted)
    BY <2>1, <2>2, Changed, Zenon
  <2> QED
    BY <2>3, <2>4 DEF OneEntry
<1>7. Query'
  <2> SUFFICES ASSUME NEW m \in Nodes, NEW d \in Conjunctions(m)
               PROVE  /\ DOMAIN asked'[m][d] = DOMAIN model'[m][d]
                      /\ DOMAIN asked'[m][d] \subseteq Vars
    BY <1>6 DEF Query, Conjunctions
  <2>1. CASE <<m, d>> = <<n, c>>
    BY <1>3, <1>4, <1>6, <2>1 DEF QueryInv, Query
  <2>2. CASE <<m, d>> # <<n, c>>
    BY <1>6, <2>2 DEF QueryInv, Query
  <2> QED
    BY <2>1, <2>2
<1>8. ASSUME NEW m \in Nodes, NEW d \in Conjunctions(m), NEW w \in DOMAIN asked'[m][d]
      PROVE  Holds(model'[m][d][w], asked'[m][d][w], TypeOf[w])
  <2>1. CASE <<m, d>> = <<n, c>> /\ w = v
    BY <1>3, <1>4, <1>5, <1>6, <2>1
  <2>2. CASE <<m, d>> = <<n, c>> /\ w # v
    <3>1. w \in DOMAIN asked[n][c] /\ w \in DOMAIN model[n][c]
      BY <1>4, <1>6, <2>2 DEF QueryInv, Query
    <3> QED
      BY <1>3, <1>4, <1>6, <2>2, <3>1 DEF QueryInv
  <2>3. CASE <<m, d>> # <<n, c>>
    BY <1>6, <1>8, <2>3 DEF QueryInv
  <2> QED
    BY <2>1, <2>2, <2>3
<1> QED
  BY <1>7, <1>8 DEF QueryInv, Conjunctions, Holds, Unset, Formed, Meant, Admits, Beyond

\* Only addCondition and clear change the conditions.
LEMMA NextQueryInv == QueryInv /\ [Next]_vars => QueryInv'
<1> SUFFICES ASSUME QueryInv, [Next]_vars PROVE QueryInv'
  OBVIOUS
<1>1. CASE \E n \in Nodes, v \in Vars : \E c \in Conjunctions(n), p \in Written[n][v] :
              addCondition(n, c, v, p)
  BY <1>1, AddKeepsQuery
<1>2. CASE UNCHANGED query
  BY <1>2 DEF query, QueryInv, Query, Holds, Conjunctions
<1>3. CASE clear
  <2>1. model' = NoConditions /\ asked' = NoConditions
    BY <1>3 DEF clear
  <2>2. \A n \in Nodes : \A c \in Conjunctions(n) : NoConditions[n][c] = <<>>
    BY DEF NoConditions
  <2>3. DOMAIN <<>> = {}
    OBVIOUS
  <2>4. PerConjunction(NoConditions)
    BY DEF NoConditions, PerConjunction
  <2> HIDE DEF NoConditions
  <2> QED
    BY <2>1, <2>2, <2>3, <2>4 DEF QueryInv, Query, Conjunctions
<1> QED
  BY <1>1, <1>2, <1>3 DEF Next, vars, collect_data, atomize_model, atomize_throws

\* Conjoining conditions one after the other, in any order and through any
\* conversions, leaves a condition that admits exactly what all of them admit.
THEOREM ConditionsAreConjoined == Spec => []IntersectionIsConjunction
<1>1. QueryInv => IntersectionIsConjunction
  <2> SUFFICES ASSUME QueryInv, NEW n \in Nodes, NEW c \in Conjunctions(n),
                      NEW v \in DOMAIN asked[n][c], Plain(model[n][c][v]),
                      \A p \in asked[n][c][v] : ~ Beyond(p),
                      NEW x \in Bounded(TypeOf[v])
               PROVE  testOverSingleVariable(model[n][c][v], x) <=> Admits(asked[n][c][v], x)
    BY DEF IntersectionIsConjunction
  <2>1. Holds(model[n][c][v], asked[n][c][v], TypeOf[v])
    BY DEF QueryInv
  <2>2. ~ Unset(model[n][c][v], TypeOf[v])
    BY DEF Unset, Plain
  <2>3. testOverSingleVariable(model[n][c][v], x) <=> Meant(model[n][c][v], x)
    BY DEF Plain, Meant, testOverSingleVariable
  <2> QED
    BY <2>1, <2>2, <2>3 DEF Holds
<1> QED
  BY <1>1, InitQueryInv, NextQueryInv, PTL DEF Spec

-----------------------------------------------------------------------------
(* Cutting: every value of a type lies in one elementary interval.         *)

\* A type has finitely many values.
LEMMA FiniteValues ==
  ASSUME NEW type \in Types
  PROVE  IsFiniteSet(Bounded(type))
<1>1. IsFiniteSet(Doubles)
  <2> DEFINE f == [n \in 0..MaxDouble |-> <<n>>]
  <2>1. f \in Surjection(0..MaxDouble, Doubles)
    BY DEF Surjection, Doubles
  <2>2. IsFiniteSet(0..MaxDouble)
    BY DataPredicatesAssumption, FS_Interval
  <2> QED
    BY <2>1, <2>2, FS_Surjection
<1>2. IsFiniteSet(Strings)
  <2> DEFINE lengths == {[1..m -> 1..MaxChar] : m \in 0..MaxLength}
             f == [m \in 0..MaxLength |-> [1..m -> 1..MaxChar]]
  <2>1. f \in Surjection(0..MaxLength, lengths)
    BY DEF Surjection
  <2>2. IsFiniteSet(0..MaxLength)
    BY DataPredicatesAssumption, FS_Interval
  <2>3. IsFiniteSet(lengths)
    BY <2>1, <2>2, FS_Surjection
  <2>4. \A T \in lengths : IsFiniteSet(T)
    <3> SUFFICES ASSUME NEW m \in 0..MaxLength PROVE IsFiniteSet([1..m -> 1..MaxChar])
      OBVIOUS
    <3>1. IsFiniteSet(1..m) /\ IsFiniteSet(1..MaxChar)
      BY DataPredicatesAssumption, FS_Interval
    <3> QED
      BY <3>1, FiniteFunctions
  <2>5. IsFiniteSet(UNION lengths)
    BY <2>3, <2>4, FS_UNION
  <2> QED
    BY <2>5 DEF Strings, BoundedSeq, SeqOf
<1>3. Bounded(type) \in SUBSET Values(type) /\ IsFiniteSet(Values(type))
  BY <1>1, <1>2 DEF Bounded, Values
<1> QED
  BY <1>3, FS_Subset

\* The order within a type.
LEMMA OrderWithin ==
  ASSUME NEW type \in Types
  PROVE  /\ \A a \in Bounded(type) : ~ Less(a, a)
         /\ \A a, b \in Bounded(type) : Less(a, b) \/ Less(b, a) \/ a = b
         /\ \A a, b, c \in Bounded(type) : Less(a, b) /\ Less(b, c) => Less(a, c)
         /\ \A a, b : AtMost(a, b) <=> ~ Less(b, a)
BY BoundedAreValues, OrderOfValues DEF AtMost, Less

\* What is not behind is not behind what follows.
LEMMA AtMostPasses ==
  ASSUME NEW type \in Types, NEW a \in Bounded(type), NEW b \in Bounded(type),
         NEW c \in Bounded(type), AtMost(a, b), AtMost(b, c)
  PROVE  AtMost(a, c)
BY OrderWithin

\* Values in increasing order.
LEMMA ValuesAscend ==
  ASSUME NEW type \in Types, NEW S \in SUBSET Bounded(type)
  PROVE  LET q == Increasing(S)
             n == Cardinality(S)
         IN /\ n \in Nat /\ q \in [1..n -> S] /\ Len(q) = n /\ DOMAIN q = 1..n
            /\ \A i, j \in 1..n : i < j <=> Less(q[i], q[j])
            /\ \A x \in S : \E i \in 1..n : q[i] = x
<1> DEFINE q == Increasing(S)
           n == Cardinality(S)
<1>1. IsFiniteSet(S) /\ n \in Nat
  BY FiniteValues, FS_Subset, FS_CardinalityType
<1>2. Orders(Order, S)
  BY OrderWithin DEF Orders, Less
<1>3. \A x : {y \in S : Less(y, x)} = Before(x, Order, S)
  BY DEF Before, Less
<1>4. ASSUME NEW i \in 1..n
      PROVE  q[i] \in S /\ Cardinality(Before(q[i], Order, S)) = i - 1
  <2>1. \E x \in S : Cardinality(Before(x, Order, S)) = i - 1
    BY <1>1, <1>2, Ranks
  <2>2. q[i] = CHOOSE x \in S : Cardinality(Before(x, Order, S)) = i - 1
    BY <1>3 DEF Increasing
  <2> QED
    BY <2>1, <2>2
<1>5. q = [k \in 1..n |-> CHOOSE x \in S : Cardinality({y \in S : Less(y, x)}) = k - 1]
  BY DEF Increasing
<1>6. q \in [1..n -> S]
  <2>1. \A i \in 1..n : (CHOOSE x \in S : Cardinality({y \in S : Less(y, x)}) = i - 1) \in S
    BY <1>4 DEF Increasing
  <2> QED
    BY <1>5, <2>1
<1>7. Len(q) = n /\ DOMAIN q = 1..n
  BY <1>1, <1>6
<1>8. ByRank(q, Order, S)
  BY <1>4, <1>6 DEF ByRank
<1> HIDE DEF q
<1>9. RankedInOrder(q, Order, S)
  BY <1>1, <1>2, <1>8, PlacesByRank
<1> QED
  BY <1>1, <1>6, <1>7, <1>9 DEF q, RankedInOrder, Less

\* A value within an interval.
Lies(x, i) == AtMost(i[1], x) /\ AtMost(x, i[2])

\* Where the range of a type is cut.
Cuts(type, intervals) ==
  {Lowest(type)} \cup {i[1] : i \in intervals}
    \cup {next_of(type, i[2]) : i \in {j \in intervals : j[2] # Highest(type)}}

\* The piece that starts at a cut ends before the next.
Piece(type, q, k) == <<q[k], IF k = Len(q) THEN Highest(type) ELSE prev_of(type, q[k + 1])>>

\* Cuts in increasing order: the first is the lowest value.
Cutting(type, q, n) ==
  /\ n \in Nat \ {0} /\ Len(q) = n /\ DOMAIN q = 1..n
  /\ \A i \in 1..n : q[i] \in Bounded(type)
  /\ \A i, j \in 1..n : i < j <=> Less(q[i], q[j])
  /\ \E i \in 1..n : q[i] = Lowest(type)

\* What lies in a piece is from its cut on, and before the next.
LEMMA PieceIs ==
  ASSUME NEW type \in Types, NEW q, NEW n, Cutting(type, q, n), NEW k \in 1..n
  PROVE  /\ Piece(type, q, k) \in Bounded(type) \X Bounded(type)
         /\ Piece(type, q, k)[1] = q[k]
         /\ \A x \in Bounded(type) :
              AtMost(x, Piece(type, q, k)[2]) <=> (k < n => Less(x, q[k + 1]))
<1>1. /\ n \in Nat /\ Len(q) = n /\ q[k] \in Bounded(type)
      /\ Highest(type) \in Bounded(type)
      /\ \A x \in Bounded(type) : AtMost(x, Highest(type))
  BY Ends DEF Cutting
<1>2. CASE k = n
  BY <1>1, <1>2 DEF Piece
<1>3. CASE k # n
  <2>1. k + 1 \in 1..n /\ k < n /\ q[k + 1] \in Bounded(type) /\ Less(q[k], q[k + 1])
    BY <1>1, <1>3 DEF Cutting
  <2>2. q[k + 1] # Lowest(type)
    BY <1>1, <2>1, Ends, OrderWithin
  <2>3. /\ prev_of(type, q[k + 1]) \in Bounded(type)
        /\ \A x \in Bounded(type) : Less(x, q[k + 1]) <=> AtMost(x, prev_of(type, q[k + 1]))
    BY <2>1, <2>2, Neighbours
  <2>4. Piece(type, q, k) = <<q[k], prev_of(type, q[k + 1])>>
    BY <1>1, <1>3 DEF Piece
  <2> QED
    BY <1>1, <2>1, <2>3, <2>4
<1> QED
  BY <1>2, <1>3

\* A value lies behind some cuts, and in the piece of the last of them.
LEMMA PiecesPartition ==
  ASSUME NEW type \in Types, NEW q, NEW n, Cutting(type, q, n), NEW x \in Bounded(type)
  PROVE  /\ \E k \in 1..n : Lies(x, Piece(type, q, k))
         /\ \A k, m \in 1..n :
              Lies(x, Piece(type, q, k)) /\ Lies(x, Piece(type, q, m)) => k = m
<1>1. /\ n \in Nat
      /\ \A i \in 1..n : q[i] \in Bounded(type)
      /\ \A i, j \in 1..n : i < j <=> Less(q[i], q[j])
  BY DEF Cutting
<1>2. \A k \in 1..n : Lies(x, Piece(type, q, k)) <=> ~ Less(x, q[k]) /\ (k < n => Less(x, q[k + 1]))
  BY PieceIs, OrderWithin DEF Lies
<1>3. \E k \in 1..n : Lies(x, Piece(type, q, k))
  <2> DEFINE T == {k \in 1..n : ~ Less(x, q[k])}
  <2>1. T # {}
    BY Ends, OrderWithin DEF Cutting
  <2>2. T \in SUBSET (0..n)
    OBVIOUS
  <2>3. PICK k \in T : \A m \in T : m <= k
    BY <1>1, <2>1, <2>2, GreatestNat
  <2>4. k < n => k + 1 \in 1..n /\ k + 1 \notin T
    BY <1>1, <2>3
  <2> QED
    BY <1>2, <2>3, <2>4
<1>4. ASSUME NEW k \in 1..n, NEW m \in 1..n, k < m,
             Lies(x, Piece(type, q, k)), Lies(x, Piece(type, q, m))
      PROVE  FALSE
  <2>1. k + 1 \in 1..n /\ Less(x, q[k + 1]) /\ ~ Less(x, q[m])
    BY <1>1, <1>2, <1>4
  <2>2. k + 1 = m \/ Less(q[k + 1], q[m])
    BY <1>1, <1>4, <2>1
  <2> QED
    BY <1>1, <2>1, <2>2, OrderWithin
<1> QED
  BY <1>1, <1>3, <1>4

\* A piece that meets one of the intervals lies within it.
LEMMA PieceWithin ==
  ASSUME NEW type \in Types, NEW q, NEW n, Cutting(type, q, n), NEW k \in 1..n,
         NEW lo \in Bounded(type), NEW hi \in Bounded(type),
         \E a \in 1..n : q[a] = lo,
         hi # Highest(type) => \E b \in 1..n : q[b] = next_of(type, hi),
         AtMost(lo, Piece(type, q, k)[2]), AtMost(Piece(type, q, k)[1], hi),
         NEW x \in Bounded(type), Lies(x, Piece(type, q, k))
  PROVE  AtMost(lo, x) /\ AtMost(x, hi)
<1>1. /\ n \in Nat
      /\ \A i \in 1..n : q[i] \in Bounded(type)
      /\ \A i, j \in 1..n : i < j <=> Less(q[i], q[j])
  BY DEF Cutting
<1>2. /\ AtMost(q[k], x)
      /\ k < n => Less(x, q[k + 1]) /\ Less(lo, q[k + 1])
      /\ AtMost(q[k], hi)
  BY PieceIs DEF Lies
<1>3. AtMost(lo, x)
  <2>1. PICK a \in 1..n : q[a] = lo
    OBVIOUS
  <2>2. a <= k
    <3>1. CASE k = n
      BY <1>1, <3>1
    <3>2. CASE k # n
      <4>1. k + 1 \in 1..n /\ k < n
        BY <1>1, <3>2
      <4> QED
        BY <1>1, <1>2, <2>1, <4>1
    <3> QED
      BY <3>1, <3>2
  <2>3. a = k \/ Less(q[a], q[k])
    BY <1>1, <2>2
  <2> QED
    BY <1>1, <1>2, <2>1, <2>3, OrderWithin
<1>4. AtMost(x, hi)
  <2>1. CASE hi = Highest(type)
    BY <2>1, Ends
  <2>2. CASE hi # Highest(type)
    <3>1. PICK b \in 1..n : q[b] = next_of(type, hi)
      BY <2>2
    <3>2. \A y \in Bounded(type) : Less(hi, y) <=> AtMost(q[b], y)
      BY <2>2, <3>1, Neighbours
    <3>3. Less(q[k], q[b])
      BY <1>1, <1>2, <3>2, OrderWithin
    <3>4. k < b /\ k < n /\ k + 1 \in 1..n
      BY <1>1, <3>3
    <3>5. k + 1 = b \/ Less(q[k + 1], q[b])
      BY <1>1, <3>4
    <3>6. Less(x, q[b])
      BY <1>1, <1>2, <3>4, <3>5, OrderWithin
    <3> QED
      BY <1>1, <3>2, <3>6, OrderWithin
  <2> QED
    BY <2>1, <2>2
<1> QED
  BY <1>3, <1>4

\* The elementary intervals of a type divide it, and none crosses an end of the
\* intervals they were made for.
LEMMA ElementaryDivides ==
  ASSUME NEW type \in Types, NEW intervals \in SUBSET (Bounded(type) \X Bounded(type))
  PROVE  /\ Elementary(type, intervals) \subseteq Bounded(type) \X Bounded(type)
         /\ \A x \in Bounded(type) : \E i \in Elementary(type, intervals) : Lies(x, i)
         /\ \A x \in Bounded(type) : \A i, j \in Elementary(type, intervals) :
              Lies(x, i) /\ Lies(x, j) => i = j
         /\ \A r \in intervals : \A i \in findInterval(Elementary(type, intervals), r[1], r[2]) :
              \A x \in Bounded(type) : Lies(x, i) => Lies(x, r)
<1> DEFINE lo == Cuts(type, intervals)
           q == Increasing(lo)
           n == Cardinality(lo)
<1>1. lo \in SUBSET Bounded(type) /\ Lowest(type) \in lo
  BY Ends, NeighboursBounded DEF Cuts
<1>2. /\ \A r \in intervals : r[1] \in lo /\ (r[2] # Highest(type) => next_of(type, r[2]) \in lo)
      /\ \A r \in intervals : r[1] \in Bounded(type) /\ r[2] \in Bounded(type)
  BY DEF Cuts
<1>3. Elementary(type, intervals) = {Piece(type, q, k) : k \in DOMAIN q}
  BY DEF Elementary, Cuts, Piece
<1> HIDE DEF lo
<1>4. /\ n \in Nat /\ q \in [1..n -> lo] /\ Len(q) = n /\ DOMAIN q = 1..n
      /\ \A i, j \in 1..n : i < j <=> Less(q[i], q[j])
      /\ \A x \in lo : \E i \in 1..n : q[i] = x
  BY <1>1, ValuesAscend
<1> HIDE DEF q, n
<1>5. Cutting(type, q, n)
  <2>1. \A i \in 1..n : q[i] \in Bounded(type)
    BY <1>1, <1>4
  <2>2. \E i \in 1..n : q[i] = Lowest(type)
    BY <1>1, <1>4
  <2>3. n # 0
    BY <1>4, <2>2
  <2> QED
    BY <1>4, <2>1, <2>2, <2>3 DEF Cutting
<1>6. Elementary(type, intervals) = {Piece(type, q, k) : k \in 1..n}
  BY <1>3, <1>4
<1>7. Elementary(type, intervals) \subseteq Bounded(type) \X Bounded(type)
  BY <1>5, <1>6, PieceIs
<1>8. ASSUME NEW x \in Bounded(type)
      PROVE  /\ \E i \in Elementary(type, intervals) : Lies(x, i)
             /\ \A i, j \in Elementary(type, intervals) : Lies(x, i) /\ Lies(x, j) => i = j
  BY <1>5, <1>6, PiecesPartition
<1>9. ASSUME NEW r \in intervals, NEW i \in findInterval(Elementary(type, intervals), r[1], r[2]),
             NEW x \in Bounded(type), Lies(x, i)
      PROVE  Lies(x, r)
  <2>1. PICK k \in 1..n : i = Piece(type, q, k)
    BY <1>6 DEF findInterval
  <2>2. AtMost(r[1], i[2]) /\ AtMost(i[1], r[2])
    BY DEF findInterval
  <2>3. /\ \E a \in 1..n : q[a] = r[1]
        /\ r[2] # Highest(type) => \E b \in 1..n : q[b] = next_of(type, r[2])
    BY <1>2, <1>4
  <2> QED
    BY <1>2, <1>5, <1>9, <2>1, <2>2, <2>3, PieceWithin DEF Lies
<1> QED
  BY <1>7, <1>8, <1>9

-----------------------------------------------------------------------------
(* Listing the boxes and numbering their atoms.                            *)

\* An element taken from a set.
Picked(T) == CHOOSE x \in T : TRUE

\* What is left of S before each step of taking one element after the other.
Leaves(left, S, n) ==
  left = [i \in 1..n |-> IF i = 1 THEN S ELSE LET T == left[i - 1] IN T \ {CHOOSE x \in T : TRUE}]

\* q lists S without repetition.
Lists(q, S, n) ==
  /\ n \in Nat /\ q \in [1..n -> S] /\ Len(q) = n /\ DOMAIN q = 1..n
  /\ \A i, j \in 1..n : q[i] = q[j] => i = j
  /\ \A x \in S : \E i \in 1..n : q[i] = x

\* There is such a list of what is left.
LEMMA LeavesExist ==
  ASSUME NEW S, NEW n \in Nat
  PROVE  \E left : Leaves(left, S, n)
<1> DEFINE X == SUBSET S
           G == [p \in (2..n) \X X |-> p[2] \ {Picked(p[2])}]
<1>1. \A i \in 2..n : \A T \in X : G[<<i, T>>] = T \ {Picked(T)} /\ T \ {Picked(T)} \in X
  OBVIOUS
<1> HIDE DEF G
<1>2. StaysIn(G, n, X)
  BY <1>1 DEF StaysIn
<1>3. S \in X
  OBVIOUS
<1> HIDE DEF X
<1>4. PICK f \in [1..n -> X] : Repeats(f, G, n, S)
  BY <1>2, <1>3, RepeatedSteps
<1>5. ASSUME NEW i \in 1..n
      PROVE  f[i] = IF i = 1 THEN S ELSE LET T == f[i - 1] IN T \ {CHOOSE x \in T : TRUE}
  <2>1. CASE i = 1
    BY <1>4, <2>1 DEF Repeats
  <2>2. CASE i # 1
    <3>1. i \in 2..n /\ i - 1 \in 1..n
      BY <2>2
    <3>2. f[i] = G[<<i, f[i - 1]>>] /\ f[i - 1] \in X
      BY <1>4, <2>2, <3>1 DEF Repeats
    <3> QED
      BY <1>1, <2>2, <3>1, <3>2 DEF Picked
  <2> QED
    BY <2>1, <2>2
<1>6. f = [i \in 1..n |-> IF i = 1 THEN S ELSE LET T == f[i - 1] IN T \ {CHOOSE x \in T : TRUE}]
  <2>1. f = [i \in 1..n |-> f[i]]
    OBVIOUS
  <2> QED
    BY <1>5, <2>1, Zenon
<1> QED
  BY <1>6 DEF Leaves

\* A finite set with one element taken out.
LEMMA OneTaken ==
  ASSUME NEW T, IsFiniteSet(T), NEW x \in T
  PROVE  IsFiniteSet(T \ {x}) /\ Cardinality(T \ {x}) = Cardinality(T) - 1
BY FS_RemoveElement

\* Each step leaves one element less.
LEMMA LeavesLess ==
  ASSUME NEW S, IsFiniteSet(S), NEW left, Leaves(left, S, Cardinality(S))
  PROVE  \A i \in 1..Cardinality(S) :
           /\ left[i] \in SUBSET S /\ left[i] # {} /\ Picked(left[i]) \in left[i]
           /\ i # 1 => left[i] = left[i - 1] \ {Picked(left[i - 1])}
<1> DEFINE n == Cardinality(S)
<1>1. n \in Nat
  BY FS_CardinalityType
<1> HIDE DEF n
<1>2. \A i \in 1..n : left[i] = IF i = 1 THEN S ELSE left[i - 1] \ {Picked(left[i - 1])}
  <2> SUFFICES ASSUME NEW i \in 1..n
               PROVE  left[i] = IF i = 1 THEN S ELSE left[i - 1] \ {Picked(left[i - 1])}
    OBVIOUS
  <2>1. left[i] = IF i = 1 THEN S ELSE LET T == left[i - 1] IN T \ {CHOOSE x \in T : TRUE}
    BY DEF Leaves, n
  <2> QED
    BY <2>1 DEF Picked
<1> DEFINE Good(m) == m + 1 <= n => /\ left[m + 1] \in SUBSET S /\ IsFiniteSet(left[m + 1])
                                    /\ Cardinality(left[m + 1]) = n - m
           N == {m \in Nat : Good(m)}
<1>3. 0 \in N
  <2>1. 1 <= n => left[1] = S
    <3>1. 1 <= n => 1 \in 1..n
      BY <1>1
    <3> QED
      BY <1>2, <3>1
  <2> QED
    BY <1>1, <2>1 DEF n
<1>4. ASSUME NEW m \in N PROVE m + 1 \in N
  <2> SUFFICES ASSUME m + 2 <= n
               PROVE  /\ left[m + 2] \in SUBSET S /\ IsFiniteSet(left[m + 2])
                      /\ Cardinality(left[m + 2]) = n - (m + 1)
    <3>1. m \in Nat /\ m + 1 \in Nat /\ (m + 1) + 1 = m + 2
      OBVIOUS
    <3> QED
      BY <3>1
  <2>1. /\ m \in Nat /\ m + 1 <= n /\ m + 2 \in 1..n /\ m + 2 # 1 /\ (m + 2) - 1 = m + 1
    BY <1>1
  <2>2. left[m + 1] \in SUBSET S /\ IsFiniteSet(left[m + 1]) /\ Cardinality(left[m + 1]) = n - m
    BY <2>1
  <2>3. left[m + 2] = left[m + 1] \ {Picked(left[m + 1])}
    BY <1>2, <2>1
  <2>4. left[m + 1] # {}
    BY <1>1, <2>1, <2>2, FS_EmptySet
  <2>5. Picked(left[m + 1]) \in left[m + 1]
    BY <2>4 DEF Picked
  <2>6. /\ IsFiniteSet(left[m + 1] \ {Picked(left[m + 1])})
        /\ Cardinality(left[m + 1] \ {Picked(left[m + 1])}) = Cardinality(left[m + 1]) - 1
    BY <2>2, <2>5, OneTaken
  <2>7. Cardinality(left[m + 2]) = n - (m + 1)
    BY <1>1, <2>1, <2>2, <2>3, <2>6
  <2> QED
    BY <2>2, <2>3, <2>6, <2>7
<1>5. N = Nat
  <2>1. N \in SUBSET Nat
    OBVIOUS
  <2> HIDE DEF N
  <2> QED
    BY <1>3, <1>4, <2>1, AllNats
<1>6. ASSUME NEW i \in 1..n
      PROVE  left[i] \in SUBSET S /\ left[i] # {} /\ Picked(left[i]) \in left[i]
  <2>1. i - 1 \in Nat /\ (i - 1) + 1 = i /\ i <= n
    BY <1>1
  <2>2. Good(i - 1)
    <3>1. i - 1 \in N
      BY <1>5, <2>1
    <3> QED
      BY <3>1
  <2>3. left[i] \in SUBSET S /\ IsFiniteSet(left[i]) /\ Cardinality(left[i]) = n - (i - 1)
    BY <2>1, <2>2
  <2>4. left[i] # {}
    BY <1>1, <2>1, <2>3, FS_EmptySet
  <2> QED
    BY <2>3, <2>4 DEF Picked
<1> QED
  BY <1>2, <1>6 DEF n

\* Listed gives every element of a finite set one place.
LEMMA ListedLists ==
  ASSUME NEW S, IsFiniteSet(S)
  PROVE  Lists(Listed(S), S, Cardinality(S))
<1> DEFINE n == Cardinality(S)
           q == Listed(S)
           left == CHOOSE f : Leaves(f, S, n)
<1>1. n \in Nat
  BY FS_CardinalityType
<1>2. Leaves(left, S, n)
  BY <1>1, LeavesExist
<1>3. q = [i \in 1..n |-> Picked(left[i])]
  BY DEF Listed, Leaves, Picked
<1> HIDE DEF q, left
<1>4. \A i \in 1..n :
        /\ left[i] \in SUBSET S /\ left[i] # {} /\ Picked(left[i]) \in left[i]
        /\ i # 1 => left[i] = left[i - 1] \ {Picked(left[i - 1])}
  BY <1>2, LeavesLess
<1>5. q \in [1..n -> S] /\ \A i \in 1..n : q[i] = Picked(left[i])
  BY <1>3, <1>4
<1>6. ASSUME NEW i \in 1..n
      PROVE  \A j \in 1..n : i < j => left[j] \subseteq left[i] \ {Picked(left[i])}
  <2> DEFINE N == {m \in Nat : i + 1 + m <= n => left[i + 1 + m] \subseteq left[i] \ {Picked(left[i])}}
  <2>1. 0 \in N
    <3>1. i + 1 <= n => i + 1 \in 1..n /\ i + 1 # 1 /\ (i + 1) - 1 = i
      BY <1>1
    <3>2. i + 1 + 0 = i + 1
      OBVIOUS
    <3> QED
      BY <1>4, <3>1, <3>2
  <2>2. ASSUME NEW m \in N PROVE m + 1 \in N
    <3> SUFFICES ASSUME i + 1 + (m + 1) <= n
                 PROVE  left[i + 1 + (m + 1)] \subseteq left[i] \ {Picked(left[i])}
      OBVIOUS
    <3>1. /\ m \in Nat /\ i + 1 + m <= n
          /\ i + 1 + (m + 1) \in 1..n /\ i + 1 + (m + 1) # 1 /\ (i + 1 + (m + 1)) - 1 = i + 1 + m
      BY <1>1
    <3>2. left[i + 1 + (m + 1)] = left[i + 1 + m] \ {Picked(left[i + 1 + m])}
      BY <1>4, <3>1
    <3>3. left[i + 1 + m] \subseteq left[i] \ {Picked(left[i])}
      BY <3>1
    <3> QED
      BY <3>2, <3>3
  <2>3. N = Nat
    <3>1. N \in SUBSET Nat
      OBVIOUS
    <3> HIDE DEF N
    <3> QED
      BY <2>1, <2>2, <3>1, AllNats
  <2> SUFFICES ASSUME NEW j \in 1..n, i < j
               PROVE  left[j] \subseteq left[i] \ {Picked(left[i])}
    OBVIOUS
  <2>4. j - (i + 1) \in Nat /\ i + 1 + (j - (i + 1)) = j /\ j <= n
    BY <1>1
  <2>5. j - (i + 1) \in N
    BY <2>3, <2>4
  <2> QED
    BY <2>4, <2>5
<1>7. ASSUME NEW i \in 1..n, NEW j \in 1..n, i < j PROVE q[i] # q[j]
  BY <1>4, <1>5, <1>6, <1>7
<1>8. \A i, j \in 1..n : q[i] = q[j] => i = j
  BY <1>1, <1>7
<1>9. IsFiniteSet(1..n) /\ Cardinality(1..n) = n
  BY <1>1, FS_Interval
<1>10. \A i \in 1..n : q[i] \in S
  BY <1>5
<1>11. Matches(q, 1..n, S)
  BY <1>8, <1>9, <1>10, ApartIsMatch
<1>12. Len(q) = n /\ DOMAIN q = 1..n
  BY <1>1, <1>5
<1> QED
  BY <1>1, <1>5, <1>8, <1>11, <1>12 DEF q, Lists, Matches

-----------------------------------------------------------------------------
(* The intervals of a condition.                                           *)

\* The value before another does not come behind it.
LEMMA PrevIsNotBehind ==
  ASSUME NEW type \in Types, NEW v \in Bounded(type)
  PROVE  /\ prev_of(type, v) \in Bounded(type)
         /\ AtMost(prev_of(type, v), v)
         /\ \A x \in Bounded(type) : Less(v, x) => AtMost(prev_of(type, v), x)
<1>1. prev_of(type, v) \in Bounded(type)
  BY NeighboursBounded
<1>2. AtMost(prev_of(type, v), v)
  <2>1. CASE v = Lowest(type)
    <3>1. prev_of(type, v) = v
      BY <2>1 DEF Lowest, prev_of, prev_char, prev_double
    <3> QED
      BY <3>1, OrderWithin
  <2>2. CASE v # Lowest(type)
    <3>1. Less(prev_of(type, v), v) <=> AtMost(prev_of(type, v), prev_of(type, v))
      BY <1>1, <2>2, Neighbours
    <3> QED
      BY <1>1, <3>1, OrderWithin
  <2> QED
    BY <2>1, <2>2
<1> QED
  BY <1>1, <1>2, OrderWithin

\* What lies between exceptions lies in one of the intervals between them.
LEMMA SplitCovers ==
  ASSUME NEW type \in Types, NEW p, Formed(p, type), p.casusu = "INTERVAL"
  PROVE  /\ SplitAtExceptions(p) \subseteq Bounded(type) \X Bounded(type)
         /\ SplitAtExceptions(p) # {}
         /\ \A x \in Bounded(type) : Meant(p, x) => \E i \in SplitAtExceptions(p) : Lies(x, i)
<1> DEFINE q == Increasing(p.exceptions)
           n == Cardinality(p.exceptions)
           from(k) == IF k = 0 THEN p.value ELSE prev_of(type, q[k])
           to(k) == IF k = n THEN p.upper ELSE prev_of(type, q[k + 1])
<1>1. /\ p.type = type /\ p.value \in Bounded(type) /\ p.upper \in Bounded(type)
      /\ p.exceptions \in SUBSET Bounded(type)
  BY DEF Formed
<1>2. /\ n \in Nat /\ q \in [1..n -> p.exceptions] /\ Len(q) = n /\ DOMAIN q = 1..n
      /\ \A x \in p.exceptions : \E i \in 1..n : q[i] = x
  BY <1>1, ValuesAscend
<1>3. SplitAtExceptions(p) = {<<from(k), to(k)>> : k \in 0..n}
  BY <1>1, <1>2 DEF SplitAtExceptions
<1> HIDE DEF q, n
<1>4. \A k \in 1..n : q[k] \in p.exceptions /\ q[k] \in Bounded(type)
  BY <1>1, <1>2
<1>5. ASSUME NEW k \in 0..n
      PROVE  from(k) \in Bounded(type) /\ to(k) \in Bounded(type)
  <2>1. (k # 0 => k \in 1..n) /\ (k # n => k + 1 \in 1..n)
    BY <1>2
  <2> QED
    BY <1>1, <1>4, <2>1, NeighboursBounded
<1>6. ASSUME NEW x \in Bounded(type), Meant(p, x)
      PROVE  \E k \in 0..n : AtMost(from(k), x) /\ AtMost(x, to(k))
  <2>1. AtMost(p.value, x) /\ AtMost(x, p.upper) /\ x \notin p.exceptions
    BY <1>6 DEF Meant
  <2> DEFINE T == {k \in 0..n : k = 0 \/ Less(q[k], x)}
  <2>2. T \in SUBSET (0..n) /\ T # {}
    <3>1. 0 \in T
      BY <1>2
    <3> QED
      BY <3>1
  <2>3. PICK k \in T : \A m \in T : m <= k
    <3> HIDE DEF T
    <3> QED
      BY <1>2, <2>2, GreatestNat
  <2>4. k \in 0..n /\ (k = 0 \/ (k \in 1..n /\ Less(q[k], x)))
    BY <1>2
  <2>5. AtMost(from(k), x)
    BY <1>4, <2>1, <2>4, PrevIsNotBehind
  <2>6. AtMost(x, to(k))
    <3>1. CASE k = n
      BY <2>1, <3>1
    <3>2. CASE k # n
      <4>1. k + 1 \in 1..n /\ k + 1 \in 0..n /\ ~ (k + 1 <= k) /\ k + 1 # 0
        BY <1>2, <2>4, <3>2
      <4>2. ~ Less(q[k + 1], x)
        BY <2>3, <4>1
      <4>3. q[k + 1] # x /\ q[k + 1] \in Bounded(type)
        BY <1>4, <2>1, <4>1
      <4>4. Less(x, q[k + 1])
        BY <4>2, <4>3, OrderWithin
      <4> QED
        BY <3>2, <4>3, <4>4, NeighboursBounded
    <3> QED
      BY <3>1, <3>2
  <2> QED
    BY <2>4, <2>5, <2>6
<1> HIDE DEF from, to
<1>7. SplitAtExceptions(p) \subseteq Bounded(type) \X Bounded(type)
  BY <1>3, <1>5
<1>8. SplitAtExceptions(p) # {}
  <2>1. 0 \in 0..n
    BY <1>2
  <2> QED
    BY <1>3, <2>1
<1>9. ASSUME NEW x \in Bounded(type), Meant(p, x)
      PROVE  \E i \in SplitAtExceptions(p) : Lies(x, i)
  <2>1. PICK k \in 0..n : AtMost(from(k), x) /\ AtMost(x, to(k))
    BY <1>6, <1>9
  <2>2. <<from(k), to(k)>> \in SplitAtExceptions(p)
    BY <1>3
  <2> QED
    BY <2>1, <2>2 DEF Lies
<1> QED
  BY <1>7, <1>8, <1>9

\* What a condition means lies in its intervals, which are within the type.
LEMMA DecompositionCovers ==
  ASSUME NEW type \in Types, NEW p, Formed(p, type), p.casusu # "TTRUE"
  PROVE  LET D == decompose_single_variable_into_intervals(p)
         IN /\ D \subseteq Bounded(type) \X Bounded(type)
            /\ D # {}
            /\ \A x \in Bounded(type) : Meant(p, x) => \E i \in D : Lies(x, i)
<1> DEFINE D == decompose_single_variable_into_intervals(p)
           v == p.value
<1>1. /\ p.type = type /\ p.casusu \in Comparisons \cup {"INTERVAL"}
      /\ v \in Bounded(type)
      /\ p.casusu = "INTERVAL" => p.upper \in Bounded(type)
  BY DEF Formed
<1>2. /\ Lowest(type) \in Bounded(type) /\ Highest(type) \in Bounded(type)
      /\ \A x \in Bounded(type) : AtMost(Lowest(type), x) /\ AtMost(x, Highest(type))
      /\ prev_of(type, v) \in Bounded(type) /\ next_of(type, v) \in Bounded(type)
      /\ \A x \in Bounded(type) : Less(x, v) => AtMost(x, prev_of(type, v))
      /\ \A x \in Bounded(type) : Less(v, x) => AtMost(next_of(type, v), x)
      /\ \A x \in Bounded(type) : Less(v, x) \/ Less(x, v) \/ x = v
      /\ \A x, y : AtMost(x, y) <=> ~ Less(y, x)
  <2>1. v \in Bounded(type)
    BY <1>1
  <2> HIDE DEF v
  <2> QED
    BY <2>1, Ends, NeighboursBounded, OrderWithin
<1>3. CASE p.casusu = "LT"
  <2>1. D = {<<Lowest(type), prev_of(type, v)>>} /\ \A x : Meant(p, x) <=> Less(x, v)
    BY <1>1, <1>3 DEF decompose_single_variable_into_intervals, Meant, testOverSingleVariable
  <2> HIDE DEF D, v
  <2> QED
    BY <1>2, <2>1 DEF Lies, D
<1>4. CASE p.casusu = "GT"
  <2>1. D = {<<next_of(type, v), Highest(type)>>} /\ \A x : Meant(p, x) <=> Less(v, x)
    BY <1>1, <1>4 DEF decompose_single_variable_into_intervals, Meant, testOverSingleVariable
  <2> HIDE DEF D, v
  <2> QED
    BY <1>2, <2>1 DEF Lies, D
<1>5. CASE p.casusu = "LEQ"
  <2>1. D = {<<Lowest(type), v>>} /\ \A x : Meant(p, x) <=> AtMost(x, v)
    BY <1>1, <1>5 DEF decompose_single_variable_into_intervals, Meant, testOverSingleVariable
  <2> HIDE DEF D, v
  <2> QED
    BY <1>1, <1>2, <2>1 DEF Lies, D, v
<1>6. CASE p.casusu = "GEQ"
  <2>1. D = {<<v, Highest(type)>>} /\ \A x : Meant(p, x) <=> AtMost(v, x)
    BY <1>1, <1>6 DEF decompose_single_variable_into_intervals, Meant, testOverSingleVariable
  <2> HIDE DEF D, v
  <2> QED
    BY <1>1, <1>2, <2>1 DEF Lies, D, v
<1>7. CASE p.casusu = "EQ"
  <2>1. D = {<<v, v>>} /\ \A x : Meant(p, x) <=> x = v
    BY <1>1, <1>7 DEF decompose_single_variable_into_intervals, Meant, testOverSingleVariable
  <2>2. v \in Bounded(type) /\ AtMost(v, v)
    BY <1>1, OrderWithin
  <2> HIDE DEF D, v
  <2> QED
    BY <2>1, <2>2 DEF Lies, D
<1>8. CASE p.casusu = "NEQ"
  <2>1. /\ D = {<<Lowest(type), prev_of(type, v)>>, <<next_of(type, v), Highest(type)>>}
        /\ \A x : Meant(p, x) <=> x # v
    BY <1>1, <1>8 DEF decompose_single_variable_into_intervals, Meant, testOverSingleVariable
  <2> HIDE DEF D, v
  <2>2. \A x \in Bounded(type) : Meant(p, x) => Less(x, v) \/ Less(v, x)
    BY <1>2, <2>1
  <2> QED
    BY <1>2, <2>1, <2>2 DEF Lies, D
<1>9. CASE p.casusu = "INTERVAL" /\ p.exceptions = {}
  <2>1. D = {<<v, p.upper>>} /\ \A x : Meant(p, x) => AtMost(v, x) /\ AtMost(x, p.upper)
    BY <1>1, <1>9 DEF decompose_single_variable_into_intervals, Meant
  <2>2. v \in Bounded(type) /\ p.upper \in Bounded(type)
    BY <1>1, <1>9
  <2> HIDE DEF D, v
  <2> QED
    BY <2>1, <2>2 DEF Lies, D
<1>10. CASE p.casusu = "INTERVAL" /\ p.exceptions # {}
  <2>1. D = SplitAtExceptions(p)
    BY <1>10 DEF decompose_single_variable_into_intervals
  <2> HIDE DEF D
  <2> QED
    BY <1>10, <2>1, SplitCovers DEF D
<1> QED
  BY <1>1, <1>3, <1>4, <1>5, <1>6, <1>7, <1>8, <1>9, <1>10 DEF Comparisons

\* A condition without exceptions, other than an inequation, is one interval, the
\* one asInterval makes of it, which holds nothing but what the condition means.
LEMMA PlainInterval ==
  ASSUME NEW type \in Types, NEW p, Formed(p, type), p.casusu \notin {"TTRUE", "NEQ"},
         Plain(p), ~ Beyond(p)
  PROVE  \E r \in Bounded(type) \X Bounded(type) :
           /\ decompose_single_variable_into_intervals(p) = {r}
           /\ decompose_single_variable_into_intervals(asInterval(p)) = {r}
           /\ \A x \in Bounded(type) : Lies(x, r) => Meant(p, x)
<1> DEFINE q == asInterval(p)
           r == <<q.value, q.upper>>
<1>1. /\ p.type = type /\ p.casusu \in Comparisons \cup {"INTERVAL"} /\ p.exceptions = {}
      /\ p \in [casusu : Comparisons \cup {"TTRUE", "INTERVAL"}, type : {type},
                value : All, upper : All, exceptions : SUBSET Bounded(type)]
  BY DEF Formed, Plain
<1>2. /\ Formed(q, type) /\ q.casusu = "INTERVAL"
      /\ \A x \in Bounded(type) : Meant(q, x) => Meant(p, x)
  BY AsIntervalKeeps
<1>3. q.exceptions = {} /\ decompose_single_variable_into_intervals(p) = {r}
  <2> DEFINE made(lo, hi) == [casusu |-> "INTERVAL", type |-> type, value |-> lo, upper |-> hi,
                              exceptions |-> p.exceptions]
  <2>1. \A lo, hi : Interval(p, lo, hi, p.exceptions) = made(lo, hi)
    BY <1>1, IntervalMade
  <2>2. CASE p.casusu = "INTERVAL"
    BY <1>1, <2>2 DEF asInterval, decompose_single_variable_into_intervals
  <2>3. CASE p.casusu = "LT"
    BY <1>1, <2>1, <2>3 DEF asInterval, decompose_single_variable_into_intervals
  <2>4. CASE p.casusu = "GT"
    BY <1>1, <2>1, <2>4 DEF asInterval, decompose_single_variable_into_intervals
  <2>5. CASE p.casusu = "LEQ"
    BY <1>1, <2>1, <2>5 DEF asInterval, decompose_single_variable_into_intervals
  <2>6. CASE p.casusu = "GEQ"
    BY <1>1, <2>1, <2>6 DEF asInterval, decompose_single_variable_into_intervals
  <2>7. CASE p.casusu = "EQ"
    BY <1>1, <2>1, <2>7 DEF asInterval, decompose_single_variable_into_intervals
  <2> QED
    BY <1>1, <2>2, <2>3, <2>4, <2>5, <2>6, <2>7 DEF Comparisons
<1> HIDE DEF q
<1>4. decompose_single_variable_into_intervals(q) = {r}
  BY <1>2, <1>3 DEF decompose_single_variable_into_intervals
<1>5. r \in Bounded(type) \X Bounded(type)
  BY <1>2 DEF Formed
<1>6. \A x \in Bounded(type) : Lies(x, r) => Meant(p, x)
  BY <1>2, <1>3 DEF Lies, Meant
<1> QED
  BY <1>3, <1>4, <1>5, <1>6 DEF q

\* What two inequations leave is within the type once it is not critical.
LEMMA UncriticalIsFormed ==
  ASSUME NEW type \in Types, NEW p, NEW conditions, Holds(p, conditions, type), ~ IsCritical(p)
  PROVE  Formed(p, type)
<1> SUFFICES ASSUME Unset(p, type) PROVE Formed(p, type)
  BY DEF Holds
<1>1. /\ p.casusu = "INTERVAL" /\ p.type = type /\ p.upper = <<>> /\ p.value \in Bounded(type)
      /\ p \in [casusu : {"INTERVAL"}, type : {type}, value : Bounded(type), upper : {<<>>},
                exceptions : SUBSET Bounded(type)]
  BY DEF Unset
<1>2. p.value = <<>>
  <2>1. ~ Less(<<>>, p.value)
    BY <1>1 DEF IsCritical
  <2> QED
    BY <1>1, <2>1, EmptyIsFirst, BoundedAreValues
<1>3. p.value \in All /\ <<>> \in All
  BY <1>1, EmptyIsFirst, BoundedAreValues
<1>4. p \in [casusu : Comparisons \cup {"TTRUE", "INTERVAL"}, type : {type},
             value : All, upper : All, exceptions : SUBSET Bounded(type)]
  BY <1>1, <1>3
<1> QED
  BY <1>1, <1>2, <1>4 DEF Formed

-----------------------------------------------------------------------------
(* Boxes.                                                                  *)

\* A tree divides the values of each of its properties.
Divides(tree) ==
  /\ DOMAIN tree \subseteq Vars
  /\ \A v \in DOMAIN tree :
       /\ tree[v] \subseteq Bounded(TypeOf[v]) \X Bounded(TypeOf[v])
       /\ \A x \in Bounded(TypeOf[v]) : \E i \in tree[v] : Lies(x, i)
       /\ \A x \in Bounded(TypeOf[v]) : \A i, j \in tree[v] : Lies(x, i) /\ Lies(x, j) => i = j

\* One interval of each property.
BoxesOf(tree) ==
  {box \in [DOMAIN tree -> UNION Range(tree)] : \A v \in DOMAIN tree : box[v] \in tree[v]}

\* There are finitely many.
LEMMA BoxesAreFinite ==
  ASSUME NEW tree, Divides(tree)
  PROVE  IsFiniteSet(BoxesOf(tree))
<1> DEFINE D == DOMAIN tree
           V == Bounded("string") \cup Bounded("double")
<1>1. IsFiniteSet(D)
  BY AtomisationAssumption, FS_Subset DEF Divides
<1>2. IsFiniteSet(V)
  <2>1. IsFiniteSet(Bounded("string")) /\ IsFiniteSet(Bounded("double"))
    BY FiniteValues DEF Types
  <2> QED
    BY <2>1, FS_Union
<1>3. \A v \in D : tree[v] \subseteq V \X V
  <2>1. \A v \in Vars : TypeOf[v] \in {"string", "double"}
    BY AtomisationAssumption
  <2>2. ASSUME NEW v \in D PROVE Bounded(TypeOf[v]) \subseteq V
    BY <2>1 DEF Divides
  <2> QED
    BY <2>2 DEF Divides
<1> HIDE DEF V
<1>4. IsFiniteSet(V \X V)
  BY <1>2, FS_Product
<1>5. IsFiniteSet([D -> V \X V])
  BY <1>1, <1>4, FiniteFunctions
<1>6. BoxesOf(tree) \subseteq [D -> V \X V]
  BY <1>3 DEF BoxesOf
<1> QED
  BY <1>5, <1>6, FS_Subset

\* The boxes are listed, each once, and every object lies in one of them.
LEMMA OneBox ==
  ASSUME NEW tree, Divides(tree), NEW w \in Objects
  PROVE  LET q == Boxes(tree)
         IN /\ \E n : Lists(q, BoxesOf(tree), n)
            /\ \E i \in DOMAIN q : InBox(w, q[i])
            /\ \A i, j \in DOMAIN q : InBox(w, q[i]) /\ InBox(w, q[j]) => i = j
<1> DEFINE q == Boxes(tree)
           n == Cardinality(BoxesOf(tree))
<1>1. Lists(q, BoxesOf(tree), n)
  <2>1. q = Listed(BoxesOf(tree))
    BY DEF Boxes, BoxesOf
  <2> QED
    BY <2>1, BoxesAreFinite, ListedLists
<1> HIDE DEF q, n
<1>2. /\ DOMAIN q = 1..n
      /\ \A i \in 1..n : q[i] \in BoxesOf(tree)
      /\ \A i, j \in 1..n : q[i] = q[j] => i = j
      /\ \A x \in BoxesOf(tree) : \E i \in 1..n : q[i] = x
  BY <1>1 DEF Lists
<1>3. \A v \in DOMAIN tree : w[v] \in Bounded(TypeOf[v])
  BY DEF Objects, Divides
<1>4. \E i \in DOMAIN q : InBox(w, q[i])
  <2> DEFINE box == [v \in DOMAIN tree |-> CHOOSE i \in tree[v] : Lies(w[v], i)]
  <2>1. \A v \in DOMAIN tree : box[v] \in tree[v] /\ Lies(w[v], box[v])
    BY <1>3 DEF Divides
  <2>2. DOMAIN box = DOMAIN tree /\ box \in [DOMAIN tree -> UNION Range(tree)]
    BY <2>1 DEF Range
  <2> HIDE DEF box
  <2>3. box \in BoxesOf(tree)
    BY <2>1, <2>2 DEF BoxesOf
  <2>4. InBox(w, box)
    BY <2>1, <2>2 DEF InBox, Lies
  <2> QED
    BY <1>2, <2>3, <2>4
<1>5. ASSUME NEW i \in DOMAIN q, NEW j \in DOMAIN q, InBox(w, q[i]), InBox(w, q[j])
      PROVE  i = j
  <2>1. q[i] \in BoxesOf(tree) /\ q[j] \in BoxesOf(tree)
    BY <1>2
  <2>2. /\ q[i] \in [DOMAIN tree -> UNION Range(tree)] /\ q[j] \in [DOMAIN tree -> UNION Range(tree)]
        /\ \A v \in DOMAIN tree : q[i][v] \in tree[v] /\ q[j][v] \in tree[v]
    BY <2>1 DEF BoxesOf
  <2>3. ASSUME NEW v \in DOMAIN tree PROVE q[i][v] = q[j][v]
    <3>1. Lies(w[v], q[i][v]) /\ Lies(w[v], q[j][v])
      BY <1>5, <2>2 DEF InBox, Lies
    <3> QED
      BY <1>3, <2>2, <3>1 DEF Divides
  <2>4. q[i] = q[j]
    BY <2>2, <2>3
  <2> QED
    BY <1>2, <2>4
<1> QED
  BY <1>1, <1>4, <1>5 DEF q

-----------------------------------------------------------------------------
(* Numbering the boxes.                                                    *)

\* The numbers of the first boxes of each label, in the order of the labels.
Offsets(before, boxes, order) ==
  before = [i \in DOMAIN order |-> IF i = 1 THEN 0 ELSE before[i - 1] + Len(boxes[order[i - 1]])]

\* There are such numbers.
LEMMA OffsetsExist ==
  ASSUME NEW boxes, NEW order, NEW n \in Nat, DOMAIN order = 1..n,
         \A i \in 1..n : Len(boxes[order[i]]) \in Nat
  PROVE  \E before : Offsets(before, boxes, order)
<1> DEFINE G == [p \in (2..n) \X Nat |-> p[2] + Len(boxes[order[p[1] - 1]])]
<1>1. \A i \in 2..n : \A x \in Nat :
        /\ G[<<i, x>>] = x + Len(boxes[order[i - 1]])
        /\ x + Len(boxes[order[i - 1]]) \in Nat
  <2> SUFFICES ASSUME NEW i \in 2..n, NEW x \in Nat
               PROVE  /\ G[<<i, x>>] = x + Len(boxes[order[i - 1]])
                      /\ x + Len(boxes[order[i - 1]]) \in Nat
    OBVIOUS
  <2>1. i - 1 \in 1..n
    OBVIOUS
  <2>2. x + Len(boxes[order[i - 1]]) \in Nat
    BY <2>1
  <2>3. G[<<i, x>>] = <<i, x>>[2] + Len(boxes[order[<<i, x>>[1] - 1]])
    OBVIOUS
  <2> QED
    BY <2>2, <2>3
<1> HIDE DEF G
<1>2. StaysIn(G, n, Nat)
  BY <1>1 DEF StaysIn
<1>3. PICK f \in [1..n -> Nat] : Repeats(f, G, n, 0)
  BY <1>2, RepeatedSteps
<1>4. ASSUME NEW i \in 1..n
      PROVE  f[i] = IF i = 1 THEN 0 ELSE f[i - 1] + Len(boxes[order[i - 1]])
  <2>1. CASE i = 1
    BY <1>3, <2>1 DEF Repeats
  <2>2. CASE i # 1
    <3>1. i \in 2..n /\ i - 1 \in 1..n
      BY <2>2
    <3>2. f[i] = G[<<i, f[i - 1]>>] /\ f[i - 1] \in Nat
      BY <1>3, <2>2, <3>1 DEF Repeats
    <3> QED
      BY <1>1, <2>2, <3>1, <3>2
  <2> QED
    BY <2>1, <2>2
<1>5. f = [i \in 1..n |-> IF i = 1 THEN 0 ELSE f[i - 1] + Len(boxes[order[i - 1]])]
  <2>1. f = [i \in 1..n |-> f[i]]
    OBVIOUS
  <2> QED
    BY <1>4, <2>1, Zenon
<1> QED
  BY <1>5 DEF Offsets

\* The boxes of a label have their numbers before those of the next.
LEMMA OffsetsGrow ==
  ASSUME NEW boxes, NEW order, NEW n \in Nat, DOMAIN order = 1..n,
         \A i \in 1..n : Len(boxes[order[i]]) \in Nat,
         NEW before, Offsets(before, boxes, order)
  PROVE  /\ \A i \in 1..n : before[i] \in Nat
         /\ \A i, j \in 1..n : i < j => before[i] + Len(boxes[order[i]]) <= before[j]
<1>1. \A i \in 1..n :
        before[i] = IF i = 1 THEN 0 ELSE before[i - 1] + Len(boxes[order[i - 1]])
  BY DEF Offsets
<1>2. \A i \in 1..n : before[i] \in Nat
  <2> DEFINE N == {m \in Nat : m + 1 <= n => before[m + 1] \in Nat}
  <2>1. 0 \in N
    <3>1. 0 + 1 <= n => 1 \in 1..n
      OBVIOUS
    <3> QED
      BY <1>1, <3>1
  <2>2. ASSUME NEW m \in N PROVE m + 1 \in N
    <3> SUFFICES ASSUME (m + 1) + 1 <= n PROVE before[(m + 1) + 1] \in Nat
      OBVIOUS
    <3>1. /\ m + 1 <= n /\ m + 1 \in 1..n
          /\ (m + 1) + 1 \in 1..n /\ (m + 1) + 1 # 1 /\ ((m + 1) + 1) - 1 = m + 1
      OBVIOUS
    <3>2. before[m + 1] \in Nat /\ Len(boxes[order[m + 1]]) \in Nat
      BY <3>1
    <3>3. before[(m + 1) + 1] = before[m + 1] + Len(boxes[order[m + 1]])
      BY <1>1, <3>1
    <3> QED
      BY <3>2, <3>3
  <2>3. N = Nat
    <3>1. N \in SUBSET Nat
      OBVIOUS
    <3> HIDE DEF N
    <3> QED
      BY <2>1, <2>2, <3>1, AllNats
  <2> SUFFICES ASSUME NEW i \in 1..n PROVE before[i] \in Nat
    OBVIOUS
  <2>4. i - 1 \in Nat /\ (i - 1) + 1 = i /\ i <= n
    OBVIOUS
  <2>5. i - 1 \in N
    BY <2>3, <2>4
  <2> QED
    BY <2>4, <2>5
<1>3. ASSUME NEW i \in 1..n
      PROVE  \A j \in 1..n : i < j => before[i] + Len(boxes[order[i]]) <= before[j]
  <2> DEFINE last == before[i] + Len(boxes[order[i]])
             N == {m \in Nat : i + 1 + m <= n => last <= before[i + 1 + m]}
  <2>0. last \in Nat
    BY <1>2
  <2>1. 0 \in N
    <3>1. i + 1 <= n => i + 1 \in 1..n /\ i + 1 # 1 /\ (i + 1) - 1 = i
      OBVIOUS
    <3>2. i + 1 <= n => before[i + 1] = last
      BY <1>1, <3>1
    <3>3. i + 1 + 0 = i + 1
      OBVIOUS
    <3> QED
      BY <2>0, <3>2, <3>3
  <2> HIDE DEF last
  <2>2. ASSUME NEW m \in N PROVE m + 1 \in N
    <3> SUFFICES ASSUME i + 1 + (m + 1) <= n
                 PROVE  last <= before[i + 1 + (m + 1)]
      OBVIOUS
    <3>1. /\ m \in Nat /\ i + 1 + m <= n /\ i + 1 + m \in 1..n
          /\ i + 1 + (m + 1) \in 1..n /\ i + 1 + (m + 1) # 1 /\ (i + 1 + (m + 1)) - 1 = i + 1 + m
      OBVIOUS
    <3>2. before[i + 1 + (m + 1)] = before[i + 1 + m] + Len(boxes[order[i + 1 + m]])
      BY <1>1, <3>1
    <3>3. last <= before[i + 1 + m]
      BY <3>1
    <3>4. before[i + 1 + m] \in Nat /\ Len(boxes[order[i + 1 + m]]) \in Nat
      BY <1>2, <3>1
    <3> QED
      BY <2>0, <3>2, <3>3, <3>4
  <2>3. N = Nat
    <3>1. N \in SUBSET Nat
      OBVIOUS
    <3> HIDE DEF N
    <3> QED
      BY <2>1, <2>2, <3>1, AllNats
  <2> SUFFICES ASSUME NEW j \in 1..n, i < j
               PROVE  last <= before[j]
    BY DEF last
  <2>4. j - (i + 1) \in Nat /\ i + 1 + (j - (i + 1)) = j /\ j <= n
    OBVIOUS
  <2>5. j - (i + 1) \in N
    BY <2>3, <2>4
  <2> QED
    BY <2>4, <2>5
<1> QED
  BY <1>2, <1>3

\* No two boxes have the same atom.
LEMMA NumberedApart ==
  ASSUME NEW boxes, IsFiniteSet(DOMAIN boxes), DOMAIN boxes \subseteq Labels,
         \A l \in DOMAIN boxes : Len(boxes[l]) \in Nat /\ DOMAIN boxes[l] = 1..Len(boxes[l])
  PROVE  /\ \A k \in DOMAIN Numbered(boxes) : k[1] \in DOMAIN boxes /\ k[2] \in DOMAIN boxes[k[1]]
         /\ \A l \in DOMAIN boxes : \A i \in DOMAIN boxes[l] : <<l, i>> \in DOMAIN Numbered(boxes)
         /\ \A k \in DOMAIN Numbered(boxes) : Numbered(boxes)[k] \in {"p"} \X Nat
         /\ \A j, k \in DOMAIN Numbered(boxes) :
              Numbered(boxes)[j] = Numbered(boxes)[k] => j = k
<1> DEFINE order == Listed(DOMAIN boxes)
           n == Cardinality(DOMAIN boxes)
           before == CHOOSE f : Offsets(f, boxes, order)
           place(l) == CHOOSE i \in DOMAIN order : order[i] = l
           Places == UNION {{l} \X DOMAIN boxes[l] : l \in DOMAIN boxes}
           number(k) == before[place(k[1])] + k[2] - 1
<1>1. /\ n \in Nat /\ DOMAIN order = 1..n
      /\ \A i \in 1..n : order[i] \in DOMAIN boxes
      /\ \A i, j \in 1..n : order[i] = order[j] => i = j
      /\ \A l \in DOMAIN boxes : \E i \in 1..n : order[i] = l
  BY ListedLists DEF Lists
<1>2. Numbered(boxes) = [k \in Places |-> <<"p", number(k)>>]
  BY DEF Numbered, Offsets, generate_fresh_atom
<1> HIDE DEF order, n
<1>3. \A i \in 1..n : Len(boxes[order[i]]) \in Nat
  BY <1>1
<1>4. Offsets(before, boxes, order)
  BY <1>1, <1>3, OffsetsExist
<1> HIDE DEF before
<1>5. /\ \A i \in 1..n : before[i] \in Nat
      /\ \A i, j \in 1..n : i < j => before[i] + Len(boxes[order[i]]) <= before[j]
  BY <1>1, <1>3, <1>4, OffsetsGrow
<1>6. ASSUME NEW k \in Places
      PROVE  /\ k[1] \in DOMAIN boxes /\ k[2] \in 1..Len(boxes[k[1]]) /\ k = <<k[1], k[2]>>
             /\ k[2] \in DOMAIN boxes[k[1]]
             /\ place(k[1]) \in 1..n /\ order[place(k[1])] = k[1]
  <2>1. PICK l \in DOMAIN boxes : k \in {l} \X DOMAIN boxes[l]
    OBVIOUS
  <2>2. k[1] = l /\ k[2] \in DOMAIN boxes[l] /\ k = <<k[1], k[2]>>
    BY <2>1
  <2>3. \E i \in DOMAIN order : order[i] = l
    BY <1>1
  <2> QED
    BY <1>1, <2>2, <2>3
<1> HIDE DEF place
<1>7. ASSUME NEW k \in Places
      PROVE  /\ number(k) \in Nat
             /\ before[place(k[1])] <= number(k)
             /\ number(k) < before[place(k[1])] + Len(boxes[k[1]])
  <2>1. before[place(k[1])] \in Nat /\ k[2] \in 1..Len(boxes[k[1]]) /\ Len(boxes[k[1]]) \in Nat
    BY <1>5, <1>6
  <2> QED
    BY <2>1
<1>8. ASSUME NEW j \in Places, NEW k \in Places, place(j[1]) < place(k[1])
      PROVE  number(j) # number(k)
  <2>1. before[place(j[1])] + Len(boxes[j[1]]) <= before[place(k[1])]
    BY <1>5, <1>6, <1>8
  <2>2. /\ number(j) \in Nat /\ number(k) \in Nat /\ before[place(k[1])] \in Nat
        /\ before[place(j[1])] \in Nat /\ Len(boxes[j[1]]) \in Nat
        /\ before[place(k[1])] <= number(k)
        /\ number(j) < before[place(j[1])] + Len(boxes[j[1]])
    BY <1>5, <1>6, <1>7
  <2> HIDE DEF number
  <2> QED
    BY <2>1, <2>2
<1>9. ASSUME NEW j \in Places, NEW k \in Places, number(j) = number(k)
      PROVE  j = k
  <2>1. place(j[1]) = place(k[1])
    <3>1. place(j[1]) \in Nat /\ place(k[1]) \in Nat
      BY <1>1, <1>6
    <3> HIDE DEF number
    <3> QED
      BY <1>8, <1>9, <3>1
  <2>2. j[1] = k[1]
    BY <1>6, <2>1
  <2>3. j[2] \in Nat /\ k[2] \in Nat /\ before[place(j[1])] \in Nat
    BY <1>5, <1>6
  <2>4. j[2] = k[2]
    BY <1>9, <2>2, <2>3
  <2> QED
    BY <1>6, <2>2, <2>4
<1>10. \A l \in DOMAIN boxes : \A i \in DOMAIN boxes[l] : <<l, i>> \in Places
  OBVIOUS
<1>11. \A k \in Places : <<"p", number(k)>> \in {"p"} \X Nat
  BY <1>7
<1> HIDE DEF Places, number
<1> QED
  BY <1>2, <1>6, <1>9, <1>10, <1>11

-----------------------------------------------------------------------------
(* The tables.                                                             *)

\* Nothing is collected while a condition is critical.
NoneCritical ==
  \A n \in Nodes : \A conj \in Dnf(n) : \A v \in DOMAIN conj : ~ IsCritical(conj[v])

\* The tables are those of the query.
Filled ==
  /\ NoneCritical
  /\ trees = [l \in Collected |-> Tree(l)]
  /\ interval_map = [l \in Collected |-> Boxes(Tree(l))]
  /\ clause_to_atomization_map = Numbered(interval_map)

\* The tables are empty until they are filled, and the answers are the atoms of
\* the nodes.
TablesInv ==
  /\ phase \in {"building", "refused", "collected", "atomised", "thrown"}
  /\ phase \in {"building", "refused"} => interval_map = <<>> /\ clause_to_atomization_map = <<>>
  /\ phase \in {"collected", "atomised", "thrown"} => Filled
  /\ phase = "atomised" => /\ \A n \in Nodes : ~ LooksUpNoLabel(n)
                           /\ result = [n \in Nodes |-> AtomsOf(n)]

\* What is collected depends on the conditions only.
LEMMA SameTables ==
  ASSUME model' = model
  PROVE  /\ NoneCritical' <=> NoneCritical
         /\ Collected' = Collected
         /\ \A l \in Labels : Tree(l)' = Tree(l)
         /\ \A n \in Nodes : LooksUpNoLabel(n)' <=> LooksUpNoLabel(n)
<1>1. \A n \in Nodes : Dnf(n)' = Dnf(n)
  BY DEF Dnf
<1>2. \A l \in Labels : \A v \in Vars : BulkMap(l, v)' = BulkMap(l, v)
  BY <1>1 DEF BulkMap
<1>3. NoneCritical' <=> NoneCritical
  BY <1>1 DEF NoneCritical
<1>4. Collected' = Collected
  BY <1>2 DEF Collected
<1>5. \A l \in Labels : Tree(l)' = Tree(l)
  BY <1>2 DEF Tree
<1>6. \A n \in Nodes : LooksUpNoLabel(n)' <=> LooksUpNoLabel(n)
  BY <1>1 DEF LooksUpNoLabel
<1> QED
  BY <1>3, <1>4, <1>5, <1>6

\* So are the tables that were filled for them.
LEMMA StaysFilled ==
  ASSUME Filled, model' = model, trees' = trees, interval_map' = interval_map,
         clause_to_atomization_map' = clause_to_atomization_map
  PROVE  Filled'
<1>1. Collected \subseteq Labels
  BY DEF Collected
<1>2. [l \in Collected |-> Tree(l)]' = [l \in Collected |-> Tree(l)]
  BY <1>1, SameTables
<1>3. [l \in Collected |-> Boxes(Tree(l))]' = [l \in Collected |-> Boxes(Tree(l))]
  BY <1>1, SameTables
<1> QED
  BY <1>2, <1>3, SameTables DEF Filled

\* The answers depend on the conditions and the tables only.
LEMMA SameAnswers ==
  ASSUME model' = model, trees' = trees, interval_map' = interval_map,
         clause_to_atomization_map' = clause_to_atomization_map
  PROVE  \A n \in Nodes : AtomsOf(n)' = AtomsOf(n)
<1>1. \A n \in Nodes : Dnf(n)' = Dnf(n)
  BY DEF Dnf
<1>2. \A l : atom_decomposition(l)' = atom_decomposition(l)
  BY DEF atom_decomposition
<1>3. \A l, v, p : interval_decomposition(l, v, p)' = interval_decomposition(l, v, p)
  BY DEF interval_decomposition, Mcal
<1>4. \A l, conj : atomize_conjunction(l, conj)' = atomize_conjunction(l, conj)
  BY <1>3 DEF atomize_conjunction
<1>5. \A n \in Nodes : atomize_disjunction(n)' = atomize_disjunction(n)
  BY <1>1, <1>4 DEF atomize_disjunction
<1> QED
  BY <1>1, <1>2, <1>5 DEF AtomsOf

\* The tables are empty at first.
LEMMA InitTablesInv == Init => TablesInv
BY DEF Init, TablesInv

\* collect_data fills them, atomize_model answers from them, clear empties them.
LEMMA NextTablesInv == TablesInv /\ [Next]_vars => TablesInv'
<1> SUFFICES ASSUME TablesInv, [Next]_vars PROVE TablesInv'
  OBVIOUS
<1>1. CASE \E n \in Nodes, v \in Vars : \E c \in Conjunctions(n), p \in Written[n][v] :
              addCondition(n, c, v, p)
  BY <1>1 DEF TablesInv, addCondition, tables
<1>2. CASE collect_data
  <2>1. /\ phase = "building" /\ phase' = "collected" /\ model' = model
        /\ NoneCritical
        /\ trees' = [l \in Collected |-> Tree(l)]
        /\ interval_map' = [l \in Collected |-> Boxes(Tree(l))]
        /\ clause_to_atomization_map' = Numbered(interval_map')
    BY <1>2 DEF collect_data, NoneCritical, query
  <2>2. Collected \subseteq Labels
    BY DEF Collected
  <2>3. [l \in Collected |-> Tree(l)]' = [l \in Collected |-> Tree(l)]
    BY <2>1, <2>2, SameTables
  <2>4. [l \in Collected |-> Boxes(Tree(l))]' = [l \in Collected |-> Boxes(Tree(l))]
    BY <2>1, <2>2, SameTables
  <2>5. Filled'
    BY <2>1, <2>3, <2>4, SameTables DEF Filled
  <2> QED
    BY <2>1, <2>5 DEF TablesInv
<1>3. CASE atomize_model
  <2>1. /\ phase = "collected" /\ phase' = "atomised" /\ model' = model
        /\ trees' = trees /\ interval_map' = interval_map
        /\ clause_to_atomization_map' = clause_to_atomization_map
        /\ \A n \in Nodes : ~ LooksUpNoLabel(n)
        /\ result' = [n \in Nodes |-> AtomsOf(n)]
    BY <1>3 DEF atomize_model, query, tables
  <2>2. Filled'
    BY <2>1, StaysFilled DEF TablesInv
  <2>3. \A n \in Nodes : AtomsOf(n)' = AtomsOf(n)
    BY <2>1, SameAnswers
  <2>4. result' = [n \in Nodes |-> AtomsOf(n)]'
    BY <2>1, <2>3
  <2> QED
    BY <2>1, <2>2, <2>4, SameTables DEF TablesInv
<1>4. CASE atomize_throws
  <2>1. /\ phase = "collected" /\ phase' = "thrown" /\ model' = model
        /\ trees' = trees /\ interval_map' = interval_map
        /\ clause_to_atomization_map' = clause_to_atomization_map
    BY <1>4 DEF atomize_throws, query, tables
  <2> QED
    BY <2>1, StaysFilled DEF TablesInv
<1>5. CASE clear
  BY <1>5 DEF TablesInv, clear
<1>6. CASE UNCHANGED vars
  <2>1. /\ phase' = phase /\ model' = model /\ result' = result
        /\ trees' = trees /\ interval_map' = interval_map
        /\ clause_to_atomization_map' = clause_to_atomization_map
    BY <1>6 DEF vars, query, tables
  <2>2. Filled => Filled'
    BY <2>1, StaysFilled
  <2>3. [n \in Nodes |-> AtomsOf(n)]' = [n \in Nodes |-> AtomsOf(n)]
    BY <2>1, SameAnswers
  <2> QED
    BY <2>1, <2>2, <2>3, SameTables DEF TablesInv
<1> QED
  BY <1>1, <1>2, <1>3, <1>4, <1>5, <1>6 DEF Next

-----------------------------------------------------------------------------
(* The boxes of the query.                                                 *)

\* The conditions hold what was asked, and the tables are those of the conditions.
CollectedInv == QueryInv /\ TablesInv

\* They are so in every state.
LEMMA TablesAreRight == Spec => []CollectedInv
<1>1. Init => CollectedInv
  BY InitQueryInv, InitTablesInv DEF CollectedInv
<1>2. CollectedInv /\ [Next]_vars => CollectedInv'
  BY NextQueryInv, NextTablesInv DEF CollectedInv
<1> QED
  BY <1>1, <1>2, PTL DEF Spec

\* The conditions of a node when the tables are filled: its conjunctions are those
\* that were asked, and each condition is within its type.
LEMMA ConditionsOfNode ==
  ASSUME QueryInv, NoneCritical, NEW n \in Nodes
  PROVE  /\ \A conj \in Dnf(n) :
              \E c \in Conjunctions(n) : conj = model[n][c] /\ DOMAIN asked[n][c] # {}
         /\ \A c \in Conjunctions(n) : DOMAIN asked[n][c] # {} => model[n][c] \in Dnf(n)
         /\ \A c \in Conjunctions(n) : \A v \in DOMAIN asked[n][c] :
              /\ v \in Vars /\ v \in DOMAIN model[n][c]
              /\ Formed(model[n][c][v], TypeOf[v])
              /\ Holds(model[n][c][v], asked[n][c][v], TypeOf[v])
<1>1. /\ model = [m \in Nodes |-> [c \in Conjunctions(m) |-> model[m][c]]]
      /\ \A c \in Conjunctions(n) : /\ DOMAIN asked[n][c] = DOMAIN model[n][c]
                                    /\ DOMAIN asked[n][c] \subseteq Vars
      /\ \A c \in Conjunctions(n) : \A v \in DOMAIN asked[n][c] :
            Holds(model[n][c][v], asked[n][c][v], TypeOf[v])
  BY DEF QueryInv, Query, PerConjunction
<1>2. DOMAIN model[n] = Conjunctions(n)
  BY <1>1
<1>3. Dnf(n) = {conj \in {model[n][c] : c \in Conjunctions(n)} : DOMAIN conj # {}}
  BY <1>2 DEF Dnf, Range
<1>4. \A c \in Conjunctions(n) : DOMAIN asked[n][c] # {} => model[n][c] \in Dnf(n)
  BY <1>1, <1>3
<1>5. ASSUME NEW c \in Conjunctions(n), NEW v \in DOMAIN asked[n][c]
      PROVE  Formed(model[n][c][v], TypeOf[v])
  <2>1. ~ IsCritical(model[n][c][v])
    BY <1>1, <1>4 DEF NoneCritical
  <2>2. TypeOf[v] \in Types
    BY <1>1, AtomisationAssumption DEF Types
  <2> QED
    BY <1>1, <2>1, <2>2, UncriticalIsFormed
<1> QED
  BY <1>1, <1>3, <1>4, <1>5

\* What is collected for a property of a label is within the type.
LEMMA CollectedWithin ==
  ASSUME QueryInv, NoneCritical, NEW l, NEW v \in Vars
  PROVE  BulkMap(l, v) \subseteq Bounded(TypeOf[v]) \X Bounded(TypeOf[v])
<1> SUFFICES ASSUME NEW n \in Nodes, NEW conj \in Dnf(n), v \in DOMAIN conj,
                    conj[v].casusu # "TTRUE"
             PROVE  decompose_single_variable_into_intervals(conj[v])
                      \subseteq Bounded(TypeOf[v]) \X Bounded(TypeOf[v])
  BY DEF BulkMap
<1>1. Formed(conj[v], TypeOf[v])
  <2>1. PICK c \in Conjunctions(n) : conj = model[n][c] /\ DOMAIN asked[n][c] # {}
    BY ConditionsOfNode
  <2>2. DOMAIN model[n][c] = DOMAIN asked[n][c]
    BY DEF QueryInv, Query
  <2> QED
    BY <2>1, <2>2, ConditionsOfNode
<1>2. TypeOf[v] \in Types
  BY AtomisationAssumption DEF Types
<1> QED
  BY <1>1, <1>2, DecompositionCovers

\* What is collected for a tested condition of a node is there under its label.
LEMMA CollectedOf ==
  ASSUME QueryInv, NoneCritical, NEW n \in Nodes, NEW conj \in Dnf(n), NEW v \in DOMAIN conj,
         conj[v].casusu # "TTRUE", PredLabel[n] # ""
  PROVE  /\ v \in Vars /\ PredLabel[n] \in Collected /\ v \in DOMAIN Tree(PredLabel[n])
         /\ decompose_single_variable_into_intervals(conj[v]) \subseteq BulkMap(PredLabel[n], v)
<1> DEFINE l == PredLabel[n]
<1>1. l \in Labels /\ l \in CollectedFor(n)
  BY AtomisationAssumption DEF CollectedFor
<1>2. PICK c \in Conjunctions(n) : conj = model[n][c] /\ DOMAIN asked[n][c] # {}
  BY ConditionsOfNode
<1>3. v \in DOMAIN asked[n][c]
  BY <1>2 DEF QueryInv, Query
<1>4. v \in Vars /\ Formed(conj[v], TypeOf[v])
  BY <1>2, <1>3, ConditionsOfNode
<1>5. decompose_single_variable_into_intervals(conj[v]) # {}
  <2>1. TypeOf[v] \in Types
    BY <1>4, AtomisationAssumption DEF Types
  <2> QED
    BY <1>4, <2>1, DecompositionCovers
<1> HIDE DEF l
<1>6. decompose_single_variable_into_intervals(conj[v]) \subseteq BulkMap(l, v)
  BY <1>1 DEF BulkMap
<1>7. BulkMap(l, v) # {}
  BY <1>5, <1>6
<1> QED
  BY <1>1, <1>4, <1>6, <1>7 DEF Collected, Tree, l

\* The elementary intervals of a label divide the values of each property, and
\* none crosses an end of what was collected.
LEMMA TreeDivides ==
  ASSUME QueryInv, NoneCritical, NEW l
  PROVE  /\ Divides(Tree(l))
         /\ \A v \in DOMAIN Tree(l) : \A r \in BulkMap(l, v) :
              \A i \in findInterval(Tree(l)[v], r[1], r[2]) :
                \A x \in Bounded(TypeOf[v]) : Lies(x, i) => Lies(x, r)
<1>1. DOMAIN Tree(l) = {v \in Vars : BulkMap(l, v) # {}}
  BY DEF Tree
<1>2. \A v \in DOMAIN Tree(l) : Tree(l)[v] = Elementary(TypeOf[v], BulkMap(l, v))
  BY DEF Tree
<1>3. \A v \in DOMAIN Tree(l) :
        TypeOf[v] \in Types /\ BulkMap(l, v) \in SUBSET (Bounded(TypeOf[v]) \X Bounded(TypeOf[v]))
  BY <1>1, CollectedWithin, AtomisationAssumption DEF Types
<1>4. ASSUME NEW v \in DOMAIN Tree(l)
      PROVE  /\ Tree(l)[v] \subseteq Bounded(TypeOf[v]) \X Bounded(TypeOf[v])
             /\ \A x \in Bounded(TypeOf[v]) : \E i \in Tree(l)[v] : Lies(x, i)
             /\ \A x \in Bounded(TypeOf[v]) : \A i, j \in Tree(l)[v] :
                  Lies(x, i) /\ Lies(x, j) => i = j
             /\ \A r \in BulkMap(l, v) : \A i \in findInterval(Tree(l)[v], r[1], r[2]) :
                  \A x \in Bounded(TypeOf[v]) : Lies(x, i) => Lies(x, r)
  BY <1>2, <1>3, ElementaryDivides
<1> QED
  BY <1>1, <1>4 DEF Divides

\* The boxes of the labels and their atoms, once the tables are filled.
LEMMA FilledTables ==
  ASSUME QueryInv, Filled
  PROVE  /\ DOMAIN interval_map = Collected /\ Collected \subseteq Labels
         /\ \A l \in Collected :
              /\ trees[l] = Tree(l) /\ interval_map[l] = Boxes(Tree(l)) /\ Divides(Tree(l))
              /\ DOMAIN interval_map[l] = 1..Len(interval_map[l]) /\ Len(interval_map[l]) \in Nat
              /\ \A i \in DOMAIN interval_map[l] : interval_map[l][i] \in BoxesOf(Tree(l))
         /\ \A k \in DOMAIN clause_to_atomization_map :
              /\ k[1] \in Collected /\ k[2] \in DOMAIN interval_map[k[1]]
              /\ clause_to_atomization_map[k] \in {"p"} \X Nat
         /\ \A l \in Collected : \A i \in DOMAIN interval_map[l] :
              <<l, i>> \in DOMAIN clause_to_atomization_map
         /\ \A j, k \in DOMAIN clause_to_atomization_map :
              clause_to_atomization_map[j] = clause_to_atomization_map[k] => j = k
<1>1. DOMAIN interval_map = Collected /\ Collected \subseteq Labels
  BY DEF Filled, Collected
<1>2. ASSUME NEW l \in Collected
      PROVE  /\ trees[l] = Tree(l) /\ interval_map[l] = Boxes(Tree(l)) /\ Divides(Tree(l))
             /\ DOMAIN interval_map[l] = 1..Len(interval_map[l]) /\ Len(interval_map[l]) \in Nat
             /\ \A i \in DOMAIN interval_map[l] : interval_map[l][i] \in BoxesOf(Tree(l))
  <2>1. trees[l] = Tree(l) /\ interval_map[l] = Boxes(Tree(l))
    BY DEF Filled
  <2>2. Divides(Tree(l))
    BY TreeDivides DEF Filled
  <2>3. Boxes(Tree(l)) = Listed(BoxesOf(Tree(l)))
    BY DEF Boxes, BoxesOf
  <2>4. Lists(Boxes(Tree(l)), BoxesOf(Tree(l)), Cardinality(BoxesOf(Tree(l))))
    BY <2>2, <2>3, BoxesAreFinite, ListedLists
  <2> QED
    BY <2>1, <2>2, <2>4 DEF Lists
<1>3. IsFiniteSet(DOMAIN interval_map)
  BY <1>1, AtomisationAssumption, FS_Subset
<1> QED
  BY <1>1, <1>2, <1>3, NumberedApart DEF Filled

\* Every object lies in exactly one box of its label, and no two boxes share
\* their atom.
THEOREM AtomsArePieces == Spec => []AtomsPartition
<1>1. CollectedInv => AtomsPartition
  <2> SUFFICES ASSUME QueryInv, TablesInv PROVE AtomsPartition
    BY DEF CollectedInv
  <2>1. CASE phase \in {"building", "refused"}
    <3>1. interval_map = <<>> /\ clause_to_atomization_map = <<>>
      BY <2>1 DEF TablesInv
    <3>2. DOMAIN <<>> = {}
      OBVIOUS
    <3> QED
      BY <3>1, <3>2 DEF AtomsPartition
  <2>2. CASE Filled
    <3>1. ASSUME NEW l \in DOMAIN interval_map, NEW w \in Objects
          PROVE  Cardinality({i \in DOMAIN interval_map[l] : InBox(w, interval_map[l][i])}) = 1
      <4>1. /\ \E i \in DOMAIN interval_map[l] : InBox(w, interval_map[l][i])
            /\ \A i, j \in DOMAIN interval_map[l] :
                 InBox(w, interval_map[l][i]) /\ InBox(w, interval_map[l][j]) => i = j
        BY <2>2, FilledTables, OneBox
      <4>2. PICK i \in DOMAIN interval_map[l] : InBox(w, interval_map[l][i])
        BY <4>1
      <4>3. {j \in DOMAIN interval_map[l] : InBox(w, interval_map[l][j])} = {i}
        BY <4>1, <4>2
      <4> QED
        BY <4>3, FS_Singleton
    <3> QED
      BY <2>2, <3>1, FilledTables DEF AtomsPartition
  <2> QED
    BY <2>1, <2>2 DEF TablesInv
<1> QED
  BY <1>1, TablesAreRight, PTL

-----------------------------------------------------------------------------
(* The answers.                                                            *)

\* The atom of an object of a label is one of the label's atoms.
LEMMA AtomsOfLabel ==
  ASSUME NEW l, NEW w
  PROVE  AtomsOfObject(l, w) \subseteq atom_decomposition(l)
BY DEF AtomsOfObject, atom_decomposition

\* No two labels share an atom, unless a label is called like one.
LEMMA LabelsApart ==
  ASSUME QueryInv, Filled, LabelsAreNoAtoms, NEW l \in Labels, NEW m \in Labels,
         NEW atom \in atom_decomposition(l), atom \in atom_decomposition(m)
  PROVE  l = m
<1>1. /\ DOMAIN interval_map = Collected
      /\ \A k \in Collected : \A i \in DOMAIN interval_map[k] :
           /\ <<k, i>> \in DOMAIN clause_to_atomization_map
           /\ clause_to_atomization_map[<<k, i>>] \notin Labels
      /\ \A j, k \in DOMAIN clause_to_atomization_map :
           clause_to_atomization_map[j] = clause_to_atomization_map[k] => j = k
  BY FilledTables DEF LabelsAreNoAtoms
<1>2. ASSUME NEW k \in Labels, atom \in atom_decomposition(k)
      PROVE  \/ k \notin Collected /\ atom = k /\ atom \in Labels
             \/ k \in Collected /\ atom \notin Labels
                  /\ \E i \in DOMAIN interval_map[k] : atom = clause_to_atomization_map[<<k, i>>]
  <2>1. CASE k \notin Collected
    <3>1. atom_decomposition(k) = {k}
      BY <1>1, <2>1 DEF atom_decomposition
    <3> QED
      BY <1>2, <2>1, <3>1
  <2>2. CASE k \in Collected
    <3>1. atom_decomposition(k) = {clause_to_atomization_map[<<k, i>>] : i \in DOMAIN interval_map[k]}
      BY <1>1, <2>2 DEF atom_decomposition
    <3>2. PICK i \in DOMAIN interval_map[k] : atom = clause_to_atomization_map[<<k, i>>]
      BY <1>2, <3>1
    <3> QED
      BY <1>1, <2>2, <3>2
  <2> QED
    BY <2>1, <2>2
<1>3. CASE l \in Collected /\ m \in Collected
  <2>1. PICK i \in DOMAIN interval_map[l] : atom = clause_to_atomization_map[<<l, i>>]
    BY <1>2, <1>3
  <2>2. PICK j \in DOMAIN interval_map[m] : atom = clause_to_atomization_map[<<m, j>>]
    BY <1>2, <1>3
  <2>3. <<l, i>> = <<m, j>>
    BY <1>1, <1>3, <2>1, <2>2
  <2> QED
    BY <2>3
<1> QED
  BY <1>2, <1>3

\* The atom of an object with a meaning of a condition is among those of the
\* condition, even after asInterval.
LEMMA AtomIsFound ==
  ASSUME QueryInv, Filled, NEW n \in Nodes, PredLabel[n] # "",
         NEW conj \in Dnf(n), NEW v \in DOMAIN conj, conj[v].casusu # "TTRUE",
         Formed(conj[v], TypeOf[v]),
         NEW w \in Objects, Meant(conj[v], w[v]),
         NEW atom \in AtomsOfObject(PredLabel[n], w)
  PROVE  atom \in interval_decomposition(PredLabel[n], v, asInterval(conj[v]))
<1> DEFINE l == PredLabel[n]
           p == asInterval(conj[v])
           type == TypeOf[v]
<1>1. /\ v \in Vars /\ l \in Collected /\ v \in DOMAIN Tree(l)
      /\ type \in Types /\ w[v] \in Bounded(type)
  BY CollectedOf, AtomisationAssumption DEF Filled, Types, Objects
<1>2. /\ Formed(p, type) /\ p.casusu = "INTERVAL" /\ Meant(p, w[v])
  BY <1>1, AsIntervalKeeps
<1> HIDE DEF l, p, type
<1>3. /\ decompose_single_variable_into_intervals(p) \subseteq Bounded(type) \X Bounded(type)
      /\ \E cp \in decompose_single_variable_into_intervals(p) : Lies(w[v], cp)
  BY <1>1, <1>2, DecompositionCovers
<1>4. PICK cp \in decompose_single_variable_into_intervals(p) : Lies(w[v], cp)
  BY <1>3
<1>5. /\ DOMAIN interval_map = Collected
      /\ trees[l] = Tree(l) /\ Divides(Tree(l))
      /\ \A i \in DOMAIN interval_map[l] : interval_map[l][i] \in BoxesOf(Tree(l))
  BY <1>1, FilledTables
<1>6. PICK i \in DOMAIN interval_map[l] : /\ InBox(w, interval_map[l][i])
                                          /\ atom = clause_to_atomization_map[<<l, i>>]
  BY <1>1, <1>5 DEF AtomsOfObject, l
<1> DEFINE part == interval_map[l][i][v]
<1>7. part \in trees[l][v] /\ Lies(w[v], part) /\ part \in Bounded(type) \X Bounded(type)
  <2>1. interval_map[l][i] \in BoxesOf(Tree(l))
    BY <1>5
  <2>2. DOMAIN interval_map[l][i] = DOMAIN Tree(l) /\ part \in Tree(l)[v]
    BY <1>1, <2>1 DEF BoxesOf
  <2>3. Lies(w[v], part)
    BY <1>1, <1>6, <2>2 DEF InBox, Lies
  <2> QED
    BY <1>1, <1>5, <2>2, <2>3 DEF Divides, type
<1>8. atom \in Mcal(l, v, part)
  BY <1>6 DEF Mcal
<1> HIDE DEF part
<1>9. part \in findInterval(trees[l][v], cp[1], cp[2])
  <2>1. /\ cp[1] \in Bounded(type) /\ cp[2] \in Bounded(type)
        /\ part[1] \in Bounded(type) /\ part[2] \in Bounded(type)
    BY <1>3, <1>7
  <2>2. /\ AtMost(cp[1], w[v]) /\ AtMost(w[v], cp[2])
        /\ AtMost(part[1], w[v]) /\ AtMost(w[v], part[2])
    BY <1>4, <1>7 DEF Lies
  <2>3. AtMost(cp[1], part[2]) /\ AtMost(part[1], cp[2])
    <3>1. \A a, b, c \in Bounded(type) : AtMost(a, b) /\ AtMost(b, c) => AtMost(a, c)
      BY <1>1, AtMostPasses
    <3> QED
      BY <1>1, <2>1, <2>2, <3>1
  <2> QED
    BY <1>7, <2>3 DEF findInterval
<1>10. atom \in interval_decomposition(l, v, p)
  BY <1>8, <1>9 DEF interval_decomposition
<1> QED
  BY <1>10 DEF l, p

\* No object that a node asks for is lost.
THEOREM MatchesAreKept == Spec => []NoMatchIsLost
<1>1. CollectedInv => NoMatchIsLost
  <2> SUFFICES ASSUME QueryInv, TablesInv, phase = "atomised", NEW n \in Nodes,
                      \A conj \in Dnf(n) :
                         ~ Vacuous(conj) /\ \A v \in DOMAIN conj : ~ NeverBounded(conj[v]),
                      NEW l \in Labels, NEW w \in Objects, AsksFor(n, l, w),
                      NEW atom \in AtomsOfObject(l, w)
               PROVE  atom \in result[n]
    BY DEF CollectedInv, NoMatchIsLost
  <2>1. Filled /\ NoneCritical /\ ~ LooksUpNoLabel(n) /\ result[n] = AtomsOf(n)
    BY DEF TablesInv, Filled
  <2> DEFINE left == IF NodeLabel[n] = "" THEN UNION {atom_decomposition(m) : m \in Labels}
                     ELSE atom_decomposition(NodeLabel[n])
  <2>2. atom \in left
    <3>1. atom \in atom_decomposition(l)
      BY AtomsOfLabel
    <3> QED
      BY <3>1 DEF AsksFor
  <2>3. ASSUME Dnf(n) # {}
        PROVE  atom \in atomize_disjunction(n)
    <3>1. PICK c \in Conjunctions(n) :
             /\ DOMAIN asked[n][c] # {}
             /\ PredLabel[n] \in {"", l}
             /\ \A v \in DOMAIN asked[n][c] : Admits(asked[n][c][v], w[v])
      BY <2>3 DEF AsksFor
    <3> DEFINE conj == model[n][c]
               tested == {v \in DOMAIN conj : conj[v].casusu # "TTRUE"}
    <3>2. conj \in Dnf(n) /\ DOMAIN asked[n][c] = DOMAIN conj
      BY <2>1, <3>1, ConditionsOfNode DEF QueryInv, Query
    <3>3. tested # {}
      BY <3>2 DEF Vacuous
    <3>4. PredLabel[n] # "" /\ PredLabel[n] = l
      BY <2>1, <3>1, <3>2, <3>3 DEF LooksUpNoLabel
    <3>5. ASSUME NEW v \in tested
          PROVE  atom \in interval_decomposition(l, v, asInterval(conj[v]))
      <4>1. /\ v \in Vars /\ Formed(conj[v], TypeOf[v])
            /\ Holds(conj[v], asked[n][c][v], TypeOf[v])
        BY <2>1, <3>2, ConditionsOfNode
      <4>2. ~ Unset(conj[v], TypeOf[v])
        BY <3>2 DEF NeverBounded, Unset
      <4>3. w[v] \in Bounded(TypeOf[v])
        BY <4>1 DEF Objects
      <4>4. Meant(conj[v], w[v])
        BY <3>1, <3>2, <4>1, <4>2, <4>3 DEF Holds
      <4> HIDE DEF conj
      <4> QED
        BY <2>1, <3>2, <3>4, <4>1, <4>4, AtomIsFound
    <3>6. atom \in atomize_conjunction(l, conj)
      <4> HIDE DEF conj
      <4> QED
        BY <3>3, <3>5 DEF atomize_conjunction
    <3> QED
      BY <3>2, <3>4, <3>6 DEF atomize_disjunction
  <2> QED
    BY <2>1, <2>2, <2>3 DEF AtomsOf
<1> QED
  BY <1>1, TablesAreRight, PTL

\* An atom of a condition that is one interval is the atom of objects that the
\* condition means.
LEMMA AtomIsMeant ==
  ASSUME QueryInv, Filled, NEW n \in Nodes, PredLabel[n] # "",
         NEW conj \in Dnf(n), NEW v \in DOMAIN conj, conj[v].casusu \notin {"TTRUE", "NEQ"},
         Formed(conj[v], TypeOf[v]), Plain(conj[v]), ~ Beyond(conj[v]),
         NEW w \in Objects, NEW atom \in AtomsOfObject(PredLabel[n], w),
         atom \in interval_decomposition(PredLabel[n], v, asInterval(conj[v]))
  PROVE  Meant(conj[v], w[v])
<1> DEFINE l == PredLabel[n]
           p == asInterval(conj[v])
           type == TypeOf[v]
<1>1. /\ v \in Vars /\ l \in Collected /\ v \in DOMAIN Tree(l)
      /\ type \in Types /\ w[v] \in Bounded(type)
      /\ decompose_single_variable_into_intervals(conj[v]) \subseteq BulkMap(l, v)
  BY CollectedOf, AtomisationAssumption DEF Filled, Types, Objects
<1>2. PICK r \in Bounded(type) \X Bounded(type) :
         /\ decompose_single_variable_into_intervals(conj[v]) = {r}
         /\ decompose_single_variable_into_intervals(p) = {r}
         /\ \A x \in Bounded(type) : Lies(x, r) => Meant(conj[v], x)
  BY <1>1, PlainInterval
<1> HIDE DEF p, type
<1>3. /\ DOMAIN interval_map = Collected
      /\ trees[l] = Tree(l) /\ Divides(Tree(l))
      /\ \A i \in DOMAIN interval_map[l] :
           /\ interval_map[l][i] \in BoxesOf(Tree(l))
           /\ <<l, i>> \in DOMAIN clause_to_atomization_map
      /\ \A j, k \in DOMAIN clause_to_atomization_map :
           clause_to_atomization_map[j] = clause_to_atomization_map[k] => j = k
  BY <1>1, FilledTables
<1>4. PICK i \in DOMAIN interval_map[l] : /\ InBox(w, interval_map[l][i])
                                          /\ atom = clause_to_atomization_map[<<l, i>>]
  BY <1>1, <1>3 DEF AtomsOfObject
<1>5. PICK part \in findInterval(trees[l][v], r[1], r[2]) : atom \in Mcal(l, v, part)
  BY <1>2 DEF interval_decomposition, p
<1>6. PICK j \in DOMAIN interval_map[l] : /\ interval_map[l][j][v] = part
                                          /\ atom = clause_to_atomization_map[<<l, j>>]
  BY <1>5 DEF Mcal
<1>7. i = j
  <2>1. <<l, i>> = <<l, j>>
    BY <1>3, <1>4, <1>6
  <2> QED
    BY <2>1
<1>8. Lies(w[v], part)
  <2>1. interval_map[l][i] \in BoxesOf(Tree(l))
    BY <1>3
  <2>2. v \in DOMAIN interval_map[l][i]
    BY <1>1, <2>1 DEF BoxesOf
  <2> QED
    BY <1>4, <1>6, <1>7, <2>2 DEF InBox, Lies
<1>9. Lies(w[v], r)
  <2>1. r \in BulkMap(l, v)
    BY <1>1, <1>2
  <2> QED
    BY <1>1, <1>3, <1>5, <1>8, <2>1, TreeDivides DEF Filled, type
<1> QED
  BY <1>1, <1>2, <1>9

\* And nothing else is found.
THEOREM AtomsAreExact == Spec => []AtomisationIsExact
<1>1. CollectedInv => AtomisationIsExact
  <2> SUFFICES ASSUME QueryInv, TablesInv, phase = "atomised", LabelsAreNoAtoms, NEW n \in Nodes,
                      ~ AsksBeyond(n),
                      \A conj \in Dnf(n) : ~ Vacuous(conj) /\ ~ Inequation(conj),
                      NEW l \in Labels, NEW w \in Objects,
                      NEW atom \in AtomsOfObject(l, w), atom \in result[n]
               PROVE  AsksFor(n, l, w)
    BY DEF CollectedInv, AtomisationIsExact
  <2>1. Filled /\ NoneCritical /\ ~ LooksUpNoLabel(n) /\ result[n] = AtomsOf(n)
    BY DEF TablesInv, Filled
  <2>2. NodeLabel[n] \in {"", l}
    <3> SUFFICES ASSUME NodeLabel[n] # "" PROVE NodeLabel[n] = l
      OBVIOUS
    <3>1. NodeLabel[n] \in Labels
      BY AtomisationAssumption
    <3>2. atom \in atom_decomposition(NodeLabel[n]) /\ atom \in atom_decomposition(l)
      BY <2>1, AtomsOfLabel DEF AtomsOf
    <3> QED
      BY <2>1, <3>1, <3>2, LabelsApart
  <2>3. ASSUME Dnf(n) # {}
        PROVE  \E c \in Conjunctions(n) :
                 /\ DOMAIN asked[n][c] # {}
                 /\ PredLabel[n] \in {"", l}
                 /\ \A v \in DOMAIN asked[n][c] : Admits(asked[n][c][v], w[v])
    <3>1. PICK conj \in Dnf(n) : atom \in atomize_conjunction(PredLabel[n], conj)
      <4>1. atom \in atomize_disjunction(n)
        BY <2>1, <2>3 DEF AtomsOf
      <4> QED
        BY <4>1 DEF atomize_disjunction
    <3>2. PICK c \in Conjunctions(n) : conj = model[n][c] /\ DOMAIN asked[n][c] # {}
      BY <2>1, ConditionsOfNode
    <3>3. DOMAIN asked[n][c] = DOMAIN conj
      BY <3>2 DEF QueryInv, Query
    <3> DEFINE tested == {v \in DOMAIN conj : conj[v].casusu # "TTRUE"}
    <3>4. \A v \in tested : atom \in interval_decomposition(PredLabel[n], v, asInterval(conj[v]))
      BY <3>1 DEF atomize_conjunction
    <3>5. PICK u \in tested : TRUE
      BY DEF Vacuous
    <3>6. PredLabel[n] # "" /\ PredLabel[n] \in Labels
      BY <2>1, <3>5, AtomisationAssumption DEF LooksUpNoLabel
    <3>7. PredLabel[n] = l
      <4>1. PredLabel[n] \in Collected
        BY <2>1, <3>5, <3>6, CollectedOf
      <4>2. atom \in atom_decomposition(PredLabel[n])
        <5>1. PICK i \in DOMAIN interval_map[PredLabel[n]] :
                 atom = clause_to_atomization_map[<<PredLabel[n], i>>]
          BY <3>4, <3>5 DEF interval_decomposition, Mcal
        <5>2. PredLabel[n] \in DOMAIN interval_map
          BY <2>1, <4>1 DEF Filled
        <5> QED
          BY <5>1, <5>2 DEF atom_decomposition
      <4>3. atom \in atom_decomposition(l)
        BY AtomsOfLabel
      <4> QED
        BY <2>1, <3>6, <4>2, <4>3, LabelsApart
    <3>8. ASSUME NEW v \in DOMAIN asked[n][c]
          PROVE  Admits(asked[n][c][v], w[v])
      <4>1. /\ v \in Vars /\ v \in DOMAIN conj /\ Formed(conj[v], TypeOf[v])
            /\ Holds(conj[v], asked[n][c][v], TypeOf[v])
        BY <2>1, <3>2, ConditionsOfNode
      <4>2. Plain(conj[v]) /\ conj[v].casusu # "NEQ"
        BY <4>1 DEF Inequation
      <4>3. ~ Unset(conj[v], TypeOf[v])
        BY <4>2 DEF Plain, Unset
      <4>4. \A q \in asked[n][c][v] : ~ Beyond(q)
        BY DEF AsksBeyond
      <4>5. /\ ~ Beyond(conj[v])
            /\ \A x \in Bounded(TypeOf[v]) : Meant(conj[v], x) => Admits(asked[n][c][v], x)
        BY <4>1, <4>3, <4>4 DEF Holds
      <4>6. w[v] \in Bounded(TypeOf[v])
        BY <4>1 DEF Objects
      <4>7. Meant(conj[v], w[v])
        <5>1. CASE conj[v].casusu = "TTRUE"
          BY <5>1 DEF Meant, testOverSingleVariable
        <5>2. CASE conj[v].casusu # "TTRUE"
          BY <2>1, <3>4, <3>6, <3>7, <4>1, <4>2, <4>5, <5>2, AtomIsMeant
        <5> QED
          BY <5>1, <5>2
      <4> QED
        BY <4>5, <4>6, <4>7
    <3> QED
      BY <3>2, <3>7, <3>8
  <2> QED
    BY <2>2, <2>3 DEF AsksFor
<1> QED
  BY <1>1, TablesAreRight, PTL

=============================================================================
