--------------------------- MODULE Storage_proofs ---------------------------
(***************************************************************************)
(* The storage of the loaded graphs, for all databases.  First its typing  *)
(* and the record identifiers, which run on from table to table            *)
(* (StorageInv); then the objects: their identifiers, the rows of the      *)
(* registry and their links, and the indices of the properties             *)
(* (ObjectsInv).                                                           *)
(***************************************************************************)
EXTENDS Storage, Collections_proofs

-----------------------------------------------------------------------------
(* The inductive invariant.                                                *)

\* The state of loading. Of the registry, that its rows have labels.
Shape ==
  /\ path \in {"parse", "direct"} /\ pc \in Phases
  /\ IsDatabase(db)
  /\ graph \in 1 .. Len(db) + 1 /\ pos \in Nat
  /\ label_map \in Seq(Labels) /\ NoLabel \in Range(label_map)
  /\ builder \in Seq(Seq(Nat \X Nat)) /\ Len(builder) <= Len(label_map)
  /\ registry = [table |-> registry.table, primary |-> registry.primary,
                 secondary |-> registry.secondary, next |-> registry.next, prev |-> registry.prev]
  /\ \A r \in Rows : registry.table[r].l0 \in DOMAIN label_map
  /\ DOMAIN attrs \subseteq Keys

\* A containment table is a list, and it is opened for a row.
Lists ==
  /\ DOMAIN phis \subseteq PhiLabels
  /\ \A l \in DOMAIN phis : IsSeq(phis[l].table) /\ phis[l].table # <<>>

Starts == DOMAIN minRecordToContaimentLabel

\* Where the records of a table end: at the start of what follows.
EndOf(s) == s + Len(phis[minRecordToContaimentLabel[s]].table)

\* The tables that are filed divide the records among them.
Filed ==
  /\ tables_start \in Nat \ {0}
  /\ Starts \subseteq 1 .. tables_start - 1
  /\ \A s \in Starts :
       /\ minRecordToContaimentLabel[s] \in DOMAIN phis
       /\ EndOf(s) <= tables_start
       /\ \A t \in Starts :
            /\ s < t => EndOf(s) <= t
            /\ minRecordToContaimentLabel[s] = minRecordToContaimentLabel[t] => s = t
  /\ \A k \in 1 .. tables_start - 1 : \E s \in Starts : s <= k /\ k < EndOf(s)

\* No table is filed before all are loaded, and all are before the next phase.
FiledWhen ==
  /\ pc \in {"convert", "load"} => Starts = {} /\ registry.table = <<>>
  /\ pc \in {"links", "indexed"} => DOMAIN phis = Range(minRecordToContaimentLabel)

StorageInv == Shape /\ Lists /\ Filed /\ FiledWhen

-----------------------------------------------------------------------------
(* Lists.                                                                  *)

\* Sorting keeps the length of a list.
LEMMA SortedIsList ==
  ASSUME NEW t, IsSeq(t)
  PROVE  IsSeq(Sorted(t)) /\ Len(Sorted(t)) = Len(t)
<1>1. Len(t) \in Nat
  BY DEF IsSeq
<1>2. Sorted(t) = [k \in 1 .. Len(t) |-> Sorted(t)[k]]
  BY DEF Sorted
<1> QED
  BY <1>1, <1>2, FunctionIsList

\* One list after another is a list.
LEMMA ConcatIsList ==
  ASSUME NEW a, NEW b, IsSeq(a), IsSeq(b)
  PROVE  IsSeq(a \o b) /\ Len(a \o b) = Len(a) + Len(b)
<1> DEFINE T == Range(a) \cup Range(b)
<1>1. a \in Seq(T) /\ b \in Seq(T)
  <2>1. a \in Seq(Range(a)) /\ b \in Seq(Range(b)) /\ Range(a) \subseteq T /\ Range(b) \subseteq T
    BY DEF IsSeq
  <2> HIDE DEF T
  <2> QED
    BY <2>1
<1> HIDE DEF T
<1>2. a \o b \in Seq(T) /\ Len(a \o b) = Len(a) + Len(b) /\ Len(a) + Len(b) \in Nat
  BY <1>1
<1> QED
  BY <1>2, ListIsSeq

\* Any order of a finite set is a list of all its elements.
LEMMA AnyOrderLists ==
  ASSUME NEW S, IsFiniteSet(S), NEW q \in SetToSeqs(S)
  PROVE  q \in Seq(S) /\ Range(q) = S
<1> DEFINE n == Cardinality(S)
<1>1. n \in Nat
  BY FS_CardinalityType
<1>2. q \in [1 .. n -> S] /\ \A i, j \in 1 .. n : i # j => q[i] # q[j]
  BY DEF SetToSeqs
<1>3. q \in Injection(1 .. n, S)
  BY <1>2 DEF Injection, IsInjective
<1>4. IsFiniteSet(1 .. n) /\ Cardinality(1 .. n) = n
  BY <1>1, FS_Interval
<1>5. q \in Surjection(1 .. n, S)
  BY <1>3, <1>4, FS_Injection
<1> QED
  BY <1>1, <1>2, <1>5 DEF Surjection, Range

-----------------------------------------------------------------------------
(* The name of a record.                                                   *)

\* The least element of a set of naturals, which Least chooses.
LEMMA LeastIs ==
  ASSUME NEW S \in SUBSET Nat, NEW m \in S, \A x \in S : m <= x
  PROVE  Least(S) = m
<1> DEFINE c == CHOOSE x \in S : \A y \in S : x <= y
<1>1. c \in S /\ \A y \in S : c <= y
  OBVIOUS
<1>2. Least(S) = c
  BY DEF Least
<1> HIDE DEF c
<1> QED
  BY <1>1, <1>2

\* The greatest element of a set of naturals that has one, which Greatest chooses.
LEMMA GreatestIs ==
  ASSUME NEW S \in SUBSET Nat, NEW m \in S, \A x \in S : x <= m
  PROVE  Greatest(S) = m
<1> DEFINE c == CHOOSE x \in S : \A y \in S : y <= x
<1>1. c \in S /\ \A y \in S : y <= c
  OBVIOUS
<1>2. Greatest(S) = c
  BY DEF Greatest
<1> HIDE DEF c
<1> QED
  BY <1>1, <1>2

\* The table of a record is the one whose records it is among.
LEMMA TableOfRecord ==
  ASSUME Lists, Filed, NEW s \in Starts, NEW k \in Nat, s <= k, k < EndOf(s)
  PROVE  tableOf(k) = s
<1> DEFINE above == {t \in Starts : t >= k}
<1>1. Starts \in SUBSET Nat /\ s \in Nat
  BY DEF Filed
<1>2. ASSUME NEW t \in Starts PROVE t > s => t > k
  <2>1. EndOf(s) \in Int
    <3>1. minRecordToContaimentLabel[s] \in DOMAIN phis
      BY DEF Filed
    <3>2. IsSeq(phis[minRecordToContaimentLabel[s]].table)
      BY <3>1 DEF Lists
    <3>3. Len(phis[minRecordToContaimentLabel[s]].table) \in Nat
      BY <3>2 DEF IsSeq
    <3> QED
      BY <1>1, <3>3 DEF EndOf
  <2>2. t > s => EndOf(s) <= t
    BY <1>1 DEF Filed
  <2> QED
    BY <1>1, <2>1, <2>2
<1>3. ASSUME NEW t \in Starts PROVE t <= s \/ t > s
  BY <1>1
<1>4. tableOf(k) = IF above = {} THEN Greatest(Starts)
                   ELSE IF Least(above) > k THEN Greatest({t \in Starts : t < Least(above)})
                   ELSE Least(above)
  BY DEF tableOf, Starts
<1>5. CASE above = {}
  <2>1. \A t \in Starts : t <= s
    BY <1>1, <1>2, <1>3, <1>5
  <2>2. Greatest(Starts) = s
    BY <1>1, <2>1, GreatestIs
  <2> QED
    BY <1>4, <1>5, <2>2
<1>6. CASE above # {}
  <2>1. PICK m \in above : \A t \in above : m <= t
    <3>1. above \in SUBSET Nat
      BY <1>1
    <3> HIDE DEF above
    <3> QED
      BY <1>6, <3>1, LeastNat
  <2>2. m \in Nat
    BY <1>1
  <2>3. Least(above) = m
    <3>1. above \in SUBSET Nat
      BY <1>1
    <3> HIDE DEF above
    <3> QED
      BY <2>1, <3>1, LeastIs
  <2>4. CASE m > k
    <3>1. \A t \in Starts : t < m => t <= s
      BY <1>1, <1>2, <1>3, <2>1, <2>2
    <3>2. s < m
      BY <1>1, <2>2, <2>4
    <3> DEFINE below == {t \in Starts : t < m}
    <3>3. s \in below /\ below \in SUBSET Nat /\ \A t \in below : t <= s
      BY <1>1, <3>1, <3>2
    <3>4. Greatest(below) = s
      <4> HIDE DEF below
      <4> QED
        BY <3>3, GreatestIs
    <3> HIDE DEF above
    <3> QED
      BY <1>4, <1>6, <2>3, <2>4, <3>4
  <2>5. CASE ~(m > k)
    <3>1. m = k
      BY <2>2, <2>5
    <3>2. m = s
      BY <1>1, <1>2, <1>3, <3>1
    <3> HIDE DEF above
    <3> QED
      BY <1>4, <1>6, <2>3, <2>5, <3>2
  <2> QED
    BY <2>4, <2>5
<1> QED
  BY <1>5, <1>6

\* In the tables that are filed, identifiers lead to rows and back.
LEMMA FiledRecords ==
  ASSUME Lists, Filed, DOMAIN phis = Range(minRecordToContaimentLabel), pc = "indexed"
  PROVE  RecordsAreNames
<1>1. ASSUME NEW l \in DOMAIN phis
      PROVE  /\ IsSeq(phis[l].table) /\ DOMAIN phis[l].table = 1 .. Len(phis[l].table)
             /\ Len(phis[l].table) \in Nat
  BY DEF Lists, IsSeq
<1>2. tables_start \in Nat /\ Starts \in SUBSET Nat
  BY DEF Filed
<1>3. ASSUME NEW s \in Starts, NEW i \in DOMAIN phis[minRecordToContaimentLabel[s]].table
      PROVE  /\ recordId(minRecordToContaimentLabel[s], i) = s + i - 1
             /\ s + i - 1 \in Records
             /\ tableOf(s + i - 1) = s
  <2> DEFINE l == minRecordToContaimentLabel[s]
             k == s + i - 1
  <2>1. l \in DOMAIN phis /\ EndOf(s) <= tables_start /\ s \in Nat /\ s >= 1
    BY <1>2 DEF Filed
  <2>2. i \in 1 .. Len(phis[l].table) /\ Len(phis[l].table) \in Nat
    BY <1>1, <2>1
  <2>3. EndOf(s) = s + Len(phis[l].table)
    BY DEF EndOf
  <2>4. \A t \in Starts : minRecordToContaimentLabel[t] = l => t = s
    BY DEF Filed
  <2>5. (CHOOSE t \in DOMAIN minRecordToContaimentLabel : minRecordToContaimentLabel[t] = l) = s
    BY <2>4 DEF Starts
  <2> HIDE DEF l
  <2>6. k \in Nat /\ s <= k /\ k < EndOf(s) /\ k \in 1 .. tables_start - 1
    BY <1>2, <2>1, <2>2, <2>3
  <2>7. tableOf(k) = s
    BY <2>6, TableOfRecord
  <2> QED
    BY <2>5, <2>6, <2>7 DEF recordId, Records, l
<1>4. ASSUME NEW k \in Records
      PROVE  \E i \in DOMAIN phis[findLabelFromID(k)].table :
               /\ recordId(findLabelFromID(k), i) = k
               /\ resolveRecord(k) = phis[findLabelFromID(k)].table[i]
  <2>1. PICK s \in Starts : s <= k /\ k < EndOf(s)
    BY DEF Filed, Records
  <2>2. k \in Nat /\ s \in Nat
    BY <1>2 DEF Records
  <2>3. tableOf(k) = s
    BY <2>1, <2>2, TableOfRecord
  <2> DEFINE l == minRecordToContaimentLabel[s]
             i == k - s + 1
  <2>4. findLabelFromID(k) = l /\ resolveRecord(k) = phis[l].table[i]
    BY <2>3 DEF findLabelFromID, resolveRecord
  <2>5. l \in DOMAIN phis
    BY DEF Filed
  <2>6. i \in DOMAIN phis[l].table
    <3>1. Len(phis[l].table) \in Nat /\ EndOf(s) = s + Len(phis[l].table)
      BY <1>1, <2>5 DEF EndOf
    <3> HIDE DEF l
    <3> QED
      BY <1>1, <2>1, <2>2, <2>5, <3>1
  <2>7. s + i - 1 = k
    BY <2>2
  <2>8. recordId(l, i) = s + i - 1
    <3> HIDE DEF i
    <3> QED
      BY <1>3, <2>6
  <2> HIDE DEF i, l
  <2> QED
    BY <2>4, <2>6, <2>7, <2>8
<1>5. ASSUME NEW l \in DOMAIN phis, NEW i \in DOMAIN phis[l].table
      PROVE  recordId(l, i) \in Records /\ findLabelFromID(recordId(l, i)) = l
  <2>1. PICK s \in Starts : minRecordToContaimentLabel[s] = l
    BY DEF Range, Starts
  <2> QED
    BY <1>3, <2>1 DEF findLabelFromID
<1> QED
  BY <1>4, <1>5 DEF RecordsAreNames

-----------------------------------------------------------------------------
(* The identifiers that are handed over.                                   *)

\* What holds of a graph that is read or handed over, by parts.
LEMMA GraphParts ==
  ASSUME NEW g, IsGraph(g)
  PROVE  /\ DOMAIN g = 1 .. Len(g) /\ Len(g) \in Nat
         /\ \A i \in DOMAIN g :
              /\ g[i].id \in Nat /\ g[i].ell \in Seq(Labels)
              /\ DOMAIN g[i].phi \subseteq PhiLabels
              /\ \A l \in DOMAIN g[i].phi : g[i].phi[l] \in Seq(Nat \X Nat)
              /\ g[i] = [id |-> g[i].id, ell |-> g[i].ell, props |-> g[i].props, phi |-> g[i].phi]
              /\ \E K \in SUBSET Keys : g[i].props \in [K -> Nat]
<1>1. IsSeq(g)
  BY DEF IsGraph
<1>2. DOMAIN g = 1 .. Len(g) /\ Len(g) \in Nat
  BY <1>1 DEF IsSeq
<1>3. ASSUME NEW i \in DOMAIN g
      PROVE  /\ g[i].id \in Nat /\ g[i].ell \in Seq(Labels)
             /\ DOMAIN g[i].phi \subseteq PhiLabels
             /\ \A l \in DOMAIN g[i].phi : g[i].phi[l] \in Seq(Nat \X Nat)
             /\ g[i] = [id |-> g[i].id, ell |-> g[i].ell, props |-> g[i].props, phi |-> g[i].phi]
             /\ \E K \in SUBSET Keys : g[i].props \in [K -> Nat]
  <2>1. PICK K \in SUBSET Keys, L \in SUBSET PhiLabels : g[i] \in gsm_object(K, L)
    BY DEF IsGraph
  <2> QED
    BY <2>1 DEF gsm_object
<1> QED
  BY <1>2, <1>3

\* A place in a list of identifiers, the first of the kind.
LEMMA FirstPlaceIs ==
  ASSUME NEW T, NEW ids \in Seq(T), NEW x \in Range(ids)
  PROVE  /\ FirstPlace(ids, x) \in DOMAIN ids
         /\ ids[FirstPlace(ids, x)] = x
         /\ \A j \in 1 .. FirstPlace(ids, x) - 1 : ids[j] # x
<1> DEFINE at == {i \in DOMAIN ids : ids[i] = x}
<1>1. at \in SUBSET Nat /\ at # {}
  BY DEF Range
<1>2. PICK m \in at : \A i \in at : m <= i
  <2> HIDE DEF at
  <2> QED
    BY <1>1, LeastNat
<1>3. m \in DOMAIN ids /\ ids[m] = x /\ m \in Nat /\ DOMAIN ids = 1 .. Len(ids) /\ Len(ids) \in Nat
  OBVIOUS
<1>4. \A j \in 1 .. m - 1 : ids[j] # x
  <2>1. ASSUME NEW j \in 1 .. m - 1, ids[j] = x PROVE FALSE
    <3>1. j \in at /\ j < m
      BY <1>3, <2>1
    <3> HIDE DEF at
    <3> QED
      BY <1>2, <1>3, <3>1
  <2> QED
    BY <2>1
<1> QED
  BY <1>3, <1>4 DEF FirstPlace

\* The first entries of a list are finitely many.
LEMMA PrefixFinite ==
  ASSUME NEW ids, NEW n \in Nat
  PROVE  IsFiniteSet({ids[j] : j \in 1 .. n})
<1> DEFINE S == {ids[j] : j \in 1 .. n}
           f == [j \in 1 .. n |-> ids[j]]
<1>1. IsFiniteSet(1 .. n)
  BY FS_Interval
<1>2. f \in Surjection(1 .. n, S)
  BY DEF Surjection
<1> HIDE DEF f, S
<1>3. IsFiniteSet(S)
  BY <1>1, <1>2, FS_Surjection
<1> QED
  BY <1>3 DEF S

\* Every identifier that occurs gets a number.
LEMMA NumberIsNat ==
  ASSUME NEW T, NEW ids \in Seq(T), NEW x \in Range(ids)
  PROVE  NumberIn(ids, x) \in Nat
<1> DEFINE n == FirstPlace(ids, x)
           S == {ids[j] : j \in 1 .. n}
<1>1. n \in Nat
  BY FirstPlaceIs
<1>2. IsFiniteSet(S)
  BY <1>1, PrefixFinite
<1>3. NumberIn(ids, x) = Cardinality(S)
  BY DEF NumberIn
<1> HIDE DEF S
<1> QED
  BY <1>2, <1>3, FS_CardinalityType

\* The identifiers of a graph are mentioned, and nothing else is.
LEMMA AllMentioned ==
  ASSUME NEW g, IsGraph(g), NEW order \in [DOMAIN g -> SetToSeqs(PhiLabels)]
  PROVE  /\ Mentioned(g, order) \in Seq(Nat)
         /\ \A i \in DOMAIN g :
              /\ g[i].id \in Range(Mentioned(g, order))
              /\ \A l \in DOMAIN g[i].phi : \A j \in DOMAIN g[i].phi[l] :
                   g[i].phi[l][j][2] \in Range(Mentioned(g, order))
         /\ \A x \in Range(Mentioned(g, order)) : \E i \in DOMAIN g :
              \/ x = g[i].id
              \/ \E l \in DOMAIN g[i].phi : \E j \in DOMAIN g[i].phi[l] : x = g[i].phi[l][j][2]
<1> DEFINE block(i, k) == IF order[i][k] \in DOMAIN g[i].phi
                          THEN [j \in DOMAIN g[i].phi[order[i][k]] |-> g[i].phi[order[i][k]][j][2]]
                          ELSE <<>>
           blocks(i) == [k \in DOMAIN order[i] |-> block(i, k)]
           lists == [i \in DOMAIN g |-> <<g[i].id>> \o FlattenSeq(blocks(i))]
<1>1. Mentioned(g, order) = FlattenSeq(lists)
  BY DEF Mentioned
<1>2. ASSUME NEW i \in DOMAIN g
      PROVE  order[i] \in Seq(PhiLabels) /\ Range(order[i]) = PhiLabels
  <2>1. order[i] \in SetToSeqs(PhiLabels)
    OBVIOUS
  <2> QED
    BY <2>1, DatabasesAreLists, AnyOrderLists
<1>3. ASSUME NEW i \in DOMAIN g
      PROVE  /\ blocks(i) \in Seq(Seq(Nat))
             /\ DOMAIN blocks(i) = DOMAIN order[i]
  <2>1. order[i] \in Seq(PhiLabels)
    BY <1>2
  <2>2. ASSUME NEW k \in DOMAIN order[i] PROVE block(i, k) \in Seq(Nat)
    <3>1. CASE order[i][k] \in DOMAIN g[i].phi
      <4> DEFINE c == g[i].phi[order[i][k]]
      <4>1. c \in Seq(Nat \X Nat)
        BY <3>1, GraphParts
      <4>2. [j \in DOMAIN c |-> c[j][2]] \in Seq(Nat)
        <5> HIDE DEF c
        <5>1. DOMAIN c = 1 .. Len(c) /\ Len(c) \in Nat /\ \A j \in DOMAIN c : c[j][2] \in Nat
          BY <4>1
        <5> QED
          BY <5>1
      <4> QED
        BY <3>1, <4>2
    <3>2. CASE order[i][k] \notin DOMAIN g[i].phi
      BY <3>2
    <3> QED
      BY <3>1, <3>2
  <2>3. DOMAIN order[i] = 1 .. Len(order[i]) /\ Len(order[i]) \in Nat
    BY <2>1
  <2> HIDE DEF block
  <2> QED
    BY <2>2, <2>3
<1>4. ASSUME NEW i \in DOMAIN g
      PROVE  /\ FlattenSeq(blocks(i)) \in Seq(Nat)
             /\ \A k \in DOMAIN order[i] : \A j \in DOMAIN block(i, k) :
                  \E p \in DOMAIN FlattenSeq(blocks(i)) : FlattenSeq(blocks(i))[p] = block(i, k)[j]
             /\ \A p \in DOMAIN FlattenSeq(blocks(i)) : \E k \in DOMAIN order[i] :
                  \E j \in DOMAIN block(i, k) : FlattenSeq(blocks(i))[p] = block(i, k)[j]
  <2>1. \A k \in DOMAIN order[i] : blocks(i)[k] = block(i, k)
    OBVIOUS
  <2> HIDE DEF blocks, block
  <2> QED
    BY <1>3, <2>1, FlattenPlaces
<1>5. DOMAIN g = 1 .. Len(g) /\ Len(g) \in Nat
  BY GraphParts
<1>6. ASSUME NEW i \in DOMAIN g
      PROVE  /\ lists[i] = <<g[i].id>> \o FlattenSeq(blocks(i)) /\ lists[i] \in Seq(Nat)
             /\ 1 \in DOMAIN lists[i] /\ lists[i][1] = g[i].id
             /\ \A p \in DOMAIN FlattenSeq(blocks(i)) :
                  p + 1 \in DOMAIN lists[i] /\ lists[i][p + 1] = FlattenSeq(blocks(i))[p]
             /\ \A q \in DOMAIN lists[i] :
                  q = 1 \/ (q - 1 \in DOMAIN FlattenSeq(blocks(i))
                              /\ lists[i][q] = FlattenSeq(blocks(i))[q - 1])
  <2>1. lists[i] = <<g[i].id>> \o FlattenSeq(blocks(i))
    OBVIOUS
  <2>2. g[i].id \in Nat
    BY GraphParts
  <2>3. FlattenSeq(blocks(i)) \in Seq(Nat)
    BY <1>4
  <2>4. <<g[i].id>> \in Seq(Nat) /\ Len(<<g[i].id>>) = 1
    BY <2>2
  <2> HIDE DEF lists, blocks
  <2> QED
    BY <2>1, <2>2, <2>3, <2>4
<1>7. lists \in Seq(Seq(Nat)) /\ DOMAIN lists = DOMAIN g
  <2>1. lists \in [1 .. Len(g) -> Seq(Nat)]
    <3> HIDE DEF blocks
    <3> QED
      BY <1>5, <1>6
  <2> HIDE DEF lists
  <2> QED
    BY <1>5, <2>1
<1> HIDE DEF lists
<1>8. FlattenSeq(lists) \in Seq(Nat)
  BY <1>7, FlattenPlaces
<1>9. ASSUME NEW i \in DOMAIN g, NEW j \in DOMAIN lists[i]
      PROVE  lists[i][j] \in Range(FlattenSeq(lists))
  <2>1. \E p \in DOMAIN FlattenSeq(lists) : FlattenSeq(lists)[p] = lists[i][j]
    BY <1>7, FlattenPlaces
  <2> QED
    BY <2>1 DEF Range
<1>10. ASSUME NEW i \in DOMAIN g, NEW l \in DOMAIN g[i].phi, NEW j \in DOMAIN g[i].phi[l]
       PROVE  g[i].phi[l][j][2] \in Range(FlattenSeq(lists))
  <2>1. l \in Range(order[i])
    BY <1>2, GraphParts
  <2>2. PICK k \in DOMAIN order[i] : order[i][k] = l
    BY <2>1 DEF Range
  <2>3. j \in DOMAIN block(i, k) /\ block(i, k)[j] = g[i].phi[l][j][2]
    BY <2>2
  <2>4. PICK p \in DOMAIN FlattenSeq(blocks(i)) : FlattenSeq(blocks(i))[p] = g[i].phi[l][j][2]
    <3> HIDE DEF block, blocks
    <3> QED
      BY <1>4, <2>3
  <2>5. p + 1 \in DOMAIN lists[i] /\ lists[i][p + 1] = g[i].phi[l][j][2]
    <3> HIDE DEF block, blocks
    <3> QED
      BY <1>6, <2>4
  <2>6. lists[i][p + 1] \in Range(FlattenSeq(lists))
    BY <1>9, <2>5
  <2> QED
    BY <2>5, <2>6
<1>11. ASSUME NEW x \in Range(FlattenSeq(lists))
       PROVE  \E i \in DOMAIN g :
                \/ x = g[i].id
                \/ \E l \in DOMAIN g[i].phi : \E j \in DOMAIN g[i].phi[l] : x = g[i].phi[l][j][2]
  <2>1. PICK i \in DOMAIN g : \E q \in DOMAIN lists[i] : x = lists[i][q]
    <3>1. PICK p \in DOMAIN FlattenSeq(lists) : x = FlattenSeq(lists)[p]
      BY DEF Range
    <3>2. PICK i \in DOMAIN lists : \E q \in DOMAIN lists[i] : p = StartOf(lists, i) + q
      BY <1>7, FlattenPlaces
    <3>3. PICK q \in DOMAIN lists[i] : p = StartOf(lists, i) + q
      BY <3>2
    <3>4. x = lists[i][q]
      BY <1>7, <3>1, <3>3, FlattenPlaces
    <3> QED
      BY <1>7, <3>4
  <2>2. PICK q \in DOMAIN lists[i] : x = lists[i][q]
    BY <2>1
  <2>3. CASE q = 1
    BY <1>6, <2>2, <2>3
  <2>4. CASE q # 1
    <3>1. q - 1 \in DOMAIN FlattenSeq(blocks(i)) /\ x = FlattenSeq(blocks(i))[q - 1]
      <4> HIDE DEF blocks
      <4> QED
        BY <1>6, <2>2, <2>4
    <3>2. PICK k \in DOMAIN order[i] : \E j \in DOMAIN block(i, k) : x = block(i, k)[j]
      <4> HIDE DEF block, blocks
      <4> QED
        BY <1>4, <3>1
    <3>3. PICK j \in DOMAIN block(i, k) : x = block(i, k)[j]
      BY <3>2
    <3>4. order[i][k] \in DOMAIN g[i].phi
      <4>1. order[i][k] \notin DOMAIN g[i].phi => block(i, k) = <<>>
        OBVIOUS
      <4>2. DOMAIN <<>> = {}
        OBVIOUS
      <4> HIDE DEF block
      <4> QED
        BY <4>1, <4>2
    <3>5. j \in DOMAIN g[i].phi[order[i][k]] /\ x = g[i].phi[order[i][k]][j][2]
      BY <3>3, <3>4
    <3> QED
      BY <3>4, <3>5
  <2> QED
    BY <2>3, <2>4
<1> HIDE DEF block, blocks
<1>12. \A i \in DOMAIN g : g[i].id \in Range(FlattenSeq(lists))
  BY <1>6, <1>9
<1> DEFINE m == FlattenSeq(lists)
<1>13. /\ m \in Seq(Nat)
       /\ \A i \in DOMAIN g :
            /\ g[i].id \in Range(m)
            /\ \A l \in DOMAIN g[i].phi : \A j \in DOMAIN g[i].phi[l] : g[i].phi[l][j][2] \in Range(m)
       /\ \A x \in Range(m) : \E i \in DOMAIN g :
            \/ x = g[i].id
            \/ \E l \in DOMAIN g[i].phi : \E j \in DOMAIN g[i].phi[l] : x = g[i].phi[l][j][2]
  BY <1>8, <1>10, <1>11, <1>12
<1>14. Mentioned(g, order) = m
  BY <1>1
<1> HIDE DEF m
<1> QED
  BY <1>13, <1>14

\* The objects of a graph keep their shape when they get numbers.
LEMMA NumberedGraph ==
  ASSUME NEW g, IsGraph(g), NEW ids \in Seq(Nat),
         \A i \in DOMAIN g :
           /\ g[i].id \in Range(ids)
           /\ \A l \in DOMAIN g[i].phi : \A j \in DOMAIN g[i].phi[l] :
                g[i].phi[l][j][2] \in Range(ids)
  PROVE  /\ IsGraph(WithNumbers(g, ids)) /\ DOMAIN WithNumbers(g, ids) = DOMAIN g
         /\ \A i \in DOMAIN g :
              /\ WithNumbers(g, ids)[i].id = NumberIn(ids, g[i].id)
              /\ DOMAIN WithNumbers(g, ids)[i].phi = DOMAIN g[i].phi
              /\ \A l \in DOMAIN g[i].phi :
                   /\ DOMAIN WithNumbers(g, ids)[i].phi[l] = DOMAIN g[i].phi[l]
                   /\ \A j \in DOMAIN g[i].phi[l] :
                        WithNumbers(g, ids)[i].phi[l][j][2] = NumberIn(ids, g[i].phi[l][j][2])
<1> DEFINE h == WithNumbers(g, ids)
           contents(i) == [l \in DOMAIN g[i].phi |->
                        [j \in DOMAIN g[i].phi[l] |->
                           <<g[i].phi[l][j][1], NumberIn(ids, g[i].phi[l][j][2])>>]]
<1>1. DOMAIN g = 1 .. Len(g) /\ Len(g) \in Nat
  BY GraphParts
<1>2. ASSUME NEW i \in DOMAIN g
      PROVE  h[i] = [id |-> NumberIn(ids, g[i].id), ell |-> g[i].ell, props |-> g[i].props,
                     phi |-> contents(i)]
  <2>1. h[i] = [g[i] EXCEPT !.id = NumberIn(ids, g[i].id), !.phi = contents(i)]
    BY DEF WithNumbers
  <2>2. g[i] = [id |-> g[i].id, ell |-> g[i].ell, props |-> g[i].props, phi |-> g[i].phi]
    BY GraphParts
  <2> HIDE DEF contents, h
  <2> QED
    BY <2>1, <2>2
<1>3. ASSUME NEW i \in DOMAIN g, NEW l \in DOMAIN g[i].phi
      PROVE  contents(i)[l] \in Seq(Nat \X Nat)
  <2> DEFINE c == g[i].phi[l]
  <2>1. c \in Seq(Nat \X Nat)
    BY GraphParts
  <2>2. \A j \in DOMAIN c : c[j][1] \in Nat /\ NumberIn(ids, c[j][2]) \in Nat
    BY <2>1, NumberIsNat
  <2>3. contents(i)[l] = [j \in DOMAIN c |-> <<c[j][1], NumberIn(ids, c[j][2])>>]
    OBVIOUS
  <2>4. DOMAIN c = 1 .. Len(c) /\ Len(c) \in Nat
    BY <2>1
  <2> HIDE DEF c, contents
  <2> QED
    BY <2>2, <2>3, <2>4
<1>4. ASSUME NEW i \in DOMAIN g
      PROVE  \E K \in SUBSET Keys, L \in SUBSET PhiLabels : h[i] \in gsm_object(K, L)
  <2>1. PICK K \in SUBSET Keys : g[i].props \in [K -> Nat]
    BY GraphParts
  <2> DEFINE L == DOMAIN g[i].phi
  <2>2. L \in SUBSET PhiLabels
    BY GraphParts
  <2>3. contents(i) \in [L -> Seq(Nat \X Nat)]
    <3>1. contents(i) = [l \in L |-> contents(i)[l]]
      OBVIOUS
    <3> HIDE DEF contents
    <3> QED
      BY <1>3, <3>1
  <2>4. NumberIn(ids, g[i].id) \in Nat /\ g[i].ell \in Seq(Labels)
    BY NumberIsNat, GraphParts
  <2> HIDE DEF contents, h, L
  <2>5. h[i] \in [id : Nat, ell : Seq(Labels), props : [K -> Nat], phi : [L -> Seq(Nat \X Nat)]]
    <3> DEFINE P == [K -> Nat]
               C == [L -> Seq(Nat \X Nat)]
               E == Seq(Labels)
    <3>1. g[i].props \in P /\ contents(i) \in C /\ g[i].ell \in E
      BY <2>1, <2>3, <2>4
    <3> HIDE DEF P, C, E
    <3>2. ASSUME NEW n \in Nat, NEW e \in E, NEW p \in P, NEW c \in C
          PROVE  [id |-> n, ell |-> e, props |-> p, phi |-> c]
                   \in [id : Nat, ell : E, props : P, phi : C]
      OBVIOUS
    <3>3. h[i] \in [id : Nat, ell : E, props : P, phi : C]
      <4> DEFINE n == NumberIn(ids, g[i].id)
                 c == contents(i)
      <4>1. n \in Nat /\ g[i].ell \in E /\ g[i].props \in P /\ c \in C
        BY <2>4, <3>1
      <4>2. h[i] = [id |-> n, ell |-> g[i].ell, props |-> g[i].props, phi |-> c]
        BY <1>2
      <4> HIDE DEF n, c
      <4>3. [id |-> n, ell |-> g[i].ell, props |-> g[i].props, phi |-> c]
              \in [id : Nat, ell : E, props : P, phi : C]
        BY <3>2, <4>1
      <4> QED
        BY <4>2, <4>3
    <3> QED
      BY <3>3 DEF P, C, E
  <2> QED
    BY <2>2, <2>5 DEF gsm_object
<1>5. DOMAIN h = DOMAIN g /\ IsSeq(h)
  <2>1. h = [i \in 1 .. Len(g) |-> h[i]]
    BY <1>1 DEF WithNumbers
  <2> HIDE DEF h
  <2> QED
    BY <1>1, <2>1, FunctionIsList
<1>6. ASSUME NEW i \in DOMAIN g
      PROVE  /\ h[i].id = NumberIn(ids, g[i].id)
             /\ DOMAIN h[i].phi = DOMAIN g[i].phi
             /\ \A l \in DOMAIN g[i].phi :
                  /\ DOMAIN h[i].phi[l] = DOMAIN g[i].phi[l]
                  /\ \A j \in DOMAIN g[i].phi[l] : h[i].phi[l][j][2] = NumberIn(ids, g[i].phi[l][j][2])
  <2>1. h[i].id = NumberIn(ids, g[i].id) /\ h[i].phi = contents(i)
    <3> DEFINE n == NumberIn(ids, g[i].id)
               c == contents(i)
    <3>1. h[i] = [id |-> n, ell |-> g[i].ell, props |-> g[i].props, phi |-> c]
      BY <1>2
    <3> HIDE DEF h, n, c
    <3>2. h[i].id = n /\ h[i].phi = c
      BY <3>1
    <3> QED
      BY <3>2 DEF n, c
  <2> HIDE DEF h
  <2> QED
    BY <2>1
<1> HIDE DEF h, contents
<1>7. IsGraph(h)
  BY <1>4, <1>5 DEF IsGraph
<1> QED
  BY <1>5, <1>6, <1>7 DEF h

-----------------------------------------------------------------------------
(* The steps.                                                              *)

\* Nothing is loaded at first.
LEMMA InitStorage ==
  Init => StorageInv
<1> SUFFICES ASSUME Init PROVE StorageInv
  OBVIOUS
<1>1. IsDatabase(db)
  BY DatabasesAreLists DEF Init
<1>2. Len(db) \in Nat
  BY <1>1 DEF IsDatabase, IsSeq
<1>3. Shape
  <2>1. 1 \in 1 .. Len(db) + 1
    BY <1>2
  <2>2. <<NoLabel>> \in Seq(Labels) /\ NoLabel \in Range(<<NoLabel>>)
    BY DatabasesAreLists DEF Range
  <2>3. Len(<<>>) <= Len(<<NoLabel>>) /\ <<>> \in Seq(Seq(Nat \X Nat))
    OBVIOUS
  <2>4. Rows = {}
    BY DEF Init, Rows
  <2>5. registry = [table |-> registry.table, primary |-> registry.primary,
                    secondary |-> registry.secondary, next |-> registry.next, prev |-> registry.prev]
    BY DEF Init
  <2> QED
    BY <1>1, <2>1, <2>2, <2>3, <2>4, <2>5 DEF Init, Shape, Nothing, Phases
<1>4. Lists /\ Filed /\ FiledWhen
  BY DEF Init, Lists, Filed, FiledWhen, Starts, Nothing
<1> QED
  BY <1>3, <1>4 DEF StorageInv

\* A step that leaves the tables alone keeps what is said of them.
LEMMA SameTables ==
  ASSUME Lists, Filed, FiledWhen, UNCHANGED <<phis, records>>,
         pc' \in {"convert", "load"} => pc \in {"convert", "load"} /\ registry'.table = registry.table,
         pc' \in {"links", "indexed"} =>
           pc \in {"links", "indexed"} \/ DOMAIN phis = Range(minRecordToContaimentLabel)
  PROVE  Lists' /\ Filed' /\ FiledWhen'
<1>1. Starts' = Starts /\ \A s \in Starts : EndOf(s)' = EndOf(s)
  BY DEF Starts, EndOf, records
<1>2. Lists'
  BY DEF Lists
<1>3. Filed'
  BY <1>1 DEF Filed, records
<1>4. FiledWhen'
  BY <1>1 DEF FiledWhen, records
<1> QED
  BY <1>2, <1>3, <1>4

\* Numbers for identifiers.
LEMMA ConvertStep ==
  ASSUME StorageInv, convert
  PROVE  StorageInv'
<1> USE DEF StorageInv
<1>1. PICK order \in [Places -> SetToSeqs(PhiLabels)] :
        db' = [g \in DOMAIN db |->
                 WithNumbers(db[g], Mentioned(db[g], [i \in DOMAIN db[g] |-> order[<<g, i>>]]))]
  BY DEF convert
<1>2. IsSeq(db) /\ Len(db) \in Nat /\ DOMAIN db = 1 .. Len(db)
  BY DEF Shape, IsDatabase, IsSeq
<1>3. ASSUME NEW g \in DOMAIN db PROVE IsGraph(db'[g])
  <2> DEFINE o == [i \in DOMAIN db[g] |-> order[<<g, i>>]]
  <2>1. IsGraph(db[g])
    BY DEF Shape, IsDatabase
  <2>2. o \in [DOMAIN db[g] -> SetToSeqs(PhiLabels)]
    <3>1. \A i \in DOMAIN db[g] : <<g, i>> \in Places
      BY DEF Places
    <3> QED
      BY <3>1
  <2>3. db'[g] = WithNumbers(db[g], Mentioned(db[g], o))
    BY <1>1
  <2> HIDE DEF o
  <2> QED
    BY <2>1, <2>2, <2>3, AllMentioned, NumberedGraph
<1>4. IsSeq(db') /\ Len(db') = Len(db) /\ DOMAIN db' = DOMAIN db
  <2>1. db' = [g \in 1 .. Len(db) |-> db'[g]]
    BY <1>1, <1>2
  <2> QED
    BY <1>2, <2>1, FunctionIsList
<1>5. Shape'
  <2>1. IsDatabase(db)'
    BY <1>3, <1>4 DEF IsDatabase
  <2> QED
    BY <1>4, <2>1 DEF Shape, convert, Phases, Rows, builders
<1>6. pc' = "load" /\ pc = "convert" /\ UNCHANGED <<phis, records, registry>>
  BY DEF convert
<1>7. Lists' /\ Filed' /\ FiledWhen'
  BY <1>6, SameTables
<1> QED
  BY <1>5, <1>7

\* Lists that are made n have a place for the nth.
LEMMA ResizedLists ==
  ASSUME NEW L, NEW b \in Seq(L), <<>> \in L, NEW a \in Nat \ {0}
  PROVE  /\ resize(b, a) \in Seq(L)
         /\ a \in DOMAIN resize(b, a)
         /\ Len(resize(b, a)) = Len(b) \/ Len(resize(b, a)) = a
<1> DEFINE more == [i \in 1 .. a - Len(b) |-> <<>>]
           n == IF a > Len(b) THEN a - Len(b) ELSE 0
<1>1. Len(b) \in Nat /\ n \in Nat /\ 1 .. a - Len(b) = 1 .. n
  OBVIOUS
<1>2. more \in Seq(L) /\ Len(more) = n
  <2>1. more = [i \in 1 .. n |-> <<>>]
    BY <1>1
  <2> HIDE DEF more, n
  <2> QED
    BY <1>1, <2>1
<1>3. resize(b, a) = b \o more
  BY DEF resize
<1> HIDE DEF more
<1>4. resize(b, a) \in Seq(L) /\ Len(resize(b, a)) = Len(b) + n
  <2> HIDE DEF n
  <2> QED
    BY <1>2, <1>3, TwoLists
<1>5. a \in 1 .. Len(resize(b, a))
  BY <1>1, <1>4
<1> QED
  BY <1>1, <1>4, <1>5

\* Changing an element of a list.
LEMMA ChangedList ==
  ASSUME NEW L, NEW w \in Seq(L), NEW a, NEW y \in L
  PROVE  [w EXCEPT ![a] = y] \in Seq(L) /\ Len([w EXCEPT ![a] = y]) = Len(w)
<1> DEFINE r == [w EXCEPT ![a] = y]
<1>1. w \in [1 .. Len(w) -> L] /\ Len(w) \in Nat
  OBVIOUS
<1>2. r \in [1 .. Len(w) -> L]
  BY <1>1
<1> HIDE DEF r
<1>3. r \in Seq(L) /\ Len(r) = Len(w)
  BY <1>1, <1>2
<1> QED
  BY <1>3 DEF r

\* A label in a map of labels that is extended when it is new.
LEMMA ExtendedMap ==
  ASSUME NEW map \in Seq(Labels), NEW l \in Labels
  PROVE  /\ Extended(map, l) \in Seq(Labels)
         /\ Len(map) <= Len(Extended(map, l))
         /\ Range(map) \subseteq Range(Extended(map, l))
         /\ IndexOf(Extended(map, l), l) \in 1 .. Len(Extended(map, l))
<1> DEFINE e == Extended(map, l)
<1>1. /\ e \in Seq(Labels) /\ Len(map) <= Len(e) /\ l \in Range(e)
      /\ Range(map) \subseteq Range(e)
  <2>1. CASE l \in Range(map)
    BY <2>1 DEF Extended
  <2>2. CASE l \notin Range(map)
    <3>1. e = Append(map, l)
      BY <2>2 DEF Extended
    <3>2. Len(map) \in Nat /\ Len(e) = Len(map) + 1 /\ e \in Seq(Labels)
      BY <3>1
    <3>3. e[Len(map) + 1] = l /\ \A i \in 1 .. Len(map) : e[i] = map[i]
      BY <3>1
    <3>4. DOMAIN e = 1 .. Len(map) + 1 /\ DOMAIN map = 1 .. Len(map)
      BY <3>2
    <3> HIDE DEF e
    <3> QED
      BY <3>2, <3>3, <3>4 DEF Range
  <2> QED
    BY <2>1, <2>2
<1> HIDE DEF e
<1>2. \E i \in DOMAIN e : e[i] = l
  BY <1>1 DEF Range
<1>3. IndexOf(e, l) \in DOMAIN e
  BY <1>2 DEF IndexOf
<1> QED
  BY <1>1, <1>3 DEF e

\* One object.
LEMMA LoadStep ==
  ASSUME StorageInv, loadObject
  PROVE  StorageInv'
<1> USE DEF StorageInv
<1> DEFINE o == object
           map == Extended(label_map, firstLabel(o))
           act == IndexOf(map, firstLabel(o))
<1>1. /\ label_map' = map /\ load_record(graph, act, o.id) /\ loadContents(act, o)
      /\ pos' = pos + 1 /\ pc = "load"
      /\ UNCHANGED <<path, db, graph, pc, registry, attrs, records>>
  BY DEF loadObject
<1>2. /\ o.id \in Nat /\ o.ell \in Seq(Labels) /\ DOMAIN o.phi \subseteq PhiLabels
      /\ \A l \in DOMAIN o.phi : o.phi[l] \in Seq(Nat \X Nat)
  <2>1. graph \in DOMAIN db /\ pos < Len(db[graph]) /\ pos \in Nat /\ IsGraph(db[graph])
    BY DEF loadObject, Shape, IsDatabase
  <2>2. pos + 1 \in DOMAIN db[graph]
    BY <2>1, GraphParts
  <2> QED
    BY <2>1, <2>2, GraphParts DEF object
<1>3. firstLabel(o) \in Labels
  <2> HIDE DEF o
  <2> QED
    BY <1>2, DatabasesAreLists DEF firstLabel
<1> HIDE DEF o
<1>4. /\ map \in Seq(Labels) /\ Len(label_map) <= Len(map)
      /\ NoLabel \in Range(map) /\ act \in 1 .. Len(map) /\ Len(map) \in Nat
  BY <1>3, ExtendedMap DEF Shape
<1> HIDE DEF map, act
<1>5. builder' \in Seq(Seq(Nat \X Nat)) /\ Len(builder') <= Len(map)
  <2>1. graph \in Nat /\ builder \in Seq(Seq(Nat \X Nat)) /\ Len(builder) <= Len(map)
    <3>1. Len(db) \in Nat
      BY DEF Shape, IsDatabase, IsSeq
    <3> QED
      BY <1>4, <3>1 DEF Shape
  <2> DEFINE T == Nat \X Nat
             L == Seq(T)
             x == <<graph, o.id>>
             w == resize(builder, act)
  <2>2. builder' = [w EXCEPT ![act] = Append(w[act], x)]
    BY <1>1 DEF load_record
  <2>3. act \in Nat \ {0} /\ act <= Len(map) /\ x \in T
    BY <1>2, <1>4, <2>1
  <2>4. builder \in Seq(L) /\ <<>> \in L
    BY <2>1
  <2>5. w \in Seq(L) /\ act \in DOMAIN w /\ (Len(w) = Len(builder) \/ Len(w) = act)
    <3> HIDE DEF L, x
    <3> QED
      BY <2>3, <2>4, ResizedLists
  <2>6. Append(w[act], x) \in L
    <3>1. w[act] \in L
      <4> HIDE DEF L, w
      <4> QED
        BY <2>5
    <3> HIDE DEF T, x, w
    <3> QED
      BY <2>3, <3>1
  <2>7. builder' \in Seq(L) /\ (Len(builder') = Len(builder) \/ Len(builder') = act)
    <3> HIDE DEF L, x, w
    <3> QED
      BY <2>2, <2>5, <2>6, ChangedList
  <2> QED
    BY <1>4, <2>1, <2>3, <2>7
<1>6. registry.table = <<>> /\ Rows' = {} /\ Starts = {}
  BY <1>1 DEF FiledWhen, Rows
<1>7. Shape'
  BY <1>1, <1>4, <1>5, <1>6 DEF Shape
<1>8. Lists'
  <2> DEFINE rows(l) == [j \in DOMAIN o.phi[l] |-> <<act, graph, o.id>> \o o.phi[l][j]]
             old(l) == IF l \in DOMAIN phis THEN phis[l].table ELSE <<>>
             used == {l \in DOMAIN o.phi : o.phi[l] # <<>>}
             new == [l \in used |-> [table |-> old(l) \o rows(l), primary |-> Nothing,
                                     secondary |-> Nothing]]
  <2>1. phis' = Merge(new, phis)
    BY <1>1 DEF loadContents
  <2>2. ASSUME NEW l \in used PROVE IsSeq(old(l) \o rows(l)) /\ old(l) \o rows(l) # <<>>
    <3>1. IsSeq(old(l))
      <4>1. IsSeq(<<>>)
        <5>1. <<>> \in Seq({})
          OBVIOUS
        <5> QED
          BY <5>1, ListIsSeq
      <4>2. l \in DOMAIN phis => IsSeq(phis[l].table)
        BY DEF Lists
      <4> QED
        BY <4>1, <4>2
    <3>2. Len(o.phi[l]) \in Nat \ {0} /\ DOMAIN o.phi[l] = 1 .. Len(o.phi[l])
      BY <1>2
    <3>3. IsSeq(rows(l)) /\ Len(rows(l)) = Len(o.phi[l])
      <4>1. rows(l) = [j \in 1 .. Len(o.phi[l]) |-> rows(l)[j]]
        BY <3>2, SMTT(30)
      <4> HIDE DEF rows
      <4> QED
        BY <3>2, <4>1, FunctionIsList
    <3>4. Len(old(l)) \in Nat
      BY <3>1 DEF IsSeq
    <3> HIDE DEF old, rows
    <3>5. IsSeq(old(l) \o rows(l)) /\ Len(old(l) \o rows(l)) # 0
      BY <3>1, <3>2, <3>3, <3>4, ConcatIsList
    <3> QED
      BY <3>5
  <2>3. DOMAIN new = used /\ \A l \in used : new[l].table = old(l) \o rows(l)
    OBVIOUS
  <2>4. used \subseteq PhiLabels
    BY <1>2
  <2> HIDE DEF new, old, rows, used
  <2>5. DOMAIN phis' = used \cup DOMAIN phis
    BY <2>1, <2>3 DEF Merge
  <2>6. ASSUME NEW l \in DOMAIN phis' PROVE IsSeq(phis'[l].table) /\ phis'[l].table # <<>>
    <3>1. CASE l \in used
      <4>1. phis'[l] = new[l]
        BY <2>1, <2>3, <3>1 DEF Merge
      <4> QED
        BY <2>2, <2>3, <3>1, <4>1
    <3>2. CASE l \notin used
      <4>1. phis'[l] = phis[l] /\ l \in DOMAIN phis
        BY <2>1, <2>3, <2>5, <3>2 DEF Merge
      <4> QED
        BY <4>1 DEF Lists
    <3> QED
      BY <3>1, <3>2
  <2> QED
    BY <2>4, <2>5, <2>6 DEF Lists
<1>9. Filed' /\ FiledWhen'
  <2>1. Starts' = {} /\ tables_start' = tables_start
    BY <1>1, <1>6 DEF Starts, records
  <2>2. Filed'
    BY <1>6, <2>1 DEF Filed
  <2>3. FiledWhen'
    BY <1>1, <1>6, <2>1 DEF FiledWhen
  <2> QED
    BY <2>2, <2>3
<1> QED
  BY <1>7, <1>8, <1>9

\* The steps between the objects, and the one that the code does not define.
LEMMA PassingStep ==
  ASSUME StorageInv, loadUnknown \/ nextGraph
  PROVE  StorageInv'
<1> USE DEF StorageInv
<1>1. Len(db) \in Nat /\ DOMAIN db = 1 .. Len(db)
  BY DEF Shape, IsDatabase, IsSeq
<1>2. Shape'
  <2>1. graph' \in 1 .. Len(db) + 1 /\ pos' \in Nat
    BY <1>1 DEF Shape, loadUnknown, nextGraph, loading
  <2> QED
    BY <2>1 DEF Shape, loadUnknown, nextGraph, loading, builders, Phases, Rows
<1>3. /\ pc = "load" /\ pc' \in {"load", "undefined"}
      /\ UNCHANGED <<phis, records, registry>>
  BY DEF loadUnknown, nextGraph
<1>4. Lists' /\ Filed' /\ FiledWhen'
  BY <1>3, SameTables
<1> QED
  BY <1>2, <1>4

\* The registry is laid out: every row has the label under which its object was filed.
LEMMA LayOutStep ==
  ASSUME StorageInv, layOutRegistry
  PROVE  StorageInv'
<1> USE DEF StorageInv
<1> DEFINE Row == [l0 : DOMAIN label_map, graph : Nat, event : Nat]
           rowsOf(a) == [i \in DOMAIN builder[a] |->
                           [l0 |-> a, graph |-> builder[a][i][1], event |-> builder[a][i][2]]]
           blocks == [a \in DOMAIN builder |-> rowsOf(a)]
           table == FlattenSeq(blocks)
<1>1. \/ pc' = "undefined" /\ registry' = registry
      \/ /\ pc' = "containment"
         /\ registry'.table = table
         /\ registry' = [table |-> registry'.table, primary |-> registry'.primary,
                         secondary |-> registry'.secondary, next |-> registry'.next,
                         prev |-> registry'.prev]
  <2>1. \/ pc' = "undefined" /\ registry' = registry
        \/ /\ pc' = "containment"
           /\ \E first : registry' = [registry EXCEPT !.table = table, !.primary = first]
    BY DEF layOutRegistry
  <2>2. registry = [table |-> registry.table, primary |-> registry.primary,
                    secondary |-> registry.secondary, next |-> registry.next,
                    prev |-> registry.prev]
    BY DEF Shape
  <2>3. ASSUME NEW first, registry' = [registry EXCEPT !.table = table, !.primary = first]
        PROVE  /\ registry'.table = table
               /\ registry' = [table |-> registry'.table, primary |-> registry'.primary,
                               secondary |-> registry'.secondary, next |-> registry'.next,
                               prev |-> registry'.prev]
    <3> HIDE DEF table
    <3> QED
      BY <2>2, <2>3
  <2> QED
    BY <2>1, <2>3
<1>2. blocks \in Seq(Seq(Row))
  <2>1. /\ DOMAIN builder = 1 .. Len(builder) /\ Len(builder) \in Nat
        /\ DOMAIN builder \subseteq DOMAIN label_map
    BY DEF Shape
  <2>2. ASSUME NEW a \in DOMAIN builder PROVE rowsOf(a) \in Seq(Row)
    <3>1. builder[a] \in Seq(Nat \X Nat) /\ a \in DOMAIN label_map
      BY <2>1 DEF Shape
    <3>2. /\ DOMAIN builder[a] = 1 .. Len(builder[a]) /\ Len(builder[a]) \in Nat
          /\ \A i \in DOMAIN builder[a] : builder[a][i][1] \in Nat /\ builder[a][i][2] \in Nat
      BY <3>1
    <3>3. \A i \in DOMAIN builder[a] :
            [l0 |-> a, graph |-> builder[a][i][1], event |-> builder[a][i][2]] \in Row
      BY <3>1, <3>2
    <3> HIDE DEF Row
    <3> QED
      BY <3>2, <3>3
  <2> DEFINE L == Seq(Row)
  <2>3. \A a \in DOMAIN builder : rowsOf(a) \in L
    BY <2>2
  <2> HIDE DEF L, rowsOf
  <2>4. blocks \in Seq(L)
    BY <2>1, <2>3
  <2> QED
    BY <2>4 DEF L
<1>3. table \in Seq(Row)
  <2> HIDE DEF blocks, Row
  <2> QED
    BY <1>2, FlattenPlaces
<1>4. \A r \in DOMAIN table : table[r].l0 \in DOMAIN label_map
  <2>1. \A r \in DOMAIN table : table[r] \in Row
    <3> HIDE DEF Row, table
    <3> QED
      BY <1>3
  <2> HIDE DEF table
  <2> QED
    BY <2>1
<1> HIDE DEF table
<1>5. /\ UNCHANGED <<loading, label_map, ell_values, builder, elements, attrs, phis, records>>
      /\ pc = "load"
  BY DEF layOutRegistry
<1>6. \A r \in Rows' : registry'.table[r].l0 \in DOMAIN label_map'
  BY <1>1, <1>4, <1>5 DEF Rows, Shape
<1>7. Shape'
  BY <1>1, <1>5, <1>6 DEF Shape, loading, Phases
<1>8. Lists' /\ Filed' /\ FiledWhen'
  BY <1>1, <1>5, SameTables
<1> QED
  BY <1>7, <1>8

\* The indices of the properties and the links between the objects.
LEMMA IndexStep ==
  ASSUME StorageInv, indexProperties \/ indexing2
  PROVE  StorageInv'
<1> USE DEF StorageInv
<1>1. /\ UNCHANGED <<loading, builders, phis, records>>
      /\ \/ /\ pc' = "links" /\ DOMAIN phis = Range(minRecordToContaimentLabel)
            /\ registry' = registry
         \/ pc' = "indexed" /\ pc = "links" /\ registry'.table = registry.table
  <2>1. indexing2 => registry'.table = registry.table
    <3>1. registry = [table |-> registry.table, primary |-> registry.primary,
                      secondary |-> registry.secondary, next |-> registry.next,
                      prev |-> registry.prev]
      BY DEF Shape
    <3>2. indexing2 => \E a, b, c : registry' = [registry EXCEPT !.secondary = a, !.next = b, !.prev = c]
      BY DEF indexing2
    <3> QED
      BY <3>1, <3>2
  <2> QED
    BY <2>1 DEF indexProperties, indexing2
<1>2. /\ registry' = [table |-> registry'.table, primary |-> registry'.primary,
                      secondary |-> registry'.secondary, next |-> registry'.next,
                      prev |-> registry'.prev]
      /\ DOMAIN attrs' \subseteq Keys
  <2>1. registry = [table |-> registry.table, primary |-> registry.primary,
                    secondary |-> registry.secondary, next |-> registry.next,
                    prev |-> registry.prev]
    BY DEF Shape
  <2>2. CASE indexing2
    <3>1. \E a, b, c : registry' = [registry EXCEPT !.secondary = a, !.next = b, !.prev = c]
      BY <2>2 DEF indexing2
    <3>2. attrs' = attrs
      BY <2>2 DEF indexing2
    <3> QED
      BY <2>1, <3>1, <3>2 DEF Shape
  <2>3. CASE indexProperties
    <3>1. DOMAIN attrs' = {j \in Keys : elements[j] # <<>>} /\ registry' = registry
      BY <2>3 DEF indexProperties
    <3> QED
      BY <2>1, <3>1
  <2> QED
    BY <2>2, <2>3
<1>3. Shape'
  BY <1>1, <1>2 DEF Shape, loading, builders, Phases, Rows
<1>4. Lists' /\ Filed' /\ FiledWhen'
  BY <1>1, SameTables
<1> QED
  BY <1>3, <1>4

\* A containment table is sorted, and its records follow those of the others.
LEMMA ContainmentStep ==
  ASSUME StorageInv, indexContainment
  PROVE  StorageInv'
<1> USE DEF StorageInv
<1>1. PICK l \in DOMAIN phis \ Range(minRecordToContaimentLabel) :
        LET table == Sorted(phis[l].table)
        IN /\ \E p, q : phis' = [phis EXCEPT ![l] = [table |-> table, primary |-> p, secondary |-> q]]
           /\ minRecordToContaimentLabel' = Bind(tables_start, l, minRecordToContaimentLabel)
           /\ tables_start' = tables_start + Len(table)
  BY DEF indexContainment
<1>2. pc = "containment" /\ UNCHANGED <<loading, pc, builders, registry, attrs>>
  BY DEF indexContainment
<1> DEFINE n == Len(phis[l].table)
<1>3. IsSeq(phis[l].table) /\ n \in Nat \ {0}
  BY DEF Lists, IsSeq
<1>4. IsSeq(Sorted(phis[l].table)) /\ Len(Sorted(phis[l].table)) = n
  BY <1>3, SortedIsList
<1>5. /\ DOMAIN phis' = DOMAIN phis
      /\ \A m \in DOMAIN phis : /\ IsSeq(phis'[m].table) /\ phis'[m].table # <<>>
                                /\ Len(phis'[m].table) = Len(phis[m].table)
  <2>1. PICK p, q : phis' = [phis EXCEPT ![l] = [table |-> Sorted(phis[l].table), primary |-> p,
                                                  secondary |-> q]]
    BY <1>1
  <2>2. phis'[l].table = Sorted(phis[l].table) /\ \A m \in DOMAIN phis : m # l => phis'[m] = phis[m]
    BY <2>1
  <2>3. Sorted(phis[l].table) # <<>>
    BY <1>3, <1>4
  <2> QED
    BY <1>3, <1>4, <2>1, <2>2, <2>3 DEF Lists
<1>6. Lists'
  BY <1>5 DEF Lists
<1>7. PICK S \in Nat \ {0} : S = tables_start
  BY DEF Filed
<1>12. tables_start' = S + n /\ Starts \in SUBSET Nat /\ \A s \in Starts : s < S
  BY <1>1, <1>4, <1>7 DEF Filed
<1>8. /\ Starts' = Starts \cup {S}
      /\ minRecordToContaimentLabel'[S] = l
      /\ \A s \in Starts : minRecordToContaimentLabel'[s] = minRecordToContaimentLabel[s]
  <2>1. minRecordToContaimentLabel' = Merge([w \in {S} |-> l], minRecordToContaimentLabel)
    BY <1>1, <1>7 DEF Bind
  <2> QED
    BY <1>7, <1>12, <2>1 DEF Starts, Merge
<1>9. /\ EndOf(S)' = S + n
      /\ \A s \in Starts : EndOf(s)' = EndOf(s) /\ EndOf(s) \in Nat /\ EndOf(s) <= S
  <2>1. EndOf(S)' = S + n
    BY <1>5, <1>8 DEF EndOf
  <2>2. ASSUME NEW s \in Starts PROVE EndOf(s)' = EndOf(s) /\ EndOf(s) \in Nat /\ EndOf(s) <= S
    <3>1. minRecordToContaimentLabel[s] \in DOMAIN phis /\ EndOf(s) <= S
      BY <1>7 DEF Filed
    <3>2. Len(phis[minRecordToContaimentLabel[s]].table) \in Nat
      BY <3>1 DEF Lists, IsSeq
    <3>3. EndOf(s) \in Nat
      BY <1>12, <3>2 DEF EndOf
    <3>4. minRecordToContaimentLabel'[s] = minRecordToContaimentLabel[s]
      BY <1>8
    <3>5. Len(phis'[minRecordToContaimentLabel'[s]].table) = Len(phis[minRecordToContaimentLabel[s]].table)
      BY <1>5, <3>1, <3>4
    <3>6. EndOf(s)' = EndOf(s)
      BY <3>5 DEF EndOf
    <3> QED
      BY <3>1, <3>3, <3>6
  <2> QED
    BY <2>1, <2>2
<1>10. Filed'
  <2>1. tables_start' \in Nat \ {0} /\ Starts' \subseteq 1 .. tables_start' - 1
    <3>1. \A s \in Starts : s \in Nat /\ s >= 1
      BY DEF Filed
    <3> QED
      BY <1>3, <1>7, <1>12, <1>8, <3>1
  <2>2. ASSUME NEW s \in Starts', NEW t \in Starts'
        PROVE  /\ s < t => EndOf(s)' <= t
               /\ minRecordToContaimentLabel'[s] = minRecordToContaimentLabel'[t] => s = t
    <3>1. \A r \in Starts : minRecordToContaimentLabel[r] # l
      BY DEF Starts, Range
    <3>2. CASE s \in Starts /\ t \in Starts
      BY <1>7, <1>8, <1>9, <3>2 DEF Filed
    <3>3. CASE s \in Starts /\ t = S
      BY <1>8, <1>9, <3>1, <3>3
    <3>4. CASE s = S /\ t \in Starts
      BY <1>7, <1>12, <1>8, <3>1, <3>4
    <3> QED
      BY <1>7, <1>12, <1>8, <3>2, <3>3, <3>4
  <2>3. ASSUME NEW s \in Starts'
        PROVE  /\ minRecordToContaimentLabel'[s] \in DOMAIN phis'
               /\ EndOf(s)' <= tables_start'
    BY <1>3, <1>5, <1>7, <1>12, <1>8, <1>9 DEF Filed
  <2>4. ASSUME NEW k \in 1 .. tables_start' - 1
        PROVE  \E s \in Starts' : s <= k /\ k < EndOf(s)'
    <3>1. CASE k < S
      <4>1. k \in 1 .. S - 1
        BY <1>7, <1>12, <3>1
      <4>2. PICK s \in Starts : s <= k /\ k < EndOf(s)
        BY <1>7, <4>1 DEF Filed
      <4> QED
        BY <1>8, <1>9, <4>2
    <3>2. CASE ~(k < S)
      BY <1>3, <1>7, <1>12, <1>8, <1>9, <3>2
    <3> QED
      BY <3>1, <3>2
  <2> QED
    BY <2>1, <2>2, <2>3, <2>4 DEF Filed
<1>11. Shape' /\ FiledWhen'
  BY <1>2 DEF Shape, FiledWhen, loading, builders, Rows
<1> QED
  BY <1>6, <1>10, <1>11

\* The invariant holds at first and is kept by every step.
LEMMA StorageIsInvariant == Spec => []StorageInv
<1>1. Init => StorageInv
  BY InitStorage
<1>2. StorageInv /\ [Next]_vars => StorageInv'
  <2> SUFFICES ASSUME StorageInv, [Next]_vars PROVE StorageInv'
    OBVIOUS
  <2>1. CASE convert
    BY <2>1, ConvertStep
  <2>2. CASE loadObject
    BY <2>2, LoadStep
  <2>3. CASE loadUnknown \/ nextGraph
    BY <2>3, PassingStep
  <2>4. CASE layOutRegistry
    BY <2>4, LayOutStep
  <2>5. CASE indexContainment
    BY <2>5, ContainmentStep
  <2>6. CASE indexProperties \/ indexing2
    BY <2>6, IndexStep
  <2>7. CASE UNCHANGED vars
    <3>1. Shape'
      BY <2>7 DEF StorageInv, Shape, vars, loading, builders, Rows
    <3>2. Lists' /\ Filed' /\ FiledWhen'
      <4>1. UNCHANGED <<phis, records, pc, registry>>
        BY <2>7 DEF vars
      <4> QED
        BY <4>1, SameTables DEF StorageInv
    <3> QED
      BY <3>1, <3>2 DEF StorageInv
  <2> QED
    BY <2>1, <2>2, <2>3, <2>4, <2>5, <2>6, <2>7 DEF Next, terminated
<1> QED
  BY <1>1, <1>2, PTL DEF Spec

-----------------------------------------------------------------------------
(* The theorems.                                                           *)

\* The storage stays well typed, for every database, every set of labels and of
\* keys: in particular every row of the registry has a label of the map.
THEOREM StorageTyping == Spec => []TypeOK
<1>1. StorageInv => TypeOK
  <2> SUFFICES ASSUME StorageInv PROVE TypeOK
    OBVIOUS
  <2>1. Range(minRecordToContaimentLabel) \subseteq DOMAIN phis
    BY DEF StorageInv, Filed, Starts, Range
  <2> QED
    BY <2>1 DEF StorageInv, Shape, Lists, TypeOK
<1> QED
  BY <1>1, StorageIsInvariant, PTL

\* Record identifiers name the rows of the containment tables, however many
\* tables there are and in whatever order they were filed.
THEOREM RecordNames == Spec => []RecordsAreNames
<1>1. StorageInv => RecordsAreNames
  <2> SUFFICES ASSUME StorageInv PROVE RecordsAreNames
    OBVIOUS
  <2>1. CASE pc = "indexed"
    <3>1. DOMAIN phis = Range(minRecordToContaimentLabel)
      BY <2>1 DEF StorageInv, FiledWhen
    <3> QED
      BY <2>1, <3>1, FiledRecords DEF StorageInv
  <2>2. CASE pc # "indexed"
    BY <2>2 DEF RecordsAreNames
  <2> QED
    BY <2>1, <2>2
<1> QED
  BY <1>1, StorageIsInvariant, PTL

-----------------------------------------------------------------------------
(* Numbers for identifiers.                                                *)

\* Different identifiers get different numbers.
LEMMA NumbersDiffer ==
  ASSUME NEW T, NEW ids \in Seq(T), NEW x \in Range(ids), NEW y \in Range(ids),
         NumberIn(ids, x) = NumberIn(ids, y)
  PROVE  x = y
<1> DEFINE S(n) == {ids[j] : j \in 1 .. n}
<1>1. ASSUME NEW u \in Range(ids), NEW v \in Range(ids), FirstPlace(ids, u) < FirstPlace(ids, v)
      PROVE  NumberIn(ids, u) # NumberIn(ids, v)
  <2> DEFINE m == FirstPlace(ids, u)
             n == FirstPlace(ids, v)
  <2>1. /\ m \in Nat /\ n \in Nat /\ n \in DOMAIN ids /\ ids[n] = v
        /\ \A j \in 1 .. n - 1 : ids[j] # v
    BY FirstPlaceIs
  <2>2. S(m) \subseteq S(n)
    <3>1. \A j \in 1 .. m : j \in 1 .. n
      BY <1>1, <2>1
    <3> QED
      BY <3>1
  <2>3. v \in S(n)
    <3>1. n \in 1 .. n
      BY <2>1
    <3> HIDE DEF n
    <3> QED
      BY <2>1, <3>1
  <2>4. v \notin S(m)
    <3>1. \A j \in 1 .. m : j \in 1 .. n - 1
      BY <1>1, <2>1
    <3> HIDE DEF m, n
    <3> QED
      BY <2>1, <3>1
  <2>5. IsFiniteSet(S(n))
    BY <2>1, PrefixFinite
  <2>6. NumberIn(ids, u) = Cardinality(S(m)) /\ NumberIn(ids, v) = Cardinality(S(n))
    BY DEF NumberIn
  <2>7. Cardinality(S(n)) = Cardinality(S(m)) => S(n) = S(m)
    <3> HIDE DEF S
    <3> QED
      BY <2>2, <2>5, FS_Subset
  <2> HIDE DEF S, m, n
  <2> QED
    BY <2>3, <2>4, <2>6, <2>7
<1>2. /\ FirstPlace(ids, x) \in Nat /\ FirstPlace(ids, y) \in Nat
      /\ ids[FirstPlace(ids, x)] = x /\ ids[FirstPlace(ids, y)] = y
  BY FirstPlaceIs
<1> HIDE DEF S
<1>3. FirstPlace(ids, x) = FirstPlace(ids, y)
  BY <1>1, <1>2
<1> QED
  BY <1>2, <1>3

\* Numbers run from 1 to how many identifiers there are.
LEMMA NumbersBound ==
  ASSUME NEW T, NEW ids \in Seq(T), NEW x \in Range(ids)
  PROVE  IsFiniteSet(Range(ids)) /\ NumberIn(ids, x) \in 1 .. Cardinality(Range(ids))
<1> DEFINE n == FirstPlace(ids, x)
           S == {ids[j] : j \in 1 .. n}
<1>1. n \in DOMAIN ids /\ n \in Nat /\ ids[n] = x /\ DOMAIN ids = 1 .. Len(ids) /\ Len(ids) \in Nat
  BY FirstPlaceIs
<1>2. S \subseteq Range(ids) /\ x \in S
  <2>1. \A j \in 1 .. n : j \in DOMAIN ids
    BY <1>1
  <2>2. n \in 1 .. n
    BY <1>1
  <2> HIDE DEF n
  <2> QED
    BY <1>1, <2>1, <2>2 DEF Range
<1>3. IsFiniteSet(Range(ids))
  BY FiniteRange
<1>4. NumberIn(ids, x) = Cardinality(S)
  BY DEF NumberIn
<1> HIDE DEF S
<1>5. IsFiniteSet(S) /\ Cardinality(S) <= Cardinality(Range(ids))
  BY <1>2, <1>3, FS_Subset
<1>6. Cardinality(S) # 0 /\ Cardinality(S) \in Nat /\ Cardinality(Range(ids)) \in Nat
  BY <1>2, <1>3, <1>5, FS_EmptySet, FS_CardinalityType
<1> QED
  BY <1>3, <1>4, <1>5, <1>6

\* As many numbers below as identifiers: all are taken.
LEMMA NumbersFill ==
  ASSUME NEW n \in Nat, NEW f \in [1 .. n -> 1 .. n],
         \A i, j \in 1 .. n : f[i] = f[j] => i = j
  PROVE  \A k \in 1 .. n : \E i \in 1 .. n : f[i] = k
<1>1. f \in Injection(1 .. n, 1 .. n)
  BY DEF Injection, IsInjective
<1>2. IsFiniteSet(1 .. n)
  BY FS_Interval
<1>3. f \in Surjection(1 .. n, 1 .. n)
  BY <1>1, <1>2, FS_Injection
<1> QED
  BY <1>3 DEF Surjection

\* Identifiers stay different when they become numbers, and those of a graph that
\* refers to its own objects become the first numbers.
LEMMA NumberedIsDense ==
  ASSUME NEW g, IsGraph(g), Identifies(g), NEW order \in [DOMAIN g -> SetToSeqs(PhiLabels)],
         NEW h, h = WithNumbers(g, Mentioned(g, order))
  PROVE  /\ DOMAIN h = DOMAIN g /\ Identifies(h)
         /\ Closed(h) => {h[i].id : i \in DOMAIN h} = 1 .. Len(h)
<1>1. PICK ids \in Seq(Nat) : ids = Mentioned(g, order)
  BY AllMentioned
<1>2. /\ \A i \in DOMAIN g :
           /\ g[i].id \in Range(ids)
           /\ \A l \in DOMAIN g[i].phi : \A j \in DOMAIN g[i].phi[l] : g[i].phi[l][j][2] \in Range(ids)
      /\ \A x \in Range(ids) : \E i \in DOMAIN g :
           \/ x = g[i].id
           \/ \E l \in DOMAIN g[i].phi : \E j \in DOMAIN g[i].phi[l] : x = g[i].phi[l][j][2]
  BY <1>1, AllMentioned
<1>3. h = WithNumbers(g, ids)
  BY <1>1
<1>4. /\ IsGraph(h) /\ DOMAIN h = DOMAIN g
      /\ \A i \in DOMAIN g :
           /\ h[i].id = NumberIn(ids, g[i].id)
           /\ DOMAIN h[i].phi = DOMAIN g[i].phi
           /\ \A l \in DOMAIN g[i].phi :
                /\ DOMAIN h[i].phi[l] = DOMAIN g[i].phi[l]
                /\ \A j \in DOMAIN g[i].phi[l] : h[i].phi[l][j][2] = NumberIn(ids, g[i].phi[l][j][2])
  BY <1>2, <1>3, NumberedGraph
<1>5. ASSUME NEW x \in Range(ids), NEW y \in Range(ids), NumberIn(ids, x) = NumberIn(ids, y)
      PROVE  x = y
  BY <1>5, NumbersDiffer
<1>6. Identifies(h)
  BY <1>2, <1>4, <1>5 DEF Identifies
<1>7. ASSUME Closed(h) PROVE {h[i].id : i \in DOMAIN h} = 1 .. Len(h)
  <2> DEFINE n == Len(g)
             names == [i \in 1 .. n |-> g[i].id]
             f == [i \in 1 .. n |-> h[i].id]
  <2>1. n \in Nat /\ DOMAIN g = 1 .. n /\ Len(h) = n
    BY <1>4, GraphParts
  <2>2. ASSUME NEW x \in Range(ids) PROVE \E i \in DOMAIN g : x = g[i].id
    <3>1. PICK i \in DOMAIN g :
            \/ x = g[i].id
            \/ \E l \in DOMAIN g[i].phi : \E j \in DOMAIN g[i].phi[l] : x = g[i].phi[l][j][2]
      BY <1>2
    <3>2. CASE x # g[i].id
      <4>1. PICK l \in DOMAIN g[i].phi : \E j \in DOMAIN g[i].phi[l] : x = g[i].phi[l][j][2]
        BY <3>1, <3>2
      <4>2. PICK j \in DOMAIN g[i].phi[l] : x = g[i].phi[l][j][2]
        BY <4>1
      <4>3. h[i].phi[l][j][2] \in {h[k].id : k \in DOMAIN h}
        BY <1>4, <1>7 DEF Closed
      <4>4. PICK k \in DOMAIN g : h[i].phi[l][j][2] = h[k].id
        BY <1>4, <4>3
      <4>5. NumberIn(ids, x) = NumberIn(ids, g[k].id)
        BY <1>4, <4>2, <4>4
      <4> QED
        BY <1>2, <1>5, <4>5
    <3> QED
      BY <3>2
  <2>3. Cardinality(Range(ids)) <= n
    <3>1. names \in Surjection(1 .. n, Range(ids))
      BY <1>2, <2>1, <2>2 DEF Surjection
    <3> HIDE DEF names, n
    <3>2. IsFiniteSet(1 .. n) /\ Cardinality(1 .. n) = n
      BY <2>1, FS_Interval
    <3> QED
      BY <3>1, <3>2, FS_Surjection
  <2>4. f \in [1 .. n -> 1 .. n]
    <3>1. ASSUME NEW i \in 1 .. n PROVE h[i].id \in 1 .. n
      <4>1. h[i].id = NumberIn(ids, g[i].id) /\ g[i].id \in Range(ids)
        BY <1>2, <1>4, <2>1
      <4>2. h[i].id \in 1 .. Cardinality(Range(ids)) /\ IsFiniteSet(Range(ids))
        BY <4>1, NumbersBound
      <4>3. Cardinality(Range(ids)) \in Nat
        BY <4>2, FS_CardinalityType
      <4> HIDE DEF n
      <4> QED
        BY <2>1, <2>3, <4>2, <4>3
    <3> QED
      BY <3>1
  <2>5. \A i, j \in 1 .. n : f[i] = f[j] => i = j
    BY <1>4, <1>6, <2>1 DEF Identifies
  <2>6. \A i \in 1 .. n : i \in DOMAIN h /\ f[i] = h[i].id
    BY <1>4, <2>1
  <2> HIDE DEF f
  <2>7. \A k \in 1 .. n : \E i \in 1 .. n : f[i] = k
    <3> HIDE DEF n
    <3>1. n \in Nat
      BY <2>1
    <3> QED
      BY <2>4, <2>5, <3>1, NumbersFill, Zenon
  <2>8. \A i \in DOMAIN h : h[i].id \in 1 .. n
    <3> HIDE DEF n
    <3> QED
      BY <1>4, <2>1, <2>4, <2>6
  <2>9. Len(h) = n
    BY <2>1
  <2> HIDE DEF n
  <2>10. {h[i].id : i \in DOMAIN h} = 1 .. n
    BY <1>4, <2>6, <2>7, <2>8
  <2> QED
    BY <2>9, <2>10
<1> QED
  BY <1>4, <1>6, <1>7

-----------------------------------------------------------------------------
(* The objects: what is said of them from loading to reading.              *)

\* The objects that have been loaded, by their places, and their names: a name is
\* what the tables have for an object: its graph and its identifier.
Loaded == {p \in Places : p[1] < graph \/ (p[1] = graph /\ p[2] <= pos)}
objectAt(p) == db[p[1]][p[2]]
nameAt(p) == <<p[1], objectAt(p).id>>

\* The objects of a graph have identifiers of their own.
Identified == \A g \in DOMAIN db : Identifies(db[g])

\* Nothing is loaded before identifiers are numbers, and all is before tables are laid out.
Progress ==
  /\ pc = "convert" => graph = 1 /\ pos = 0
  /\ pc \in {"containment", "links", "indexed"} => graph = Len(db) + 1
  /\ pos # 0 => graph \in DOMAIN db /\ pos <= Len(db[graph])

\* What is filed under its label: the loaded objects, each once.
BuilderHolds ==
  /\ \A a \in DOMAIN builder : \A j \in DOMAIN builder[a] : \E p \in Loaded :
        builder[a][j] = nameAt(p) /\ label_map[a] = firstLabel(objectAt(p))
  /\ \A p \in Loaded : \E a \in DOMAIN builder : \E j \in DOMAIN builder[a] :
        builder[a][j] = nameAt(p)
  /\ \A a, b \in DOMAIN builder : \A i \in DOMAIN builder[a], j \in DOMAIN builder[b] :
        builder[a][i] = builder[b][j] => a = b /\ i = j
  /\ \A a, b \in DOMAIN label_map : label_map[a] = label_map[b] => a = b
  /\ IF Loaded = {} THEN label_map = <<NoLabel>> ELSE Len(builder) = Len(label_map)

\* While objects are loaded, the lists of their identifiers.
TracesHold ==
  pc \in {"convert", "load"} =>
    /\ traces \in Seq(Seq(Nat))
    /\ \A g \in DOMAIN traces : 1 \in DOMAIN traces[g]
    /\ \A g, i \in Nat : <<g, i>> \in Loaded <=> g \in DOMAIN traces /\ i \in DOMAIN traces[g]
    /\ \A g \in DOMAIN traces : \A i \in DOMAIN traces[g] : traces[g][i] = db[g][i].id

\* The values of a key are those of loaded objects.
ElementsHold ==
  \A k \in Keys :
    /\ elements[k] \in Seq(Nat \X Nat \X Nat \X Nat)
    /\ \A i \in DOMAIN elements[k] : \E p \in Loaded :
         <<elements[k][i][3], elements[k][i][4]>> = nameAt(p)

\* The name of the object that has row r.
nameIn(table, r) == <<table[r].graph, table[r].event>>

\* Once the registry is laid out, its rows are the objects.
RegistryHolds ==
  pc \in {"containment", "links", "indexed"} =>
    /\ Rows = 1 .. Len(registry.table) /\ Len(registry.table) \in Nat
    /\ \A r \in Rows : \E p \in Places :
         nameIn(registry.table, r) = nameAt(p) /\ label_map[registry.table[r].l0] = firstLabel(objectAt(p))
    /\ \A p \in Places : \E r \in Rows : nameIn(registry.table, r) = nameAt(p)
    /\ \A r, s \in Rows : nameIn(registry.table, r) = nameIn(registry.table, s) => r = s
    /\ \A g \in DOMAIN traces : IsSeq(traces[g])
    /\ \A g \in DOMAIN traces : \A x \in DOMAIN traces[g] :
         traces[g][x] \in Rows /\ nameIn(registry.table, traces[g][x]) = <<g, x>>
    /\ \A p \in Places : p[1] \in DOMAIN traces /\ objectAt(p).id \in DOMAIN traces[p[1]]
    /\ DOMAIN registry.primary = DOMAIN builder
    /\ \A a \in DOMAIN builder :
         {r \in Rows : registry.table[r].l0 = a} =
           registry.primary[a] .. (IF a = Len(registry.primary) THEN Len(registry.table)
                                   ELSE registry.primary[a + 1] - 1)

\* The last row of a property table about each row of the registry, and about each name.
LastByRow(table) ==
  [o \in {table[r][3] : r \in DOMAIN table} |-> Greatest({r \in DOMAIN table : table[r][3] = o})]

LastByName(rows, table) ==
  [h \in {nameIn(rows, table[r][3]) : r \in DOMAIN table} |->
     Greatest({r \in DOMAIN table : nameIn(rows, table[r][3]) = h})]

\* Once a property table is indexed, its rows are about rows of the registry, and
\* both its indices give the last row about each of them.
AttrsHold ==
  pc \in {"links", "indexed"} =>
    \A k \in DOMAIN attrs :
      /\ \A i \in DOMAIN attrs[k].table : attrs[k].table[i][3] \in Rows
      /\ attrs[k].secondary = LastByRow(attrs[k].table)
      /\ attrs[k].secondary2 = LastByName(registry.table, attrs[k].table)

\* Once the registry is indexed, an object is linked to those of its graph with the
\* identifiers next to its own.
LinksHold ==
  pc = "indexed" =>
    /\ registry.secondary = [g \in DOMAIN traces |-> <<traces[g][1], Last(traces[g])>>]
    /\ registry.next = Links(1)
    /\ registry.prev = Links(-1)

\* The inductive invariant of the objects, next to StorageInv.
ObjectsInv ==
  /\ Identified /\ IdentifiersAreDense /\ Progress /\ BuilderHolds /\ TracesHold
  /\ ElementsHold /\ RegistryHolds /\ AttrsHold /\ LinksHold

-----------------------------------------------------------------------------
(* What holds at first, and after convert.                                 *)

\* The loaded objects are some of the database's, whose lists are numbered from 1.
LEMMA PlacesAre ==
  ASSUME Shape
  PROVE  /\ DOMAIN db = 1 .. Len(db) /\ Len(db) \in Nat
         /\ graph \in Nat /\ pos \in Nat
         /\ \A g \in DOMAIN db : DOMAIN db[g] = 1 .. Len(db[g]) /\ Len(db[g]) \in Nat
         /\ \A g, i : <<g, i>> \in Places <=> g \in DOMAIN db /\ i \in DOMAIN db[g]
         /\ \A p \in Places : p = <<p[1], p[2]>> /\ p[1] \in DOMAIN db /\ p[2] \in DOMAIN db[p[1]]
         /\ \A p \in Places : objectAt(p).id \in Nat /\ objectAt(p).ell \in Seq(Labels)
<1>1. DOMAIN db = 1 .. Len(db) /\ Len(db) \in Nat
  BY DEF Shape, IsDatabase, IsSeq
<1>2. \A g \in DOMAIN db : IsGraph(db[g])
  BY DEF Shape, IsDatabase
<1>3. \A g \in DOMAIN db : DOMAIN db[g] = 1 .. Len(db[g]) /\ Len(db[g]) \in Nat
  BY <1>2, GraphParts
<1>4. \A g, i : <<g, i>> \in Places <=> g \in DOMAIN db /\ i \in DOMAIN db[g]
  BY DEF Places
<1>5. \A p \in Places : p = <<p[1], p[2]>> /\ p[1] \in DOMAIN db /\ p[2] \in DOMAIN db[p[1]]
  BY DEF Places
<1>6. ASSUME NEW p \in Places
      PROVE  objectAt(p).id \in Nat /\ objectAt(p).ell \in Seq(Labels)
  BY <1>2, <1>5, GraphParts DEF objectAt
<1> QED
  BY <1>1, <1>3, <1>4, <1>5, <1>6 DEF Shape

\* No two objects have the same name.
LEMMA NamesDiffer ==
  ASSUME Shape, Identified, NEW p \in Places, NEW q \in Places, nameAt(p) = nameAt(q)
  PROVE  p = q
<1>1. p[1] = q[1] /\ db[p[1]][p[2]].id = db[q[1]][q[2]].id
  BY DEF nameAt, objectAt
<1>2. p = <<p[1], p[2]>> /\ q = <<q[1], q[2]>> /\ p[1] \in DOMAIN db
      /\ p[2] \in DOMAIN db[p[1]] /\ q[2] \in DOMAIN db[q[1]]
  BY PlacesAre
<1>3. p[2] = q[2]
  BY <1>1, <1>2 DEF Identified, Identifies
<1> QED
  BY <1>1, <1>2, <1>3

\* Nothing is loaded at first.
LEMMA NothingLoaded ==
  ASSUME Shape, graph = 1, pos = 0
  PROVE  Loaded = {}
<1>1. ASSUME NEW p \in Loaded PROVE FALSE
  <2>1. p \in Places /\ (p[1] < 1 \/ (p[1] = 1 /\ p[2] <= 0))
    BY DEF Loaded
  <2>2. p[1] \in Nat \ {0} /\ p[2] \in Nat \ {0}
    BY <2>1, PlacesAre
  <2> QED
    BY <2>1, <2>2
<1> QED
  BY <1>1

\* At first, what is said of the objects is said of none.
LEMMA InitObjects ==
  Init => ObjectsInv
<1> SUFFICES ASSUME Init PROVE ObjectsInv
  OBVIOUS
<1>1. Shape
  BY InitStorage DEF StorageInv
<1>2. graph = 1 /\ pos = 0 /\ Loaded = {}
  BY <1>1, NothingLoaded DEF Init
<1>3. Identified
  BY ObjectsAreIdentified DEF Init, Identified
<1>4. IdentifiersAreDense
  BY FilesAreNumbered DEF Init, IdentifiersAreDense
<1>5. Progress
  BY <1>2 DEF Init, Progress
<1>6. BuilderHolds
  <2>1. DOMAIN builder = {} /\ label_map = <<NoLabel>> /\ DOMAIN label_map = {1}
    BY DEF Init
  <2> QED
    BY <1>2, <2>1 DEF BuilderHolds
<1>7. TracesHold
  <2>1. traces = <<>> /\ DOMAIN traces = {} /\ traces \in Seq(Seq(Nat))
    BY DEF Init
  <2> QED
    BY <1>2, <2>1 DEF TracesHold
<1>8. ElementsHold
  <2>1. \A k \in Keys : elements[k] = <<>>
    BY DEF Init
  <2>2. <<>> \in Seq(Nat \X Nat \X Nat \X Nat) /\ DOMAIN <<>> = {}
    OBVIOUS
  <2> QED
    BY <2>1, <2>2 DEF ElementsHold
<1>9. RegistryHolds /\ AttrsHold /\ LinksHold
  BY DEF Init, RegistryHolds, AttrsHold, LinksHold
<1> QED
  BY <1>3, <1>4, <1>5, <1>6, <1>7, <1>8, <1>9 DEF ObjectsInv

\* Numbers for identifiers.
LEMMA ConvertObjects ==
  ASSUME StorageInv, StorageInv', ObjectsInv, convert
  PROVE  ObjectsInv'
<1>1. PICK order \in [Places -> SetToSeqs(PhiLabels)] :
        db' = [g \in DOMAIN db |->
                 WithNumbers(db[g], Mentioned(db[g], [i \in DOMAIN db[g] |-> order[<<g, i>>]]))]
  BY DEF convert
<1>2. ASSUME NEW g \in DOMAIN db
      PROVE  /\ DOMAIN db'[g] = DOMAIN db[g]
             /\ Identifies(db'[g]) /\ (Closed(db'[g]) => {db'[g][i].id : i \in DOMAIN db'[g]} = 1 .. Len(db'[g]))
  <2> DEFINE o == [i \in DOMAIN db[g] |-> order[<<g, i>>]]
             h == db'[g]
  <2>1. IsGraph(db[g]) /\ Identifies(db[g])
    BY DEF StorageInv, Shape, IsDatabase, ObjectsInv, Identified
  <2>2. o \in [DOMAIN db[g] -> SetToSeqs(PhiLabels)]
    <3>1. \A i \in DOMAIN db[g] : <<g, i>> \in Places
      BY DEF Places
    <3> QED
      BY <3>1
  <2>3. h = WithNumbers(db[g], Mentioned(db[g], o))
    BY <1>1
  <2> HIDE DEF o, h
  <2>4. DOMAIN h = DOMAIN db[g] /\ Identifies(h) /\ (Closed(h) => {h[i].id : i \in DOMAIN h} = 1 .. Len(h))
    BY <2>1, <2>2, <2>3, NumberedIsDense
  <2> QED
    BY <2>4 DEF h
<1>3. DOMAIN db' = DOMAIN db
  BY <1>1
<1>4. Identified' /\ IdentifiersAreDense'
  BY <1>2, <1>3 DEF Identified, IdentifiersAreDense
<1>5. /\ pc = "convert" /\ pc' = "load"
      /\ UNCHANGED <<graph, pos, label_map, builder, traces, elements, registry, attrs>>
  BY DEF convert, builders
<1>6. graph = 1 /\ pos = 0
  BY <1>5 DEF ObjectsInv, Progress
<1>7. Loaded = {} /\ Loaded' = {}
  <2>1. Shape /\ Shape'
    BY DEF StorageInv
  <2>2. Places' = Places
    BY <1>2, <1>3 DEF Places
  <2>3. Loaded = {}
    BY <1>6, <2>1, NothingLoaded
  <2>4. Loaded' = Loaded
    BY <1>5, <2>2 DEF Loaded
  <2> QED
    BY <2>3, <2>4
<1>8. Progress'
  BY <1>5, <1>6 DEF Progress
<1>9. BuilderHolds'
  <2>1. /\ \A a \in DOMAIN builder : \A j \in DOMAIN builder[a] : FALSE
        /\ \A a, b \in DOMAIN label_map : label_map[a] = label_map[b] => a = b
        /\ label_map = <<NoLabel>>
    BY <1>7 DEF ObjectsInv, BuilderHolds
  <2> QED
    BY <1>5, <1>7, <2>1 DEF BuilderHolds
<1>10. TracesHold'
  <2>1. /\ traces \in Seq(Seq(Nat))
        /\ \A g \in DOMAIN traces : 1 \in DOMAIN traces[g]
        /\ \A g, i \in Nat : ~(g \in DOMAIN traces /\ i \in DOMAIN traces[g])
    BY <1>5, <1>7 DEF ObjectsInv, TracesHold
  <2>2. \A g \in DOMAIN traces : g \in Nat
    BY <2>1
  <2>3. DOMAIN traces = {}
    BY <2>1, <2>2
  <2> QED
    BY <1>5, <1>7, <2>1, <2>3 DEF TracesHold
<1>11. ElementsHold'
  <2>1. \A k \in Keys : elements[k] \in Seq(Nat \X Nat \X Nat \X Nat) /\ \A i \in DOMAIN elements[k] : FALSE
    BY <1>7 DEF ObjectsInv, ElementsHold
  <2> QED
    BY <1>5, <1>7, <2>1 DEF ElementsHold
<1>12. RegistryHolds' /\ AttrsHold' /\ LinksHold'
  BY <1>5 DEF RegistryHolds, AttrsHold, LinksHold
<1> QED
  BY <1>4, <1>8, <1>9, <1>10, <1>11, <1>12 DEF ObjectsInv

-----------------------------------------------------------------------------
(* Loading.                                                                *)

\* How load_record files x.
FiledIn(b, a, x) == [resize(b, a) EXCEPT ![a] = Append(@, x)]

\* c is b with x as its one new entry, in list a.
AddsOne(b, a, x, c) ==
  /\ DOMAIN c = 1 .. Len(c) /\ Len(c) = IF a > Len(b) THEN a ELSE Len(b)
  /\ \A i \in DOMAIN b : i \in DOMAIN c /\
       \A j \in DOMAIN b[i] : j \in DOMAIN c[i] /\ c[i][j] = b[i][j]
  /\ \E n : /\ a \in DOMAIN c /\ n \in DOMAIN c[a] /\ c[a][n] = x
            /\ \A i \in DOMAIN c : \A j \in DOMAIN c[i] :
                 \/ i = a /\ j = n
                 \/ i \in DOMAIN b /\ j \in DOMAIN b[i] /\ c[i][j] = b[i][j]

\* What is filed is added.
LEMMA FiledUnder ==
  ASSUME NEW T, NEW b \in Seq(Seq(T)), NEW a \in Nat \ {0}, NEW x \in T,
         NEW c, c = FiledIn(b, a, x)
  PROVE  AddsOne(b, a, x, c)
<1> DEFINE more == [i \in 1 .. a - Len(b) |-> <<>>]
           m == IF a > Len(b) THEN a - Len(b) ELSE 0
           w == resize(b, a)
<1>1. Len(b) \in Nat /\ m \in Nat /\ 1 .. a - Len(b) = 1 .. m /\ DOMAIN b = 1 .. Len(b)
  OBVIOUS
<1>2. more \in Seq(Seq(T)) /\ Len(more) = m /\ \A i \in 1 .. m : more[i] = <<>>
  <2>1. more = [i \in 1 .. m |-> <<>>]
    BY <1>1
  <2> HIDE DEF more, m
  <2> QED
    BY <1>1, <2>1
<1>3. w = b \o more
  BY DEF resize
<1> HIDE DEF more
<1>4. /\ w \in Seq(Seq(T)) /\ Len(w) = Len(b) + m
      /\ \A i \in 1 .. Len(b) : w[i] = b[i]
      /\ \A i \in 1 .. m : w[Len(b) + i] = <<>>
  <2> DEFINE L == Seq(T)
  <2>1. b \in Seq(L) /\ more \in Seq(L)
    BY <1>2
  <2> HIDE DEF m, L, w
  <2>2. /\ w \in Seq(L) /\ Len(w) = Len(b) + Len(more)
        /\ \A i \in 1 .. Len(b) : w[i] = b[i]
        /\ \A i \in 1 .. Len(more) : w[Len(b) + i] = more[i]
    BY <1>3, <2>1, TwoLists
  <2> QED
    BY <1>2, <2>2 DEF L
<1>5. \A i \in 1 .. Len(w) : w[i] = IF i \in DOMAIN b THEN b[i] ELSE <<>>
  <2>1. ASSUME NEW i \in 1 .. Len(w), i \notin DOMAIN b PROVE w[i] = <<>>
    <3>1. i - Len(b) \in 1 .. m /\ Len(b) + (i - Len(b)) = i
      <4>1. i \in 1 .. Len(b) + m /\ ~(i \in 1 .. Len(b))
        BY <1>1, <1>4, <2>1
      <4> HIDE DEF w, m
      <4> QED
        BY <1>1, <4>1, SMTT(30)
    <3> HIDE DEF w, m
    <3> QED
      BY <1>4, <3>1
  <2> HIDE DEF w, m
  <2> QED
    BY <1>1, <1>4, <2>1
<1>6. Len(w) = (IF a > Len(b) THEN a ELSE Len(b)) /\ a \in 1 .. Len(w) /\ Len(w) \in Nat
  <2> DEFINE n == Len(w)
  <2>1. n = Len(b) + m /\ Len(b) \in Nat
    BY <1>1, <1>4
  <2> HIDE DEF n
  <2> QED
    BY <2>1, SMTT(30) DEF n
<1> HIDE DEF m, w
<1>7. /\ DOMAIN c = 1 .. Len(w)
      /\ \A i \in 1 .. Len(w) : c[i] = IF i = a THEN Append(w[a], x) ELSE w[i]
  <2>1. c = [w EXCEPT ![a] = Append(w[a], x)]
    BY DEF w, FiledIn
  <2>2. DOMAIN w = 1 .. Len(w)
    BY <1>4
  <2> QED
    BY <2>1, <2>2
<1>8. Len(c) = Len(w)
  BY <1>6, <1>7
<1>9. w[a] \in Seq(T)
  BY <1>4, <1>6
<1> DEFINE k == Len(w[a])
<1>10. /\ k \in Nat /\ DOMAIN w[a] = 1 .. k /\ DOMAIN Append(w[a], x) = 1 .. k + 1
       /\ Append(w[a], x)[k + 1] = x /\ \A j \in 1 .. k : Append(w[a], x)[j] = w[a][j]
  BY <1>9
<1>11. ASSUME NEW i \in DOMAIN b
       PROVE  i \in DOMAIN c /\ \A j \in DOMAIN b[i] : j \in DOMAIN c[i] /\ c[i][j] = b[i][j]
  <2>1. i \in 1 .. Len(w) /\ w[i] = b[i]
    <3>1. i \in 1 .. Len(b)
      BY <1>1
    <3> QED
      BY <1>1, <1>4, <3>1
  <2>2. CASE i = a
    <3>1. c[i] = Append(w[a], x) /\ b[i] = w[a]
      BY <1>7, <2>1, <2>2
    <3> HIDE DEF k
    <3> QED
      BY <1>7, <1>10, <2>1, <3>1
  <2>3. CASE i # a
    BY <1>7, <2>1, <2>3
  <2> QED
    BY <2>2, <2>3
<1>12. /\ a \in DOMAIN c /\ k + 1 \in DOMAIN c[a] /\ c[a][k + 1] = x
  <2> HIDE DEF k
  <2>1. a \in DOMAIN c /\ c[a] = Append(w[a], x)
    BY <1>6, <1>7
  <2>2. k + 1 \in DOMAIN Append(w[a], x)
    BY <1>10
  <2> QED
    BY <1>10, <2>1, <2>2
<1>13. ASSUME NEW i \in DOMAIN c, NEW j \in DOMAIN c[i]
       PROVE  \/ i = a /\ j = k + 1
              \/ i \in DOMAIN b /\ j \in DOMAIN b[i] /\ c[i][j] = b[i][j]
  <2>1. i \in 1 .. Len(w)
    BY <1>7
  <2>2. ASSUME NEW y \in DOMAIN w[i] PROVE i \in DOMAIN b /\ w[i] = b[i]
    <3>1. i \notin DOMAIN b => w[i] = <<>>
      BY <1>5, <2>1
    <3>2. DOMAIN <<>> = {}
      OBVIOUS
    <3>3. i \in DOMAIN b
      BY <2>2, <3>1, <3>2
    <3> QED
      BY <1>5, <2>1, <3>3
  <2>3. CASE i = a
    <3>1. c[i] = Append(w[a], x)
      BY <1>7, <2>1, <2>3
    <3>2. j \in 1 .. k + 1
      BY <1>10, <3>1
    <3>3. CASE j # k + 1
      <4>1. j \in 1 .. k
        BY <1>10, <3>2, <3>3
      <4>2. c[i][j] = w[i][j] /\ j \in DOMAIN w[i]
        <5> HIDE DEF k
        <5> QED
          BY <1>10, <2>3, <3>1, <4>1
      <4> QED
        BY <2>2, <4>2
    <3> QED
      BY <2>3, <3>3
  <2>4. CASE i # a
    <3>1. c[i] = w[i]
      BY <1>7, <2>1, <2>4
    <3> QED
      BY <2>2, <3>1
  <2> QED
    BY <2>3, <2>4
<1> HIDE DEF k
<1>14. \E n : /\ a \in DOMAIN c /\ n \in DOMAIN c[a] /\ c[a][n] = x
              /\ \A i \in DOMAIN c : \A j \in DOMAIN c[i] :
                   \/ i = a /\ j = n
                   \/ i \in DOMAIN b /\ j \in DOMAIN b[i] /\ c[i][j] = b[i][j]
  BY <1>12, <1>13
<1>15. DOMAIN c = 1 .. Len(c) /\ Len(c) = IF a > Len(b) THEN a ELSE Len(b)
  BY <1>6, <1>7, <1>8
<1> QED
  BY <1>11, <1>14, <1>15, Zenon DEF AddsOne

\* A map of labels that is extended has the label once, and the others where they were.
LEMMA ExtendedOnce ==
  ASSUME NEW map \in Seq(Labels), NEW l \in Labels,
         \A a, b \in DOMAIN map : map[a] = map[b] => a = b,
         NEW e, e = Extended(map, l)
  PROVE  /\ \A a, b \in DOMAIN e : e[a] = e[b] => a = b
         /\ \A a \in DOMAIN map : a \in DOMAIN e /\ e[a] = map[a]
         /\ IndexOf(e, l) \in DOMAIN e /\ e[IndexOf(e, l)] = l
         /\ \/ Len(e) = Len(map)
            \/ Len(e) = Len(map) + 1 /\ IndexOf(e, l) = Len(e)
<1>1. Len(map) \in Nat /\ DOMAIN map = 1 .. Len(map)
  OBVIOUS
<1>2. ASSUME NEW i \in DOMAIN e, e[i] = l
      PROVE  IndexOf(e, l) \in DOMAIN e /\ e[IndexOf(e, l)] = l
  BY <1>2 DEF IndexOf
<1>3. CASE l \in Range(map)
  <2>1. e = map
    BY <1>3 DEF Extended
  <2>2. PICK i \in DOMAIN e : e[i] = l
    BY <1>3, <2>1 DEF Range
  <2> QED
    BY <1>2, <2>1, <2>2
<1>4. CASE l \notin Range(map)
  <2>1. e = Append(map, l)
    BY <1>4 DEF Extended
  <2>2. Len(e) = Len(map) + 1 /\ DOMAIN e = 1 .. Len(map) + 1
    BY <2>1
  <2>3. e[Len(map) + 1] = l /\ \A i \in 1 .. Len(map) : e[i] = map[i]
    BY <2>1
  <2>4. \A i \in 1 .. Len(map) : e[i] # l
    BY <1>1, <1>4, <2>3 DEF Range
  <2>5. Len(map) + 1 \in DOMAIN e /\ \A i \in DOMAIN e : i \in 1 .. Len(map) \/ i = Len(map) + 1
    BY <1>1, <2>2
  <2>6. IndexOf(e, l) \in DOMAIN e /\ e[IndexOf(e, l)] = l
    BY <1>2, <2>3, <2>5
  <2>7. IndexOf(e, l) = Len(map) + 1
    BY <2>4, <2>5, <2>6
  <2>8. ASSUME NEW a \in DOMAIN e, NEW b \in DOMAIN e, e[a] = e[b] PROVE a = b
    <3>1. CASE a \in 1 .. Len(map) /\ b \in 1 .. Len(map)
      BY <1>1, <2>3, <2>8, <3>1
    <3>2. CASE a = Len(map) + 1 \/ b = Len(map) + 1
      BY <2>3, <2>4, <2>5, <2>8, <3>2
    <3> QED
      BY <2>5, <3>1, <3>2
  <2>9. \A a \in DOMAIN map : a \in DOMAIN e /\ e[a] = map[a]
    BY <1>1, <2>2, <2>3
  <2> QED
    BY <2>2, <2>6, <2>7, <2>8, <2>9
<1> QED
  BY <1>3, <1>4

\* One more object is loaded.
LEMMA OneLoaded ==
  ASSUME StorageInv, loadObject
  PROVE  LET P == <<graph, pos + 1>>
         IN /\ P \in Places /\ P \notin Loaded /\ Loaded' = Loaded \cup {P} /\ Loaded \subseteq Places
            /\ object = objectAt(P) /\ objectAt(P).id \in Nat /\ firstLabel(objectAt(P)) \in Labels
            /\ nameAt(P) = <<graph, objectAt(P).id>>
            /\ nameAt(P) \in Nat \X Nat
            /\ \A p : nameAt(p)' = nameAt(p) /\ objectAt(p)' = objectAt(p)
            /\ graph \in DOMAIN db /\ pos + 1 \in DOMAIN db[graph] /\ Places' = Places
<1> DEFINE P == <<graph, pos + 1>>
<1>1. Shape
  BY DEF StorageInv
<1>2. /\ graph \in DOMAIN db /\ pos < Len(db[graph]) /\ graph' = graph /\ pos' = pos + 1 /\ db' = db
  BY DEF loadObject
<1>3. /\ graph \in Nat /\ pos \in Nat /\ DOMAIN db[graph] = 1 .. Len(db[graph]) /\ Len(db[graph]) \in Nat
  BY <1>1, <1>2, PlacesAre
<1>4. pos + 1 \in DOMAIN db[graph]
  BY <1>2, <1>3
<1>5. P \in Places
  BY <1>1, <1>2, <1>4, PlacesAre
<1>6. Places' = Places
  BY <1>2 DEF Places
<1>7. \A p \in Places : p = <<p[1], p[2]>> /\ p[1] \in Nat /\ p[2] \in Nat
  <2>1. \A p \in Places : p = <<p[1], p[2]>> /\ p[1] \in DOMAIN db /\ p[2] \in DOMAIN db[p[1]]
    BY <1>1, PlacesAre
  <2>2. \A g \in DOMAIN db : g \in Nat /\ \A i \in DOMAIN db[g] : i \in Nat
    BY <1>1, PlacesAre
  <2> QED
    BY <2>1, <2>2
<1>8. P[1] = graph /\ P[2] = pos + 1
  OBVIOUS
<1>9. P \notin Loaded
  BY <1>3, <1>8 DEF Loaded
<1>10. Loaded' = Loaded \cup {P}
  <2>1. \A p \in Places : (p[1] < graph \/ (p[1] = graph /\ p[2] <= pos + 1))
                            <=> (p[1] < graph \/ (p[1] = graph /\ p[2] <= pos)) \/ p = P
    <3> SUFFICES ASSUME NEW p \in Places
                 PROVE  (p[1] < graph \/ (p[1] = graph /\ p[2] <= pos + 1))
                          <=> (p[1] < graph \/ (p[1] = graph /\ p[2] <= pos)) \/ p = P
      OBVIOUS
    <3>1. p[1] \in Nat /\ p[2] \in Nat /\ (p = P <=> p[1] = graph /\ p[2] = pos + 1)
      BY <1>7, <1>8
    <3> HIDE DEF P
    <3> QED
      BY <1>3, <3>1
  <2>2. \A p : p \in Loaded' <=> p \in Places /\ (p[1] < graph \/ (p[1] = graph /\ p[2] <= pos + 1))
    BY <1>2, <1>6 DEF Loaded
  <2>3. \A p : p \in Loaded <=> p \in Places /\ (p[1] < graph \/ (p[1] = graph /\ p[2] <= pos))
    BY DEF Loaded
  <2> HIDE DEF P
  <2> QED
    BY <1>5, <2>1, <2>2, <2>3
<1>11. object = objectAt(P)
  BY <1>8 DEF object, objectAt
<1>12. objectAt(P).id \in Nat /\ objectAt(P).ell \in Seq(Labels)
  BY <1>1, <1>5, PlacesAre
<1>13. firstLabel(objectAt(P)) \in Labels
  BY <1>12, DatabasesAreLists DEF firstLabel
<1>14. nameAt(P) = <<graph, objectAt(P).id>>
  BY <1>8 DEF nameAt
<1>15. \A p : nameAt(p)' = nameAt(p) /\ objectAt(p)' = objectAt(p)
  BY <1>2 DEF nameAt, objectAt
<1>16. nameAt(P) \in Nat \X Nat
  BY <1>3, <1>12, <1>14
<1>17. Loaded \subseteq Places
  BY DEF Loaded
<1> QED
  BY <1>2, <1>4, <1>5, <1>6, <1>9, <1>10, <1>11, <1>12, <1>13, <1>14, <1>15, <1>16, <1>17, Zenon

\* It is filed under its label.
LEMMA LoadBuilder ==
  ASSUME StorageInv, StorageInv', ObjectsInv, loadObject
  PROVE  BuilderHolds'
<1> DEFINE P == <<graph, pos + 1>>
           o == objectAt(P)
           l == firstLabel(o)
           map == Extended(label_map, l)
           act == IndexOf(map, l)
<1>1. /\ P \in Places /\ P \notin Loaded /\ Loaded' = Loaded \cup {P} /\ Loaded \subseteq Places
      /\ object = o /\ o.id \in Nat /\ l \in Labels
      /\ nameAt(P) = <<graph, o.id>> /\ nameAt(P) \in Nat \X Nat
      /\ \A p : nameAt(p)' = nameAt(p) /\ objectAt(p)' = objectAt(p)
  BY OneLoaded
<1>2. label_map' = map /\ builder' = [resize(builder, act) EXCEPT ![act] = Append(@, <<graph, o.id>>)]
  BY <1>1 DEF loadObject, load_record
<1>3. /\ label_map \in Seq(Labels) /\ builder \in Seq(Seq(Nat \X Nat)) /\ Len(builder) <= Len(label_map)
      /\ Len(label_map) \in Nat /\ DOMAIN label_map = 1 .. Len(label_map)
      /\ Len(builder) \in Nat /\ DOMAIN builder = 1 .. Len(builder)
  BY DEF StorageInv, Shape
<1>4. BuilderHolds /\ Shape /\ Identified
  BY DEF ObjectsInv, StorageInv
<1>5. \A a, b \in DOMAIN label_map : label_map[a] = label_map[b] => a = b
  BY <1>4 DEF BuilderHolds
<1> HIDE DEF P, o, l
<1>6. /\ \A a, b \in DOMAIN map : map[a] = map[b] => a = b
      /\ \A a \in DOMAIN label_map : a \in DOMAIN map /\ map[a] = label_map[a]
      /\ act \in DOMAIN map /\ map[act] = l
      /\ \/ Len(map) = Len(label_map)
         \/ Len(map) = Len(label_map) + 1 /\ act = Len(map)
  <2>1. label_map \in Seq(Labels) /\ l \in Labels /\ map = Extended(label_map, l)
    BY <1>1, <1>3
  <2> HIDE DEF map
  <2>2. act = IndexOf(map, l)
    OBVIOUS
  <2> HIDE DEF act
  <2>3. /\ \A a, b \in DOMAIN map : map[a] = map[b] => a = b
        /\ \A a \in DOMAIN label_map : a \in DOMAIN map /\ map[a] = label_map[a]
        /\ IndexOf(map, l) \in DOMAIN map /\ map[IndexOf(map, l)] = l
        /\ \/ Len(map) = Len(label_map)
           \/ Len(map) = Len(label_map) + 1 /\ IndexOf(map, l) = Len(map)
    BY <1>5, <2>1, ExtendedOnce
  <2> QED
    BY <2>2, <2>3
<1>7. map \in Seq(Labels)
  BY <1>1, <1>3, ExtendedMap
<1> HIDE DEF map, act
<1>8. DOMAIN map = 1 .. Len(map) /\ Len(map) \in Nat /\ act \in Nat \ {0} /\ act <= Len(map)
  BY <1>6, <1>7
<1> DEFINE c == builder'
<1>9. /\ DOMAIN c = 1 .. Len(c) /\ Len(c) = IF act > Len(builder) THEN act ELSE Len(builder)
      /\ \A i \in DOMAIN builder : i \in DOMAIN c /\
           \A j \in DOMAIN builder[i] : j \in DOMAIN c[i] /\ c[i][j] = builder[i][j]
      /\ \E n : /\ act \in DOMAIN c /\ n \in DOMAIN c[act] /\ c[act][n] = nameAt(P)
                /\ \A i \in DOMAIN c : \A j \in DOMAIN c[i] :
                     \/ i = act /\ j = n
                     \/ i \in DOMAIN builder /\ j \in DOMAIN builder[i] /\ c[i][j] = builder[i][j]
  <2> DEFINE T == Nat \X Nat
  <2>1. builder \in Seq(Seq(T)) /\ act \in Nat \ {0} /\ nameAt(P) \in T
        /\ c = FiledIn(builder, act, nameAt(P))
    BY <1>1, <1>2, <1>3, <1>8 DEF FiledIn
  <2> HIDE DEF T, c
  <2>2. AddsOne(builder, act, nameAt(P), c)
    BY <2>1, FiledUnder
  <2> QED
    BY <2>2 DEF AddsOne
<1> HIDE DEF c
<1>10. PICK n : /\ act \in DOMAIN c /\ n \in DOMAIN c[act] /\ c[act][n] = nameAt(P)
                /\ \A i \in DOMAIN c : \A j \in DOMAIN c[i] :
                     \/ i = act /\ j = n
                     \/ i \in DOMAIN builder /\ j \in DOMAIN builder[i] /\ c[i][j] = builder[i][j]
  BY <1>9
<1>11. \A i \in DOMAIN builder : i \in DOMAIN label_map
  BY <1>3
<1>12. ASSUME NEW a \in DOMAIN c, NEW j \in DOMAIN c[a]
       PROVE  \E p \in Loaded \cup {P} : c[a][j] = nameAt(p) /\ map[a] = firstLabel(objectAt(p))
  <2>1. CASE a = act /\ j = n
    BY <1>6, <1>10, <2>1 DEF l, o
  <2>2. CASE a \in DOMAIN builder /\ j \in DOMAIN builder[a] /\ c[a][j] = builder[a][j]
    <3>1. PICK p \in Loaded : builder[a][j] = nameAt(p) /\ label_map[a] = firstLabel(objectAt(p))
      BY <1>4, <2>2 DEF BuilderHolds
    <3> QED
      BY <1>6, <1>11, <2>2, <3>1
  <2> QED
    BY <1>10, <2>1, <2>2
<1>13. ASSUME NEW p \in Loaded \cup {P}
       PROVE  \E a \in DOMAIN c : \E j \in DOMAIN c[a] : c[a][j] = nameAt(p)
  <2>1. CASE p = P
    BY <1>10, <2>1
  <2>2. CASE p \in Loaded
    <3>1. PICK a \in DOMAIN builder : \E j \in DOMAIN builder[a] : builder[a][j] = nameAt(p)
      BY <1>4, <2>2 DEF BuilderHolds
    <3> QED
      BY <1>9, <3>1
  <2> QED
    BY <2>1, <2>2
<1>14. ASSUME NEW a \in DOMAIN builder, NEW j \in DOMAIN builder[a] PROVE builder[a][j] # nameAt(P)
  <2>1. PICK p \in Loaded : builder[a][j] = nameAt(p)
    BY <1>4 DEF BuilderHolds
  <2>2. p \in Places /\ p # P
    BY <1>1
  <2> QED
    BY <1>1, <1>4, <2>1, <2>2, NamesDiffer
<1>15. ASSUME NEW a \in DOMAIN c, NEW b \in DOMAIN c, NEW i \in DOMAIN c[a], NEW j \in DOMAIN c[b],
              c[a][i] = c[b][j]
       PROVE  a = b /\ i = j
  <2>1. CASE a = act /\ i = n
    BY <1>10, <1>14, <1>15, <2>1
  <2>2. CASE b = act /\ j = n
    BY <1>10, <1>14, <1>15, <2>2
  <2>3. CASE ~(a = act /\ i = n) /\ ~(b = act /\ j = n)
    <3>1. /\ a \in DOMAIN builder /\ i \in DOMAIN builder[a] /\ c[a][i] = builder[a][i]
          /\ b \in DOMAIN builder /\ j \in DOMAIN builder[b] /\ c[b][j] = builder[b][j]
      BY <1>10, <2>3
    <3>2. builder[a][i] = builder[b][j]
      BY <1>15, <3>1
    <3> QED
      BY <1>4, <3>1, <3>2 DEF BuilderHolds
  <2> QED
    BY <2>1, <2>2, <2>3
<1>16. Len(c) = Len(map)
  <2>1. IF Loaded = {} THEN label_map = <<NoLabel>> ELSE Len(builder) = Len(label_map)
    BY <1>4 DEF BuilderHolds
  <2>2. Loaded = {} => Len(label_map) = 1
    BY <2>1
  <2>3. Loaded # {} => Len(builder) = Len(label_map)
    BY <2>1
  <2>4. Len(c) = IF act > Len(builder) THEN act ELSE Len(builder)
    BY <1>9
  <2>5. Len(map) = Len(label_map) \/ (Len(map) = Len(label_map) + 1 /\ act = Len(map))
    BY <1>6
  <2>6. /\ Len(builder) <= Len(label_map) /\ Len(label_map) \in Nat /\ Len(builder) \in Nat
        /\ act \in Nat \ {0} /\ act <= Len(map) /\ Len(map) \in Nat
    BY <1>3, <1>8
  <2>7. Len(map) = Len(label_map) => Len(c) = Len(map)
    BY <2>2, <2>3, <2>4, <2>6
  <2>8. Len(map) = Len(label_map) + 1 /\ act = Len(map) => Len(c) = Len(map)
    BY <2>4, <2>6
  <2> QED
    BY <2>5, <2>7, <2>8
<1>17. Loaded' # {}
  BY <1>1
<1>18. builder' = c /\ label_map' = map
  BY <1>2 DEF c
<1>19. \A a \in DOMAIN builder' : \A j \in DOMAIN builder'[a] : \E p \in Loaded' :
         builder'[a][j] = nameAt(p)' /\ label_map'[a] = firstLabel(objectAt(p)')
  BY <1>1, <1>12, <1>18
<1>20. \A p \in Loaded' : \E a \in DOMAIN builder' : \E j \in DOMAIN builder'[a] :
         builder'[a][j] = nameAt(p)'
  BY <1>1, <1>13, <1>18
<1>21. \A a, b \in DOMAIN builder' : \A i \in DOMAIN builder'[a], j \in DOMAIN builder'[b] :
         builder'[a][i] = builder'[b][j] => a = b /\ i = j
  BY <1>15, <1>18
<1>22. \A p : firstLabel(objectAt(p))' = firstLabel(objectAt(p)')
  BY DEF firstLabel
<1> QED
  BY <1>6, <1>16, <1>17, <1>18, <1>19, <1>20, <1>21, <1>22 DEF BuilderHolds

\* What is filed stays, when no object is loaded.
LEMMA SameFiled ==
  ASSUME ObjectsInv, Loaded' = Loaded, UNCHANGED <<db, label_map, builder, elements>>
  PROVE  /\ Identified' /\ BuilderHolds' /\ ElementsHold'
         /\ Places' = Places
         /\ \A p : nameAt(p)' = nameAt(p) /\ objectAt(p)' = objectAt(p)
<1>1. Places' = Places /\ \A p : nameAt(p)' = nameAt(p) /\ objectAt(p)' = objectAt(p)
  BY DEF Places, nameAt, objectAt
<1>2. \A p : firstLabel(objectAt(p))' = firstLabel(objectAt(p)')
  BY DEF firstLabel
<1>3. BuilderHolds'
  BY <1>1, <1>2 DEF ObjectsInv, BuilderHolds
<1>4. ElementsHold'
  BY <1>1 DEF ObjectsInv, ElementsHold
<1>5. Identified'
  BY DEF ObjectsInv, Identified
<1> QED
  BY <1>1, <1>3, <1>4, <1>5

\* Its identifier goes to the list of its graph, at its place.
LEMMA LoadTraces ==
  ASSUME StorageInv, ObjectsInv, loadObject
  PROVE  TracesHold'
<1> DEFINE P == <<graph, pos + 1>>
           x == objectAt(P).id
           n == Len(traces)
<1>1. /\ P \in Places /\ Loaded' = Loaded \cup {P} /\ object = objectAt(P) /\ x \in Nat
      /\ graph \in DOMAIN db /\ pos + 1 \in DOMAIN db[graph]
  BY OneLoaded
<1>2. x = db[graph][pos + 1].id
  BY DEF objectAt
<1>3. pc = "load" /\ pc' = "load" /\ db' = db /\ graph <= n + 1 /\ pos < Len(db[graph])
  BY DEF loadObject, TraceKnown
<1>4. traces' = IF graph = n + 1 THEN Append(traces, <<x>>)
                ELSE [traces EXCEPT ![n] = Append(@, x)]
  BY <1>1 DEF loadObject, load_record
<1>5. /\ traces \in Seq(Seq(Nat))
      /\ \A g \in DOMAIN traces : 1 \in DOMAIN traces[g]
      /\ \A g, i \in Nat : <<g, i>> \in Loaded <=> g \in DOMAIN traces /\ i \in DOMAIN traces[g]
      /\ \A g \in DOMAIN traces : \A i \in DOMAIN traces[g] : traces[g][i] = db[g][i].id
  BY <1>3 DEF ObjectsInv, TracesHold
<1>6. /\ graph \in Nat \ {0} /\ pos \in Nat /\ DOMAIN db = 1 .. Len(db) /\ Len(db) \in Nat
      /\ \A g \in DOMAIN db : DOMAIN db[g] = 1 .. Len(db[g]) /\ Len(db[g]) \in Nat
      /\ \A g, i : <<g, i>> \in Places <=> g \in DOMAIN db /\ i \in DOMAIN db[g]
  <2>1. Shape
    BY DEF StorageInv
  <2>2. graph \in 1 .. Len(db) + 1
    BY <2>1 DEF Shape
  <2> QED
    BY <2>1, <2>2, PlacesAre
<1>7. \A g, i : <<g, i>> \in Loaded <=> <<g, i>> \in Places /\ (g < graph \/ (g = graph /\ i <= pos))
  BY DEF Loaded
<1>8. n \in Nat /\ DOMAIN traces = 1 .. n
  BY <1>5
<1>9. \A g \in DOMAIN traces : DOMAIN traces[g] = 1 .. Len(traces[g]) /\ Len(traces[g]) \in Nat
  BY <1>5
<1>10. \A g, i \in Nat : <<g, i>> \in Loaded' <=> <<g, i>> \in Loaded \/ (g = graph /\ i = pos + 1)
  BY <1>1
<1> HIDE DEF P, x, n
<1>11. CASE graph = n + 1
  <2>1. pos = 0
    <3>1. SUFFICES ASSUME pos # 0 PROVE FALSE
      OBVIOUS
    <3>2. 1 \in DOMAIN db[graph] /\ 1 <= pos
      BY <1>1, <1>6, <3>1
    <3>3. <<graph, 1>> \in Loaded
      BY <1>1, <1>6, <1>7, <3>2
    <3>4. graph \in DOMAIN traces
      BY <1>5, <1>6, <3>3
    <3> QED
      BY <1>8, <1>11, <3>4
  <2> DEFINE t == Append(traces, <<x>>)
  <2>2. <<x>> \in Seq(Nat) /\ DOMAIN <<x>> = {1} /\ <<x>>[1] = x
    BY <1>1
  <2>3. /\ t \in Seq(Seq(Nat)) /\ DOMAIN t = 1 .. n + 1
        /\ t[n + 1] = <<x>> /\ \A g \in 1 .. n : t[g] = traces[g]
    <3> DEFINE L == Seq(Nat)
    <3>1. traces \in Seq(L) /\ <<x>> \in L
      BY <1>5, <2>2
    <3> HIDE DEF L
    <3>2. t \in Seq(L) /\ Len(t) = n + 1 /\ t[n + 1] = <<x>> /\ \A g \in 1 .. n : t[g] = traces[g]
      BY <3>1 DEF n
    <3> HIDE DEF t
    <3>3. DOMAIN t = 1 .. n + 1
      BY <3>2
    <3> QED
      BY <3>2, <3>3 DEF L
  <2>4. traces' = t
    BY <1>4, <1>11
  <2> HIDE DEF t
  <2>5. \A g \in DOMAIN t : g \in 1 .. n \/ g = n + 1
    BY <1>8, <2>3
  <2>6. n + 1 \in DOMAIN t /\ \A g \in 1 .. n : g \in DOMAIN t /\ g # n + 1
    BY <1>8, <2>3
  <2>7. \A g \in DOMAIN t : 1 \in DOMAIN t[g]
    BY <1>5, <1>8, <2>2, <2>3, <2>5
  <2>8. ASSUME NEW g \in Nat, NEW i \in Nat
        PROVE  <<g, i>> \in Loaded' <=> g \in DOMAIN t /\ i \in DOMAIN t[g]
    <3>1. CASE g = n + 1
      <4>1. <<g, i>> \notin Loaded
        BY <1>5, <1>8, <3>1
      <4> QED
        BY <1>10, <1>11, <2>1, <2>2, <2>3, <2>6, <3>1, <4>1
    <3>2. CASE g # n + 1
      BY <1>5, <1>8, <1>10, <1>11, <2>3, <2>5, <2>6, <3>2
    <3> QED
      BY <3>1, <3>2
  <2>9. \A g \in DOMAIN t : \A i \in DOMAIN t[g] : t[g][i] = db[g][i].id
    <3>1. db[n + 1][1].id = x
      BY <1>2, <1>6, <1>11, <2>1
    <3>2. ASSUME NEW g \in 1 .. n PROVE \A i \in DOMAIN t[g] : t[g][i] = db[g][i].id
      BY <1>5, <1>8, <2>3
    <3>3. \A i \in DOMAIN t[n + 1] : t[n + 1][i] = db[n + 1][i].id
      BY <2>2, <2>3, <3>1
    <3> QED
      BY <2>5, <3>2, <3>3
  <2> QED
    BY <1>3, <2>3, <2>4, <2>7, <2>8, <2>9 DEF TracesHold
<1>12. CASE graph # n + 1
  <2>1. graph = n /\ graph \in DOMAIN traces
    <3>1. graph \in DOMAIN traces
      BY <1>3, <1>6, <1>8, <1>12
    <3>2. n \in DOMAIN traces
      BY <1>8, <3>1
    <3>3. <<n, 1>> \in Loaded
      BY <1>5, <1>8, <3>2
    <3>4. n < graph \/ n = graph
      BY <1>7, <3>3
    <3> QED
      BY <1>3, <1>6, <1>8, <1>12, <3>1, <3>4
  <2>2. Len(traces[n]) = pos
    <3>1. \A i \in Nat : i \in 1 .. Len(traces[n]) <=> i \in 1 .. pos
      <4> SUFFICES ASSUME NEW i \in Nat PROVE i \in 1 .. Len(traces[n]) <=> i \in 1 .. pos
        OBVIOUS
      <4>1. i \in 1 .. Len(traces[n]) <=> <<n, i>> \in Loaded
        BY <1>5, <1>8, <1>9, <2>1
      <4>2. <<n, i>> \in Loaded <=> i \in DOMAIN db[n] /\ i <= pos
        BY <1>1, <1>6, <1>7, <2>1
      <4>3. i \in DOMAIN db[n] /\ i <= pos <=> i \in 1 .. pos
        <5>1. DOMAIN db[n] = 1 .. Len(db[n]) /\ Len(db[n]) \in Nat /\ pos < Len(db[n])
          BY <1>1, <1>3, <1>6, <2>1
        <5> QED
          BY <1>6, <5>1
      <4> QED
        BY <4>1, <4>2, <4>3
    <3>2. Len(traces[n]) \in Nat
      BY <1>9, <2>1
    <3>3. PICK k \in Nat : k = Len(traces[n])
      BY <3>2
    <3>4. k \in 1 .. k => k <= pos
      BY <3>1, <3>3
    <3>5. pos \in 1 .. pos => pos <= k
      BY <1>6, <3>1, <3>3
    <3> QED
      BY <1>6, <3>3, <3>4, <3>5
  <2> DEFINE y == Append(traces[n], x)
             t == [traces EXCEPT ![n] = y]
  <2>3. traces[n] \in Seq(Nat)
    BY <1>5, <2>1
  <2>4. y \in Seq(Nat) /\ DOMAIN y = 1 .. pos + 1 /\ y[pos + 1] = x /\ \A i \in 1 .. pos : y[i] = traces[n][i]
    <3>1. y \in Seq(Nat) /\ Len(y) = pos + 1
      BY <1>1, <2>2, <2>3
    <3>2. y[Len(traces[n]) + 1] = x /\ \A i \in 1 .. Len(traces[n]) : y[i] = traces[n][i]
      BY <1>1, <2>3
    <3> HIDE DEF y
    <3> QED
      BY <1>6, <2>2, <3>1, <3>2
  <2>5. traces' = t
    BY <1>4, <1>12
  <2> HIDE DEF y
  <2>6. t \in Seq(Seq(Nat))
    <3> DEFINE L == Seq(Nat)
    <3>1. traces \in Seq(L) /\ y \in L
      BY <1>5, <2>4
    <3> HIDE DEF L
    <3>2. t \in Seq(L)
      BY <3>1, ChangedList
    <3> QED
      BY <3>2 DEF L
  <2>7. DOMAIN t = DOMAIN traces /\ t[n] = y /\ \A g \in DOMAIN traces : g # n => t[g] = traces[g]
    BY <2>1
  <2> HIDE DEF t
  <2>8. \A g \in DOMAIN t : 1 \in DOMAIN t[g]
    <3>1. 1 \in 1 .. pos + 1
      BY <1>6
    <3> QED
      BY <1>5, <2>4, <2>7, <3>1
  <2>9. ASSUME NEW g \in Nat, NEW i \in Nat
        PROVE  <<g, i>> \in Loaded' <=> g \in DOMAIN t /\ i \in DOMAIN t[g]
    <3>1. CASE g = n
      <4>1. <<g, i>> \in Loaded <=> i \in 1 .. pos
        BY <1>5, <1>9, <2>1, <2>2, <3>1
      <4>2. <<g, i>> \in Loaded' <=> i \in 1 .. pos \/ i = pos + 1
        BY <1>10, <2>1, <3>1, <4>1
      <4>3. i \in 1 .. pos \/ i = pos + 1 <=> i \in 1 .. pos + 1
        BY <1>6
      <4> QED
        BY <2>1, <2>4, <2>7, <3>1, <4>2, <4>3
    <3>2. CASE g # n
      BY <1>5, <1>10, <2>1, <2>7, <3>2
    <3> QED
      BY <3>1, <3>2
  <2>10. \A g \in DOMAIN t : \A i \in DOMAIN t[g] : t[g][i] = db[g][i].id
    <3>1. \A i \in 1 .. pos + 1 : i \in 1 .. pos \/ i = pos + 1
      BY <1>6
    <3>2. \A i \in 1 .. pos : traces[n][i] = db[n][i].id
      BY <1>5, <1>9, <2>1, <2>2
    <3>3. x = db[n][pos + 1].id
      BY <1>2, <2>1
    <3>4. \A i \in DOMAIN y : y[i] = db[n][i].id
      BY <2>4, <3>1, <3>2, <3>3
    <3> QED
      BY <1>5, <2>7, <3>4, ZenonT(60)
  <2> QED
    BY <1>3, <2>5, <2>6, <2>8, <2>9, <2>10 DEF TracesHold
<1> QED
  BY <1>11, <1>12

\* Its properties go to the builders of the property tables, with its name.
LEMMA LoadElements ==
  ASSUME StorageInv, StorageInv', ObjectsInv, loadObject
  PROVE  ElementsHold'
<1> DEFINE P == <<graph, pos + 1>>
           o == objectAt(P)
           act == IndexOf(Extended(label_map, firstLabel(o)), firstLabel(o))
           T == Nat \X Nat \X Nat \X Nat
<1>1. /\ P \in Places /\ Loaded' = Loaded \cup {P} /\ object = o /\ o.id \in Nat
      /\ firstLabel(o) \in Labels
      /\ nameAt(P) = <<graph, o.id>> /\ nameAt(P) \in Nat \X Nat
      /\ \A p : nameAt(p)' = nameAt(p)
      /\ graph \in DOMAIN db /\ pos + 1 \in DOMAIN db[graph]
  BY OneLoaded
<1>2. elements' = [k \in Keys |-> IF k \in DOMAIN o.props
                                  THEN Append(elements[k], <<act, o.props[k], graph, o.id>>)
                                  ELSE elements[k]]
  BY <1>1 DEF loadObject, loadObjectProperty
<1>3. \A k \in Keys : k \in DOMAIN o.props => o.props[k] \in Nat
  <2>1. IsGraph(db[graph]) /\ o = db[graph][pos + 1]
    BY <1>1 DEF objectAt, StorageInv, Shape, IsDatabase
  <2>2. \E K \in SUBSET Keys, L \in SUBSET PhiLabels : o \in gsm_object(K, L)
    BY <1>1, <2>1 DEF IsGraph
  <2> HIDE DEF o
  <2> QED
    BY <2>2 DEF gsm_object
<1>4. act \in Nat
  <2>1. label_map \in Seq(Labels)
    BY DEF StorageInv, Shape
  <2>2. act \in 1 .. Len(Extended(label_map, firstLabel(o)))
    BY <1>1, <2>1, ExtendedMap
  <2> HIDE DEF act
  <2> QED
    BY <2>2
<1> HIDE DEF P, o, act
<1>5. ASSUME NEW k \in Keys
      PROVE  /\ elements'[k] \in Seq(T)
             /\ \A i \in DOMAIN elements'[k] : \E p \in Loaded' :
                  <<elements'[k][i][3], elements'[k][i][4]>> = nameAt(p)'
  <2>1. /\ elements[k] \in Seq(T)
        /\ \A i \in DOMAIN elements[k] : \E p \in Loaded :
             <<elements[k][i][3], elements[k][i][4]>> = nameAt(p)
    BY DEF ObjectsInv, ElementsHold
  <2>2. CASE k \notin DOMAIN o.props
    BY <1>1, <1>2, <2>1, <2>2
  <2>3. CASE k \in DOMAIN o.props
    <3> DEFINE e == <<act, o.props[k], graph, o.id>>
    <3>1. e \in T /\ <<e[3], e[4]>> = nameAt(P)
      <4>1. graph \in Nat
        BY PlacesAre DEF StorageInv
      <4> QED
        BY <1>1, <1>3, <1>4, <2>3, <4>1
    <3>2. elements'[k] = Append(elements[k], e)
      BY <1>2, <2>3
    <3> HIDE DEF e, T
    <3> DEFINE m == Len(elements[k])
    <3>3. /\ elements'[k] \in Seq(T) /\ DOMAIN elements'[k] = 1 .. m + 1 /\ m \in Nat
          /\ elements'[k][m + 1] = e /\ \A i \in 1 .. m : elements'[k][i] = elements[k][i]
          /\ DOMAIN elements[k] = 1 .. m
      BY <2>1, <3>1, <3>2
    <3> HIDE DEF m
    <3>4. \A i \in DOMAIN elements'[k] : i \in DOMAIN elements[k] \/ i = m + 1
      BY <3>3
    <3> QED
      BY <1>1, <2>1, <3>1, <3>3, <3>4
  <2> QED
    BY <2>2, <2>3
<1> QED
  BY <1>5 DEF ElementsHold

\* One object, and what is said of all.
LEMMA LoadObjects ==
  ASSUME StorageInv, StorageInv', ObjectsInv, loadObject
  PROVE  ObjectsInv'
<1>1. db' = db /\ pc = "load" /\ pc' = "load" /\ graph' = graph /\ pos' = pos + 1
  BY DEF loadObject
<1>2. Identified' /\ IdentifiersAreDense'
  BY <1>1 DEF ObjectsInv, Identified, IdentifiersAreDense
<1>3. Progress'
  <2>1. graph \in DOMAIN db /\ pos < Len(db[graph]) /\ pos \in Nat /\ Len(db[graph]) \in Nat
    BY PlacesAre DEF loadObject, StorageInv
  <2> QED
    BY <1>1, <2>1 DEF Progress
<1>4. RegistryHolds' /\ AttrsHold' /\ LinksHold'
  BY <1>1 DEF RegistryHolds, AttrsHold, LinksHold
<1> QED
  BY <1>2, <1>3, <1>4, LoadBuilder, LoadTraces, LoadElements DEF ObjectsInv

\* Between the objects, and when the code does not define what follows.
LEMMA PassObjects ==
  ASSUME StorageInv, StorageInv', ObjectsInv, loadUnknown \/ nextGraph
  PROVE  ObjectsInv'
<1>1. /\ db' = db /\ pc = "load" /\ pc' \in {"load", "undefined"}
      /\ UNCHANGED <<label_map, builder, traces, elements, registry, attrs>>
  BY DEF loadUnknown, nextGraph, loading, builders
<1>2. IdentifiersAreDense'
  BY <1>1 DEF ObjectsInv, IdentifiersAreDense
<1>3. Progress'
  BY <1>1 DEF ObjectsInv, Progress, loadUnknown, nextGraph, loading
<1>4. Places' = Places
  BY <1>1 DEF Places
<1>6. Loaded' = Loaded
  <2>1. CASE loadUnknown
    BY <1>4, <2>1 DEF Loaded, loadUnknown, loading
  <2>2. CASE nextGraph
    <3>1. graph' = graph + 1 /\ pos' = 0 /\ pos = Len(db[graph]) /\ graph \in DOMAIN db
      BY <2>2 DEF nextGraph
    <3>2. \A p \in Places : (p[1] < graph + 1 \/ (p[1] = graph + 1 /\ p[2] <= 0))
                              <=> (p[1] < graph \/ (p[1] = graph /\ p[2] <= pos))
      <4> SUFFICES ASSUME NEW p \in Places
                   PROVE  (p[1] < graph + 1 \/ (p[1] = graph + 1 /\ p[2] <= 0))
                            <=> (p[1] < graph \/ (p[1] = graph /\ p[2] <= pos))
        OBVIOUS
      <4>1. /\ p[1] \in DOMAIN db /\ p[2] \in DOMAIN db[p[1]] /\ graph \in Nat
            /\ DOMAIN db = 1 .. Len(db) /\ Len(db) \in Nat
            /\ \A g \in DOMAIN db : DOMAIN db[g] = 1 .. Len(db[g]) /\ Len(db[g]) \in Nat
        BY PlacesAre DEF StorageInv
      <4>2. p[1] \in Nat /\ p[2] \in Nat /\ p[2] > 0 /\ (p[1] = graph => p[2] <= pos)
        BY <3>1, <4>1
      <4> QED
        BY <4>1, <4>2
    <3>3. \A p : p \in Loaded' <=> p \in Places /\ (p[1] < graph + 1 \/ (p[1] = graph + 1 /\ p[2] <= 0))
      BY <1>4, <3>1 DEF Loaded
    <3>4. \A p : p \in Loaded <=> p \in Places /\ (p[1] < graph \/ (p[1] = graph /\ p[2] <= pos))
      BY DEF Loaded
    <3> QED
      BY <3>2, <3>3, <3>4
  <2> QED
    BY <2>1, <2>2
<1>7. Identified' /\ BuilderHolds' /\ ElementsHold'
  BY <1>1, <1>6, SameFiled
<1>8. TracesHold'
  BY <1>1, <1>6 DEF ObjectsInv, TracesHold
<1>9. RegistryHolds' /\ AttrsHold' /\ LinksHold'
  BY <1>1 DEF RegistryHolds, AttrsHold, LinksHold
<1> QED
  BY <1>2, <1>3, <1>7, <1>8, <1>9 DEF ObjectsInv

-----------------------------------------------------------------------------
(* The registry.                                                           *)

\* The rows of the registry, label by label, as they are filed.
RegistryBlocks ==
  [a \in DOMAIN builder |-> [i \in DOMAIN builder[a] |->
     [l0 |-> a, graph |-> builder[a][i][1], event |-> builder[a][i][2]]]]

RegistryTable == FlattenSeq(RegistryBlocks)

\* The rows of a label are those between its start and the next.
LEMMA TableOfBuilder ==
  ASSUME Shape
  PROVE  LET at(a) == StartOf(RegistryBlocks, a) IN
         /\ DOMAIN RegistryTable = 1 .. Len(RegistryTable) /\ Len(RegistryTable) \in Nat
         /\ \A a \in DOMAIN builder : at(a) \in Nat
         /\ \A a \in DOMAIN builder : \A j \in DOMAIN builder[a] :
              /\ at(a) + j \in DOMAIN RegistryTable
              /\ RegistryTable[at(a) + j].l0 = a
              /\ nameIn(RegistryTable, at(a) + j) = builder[a][j]
         /\ \A r \in DOMAIN RegistryTable :
              \E a \in DOMAIN builder : \E j \in DOMAIN builder[a] : r = at(a) + j
         /\ \A a \in DOMAIN builder :
              {r \in DOMAIN RegistryTable : RegistryTable[r].l0 = a} =
                at(a) + 1 .. (IF a = Len(builder) THEN Len(RegistryTable) ELSE at(a + 1))
<1> DEFINE Row == [l0 : Nat, graph : Nat, event : Nat]
           at(a) == StartOf(RegistryBlocks, a)
<1>1. /\ DOMAIN builder = 1 .. Len(builder) /\ Len(builder) \in Nat
      /\ \A a \in DOMAIN builder : builder[a] \in Seq(Nat \X Nat)
  BY DEF Shape
<1>2. \A a \in DOMAIN builder : DOMAIN builder[a] = 1 .. Len(builder[a]) /\ Len(builder[a]) \in Nat
  BY <1>1
<1>3. ASSUME NEW a \in DOMAIN builder, NEW i \in DOMAIN builder[a]
      PROVE  /\ builder[a][i] = <<builder[a][i][1], builder[a][i][2]>>
             /\ builder[a][i][1] \in Nat /\ builder[a][i][2] \in Nat
  <2>1. builder[a][i] \in Nat \X Nat
    BY <1>1
  <2> QED
    BY <2>1
<1>4. /\ DOMAIN RegistryBlocks = 1 .. Len(builder)
      /\ \A a \in DOMAIN builder :
           /\ DOMAIN RegistryBlocks[a] = DOMAIN builder[a]
           /\ \A i \in DOMAIN builder[a] : RegistryBlocks[a][i] =
                [l0 |-> a, graph |-> builder[a][i][1], event |-> builder[a][i][2]]
  BY <1>1 DEF RegistryBlocks
<1>5. ASSUME NEW a \in DOMAIN builder
      PROVE  RegistryBlocks[a] \in Seq(Row) /\ Len(RegistryBlocks[a]) = Len(builder[a])
  <2>1. \A i \in DOMAIN builder[a] :
          [l0 |-> a, graph |-> builder[a][i][1], event |-> builder[a][i][2]] \in Row
    BY <1>1, <1>3
  <2>2. RegistryBlocks[a] = [i \in DOMAIN builder[a] |->
          [l0 |-> a, graph |-> builder[a][i][1], event |-> builder[a][i][2]]]
    BY DEF RegistryBlocks
  <2> HIDE DEF Row
  <2> QED
    BY <1>2, <2>1, <2>2
<1>6. RegistryBlocks \in Seq(Seq(Row)) /\ Len(RegistryBlocks) = Len(builder)
  <2> DEFINE L == Seq(Row)
  <2>1. \A a \in DOMAIN builder : RegistryBlocks[a] \in L
    BY <1>5
  <2>2. RegistryBlocks = [a \in 1 .. Len(builder) |-> RegistryBlocks[a]]
    BY <1>1 DEF RegistryBlocks
  <2> HIDE DEF L
  <2>3. RegistryBlocks \in Seq(L) /\ Len(RegistryBlocks) = Len(builder)
    BY <1>1, <2>1, <2>2
  <2> QED
    BY <2>3 DEF L
<1> HIDE DEF Row, at
<1>7. /\ RegistryTable \in Seq(Row)
      /\ \A i \in DOMAIN RegistryBlocks :
           /\ at(i) \in Nat
           /\ i + 1 \in DOMAIN RegistryBlocks => at(i + 1) = at(i) + Len(RegistryBlocks[i])
           /\ i = Len(RegistryBlocks) => Len(RegistryTable) = at(i) + Len(RegistryBlocks[i])
           /\ \A j \in DOMAIN RegistryBlocks[i] :
                /\ at(i) + j \in DOMAIN RegistryTable
                /\ RegistryTable[at(i) + j] = RegistryBlocks[i][j]
      /\ \A p \in DOMAIN RegistryTable :
           \E i \in DOMAIN RegistryBlocks : \E j \in DOMAIN RegistryBlocks[i] : p = at(i) + j
  BY <1>6, FlattenPlaces DEF RegistryTable, at
<1>8. DOMAIN RegistryTable = 1 .. Len(RegistryTable) /\ Len(RegistryTable) \in Nat
  BY <1>7
<1>9. \A a \in DOMAIN builder : at(a) \in Nat
  BY <1>1, <1>4, <1>7
<1>10. ASSUME NEW a \in DOMAIN builder, NEW j \in DOMAIN builder[a]
       PROVE  /\ at(a) + j \in DOMAIN RegistryTable
              /\ RegistryTable[at(a) + j].l0 = a
              /\ nameIn(RegistryTable, at(a) + j) = builder[a][j]
  <2>1. a \in DOMAIN RegistryBlocks /\ j \in DOMAIN RegistryBlocks[a]
    BY <1>1, <1>4
  <2>2. /\ at(a) + j \in DOMAIN RegistryTable
        /\ RegistryTable[at(a) + j] = [l0 |-> a, graph |-> builder[a][j][1], event |-> builder[a][j][2]]
    BY <1>4, <1>7, <2>1
  <2> QED
    BY <1>3, <2>2 DEF nameIn
<1>11. ASSUME NEW r \in DOMAIN RegistryTable
       PROVE  \E a \in DOMAIN builder : \E j \in DOMAIN builder[a] : r = at(a) + j
  BY <1>1, <1>4, <1>7
<1>12. ASSUME NEW a \in DOMAIN builder
       PROVE  {r \in DOMAIN RegistryTable : RegistryTable[r].l0 = a} =
                at(a) + 1 .. (IF a = Len(builder) THEN Len(RegistryTable) ELSE at(a + 1))
  <2>1. (IF a = Len(builder) THEN Len(RegistryTable) ELSE at(a + 1)) = at(a) + Len(builder[a])
    <3>1. a = Len(builder) \/ a + 1 \in DOMAIN RegistryBlocks
      BY <1>1, <1>4
    <3>2. a \in DOMAIN RegistryBlocks /\ Len(RegistryBlocks[a]) = Len(builder[a])
      BY <1>1, <1>4, <1>5
    <3>3. a + 1 \in DOMAIN RegistryBlocks => at(a + 1) = at(a) + Len(builder[a])
      BY <1>7, <3>2
    <3>4. a = Len(builder) => Len(RegistryTable) = at(a) + Len(builder[a])
      BY <1>6, <1>7, <3>2
    <3> QED
      BY <3>1, <3>3, <3>4
  <2>2. ASSUME NEW r \in DOMAIN RegistryTable, RegistryTable[r].l0 = a
        PROVE  r \in at(a) + 1 .. at(a) + Len(builder[a])
    <3>1. PICK b \in DOMAIN builder : \E j \in DOMAIN builder[b] : r = at(b) + j
      BY <1>11
    <3>2. PICK j \in DOMAIN builder[b] : r = at(b) + j
      BY <3>1
    <3>3. b = a
      BY <1>10, <2>2, <3>2
    <3>4. j \in 1 .. Len(builder[a]) /\ at(a) \in Nat /\ Len(builder[a]) \in Nat
      BY <1>2, <1>9, <3>3
    <3> QED
      BY <3>2, <3>3, <3>4
  <2>3. ASSUME NEW r \in at(a) + 1 .. at(a) + Len(builder[a])
        PROVE  r \in DOMAIN RegistryTable /\ RegistryTable[r].l0 = a
    <3>1. r - at(a) \in DOMAIN builder[a] /\ at(a) + (r - at(a)) = r
      BY <1>2, <1>9
    <3> QED
      BY <1>10, <3>1
  <2>4. {r \in DOMAIN RegistryTable : RegistryTable[r].l0 = a} = at(a) + 1 .. at(a) + Len(builder[a])
    BY <2>2, <2>3
  <2> QED
    BY <2>1, <2>4
<1> QED
  BY <1>8, <1>9, <1>10, <1>11, <1>12 DEF at

\* What the registry is when it is laid out.
LEMMA LaidOut ==
  ASSUME StorageInv, layOutRegistry
  PROVE  /\ pc = "load" /\ graph \notin DOMAIN db
         /\ UNCHANGED <<path, db, graph, pos, label_map, builder, elements, attrs>>
         /\ \/ pc' = "undefined" /\ traces' = traces
            \/ /\ pc' = "containment"
               /\ \A r \in DOMAIN RegistryTable :
                    RegistryTable[r].event \in DOMAIN traces[RegistryTable[r].graph]
               /\ registry'.table = RegistryTable
               /\ registry'.primary = [a \in DOMAIN builder |-> StartOf(RegistryBlocks, a) + 1]
               /\ traces' = [g \in DOMAIN traces |-> Offsets(RegistryTable, g)]
<1>1. \/ pc' = "undefined" /\ traces' = traces
      \/ /\ pc' = "containment"
         /\ ~ \E r \in DOMAIN RegistryTable :
                 RegistryTable[r].event \notin DOMAIN traces[RegistryTable[r].graph]
         /\ registry' = [registry EXCEPT !.table = RegistryTable,
                           !.primary = [a \in DOMAIN builder |-> StartOf(RegistryBlocks, a) + 1]]
         /\ traces' = [g \in DOMAIN traces |-> Offsets(RegistryTable, g)]
  BY Zenon DEF layOutRegistry, RegistryTable, RegistryBlocks, StartOf
<1>2. registry = [table |-> registry.table, primary |-> registry.primary,
                  secondary |-> registry.secondary, next |-> registry.next,
                  prev |-> registry.prev]
  BY DEF StorageInv, Shape
<1>3. ASSUME NEW table, NEW first, registry' = [registry EXCEPT !.table = table, !.primary = first]
      PROVE  registry'.table = table /\ registry'.primary = first
  BY <1>2, <1>3
<1>4. /\ pc = "load" /\ graph \notin DOMAIN db
      /\ UNCHANGED <<path, db, graph, pos, label_map, builder, elements, attrs>>
  BY DEF layOutRegistry, loading
<1> DEFINE first == [a \in DOMAIN builder |-> StartOf(RegistryBlocks, a) + 1]
<1> HIDE DEF first
<1>5. CASE pc' = "undefined" /\ traces' = traces
  BY <1>4, <1>5
<1>6. CASE pc' # "undefined"
  <2>1. registry' = [registry EXCEPT !.table = RegistryTable, !.primary = first]
    BY <1>1, <1>6 DEF first
  <2>2. registry'.table = RegistryTable /\ registry'.primary = first
    BY <1>3, <2>1
  <2> QED
    BY <1>1, <1>4, <1>6, <2>2 DEF first
<1> QED
  BY <1>1, <1>5, <1>6

\* Once all is loaded, every place is that of a loaded object.
LEMMA AllLoaded ==
  ASSUME Shape, graph \notin DOMAIN db
  PROVE  Loaded = Places
<1>1. graph \in 1 .. Len(db) + 1 /\ DOMAIN db = 1 .. Len(db) /\ Len(db) \in Nat
  BY PlacesAre DEF Shape
<1>2. graph = Len(db) + 1
  BY <1>1
<1>3. \A p \in Places : p[1] \in DOMAIN db
  BY PlacesAre
<1>4. \A p \in Places : p[1] < graph
  BY <1>1, <1>2, <1>3
<1> QED
  BY <1>4 DEF Loaded

\* The list of a graph holds the names of all its objects and no others, once the
\* registry finds room for every object: the numbers of a graph are those of its
\* places.
LEMMA TracesFilled ==
  ASSUME StorageInv, ObjectsInv, pc = "load", graph \notin DOMAIN db,
         \A p \in Places : objectAt(p).id \in DOMAIN traces[p[1]]
  PROVE  \A g \in DOMAIN traces : \A x \in DOMAIN traces[g] : \E p \in Places : nameAt(p) = <<g, x>>
<1>1. Shape /\ Identified
  BY DEF StorageInv, ObjectsInv
<1>2. Loaded = Places
  BY <1>1, AllLoaded
<1>3. /\ traces \in Seq(Seq(Nat))
      /\ \A g, i \in Nat : <<g, i>> \in Places <=> g \in DOMAIN traces /\ i \in DOMAIN traces[g]
  BY <1>2 DEF ObjectsInv, TracesHold
<1> SUFFICES ASSUME NEW g \in DOMAIN traces, NEW x \in DOMAIN traces[g]
             PROVE  \E p \in Places : nameAt(p) = <<g, x>>
  OBVIOUS
<1> DEFINE n == Len(traces[g])
           f == [i \in 1 .. n |-> db[g][i].id]
<1>4. g \in Nat /\ n \in Nat /\ DOMAIN traces[g] = 1 .. n
  BY <1>3
<1>5. ASSUME NEW i \in 1 .. n
      PROVE  <<g, i>> \in Places /\ nameAt(<<g, i>>) = <<g, f[i]>> /\ f[i] \in 1 .. n
  <2>1. <<g, i>> \in Places
    BY <1>3, <1>4
  <2>2. f[i] = objectAt(<<g, i>>).id
    BY DEF objectAt
  <2>3. f[i] \in DOMAIN traces[g]
    BY <2>1, <2>2
  <2> QED
    BY <1>4, <2>1, <2>2, <2>3 DEF nameAt
<1> HIDE DEF n
<1>6. f \in [1 .. n -> 1 .. n]
  BY <1>5
<1>7. \A i, j \in 1 .. n : f[i] = f[j] => i = j
  <2> SUFFICES ASSUME NEW i \in 1 .. n, NEW j \in 1 .. n, f[i] = f[j] PROVE i = j
    OBVIOUS
  <2> HIDE DEF f
  <2>1. nameAt(<<g, i>>) = nameAt(<<g, j>>)
    BY <1>5
  <2>2. <<g, i>> = <<g, j>>
    BY <1>1, <1>5, <2>1, NamesDiffer
  <2> QED
    BY <2>2
<1> HIDE DEF f
<1>8. \A k \in 1 .. n : \E i \in 1 .. n : f[i] = k
  BY <1>4, <1>6, <1>7, NumbersFill, Zenon
<1>9. PICK i \in 1 .. n : f[i] = x
  BY <1>4, <1>8
<1> QED
  BY <1>5, <1>9

\* The registry, laid out, lists the objects, and the lists of the graphs lead
\* from every number to its row.
LEMMA LayOutRegistryHolds ==
  ASSUME StorageInv, ObjectsInv, layOutRegistry
  PROVE  RegistryHolds'
<1> DEFINE table == RegistryTable
           at(a) == StartOf(RegistryBlocks, a)
<1>1. /\ pc = "load" /\ graph \notin DOMAIN db
      /\ UNCHANGED <<path, db, graph, pos, label_map, builder, elements, attrs>>
      /\ \/ pc' = "undefined" /\ traces' = traces
         \/ /\ pc' = "containment"
            /\ \A r \in DOMAIN table : table[r].event \in DOMAIN traces[table[r].graph]
            /\ registry'.table = table
            /\ registry'.primary = [a \in DOMAIN builder |-> at(a) + 1]
            /\ traces' = [g \in DOMAIN traces |-> Offsets(table, g)]
  BY LaidOut
<1>2. CASE pc' = "undefined"
  BY <1>2 DEF RegistryHolds
<1>3. CASE pc' # "undefined"
  <2>1. /\ pc' = "containment"
        /\ \A r \in DOMAIN table : table[r].event \in DOMAIN traces[table[r].graph]
        /\ registry'.table = table
        /\ registry'.primary = [a \in DOMAIN builder |-> at(a) + 1]
        /\ traces' = [g \in DOMAIN traces |-> Offsets(table, g)]
    BY <1>1, <1>3
  <2>2. Shape /\ Identified
    BY DEF StorageInv, ObjectsInv
  <2>3. Loaded = Places
    BY <1>1, <2>2, AllLoaded
  <2>4. /\ DOMAIN table = 1 .. Len(table) /\ Len(table) \in Nat
        /\ \A a \in DOMAIN builder : at(a) \in Nat
        /\ \A a \in DOMAIN builder : \A j \in DOMAIN builder[a] :
             /\ at(a) + j \in DOMAIN table
             /\ table[at(a) + j].l0 = a
             /\ nameIn(table, at(a) + j) = builder[a][j]
        /\ \A r \in DOMAIN table :
             \E a \in DOMAIN builder : \E j \in DOMAIN builder[a] : r = at(a) + j
        /\ \A a \in DOMAIN builder :
             {r \in DOMAIN table : table[r].l0 = a} =
               at(a) + 1 .. (IF a = Len(builder) THEN Len(table) ELSE at(a + 1))
    BY <2>2, TableOfBuilder
  <2>5. /\ Places' = Places
        /\ \A p : nameAt(p)' = nameAt(p) /\ firstLabel(objectAt(p))' = firstLabel(objectAt(p))
                  /\ objectAt(p)' = objectAt(p)
    BY <1>1 DEF Places, nameAt, objectAt, firstLabel
  <2> HIDE DEF table, at
  <2>6. /\ \A a \in DOMAIN builder : \A j \in DOMAIN builder[a] : \E p \in Places :
             builder[a][j] = nameAt(p) /\ label_map[a] = firstLabel(objectAt(p))
        /\ \A p \in Places : \E a \in DOMAIN builder : \E j \in DOMAIN builder[a] :
             builder[a][j] = nameAt(p)
        /\ \A a, b \in DOMAIN builder : \A i \in DOMAIN builder[a], j \in DOMAIN builder[b] :
             builder[a][i] = builder[b][j] => a = b /\ i = j
    BY <2>3 DEF ObjectsInv, BuilderHolds
  <2>7. ASSUME NEW r \in DOMAIN table
        PROVE  \E p \in Places : nameIn(table, r) = nameAt(p)
                                 /\ label_map[table[r].l0] = firstLabel(objectAt(p))
    <3>1. PICK a \in DOMAIN builder : \E j \in DOMAIN builder[a] : r = at(a) + j
      BY <2>4
    <3>2. PICK j \in DOMAIN builder[a] : r = at(a) + j
      BY <3>1
    <3> QED
      BY <2>4, <2>6, <3>2
  <2>8. ASSUME NEW p \in Places PROVE \E r \in DOMAIN table : nameIn(table, r) = nameAt(p)
    <3>1. PICK a \in DOMAIN builder : \E j \in DOMAIN builder[a] : builder[a][j] = nameAt(p)
      BY <2>6
    <3> QED
      BY <2>4, <3>1
  <2>9. ASSUME NEW r \in DOMAIN table, NEW s \in DOMAIN table, nameIn(table, r) = nameIn(table, s)
        PROVE  r = s
    <3>1. PICK a \in DOMAIN builder : \E j \in DOMAIN builder[a] : r = at(a) + j
      BY <2>4
    <3>2. PICK i \in DOMAIN builder[a] : r = at(a) + i
      BY <3>1
    <3>3. PICK b \in DOMAIN builder : \E j \in DOMAIN builder[b] : s = at(b) + j
      BY <2>4
    <3>4. PICK j \in DOMAIN builder[b] : s = at(b) + j
      BY <3>3
    <3>5. builder[a][i] = builder[b][j]
      BY <2>4, <2>9, <3>2, <3>4
    <3> QED
      BY <2>6, <3>2, <3>4, <3>5
  <2>10. \A p \in Places : p[1] \in DOMAIN traces /\ objectAt(p).id \in DOMAIN traces[p[1]]
    <3> SUFFICES ASSUME NEW p \in Places
                 PROVE  p[1] \in DOMAIN traces /\ objectAt(p).id \in DOMAIN traces[p[1]]
      OBVIOUS
    <3>1. PICK r \in DOMAIN table : nameIn(table, r) = nameAt(p)
      BY <2>8
    <3>2. table[r].graph = p[1] /\ table[r].event = objectAt(p).id
      BY <3>1 DEF nameIn, nameAt
    <3>3. p = <<p[1], p[2]>> /\ p[1] \in Nat /\ p[2] \in Nat
      BY <2>2, PlacesAre
    <3>4. p[1] \in DOMAIN traces
      BY <1>1, <2>3, <3>3 DEF ObjectsInv, TracesHold
    <3> QED
      BY <2>1, <3>2, <3>4
  <2>11. \A g \in DOMAIN traces : \A x \in DOMAIN traces[g] : \E p \in Places : nameAt(p) = <<g, x>>
    BY <1>1, <2>10, TracesFilled
  <2>12. ASSUME NEW g \in DOMAIN traces, NEW x \in DOMAIN traces[g]
         PROVE  /\ Offsets(table, g)[x] \in DOMAIN table
                /\ nameIn(table, Offsets(table, g)[x]) = <<g, x>>
    <3> DEFINE R == RowsOf(table, g, x)
    <3>1. PICK p \in Places : nameAt(p) = <<g, x>>
      BY <2>11
    <3>2. PICK r \in DOMAIN table : nameIn(table, r) = <<g, x>>
      BY <2>8, <3>1
    <3>3. r \in R
      BY <3>2 DEF nameIn, RowsOf
    <3>4. R \in SUBSET (0 .. Len(table)) /\ R \in SUBSET Nat
      BY <2>4 DEF RowsOf
    <3> HIDE DEF R
    <3>5. PICK m \in R : \A y \in R : y <= m
      BY <2>4, <3>3, <3>4, GreatestNat
    <3>6. Greatest(R) = m
      BY <3>4, <3>5, GreatestIs
    <3>7. Offsets(table, g)[x] = Greatest(R)
      BY <3>3 DEF Offsets, R
    <3>8. m \in DOMAIN table /\ table[m].graph = g /\ table[m].event = x
      BY <3>5 DEF R, RowsOf
    <3> QED
      BY <3>6, <3>7, <3>8 DEF nameIn
  <2>13. ASSUME NEW g \in DOMAIN traces
         PROVE  DOMAIN Offsets(table, g) = DOMAIN traces[g] /\ IsSeq(Offsets(table, g))
    <3> DEFINE f == Offsets(table, g)
    <3>1. DOMAIN traces[g] = 1 .. Len(traces[g]) /\ Len(traces[g]) \in Nat
      BY <1>1 DEF ObjectsInv, TracesHold
    <3>2. f = [x \in DOMAIN traces[g] |-> f[x]]
      BY DEF Offsets
    <3> HIDE DEF f
    <3>3. f = [x \in 1 .. Len(traces[g]) |-> f[x]]
      BY <3>1, <3>2
    <3>4. IsSeq(f) /\ DOMAIN f = DOMAIN traces[g]
      BY <3>1, <3>3, FunctionIsList
    <3> QED
      BY <3>4 DEF f
  <2>14. Rows' = DOMAIN table
    BY <2>1 DEF Rows
  <2>15. /\ DOMAIN builder = 1 .. Len(builder) /\ Len(builder) \in Nat
         /\ DOMAIN registry'.primary = DOMAIN builder /\ Len(registry'.primary) = Len(builder)
    <3>1. DOMAIN builder = 1 .. Len(builder) /\ Len(builder) \in Nat
      BY <2>2 DEF Shape
    <3> QED
      BY <2>1, <3>1
  <2>16. ASSUME NEW a \in DOMAIN builder
         PROVE  {r \in DOMAIN table : table[r].l0 = a} =
                  registry'.primary[a] .. (IF a = Len(registry'.primary) THEN Len(table)
                                           ELSE registry'.primary[a + 1] - 1)
    <3>1. {r \in DOMAIN table : table[r].l0 = a} =
            at(a) + 1 .. (IF a = Len(builder) THEN Len(table) ELSE at(a + 1))
      BY <2>4
    <3>2. a # Len(builder) => a + 1 \in DOMAIN builder
      BY <2>15
    <3>3. a # Len(builder) => registry'.primary[a + 1] = at(a + 1) + 1 /\ at(a + 1) \in Nat
      BY <2>1, <2>4, <3>2
    <3>4. registry'.primary[a] = at(a) + 1
      BY <2>1
    <3>5. (IF a = Len(builder) THEN Len(table) ELSE at(a + 1))
            = (IF a = Len(registry'.primary) THEN Len(table) ELSE registry'.primary[a + 1] - 1)
      BY <2>15, <3>3
    <3> QED
      BY <3>1, <3>4, <3>5
  <2>17. /\ \A r \in Rows' : \E p \in Places' :
              nameIn(registry'.table, r) = nameAt(p)' /\ label_map'[registry'.table[r].l0] = firstLabel(objectAt(p)')
         /\ \A p \in Places' : \E r \in Rows' : nameIn(registry'.table, r) = nameAt(p)'
         /\ \A r, s \in Rows' : nameIn(registry'.table, r) = nameIn(registry'.table, s) => r = s
    <3>1. /\ \A r \in Rows' : \E p \in Places :
                nameIn(registry'.table, r) = nameAt(p) /\ label_map'[registry'.table[r].l0] = firstLabel(objectAt(p))
      BY <1>1, <2>1, <2>7, <2>14
    <3> QED
      BY <2>1, <2>5, <2>8, <2>9, <2>14, <3>1
  <2>22. \A g \in DOMAIN traces' : IsSeq(traces'[g])
    BY <2>1, <2>13
  <2>18. \A g \in DOMAIN traces' : \A x \in DOMAIN traces'[g] :
           traces'[g][x] \in Rows' /\ nameIn(registry'.table, traces'[g][x]) = <<g, x>>
    <3>1. DOMAIN traces' = DOMAIN traces /\ \A g \in DOMAIN traces : traces'[g] = Offsets(table, g)
      BY <2>1
    <3> QED
      BY <2>1, <2>12, <2>13, <2>14, <3>1
  <2>19. \A p \in Places' : p[1] \in DOMAIN traces' /\ (objectAt(p)').id \in DOMAIN traces'[p[1]]
    BY <2>1, <2>5, <2>10, <2>13
  <2>20. \A a \in DOMAIN builder' :
           {r \in Rows' : registry'.table[r].l0 = a} =
             registry'.primary[a] .. (IF a = Len(registry'.primary) THEN Len(registry'.table)
                                      ELSE registry'.primary[a + 1] - 1)
    BY <1>1, <2>1, <2>14, <2>16
  <2>21. DOMAIN registry'.primary = DOMAIN builder'
    BY <1>1, <2>15
  <2>23. Rows' = 1 .. Len(registry'.table) /\ Len(registry'.table) \in Nat
    BY <2>1, <2>4, <2>14
  <2> QED
    BY <2>5, <2>17, <2>18, <2>19, <2>20, <2>21, <2>22, <2>23 DEF RegistryHolds
<1> QED
  BY <1>2, <1>3

\* The registry is laid out, and what is said of all.
LEMMA LayOutObjects ==
  ASSUME StorageInv, StorageInv', ObjectsInv, layOutRegistry
  PROVE  ObjectsInv'
<1>1. /\ pc = "load" /\ graph \notin DOMAIN db /\ pc' \in {"containment", "undefined"}
      /\ UNCHANGED <<path, db, graph, pos, label_map, builder, elements, attrs>>
  BY LaidOut
<1>2. IdentifiersAreDense'
  BY <1>1 DEF ObjectsInv, IdentifiersAreDense
<1>3. Progress'
  <2>1. graph = Len(db) + 1
    <3>1. graph \in 1 .. Len(db) + 1 /\ DOMAIN db = 1 .. Len(db) /\ Len(db) \in Nat
      BY PlacesAre DEF StorageInv, Shape
    <3> QED
      BY <1>1, <3>1
  <2> QED
    BY <1>1, <2>1 DEF ObjectsInv, Progress
<1>4. Loaded' = Loaded
  BY <1>1 DEF Loaded, Places
<1>5. Identified' /\ BuilderHolds' /\ ElementsHold'
  BY <1>1, <1>4, SameFiled
<1>6. TracesHold' /\ AttrsHold' /\ LinksHold'
  BY <1>1 DEF TracesHold, AttrsHold, LinksHold
<1> QED
  BY <1>2, <1>3, <1>5, <1>6, LayOutRegistryHolds DEF ObjectsInv

-----------------------------------------------------------------------------
(* Sorting.                                                                *)

\* Rows of the same length are in one order.
LEMMA RowsOrdered ==
  ASSUME NEW n \in Nat, NEW r \in [1 .. n -> Nat], NEW s \in [1 .. n -> Nat], NEW t \in [1 .. n -> Nat]
  PROVE  /\ ~Precedes(r, r)
         /\ Precedes(r, s) /\ Precedes(s, t) => Precedes(r, t)
         /\ r = s \/ Precedes(r, s) \/ Precedes(s, r)
<1>1. ~Precedes(r, r)
  BY DEF Precedes
<1>2. ASSUME Precedes(r, s), Precedes(s, t) PROVE Precedes(r, t)
  <2>1. PICK i \in 1 .. n : r[i] < s[i] /\ \A j \in 1 .. i - 1 : r[j] = s[j]
    BY <1>2 DEF Precedes
  <2>2. PICK k \in 1 .. n : s[k] < t[k] /\ \A j \in 1 .. k - 1 : s[j] = t[j]
    BY <1>2 DEF Precedes
  <2>3. PICK m \in 1 .. n : m <= i /\ m <= k /\ (m = i \/ m = k)
    <3>1. CASE i <= k
      <4>1. i <= i
        OBVIOUS
      <4> QED
        BY <3>1, <4>1
    <3>2. CASE k <= i
      <4>1. k <= k
        OBVIOUS
      <4> QED
        BY <3>2, <4>1
    <3> QED
      BY <3>1, <3>2
  <2>4. \A j \in 1 .. m - 1 : r[j] = t[j]
    <3>1. \A j \in 1 .. m - 1 : j \in 1 .. i - 1 /\ j \in 1 .. k - 1
      BY <2>3
    <3> QED
      BY <2>1, <2>2, <3>1
  <2>5. r[m] < t[m]
    <3>1. r[m] < s[m] \/ r[m] = s[m]
      BY <2>1, <2>3
    <3>2. s[m] < t[m] \/ s[m] = t[m]
      BY <2>2, <2>3
    <3>3. r[m] < s[m] \/ s[m] < t[m]
      BY <2>1, <2>2, <2>3
    <3>4. r[m] \in Nat /\ s[m] \in Nat /\ t[m] \in Nat
      OBVIOUS
    <3> QED
      BY <3>1, <3>2, <3>3, <3>4
  <2> QED
    BY <2>4, <2>5 DEF Precedes
<1>3. ASSUME r # s PROVE Precedes(r, s) \/ Precedes(s, r)
  <2> DEFINE D == {i \in 1 .. n : r[i] # s[i]}
  <2>1. D \in SUBSET Nat /\ D # {}
    <3>1. (\A i \in 1 .. n : r[i] = s[i]) => r = s
      OBVIOUS
    <3>2. PICK i \in 1 .. n : r[i] # s[i]
      BY <1>3, <3>1
    <3>3. i \in D
      BY <3>2
    <3>4. \A j \in D : j \in Nat
      OBVIOUS
    <3> QED
      BY <3>3, <3>4
  <2>2. PICK i \in D : \A j \in D : i <= j
    <3> HIDE DEF D
    <3> QED
      BY <2>1, LeastNat
  <2>3. i \in 1 .. n /\ r[i] # s[i] /\ \A j \in 1 .. i - 1 : r[j] = s[j] /\ s[j] = r[j]
    BY <2>2
  <2>4. r[i] < s[i] \/ s[i] < r[i]
    BY <2>3
  <2> QED
    BY <2>3, <2>4 DEF Precedes
<1> QED
  BY <1>1, <1>2, <1>3

\* Sorting rows of the same length makes up no rows.
LEMMA SortedHolds ==
  ASSUME NEW n \in Nat, NEW table \in Seq([1 .. n -> Nat])
  PROVE  /\ DOMAIN Sorted(table) = 1 .. Len(table)
         /\ \A k \in DOMAIN Sorted(table) : \E i \in DOMAIN table : Sorted(table)[k] = table[i]
<1> DEFINE D == DOMAIN table
           before(i) == {j \in D : \/ Precedes(table[j], table[i])
                                   \/ table[j] = table[i] /\ j < i}
           R == {p \in D \X D : p[1] \in before(p[2])}
<1>1. D = 1 .. Len(table) /\ Len(table) \in Nat /\ \A i \in D : table[i] \in [1 .. n -> Nat]
  OBVIOUS
<1>2. \A x, y \in D : <<x, y>> \in R <=> x \in before(y)
  OBVIOUS
<1>3. \A x, y \in D : x \in before(y) <=> Precedes(table[x], table[y]) \/ (table[x] = table[y] /\ x < y)
  OBVIOUS
<1>4. Sorted(table) = [k \in 1 .. Len(table) |-> table[CHOOSE i \in D : Cardinality(before(i)) = k - 1]]
  BY DEF Sorted
<1>5. \A i \in D : before(i) \subseteq D
  OBVIOUS
<1> HIDE DEF before, R, D
<1>6. IsFiniteSet(D) /\ Cardinality(D) = Len(table)
  <2> DEFINE m == Len(table)
  <2>1. m \in Nat /\ D = 1 .. m
    BY <1>1
  <2> HIDE DEF m
  <2>2. IsFiniteSet(1 .. m) /\ Cardinality(1 .. m) = m
    BY <2>1, FS_Interval
  <2> QED
    BY <2>1, <2>2 DEF m
<1>7. Orders(R, D)
  <2>1. ASSUME NEW x \in D PROVE <<x, x>> \notin R
    <3>1. x \in Nat /\ table[x] \in [1 .. n -> Nat]
      BY <1>1
    <3>2. ~Precedes(table[x], table[x])
      BY <3>1, RowsOrdered
    <3> QED
      BY <1>2, <1>3, <3>1, <3>2
  <2>2. ASSUME NEW x \in D, NEW y \in D, NEW z \in D, <<x, y>> \in R, <<y, z>> \in R
        PROVE  <<x, z>> \in R
    <3>1. x \in Nat /\ y \in Nat /\ z \in Nat
      BY <1>1
    <3>2. Precedes(table[x], table[y]) \/ (table[x] = table[y] /\ x < y)
      BY <1>2, <1>3, <2>2
    <3>3. Precedes(table[y], table[z]) \/ (table[y] = table[z] /\ y < z)
      BY <1>2, <1>3, <2>2
    <3>4. Precedes(table[x], table[y]) /\ Precedes(table[y], table[z]) => Precedes(table[x], table[z])
      BY <1>1, RowsOrdered
    <3>5. Precedes(table[x], table[z]) \/ (table[x] = table[z] /\ x < z)
      BY <3>1, <3>2, <3>3, <3>4
    <3> QED
      BY <1>2, <1>3, <3>5
  <2>3. ASSUME NEW x \in D, NEW y \in D PROVE x = y \/ <<x, y>> \in R \/ <<y, x>> \in R
    <3>1. table[x] = table[y] \/ Precedes(table[x], table[y]) \/ Precedes(table[y], table[x])
      BY <1>1, RowsOrdered
    <3>2. x = y \/ x < y \/ y < x
      BY <1>1
    <3> QED
      BY <1>2, <1>3, <3>1, <3>2
  <2> QED
    BY <2>1, <2>2, <2>3 DEF Orders
<1>8. ASSUME NEW k \in 1 .. Len(table)
      PROVE  \E i \in D : Sorted(table)[k] = table[i]
  <2>1. k \in 1 .. Cardinality(D)
    BY <1>6
  <2>2. PICK x \in D : Cardinality(Before(x, R, D)) = k - 1
    BY <1>6, <1>7, <2>1, Ranks
  <2>3. Before(x, R, D) = before(x)
    BY <1>2, <1>5 DEF Before
  <2>4. \E i \in D : Cardinality(before(i)) = k - 1
    BY <2>2, <2>3
  <2> DEFINE c == CHOOSE i \in D : Cardinality(before(i)) = k - 1
  <2>5. c \in D
    BY <2>4
  <2> HIDE DEF c
  <2>6. Sorted(table)[k] = table[c]
    BY <1>4 DEF c
  <2> QED
    BY <2>5, <2>6
<1>9. DOMAIN Sorted(table) = 1 .. Len(table)
  BY <1>4
<1> QED
  BY <1>8, <1>9 DEF D

-----------------------------------------------------------------------------
(* Indexing.                                                               *)

\* So does the registry, once it is laid out.
LEMMA SameRegistry ==
  ASSUME RegistryHolds, UNCHANGED <<db, traces, label_map, builder>>,
         registry'.table = registry.table, registry'.primary = registry.primary,
         pc \in {"containment", "links", "indexed"} \/ pc' = pc
  PROVE  RegistryHolds'
<1>1. Rows' = Rows /\ Places' = Places
  BY DEF Rows, Places
<1>2. \A p : nameAt(p)' = nameAt(p) /\ objectAt(p)' = objectAt(p)
  BY DEF nameAt, objectAt
<1>3. \A p : firstLabel(objectAt(p))' = firstLabel(objectAt(p)')
  BY DEF firstLabel
<1>4. \/ pc \in {"containment", "links", "indexed"}
      \/ pc' \notin {"containment", "links", "indexed"}
  OBVIOUS
<1>5. CASE pc' \notin {"containment", "links", "indexed"}
  BY <1>5 DEF RegistryHolds
<1>6. CASE pc \in {"containment", "links", "indexed"}
  BY <1>1, <1>2, <1>3, <1>6 DEF RegistryHolds
<1> QED
  BY <1>4, <1>5, <1>6

\* A containment table is filed: nothing is said of it here.
LEMMA ContainmentObjects ==
  ASSUME ObjectsInv, indexContainment
  PROVE  ObjectsInv'
<1>1. UNCHANGED <<path, db, graph, pos, pc, label_map, builder, traces, elements, registry, attrs>>
  BY DEF indexContainment, loading, builders
<1>2. Loaded' = Loaded /\ Rows' = Rows
  BY <1>1 DEF Loaded, Places, Rows
<1>3. /\ Identified' /\ BuilderHolds' /\ ElementsHold' /\ Places' = Places
      /\ \A p : nameAt(p)' = nameAt(p) /\ objectAt(p)' = objectAt(p)
  BY <1>1, <1>2, SameFiled
<1>4. IdentifiersAreDense' /\ Progress'
  BY <1>1 DEF ObjectsInv, IdentifiersAreDense, Progress
<1>5. TracesHold'
  BY <1>1, <1>2 DEF ObjectsInv, TracesHold
<1>6. RegistryHolds'
  BY <1>1, <1>2, <1>3, SameRegistry DEF ObjectsInv
<1>7. AttrsHold'
  BY <1>1, <1>2 DEF ObjectsInv, AttrsHold
<1>8. LinksHold'
  <2>1. Inside' = Inside
    BY <1>1 DEF Inside
  <2>2. Links(1)' = Links(1) /\ Links(-1)' = Links(-1)
    BY <1>1, <2>1 DEF Links, LinksOver
  <2> QED
    BY <1>1, <2>2 DEF ObjectsInv, LinksHold
<1> QED
  BY <1>3, <1>4, <1>5, <1>6, <1>7, <1>8 DEF ObjectsInv

\* The rows of the property table of a key, in the order in which they come.
ValueRows(k) ==
  [i \in DOMAIN elements[k] |->
     <<elements[k][i][1], elements[k][i][2], traces[elements[k][i][3]][elements[k][i][4]]>>]

\* What a property table is when it is indexed.
LEMMA Indexed ==
  ASSUME indexProperties
  PROVE  /\ pc = "containment" /\ pc' = "links"
         /\ UNCHANGED <<path, db, graph, pos, label_map, builder, traces, elements, registry>>
         /\ DOMAIN attrs' \subseteq Keys
         /\ \A k \in DOMAIN attrs' :
              /\ attrs'[k].table = Sorted(ValueRows(k))
              /\ attrs'[k].secondary = LastByRow(Sorted(ValueRows(k)))
              /\ attrs'[k].secondary2 = LastByName(registry.table, Sorted(ValueRows(k)))
<1>1. /\ pc = "containment" /\ pc' = "links"
      /\ UNCHANGED <<path, db, graph, pos, label_map, builder, traces, elements, registry>>
  BY DEF indexProperties, loading, builders
<1> DEFINE K == {j \in Keys : elements[j] # <<>>}
           table(k) == Sorted(ValueRows(k))
           upTo(k, a) == Cardinality({r \in DOMAIN table(k) : table(k)[r][1] <= a})
           first(k) == [a \in 1 .. Greatest({elements[k][i][1] : i \in DOMAIN elements[k]}) |->
                          <<upTo(k, a - 1) + 1, upTo(k, a) + 1>>]
<1>2. attrs' = [k \in K |-> [table |-> table(k), primary |-> first(k),
                             secondary |-> LastByRow(table(k)),
                             secondary2 |-> LastByName(registry.table, table(k))]]
  BY Zenon DEF indexProperties, ValueRows, LastByRow, LastByName, Home, nameIn
<1> HIDE DEF table, first
<1>3. \A k \in K : /\ attrs'[k].table = table(k)
                   /\ attrs'[k].secondary = LastByRow(table(k))
                   /\ attrs'[k].secondary2 = LastByName(registry.table, table(k))
  BY <1>2
<1>4. DOMAIN attrs' = K
  BY <1>2
<1> QED
  BY <1>1, <1>3, <1>4 DEF table

\* The properties are indexed: what a row of their tables is about is an object.
LEMMA PropertiesObjects ==
  ASSUME StorageInv, ObjectsInv, indexProperties
  PROVE  ObjectsInv'
<1>1. /\ pc = "containment" /\ pc' = "links"
      /\ UNCHANGED <<path, db, graph, pos, label_map, builder, traces, elements, registry>>
      /\ DOMAIN attrs' \subseteq Keys
      /\ \A k \in DOMAIN attrs' :
           /\ attrs'[k].table = Sorted(ValueRows(k))
           /\ attrs'[k].secondary = LastByRow(Sorted(ValueRows(k)))
           /\ attrs'[k].secondary2 = LastByName(registry.table, Sorted(ValueRows(k)))
  BY Indexed
<1>2. Loaded' = Loaded /\ Rows' = Rows
  BY <1>1 DEF Loaded, Places, Rows
<1>3. Identified' /\ BuilderHolds' /\ ElementsHold'
  BY <1>1, <1>2, SameFiled
<1>4. IdentifiersAreDense' /\ Progress'
  BY <1>1 DEF ObjectsInv, IdentifiersAreDense, Progress
<1>5. TracesHold'
  BY <1>1 DEF TracesHold
<1>6. RegistryHolds'
  BY <1>1, SameRegistry DEF ObjectsInv
<1>7. LinksHold'
  BY <1>1 DEF LinksHold
<1>8. /\ \A g \in DOMAIN traces : \A x \in DOMAIN traces[g] : traces[g][x] \in Rows
      /\ \A p \in Places : p[1] \in DOMAIN traces /\ objectAt(p).id \in DOMAIN traces[p[1]]
      /\ Rows \subseteq Nat
  <2>1. Rows = 1 .. Len(registry.table) /\ Len(registry.table) \in Nat
    BY <1>1 DEF ObjectsInv, RegistryHolds
  <2> QED
    BY <1>1, <2>1 DEF ObjectsInv, RegistryHolds
<1>9. ASSUME NEW k \in Keys
      PROVE  \A i \in DOMAIN Sorted(ValueRows(k)) : Sorted(ValueRows(k))[i][3] \in Rows
  <2> DEFINE e == elements[k]
             v == ValueRows(k)
  <2>1. /\ e \in Seq(Nat \X Nat \X Nat \X Nat)
        /\ \A i \in DOMAIN e : \E p \in Loaded : <<e[i][3], e[i][4]>> = nameAt(p)
    BY DEF ObjectsInv, ElementsHold
  <2>2. DOMAIN e = 1 .. Len(e) /\ Len(e) \in Nat
    BY <2>1
  <2>3. ASSUME NEW i \in DOMAIN e
        PROVE  /\ e[i][1] \in Nat /\ e[i][2] \in Nat
               /\ traces[e[i][3]][e[i][4]] \in Rows
    <3>1. PICK p \in Loaded : <<e[i][3], e[i][4]>> = nameAt(p)
      BY <2>1
    <3>2. p \in Places /\ e[i][3] = p[1] /\ e[i][4] = objectAt(p).id
      BY <3>1 DEF Loaded, nameAt
    <3>3. e[i] \in Nat \X Nat \X Nat \X Nat
      BY <2>1
    <3> QED
      BY <1>8, <3>2, <3>3
  <2> DEFINE rowOf(i) == <<e[i][1], e[i][2], traces[e[i][3]][e[i][4]]>>
  <2>4. v = [i \in DOMAIN e |-> rowOf(i)]
    BY SMTT(30) DEF ValueRows
  <2>5. \A i \in DOMAIN e : rowOf(i) \in [1 .. 3 -> Nat] /\ rowOf(i)[3] \in Rows
    <3> SUFFICES ASSUME NEW i \in DOMAIN e PROVE rowOf(i) \in [1 .. 3 -> Nat] /\ rowOf(i)[3] \in Rows
      OBVIOUS
    <3>1. PICK a \in Nat, b \in Nat, c \in Rows : a = e[i][1] /\ b = e[i][2] /\ c = traces[e[i][3]][e[i][4]]
      BY <2>3
    <3>2. c \in Nat
      BY <1>8
    <3>3. <<a, b, c>> \in [1 .. 3 -> Nat] /\ <<a, b, c>>[3] = c
      BY <3>2
    <3> QED
      BY <3>1, <3>3
  <2> HIDE DEF rowOf, e, v
  <2>6. v \in Seq([1 .. 3 -> Nat]) /\ DOMAIN v = DOMAIN e
    BY <2>2, <2>4, <2>5
  <2>7. \A j \in DOMAIN Sorted(v) : \E i \in DOMAIN v : Sorted(v)[j] = v[i]
    BY <2>6, SortedHolds
  <2>8. \A i \in DOMAIN v : v[i][3] \in Rows
    BY <2>4, <2>5, <2>6
  <2> QED
    BY <2>7, <2>8 DEF v
<1>10. AttrsHold'
  <2>1. ASSUME NEW k \in DOMAIN attrs'
        PROVE  /\ \A i \in DOMAIN attrs'[k].table : attrs'[k].table[i][3] \in Rows'
               /\ attrs'[k].secondary = LastByRow(attrs'[k].table)
               /\ attrs'[k].secondary2 = LastByName(registry'.table, attrs'[k].table)
    BY <1>1, <1>2, <1>9
  <2> QED
    BY <2>1 DEF AttrsHold
<1> QED
  BY <1>3, <1>4, <1>5, <1>6, <1>7, <1>10 DEF ObjectsInv

\* The links between neighbours.
LEMMA LinkObjects ==
  ASSUME StorageInv, ObjectsInv, indexing2
  PROVE  ObjectsInv'
<1>1. /\ pc = "links" /\ pc' = "indexed"
      /\ UNCHANGED <<path, db, graph, pos, label_map, builder, traces, elements, attrs>>
  BY DEF indexing2, loading, builders
<1>2. /\ registry'.table = registry.table /\ registry'.primary = registry.primary
      /\ registry'.secondary = [g \in DOMAIN traces |-> <<traces[g][1], Last(traces[g])>>]
      /\ registry'.next = Links(1) /\ registry'.prev = Links(-1)
  <2> DEFINE ends == [g \in DOMAIN traces |-> <<traces[g][1], Last(traces[g])>>]
             up == Links(1)
             down == Links(-1)
  <2>1. registry = [table |-> registry.table, primary |-> registry.primary,
                    secondary |-> registry.secondary, next |-> registry.next, prev |-> registry.prev]
    BY DEF StorageInv, Shape
  <2>2. registry' = [registry EXCEPT !.secondary = ends, !.next = up, !.prev = down]
    BY DEF indexing2
  <2> HIDE DEF ends, up, down
  <2>3. /\ registry'.table = registry.table /\ registry'.primary = registry.primary
        /\ registry'.secondary = ends /\ registry'.next = up /\ registry'.prev = down
    BY <2>1, <2>2
  <2> QED
    BY <2>3 DEF ends, up, down
<1>3. Loaded' = Loaded /\ Rows' = Rows
  BY <1>1, <1>2 DEF Loaded, Places, Rows
<1>4. Identified' /\ BuilderHolds' /\ ElementsHold'
  BY <1>1, <1>3, SameFiled
<1>5. IdentifiersAreDense' /\ Progress'
  BY <1>1 DEF ObjectsInv, IdentifiersAreDense, Progress
<1>6. TracesHold'
  BY <1>1 DEF TracesHold
<1>7. RegistryHolds'
  BY <1>1, <1>2, SameRegistry DEF ObjectsInv
<1>8. AttrsHold'
  BY <1>1, <1>2, <1>3 DEF ObjectsInv, AttrsHold
<1>9. LinksHold'
  <2>1. Inside' = Inside
    BY <1>1 DEF Inside
  <2>2. Links(1)' = Links(1) /\ Links(-1)' = Links(-1)
    BY <1>1, <2>1 DEF Links, LinksOver
  <2> QED
    BY <1>1, <1>2, <2>2 DEF LinksHold
<1> QED
  BY <1>4, <1>5, <1>6, <1>7, <1>8, <1>9 DEF ObjectsInv

\* When nothing changes.
LEMMA SameObjects ==
  ASSUME ObjectsInv, UNCHANGED vars
  PROVE  ObjectsInv'
<1>1. UNCHANGED <<path, db, graph, pos, pc, label_map, builder, traces, elements, registry, attrs>>
  BY DEF vars, loading, builders
<1>2. Loaded' = Loaded /\ Rows' = Rows
  BY <1>1 DEF Loaded, Places, Rows
<1>3. Identified' /\ BuilderHolds' /\ ElementsHold'
  BY <1>1, <1>2, SameFiled
<1>4. IdentifiersAreDense' /\ Progress'
  BY <1>1 DEF ObjectsInv, IdentifiersAreDense, Progress
<1>5. TracesHold'
  BY <1>1, <1>2 DEF ObjectsInv, TracesHold
<1>6. RegistryHolds'
  BY <1>1, SameRegistry DEF ObjectsInv
<1>7. AttrsHold'
  BY <1>1, <1>2 DEF ObjectsInv, AttrsHold
<1>8. LinksHold'
  <2>1. Inside' = Inside
    BY <1>1 DEF Inside
  <2>2. Links(1)' = Links(1) /\ Links(-1)' = Links(-1)
    BY <1>1, <2>1 DEF Links, LinksOver
  <2> QED
    BY <1>1, <2>2 DEF ObjectsInv, LinksHold
<1> QED
  BY <1>3, <1>4, <1>5, <1>6, <1>7, <1>8 DEF ObjectsInv

\* The invariants hold at first and are kept by every step.
LEMMA ObjectsAreInvariant == Spec => [](StorageInv /\ ObjectsInv)
<1>1. Init => ObjectsInv
  BY InitObjects
<1>2. StorageInv /\ StorageInv' /\ ObjectsInv /\ [Next]_vars => ObjectsInv'
  <2> SUFFICES ASSUME StorageInv, StorageInv', ObjectsInv, [Next]_vars PROVE ObjectsInv'
    OBVIOUS
  <2>1. CASE convert
    BY <2>1, ConvertObjects
  <2>2. CASE loadObject
    BY <2>2, LoadObjects
  <2>3. CASE loadUnknown \/ nextGraph
    BY <2>3, PassObjects
  <2>4. CASE layOutRegistry
    BY <2>4, LayOutObjects
  <2>5. CASE indexContainment
    BY <2>5, ContainmentObjects
  <2>6. CASE indexProperties
    BY <2>6, PropertiesObjects
  <2>7. CASE indexing2
    BY <2>7, LinkObjects
  <2>8. CASE UNCHANGED vars
    BY <2>8, SameObjects
  <2> QED
    BY <2>1, <2>2, <2>3, <2>4, <2>5, <2>6, <2>7, <2>8 DEF Next, terminated
<1> QED
  BY <1>1, <1>2, StorageIsInvariant, PTL DEF Spec

-----------------------------------------------------------------------------
(* The theorems about the objects.                                         *)

\* convert gives every graph that refers to its own objects the identifiers
\* from 1, whatever it had, and a file has them: the tables find a place for
\* every object.
THEOREM DenseIdentifiers == Spec => []IdentifiersAreDense
<1>1. ObjectsInv => IdentifiersAreDense
  BY DEF ObjectsInv
<1> QED
  BY <1>1, ObjectsAreInvariant, PTL

\* A property is the same whether it is asked of an object or of its row.
THEOREM IndicesAgree == Spec => []PropertyIndicesAgree
<1>1. ObjectsInv => PropertyIndicesAgree
  <2> SUFFICES ASSUME ObjectsInv, pc = "indexed", NEW r \in Rows, NEW k \in Keys
               PROVE  resolveProperties(registry.table[r].graph, registry.table[r].event, k)
                        = resolve_record_if_exists(r, k)
    BY DEF PropertyIndicesAgree
  <2> DEFINE rows == registry.table
             table == attrs[k].table
             h == nameIn(rows, r)
  <2>1. CASE k \notin DOMAIN attrs
    BY <2>1 DEF resolveProperties, resolve_record_if_exists
  <2>2. CASE k \in DOMAIN attrs
    <3>1. /\ \A i \in DOMAIN table : table[i][3] \in Rows
          /\ attrs[k].secondary = LastByRow(table)
          /\ attrs[k].secondary2 = LastByName(rows, table)
      BY <2>2 DEF ObjectsInv, AttrsHold
    <3>2. \A s \in Rows : nameIn(rows, r) = nameIn(rows, s) => r = s
      BY DEF ObjectsInv, RegistryHolds
    <3>3. h = <<registry.table[r].graph, registry.table[r].event>>
      BY DEF nameIn
    <3> HIDE DEF rows, table, h
    <3>4. \A i \in DOMAIN table : nameIn(rows, table[i][3]) = h <=> table[i][3] = r
      BY <3>1, <3>2 DEF h
    <3>5. {i \in DOMAIN table : nameIn(rows, table[i][3]) = h} = {i \in DOMAIN table : table[i][3] = r}
      BY <3>4
    <3>6. h \in DOMAIN LastByName(rows, table) <=> r \in DOMAIN LastByRow(table)
      BY <3>4 DEF LastByName, LastByRow
    <3>7. r \in DOMAIN LastByRow(table) =>
            /\ LastByRow(table)[r] = Greatest({i \in DOMAIN table : table[i][3] = r})
            /\ LastByName(rows, table)[h] = Greatest({i \in DOMAIN table : nameIn(rows, table[i][3]) = h})
      BY <3>6 DEF LastByName, LastByRow
    <3> QED
      BY <2>2, <3>1, <3>3, <3>5, <3>6, <3>7 DEF resolveProperties, resolve_record_if_exists, table
  <2> QED
    BY <2>1, <2>2
<1> QED
  BY <1>1, ObjectsAreInvariant, PTL

\* The links of a graph go through all its objects in the order of their numbers.
THEOREM LinkedObjects == Spec => []LinksInOrder
<1>1. ObjectsInv => LinksInOrder
  <2> SUFFICES ASSUME ObjectsInv, pc = "indexed" PROVE LinksInOrder
    BY DEF LinksInOrder
  <2>1. /\ registry.secondary = [g \in DOMAIN traces |-> <<traces[g][1], Last(traces[g])>>]
        /\ registry.next = Links(1)
        /\ registry.prev = Links(-1)
    BY DEF ObjectsInv, LinksHold
  <2>2. ASSUME NEW g \in DOMAIN traces
        PROVE  /\ DOMAIN traces[g] = 1 .. Len(traces[g]) /\ Len(traces[g]) \in Nat
               /\ \A x \in DOMAIN traces[g] :
                    registry.table[traces[g][x]].graph = g /\ registry.table[traces[g][x]].event = x
    <3>1. /\ IsSeq(traces[g])
          /\ \A x \in DOMAIN traces[g] : nameIn(registry.table, traces[g][x]) = <<g, x>>
      BY DEF ObjectsInv, RegistryHolds
    <3> QED
      BY <3>1 DEF IsSeq, nameIn
  <2>3. ASSUME NEW g \in DOMAIN traces, NEW x \in DOMAIN traces[g], NEW step \in {1, -1},
               x + step \in DOMAIN traces[g]
        PROVE  /\ traces[g][x] \in DOMAIN Links(step)
               /\ Links(step)[traces[g][x]] = traces[g][x + step]
    <3> DEFINE linked == {p \in Inside : p[2] + step \in DOMAIN traces[p[1]]}
               r == traces[g][x]
               q == CHOOSE p \in linked : traces[p[1]][p[2]] = r
    <3>1. Links(step) = LinksOver(linked, step)
      BY DEF Links
    <3>2. <<g, x>> \in linked
      BY <2>3 DEF Inside
    <3>3. \A p \in linked : p[1] \in DOMAIN traces /\ p[2] \in DOMAIN traces[p[1]] /\ p = <<p[1], p[2]>>
      BY DEF Inside
    <3> HIDE DEF linked
    <3>4. q \in linked /\ traces[q[1]][q[2]] = r
      BY <3>2
    <3> HIDE DEF q
    <3>5. q[1] = g /\ q[2] = x
      BY <2>2, <3>3, <3>4
    <3>6. /\ r \in DOMAIN LinksOver(linked, step)
          /\ LinksOver(linked, step)[r] = traces[q[1]][q[2] + step]
      <4> DEFINE at(p) == traces[p[1]][p[2]]
                 on(p) == traces[p[1]][p[2] + step]
                 S == {at(p) : p \in linked}
      <4>1. LinksOver(linked, step) = [t \in S |-> on(CHOOSE p \in linked : at(p) = t)]
        BY DEF LinksOver
      <4>2. r \in S
        <5>1. r = at(<<g, x>>)
          OBVIOUS
        <5> HIDE DEF at, r
        <5> QED
          BY <3>2, <5>1
      <4>3. on(CHOOSE p \in linked : at(p) = r) = on(q)
        BY DEF q
      <4> HIDE DEF S, r
      <4>4. r \in DOMAIN LinksOver(linked, step) /\ LinksOver(linked, step)[r] = on(q)
        BY <4>1, <4>2, <4>3
      <4> QED
        BY <4>4
    <3> QED
      BY <3>1, <3>5, <3>6
  <2>4. ASSUME NEW g \in DOMAIN traces
        PROVE  LET n == Len(traces[g]) IN
               /\ <<registry.secondary[g][1], registry.secondary[g][2]>> = <<traces[g][1], traces[g][n]>>
               /\ \A x \in 1 .. n : /\ registry.table[traces[g][x]].graph = g
                                    /\ registry.table[traces[g][x]].event = x
               /\ \A x \in 1 .. n - 1 : LET r == traces[g][x]
                                           s == traces[g][x + 1]
                                       IN /\ r \in DOMAIN registry.next /\ registry.next[r] = s
                                          /\ s \in DOMAIN registry.prev /\ registry.prev[s] = r
    <3> DEFINE n == Len(traces[g])
    <3>1. registry.secondary[g] = <<traces[g][1], traces[g][n]>>
      BY <2>1 DEF Last
    <3>2. ASSUME NEW x \in 1 .. n - 1
          PROVE  /\ traces[g][x] \in DOMAIN registry.next /\ registry.next[traces[g][x]] = traces[g][x + 1]
                 /\ traces[g][x + 1] \in DOMAIN registry.prev
                 /\ registry.prev[traces[g][x + 1]] = traces[g][x]
      <4>1. x \in DOMAIN traces[g] /\ x + 1 \in DOMAIN traces[g] /\ x \in Nat
        BY <2>2
      <4>2. (x + 1) + -1 = x
        BY <4>1
      <4>3. /\ traces[g][x + 1] \in DOMAIN Links(-1)
            /\ Links(-1)[traces[g][x + 1]] = traces[g][(x + 1) + -1]
        BY <2>3, <4>1, <4>2
      <4>4. traces[g][x] \in DOMAIN Links(1) /\ Links(1)[traces[g][x]] = traces[g][x + 1]
        BY <2>3, <4>1
      <4> QED
        BY <2>1, <4>2, <4>3, <4>4
    <3> QED
      BY <2>2, <3>1, <3>2
  <2> QED
    BY <2>4 DEF LinksInOrder
<1> QED
  BY <1>1, ObjectsAreInvariant, PTL

\* A look-up by label finds the objects that have the label first, and no others.
THEOREM LabelledObjects == Spec => []ObjectsByLabel
<1>1. StorageInv /\ ObjectsInv => ObjectsByLabel
  <2> SUFFICES ASSUME StorageInv, ObjectsInv, pc = "indexed", Rows # {}, NEW a \in DOMAIN label_map
               PROVE  timed_dataless_exists(label_map[a]) =
                        {<<o.graph, o.id>> : o \in {p \in Objects : firstLabel(p) = label_map[a]}}
    BY DEF ObjectsByLabel
  <2>1. Shape /\ BuilderHolds
    BY DEF StorageInv, ObjectsInv
  <2>2. /\ \A r \in Rows : \E p \in Places :
             nameIn(registry.table, r) = nameAt(p) /\ label_map[registry.table[r].l0] = firstLabel(objectAt(p))
        /\ \A p \in Places : \E r \in Rows : nameIn(registry.table, r) = nameAt(p)
        /\ DOMAIN registry.primary = DOMAIN builder
        /\ \A b \in DOMAIN builder :
             {r \in Rows : registry.table[r].l0 = b} =
               registry.primary[b] .. (IF b = Len(registry.primary) THEN Len(registry.table)
                                       ELSE registry.primary[b + 1] - 1)
    BY DEF ObjectsInv, RegistryHolds
  <2>3. graph \notin DOMAIN db
    <3>1. graph = Len(db) + 1
      BY DEF ObjectsInv, Progress
    <3> QED
      BY <2>1, <3>1, PlacesAre
  <2>4. Loaded = Places
    BY <2>1, <2>3, AllLoaded
  <2>5. a \in DOMAIN builder
    <3>1. Loaded # {}
      BY <2>2, <2>4
    <3>2. Len(builder) = Len(label_map)
      BY <2>1, <3>1 DEF BuilderHolds
    <3> QED
      BY <2>1, <3>2 DEF Shape
  <2>6. \A b \in DOMAIN label_map : label_map[a] = label_map[b] => a = b
    BY <2>1 DEF BuilderHolds
  <2>7. label_map[a] \in Range(label_map) /\ IndexOf(label_map, label_map[a]) = a
    BY <2>6 DEF Range, IndexOf
  <2> DEFINE R == {r \in Rows : registry.table[r].l0 = a}
  <2>8. timed_dataless_exists(label_map[a]) = {nameIn(registry.table, r) : r \in R}
    <3>1. R = registry.primary[a] .. (IF a = Len(registry.primary) THEN Len(registry.table)
                                      ELSE registry.primary[a + 1] - 1)
      BY <2>2, <2>5
    <3> HIDE DEF R
    <3> QED
      BY <2>7, <3>1 DEF timed_dataless_exists, nameIn
  <2>9. \A r \in Rows : registry.table[r].l0 \in DOMAIN label_map
    BY <2>1 DEF Shape
  <2> DEFINE P == {p \in Places : firstLabel(objectAt(p)) = label_map[a]}
  <2>10. \A r \in R : \E p \in P : nameIn(registry.table, r) = nameAt(p)
    BY <2>2
  <2>11. ASSUME NEW p \in P PROVE \E r \in R : nameIn(registry.table, r) = nameAt(p)
    <3>1. PICK r \in Rows : nameIn(registry.table, r) = nameAt(p)
      BY <2>2
    <3>2. PICK q \in Places : nameIn(registry.table, r) = nameAt(q)
                              /\ label_map[registry.table[r].l0] = firstLabel(objectAt(q))
      BY <2>2
    <3>3. p = q
      BY <2>1, <3>1, <3>2, NamesDiffer DEF ObjectsInv
    <3>4. registry.table[r].l0 = a
      BY <2>6, <2>9, <3>2, <3>3
    <3> QED
      BY <3>1, <3>4
  <2>12. {nameIn(registry.table, r) : r \in R} = {nameAt(p) : p \in P}
    <3> HIDE DEF R, P
    <3> QED
      BY <2>10, <2>11
  <2> DEFINE O == {o \in Objects : firstLabel(o) = label_map[a]}
             read(p) == AsLoaded(p[1], objectAt(p))
  <2>13. /\ \A o \in Objects : \E p \in Places : o = read(p)
         /\ \A p \in Places : read(p) \in Objects
    <3>1. \A o : o \in Objects <=> \E g \in DOMAIN db : \E i \in DOMAIN db[g] : o = AsLoaded(g, db[g][i])
      BY DEF Objects
    <3>2. \A g \in DOMAIN db : \A i \in DOMAIN db[g] : <<g, i>> \in Places /\ read(<<g, i>>) = AsLoaded(g, db[g][i])
      BY DEF Places, objectAt
    <3>3. \A p \in Places : \E g \in DOMAIN db : \E i \in DOMAIN db[g] : p = <<g, i>>
      BY DEF Places
    <3> HIDE DEF read
    <3>4. ASSUME NEW o \in Objects PROVE \E p \in Places : o = read(p)
      BY <3>1, <3>2
    <3>5. ASSUME NEW p \in Places PROVE read(p) \in Objects
      <4>1. PICK g \in DOMAIN db : \E i \in DOMAIN db[g] : p = <<g, i>>
        BY <3>3
      <4>2. PICK i \in DOMAIN db[g] : p = <<g, i>>
        BY <4>1
      <4>3. read(p) = AsLoaded(g, db[g][i])
        BY <3>2, <4>2
      <4> QED
        BY <3>1, <4>3
    <3> QED
      BY <3>4, <3>5
  <2>14. \A p : /\ read(p).graph = p[1] /\ read(p).id = objectAt(p).id /\ read(p).ell = objectAt(p).ell
                /\ <<read(p).graph, read(p).id>> = nameAt(p)
                /\ firstLabel(read(p)) = firstLabel(objectAt(p))
    <3>1. \A p : read(p).graph = p[1] /\ read(p).id = objectAt(p).id /\ read(p).ell = objectAt(p).ell
      BY DEF AsLoaded
    <3> HIDE DEF read
    <3> QED
      BY <3>1 DEF nameAt, firstLabel
  <2> HIDE DEF read
  <2>15. {<<o.graph, o.id>> : o \in O} = {nameAt(p) : p \in P}
    <3>1. \A o \in O : \E p \in P : <<o.graph, o.id>> = nameAt(p)
      BY <2>13, <2>14
    <3>2. \A p \in P : \E o \in O : <<o.graph, o.id>> = nameAt(p)
      BY <2>13, <2>14
    <3> HIDE DEF O, P
    <3> QED
      BY <3>1, <3>2
  <2> HIDE DEF R, P
  <2> QED
    BY <2>8, <2>12, <2>15
<1> QED
  BY <1>1, ObjectsAreInvariant, PTL

=============================================================================
