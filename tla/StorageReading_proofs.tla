----------------------- MODULE StorageReading_proofs -----------------------
(***************************************************************************)
(* Reading the loaded graphs back, for all databases: what the tables hold *)
(* of the objects (ReadingInv), and that the range queries, the lookups by *)
(* label and the three ways of writing the objects out give it.            *)
(***************************************************************************)
EXTENDS Storage_proofs

-----------------------------------------------------------------------------
(* Sorting.                                                                *)

\* The rows of a table are in the order of Precedes.
InOrder(table) == \A i, j \in DOMAIN table : i < j => ~Precedes(table[j], table[i])

\* u has the rows of t, in another order.
Rearranges(u, t) ==
  DOMAIN u = DOMAIN t /\ \E f : Matches(f, DOMAIN t, DOMAIN t) /\ \A k \in DOMAIN t : u[k] = t[f[k]]

\* Sorting puts the rows of a table in order, and keeps each of them once.
LEMMA SortedPermutes ==
  ASSUME NEW n \in Nat, NEW table \in Seq([1 .. n -> Nat])
  PROVE  /\ Sorted(table) \in Seq([1 .. n -> Nat]) /\ Len(Sorted(table)) = Len(table)
         /\ InOrder(Sorted(table))
         /\ Rearranges(Sorted(table), table)
<1> DEFINE D == DOMAIN table
           before(i) == {j \in D : \/ Precedes(table[j], table[i])
                                   \/ table[j] = table[i] /\ j < i}
           R == {p \in D \X D : p[1] \in before(p[2])}
           at(k) == CHOOSE i \in D : Cardinality(before(i)) = k - 1
           f == [k \in D |-> at(k)]
<1>1. D = 1 .. Len(table) /\ Len(table) \in Nat /\ \A i \in D : table[i] \in [1 .. n -> Nat]
  OBVIOUS
<1>2. \A x, y \in D : <<x, y>> \in R <=> x \in before(y)
  OBVIOUS
<1>3. \A x, y \in D : x \in before(y) <=> Precedes(table[x], table[y]) \/ (table[x] = table[y] /\ x < y)
  OBVIOUS
<1>4. Sorted(table) = [k \in 1 .. Len(table) |-> table[at(k)]]
  BY DEF Sorted
<1>5. \A i \in D : before(i) \subseteq D
  OBVIOUS
<1> HIDE DEF before, R
<1>6. IsFiniteSet(D) /\ Cardinality(D) = Len(table)
  <2> DEFINE m == Len(table)
  <2>1. m \in Nat /\ D = 1 .. m
    BY <1>1
  <2> HIDE DEF m
  <2>2. IsFiniteSet(1 .. m) /\ Cardinality(1 .. m) = m
    BY <2>1, FS_Interval
  <2> QED
    BY <2>1, <2>2 DEF m
<1> HIDE DEF D
<1>7. Orders(R, D)
  <2>1. ASSUME NEW x \in D PROVE <<x, x>> \notin R
    <3>1. x \in Nat /\ table[x] \in [1 .. n -> Nat]
      BY <1>1
    <3>2. ~Precedes(table[x], table[x])
      BY <3>1, RowsOrdered
    <3> QED
      BY <1>2, <1>3, <3>1, <3>2
  <2>2. ASSUME NEW x \in D, NEW y \in D, NEW z \in D, <<x, y>> \in R, <<y, z>> \in R
        PROVE  <<x, z>> \in R
    <3>1. x \in Nat /\ y \in Nat /\ z \in Nat
      BY <1>1
    <3>2. Precedes(table[x], table[y]) \/ (table[x] = table[y] /\ x < y)
      BY <1>2, <1>3, <2>2
    <3>3. Precedes(table[y], table[z]) \/ (table[y] = table[z] /\ y < z)
      BY <1>2, <1>3, <2>2
    <3>4. Precedes(table[x], table[y]) /\ Precedes(table[y], table[z]) => Precedes(table[x], table[z])
      BY <1>1, RowsOrdered
    <3>5. Precedes(table[x], table[z]) \/ (table[x] = table[z] /\ x < z)
      BY <3>1, <3>2, <3>3, <3>4
    <3> QED
      BY <1>2, <1>3, <3>5
  <2>3. ASSUME NEW x \in D, NEW y \in D PROVE x = y \/ <<x, y>> \in R \/ <<y, x>> \in R
    <3>1. table[x] = table[y] \/ Precedes(table[x], table[y]) \/ Precedes(table[y], table[x])
      BY <1>1, RowsOrdered
    <3>2. x = y \/ x < y \/ y < x
      BY <1>1
    <3> QED
      BY <1>2, <1>3, <3>1, <3>2
  <2> QED
    BY <2>1, <2>2, <2>3 DEF Orders
<1>8. \A x \in D : Before(x, R, D) = before(x)
  BY <1>2, <1>5 DEF Before
<1>9. ASSUME NEW k \in D
      PROVE  at(k) \in D /\ Cardinality(before(at(k))) = k - 1
  <2>1. k \in 1 .. Cardinality(D)
    BY <1>1, <1>6
  <2>2. PICK x \in D : Cardinality(Before(x, R, D)) = k - 1
    BY <1>6, <1>7, <2>1, Ranks
  <2>3. \E i \in D : Cardinality(before(i)) = k - 1
    BY <1>8, <2>2
  <2> QED
    BY <2>3
<1> HIDE DEF at
<1>10. \A k \in D : f[k] \in D /\ Cardinality(before(f[k])) = k - 1
  BY <1>9
<1>11. Sorted(table) = [k \in D |-> table[f[k]]]
  BY <1>1, <1>4
<1> HIDE DEF f
<1>12. \A x, y \in D : f[x] = f[y] => x = y
  BY <1>1, <1>10
<1>13. Matches(f, D, D)
  BY <1>6, <1>10, <1>12, ApartIsMatch
<1>14. \A k \in D : Sorted(table)[k] = table[f[k]] /\ Sorted(table)[k] \in [1 .. n -> Nat]
  BY <1>1, <1>10, <1>11
<1>15. Sorted(table) \in Seq([1 .. n -> Nat]) /\ Len(Sorted(table)) = Len(table) /\ DOMAIN Sorted(table) = D
  <2> DEFINE T == [1 .. n -> Nat]
             m == Len(table)
  <2>1. m \in Nat /\ D = 1 .. m /\ \A k \in D : Sorted(table)[k] \in T
    BY <1>1, <1>14
  <2>2. Sorted(table) = [k \in 1 .. m |-> Sorted(table)[k]]
    BY <1>11, <2>1
  <2> HIDE DEF T, m
  <2>3. Sorted(table) \in [1 .. m -> T]
    BY <2>1, <2>2
  <2>4. Sorted(table) \in Seq(T) /\ Len(Sorted(table)) = m /\ DOMAIN Sorted(table) = 1 .. m
    BY <2>1, <2>3
  <2> QED
    BY <2>1, <2>4 DEF T, m
<1>16. InOrder(Sorted(table))
  <2> SUFFICES ASSUME NEW i \in D, NEW j \in D, i < j, Precedes(Sorted(table)[j], Sorted(table)[i])
               PROVE  FALSE
    BY <1>15 DEF InOrder
  <2>1. f[i] \in D /\ f[j] \in D /\ Precedes(table[f[j]], table[f[i]])
    BY <1>10, <1>14
  <2>2. <<f[j], f[i]>> \in R
    BY <1>2, <1>3, <2>1
  <2>3. Cardinality(before(f[j])) < Cardinality(before(f[i]))
    BY <1>6, <1>7, <1>8, <2>1, <2>2, FewerBefore
  <2>4. j - 1 < i - 1 /\ i \in Nat /\ j \in Nat
    BY <1>1, <1>10, <2>3
  <2> QED
    BY <2>4
<1>17. Rearranges(Sorted(table), table)
  BY <1>13, <1>14, <1>15, Zenon DEF Rearranges, D
<1> QED
  BY <1>15, <1>16, <1>17

\* Tables in order with the same rows, each as often, are the same.
LEMMA NoneSmaller ==
  ASSUME NEW n \in Nat, NEW s \in Seq([1 .. n -> Nat]), NEW t \in Seq([1 .. n -> Nat]),
         NEW N \in Nat, Len(s) = N, Len(t) = N, InOrder(s), InOrder(t),
         NEW f, Matches(f, 1 .. N, 1 .. N), \A k \in 1 .. N : s[k] = t[f[k]],
         NEW k \in 1 .. N
  PROVE  ~Precedes(s[k], t[k])
<1> SUFFICES ASSUME Precedes(s[k], t[k]) PROVE FALSE
  OBVIOUS
<1>1. /\ DOMAIN s = 1 .. N /\ DOMAIN t = 1 .. N
      /\ \A i \in 1 .. N : s[i] \in [1 .. n -> Nat] /\ t[i] \in [1 .. n -> Nat]
  <2> DEFINE T == [1 .. n -> Nat]
  <2>1. s \in Seq(T) /\ t \in Seq(T)
    OBVIOUS
  <2> HIDE DEF T
  <2>2. /\ DOMAIN s = 1 .. N /\ DOMAIN t = 1 .. N /\ \A i \in 1 .. N : s[i] \in T /\ t[i] \in T
    BY <2>1
  <2> QED
    BY <2>2 DEF T
<1>2. ASSUME NEW i \in 1 .. k PROVE f[i] \in 1 .. k - 1
  <2>0. i \in 1 .. N
    OBVIOUS
  <2>1. i \in 1 .. N /\ f[i] \in 1 .. N /\ s[i] = t[f[i]]
    BY <2>0 DEF Matches
  <2>2. i = k \/ i < k
    OBVIOUS
  <2>3. ~Precedes(s[k], s[i])
    BY <1>1, <2>1, <2>2, RowsOrdered DEF InOrder
  <2>4. Precedes(s[i], t[k])
    <3>1. s[i] = s[k] \/ Precedes(s[i], s[k])
      BY <1>1, <2>1, <2>3, RowsOrdered
    <3>2. Precedes(s[i], s[k]) /\ Precedes(s[k], t[k]) => Precedes(s[i], t[k])
      BY <1>1, <2>1, RowsOrdered
    <3> QED
      BY <3>1, <3>2
  <2>5. ~(k < f[i])
    BY <1>1, <2>1, <2>4 DEF InOrder
  <2>6. k # f[i]
    BY <1>1, <2>1, <2>4, RowsOrdered
  <2> QED
    BY <2>1, <2>5, <2>6
<1>3. \A x, y \in 1 .. k : f[x] = f[y] => x = y
  <2>1. \A x \in 1 .. k : x \in 1 .. N
    OBVIOUS
  <2> QED
    BY <2>1 DEF Matches
<1>4. Cardinality(1 .. k) = k /\ Cardinality(1 .. k - 1) = k - 1 /\ IsFiniteSet(1 .. k - 1)
  BY FS_Interval
<1>5. Cardinality(1 .. k) <= Cardinality(1 .. k - 1)
  BY <1>2, <1>3, <1>4, ApartIsMatch
<1> QED
  BY <1>4, <1>5

\* Two tables that are in order and have the same rows are the same.
LEMMA SameInOrder ==
  ASSUME NEW n \in Nat, NEW s \in Seq([1 .. n -> Nat]), NEW t \in Seq([1 .. n -> Nat]),
         NEW N \in Nat, Len(s) = N, Len(t) = N, InOrder(s), InOrder(t),
         NEW f, Matches(f, 1 .. N, 1 .. N), Along(s, f, t, 1 .. N)
  PROVE  s = t
<1>7. \A k \in 1 .. N : s[k] = t[f[k]]
  BY DEF Along
<1> DEFINE h == [j \in 1 .. N |-> CHOOSE i \in 1 .. N : f[i] = j]
<1>1. \A j \in 1 .. N : h[j] \in 1 .. N /\ f[h[j]] = j
  BY DEF Matches
<1> HIDE DEF h
<1>2. Matches(h, 1 .. N, 1 .. N)
  <2>4. \A j \in 1 .. N : f[j] \in 1 .. N
    BY Zenon DEF Matches
  <2>5. \A i, j \in 1 .. N : f[i] = f[j] => i = j
    BY Zenon DEF Matches
  <2>1. \A j \in 1 .. N : f[j] \in 1 .. N /\ h[f[j]] = j
    BY <1>1, <2>4, <2>5, Zenon
  <2>2. \A x, y \in 1 .. N : h[x] = h[y] => x = y
    BY <1>1
  <2>3. \A y \in 1 .. N : \E x \in 1 .. N : h[x] = y
    BY <2>1
  <2> QED
    BY <1>1, <2>2, <2>3 DEF Matches
<1>3. \A k \in 1 .. N : t[k] = s[h[k]]
  BY <1>1, <1>7
<1>4. \A k \in 1 .. N : ~Precedes(s[k], t[k])
  BY <1>7, NoneSmaller
<1>5. \A k \in 1 .. N : ~Precedes(t[k], s[k])
  BY <1>2, <1>3, NoneSmaller
<1>6. \A k \in 1 .. N : s[k] = t[k]
  <2>1. \A k \in 1 .. N : s[k] \in [1 .. n -> Nat] /\ t[k] \in [1 .. n -> Nat]
    <3> DEFINE T == [1 .. n -> Nat]
    <3>1. s \in Seq(T) /\ t \in Seq(T)
      OBVIOUS
    <3> HIDE DEF T
    <3>2. \A k \in 1 .. N : s[k] \in T /\ t[k] \in T
      BY <3>1
    <3> QED
      BY <3>2 DEF T
  <2> QED
    BY <1>4, <1>5, <2>1, RowsOrdered
<1> QED
  BY <1>6

-----------------------------------------------------------------------------
(* What the tables hold, next to StorageInv and ObjectsInv.                *)

\* A loaded object has its labels, when it has any.
LabelsHold ==
  /\ \A h \in DOMAIN ell_values : \E p \in Loaded : h = nameAt(p)
  /\ \A p \in Loaded : labelsOf(p[1], objectAt(p).id) = objectAt(p).ell

\* The contents of the loaded objects under a label: place and position.
ContentsOf(p, l) == IF l \in DOMAIN objectAt(p).phi THEN objectAt(p).phi[l] ELSE <<>>
Contents(l) == UNION {{<<p, j>> : j \in DOMAIN ContentsOf(p, l)} : p \in Loaded}

rowsUnder(l) == IF l \in DOMAIN phis THEN phis[l].table ELSE <<>>

\* The row of what the object at p contains under l at position j.
IsContent(row, l, p, j) ==
  /\ row \in [1 .. 5 -> Nat]
  /\ row[1] \in DOMAIN label_map /\ label_map[row[1]] = firstLabel(objectAt(p))
  /\ <<row[2], row[3]>> = nameAt(p)
  /\ <<row[4], row[5]>> = ContentsOf(p, l)[j]

\* A containment table has a row for everything the loaded objects contain.
ContentsHold ==
  \A l \in PhiLabels :
    /\ rowsUnder(l) \in Seq([1 .. 5 -> Nat])
    /\ \E f : /\ Matches(f, DOMAIN rowsUnder(l), Contents(l))
              /\ \A k \in DOMAIN rowsUnder(l) : IsContent(rowsUnder(l)[k], l, f[k][1], f[k][2])

\* The rows of a containment table about each container.
RowsByContainer(table) ==
  [k \in {<<table[i][2], table[i][3]>> : i \in DOMAIN table} |->
     Ascending({i \in DOMAIN table : <<table[i][2], table[i][3]>> = k})]

\* The parts of a table that is filed.
IsIndexed(x) ==
  /\ InOrder(x.table)
  /\ x.primary = Blocks(x.table)
  /\ x.secondary = RowsByContainer(x.table)

\* A table that is filed is in order and indexed.
IndicesHold == \A l \in Range(minRecordToContaimentLabel) : IsIndexed(phis[l])

\* The elements of a key are the values that the loaded objects have for it.
ValuesHold ==
  \A k \in Keys :
    /\ \A i \in DOMAIN elements[k] : \E p \in Loaded :
         /\ <<elements[k][i][3], elements[k][i][4]>> = nameAt(p)
         /\ k \in DOMAIN objectAt(p).props /\ elements[k][i][2] = objectAt(p).props[k]
    /\ \A p \in Loaded : k \in DOMAIN objectAt(p).props =>
         \E i \in DOMAIN elements[k] : <<elements[k][i][3], elements[k][i][4]>> = nameAt(p)

\* When the registry is laid out, the numbers of the objects of a graph are as
\* many as the objects.
NumbersHold ==
  pc \in {"containment", "links", "indexed"} =>
    \A g \in DOMAIN traces : g \in DOMAIN db /\ DOMAIN traces[g] = DOMAIN db[g]

\* How many rows of a table have a label up to a.
UpTo(table, a) == Cardinality({r \in DOMAIN table : table[r][1] <= a})

\* The property tables are in order, their labels are where the primary index
\* says, and the rows of the registry lead to the values of their objects.
PropertiesHold ==
  pc \in {"links", "indexed"} =>
    /\ \A k \in DOMAIN attrs :
         /\ attrs[k].table \in Seq([1 .. 3 -> Nat]) /\ InOrder(attrs[k].table)
         /\ \A a \in DOMAIN attrs[k].primary :
              /\ a \in Nat \ {0}
              /\ attrs[k].primary[a] = <<UpTo(attrs[k].table, a - 1) + 1, UpTo(attrs[k].table, a) + 1>>
    /\ \A r \in Rows, p \in Places, k \in Keys : nameIn(registry.table, r) = nameAt(p) =>
         resolve_record_if_exists(r, k) =
           IF k \in DOMAIN objectAt(p).props THEN <<objectAt(p).props[k]>> ELSE <<>>

\* The inductive invariant, next to StorageInv and ObjectsInv.
ReadingInv ==
  /\ LabelsHold /\ ContentsHold /\ IndicesHold /\ ValuesHold /\ NumbersHold /\ PropertiesHold

-----------------------------------------------------------------------------
(* What keeps each of them.                                                *)

\* What is said of the objects is the same when the same are loaded.
LEMMA SamePlaces ==
  ASSUME db' = db, Loaded' = Loaded
  PROVE  /\ Places' = Places
         /\ \A p : nameAt(p)' = nameAt(p) /\ objectAt(p)' = objectAt(p)
         /\ \A p, l : ContentsOf(p, l)' = ContentsOf(p, l)
         /\ \A l : Contents(l)' = Contents(l)
<1>1. Places' = Places /\ \A p : nameAt(p)' = nameAt(p) /\ objectAt(p)' = objectAt(p)
  BY DEF Places, nameAt, objectAt
<1>2. \A p, l : ContentsOf(p, l)' = ContentsOf(p, l)
  BY <1>1 DEF ContentsOf
<1>3. \A l : Contents(l)' = Contents(l)
  BY <1>2 DEF Contents
<1> QED
  BY <1>1, <1>2, <1>3

\* A step that loads nothing keeps the labels,
LEMMA SameLabels ==
  ASSUME LabelsHold, db' = db, Loaded' = Loaded, ell_values' = ell_values
  PROVE  LabelsHold'
<1>1. \A p : nameAt(p)' = nameAt(p) /\ objectAt(p)' = objectAt(p)
  BY SamePlaces
<1>2. \A g, x : labelsOf(g, x)' = labelsOf(g, x)
  BY DEF labelsOf
<1> QED
  BY <1>1, <1>2 DEF LabelsHold

\* the contents,
LEMMA SameContents ==
  ASSUME ContentsHold, db' = db, Loaded' = Loaded, phis' = phis, label_map' = label_map
  PROVE  ContentsHold'
<1>1. /\ \A p : nameAt(p)' = nameAt(p) /\ objectAt(p)' = objectAt(p)
      /\ \A p, l : ContentsOf(p, l)' = ContentsOf(p, l)
      /\ \A l : Contents(l)' = Contents(l)
  BY SamePlaces
<1>2. \A p : firstLabel(objectAt(p))' = firstLabel(objectAt(p))
  BY <1>1 DEF firstLabel
<1>3. \A l : rowsUnder(l)' = rowsUnder(l)
  BY DEF rowsUnder
<1>4. \A row, l, p, j : IsContent(row, l, p, j)' <=> IsContent(row, l, p, j)
  BY <1>1, <1>2 DEF IsContent
<1> QED
  BY <1>1, <1>3, <1>4 DEF ContentsHold

\* the indices of the containment tables,
LEMMA SameIndices ==
  ASSUME IndicesHold, phis' = phis, minRecordToContaimentLabel' = minRecordToContaimentLabel
  PROVE  IndicesHold'
BY DEF IndicesHold

\* the values,
LEMMA SameValues ==
  ASSUME ValuesHold, db' = db, Loaded' = Loaded, elements' = elements
  PROVE  ValuesHold'
<1>1. \A p : nameAt(p)' = nameAt(p) /\ objectAt(p)' = objectAt(p)
  BY SamePlaces
<1> QED
  BY <1>1 DEF ValuesHold

\* the numbers,
LEMMA SameNumbers ==
  ASSUME NumbersHold, db' = db, traces' = traces,
         pc' \in {"containment", "links", "indexed"} => pc \in {"containment", "links", "indexed"}
  PROVE  NumbersHold'
BY DEF NumbersHold

\* and the property tables, when it leaves alone what they are kept in.
LEMMA SameProperties ==
  ASSUME PropertiesHold, db' = db, attrs' = attrs, registry'.table = registry.table,
         pc' \in {"links", "indexed"} => pc \in {"links", "indexed"}
  PROVE  PropertiesHold'
<1>1. /\ Places' = Places /\ Rows' = Rows
      /\ \A p : nameAt(p)' = nameAt(p) /\ objectAt(p)' = objectAt(p)
  BY DEF Places, Rows, nameAt, objectAt
<1>2. \A r, k : resolve_record_if_exists(r, k)' = resolve_record_if_exists(r, k)
  BY DEF resolve_record_if_exists
<1> QED
  BY <1>1, <1>2 DEF PropertiesHold

\* Nothing has been loaded: nothing is held.
LEMMA NothingHeld ==
  ASSUME Loaded = {}, DOMAIN ell_values = {}, \A l \in DOMAIN phis : phis[l].table = <<>>,
         \A k \in Keys : elements[k] = <<>>, minRecordToContaimentLabel = Nothing,
         pc \in {"convert", "load"}
  PROVE  ReadingInv
<1>1. LabelsHold
  BY DEF LabelsHold
<1>2. ContentsHold
  <2>1. \A l : rowsUnder(l) = <<>> /\ Contents(l) = {}
    BY DEF rowsUnder, Contents
  <2>2. <<>> \in Seq([1 .. 5 -> Nat]) /\ DOMAIN <<>> = {}
    OBVIOUS
  <2>3. Matches(<<>>, {}, {})
    BY DEF Matches
  <2> QED
    BY <2>1, <2>2, <2>3 DEF ContentsHold
<1>3. IndicesHold
  BY DEF IndicesHold, Nothing, Range
<1>4. ValuesHold
  <2>1. DOMAIN <<>> = {}
    OBVIOUS
  <2> QED
    BY <2>1 DEF ValuesHold
<1>5. NumbersHold /\ PropertiesHold
  BY DEF NumbersHold, PropertiesHold
<1> QED
  BY <1>1, <1>2, <1>3, <1>4, <1>5 DEF ReadingInv

\* At first nothing is held.
LEMMA InitReading ==
  Init => ReadingInv
<1> SUFFICES ASSUME Init PROVE ReadingInv
  OBVIOUS
<1>1. Shape
  BY InitStorage DEF StorageInv
<1>2. Loaded = {}
  BY <1>1, NothingLoaded DEF Init
<1>3. /\ DOMAIN ell_values = {} /\ DOMAIN phis = {} /\ minRecordToContaimentLabel = Nothing
      /\ \A k \in Keys : elements[k] = <<>>
  BY DEF Init, Nothing
<1>4. pc \in {"convert", "load"}
  BY DEF Init
<1> QED
  BY <1>2, <1>3, <1>4, NothingHeld

\* Nothing is loaded before identifiers are numbers.
LEMMA ConvertReading ==
  ASSUME StorageInv, StorageInv', ObjectsInv, ReadingInv, convert
  PROVE  ReadingInv'
<1>1. pc = "convert" /\ pc' = "load"
      /\ UNCHANGED <<graph, pos, label_map, ell_values, elements, phis, minRecordToContaimentLabel>>
  BY DEF convert, builders, records
<1>2. graph = 1 /\ pos = 0
  BY <1>1 DEF ObjectsInv, Progress
<1>3. Loaded = {} /\ Loaded' = {}
  <2>1. Shape
    BY DEF StorageInv
  <2>2. Loaded = {}
    BY <1>2, <2>1, NothingLoaded
  <2>3. Places' = Places
    <3>1. DOMAIN db' = DOMAIN db /\ \A g \in DOMAIN db : DOMAIN db'[g] = DOMAIN db[g]
      BY Zenon DEF convert, WithNumbers
    <3> QED
      BY <3>1 DEF Places
  <2> QED
    BY <1>1, <2>2, <2>3 DEF Loaded
<1>4. LabelsHold'
  <2>1. DOMAIN ell_values = {}
    BY <1>3 DEF ReadingInv, LabelsHold
  <2> QED
    BY <1>1, <1>3, <2>1 DEF LabelsHold
<1>5. ContentsHold'
  <2>1. ASSUME NEW l \in PhiLabels
        PROVE  DOMAIN rowsUnder(l) = {} /\ rowsUnder(l) \in Seq([1 .. 5 -> Nat])
    <3>1. Contents(l) = {}
      BY <1>3 DEF Contents
    <3> QED
      BY <3>1 DEF ReadingInv, ContentsHold, Matches
  <2>2. \A l : rowsUnder(l)' = rowsUnder(l) /\ Contents(l)' = {}
    BY <1>1, <1>3 DEF rowsUnder, Contents
  <2>3. Matches(<<>>, {}, {})
    BY DEF Matches
  <2> QED
    BY <2>1, <2>2, <2>3 DEF ContentsHold
<1>6. IndicesHold'
  BY <1>1, SameIndices DEF ReadingInv
<1>7. ValuesHold'
  BY <1>1, <1>3 DEF ReadingInv, ValuesHold
<1>8. NumbersHold' /\ PropertiesHold'
  BY <1>1 DEF NumbersHold, PropertiesHold
<1> QED
  BY <1>4, <1>5, <1>6, <1>7, <1>8 DEF ReadingInv

-----------------------------------------------------------------------------
(* Loading.                                                                *)

\* The object that is loaded next, its parts and its label.
LEMMA LoadedParts ==
  ASSUME StorageInv, ObjectsInv, loadObject
  PROVE  LET P == <<graph, pos + 1>>
             o == objectAt(P)
             act == IndexOf(label_map', firstLabel(o))
         IN /\ P \in Places /\ P \notin Loaded /\ Loaded' = Loaded \cup {P}
            /\ object = o /\ nameAt(P) = <<graph, o.id>> /\ graph \in Nat /\ o.id \in Nat
            /\ \A p \in Loaded : nameAt(p) # nameAt(P)
            /\ \A p : nameAt(p)' = nameAt(p) /\ objectAt(p)' = objectAt(p)
            /\ \A p, l : ContentsOf(p, l)' = ContentsOf(p, l)
            /\ o.ell \in Seq(Labels)
            /\ \A k \in DOMAIN o.props : k \in Keys /\ o.props[k] \in Nat
            /\ \A l : ContentsOf(P, l) \in Seq(Nat \X Nat)
            /\ label_map' = Extended(label_map, firstLabel(o))
            /\ act \in DOMAIN label_map' /\ act \in Nat /\ label_map'[act] = firstLabel(o)
            /\ \A a \in DOMAIN label_map : a \in DOMAIN label_map' /\ label_map'[a] = label_map[a]
<1> DEFINE P == <<graph, pos + 1>>
           o == objectAt(P)
           act == IndexOf(label_map', firstLabel(o))
<1>1. /\ P \in Places /\ P \notin Loaded /\ Loaded' = Loaded \cup {P} /\ Loaded \subseteq Places
      /\ object = o /\ o.id \in Nat /\ firstLabel(o) \in Labels
      /\ nameAt(P) = <<graph, o.id>>
      /\ \A p : nameAt(p)' = nameAt(p) /\ objectAt(p)' = objectAt(p)
      /\ graph \in DOMAIN db /\ pos + 1 \in DOMAIN db[graph]
  BY OneLoaded
<1>2. Shape /\ Identified
  BY DEF StorageInv, ObjectsInv
<1>3. \A p \in Loaded : nameAt(p) # nameAt(P)
  BY <1>1, <1>2, NamesDiffer
<1>4. graph \in Nat
  BY <1>2, PlacesAre
<1>5. \A p, l : ContentsOf(p, l)' = ContentsOf(p, l)
  BY <1>1 DEF ContentsOf
<1>6. /\ o.ell \in Seq(Labels)
      /\ \A l \in DOMAIN o.phi : o.phi[l] \in Seq(Nat \X Nat)
      /\ \E K \in SUBSET Keys : o.props \in [K -> Nat]
  <2>1. IsGraph(db[graph])
    BY <1>1, <1>2 DEF Shape, IsDatabase
  <2>2. o = db[graph][pos + 1]
    BY DEF objectAt
  <2> HIDE DEF o
  <2> QED
    BY <1>1, <2>1, <2>2, GraphParts
<1> HIDE DEF o
<1>7. \A k \in DOMAIN o.props : k \in Keys /\ o.props[k] \in Nat
  BY <1>6
<1>8. \A l : ContentsOf(P, l) \in Seq(Nat \X Nat)
  <2>1. <<>> \in Seq(Nat \X Nat)
    OBVIOUS
  <2> QED
    BY <1>6, <2>1 DEF ContentsOf, o
<1>9. label_map' = Extended(label_map, firstLabel(o))
  BY <1>1 DEF loadObject
<1>10. label_map \in Seq(Labels) /\ \A a, b \in DOMAIN label_map : label_map[a] = label_map[b] => a = b
  BY DEF StorageInv, Shape, ObjectsInv, BuilderHolds
<1> DEFINE m == Extended(label_map, firstLabel(o))
<1>11. /\ m \in Seq(Labels)
       /\ \A a \in DOMAIN label_map : a \in DOMAIN m /\ m[a] = label_map[a]
       /\ IndexOf(m, firstLabel(o)) \in DOMAIN m /\ m[IndexOf(m, firstLabel(o))] = firstLabel(o)
  <2>1. PICK lab \in Labels : lab = firstLabel(o)
    BY <1>1 DEF o
  <2>2. PICK e : e = Extended(label_map, lab)
    OBVIOUS
  <2>3. e \in Seq(Labels)
    BY <1>10, <2>2, ExtendedMap
  <2>4. /\ \A a \in DOMAIN label_map : a \in DOMAIN e /\ e[a] = label_map[a]
        /\ IndexOf(e, lab) \in DOMAIN e /\ e[IndexOf(e, lab)] = lab
    BY <1>10, <2>2, ExtendedOnce
  <2> QED
    BY <2>1, <2>2, <2>3, <2>4
<1> HIDE DEF m
<1>12. IndexOf(m, firstLabel(o)) \in Nat
  <2>1. \A i \in DOMAIN m : i \in Nat
    BY <1>11
  <2> QED
    BY <1>11, <2>1
<1>13. m = label_map'
  BY <1>9 DEF m
<1> QED
  BY <1>1, <1>3, <1>4, <1>5, <1>6, <1>7, <1>8, <1>9, <1>11, <1>12, <1>13 DEF o

\* Its labels are filed under its name.
LEMMA LoadLabels ==
  ASSUME StorageInv, ObjectsInv, LabelsHold, loadObject
  PROVE  LabelsHold'
<1> DEFINE P == <<graph, pos + 1>>
           o == objectAt(P)
<1>1. /\ Loaded' = Loaded \cup {P} /\ object = o /\ nameAt(P) = <<graph, o.id>>
      /\ \A p \in Loaded : nameAt(p) # nameAt(P)
      /\ \A p : nameAt(p)' = nameAt(p) /\ objectAt(p)' = objectAt(p)
  BY LoadedParts
<1>2. ell_values' = IF o.ell = <<>> THEN ell_values ELSE Bind(nameAt(P), o.ell, ell_values)
  BY <1>1 DEF loadObject
<1>3. \A p : nameAt(p) = <<p[1], objectAt(p).id>>
  BY DEF nameAt
<1> HIDE DEF P, o
<1>4. /\ \A h \in DOMAIN ell_values : \E p \in Loaded : h = nameAt(p)
      /\ \A p \in Loaded : objectAt(p).ell =
           IF nameAt(p) \in DOMAIN ell_values THEN ell_values[nameAt(p)] ELSE <<>>
  BY <1>3 DEF LabelsHold, labelsOf
<1>5. \A p \in Loaded' : objectAt(p).ell =
           IF nameAt(p) \in DOMAIN ell_values' THEN ell_values'[nameAt(p)] ELSE <<>>
  BY <1>1, <1>2, <1>4 DEF Bind, Merge, o
<1>6. \A h \in DOMAIN ell_values' : \E p \in Loaded' : h = nameAt(p)
  BY <1>1, <1>2, <1>4 DEF Bind, Merge
<1>7. \A p \in Loaded' : labelsOf(p[1], objectAt(p).id)' = objectAt(p).ell
  BY <1>1, <1>3, <1>5 DEF labelsOf
<1> QED
  BY <1>1, <1>6, <1>7 DEF LabelsHold

\* Its values are added to the elements of their keys.
LEMMA LoadValues ==
  ASSUME StorageInv, ObjectsInv, ValuesHold, loadObject
  PROVE  ValuesHold'
<1> DEFINE P == <<graph, pos + 1>>
           o == objectAt(P)
           act == IndexOf(label_map', firstLabel(o))
<1>1. /\ Loaded' = Loaded \cup {P} /\ object = o /\ nameAt(P) = <<graph, o.id>>
      /\ label_map' = Extended(label_map, firstLabel(o))
      /\ \A p : nameAt(p)' = nameAt(p) /\ objectAt(p)' = objectAt(p)
  BY LoadedParts
<1>2. elements' = [k \in Keys |-> IF k \in DOMAIN o.props
                                  THEN Append(elements[k], <<act, o.props[k], graph, o.id>>)
                                  ELSE elements[k]]
  BY <1>1 DEF loadObject, loadObjectProperty
<1> HIDE DEF P, o, act
<1>3. ASSUME NEW k \in Keys
      PROVE  /\ \A i \in DOMAIN elements'[k] : \E p \in Loaded' :
                  /\ <<elements'[k][i][3], elements'[k][i][4]>> = nameAt(p)
                  /\ k \in DOMAIN objectAt(p).props /\ elements'[k][i][2] = objectAt(p).props[k]
             /\ \A p \in Loaded' : k \in DOMAIN objectAt(p).props =>
                  \E i \in DOMAIN elements'[k] : <<elements'[k][i][3], elements'[k][i][4]>> = nameAt(p)
  <2> DEFINE e == elements[k]
             c == elements'[k]
  <2>1. /\ e \in Seq(Nat \X Nat \X Nat \X Nat)
        /\ \A i \in DOMAIN e : \E p \in Loaded :
             /\ <<e[i][3], e[i][4]>> = nameAt(p)
             /\ k \in DOMAIN objectAt(p).props /\ e[i][2] = objectAt(p).props[k]
        /\ \A p \in Loaded : k \in DOMAIN objectAt(p).props =>
             \E i \in DOMAIN e : <<e[i][3], e[i][4]>> = nameAt(p)
    BY DEF ObjectsInv, ElementsHold, ValuesHold
  <2>2. CASE k \notin DOMAIN o.props
    <3>1. c = e
      BY <1>2, <2>2
    <3> HIDE DEF e, c
    <3> QED
      BY <1>1, <2>1, <2>2, <3>1 DEF o, c
  <2>3. CASE k \in DOMAIN o.props
    <3> DEFINE x == <<act, o.props[k], graph, o.id>>
               m == Len(e)
    <3>1. x[2] = o.props[k] /\ <<x[3], x[4]>> = nameAt(P)
      BY <1>1
    <3>2. c = Append(e, x)
      BY <1>2, <2>3
    <3> HIDE DEF x, e, c
    <3>3. /\ DOMAIN c = 1 .. m + 1 /\ m \in Nat /\ DOMAIN e = 1 .. m
          /\ c[m + 1] = x /\ \A i \in 1 .. m : c[i] = e[i]
      BY <2>1, <3>2
    <3> HIDE DEF m
    <3>4. \A i \in DOMAIN c : i \in DOMAIN e \/ i = m + 1
      BY <3>3
    <3>5. m + 1 \in DOMAIN c /\ \A i \in DOMAIN e : i \in DOMAIN c /\ c[i] = e[i]
      BY <3>3
    <3>6. \A i \in DOMAIN c : \E p \in Loaded' :
             /\ <<c[i][3], c[i][4]>> = nameAt(p)
             /\ k \in DOMAIN objectAt(p).props /\ c[i][2] = objectAt(p).props[k]
      <4> SUFFICES ASSUME NEW i \in DOMAIN c
                   PROVE  \E p \in Loaded' :
                            /\ <<c[i][3], c[i][4]>> = nameAt(p)
                            /\ k \in DOMAIN objectAt(p).props /\ c[i][2] = objectAt(p).props[k]
        OBVIOUS
      <4>1. CASE i \in DOMAIN e
        <5>1. PICK p \in Loaded : /\ <<e[i][3], e[i][4]>> = nameAt(p)
                                  /\ k \in DOMAIN objectAt(p).props /\ e[i][2] = objectAt(p).props[k]
          BY <2>1, <4>1
        <5>2. c[i] = e[i] /\ p \in Loaded'
          BY <1>1, <3>5, <4>1
        <5> QED
          BY <5>1, <5>2
      <4>2. CASE i = m + 1
        <5>1. c[i] = x /\ P \in Loaded' /\ o = objectAt(P)
          BY <1>1, <3>3, <4>2 DEF o
        <5> QED
          BY <2>3, <3>1, <5>1
      <4> QED
        BY <3>4, <4>1, <4>2
    <3>7. \A p \in Loaded' : k \in DOMAIN objectAt(p).props =>
             \E i \in DOMAIN c : <<c[i][3], c[i][4]>> = nameAt(p)
      BY <1>1, <2>1, <3>1, <3>3, <3>5
    <3> QED
      BY <3>6, <3>7 DEF c
  <2> QED
    BY <2>2, <2>3
<1> QED
  BY <1>1, <1>3 DEF ValuesHold

\* A row of five columns by its parts.
IsRow(row, a, g, x, u, v) ==
  row \in [1 .. 5 -> Nat] /\ row[1] = a /\ row[2] = g /\ row[3] = x /\ row[4] = u /\ row[5] = v

\* t is s with a row for every entry of C.
AddedFor(t, s, act, g, x, C) == t = s \o [j \in DOMAIN C |-> <<act, g, x>> \o C[j]]

\* How the rows of t come from those of s and from C.
ComesFrom(t, h, s, f, P, act, g, x, C) ==
  \A k \in DOMAIN t :
     \/ k \in DOMAIN s /\ t[k] = s[k] /\ h[k] = f[k]
     \/ \E j \in DOMAIN C : h[k] = <<P, j>> /\ IsRow(t[k], act, g, x, C[j][1], C[j][2])

\* The columns of a row that is put together from two parts.
LEMMA ThreeAndTwo ==
  ASSUME NEW T, NEW row \in Seq(T), NEW s, NEW d, NEW m \in Nat, NEW n \in Nat, Len(s) = m, Len(d) = n,
         Appended(row, s, d)
  PROVE  /\ row \in [1 .. m + n -> T]
         /\ \A p \in 1 .. m : row[p] = s[p]
         /\ \A j \in 1 .. n : row[m + j] = d[j]
<1>1. /\ Len(row) = m + n
      /\ \A p \in 1 .. m : row[p] = s[p]
      /\ \A j \in 1 .. n : row[m + j] = d[j]
  BY Zenon DEF Appended
<1>2. row \in [1 .. m + n -> T]
  BY <1>1, ListIsFunction
<1> QED
  BY <1>1, <1>2, Zenon

\* A row of three columns and two.
LEMMA FiveColumns ==
  ASSUME NEW row \in [1 .. 5 -> Nat], NEW s, NEW d,
         \A p \in 1 .. 3 : row[p] = s[p],
         \A j \in 1 .. 2 : row[3 + j] = d[j]
  PROVE  IsRow(row, s[1], s[2], s[3], d[1], d[2])
<1>1. row[1] = s[1] /\ row[2] = s[2] /\ row[3] = s[3]
  OBVIOUS
<1>2. 1 \in 1 .. 2 /\ 2 \in 1 .. 2 /\ 3 + 1 = 4 /\ 3 + 2 = 5
  OBVIOUS
<1>3. row[4] = d[1] /\ row[5] = d[2]
  BY <1>2
<1> QED
  BY <1>1, <1>3 DEF IsRow

\* Three numbers, and two, are lists of them.
LEMMA Triple ==
  ASSUME NEW a \in Nat, NEW g \in Nat, NEW x \in Nat
  PROVE  <<a, g, x>> \in Seq(Nat) /\ Len(<<a, g, x>>) = 3
  OBVIOUS

LEMMA Pair ==
  ASSUME NEW u \in Nat, NEW v \in Nat
  PROVE  <<u, v>> \in Seq(Nat) /\ Len(<<u, v>>) = 2
  OBVIOUS

\* A row of a containment table is the object's label, graph and number and what it contains.
LEMMA RowColumns ==
  ASSUME NEW a \in Nat, NEW g \in Nat, NEW x \in Nat, NEW u \in Nat, NEW v \in Nat
  PROVE  IsRow(<<a, g, x>> \o <<u, v>>, a, g, x, u, v)
<1>1. PICK s : s = <<a, g, x>>
  OBVIOUS
<1>2. PICK d : d = <<u, v>>
  OBVIOUS
<1>3. s \in Seq(Nat) /\ Len(s) = 3
  BY <1>1, Triple, Zenon
<1>4. d \in Seq(Nat) /\ Len(d) = 2
  BY <1>2, Pair, Zenon
<1>5. PICK row : row = s \o d
  OBVIOUS
<1>6. /\ row \in [1 .. 5 -> Nat]
      /\ \A p \in 1 .. 3 : row[p] = s[p]
      /\ \A j \in 1 .. 2 : row[3 + j] = d[j]
  <2>1. PICK m \in Nat, n \in Nat : m = 3 /\ n = 2 /\ m + n = 5
    OBVIOUS
  <2>2. /\ row \in [1 .. m + n -> Nat]
        /\ \A p \in 1 .. m : row[p] = s[p]
        /\ \A j \in 1 .. n : row[m + j] = d[j]
    <3>1. Len(s) = m /\ Len(d) = n
      BY <1>3, <1>4, <2>1, Zenon
    <3>2. row \in Seq(Nat) /\ Appended(row, s, d)
      BY <1>3, <1>4, <1>5, Concatenated, Zenon
    <3> QED
      BY <3>1, <3>2, ThreeAndTwo
  <2> QED
    BY <2>1, <2>2, Zenon
<1>7. IsRow(row, s[1], s[2], s[3], d[1], d[2])
  BY <1>6, FiveColumns, Zenon
<1>8. s[1] = a /\ s[2] = g /\ s[3] = x
  BY <1>1
<1>9. d[1] = u /\ d[2] = v
  BY <1>2
<1> QED
  BY <1>1, <1>2, <1>5, <1>7, <1>8, <1>9, Zenon

\* h is f and, after m places, n more for P, which are those that T has more than S.
AddedTo(h, f, m, n, P) ==
  /\ \A k \in 1 .. m + n : \/ k \in 1 .. m /\ h[k] = f[k]
                          \/ \E j \in 1 .. n : k = m + j /\ h[k] = <<P, j>>
  /\ \A k \in 1 .. m : k \in 1 .. m + n /\ h[k] = f[k]
  /\ \A j \in 1 .. n : m + j \in 1 .. m + n /\ h[m + j] = <<P, j>>
MoreThan(T, S, n, P) ==
  /\ \A y : y \in T <=> y \in S \/ \E j \in 1 .. n : y = <<P, j>>
  /\ \A j \in 1 .. n : <<P, j>> \notin S

\* What is added to a table that matches, with what it is for, matches again.
LEMMA MatchedMore ==
  ASSUME NEW m \in Nat, NEW n \in Nat, NEW S, NEW P, NEW f, Matches(f, 1 .. m, S),
         NEW T, MoreThan(T, S, n, P), NEW h, AddedTo(h, f, m, n, P)
  PROVE  Matches(h, 1 .. m + n, T)
<1>1. \A k \in 1 .. m : f[k] \in S
  BY DEF Matches
<1>2. \A k \in 1 .. m + n : h[k] \in T
  BY <1>1 DEF MoreThan, AddedTo
<1>3. ASSUME NEW x \in 1 .. m + n, NEW y \in 1 .. m + n, h[x] = h[y] PROVE x = y
  <2>1. CASE x \in 1 .. m /\ y \in 1 .. m /\ h[x] = f[x] /\ h[y] = f[y]
    BY <1>3, <2>1 DEF Matches
  <2>2. ASSUME NEW i \in 1 .. n, NEW j \in 1 .. n, x = m + i, y = m + j, h[x] = <<P, i>>, h[y] = <<P, j>>
        PROVE  x = y
    BY <1>3, <2>2
  <2>3. \A j \in 1 .. n : <<P, j>> \notin S
    BY DEF MoreThan
  <2>4. /\ \/ x \in 1 .. m /\ h[x] = f[x]
           \/ \E j \in 1 .. n : x = m + j /\ h[x] = <<P, j>>
        /\ \/ y \in 1 .. m /\ h[y] = f[y]
           \/ \E j \in 1 .. n : y = m + j /\ h[y] = <<P, j>>
    BY Zenon DEF AddedTo
  <2> QED
    BY <1>1, <1>3, <2>1, <2>2, <2>3, <2>4
<1>4. \A y \in T : \E x \in 1 .. m + n : h[x] = y
  <2>1. ASSUME NEW y \in S PROVE \E x \in 1 .. m + n : h[x] = y
    <3>1. PICK x \in 1 .. m : f[x] = y
      BY DEF Matches
    <3> QED
      BY <3>1 DEF AddedTo
  <2>2. ASSUME NEW j \in 1 .. n PROVE \E x \in 1 .. m + n : h[x] = <<P, j>>
    BY Zenon DEF AddedTo
  <2>3. \A y \in T : y \in S \/ \E j \in 1 .. n : y = <<P, j>>
    BY Zenon DEF MoreThan
  <2> QED
    BY <2>1, <2>2, <2>3, Zenon
<1> QED
  BY <1>2, <1>3, <1>4 DEF Matches

\* Rows that are added to a table for the contents of one object.
LEMMA MatchedRows ==
  ASSUME NEW act \in Nat, NEW g \in Nat, NEW x \in Nat, NEW C \in Seq(Nat \X Nat),
         NEW s \in Seq([1 .. 5 -> Nat]), NEW S, NEW f, Matches(f, DOMAIN s, S),
         NEW P, \A j : <<P, j>> \notin S, NEW S1, S1 = S \cup {<<P, j>> : j \in DOMAIN C},
         NEW t, AddedFor(t, s, act, g, x, C)
  PROVE  /\ t \in Seq([1 .. 5 -> Nat])
         /\ \E h : Matches(h, DOMAIN t, S1) /\ ComesFrom(t, h, s, f, P, act, g, x, C)
<1>1. PICK T : T = [1 .. 5 -> Nat]
  OBVIOUS
<1>2. \A row, a, h, y, u, v : IsRow(row, a, h, y, u, v) => row \in T
  BY <1>1 DEF IsRow
<1>3. PICK b : b = [j \in DOMAIN C |-> <<act, g, x>> \o C[j]]
  OBVIOUS
<1>4. PICK m \in Nat, n \in Nat : m = Len(s) /\ n = Len(C) /\ DOMAIN s = 1 .. m /\ DOMAIN C = 1 .. n
  OBVIOUS
<1>5. ASSUME NEW j \in 1 .. n PROVE IsRow(b[j], act, g, x, C[j][1], C[j][2])
  <2>1. C[j] \in Nat \X Nat
    BY <1>4
  <2>2. C[j] = <<C[j][1], C[j][2]>> /\ C[j][1] \in Nat /\ C[j][2] \in Nat
    BY <2>1
  <2>3. j \in DOMAIN C
    BY <1>4
  <2> DEFINE row == <<act, g, x>> \o <<C[j][1], C[j][2]>>
  <2>5. IsRow(row, act, g, x, C[j][1], C[j][2])
    BY <2>2, RowColumns, Zenon
  <2>4. b[j] = <<act, g, x>> \o <<C[j][1], C[j][2]>>
    BY <1>3, <2>2, <2>3, Zenon
  <2> QED
    BY <2>4, <2>5, Zenon
<1>6. b = [j \in 1 .. n |-> b[j]]
  BY <1>3, <1>4, Zenon
<1>7. b \in Seq(T) /\ Len(b) = n
  <2>1. b \in [1 .. n -> T]
    BY <1>2, <1>5, <1>6
  <2> HIDE <1>3
  <2> QED
    BY <1>6, <2>1
<1>8. s \in Seq(T)
  BY <1>1
<1>9. t = s \o b
  BY <1>3, Zenon DEF AddedFor
<1>10. /\ t \in Seq(T) /\ Len(t) = m + n
       /\ \A k \in 1 .. m : t[k] = s[k]
       /\ \A j \in 1 .. n : t[m + j] = b[j]
  <2>1. t \in Seq(T) /\ Appended(t, s, b)
    BY <1>7, <1>8, <1>9, Concatenated, Zenon
  <2> QED
    BY <1>4, <1>7, <2>1, Zenon DEF Appended
<1>11. DOMAIN t = 1 .. m + n
  BY <1>10
<1>12. \A j \in 1 .. n : IsRow(t[m + j], act, g, x, C[j][1], C[j][2])
  BY <1>5, <1>10, Zenon
<1>13. PICK h : h = [k \in 1 .. m + n |-> IF k <= m THEN f[k] ELSE <<P, k - m>>]
  OBVIOUS
<1>14. AddedTo(h, f, m, n, P)
  <2>1. ASSUME NEW k \in 1 .. m PROVE k \in 1 .. m + n /\ h[k] = f[k]
    BY <1>13
  <2>2. ASSUME NEW j \in 1 .. n PROVE m + j \in 1 .. m + n /\ h[m + j] = <<P, j>>
    <3>1. m + j \in 1 .. m + n /\ ~(m + j <= m) /\ (m + j) - m = j
      OBVIOUS
    <3> QED
      BY <1>13, <3>1
  <2>3. ASSUME NEW k \in 1 .. m + n PROVE k \in 1 .. m \/ \E j \in 1 .. n : k = m + j
    <3>1. ~(k <= m) => k - m \in 1 .. n /\ k = m + (k - m)
      OBVIOUS
    <3> QED
      BY <3>1
  <2> QED
    BY <2>1, <2>2, <2>3 DEF AddedTo
<1>15. Matches(h, DOMAIN t, S1)
  <2>1. Matches(f, 1 .. m, S)
    BY <1>4, Zenon
  <2>2. MoreThan(S1, S, n, P)
    BY <1>4, Zenon DEF MoreThan
  <2>3. Matches(h, 1 .. m + n, S1)
    BY <1>14, <2>1, <2>2, MatchedMore, Zenon
  <2> QED
    BY <1>11, <2>3, Zenon
<1>16. ComesFrom(t, h, s, f, P, act, g, x, C)
  <2>1. ASSUME NEW k \in 1 .. m + n
        PROVE  \/ k \in 1 .. m /\ t[k] = s[k] /\ h[k] = f[k]
               \/ \E j \in 1 .. n : h[k] = <<P, j>> /\ IsRow(t[k], act, g, x, C[j][1], C[j][2])
    BY <1>10, <1>12, <1>14, Zenon DEF AddedTo
  <2> QED
    BY <1>4, <1>11, <2>1, Zenon DEF ComesFrom
<1> QED
  BY <1>1, <1>10, <1>15, <1>16, Zenon

\* It gets rows for what it contains.
LEMMA LoadContents ==
  ASSUME StorageInv, ObjectsInv, ContentsHold, loadObject
  PROVE  ContentsHold'
<1> DEFINE P == <<graph, pos + 1>>
           o == objectAt(P)
           act == IndexOf(label_map', firstLabel(o))
           more(l) == [j \in DOMAIN ContentsOf(P, l) |-> <<act, graph, o.id>> \o ContentsOf(P, l)[j]]
<1>1. /\ P \in Places /\ P \notin Loaded /\ Loaded' = Loaded \cup {P} /\ object = o
      /\ nameAt(P) = <<graph, o.id>> /\ graph \in Nat /\ o.id \in Nat
      /\ \A p : nameAt(p)' = nameAt(p) /\ objectAt(p)' = objectAt(p)
      /\ \A p, l : ContentsOf(p, l)' = ContentsOf(p, l)
      /\ \A l : ContentsOf(P, l) \in Seq(Nat \X Nat)
      /\ label_map' = Extended(label_map, firstLabel(o))
      /\ act \in DOMAIN label_map' /\ act \in Nat /\ label_map'[act] = firstLabel(o)
      /\ \A a \in DOMAIN label_map : a \in DOMAIN label_map' /\ label_map'[a] = label_map[a]
  BY LoadedParts
<1>2. ASSUME NEW l \in PhiLabels
      PROVE  rowsUnder(l)' = rowsUnder(l) \o more(l)
  <2> DEFINE used == {m \in DOMAIN o.phi : o.phi[m] # <<>>}
             rows(m) == [j \in DOMAIN o.phi[m] |-> <<act, graph, o.id>> \o o.phi[m][j]]
             opened == [m \in used |-> [table |-> rowsUnder(m) \o rows(m), primary |-> Nothing,
                                        secondary |-> Nothing]]
  <2>1. phis' = Merge(opened, phis)
    BY <1>1, Zenon DEF loadObject, loadContents, rowsUnder
  <2> HIDE DEF opened
  <2>2. DOMAIN opened = used /\ \A m \in used : opened[m].table = rowsUnder(m) \o rows(m)
    <3> HIDE DEF rows, used, P, o, act
    <3> QED
      BY DEF opened
  <2>3. l \in DOMAIN phis' <=> l \in used \/ l \in DOMAIN phis
    BY <2>1, <2>2 DEF Merge
  <2>4. CASE l \in used
    <3>1. phis'[l] = opened[l] /\ l \in DOMAIN phis'
      BY <2>1, <2>2, <2>4 DEF Merge
    <3>2. more(l) = rows(l)
      BY <2>4 DEF ContentsOf
    <3> HIDE DEF rows, more, used
    <3> QED
      BY <2>2, <2>4, <3>1, <3>2 DEF rowsUnder
  <2>5. CASE l \notin used
    <3>1. ContentsOf(P, l) = <<>>
      BY <2>5 DEF ContentsOf
    <3>2. more(l) = <<>>
      <4>1. DOMAIN <<>> = {}
        OBVIOUS
      <4> HIDE DEF P, o, act
      <4> QED
        BY <3>1, <4>1
    <3>3. rowsUnder(l)' = rowsUnder(l)
      BY <2>1, <2>2, <2>3, <2>5 DEF rowsUnder, Merge
    <3>4. rowsUnder(l) \in Seq([1 .. 5 -> Nat])
      BY DEF ContentsHold
    <3>5. \A T : \A s \in Seq(T) : s \o <<>> = s
      OBVIOUS
    <3> HIDE DEF more
    <3> QED
      BY <3>2, <3>3, <3>4, <3>5
  <2> QED
    BY <2>4, <2>5
<1> HIDE DEF P, o, act
<1>3. ASSUME NEW l \in PhiLabels
      PROVE  /\ rowsUnder(l)' \in Seq([1 .. 5 -> Nat])
             /\ \E h : /\ Matches(h, DOMAIN rowsUnder(l)', Contents(l)')
                       /\ \A k \in DOMAIN rowsUnder(l)' :
                            IsContent(rowsUnder(l)[k], l, h[k][1], h[k][2])'
  <2>1. PICK T, S, S1, C, s, t, Q, a, g, x :
          /\ T = [1 .. 5 -> Nat] /\ S = Contents(l) /\ S1 = Contents(l)' /\ C = ContentsOf(P, l)
          /\ s = rowsUnder(l) /\ t = rowsUnder(l)' /\ Q = P /\ a = act /\ g = graph /\ x = o.id
    OBVIOUS
  <2>2. C \in Seq(Nat \X Nat) /\ s \in Seq([1 .. 5 -> Nat]) /\ a \in Nat /\ g \in Nat /\ x \in Nat
    BY <1>1, <2>1 DEF ContentsHold
  <2>3. AddedFor(t, s, a, g, x, C)
    BY <1>2, <2>1, Zenon DEF AddedFor
  <2>4. PICK f : Matches(f, DOMAIN s, S) /\ \A k \in DOMAIN s : IsContent(s[k], l, f[k][1], f[k][2])
    BY <2>1 DEF ContentsHold
  <2>5. S1 = S \cup {<<Q, j>> : j \in DOMAIN C} /\ \A j : <<Q, j>> \notin S
    <3>1. Contents(l)' = UNION {{<<p, j>> : j \in DOMAIN ContentsOf(p, l)} : p \in Loaded'}
      BY <1>1 DEF Contents
    <3>2. Contents(l)' = Contents(l) \cup {<<P, j>> : j \in DOMAIN ContentsOf(P, l)}
      BY <1>1, <3>1 DEF Contents
    <3>3. \A j : <<P, j>> \notin Contents(l)
      BY <1>1 DEF Contents
    <3> QED
      BY <2>1, <3>2, <3>3
  <2>6. /\ t \in Seq([1 .. 5 -> Nat])
        /\ \E h : Matches(h, DOMAIN t, S1) /\ ComesFrom(t, h, s, f, Q, a, g, x, C)
    BY <2>2, <2>3, <2>4, <2>5, MatchedRows, Zenon
  <2>7. PICK h : Matches(h, DOMAIN t, S1) /\ ComesFrom(t, h, s, f, Q, a, g, x, C)
    BY <2>6
  <2>10. ASSUME NEW k \in DOMAIN t
         PROVE  /\ t[k] \in T
                /\ t[k][1] \in DOMAIN label_map' /\ label_map'[t[k][1]] = firstLabel(objectAt(h[k][1]))
                /\ <<t[k][2], t[k][3]>> = nameAt(h[k][1])
                /\ <<t[k][4], t[k][5]>> = ContentsOf(h[k][1], l)[h[k][2]]
    <3>1. CASE k \in DOMAIN s /\ t[k] = s[k] /\ h[k] = f[k]
      <4>1. IsContent(s[k], l, f[k][1], f[k][2])
        BY <2>4, <3>1
      <4> QED
        BY <1>1, <2>1, <3>1, <4>1 DEF IsContent
    <3>2. ASSUME NEW j \in DOMAIN C, h[k] = <<Q, j>>, IsRow(t[k], a, g, x, C[j][1], C[j][2])
          PROVE  /\ t[k] \in T
                 /\ t[k][1] \in DOMAIN label_map' /\ label_map'[t[k][1]] = firstLabel(objectAt(h[k][1]))
                 /\ <<t[k][2], t[k][3]>> = nameAt(h[k][1])
                 /\ <<t[k][4], t[k][5]>> = ContentsOf(h[k][1], l)[h[k][2]]
      <4>1. h[k][1] = Q /\ h[k][2] = j
        BY <3>2
      <4>2. /\ t[k] \in T /\ t[k][1] = a /\ t[k][2] = g /\ t[k][3] = x
            /\ t[k][4] = C[j][1] /\ t[k][5] = C[j][2]
        BY <2>1, <3>2, Zenon DEF IsRow
      <4>3. C[j] = <<C[j][1], C[j][2]>>
        BY <2>2
      <4> QED
        BY <1>1, <2>1, <4>1, <4>2, <4>3 DEF o
    <3> QED
      BY <2>7, <3>1, <3>2 DEF ComesFrom
  <2>11. \A k \in DOMAIN rowsUnder(l)' : IsContent(rowsUnder(l)[k], l, h[k][1], h[k][2])'
    <3>1. \A p : firstLabel(objectAt(p))' = firstLabel(objectAt(p))
      BY <1>1 DEF firstLabel
    <3> QED
      BY <1>1, <2>1, <2>10, <3>1 DEF IsContent
  <2> QED
    BY <2>1, <2>6, <2>7, <2>11
<1> QED
  BY <1>3 DEF ContentsHold

-----------------------------------------------------------------------------
(* Indexing.                                                               *)

\* The parts of a containment table that is filed.
LEMMA FiledParts ==
  ASSUME StorageInv, indexContainment
  PROVE  \E l0 \in DOMAIN phis :
           /\ l0 \notin Range(minRecordToContaimentLabel) /\ DOMAIN phis' = DOMAIN phis
           /\ \A l \in DOMAIN phis : l # l0 => phis'[l] = phis[l]
           /\ phis'[l0].table = Sorted(phis[l0].table)
           /\ phis'[l0].primary = Blocks(phis'[l0].table)
           /\ phis'[l0].secondary = RowsByContainer(phis'[l0].table)
           /\ \A l \in Range(minRecordToContaimentLabel') :
                l = l0 \/ (l \in Range(minRecordToContaimentLabel) /\ l \in DOMAIN phis)
<1> DEFINE filed(t) == [table |-> t, primary |-> Blocks(t), secondary |-> RowsByContainer(t)]
<1>1. PICK l0 \in DOMAIN phis \ Range(minRecordToContaimentLabel) :
        /\ phis' = [phis EXCEPT ![l0] = filed(Sorted(phis[l0].table))]
        /\ minRecordToContaimentLabel' = Bind(tables_start, l0, minRecordToContaimentLabel)
  BY Zenon DEF indexContainment, RowsByContainer
<1>2. PICK t : t = Sorted(phis[l0].table)
  OBVIOUS
<1>3. filed(t).table = t /\ filed(t).primary = Blocks(t) /\ filed(t).secondary = RowsByContainer(t)
  OBVIOUS
<1> HIDE DEF filed
<1>4. /\ DOMAIN phis' = DOMAIN phis /\ phis'[l0] = filed(t)
      /\ \A l \in DOMAIN phis : l # l0 => phis'[l] = phis[l]
  BY <1>1, <1>2
<1>5. phis'[l0].table = t /\ phis'[l0].primary = Blocks(t) /\ phis'[l0].secondary = RowsByContainer(t)
  BY <1>3, <1>4
<1>6. \A l \in Range(minRecordToContaimentLabel') :
        l = l0 \/ (l \in Range(minRecordToContaimentLabel) /\ l \in DOMAIN phis)
  <2> DEFINE m == minRecordToContaimentLabel
  <2>1. \A s \in DOMAIN m : m[s] \in DOMAIN phis
    BY DEF StorageInv, Filed, Starts
  <2>2. minRecordToContaimentLabel' = Bind(tables_start, l0, m)
    BY <1>1
  <2>3. \A s \in DOMAIN Bind(tables_start, l0, m) :
          Bind(tables_start, l0, m)[s] = l0 \/ (s \in DOMAIN m /\ Bind(tables_start, l0, m)[s] = m[s])
    <3> HIDE DEF m
    <3> QED
      BY DEF Bind, Merge
  <2> HIDE DEF m
  <2> QED
    BY <2>1, <2>2, <2>3 DEF Range, m
<1> QED
  BY <1>1, <1>2, <1>4, <1>5, <1>6, Zenon

\* Filing a table reorders its rows, which stay those of the contents.
LEMMA IndexedContents ==
  ASSUME StorageInv, ContentsHold, IndicesHold, indexContainment
  PROVE  ContentsHold' /\ IndicesHold'
<1>1. PICK l0 \in DOMAIN phis :
           /\ l0 \notin Range(minRecordToContaimentLabel) /\ DOMAIN phis' = DOMAIN phis
           /\ \A l \in DOMAIN phis : l # l0 => phis'[l] = phis[l]
           /\ phis'[l0].table = Sorted(phis[l0].table)
           /\ phis'[l0].primary = Blocks(phis'[l0].table)
           /\ phis'[l0].secondary = RowsByContainer(phis'[l0].table)
           /\ \A l \in Range(minRecordToContaimentLabel') :
                l = l0 \/ (l \in Range(minRecordToContaimentLabel) /\ l \in DOMAIN phis)
  BY FiledParts
<1>2. /\ UNCHANGED <<db, label_map>> /\ Loaded' = Loaded /\ l0 \in PhiLabels
  BY DEF indexContainment, loading, builders, Loaded, Places, StorageInv, Lists
<1>3. /\ \A p : nameAt(p)' = nameAt(p) /\ objectAt(p)' = objectAt(p)
      /\ \A p, l : ContentsOf(p, l)' = ContentsOf(p, l)
      /\ \A l : Contents(l)' = Contents(l)
  BY <1>2, SamePlaces
<1>4. \A row, l, p, j : IsContent(row, l, p, j)' <=> IsContent(row, l, p, j)
  <2>1. \A p : firstLabel(objectAt(p))' = firstLabel(objectAt(p))
    BY <1>3 DEF firstLabel
  <2> QED
    BY <1>2, <1>3, <2>1 DEF IsContent
<1>5. \A l : l # l0 => rowsUnder(l)' = rowsUnder(l)
  BY <1>1 DEF rowsUnder
<1>6. PICK t \in Seq([1 .. 5 -> Nat]) : t = rowsUnder(l0)
  BY <1>2 DEF ContentsHold
<1>7. PICK u : u = Sorted(t)
  OBVIOUS
<1>8. rowsUnder(l0)' = u /\ t = phis[l0].table /\ u = phis'[l0].table
  BY <1>1, <1>6, <1>7 DEF rowsUnder
<1>9. u \in Seq([1 .. 5 -> Nat]) /\ InOrder(u) /\ Rearranges(u, t)
  <2>1. 5 \in Nat
    OBVIOUS
  <2> QED
    BY <1>6, <1>7, <2>1, SortedPermutes, Zenon
<1>10. ContentsHold'
  <2>1. \E h : Matches(h, DOMAIN u, Contents(l0)) /\ \A k \in DOMAIN u : IsContent(u[k], l0, h[k][1], h[k][2])
    <3>1. PICK f : Matches(f, DOMAIN t, DOMAIN t) /\ \A k \in DOMAIN t : u[k] = t[f[k]]
      BY <1>9 DEF Rearranges
    <3>2. PICK g : Matches(g, DOMAIN t, Contents(l0)) /\ \A k \in DOMAIN t : IsContent(t[k], l0, g[k][1], g[k][2])
      BY <1>2, <1>6 DEF ContentsHold
    <3>3. PICK h : h = [k \in DOMAIN t |-> g[f[k]]]
      OBVIOUS
    <3>4. \A k \in DOMAIN t : h[k] = g[f[k]] /\ f[k] \in DOMAIN t
      BY <3>1, <3>3 DEF Matches
    <3>5. Matches(h, DOMAIN t, Contents(l0))
      BY <3>1, <3>2, <3>4, MatchedThrough DEF Along
    <3>6. DOMAIN u = DOMAIN t
      BY <1>9 DEF Rearranges
    <3>7. \A k \in DOMAIN t : IsContent(u[k], l0, h[k][1], h[k][2])
      BY <3>1, <3>2, <3>4, Zenon
    <3> QED
      BY <3>5, <3>6, <3>7, Zenon
  <2>2. ASSUME NEW l \in PhiLabels
        PROVE  /\ rowsUnder(l)' \in Seq([1 .. 5 -> Nat])
               /\ \E h : /\ Matches(h, DOMAIN rowsUnder(l)', Contents(l)')
                         /\ \A k \in DOMAIN rowsUnder(l)' : IsContent(rowsUnder(l)[k], l, h[k][1], h[k][2])'
    <3>1. \A row, p, j : IsContent(row, l, p, j)' <=> IsContent(row, l, p, j)
      BY <1>4
    <3>2. PICK r : r = rowsUnder(l)'
      OBVIOUS
    <3>3. r \in Seq([1 .. 5 -> Nat])
          /\ \E h : Matches(h, DOMAIN r, Contents(l)) /\ \A k \in DOMAIN r : IsContent(r[k], l, h[k][1], h[k][2])
      <4>1. CASE l = l0
        BY <1>8, <1>9, <2>1, <3>2, <4>1
      <4>2. CASE l # l0
        BY <1>5, <3>2, <4>2 DEF ContentsHold
      <4> QED
        BY <4>1, <4>2
    <3> QED
      BY <1>3, <3>1, <3>2, <3>3
  <2> QED
    BY <2>2 DEF ContentsHold
<1>11. IndicesHold'
  <2>1. ASSUME NEW l \in Range(minRecordToContaimentLabel')
        PROVE  IsIndexed(phis'[l])
    <3>1. CASE l = l0
      BY <1>1, <1>8, <1>9, <3>1 DEF IsIndexed
    <3>2. CASE l # l0
      BY <1>1, <3>2 DEF IndicesHold
    <3> QED
      BY <3>1, <3>2
  <2> QED
    BY <2>1 DEF IndicesHold, Range
<1> QED
  BY <1>10, <1>11

\* While objects are loaded no table is filed.
LEMMA LoadIndices ==
  ASSUME StorageInv, loadObject
  PROVE  IndicesHold'
<1>1. minRecordToContaimentLabel' = minRecordToContaimentLabel /\ pc = "load"
  BY DEF loadObject, records
<1>2. DOMAIN minRecordToContaimentLabel = {}
  BY <1>1 DEF StorageInv, FiledWhen, Starts
<1> QED
  BY <1>1, <1>2 DEF IndicesHold, Range

\* Loading an object keeps the invariant.
LEMMA LoadReading ==
  ASSUME StorageInv, ObjectsInv, ReadingInv, loadObject
  PROVE  ReadingInv'
<1>1. LabelsHold' /\ ContentsHold' /\ IndicesHold' /\ ValuesHold'
  BY LoadLabels, LoadContents, LoadIndices, LoadValues DEF ReadingInv
<1>2. pc' = "load"
  BY DEF loadObject
<1>3. NumbersHold' /\ PropertiesHold'
  BY <1>2 DEF NumbersHold, PropertiesHold
<1> QED
  BY <1>1, <1>3 DEF ReadingInv

\* What is loaded is the same when a graph is passed.
LEMMA PassLoaded ==
  ASSUME StorageInv, loadUnknown \/ nextGraph
  PROVE  Loaded' = Loaded
<1>1. Places' = Places
  BY DEF Places, loadUnknown, nextGraph, loading
<1>2. CASE loadUnknown
  BY <1>1, <1>2 DEF Loaded, loadUnknown, loading
<1>3. CASE nextGraph
  <2>1. graph' = graph + 1 /\ pos' = 0 /\ pos = Len(db[graph]) /\ graph \in DOMAIN db
    BY <1>3 DEF nextGraph
  <2>2. \A p \in Places : (p[1] < graph + 1 \/ (p[1] = graph + 1 /\ p[2] <= 0))
                            <=> (p[1] < graph \/ (p[1] = graph /\ p[2] <= pos))
    <3> SUFFICES ASSUME NEW p \in Places
                 PROVE  (p[1] < graph + 1 \/ (p[1] = graph + 1 /\ p[2] <= 0))
                          <=> (p[1] < graph \/ (p[1] = graph /\ p[2] <= pos))
      OBVIOUS
    <3>1. /\ p[1] \in DOMAIN db /\ p[2] \in DOMAIN db[p[1]] /\ graph \in Nat
          /\ DOMAIN db = 1 .. Len(db) /\ Len(db) \in Nat
          /\ \A g \in DOMAIN db : DOMAIN db[g] = 1 .. Len(db[g]) /\ Len(db[g]) \in Nat
      BY PlacesAre DEF StorageInv
    <3>2. p[1] \in Nat /\ p[2] \in Nat /\ p[2] > 0 /\ (p[1] = graph => p[2] <= pos)
      BY <2>1, <3>1
    <3> QED
      BY <3>1, <3>2
  <2>3. \A p : p \in Loaded' <=> p \in Places /\ (p[1] < graph + 1 \/ (p[1] = graph + 1 /\ p[2] <= 0))
    BY <1>1, <2>1 DEF Loaded
  <2>4. \A p : p \in Loaded <=> p \in Places /\ (p[1] < graph \/ (p[1] = graph /\ p[2] <= pos))
    BY DEF Loaded
  <2> QED
    BY <2>2, <2>3, <2>4
<1> QED
  BY <1>2, <1>3

\* So do the steps that go on to the next graph or stop,
LEMMA PassReading ==
  ASSUME StorageInv, ReadingInv, loadUnknown \/ nextGraph
  PROVE  ReadingInv'
<1>1. /\ UNCHANGED <<db, label_map, ell_values, elements, phis, minRecordToContaimentLabel>>
      /\ pc' \in {"load", "undefined"}
  BY DEF loadUnknown, nextGraph, loading, builders, records
<1>2. LabelsHold' /\ ContentsHold' /\ IndicesHold' /\ ValuesHold'
  BY <1>1, PassLoaded, SameLabels, SameContents, SameIndices, SameValues DEF ReadingInv
<1>3. NumbersHold' /\ PropertiesHold'
  BY <1>1 DEF NumbersHold, PropertiesHold
<1> QED
  BY <1>2, <1>3 DEF ReadingInv

\* The registry is laid out: the list of a graph is as long as the graph.
LEMMA LayOutReading ==
  ASSUME StorageInv, ObjectsInv, ReadingInv, layOutRegistry
  PROVE  ReadingInv'
<1>1. /\ pc = "load" /\ graph \notin DOMAIN db /\ pc' \in {"containment", "undefined"}
      /\ UNCHANGED <<path, db, graph, pos, label_map, builder, elements, attrs>>
      /\ pc' = "containment" => traces' = [g \in DOMAIN traces |-> Offsets(RegistryTable, g)]
  BY LaidOut
<1>2. UNCHANGED <<ell_values, phis, minRecordToContaimentLabel>>
  BY DEF layOutRegistry, records
<1>3. Loaded' = Loaded
  BY <1>1 DEF Loaded, Places
<1>4. LabelsHold' /\ ContentsHold' /\ IndicesHold' /\ ValuesHold'
  BY <1>1, <1>2, <1>3, SameLabels, SameContents, SameIndices, SameValues DEF ReadingInv
<1>5. PropertiesHold'
  BY <1>1 DEF PropertiesHold
<1>6. NumbersHold'
  <2>1. CASE pc' = "undefined"
    BY <2>1 DEF NumbersHold
  <2>2. CASE pc' = "containment"
    <3>1. Shape
      BY DEF StorageInv
    <3>2. Loaded = Places
      BY <1>1, <3>1, AllLoaded
    <3>3. /\ traces \in Seq(Seq(Nat))
          /\ \A g \in DOMAIN traces : 1 \in DOMAIN traces[g]
          /\ \A g, i \in Nat : <<g, i>> \in Loaded <=> g \in DOMAIN traces /\ i \in DOMAIN traces[g]
      BY <1>1 DEF ObjectsInv, TracesHold
    <3>4. /\ \A g, i : <<g, i>> \in Places <=> g \in DOMAIN db /\ i \in DOMAIN db[g]
          /\ \A g \in DOMAIN db : \A i \in DOMAIN db[g] : i \in Nat
      BY <3>1, PlacesAre
    <3>5. \A g \in DOMAIN traces : g \in Nat /\ \A i \in DOMAIN traces[g] : i \in Nat
      BY <3>3
    <3>6. ASSUME NEW g \in DOMAIN traces PROVE g \in DOMAIN db /\ DOMAIN traces[g] = DOMAIN db[g]
      <4>1. g \in DOMAIN db
        BY <3>2, <3>3, <3>4, <3>5
      <4>2. \A i : i \in DOMAIN traces[g] <=> i \in DOMAIN db[g]
        BY <3>2, <3>3, <3>4, <3>5, <4>1
      <4> QED
        BY <4>1, <4>2
    <3>7. DOMAIN traces' = DOMAIN traces /\ \A g \in DOMAIN traces : DOMAIN traces'[g] = DOMAIN traces[g]
      BY <1>1, <2>2, Zenon DEF Offsets
    <3> QED
      BY <1>1, <3>6, <3>7 DEF NumbersHold
  <2> QED
    BY <1>1, <2>1, <2>2
<1> QED
  BY <1>4, <1>5, <1>6 DEF ReadingInv

\* filing a containment table,
LEMMA ContainmentReading ==
  ASSUME StorageInv, ReadingInv, indexContainment
  PROVE  ReadingInv'
<1>1. UNCHANGED <<path, db, graph, pos, pc, label_map, ell_values, builder, traces, elements, registry, attrs>>
  BY DEF indexContainment, loading, builders
<1>2. Loaded' = Loaded
  BY <1>1 DEF Loaded, Places
<1>3. ContentsHold' /\ IndicesHold'
  BY IndexedContents DEF ReadingInv
<1>4. LabelsHold' /\ ValuesHold' /\ NumbersHold' /\ PropertiesHold'
  BY <1>1, <1>2, SameLabels, SameValues, SameNumbers, SameProperties DEF ReadingInv
<1> QED
  BY <1>3, <1>4 DEF ReadingInv

\* linking the objects,
LEMMA LinkReading ==
  ASSUME StorageInv, ReadingInv, indexing2
  PROVE  ReadingInv'
<1>1. /\ UNCHANGED <<path, db, graph, pos, label_map, ell_values, builder, traces, elements, attrs, phis,
                     minRecordToContaimentLabel>>
      /\ pc = "links" /\ pc' = "indexed"
  BY DEF indexing2, loading, builders, records
<1>2. registry'.table = registry.table
  <2> DEFINE ends == [g \in DOMAIN traces |-> <<traces[g][1], Last(traces[g])>>]
             up == Links(1)
             down == Links(-1)
  <2>1. registry = [table |-> registry.table, primary |-> registry.primary,
                    secondary |-> registry.secondary, next |-> registry.next, prev |-> registry.prev]
    BY DEF StorageInv, Shape
  <2>2. registry' = [registry EXCEPT !.secondary = ends, !.next = up, !.prev = down]
    BY DEF indexing2
  <2> HIDE DEF ends, up, down
  <2> QED
    BY <2>1, <2>2
<1>3. Loaded' = Loaded
  BY <1>1 DEF Loaded, Places
<1>4. LabelsHold' /\ ContentsHold' /\ IndicesHold' /\ ValuesHold'
  BY <1>1, <1>3, SameLabels, SameContents, SameIndices, SameValues DEF ReadingInv
<1>5. NumbersHold' /\ PropertiesHold'
  BY <1>1, <1>2, SameNumbers, SameProperties DEF ReadingInv
<1> QED
  BY <1>4, <1>5 DEF ReadingInv

\* and stuttering.
LEMMA SameReading ==
  ASSUME ReadingInv, UNCHANGED vars
  PROVE  ReadingInv'
<1>1. UNCHANGED <<path, db, graph, pos, pc, label_map, ell_values, builder, traces, elements, registry, attrs,
                  phis, minRecordToContaimentLabel>>
  BY DEF vars, loading, builders, records
<1>2. Loaded' = Loaded
  BY <1>1 DEF Loaded, Places
<1>3. LabelsHold' /\ ContentsHold' /\ IndicesHold' /\ ValuesHold'
  BY <1>1, <1>2, SameLabels, SameContents, SameIndices, SameValues DEF ReadingInv
<1>4. NumbersHold' /\ PropertiesHold'
  BY <1>1, SameNumbers, SameProperties DEF ReadingInv
<1> QED
  BY <1>3, <1>4 DEF ReadingInv

\* What a property table is when it is indexed, with the places of its labels.
LEMMA IndexedTables ==
  ASSUME indexProperties
  PROVE  /\ DOMAIN attrs' = {k \in Keys : elements[k] # <<>>}
         /\ \A k \in DOMAIN attrs' :
              /\ attrs'[k].table = Sorted(ValueRows(k))
              /\ attrs'[k].secondary = LastByRow(Sorted(ValueRows(k)))
              /\ \A a \in DOMAIN attrs'[k].primary :
                   /\ a \in Nat \ {0}
                   /\ attrs'[k].primary[a] = <<UpTo(Sorted(ValueRows(k)), a - 1) + 1,
                                               UpTo(Sorted(ValueRows(k)), a) + 1>>
<1> DEFINE K == {j \in Keys : elements[j] # <<>>}
           table(k) == Sorted(ValueRows(k))
           last(k) == Greatest({elements[k][i][1] : i \in DOMAIN elements[k]})
           first(k) == [a \in 1 .. last(k) |-> <<UpTo(table(k), a - 1) + 1, UpTo(table(k), a) + 1>>]
<1>1. attrs' = [k \in K |-> [table |-> table(k), primary |-> first(k),
                             secondary |-> LastByRow(table(k)),
                             secondary2 |-> LastByName(registry.table, table(k))]]
  BY Zenon DEF indexProperties, ValueRows, LastByRow, LastByName, Home, nameIn, UpTo
<1> HIDE DEF table, last
<1>2. \A k : \A a \in DOMAIN first(k) :
        /\ a \in Nat \ {0}
        /\ first(k)[a] = <<UpTo(table(k), a - 1) + 1, UpTo(table(k), a) + 1>>
  OBVIOUS
<1> HIDE DEF first
<1>3. \A k \in K : /\ attrs'[k].table = table(k)
                   /\ attrs'[k].primary = first(k)
                   /\ attrs'[k].secondary = LastByRow(table(k))
  BY <1>1
<1>4. DOMAIN attrs' = K
  BY <1>1
<1> QED
  BY <1>2, <1>3, <1>4 DEF table

\* The rows of a property table before they are sorted: they lead from the rows
\* of the registry to the elements of the objects.
LEMMA ValueRowsAre ==
  ASSUME StorageInv, ObjectsInv, pc = "containment", NEW k \in Keys
  PROVE  /\ ValueRows(k) \in Seq([1 .. 3 -> Nat]) /\ DOMAIN ValueRows(k) = DOMAIN elements[k]
         /\ \A i \in DOMAIN elements[k] :
              /\ ValueRows(k)[i][2] = elements[k][i][2]
              /\ ValueRows(k)[i][3] \in Rows
              /\ nameIn(registry.table, ValueRows(k)[i][3]) = <<elements[k][i][3], elements[k][i][4]>>
<1>1. /\ \A g \in DOMAIN traces : \A x \in DOMAIN traces[g] :
           traces[g][x] \in Rows /\ nameIn(registry.table, traces[g][x]) = <<g, x>>
      /\ \A p \in Places : p[1] \in DOMAIN traces /\ objectAt(p).id \in DOMAIN traces[p[1]]
      /\ Rows \subseteq Nat
  <2>1. Rows = 1 .. Len(registry.table) /\ Len(registry.table) \in Nat
    BY DEF ObjectsInv, RegistryHolds
  <2> QED
    BY <2>1 DEF ObjectsInv, RegistryHolds
<1>2. PICK e : e = elements[k]
  OBVIOUS
<1>3. /\ e \in Seq(Nat \X Nat \X Nat \X Nat)
      /\ \A i \in DOMAIN e : \E p \in Loaded : <<e[i][3], e[i][4]>> = nameAt(p)
  BY <1>2 DEF ObjectsInv, ElementsHold
<1>4. DOMAIN e = 1 .. Len(e) /\ Len(e) \in Nat
  BY <1>3
<1>5. ASSUME NEW i \in DOMAIN e
      PROVE  /\ e[i][1] \in Nat /\ e[i][2] \in Nat
             /\ traces[e[i][3]][e[i][4]] \in Rows
             /\ nameIn(registry.table, traces[e[i][3]][e[i][4]]) = <<e[i][3], e[i][4]>>
  <2>1. PICK p \in Loaded : <<e[i][3], e[i][4]>> = nameAt(p)
    BY <1>3
  <2>2. p \in Places /\ e[i][3] = p[1] /\ e[i][4] = objectAt(p).id
    BY <2>1 DEF Loaded, nameAt
  <2>3. e[i] \in Nat \X Nat \X Nat \X Nat
    BY <1>3
  <2> QED
    BY <1>1, <2>2, <2>3
<1> DEFINE rowOf(i) == <<e[i][1], e[i][2], traces[e[i][3]][e[i][4]]>>
<1>6. ValueRows(k) = [i \in DOMAIN e |-> rowOf(i)]
  BY <1>2, Zenon DEF ValueRows
<1>7. ASSUME NEW i \in DOMAIN e
      PROVE  /\ rowOf(i) \in [1 .. 3 -> Nat] /\ rowOf(i)[2] = e[i][2]
             /\ rowOf(i)[3] \in Rows /\ nameIn(registry.table, rowOf(i)[3]) = <<e[i][3], e[i][4]>>
  <2>1. PICK a \in Nat, b \in Nat, c \in Rows : a = e[i][1] /\ b = e[i][2] /\ c = traces[e[i][3]][e[i][4]]
    BY <1>5
  <2>2. c \in Nat
    BY <1>1
  <2>3. <<a, b, c>> \in [1 .. 3 -> Nat] /\ <<a, b, c>>[3] = c /\ <<a, b, c>>[2] = b
    BY <2>2
  <2>4. rowOf(i) = <<a, b, c>>
    BY <2>1
  <2> HIDE DEF rowOf
  <2>5. nameIn(registry.table, c) = <<e[i][3], e[i][4]>>
    BY <1>5, <2>1
  <2>6. rowOf(i) \in [1 .. 3 -> Nat] /\ rowOf(i)[2] = b /\ rowOf(i)[3] = c
    BY <2>3, <2>4, Zenon
  <2> QED
    BY <2>1, <2>5, <2>6, Zenon
<1> HIDE DEF rowOf
<1>8. PICK v : v = ValueRows(k)
  OBVIOUS
<1>9. v = [i \in DOMAIN e |-> rowOf(i)]
  BY <1>6, <1>8, Zenon
<1>10. v \in Seq([1 .. 3 -> Nat]) /\ DOMAIN v = DOMAIN e
  BY <1>4, <1>7, <1>9
<1>11. \A i \in DOMAIN e : v[i] = rowOf(i)
  BY <1>9
<1>12. \A i \in DOMAIN e : /\ v[i][2] = e[i][2] /\ v[i][3] \in Rows
                           /\ nameIn(registry.table, v[i][3]) = <<e[i][3], e[i][4]>>
  BY <1>7, <1>11
<1> QED
  BY <1>2, <1>8, <1>10, <1>12

\* What is found for an object in a property table that is sorted and indexed.
LEMMA ValueFound ==
  ASSUME StorageInv, ObjectsInv, ReadingInv, pc = "containment", NEW k \in Keys, elements[k] # <<>>,
         NEW r \in Rows, NEW p \in Places, nameIn(registry.table, r) = nameAt(p)
  PROVE  LET table == Sorted(ValueRows(k)) IN
         /\ table \in Seq([1 .. 3 -> Nat]) /\ InOrder(table)
         /\ IF k \in DOMAIN objectAt(p).props
            THEN /\ r \in DOMAIN LastByRow(table)
                 /\ table[LastByRow(table)[r]][2] = objectAt(p).props[k]
            ELSE r \notin DOMAIN LastByRow(table)
<1>1. PICK v \in Seq([1 .. 3 -> Nat]) : v = ValueRows(k)
  BY ValueRowsAre
<1>20. PICK e : e = elements[k]
  OBVIOUS
<1>2. /\ DOMAIN v = DOMAIN e
      /\ \A i \in DOMAIN e : /\ v[i][2] = e[i][2] /\ v[i][3] \in Rows
                           /\ nameIn(registry.table, v[i][3]) = <<e[i][3], e[i][4]>>
  BY <1>1, <1>20, ValueRowsAre, Zenon
<1>3. PICK t : t = Sorted(v)
  OBVIOUS
<1>4. t \in Seq([1 .. 3 -> Nat]) /\ InOrder(t) /\ Rearranges(t, v)
  <2>1. 3 \in Nat
    OBVIOUS
  <2> QED
    BY <1>3, <2>1, SortedPermutes, Zenon
<1>5. PICK f : Matches(f, DOMAIN v, DOMAIN v) /\ DOMAIN t = DOMAIN v /\ \A i \in DOMAIN v : t[i] = v[f[i]]
  BY <1>4, Zenon DEF Rearranges
<1>6. Loaded = Places
  <2>1. graph = Len(db) + 1 /\ Shape
    BY DEF ObjectsInv, Progress, StorageInv
  <2>2. graph \notin DOMAIN db
    BY <2>1, PlacesAre
  <2> QED
    BY <2>1, <2>2, AllLoaded
<1>7. /\ \A i \in DOMAIN e : \E q \in Places :
             /\ <<e[i][3], e[i][4]>> = nameAt(q)
             /\ k \in DOMAIN objectAt(q).props /\ e[i][2] = objectAt(q).props[k]
      /\ \A q \in Places : k \in DOMAIN objectAt(q).props =>
           \E i \in DOMAIN e : <<e[i][3], e[i][4]>> = nameAt(q)
  BY <1>6, <1>20 DEF ReadingInv, ValuesHold
<1>8. \A q \in Places : nameAt(q) = nameAt(p) => q = p
  BY NamesDiffer DEF StorageInv, ObjectsInv
<1>9. \A s \in Rows : nameIn(registry.table, s) = nameIn(registry.table, r) => s = r
  BY DEF ObjectsInv, RegistryHolds
<1>10. ASSUME NEW i \in DOMAIN t, t[i][3] = r
       PROVE  k \in DOMAIN objectAt(p).props /\ t[i][2] = objectAt(p).props[k]
  <2>1. f[i] \in DOMAIN e /\ t[i] = v[f[i]]
    BY <1>2, <1>5 DEF Matches
  <2>2. nameIn(registry.table, r) = <<e[f[i]][3], e[f[i]][4]>> /\ t[i][2] = e[f[i]][2]
    BY <1>2, <1>10, <2>1
  <2>3. PICK q \in Places : /\ <<e[f[i]][3], e[f[i]][4]>> = nameAt(q)
                            /\ k \in DOMAIN objectAt(q).props /\ e[f[i]][2] = objectAt(q).props[k]
    BY <1>7, <2>1
  <2>4. q = p
    BY <1>8, <2>2, <2>3
  <2> QED
    BY <2>2, <2>3, <2>4
<1>11. ASSUME k \in DOMAIN objectAt(p).props
       PROVE  \E i \in DOMAIN t : t[i][3] = r
  <2>1. PICK j \in DOMAIN e : <<e[j][3], e[j][4]>> = nameAt(p)
    BY <1>7, <1>11
  <2>2. v[j][3] = r
    BY <1>2, <1>9, <2>1
  <2>3. PICK i \in DOMAIN v : f[i] = j
    BY <1>2, <1>5 DEF Matches
  <2> QED
    BY <1>5, <2>2, <2>3
<1>12. ASSUME NEW i \in DOMAIN t, t[i][3] = r
       PROVE  /\ r \in DOMAIN LastByRow(t) /\ LastByRow(t)[r] \in DOMAIN t
              /\ t[LastByRow(t)[r]][3] = r
  <2> DEFINE S == {j \in DOMAIN t : t[j][3] = r}
             n == Len(t)
  <2>1. DOMAIN t = 1 .. n /\ n \in Nat
    BY <1>4
  <2> HIDE DEF n
  <2>2. S \in SUBSET (0 .. n) /\ S # {} /\ S \in SUBSET Nat
    BY <1>12, <2>1
  <2>3. PICK m \in S : \A x \in S : x <= m
    BY <2>1, <2>2, GreatestNat
  <2>4. Greatest(S) = m
    BY <2>2, <2>3, GreatestIs
  <2>5. r \in DOMAIN LastByRow(t) /\ LastByRow(t)[r] = Greatest(S)
    BY <1>12, Zenon DEF LastByRow
  <2> QED
    BY <2>3, <2>4, <2>5
<1>13. (\A i \in DOMAIN t : t[i][3] # r) => r \notin DOMAIN LastByRow(t)
  BY Zenon DEF LastByRow
<1>14. IF k \in DOMAIN objectAt(p).props
       THEN /\ r \in DOMAIN LastByRow(t)
            /\ t[LastByRow(t)[r]][2] = objectAt(p).props[k]
       ELSE r \notin DOMAIN LastByRow(t)
  BY <1>10, <1>11, <1>12, <1>13
<1> QED
  BY <1>1, <1>3, <1>4, <1>14

\* The properties are indexed: the rows of the registry lead to them.
LEMMA PropertiesReading ==
  ASSUME StorageInv, ObjectsInv, ReadingInv, indexProperties
  PROVE  ReadingInv'
<1>1. /\ pc = "containment" /\ pc' = "links"
      /\ UNCHANGED <<path, db, graph, pos, label_map, ell_values, builder, traces, elements, registry, phis,
                     minRecordToContaimentLabel>>
  BY DEF indexProperties, loading, builders, records
<1>2. Loaded' = Loaded /\ Places' = Places /\ Rows' = Rows
  BY <1>1 DEF Loaded, Places, Rows
<1>3. LabelsHold' /\ ContentsHold' /\ IndicesHold' /\ ValuesHold' /\ NumbersHold'
  BY <1>1, <1>2, SameLabels, SameContents, SameIndices, SameValues, SameNumbers DEF ReadingInv
<1>4. /\ DOMAIN attrs' = {k \in Keys : elements[k] # <<>>}
      /\ \A k \in DOMAIN attrs' :
              /\ attrs'[k].table = Sorted(ValueRows(k))
              /\ attrs'[k].secondary = LastByRow(Sorted(ValueRows(k)))
              /\ \A a \in DOMAIN attrs'[k].primary :
                   /\ a \in Nat \ {0}
                   /\ attrs'[k].primary[a] = <<UpTo(Sorted(ValueRows(k)), a - 1) + 1,
                                               UpTo(Sorted(ValueRows(k)), a) + 1>>
  BY IndexedTables
<1>5. ASSUME NEW k \in DOMAIN attrs'
      PROVE  Sorted(ValueRows(k)) \in Seq([1 .. 3 -> Nat]) /\ InOrder(Sorted(ValueRows(k)))
  <2>1. PICK v \in Seq([1 .. 3 -> Nat]) : v = ValueRows(k)
    BY <1>1, <1>4, ValueRowsAre
  <2>2. 3 \in Nat
    OBVIOUS
  <2> QED
    BY <2>1, <2>2, SortedPermutes, Zenon
<1>6. ASSUME NEW r \in Rows, NEW p \in Places, NEW k \in Keys, nameIn(registry.table, r) = nameAt(p)
      PROVE  resolve_record_if_exists(r, k)' =
               IF k \in DOMAIN objectAt(p).props THEN <<objectAt(p).props[k]>> ELSE <<>>
  <2>1. CASE k \in DOMAIN attrs'
    <3>1. elements[k] # <<>>
      BY <1>4, <2>1
    <3>2. PICK t : t = Sorted(ValueRows(k))
      OBVIOUS
    <3>3. IF k \in DOMAIN objectAt(p).props
          THEN /\ r \in DOMAIN LastByRow(t)
               /\ t[LastByRow(t)[r]][2] = objectAt(p).props[k]
          ELSE r \notin DOMAIN LastByRow(t)
      BY <1>1, <1>6, <3>1, <3>2, ValueFound
    <3>4. attrs'[k].table = t /\ attrs'[k].secondary = LastByRow(t)
      BY <1>4, <2>1, <3>2
    <3> QED
      BY <2>1, <3>3, <3>4 DEF resolve_record_if_exists
  <2>2. CASE k \notin DOMAIN attrs'
    <3>1. elements[k] = <<>> /\ DOMAIN <<>> = {}
      BY <1>4, <2>2
    <3>2. Loaded = Places
      <4>1. graph = Len(db) + 1 /\ Shape
        BY <1>1 DEF ObjectsInv, Progress, StorageInv
      <4>2. graph \notin DOMAIN db
        BY <4>1, PlacesAre
      <4> QED
        BY <4>1, <4>2, AllLoaded
    <3>3. k \notin DOMAIN objectAt(p).props
      BY <3>1, <3>2 DEF ReadingInv, ValuesHold
    <3> QED
      BY <2>2, <3>3 DEF resolve_record_if_exists
  <2> QED
    BY <2>1, <2>2
<1>7. PropertiesHold'
  <2>1. \A p : nameAt(p)' = nameAt(p) /\ objectAt(p)' = objectAt(p)
    BY <1>1 DEF nameAt, objectAt
  <2>2. \A r \in Rows', p \in Places', k \in Keys : nameIn(registry'.table, r) = nameAt(p)' =>
         resolve_record_if_exists(r, k)' =
           IF k \in DOMAIN objectAt(p)'.props THEN <<objectAt(p)'.props[k]>> ELSE <<>>
    BY <1>1, <1>2, <1>6, <2>1
  <2>3. \A k \in DOMAIN attrs' :
         /\ attrs'[k].table \in Seq([1 .. 3 -> Nat]) /\ InOrder(attrs'[k].table)
         /\ \A a \in DOMAIN attrs'[k].primary :
              /\ a \in Nat \ {0}
              /\ attrs'[k].primary[a] = <<UpTo(attrs'[k].table, a - 1) + 1, UpTo(attrs'[k].table, a) + 1>>
    BY <1>4, <1>5
  <2> QED
    BY <2>2, <2>3 DEF PropertiesHold
<1> QED
  BY <1>3, <1>7 DEF ReadingInv

\* What the tables hold is kept by every step.
LEMMA ReadingIsInvariant == Spec => [](StorageInv /\ ObjectsInv /\ ReadingInv)
<1>1. Init => ReadingInv
  BY InitReading
<1>2. StorageInv /\ StorageInv' /\ ObjectsInv /\ ReadingInv /\ [Next]_vars => ReadingInv'
  <2> SUFFICES ASSUME StorageInv, StorageInv', ObjectsInv, ReadingInv, [Next]_vars PROVE ReadingInv'
    OBVIOUS
  <2>1. CASE convert
    BY <2>1, ConvertReading
  <2>2. CASE loadObject
    BY <2>2, LoadReading
  <2>3. CASE loadUnknown \/ nextGraph
    BY <2>3, PassReading
  <2>4. CASE layOutRegistry
    BY <2>4, LayOutReading
  <2>5. CASE indexContainment
    BY <2>5, ContainmentReading
  <2>6. CASE indexProperties
    BY <2>6, PropertiesReading
  <2>7. CASE indexing2
    BY <2>7, LinkReading
  <2>8. CASE UNCHANGED vars
    BY <2>8, SameReading
  <2> QED
    BY <2>1, <2>2, <2>3, <2>4, <2>5, <2>6, <2>7, <2>8 DEF Next, terminated
<1> QED
  BY <1>1, <1>2, ObjectsAreInvariant, PTL DEF Spec

-----------------------------------------------------------------------------
(* Range queries.                                                          *)

\* In a table that is in order the first columns ascend, and the second ones
\* where the first are the same.
LEMMA ColumnsAscend ==
  ASSUME NEW n \in Nat, 2 <= n, NEW t \in Seq([1 .. n -> Nat]), InOrder(t),
         NEW i \in DOMAIN t, NEW j \in DOMAIN t, i < j
  PROVE  /\ t[i][1] \in Nat /\ t[j][1] \in Nat /\ t[i][1] <= t[j][1]
         /\ t[i][2] \in Nat /\ t[j][2] \in Nat
         /\ t[i][1] = t[j][1] => t[i][2] <= t[j][2]
<1>1. t[i] \in [1 .. n -> Nat] /\ t[j] \in [1 .. n -> Nat]
  OBVIOUS
<1>2. PICK r \in [1 .. n -> Nat], s \in [1 .. n -> Nat] : r = t[i] /\ s = t[j]
  BY <1>1
<1>3. DOMAIN s = 1 .. n /\ 1 \in 1 .. n /\ 2 \in 1 .. n /\ 1 .. 1 - 1 = {} /\ 1 .. 2 - 1 = {1}
  OBVIOUS
<1>4. ~Precedes(s, r)
  BY <1>2 DEF InOrder
<1>5. ~(s[1] < r[1]) /\ ~(s[2] < r[2] /\ s[1] = r[1])
  BY <1>3, <1>4 DEF Precedes
<1>6. r[1] \in Nat /\ r[2] \in Nat /\ s[1] \in Nat /\ s[2] \in Nat
  BY <1>3
<1>7. PICK w \in Nat, x \in Nat, y \in Nat, z \in Nat : w = r[1] /\ x = r[2] /\ y = s[1] /\ z = s[2]
  BY <1>6
<1>8. ~(y < w) /\ ~(z < x /\ y = w)
  BY <1>5, <1>7, Zenon
<1>9. w <= y /\ (w = y => x <= z)
  BY <1>8
<1> QED
  BY <1>2, <1>6, <1>7, <1>9, Zenon

\* The rows with labels up to a are the first ones.
LEMMA UpToIs ==
  ASSUME NEW n \in Nat, 2 <= n, NEW t \in Seq([1 .. n -> Nat]), InOrder(t), NEW a \in Int
  PROVE  /\ UpTo(t, a) \in 0 .. Len(t)
         /\ \A r \in DOMAIN t : t[r][1] <= a <=> r <= UpTo(t, a)
<1> DEFINE T == {r \in DOMAIN t : t[r][1] <= a}
           m == Len(t)
<1>1. m \in Nat /\ DOMAIN t = 1 .. m
  OBVIOUS
<1>2. \A i \in T : \A j \in 1 .. i : j \in T
  <2> SUFFICES ASSUME NEW i \in T, NEW j \in 1 .. i PROVE j \in T
    OBVIOUS
  <2>1. i \in DOMAIN t /\ j \in DOMAIN t /\ t[i][1] <= a
    BY <1>1
  <2>2. i \in Nat /\ j \in Nat /\ j <= i
    BY <1>1
  <2>3. CASE j < i
    <3>1. t[j][1] \in Nat /\ t[i][1] \in Nat /\ t[j][1] <= t[i][1]
      BY <2>1, <2>3, ColumnsAscend
    <3>2. PICK x \in Nat, y \in Nat : x = t[j][1] /\ y = t[i][1] /\ x <= y /\ y <= a
      BY <2>1, <3>1
    <3>3. x <= a
      BY <3>2
    <3> QED
      BY <2>1, <3>2, <3>3
  <2>4. CASE j = i
    BY <2>4
  <2> QED
    BY <2>2, <2>3, <2>4
<1>3. \A r : r \in T <=> r \in DOMAIN t /\ t[r][1] <= a
  OBVIOUS
<1>4. T \in SUBSET (1 .. m)
  BY <1>1
<1>5. UpTo(t, a) = Cardinality(T)
  BY DEF UpTo
<1> HIDE DEF T, m
<1>6. Cardinality(T) \in 0 .. m /\ T = 1 .. Cardinality(T)
  BY <1>1, <1>2, <1>4, InitialPart
<1>7. PICK c \in 0 .. m : c = Cardinality(T) /\ T = 1 .. c
  BY <1>6
<1>8. \A r \in 1 .. m : r \in 1 .. c <=> r <= c
  BY <1>7
<1>9. \A r \in DOMAIN t : r \in T <=> r <= c
  BY <1>1, <1>7, <1>8
<1> QED
  BY <1>3, <1>5, <1>7, <1>9 DEF m

\* The rows of one label are together, with ascending values.
Together(t, a, lo, end) ==
  /\ lo \in Nat \ {0} /\ end \in Nat
  /\ \A r \in lo .. end - 1 : r \in DOMAIN t /\ t[r][2] \in Nat
  /\ \A r : r \in lo .. end - 1 <=> r \in DOMAIN t /\ t[r][1] = a
  /\ \A r, s \in lo .. end - 1 : r <= s => t[r][2] <= t[s][2]

\* The rows of a label are where the index of its numbers says.
LEMMA RowsTogether ==
  ASSUME NEW n \in Nat, 2 <= n, NEW t \in Seq([1 .. n -> Nat]), InOrder(t), NEW a \in Nat \ {0}
  PROVE  Together(t, a, UpTo(t, a - 1) + 1, UpTo(t, a) + 1)
<1>1. PICK m \in Nat : m = Len(t) /\ DOMAIN t = 1 .. m
  OBVIOUS
<1>2. a \in Int /\ a - 1 \in Int
  OBVIOUS
<1>3. PICK b \in 0 .. m : b = UpTo(t, a - 1) /\ \A r \in DOMAIN t : t[r][1] <= a - 1 <=> r <= b
  BY <1>1, <1>2, UpToIs
<1>4. PICK c \in 0 .. m : c = UpTo(t, a) /\ \A r \in DOMAIN t : t[r][1] <= a <=> r <= c
  BY <1>1, <1>2, UpToIs
<1>5. \A r \in DOMAIN t : t[r] \in [1 .. n -> Nat] /\ t[r][1] \in Nat /\ t[r][2] \in Nat
  <2>1. 1 \in 1 .. n /\ 2 \in 1 .. n
    OBVIOUS
  <2> QED
    BY <2>1
<1>6. \A r \in DOMAIN t : t[r][1] = a <=> r <= c /\ b < r
  <2> SUFFICES ASSUME NEW r \in DOMAIN t PROVE t[r][1] = a <=> r <= c /\ b < r
    OBVIOUS
  <2>1. r \in Nat /\ t[r][1] \in Nat /\ (t[r][1] <= a <=> r <= c) /\ (t[r][1] <= a - 1 <=> r <= b)
    BY <1>1, <1>3, <1>4, <1>5
  <2> QED
    BY <2>1, <1>3, <1>4
<1>12. PICK lo, end : lo = b + 1 /\ end = c + 1
  OBVIOUS
<1>7. \A r : r \in lo .. end - 1 <=> r \in DOMAIN t /\ t[r][1] = a
  BY <1>1, <1>6, <1>12
<1>8. \A r, s \in lo .. end - 1 : r <= s => t[r][2] <= t[s][2]
  <2> SUFFICES ASSUME NEW r \in lo .. end - 1, NEW s \in lo .. end - 1, r <= s
               PROVE  t[r][2] <= t[s][2]
    OBVIOUS
  <2>5. r \in DOMAIN t /\ t[r][1] = a
    BY <1>7, Zenon
  <2>6. s \in DOMAIN t /\ t[s][1] = a
    BY <1>7, Zenon
  <2>1. r \in DOMAIN t /\ s \in DOMAIN t /\ t[r][1] = t[s][1]
    BY <2>5, <2>6, Zenon
  <2>4. r \in Nat /\ s \in Nat
    BY <1>1, <2>1
  <2>2. CASE r = s
    BY <1>5, <2>1, <2>2
  <2>3. CASE r < s
    BY <2>1, <2>3, ColumnsAscend
  <2> QED
    BY <2>2, <2>3, <2>4
<1>9. lo \in Nat \ {0} /\ end \in Nat
  BY <1>12
<1>10. \A r \in lo .. end - 1 : r \in DOMAIN t /\ t[r][2] \in Nat
  BY <1>5, <1>7, Zenon
<1>11. Together(t, a, lo, end)
  BY <1>7, <1>8, <1>9, <1>10, Zenon DEF Together
<1> QED
  BY <1>3, <1>4, <1>11, <1>12, Zenon

\* The bisection from a row of the label finds the rows from there on whose
\* values lie in the interval.
LEMMA FoundRows ==
  ASSUME NEW k, NEW a, NEW lo, NEW end, Together(attrs[k].table, a, lo, end), NEW b \in lo .. end - 1,
         NEW q \in Int \X Int
  PROVE  /\ upper_bound(k, b, end, q[2]) \in b .. end
         /\ \A r \in b .. end - 1 : r < upper_bound(k, b, end, q[2]) <=> attrs[k].table[r][2] <= q[2]
         /\ \A r : r \in found(k, b, end, q) <=>
              r \in b .. end - 1 /\ q[1] <= attrs[k].table[r][2] /\ attrs[k].table[r][2] <= q[2]
<1>1. PICK v : v = [r \in lo .. end - 1 |-> attrs[k].table[r][2]]
  OBVIOUS
<1>2. /\ lo \in Nat /\ end \in Nat /\ b \in Nat /\ lo <= b /\ b <= end - 1
      /\ \A r \in lo .. end - 1 : v[r] \in Nat /\ attrs[k].table[r][2] = v[r]
      /\ \A r, s \in lo .. end - 1 : r <= s => v[r] <= v[s]
  BY <1>1 DEF Together
<1>3. PICK x \in Int, y \in Int : x = q[1] /\ y = q[2]
  OBVIOUS
<1>4. \A r \in b .. end - 1 : r \in lo .. end - 1
  BY <1>2
<1> DEFINE L == {r \in b .. end - 1 : v[r] >= x} \cup {end}
           U == {r \in b .. end - 1 : v[r] > y} \cup {end}
<1>5. L \in SUBSET Nat /\ L # {} /\ U \in SUBSET Nat /\ U # {}
  BY <1>2
<1>6. PICK c \in L : \A z \in L : c <= z
  BY <1>5, LeastNat
<1>7. PICK d \in U : \A z \in U : d <= z
  BY <1>5, LeastNat
<1>8. Least(L) = c /\ Least(U) = d
  BY <1>5, <1>6, <1>7, LeastIs
<1>9. {r \in b .. end - 1 : attrs[k].table[r][2] >= x} \cup {end} = L
  BY <1>2, <1>4
<1>10. {r \in b .. end - 1 : attrs[k].table[r][2] > y} \cup {end} = U
  BY <1>2, <1>4
<1>11. lower_bound(k, b, end, x) = c
  BY <1>8, <1>9, Zenon DEF lower_bound
<1>12. upper_bound(k, b, end, y) = d
  BY <1>8, <1>10, Zenon DEF upper_bound
<1>13. c \in b .. end /\ d \in b .. end
  BY <1>2
<1>14. \A r \in b .. end - 1 : c <= r <=> x <= v[r]
  <2> SUFFICES ASSUME NEW r \in b .. end - 1 PROVE c <= r <=> x <= v[r]
    OBVIOUS
  <2>1. r \in lo .. end - 1 /\ v[r] \in Nat /\ r \in Nat
    BY <1>2, <1>4
  <2>2. ASSUME x <= v[r] PROVE c <= r
    BY <1>6, <2>1, <2>2
  <2>3. ASSUME c <= r PROVE x <= v[r]
    <3>1. c \in b .. end - 1 /\ v[c] >= x
      BY <1>2, <2>1, <2>3
    <3>2. c \in lo .. end - 1 /\ v[c] \in Nat
      BY <1>2, <1>4, <3>1
    <3>3. v[c] <= v[r]
      BY <1>2, <2>1, <2>3, <3>2
    <3> QED
      BY <2>1, <3>1, <3>2, <3>3
  <2> QED
    BY <2>2, <2>3
<1>15. \A r \in b .. end - 1 : r < d <=> v[r] <= y
  <2> SUFFICES ASSUME NEW r \in b .. end - 1 PROVE r < d <=> v[r] <= y
    OBVIOUS
  <2>1. r \in lo .. end - 1 /\ v[r] \in Nat /\ r \in Nat
    BY <1>2, <1>4
  <2>2. ASSUME v[r] > y PROVE d <= r
    BY <1>7, <2>1, <2>2
  <2>3. ASSUME d <= r PROVE v[r] > y
    <3>1. d \in b .. end - 1 /\ v[d] > y
      BY <1>2, <2>1, <2>3
    <3>2. d \in lo .. end - 1 /\ v[d] \in Nat
      BY <1>2, <1>4, <3>1
    <3>3. v[d] <= v[r]
      BY <1>2, <2>1, <2>3, <3>2
    <3> QED
      BY <2>1, <3>1, <3>2, <3>3
  <2> QED
    BY <1>13, <2>1, <2>2, <2>3
<1> HIDE DEF L, U
<1>16. \A r : r \in c .. d - 1 <=> r \in b .. end - 1 /\ x <= v[r] /\ v[r] <= y
  <2>1. ASSUME NEW r \in c .. d - 1 PROVE r \in b .. end - 1 /\ x <= v[r] /\ v[r] <= y
    <3>1. r \in b .. end - 1 /\ c <= r /\ r < d
      BY <1>2, <1>13
    <3> QED
      BY <1>14, <1>15, <3>1
  <2>2. ASSUME NEW r \in b .. end - 1, x <= v[r], v[r] <= y PROVE r \in c .. d - 1
    <3>1. c <= r /\ r < d /\ r \in Int
      BY <1>14, <1>15, <2>2
    <3> QED
      BY <1>13, <3>1
  <2> QED
    BY <2>1, <2>2
<1>17. found(k, b, end, q) = c .. d - 1
  BY <1>3, <1>11, <1>12 DEF found
<1>18. \A r \in b .. end - 1 : attrs[k].table[r][2] = v[r]
  BY <1>2, <1>4
<1> QED
  BY <1>3, <1>12, <1>13, <1>15, <1>16, <1>17, <1>18

\* Where the search goes on after an interval.
Onwards(k, b, end, q) == IF found(k, b, end, q) = {} THEN b ELSE upper_bound(k, b, end, q[2]) - 1

\* Where the search for each interval starts.
Begins(k, a, qs, f) ==
  f = [i \in 1 .. Len(qs) |->
         IF i = 1 THEN attrs[k].primary[a][1]
         ELSE Onwards(k, f[i - 1], attrs[k].primary[a][2], qs[i - 1])]

\* A range query by the starts of its searches.
LEMMA QueryBegins ==
  ASSUME NEW k, NEW a, NEW qs
  PROVE  exact_range_query(k, a, qs) =
           [i \in DOMAIN qs |-> found(k, (CHOOSE f : Begins(k, a, qs, f))[i], attrs[k].primary[a][2], qs[i])]
BY Zenon DEF exact_range_query, Begins, Onwards

\* The search goes on at a row of the label.
LEMMA OnwardsInside ==
  ASSUME NEW k, NEW a, NEW lo, NEW end, Together(attrs[k].table, a, lo, end),
         NEW b \in lo .. end - 1, NEW q \in Int \X Int
  PROVE  Onwards(k, b, end, q) \in lo .. end - 1
<1>1. /\ upper_bound(k, b, end, q[2]) \in b .. end
      /\ \A r : r \in found(k, b, end, q) => r \in b .. end - 1 /\ attrs[k].table[r][2] <= q[2]
      /\ \A r \in b .. end - 1 : r < upper_bound(k, b, end, q[2]) <=> attrs[k].table[r][2] <= q[2]
  BY FoundRows
<1>2. PICK u \in b .. end : u = upper_bound(k, b, end, q[2])
  BY <1>1
<1>3. lo \in Nat /\ end \in Nat
  BY DEF Together
<1>4. CASE found(k, b, end, q) = {}
  BY <1>4 DEF Onwards
<1>5. CASE found(k, b, end, q) # {}
  <2>1. PICK r : r \in found(k, b, end, q)
    BY <1>5
  <2>2. r \in b .. end - 1 /\ r < u
    BY <1>1, <1>2, <2>1
  <2>3. u - 1 \in lo .. end - 1
    BY <1>3, <2>2
  <2> QED
    BY <1>2, <1>5, <2>3, Zenon DEF Onwards
<1> QED
  BY <1>4, <1>5

\* There is a start of the search for each interval.
LEMMA BeginsExist ==
  ASSUME NEW k, NEW a, NEW lo, NEW end, Together(attrs[k].table, a, lo, end), lo < end,
         attrs[k].primary[a] = <<lo, end>>, NEW qs \in Seq(Int \X Int)
  PROVE  \E f : Begins(k, a, qs, f)
<1> DEFINE X == lo .. end - 1
           n == Len(qs)
           G == [p \in (2 .. n) \X X |-> Onwards(k, p[2], end, qs[p[1] - 1])]
<1>1. lo \in Nat /\ end \in Nat /\ lo \in X /\ n \in Nat /\ DOMAIN qs = 1 .. n
  BY DEF Together
<1>2. \A b \in X : \A q \in Int \X Int : Onwards(k, b, end, q) \in X
  BY OnwardsInside
<1> HIDE DEF X
<1>3. ASSUME NEW i \in 2 .. n, NEW x \in X
      PROVE  G[<<i, x>>] = Onwards(k, x, end, qs[i - 1]) /\ G[<<i, x>>] \in X
  <2>1. i - 1 \in 1 .. n
    BY <1>1
  <2>2. qs[i - 1] \in Int \X Int
    BY <1>1, <2>1
  <2>3. G[<<i, x>>] = Onwards(k, x, end, qs[i - 1])
    OBVIOUS
  <2> QED
    BY <1>2, <2>2, <2>3
<1> HIDE DEF G, n
<1>9. StaysIn(G, n, X)
  BY <1>3 DEF StaysIn
<1>10. PICK f \in [1 .. n -> X] : Repeats(f, G, n, lo)
  BY <1>1, <1>9, RepeatedSteps
<1>4. \A i \in 1 .. n : f[i] = IF i = 1 THEN lo ELSE G[<<i, f[i - 1]>>]
  BY <1>10 DEF Repeats
<1>5. ASSUME NEW i \in 1 .. n
      PROVE  f[i] = IF i = 1 THEN lo ELSE Onwards(k, f[i - 1], end, qs[i - 1])
  <2>1. CASE i = 1
    BY <1>4, <2>1
  <2>2. CASE i # 1
    <3>1. i \in 2 .. n /\ i - 1 \in 1 .. n
      BY <1>1, <2>2
    <3>2. f[i - 1] \in X
      BY <3>1
    <3>3. f[i] = G[<<i, f[i - 1]>>]
      BY <1>4, <2>2
    <3> QED
      BY <1>3, <2>2, <3>1, <3>2, <3>3
  <2> QED
    BY <2>1, <2>2
<1>6. f = [i \in 1 .. n |-> IF i = 1 THEN lo ELSE Onwards(k, f[i - 1], end, qs[i - 1])]
  <2>1. f = [i \in 1 .. n |-> f[i]]
    OBVIOUS
  <2> QED
    BY <1>5, <2>1, Zenon
<1>7. attrs[k].primary[a][1] = lo /\ attrs[k].primary[a][2] = end
  OBVIOUS
<1>8. Begins(k, a, qs, f)
  BY <1>6, <1>7, Zenon DEF Begins, n
<1> QED
  BY <1>8

\* The first search starts with the rows of the label, every other one where the one before ended.
InTurn(k, lo, end, qs, f) ==
  /\ Len(qs) >= 1 => f[1] = lo
  /\ \A i \in 1 .. Len(qs) - 1 : f[i + 1] = Onwards(k, f[i], end, qs[i])

\* The starts step by step.
LEMMA BeginsSteps ==
  ASSUME NEW k, NEW a, NEW lo, NEW end, attrs[k].primary[a] = <<lo, end>>,
         NEW qs \in Seq(Int \X Int), NEW f, Begins(k, a, qs, f)
  PROVE  InTurn(k, lo, end, qs, f)
<1>1. PICK n \in Nat : n = Len(qs)
  OBVIOUS
<1>2. attrs[k].primary[a][1] = lo /\ attrs[k].primary[a][2] = end
  OBVIOUS
<1>3. f = [i \in 1 .. n |-> IF i = 1 THEN lo ELSE Onwards(k, f[i - 1], end, qs[i - 1])]
  BY <1>1, <1>2, Zenon DEF Begins
<1>4. ASSUME NEW i \in 1 .. n - 1 PROVE f[i + 1] = Onwards(k, f[i], end, qs[i])
  <2>1. i + 1 \in 1 .. n /\ i + 1 # 1 /\ i + 1 - 1 = i
    OBVIOUS
  <2>2. f[i + 1] = Onwards(k, f[i + 1 - 1], end, qs[i + 1 - 1])
    BY <1>3, <2>1
  <2> QED
    BY <2>1, <2>2
<1>5. n >= 1 => f[1] = lo
  <2>1. n >= 1 => 1 \in 1 .. n
    OBVIOUS
  <2> QED
    BY <1>3, <2>1
<1> QED
  BY <1>1, <1>4, <1>5 DEF InTurn

\* Every search starts at a row of the label, and no row that is passed has a
\* value that a later interval reaches.
LEMMA NonePassed ==
  ASSUME NEW k, NEW a, NEW lo, NEW end, Together(attrs[k].table, a, lo, end), lo < end,
         attrs[k].primary[a] = <<lo, end>>, NEW qs \in Seq(Int \X Int), Disjoint(qs),
         NEW f, Begins(k, a, qs, f)
  PROVE  \A i \in DOMAIN qs : /\ f[i] \in lo .. end - 1
                             /\ \A r \in lo .. f[i] - 1 : attrs[k].table[r][2] < qs[i][1]
<1> DEFINE v(r) == attrs[k].table[r][2]
           Passed(i, n) == /\ f[i] \in lo .. end - 1
                           /\ \A j \in i .. n : \A r \in lo .. f[i] - 1 : v(r) < qs[j][1]
<1>1. PICK n \in Nat : n = Len(qs) /\ DOMAIN qs = 1 .. n
  OBVIOUS
<1>2. /\ lo \in Nat /\ end \in Nat
      /\ \A r \in lo .. end - 1 : v(r) \in Nat
  BY DEF Together
<1>3. \A j \in 1 .. n : qs[j] \in Int \X Int /\ qs[j][1] \in Int /\ qs[j][2] \in Int
  BY <1>1
<1>4. \A i, j \in 1 .. n : i < j => qs[i][2] < qs[j][1]
  BY <1>1 DEF Disjoint
<1>5. /\ n >= 1 => f[1] = lo
      /\ \A i \in 1 .. n - 1 : f[i + 1] = Onwards(k, f[i], end, qs[i])
  <2>1. InTurn(k, lo, end, qs, f)
    BY BeginsSteps
  <2> QED
    BY <1>1, <2>1 DEF InTurn
<1> HIDE DEF v
<1>6. n >= 1 => Passed(1, n)
  BY <1>2, <1>5
<1>7. ASSUME NEW i \in 1 .. n - 1, Passed(i, n)
      PROVE  Passed(i + 1, n)
  <2>1. i + 1 \in 1 .. n /\ i \in 1 .. n /\ \A j \in i + 1 .. n : j \in 1 .. n /\ i < j /\ j \in i .. n
    OBVIOUS
  <2>2. PICK b \in lo .. end - 1 : b = f[i]
    BY <1>7
  <2>3. PICK q \in Int \X Int : q = qs[i]
    BY <1>3, <2>1
  <2>4. \A j \in i + 1 .. n : \A s \in lo .. b - 1 : v(s) < qs[j][1]
    BY <1>7, <2>1, <2>2
  <2>5. /\ upper_bound(k, b, end, q[2]) \in b .. end
        /\ \A s \in b .. end - 1 : s < upper_bound(k, b, end, q[2]) <=> v(s) <= q[2]
    BY FoundRows DEF v
  <2>6. PICK u \in b .. end : u = upper_bound(k, b, end, q[2])
    BY <2>5
  <2>7. PICK c \in lo .. end - 1 : c = Onwards(k, b, end, q)
    BY OnwardsInside
  <2>8. c = b \/ c = u - 1
    BY <2>6, <2>7, Zenon DEF Onwards
  <2>9. f[i + 1] = c
    BY <1>5, <2>2, <2>3, <2>7
  <2>10. ASSUME NEW j \in i + 1 .. n, NEW r \in lo .. c - 1
         PROVE  v(r) < qs[j][1]
    <3>1. CASE r \in lo .. b - 1
      BY <2>4, <3>1
    <3>2. CASE r \notin lo .. b - 1
      <4>1. r \in b .. end - 1 /\ r < u /\ r \in lo .. end - 1
        BY <1>2, <2>8, <3>2
      <4>6. v(r) \in Int /\ q[2] \in Int /\ qs[j][1] \in Int
        BY <1>2, <1>3, <2>1, <4>1
      <4>2. PICK x \in Int, y \in Int, z \in Int : x = v(r) /\ y = q[2] /\ z = qs[j][1]
        BY <4>6
      <4>3. x <= y
        BY <2>5, <2>6, <4>1, <4>2
      <4>4. y < z
        BY <1>4, <2>1, <2>3, <4>2
      <4>5. x < z
        BY <4>3, <4>4
      <4> QED
        BY <4>2, <4>5, Zenon
    <3> QED
      BY <3>1, <3>2
  <2> QED
    BY <2>9, <2>10
<1> HIDE DEF Passed
<1> DEFINE N == {m \in Nat : m + 1 <= n => Passed(m + 1, n)}
<1>8. 0 \in N
  BY <1>6
<1>9. ASSUME NEW m \in N PROVE m + 1 \in N
  <2>1. ASSUME m + 1 + 1 <= n PROVE Passed(m + 1 + 1, n)
    <3>1. m + 1 \in 1 .. n - 1 /\ m + 1 <= n
      BY <2>1
    <3>2. Passed(m + 1, n)
      BY <3>1
    <3> QED
      BY <1>7, <3>1, <3>2
  <2>2. m + 1 \in Nat
    OBVIOUS
  <2> QED
    BY <2>1, <2>2
<1>10. N = Nat
  <2>1. N \in SUBSET Nat
    OBVIOUS
  <2> HIDE DEF N
  <2> QED
    BY <1>8, <1>9, <2>1, AllNats
<1>11. ASSUME NEW i \in 1 .. n PROVE Passed(i, n)
  <2>1. i - 1 \in Nat /\ i - 1 + 1 = i /\ i <= n
    OBVIOUS
  <2>2. i - 1 \in N
    <3> HIDE DEF N
    <3> QED
      BY <1>10, <2>1
  <2> QED
    BY <2>1, <2>2
<1>12. \A i \in 1 .. n : i \in i .. n
  OBVIOUS
<1>13. \A i \in 1 .. n : f[i] \in lo .. end - 1 /\ \A r \in lo .. f[i] - 1 : v(r) < qs[i][1]
  BY <1>11, <1>12 DEF Passed
<1> QED
  BY <1>1, <1>13 DEF v

\* The bisection finds what a scan finds.
THEOREM RangesFound == Spec => []RangesExact
<1>1. StorageInv /\ ObjectsInv /\ ReadingInv => RangesExact
  <2> SUFFICES ASSUME ReadingInv, pc = "indexed", NEW k \in DOMAIN attrs, NEW a \in DOMAIN attrs[k].primary,
                      NEW qs \in Intervals, Disjoint(qs), attrs[k].primary[a][1] < attrs[k].primary[a][2]
               PROVE  exact_range_query(k, a, qs) =
                        [i \in DOMAIN qs |->
                           {r \in DOMAIN attrs[k].table : /\ attrs[k].table[r][1] = a
                                                          /\ attrs[k].table[r][2] \in qs[i][1] .. qs[i][2]}]
    BY DEF RangesExact
  <2>1. PICK t : t = attrs[k].table
    OBVIOUS
  <2>2. /\ t \in Seq([1 .. 3 -> Nat]) /\ InOrder(t)
        /\ a \in Nat \ {0}
        /\ attrs[k].primary[a] = <<UpTo(t, a - 1) + 1, UpTo(t, a) + 1>>
    BY <2>1 DEF ReadingInv, PropertiesHold
  <2>3. PICK lo, end : lo = UpTo(t, a - 1) + 1 /\ end = UpTo(t, a) + 1
    OBVIOUS
  <2>4. Together(t, a, lo, end)
    <3>1. 3 \in Nat /\ 2 <= 3
      OBVIOUS
    <3> QED
      BY <2>2, <2>3, <3>1, RowsTogether
  <2>5. attrs[k].primary[a] = <<lo, end>> /\ lo < end
    <3>1. attrs[k].primary[a] = <<lo, end>>
      BY <2>2, <2>3, Zenon
    <3> QED
      BY <3>1
  <2>6. qs \in Seq(Int \X Int)
    BY DatabasesAreLists
  <2>7. PICK f : f = CHOOSE g : Begins(k, a, qs, g)
    OBVIOUS
  <2>8. \E g : Begins(k, a, qs, g)
    BY <2>1, <2>4, <2>5, <2>6, BeginsExist
  <2>9. Begins(k, a, qs, f)
    BY <2>7, <2>8, Zenon
  <2>11. \A i \in DOMAIN qs : /\ f[i] \in lo .. end - 1
                              /\ \A r \in lo .. f[i] - 1 : t[r][2] < qs[i][1]
    BY <2>1, <2>4, <2>5, <2>6, <2>9, NonePassed
  <2>12. ASSUME NEW i \in DOMAIN qs
         PROVE  found(k, f[i], end, qs[i]) =
                  {r \in DOMAIN t : t[r][1] = a /\ t[r][2] \in qs[i][1] .. qs[i][2]}
    <3>1. f[i] \in lo .. end - 1 /\ qs[i] \in Int \X Int
      BY <2>6, <2>11
    <3>2. PICK b \in lo .. end - 1, q \in Int \X Int : b = f[i] /\ q = qs[i]
      BY <3>1
    <3>3. \A r : r \in found(k, b, end, q) <=> r \in b .. end - 1 /\ q[1] <= t[r][2] /\ t[r][2] <= q[2]
      BY <2>1, <2>4, <3>2, FoundRows
    <3>4. \A r : r \in lo .. end - 1 <=> r \in DOMAIN t /\ t[r][1] = a
      BY <2>4 DEF Together
    <3>5. lo \in Nat /\ end \in Nat /\ \A r \in lo .. end - 1 : t[r][2] \in Nat
      BY <2>4 DEF Together
    <3>6. \A r \in lo .. b - 1 : t[r][2] < q[1]
      BY <2>11, <3>2
    <3>7. ASSUME NEW r
          PROVE  r \in found(k, b, end, q) <=>
                   r \in DOMAIN t /\ t[r][1] = a /\ t[r][2] \in q[1] .. q[2]
      <4>1. CASE r \in lo .. end - 1
        <5>1. PICK x \in Nat, y \in Int, z \in Int : x = t[r][2] /\ y = q[1] /\ z = q[2]
          BY <3>5, <4>1
        <5>2. r \in b .. end - 1 \/ r \in lo .. b - 1
          BY <3>5, <4>1
        <5>3. r \in lo .. b - 1 => x < y
          BY <3>6, <5>1
        <5>4. r \in b .. end - 1 /\ y <= x /\ x <= z <=> x \in y .. z
          BY <5>2, <5>3
        <5>5. r \in found(k, b, end, q) <=> x \in y .. z
          BY <3>3, <5>1, <5>4, Zenon
        <5> QED
          BY <3>4, <4>1, <5>1, <5>5, Zenon
      <4>2. CASE r \notin lo .. end - 1
        <5>1. r \notin b .. end - 1
          BY <3>5, <4>2
        <5> QED
          BY <3>3, <3>4, <4>2, <5>1, Zenon
      <4> QED
        BY <4>1, <4>2
    <3>8. found(k, b, end, q) = {r \in DOMAIN t : t[r][1] = a /\ t[r][2] \in q[1] .. q[2]}
      BY <3>7, Zenon
    <3> QED
      BY <3>2, <3>8, Zenon
  <2>13. attrs[k].primary[a][2] = end
    BY <2>5
  <2>14. exact_range_query(k, a, qs) = [i \in DOMAIN qs |-> found(k, f[i], end, qs[i])]
    <3>1. exact_range_query(k, a, qs) =
            [i \in DOMAIN qs |-> found(k, (CHOOSE g : Begins(k, a, qs, g))[i], attrs[k].primary[a][2], qs[i])]
      BY QueryBegins
    <3> QED
      BY <2>7, <2>13, <3>1
  <2> QED
    BY <2>1, <2>12, <2>14, Zenon
<1> QED
  BY <1>1, ReadingIsInvariant, PTL

-----------------------------------------------------------------------------
(* Lookups by the label of the container.                                  *)

\* The rows of a table with label a are those that its primary index gives.
IsFound(t, a) ==
  IF a \in DOMAIN Blocks(t)
  THEN \A r : r \in Blocks(t)[a][1] .. Blocks(t)[a][2] <=> r \in DOMAIN t /\ t[r][1] = a
  ELSE \A r \in DOMAIN t : t[r][1] # a

\* The runs of rows of one label are found when the rows of each label are together.
LEMMA BlockIs ==
  ASSUME NEW n \in Nat, NEW t, DOMAIN t = 1 .. n, Len(t) = n, NEW a,
         NEW lo \in Nat, NEW end \in Nat, lo # 0, Together(t, a, lo, end)
  PROVE  IsFound(t, a)
<1>1. n = Len(t) /\ DOMAIN t = 1 .. n
  OBVIOUS
<1>3. \A r : r \in lo .. end - 1 <=> r \in DOMAIN t /\ t[r][1] = a
  BY DEF Together
<1>10. \A r \in lo .. end - 1 : r \in 1 .. n /\ r \in DOMAIN t /\ t[r][1] = a
  BY <1>1, <1>3, Zenon
<1>11. \A r \in 1 .. n : t[r][1] = a => r \in lo .. end - 1
  BY <1>1, <1>3, Zenon
<1> DEFINE begins == {i \in DOMAIN t : i = 1 \/ t[i][1] # t[i - 1][1]}
           until(i) == Least({j \in begins : j > i} \cup {Len(t) + 1}) - 1
           at(l) == Greatest({j \in begins : t[j][1] = l})
<1>4. Blocks(t) = [l \in {t[i][1] : i \in begins} |-> <<at(l), until(at(l))>>]
  BY Zenon DEF Blocks
<1>5. \A i : i \in begins <=> i \in 1 .. n /\ (i = 1 \/ t[i][1] # t[i - 1][1])
  BY <1>1
<1> HIDE DEF begins
<1>6. ASSUME NEW r \in DOMAIN t, t[r][1] = a
      PROVE  /\ lo \in begins /\ t[lo][1] = a /\ at(a) = lo /\ until(at(a)) = end - 1
  <2>1. lo \in 1 .. n /\ t[lo][1] = a /\ lo < end
    <3>1. r \in lo .. end - 1
      BY <1>3, <1>6
    <3>2. lo \in lo .. end - 1 /\ lo < end
      BY <3>1
    <3> QED
      BY <1>10, <3>2
  <2>2. lo \in begins
    <3>1. lo # 1 => lo - 1 \in 1 .. n /\ lo - 1 \notin lo .. end - 1
      BY <2>1
    <3>2. lo # 1 => t[lo - 1][1] # a
      BY <1>11, <3>1
    <3> QED
      BY <1>5, <2>1, <3>2
  <2>3. ASSUME NEW j \in begins, j > lo, j < end PROVE FALSE
    <3>3. j \in 1 .. n
      BY <1>5
    <3>1. j # 1 /\ j \in lo .. end - 1 /\ j - 1 \in lo .. end - 1
      BY <2>3, <3>3
    <3>2. t[j][1] = a /\ t[j - 1][1] = a
      BY <1>10, <3>1
    <3> QED
      BY <1>5, <3>1, <3>2
  <2>4. {j \in begins : t[j][1] = a} = {lo}
    <3>1. ASSUME NEW j \in begins, t[j][1] = a PROVE j = lo
      <4>1. j \in lo .. end - 1
        BY <1>5, <1>11, <3>1
      <4>2. j < end /\ (j > lo \/ j = lo)
        BY <4>1
      <4> QED
        BY <2>3, <4>2
    <3> QED
      BY <2>1, <2>2, <3>1
  <2>5. at(a) = lo
    <3>1. {lo} \in SUBSET Nat /\ lo \in {lo} /\ \A x \in {lo} : x <= lo
      BY <2>1
    <3> QED
      BY <2>4, <3>1, GreatestIs
  <2>6. PICK S : S = {j \in begins : j > lo} \cup {n + 1}
    OBVIOUS
  <2>7. end \in S
    <3>1. end - 1 \in 1 .. n /\ end - 1 \in lo .. end - 1
      <4>1. end - 1 \in lo .. end - 1
        BY <2>1
      <4> QED
        BY <1>10, <4>1
    <3>2. CASE end = n + 1
      BY <2>6, <3>2
    <3>3. CASE end # n + 1
      <4>1. end \in 1 .. n /\ end \notin lo .. end - 1 /\ end > lo
        BY <2>1, <3>1, <3>3
      <4>2. t[end][1] # a /\ t[end - 1][1] = a
        BY <1>10, <1>11, <3>1, <4>1
      <4>3. end \in begins
        BY <1>5, <4>1, <4>2
      <4> QED
        BY <2>6, <4>1, <4>3
    <3> QED
      BY <3>2, <3>3
  <2>8. S \in SUBSET Nat
    <3>1. \A j \in begins : j \in Nat
      BY <1>5
    <3> QED
      BY <2>6, <3>1
  <2>9. \A x \in S : end <= x
    <3>1. end <= n + 1
      <4>1. end - 1 \in lo .. end - 1
        BY <2>1
      <4>2. end - 1 \in 1 .. n
        BY <1>10, <4>1
      <4> QED
        BY <4>2
    <3>2. \A x \in begins : x > lo => end <= x
      <4>1. \A x \in begins : x \in Nat
        BY <1>5
      <4> QED
        BY <2>3, <4>1
    <3> QED
      BY <2>6, <3>1, <3>2
  <2>10. Least(S) = end
    BY <2>7, <2>8, <2>9, LeastIs
  <2>11. until(lo) = end - 1
    BY <1>1, <2>6, <2>10
  <2> HIDE DEF at, until
  <2> QED
    BY <2>1, <2>2, <2>5, <2>11
<1> HIDE DEF at, until
<1>7. \A i \in begins : i \in DOMAIN t
  BY <1>1, <1>5
<1>8. CASE \E r \in DOMAIN t : t[r][1] = a
  <2>1. lo \in begins /\ t[lo][1] = a /\ at(a) = lo /\ until(at(a)) = end - 1
    BY <1>6, <1>8
  <2>2. a \in DOMAIN Blocks(t) /\ Blocks(t)[a] = <<lo, end - 1>>
    BY <1>4, <2>1
  <2>3. Blocks(t)[a][1] = lo /\ Blocks(t)[a][2] = end - 1
    BY <2>2
  <2> QED
    BY <1>3, <2>2, <2>3, Zenon DEF IsFound
<1>9. CASE \A r \in DOMAIN t : t[r][1] # a
  <2>1. a \notin DOMAIN Blocks(t)
    BY <1>4, <1>7, <1>9
  <2> QED
    BY <1>9, <2>1, Zenon DEF IsFound
<1> QED
  BY <1>8, <1>9

\* The primary index of a containment table gives the rows of a label.
LEMMA BlocksFound ==
  ASSUME NEW t \in Seq([1 .. 5 -> Nat]), InOrder(t), NEW a \in Nat \ {0}
  PROVE  IsFound(t, a)
<1>1. PICK n \in Nat : n = Len(t) /\ DOMAIN t = 1 .. n
  OBVIOUS
<1>2. 5 \in Nat /\ 2 <= 5
  OBVIOUS
<1>3. PICK lo, end : Together(t, a, lo, end)
  BY <1>2, RowsTogether
<1>4. lo \in Nat /\ end \in Nat /\ lo # 0
  BY <1>3 DEF Together
<1> QED
  BY <1>1, <1>3, <1>4, BlockIs

\* The rows of a containment table about a container.
RowsAbout(t, g, x) == {i \in DOMAIN t : <<t[i][2], t[i][3]>> = <<g, x>>}

\* What is read for a container under a label: its rows in the order of the table.
ReadFrom(cs, l, q) ==
  /\ DOMAIN cs = DOMAIN q
  /\ \A j \in DOMAIN q : cs[j] = <<phis[l].table[q[j]][4], phis[l].table[q[j]][5], recordId(l, q[j])>>

\* What is read for a container are its rows.
LEMMA ContentRead ==
  ASSUME StorageInv, ReadingInv, pc = "indexed", NEW l \in DOMAIN phis, NEW g, NEW x
  PROVE  ReadFrom(resolveContent(g, x, l), l, Ascending(RowsAbout(phis[l].table, g, x)))
<1>1. PICK t : t = phis[l].table
  OBVIOUS
<1>2. phis[l].secondary = RowsByContainer(t)
  <2>1. l \in Range(minRecordToContaimentLabel)
    BY DEF StorageInv, FiledWhen
  <2> QED
    BY <1>1, <2>1 DEF ReadingInv, IndicesHold, IsIndexed
<1>3. PICK I, q : I = RowsAbout(t, g, x) /\ q = Ascending(I)
  OBVIOUS
<1>4. /\ <<g, x>> \in DOMAIN phis[l].secondary <=> I # {}
      /\ I # {} => phis[l].secondary[<<g, x>>] = q
  <2>1. DOMAIN RowsByContainer(t) = {<<t[i][2], t[i][3]>> : i \in DOMAIN t}
    BY DEF RowsByContainer
  <2>2. \A k \in DOMAIN RowsByContainer(t) :
          RowsByContainer(t)[k] = Ascending({i \in DOMAIN t : <<t[i][2], t[i][3]>> = k})
    BY DEF RowsByContainer
  <2>3. <<g, x>> \in DOMAIN RowsByContainer(t) <=> I # {}
    BY <1>3, <2>1, Zenon DEF RowsAbout
  <2>4. I # {} => RowsByContainer(t)[<<g, x>>] = q
    BY <1>3, <2>2, <2>3, Zenon DEF RowsAbout
  <2> QED
    BY <1>2, <2>3, <2>4
<1>5. CASE I = {}
  <2>1. resolveContent(g, x, l) = <<>>
    BY <1>4, <1>5 DEF resolveContent
  <2>2. Cardinality(I) = 0
    BY <1>5, FS_EmptySet
  <2>3. DOMAIN q = 1 .. 0
    BY <1>3, <2>2 DEF Ascending
  <2>4. DOMAIN q = {} /\ DOMAIN <<>> = {}
    BY <2>3
  <2> QED
    BY <1>3, <1>1, <2>1, <2>4 DEF ReadFrom
<1>6. CASE I # {}
  <2>1. resolveContent(g, x, l) = [i \in DOMAIN q |-> <<phis[l].table[q[i]][4], phis[l].table[q[i]][5],
                                                        recordId(l, q[i])>>]
    BY <1>4, <1>6, Zenon DEF resolveContent
  <2> QED
    BY <1>1, <1>3, <2>1 DEF ReadFrom
<1> QED
  BY <1>5, <1>6

\* What is read is what the rows have.
Has(cs, l, I) ==
  /\ \A j \in DOMAIN cs : \E i \in I :
       cs[j] = <<phis[l].table[i][4], phis[l].table[i][5], recordId(l, i)>>
  /\ \A i \in I : \E j \in DOMAIN cs :
       cs[j] = <<phis[l].table[i][4], phis[l].table[i][5], recordId(l, i)>>

\* The rows about a container are read, with their records.
LEMMA ContentHas ==
  ASSUME StorageInv, ReadingInv, pc = "indexed", NEW l \in DOMAIN phis, NEW g, NEW x,
         IsFiniteSet(DOMAIN phis[l].table), DOMAIN phis[l].table \in SUBSET Int
  PROVE  Has(resolveContent(g, x, l), l, RowsAbout(phis[l].table, g, x))
<1>1. PICK t, cs : t = phis[l].table /\ cs = resolveContent(g, x, l)
  OBVIOUS
<1>2. PICK I : I = RowsAbout(t, g, x)
  OBVIOUS
<1>3. I \in SUBSET Int /\ IsFiniteSet(I)
  <2>1. I \subseteq DOMAIN t
    BY <1>2 DEF RowsAbout
  <2> QED
    BY <1>1, <2>1, FS_Subset
<1>4. PICK q : q = Ascending(I)
  OBVIOUS
<1>5. (\A j \in DOMAIN q : q[j] \in I) /\ \A i \in I : \E j \in DOMAIN q : q[j] = i
  BY <1>3, <1>4, AscendingOrder
<1>6. ReadFrom(cs, l, q)
  BY <1>1, <1>2, <1>4, ContentRead
<1>7. DOMAIN cs = DOMAIN q /\ \A j \in DOMAIN q : cs[j] = <<t[q[j]][4], t[q[j]][5], recordId(l, q[j])>>
  BY <1>1, <1>6 DEF ReadFrom
<1> QED
  BY <1>1, <1>2, <1>5, <1>7 DEF Has

\* The label of a row is that of its container in the registry.
LEMMA ContainerLabels ==
  ASSUME StorageInv, ObjectsInv, ReadingInv, pc = "indexed", NEW l \in DOMAIN phis,
         NEW i \in DOMAIN phis[l].table
  PROVE  /\ phis[l].table[i][1] \in DOMAIN label_map
         /\ \E r \in Rows : nameIn(registry.table, r) = <<phis[l].table[i][2], phis[l].table[i][3]>>
         /\ \A r \in Rows : nameIn(registry.table, r) = <<phis[l].table[i][2], phis[l].table[i][3]>> =>
              label_map[registry.table[r].l0] = label_map[phis[l].table[i][1]]
<1>1. PICK t : t = phis[l].table /\ t = rowsUnder(l)
  BY DEF rowsUnder
<1>2. l \in PhiLabels
  BY DEF StorageInv, Lists
<1>3. Loaded = Places
  <2>1. graph = Len(db) + 1 /\ Shape
    BY DEF ObjectsInv, Progress, StorageInv
  <2>2. graph \notin DOMAIN db
    BY <2>1, PlacesAre
  <2> QED
    BY <2>1, <2>2, AllLoaded
<1>4. PICK p \in Places : \E j : IsContent(t[i], l, p, j)
  <2>1. PICK f : /\ Matches(f, DOMAIN t, Contents(l))
                 /\ \A k \in DOMAIN t : IsContent(t[k], l, f[k][1], f[k][2])
    BY <1>1, <1>2 DEF ReadingInv, ContentsHold
  <2>2. f[i] \in Contents(l) /\ IsContent(t[i], l, f[i][1], f[i][2])
    BY <1>1, <2>1 DEF Matches
  <2>3. PICK p \in Loaded : f[i] \in {<<p, m>> : m \in DOMAIN ContentsOf(p, l)}
    BY <2>2 DEF Contents
  <2>4. f[i][1] = p
    BY <2>3
  <2> QED
    BY <1>3, <2>2, <2>3, <2>4
<1>5. /\ t[i][1] \in DOMAIN label_map /\ label_map[t[i][1]] = firstLabel(objectAt(p))
      /\ <<t[i][2], t[i][3]>> = nameAt(p)
  BY <1>4 DEF IsContent
<1>6. /\ \A r \in Rows : \E q \in Places :
             nameIn(registry.table, r) = nameAt(q) /\ label_map[registry.table[r].l0] = firstLabel(objectAt(q))
      /\ \E r \in Rows : nameIn(registry.table, r) = nameAt(p)
  BY DEF ObjectsInv, RegistryHolds
<1>7. \A q \in Places : nameAt(q) = nameAt(p) => q = p
  BY NamesDiffer DEF StorageInv, ObjectsInv
<1>8. ASSUME NEW r \in Rows, nameIn(registry.table, r) = nameAt(p)
      PROVE  label_map[registry.table[r].l0] = firstLabel(objectAt(p))
  BY <1>6, <1>7, <1>8
<1> QED
  BY <1>1, <1>5, <1>6, <1>8

\* A containment edge as a query gives it.
EdgeOf(g, x, y, k, byContainer) == IF byContainer THEN <<g, x, y, k>> ELSE <<g, y, x, k>>

\* The edge of a row of a containment table.
EdgeAt(l, i, byContainer) ==
  EdgeOf(phis[l].table[i][2], phis[l].table[i][3], phis[l].table[i][5], recordId(l, i), byContainer)

\* The rows whose container has a label.
RowsLabelled(label, l) ==
  {i \in DOMAIN phis[l].table : label \in {NoLabel, label_map[phis[l].table[i][1]]}}

\* A lookup by the label of the container gives the rows with that label.
LEMMA QueryRows ==
  ASSUME StorageInv, ObjectsInv, ReadingInv, pc = "indexed", NEW l \in DOMAIN phis,
         NEW a \in DOMAIN label_map, NEW byContainer \in BOOLEAN
  PROVE  query_container_or_containment(label_map[a], l, byContainer) =
           {EdgeAt(l, i, byContainer) : i \in RowsLabelled(label_map[a], l)}
<1>1. PICK t : t = phis[l].table /\ t = rowsUnder(l)
  BY DEF rowsUnder
<1>2. t \in Seq([1 .. 5 -> Nat]) /\ InOrder(t) /\ phis[l].primary = Blocks(t)
  <2>1. l \in Range(minRecordToContaimentLabel) /\ l \in PhiLabels
    BY DEF StorageInv, FiledWhen, Lists
  <2> QED
    BY <1>1, <2>1 DEF ReadingInv, IndicesHold, IsIndexed, ContentsHold
<1>3. \A b \in DOMAIN label_map : label_map[a] = label_map[b] => a = b
  BY DEF ObjectsInv, BuilderHolds
<1>4. label_map[a] \in Range(label_map) /\ IndexOf(label_map, label_map[a]) = a
  BY <1>3 DEF Range, IndexOf
<1>5. a \in Nat \ {0}
  BY DEF StorageInv, Shape
<1>6. IsFound(t, a)
  BY <1>2, <1>5, BlocksFound
<1>7. \A i \in DOMAIN t : t[i][1] \in DOMAIN label_map
  BY <1>1, ContainerLabels
<1> DEFINE rows == IF label_map[a] = NoLabel THEN DOMAIN t
                   ELSE IF a \notin DOMAIN phis[l].primary THEN {}
                   ELSE phis[l].primary[a][1] .. phis[l].primary[a][2]
<1>8. \A i : i \in rows <=> i \in RowsLabelled(label_map[a], l)
  <2>1. CASE label_map[a] = NoLabel
    BY <1>1, <2>1 DEF RowsLabelled
  <2>2. CASE label_map[a] # NoLabel
    <3>1. \A i : i \in RowsLabelled(label_map[a], l) <=> i \in DOMAIN t /\ t[i][1] = a
      BY <1>1, <1>3, <1>7, <2>2 DEF RowsLabelled
    <3>2. CASE a \in DOMAIN Blocks(t)
      BY <1>2, <1>6, <2>2, <3>1, <3>2, Zenon DEF IsFound
    <3>3. CASE a \notin DOMAIN Blocks(t)
      BY <1>2, <1>6, <2>2, <3>1, <3>3, Zenon DEF IsFound
    <3> QED
      BY <3>2, <3>3
  <2> QED
    BY <2>1, <2>2
<1>9. query_container_or_containment(label_map[a], l, byContainer) =
        {IF byContainer THEN <<t[r][2], t[r][3], t[r][5], recordId(l, r)>>
         ELSE <<t[r][2], t[r][5], t[r][3], recordId(l, r)>> : r \in rows}
  BY <1>1, <1>4, Zenon DEF query_container_or_containment
<1> HIDE DEF rows
<1>10. rows = RowsLabelled(label_map[a], l)
  BY <1>8, Zenon
<1> QED
  BY <1>1, <1>9, <1>10, Zenon DEF EdgeOf, EdgeAt

\* A lookup by the label of the container gives the edges that a scan gives.
THEOREM LabelledContainers == Spec => []ContainmentByLabel
<1>1. StorageInv /\ ObjectsInv /\ ReadingInv => ContainmentByLabel
  <2> SUFFICES ASSUME StorageInv, ObjectsInv, ReadingInv, pc = "indexed",
                      NEW a \in DOMAIN label_map, NEW l \in DOMAIN phis, NEW byContainer \in BOOLEAN
               PROVE  query_container_or_containment(label_map[a], l, byContainer) =
                        UNION {LET row == registry.table[r]
                                   cs == resolveContent(row.graph, row.event, l)
                               IN {IF byContainer THEN <<row.graph, row.event, cs[i][2], cs[i][3]>>
                                   ELSE <<row.graph, cs[i][2], row.event, cs[i][3]>> : i \in DOMAIN cs} :
                                 r \in {q \in Rows : label_map[a] \in {NoLabel, label_map[registry.table[q].l0]}}}
    BY DEF ContainmentByLabel
  <2>1. PICK t : t = phis[l].table
    OBVIOUS
  <2> DEFINE edge(i) == EdgeAt(l, i, byContainer)
             G(r) == registry.table[r].graph
             X(r) == registry.table[r].event
             read(r) == resolveContent(G(r), X(r), l)
             E(r) == {EdgeOf(G(r), X(r), read(r)[i][2], read(r)[i][3], byContainer) : i \in DOMAIN read(r)}
             R == {q \in Rows : label_map[a] \in {NoLabel, label_map[registry.table[q].l0]}}
  <2>2. query_container_or_containment(label_map[a], l, byContainer) = {edge(i) : i \in RowsLabelled(label_map[a], l)}
    BY QueryRows
  <2>3. UNION {LET row == registry.table[r]
                   cs == resolveContent(row.graph, row.event, l)
               IN {IF byContainer THEN <<row.graph, row.event, cs[i][2], cs[i][3]>>
                   ELSE <<row.graph, cs[i][2], row.event, cs[i][3]>> : i \in DOMAIN cs} :
                 r \in {q \in Rows : label_map[a] \in {NoLabel, label_map[registry.table[q].l0]}}}
        = UNION {E(r) : r \in R}
    BY Zenon DEF EdgeOf
  <2>4. \A i : i \in RowsLabelled(label_map[a], l) <=>
               i \in DOMAIN t /\ label_map[a] \in {NoLabel, label_map[t[i][1]]}
    BY <2>1 DEF RowsLabelled
  <2>5. IsFiniteSet(DOMAIN t) /\ DOMAIN t \in SUBSET Int
    <3>1. IsSeq(t)
      BY <2>1 DEF StorageInv, Lists
    <3>2. PICK n \in Nat : DOMAIN t = 1 .. n
      BY <3>1 DEF IsSeq
    <3>3. IsFiniteSet(1 .. n) /\ 1 .. n \in SUBSET Int
      BY FS_Interval
    <3> QED
      BY <3>2, <3>3
  <2>6. ASSUME NEW i \in DOMAIN t
        PROVE  /\ \E r \in Rows : nameIn(registry.table, r) = <<t[i][2], t[i][3]>>
               /\ \A r \in Rows : nameIn(registry.table, r) = <<t[i][2], t[i][3]>> =>
                    label_map[registry.table[r].l0] = label_map[t[i][1]]
    BY <2>1, ContainerLabels
  <2>7. \A r : nameIn(registry.table, r) = <<G(r), X(r)>>
    BY DEF nameIn
  <2>8. ASSUME NEW r
        PROVE  /\ \A j \in DOMAIN read(r) : \E i \in RowsAbout(t, G(r), X(r)) :
                    read(r)[j] = <<t[i][4], t[i][5], recordId(l, i)>>
               /\ \A i \in RowsAbout(t, G(r), X(r)) : \E j \in DOMAIN read(r) :
                    read(r)[j] = <<t[i][4], t[i][5], recordId(l, i)>>
    <3>1. Has(resolveContent(G(r), X(r), l), l, RowsAbout(phis[l].table, G(r), X(r)))
      BY <2>1, <2>5, ContentHas
    <3> QED
      BY <2>1, <3>1 DEF Has
  <2> HIDE DEF read, G, X
  <2>9. ASSUME NEW r, NEW e
        PROVE  e \in E(r) <=> \E i \in RowsAbout(t, G(r), X(r)) : e = edge(i)
    <3>1. ASSUME NEW i \in RowsAbout(t, G(r), X(r))
          PROVE  edge(i) = EdgeOf(G(r), X(r), t[i][5], recordId(l, i), byContainer)
      <4>1. t[i][2] = G(r) /\ t[i][3] = X(r)
        BY DEF RowsAbout
      <4>2. edge(i) = EdgeOf(t[i][2], t[i][3], t[i][5], recordId(l, i), byContainer)
        BY <2>1 DEF EdgeAt
      <4> QED
        BY <4>1, <4>2, Zenon
    <3>2. \A u, v, w : <<u, v, w>>[2] = v /\ <<u, v, w>>[3] = w
      OBVIOUS
    <3>3. ASSUME NEW j \in DOMAIN read(r), e = EdgeOf(G(r), X(r), read(r)[j][2], read(r)[j][3], byContainer)
          PROVE  \E i \in RowsAbout(t, G(r), X(r)) : e = edge(i)
      <4>1. PICK i \in RowsAbout(t, G(r), X(r)) : read(r)[j] = <<t[i][4], t[i][5], recordId(l, i)>>
        BY <2>8
      <4>2. read(r)[j][2] = t[i][5] /\ read(r)[j][3] = recordId(l, i)
        BY <3>2, <4>1
      <4> HIDE DEF edge
      <4> QED
        BY <3>1, <3>3, <4>2
    <3>4. ASSUME NEW i \in RowsAbout(t, G(r), X(r)), e = edge(i) PROVE e \in E(r)
      <4>1. PICK j \in DOMAIN read(r) : read(r)[j] = <<t[i][4], t[i][5], recordId(l, i)>>
        BY <2>8
      <4>2. read(r)[j][2] = t[i][5] /\ read(r)[j][3] = recordId(l, i)
        BY <3>2, <4>1
      <4> HIDE DEF edge
      <4> QED
        BY <3>1, <3>4, <4>2
    <3> HIDE DEF edge
    <3> QED
      BY <3>3, <3>4
  <2> HIDE DEF edge, E
  <2>10. ASSUME NEW i \in RowsLabelled(label_map[a], l)
         PROVE  \E r \in R : edge(i) \in E(r)
    <3>1. i \in DOMAIN t /\ label_map[a] \in {NoLabel, label_map[t[i][1]]}
      BY <2>4
    <3>2. PICK r \in Rows : /\ nameIn(registry.table, r) = <<t[i][2], t[i][3]>>
                            /\ label_map[registry.table[r].l0] = label_map[t[i][1]]
      BY <2>6, <3>1
    <3>3. i \in RowsAbout(t, G(r), X(r))
      BY <2>7, <3>1, <3>2 DEF RowsAbout
    <3>4. r \in R
      BY <3>1, <3>2
    <3> QED
      BY <2>9, <3>3, <3>4
  <2>11. ASSUME NEW r \in R, NEW e \in E(r)
         PROVE  \E i \in RowsLabelled(label_map[a], l) : e = edge(i)
    <3>1. PICK i \in RowsAbout(t, G(r), X(r)) : e = edge(i)
      BY <2>9
    <3>2. i \in DOMAIN t /\ nameIn(registry.table, r) = <<t[i][2], t[i][3]>>
      BY <2>7 DEF RowsAbout
    <3>3. label_map[registry.table[r].l0] = label_map[t[i][1]]
      BY <2>6, <3>2
    <3>4. i \in RowsLabelled(label_map[a], l)
      BY <2>4, <3>2, <3>3
    <3> QED
      BY <3>1, <3>4
  <2> HIDE DEF R
  <2>12. {edge(i) : i \in RowsLabelled(label_map[a], l)} = UNION {E(r) : r \in R}
    BY <2>10, <2>11
  <2> QED
    BY <2>2, <2>3, <2>12, Zenon
<1> QED
  BY <1>1, ReadingIsInvariant, PTL

-----------------------------------------------------------------------------
(* What an object contains.                                                *)

\* A pair of numbers is a row of two columns.
LEMMA PairIsRow ==
  ASSUME NEW u \in Nat, NEW v \in Nat
  PROVE  <<u, v>> \in [1 .. 2 -> Nat]
OBVIOUS

\* A list of pairs is a table of two columns.
LEMMA PairsAreRows ==
  ASSUME NEW c \in Seq(Nat \X Nat)
  PROVE  c \in Seq([1 .. 2 -> Nat])
<1>1. \A d \in Nat \X Nat : d = <<d[1], d[2]>> /\ d[1] \in Nat /\ d[2] \in Nat
  OBVIOUS
<1>2. \A d \in Nat \X Nat : d \in [1 .. 2 -> Nat]
  BY <1>1, PairIsRow
<1> DEFINE A == Nat \X Nat
           B == [1 .. 2 -> Nat]
<1>3. c \in Seq(A) /\ \A d \in A : d \in B
  BY <1>2
<1> HIDE DEF A, B
<1>4. c \in Seq(B)
  BY <1>3
<1> QED
  BY <1>4 DEF B

\* The last two columns of the rows in a list of places.
PairsAt(t, q) == [j \in DOMAIN q |-> <<t[q[j]][4], t[q[j]][5]>>]

\* Rows that differ in the last two columns only.
SameContainer(t, I) ==
  \A i, j \in I : t[i][1] = t[j][1] /\ t[i][2] = t[j][2] /\ t[i][3] = t[j][3]

\* Rows about one container are in the order of their last two columns.
LEMMA PairsInOrder ==
  ASSUME NEW r \in [1 .. 5 -> Nat], NEW s \in [1 .. 5 -> Nat], ~Precedes(s, r),
         r[1] = s[1], r[2] = s[2], r[3] = s[3]
  PROVE  ~Precedes(<<s[4], s[5]>>, <<r[4], r[5]>>)
<1>1. DOMAIN s = 1 .. 5 /\ 4 \in 1 .. 5 /\ 5 \in 1 .. 5
      /\ (\A j \in 1 .. 4 - 1 : j = 1 \/ j = 2 \/ j = 3)
      /\ (\A j \in 1 .. 5 - 1 : j = 1 \/ j = 2 \/ j = 3 \/ j = 4)
  OBVIOUS
<1>2. ~(s[4] < r[4]) /\ ~(s[5] < r[5] /\ s[4] = r[4])
  <2>1. \A j \in 1 .. 4 - 1 : s[j] = r[j]
    BY <1>1
  <2>2. s[4] = r[4] => \A j \in 1 .. 5 - 1 : s[j] = r[j]
    BY <1>1
  <2> QED
    BY <1>1, <2>1, <2>2, Zenon DEF Precedes
<1>3. PICK a, b, c, d : a = s[4] /\ b = s[5] /\ c = r[4] /\ d = r[5]
  OBVIOUS
<1>4. DOMAIN <<a, b>> = 1 .. 2 /\ <<a, b>>[1] = a /\ <<a, b>>[2] = b /\ <<c, d>>[1] = c /\ <<c, d>>[2] = d
      /\ (\A i \in 1 .. 2 : i = 1 \/ i = 2) /\ 1 \in 1 .. 2 - 1
  OBVIOUS
<1>5. ~Precedes(<<a, b>>, <<c, d>>)
  BY <1>2, <1>3, <1>4, Zenon DEF Precedes
<1> QED
  BY <1>3, <1>5, Zenon

\* A table in order that has the rows of another one is that table sorted.
LEMMA SortedIs ==
  ASSUME NEW m \in Nat, NEW n \in Nat, NEW s \in Seq([1 .. m -> Nat]), Len(s) = n, InOrder(s),
         NEW C \in Seq([1 .. m -> Nat]), Len(C) = n,
         NEW d, Matches(d, 1 .. n, 1 .. n), Along(s, d, C, 1 .. n)
  PROVE  s = Sorted(C)
<1>1. /\ Sorted(C) \in Seq([1 .. m -> Nat]) /\ Len(Sorted(C)) = n /\ InOrder(Sorted(C))
      /\ Rearranges(Sorted(C), C)
  BY SortedPermutes
<1>2. DOMAIN C = 1 .. n
  OBVIOUS
<1>3. PICK u : u = Sorted(C)
  OBVIOUS
<1>4. PICK f : Matches(f, 1 .. n, 1 .. n) /\ \A k \in 1 .. n : u[k] = C[f[k]]
  BY <1>1, <1>2, <1>3, Zenon DEF Rearranges
<1>5. PICK g : Matches(g, 1 .. n, 1 .. n) /\ Back(g, f, 1 .. n)
  BY <1>4, MatchedBack, Zenon
<1>6. PICK e : e = [j \in 1 .. n |-> g[d[j]]]
  OBVIOUS
<1>7. Along(e, d, g, 1 .. n)
  BY <1>6, Zenon DEF Along
<1>8. Matches(e, 1 .. n, 1 .. n)
  BY <1>5, <1>7, MatchedThrough, Zenon
<1>9. \A j \in 1 .. n : d[j] \in 1 .. n /\ e[j] \in 1 .. n
  BY <1>8, Zenon DEF Matches
<1>10. Along(s, e, u, 1 .. n)
  <2> SUFFICES ASSUME NEW j \in 1 .. n PROVE s[j] = u[e[j]]
    BY DEF Along
  <2>1. f[e[j]] = d[j]
    BY <1>5, <1>7, <1>9, Zenon DEF Along, Back
  <2>2. u[e[j]] = C[f[e[j]]]
    BY <1>4, <1>9, Zenon
  <2>3. s[j] = C[d[j]]
    BY DEF Along
  <2> QED
    BY <2>1, <2>2, <2>3, Zenon
<1>11. s = u
  BY <1>1, <1>3, <1>8, <1>10, SameInOrder, Zenon
<1> QED
  BY <1>3, <1>11

\* The rows about one container are the sorted contents.
LEMMA SortedRows ==
  ASSUME NEW t \in Seq([1 .. 5 -> Nat]), InOrder(t), NEW I \in SUBSET DOMAIN t, SameContainer(t, I),
         NEW C \in Seq([1 .. 2 -> Nat]), NEW h, Matches(h, I, DOMAIN C),
         \A i \in I : <<t[i][4], t[i][5]>> = C[h[i]]
  PROVE  PairsAt(t, Ascending(I)) = Sorted(C)
<1>1. I \in SUBSET Int /\ IsFiniteSet(I)
  <2>1. PICK m \in Nat : DOMAIN t = 1 .. m
    OBVIOUS
  <2>2. IsFiniteSet(1 .. m)
    BY FS_Interval
  <2> QED
    BY <2>1, <2>2, FS_Subset
<1>2. PICK n \in Nat : n = Cardinality(I)
  BY <1>1, FS_CardinalityType
<1>3. PICK q : q = Ascending(I)
  OBVIOUS
<1>4. /\ DOMAIN q = 1 .. n
      /\ \A i \in 1 .. n : q[i] \in I
      /\ \A i, j \in 1 .. n : i < j => q[i] < q[j]
      /\ Matches(q, 1 .. n, I)
  <2>1. /\ DOMAIN q = 1 .. n
        /\ \A i \in 1 .. n : q[i] \in I
        /\ \A i, j \in 1 .. n : i < j <=> q[i] < q[j]
        /\ \A i, j \in 1 .. n : q[i] = q[j] => i = j
        /\ \A x \in I : \E i \in 1 .. n : q[i] = x
    <3>1. Ascending(I) \in [1 .. Cardinality(I) -> I] /\ DOMAIN Ascending(I) = 1 .. Cardinality(I)
      BY <1>1, AscendingOrder
    <3>2. \A i, j \in 1 .. Cardinality(I) : Ascending(I)[i] < Ascending(I)[j] <=> i < j
      BY <1>1, AscendingOrder
    <3>3. \A i, j \in 1 .. Cardinality(I) : Ascending(I)[i] = Ascending(I)[j] => i = j
      BY <1>1, AscendingOrder
    <3>4. \A x \in I : \E i \in 1 .. Cardinality(I) : Ascending(I)[i] = x
      BY <1>1, AscendingOrder
    <3> QED
      BY <1>2, <1>3, <3>1, <3>2, <3>3, <3>4
  <2> QED
    BY <2>1, Zenon DEF Matches
<1>5. PICK N \in Nat : N = Len(C) /\ DOMAIN C = 1 .. N
  OBVIOUS
<1>6. N = n
  <2>1. IsFiniteSet(DOMAIN C) /\ Cardinality(DOMAIN C) = Cardinality(I)
    BY <1>1, MatchedCount
  <2>2. Cardinality(1 .. N) = N
    BY FS_Interval
  <2> QED
    BY <1>2, <1>5, <2>1, <2>2, Zenon
<1>7. PICK d : d = [j \in 1 .. n |-> h[q[j]]]
  OBVIOUS
<1>8. Along(d, q, h, 1 .. n)
  BY <1>7, Zenon DEF Along
<1>9. Matches(d, 1 .. n, 1 .. n)
  <2>1. Matches(h, I, 1 .. n)
    BY <1>5, <1>6, Zenon
  <2> QED
    BY <1>4, <1>8, <2>1, MatchedThrough, Zenon
<1>10. PICK s : s = PairsAt(t, q)
  OBVIOUS
<1>11. s = [j \in 1 .. n |-> <<t[q[j]][4], t[q[j]][5]>>]
  BY <1>4, <1>10, Zenon DEF PairsAt
<1>12. \A j \in 1 .. n : s[j] = <<t[q[j]][4], t[q[j]][5]>>
  BY <1>11, Zenon
<1>13. s = [j \in 1 .. n |-> s[j]]
  BY <1>11, <1>12, Zenon
<1>14. Along(s, d, C, 1 .. n)
  BY <1>4, <1>8, <1>12, Zenon DEF Along
<1>15. s \in Seq([1 .. 2 -> Nat]) /\ Len(s) = n
  <2> DEFINE T == [1 .. 2 -> Nat]
  <2>1. C \in Seq(T) /\ DOMAIN C = 1 .. n
    BY <1>5, <1>6
  <2> HIDE DEF T
  <2>2. \A k \in 1 .. n : C[k] \in T
    BY <2>1
  <2>3. \A j \in 1 .. n : s[j] \in T
    BY <1>9, <1>14, <2>2, Zenon DEF Matches, Along
  <2>4. s \in [1 .. n -> T]
    BY <1>13, <2>3
  <2>5. s \in Seq(T) /\ Len(s) = n
    BY <2>4
  <2> QED
    BY <2>5 DEF T
<1>16. InOrder(s)
  <2>1. DOMAIN s = 1 .. n
    BY <1>13, Zenon
  <2> SUFFICES ASSUME NEW i \in 1 .. n, NEW j \in 1 .. n, i < j PROVE ~Precedes(s[j], s[i])
    BY <2>1, Zenon DEF InOrder
  <2>2. PICK a \in I, b \in I : a = q[i] /\ b = q[j] /\ a < b
    BY <1>4, Zenon
  <2>3. a \in DOMAIN t /\ b \in DOMAIN t
    OBVIOUS
  <2>4. ~Precedes(t[b], t[a])
    BY <2>2, <2>3 DEF InOrder
  <2>5. t[a] \in [1 .. 5 -> Nat] /\ t[b] \in [1 .. 5 -> Nat]
    BY <2>3
  <2>6. t[a][1] = t[b][1] /\ t[a][2] = t[b][2] /\ t[a][3] = t[b][3]
    BY Zenon DEF SameContainer
  <2>7. ~Precedes(<<t[b][4], t[b][5]>>, <<t[a][4], t[a][5]>>)
    BY <2>4, <2>5, <2>6, PairsInOrder, Zenon
  <2> QED
    BY <1>12, <2>2, <2>7, Zenon
<1>17. 2 \in Nat /\ Len(C) = n
  BY <1>5, <1>6
<1>18. s = Sorted(C)
  BY <1>9, <1>14, <1>15, <1>16, <1>17, SortedIs, Zenon
<1> QED
  BY <1>3, <1>10, <1>18

\* All objects are loaded when the tables are read.
LEMMA AllRead ==
  ASSUME StorageInv, ObjectsInv, pc = "indexed"
  PROVE  Loaded = Places
<1>1. graph = Len(db) + 1 /\ Shape
  BY DEF ObjectsInv, Progress, StorageInv
<1>2. graph \notin DOMAIN db
  BY <1>1, PlacesAre
<1> QED
  BY <1>1, <1>2, AllLoaded

\* What an object of the database contains is a table of two columns.
LEMMA ContentsAreRows ==
  ASSUME Shape, NEW p \in Places, NEW l
  PROVE  ContentsOf(p, l) \in Seq([1 .. 2 -> Nat])
<1>1. PICK g, i : g \in DOMAIN db /\ i \in DOMAIN db[g] /\ p = <<g, i>>
  BY PlacesAre
<1>2. objectAt(p) = db[g][i] /\ IsGraph(db[g])
  BY <1>1 DEF objectAt, Shape, IsDatabase
<1>3. \A m \in DOMAIN db[g][i].phi : db[g][i].phi[m] \in Seq(Nat \X Nat)
  <2>1. \A k \in DOMAIN db[g] : \A m \in DOMAIN db[g][k].phi : db[g][k].phi[m] \in Seq(Nat \X Nat)
    BY <1>2, GraphParts
  <2> QED
    BY <1>1, <2>1
<1>4. ContentsOf(p, l) \in Seq(Nat \X Nat)
  BY <1>2, <1>3 DEF ContentsOf
<1> QED
  BY <1>4, PairsAreRows

\* The rows of a containment table about an object are what it contains, in the
\* order of weight and identifier.
LEMMA ContentsSorted ==
  ASSUME StorageInv, ObjectsInv, ReadingInv, pc = "indexed", NEW p \in Places, NEW l \in DOMAIN phis
  PROVE  PairsAt(phis[l].table, Ascending(RowsAbout(phis[l].table, p[1], objectAt(p).id)))
           = Sorted(ContentsOf(p, l))
<1>1. PICK t : t = phis[l].table /\ t = rowsUnder(l)
  BY DEF rowsUnder
<1>2. l \in PhiLabels /\ l \in Range(minRecordToContaimentLabel)
  BY DEF StorageInv, Lists, FiledWhen
<1>3. t \in Seq([1 .. 5 -> Nat]) /\ InOrder(t)
  BY <1>1, <1>2 DEF ReadingInv, ContentsHold, IndicesHold, IsIndexed
<1>4. PICK f : /\ Matches(f, DOMAIN t, Contents(l))
               /\ \A k \in DOMAIN t : IsContent(t[k], l, f[k][1], f[k][2])
  BY <1>1, <1>2 DEF ReadingInv, ContentsHold
<1>5. PICK C \in Seq([1 .. 2 -> Nat]) : C = ContentsOf(p, l)
  BY ContentsAreRows DEF StorageInv
<1>6. \A q \in Places : nameAt(q) = nameAt(p) => q = p
  BY NamesDiffer DEF StorageInv, ObjectsInv
<1>7. PICK I : I = RowsAbout(t, p[1], objectAt(p).id)
  OBVIOUS
<1>8. \A k : k \in I <=> k \in DOMAIN t /\ <<t[k][2], t[k][3]>> = nameAt(p)
  BY <1>7 DEF RowsAbout, nameAt
<1>9. \A c \in Contents(l) : \E q \in Places : \E j \in DOMAIN ContentsOf(q, l) : c = <<q, j>>
  BY AllRead DEF Contents
<1>10. \A j \in DOMAIN C : <<p, j>> \in Contents(l)
  BY <1>5, AllRead DEF Contents
<1>11. ASSUME NEW k \in I
       PROVE  /\ f[k][2] \in DOMAIN C /\ f[k] = <<p, f[k][2]>> /\ <<t[k][4], t[k][5]>> = C[f[k][2]]
              /\ t[k][1] \in DOMAIN label_map /\ label_map[t[k][1]] = firstLabel(objectAt(p))
              /\ <<t[k][2], t[k][3]>> = nameAt(p)
  <2>1. f[k] \in Contents(l) /\ IsContent(t[k], l, f[k][1], f[k][2])
    BY <1>4, <1>8 DEF Matches
  <2>2. PICK q \in Places : \E j \in DOMAIN ContentsOf(q, l) : f[k] = <<q, j>>
    BY <1>9, <2>1
  <2>3. PICK j \in DOMAIN ContentsOf(q, l) : f[k] = <<q, j>>
    BY <2>2
  <2>4. f[k][1] = q /\ f[k][2] = j
    BY <2>3
  <2>5. /\ t[k][1] \in DOMAIN label_map /\ label_map[t[k][1]] = firstLabel(objectAt(q))
        /\ <<t[k][2], t[k][3]>> = nameAt(q)
        /\ <<t[k][4], t[k][5]>> = ContentsOf(q, l)[j]
    BY <2>1, <2>4 DEF IsContent
  <2>6. q = p
    BY <1>6, <1>8, <2>5
  <2> QED
    BY <1>5, <2>3, <2>4, <2>5, <2>6
<1>12. PICK h : h = [k \in I |-> f[k][2]]
  OBVIOUS
<1>13. Matches(h, I, DOMAIN C)
  <2>1. \A k \in I : h[k] \in DOMAIN C /\ f[k] = <<p, h[k]>>
    BY <1>11, <1>12
  <2>2. \A k, m \in I : h[k] = h[m] => k = m
    BY <1>4, <1>8, <2>1 DEF Matches
  <2>3. ASSUME NEW j \in DOMAIN C PROVE \E k \in I : h[k] = j
    <3>1. PICK k \in DOMAIN t : f[k] = <<p, j>>
      BY <1>4, <1>10 DEF Matches
    <3>2. f[k][1] = p /\ f[k][2] = j
      BY <3>1
    <3>3. <<t[k][2], t[k][3]>> = nameAt(p)
      BY <1>4, <3>2 DEF IsContent
    <3> QED
      BY <1>8, <1>12, <3>2, <3>3
  <2> QED
    BY <2>1, <2>2, <2>3 DEF Matches
<1>14. \A k \in I : <<t[k][4], t[k][5]>> = C[h[k]]
  BY <1>11, <1>12
<1>15. SameContainer(t, I)
  <2>1. \A a, b \in DOMAIN label_map : label_map[a] = label_map[b] => a = b
    BY DEF ObjectsInv, BuilderHolds
  <2>2. \A i, j \in I : t[i][1] = t[j][1]
    BY <1>11, <2>1
  <2>3. \A i, j \in I : t[i][2] = t[j][2] /\ t[i][3] = t[j][3]
    BY <1>11
  <2> QED
    BY <2>2, <2>3 DEF SameContainer
<1>16. I \in SUBSET DOMAIN t
  BY <1>8
<1>17. PairsAt(t, Ascending(I)) = Sorted(C)
  BY <1>3, <1>13, <1>14, <1>15, <1>16, SortedRows
<1> QED
  BY <1>1, <1>5, <1>7, <1>17

\* Under a label that has no table nothing is contained.
LEMMA NoContents ==
  ASSUME StorageInv, ObjectsInv, ReadingInv, pc = "indexed", NEW p \in Places,
         NEW l \in PhiLabels, l \notin DOMAIN phis
  PROVE  ContentsOf(p, l) = <<>>
<1>1. PICK C \in Seq([1 .. 2 -> Nat]) : C = ContentsOf(p, l)
  BY ContentsAreRows DEF StorageInv
<1>2. rowsUnder(l) = <<>>
  BY DEF rowsUnder
<1>3. DOMAIN rowsUnder(l) = {}
  BY <1>2
<1>4. Contents(l) = {}
  BY <1>3 DEF ReadingInv, ContentsHold, Matches
<1>5. \A j \in DOMAIN C : <<p, j>> \in Contents(l)
  BY <1>1, AllRead DEF Contents
<1>6. DOMAIN C = {}
  BY <1>4, <1>5
<1>7. C = <<>>
  BY <1>6
<1> QED
  BY <1>1, <1>7

\* Sorting nothing gives nothing.
LEMMA SortedEmpty == Sorted(<<>>) = <<>>
<1>1. 2 \in Nat /\ <<>> \in Seq([1 .. 2 -> Nat]) /\ Len(<<>>) = 0
  OBVIOUS
<1>2. PICK s \in Seq([1 .. 2 -> Nat]) : s = Sorted(<<>>) /\ Len(s) = 0
  BY <1>1, SortedPermutes
<1>3. s = <<>>
  BY <1>2
<1> QED
  BY <1>2, <1>3

\* Both ways of reading give what an object contains.
LEMMA ReadContents ==
  ASSUME StorageInv, ObjectsInv, ReadingInv, pc = "indexed", NEW p \in Places, NEW l \in PhiLabels
  PROVE  /\ LET cs == resolveContent(p[1], objectAt(p).id, l)
            IN [i \in DOMAIN cs |-> <<cs[i][1], cs[i][2]>>] = Sorted(ContentsOf(p, l))
         /\ ContainedIn(p[1], objectAt(p).id, l) = Ids(Sorted(ContentsOf(p, l)))
<1>1. PICK cs, g, x : cs = resolveContent(g, x, l) /\ g = p[1] /\ x = objectAt(p).id
  OBVIOUS
<1>2. PICK s : s = Sorted(ContentsOf(p, l))
  OBVIOUS
<1>3. CASE l \in DOMAIN phis
  <2>1. PICK t, q : t = phis[l].table /\ q = Ascending(RowsAbout(t, g, x))
    OBVIOUS
  <2>2. s = PairsAt(t, q)
    BY <1>1, <1>2, <1>3, <2>1, ContentsSorted
  <2>3. s = [j \in DOMAIN q |-> <<t[q[j]][4], t[q[j]][5]>>]
    BY <2>2, Zenon DEF PairsAt
  <2>4. ReadFrom(cs, l, q)
    BY <1>1, <1>3, <2>1, ContentRead
  <2>5. DOMAIN cs = DOMAIN q /\ \A j \in DOMAIN q : cs[j] = <<t[q[j]][4], t[q[j]][5], recordId(l, q[j])>>
    BY <2>1, <2>4 DEF ReadFrom
  <2>6. \A j \in DOMAIN q : cs[j][1] = t[q[j]][4] /\ cs[j][2] = t[q[j]][5]
    BY <2>5
  <2>7. [i \in DOMAIN cs |-> <<cs[i][1], cs[i][2]>>] = s
    BY <2>3, <2>5, <2>6, Zenon
  <2>8. ContainedIn(g, x, l) = [i \in DOMAIN q |-> t[q[i]][5]]
    BY <1>3, <2>1, Zenon DEF ContainedIn, RowsAbout
  <2>9. DOMAIN s = DOMAIN q /\ \A j \in DOMAIN q : s[j][2] = t[q[j]][5]
    BY <2>3
  <2>10. Ids(s) = [i \in DOMAIN q |-> t[q[i]][5]]
    BY <2>9 DEF Ids
  <2> QED
    BY <1>1, <1>2, <2>7, <2>8, <2>10
<1>4. CASE l \notin DOMAIN phis
  <2>1. s = <<>>
    BY <1>2, <1>4, NoContents, SortedEmpty
  <2>2. cs = <<>> /\ ContainedIn(g, x, l) = <<>>
    BY <1>1, <1>4 DEF resolveContent, ContainedIn
  <2>3. [i \in DOMAIN cs |-> <<cs[i][1], cs[i][2]>>] = <<>> /\ Ids(s) = <<>>
    BY <2>1, <2>2 DEF Ids
  <2> QED
    BY <1>1, <1>2, <2>1, <2>2, <2>3
<1> QED
  BY <1>3, <1>4

-----------------------------------------------------------------------------
(* Reading the objects back.                                               *)

\* An object as it is read, with its graph and without.
Made(g, x, e, pr, ph) == [graph |-> g, id |-> x, ell |-> e, props |-> pr, phi |-> ph]
MadeAlone(x, e, pr, ph) == [id |-> x, ell |-> e, props |-> pr, phi |-> ph]

\* An object of the database as it must be read back, part by part.
PropsAt(p) == [k \in Keys |-> IF k \in DOMAIN objectAt(p).props THEN <<objectAt(p).props[k]>> ELSE <<>>]
PhiAt(p) == [l \in PhiLabels |-> Sorted(ContentsOf(p, l))]
ReadAt(p) == AsLoaded(p[1], objectAt(p))

\* An object to read back is made of its parts,
LEMMA ReadAtIs ==
  ASSUME NEW p
  PROVE  ReadAt(p) = Made(p[1], objectAt(p).id, objectAt(p).ell, PropsAt(p), PhiAt(p))
<1>1. PICK o : o = objectAt(p)
  OBVIOUS
<1>2. \A l : Sorted(ContentsOf(p, l)) = IF l \in DOMAIN o.phi THEN Sorted(o.phi[l]) ELSE <<>>
  BY <1>1, SortedEmpty DEF ContentsOf
<1>3. PhiAt(p) = [l \in PhiLabels |-> IF l \in DOMAIN o.phi THEN Sorted(o.phi[l]) ELSE <<>>]
  BY <1>2, Zenon DEF PhiAt
<1>4. PropsAt(p) = [k \in Keys |-> IF k \in DOMAIN o.props THEN <<o.props[k]>> ELSE <<>>]
  BY <1>1, Zenon DEF PropsAt
<1>5. ReadAt(p) = [graph |-> p[1], id |-> o.id, ell |-> o.ell,
                   props |-> [k \in Keys |-> IF k \in DOMAIN o.props THEN <<o.props[k]>> ELSE <<>>],
                   phi |-> [l \in PhiLabels |-> IF l \in DOMAIN o.phi THEN Sorted(o.phi[l]) ELSE <<>>]]
  BY <1>1, Zenon DEF ReadAt, AsLoaded
<1> QED
  BY <1>1, <1>3, <1>4, <1>5, Zenon DEF Made

\* and has them.
LEMMA PartsOfRead ==
  ASSUME NEW p
  PROVE  /\ ReadAt(p).graph = p[1] /\ ReadAt(p).id = objectAt(p).id /\ ReadAt(p).ell = objectAt(p).ell
         /\ ReadAt(p).props = PropsAt(p) /\ ReadAt(p).phi = PhiAt(p)
<1>1. PICK g, x, e, pr, ph : /\ g = p[1] /\ x = objectAt(p).id /\ e = objectAt(p).ell
                             /\ pr = PropsAt(p) /\ ph = PhiAt(p)
  OBVIOUS
<1>2. ReadAt(p) = Made(g, x, e, pr, ph)
  BY <1>1, ReadAtIs
<1>3. /\ Made(g, x, e, pr, ph).graph = g /\ Made(g, x, e, pr, ph).id = x /\ Made(g, x, e, pr, ph).ell = e
      /\ Made(g, x, e, pr, ph).props = pr /\ Made(g, x, e, pr, ph).phi = ph
  BY DEF Made
<1> QED
  BY <1>1, <1>2, <1>3, Zenon

\* The objects to read back are those at the places of the database.
LEMMA ObjectsArePlaces ==
  /\ \A o \in Objects : \E p \in Places : o = ReadAt(p)
  /\ \A p \in Places : ReadAt(p) \in Objects
<1>1. \A o : o \in Objects <=> \E g \in DOMAIN db : \E i \in DOMAIN db[g] : o = AsLoaded(g, db[g][i])
  BY DEF Objects
<1>2. \A g \in DOMAIN db : \A i \in DOMAIN db[g] : <<g, i>> \in Places /\ ReadAt(<<g, i>>) = AsLoaded(g, db[g][i])
  BY DEF Places, objectAt, ReadAt
<1>3. \A p \in Places : \E g \in DOMAIN db : \E i \in DOMAIN db[g] : p = <<g, i>>
  BY DEF Places
<1>4. ASSUME NEW o \in Objects PROVE \E p \in Places : o = ReadAt(p)
  BY <1>1, <1>2
<1>5. ASSUME NEW p \in Places PROVE ReadAt(p) \in Objects
  <2>1. PICK g \in DOMAIN db : \E i \in DOMAIN db[g] : p = <<g, i>>
    BY <1>3
  <2>2. PICK i \in DOMAIN db[g] : p = <<g, i>>
    BY <2>1
  <2>3. ReadAt(p) = AsLoaded(g, db[g][i])
    BY <1>2, <2>2
  <2> QED
    BY <1>1, <2>3
<1> QED
  BY <1>4, <1>5

\* The row of an object in the registry, and what the tables have for it.
LEMMA RowAt ==
  ASSUME StorageInv, ObjectsInv, ReadingInv, pc = "indexed", NEW r \in Rows, NEW p \in Places,
         nameIn(registry.table, r) = nameAt(p)
  PROVE  /\ RowsOf(registry.table, p[1], objectAt(p).id) = {r}
         /\ Greatest(RowsOf(registry.table, p[1], objectAt(p).id)) = r
         /\ registry.table[r].graph = p[1] /\ registry.table[r].event = objectAt(p).id
         /\ labelsOf(p[1], objectAt(p).id) = objectAt(p).ell
         /\ [k \in Keys |-> resolve_record_if_exists(r, k)] = PropsAt(p)
<1>1. /\ \A q, s \in Rows : nameIn(registry.table, q) = nameIn(registry.table, s) => q = s
      /\ Rows = 1 .. Len(registry.table) /\ Len(registry.table) \in Nat
  BY DEF ObjectsInv, RegistryHolds
<1>2. registry.table[r].graph = p[1] /\ registry.table[r].event = objectAt(p).id
  BY DEF nameIn, nameAt
<1>3. RowsOf(registry.table, p[1], objectAt(p).id) = {r}
  <2>1. \A q \in Rows : registry.table[q].graph = p[1] /\ registry.table[q].event = objectAt(p).id => q = r
    BY <1>1, <1>2 DEF nameIn
  <2>2. Rows = DOMAIN registry.table
    BY DEF Rows
  <2> QED
    BY <1>2, <2>1, <2>2 DEF RowsOf
<1>4. Greatest({r}) = r
  <2>1. r \in Nat
    BY <1>1
  <2>2. {r} \in SUBSET Nat /\ r \in {r} /\ \A x \in {r} : x <= r
    BY <2>1
  <2> QED
    BY <2>2, GreatestIs
<1>5. labelsOf(p[1], objectAt(p).id) = objectAt(p).ell
  BY AllRead DEF ReadingInv, LabelsHold
<1>6. \A k \in Keys : resolve_record_if_exists(r, k) =
                        IF k \in DOMAIN objectAt(p).props THEN <<objectAt(p).props[k]>> ELSE <<>>
  BY DEF ReadingInv, PropertiesHold
<1>7. [k \in Keys |-> resolve_record_if_exists(r, k)] = PropsAt(p)
  BY <1>6, Zenon DEF PropsAt
<1> QED
  BY <1>2, <1>3, <1>4, <1>5, <1>7

\* The records of what an object contains are left out.
LEMMA MadeWithout ==
  ASSUME NEW g, NEW x, NEW e, NEW pr, NEW ph
  PROVE  WithoutRecords(Made(g, x, e, pr, ph)) =
           Made(g, x, e, pr, [l \in PhiLabels |-> [i \in DOMAIN ph[l] |-> <<ph[l][i][1], ph[l][i][2]>>]])
<1>1. PICK o : o = Made(g, x, e, pr, ph)
  OBVIOUS
<1>2. PICK w : w = [l \in PhiLabels |-> [i \in DOMAIN ph[l] |-> <<ph[l][i][1], ph[l][i][2]>>]]
  OBVIOUS
<1>3. o.phi = ph
  BY <1>1 DEF Made
<1>4. WithoutRecords(o) = [o EXCEPT !.phi = w]
  BY <1>2, <1>3, Zenon DEF WithoutRecords
<1>5. [o EXCEPT !.phi = w] = Made(g, x, e, pr, w)
  BY <1>1 DEF Made
<1> QED
  BY <1>1, <1>2, <1>4, <1>5, Zenon

\* The iteration over the registry gives the object of each row.
LEMMA RowRead ==
  ASSUME StorageInv, ObjectsInv, ReadingInv, pc = "indexed", NEW r \in Rows, NEW p \in Places,
         nameIn(registry.table, r) = nameAt(p)
  PROVE  WithoutRecords(iterateOverObjects[r]) = ReadAt(p)
<1>1. PICK g, x : g = p[1] /\ x = objectAt(p).id
  OBVIOUS
<1>2. /\ registry.table[r].graph = g /\ registry.table[r].event = x
      /\ labelsOf(g, x) = objectAt(p).ell
      /\ [k \in Keys |-> resolve_record_if_exists(r, k)] = PropsAt(p)
  BY <1>1, RowAt
<1>3. PICK ph : ph = [l \in PhiLabels |-> resolveContent(g, x, l)]
  OBVIOUS
<1>4. iterateOverObjects[r] = Made(g, x, objectAt(p).ell, PropsAt(p), ph)
  <2>1. iterateOverObjects[r] =
          [graph |-> g, id |-> x, ell |-> labelsOf(g, x),
           props |-> [k \in Keys |-> resolve_record_if_exists(r, k)],
           phi |-> [l \in PhiLabels |-> resolveContent(g, x, l)]]
    BY <1>2, Zenon DEF iterateOverObjects, Rows
  <2> QED
    BY <1>2, <1>3, <2>1, Zenon DEF Made
<1>5. WithoutRecords(iterateOverObjects[r]) =
        Made(g, x, objectAt(p).ell, PropsAt(p),
             [l \in PhiLabels |-> [i \in DOMAIN ph[l] |-> <<ph[l][i][1], ph[l][i][2]>>]])
  BY <1>4, MadeWithout
<1>6. \A l \in PhiLabels : [i \in DOMAIN ph[l] |-> <<ph[l][i][1], ph[l][i][2]>>] = Sorted(ContentsOf(p, l))
  <2> SUFFICES ASSUME NEW l \in PhiLabels
               PROVE  [i \in DOMAIN ph[l] |-> <<ph[l][i][1], ph[l][i][2]>>] = Sorted(ContentsOf(p, l))
    OBVIOUS
  <2>1. PICK cs : cs = resolveContent(g, x, l)
    OBVIOUS
  <2>2. ph[l] = cs
    BY <1>3, <2>1
  <2>3. [i \in DOMAIN cs |-> <<cs[i][1], cs[i][2]>>] = Sorted(ContentsOf(p, l))
    BY <1>1, <2>1, ReadContents
  <2> QED
    BY <2>2, <2>3
<1>7. [l \in PhiLabels |-> [i \in DOMAIN ph[l] |-> <<ph[l][i][1], ph[l][i][2]>>]] = PhiAt(p)
  BY <1>6, Zenon DEF PhiAt
<1> QED
  BY <1>1, <1>5, <1>7, ReadAtIs

\* Every object is read once, and nothing else is.
LEMMA AllObjectsRead ==
  ASSUME StorageInv, ObjectsInv, ReadingInv, pc = "indexed"
  PROVE  /\ {WithoutRecords(iterateOverObjects[r]) : r \in DOMAIN iterateOverObjects} = Objects
         /\ Len(iterateOverObjects) = Cardinality(Objects)
<1>1. PICK n \in Nat : n = Len(registry.table) /\ Rows = 1 .. n
  BY DEF ObjectsInv, RegistryHolds
<1>2. PICK it : it = iterateOverObjects
  OBVIOUS
<1>3. it = [r \in 1 .. n |-> it[r]]
  <2> DEFINE at(r) == LET g == registry.table[r].graph
                          x == registry.table[r].event
                      IN [graph |-> g, id |-> x,
                          ell |-> labelsOf(g, x),
                          props |-> [k \in Keys |-> resolve_record_if_exists(r, k)],
                          phi |-> [l \in PhiLabels |-> resolveContent(g, x, l)]]
  <2>1. it = [r \in DOMAIN registry.table |-> at(r)]
    BY <1>2, Zenon DEF iterateOverObjects
  <2>2. DOMAIN registry.table = 1 .. n
    BY <1>1 DEF Rows
  <2> HIDE DEF at
  <2> QED
    BY <2>1, <2>2
<1>4. Len(it) = n /\ DOMAIN it = 1 .. n
  BY <1>3, FunctionIsList
<1>5. /\ \A r \in Rows : \E p \in Places : nameIn(registry.table, r) = nameAt(p)
      /\ \A p \in Places : \E r \in Rows : nameIn(registry.table, r) = nameAt(p)
      /\ \A r, s \in Rows : nameIn(registry.table, r) = nameIn(registry.table, s) => r = s
  BY DEF ObjectsInv, RegistryHolds
<1>6. PICK h : h = [r \in 1 .. n |-> WithoutRecords(it[r])]
  OBVIOUS
<1>7. \A r \in 1 .. n : \A p \in Places : nameIn(registry.table, r) = nameAt(p) => h[r] = ReadAt(p)
  BY <1>1, <1>2, <1>6, RowRead
<1>8. \A r \in 1 .. n : h[r] \in Objects
  BY <1>1, <1>5, <1>7, ObjectsArePlaces
<1>9. \A o \in Objects : \E r \in 1 .. n : h[r] = o
  BY <1>1, <1>5, <1>7, ObjectsArePlaces
<1>10. \A r, s \in 1 .. n : h[r] = h[s] => r = s
  <2> SUFFICES ASSUME NEW r \in 1 .. n, NEW s \in 1 .. n, h[r] = h[s] PROVE r = s
    OBVIOUS
  <2>1. PICK p \in Places, q \in Places : /\ nameIn(registry.table, r) = nameAt(p)
                                          /\ nameIn(registry.table, s) = nameAt(q)
    BY <1>1, <1>5
  <2>2. ReadAt(p) = ReadAt(q)
    BY <1>7, <2>1
  <2>3. p[1] = q[1] /\ objectAt(p).id = objectAt(q).id
    <3>1. ReadAt(p).graph = p[1] /\ ReadAt(p).id = objectAt(p).id
      BY PartsOfRead, Zenon
    <3>2. ReadAt(q).graph = q[1] /\ ReadAt(q).id = objectAt(q).id
      BY PartsOfRead, Zenon
    <3> QED
      BY <2>2, <3>1, <3>2, Zenon
  <2>4. nameAt(p) = nameAt(q)
    BY <2>3 DEF nameAt
  <2> QED
    BY <1>1, <1>5, <2>1, <2>4
<1>11. Matches(h, 1 .. n, Objects)
  BY <1>8, <1>9, <1>10, Zenon DEF Matches
<1>12. Cardinality(Objects) = n
  <2>1. IsFiniteSet(1 .. n) /\ Cardinality(1 .. n) = n
    BY FS_Interval
  <2> QED
    BY <1>11, <2>1, MatchedCount
<1>13. {WithoutRecords(it[r]) : r \in DOMAIN it} = Objects
  BY <1>4, <1>6, <1>8, <1>9
<1> QED
  BY <1>2, <1>4, <1>12, <1>13

\* The number of an object is among those of the objects of its graph.
LEMMA NumberBound ==
  ASSUME StorageInv, ObjectsInv, ReadingInv, pc = "indexed", NEW p \in Places
  PROVE  p[1] \in DOMAIN db /\ objectAt(p).id \in 1 .. nodesInGraph(p[1])
<1>1. PICK g, j : g \in DOMAIN db /\ j \in DOMAIN db[g] /\ p = <<g, j>>
  BY PlacesAre DEF StorageInv
<1>2. PICK n \in Nat : n = Len(db[g]) /\ DOMAIN db[g] = 1 .. n
  BY <1>1, PlacesAre DEF StorageInv
<1>3. \A i \in DOMAIN db[g] : db[g][i].id \in 1 .. n
  <2> SUFFICES ASSUME NEW i \in DOMAIN db[g] PROVE db[g][i].id \in 1 .. n
    OBVIOUS
  <2>1. PICK q : q = <<g, i>>
    OBVIOUS
  <2>2. q \in Places /\ q[1] = g /\ objectAt(q).id = db[g][i].id
    BY <1>1, <2>1 DEF Places, objectAt
  <2>3. g \in DOMAIN traces /\ db[g][i].id \in DOMAIN traces[g]
    BY <2>2 DEF ObjectsInv, RegistryHolds
  <2>4. DOMAIN traces[g] = DOMAIN db[g]
    BY <2>3 DEF ReadingInv, NumbersHold
  <2> QED
    BY <1>2, <2>3, <2>4
<1>4. PICK x : x = objectAt(p).id /\ x = db[g][j].id
  BY <1>1 DEF objectAt
<1>5. x \in 1 .. n
  BY <1>1, <1>3, <1>4
<1>6. CASE path = "parse"
  <2>1. PICK T : T = {db[g][i].id : i \in DOMAIN db[g]} \cup {1}
    OBVIOUS
  <2>2. T \in SUBSET (0 .. n) /\ T \in SUBSET Nat /\ x \in T
    BY <1>1, <1>3, <1>4, <1>5, <2>1
  <2>3. PICK m \in T : \A y \in T : y <= m
    BY <2>2, GreatestNat
  <2>4. Greatest(T) = m
    BY <2>2, <2>3, GreatestIs
  <2>5. nodesInGraph(g) = m
    BY <1>6, <2>1, <2>4 DEF nodesInGraph
  <2> QED
    BY <1>1, <1>4, <1>5, <2>2, <2>3, <2>5
<1>7. CASE path # "parse"
  <2>1. nodesInGraph(g) = n + 1
    BY <1>2, <1>7 DEF nodesInGraph
  <2> QED
    BY <1>1, <1>4, <1>5, <2>1
<1> QED
  BY <1>6, <1>7

\* What the scan writes out for an object.
LEMMA WrittenAt ==
  ASSUME StorageInv, ObjectsInv, ReadingInv, pc = "indexed", NEW p \in Places
  PROVE  asObjects[p[1]][objectAt(p).id] =
           MadeAlone(objectAt(p).id, objectAt(p).ell, PropsAt(p), [l \in PhiLabels |-> Ids(PhiAt(p)[l])])
<1>1. PICK g, x : g = p[1] /\ x = objectAt(p).id
  OBVIOUS
<1>2. g \in DOMAIN db /\ x \in 1 .. nodesInGraph(g)
  BY <1>1, NumberBound
<1>3. PICK r \in Rows : nameIn(registry.table, r) = nameAt(p)
  BY DEF ObjectsInv, RegistryHolds
<1>4. /\ RowsOf(registry.table, g, x) = {r}
      /\ Greatest(RowsOf(registry.table, g, x)) = r
      /\ labelsOf(g, x) = objectAt(p).ell
      /\ [k \in Keys |-> resolve_record_if_exists(r, k)] = PropsAt(p)
  BY <1>1, <1>3, RowAt
<1>5. \A l \in PhiLabels : ContainedIn(g, x, l) = Ids(PhiAt(p)[l])
  <2>1. \A l \in PhiLabels : PhiAt(p)[l] = Sorted(ContentsOf(p, l))
    BY DEF PhiAt
  <2>2. \A l \in PhiLabels : ContainedIn(g, x, l) = Ids(Sorted(ContentsOf(p, l)))
    BY <1>1, ReadContents
  <2> QED
    BY <2>1, <2>2
<1>6. PICK ph : ph = [l \in PhiLabels |-> Ids(PhiAt(p)[l])] /\ ph = [l \in PhiLabels |-> ContainedIn(g, x, l)]
  BY <1>5
<1>7. asObjects[g][x] = [id |-> x, ell |-> labelsOf(g, x),
                         props |-> [k \in Keys |-> resolve_record_if_exists(Greatest(RowsOf(registry.table, g, x)), k)],
                         phi |-> [l \in PhiLabels |-> ContainedIn(g, x, l)]]
  <2>1. RowsOf(registry.table, g, x) # {}
    BY <1>4
  <2> QED
    BY <1>2, <2>1, Zenon DEF asObjects
<1>8. asObjects[g][x] = MadeAlone(x, objectAt(p).ell, PropsAt(p), ph)
  BY <1>4, <1>6, <1>7, Zenon DEF MadeAlone
<1> QED
  BY <1>1, <1>6, <1>8

\* The nodes that are drawn for a graph are its objects.
LEMMA DrawnNodes ==
  ASSUME StorageInv, ObjectsInv, ReadingInv, pc = "indexed", NEW g \in DOMAIN db
  PROVE  DOMAIN asGraphs[g].nodes = {o.id : o \in {u \in Objects : u.graph = g}}
<1>1. DOMAIN asGraphs[g].nodes =
        {registry.table[r].event : r \in {q \in DOMAIN registry.table : registry.table[q].graph = g}}
  BY DEF asGraphs
<1>2. ASSUME NEW r \in DOMAIN registry.table, registry.table[r].graph = g
      PROVE  \E o \in Objects : o.graph = g /\ o.id = registry.table[r].event
  <2>1. PICK p \in Places : nameIn(registry.table, r) = nameAt(p)
    BY <1>2 DEF ObjectsInv, RegistryHolds, Rows
  <2>2. p[1] = g /\ objectAt(p).id = registry.table[r].event
    BY <1>2, <2>1 DEF nameIn, nameAt
  <2>3. ReadAt(p) \in Objects /\ ReadAt(p).graph = g /\ ReadAt(p).id = registry.table[r].event
    BY <2>2, ObjectsArePlaces, PartsOfRead
  <2> QED
    BY <2>3
<1>3. ASSUME NEW o \in Objects, o.graph = g
      PROVE  \E r \in DOMAIN registry.table : registry.table[r].graph = g /\ registry.table[r].event = o.id
  <2>1. PICK p \in Places : o = ReadAt(p)
    BY ObjectsArePlaces
  <2>2. p[1] = g /\ objectAt(p).id = o.id
    BY <1>3, <2>1, PartsOfRead
  <2>3. PICK r \in Rows : nameIn(registry.table, r) = nameAt(p)
    BY DEF ObjectsInv, RegistryHolds
  <2> QED
    BY <2>2, <2>3 DEF nameIn, nameAt, Rows
<1> QED
  BY <1>1, <1>2, <1>3

\* The node that is drawn for an object has its properties.
LEMMA DrawnAt ==
  ASSUME StorageInv, ObjectsInv, ReadingInv, pc = "indexed", NEW p \in Places
  PROVE  asGraphs[p[1]].nodes[objectAt(p).id] = PropsAt(p)
<1>1. PICK g, x : g = p[1] /\ x = objectAt(p).id
  OBVIOUS
<1>2. g \in DOMAIN db
  BY <1>1, NumberBound
<1>3. PICK r \in Rows : nameIn(registry.table, r) = nameAt(p)
  BY DEF ObjectsInv, RegistryHolds
<1>4. /\ Greatest(RowsOf(registry.table, g, x)) = r
      /\ registry.table[r].graph = g /\ registry.table[r].event = x
      /\ [k \in Keys |-> resolve_record_if_exists(r, k)] = PropsAt(p)
  BY <1>1, <1>3, RowAt
<1>5. PICK X : X = {registry.table[s].event : s \in {q \in DOMAIN registry.table :
                                                        registry.table[q].graph = g}}
  OBVIOUS
<1>6. x \in X
  BY <1>3, <1>4, <1>5 DEF Rows
<1>7. asGraphs[g].nodes =
        [y \in X |-> [k \in Keys |-> resolve_record_if_exists(Greatest(RowsOf(registry.table, g, y)), k)]]
  BY <1>2, <1>5 DEF asGraphs
<1>8. asGraphs[g].nodes[x] =
        [k \in Keys |-> resolve_record_if_exists(Greatest(RowsOf(registry.table, g, x)), k)]
  BY <1>6, <1>7, Zenon
<1> QED
  BY <1>1, <1>4, <1>8, Zenon

\* An edge of a drawing.
DrawnEdge(l, i, x, y) == [label |-> l, row |-> i, src |-> x, dst |-> y]

\* The edges that are drawn for a graph are the rows of the containment tables about it.
LEMMA DrawnRows ==
  ASSUME NEW g \in DOMAIN db, NEW l \in DOMAIN phis, NEW x, NEW y, NEW t, t = phis[l].table
  PROVE  \A e : e \in asGraphs[g].edges /\ e.label = l /\ e.src = x /\ e.dst = y <=>
                  \E i \in DOMAIN t : t[i][2] = g /\ t[i][3] = x /\ t[i][5] = y /\ e = DrawnEdge(l, i, x, y)
<1>1. \A e : e \in asGraphs[g].edges <=>
               \E m \in DOMAIN phis : \E i \in DOMAIN phis[m].table :
                 phis[m].table[i][2] = g /\ e = DrawnEdge(m, i, phis[m].table[i][3], phis[m].table[i][5])
  BY DEF asGraphs, DrawnEdge
<1>2. \A m, i, u, v : /\ DrawnEdge(m, i, u, v).label = m /\ DrawnEdge(m, i, u, v).src = u
                      /\ DrawnEdge(m, i, u, v).dst = v
  BY DEF DrawnEdge
<1>3. ASSUME NEW e, e \in asGraphs[g].edges, e.label = l, e.src = x, e.dst = y
      PROVE  \E i \in DOMAIN t : t[i][2] = g /\ t[i][3] = x /\ t[i][5] = y /\ e = DrawnEdge(l, i, x, y)
  <2>1. PICK m \in DOMAIN phis : \E i \in DOMAIN phis[m].table :
                 phis[m].table[i][2] = g /\ e = DrawnEdge(m, i, phis[m].table[i][3], phis[m].table[i][5])
    BY <1>1, <1>3, Zenon
  <2>2. PICK i \in DOMAIN phis[m].table :
                 phis[m].table[i][2] = g /\ e = DrawnEdge(m, i, phis[m].table[i][3], phis[m].table[i][5])
    BY <2>1, Zenon
  <2>3. m = l /\ phis[m].table[i][3] = x /\ phis[m].table[i][5] = y
    <3>1. PICK u, v : u = phis[m].table[i][3] /\ v = phis[m].table[i][5]
      OBVIOUS
    <3>2. DrawnEdge(m, i, u, v).label = m /\ DrawnEdge(m, i, u, v).src = u /\ DrawnEdge(m, i, u, v).dst = v
      BY <1>2
    <3>3. e = DrawnEdge(m, i, u, v)
      BY <2>2, <3>1
    <3> QED
      BY <1>3, <3>1, <3>2, <3>3
  <2> QED
    BY <2>2, <2>3
<1>4. ASSUME NEW e, NEW i \in DOMAIN t, t[i][2] = g, t[i][3] = x, t[i][5] = y, e = DrawnEdge(l, i, x, y)
      PROVE  e \in asGraphs[g].edges /\ e.label = l /\ e.src = x /\ e.dst = y
  <2>1. e.label = l /\ e.src = x /\ e.dst = y
    BY <1>2, <1>4
  <2>2. e \in asGraphs[g].edges
    BY <1>1, <1>4
  <2> QED
    BY <2>1, <2>2
<1> QED
  BY <1>3, <1>4

\* How many edges of a drawing go from x to y under l, and how often y is in a list.
EdgesFrom(edges, l, x, y) == Cardinality({e \in edges : e.label = l /\ e.src = x /\ e.dst = y})
TimesIn(s, y) == Cardinality({i \in DOMAIN s : s[i] = y})

\* Of an object there are as many edges drawn to another one as it contains that one.
LEMMA DrawnEdges ==
  ASSUME StorageInv, ObjectsInv, ReadingInv, pc = "indexed", NEW p \in Places, NEW l \in PhiLabels,
         NEW y \in Range(Ids(PhiAt(p)[l]))
  PROVE  EdgesFrom(asGraphs[p[1]].edges, l, objectAt(p).id, y) = TimesIn(Ids(PhiAt(p)[l]), y)
<1>1. PICK g, x, s : g = p[1] /\ x = objectAt(p).id /\ s = Ids(PhiAt(p)[l])
  OBVIOUS
<1>2. g \in DOMAIN db
  BY <1>1, NumberBound
<1>3. s = ContainedIn(g, x, l)
  <2>1. PhiAt(p)[l] = Sorted(ContentsOf(p, l))
    BY DEF PhiAt
  <2> QED
    BY <1>1, <2>1, ReadContents
<1>4. l \in DOMAIN phis
  <2> SUFFICES ASSUME l \notin DOMAIN phis PROVE FALSE
    OBVIOUS
  <2>1. s = <<>>
    BY <1>3 DEF ContainedIn
  <2> QED
    BY <1>1, <2>1 DEF Range
<1>5. PICK t : t = phis[l].table
  OBVIOUS
<1>6. PICK I : I = RowsAbout(t, g, x)
  OBVIOUS
<1>7. PICK q : q = Ascending(I)
  OBVIOUS
<1>8. s = [j \in DOMAIN q |-> t[q[j]][5]]
  BY <1>3, <1>4, <1>5, <1>6, <1>7, Zenon DEF ContainedIn, RowsAbout
<1>9. I \in SUBSET Int /\ IsFiniteSet(I)
  <2>1. l \in PhiLabels /\ t = rowsUnder(l) /\ rowsUnder(l) \in Seq([1 .. 5 -> Nat])
    BY <1>4, <1>5 DEF rowsUnder, ReadingInv, ContentsHold
  <2>2. PICK m \in Nat : DOMAIN t = 1 .. m
    BY <2>1
  <2>3. IsFiniteSet(1 .. m) /\ I \subseteq 1 .. m
    BY <1>6, <2>2, FS_Interval DEF RowsAbout
  <2>4. I \in SUBSET (1 .. m) /\ 1 .. m \in SUBSET Int
    BY <2>3
  <2> QED
    BY <2>3, <2>4, FS_Subset
<1>10. PICK n \in Nat : /\ DOMAIN q = 1 .. n
                        /\ \A j \in 1 .. n : q[j] \in I
                        /\ \A i, j \in 1 .. n : q[i] = q[j] => i = j
                        /\ \A i \in I : \E j \in 1 .. n : q[j] = i
  BY <1>7, <1>9, AscendingOrder
<1>11. PICK S : S = {j \in DOMAIN s : s[j] = y}
  OBVIOUS
<1>12. \A j : j \in S <=> j \in 1 .. n /\ t[q[j]][5] = y
  BY <1>8, <1>10, <1>11
<1>13. PICK T : T = {e \in asGraphs[g].edges : e.label = l /\ e.src = x /\ e.dst = y}
  OBVIOUS
<1>14. \A e : e \in T <=>
                \E i \in DOMAIN t : t[i][2] = g /\ t[i][3] = x /\ t[i][5] = y /\ e = DrawnEdge(l, i, x, y)
  <2>1. \A e : e \in T <=> e \in asGraphs[g].edges /\ e.label = l /\ e.src = x /\ e.dst = y
    BY <1>13, Zenon
  <2> QED
    BY <1>2, <1>4, <1>5, <2>1, DrawnRows
<1>15. \A i : i \in I <=> i \in DOMAIN t /\ t[i][2] = g /\ t[i][3] = x
  BY <1>6 DEF RowsAbout
<1>16. PICK h : h = [j \in S |-> DrawnEdge(l, q[j], x, y)]
  OBVIOUS
<1>17. \A i, j : DrawnEdge(l, i, x, y) = DrawnEdge(l, j, x, y) => i = j
  <2> SUFFICES ASSUME NEW i, NEW j, DrawnEdge(l, i, x, y) = DrawnEdge(l, j, x, y) PROVE i = j
    OBVIOUS
  <2>1. DrawnEdge(l, i, x, y).row = i /\ DrawnEdge(l, j, x, y).row = j
    BY DEF DrawnEdge
  <2> QED
    BY <2>1
<1>18. Matches(h, S, T)
  <2>1. \A j \in S : h[j] \in T
    BY <1>10, <1>12, <1>14, <1>15, <1>16
  <2>2. \A i, j \in S : h[i] = h[j] => i = j
    BY <1>10, <1>12, <1>16, <1>17
  <2>3. \A e \in T : \E j \in S : h[j] = e
    BY <1>10, <1>12, <1>14, <1>15, <1>16
  <2> QED
    BY <2>1, <2>2, <2>3 DEF Matches
<1>19. IsFiniteSet(S)
  <2>1. S \subseteq 1 .. n /\ IsFiniteSet(1 .. n)
    BY <1>12, FS_Interval
  <2> QED
    BY <2>1, FS_Subset
<1>20. Cardinality(T) = Cardinality(S)
  BY <1>18, <1>19, MatchedCount
<1>21. EdgesFrom(asGraphs[g].edges, l, x, y) = Cardinality(T) /\ TimesIn(s, y) = Cardinality(S)
  BY <1>11, <1>13, Zenon DEF EdgesFrom, TimesIn
<1> QED
  BY <1>1, <1>20, <1>21, Zenon

\* An object is written out and drawn as it was loaded, with what it contains.
IsReadBack(o, ids) ==
  /\ asObjects[o.graph][o.id] = MadeAlone(o.id, o.ell, o.props, ids)
  /\ asGraphs[o.graph].nodes[o.id] = o.props
  /\ \A l \in PhiLabels : \A y \in Range(ids[l]) :
       EdgesFrom(asGraphs[o.graph].edges, l, o.id, y) = TimesIn(ids[l], y)

\* The tables give back what was loaded, by whichever way they are read.
THEOREM ObjectsReadBack == Spec => []ObjectsAsLoaded
<1>1. StorageInv /\ ObjectsInv /\ ReadingInv => ObjectsAsLoaded
  <2> SUFFICES ASSUME StorageInv, ObjectsInv, ReadingInv, pc = "indexed" PROVE ObjectsAsLoaded
    BY DEF ObjectsAsLoaded
  <2>1. /\ {WithoutRecords(iterateOverObjects[r]) : r \in DOMAIN iterateOverObjects} = Objects
        /\ Len(iterateOverObjects) = Cardinality(Objects)
    BY AllObjectsRead
  <2>2. ASSUME NEW o \in Objects
        PROVE  IsReadBack(o, [l \in PhiLabels |-> Ids(o.phi[l])])
    <3>1. PICK p \in Places : o = ReadAt(p)
      BY ObjectsArePlaces
    <3>2. /\ o.graph = p[1] /\ o.id = objectAt(p).id /\ o.ell = objectAt(p).ell
          /\ o.props = PropsAt(p) /\ o.phi = PhiAt(p)
      BY <3>1, PartsOfRead, Zenon
    <3>3. PICK ids : ids = [l \in PhiLabels |-> Ids(o.phi[l])]
      OBVIOUS
    <3>4. asObjects[o.graph][o.id] = MadeAlone(o.id, o.ell, o.props, ids)
      BY <3>2, <3>3, WrittenAt, Zenon
    <3>5. asGraphs[o.graph].nodes[o.id] = o.props
      BY <3>2, DrawnAt, Zenon
    <3>6. ASSUME NEW l \in PhiLabels, NEW y \in Range(ids[l])
          PROVE  EdgesFrom(asGraphs[o.graph].edges, l, o.id, y) = TimesIn(ids[l], y)
      <4>1. ids[l] = Ids(PhiAt(p)[l])
        BY <3>2, <3>3
      <4>2. y \in Range(Ids(PhiAt(p)[l]))
        BY <4>1
      <4> QED
        BY <3>2, <4>1, <4>2, DrawnEdges, Zenon
    <3> QED
      BY <3>3, <3>4, <3>5, <3>6, Zenon DEF IsReadBack
  <2>3. \A g \in DOMAIN db : DOMAIN asGraphs[g].nodes = {o.id : o \in {u \in Objects : u.graph = g}}
    BY DrawnNodes
  <2> QED
    BY <2>1, <2>2, <2>3, Zenon DEF ObjectsAsLoaded, IsReadBack, EdgesFrom, TimesIn, MadeAlone
<1> QED
  BY <1>1, ReadingIsInvariant, PTL

=============================================================================
