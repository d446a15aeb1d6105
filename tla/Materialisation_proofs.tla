----------------------- MODULE Materialisation_proofs -----------------------
(***************************************************************************)
(* The result of every program on every graph: the search never leaves the *)
(* nodes, the graph that is left has no cycle, and the loaded edges that   *)
(* close none are in it. The depths grow along the edges that are kept,    *)
(* and an edge against the order of the search closes a cycle, because the *)
(* object it leads to was still on the path when it was met.               *)
(***************************************************************************)
EXTENDS Materialisation, RewritingStore_proofs

-----------------------------------------------------------------------------
(* Depths.                                                                 *)

Containers(edges, order, i) ==
  {k \in DOMAIN order : \E e \in edges : e.src = order[k] /\ e.dst = order[i]}

Earlier(edges, order, f, i) ==
  {IF k < i THEN f[k] ELSE 0 : k \in Containers(edges, order, i)}

\* What the definition of Depths asks of depth.
Deeper(edges, order, f, i) ==
  IF i = 1 \/ Containers(edges, order, i) = {} THEN 0
  ELSE Max(Earlier(edges, order, f, i)) + 1

IsDepth(edges, order, f) == f = [i \in DOMAIN order |-> Deeper(edges, order, f, i)]
Depth(edges, order) == CHOOSE f : IsDepth(edges, order, f)

\* The depth at a position depends on the depths at earlier positions only.
LEMMA DeeperAgrees ==
  ASSUME NEW edges, NEW order, NEW f, NEW g, NEW i,
         \A k \in DOMAIN order : k < i => f[k] = g[k]
  PROVE  Deeper(edges, order, f, i) = Deeper(edges, order, g, i)
<1>1. Earlier(edges, order, f, i) = Earlier(edges, order, g, i)
  BY DEF Earlier, Containers
<1> QED
  BY <1>1 DEF Deeper

\* There is such a function: it can be defined for one more position.
LEMMA DepthExists ==
  ASSUME NEW edges, NEW T, NEW order \in Seq(T)
  PROVE  \E f : IsDepth(edges, order, f)
<1> DEFINE Fits(f, n) == \A i \in DOMAIN order : i < n => f[i] = Deeper(edges, order, f, i)
           Further(f) == [i \in DOMAIN order |-> Deeper(edges, order, f, i)]
           Reached == {n \in Nat : \E f : Fits(f, n)}
<1>1. DOMAIN order = 1 .. Len(order) /\ Len(order) \in Nat
  OBVIOUS
<1>2. ASSUME NEW n \in Nat, NEW f, Fits(f, n)
      PROVE  Fits(Further(f), n + 1)
  <2>1. ASSUME NEW i \in DOMAIN order, i < n + 1
        PROVE  Further(f)[i] = Deeper(edges, order, Further(f), i)
    <3>1. \A k \in DOMAIN order : k < i => f[k] = Further(f)[k]
      BY <1>1, <1>2, <2>1
    <3> HIDE DEF Further
    <3>2. Deeper(edges, order, f, i) = Deeper(edges, order, Further(f), i)
      BY <3>1, DeeperAgrees
    <3> QED
      BY <3>2 DEF Further
  <2> QED
    BY <2>1
<1>3. Reached = Nat
  <2>1. 0 \in Reached
    <3>1. Fits(<<>>, 0)
      BY <1>1
    <3> QED
      BY <3>1
  <2>2. ASSUME NEW n \in Reached
        PROVE  n + 1 \in Reached
    <3>1. n \in Nat /\ n + 1 \in Nat
      OBVIOUS
    <3>2. PICK f : Fits(f, n)
      OBVIOUS
    <3> HIDE DEF Fits, Further, Reached
    <3>3. Fits(Further(f), n + 1)
      BY <1>2, <3>1, <3>2
    <3> QED
      BY <3>1, <3>3 DEF Reached
  <2> HIDE DEF Reached
  <2>3. Reached \in SUBSET Nat
    BY DEF Reached
  <2> QED
    BY <2>1, <2>2, <2>3, AllNats
<1>4. PICK f : Fits(f, Len(order) + 1)
  <2>1. Len(order) + 1 \in Reached
    <3> HIDE DEF Reached
    <3> QED
      BY <1>1, <1>3
  <2> QED
    BY <2>1
<1>5. ASSUME NEW i \in DOMAIN order
      PROVE  Deeper(edges, order, f, i) = Deeper(edges, order, Further(f), i)
  <2>1. \A k \in DOMAIN order : f[k] = Further(f)[k]
    BY <1>1, <1>4
  <2> HIDE DEF Further
  <2> QED
    BY <2>1, DeeperAgrees
<1> DEFINE g == Further(f)
<1>6. IsDepth(edges, order, g)
  BY <1>5 DEF IsDepth
<1> QED
  BY <1>6

\* The depths satisfy their equation.
LEMMA DepthEquation ==
  ASSUME NEW edges, NEW T, NEW order \in Seq(T), NEW i \in DOMAIN order
  PROVE  Depth(edges, order)[i] = Deeper(edges, order, Depth(edges, order), i)
<1>1. IsDepth(edges, order, Depth(edges, order))
  BY DepthExists DEF Depth
<1> HIDE DEF Depth
<1>2. Depth(edges, order) =
        [k \in DOMAIN order |-> Deeper(edges, order, Depth(edges, order), k)]
  BY <1>1 DEF IsDepth
<1> QED
  BY <1>2

\* The greatest element of a nonempty set of numbers up to n.
LEMMA MaxIsGreatest ==
  ASSUME NEW n \in Nat, NEW S \in SUBSET (0 .. n), S # {}
  PROVE  Max(S) \in S /\ \A m \in S : m <= Max(S)
<1>1. PICK k \in S : \A m \in S : m <= k
  BY GreatestNat
<1>2. \E x \in S : \A y \in S : x >= y
  BY <1>1
<1>3. Max(S) \in S /\ \A y \in S : Max(S) >= y
  BY <1>2 DEF Max
<1> QED
  BY <1>3

\* No object is deeper than its position.
LEMMA DepthType ==
  ASSUME NEW edges, NEW T, NEW order \in Seq(T), NEW i \in DOMAIN order
  PROVE  Depth(edges, order)[i] \in 0 .. i - 1
<1> DEFINE f == Depth(edges, order)
           Typed(n) == \A k \in DOMAIN order : k < n => f[k] \in 0 .. k - 1
           Reached == {n \in Nat : Typed(n)}
<1>1. DOMAIN order = 1 .. Len(order) /\ Len(order) \in Nat
  OBVIOUS
<1>2. \A k \in DOMAIN order : f[k] = Deeper(edges, order, f, k)
  BY DepthEquation
<1> HIDE DEF f
<1>3. ASSUME NEW n \in Nat, Typed(n), NEW k \in DOMAIN order, k < n + 1
      PROVE  f[k] \in 0 .. k - 1
  <2> DEFINE S == Earlier(edges, order, f, k)
  <2>1. CASE k = 1 \/ Containers(edges, order, k) = {}
    BY <1>1, <1>2, <2>1 DEF Deeper
  <2>2. CASE k # 1 /\ Containers(edges, order, k) # {}
    <3>1. k - 2 \in Nat /\ k \in Nat
      BY <1>1, <2>2
    <3>2. S \in SUBSET (0 .. k - 2) /\ S # {}
      <4>1. S # {}
        BY <2>2 DEF Earlier
      <4>2. ASSUME NEW m \in Containers(edges, order, k)
            PROVE  (IF m < k THEN f[m] ELSE 0) \in 0 .. k - 2
        <5>1. m \in DOMAIN order /\ m \in Nat
          BY <1>1 DEF Containers
        <5>2. m < k => f[m] \in 0 .. m - 1
          BY <1>3, <5>1, <3>1
        <5> QED
          BY <3>1, <5>1, <5>2
      <4> QED
        BY <4>1, <4>2 DEF Earlier
    <3> HIDE DEF S
    <3>3. Max(S) \in 0 .. k - 2
      BY <3>1, <3>2, MaxIsGreatest
    <3>4. f[k] = Max(S) + 1
      BY <1>2, <2>2 DEF Deeper, S
    <3> QED
      BY <3>1, <3>3, <3>4
  <2> QED
    BY <2>1, <2>2
<1>4. Typed(0)
  BY <1>1
<1> HIDE DEF Typed
<1>5. ASSUME NEW n \in Nat, Typed(n)
      PROVE  Typed(n + 1)
  BY <1>3, <1>5 DEF Typed
<1>6. Reached = Nat
  <2>1. 0 \in Reached /\ Reached \in SUBSET Nat
    BY <1>4
  <2>2. \A n \in Reached : n + 1 \in Reached
    BY <1>5
  <2> HIDE DEF Reached
  <2> QED
    BY <2>1, <2>2, AllNats
<1>7. i + 1 \in Nat /\ i < i + 1
  BY <1>1
<1>8. Typed(i + 1)
  BY <1>6, <1>7
<1> QED
  BY <1>7, <1>8 DEF Typed, f

\* An edge along the order leads deeper.
LEMMA DepthGrows ==
  ASSUME NEW edges, NEW T, NEW order \in Seq(T), NEW k \in DOMAIN order,
         NEW i \in DOMAIN order, k < i,
         NEW e \in edges, e.src = order[k], e.dst = order[i]
  PROVE  Depth(edges, order)[k] < Depth(edges, order)[i]
<1> DEFINE f == Depth(edges, order)
           S == Earlier(edges, order, f, i)
<1>1. k \in Nat /\ i \in Nat /\ i # 1
  OBVIOUS
<1>2. \A m \in DOMAIN order : f[m] \in 0 .. m - 1
  BY DepthType
<1>3. f[i] = Deeper(edges, order, f, i)
  BY DepthEquation
<1> HIDE DEF f
<1>4. k \in Containers(edges, order, i)
  BY DEF Containers
<1>5. f[k] \in S
  BY <1>4 DEF Earlier
<1>6. S \in SUBSET (0 .. i)
  <2>1. \A m \in Containers(edges, order, i) : (IF m < i THEN f[m] ELSE 0) \in 0 .. i
    BY <1>1, <1>2 DEF Containers
  <2> QED
    BY <2>1 DEF Earlier
<1>7. f[i] = Max(S) + 1
  BY <1>1, <1>3, <1>4 DEF Deeper
<1> HIDE DEF S
<1>8. Max(S) \in 0 .. i /\ f[k] <= Max(S)
  BY <1>1, <1>5, <1>6, MaxIsGreatest
<1>9. f[k] \in Int
  BY <1>2
<1> QED
  BY <1>7, <1>8, <1>9 DEF f

\* The depths of nodes in terms of the depths of positions.
LEMMA DepthsAreDepth ==
  ASSUME NEW edges, NEW order
  PROVE  Depths(edges, order) =
           [v \in Range(order) |->
              Depth(edges, order)[CHOOSE i \in DOMAIN order : order[i] = v]]
BY DEF Depths, Depth, IsDepth, Deeper, Earlier, Containers

\* Every node of the order has a depth, a natural number.
LEMMA DepthsType ==
  ASSUME NEW edges, NEW T, NEW order \in Seq(T)
  PROVE  Depths(edges, order) \in [Range(order) -> Nat]
<1> DEFINE at(v) == CHOOSE i \in DOMAIN order : order[i] = v
<1>1. ASSUME NEW v \in Range(order)
      PROVE  Depth(edges, order)[at(v)] \in Nat
  <2>1. \E i \in DOMAIN order : order[i] = v
    BY DEF Range
  <2>2. at(v) \in DOMAIN order
    BY <2>1
  <2> HIDE DEF at
  <2>3. Depth(edges, order)[at(v)] \in 0 .. at(v) - 1
    BY <2>2, DepthType
  <2> QED
    BY <2>3
<1> QED
  BY <1>1, DepthsAreDepth

\* When no node is listed twice, an edge along the order leads deeper.
LEMMA DepthsGrow ==
  ASSUME NEW edges, NEW T, NEW order \in Seq(T), IsInjective(order),
         NEW k \in DOMAIN order, NEW i \in DOMAIN order, k < i,
         NEW e \in edges, e.src = order[k], e.dst = order[i]
  PROVE  Depths(edges, order)[e.src] < Depths(edges, order)[e.dst]
<1> DEFINE at(v) == CHOOSE j \in DOMAIN order : order[j] = v
<1>1. at(order[k]) = k /\ at(order[i]) = i
  BY DEF IsInjective
<1>2. order[k] \in Range(order) /\ order[i] \in Range(order)
  BY DEF Range
<1> HIDE DEF at
<1>3. /\ Depths(edges, order)[e.src] = Depth(edges, order)[k]
      /\ Depths(edges, order)[e.dst] = Depth(edges, order)[i]
  BY <1>1, <1>2, DepthsAreDepth DEF at
<1> QED
  BY <1>3, DepthGrows

-----------------------------------------------------------------------------
(* Containment.                                                            *)

\* What is below an object stays below it when there is more containment.
LEMMA BelowGrows ==
  ASSUME NEW C, NEW D, C \subseteq D, NEW x, NEW y, Below(C, x, y)
  PROVE  Below(D, x, y)
<1> SUFFICES ASSUME NEW S \in SUBSET {p[2] : p \in D},
                    \A p \in D : p[1] \in S \cup {x} => p[2] \in S
             PROVE  y \in S
  BY DEF Below
<1> DEFINE R == S \cap {p[2] : p \in C}
<1>1. R \in SUBSET {p[2] : p \in C}
  OBVIOUS
<1>2. \A p \in C : p[1] \in R \cup {x} => p[2] \in R
  OBVIOUS
<1> HIDE DEF R
<1>3. y \in R
  BY <1>1, <1>2 DEF Below
<1> QED
  BY <1>3 DEF R

\* Containment along which a number grows has no cycle.
LEMMA RankedIsAcyclic ==
  ASSUME NEW T, NEW C \in SUBSET (T \X T), NEW rank \in [T -> Nat],
         \A p \in C : rank[p[1]] < rank[p[2]], NEW x
  PROVE  ~Below(C, x, x)
<1> DEFINE S == {y \in {p[2] : p \in C} : x \in T /\ rank[x] < rank[y]}
<1>1. S \in SUBSET {p[2] : p \in C}
  OBVIOUS
<1>2. ASSUME NEW p \in C, p[1] \in S \cup {x}
      PROVE  p[2] \in S
  <2>1. p[1] \in T /\ p[2] \in T /\ rank[p[1]] \in Nat /\ rank[p[2]] \in Nat
    OBVIOUS
  <2>2. rank[p[1]] < rank[p[2]]
    OBVIOUS
  <2>3. CASE p[1] = x
    BY <2>1, <2>2, <2>3
  <2>4. CASE p[1] \in S
    <3>1. x \in T /\ rank[x] \in Nat /\ rank[x] < rank[p[1]]
      BY <2>4
    <3>2. rank[x] < rank[p[2]]
      BY <2>1, <2>2, <3>1
    <3> QED
      BY <3>1, <3>2
  <2> QED
    BY <1>2, <2>3, <2>4
<1>3. x \notin S
  <2>1. x \in T => rank[x] \in Nat
    OBVIOUS
  <2> QED
    BY <2>1
<1> HIDE DEF S
<1> QED
  BY <1>1, <1>2, <1>3 DEF Below

\* The later objects of a path are below the earlier ones.
LEMMA PathLeadsBelow ==
  ASSUME NEW C, NEW T, NEW s \in Seq(T),
         \A j \in 1 .. Len(s) - 1 : <<s[j], s[j + 1]>> \in C,
         NEW i \in DOMAIN s, NEW k \in DOMAIN s, i < k
  PROVE  Below(C, s[i], s[k])
<1> SUFFICES ASSUME NEW S \in SUBSET {p[2] : p \in C},
                    \A p \in C : p[1] \in S \cup {s[i]} => p[2] \in S
             PROVE  s[k] \in S
  BY DEF Below
<1> DEFINE In(n) == i + 1 + n \in DOMAIN s => s[i + 1 + n] \in S
           Reached == {n \in Nat : In(n)}
<1>1. DOMAIN s = 1 .. Len(s) /\ Len(s) \in Nat /\ i \in Nat /\ k \in Nat
  OBVIOUS
<1>2. ASSUME NEW j \in DOMAIN s, j + 1 \in DOMAIN s, s[j] \in S \cup {s[i]}
      PROVE  s[j + 1] \in S
  <2>1. j \in 1 .. Len(s) - 1
    BY <1>1, <1>2
  <2>2. <<s[j], s[j + 1]>> \in C
    BY <2>1
  <2> QED
    BY <1>2, <2>2
<1>3. In(0)
  BY <1>1, <1>2
<1>4. ASSUME NEW n \in Nat, In(n)
      PROVE  In(n + 1)
  <2> SUFFICES ASSUME i + 1 + (n + 1) \in DOMAIN s
               PROVE  s[i + 1 + (n + 1)] \in S
    OBVIOUS
  <2>1. i + 1 + n \in DOMAIN s /\ i + 1 + (n + 1) = (i + 1 + n) + 1
    BY <1>1
  <2>2. s[i + 1 + n] \in S
    BY <1>4, <2>1
  <2> QED
    BY <1>2, <2>1, <2>2
<1>5. Reached = Nat
  <2>1. 0 \in Reached /\ Reached \in SUBSET Nat
    BY <1>3
  <2>2. \A n \in Reached : n + 1 \in Reached
    BY <1>4
  <2> HIDE DEF Reached
  <2> QED
    BY <2>1, <2>2, AllNats
<1>6. k - (i + 1) \in Nat /\ i + 1 + (k - (i + 1)) = k
  BY <1>1
<1>7. In(k - (i + 1))
  BY <1>5, <1>6
<1> QED
  BY <1>6, <1>7

-----------------------------------------------------------------------------
(* The materialised view.                                                  *)

\* What a record may hold.
Contents == [id : Delta!Known, edge : DOMAIN graph \cup {NoId}]

\* The records an object was loaded with, one for each of its edges.
LEMMA LoadedLists ==
  ASSUME TInv, NEW x, NEW l
  PROVE  /\ LoadedRecords(x, l) \in Seq(Contents)
         /\ x \in Legacy /\ l = Loaded =>
              \A e \in DOMAIN graph : graph[e][1] = x =>
                \E i \in DOMAIN LoadedRecords(x, l) :
                  LoadedRecords(x, l)[i] = Record(graph[e][2], e)
<1> DEFINE own == {e \in DOMAIN graph : graph[e][1] = x}
           es == Ascending(own)
           list == [i \in DOMAIN es |-> Record(graph[es[i]][2], es[i])]
<1>1. /\ graph \in Seq(Originals \X Originals)
      /\ Len(graph) \in Nat
      /\ DOMAIN graph = 1 .. Len(graph)
  BY DEF TInv, RInv, MInv, InputOK, IsGraph, Originals
<1>2. own \in SUBSET (1 .. Len(graph)) /\ own \in SUBSET Int /\ IsFiniteSet(own)
  <2>1. IsFiniteSet(1 .. Len(graph)) /\ own \in SUBSET (1 .. Len(graph))
    BY <1>1, FS_Interval
  <2> QED
    BY <2>1, FS_Subset
<1> HIDE DEF own
<1>3. es \in Seq(own) /\ Cardinality(own) \in Nat
  BY <1>2, AscendingLists
<1> HIDE DEF es
<1>4. \A i \in DOMAIN es : es[i] \in own
  BY <1>3
<1>5. \A d \in own : d \in DOMAIN graph
  BY DEF own
<1>6. ASSUME NEW e \in DOMAIN graph
      PROVE  Record(graph[e][2], e) \in Contents
  <2>1. graph[e][2] \in Delta!Known
    BY <1>1, ResolvingKnown DEF TInv, RInv
  <2> QED
    BY <2>1 DEF Record, Contents
<1>7. list \in Seq(Contents) /\ DOMAIN list = DOMAIN es
  <2>1. \A i \in DOMAIN es : es[i] \in DOMAIN graph
    BY <1>4, <1>5
  <2>2. \A i \in DOMAIN es : Record(graph[es[i]][2], es[i]) \in Contents
    BY <1>6, <2>1
  <2>3. DOMAIN es = 1 .. Len(es) /\ Len(es) \in Nat
    BY <1>3
  <2> QED
    BY <2>2, <2>3
<1>8. \/ LoadedRecords(x, l) = <<>> /\ ~(x \in Legacy /\ l = Loaded)
      \/ LoadedRecords(x, l) = list
  BY DEF LoadedRecords, es, own
<1>9. ASSUME NEW e \in own
      PROVE  \E i \in DOMAIN es : es[i] = e
  <2> DEFINE id == [d \in DOMAIN graph |-> d]
  <2>1. PICK k \in DOMAIN Select(id, own) : Select(id, own)[k] = id[e]
    BY <1>1, <1>2, SelectHas
  <2>2. k \in 1 .. Cardinality(own) /\ Select(id, own)[k] = id[es[k]]
    BY <2>1 DEF Select, es
  <2>3. DOMAIN es = 1 .. Cardinality(own)
    BY DEF Ascending, es
  <2>4. es[k] \in DOMAIN graph /\ e \in DOMAIN graph
    BY <1>4, <1>5, <2>2, <2>3
  <2> QED
    BY <2>1, <2>2, <2>3, <2>4
<1>10. \A e \in DOMAIN graph : graph[e][1] = x =>
        \E i \in DOMAIN list : list[i] = Record(graph[e][2], e)
  BY <1>7, <1>9 DEF own
<1> HIDE DEF list
<1>11. CASE LoadedRecords(x, l) = list
  BY <1>7, <1>10, <1>11
<1>12. CASE LoadedRecords(x, l) = <<>> /\ ~(x \in Legacy /\ l = Loaded)
  BY <1>12
<1> QED
  BY <1>8, <1>11, <1>12

\* The records an object was assigned.
LEMMA AssignedLists ==
  ASSUME TInv, NEW x, NEW l
  PROVE  AssignedRecords(x, l) \in Seq(Contents)
<1>1. CASE <<x, l>> \notin DOMAIN content
  BY <1>1 DEF AssignedRecords
<1>2. CASE <<x, l>> \in DOMAIN content
  <2>1. content[<<x, l>>] \in Seq(Delta!Known)
    BY <1>2 DEF TInv, ContentOK
  <2>2. \A y \in Delta!Known : Record(y, NoId) \in Contents
    BY DEF Record, Contents
  <2>3. AssignedRecords(x, l) =
          [i \in DOMAIN content[<<x, l>>] |-> Record(content[<<x, l>>][i], NoId)]
    BY <1>2 DEF AssignedRecords
  <2> DEFINE c == content[<<x, l>>]
  <2>4. \A i \in DOMAIN c : c[i] \in Delta!Known
    BY <2>1
  <2>5. DOMAIN c = 1 .. Len(c) /\ Len(c) \in Nat
    BY <2>1
  <2> HIDE DEF c
  <2>6. [i \in DOMAIN c |-> Record(c[i], NoId)] \in Seq(Contents)
    BY <2>2, <2>4, <2>5
  <2> QED
    BY <2>3, <2>6 DEF c
<1> QED
  BY <1>1, <1>2

\* Both, brought up to date.
LEMMA CurrentLists ==
  ASSUME TInv, NEW x, NEW l
  PROVE  /\ Current(Records(x, l)) \in Seq(Contents)
         /\ \A i \in DOMAIN Current(Records(x, l)) :
              \E z \in Delta!Known : Current(Records(x, l))[i].id = Delta!replacedWith(z)
         /\ x \in Legacy /\ l = Loaded =>
              \A e \in DOMAIN graph : graph[e][1] = x =>
                \E i \in DOMAIN Current(Records(x, l)) :
                  Current(Records(x, l))[i] = Record(Delta!replacedWith(graph[e][2]), e)
<1> DEFINE a == LoadedRecords(x, l)
           b == AssignedRecords(x, l)
           r == Records(x, l)
<1>1. a \in Seq(Contents) /\ b \in Seq(Contents)
  BY LoadedLists, AssignedLists
<1>2. r = a \o b
  BY DEF Records
<1>3. r \in Seq(Contents) /\ \A i \in DOMAIN a : i \in DOMAIN r /\ r[i] = a[i]
  <2> HIDE DEF a, b, r
  <2> QED
    BY <1>1, <1>2
<1> HIDE DEF r
<1>4. Current(r) = [i \in DOMAIN r |-> Record(Delta!replacedWith(r[i].id), r[i].edge)]
  BY DEF Current
<1>5. ASSUME NEW i \in DOMAIN r
      PROVE  /\ r[i].id \in Delta!Known
             /\ Record(Delta!replacedWith(r[i].id), r[i].edge) \in Contents
  <2>1. r[i] \in Contents
    BY <1>3
  <2>2. r[i].id \in Delta!Known /\ r[i].edge \in DOMAIN graph \cup {NoId}
    BY <2>1 DEF Contents
  <2>3. Delta!replacedWith(r[i].id) \in Delta!Known
    BY <2>2, ResolvingKnown DEF TInv, RInv
  <2> QED
    BY <2>2, <2>3 DEF Record, Contents
<1>6. DOMAIN r = 1 .. Len(r) /\ Len(r) \in Nat
  BY <1>3
<1>7. Current(r) \in Seq(Contents)
  BY <1>4, <1>5, <1>6
<1>8. \A i \in DOMAIN Current(r) :
        /\ i \in DOMAIN r
        /\ Current(r)[i].id = Delta!replacedWith(r[i].id)
  BY <1>4 DEF Record
<1>9. ASSUME NEW e \in DOMAIN graph, graph[e][1] = x, x \in Legacy, l = Loaded
      PROVE  \E i \in DOMAIN Current(r) :
               Current(r)[i] = Record(Delta!replacedWith(graph[e][2]), e)
  <2>1. PICK i \in DOMAIN a : a[i] = Record(graph[e][2], e)
    BY <1>9, LoadedLists
  <2>2. i \in DOMAIN r /\ r[i] = Record(graph[e][2], e)
    BY <1>3, <2>1
  <2>3. Record(graph[e][2], e).id = graph[e][2] /\ Record(graph[e][2], e).edge = e
    BY DEF Record
  <2> QED
    BY <1>4, <2>2, <2>3
<1> QED
  BY <1>5, <1>7, <1>8, <1>9 DEF r

\* The records of an object in the view. Those of a loaded object that is kept
\* refer to what stands for an object, and hold the loaded edges not deleted.
LEMMA MaterialisedLists ==
  ASSUME TInv, NEW x, NEW l \in Labels
  PROVE  /\ Materialised(x)[l] \in Seq(Contents)
         /\ x \in Legacy /\ ~Delta!hasXBeenRemoved(x) =>
              \A i \in DOMAIN Materialised(x)[l] :
                \E z \in Delta!Known : Materialised(x)[l][i].id = Delta!replacedWith(z)
         /\ x \in Legacy /\ ~Delta!hasXBeenRemoved(x) /\ l = Loaded =>
              \A e \in DOMAIN graph : graph[e][1] = x /\ e \notin removedEdges =>
                \E i \in DOMAIN Materialised(x)[l] :
                  Materialised(x)[l][i] = Record(Delta!replacedWith(graph[e][2]), e)
<1> DEFINE now == Current(Records(x, l))
           I == {i \in DOMAIN now : now[i].edge \notin removedEdges}
<1>1. CASE ~(x \in Legacy /\ ~Delta!hasXBeenRemoved(x))
  <2>1. Materialised(x)[l] = AssignedRecords(x, l)
    BY <1>1 DEF Materialised
  <2> QED
    BY <1>1, <2>1, AssignedLists
<1>2. CASE x \in Legacy /\ ~Delta!hasXBeenRemoved(x)
  <2>1. Materialised(x)[l] = Select(now, I)
    BY <1>2 DEF Materialised, NotDeleted
  <2>2. /\ now \in Seq(Contents)
        /\ \A i \in DOMAIN now : \E z \in Delta!Known : now[i].id = Delta!replacedWith(z)
        /\ l = Loaded => \A e \in DOMAIN graph : graph[e][1] = x =>
             \E i \in DOMAIN now : now[i] = Record(Delta!replacedWith(graph[e][2]), e)
    BY <1>2, CurrentLists
  <2> HIDE DEF now
  <2>3. Len(now) \in Nat /\ I \in SUBSET (1 .. Len(now)) /\ \A i \in I : now[i] \in Contents
    BY <2>2
  <2>4. \A i \in I : \E z \in Delta!Known : now[i].id = Delta!replacedWith(z)
    BY <2>2
  <2>5. ASSUME NEW e \in DOMAIN graph, graph[e][1] = x, e \notin removedEdges, l = Loaded
        PROVE  \E i \in I : now[i] = Record(Delta!replacedWith(graph[e][2]), e)
    BY <2>2, <2>5 DEF Record
  <2> HIDE DEF I
  <2>6. /\ Select(now, I) \in Seq(Contents)
        /\ \A k \in DOMAIN Select(now, I) : \E i \in I : Select(now, I)[k] = now[i]
    <3> DEFINE n == Len(now)
    <3>1. n \in Nat /\ I \in SUBSET (1 .. n) /\ \A i \in I : now[i] \in Contents
      BY <2>3
    <3> HIDE DEF n
    <3>2. Select(now, I) \in Seq(Contents)
      BY <3>1, SelectKeeps
    <3> DEFINE T == {now[i] : i \in I}
    <3>3. \A i \in I : now[i] \in T
      OBVIOUS
    <3>4. \A r \in T : \E i \in I : r = now[i]
      OBVIOUS
    <3> HIDE DEF T
    <3>5. Select(now, I) \in Seq(T)
      BY <3>1, <3>3, SelectKeeps
    <3> DEFINE kept == Select(now, I)
    <3> HIDE DEF kept
    <3>6. \A k \in DOMAIN kept : kept[k] \in T
      BY <3>5 DEF kept
    <3> QED
      BY <3>2, <3>4, <3>6 DEF kept
  <2>7. \A i \in I : \E k \in DOMAIN Select(now, I) : Select(now, I)[k] = now[i]
    BY <2>3, SelectHas
  <2>8. \A k \in DOMAIN Select(now, I) :
          \E z \in Delta!Known : Select(now, I)[k].id = Delta!replacedWith(z)
    BY <2>4, <2>6
  <2>9. l = Loaded => \A e \in DOMAIN graph : graph[e][1] = x /\ e \notin removedEdges =>
          \E k \in DOMAIN Select(now, I) :
            Select(now, I)[k] = Record(Delta!replacedWith(graph[e][2]), e)
    BY <2>5, <2>7
  <2> QED
    BY <2>1, <2>6, <2>8, <2>9
<1> QED
  BY <1>1, <1>2

-----------------------------------------------------------------------------
(* The view is made once, when the engine is done, and does not change.    *)

\* Every object that was created has an entry in the delta.
Created == Delta!Known \subseteq Originals \cup objs

Outputs == {"none", "writing", "drawing", "written", "drawn"}

VInv ==
  /\ TInv
  /\ Created
  /\ output \in Outputs
  /\ output # "none" => isMaterialised
  /\ isMaterialised => pc = "done" /\ view = [x \in Kept |-> Materialised(x)]

\* At first nothing has been created, and there is no view.
LEMMA InitVInv == MInit => VInv
<1> SUFFICES ASSUME MInit PROVE VInv
  OBVIOUS
<1>1. TInv
  BY InitTInv DEF MInit
<1>2. Created
  BY LegacyMaxIsNat DEF MInit, Init, Delta!Init, Created, Delta!Known, Originals
<1> QED
  BY <1>1, <1>2 DEF MInit, VInv, Outputs

\* Whatever the rewriting engine does not change, the view does not.
LEMMA ViewKept ==
  ASSUME UNCHANGED vars
  PROVE  /\ UNCHANGED <<Kept, removed, repl, graph>>
         /\ [x \in Kept |-> Materialised(x)]' = [x \in Kept |-> Materialised(x)]
         /\ \A x : Delta!hasXBeenRemoved(x)' <=> Delta!hasXBeenRemoved(x)
         /\ \A x : Delta!replacedWith(x)' = Delta!replacedWith(x)
BY DEF vars, store, Kept, Materialised, NotDeleted, Current, Records, LoadedRecords,
       AssignedRecords, Delta!hasXBeenRemoved, Delta!replacedWith

\* Every step is one of the engine, or leaves it alone; once the view is there,
\* it is of the second kind.
LEMMA EngineStep ==
  ASSUME VInv, [MNext]_mvars
  PROVE  [Next]_vars /\ (isMaterialised => UNCHANGED <<vars, isMaterialised, view>>)
<1>1. [Next]_vars
  BY DEF MNext, rewrite, generate_materialised_view, fillInForSerialization,
     generateGraphsFromMaterialisedViews, searchFrom, descend, ascend, write, draw, mvars
<1>2. ASSUME isMaterialised
      PROVE  UNCHANGED <<vars, isMaterialised, view>>
  <2>1. pc = "done"
    BY <1>2 DEF VInv
  <2>2. CASE rewrite
    <3>1. terminated
      BY <2>1, <2>2 DEF rewrite, Next, visit, finish, startPattern, endPattern, endVertex,
         skipEntry, startEntry, delete, create, instantiateTarget, assignContent,
         assignValue, endOps, replaceHook, extendContainers, endEntry
    <3> QED
      BY <2>2, <3>1 DEF rewrite, terminated
  <2>3. CASE ~rewrite
    BY <1>2, <2>3 DEF MNext, generate_materialised_view, fillInForSerialization,
       generateGraphsFromMaterialisedViews, searchFrom, descend, ascend, write, draw, mvars
  <2> QED
    BY <2>2, <2>3
<1> QED
  BY <1>1, <1>2

\* The view stays what it was when it was made.
LEMMA NextVInv == VInv /\ [MNext]_mvars => VInv'
<1> SUFFICES ASSUME VInv, [MNext]_mvars PROVE VInv'
  OBVIOUS
<1>1. [Next]_vars /\ (isMaterialised => UNCHANGED <<vars, isMaterialised, view>>)
  BY EngineStep
<1>2. TInv'
  BY <1>1, NextTInv DEF VInv
<1>3. Created'
  <2>1. /\ objs \subseteq objs'
        /\ maxId' = maxId \/ (maxId' = maxId + 1 /\ maxId' \in objs')
    BY <1>1, ObjectsRemain DEF VInv, TInv
  <2>2. maxId \in Nat
    BY LegacyMaxIsNat, MaxNewIsNat DEF VInv, TInv, RInv, SInv, Delta!TypeOK
  <2> QED
    BY <2>1, <2>2 DEF VInv, Created, Delta!Known, Originals
<1>4. output' \in Outputs /\ (output' # "none" => isMaterialised')
  BY DEF VInv, Outputs, MNext, rewrite, generate_materialised_view, fillInForSerialization,
     generateGraphsFromMaterialisedViews, searchFrom, descend, ascend, write, draw, mvars
<1>5. ASSUME isMaterialised'
      PROVE  pc' = "done" /\ view' = [x \in Kept |-> Materialised(x)]'
  <2>1. CASE isMaterialised
    BY <1>1, <2>1, ViewKept DEF VInv, vars
  <2>2. CASE ~isMaterialised
    <3>1. generate_materialised_view
      BY <1>5, <2>2 DEF MNext, rewrite, generate_materialised_view, fillInForSerialization,
         generateGraphsFromMaterialisedViews, searchFrom, descend, ascend, write, draw, mvars
    <3>2. UNCHANGED vars /\ pc = "done" /\ view' = [x \in Kept |-> Materialised(x)]
      BY <3>1 DEF generate_materialised_view
    <3> QED
      BY <3>2, ViewKept DEF vars
  <2> QED
    BY <2>1, <2>2
<1> QED
  BY <1>2, <1>3, <1>4, <1>5 DEF VInv

\* What stands for a loaded object is a node, or was deleted.
LEMMA RepresentativesAreNodes ==
  ASSUME VInv, isMaterialised, NEW z \in Delta!Known
  PROVE  Delta!replacedWith(z) \in Nodes \cup removed
<1> DEFINE y == Delta!replacedWith(z)
<1>1. y \in Delta!Known
  BY ResolvingKnown DEF VInv, TInv, RInv
<1>2. y \in Originals \cup objs
  BY <1>1 DEF VInv, Created
<1> HIDE DEF y
<1>3. y \notin removed => y \in Kept
  BY <1>2 DEF Kept, Delta!hasXBeenRemoved, Legacy, Originals
<1> QED
  BY <1>3 DEF VInv, Nodes, y

\* What takes the place of the loaded roots are nodes.
LEMMA RootsInNodes == VInv => RootsAreNodes
<1> SUFFICES ASSUME VInv, isMaterialised, NEW y \in Roots
             PROVE  y \in Nodes
  BY DEF RootsAreNodes
<1>1. Vertices \subseteq Legacy
  BY DEF VInv, TInv, RInv, MInv, InputOK, IsGraph, Vertices, Legacy
<1>2. PICK x \in Legacy : y = Delta!replacedWith(x) /\ y \notin removed
  BY <1>1 DEF Roots
<1>3. x \in Delta!Known
  BY ResolvingKnown DEF VInv, TInv, RInv, Legacy, Originals
<1> QED
  BY <1>2, <1>3, RepresentativesAreNodes

\* The search for the order of the written objects starts from nodes only,
\* whatever the patterns replaced and deleted.
THEOREM NodeRoots == MSpec => []RootsAreNodes
BY RootsInNodes, InitVInv, NextVInv, PTL DEF MSpec

-----------------------------------------------------------------------------
(* The search.                                                             *)

Leads(edges) == {<<e.src, e.dst>> : e \in edges}

Between(N, edges) == \A e \in edges : e.src \in N /\ e.dst \in N

\* The calls that have not returned, p, are a path of the graph. When the calls
\* from s returned, every node an edge led to had returned before, or was still
\* on the path: then the edge closes a cycle.
Visits(N, edges, p, s) ==
  /\ p \in Seq(N) /\ s \in Seq(N)
  /\ IsInjective(p) /\ IsInjective(s)
  /\ Range(p) \cap Range(s) = {}
  /\ \A j \in 1 .. Len(p) - 1 : <<p[j], p[j + 1]>> \in Leads(edges)
  /\ \A j \in DOMAIN s : \A e \in edges : e.src = s[j] =>
       \/ \E k \in DOMAIN s : k < j /\ s[k] = e.dst
       \/ Below(Leads(edges), e.dst, e.src)

\* A search from a node that was not visited.
LEMMA VisitFrom ==
  ASSUME NEW N, NEW edges, NEW s, Visits(N, edges, <<>>, s),
         NEW v \in N, v \notin Range(s)
  PROVE  Visits(N, edges, <<v>>, s)
<1>1. <<v>> \in Seq(N) /\ IsInjective(<<v>>) /\ Range(<<v>>) = {v} /\ Len(<<v>>) = 1
  BY DEF IsInjective, Range
<1>2. 1 .. Len(<<v>>) - 1 = {}
  BY <1>1
<1> QED
  BY <1>1, <1>2 DEF Visits

\* A call for a successor that was not visited.
LEMMA VisitDown ==
  ASSUME NEW N, NEW edges, NEW p, NEW s, Visits(N, edges, p, s), p # <<>>,
         NEW e \in edges, e.src = Last(p), e.dst \in N, e.dst \notin Range(p) \cup Range(s)
  PROVE  Visits(N, edges, Append(p, e.dst), s)
<1> DEFINE q == Append(p, e.dst)
           n == Len(p)
<1>1. p \in Seq(N) /\ n \in Nat /\ n # 0 /\ DOMAIN p = 1 .. n
  BY DEF Visits
<1>2. /\ q \in Seq(N) /\ Len(q) = n + 1 /\ DOMAIN q = 1 .. n + 1
      /\ q[n + 1] = e.dst
      /\ \A i \in 1 .. n : q[i] = p[i]
  BY <1>1
<1>3. p[n] = e.src
  BY DEF Last
<1> HIDE DEF q, n
<1>4. \A i \in 1 .. n : p[i] # e.dst /\ p[i] \in Range(p)
  BY <1>1 DEF Range
<1>5. IsInjective(q)
  <2>1. ASSUME NEW i \in 1 .. n + 1, NEW j \in 1 .. n + 1, q[i] = q[j]
        PROVE  i = j
    <3>1. CASE i \in 1 .. n /\ j \in 1 .. n
      <4>1. p[i] = p[j]
        BY <1>2, <2>1, <3>1
      <4> QED
        BY <1>1, <3>1, <4>1 DEF Visits, IsInjective
    <3>2. CASE i = n + 1 \/ j = n + 1
      BY <1>1, <1>2, <1>4, <2>1, <3>2
    <3> QED
      BY <1>1, <3>1, <3>2
  <2> QED
    BY <1>2, <2>1 DEF IsInjective
<1>6. Range(q) \cap Range(s) = {}
  <2>1. ASSUME NEW i \in 1 .. n + 1
        PROVE  q[i] \notin Range(s)
    <3>1. CASE i \in 1 .. n
      BY <1>2, <1>4, <3>1 DEF Visits
    <3>2. CASE i = n + 1
      BY <1>2, <3>2
    <3> QED
      BY <1>1, <3>1, <3>2
  <2> QED
    BY <1>2, <2>1 DEF Range
<1>7. ASSUME NEW j \in 1 .. Len(q) - 1
      PROVE  <<q[j], q[j + 1]>> \in Leads(edges)
  <2>1. j \in 1 .. n
    BY <1>1, <1>2
  <2>2. CASE j = n
    <3>1. q[j] = e.src /\ q[j + 1] = e.dst
      BY <1>1, <1>2, <1>3, <2>1, <2>2
    <3> QED
      BY <3>1 DEF Leads
  <2>3. CASE j # n
    <3>1. j \in 1 .. n - 1 /\ j + 1 \in 1 .. n
      BY <1>1, <2>1, <2>3
    <3>2. <<p[j], p[j + 1]>> \in Leads(edges)
      BY <3>1 DEF Visits, n
    <3> QED
      BY <1>2, <2>1, <3>1, <3>2
  <2> QED
    BY <2>2, <2>3
<1> QED
  BY <1>2, <1>5, <1>6, <1>7 DEF Visits, q

\* A call that returns: what its node leads to has been visited.
LEMMA VisitUp ==
  ASSUME NEW N, NEW edges, NEW p, NEW s, Visits(N, edges, p, s), p # <<>>,
         \A e \in edges : e.src = Last(p) => e.dst \in Range(p) \cup Range(s)
  PROVE  Visits(N, edges, Front(p), Append(s, Last(p)))
<1> DEFINE n == Len(p)
           m == Len(s)
           v == Last(p)
           q == Front(p)
           t == Append(s, v)
<1>1. /\ p \in Seq(N) /\ n \in Nat /\ n # 0 /\ DOMAIN p = 1 .. n
      /\ s \in Seq(N) /\ m \in Nat /\ DOMAIN s = 1 .. m
  BY DEF Visits
<1>2. v = p[n] /\ n \in DOMAIN p /\ v \in N
  BY <1>1 DEF Last
<1>3. /\ q \in Seq(N) /\ Len(q) = n - 1 /\ DOMAIN q = 1 .. n - 1
      /\ \A i \in 1 .. n - 1 : q[i] = p[i]
  <2>1. q = SubSeq(p, 1, n - 1)
    BY DEF Front
  <2> HIDE DEF q, n
  <2> QED
    BY <1>1, <2>1 DEF n
<1>4. /\ t \in Seq(N) /\ Len(t) = m + 1 /\ DOMAIN t = 1 .. m + 1
      /\ t[m + 1] = v
      /\ \A i \in 1 .. m : t[i] = s[i]
  BY <1>1, <1>2
<1> HIDE DEF n, m, v, q, t
<1>5. \A i \in 1 .. n, j \in 1 .. n : p[i] = p[j] => i = j
  BY <1>1 DEF Visits, IsInjective
<1>6. \A i \in 1 .. m, j \in 1 .. m : s[i] = s[j] => i = j
  BY <1>1 DEF Visits, IsInjective
<1>7. \A i \in 1 .. n, j \in 1 .. m : p[i] # s[j]
  BY <1>1 DEF Visits, Range
<1>8. IsInjective(q)
  BY <1>1, <1>3, <1>5 DEF IsInjective
<1>9. IsInjective(t)
  <2>1. ASSUME NEW i \in 1 .. m + 1, NEW j \in 1 .. m + 1, t[i] = t[j]
        PROVE  i = j
    <3>1. CASE i \in 1 .. m /\ j \in 1 .. m
      BY <1>4, <1>6, <2>1, <3>1
    <3>2. CASE i = m + 1 \/ j = m + 1
      BY <1>1, <1>2, <1>4, <1>7, <2>1, <3>2
    <3> QED
      BY <1>1, <3>1, <3>2
  <2> QED
    BY <1>4, <2>1 DEF IsInjective
<1>10. Range(q) \cap Range(t) = {}
  <2>1. ASSUME NEW i \in 1 .. n - 1, NEW j \in 1 .. m + 1
        PROVE  q[i] # t[j]
    <3>1. q[i] = p[i] /\ i \in 1 .. n /\ i # n
      BY <1>1, <1>3
    <3>2. CASE j \in 1 .. m
      BY <1>4, <1>7, <3>1, <3>2
    <3>3. CASE j = m + 1
      BY <1>1, <1>2, <1>4, <1>5, <3>1, <3>3
    <3> QED
      BY <1>1, <3>2, <3>3
  <2> QED
    BY <1>3, <1>4, <2>1 DEF Range
<1>11. ASSUME NEW j \in 1 .. Len(q) - 1
       PROVE  <<q[j], q[j + 1]>> \in Leads(edges)
  <2>1. j \in 1 .. Len(p) - 1 /\ j \in 1 .. n - 1 /\ j + 1 \in 1 .. n - 1
    BY <1>1, <1>3 DEF n
  <2>2. <<p[j], p[j + 1]>> \in Leads(edges)
    BY <2>1 DEF Visits
  <2> QED
    BY <1>3, <2>1, <2>2
<1>12. ASSUME NEW j \in DOMAIN t, NEW e \in edges, e.src = t[j]
       PROVE  \/ \E k \in DOMAIN t : k < j /\ t[k] = e.dst
              \/ Below(Leads(edges), e.dst, e.src)
  <2>1. CASE j \in 1 .. m
    <3>1. \/ \E k \in DOMAIN s : k < j /\ s[k] = e.dst
          \/ Below(Leads(edges), e.dst, e.src)
      BY <1>1, <1>4, <1>12, <2>1 DEF Visits
    <3> QED
      BY <1>1, <1>4, <3>1
  <2>2. CASE j = m + 1
    <3>1. e.src = v /\ e.dst \in Range(p) \cup Range(s)
      BY <1>4, <1>12, <2>2 DEF v
    <3>2. CASE e.dst \in Range(s)
      BY <1>1, <1>4, <2>2, <3>2 DEF Range
    <3>3. CASE e.dst \in Range(p)
      <4>1. PICK i \in 1 .. n : p[i] = e.dst
        BY <1>1, <3>3 DEF Range
      <4>2. CASE i = n
        <5>1. <<v, v>> \in Leads(edges) /\ e.dst = v
          BY <1>2, <3>1, <4>1, <4>2 DEF Leads
        <5>2. Below(Leads(edges), v, v)
          BY <5>1 DEF Below
        <5> QED
          BY <3>1, <5>1, <5>2
      <4>3. CASE i # n
        <5>1. i \in DOMAIN p /\ n \in DOMAIN p /\ i < n
          BY <1>1, <4>3
        <5>2. \A k \in 1 .. Len(p) - 1 : <<p[k], p[k + 1]>> \in Leads(edges)
          BY DEF Visits
        <5>3. Below(Leads(edges), p[i], p[n])
          BY <1>1, <5>1, <5>2, PathLeadsBelow
        <5> QED
          BY <1>2, <3>1, <4>1, <5>3
      <4> QED
        BY <4>2, <4>3
    <3> QED
      BY <3>1, <3>2, <3>3
  <2> QED
    BY <1>1, <1>4, <2>1, <2>2
<1> QED
  BY <1>3, <1>4, <1>8, <1>9, <1>10, <1>11, <1>12 DEF Visits, q, t, v

\* When all nodes have been visited and the edges that do not lead deeper are
\* dropped, a number grows along the others, and none is lost but those that
\* close a cycle.
LEMMA WhatSurvives ==
  ASSUME NEW N, NEW edges, Between(N, edges), NEW s, Visits(N, edges, <<>>, s),
         N \subseteq Range(s)
  PROVE  /\ Depths(edges, Reverse(s)) \in [N -> Nat]
         /\ Surviving(edges, Reverse(s)) \subseteq edges
         /\ \A e \in Surviving(edges, Reverse(s)) :
              Depths(edges, Reverse(s))[e.src] < Depths(edges, Reverse(s))[e.dst]
         /\ \A e \in edges :
              ~Below(Leads(edges), e.dst, e.src) => e \in Surviving(edges, Reverse(s))
<1> DEFINE r == Reverse(s)
           m == Len(s)
           D == Depths(edges, r)
<1>1. s \in Seq(N) /\ m \in Nat /\ DOMAIN s = 1 .. m /\ IsInjective(s)
  BY DEF Visits
<1>2. /\ r \in Seq(N) /\ DOMAIN r = 1 .. m
      /\ \A i \in 1 .. m : r[i] = s[m - i + 1] /\ m - i + 1 \in 1 .. m
  <2>1. r = [i \in 1 .. m |-> s[m - i + 1]]
    BY DEF Reverse
  <2>2. \A i \in 1 .. m : m - i + 1 \in 1 .. m
    BY <1>1
  <2> HIDE DEF r, m
  <2>3. \A i \in 1 .. m : s[m - i + 1] \in N
    BY <1>1, <2>2
  <2> QED
    BY <1>1, <2>1, <2>2, <2>3
<1> HIDE DEF r, m
<1>3. ASSUME NEW k \in 1 .. m
      PROVE  m - k + 1 \in 1 .. m /\ r[m - k + 1] = s[k]
  <2>1. m - k + 1 \in 1 .. m /\ m - (m - k + 1) + 1 = k
    BY <1>1
  <2> QED
    BY <1>2, <2>1
<1>4. IsInjective(r)
  <2>1. ASSUME NEW i \in 1 .. m, NEW j \in 1 .. m, r[i] = r[j]
        PROVE  i = j
    <3>1. s[m - i + 1] = s[m - j + 1] /\ m - i + 1 \in DOMAIN s /\ m - j + 1 \in DOMAIN s
      BY <1>1, <1>2, <2>1
    <3>2. m - i + 1 = m - j + 1
      BY <1>1, <3>1 DEF IsInjective
    <3> QED
      BY <1>1, <3>2
  <2> QED
    BY <1>2, <2>1 DEF IsInjective
<1>5. Range(r) = N
  <2>1. Range(r) \subseteq N
    <3>1. \A i \in 1 .. m : s[m - i + 1] \in N
      BY <1>1, <1>2
    <3>2. \A i \in 1 .. m : r[i] \in N
      BY <1>2, <3>1
    <3> QED
      BY <1>2, <3>2 DEF Range
  <2>2. ASSUME NEW v \in N PROVE v \in Range(r)
    <3>1. PICK k \in 1 .. m : s[k] = v
      BY <1>1 DEF Range
    <3> QED
      BY <1>2, <1>3, <3>1 DEF Range
  <2> QED
    BY <2>1, <2>2
<1>6. D \in [N -> Nat]
  BY <1>2, <1>5, DepthsType
<1> HIDE DEF D
<1>7. ASSUME NEW e \in edges, ~Below(Leads(edges), e.dst, e.src)
      PROVE  D[e.src] < D[e.dst]
  <2>1. PICK j \in 1 .. m : s[j] = e.src
    BY <1>1 DEF Between, Range
  <2>2. PICK k \in 1 .. m : k < j /\ s[k] = e.dst
    BY <1>1, <1>7, <2>1 DEF Visits
  <2> DEFINE a == m - j + 1
             b == m - k + 1
  <2>3. a \in DOMAIN r /\ b \in DOMAIN r /\ e.src = r[a] /\ e.dst = r[b]
    BY <1>2, <1>3, <2>1, <2>2
  <2>4. a < b
    BY <1>1, <2>2
  <2> HIDE DEF a, b
  <2> QED
    BY <1>2, <1>4, <2>3, <2>4, DepthsGrow DEF D
<1>8. Surviving(edges, r) = {e \in edges : D[e.dst] > D[e.src]}
  BY DEF Surviving, D
<1>9. \A e \in edges : D[e.dst] > D[e.src] <=> D[e.src] < D[e.dst]
  <2>1. \A e \in edges : D[e.src] \in Nat /\ D[e.dst] \in Nat
    BY <1>6 DEF Between
  <2> QED
    BY <2>1
<1> QED
  BY <1>6, <1>7, <1>8, <1>9 DEF r, D

\* The edges of the graph that the search is about: all of those that are
\* written, or drawn, before any is dropped.
Whole == IF output \in {"writing", "written"} THEN AllEdges ELSE DrawnEdges

\* The number of a record, and the edges in terms of it.
Number(x, l, i) == Cardinality({j \in 1 .. i - 1 : TakesNumber(view[x][l][j])}) + 1

\* An edge of a node is one of its records that leads to a node.
LEMMA NumberedEdges ==
  ASSUME NEW x, NEW l, NEW e
  PROVE  e \in Numbered(x, l) <=>
           \E i \in DOMAIN view[x][l] :
             /\ view[x][l][i].id \in Nodes /\ ~Delta!hasXBeenRemoved(view[x][l][i].id)
             /\ e = [src |-> x, label |-> l, no |-> Number(x, l, i), dst |-> view[x][l][i].id]
<1>1. Numbered(x, l) =
        {[src |-> x, label |-> l, no |-> Number(x, l, i), dst |-> view[x][l][i].id] :
           i \in {j \in DOMAIN view[x][l] :
                    view[x][l][j].id \in Nodes /\ ~Delta!hasXBeenRemoved(view[x][l][j].id)}}
  BY DEF Numbered, Number
<1> QED
  BY <1>1

\* The edges of the written and of the drawn graph are between its nodes.
LEMMA WholeIsBetween ==
  ASSUME TRUE
  PROVE  Between(Nodes, AllEdges) /\ Between(Shown, DrawnEdges)
<1>1. ASSUME NEW e \in AllEdges
      PROVE  e.src \in Nodes /\ e.dst \in Nodes
  <2>1. PICK x \in Nodes, l \in Labels : e \in Numbered(x, l)
    BY DEF AllEdges
  <2> QED
    BY <2>1, NumberedEdges
<1>2. ASSUME NEW e \in DrawnEdges
      PROVE  e.src \in Shown /\ e.dst \in Shown
  <2>1. PICK x \in Shown, l \in Labels : e \in Drawn(x, l)
    BY DEF DrawnEdges
  <2> QED
    BY <2>1 DEF Drawn
<1> QED
  BY <1>1, <1>2 DEF Between

\* What holds while the search goes on and when it is over.
SearchInv ==
  /\ VInv
  /\ output = "none" => path = <<>> /\ Stack = <<>>
  /\ Visits(nodes, Whole, path, Stack)
  /\ Searching => simpleGraphs = Whole
  /\ output \in {"written", "drawn"} =>
       /\ path = <<>>
       /\ nodes \subseteq Range(Stack)
       /\ simpleGraphs = Surviving(Whole, Reverse(Stack))
  /\ output = "written" => dbs = Serialised(simpleGraphs)

\* A search that has not begun has visited nothing.
LEMMA NoVisits ==
  ASSUME NEW N, NEW edges
  PROVE  Visits(N, edges, <<>>, <<>>)
<1>1. <<>> \in Seq(N) /\ IsInjective(<<>>) /\ Range(<<>>) = {} /\ DOMAIN <<>> = {}
  BY DEF IsInjective, Range
<1>2. 1 .. Len(<<>>) - 1 = {}
  OBVIOUS
<1> QED
  BY <1>1, <1>2 DEF Visits

\* At first nothing has been visited.
LEMMA InitSearchInv == MInit => SearchInv
<1> SUFFICES ASSUME MInit PROVE SearchInv
  OBVIOUS
<1>1. VInv
  BY InitVInv
<1>2. Visits(nodes, Whole, path, Stack)
  BY NoVisits DEF MInit
<1> QED
  BY <1>1, <1>2 DEF MInit, SearchInv, Searching

\* The edges of the graph depend on the engine and on the view only.
LEMMA EdgesKept ==
  ASSUME UNCHANGED <<vars, view>>
  PROVE  UNCHANGED <<Nodes, Shown, AllEdges, DrawnEdges>>
<1>1. /\ UNCHANGED removed
      /\ \A x : Delta!hasXBeenRemoved(x)' <=> Delta!hasXBeenRemoved(x)
  BY ViewKept
<1>2. UNCHANGED <<Nodes, Shown>>
  BY <1>1 DEF Nodes, Shown
<1>3. \A x, l : Numbered(x, l)' = Numbered(x, l)
  BY DEF Numbered, TakesNumber, Nodes, Delta!hasXBeenRemoved, vars, store
<1>4. \A x, l : Drawn(x, l)' = Drawn(x, l)
  BY <1>2 DEF Drawn
<1> QED
  BY <1>2, <1>3, <1>4 DEF AllEdges, DrawnEdges

\* What is written for given edges depends on the engine and on the view only.
LEMMA SerialisedKept ==
  ASSUME UNCHANGED <<vars, view>>
  PROVE  Serialised(simpleGraphs)' = Serialised(simpleGraphs')
<1>1. Nodes' = Nodes /\ view' = view
  BY EdgesKept
<1> QED
  BY <1>1 DEF Serialised

\* A search about the same graph, of which something is not changed.
LEMMA WholeKept ==
  ASSUME UNCHANGED <<vars, view, output>>
  PROVE  UNCHANGED <<nodes, Whole, Searching>>
BY EdgesKept DEF nodes, Whole, Searching

\* Every step of the search keeps its invariant.
LEMMA NextSearchInv == SearchInv /\ [MNext]_mvars => SearchInv'
<1> SUFFICES ASSUME SearchInv, [MNext]_mvars PROVE SearchInv'
  OBVIOUS
<1> USE DEF Searching
<1>1. VInv /\ VInv'
  BY NextVInv DEF SearchInv
<1>2. output # "none" => UNCHANGED <<vars, view>>
  BY EngineStep DEF SearchInv, VInv
<1>3. CASE rewrite
  <2>1. UNCHANGED <<output, simpleGraphs, path, Stack, dbs>>
    BY <1>3 DEF rewrite, search
  <2>2. CASE output = "none"
    <3>1. Visits(nodes', Whole', path', Stack')
      BY <2>1, <2>2, NoVisits DEF SearchInv
    <3> QED
      BY <1>1, <2>1, <2>2, <3>1 DEF SearchInv
  <2>3. CASE output # "none"
    BY <1>1, <1>2, <2>1, <2>3, WholeKept, SerialisedKept DEF SearchInv
  <2> QED
    BY <2>2, <2>3
<1>4. CASE generate_materialised_view
  <2>1. output = "none" /\ UNCHANGED <<output, simpleGraphs, path, Stack, dbs>>
    BY <1>1, <1>4 DEF generate_materialised_view, search, VInv
  <2>2. Visits(nodes', Whole', path', Stack')
    BY <2>1, NoVisits DEF SearchInv
  <2> QED
    BY <1>1, <2>1, <2>2 DEF SearchInv
<1>5. CASE fillInForSerialization \/ generateGraphsFromMaterialisedViews
  <2>1. /\ output = "none" /\ output' \in {"writing", "drawing"}
        /\ UNCHANGED <<vars, view, path, Stack>>
        /\ simpleGraphs' = IF output' = "writing" THEN AllEdges ELSE DrawnEdges
    BY <1>5 DEF fillInForSerialization, generateGraphsFromMaterialisedViews, search
  <2>2. simpleGraphs' = Whole'
    BY <2>1, EdgesKept DEF Whole
  <2>3. Visits(nodes', Whole', path', Stack')
    BY <2>1, NoVisits DEF SearchInv
  <2>4. path' = <<>> /\ Stack' = <<>>
    BY <2>1 DEF SearchInv
  <2> QED
    BY <1>1, <2>1, <2>2, <2>3, <2>4 DEF SearchInv
<1>6. CASE searchFrom
  <2>1. /\ Searching /\ path = <<>>
        /\ UNCHANGED <<vars, view, output, simpleGraphs, Stack, dbs>>
    BY <1>6 DEF searchFrom
  <2>2. PICK v \in (IF initialNodes \subseteq visited THEN nodes ELSE initialNodes) \ visited :
               path' = <<v>>
    BY <1>6 DEF searchFrom
  <2>3. initialNodes \subseteq nodes
    <3>1. RootsAreNodes /\ isMaterialised
      BY <1>1, <2>1, RootsInNodes DEF VInv
    <3> QED
      BY <2>1, <3>1 DEF initialNodes, nodes, RootsAreNodes
  <2>4. v \in nodes /\ v \notin Range(Stack)
    BY <2>2, <2>3 DEF visited
  <2>5. Visits(nodes, Whole, <<v>>, Stack)
    BY <2>1, <2>4, VisitFrom DEF SearchInv
  <2>6. Visits(nodes', Whole', path', Stack')
    BY <2>1, <2>2, <2>5, WholeKept
  <2> QED
    BY <1>1, <2>1, <2>6, WholeKept DEF SearchInv
<1>7. CASE descend
  <2>1. /\ Searching /\ path # <<>>
        /\ UNCHANGED <<vars, view, output, simpleGraphs, Stack, dbs>>
    BY <1>7 DEF descend
  <2>2. PICK v \in successors(Last(path)) \ visited : path' = Append(path, v)
    BY <1>7 DEF descend
  <2>3. PICK e \in Whole : e.src = Last(path) /\ e.dst = v
    BY <2>1, <2>2 DEF SearchInv, successors
  <2>4. v \in nodes /\ v \notin Range(path) \cup Range(Stack)
    BY <2>1, <2>2, <2>3, WholeIsBetween DEF visited, Between, nodes, Whole
  <2>5. Visits(nodes, Whole, Append(path, v), Stack)
    BY <2>1, <2>3, <2>4, VisitDown DEF SearchInv
  <2>6. Visits(nodes', Whole', path', Stack')
    BY <2>1, <2>2, <2>5, WholeKept
  <2> QED
    BY <1>1, <2>1, <2>6, WholeKept DEF SearchInv
<1>8. CASE ascend
  <2>1. /\ Searching /\ path # <<>>
        /\ successors(Last(path)) \subseteq visited
        /\ Stack' = Append(Stack, Last(path))
        /\ path' = Front(path)
        /\ UNCHANGED <<vars, view, output, simpleGraphs, dbs>>
    BY <1>8 DEF ascend
  <2>2. \A e \in Whole : e.src = Last(path) => e.dst \in Range(path) \cup Range(Stack)
    BY <2>1 DEF SearchInv, successors, visited
  <2>3. Visits(nodes, Whole, Front(path), Append(Stack, Last(path)))
    BY <2>1, <2>2, VisitUp DEF SearchInv
  <2>4. Visits(nodes', Whole', path', Stack')
    BY <2>1, <2>3, WholeKept
  <2> QED
    BY <1>1, <2>1, <2>4, WholeKept DEF SearchInv
<1>9. CASE write \/ draw
  <2>1. /\ path = <<>>
        /\ nodes \subseteq Range(Stack)
        /\ simpleGraphs' = Surviving(simpleGraphs, Reverse(Stack))
        /\ UNCHANGED <<vars, view, path, Stack>>
        /\ \/ output = "writing" /\ output' = "written" /\ dbs' = Serialised(simpleGraphs')
           \/ output = "drawing" /\ output' = "drawn"
    <3>1. Range(path) = {} \/ path # <<>>
      BY DEF Range
    <3> QED
      BY <1>9, <3>1 DEF write, draw, breakCycles, visited, search
  <2>2. UNCHANGED <<nodes, Whole>>
    BY <2>1, EdgesKept DEF nodes, Whole
  <2>3. simpleGraphs' = Surviving(Whole', Reverse(Stack'))
    BY <2>1, <2>2 DEF SearchInv
  <2>4. Visits(nodes', Whole', path', Stack')
    BY <2>1, <2>2 DEF SearchInv
  <2>5. output' = "written" => dbs' = Serialised(simpleGraphs)'
    BY <2>1, SerialisedKept
  <2> QED
    BY <1>1, <2>1, <2>2, <2>3, <2>4, <2>5 DEF SearchInv
<1>10. CASE UNCHANGED mvars
  <2>1. UNCHANGED <<vars, view, output, simpleGraphs, path, Stack, dbs>>
    BY <1>10 DEF mvars, search
  <2> QED
    BY <1>1, <2>1, WholeKept, SerialisedKept DEF SearchInv
<1> QED
  BY <1>3, <1>4, <1>5, <1>6, <1>7, <1>8, <1>9, <1>10 DEF MNext

-----------------------------------------------------------------------------
(* The graph that is made.                                                 *)

\* The records of a node are those of Materialised.
LEMMA NodeRecords ==
  ASSUME VInv, isMaterialised, NEW x \in DOMAIN view, NEW l \in Labels
  PROVE  /\ view[x][l] = Materialised(x)[l]
         /\ view[x][l] \in Seq(Contents)
         /\ Len(view[x][l]) \in Nat
         /\ DOMAIN view[x][l] = 1 .. Len(view[x][l])
<1>1. TInv /\ view = [y \in Kept |-> Materialised(y)]
  BY DEF VInv
<1>2. view[x][l] = Materialised(x)[l]
  BY <1>1
<1>3. view[x][l] \in Seq(Contents)
  BY <1>1, <1>2, MaterialisedLists
<1> QED
  BY <1>2, <1>3

\* When all records before it take a number, a record's number is its position.
LEMMA NumberIsPosition ==
  ASSUME NEW x, NEW l, NEW i \in Nat \ {0},
         \A j \in 1 .. i - 1 : TakesNumber(view[x][l][j])
  PROVE  Number(x, l, i) = i
<1> DEFINE before == {j \in 1 .. i - 1 : TakesNumber(view[x][l][j])}
<1>1. before = 1 .. i - 1
  OBVIOUS
<1>2. i - 1 \in Nat /\ 1 \in Int
  OBVIOUS
<1>3. Cardinality(1 .. i - 1) = i - 1
  <2>1. Cardinality(1 .. i - 1) = IF 1 > i - 1 THEN 0 ELSE i - 1 - 1 + 1
    BY <1>2, FS_Interval
  <2> QED
    BY <1>2, <2>1
<1>4. Number(x, l, i) = Cardinality(before) + 1
  BY DEF Number
<1> HIDE DEF before
<1> QED
  BY <1>1, <1>2, <1>3, <1>4

\* The edges of the graph are containment of the view.
LEMMA EdgesAreContained ==
  ASSUME VInv, isMaterialised
  PROVE  Leads(AllEdges) \cup Leads(DrawnEdges) \subseteq Containment(view)
<1>1. ASSUME NEW x \in DOMAIN view, NEW l \in Labels, NEW i \in DOMAIN view[x][l]
      PROVE  <<x, view[x][l][i].id>> \in Containment(view)
  <2> DEFINE P == UNION {{<<y, m, j>> : j \in DOMAIN view[y][m]} : y \in DOMAIN view, m \in Labels}
  <2>1. <<x, l, i>> \in P
    <3> DEFINE own == {<<x, l, j>> : j \in DOMAIN view[x][l]}
               all == {{<<y, m, j>> : j \in DOMAIN view[y][m]} : y \in DOMAIN view, m \in Labels}
    <3>1. own \in all
      OBVIOUS
    <3>2. <<x, l, i>> \in own
      OBVIOUS
    <3>3. P = UNION all
      OBVIOUS
    <3> HIDE DEF own, all, P
    <3> QED
      BY <3>1, <3>2, <3>3
  <2>2. Containment(view) = {<<p[1], view[p[1]][p[2]][p[3]].id>> : p \in P}
    BY DEF Containment
  <2> HIDE DEF P
  <2> QED
    BY <2>1, <2>2
<1>2. ASSUME NEW e \in AllEdges
      PROVE  <<e.src, e.dst>> \in Containment(view)
  <2>1. PICK x \in Nodes, l \in Labels : e \in Numbered(x, l)
    BY DEF AllEdges
  <2>2. PICK i \in DOMAIN view[x][l] : e.src = x /\ e.dst = view[x][l][i].id
    BY <2>1, NumberedEdges
  <2> QED
    BY <1>1, <2>2 DEF Nodes
<1>3. ASSUME NEW e \in DrawnEdges
      PROVE  <<e.src, e.dst>> \in Containment(view)
  <2>1. PICK x \in Shown, l \in Labels : e \in Drawn(x, l)
    BY DEF DrawnEdges
  <2>2. PICK i \in DOMAIN view[x][l] : e.src = x /\ e.dst = view[x][l][i].id
    BY <2>1 DEF Drawn
  <2> QED
    BY <1>1, <2>2 DEF Shown
<1> QED
  BY <1>2, <1>3 DEF Leads

\* What is left of the graph when cycles have been broken.
LEMMA MadeGraph ==
  ASSUME SearchInv, output \in {"written", "drawn"}
  PROVE  /\ simpleGraphs \subseteq Whole
         /\ GraphContainment \in SUBSET (nodes \X nodes)
         /\ \E rank \in [nodes -> Nat] : \A p \in GraphContainment : rank[p[1]] < rank[p[2]]
         /\ \A e \in Whole : ~Below(Containment(view), e.dst, e.src) => e \in simpleGraphs
<1>1. /\ VInv /\ isMaterialised
      /\ Visits(nodes, Whole, <<>>, Stack)
      /\ nodes \subseteq Range(Stack)
      /\ simpleGraphs = Surviving(Whole, Reverse(Stack))
  BY DEF SearchInv, VInv
<1>2. Between(nodes, Whole)
  BY WholeIsBetween DEF nodes, Whole
<1> DEFINE rank == Depths(Whole, Reverse(Stack))
<1>3. /\ rank \in [nodes -> Nat]
      /\ simpleGraphs \subseteq Whole
      /\ \A e \in simpleGraphs : rank[e.src] < rank[e.dst]
      /\ \A e \in Whole : ~Below(Leads(Whole), e.dst, e.src) => e \in simpleGraphs
  BY <1>1, <1>2, WhatSurvives
<1> HIDE DEF rank
<1>4. GraphContainment \in SUBSET (nodes \X nodes)
  BY <1>2, <1>3 DEF GraphContainment, Between
<1>5. \A p \in GraphContainment : rank[p[1]] < rank[p[2]]
  BY <1>3 DEF GraphContainment
<1>6. Leads(Whole) \subseteq Containment(view)
  BY <1>1, EdgesAreContained DEF Whole
<1>7. \A e \in Whole : Below(Leads(Whole), e.dst, e.src) => Below(Containment(view), e.dst, e.src)
  BY <1>6, BelowGrows
<1> QED
  BY <1>3, <1>4, <1>5, <1>7

\* The records that are written out hold edges of the graph, provided that the
\* numbers agree with the positions.
LEMMA WrittenContainment ==
  ASSUME SearchInv, output = "written", EveryRecordCounts
  PROVE  Containment(dbs) \subseteq GraphContainment
<1>1. VInv /\ isMaterialised /\ dbs = Serialised(simpleGraphs) /\ simpleGraphs \subseteq AllEdges
  BY MadeGraph DEF SearchInv, VInv, Whole
<1> SUFFICES ASSUME NEW x \in DOMAIN dbs, NEW l \in Labels, NEW k \in DOMAIN dbs[x][l]
             PROVE  <<x, dbs[x][l][k].id>> \in GraphContainment
  BY DEF Containment
<1> DEFINE recs == view[x][l]
           numbers == {e.no : e \in {d \in simpleGraphs : d.src = x /\ d.label = l}}
           I == {i \in DOMAIN recs : i \in numbers}
<1>2. x \in Nodes /\ x \in DOMAIN view
  BY <1>1 DEF Serialised, Nodes
<1>3. dbs[x][l] = Select(recs, I)
  BY <1>1, <1>2 DEF Serialised
<1>4. Len(recs) \in Nat /\ DOMAIN recs = 1 .. Len(recs)
  BY <1>1, <1>2, NodeRecords
<1>5. ASSUME NEW i \in I
      PROVE  <<x, recs[i].id>> \in GraphContainment
  <2>1. PICK e \in simpleGraphs : e.src = x /\ e.label = l /\ e.no = i
    BY <1>5
  <2>2. PICK y \in Nodes, m \in Labels : e \in Numbered(y, m)
    BY <1>1, <2>1 DEF AllEdges
  <2>3. PICK j \in DOMAIN view[y][m] :
          e = [src |-> y, label |-> m, no |-> Number(y, m, j), dst |-> view[y][m][j].id]
    BY <2>2, NumberedEdges
  <2>4. y = x /\ m = l /\ Number(x, l, j) = i /\ e.dst = recs[j].id /\ j \in DOMAIN recs
    BY <2>1, <2>3
  <2>5. j \in Nat \ {0} /\ \A n \in 1 .. j - 1 : TakesNumber(recs[n])
    BY <1>2, <1>4, <2>4 DEF EveryRecordCounts
  <2>6. Number(x, l, j) = j
    BY <2>5, NumberIsPosition
  <2> QED
    BY <2>1, <2>4, <2>6 DEF GraphContainment
<1> DEFINE T == {recs[i] : i \in I}
<1>6. /\ I \in SUBSET (1 .. Len(recs)) 
      /\ \A i \in I : recs[i] \in T
      /\ \A r \in T : \E i \in I : r = recs[i]
  BY <1>4
<1> HIDE DEF recs, I, T
<1>7. Select(recs, I) \in Seq(T)
  BY <1>4, <1>6, SelectKeeps
<1>8. dbs[x][l][k] \in T
  BY <1>3, <1>7
<1> QED
  BY <1>5, <1>6, <1>8

\* The graph that is drawn has no cycle, whatever cycles the patterns introduced;
\* nor has the one that is written, when the records are written that were
\* numbered.
THEOREM AcyclicOutput == MSpec => []OutputAcyclic
<1>1. SearchInv => OutputAcyclic
  <2> SUFFICES ASSUME SearchInv PROVE OutputAcyclic
    OBVIOUS
  <2>1. ASSUME output \in {"written", "drawn"}, NEW x
        PROVE  ~Below(GraphContainment, x, x)
    <3>1. /\ GraphContainment \in SUBSET (nodes \X nodes)
          /\ \E rank \in [nodes -> Nat] : \A p \in GraphContainment : rank[p[1]] < rank[p[2]]
      BY <2>1, MadeGraph
    <3>2. PICK rank \in [nodes -> Nat] : \A p \in GraphContainment : rank[p[1]] < rank[p[2]]
      BY <3>1
    <3> QED
      BY <3>1, <3>2, RankedIsAcyclic
  <2>2. ASSUME output = "written", EveryRecordCounts, NEW x
        PROVE  ~Below(Containment(dbs), x, x)
    <3>1. Containment(dbs) \subseteq GraphContainment
      BY <2>2, WrittenContainment
    <3>2. ~Below(GraphContainment, x, x)
      BY <2>1, <2>2
    <3> QED
      BY <3>1, <3>2, BelowGrows
  <2> QED
    BY <2>1, <2>2 DEF OutputAcyclic
<1> QED
  BY <1>1, InitSearchInv, NextSearchInv, PTL DEF MSpec

\* When the chains of replacements end, every record of a loaded object that is
\* kept takes a number: what it refers to is a node, or deleted for good.
LEMMA LoadedRecordsCount ==
  ASSUME VInv, isMaterialised, EveryChainEnds,
         NEW x \in Nodes, x \in Legacy, NEW l \in Labels, NEW i \in DOMAIN view[x][l]
  PROVE  TakesNumber(view[x][l][i])
<1>1. x \in DOMAIN view /\ ~Delta!hasXBeenRemoved(x) /\ TInv
  BY DEF Nodes, Delta!hasXBeenRemoved, VInv
<1>2. view[x][l] = Materialised(x)[l]
  BY <1>1, NodeRecords
<1> DEFINE recs == Materialised(x)[l]
<1>3. \A j \in DOMAIN recs : \E z \in Delta!Known : recs[j].id = Delta!replacedWith(z)
  BY <1>1, MaterialisedLists
<1> HIDE DEF recs
<1>4. PICK z \in Delta!Known : recs[i].id = Delta!replacedWith(z)
  BY <1>2, <1>3 DEF recs
<1> DEFINE y == Delta!replacedWith(z)
<1>5. y \in Nodes \cup removed
  BY RepresentativesAreNodes
<1>6. y \notin DOMAIN repl
  <2>1. CASE z \in DOMAIN repl
    BY <2>1 DEF EveryChainEnds
  <2>2. CASE z \notin DOMAIN repl
    <3>1. Partial(repl, Delta!Ids) /\ y = End(repl, Delta!Ids, z) /\ z \in Delta!Ids
      BY <1>1, ReplacementsArePartial, ResolvingKnown, LegacyMaxIsNat, MaxNewIsNat
         DEF TInv, RInv, SInv, Delta!TypeOK, Delta!Known, Delta!Ids
    <3>2. {z} \in SUBSET Delta!Ids
      BY <3>1
    <3>3. End(repl, Delta!Ids, z) = z
      BY <2>2, <3>1, <3>2, WalkEnds DEF End
    <3> QED
      BY <2>2, <3>1, <3>3
  <2> QED
    BY <2>1, <2>2
<1> HIDE DEF y
<1>7. y \in Nodes \/ Delta!hasXBeenRemoved(y)
  BY <1>5, <1>6 DEF Delta!hasXBeenRemoved
<1> QED
  BY <1>2, <1>4, <1>7 DEF TakesNumber, y, recs

\* The loaded edges that were not deleted are in the result, with the object that
\* stands for the one they led to, unless they close a cycle.
THEOREM EdgesKeepLeading == MSpec => []EdgesFollowReplacement
<1>1. SearchInv => EdgesFollowReplacement
  <2> SUFFICES ASSUME SearchInv, output \in {"written", "drawn"}, NEW e \in DOMAIN graph,
                      graph[e][1] \in Nodes,
                      Delta!replacedWith(graph[e][2]) \in Nodes,
                      e \notin removedEdges,
                      ~Below(Containment(view), Delta!replacedWith(graph[e][2]), graph[e][1])
               PROVE  /\ output = "written" /\ EveryChainEnds =>
                           Record(Delta!replacedWith(graph[e][2]), e) \in Written(graph[e][1])
                      /\ output = "drawn" =>
                           <<graph[e][1], Delta!replacedWith(graph[e][2])>> \in GraphContainment
    BY DEF EdgesFollowReplacement
  <2> DEFINE x == graph[e][1]
             y == Delta!replacedWith(graph[e][2])
             recs == view[x][Loaded]
  <2>1. VInv /\ TInv /\ isMaterialised
    BY DEF SearchInv, VInv
  <2>2. x \in Legacy
    BY <2>1 DEF TInv, RInv, MInv, InputOK, IsGraph, Legacy
  <2>3. /\ x \in DOMAIN view /\ y \in DOMAIN view
        /\ ~Delta!hasXBeenRemoved(x) /\ ~Delta!hasXBeenRemoved(y)
    BY DEF Nodes, Delta!hasXBeenRemoved
  <2>4. recs = Materialised(x)[Loaded] /\ Len(recs) \in Nat /\ DOMAIN recs = 1 .. Len(recs)
    BY <2>1, <2>3, LoadedIsLabel, NodeRecords
  <2>5. PICK i \in DOMAIN recs : recs[i] = Record(y, e)
    <3>1. \E i \in DOMAIN Materialised(x)[Loaded] : Materialised(x)[Loaded][i] = Record(y, e)
      BY <2>1, <2>2, <2>3, LoadedIsLabel, MaterialisedLists
    <3> QED
      BY <2>4, <3>1
  <2>6. recs[i].id = y
    BY <2>5 DEF Record
  <2> HIDE DEF x, y, recs
  <2>7. x \in Nodes /\ y \in Nodes /\ ~Below(Containment(view), y, x)
    BY DEF x, y
  <2>8. \A d \in Whole : d.src = x /\ d.dst = y => d \in simpleGraphs
    BY <2>7, MadeGraph
  <2>9. ASSUME output = "written", EveryChainEnds
        PROVE  Record(y, e) \in Written(x)
    <3> DEFINE d == [src |-> x, label |-> Loaded, no |-> Number(x, Loaded, i), dst |-> y]
    <3>1. d \in Numbered(x, Loaded)
      BY <2>3, <2>5, <2>6, <2>7, NumberedEdges DEF recs
    <3>2. d \in Whole /\ d.src = x /\ d.dst = y /\ d.label = Loaded
      BY <2>7, <2>9, <3>1, LoadedIsLabel DEF Whole, AllEdges
    <3>3. d \in simpleGraphs
      BY <2>8, <3>2
    <3>4. d.no = i
      <4>1. i \in Nat \ {0} /\ \A j \in 1 .. i - 1 : j \in DOMAIN recs
        BY <2>4, <2>5
      <4>2. \A j \in 1 .. i - 1 : TakesNumber(view[x][Loaded][j])
        BY <2>1, <2>2, <2>7, <2>9, <4>1, LoadedIsLabel, LoadedRecordsCount DEF recs
      <4>3. Number(x, Loaded, i) = i
        BY <4>1, <4>2, NumberIsPosition
      <4> QED
        BY <4>3
    <3> HIDE DEF d
    <3> DEFINE numbers == {c.no : c \in {b \in simpleGraphs : b.src = x /\ b.label = Loaded}}
               I == {j \in DOMAIN recs : j \in numbers}
    <3>5. i \in I
      BY <2>5, <3>2, <3>3, <3>4
    <3>6. dbs[x][Loaded] = Select(recs, I)
      <4>1. dbs = Serialised(simpleGraphs)
        BY <2>9 DEF SearchInv
      <4> QED
        BY <2>7, <4>1, LoadedIsLabel DEF Serialised, recs
    <3>7. I \in SUBSET (1 .. Len(recs))
      BY <2>4
    <3>8. PICK k \in DOMAIN Select(recs, I) : Select(recs, I)[k] = recs[i]
      <4> DEFINE n == Len(recs)
      <4>1. n \in Nat /\ I \in SUBSET (1 .. n) /\ i \in I
        BY <2>4, <3>5, <3>7
      <4> HIDE DEF n, I
      <4> QED
        BY <4>1, SelectHas
    <3> HIDE DEF I
    <3>9. Record(y, e) \in Range(dbs[x][Loaded])
      BY <2>5, <3>6, <3>8 DEF Range
    <3> QED
      BY <3>9, LoadedIsLabel DEF Written
  <2>10. ASSUME output = "drawn"
         PROVE  <<x, y>> \in GraphContainment
    <3> DEFINE d == [src |-> x, label |-> Loaded, no |-> i, dst |-> y]
    <3>1. x \in Shown /\ y \in Shown
      BY <2>3 DEF Shown, x, y
    <3>2. d \in Drawn(x, Loaded)
      BY <2>5, <2>6, <3>1 DEF Drawn, recs
    <3>3. d \in Whole /\ d.src = x /\ d.dst = y
      BY <2>10, <3>1, <3>2, LoadedIsLabel DEF Whole, DrawnEdges
    <3>4. d \in simpleGraphs
      BY <2>8, <3>3
    <3> HIDE DEF d
    <3> QED
      BY <3>3, <3>4 DEF GraphContainment
  <2> QED
    BY <2>9, <2>10 DEF x, y
<1> QED
  BY <1>1, InitSearchInv, NextSearchInv, PTL DEF MSpec
=============================================================================
