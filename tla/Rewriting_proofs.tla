-------------------------- MODULE Rewriting_proofs --------------------------
(***************************************************************************)
(* What holds of the rewriting engine for every set of graphs and every    *)
(* program of patterns, whatever the matches are. The names that           *)
(* an entry introduces are local to it, because the store hands out        *)
(* identifiers in ascending order, and all of its names are cleared before *)
(* an entry is taken up. Objects are rewritten inside out, because the     *)
(* layers of container_order grow along every edge of an acyclic graph.    *)
(*                                                                         *)
(* And what stands for what while a program runs. Replacements are         *)
(* recorded after the operations of an entry, between objects that were    *)
(* resolved before the first of them: so during the operations no fresh    *)
(* object stands for another one and, as long as an entry has one hook, a  *)
(* replacement never closes a cycle. The latter is shown by a rank of the  *)
(* objects that decreases along every replacement.                         *)
(***************************************************************************)
EXTENDS RewritingStore_proofs

Names == \A v \in Vars : \A i \in DOMAIN newVars[v] : newVars[v][i] > mark

\* The part of the state that names depend on.
NInv ==
  /\ maxId \in Nat
  /\ mark \in Nat
  /\ mark <= maxId
  /\ newVars \in [Vars -> Seq(Nat)]
  /\ pc \in Busy => Names

-----------------------------------------------------------------------------
\* At first no variable has a name.
LEMMA InitNInv == Init => NInv
BY LegacyMaxIsNat DEF Init, Delta!Init, NInv, Names, Busy

\* A step that leaves the store's names and the mark alone, and does not take
\* up an entry, keeps what is known of names.
LEMMA NamesKept ==
  ASSUME NInv, UNCHANGED <<maxId, newVars, mark>>, pc' \in Busy => pc \in Busy
  PROVE  NInv'
BY DEF NInv, Names, Busy

\* A new object gets an identifier above all earlier ones.
LEMMA NewNames ==
  ASSUME NInv, NEW v, Delta!newObjectToVariable(v), UNCHANGED mark, pc \in Busy
  PROVE  NInv'
<1>1. maxId' = maxId + 1 /\ maxId' \in Nat /\ maxId' > mark
  BY DEF NInv, Delta!newObjectToVariable
<1>2. newVars' = [newVars EXCEPT ![v] = Append(newVars[v], maxId + 1)]
  BY <1>1 DEF Delta!newObjectToVariable
<1>3. newVars' \in [Vars -> Seq(Nat)]
  <2>1. CASE v \in Vars
    <3>1. Append(newVars[v], maxId + 1) \in Seq(Nat)
      BY <1>1, <2>1 DEF NInv
    <3> QED
      BY <1>2, <3>1 DEF NInv
  <2>2. CASE v \notin Vars
    <3>1. newVars' = newVars
      BY <1>2, <2>2 DEF NInv
    <3> QED
      BY <3>1 DEF NInv
  <2> QED
    BY <2>1, <2>2
<1>4. ASSUME NEW w \in Vars, NEW i \in DOMAIN newVars'[w]
      PROVE  newVars'[w][i] > mark
  <2>1. newVars[w] \in Seq(Nat)
    BY DEF NInv
  <2>2. CASE w = v
    <3>1. newVars'[w] = Append(newVars[w], maxId + 1)
      BY <1>2, <2>2 DEF NInv
    <3>2. \/ i \in DOMAIN newVars[w] /\ newVars'[w][i] = newVars[w][i]
          \/ newVars'[w][i] = maxId + 1
      BY <1>1, <2>1, <3>1
    <3> QED
      BY <1>1, <3>2 DEF NInv, Names
  <2>3. CASE w # v
    BY <1>2, <2>3 DEF NInv, Names
  <2> QED
    BY <2>2, <2>3
<1>5. Names'
  BY <1>4 DEF Names
<1> QED
  BY <1>1, <1>3, <1>5 DEF NInv

\* Every step of the engine keeps names local.
LEMMA NextNInv == NInv /\ [Next]_vars => NInv'
<1> SUFFICES ASSUME NInv, [Next]_vars PROVE NInv'
  OBVIOUS
<1> USE NamesKept DEF store, Busy
<1>1. CASE visit
  BY <1>1 DEF visit
<1>2. CASE finish
  BY <1>2 DEF finish
<1>3. CASE startPattern
  BY <1>3 DEF startPattern
<1>4. CASE endPattern
  BY <1>4 DEF endPattern
<1>5. CASE endVertex
  BY <1>5 DEF endVertex
<1>6. CASE skipEntry
  <2>1. newVars' = [v \in Vars |-> <<>>] /\ maxId' = maxId /\ mark' = mark /\ pc' = "entry"
    BY <1>6 DEF skipEntry, Delta!clear_insertions
  <2> QED
    BY <2>1 DEF NInv
<1>7. CASE startEntry
  <2>1. newVars' = [v \in Vars |-> <<>>] /\ maxId' = maxId /\ mark' = maxId
    BY <1>7 DEF startEntry, Delta!clear_insertions
  <2> QED
    BY <2>1 DEF NInv, Names
<1>8. CASE delete
  BY <1>8 DEF delete, Delta!set_removed, Delta!edge_removed
<1>9. CASE create
  BY <1>9, NewNames DEF create
<1>10. CASE instantiateTarget
  BY <1>10, NewNames DEF instantiateTarget
<1>11. CASE assignContent
  BY <1>11 DEF assignContent, Delta!generateId
<1>12. CASE assignValue
  BY <1>12 DEF assignValue, Delta!generateId
<1>13. CASE endOps
  BY <1>13 DEF endOps
<1>14. CASE replaceHook
  BY <1>14 DEF replaceHook, Delta!replaceWith
<1>15. CASE extendContainers
  BY <1>15 DEF extendContainers, Delta!generateId
<1>16. CASE endEntry
  BY <1>16 DEF endEntry
<1>17. CASE UNCHANGED vars
  BY <1>17 DEF vars
<1> QED
  BY <1>1, <1>2, <1>3, <1>4, <1>5, <1>6, <1>7, <1>8, <1>9, <1>10, <1>11, <1>12,
     <1>13, <1>14, <1>15, <1>16, <1>17 DEF Next, terminated

\* No expression of an entry ever reads an object that another entry created
\* under the same name, in any program and on any graph.
THEOREM LocalNames == Spec => []NamesAreLocalToEntry
<1>1. NInv => NamesAreLocalToEntry
  BY DEF NInv, Names, NamesAreLocalToEntry, Busy
<1> QED
  BY <1>1, InitNInv, NextNInv, PTL DEF Spec

-----------------------------------------------------------------------------
(* Layers.                                                                 *)

\* The objects that some object of S contains.
Contained(S) == {graph[e][2] : e \in {d \in DOMAIN graph : graph[d][1] \in S}}

\* What the definition of Layer asks of front.
Onwards(f, n) == IF n = 0 THEN Vertices ELSE Contained(f[n - 1])
IsFront(f) == f = [n \in 0 .. LegacyMax |-> Onwards(f, n)]
Fronts == CHOOSE f : IsFront(f)

Layers == 0 .. LegacyMax
IsLayer(v, n) == v \in Fronts[n] /\ \A m \in n + 1 .. LegacyMax : v \notin Fronts[m]

\* A graph that can be loaded.
Loadable == graph \in {input[1] : input \in Inputs}

\* The layer of a vertex is the last front it is in.
LEMMA LayerIsGreatest ==
  ASSUME NEW v
  PROVE  Layer(v) = CHOOSE n \in Layers : IsLayer(v, n)
BY DEF Layer, Layers, IsLayer, Fronts, IsFront, Onwards, Contained

\* There is such a function: it can be defined for one more layer.
LEMMA FrontExists == \E f : IsFront(f)
<1> DEFINE Fits(f, k) == \A n \in Layers : n < k => f[n] = Onwards(f, n)
           Next1(f) == [n \in Layers |-> Onwards(f, n)]
           Reached == {k \in Nat : \E f : Fits(f, k)}
<1>1. ASSUME NEW k \in Nat, NEW f, Fits(f, k)
      PROVE  Fits(Next1(f), k + 1)
  <2>1. ASSUME NEW n \in Layers, n < k + 1
        PROVE  Next1(f)[n] = Onwards(Next1(f), n)
    <3>1. CASE n = 0
      BY <3>1 DEF Onwards
    <3>2. CASE n # 0
      <4>1. n - 1 \in Layers /\ n - 1 < k
        BY <2>1, <3>2, LegacyMaxIsNat DEF Layers
      <4>2. Next1(f)[n - 1] = f[n - 1]
        BY <1>1, <4>1
      <4> QED
        BY <4>2 DEF Onwards
    <3> QED
      BY <3>1, <3>2
  <2> QED
    BY <2>1
<1>2. Reached = Nat
  <2>1. 0 \in Reached
    <3>1. Fits(<<>>, 0)
      BY LegacyMaxIsNat DEF Layers
    <3> QED
      BY <3>1
  <2>2. ASSUME NEW k \in Reached
        PROVE  k + 1 \in Reached
    <3>1. k \in Nat /\ k + 1 \in Nat
      OBVIOUS
    <3>2. PICK f : Fits(f, k)
      OBVIOUS
    <3> HIDE DEF Fits, Next1, Reached
    <3>3. Fits(Next1(f), k + 1)
      BY <1>1, <3>1, <3>2
    <3> QED
      BY <3>1, <3>3 DEF Reached
  <2> HIDE DEF Reached
  <2>3. Reached \in SUBSET Nat
    BY DEF Reached
  <2> QED
    BY <2>1, <2>2, <2>3, AllNats
<1>3. LegacyMax + 1 \in Nat
  BY LegacyMaxIsNat
<1>4. PICK f : Fits(f, LegacyMax + 1)
  BY <1>2, <1>3
<1>5. ASSUME NEW n \in Layers
      PROVE  Onwards(f, n) = Onwards(Next1(f), n)
  <2>1. n # 0 => n - 1 \in Layers /\ n - 1 < LegacyMax + 1
    BY LegacyMaxIsNat DEF Layers
  <2>2. n # 0 => Next1(f)[n - 1] = f[n - 1]
    BY <1>4, <2>1
  <2> QED
    BY <2>2 DEF Onwards
<1> DEFINE g == Next1(f)
<1>6. IsFront(g)
  BY <1>5 DEF IsFront, Layers
<1> QED
  BY <1>6

\* The fronts satisfy their equations.
LEMMA FrontEquation ==
  /\ Fronts[0] = Vertices
  /\ \A n \in Layers \ {0} : Fronts[n] = Contained(Fronts[n - 1])
<1>1. IsFront(Fronts)
  BY FrontExists DEF Fronts
<1>2. \A n \in Layers : Fronts[n] = Onwards(Fronts, n)
  BY <1>1 DEF IsFront, Layers
<1> QED
  BY <1>2, LegacyMaxIsNat DEF Onwards, Layers

\* A path to an object is no longer than the number of the object.
LEMMA PathsAreBounded ==
  ASSUME IsGraph(graph), NEW number \in [Layers -> Layers],
         \A e \in DOMAIN graph : number[graph[e][1]] < number[graph[e][2]],
         NEW n \in Layers, NEW v \in Fronts[n]
  PROVE  v \in Layers /\ n <= number[v]
<1> DEFINE Bounded(k) == k \in Layers => \A w \in Fronts[k] : w \in Layers /\ k <= number[w]
           Reached == {k \in Nat : Bounded(k)}
<1>1. \A e \in DOMAIN graph : graph[e][1] \in Layers /\ graph[e][2] \in Layers
  BY DEF IsGraph, Layers
<1>2. Bounded(0)
  BY <1>1, FrontEquation DEF Vertices, Layers
<1>3. ASSUME NEW k \in Nat, Bounded(k), k + 1 \in Layers, NEW w \in Fronts[k + 1]
      PROVE  w \in Layers /\ k + 1 <= number[w]
  <2>1. k \in Layers /\ Fronts[k + 1] = Contained(Fronts[k])
    BY <1>3, FrontEquation, LegacyMaxIsNat DEF Layers
  <2>2. PICK e \in DOMAIN graph : graph[e][1] \in Fronts[k] /\ w = graph[e][2]
    BY <2>1 DEF Contained
  <2>3. k <= number[graph[e][1]] /\ number[graph[e][1]] < number[w]
    BY <1>3, <2>1, <2>2
  <2>4. number[graph[e][1]] \in Int /\ number[w] \in Int /\ w \in Layers
    BY <1>1, <2>2 DEF Layers
  <2> QED
    BY <2>3, <2>4
<1>4. Reached = Nat
  <2>1. 0 \in Reached /\ Reached \in SUBSET Nat
    BY <1>2
  <2>2. \A k \in Reached : k + 1 \in Reached
    BY <1>3
  <2> HIDE DEF Reached
  <2> QED
    BY <2>1, <2>2, AllNats
<1>5. n \in Nat
  BY DEF Layers
<1> QED
  BY <1>4, <1>5

\* Every object has a layer: there is a longest path to it.
LEMMA LayersExist ==
  ASSUME NEW v \in Vertices
  PROVE  Layer(v) \in Layers /\ IsLayer(v, Layer(v))
<1> DEFINE T == {n \in Layers : v \in Fronts[n]}
<1>1. 0 \in T
  BY FrontEquation, LegacyMaxIsNat DEF Layers
<1>2. PICK n \in T : \A m \in T : m <= n
  <2>1. T \in SUBSET (0 .. LegacyMax) /\ T # {}
    BY <1>1 DEF Layers
  <2> HIDE DEF T
  <2> QED
    BY <2>1, GreatestNat, LegacyMaxIsNat
<1>3. IsLayer(v, n)
  <2>1. \A m \in n + 1 .. LegacyMax : m \in Layers /\ ~(m <= n)
    BY LegacyMaxIsNat DEF Layers
  <2> QED
    BY <1>2, <2>1 DEF IsLayer
<1>4. \E k \in Layers : IsLayer(v, k)
  BY <1>3
<1> HIDE DEF T
<1> QED
  BY <1>4, LayerIsGreatest

\* What an object contains is in a deeper layer.
LEMMA LayersGrow ==
  ASSUME Loadable, NEW e \in DOMAIN graph
  PROVE  /\ Layer(graph[e][1]) \in Int
         /\ Layer(graph[e][2]) \in Int
         /\ Layer(graph[e][1]) < Layer(graph[e][2])
<1> DEFINE u == graph[e][1]
           w == graph[e][2]
           n == Layer(u)
<1>1. IsGraph(graph)
  BY InputsAreWellFormed DEF Loadable
<1>2. PICK number \in [Layers -> Layers] :
        \A d \in DOMAIN graph : number[graph[d][1]] < number[graph[d][2]]
  BY GraphsAreAcyclic DEF Loadable, Layers
<1>3. u \in Vertices /\ w \in Vertices /\ w \in Layers
  BY <1>1 DEF Vertices, IsGraph, Layers
<1>4. /\ n \in Layers /\ IsLayer(u, n)
      /\ Layer(w) \in Layers /\ IsLayer(w, Layer(w))
  BY <1>3, LayersExist
<1>5. u \in Layers /\ n <= number[u]
  BY <1>1, <1>2, <1>4, PathsAreBounded DEF IsLayer
<1>6. number[u] < number[w]
  BY <1>2
<1>7. number[u] \in Layers /\ number[w] \in Layers
  BY <1>2, <1>3, <1>5
<1> HIDE DEF n
<1>8. n + 1 \in Layers \ {0}
  <2> DEFINE above == number[u]
             below == number[w]
  <2>1. n \in Layers /\ above \in Layers /\ below \in Layers
    BY <1>4, <1>7
  <2>2. n <= above /\ above < below
    BY <1>5, <1>6
  <2> HIDE DEF above, below
  <2> QED
    BY <2>1, <2>2, LegacyMaxIsNat DEF Layers
<1>9. w \in Fronts[n + 1]
  <2>1. Fronts[n + 1] = Contained(Fronts[n])
    BY <1>4, <1>8, FrontEquation DEF Layers
  <2> QED
    BY <1>4, <2>1 DEF Contained, IsLayer
<1>10. ~(n + 1 \in Layer(w) + 1 .. LegacyMax)
  BY <1>4, <1>9 DEF IsLayer
<1>11. n < Layer(w)
  <2> HIDE DEF w
  <2> QED
    BY <1>4, <1>8, <1>10, LegacyMaxIsNat DEF Layers
<1> QED
  BY <1>4, <1>11 DEF Layers, n

-----------------------------------------------------------------------------
(* The order of the vertices.                                              *)

OInv == Loadable /\ InnerFirst

\* Every step keeps the order of the layers.
LEMMA NextOInv == OInv /\ [Next]_vars => OInv'
<1> SUFFICES ASSUME OInv, [Next]_vars PROVE OInv'
  OBVIOUS
<1>1. graph' = graph
  BY DEF Next, visit, finish, startPattern, endPattern, endVertex, skipEntry,
     startEntry, delete, create, instantiateTarget, assignContent, assignValue,
     endOps, replaceHook, extendContainers, endEntry, terminated, vars
<1>2. Loadable'
  BY <1>1 DEF OInv, Loadable
<1>3. CASE visit
  <2>1. PICK v \in todo : /\ \A w \in todo : Layer(w) <= Layer(v)
                          /\ vertex' = v
                          /\ todo' = todo \ {v}
    BY <1>3 DEF visit
  <2>2. ASSUME NEW e \in DOMAIN graph, graph[e][1] = v, graph[e][2] \in todo
        PROVE  FALSE
    BY <2>1, <2>2, LayersGrow DEF OInv
  <2> QED
    BY <1>1, <1>2, <2>1, <2>2 DEF OInv, InnerFirst
<1>4. CASE ~visit
  <2>1. /\ todo' = todo /\ vertex' = vertex
        /\ pc' \notin {"vertex", "done"} => pc \notin {"vertex", "done"}
    BY <1>4 DEF Next, finish, startPattern, endPattern, endVertex, skipEntry,
       startEntry, delete, create, instantiateTarget, assignContent, assignValue,
       endOps, replaceHook, extendContainers, endEntry, terminated, vars
  <2> QED
    BY <1>1, <1>2, <2>1 DEF OInv, InnerFirst
<1> QED
  BY <1>3, <1>4

\* Whatever is rewritten, its content was rewritten before: container_order
\* orders every acyclic graph, of any depth and with any sharing, inside out.
THEOREM InsideOut == Spec => []InnerFirst
<1>1. Init => OInv
  BY DEF Init, OInv, Loadable, InnerFirst
<1>2. OInv => InnerFirst
  BY DEF OInv
<1> QED
  BY <1>1, <1>2, NextOInv, PTL DEF Spec

-----------------------------------------------------------------------------
(* Fresh objects.                                                          *)

FInv == RInv /\ FreshStandsForNothing

\* Fresh objects are given a meaning by replaceHook only, after the operations.
LEMMA NextFInv == FInv /\ [Next]_vars => FInv'
<1> SUFFICES ASSUME FInv, [Next]_vars PROVE FInv'
  OBVIOUS
<1>1. RInv'
  BY NextRInv DEF FInv
<1>2. FreshStandsForNothing'
  <2> USE DEF FreshStandsForNothing
  <2>1. CASE startEntry
    BY <2>1 DEF startEntry, Delta!clear_insertions
  <2>2. CASE create \/ instantiateTarget
    <3>1. /\ pc = "ops"
          /\ inserted' = inserted \cup {maxId + 1}
          /\ repl' = repl
      BY <2>2 DEF create, instantiateTarget, Delta!newObjectToVariable
    <3>2. \A x \in DOMAIN repl : repl[x] \in Delta!Known
      BY DEF FInv, RInv, SInv, Delta!MentionsOnlyKnown
    <3>3. maxId + 1 \notin Delta!Known
      BY LegacyMaxIsNat, MaxNewIsNat
         DEF FInv, RInv, SInv, Delta!TypeOK, Delta!Known
    <3> QED
      BY <3>1, <3>2, <3>3 DEF FInv
  <2>3. CASE delete \/ assignContent \/ assignValue
    BY <2>3 DEF delete, assignContent, assignValue, Delta!set_removed,
       Delta!edge_removed, Delta!generateId, store, FInv
  <2>4. CASE visit \/ finish \/ startPattern \/ endPattern \/ endVertex \/ skipEntry
    BY <2>4 DEF visit, finish, startPattern, endPattern, endVertex, skipEntry
  <2>5. CASE endOps \/ replaceHook \/ extendContainers \/ endEntry
    BY <2>5 DEF endOps, replaceHook, extendContainers, endEntry
  <2>6. CASE UNCHANGED vars
    BY <2>6 DEF vars, store, FInv
  <2> QED
    BY <2>1, <2>2, <2>3, <2>4, <2>5, <2>6 DEF Next, terminated
<1> QED
  BY <1>1, <1>2 DEF FInv

\* While the operations of an entry run, set_removed and resolve never meet a
\* replacement by an object of the same entry: the tests they make for it are
\* always negative, for every program.
THEOREM FreshObjects == Spec => []FreshStandsForNothing
<1>1. Init => FInv
  BY InitRInv DEF Init, FInv, FreshStandsForNothing
<1>2. FInv => FreshStandsForNothing
  BY DEF FInv
<1> QED
  BY <1>1, <1>2, NextFInv, PTL DEF Spec

-----------------------------------------------------------------------------
(* Replacements without cycles.                                            *)

\* The replacements decrease some rank.
Decreasing == \E rank : Ranked(repl, Delta!Ids, rank)

\* Replacing x by an object that stands for itself keeps a rank: the
\* replacement moves to the bottom.
LEMMA NewBottom ==
  ASSUME NEW r, NEW S, NEW rank, Ranked(r, S, rank), DOMAIN r \subseteq S,
         \A y \in DOMAIN r : r[y] \in S,
         NEW x \in S, NEW z \in S, z \notin DOMAIN r, x # z,
         NEW q, q = [y \in DOMAIN r \cup {x} |-> IF y = x THEN z ELSE r[y]]
  PROVE  \E higher : Ranked(q, S, higher)
<1> DEFINE higher == [y \in S |-> IF y = z THEN 0 ELSE rank[y] + 1]
<1>1. higher \in [S -> Nat]
  BY DEF Ranked
<1>2. ASSUME NEW y \in DOMAIN q
      PROVE  higher[q[y]] < higher[y]
  <2>1. y \in S /\ rank[y] \in Nat
    BY DEF Ranked
  <2>2. CASE y = x
    BY <2>1, <2>2
  <2>3. CASE y # x
    <3>1. y \in DOMAIN r /\ q[y] = r[y] /\ r[y] \in S /\ y # z
      BY <2>3
    <3>2. rank[r[y]] \in Nat /\ rank[r[y]] < rank[y]
      BY <3>1 DEF Ranked
    <3> QED
      BY <2>1, <3>1, <3>2
  <2> QED
    BY <2>2, <2>3
<1>3. Ranked(q, S, higher)
  BY <1>1, <1>2 DEF Ranked
<1> QED
  BY <1>3

\* The pairs still to record for an entry keep the rank: what replaces an
\* object stands for itself, and is not itself replaced by a later pair.
PairsDecrease ==
  /\ \A p \in pairs : p[1] = p[2] \/ p[2] \notin DOMAIN repl
  /\ \A p, q \in pairs : p[2] = q[1] => p[1] = p[2]

KInv ==
  /\ FInv
  /\ NoGroupedHooks => /\ Decreasing
                       /\ pc # "extend"
                       /\ pc = "ops" => inserted \cap DOMAIN repl = {}
                       /\ pc = "replace" => PairsDecrease

\* During the operations a matched object resolves to one that stands for
\* itself and is not a fresh one.
LEMMA MatchedIsCurrent ==
  ASSUME KInv, NoGroupedHooks, pc = "ops", NEW x \in Originals
  PROVE  /\ Delta!resolve(x) \notin DOMAIN repl
         /\ Delta!resolve(x) \notin inserted
<1> USE DEF KInv, FInv, RInv
<1>1. /\ Partial(repl, Delta!Ids)
      /\ Delta!replacedWith(x) = End(repl, Delta!Ids, x)
  BY ReplacementsArePartial DEF SInv
<1>2. PICK rank : Ranked(repl, Delta!Ids, rank)
  BY DEF Decreasing
<1>3. x \in Delta!Ids /\ {x} \in SUBSET Delta!Ids
  BY LegacyMaxIsNat, MaxNewIsNat DEF Originals, Delta!Ids
<1>4. Delta!replacedWith(x) \notin DOMAIN repl
  BY <1>1, <1>2, <1>3, RankedChainsEnd
<1>5. Delta!replacedWith(x) \notin inserted
  <2> DEFINE K == {y \in Delta!Ids : y \notin inserted}
  <2>1. x \in K
    BY <1>3 DEF SInv, Delta!BindingsAreLocal, Originals
  <2>2. \A y \in DOMAIN repl : repl[y] \in K
    BY DEF FreshStandsForNothing, SInv, Delta!TypeOK
  <2>3. K \in SUBSET Delta!Ids
    OBVIOUS
  <2> HIDE DEF K
  <2>4. End(repl, Delta!Ids, x) \in K
    BY <1>1, <1>3, <2>1, <2>2, <2>3, WalkStays DEF End
  <2> QED
    BY <1>1, <2>4 DEF K
<1> QED
  BY <1>4, <1>5 DEF Delta!resolve

\* So do all objects of all variables; those that were matched are not fresh.
LEMMA ObjectsAreCurrent ==
  ASSUME KInv, NoGroupedHooks, pc = "ops", NEW v \in Vars
  PROVE  /\ Objects(v) \cap DOMAIN repl = {}
         /\ newVars[v] # <<>> => Objects(v) \subseteq {newVars[v][i] : i \in DOMAIN newVars[v]}
         /\ newVars[v] = <<>> => Objects(v) \cap inserted = {}
<1> USE DEF KInv, FInv, RInv
<1>1. EntryOK(pattern, entry)
  BY DEF MInv, Busy
<1>2. CASE newVars[v] # <<>>
  <2>1. Objects(v) \subseteq {newVars[v][i] : i \in DOMAIN newVars[v]}
    BY <1>2 DEF Objects, Resolved, Range
  <2>2. {newVars[v][i] : i \in DOMAIN newVars[v]} \subseteq inserted
    BY DEF SInv, Delta!BindingsAreLocal
  <2> QED
    BY <1>2, <2>1, <2>2
<1>3. CASE newVars[v] = <<>>
  <2>1. \A x \in Objects(v) : \E y \in Originals : x = Delta!resolve(y)
    <3> DEFINE current(x) == IF x = NoId THEN NoId ELSE Delta!resolve(x)
    <3>1. CASE isNested(v)
      <4>1. \A i \in DOMAIN entry.rows : entry.rows[i][v] \in Originals \cup {NoId}
        BY <1>1, <3>1 DEF isNested, EntryOK, RowsOK, RowOK
      <4>2. Resolved(v) = [i \in DOMAIN entry.rows |-> current(entry.rows[i][v])]
        BY <1>3, <3>1 DEF Resolved
      <4> QED
        BY <4>1, <4>2 DEF Objects, Range
    <3>2. CASE ~isNested(v)
      <4> DEFINE f == [x \in Cells(v) |-> current(x)]
                 values == {current(x) : x \in Cells(v)}
      <4>1. Cells(v) \subseteq Originals
        BY <1>1, MatchedValues
      <4>2. IsFiniteSet(Cells(v))
        <5>1. IsFiniteSet(Originals)
          BY LegacyMaxIsNat, FS_Interval DEF Originals
        <5> QED
          BY <4>1, <5>1, FS_Subset
      <4>3. f \in Surjection(Cells(v), values)
        BY DEF Surjection
      <4>4. IsFiniteSet(values)
        BY <4>2, <4>3, FS_Surjection
      <4>5. Resolved(v) = SetToSeq(values)
        BY <1>3, <3>2 DEF Resolved
      <4>6. \A x \in values \ {NoId} : \E y \in Originals : x = Delta!resolve(y)
        BY <4>1
      <4> HIDE DEF values
      <4>7. Range(SetToSeq(values)) = values
        BY <4>4, SetToSeqLists
      <4> QED
        BY <4>5, <4>6, <4>7 DEF Objects
    <3> QED
      BY <3>1, <3>2
  <2> QED
    BY <1>3, <2>1, MatchedIsCurrent
<1> QED
  BY <1>2, <1>3

\* Unless it was given a new object, the hook of an entry is one object.
LEMMA HookIsOne ==
  ASSUME RInv, pc = "ops", ~pattern.vec, newVars[pattern.hook] = <<>>
  PROVE  \E h : Objects(pattern.hook) \subseteq {h}
<1> DEFINE v == pattern.hook
           current(x) == IF x = NoId THEN NoId ELSE Delta!resolve(x)
           cell == entry.flat[v]
           values == {current(x) : x \in Cells(v)}
<1>1. v \in DOMAIN entry.flat
  BY DEF RInv, MInv, Busy, EntryOK
<1>2. Cells(v) = {cell} \ {NoId}
  BY <1>1 DEF Cells
<1>3. Resolved(v) = SetToSeq(values)
  BY <1>1 DEF Resolved, isNested
<1>4. values \subseteq {current(cell)}
  BY <1>2
<1>5. IsFiniteSet(values)
  <2> HIDE DEF values, current, cell
  <2>1. IsFiniteSet({current(cell)})
    BY FS_Singleton
  <2> QED
    BY <1>4, <2>1, FS_Subset
<1> HIDE DEF values
<1>6. Range(SetToSeq(values)) = values
  BY <1>5, SetToSeqLists
<1> QED
  BY <1>3, <1>4, <1>6 DEF Objects

\* The pairs of an entry, when they are formed.
LEMMA EndOpsDecreases ==
  ASSUME KInv, NoGroupedHooks, endOps
  PROVE  PairsDecrease'
<1> USE DEF KInv, FInv, RInv
<1>1. EntryOK(pattern, entry) /\ IsPattern(pattern) /\ ~pattern.vec
  BY DEF endOps, MInv, InputOK, pattern, Applying, Busy, NoGroupedHooks
<1> DEFINE H == Objects(pattern.hook)
           D == Objects(pattern.dst)
<1>2. /\ pattern.hook \in Vars /\ pattern.dst \in Vars
      /\ repl' = repl
      /\ pc = "ops"
  BY <1>1 DEF IsPattern, endOps, store
<1>3. CASE pattern.dst = pattern.hook
  BY <1>3 DEF endOps, PairsDecrease
<1>4. CASE pattern.dst # pattern.hook
  <2>1. \A p \in pairs' : p[1] \in H /\ p[2] \in D
    BY <1>4 DEF endOps
  <2>2. D \cap DOMAIN repl = {}
    BY <1>2, ObjectsAreCurrent
  <2>3. H \cap D = {} \/ \E h : H \subseteq {h}
    <3>1. CASE newVars[pattern.hook] = <<>>
      BY <1>1, <1>2, <3>1, HookIsOne
    <3>2. CASE newVars[pattern.hook] # <<>>
      <4> DEFINE N(v) == {newVars[v][i] : i \in DOMAIN newVars[v]}
      <4>1. N(pattern.hook) \subseteq inserted
        BY <1>2 DEF SInv, Delta!BindingsAreLocal
      <4>2. N(pattern.hook) \cap N(pattern.dst) = {}
        BY <1>2, <1>4 DEF SInv, Delta!BindingsAreLocal
      <4>3. H \subseteq N(pattern.hook)
        BY <1>2, <3>2, ObjectsAreCurrent
      <4>4. \/ newVars[pattern.dst] # <<>> /\ D \subseteq N(pattern.dst)
            \/ D \cap inserted = {}
        BY <1>2, ObjectsAreCurrent
      <4> HIDE DEF N, H, D
      <4> QED
        BY <4>1, <4>2, <4>3, <4>4
    <3> QED
      BY <3>1, <3>2
  <2> HIDE DEF H, D
  <2> QED
    BY <1>2, <2>1, <2>2, <2>3 DEF PairsDecrease
<1> QED
  BY <1>3, <1>4

\* Recording one pair leaves the others as they should be.
LEMMA ReplaceHookDecreases ==
  ASSUME KInv, NoGroupedHooks, replaceHook
  PROVE  Decreasing' /\ PairsDecrease'
<1> USE DEF KInv, FInv, RInv
<1> DEFINE x == nextPair[1]
           z == nextPair[2]
<1>1. ~pattern.vec
  BY DEF replaceHook, MInv, Applying, Busy, NoGroupedHooks, pattern
<1>2. /\ nextPair \in pairs
      /\ pairs' = pairs \ {nextPair}
      /\ Delta!replaceWith(x, z)
      /\ PairsDecrease
  BY <1>1, NextPairIsOne DEF replaceHook
<1>3. x \in Delta!Ids /\ z \in Delta!Ids
  <2>1. x \in Delta!Known /\ z \in Delta!Known
    BY <1>2 DEF PInv
  <2>2. Delta!Known \subseteq Delta!Ids
    BY LegacyMaxIsNat, MaxNewIsNat DEF SInv, Delta!TypeOK, Delta!Known, Delta!Ids
  <2> QED
    BY <2>1, <2>2
<1>4. PICK rank : Ranked(repl, Delta!Ids, rank)
  BY DEF Decreasing
<1>5. CASE repl' = repl
  <2>1. Ranked(repl', Delta!Ids, rank)
    BY <1>4, <1>5
  <2>2. Decreasing'
    BY <2>1 DEF Decreasing, Delta!Ids
  <2> QED
    BY <1>2, <1>5, <2>2 DEF PairsDecrease
<1>6. CASE repl' # repl
  <2>1. /\ x # z
        /\ repl' = [y \in DOMAIN repl \cup {x} |-> IF y = x THEN z ELSE repl[y]]
    BY <1>2, <1>6 DEF Delta!replaceWith
  <2>2. z \notin DOMAIN repl
    BY <1>2, <2>1 DEF PairsDecrease
  <2>3. DOMAIN repl \subseteq Delta!Ids /\ \A y \in DOMAIN repl : repl[y] \in Delta!Ids
    BY DEF SInv, Delta!TypeOK
  <2>4. \E higher : Ranked(repl', Delta!Ids, higher)
    <3> HIDE DEF x, z
    <3> QED
      BY <1>3, <1>4, <2>1, <2>2, <2>3, NewBottom
  <2>5. Decreasing'
    BY <2>4 DEF Decreasing, Delta!Ids
  <2>6. DOMAIN repl' = DOMAIN repl \cup {x}
    BY <2>1
  <2> QED
    BY <1>2, <2>5, <2>6 DEF PairsDecrease
<1> QED
  BY <1>5, <1>6

\* Every step keeps a rank that decreases along the replacements.
LEMMA NextKInv == KInv /\ [Next]_vars => KInv'
<1> SUFFICES ASSUME KInv, [Next]_vars PROVE KInv'
  OBVIOUS
<1>1. FInv'
  BY NextFInv DEF KInv
<1>2. SUFFICES ASSUME NoGroupedHooks'
               PROVE  /\ Decreasing'
                      /\ pc' # "extend"
                      /\ pc' = "ops" => inserted' \cap DOMAIN repl' = {}
                      /\ pc' = "replace" => PairsDecrease'
  BY <1>1 DEF KInv
<1>3. query' = query
  BY DEF Next, visit, finish, startPattern, endPattern, endVertex, skipEntry,
     startEntry, delete, create, instantiateTarget, assignContent, assignValue,
     endOps, replaceHook, extendContainers, endEntry, terminated, vars
<1>4. /\ NoGroupedHooks
      /\ Decreasing
      /\ pc # "extend"
      /\ pc = "ops" => inserted \cap DOMAIN repl = {}
      /\ pc = "replace" => PairsDecrease
  BY <1>2, <1>3 DEF NoGroupedHooks, KInv
<1>5. ASSUME repl' = repl
      PROVE  Decreasing'
  BY <1>4, <1>5 DEF Decreasing, Delta!Ids
<1>6. CASE startEntry
  BY <1>5, <1>6 DEF startEntry, Delta!clear_insertions
<1>7. CASE skipEntry
  BY <1>5, <1>7 DEF skipEntry, Delta!clear_insertions
<1>8. CASE create \/ instantiateTarget
  <2>1. /\ pc = "ops" /\ pc' = "ops"
        /\ inserted' = inserted \cup {maxId + 1}
        /\ repl' = repl
    BY <1>8 DEF create, instantiateTarget, Delta!newObjectToVariable
  <2>2. DOMAIN repl \subseteq Delta!Known
    BY DEF KInv, FInv, RInv, SInv, Delta!MentionsOnlyKnown
  <2>3. maxId + 1 \notin Delta!Known
    BY LegacyMaxIsNat, MaxNewIsNat
       DEF KInv, FInv, RInv, SInv, Delta!TypeOK, Delta!Known
  <2> QED
    BY <1>4, <1>5, <2>1, <2>2, <2>3
<1>9. CASE delete \/ assignContent \/ assignValue
  <2>1. /\ pc = "ops" /\ pc' = "ops"
        /\ UNCHANGED <<inserted, repl>>
    BY <1>9 DEF delete, assignContent, assignValue, Delta!set_removed,
       Delta!edge_removed, Delta!generateId, store
  <2> QED
    BY <1>4, <1>5, <2>1
<1>10. CASE visit \/ finish \/ startPattern \/ endPattern \/ endVertex \/ endEntry
  <2>1. repl' = repl /\ pc' \notin {"ops", "replace", "extend"}
    BY <1>4, <1>10 DEF visit, finish, startPattern, endPattern, endVertex, endEntry, store
  <2> QED
    BY <1>5, <2>1
<1>11. CASE endOps
  <2>1. repl' = repl /\ pc' = "replace"
    BY <1>11 DEF endOps, store
  <2> QED
    BY <1>4, <1>5, <1>11, <2>1, EndOpsDecreases
<1>12. CASE replaceHook
  <2>1. ~pattern.vec
    BY <1>4, <1>12 DEF replaceHook, KInv, FInv, RInv, MInv, Applying, Busy,
       NoGroupedHooks, pattern
  <2>2. pc' = "replace"
    BY <1>12, <2>1 DEF replaceHook
  <2> QED
    BY <1>4, <1>12, <2>2, ReplaceHookDecreases
<1>13. CASE extendContainers
  BY <1>4, <1>13 DEF extendContainers
<1>14. CASE UNCHANGED vars
  BY <1>4, <1>5, <1>14 DEF vars, store, PairsDecrease
<1> QED
  BY <1>6, <1>7, <1>8, <1>9, <1>10, <1>11, <1>12, <1>13, <1>14 DEF Next, terminated

\* At first nothing is replaced, so that any rank will do.
LEMMA InitKInv == Init => KInv
<1> SUFFICES ASSUME Init PROVE KInv
  OBVIOUS
<1>1. FInv
  BY InitRInv DEF Init, FInv, FreshStandsForNothing
<1>2. Decreasing
  <2> DEFINE rank == [x \in Delta!Ids |-> 0]
  <2>1. DOMAIN repl = {}
    BY DEF Init, Delta!Init
  <2>2. Ranked(repl, Delta!Ids, rank)
    BY <2>1 DEF Ranked
  <2> QED
    BY <2>2 DEF Decreasing
<1> QED
  BY <1>1, <1>2 DEF Init, KInv

\* Whatever patterns replace each other's objects: as long as no hook is
\* grouped, following the replacements leads to an object that stands for
\* itself, and replacedWith never has to break off a cycle.
THEOREM ChainsEnd == Spec => []ReplacementsEnd
<1>1. ASSUME KInv, NoGroupedHooks, NEW x \in DOMAIN repl
      PROVE  Delta!replacedWith(x) \notin DOMAIN repl
  <2>1. /\ Partial(repl, Delta!Ids)
        /\ Delta!replacedWith(x) = End(repl, Delta!Ids, x)
    BY <1>1, ReplacementsArePartial DEF KInv, FInv, RInv, SInv
  <2>2. PICK rank : Ranked(repl, Delta!Ids, rank)
    BY <1>1 DEF KInv, Decreasing
  <2>3. x \in Delta!Ids
    BY <2>1 DEF Partial
  <2> QED
    BY <2>1, <2>2, <2>3, RankedChainsEnd
<1>2. KInv => ReplacementsEnd
  BY <1>1 DEF ReplacementsEnd
<1> QED
  BY <1>2, InitKInv, NextKInv, PTL DEF Spec

\* An assignment of containment reads and writes objects that stand for
\* themselves, whatever the entry's variables are bound to by now.
THEOREM CurrentAssignments == Spec => AssignsCurrentObjects
<1> DEFINE Written(k) == k \notin DOMAIN content \/ content'[k] # content[k]
           Current(k) == /\ k[1] \notin DOMAIN repl
                         /\ Range(content'[k]) \cap DOMAIN repl = {}
<1>1. ASSUME KInv, [Next]_vars, NEW k \in DOMAIN content', NoGroupedHooks, Written(k), pc = "ops"
      PROVE  Current(k)
  <2> USE DEF KInv, FInv, RInv
  <2> DEFINE v == operation.var
             w == operation.source
             phi == Assigned(v, w)
             written == [j \in (DOMAIN phi) \X {operation.label} |-> phi[j[1]]]
  <2>1. assignContent
    BY <1>1 DEF Next, visit, finish, startPattern, endPattern, endVertex, skipEntry,
       startEntry, delete, create, instantiateTarget, assignValue, endOps,
       replaceHook, extendContainers, endEntry, terminated, vars
  <2>2. v \in Vars /\ w \in Vars /\ ~Unbound(v) /\ EntryOK(pattern, entry)
    BY <1>1, <2>1 DEF assignContent, MInv, InputOK, Applying, Busy, IsPattern, pattern, operation
  <2>3. content' = Merge(written, content)
    BY <2>1 DEF assignContent
  <2> HIDE DEF phi
  <2>4. k[1] \in DOMAIN phi /\ content'[k] = phi[k[1]]
    <3> HIDE DEF written
    <3>1. k \in DOMAIN written /\ content'[k] = written[k]
      BY <1>1, <2>3 DEF Merge
    <3> QED
      BY <3>1 DEF written
  <2>5. k[1] \in Range(Resolved(v)) /\ phi[k[1]] \in Seq(Objects(w))
    BY <1>1, <2>2, <2>4, AssignedValues DEF phi
  <2>6. Objects(v) \cap DOMAIN repl = {} /\ Objects(w) \cap DOMAIN repl = {}
    BY <1>1, <2>2, ObjectsAreCurrent
  <2>7. NoId \notin DOMAIN repl
    BY <1>1, LegacyMaxIsNat, MaxNewIsNat
       DEF SInv, Delta!TypeOK, Delta!Ids, NoId, Delta!NoId
  <2> QED
    BY <2>4, <2>5, <2>6, <2>7 DEF Objects, Range
<1>2. KInv /\ [Next]_vars =>
        \A k \in DOMAIN content' : NoGroupedHooks /\ Written(k) /\ pc = "ops" => Current(k)
  BY <1>1
<1> QED
  BY <1>2, InitKInv, NextKInv, PTL DEF Spec, AssignsCurrentObjects
=============================================================================
