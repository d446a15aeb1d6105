----------------------- MODULE RewritingStore_proofs -----------------------
(***************************************************************************)
(* The rewriting engine uses the delta store through its interface only,   *)
(* and what follows from it.                                               *)
(***************************************************************************)
EXTENDS Rewriting, Collections_proofs

DP == INSTANCE DeltaUpdates_proofs

Originals == 0 .. LegacyMax

-----------------------------------------------------------------------------
(* Matches.                                                                *)

\* A variable in Vars is bound to a loaded object, any other one to a loaded
\* edge; both may be missing.
RowOK(row) ==
  /\ row \in [DOMAIN row -> Originals \cup DOMAIN graph \cup {NoId}]
  /\ \A v \in DOMAIN row :
       row[v] \in (IF v \in Vars THEN Originals ELSE DOMAIN graph) \cup {NoId}

\* The rows of an entry bind the same variables.
RowsOK(rows) ==
  /\ IsSeq(rows)
  /\ rows # <<>>
  /\ \A i \in DOMAIN rows : RowOK(rows[i])
  /\ \A i, j \in DOMAIN rows : DOMAIN rows[i] = DOMAIN rows[j]

\* An entry of the pattern p. Unless it is grouped, the hook is a flat column.
EntryOK(p, e) ==
  /\ e = [flat |-> e.flat, rows |-> e.rows]
  /\ RowOK(e.flat)
  /\ RowsOK(e.rows)
  /\ ~p.vec => p.hook \in DOMAIN e.flat

\* A matched edge, and the object at its other end.
LEMMA MatchedCells ==
  ASSUME IsGraph(graph), NEW col, NEW h, NEW m \in Matched(col, h)
  PROVE  m[1] \in DOMAIN graph \cup {NoId} /\ m[2] \in Originals \cup {NoId}
<1>1. \A e \in DOMAIN graph : graph[e][1] \in Originals /\ graph[e][2] \in Originals
  BY DEF IsGraph, Originals
<1> QED
  BY <1>1 DEF Matched

\* The rows that a joined combination of columns gives.
LEMMA JoinedRows ==
  ASSUME IsGraph(graph), NEW cols, AreColumns(cols), NEW h, NEW r \in Joined(cols, h)
  PROVE  /\ RowOK(r)
         /\ DOMAIN r = NodeVars(cols) \cup EdgeVars(cols)
<1> DEFINE V == NodeVars(cols) \cup EdgeVars(cols)
           col(v) == CHOOSE j \in DOMAIN cols : v \in {cols[j].edge, cols[j].node}
<1>1. PICK p : /\ \A i \in DOMAIN cols : p[i] \in Matched(cols[i], h)
               /\ r = [v \in V |-> IF v = cols[col(v)].edge THEN p[col(v)][1] ELSE p[col(v)][2]]
  BY DEF Joined
<1>2. ASSUME NEW v \in V
      PROVE  r[v] \in (IF v \in Vars THEN Originals ELSE DOMAIN graph) \cup {NoId}
  <2>1. \E j \in DOMAIN cols : v \in {cols[j].edge, cols[j].node}
    BY DEF NodeVars, EdgeVars
  <2>2. col(v) \in DOMAIN cols /\ v \in {cols[col(v)].edge, cols[col(v)].node}
    BY <2>1
  <2> HIDE DEF col
  <2>3. /\ p[col(v)][1] \in DOMAIN graph \cup {NoId}
        /\ p[col(v)][2] \in Originals \cup {NoId}
    BY <1>1, <2>2, MatchedCells
  <2>4. cols[col(v)].node \in Vars /\ cols[col(v)].edge \notin Vars
    BY <2>2 DEF AreColumns
  <2> QED
    BY <1>1, <2>2, <2>3, <2>4
<1>3. DOMAIN r = V /\ r = [v \in V |-> r[v]]
  BY <1>1
<1> HIDE DEF V
<1>4. r \in [V -> Originals \cup DOMAIN graph \cup {NoId}]
  BY <1>2, <1>3
<1> QED
  BY <1>2, <1>3, <1>4 DEF RowOK, V

\* Patterns have finitely many variables, and these finitely many values.
LEMMA FiniteVariables ==
  ASSUME NEW cols, AreColumns(cols)
  PROVE  IsFiniteSet(NodeVars(cols) \cup EdgeVars(cols))
<1> DEFINE D == DOMAIN cols
           N == [i \in D |-> cols[i].node]
           E == [i \in D |-> cols[i].edge]
<1>1. IsFiniteSet(D)
  <2>1. Len(cols) \in Nat /\ D = 1 .. Len(cols)
    BY DEF AreColumns, IsSeq
  <2> QED
    BY <2>1, FS_Interval
<1>2. N \in Surjection(D, NodeVars(cols)) /\ E \in Surjection(D, EdgeVars(cols))
  BY DEF NodeVars, EdgeVars, Surjection
<1>3. IsFiniteSet(NodeVars(cols)) /\ IsFiniteSet(EdgeVars(cols))
  BY <1>1, <1>2, FS_Surjection
<1> QED
  BY <1>3, FS_Union

\* A graph has finitely many objects and edges for a row to hold.
LEMMA FiniteValues ==
  ASSUME IsGraph(graph)
  PROVE  IsFiniteSet(Originals \cup DOMAIN graph \cup {NoId})
<1>1. IsFiniteSet(Originals)
  BY LegacyMaxIsNat, FS_Interval DEF Originals
<1>2. IsFiniteSet(DOMAIN graph)
  <2>1. Len(graph) \in Nat /\ DOMAIN graph = 1 .. Len(graph)
    BY DEF IsGraph
  <2> QED
    BY <2>1, FS_Interval
<1> QED
  BY <1>1, <1>2, FS_Union, FS_Singleton

\* Binding a variable to an object, or to an edge, of the right kind.
LEMMA BindRow ==
  ASSUME NEW row, RowOK(row), NEW v,
         NEW x \in (IF v \in Vars THEN Originals ELSE DOMAIN graph) \cup {NoId}
  PROVE  RowOK(Bind(v, x, row)) /\ DOMAIN Bind(v, x, row) = DOMAIN row \cup {v}
<1> DEFINE values == Originals \cup DOMAIN graph \cup {NoId}
           new == Bind(v, x, row)
<1>1. DOMAIN new = DOMAIN row \cup {v}
  BY DEF Bind, Merge
<1>2. \A w \in DOMAIN new : new[w] = IF w = v THEN x ELSE row[w]
  BY DEF Bind, Merge
<1>3. new = [w \in DOMAIN new |-> new[w]]
  BY DEF Bind, Merge
<1> HIDE DEF new
<1> QED
  BY <1>1, <1>2, <1>3 DEF RowOK, new

\* The entries of a pattern bind what they should.
LEMMA EntriesOK ==
  ASSUME IsGraph(graph), NEW p, IsPattern(p), NEW v \in Vertices, NEW e \in Entries(p, v)
  PROVE  EntryOK(p, e)
<1> DEFINE container == p.flat[1]
           hookRows(d) == {Bind(p.hook, graph[d][2], Bind(container.edge, d, r)) :
                             r \in Joined(p.nested, graph[d][2])}
           held == {d \in DOMAIN graph : graph[d][1] = v}
           rows == IF p.vec THEN UNION {hookRows(d) : d \in held} ELSE Joined(p.nested, v)
           nodes == NodeVars(p.nested) \cup (IF p.vec THEN {p.hook} ELSE {})
           kept == {r \in rows : Injective(r, nodes)}
           flats == IF p.vec THEN {Bind(container.node, v, <<>>)}
                    ELSE {Bind(p.hook, v, r) : r \in Joined(p.flat, v)}
           V == NodeVars(p.nested) \cup EdgeVars(p.nested)
                  \cup (IF p.vec THEN {p.hook, container.edge} ELSE {})
<1>1. /\ v \in Originals
      /\ \A d \in DOMAIN graph : graph[d][2] \in Originals
  BY DEF Vertices, IsGraph, Originals
<1>2. AreColumns(p.flat) /\ AreColumns(p.nested) /\ p.hook \in Vars
  BY DEF IsPattern
<1>3. p.vec => container.node \in Vars /\ container.edge \notin Vars
  <2>1. p.vec => 1 \in DOMAIN p.flat
    BY <1>2 DEF IsPattern, AreColumns, IsSeq
  <2> QED
    BY <1>2, <2>1 DEF AreColumns
<1>4. /\ kept # {}
      /\ \E f \in flats : e = [flat |-> f, rows |-> SetToSeq(kept)]
  BY DEF Entries
<1>5. ASSUME NEW r \in rows
      PROVE  RowOK(r) /\ DOMAIN r = V
  <2>1. CASE p.vec
    <3>1. PICK d \in held : r \in hookRows(d)
      BY <2>1
    <3>2. PICK q \in Joined(p.nested, graph[d][2]) :
            r = Bind(p.hook, graph[d][2], Bind(container.edge, d, q))
      BY <3>1
    <3>3. RowOK(q) /\ DOMAIN q = NodeVars(p.nested) \cup EdgeVars(p.nested)
      BY <1>2, JoinedRows
    <3>4. d \in DOMAIN graph /\ container.edge \notin Vars
      BY <1>3, <2>1
    <3> DEFINE b == Bind(container.edge, d, q)
    <3>5. RowOK(b) /\ DOMAIN b = DOMAIN q \cup {container.edge}
      BY <3>3, <3>4, BindRow
    <3> HIDE DEF b
    <3>6. RowOK(Bind(p.hook, graph[d][2], b))
          /\ DOMAIN Bind(p.hook, graph[d][2], b) = DOMAIN b \cup {p.hook}
      BY <1>1, <1>2, <3>4, <3>5, BindRow
    <3> QED
      BY <2>1, <3>2, <3>3, <3>5, <3>6 DEF b
  <2>2. CASE ~p.vec
    BY <1>2, <2>2, JoinedRows
  <2> QED
    BY <2>1, <2>2
<1> HIDE DEF rows, V, flats
<1>6. IsFiniteSet(kept)
  <2> DEFINE values == Originals \cup DOMAIN graph \cup {NoId}
  <2>1. IsFiniteSet(V)
    <3>1. IsFiniteSet(NodeVars(p.nested) \cup EdgeVars(p.nested))
      BY <1>2, FiniteVariables
    <3>2. IsFiniteSet({}) /\ IsFiniteSet({p.hook} \cup {container.edge})
      BY FS_EmptySet, FS_Singleton, FS_Union
    <3>3. /\ IsFiniteSet(NodeVars(p.nested) \cup EdgeVars(p.nested) \cup {})
          /\ IsFiniteSet(NodeVars(p.nested) \cup EdgeVars(p.nested) \cup ({p.hook} \cup {container.edge}))
      BY <3>1, <3>2, FS_Union
    <3>4. {p.hook, container.edge} = {p.hook} \cup {container.edge}
      OBVIOUS
    <3> QED
      BY <3>3, <3>4 DEF V
  <2>2. IsFiniteSet([V -> values])
    BY <2>1, FiniteValues, FiniteFunctions
  <2>3. kept \in SUBSET [V -> values]
    BY <1>5 DEF RowOK
  <2> QED
    BY <2>2, <2>3, FS_Subset
<1>7. e.rows = SetToSeq(kept) /\ e.flat \in flats
  BY <1>4
<1> HIDE DEF kept
<1>8. /\ SetToSeq(kept) \in Seq(kept)
      /\ Range(SetToSeq(kept)) = kept
      /\ SetToSeq(kept) # <<>>
  BY <1>4, <1>6, SetToSeqLists
<1>9. \A r \in kept : RowOK(r) /\ DOMAIN r = V
  BY <1>5 DEF kept
<1>11. RowsOK(e.rows)
  <2>1. \A i \in DOMAIN e.rows : e.rows[i] \in kept
    BY <1>7, <1>8
  <2> QED
    BY <1>7, <1>8, <1>9, <2>1 DEF RowsOK, IsSeq
<1>12. RowOK(e.flat) /\ (~p.vec => p.hook \in DOMAIN e.flat)
  <2>1. CASE p.vec
    <3>1. RowOK(<<>>)
      BY DEF RowOK
    <3>2. e.flat = Bind(container.node, v, <<>>)
      BY <1>7, <2>1 DEF flats
    <3> HIDE DEF container
    <3>3. RowOK(Bind(container.node, v, <<>>))
      BY <1>1, <1>3, <2>1, <3>1, BindRow
    <3> QED
      BY <2>1, <3>2, <3>3
  <2>2. CASE ~p.vec
    <3>1. PICK r \in Joined(p.flat, v) : e.flat = Bind(p.hook, v, r)
      BY <1>7, <2>2 DEF flats
    <3>2. RowOK(r)
      BY <1>2, JoinedRows
    <3>3. RowOK(Bind(p.hook, v, r)) /\ DOMAIN Bind(p.hook, v, r) = DOMAIN r \cup {p.hook}
      BY <1>1, <1>2, <3>2, BindRow
    <3> QED
      BY <3>1, <3>3
  <2> QED
    BY <2>1, <2>2
<1> QED
  BY <1>4, <1>11, <1>12 DEF EntryOK

\* Trimming an entry that is not passed over leaves some rows, all of them live.
LEMMA TrimmedOK ==
  ASSUME NEW p, NEW e, EntryOK(p, e), ~Skipped(p, e)
  PROVE  /\ EntryOK(p, Trimmed(p, e))
         /\ hasDelRewrite => /\ ~Lost(p, Trimmed(p, e).flat)
                             /\ \A i \in DOMAIN Trimmed(p, e).rows :
                                  ~Lost(p, Trimmed(p, e).rows[i])
<1>1. CASE ~hasDelRewrite
  BY <1>1 DEF Trimmed
<1>2. CASE hasDelRewrite
  <2> DEFINE live == {i \in DOMAIN e.rows : ~Lost(p, e.rows[i])}
             rows == Select(e.rows, live)
             n == Len(e.rows)
  <2>1. n \in Nat /\ DOMAIN e.rows = 1 .. n
    BY DEF EntryOK, RowsOK, IsSeq
  <2>2. ~Lost(p, e.flat) /\ live # {}
    BY <1>2 DEF Skipped
  <2>3. live \in SUBSET (1 .. n)
    BY <2>1
  <2> HIDE DEF n, live
  <2>4. \A i \in live : e.rows[i] \in Range(e.rows)
    BY <2>1, <2>3 DEF Range
  <2>5. /\ rows \in Seq(Range(e.rows))
        /\ rows # <<>>
        /\ \A k \in DOMAIN rows : \E i \in live : rows[k] = e.rows[i]
    BY <2>1, <2>2, <2>3, <2>4, SelectKeeps
  <2>6. Trimmed(p, e) = [flat |-> e.flat, rows |-> rows]
    BY <1>2 DEF Trimmed, EntryOK, live
  <2> HIDE DEF rows
  <2>7. RowsOK(rows)
    <3>1. rows \in Seq(Range(rows))
      BY <2>5 DEF Range
    <3>2. \A i \in live : i \in DOMAIN e.rows
      BY <2>1, <2>3
    <3> QED
      BY <2>5, <3>1, <3>2 DEF EntryOK, RowsOK, IsSeq
  <2>8. \A k \in DOMAIN rows : ~Lost(p, rows[k])
    BY <2>5 DEF live
  <2> QED
    BY <2>2, <2>6, <2>7, <2>8 DEF EntryOK
<1> QED
  BY <1>1, <1>2

-----------------------------------------------------------------------------
(* What the engine knows of the graph, the program and the entries.        *)

Applying == {"entry", "ops", "replace", "extend"}
Busy == {"ops", "replace", "extend"}

InputOK ==
  /\ IsGraph(graph)
  /\ IsSeq(query)
  /\ \A i \in DOMAIN query : IsPattern(query[i])

MInv ==
  /\ InputOK
  /\ todo \subseteq Vertices
  /\ vertex \in Vertices \cup {NoId}
  /\ pc \notin {"vertex", "done"} => vertex \in Vertices
  /\ pattern_id \in 0 .. Len(query) + 1
  /\ op \in Nat
  /\ pc \in Applying => /\ pattern_id \in DOMAIN query
                        /\ \A e \in entries : EntryOK(pattern, e)
  /\ pc \in Busy => EntryOK(pattern, entry)

\* The engine starts with a graph that was loaded and a program that was parsed.
LEMMA InitMInv == Init => MInv
<1> SUFFICES ASSUME Init PROVE MInv
  OBVIOUS
<1>1. InputOK
  BY InputsAreWellFormed DEF Init, InputOK
<1>2. Len(query) \in Nat
  BY <1>1 DEF InputOK, IsSeq
<1> QED
  BY <1>1, <1>2 DEF Init, MInv, Applying, Busy

\* A step that leaves the entries and the pattern alone.
LEMMA MInvKept ==
  ASSUME MInv, UNCHANGED <<graph, query, todo, vertex, pattern_id, entries, entry>>,
         pc \in Applying, pc' \in Applying, pc' \in Busy => pc \in Busy, op' \in Nat
  PROVE  MInv'
BY DEF MInv, InputOK, Vertices, EntryOK, RowsOK, RowOK, pattern, Applying, Busy

\* Every step keeps to the graph, the program and the entries that match it.
LEMMA NextMInv == MInv /\ [Next]_vars => MInv'
<1> SUFFICES ASSUME MInv, [Next]_vars PROVE MInv'
  OBVIOUS
<1>1. /\ Len(query) \in Nat
      /\ DOMAIN query = 1 .. Len(query)
  BY DEF MInv, InputOK, IsSeq
<1>2. ASSUME UNCHANGED <<graph, query>>
      PROVE  InputOK' /\ Vertices' = Vertices
  BY <1>2 DEF MInv, InputOK, Vertices, IsGraph, Originals
<1>3. CASE visit
  BY <1>1, <1>2, <1>3 DEF visit, MInv, Applying, Busy
<1>4. CASE finish
  BY <1>1, <1>2, <1>4 DEF finish, MInv, Applying, Busy
<1>5. CASE startPattern
  <2>1. InputOK' /\ Vertices' = Vertices /\ vertex \in Vertices
    BY <1>2, <1>5 DEF startPattern, MInv
  <2>2. CASE Delta!hasXBeenRemoved(vertex)
    BY <1>1, <1>5, <2>1, <2>2 DEF startPattern, MInv, Applying, Busy
  <2>3. CASE ~Delta!hasXBeenRemoved(vertex)
    <3>1. \A e \in Entries(pattern, vertex) : EntryOK(pattern, e)
      BY <1>5, <2>1, EntriesOK DEF startPattern, MInv, InputOK, pattern
    <3>2. /\ entries' = Entries(pattern, vertex)
          /\ pc' = "entry"
          /\ pattern' = pattern
          /\ UNCHANGED <<graph, query, todo, vertex, pattern_id, entry, op>>
      BY <1>5, <2>3 DEF startPattern, pattern
    <3>3. \A e : EntryOK(pattern, e)' <=> EntryOK(pattern, e)
      BY <3>2 DEF EntryOK, RowsOK, RowOK
    <3> QED
      BY <1>1, <1>5, <2>1, <3>1, <3>2, <3>3 DEF startPattern, MInv, Busy, Applying
  <2> QED
    BY <2>2, <2>3
<1>6. CASE endPattern
  BY <1>1, <1>2, <1>6 DEF endPattern, MInv, Applying, Busy
<1>7. CASE endVertex
  BY <1>1, <1>2, <1>7 DEF endVertex, MInv, Applying, Busy
<1>8. ASSUME UNCHANGED <<graph, query, pattern_id>>
      PROVE  \A e : EntryOK(pattern, e)' <=> EntryOK(pattern, e)
  BY <1>8 DEF EntryOK, RowsOK, RowOK, pattern
<1>9. CASE skipEntry
  <2>1. /\ entries' \subseteq entries
        /\ pc = "entry" /\ pc' = "entry"
        /\ UNCHANGED <<graph, query, todo, vertex, pattern_id, entry, op>>
    BY <1>9 DEF skipEntry
  <2> QED
    BY <1>2, <1>8, <2>1 DEF MInv, Applying, Busy
<1>10. CASE startEntry
  <2>1. PICK e \in entries : /\ ~Skipped(pattern, e)
                             /\ entries' = entries \ {e}
                             /\ entry' = Trimmed(pattern, e)
    BY <1>10 DEF startEntry
  <2>2. /\ pc = "entry" /\ pc' = "ops" /\ op' = 1
        /\ UNCHANGED <<graph, query, todo, vertex, pattern_id>>
    BY <1>10 DEF startEntry
  <2>3. EntryOK(pattern, e)
    BY <2>1, <2>2 DEF MInv, Applying
  <2>4. EntryOK(pattern, entry')
    BY <2>1, <2>3, TrimmedOK
  <2>5. EntryOK(pattern, entry)'
    BY <2>2, <2>4 DEF EntryOK, RowsOK, RowOK, pattern
  <2> QED
    BY <1>2, <1>8, <2>1, <2>2, <2>5 DEF MInv, Applying, Busy
<1>11. op + 1 \in Nat
  BY DEF MInv
<1>12. CASE delete
  BY <1>11, <1>12, MInvKept DEF delete, Applying, Busy
<1>13. CASE create
  BY <1>11, <1>13, MInvKept DEF create, Applying, Busy
<1>14. CASE instantiateTarget
  BY <1>14, MInvKept DEF instantiateTarget, MInv, Applying, Busy
<1>15. CASE assignContent
  BY <1>11, <1>15, MInvKept DEF assignContent, Applying, Busy
<1>16. CASE assignValue
  BY <1>11, <1>16, MInvKept DEF assignValue, Applying, Busy
<1>17. CASE endOps
  BY <1>17, MInvKept DEF endOps, MInv, Applying, Busy
<1>18. CASE replaceHook
  BY <1>18, MInvKept DEF replaceHook, MInv, Applying, Busy
<1>19. CASE extendContainers
  BY <1>19, MInvKept DEF extendContainers, MInv, Applying, Busy
<1>20. CASE endEntry
  BY <1>20, MInvKept DEF endEntry, MInv, Applying, Busy
<1>21. CASE UNCHANGED vars
  BY <1>2, <1>8, <1>21 DEF vars, MInv, Applying, Busy
<1> QED
  BY <1>3, <1>4, <1>5, <1>6, <1>7, <1>9, <1>10, <1>12, <1>13, <1>14, <1>15, <1>16,
     <1>17, <1>18, <1>19, <1>20, <1>21 DEF Next, terminated

-----------------------------------------------------------------------------
(* Resolving variables.                                                    *)

\* What DeltaUpdates_proofs shows to be inductive.
SInv == Delta!TypeOK /\ Delta!MentionsOnlyKnown /\ Delta!BindingsAreLocal

\* The invariant of the store, as the engine and as its own proofs name it.
LEMMA StoreInvariant ==
  /\ SInv <=> DP!IInv
  /\ SInv' <=> DP!IInv'
BY DEF SInv, DP!IInv, Delta!TypeOK, DP!TypeOK, Delta!MentionsOnlyKnown,
       DP!MentionsOnlyKnown, Delta!BindingsAreLocal, DP!BindingsAreLocal,
       Delta!Known, DP!Known, Delta!Ids, DP!Ids, Delta!NoId, DP!NoId

\* The replacements are a partial function, and resolving is following it.
LEMMA ReplacementsArePartial ==
  ASSUME Delta!TypeOK
  PROVE  /\ Partial(repl, Delta!Ids)
         /\ \A x : Delta!replacedWith(x) = End(repl, Delta!Ids, x)
<1>1. IsFiniteSet(Delta!Ids)
  BY LegacyMaxIsNat, MaxNewIsNat, FS_Interval DEF Delta!Ids
<1>2. Partial(repl, Delta!Ids)
  BY <1>1 DEF Partial, Delta!TypeOK
<1>3. \A x : Delta!replacedWith(x) = End(repl, Delta!Ids, x)
  BY DEF Delta!replacedWith, End, Walk
<1> QED
  BY <1>2, <1>3

\* The loaded objects are known, and what stands for a known object is known.
LEMMA ResolvingKnown ==
  ASSUME SInv
  PROVE  /\ Originals \subseteq Delta!Known
         /\ Delta!Known \subseteq Nat
         /\ \A x \in Delta!Known : /\ Delta!replacedWith(x) \in Delta!Known
                                   /\ Delta!resolve(x) \in Delta!Known
<1>1. /\ Originals \subseteq Delta!Known
      /\ Delta!Known \subseteq Nat
      /\ Delta!Known \in SUBSET Delta!Ids
  BY LegacyMaxIsNat, MaxNewIsNat
     DEF SInv, Delta!TypeOK, Delta!Known, Originals, Delta!Ids
<1>2. /\ Partial(repl, Delta!Ids)
      /\ \A x : Delta!replacedWith(x) = End(repl, Delta!Ids, x)
  BY ReplacementsArePartial DEF SInv
<1>4. \A x \in DOMAIN repl : repl[x] \in Delta!Known
  BY DEF SInv, Delta!MentionsOnlyKnown
<1>5. ASSUME NEW x \in Delta!Known
      PROVE  End(repl, Delta!Ids, x) \in Delta!Known
  <2>1. {x} \in SUBSET Delta!Ids
    BY <1>1
  <2> QED
    BY <1>1, <1>2, <1>4, <2>1, WalkStays DEF End
<1> QED
  BY <1>1, <1>2, <1>5 DEF Delta!resolve

\* A variable of an entry stands for loaded objects or for loaded edges.
LEMMA MatchedValues ==
  ASSUME EntryOK(pattern, entry), NEW v
  PROVE  Cells(v) \subseteq IF v \in Vars THEN Originals ELSE DOMAIN graph
<1>1. \A row : RowOK(row) /\ v \in DOMAIN row =>
        row[v] \in (IF v \in Vars THEN Originals ELSE DOMAIN graph) \cup {NoId}
  BY DEF RowOK
<1> QED
  BY <1>1 DEF Cells, EntryOK, RowsOK

\* What a variable of an entry resolves to.
LEMMA ResolvedValues ==
  ASSUME SInv, EntryOK(pattern, entry), NEW v \in Vars
  PROVE  /\ Resolved(v) \in Seq(Delta!Known \cup {NoId})
         /\ isNested(v) => DOMAIN Resolved(v) = DOMAIN entry.rows
         /\ ~isNested(v) => NoId \notin Range(Resolved(v))
         /\ ~Unbound(v) => 1 \in DOMAIN Resolved(v)
<1> DEFINE current(x) == IF x = NoId THEN NoId ELSE Delta!resolve(x)
           T == Delta!Known \cup {NoId}
<1>1. \A x \in Originals \cup {NoId} : current(x) \in T
  BY ResolvingKnown
<1>2. DOMAIN entry.rows = 1 .. Len(entry.rows) /\ Len(entry.rows) \in Nat \ {0}
  BY DEF EntryOK, RowsOK, IsSeq
<1>3. ASSUME newVars[v] # <<>>
      PROVE  /\ Resolved(v) \in Seq(T)
             /\ 1 \in DOMAIN Resolved(v)
             /\ NoId \notin Range(Resolved(v))
  <2>1. newVars[v] \in Seq(Delta!Ids)
    BY DEF SInv, Delta!TypeOK
  <2>2. \A i \in DOMAIN newVars[v] : newVars[v][i] \in T /\ newVars[v][i] # NoId
    BY ResolvingKnown DEF SInv, Delta!BindingsAreLocal, Delta!MentionsOnlyKnown, NoId, Delta!NoId
  <2> HIDE DEF T
  <2>3. newVars[v] \in Seq(T)
    BY <2>1, <2>2
  <2>4. Resolved(v) = newVars[v]
    BY <1>3 DEF Resolved
  <2>5. NoId \notin Range(newVars[v])
    BY <2>2 DEF Range
  <2> QED
    BY <1>3, <2>3, <2>4, <2>5
<1>4. ASSUME isNested(v)
      PROVE  /\ Resolved(v) \in Seq(T)
             /\ DOMAIN Resolved(v) = DOMAIN entry.rows
             /\ 1 \in DOMAIN Resolved(v)
  <2>1. \A i \in DOMAIN entry.rows : entry.rows[i][v] \in Originals \cup {NoId}
    BY <1>4 DEF isNested, EntryOK, RowsOK, RowOK
  <2>2. Resolved(v) = [i \in 1 .. Len(entry.rows) |-> current(entry.rows[i][v])]
    BY <1>2, <1>4 DEF Resolved, isNested
  <2> HIDE DEF T, current
  <2>3. \A i \in 1 .. Len(entry.rows) : current(entry.rows[i][v]) \in T
    BY <1>1, <1>2, <2>1
  <2> QED
    BY <1>2, <2>2, <2>3
<1>5. ASSUME newVars[v] = <<>>, ~isNested(v)
      PROVE  Resolved(v) \in Seq(T) /\ NoId \notin Range(Resolved(v))
  <2> DEFINE f == [x \in Cells(v) |-> current(x)]
             values == {current(x) : x \in Cells(v)}
  <2>1. Cells(v) \subseteq Originals
    BY MatchedValues
  <2>2. IsFiniteSet(Cells(v))
    <3>1. IsFiniteSet(Originals)
      BY LegacyMaxIsNat, FS_Interval DEF Originals
    <3> QED
      BY <2>1, <3>1, FS_Subset
  <2>3. f \in Surjection(Cells(v), values)
    BY DEF Surjection
  <2>4. IsFiniteSet(values)
    BY <2>2, <2>3, FS_Surjection
  <2>5. values \subseteq T
    BY <1>1, <2>1
  <2>6. NoId \notin values
    BY <2>1, ResolvingKnown DEF Originals, NoId, Delta!NoId
  <2>7. Resolved(v) = SetToSeq(values)
    BY <1>5 DEF Resolved
  <2> HIDE DEF values, T
  <2>8. SetToSeq(values) \in Seq(values) /\ Range(SetToSeq(values)) = values
    BY <2>4, SetToSeqLists
  <2> QED
    BY <2>5, <2>6, <2>7, <2>8
<1> HIDE DEF T
<1>6. Resolved(v) \in Seq(T)
  BY <1>3, <1>4, <1>5
<1>7. ~Unbound(v) => isNested(v) \/ Resolved(v) # <<>>
  BY DEF Unbound
<1>8. ~isNested(v) => NoId \notin Range(Resolved(v))
  BY <1>3, <1>5
<1>9. Resolved(v) # <<>> => 1 \in DOMAIN Resolved(v)
  BY <1>6
<1> QED
  BY <1>4, <1>6, <1>7, <1>8, <1>9 DEF T

\* The objects of a variable, and which variable stands for what.
LEMMA ObjectsKnown ==
  ASSUME SInv, EntryOK(pattern, entry), NEW v \in Vars
  PROVE  Objects(v) \subseteq Delta!Known
<1>1. Resolved(v) \in Seq(Delta!Known \cup {NoId})
  BY ResolvedValues
<1> QED
  BY <1>1 DEF Objects, Range

\* A variable of the program stands for objects or for edges, never for both.
LEMMA VariableKinds ==
  ASSUME InputOK
  PROVE  nodeVars \subseteq Vars /\ edgeVars \cap Vars = {}
<1>1. ASSUME NEW p, IsPattern(p), NEW i \in DOMAIN (p.flat \o p.nested)
      PROVE  /\ (p.flat \o p.nested)[i].node \in Vars
             /\ (p.flat \o p.nested)[i].edge \notin Vars
  <2> DEFINE a == p.flat
             b == p.nested
             T == Range(a) \cup Range(b)
  <2>1. IsSeq(a) /\ IsSeq(b)
    BY <1>1 DEF IsPattern, AreColumns
  <2>2. i \in DOMAIN (a \o b)
    OBVIOUS
  <2>3. \A c \in {a, b} : \A j \in DOMAIN c : c[j].node \in Vars /\ c[j].edge \notin Vars
    BY <1>1 DEF IsPattern, AreColumns
  <2> HIDE DEF a, b, T
  <2>4. a \in Seq(T) /\ b \in Seq(T)
    BY <2>1 DEF T, IsSeq
  <2>5. \/ \E j \in DOMAIN a : (a \o b)[i] = a[j]
        \/ \E j \in DOMAIN b : (a \o b)[i] = b[j]
    <3>1. i \in DOMAIN a => (a \o b)[i] = a[i]
      BY <2>4
    <3>2. i \notin DOMAIN a => i - Len(a) \in DOMAIN b /\ (a \o b)[i] = b[i - Len(a)]
      BY <2>2, <2>4
    <3> QED
      BY <3>1, <3>2
  <2>6. (a \o b)[i].node \in Vars /\ (a \o b)[i].edge \notin Vars
    BY <2>3, <2>5
  <2> QED
    BY <2>6 DEF a, b
<1>2. \A j \in DOMAIN query : IsPattern(query[j]) /\ query[j].hook \in Vars
  BY DEF InputOK, IsPattern
<1>3. ASSUME NEW j \in DOMAIN query
      PROVE  /\ NodeVars(query[j].flat \o query[j].nested) \subseteq Vars
             /\ EdgeVars(query[j].flat \o query[j].nested) \cap Vars = {}
  BY <1>1, <1>2 DEF NodeVars, EdgeVars
<1> QED
  BY <1>2, <1>3 DEF nodeVars, edgeVars

\* An assignment writes objects of its source into the content of objects of
\* its target.
LEMMA AssignedValues ==
  ASSUME SInv, EntryOK(pattern, entry), NEW v \in Vars, NEW w \in Vars, ~Unbound(v),
         NEW x \in DOMAIN Assigned(v, w)
  PROVE  /\ x \in Range(Resolved(v))
         /\ Assigned(v, w)[x] \in Seq(Objects(w))
<1> DEFINE to == Resolved(v)
           from == Resolved(w)
           all == Ascending(Range(from) \ {NoId})
           matched == {i \in DOMAIN from : from[i] # NoId}
           IsLast(y, i) == to[i] = y /\ \A j \in matched : to[j] = y => j <= i
           last(y) == CHOOSE i \in matched : IsLast(y, i)
<1>1. /\ to \in Seq(Delta!Known \cup {NoId})
      /\ from \in Seq(Delta!Known \cup {NoId})
      /\ 1 \in DOMAIN to
      /\ isNested(v) /\ isNested(w) => DOMAIN to = DOMAIN from
      /\ ~isNested(w) => NoId \notin Range(from)
  BY ResolvedValues
<1>2. Objects(w) = Range(from) \ {NoId}
  BY DEF Objects
<1>3. \A i \in DOMAIN to : to[i] \in Range(to)
  BY DEF Range
<1>4. \A i \in matched : from[i] \in Objects(w)
  BY <1>2 DEF Range
<1>5. all \in Seq(Objects(w))
  <2>1. Objects(w) \in SUBSET Int
    BY <1>2, <1>1, ResolvingKnown DEF Range
  <2>2. IsFiniteSet(Objects(w))
    BY <1>1, <1>2, FiniteRange, FS_Subset
  <2> HIDE DEF from
  <2> QED
    BY <1>2, <2>1, <2>2, AscendingLists
<1>6. CASE isNested(v) /\ isNested(w)
  <2>1. Assigned(v, w) = [y \in {to[i] : i \in matched} |-> <<from[last(y)]>>]
    BY <1>6 DEF Assigned
  <2>2. PICK i \in matched : x = to[i]
    BY <2>1
  <2> HIDE DEF to, from
  <2>3. \E j \in matched : IsLast(x, j)
    <3> DEFINE T == {j \in matched : to[j] = x}
    <3>1. /\ Len(from) \in Nat
          /\ \A j \in matched : j \in 1 .. Len(from)
      BY <1>1
    <3>2. T \in SUBSET (0 .. Len(from)) /\ T # {}
      BY <2>2, <3>1
    <3> HIDE DEF T
    <3>3. \E j \in T : \A m \in T : m <= j
      BY <3>1, <3>2, GreatestNat
    <3> QED
      BY <3>3 DEF T
  <2>4. last(x) \in matched
    <3> HIDE DEF IsLast, matched
    <3> QED
      BY <2>3
  <2> HIDE DEF last
  <2>5. Assigned(v, w)[x] = <<from[last(x)]>>
    BY <2>1
  <2>6. x \in Range(to)
    BY <1>1, <1>3, <1>6, <2>2
  <2>7. from[last(x)] \in Objects(w)
    BY <1>4, <2>4
  <2> QED
    BY <2>5, <2>6, <2>7 DEF to
<1>7. CASE ~(isNested(v) /\ isNested(w)) /\ (isNested(v) \/ isNested(w))
  <2>1. Assigned(v, w) = [y \in {to[1]} |-> all]
    BY <1>7 DEF Assigned
  <2>2. x = to[1] /\ Assigned(v, w)[x] = all
    BY <2>1
  <2>3. to[1] \in Range(to)
    BY <1>1, <1>3
  <2> HIDE DEF all
  <2> QED
    BY <1>5, <2>2, <2>3
<1>8. CASE ~isNested(v) /\ ~isNested(w)
  <2>1. Assigned(v, w) = [y \in {to[1] : i \in matched} |-> <<from[1]>>]
    BY <1>8 DEF Assigned
  <2>2. matched # {} /\ x = to[1]
    BY <2>1
  <2>3. 1 \in DOMAIN from
    BY <1>1, <2>2
  <2>4. from[1] \in Objects(w)
    BY <1>1, <1>2, <1>8, <2>3 DEF Range
  <2>5. Assigned(v, w)[x] = <<from[1]>>
    BY <2>1
  <2>6. to[1] \in Range(to)
    BY <1>1, <1>3
  <2> HIDE DEF from
  <2> QED
    BY <2>2, <2>4, <2>5, <2>6
<1> QED
  BY <1>6, <1>7, <1>8

\* An assignment gives content to known objects, or to the missing one.
LEMMA AssignedKnown ==
  ASSUME SInv, EntryOK(pattern, entry), NEW v \in Vars, NEW w \in Vars, ~Unbound(v)
  PROVE  DOMAIN Assigned(v, w) \subseteq Delta!Known \cup {NoId}
<1>1. Range(Resolved(v)) \subseteq Delta!Known \cup {NoId}
  BY ResolvedValues DEF Range
<1> QED
  BY <1>1, AssignedValues

-----------------------------------------------------------------------------
(* The replacements that an entry asks for.                                *)

PInv ==
  /\ \A p \in pairs : /\ p[1] \in Delta!Known
                      /\ p[2] \in Delta!Known
                      /\ p[3] \subseteq Delta!Known
  /\ pc = "extend" => pairs # {}

\* They can be taken in ascending order.
LEMMA NextPairIsOne ==
  ASSUME SInv, PInv, pairs # {}
  PROVE  nextPair \in pairs
<1> DEFINE Firsts == {p[1] : p \in pairs}
           Least(p) == \A q \in pairs : p[1] < q[1] \/ (p[1] = q[1] /\ p[2] <= q[2])
<1>1. \A p \in pairs : p[1] \in Nat /\ p[2] \in Nat
  BY ResolvingKnown DEF PInv
<1>2. PICK m \in Firsts : \A n \in Firsts : m <= n
  <2>1. Firsts \in SUBSET Nat /\ Firsts # {}
    BY <1>1
  <2> HIDE DEF Firsts
  <2> QED
    BY <2>1, LeastNat
<1> DEFINE Seconds == {p[2] : p \in {q \in pairs : q[1] = m}}
<1>3. PICK k \in Seconds : \A n \in Seconds : k <= n
  <2>1. Seconds \in SUBSET Nat /\ Seconds # {}
    BY <1>1
  <2> HIDE DEF Seconds
  <2> QED
    BY <2>1, LeastNat
<1>4. \E p \in pairs : Least(p)
  <2>1. PICK p \in pairs : p[1] = m /\ p[2] = k
    OBVIOUS
  <2>2. ASSUME NEW q \in pairs
        PROVE  p[1] < q[1] \/ (p[1] = q[1] /\ p[2] <= q[2])
    <3>1. q[1] \in Firsts /\ (q[1] = m => q[2] \in Seconds)
      OBVIOUS
    <3> HIDE DEF Firsts, Seconds
    <3> QED
      BY <1>1, <1>2, <1>3, <2>1, <3>1
  <2> QED
    BY <2>2
<1>5. nextPair = CHOOSE p \in pairs : Least(p)
  BY DEF nextPair
<1> HIDE DEF Least
<1> QED
  BY <1>4, <1>5

-----------------------------------------------------------------------------
(* Every step of the engine is a step of the store, or leaves it alone.    *)

RInv == MInv /\ SInv /\ PInv

\* Each action of the engine makes one call of the store, with all the objects
\* that a loop of it is about, or none.
LEMMA StoreStep ==
  ASSUME RInv, [Next]_vars
  PROVE  [Delta!Next]_store
<1> USE DEF RInv
<1>1. CASE visit \/ finish \/ startPattern \/ endPattern \/ endVertex \/ endOps
           \/ endEntry \/ UNCHANGED vars
  BY <1>1 DEF visit, finish, startPattern, endPattern, endVertex, endOps, endEntry, vars
<1>2. CASE skipEntry \/ startEntry
  BY <1>2 DEF skipEntry, startEntry, Delta!Next
<1>3. pc \in Busy => /\ EntryOK(pattern, entry)
                     /\ IsPattern(pattern)
                     /\ InputOK
  BY DEF MInv, InputOK, pattern, Applying, Busy
<1>4. CASE delete
  <2>1. Cells(operation.var) \subseteq
          IF operation.var \in Vars THEN Originals ELSE DOMAIN graph
    BY <1>3, <1>4, MatchedValues DEF delete, Busy
  <2>2. operation.var \in nodeVars => Cells(operation.var) \in SUBSET Delta!Known
    BY <1>3, <1>4, <2>1, VariableKinds, ResolvingKnown DEF delete, Busy
  <2>3. operation.var \in edgeVars => Cells(operation.var) \in SUBSET EdgeIds
    BY <1>3, <1>4, <2>1, VariableKinds DEF delete, Busy, InputOK, IsGraph
  <2> QED
    BY <1>4, <2>2, <2>3 DEF delete, Delta!Next
<1>5. ASSUME pc = "ops", op \in DOMAIN pattern.ops
      PROVE  /\ operation.t \in {"new", "phi", "value"} => operation.var \in Vars
             /\ operation.t = "phi" => operation.source \in Vars
  BY <1>3, <1>5 DEF Busy, IsPattern, operation
<1>6. CASE create
  BY <1>5, <1>6 DEF create, Delta!Next
<1>7. CASE instantiateTarget
  BY <1>5, <1>7 DEF instantiateTarget, Delta!Next
<1>8. CASE assignContent
  <2>1. DOMAIN Assigned(operation.var, operation.source) \in SUBSET (Delta!Known \cup {NoId})
    BY <1>3, <1>5, <1>8, AssignedKnown DEF assignContent, Busy
  <2> QED
    BY <1>8, <2>1 DEF assignContent, Delta!Next, NoId
<1>9. CASE assignValue
  <2>1. Resolved(operation.var) \in Seq(Delta!Known \cup {NoId})
    BY <1>3, <1>5, <1>9, ResolvedValues DEF assignValue, Busy
  <2>2. Range(Resolved(operation.var)) \subseteq Delta!Known \cup {NoId}
    BY <2>1 DEF Range
  <2> QED
    BY <1>9, <2>2 DEF assignValue, Delta!Next, NoId
<1>10. CASE replaceHook
  <2>1. nextPair \in pairs
    BY <1>10, NextPairIsOne DEF replaceHook
  <2>2. nextPair[1] \in Delta!Known /\ nextPair[2] \in Delta!Known
    BY <2>1 DEF PInv
  <2> QED
    BY <1>10, <2>2 DEF replaceHook, Delta!Next
<1>11. CASE extendContainers
  <2>1. nextPair \in pairs
    BY <1>11, NextPairIsOne DEF extendContainers, PInv
  <2>2. nextPair[3] \subseteq Delta!Known
    BY <2>1 DEF PInv
  <2>3. PICK found \in SUBSET nextPair[3] : Delta!generateId(found)
    BY <1>11 DEF extendContainers
  <2>4. found \in SUBSET (Delta!Known \cup {Delta!NoId})
    BY <2>2
  <2> QED
    BY <2>3, <2>4 DEF Delta!Next
<1> QED
  BY <1>1, <1>2, <1>4, <1>6, <1>7, <1>8, <1>9, <1>10, <1>11 DEF Next, terminated

\* The replacements stay between known objects.
LEMMA NextPInv == RInv /\ [Next]_vars => PInv'
<1> SUFFICES ASSUME RInv, [Next]_vars PROVE PInv'
  OBVIOUS
<1> USE DEF RInv
<1>1. Delta!Known \subseteq Delta!Known'
  <2>1. [Delta!Next]_store
    BY StoreStep
  <2>2. maxId \in Int
    BY LegacyMaxIsNat, MaxNewIsNat DEF SInv, Delta!TypeOK
  <2>3. maxId' = maxId \/ maxId' = maxId + 1
    BY <2>1 DEF Delta!Next, store, Delta!clear_insertions,
       Delta!newObjectToVariable, Delta!generateId, Delta!set_removed,
       Delta!edge_removed, Delta!replaceWith
  <2> QED
    BY <2>2, <2>3 DEF Delta!Known
<1>2. ASSUME pairs' \subseteq pairs, pc' # "extend"
      PROVE  PInv'
  BY <1>1, <1>2 DEF PInv
<1>3. CASE endOps
  <2>1. EntryOK(pattern, entry) /\ IsPattern(pattern)
    BY <1>3 DEF endOps, MInv, InputOK, pattern, Applying, Busy
  <2>2. /\ pattern.hook \in Vars /\ pattern.dst \in Vars
        /\ pattern.vec => pattern.flat[1].node \in Vars
    BY <2>1 DEF IsPattern, AreColumns, IsSeq
  <2>3. /\ Objects(pattern.hook) \subseteq Delta!Known
        /\ Objects(pattern.dst) \subseteq Delta!Known
        /\ pattern.vec => Objects(pattern.flat[1].node) \subseteq Delta!Known
    BY <2>1, <2>2, ObjectsKnown
  <2>4. \A p \in pairs' : /\ p[1] \in Objects(pattern.hook)
                          /\ p[2] \in Objects(pattern.dst)
                          /\ p[3] \in {IF pattern.vec THEN Objects(pattern.flat[1].node)
                                       ELSE {}}
    BY <1>3 DEF endOps
  <2>5. pc' # "extend"
    BY <1>3 DEF endOps
  <2> QED
    BY <1>1, <2>3, <2>4, <2>5 DEF PInv
<1>4. CASE replaceHook
  <2>1. pairs' \subseteq pairs /\ (pc' = "extend" => pairs' # {})
    BY <1>4 DEF replaceHook
  <2> QED
    BY <1>1, <2>1 DEF PInv
<1>5. CASE visit \/ finish \/ startPattern \/ endPattern \/ endVertex \/ endEntry
  BY <1>2, <1>5 DEF visit, finish, startPattern, endPattern, endVertex, endEntry
<1>6. CASE skipEntry \/ startEntry
  BY <1>2, <1>6 DEF skipEntry, startEntry
<1>7. CASE delete \/ create \/ instantiateTarget
  BY <1>2, <1>7 DEF delete, create, instantiateTarget
<1>8. CASE assignContent \/ assignValue \/ extendContainers
  BY <1>2, <1>8 DEF assignContent, assignValue, extendContainers
<1>9. CASE UNCHANGED vars
  BY <1>1, <1>9 DEF vars, PInv
<1> QED
  BY <1>3, <1>4, <1>5, <1>6, <1>7, <1>8, <1>9 DEF Next, terminated

\* At first the engine and the store are well formed.
LEMMA InitRInv == Init => RInv
<1> SUFFICES ASSUME Init PROVE RInv
  OBVIOUS
<1>1. MInv
  BY InitMInv
<1>2. SInv
  <2>1. DP!Init
    BY DEF Init, Delta!Init, DP!Init
  <2> QED
    BY <2>1, StoreInvariant, DP!InitIInv, LegacyMaxIsNat, MaxNewIsNat
<1>3. PInv
  BY DEF Init, PInv
<1> QED
  BY <1>1, <1>2, <1>3 DEF RInv

\* Every step keeps them well formed.
LEMMA NextRInv == RInv /\ [Next]_vars => RInv'
<1> SUFFICES ASSUME RInv, [Next]_vars PROVE RInv'
  OBVIOUS
<1>1. MInv'
  BY NextMInv DEF RInv
<1>2. SInv'
  <2>1. [Delta!Next]_store
    BY StoreStep
  <2>2. Delta!Next => DP!Next
    BY DEF Delta!Next, DP!Next, Delta!clear_insertions, DP!clear_insertions,
           Delta!newObjectToVariable, DP!newObjectToVariable, Delta!generateId,
           DP!generateId, Delta!set_removed, DP!set_removed, Delta!toRemove,
           DP!toRemove, Delta!edge_removed, DP!edge_removed, Delta!replaceWith,
           DP!replaceWith, Delta!Known, DP!Known, Delta!NoId, DP!NoId
  <2>3. [DP!Next]_(DP!vars)
    BY <2>1, <2>2 DEF store, DP!vars
  <2>4. DP!IInv
    BY StoreInvariant DEF RInv
  <2> QED
    BY <2>3, <2>4, StoreInvariant, DP!NextIInv, LegacyMaxIsNat, MaxNewIsNat
<1>3. PInv'
  BY NextPInv
<1> QED
  BY <1>1, <1>2, <1>3 DEF RInv

\* Whatever the program, the graph and the matches are, the engine drives the
\* store through its interface and with known identifiers only: all that
\* DeltaUpdates_proofs shows of the store holds while a query runs.
THEOREM Refinement == Spec => DeltaSpec
<1>1. Init => Delta!Init
  BY DEF Init
<1>2. RInv /\ [Next]_vars => [Delta!Next]_(Delta!vars)
  BY StoreStep DEF store, Delta!vars
<1> QED
  BY <1>1, <1>2, InitRInv, NextRInv, PTL DEF Spec, DeltaSpec, Delta!Spec

-----------------------------------------------------------------------------
(* Types.                                                                  *)

\* Every content that was assigned belongs to an object with an entry in the
\* delta, and lists objects that are known.
ContentOK ==
  \A k \in DOMAIN content : k[1] \in objs /\ content[k] \in Seq(Delta!Known)

TInv == RInv /\ ContentOK /\ mark \in Delta!Ids /\ pc \in Phases

\* Entries of the delta are never taken back, and objects stay known.
LEMMA ObjectsRemain ==
  ASSUME RInv, [Next]_vars
  PROVE  /\ objs \subseteq objs'
         /\ maxId' = maxId \/ (maxId' = maxId + 1 /\ maxId' \in objs')
         /\ Delta!Known \subseteq Delta!Known'
<1>1. [Delta!Next]_store
  BY StoreStep
<1>2. objs \subseteq objs' /\ (maxId' = maxId \/ (maxId' = maxId + 1 /\ maxId' \in objs'))
  BY <1>1 DEF Delta!Next, store, Delta!clear_insertions, Delta!newObjectToVariable,
     Delta!generateId, Delta!set_removed, Delta!edge_removed, Delta!replaceWith
<1>3. maxId \in Nat
  BY LegacyMaxIsNat, MaxNewIsNat DEF RInv, SInv, Delta!TypeOK
<1> QED
  BY <1>2, <1>3 DEF Delta!Known

\* The identifiers that have been handed out are identifiers.
LEMMA KnownAreIds ==
  ASSUME SInv
  PROVE  Delta!Known \subseteq Delta!Ids /\ maxId \in Delta!Ids
BY LegacyMaxIsNat, MaxNewIsNat DEF SInv, Delta!TypeOK, Delta!Known, Delta!Ids

\* New content for objects with an entry, of known objects.
LEMMA ContentMerged ==
  ASSUME ContentOK, objs \subseteq objs', maxId' = maxId,
         NEW f, content' = Merge(f, content),
         \A k \in DOMAIN f : k[1] \in objs' /\ f[k] \in Seq(Delta!Known)
  PROVE  ContentOK'
BY DEF ContentOK, Merge, Delta!Known

\* The content of an object is a list of objects, wherever it is read from.
LEMMA ContentLists ==
  ASSUME RInv, ContentOK, NEW id, NEW label
  PROVE  resolve_content(id, label) \in Seq(Delta!Known)
<1> DEFINE x == Delta!resolve(id)
           own == {e \in DOMAIN graph : graph[e][1] = x}
           edges == IF label # Loaded THEN <<>> ELSE Select(graph, own)
           current == [i \in DOMAIN edges |-> Delta!replacedWith(edges[i][2])]
           alive == {i \in DOMAIN current : ~Delta!hasXBeenRemoved(current[i])}
           live == Select(current, alive)
           renamed == \E i \in DOMAIN edges : current[i] # edges[i][2]
<1> USE DEF RInv
<1>1. edges \in Seq(Originals \X Originals)
  <2>1. /\ graph \in Seq(Originals \X Originals)
        /\ Len(graph) \in Nat
        /\ own \in SUBSET (1 .. Len(graph))
    BY DEF MInv, InputOK, IsGraph, Originals
  <2> HIDE DEF own
  <2>2. \A e \in own : graph[e] \in Originals \X Originals
    BY <2>1
  <2>3. Select(graph, own) \in Seq(Originals \X Originals)
    BY <2>1, <2>2, SelectKeeps
  <2> QED
    BY <2>3
<1> HIDE DEF edges
<1>2. /\ Len(edges) \in Nat
      /\ DOMAIN current = 1 .. Len(edges)
      /\ \A i \in DOMAIN current : current[i] \in Delta!Known
  BY <1>1, ResolvingKnown
<1> HIDE DEF current
<1>3. live \in Seq(Delta!Known)
  <2>1. alive \in SUBSET (1 .. Len(edges)) /\ \A i \in alive : current[i] \in Delta!Known
    BY <1>2
  <2> HIDE DEF alive
  <2> QED
    BY <1>2, <2>1, SelectKeeps
<1> HIDE DEF live
<1>4. Ascending(Range(live)) \in Seq(Range(live))
  <2>1. IsFiniteSet(Range(live)) /\ Range(live) \subseteq Delta!Known
    BY <1>3, FiniteRange
  <2>2. Range(live) \in SUBSET Int
    BY <2>1, ResolvingKnown
  <2> QED
    BY <2>1, <2>2, AscendingLists
<1>5. Delta!Known \subseteq Delta!Ids /\ Range(live) \subseteq Delta!Known
  BY <1>3, FiniteRange, KnownAreIds
<1>6. \/ resolve_content(id, label) = <<>>
      \/ /\ <<x, label>> \in DOMAIN content
         /\ resolve_content(id, label) = content[<<x, label>>]
      \/ resolve_content(id, label) = Ascending(Range(live))
      \/ resolve_content(id, label) = live
  BY DEF resolve_content, live, current, edges
<1> HIDE DEF x
<1>7. <<>> \in Seq(Delta!Known)
  OBVIOUS
<1>8. live \in Seq(Delta!Known) /\ Ascending(Range(live)) \in Seq(Delta!Known)
  BY <1>3, <1>4, <1>5
<1>9. <<x, label>> \in DOMAIN content => content[<<x, label>>] \in Seq(Delta!Known)
  BY DEF ContentOK
<1> QED
  BY <1>6, <1>7, <1>8, <1>9

\* Every step keeps the content of the created and loaded objects to known ones.
LEMMA NextTInv == TInv /\ [Next]_vars => TInv'
<1> SUFFICES ASSUME TInv, [Next]_vars PROVE TInv'
  OBVIOUS
<1> USE DEF TInv
<1>1. RInv'
  BY NextRInv
<1>2. objs \subseteq objs' /\ Delta!Known \subseteq Delta!Known'
  BY ObjectsRemain
<1>3. ASSUME UNCHANGED content
      PROVE  ContentOK'
  BY <1>2, <1>3 DEF ContentOK, Delta!Ids
<1>4. mark' = mark \/ mark' = maxId
  BY DEF Next, visit, finish, startPattern, endPattern, endVertex, skipEntry,
     startEntry, delete, create, instantiateTarget, assignContent, assignValue,
     endOps, replaceHook, extendContainers, endEntry, terminated, vars
<1>5. mark' \in Delta!Ids'
  BY <1>4, KnownAreIds DEF RInv, Delta!Ids
<1>6. pc' \in Phases
  BY DEF Next, visit, finish, startPattern, endPattern, endVertex, skipEntry,
     startEntry, delete, create, instantiateTarget, assignContent, assignValue,
     endOps, replaceHook, extendContainers, endEntry, terminated, vars, Phases
<1>7. CASE assignContent
  <2> DEFINE v == operation.var
             w == operation.source
             phi == Assigned(v, w)
             written == [k \in (DOMAIN phi) \X {operation.label} |-> phi[k[1]]]
  <2>1. v \in Vars /\ w \in Vars /\ ~Unbound(v) /\ EntryOK(pattern, entry)
    BY <1>7 DEF assignContent, RInv, MInv, InputOK, Applying, Busy, IsPattern, pattern,
       operation
  <2>2. Objects(w) \subseteq Delta!Known
    BY <2>1, ObjectsKnown, KnownAreIds DEF RInv
  <2>3. content' = Merge(written, content) /\ maxId' = maxId /\ objs' = objs \cup DOMAIN phi
    BY <1>7 DEF assignContent, Delta!generateId
  <2>4. \A x \in DOMAIN phi : phi[x] \in Seq(Delta!Known)
    BY <2>1, <2>2, AssignedValues DEF RInv
  <2> HIDE DEF phi
  <2>5. \A k \in DOMAIN written : k[1] \in DOMAIN phi /\ written[k] = phi[k[1]]
    OBVIOUS
  <2> HIDE DEF written
  <2>6. ContentOK'
    BY <1>2, <2>3, <2>4, <2>5, ContentMerged
  <2> QED
    BY <1>1, <1>5, <1>6, <2>6
<1>8. CASE extendContainers
  <2> DEFINE orig == nextPair[1]
             dest == nextPair[2]
             now(c) == resolve_content(c, Loaded)
             times(c) == Cardinality({i \in DOMAIN now(c) : now(c)[i] = orig})
             found == {c \in nextPair[3] : times(c) > 0}
             before(c) == IF <<c, Loaded>> \in DOMAIN content THEN content[<<c, Loaded>>]
                          ELSE <<>>
             after(c) == before(c) \o [i \in 1 .. times(c) |-> dest]
             written == [k \in found \X {Loaded} |-> after(k[1])]
  <2>1. content' = Merge(written, content) /\ maxId' = maxId /\ objs' = objs \cup found
    BY <1>8 DEF extendContainers, Delta!generateId
  <2>2. dest \in Delta!Known
    BY <1>8, NextPairIsOne, KnownAreIds DEF extendContainers, RInv, PInv
  <2>3. \A c : after(c) \in Seq(Delta!Known)
    <3>1. \A c : times(c) \in Nat
      <4>1. \A c : IsSeq(now(c))
        BY ContentLists DEF IsSeq, Range
      <4>2. \A c : IsFiniteSet({i \in DOMAIN now(c) : now(c)[i] = orig})
        <5> HIDE DEF now, orig
        <5>1. \A c : Len(now(c)) \in Nat /\ DOMAIN now(c) = 1 .. Len(now(c))
          BY <4>1 DEF IsSeq
        <5>2. \A c : IsFiniteSet(DOMAIN now(c))
          BY <5>1, FS_Interval
        <5> QED
          BY <5>2, FS_Subset
      <4> QED
        BY <4>2, FS_CardinalityType
    <3>2. \A c : before(c) \in Seq(Delta!Known)
      BY DEF ContentOK
    <3> HIDE DEF before, times, dest
    <3>3. \A c : [i \in 1 .. times(c) |-> dest] \in Seq(Delta!Known)
      BY <2>2, <3>1
    <3> QED
      BY <3>2, <3>3
  <2> HIDE DEF found, after
  <2>4. \A k \in DOMAIN written : k[1] \in objs' /\ written[k] \in Seq(Delta!Known)
    BY <2>1, <2>3
  <2> HIDE DEF written
  <2>5. ContentOK'
    BY <1>2, <2>1, <2>4, ContentMerged
  <2> QED
    BY <1>1, <1>5, <1>6, <2>5
<1>9. CASE ~assignContent /\ ~extendContainers
  BY <1>1, <1>3, <1>5, <1>6, <1>9 DEF Next, visit, finish, startPattern, endPattern,
     endVertex, skipEntry, startEntry, delete, create, instantiateTarget, assignValue,
     endOps, replaceHook, endEntry, terminated, vars
<1> QED
  BY <1>7, <1>8, <1>9

\* At first nothing has been assigned.
LEMMA InitTInv == Init => TInv
<1> SUFFICES ASSUME Init PROVE TInv
  OBVIOUS
<1>1. LegacyMax \in Delta!Ids
  BY LegacyMaxIsNat, MaxNewIsNat DEF Delta!Ids
<1> QED
  BY <1>1, InitRInv DEF Init, TInv, ContentOK, Phases

\* The engine's state keeps its types; every content that was assigned belongs
\* to an object of the delta, and every index into the program is in range.
THEOREM Typing == Spec => []TypeOK
<1>1. TInv => TypeOK
  <2> SUFFICES ASSUME TInv PROVE TypeOK
    OBVIOUS
  <2> USE DEF TInv, RInv
  <2>1. Vertices \subseteq Originals
    BY DEF MInv, InputOK, IsGraph, Vertices, Originals
  <2>2. todo \subseteq 0 .. LegacyMax /\ vertex \in -1 .. LegacyMax
    BY <2>1, LegacyMaxIsNat DEF MInv, Originals, NoId, Delta!NoId
  <2>3. \A k \in DOMAIN content : k[1] \in objs /\ Range(content[k]) \subseteq Delta!Ids
    <3>1. Delta!Known \subseteq Delta!Ids
      BY KnownAreIds DEF RInv
    <3>2. \A k \in DOMAIN content : Range(content[k]) \subseteq Delta!Known
      BY FiniteRange DEF ContentOK
    <3> QED
      BY <3>1, <3>2 DEF ContentOK
  <2>4. \A p \in pairs : p[1] \in Delta!Ids /\ p[2] \in Delta!Ids /\ p[3] \subseteq Delta!Ids
    BY KnownAreIds DEF PInv
  <2>5. pattern_id \in 0 .. (Len(query) + 1) /\ op \in Nat /\ Delta!TypeOK
    BY DEF MInv, SInv
  <2> QED
    BY <2>2, <2>3, <2>4, <2>5 DEF TypeOK
<1> QED
  BY <1>1, InitTInv, NextTInv, PTL DEF Spec

-----------------------------------------------------------------------------
(* Deletions and matches.                                                  *)

\* A program without deletions deletes nothing.
DInv == RInv /\ (~hasDelRewrite => removed = {})

\* A program without deletions never comes to delete.
LEMMA NextDInv == DInv /\ [Next]_vars => DInv'
<1> SUFFICES ASSUME DInv, [Next]_vars PROVE DInv'
  OBVIOUS
<1> USE DEF DInv
<1>1. RInv'
  BY NextRInv
<1>2. query' = query /\ hasDelRewrite' = hasDelRewrite
  BY DEF Next, visit, finish, startPattern, endPattern, endVertex, skipEntry,
     startEntry, delete, create, instantiateTarget, assignContent, assignValue,
     endOps, replaceHook, extendContainers, endEntry, terminated, vars, hasDelRewrite
<1>3. CASE delete
  <2>1. pattern_id \in DOMAIN query /\ op \in DOMAIN pattern.ops /\ operation.t = "del"
    BY <1>3 DEF delete, RInv, MInv, Applying
  <2>2. hasDelRewrite
    BY <2>1 DEF hasDelRewrite, operation, pattern
  <2> QED
    BY <1>1, <1>2, <2>2
<1>4. CASE ~delete
  <2>1. removed' = removed
    BY <1>4 DEF Next, visit, finish, startPattern, endPattern, endVertex, skipEntry,
       startEntry, create, instantiateTarget, assignContent, assignValue, endOps,
       replaceHook, extendContainers, endEntry, terminated, vars, store,
       Delta!clear_insertions, Delta!newObjectToVariable, Delta!generateId,
       Delta!replaceWith
  <2> QED
    BY <1>1, <1>2, <2>1
<1> QED
  BY <1>3, <1>4

\* No operation is ever applied to a match that has lost an object it requires,
\* by whichever pattern and entry the object was deleted, although the test is
\* left out for programs without deletions.
THEOREM LiveEntries == Spec => AppliedEntryLive
<1> DEFINE Live == /\ ~Lost(pattern, entry'.flat)
                   /\ entry'.rows # <<>>
                   /\ \A i \in DOMAIN entry'.rows : ~Lost(pattern, entry'.rows[i])
<1>1. Init => DInv
  BY InitRInv DEF Init, Delta!Init, DInv
<1>2. ASSUME DInv, [Next]_vars, pc = "entry", pc' = "ops"
      PROVE  Live
  <2>1. startEntry
    BY <1>2 DEF Next, visit, finish, startPattern, endPattern, endVertex, skipEntry,
       delete, create, instantiateTarget, assignContent, assignValue, endOps,
       replaceHook, extendContainers, endEntry, terminated, vars
  <2>2. PICK e \in entries : ~Skipped(pattern, e) /\ entry' = Trimmed(pattern, e)
    BY <2>1 DEF startEntry
  <2>3. EntryOK(pattern, e)
    BY <1>2 DEF DInv, RInv, MInv, Applying
  <2>4. EntryOK(pattern, entry')
    BY <2>2, <2>3, TrimmedOK
  <2>5. CASE hasDelRewrite
    BY <2>2, <2>3, <2>4, <2>5, TrimmedOK DEF EntryOK, RowsOK
  <2>6. CASE ~hasDelRewrite
    BY <1>2, <2>4, <2>6 DEF DInv, Lost, Delta!hasXBeenRemoved, EntryOK, RowsOK
  <2> QED
    BY <2>5, <2>6
<1>3. DInv /\ [Next]_vars => (pc = "entry" /\ pc' = "ops" => Live)
  BY <1>2
<1> QED
  BY <1>1, <1>3, NextDInv, PTL DEF Spec, AppliedEntryLive
=============================================================================
