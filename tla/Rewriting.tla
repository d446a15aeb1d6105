----------------------------- MODULE Rewriting -----------------------------
(***************************************************************************)
(* The rewriting engine (struct closure, src/include/queries/closure.h): a *)
(* program of patterns is applied to one loaded graph, innermost objects   *)
(* first. Every match of a pattern is an entry; its operations delete      *)
(* objects and edges, create objects and assign containment, and at last   *)
(* the pattern's hook is replaced by another object. The graph itself is   *)
(* never modified: all effects go to a delta store (DeltaUpdates).         *)
(*                                                                         *)
(* A graph is a sequence of containment edges <<container, contained>>;    *)
(* the index of an edge is its record identifier. All loaded edges have    *)
(* the label Loaded. A pattern is a record                                 *)
(*   hook    the entry variable                                            *)
(*   vec     the hook is grouped: one entry per container of hooks         *)
(*   flat    columns [edge, node, out, opt] with one value per entry       *)
(*   nested  columns whose values form the rows of an entry                *)
(*   where   whether there is a condition on the entry                     *)
(*   ops     the operations                                                *)
(*   dst     the variable that replaces the hook                           *)
(* When vec holds, flat is the one ingoing column of the container, and    *)
(* the hook belongs to the rows.                                           *)
(***************************************************************************)
EXTENDS Integers, Sequences, FiniteSets, SequencesExt, Collections

CONSTANTS
  LegacyMax, MaxNew, Vars, EdgeIds,  \* see DeltaUpdates
  Inputs,   \* the graphs that may be loaded, each with a program to run on it
  Loaded    \* the containment label of the loaded edges

ASSUME LegacyMaxIsNat == LegacyMax \in Nat
ASSUME MaxNewIsNat == MaxNew \in Nat

-----------------------------------------------------------------------------
(* What the loader and the query parser produce.                           *)

\* The objects of a graph are numbered from 0, its edges by their records.
IsGraph(g) ==
  /\ g \in Seq((0 .. LegacyMax) \X (0 .. LegacyMax))
  /\ DOMAIN g \subseteq EdgeIds

\* A variable that stands for objects is never one that stands for edges.
AreColumns(cols) ==
  /\ IsSeq(cols)
  /\ \A i \in DOMAIN cols : cols[i].node \in Vars /\ cols[i].edge \notin Vars

IsPattern(p) ==
  /\ {p.hook, p.dst} \subseteq Vars
  /\ AreColumns(p.flat)
  /\ AreColumns(p.nested)
  /\ p.vec => p.flat # <<>>
  /\ \A j \in DOMAIN p.ops :
       /\ p.ops[j].t \in {"new", "phi", "value"} => p.ops[j].var \in Vars
       /\ p.ops[j].t = "phi" => p.ops[j].source \in Vars

ASSUME InputsAreWellFormed ==
  \A input \in Inputs :
    /\ IsGraph(input[1])
    /\ IsSeq(input[2])
    /\ \A i \in DOMAIN input[2] : IsPattern(input[2][i])

\* Containment is acyclic: the objects can be numbered along the edges.
ASSUME GraphsAreAcyclic ==
  \A g \in {input[1] : input \in Inputs} :
    \E number \in [0 .. LegacyMax -> 0 .. LegacyMax] :
      \A e \in DOMAIN g : number[g[e][1]] < number[g[e][2]]

VARIABLES
  maxId, objs, newVars, inserted, removed, removedEdges, repl,  \* the store
  graph,       \* forloading
  query,       \* vl
  todo,        \* the vertices of container_order not yet visited
  vertex,      \* the vertex being visited
  pattern_id,  \* the pattern being applied to it
  entries,     \* the entries of that pattern not yet processed
  entry,       \* the entry being processed
  op,          \* the next operation of rwr_to
  content,     \* delta_plus_db.O[id].phi[label], a partial function
  pairs,       \* the replacements still to record for this entry
  mark,        \* auxiliary: maxId when the entry was taken up
  pc           \* where the engine is

store == <<maxId, objs, newVars, inserted, removed, removedEdges, repl>>
vars == <<store, graph, query, todo, vertex, pattern_id, entries, entry, op,
          content, pairs, mark, pc>>

Delta == INSTANCE DeltaUpdates

NoId == Delta!NoId
NoEntry == [flat |-> <<>>, rows |-> <<>>]
pattern == query[pattern_id]
operation == pattern.ops[op]

-----------------------------------------------------------------------------
(* The loaded graph.                                                       *)

Vertices == UNION {{graph[e][1], graph[e][2]} : e \in DOMAIN graph}

\* Mutated: the length of the shortest path from a root.
LayerShortest(v) ==
  LET front[n \in 0 .. LegacyMax] ==
        IF n = 0 THEN Vertices \ {graph[e][2] : e \in DOMAIN graph}
        ELSE {graph[e][2] : e \in {d \in DOMAIN graph : graph[d][1] \in front[n - 1]}}
  IN CHOOSE n \in 0 .. LegacyMax :
       v \in front[n] /\ \A m \in 0 .. n - 1 : v \notin front[m]

\* The key of container_order: the length of the longest path to v, where
\* front[n] holds the vertices to which a path of length n leads.
Layer(v) ==
  LET front[n \in 0 .. LegacyMax] ==
        IF n = 0 THEN Vertices
        ELSE {graph[e][2] : e \in {d \in DOMAIN graph : graph[d][1] \in front[n - 1]}}
  IN CHOOSE n \in 0 .. LegacyMax :
       v \in front[n] /\ \A m \in n + 1 .. LegacyMax : v \notin front[m]

-----------------------------------------------------------------------------
(* Matching: the entries of a pattern at a vertex.                         *)

NodeVars(cols) == {cols[i].node : i \in DOMAIN cols}
EdgeVars(cols) == {cols[i].edge : i \in DOMAIN cols}

\* The edges that match a column when its pattern's hook is h. An optional
\* column without a match is filled with a placeholder.
Matched(col, h) ==
  LET found == {IF col.out THEN <<e, graph[e][2]>> ELSE <<e, graph[e][1]>> :
                  e \in {d \in DOMAIN graph :
                           graph[d][IF col.out THEN 1 ELSE 2] = h}}
  IN IF found = {} /\ col.opt THEN {<<NoId, NoId>>} ELSE found

\* The joined columns for the hook h: one function per combination.
Joined(cols, h) ==
  LET choices == UNION {Matched(cols[i], h) : i \in DOMAIN cols}
      picks == {p \in [DOMAIN cols -> choices] :
                  \A i \in DOMAIN cols : p[i] \in Matched(cols[i], h)}
      cell(p, v) ==
        LET i == CHOOSE j \in DOMAIN cols : v \in {cols[j].edge, cols[j].node}
        IN IF v = cols[i].edge THEN p[i][1] ELSE p[i][2]
  IN {[v \in NodeVars(cols) \cup EdgeVars(cols) |-> cell(p, v)] : p \in picks}

\* Rows that bind one object to two node variables are dropped.
Injective(row, nodes) ==
  \A v, w \in nodes : row[v] # NoId /\ row[v] = row[w] => v = w

\* One entry per combination of flat columns, its rows in some order; with a
\* grouped hook, one entry per container, with a row per hook and combination.
Entries(p, v) ==
  LET container == p.flat[1]
      hookRows(e) ==
        {Bind(p.hook, graph[e][2], Bind(container.edge, e, r)) :
           r \in Joined(p.nested, graph[e][2])}
      rows == IF p.vec
              THEN UNION {hookRows(e) : e \in {d \in DOMAIN graph : graph[d][1] = v}}
              ELSE Joined(p.nested, v)
      kept == {r \in rows : Injective(r, NodeVars(p.nested)
                                           \cup (IF p.vec THEN {p.hook} ELSE {}))}
      flats == IF p.vec THEN {Bind(container.node, v, <<>>)}
               ELSE {Bind(p.hook, v, r) : r \in Joined(p.flat, v)}
  IN IF kept = {} THEN {}
     ELSE {[flat |-> f, rows |-> SetToSeq(kept)] : f \in flats}

\* compileNodeVariableOptionality: the variables a match cannot do without,
\* the hook excepted.
hasRequiredMatch(p) ==
  LET cols == p.flat \o p.nested
  IN {cols[i].node : i \in {j \in DOMAIN cols : ~cols[j].opt}} \ {p.hook}

\* Mutated: only the deletions of the current pattern count.
hasDelRewriteHere == \E j \in DOMAIN pattern.ops : pattern.ops[j].t = "del"

\* hasDelRewrite: some pattern of the program deletes something.
hasDelRewrite ==
  \E i \in DOMAIN query : \E j \in DOMAIN query[i].ops : query[i].ops[j].t = "del"

-----------------------------------------------------------------------------
(* What an entry that was matched before has lost since.                   *)

Lost(p, cells) ==
  \E v \in DOMAIN cells \cap hasRequiredMatch(p) : Delta!hasXBeenRemoved(cells[v])

Skipped(p, e) ==
  hasDelRewrite /\ (Lost(p, e.flat) \/ \A i \in DOMAIN e.rows : Lost(p, e.rows[i]))

\* Mutated: the rows of an entry are all used once it has a live one.
TrimmedNot(p, e) == e

Trimmed(p, e) ==
  IF hasDelRewrite
  THEN [e EXCEPT !.rows = Select(@, {i \in DOMAIN @ : ~Lost(p, @[i])})]
  ELSE e

-----------------------------------------------------------------------------
(* Resolution of a variable within the entry being processed.              *)

\* The values bound to a variable, as they were matched.
Cells(v) ==
  IF v \in DOMAIN entry.flat THEN {entry.flat[v]} \ {NoId}
  ELSE {entry.rows[i][v] : i \in {j \in DOMAIN entry.rows : v \in DOMAIN entry.rows[j]}}
         \ {NoId}

isNested(v) ==
  /\ newVars[v] = <<>>
  /\ v \notin DOMAIN entry.flat
  /\ \E i \in DOMAIN entry.rows : v \in DOMAIN entry.rows[i]

\* resolveIdsOverVariableName2. Objects created for the variable hide its match.
Resolved(v) ==
  LET current(x) == IF x = NoId THEN NoId ELSE Delta!resolve(x)
  IN IF newVars[v] # <<>> THEN newVars[v]
     ELSE IF isNested(v) THEN [i \in DOMAIN entry.rows |-> current(entry.rows[i][v])]
     ELSE SetToSeq({current(x) : x \in Cells(v)})

\* resolveIdsOverVariableName: the same objects, without duplicates.
Objects(v) == Range(Resolved(v)) \ {NoId}

\* A target of an assignment that stands for no object yet gets a new one.
Unbound(v) == Resolved(v) = <<>> /\ ~isNested(v)

\* resolve_content: an assignment hides the loaded containment of the object,
\* which otherwise is read through deletions and replacements.
resolve_content(id, label) ==
  LET x == Delta!resolve(id)
      edges == IF label # Loaded THEN <<>>
               ELSE Select(graph, {e \in DOMAIN graph : graph[e][1] = x})
      current == [i \in DOMAIN edges |-> Delta!replacedWith(edges[i][2])]
      live == Select(current, {i \in DOMAIN current : ~Delta!hasXBeenRemoved(current[i])})
      renamed == \E i \in DOMAIN edges : current[i] # edges[i][2]
  IN IF Delta!hasXBeenRemoved(x) THEN <<>>
     ELSE IF <<x, label>> \in DOMAIN content THEN content[<<x, label>>]
     ELSE IF renamed THEN Ascending(Range(live)) ELSE live

-----------------------------------------------------------------------------
(* The steps of the engine.                                                *)

Init ==
  /\ Delta!Init
  /\ \E input \in Inputs : graph = input[1] /\ query = input[2]
  /\ todo = Vertices
  /\ vertex = NoId
  /\ pattern_id = 0
  /\ entries = {}
  /\ entry = NoEntry
  /\ op = 0
  /\ content = [x \in {} |-> <<>>]
  /\ pairs = {}
  /\ mark = LegacyMax
  /\ pc = "vertex"

\* The next vertex of the deepest layer left; in a layer any order will do.
visit ==
  /\ pc = "vertex"
  /\ \E v \in todo :
       /\ \A w \in todo : Layer(w) <= Layer(v)
       /\ vertex' = v
       /\ todo' = todo \ {v}
  /\ pattern_id' = 1
  /\ pc' = "pattern"
  /\ UNCHANGED <<store, graph, query, entries, entry, op, content, pairs, mark>>

\* The extra round for the vertex -1 finds no entries: every entry binds its
\* key to an object.
finish ==
  /\ pc = "vertex"
  /\ todo = {}
  /\ pc' = "done"
  /\ UNCHANGED <<store, graph, query, todo, vertex, pattern_id, entries, entry,
                 op, content, pairs, mark>>

\* The vertex is tested once per pattern, before the pattern's entries.
startPattern ==
  /\ pc = "pattern"
  /\ pattern_id \in DOMAIN query
  /\ IF Delta!hasXBeenRemoved(vertex)
     THEN pattern_id' = pattern_id + 1 /\ UNCHANGED <<entries, pc>>
     ELSE entries' = Entries(pattern, vertex) /\ pc' = "entry" /\ UNCHANGED pattern_id
  /\ UNCHANGED <<store, graph, query, todo, vertex, entry, op, content, pairs, mark>>

endPattern ==
  /\ pc = "entry"
  /\ entries = {}
  /\ pattern_id' = pattern_id + 1
  /\ pc' = "pattern"
  /\ UNCHANGED <<store, graph, query, todo, vertex, entries, entry, op, content,
                 pairs, mark>>

endVertex ==
  /\ pc = "pattern"
  /\ pattern_id \notin DOMAIN query
  /\ pc' = "vertex"
  /\ UNCHANGED <<store, graph, query, todo, vertex, pattern_id, entries, entry,
                 op, content, pairs, mark>>

\* Mutated: the entry is not passed over.
skipEntryStuck ==
  /\ pc = "entry"
  /\ \E e \in entries : Skipped(pattern, e) \/ pattern.where
  /\ Delta!clear_insertions
  /\ UNCHANGED <<graph, query, todo, vertex, pattern_id, entries, entry, op, content,
                 pairs, mark, pc>>

\* An entry is dropped when something it requires is deleted by now, or when
\* the pattern's condition does not hold of it.
skipEntry ==
  /\ pc = "entry"
  /\ \E e \in entries :
       /\ Skipped(pattern, e) \/ pattern.where
       /\ entries' = entries \ {e}
  /\ Delta!clear_insertions
  /\ UNCHANGED <<graph, query, todo, vertex, pattern_id, entry, op, content,
                 pairs, mark, pc>>

\* Mutated: the names of the previous entry are kept.
startEntryKeepingNames ==
  /\ pc = "entry"
  /\ \E e \in entries :
       /\ ~Skipped(pattern, e)
       /\ entries' = entries \ {e}
       /\ entry' = Trimmed(pattern, e)
  /\ op' = 1
  /\ mark' = maxId
  /\ pc' = "ops"
  /\ UNCHANGED <<store, graph, query, todo, vertex, pattern_id, content, pairs>>

startEntry ==
  /\ pc = "entry"
  /\ \E e \in entries :
       /\ ~Skipped(pattern, e)
       /\ entries' = entries \ {e}
       /\ entry' = Trimmed(pattern, e)
  /\ Delta!clear_insertions
  /\ op' = 1
  /\ mark' = maxId
  /\ pc' = "ops"
  /\ UNCHANGED <<graph, query, todo, vertex, pattern_id, content, pairs>>

\* The variables of all patterns share one name space: what a name denotes
\* does not depend on the pattern that deletes it.
nodeVars == UNION {{query[i].hook} \cup NodeVars(query[i].flat \o query[i].nested) :
                     i \in DOMAIN query}
edgeVars == UNION {EdgeVars(query[i].flat \o query[i].nested) : i \in DOMAIN query}

\* Mutated: the objects are marked without asking what stands for them.
deleteDirectly ==
  /\ pc = "ops"
  /\ op \in DOMAIN pattern.ops
  /\ operation.t = "del"
  /\ removed' = IF operation.var \in nodeVars THEN removed \cup Cells(operation.var)
                ELSE removed
  /\ op' = op + 1
  /\ UNCHANGED <<maxId, objs, newVars, inserted, removedEdges, repl>>
  /\ UNCHANGED <<graph, query, todo, vertex, pattern_id, entries, entry, content,
                 pairs, mark, pc>>

delete ==
  /\ pc = "ops"
  /\ op \in DOMAIN pattern.ops
  /\ operation.t = "del"
  /\ IF operation.var \in nodeVars THEN Delta!set_removed(Cells(operation.var))
     ELSE IF operation.var \in edgeVars THEN Delta!edge_removed(Cells(operation.var))
     ELSE UNCHANGED store
  /\ op' = op + 1
  /\ UNCHANGED <<graph, query, todo, vertex, pattern_id, entries, entry, content,
                 pairs, mark, pc>>

create ==
  /\ pc = "ops"
  /\ op \in DOMAIN pattern.ops
  /\ operation.t = "new"
  /\ Delta!newObjectToVariable(operation.var)
  /\ op' = op + 1
  /\ UNCHANGED <<graph, query, todo, vertex, pattern_id, entries, entry, content,
                 pairs, mark, pc>>

\* An assignment first resolves its target, and creates an object for it if
\* there is none; what follows finds the object bound to the variable.
instantiateTarget ==
  /\ pc = "ops"
  /\ op \in DOMAIN pattern.ops
  /\ operation.t \in {"phi", "value"}
  /\ Unbound(operation.var)
  /\ Delta!newObjectToVariable(operation.var)
  /\ UNCHANGED <<graph, query, todo, vertex, pattern_id, entries, entry, op,
                 content, pairs, mark, pc>>

\* What "set (phi label, var) as source" writes: the new values of phi[label]
\* for the objects it reaches.
\*  - a single target takes the single source, and keeps its content when the
\*    source is missing; it takes all the rows of a source that has rows;
\*  - with rows on both sides, each row's target takes the row's source;
\*  - a target with rows and a source without: only the first row is written.
Assigned(target, source) ==
  LET to == Resolved(target)
      from == Resolved(source)
      all == Ascending(Range(from) \ {NoId})
      matched == {i \in DOMAIN from : from[i] # NoId}
      last(x) == CHOOSE i \in matched : to[i] = x /\ \A j \in matched : to[j] = x => j <= i
  IN IF isNested(target) /\ isNested(source)
     THEN [x \in {to[i] : i \in matched} |-> <<from[last(x)]>>]
     ELSE IF isNested(target) \/ isNested(source)
     THEN [x \in {to[1]} |-> all]
     ELSE [x \in {to[1] : i \in matched} |-> <<from[1]>>]

\* Mutated: the object whose content is assigned gets no entry in the delta.
assignContentUnstored ==
  /\ pc = "ops"
  /\ op \in DOMAIN pattern.ops
  /\ operation.t = "phi"
  /\ ~Unbound(operation.var)
  /\ LET phi == Assigned(operation.var, operation.source)
     IN content' = Merge([k \in (DOMAIN phi) \X {operation.label} |-> phi[k[1]]], content)
  /\ op' = op + 1
  /\ UNCHANGED <<store, graph, query, todo, vertex, pattern_id, entries, entry,
                 pairs, mark, pc>>

assignContent ==
  /\ pc = "ops"
  /\ op \in DOMAIN pattern.ops
  /\ operation.t = "phi"
  /\ ~Unbound(operation.var)
  /\ LET phi == Assigned(operation.var, operation.source)
     IN /\ content' = Merge([k \in (DOMAIN phi) \X {operation.label} |-> phi[k[1]]], content)
        /\ Delta!generateId(DOMAIN phi)
  /\ op' = op + 1
  /\ UNCHANGED <<graph, query, todo, vertex, pattern_id, entries, entry, pairs,
                 mark, pc>>

\* Values, labels and properties are not modelled, but which objects may get
\* an entry in the delta is: any of the target's, as the source decides.
assignValue ==
  /\ pc = "ops"
  /\ op \in DOMAIN pattern.ops
  /\ operation.t = "value"
  /\ ~Unbound(operation.var)
  /\ \E xs \in SUBSET Range(Resolved(operation.var)) : Delta!generateId(xs)
  /\ op' = op + 1
  /\ UNCHANGED <<graph, query, todo, vertex, pattern_id, entries, entry, content,
                 pairs, mark, pc>>

\* Mutated: the identifiers of the match are replaced, not the current ones.
endOpsMatched ==
  /\ pc = "ops"
  /\ op \notin DOMAIN pattern.ops
  /\ pairs' = IF pattern.dst = pattern.hook THEN {}
              ELSE Cells(pattern.hook) \X Cells(pattern.dst) \X {{}}
  /\ pc' = "replace"
  /\ UNCHANGED <<store, graph, query, todo, vertex, pattern_id, entries, entry, op,
                 content, mark>>

\* After the last operation, the hook's objects are to be replaced by those of
\* another variable. Both are resolved before the first replacement.
endOps ==
  /\ pc = "ops"
  /\ op \notin DOMAIN pattern.ops
  /\ pairs' = IF pattern.dst = pattern.hook THEN {}
              ELSE Objects(pattern.hook) \X Objects(pattern.dst)
                     \X {IF pattern.vec THEN Objects(pattern.flat[1].node) ELSE {}}
  /\ pc' = "replace"
  /\ UNCHANGED <<store, graph, query, todo, vertex, pattern_id, entries, entry, op,
                 content, mark>>

\* The pairs are taken in ascending order.
nextPair == CHOOSE p \in pairs :
  \A q \in pairs : p[1] < q[1] \/ (p[1] = q[1] /\ p[2] <= q[2])

replaceHook ==
  /\ pc = "replace"
  /\ pairs # {}
  /\ Delta!replaceWith(nextPair[1], nextPair[2])
  /\ IF pattern.vec
     THEN pc' = "extend" /\ UNCHANGED pairs
     ELSE pairs' = pairs \ {nextPair} /\ UNCHANGED pc
  /\ UNCHANGED <<graph, query, todo, vertex, pattern_id, entries, entry, op,
                 content, mark>>

\* Mutated: the pair is not taken off the list.
extendContainersAgain ==
  /\ pc = "extend"
  /\ pc' = "replace"
  /\ UNCHANGED <<store, graph, query, todo, vertex, pattern_id, entries, entry, op,
                 content, pairs, mark>>

\* With a grouped hook the replacement also enters the containers in which the
\* hook is still found under its own identifier.
extendContainers ==
  /\ pc = "extend"
  /\ LET orig == nextPair[1]
         dest == nextPair[2]
         times(c) == LET now == resolve_content(c, Loaded)
                     IN Cardinality({i \in DOMAIN now : now[i] = orig})
         found == {c \in nextPair[3] : times(c) > 0}
         before(c) == IF <<c, Loaded>> \in DOMAIN content THEN content[<<c, Loaded>>] ELSE <<>>
     IN /\ content' = Merge([k \in found \X {Loaded} |->
                               before(k[1]) \o [i \in 1 .. times(k[1]) |-> dest]], content)
        /\ Delta!generateId(found)
  /\ pairs' = pairs \ {nextPair}
  /\ pc' = "replace"
  /\ UNCHANGED <<graph, query, todo, vertex, pattern_id, entries, entry, op, mark>>

endEntry ==
  /\ pc = "replace"
  /\ pairs = {}
  /\ pc' = "entry"
  /\ UNCHANGED <<store, graph, query, todo, vertex, pattern_id, entries, entry, op,
                 content, pairs, mark>>

terminated == pc = "done" /\ UNCHANGED vars

Next ==
  \/ visit \/ finish \/ startPattern \/ endPattern \/ endVertex
  \/ skipEntry \/ startEntry
  \/ delete \/ create \/ instantiateTarget \/ assignContent \/ assignValue
  \/ endOps \/ replaceHook \/ extendContainers \/ endEntry
  \/ terminated

Spec == Init /\ [][Next]_vars /\ WF_vars(Next)
-----------------------------------------------------------------------------
(* Properties.                                                             *)

Phases == {"vertex", "pattern", "entry", "ops", "replace", "extend", "done"}
Objs == Delta!Ids \cup {NoId}

TypeOK ==
  /\ Delta!TypeOK
  /\ todo \subseteq 0 .. LegacyMax
  /\ vertex \in -1 .. LegacyMax
  /\ pattern_id \in 0 .. (Len(query) + 1)
  /\ op \in Nat
  /\ \A k \in DOMAIN content : k[1] \in objs /\ Range(content[k]) \subseteq Delta!Ids
  /\ \A p \in pairs : p[1] \in Delta!Ids /\ p[2] \in Delta!Ids /\ p[3] \subseteq Delta!Ids
  /\ mark \in Delta!Ids
  /\ pc \in Phases

\* The engine goes through the store's interface only: whatever a program of
\* patterns does is a behaviour of the delta store.
DeltaSpec == Delta!Spec

\* Objects are rewritten inside out: when an object's entries are processed,
\* everything it contains has been rewritten already (closure.h:1212-1217).
InnerFirst ==
  pc \notin {"vertex", "done"} =>
    \A e \in DOMAIN graph : graph[e][1] = vertex => graph[e][2] \notin todo

\* No entry is applied whose required objects were deleted by an earlier one,
\* though the test is left out for programs without deletions
\* (closure.h:1259-1261); of the rows of an entry only the live ones are used.
AppliedEntryLive ==
  [][pc = "entry" /\ pc' = "ops" =>
       /\ ~Lost(pattern, entry'.flat)
       /\ entry'.rows # <<>>
       /\ \A i \in DOMAIN entry'.rows : ~Lost(pattern, entry'.rows[i])]_vars

\* While the operations of an entry run, no object created by that entry
\* stands for another one yet: set_removed and resolve guard against it, and
\* never have to.
FreshStandsForNothing ==
  pc = "ops" => \A x \in DOMAIN repl : repl[x] \notin inserted

\* The objects a variable is given by "new" or by an assignment are those of
\* the entry being processed, never those of an earlier entry.
NamesAreLocalToEntry ==
  pc \in {"ops", "replace", "extend"} =>
    \A v \in Vars : \A i \in DOMAIN newVars[v] : newVars[v][i] > mark

NoGroupedHooks == \A i \in DOMAIN query : ~query[i].vec

\* Replacements lead to an object that stands for itself, whatever patterns
\* replace each other's objects: without grouped hooks the cycle that
\* replacedWith breaks off never comes up.
ReplacementsEnd ==
  NoGroupedHooks => \A x \in DOMAIN repl : Delta!replacedWith(x) \notin DOMAIN repl

\* Containment is assigned between objects that are current: at that moment,
\* and without grouped hooks, neither the container nor the contained object stands for another one.
AssignsCurrentObjects ==
  [][\A k \in DOMAIN content' :
       NoGroupedHooks /\ (k \notin DOMAIN content \/ content'[k] # content[k]) /\ pc = "ops"
         => /\ k[1] \notin DOMAIN repl
            /\ Range(content'[k]) \cap DOMAIN repl = {}]_vars

\* A program of patterns comes to an end on every graph.
Terminates == <>(pc = "done")

\* "Ignoring the match if this was removed!" (closure.h:1242): the test is made
\* once per pattern, so entries that follow the deletion of their own vertex
\* are still applied.
NoEntryOfDeletedVertex ==
  [][pc = "entry" /\ pc' = "ops" => ~Delta!hasXBeenRemoved(vertex)]_vars

\* "Removing objects from the final result" (closure.h:1327): once a deletion
\* of a variable has run, what stands for its objects is deleted. A deletion
\* follows one replacement, everything else follows them to the end.
DeletionTakesEffect ==
  [][pc = "ops" /\ op' = op + 1 /\ operation.t = "del" /\ operation.var \in nodeVars
       => \A x \in Cells(operation.var) :
            Delta!hasXBeenRemoved(Delta!replacedWith(x))']_vars
=============================================================================
