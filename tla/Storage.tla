------------------------------ MODULE Storage ------------------------------
(***************************************************************************)
(* The storage of the loaded graphs (LinearGSM, src/include/database/      *)
(* LinearGSM.h): objects are loaded one at a time into builders, then the  *)
(* tables are laid out and indexed, and from then on only read.            *)
(*  - the registry (ActivityTable) lists the objects by their first label; *)
(*  - one table per containment label (PhiTable), whose rows get record    *)
(*    identifiers that run on from table to table;                         *)
(*  - one table per property key (AttributeTable), sorted by label and     *)
(*    value.                                                               *)
(* Graphs, objects, labels, rows and records are numbered from 1 here.     *)
(*                                                                         *)
(* An object is a record                                                   *)
(*   id     its number in the graph                                        *)
(*   ell    its labels                                                     *)
(*   props  its properties, a partial function on Keys; a value is the      *)
(*          natural that the table of the key keeps for it                 *)
(*   phi    what it contains, a partial function from PhiLabels to         *)
(*          sequences of <<weight, id>>                                    *)
(***************************************************************************)
EXTENDS SequencesExt, Collections

CONSTANTS
  Parsed,     \* databases that may be read from a file
  Given,      \* databases that may be handed over to load_databases
  PhiLabels,  \* the containment labels
  Keys,       \* the property keys
  Labels,     \* the labels of objects
  NoLabel,    \* the first label of an object without labels
  Intervals   \* the range queries asked: sequences of intervals of values

\* A graph as it is read or handed over: a list of objects.
gsm_object(K, L) == [id : Nat, ell : Seq(Labels), props : [K -> Nat], phi : [L -> Seq(Nat \X Nat)]]

IsGraph(g) ==
  /\ IsSeq(g)
  /\ \A i \in DOMAIN g : \E K \in SUBSET Keys, L \in SUBSET PhiLabels : g[i] \in gsm_object(K, L)

IsDatabase(d) == IsSeq(d) /\ \A g \in DOMAIN d : IsGraph(d[g])

ASSUME DatabasesAreLists ==
  /\ \A d \in Parsed \cup Given : IsDatabase(d)
  /\ IsFiniteSet(PhiLabels)
  /\ NoLabel \in Labels
  /\ \A qs \in Intervals : qs \in Seq(Int \X Int)

\* The objects of a graph have identifiers of their own. Those in a file are the
\* numbers of the graph's objects, in any order: indexing1 needs that, and a file
\* is loaded without convert.
Identifies(g) == \A i, j \in DOMAIN g : g[i].id = g[j].id => i = j

ASSUME ObjectsAreIdentified == \A d \in Parsed \cup Given : \A g \in DOMAIN d : Identifies(d[g])

ASSUME FilesAreNumbered ==
  \A d \in Parsed : \A g \in DOMAIN d : {d[g][i].id : i \in DOMAIN d[g]} = 1 .. Len(d[g])

VARIABLES
  path,      \* how the database is loaded: "parse" or "direct"
  db,        \* the database to load: a sequence of graphs
  graph,     \* the graph being loaded
  pos,       \* how many of its objects have been loaded
  pc,        \* the phase
  label_map, \* the first labels in the order of their numbers
  ell_values,  \* the labels of the objects that have any
  builder,   \* act_id_to_trace_id_and_time
  traces,    \* trace_id_to_event_id_to_offset
  registry,  \* main_registry: its table, its indices and its links
  elements,  \* what the property tables are built from
  attrs,     \* KeyValueProperties, a partial function on Keys
  phis,      \* containment_tables, a partial function on PhiLabels
  tables_start,               \* the next record identifier
  minRecordToContaimentLabel  \* the label of a table by its first record

loading == <<path, db, graph, pos>>
builders == <<label_map, ell_values, builder, traces, elements>>
records == <<tables_start, minRecordToContaimentLabel>>
vars == <<loading, pc, builders, registry, attrs, phis, records>>

Nothing == [x \in {} |-> <<>>]

Least(S) == CHOOSE x \in S : \A y \in S : x <= y
Greatest(S) == CHOOSE x \in S : \A y \in S : y <= x

-----------------------------------------------------------------------------
(* Loading.                                                                *)

Init ==
  /\ \/ path = "parse" /\ db \in Parsed /\ pc = "load"
     \/ path = "direct" /\ db \in Given /\ pc = "convert"
  /\ graph = 1
  /\ pos = 0
  /\ label_map = <<NoLabel>>
  /\ ell_values = Nothing
  /\ builder = <<>>
  /\ traces = <<>>
  /\ registry = [table |-> <<>>, primary |-> <<>>, secondary |-> <<>>,
                 next |-> Nothing, prev |-> Nothing]
  /\ elements = [k \in Keys |-> <<>>]
  /\ attrs = Nothing
  /\ phis = Nothing
  /\ tables_start = 1
  /\ minRecordToContaimentLabel = Nothing

\* The identifiers in the order in which the objects of a graph mention them;
\* order gives for each object the order in which its labels come.
Mentioned(g, order) ==
  LET contents(o, ls) ==
        FlattenSeq([i \in DOMAIN ls |->
          IF ls[i] \in DOMAIN o.phi
          THEN [j \in DOMAIN o.phi[ls[i]] |-> o.phi[ls[i]][j][2]] ELSE <<>>])
  IN FlattenSeq([i \in DOMAIN g |-> <<g[i].id>> \o contents(g[i], order[i])])

FirstPlace(ids, x) == CHOOSE i \in DOMAIN ids : ids[i] = x /\ \A j \in 1 .. i - 1 : ids[j] # x

NumberInPlace(ids, x) == FirstPlace(ids, x)   \* mutant: repetitions are counted

\* The number of an identifier: how many different ones came up to its first place.
NumberIn(ids, x) == Cardinality({ids[j] : j \in 1 .. FirstPlace(ids, x)})

WithNumbers(g, ids) ==
  [i \in DOMAIN g |->
     [g[i] EXCEPT !.id = NumberIn(ids, @),
                  !.phi = [l \in DOMAIN @ |->
                             [j \in DOMAIN @[l] |-> <<@[l][j][1], NumberIn(ids, @[l][j][2])>>]]]]

\* The objects of all graphs, by their places.
Places == UNION {{g} \X DOMAIN db[g] : g \in DOMAIN db}

\* The identifiers of every graph are made to run from 1.
convert ==
  /\ pc = "convert"
  /\ \E order \in [Places -> SetToSeqs(PhiLabels)] :
       db' = [g \in DOMAIN db |->
                WithNumbers(db[g], Mentioned(db[g], [i \in DOMAIN db[g] |-> order[<<g, i>>]]))]
  /\ pc' = "load"
  /\ UNCHANGED <<path, graph, pos, builders, registry, attrs, phis, records>>

object == db[graph][pos + 1]

firstLabel(o) == IF o.ell = <<>> THEN NoLabel ELSE o.ell[1]

\* The number of a label in a map that is extended when it is new.
Extended(map, l) == IF l \in Range(map) THEN map ELSE Append(map, l)
IndexOf(map, l) == CHOOSE i \in DOMAIN map : map[i] = l

\* Whether load_record knows the graph: its list is the next to be opened, or
\* there is one (the assertion of ActivityTable.cpp:83).
TraceKnown == graph <= Len(traces) + 1

\* Lists, made n by empty ones unless they are as many.
resize(lists, n) == lists \o [i \in 1 .. n - Len(lists) |-> <<>>]

\* mutant: one list too many is opened
load_recordWide(g, act, id) ==
  /\ builder' = [resize(builder, act + 1) EXCEPT ![act] = Append(@, <<g, id>>)]
  /\ traces' = IF g = Len(traces) + 1 THEN Append(traces, <<id>>)
               ELSE [traces EXCEPT ![Len(traces)] = Append(@, id)]

\* Filing an object under its first label, and its identifier with its graph.
load_record(g, act, id) ==
  /\ builder' = [resize(builder, act) EXCEPT ![act] = Append(@, <<g, id>>)]
  /\ traces' = IF g = Len(traces) + 1 THEN Append(traces, <<id>>)
               ELSE [traces EXCEPT ![Len(traces)] = Append(@, id)]

\* Its properties go to the builders of the property tables.
loadObjectProperty(act, o) ==
  elements' = [k \in Keys |->
                 IF k \in DOMAIN o.props
                 THEN Append(elements[k], <<act, o.props[k], graph, o.id>>)
                 ELSE elements[k]]

\* What it contains goes to the containment tables, which it may open.
loadContents(act, o) ==
  LET rows(l) == [j \in DOMAIN o.phi[l] |-> <<act, graph, o.id>> \o o.phi[l][j]]
      old(l) == IF l \in DOMAIN phis THEN phis[l].table ELSE <<>>
      used == {l \in DOMAIN o.phi : o.phi[l] # <<>>}
  IN phis' = Merge([l \in used |-> [table |-> old(l) \o rows(l), primary |-> Nothing,
                                    secondary |-> Nothing]], phis)

\* One object, whole: labels, registration, properties, containment.
loadObject ==
  /\ pc = "load"
  /\ graph \in DOMAIN db
  /\ pos < Len(db[graph])
  /\ TraceKnown
  /\ LET o == object
         map == Extended(label_map, firstLabel(o))
         act == IndexOf(map, firstLabel(o))
     IN /\ label_map' = map
        /\ ell_values' = IF o.ell = <<>> THEN ell_values
                         ELSE Bind(<<graph, o.id>>, o.ell, ell_values)
        /\ load_record(graph, act, o.id)
        /\ loadObjectProperty(act, o)
        /\ loadContents(act, o)
  /\ pos' = pos + 1
  /\ UNCHANGED <<path, db, graph, pc, registry, attrs, records>>

\* An object of a graph that follows one without objects: the identifier goes
\* to a list that does not exist, and what follows is undefined.
loadUnknown ==
  /\ pc = "load"
  /\ graph \in DOMAIN db
  /\ pos < Len(db[graph])
  /\ ~TraceKnown
  /\ pc' = "undefined"
  /\ UNCHANGED <<loading, builders, registry, attrs, phis, records>>

nextGraph ==
  /\ pc = "load"
  /\ graph \in DOMAIN db
  /\ pos = Len(db[graph])
  /\ graph' = graph + 1
  /\ pos' = 0
  /\ UNCHANGED <<path, db, pc, builders, registry, attrs, phis, records>>

-----------------------------------------------------------------------------
(* Indexing.                                                               *)

RowsOf(table, g, x) == {r \in DOMAIN table : table[r].graph = g /\ table[r].event = x}

\* mutant: the row of an object is filed where the object was loaded
OffsetsAsLoaded(table, g) ==
  [i \in DOMAIN traces[g] |-> Greatest(RowsOf(table, g, traces[g][i]))]

\* The rows of the objects of a graph, by the number of the object. A number that
\* no object has keeps what load_record put there.
Offsets(table, g) ==
  [x \in DOMAIN traces[g] |-> IF RowsOf(table, g, x) = {} THEN traces[g][x]
                              ELSE Greatest(RowsOf(table, g, x))]

\* indexing1: the rows label by label, and for every object its row. An object
\* whose number exceeds the count of its graph has no place for it.
layOutRegistry ==
  /\ pc = "load"
  /\ graph \notin DOMAIN db
  /\ LET rowsOf(a) == [i \in DOMAIN builder[a] |->
                         [l0 |-> a, graph |-> builder[a][i][1], event |-> builder[a][i][2]]]
         blocks == [a \in DOMAIN builder |-> rowsOf(a)]
         table == FlattenSeq(blocks)
         first(a) == Len(FlattenSeq(SubSeq(blocks, 1, a - 1))) + 1
     IN IF \E r \in DOMAIN table : table[r].event \notin DOMAIN traces[table[r].graph]
        THEN pc' = "undefined" /\ UNCHANGED <<registry, traces>>
        ELSE /\ registry' = [registry EXCEPT !.table = table,
                                             !.primary = [a \in DOMAIN builder |-> first(a)]]
             /\ traces' = [g \in DOMAIN traces |-> Offsets(table, g)]
             /\ pc' = "containment"
  /\ UNCHANGED <<loading, label_map, ell_values, builder, elements, attrs, phis, records>>

\* Rows are compared column by column: those of a containment table by label,
\* graph, container, weight, contained, those of a property table by label, value
\* and row of the object.
Precedes(r, s) ==
  \E i \in DOMAIN r : r[i] < s[i] /\ \A j \in 1 .. i - 1 : r[j] = s[j]

\* A row comes where as many rows are before it.
Sorted(table) ==
  LET before(i) == {j \in DOMAIN table : \/ Precedes(table[j], table[i])
                                         \/ table[j] = table[i] /\ j < i}
  IN [k \in 1 .. Len(table) |->
        table[CHOOSE i \in DOMAIN table : Cardinality(before(i)) = k - 1]]

\* mutant: a run is filed when the next one begins, and the last one never
BlocksWithoutLast(table) ==
  LET begins == {i \in DOMAIN table : i = 1 \/ table[i][1] # table[i - 1][1]}
      until(i) == Least({j \in begins : j > i}) - 1
      closed == begins \ {Greatest(begins)}
  IN [l \in {table[i][1] : i \in closed} |->
        LET i == Greatest({j \in closed : table[j][1] = l}) IN <<i, until(i)>>]

\* The first and last row of every label of a sorted table.
Blocks(table) ==
  LET begins == {i \in DOMAIN table : i = 1 \/ table[i][1] # table[i - 1][1]}
      until(i) == Least({j \in begins : j > i} \cup {Len(table) + 1}) - 1
  IN [l \in {table[i][1] : i \in begins} |->
        LET i == Greatest({j \in begins : table[j][1] = l}) IN <<i, until(i)>>]

\* One containment table; they come in the order of an unordered map.
indexContainment ==
  /\ pc = "containment"
  /\ \E l \in DOMAIN phis \ Range(minRecordToContaimentLabel) :
       LET table == Sorted(phis[l].table)
           rowsOf(k) == Ascending({i \in DOMAIN table : <<table[i][2], table[i][3]>> = k})
       IN /\ phis' = [phis EXCEPT ![l] =
                        [table |-> table, primary |-> Blocks(table),
                         secondary |-> [k \in {<<table[i][2], table[i][3]>> : i \in DOMAIN table}
                                          |-> rowsOf(k)]]]
          /\ minRecordToContaimentLabel' = Bind(tables_start, l, minRecordToContaimentLabel)
          /\ tables_start' = tables_start + Len(table)
  /\ UNCHANGED <<loading, pc, builders, registry, attrs>>

\* mutant: the row of the property table is taken for one of the registry
HomeOfRow(table, r) == <<registry.table[r].graph, registry.table[r].event>>

\* The object that a row of a property table is about.
Home(table, r) ==
  LET x == registry.table[table[r][3]] IN <<x.graph, x.event>>

\* All the property tables. The rows of an element are found by the row of its
\* object in the registry.
indexProperties ==
  /\ pc = "containment"
  /\ DOMAIN phis = Range(minRecordToContaimentLabel)
  /\ attrs' = [k \in {j \in Keys : elements[j] # <<>>} |->
       LET els == elements[k]
           rows == [i \in DOMAIN els |-> <<els[i][1], els[i][2], traces[els[i][3]][els[i][4]]>>]
           table == Sorted(rows)
           upTo(a) == Cardinality({r \in DOMAIN table : table[r][1] <= a})
           at(o) == Greatest({r \in DOMAIN table : table[r][3] = o})
           home(r) == Home(table, r)
       IN [table |-> table,
           primary |-> [a \in 1 .. Greatest({els[i][1] : i \in DOMAIN els}) |->
                          <<upTo(a - 1) + 1, upTo(a) + 1>>],
           secondary |-> [o \in {table[r][3] : r \in DOMAIN table} |-> at(o)],
           secondary2 |-> [h \in {home(r) : r \in DOMAIN table} |->
                             Greatest({r \in DOMAIN table : home(r) = h})]]]
  /\ pc' = "links"
  /\ UNCHANGED <<loading, builders, registry, phis, records>>

\* The objects of a graph, and their neighbours step places on.
Inside == UNION {{<<g, x>> : x \in DOMAIN traces[g]} : g \in DOMAIN traces}

LinksOver(linked, step) ==
  [r \in {traces[p[1]][p[2]] : p \in linked} |->
     LET p == CHOOSE q \in linked : traces[q[1]][q[2]] = r IN traces[p[1]][p[2] + step]]

\* mutant: the object before the last one is taken for the last one
LinksShort(step) ==
  LinksOver({p \in Inside : {p[2] + step, p[2] + 2 * step} \subseteq DOMAIN traces[p[1]]}, step)

Links(step) == LinksOver({p \in Inside : p[2] + step \in DOMAIN traces[p[1]]}, step)

\* indexing2: the rows of the first and last object of every graph, and the
\* links between neighbours.
indexing2 ==
  /\ pc = "links"
  /\ registry' = [registry EXCEPT
          !.secondary = [g \in DOMAIN traces |-> <<traces[g][1], Last(traces[g])>>],
          !.next = Links(1),
          !.prev = Links(-1)]
  /\ pc' = "indexed"
  /\ UNCHANGED <<loading, builders, attrs, phis, records>>

terminated == pc \in {"indexed", "undefined"} /\ UNCHANGED vars

Next ==
  \/ convert \/ loadObject \/ loadUnknown \/ nextGraph
  \/ layOutRegistry \/ indexContainment \/ indexProperties \/ indexing2
  \/ terminated

Spec == Init /\ [][Next]_vars

-----------------------------------------------------------------------------
(* Reading.                                                                *)

\* mutant: the first object of the next label is included
timed_dataless_existsAndNext(l) ==
  IF l \notin Range(label_map) THEN {}
  ELSE LET a == IndexOf(label_map, l)
           last == IF a = Len(registry.primary) THEN Len(registry.table)
                   ELSE registry.primary[a + 1]
       IN {<<registry.table[r].graph, registry.table[r].event>> :
             r \in registry.primary[a] .. last}

\* The objects of a label, by the registry's primary index.
timed_dataless_exists(l) ==
  IF l \notin Range(label_map) THEN {}
  ELSE LET a == IndexOf(label_map, l)
           last == IF a = Len(registry.primary) THEN Len(registry.table)
                   ELSE registry.primary[a + 1] - 1
       IN {<<registry.table[r].graph, registry.table[r].event>> :
             r \in registry.primary[a] .. last}

\* mutant: no step back from a start above the record
tableOfNext(k) ==
  LET starts == DOMAIN minRecordToContaimentLabel
      above == {s \in starts : s >= k}
  IN IF above = {} THEN Greatest(starts) ELSE Least(above)

\* The table of a record: the least start that is not below the record, or the
\* one before it.
tableOf(k) ==
  LET starts == DOMAIN minRecordToContaimentLabel
      above == {s \in starts : s >= k}
  IN IF above = {} THEN Greatest(starts)
     ELSE IF Least(above) > k THEN Greatest({s \in starts : s < Least(above)})
     ELSE Least(above)

findLabelFromID(k) == minRecordToContaimentLabel[tableOf(k)]

resolveRecord(k) == phis[findLabelFromID(k)].table[k - tableOf(k) + 1]

\* The record identifiers of a table run from its start.
recordId(l, i) ==
  (CHOOSE s \in DOMAIN minRecordToContaimentLabel : minRecordToContaimentLabel[s] = l) + i - 1

\* What an object contains, in the order of the table, with record identifiers.
resolveContent(g, x, l) ==
  IF l \notin DOMAIN phis \/ <<g, x>> \notin DOMAIN phis[l].secondary THEN <<>>
  ELSE LET rows == phis[l].secondary[<<g, x>>]
       IN [i \in DOMAIN rows |-> <<phis[l].table[rows[i]][4], phis[l].table[rows[i]][5],
                                  recordId(l, rows[i])>>]

\* Containers and what they contain, for a label of the container: by the
\* table's primary index, or the whole table for no label. Keyed by the
\* container, or the other way round.
query_container_or_containment(label, l, byContainer) ==
  LET none == label \notin Range(label_map) \/ l \notin DOMAIN phis
      table == phis[l].table
      a == IndexOf(label_map, label)
      rows == IF label = NoLabel THEN DOMAIN table
              ELSE IF a \notin DOMAIN phis[l].primary THEN {}
              ELSE phis[l].primary[a][1] .. phis[l].primary[a][2]
  IN IF none THEN {}
     ELSE {IF byContainer THEN <<table[r][2], table[r][3], table[r][5], recordId(l, r)>>
           ELSE <<table[r][2], table[r][5], table[r][3], recordId(l, r)>> : r \in rows}

\* A property, by object or by row of the registry.
resolveProperties(g, x, k) ==
  IF k \notin DOMAIN attrs \/ <<g, x>> \notin DOMAIN attrs[k].secondary2 THEN <<>>
  ELSE <<attrs[k].table[attrs[k].secondary2[<<g, x>>]][2]>>

resolve_record_if_exists(r, k) ==
  IF k \notin DOMAIN attrs \/ r \notin DOMAIN attrs[k].secondary THEN <<>>
  ELSE <<attrs[k].table[attrs[k].secondary[r]][2]>>

\* The first of the rows from begin on whose value is not below x, or is above x.
lower_bound(k, begin, end, x) == Least({r \in begin .. end - 1 : attrs[k].table[r][2] >= x} \cup {end})
upper_bound(k, begin, end, x) == Least({r \in begin .. end - 1 : attrs[k].table[r][2] > x} \cup {end})

\* mutant: the first row above an interval is found too
found_andNext(k, begin, end, q) ==
  lower_bound(k, begin, end, q[1]) .. Least({upper_bound(k, begin, end, q[2]), end - 1})

\* The rows whose values lie in an interval.
found(k, begin, end, q) ==
  lower_bound(k, begin, end, q[1]) .. upper_bound(k, begin, end, q[2]) - 1

\* The rows of one label whose values lie in given intervals, by bisection. The
\* search for an interval starts at the last row that the previous ones found.
exact_range_query(k, a, intervals) ==
  LET end == attrs[k].primary[a][2]
      begin[i \in 1 .. Len(intervals)] ==
        IF i = 1 THEN attrs[k].primary[a][1]
        ELSE IF found(k, begin[i - 1], end, intervals[i - 1]) = {} THEN begin[i - 1]
        ELSE upper_bound(k, begin[i - 1], end, intervals[i - 1][2]) - 1
  IN [i \in DOMAIN intervals |-> found(k, begin[i], end, intervals[i])]

labelsOf(g, x) == IF <<g, x>> \in DOMAIN ell_values THEN ell_values[<<g, x>>] ELSE <<>>

\* The objects in the order of the registry, put together from all the tables.
iterateOverObjects ==
  [r \in DOMAIN registry.table |->
     LET g == registry.table[r].graph
         x == registry.table[r].event
     IN [graph |-> g, id |-> x,
         ell |-> labelsOf(g, x),
         props |-> [k \in Keys |-> resolve_record_if_exists(r, k)],
         phi |-> [l \in PhiLabels |-> resolveContent(g, x, l)]]]

\* How many objects a graph is taken to have: the largest number in a file, or
\* one more than were handed over, and one for a graph without objects.
nodesInGraph(g) ==
  IF path = "parse" THEN Greatest({db[g][i].id : i \in DOMAIN db[g]} \cup {1})
  ELSE Len(db[g]) + 1

\* The contained objects of one object, in the order of a containment table.
ContainedIn(g, x, l) ==
  IF l \notin DOMAIN phis THEN <<>>
  ELSE LET table == phis[l].table
           rows == Ascending({i \in DOMAIN table : <<table[i][2], table[i][3]>> = <<g, x>>})
       IN [i \in DOMAIN rows |-> table[rows[i]][5]]

\* The objects of every graph in the order of their numbers, by a scan of the
\* tables and without weights. A place no object is for keeps a blank one,
\* with the number of the first object.
asObjects ==
  LET blank == [id |-> 1, ell |-> <<>>, props |-> [k \in Keys |-> <<>>],
                phi |-> [l \in PhiLabels |-> <<>>]]
      rowOf(g, x) == RowsOf(registry.table, g, x)
  IN [g \in DOMAIN db |-> [x \in 1 .. nodesInGraph(g) |->
        IF rowOf(g, x) = {} THEN blank
        ELSE [id |-> x, ell |-> labelsOf(g, x),
              props |-> [k \in Keys |-> resolve_record_if_exists(Greatest(rowOf(g, x)), k)],
              phi |-> [l \in PhiLabels |-> ContainedIn(g, x, l)]]]]

\* The same as drawings: the nodes, and one edge per row of a containment table.
asGraphs ==
  [g \in DOMAIN db |->
     [nodes |-> [x \in {registry.table[r].event : r \in {q \in DOMAIN registry.table :
                                                          registry.table[q].graph = g}} |->
                   [k \in Keys |-> resolve_record_if_exists(Greatest(RowsOf(registry.table, g, x)), k)]],
      edges |-> UNION {{[label |-> l, row |-> i, src |-> phis[l].table[i][3], dst |-> phis[l].table[i][5]] :
                          i \in {j \in DOMAIN phis[l].table : phis[l].table[j][2] = g}} :
                         l \in DOMAIN phis}]]

-----------------------------------------------------------------------------
(* Properties.                                                             *)

Phases == {"convert", "load", "containment", "links", "indexed", "undefined"}
Rows == DOMAIN registry.table
Records == 1 .. tables_start - 1

TypeOK ==
  /\ path \in {"parse", "direct"}
  /\ graph \in 1 .. Len(db) + 1
  /\ pos \in Nat
  /\ pc \in Phases
  /\ NoLabel \in Range(label_map)
  /\ Len(builder) <= Len(label_map)
  /\ \A r \in Rows : registry.table[r].l0 \in DOMAIN label_map
  /\ DOMAIN attrs \subseteq Keys
  /\ DOMAIN phis \subseteq PhiLabels
  /\ Range(minRecordToContaimentLabel) \subseteq DOMAIN phis

\* What an object of the database must look like when it is read back: its
\* containment is in the order of weight and identifier, whatever order it came in.
AsLoaded(g, o) ==
  [graph |-> g, id |-> o.id, ell |-> o.ell,
   props |-> [k \in Keys |-> IF k \in DOMAIN o.props THEN <<o.props[k]>> ELSE <<>>],
   phi |-> [l \in PhiLabels |->
              IF l \in DOMAIN o.phi THEN Sorted(o.phi[l]) ELSE <<>>]]

WithoutRecords(o) ==
  LET first(contents) == [i \in DOMAIN contents |-> <<contents[i][1], contents[i][2]>>]
  IN [o EXCEPT !.phi = [l \in PhiLabels |-> first(o.phi[l])]]

Objects == UNION {{AsLoaded(g, db[g][i]) : i \in DOMAIN db[g]} : g \in DOMAIN db}

Ids(contents) == [i \in DOMAIN contents |-> contents[i][2]]

\* The tables give back the loaded objects, each once: the materialisation and
\* every table of the matching start from what they give (closure.cpp:303). So
\* do the two scans that write the loaded graphs out (Environment::input),
\* though they find the objects and the rows of the properties another way.
ObjectsAsLoaded ==
  pc = "indexed" =>
    LET read == iterateOverObjects
        written == asObjects
        drawn == asGraphs
    IN /\ {WithoutRecords(read[r]) : r \in DOMAIN read} = Objects
       /\ Len(read) = Cardinality(Objects)
       /\ \A o \in Objects :
            LET ids == [l \in PhiLabels |-> Ids(o.phi[l])] IN
            /\ written[o.graph][o.id] = [id |-> o.id, ell |-> o.ell, props |-> o.props, phi |-> ids]
            /\ drawn[o.graph].nodes[o.id] = o.props
            /\ \A l \in PhiLabels : \A x \in Range(ids[l]) :
                 Cardinality({e \in drawn[o.graph].edges :
                                e.label = l /\ e.src = o.id /\ e.dst = x})
                   = Cardinality({i \in DOMAIN ids[l] : ids[l][i] = x})
       /\ \A g \in DOMAIN db : DOMAIN drawn[g].nodes = {o.id : o \in {p \in Objects : p.graph = g}}

\* A property read by object is the one read by row of the registry: the two
\* indices that resolve_prop and the materialisation use agree.
PropertyIndicesAgree ==
  pc = "indexed" =>
    \A r \in Rows, k \in Keys :
      resolveProperties(registry.table[r].graph, registry.table[r].event, k)
        = resolve_record_if_exists(r, k)

\* Record identifiers are the one name of a containment edge: every identifier
\* leads to one row and its label, and every row has an identifier of its own.
RecordsAreNames ==
  pc = "indexed" =>
    /\ \A k \in Records : \E i \in DOMAIN phis[findLabelFromID(k)].table :
         /\ recordId(findLabelFromID(k), i) = k
         /\ resolveRecord(k) = phis[findLabelFromID(k)].table[i]
    /\ \A l \in DOMAIN phis : \A i \in DOMAIN phis[l].table :
         recordId(l, i) \in Records /\ findLabelFromID(recordId(l, i)) = l

\* A lookup by the label of the container gives the edges that a scan of all
\* containers with that label gives, in both directions.
ContainmentByLabel ==
  pc = "indexed" =>
    \A a \in DOMAIN label_map, l \in DOMAIN phis, byContainer \in BOOLEAN :
      query_container_or_containment(label_map[a], l, byContainer) =
        UNION {LET row == registry.table[r]
                   cs == resolveContent(row.graph, row.event, l)
               IN {IF byContainer THEN <<row.graph, row.event, cs[i][2], cs[i][3]>>
                   ELSE <<row.graph, cs[i][2], row.event, cs[i][3]>> : i \in DOMAIN cs} :
                 r \in {q \in Rows : label_map[a] \in {NoLabel, label_map[registry.table[q].l0]}}}

\* A lookup by first label gives the objects with that label, if there are any
\* objects: without, resolve_index finds no start to give (ActivityTable.cpp:187).
ObjectsByLabel ==
  pc = "indexed" /\ Rows # {} =>
    \A a \in DOMAIN label_map :
      timed_dataless_exists(label_map[a]) =
        {<<o.graph, o.id>> : o \in {p \in Objects : firstLabel(p) = label_map[a]}}

\* From the first object of a graph the links lead through all its objects in
\* the order of their numbers, to the last one, and back.
LinksInOrder ==
  pc = "indexed" =>
    \A g \in DOMAIN traces : LET n == Len(traces[g]) IN
      /\ <<registry.secondary[g][1], registry.secondary[g][2]>> = <<traces[g][1], traces[g][n]>>
      /\ \A x \in 1 .. n : /\ registry.table[traces[g][x]].graph = g
                           /\ registry.table[traces[g][x]].event = x
      /\ \A x \in 1 .. n - 1 : LET r == traces[g][x]
                                  s == traces[g][x + 1]
                              IN /\ r \in DOMAIN registry.next /\ registry.next[r] = s
                                 /\ s \in DOMAIN registry.prev /\ registry.prev[s] = r

\* For intervals that are ascending and disjoint, the bisection finds the rows
\* that a scan finds, though it never returns to a row it has passed.
Disjoint(intervals) ==
  \A i, j \in DOMAIN intervals : i < j => intervals[i][2] < intervals[j][1]

RangesExact ==
  pc = "indexed" =>
    \A k \in DOMAIN attrs : \A a \in DOMAIN attrs[k].primary, qs \in Intervals :
      /\ Disjoint(qs)
      /\ attrs[k].primary[a][1] < attrs[k].primary[a][2]
      => exact_range_query(k, a, qs) =
           [i \in DOMAIN qs |->
              {r \in DOMAIN attrs[k].table : /\ attrs[k].table[r][1] = a
                                             /\ attrs[k].table[r][2] \in qs[i][1] .. qs[i][2]}]

\* A database whose graphs refer only to their own objects gets identifiers
\* that run from 1 to the number of objects in each graph, as the tables
\* require; whatever identifiers it had.
Closed(g) ==
  LET ids == {g[i].id : i \in DOMAIN g}
  IN \A i \in DOMAIN g : \A l \in DOMAIN g[i].phi :
       \A j \in DOMAIN g[i].phi[l] : g[i].phi[l][j][2] \in ids

IdentifiersAreDense ==
  pc # "convert" =>
    \A g \in DOMAIN db :
      Closed(db[g]) => {db[g][i].id : i \in DOMAIN db[g]} = 1 .. Len(db[g])

=============================================================================
