# DatagramDB in TLA+

DatagramDB loads graphs of *generalised semistructured* objects, matches the
patterns of a query against them, and rewrites them: objects and edges are
deleted, created, assigned to one another, and replaced. This directory
specifies the path of a query, from the loading of the graphs to the writing of
the result, checks the specifications with TLC on small graphs and programs, and
proves, with TLAPS and for every size, every safety property stated of the delta
store, of the rewriting engine, and of the making of the result, and the first
ones of the storage.

Paths are relative to the root of the repository.

## 1. The system

### 1.1 Data flow

    query text --(parser)--> patterns ------(sortVL)-----> ordered patterns
                                                               |
    graphs --(loadTextGraph)--> LinearGSM tables --(match, join, nest)--> entries
                                                               |
          for each vertex, deepest layer first: run_transformations
              where clauses and expressions, with scripts  <-> reads
                                                               |
                                                     delta_updates, one per graph
                                                               |
                                        generate_materialised_view (once)
                                                               |
          fillInForSerialization / generateGraphsFromMaterialisedViews

Everything runs in one thread (`main.cpp`, `DatagramDB/` and the tests call the
functions of `struct closure` in order). There are no locks, callbacks, messages
or retries, and a query that throws leaves nothing behind that is used again. The
hard part is *sequence*: all patterns are matched before the first one is applied,
so every application works on matches that earlier ones may have made stale,
through two levels of indirection (a name of the entry, a chain of replacements),
and the last step derives numbers and orders of containment from what remains.

### 1.2 Components

| Component | Code | State | Operations | What makes it correct |
|---|---|---|---|---|
| Delta store | `include/queries/delta_updates.h`, `src/queries/delta_updates.cpp` | created objects and their counter, names of the current entry, deleted objects, deleted edges, replacement map | create, name, delete, replace, resolve, clear | identifiers are fresh; names do not outlive an entry; replacement chains resolve to one object, cycles included; a deletion is lost only to a live replacement |
| Rewriting engine | `include/queries/closure.h` (`run_transformations`, `resolveIdsOverVariableName*`, `resolve_content`), `src/queries/closure.cpp` | position (vertex, pattern, entry, operation), assigned content | visit a vertex, skip or apply an entry, delete, create, assign, replace the hook | inside-out order; only live matches are used; only current objects are written; an end is reached |
| Materialisation and serialisation | `closure.h` 80-260, 540-560; `closure.cpp` 70-360 | the view, `isMaterialised` | build the view, write it out, draw it | no cycle of containment, no dangling reference, no edge lost |
| Matching and joins | `src/queries/preserve_results.cpp` | result tables per edge of a pattern, columns and entries per pattern | collect and answer the labels of edges, join, group by the hook, file by vertex | exactly the matches of the pattern, each as often as it can be chosen |
| Nested tables | `include/database/SimpleTable.h`, `include/queries/NestedResultTable.h` and their sources | rows and nested rows | natural join, left join, nest | algebraic: agree with the relational definitions |
| Expressions | `closure::Interpret` (`closure.cpp` 360-1180) | none of its own; reads the row, the delta store, the tables | evaluate a test, an expression, a choice over an entry | reads the objects the store says stand for the matched ones; a result belongs to its row |
| Script language | `include/scriptv2`, `src/scriptv2`, `include/database/SchemaIndexer.h` | one environment of all scripts; the row of each pattern's indexer; a node shared by its columns | from parse tree to nodes, evaluate, type, cast | no name and no value outlives its call or its row |
| Data predicates and atomisation | `include/queries/DataPredicate.h`, `AtomizingPipeline2`, `MinTermsUtils` | conditions per node, conjunction and property; atoms | add a condition, collect, cut into boxes, answer nodes, clear | a conjunction is what all its parts admit; boxes are disjoint and leave nothing out; nodes get their atoms |
| Graph storage | `include/database/LinearGSM.h`, `src/database/LinearGSM.cpp`, `ActivityTable`, `AttributeTable`, `PhiTable` | builders while loading; then the registry of objects, one table per property and per containment label, their indices, `container_order` | load from a file or from lists, index, look up by label, object, record or value, put objects and graphs together | every index answers what a scan of the loaded objects would |
| Pattern ordering | `closure::sortVL` | none | order patterns by dependency | a producer comes before its consumers |
| Query parser | `include/database/GSMPatternVisitor.h` | pattern variables and their optionality | translate a syntax tree | optionality and the deletion flag |
| Fuzzy matching, isomorphism, environment and bindings, generated parsers, visualiser | see `PROJECT.json` | | | not part of the query path modelled here |

### 1.3 Interactions

* The engine *reads* the tables and `container_order`, and writes only to
  `delta_updates` (`Delta!...` in the specification) and to the `phi` of objects
  kept in it (`content`).
* Loading fills builders, indexing turns them into tables, and queries only read:
  the phases do not overlap. Record identifiers, given out while indexing, name the
  edges of a match until the result is written.
* The store does not know of patterns; it sees calls. In what order they come is
  up to the patterns of a query.
* An expression reads three things: the row of the entry, the updates made so far,
  and, for `MATCHED`, the tables of other patterns. A script reads the row through
  the indexer of its pattern, which lives as long as the graph is worked on.
* The materialisation reads the engine's result once (`isMaterialised`), and each
  consumer reads the view.
* Patterns interact with one another through the store only: a later pattern, or a
  vertex of an outer layer, finds the replacements and deletions of the earlier ones.

### 1.4 What is hard to test

`PROJECT.json` lists the hazards with their lines. They are of these kinds:
sequences of replacement and deletion by several patterns; matches that are stale
when they are applied; names, nodes and rows that must not outlive an entry;
answers that depend on sizes of tables or orders of maps where they must not;
positions, numbers and bounds of intervals that one loop or table computes and
another uses. The repository's tests (`src/tests/script_runs.cpp`) run four
complete queries and compare their results.

## 2. Modules

| Module | Models | Depends on |
|---|---|---|
| `Collections` | dictionaries, vectors and ordered sets: merging, binding, listing in ascending order, selecting positions | |
| `DeltaUpdates` | `struct delta_updates`: seven state components, one action per update, the resolving reads | |
| `Rewriting` | `run_transformations` and everything it calls, on one graph; the entries a pattern matches | EXTENDS `Collections`, `Delta == INSTANCE DeltaUpdates` |
| `Materialisation` | `generate_materialised_view`, `fillInForSerialization`, `generateGraphsFromMaterialisedViews` | EXTENDS `Rewriting` |
| `Storage` | loading, indexing and looking up in `LinearGSM` and its tables, `asObjects`, `asGraphs` | EXTENDS `Collections` |
| `NestedTables` | rows, bags of rows, natural and left joins, joins on a nested column, nesting | |
| `PatternMeaning` | *abstract*: each pattern is answered with its matches, as a bag; a query is refused only for want of a required edge; it ends | EXTENDS `NestedTables` |
| `Matching` | a query's matching from the collection of labels to morphisms | EXTENDS `NestedTables`, `Promise == INSTANCE PatternMeaning` |
| `DataPredicates` | conditions over one property, their intervals, conjunction and decomposition | |
| `Atomisation` | `AtomizingPipeline2`: conditions collected, cut into boxes, answered | EXTENDS `DataPredicates`, `Collections` |
| `ObjectViews` | labels, values, properties and containment of an object read through the updates | |
| `SchemaIndexer` | how a script finds the columns of its row | |
| `ScriptValues`, `Script` | values, texts, environments, types and evaluation of scripts | EXTENDS `SchemaIndexer`, `ObjectViews` |
| `ScriptVisitor` | from the parse tree of a script to its nodes | EXTENDS `Script` |
| `Expressions` | `closure::Interpret` and the loops that call it | EXTENDS `ScriptVisitor` |
| `Collections_proofs` | lemmas: induction as the least element of a set, finiteness, ordered sets, ranks in an order, selection, lists joined to one, one-to-one correspondences and counting, where a walk along a partial function ends | EXTENDS `Collections` |
| `DeltaUpdates_proofs` | the theorems about the store | EXTENDS `DeltaUpdates`, `Collections_proofs` |
| `RewritingStore_proofs` | the refinement of the store, types, live entries | EXTENDS `Rewriting`, `DP == INSTANCE DeltaUpdates_proofs` |
| `Rewriting_proofs` | names, the order of the layers, and what stands for what while a program runs | EXTENDS `RewritingStore_proofs` |
| `Materialisation_proofs` | the theorems about the result | EXTENDS `Materialisation`, `RewritingStore_proofs` |
| `Storage_proofs` | the theorems about the storage: types, records, identifiers, registry, links, indices | EXTENDS `Storage`, `Collections_proofs` |
| `StorageReading_proofs` | what the tables hold, and that every way of reading them gives it back | EXTENDS `Storage_proofs` |
| `Atomisation_proofs` | the order of values and its neighbours; conditions are conjoined, values cut into boxes, and nodes answered with the right ones | EXTENDS `Atomisation`, `Collections_proofs` |
| `MC...` | graphs, programs, queries, conditions and bounds for TLC | the module of that name |

### 2.1 Correspondence

**`DeltaUpdates`.** `maxId` is `delta_plus_db.max_id`, `objs` the keys of
`delta_plus_db.O`, `newVars` is `newly_inserted_vertices`, `inserted` is
`newIterationInsertedObjects`, `removed` and `removedEdges` are the two sets of the
same names, and `repl` is `replacement_map`. `replacedWith` walks the chain and
stops at the first object met twice, as the code does; `toRemove` looks at one
replacement only, as `set_removed` does; `resolve` is the guard that every reader
applies, by which objects made in the current entry do not yet stand for others.
`Init` holds the object 0 because the default constructor of the embedded database
puts one there.

**`Rewriting`.** `pc` names the loop in which the engine is: choosing a vertex,
choosing a pattern, choosing an entry, the operations of `rwr_to`, the
replacement of the hook, the extension of its containers. Each loop's head, each
operation and each early exit is an action; the map in `PROJECT.json` has the
lines. `Entries` gives the result of matching, joining and grouping without the
tables: the combinations of matching edges in which distinct node variables of one
row denote distinct objects, grouped by the hook or, with a grouped hook, by its
container. `Lost`, `Skipped` and `Trimmed` are the tests that an entry and its
rows pass before they are applied; they are made only if some pattern of the
program deletes something.

**`Materialisation`.** `Materialised` is the body of the loop of
`generate_materialised_view`: the loaded records come first (`Records`), each is
brought up to date (`Current`), and deleted edges go (`NotDeleted`). `output`,
an auxiliary variable, tells which of the two consumers runs and how far it is.
`fillInForSerialization` and `generateGraphsFromMaterialisedViews` collect the
edges (`Numbered`, with the running number of the records; `Drawn`). The
depth-first search that follows in both is one action per call and per return of
the library's `topologicalSortUtil`: `searchFrom`, `descend`, `ascend`; `path` is
the stack of calls, `Stack` the vector of the same name. The function is taken to
return at once from a node that was visited. `breakCycles` is what comes after the
search: the propagation of depths along the reversed `Stack` (`Depths`) and the
removal of the edges that do not lead deeper (`Surviving`). `write` then selects, by
number, the records of surviving edges (`Serialised`), `draw` keeps the graph. An
object that was deleted and then replaced is drawn but not serialised. One output is
produced per behaviour, as neither changes what the other reads.

**`Storage`.** `pc` is the phase: `convert` (identifiers made dense, for lists
only), `load`, `containment`, `links`, `indexed`. One action loads one object
whole: its first label (`label_map`), its registration (`load_record`), its
properties (`loadObjectProperty`) and its contents (`loadContents`).
`resize` is the loop of `load_record` that opens lists up to the number of a label,
`Sorted` is `std::sort` by the comparison of rows (`Precedes`).
`layOutRegistry` is `indexing1`, `indexContainment` is `PhiTable::index` of one
table, `indexProperties` is `AttributeTable::index` of all, `indexing2` links the
rows of a graph. `traces` is the list that first holds the identifiers of a
graph's objects and, after `indexing1`, their rows. Pointers to rows are the
numbers of rows. Where the code writes outside of a list, the phase becomes
`undefined` and nothing is said of what follows. The lookups are operators with
the names of the functions. `asObjects` sizes its lists by a number that is one
too large after some ways of loading (`LinearGSM.cpp:230`) and then gives one blank
object more than was loaded; `ObjectsAsLoaded` asks for the objects that were.

**`Matching`.** `phase` names the stage: `collecting` (the labels the edges of all
patterns ask for, each looked up once, `collect_node_match` and
`run_simple_edge_queries`), then for each pattern `loading` (one table per edge,
in the columns its variables give it, split into required and optional ones),
`joining` (the required tables by size, ending early at an empty one), `joining
more` (left joins with the optional ones; then `keepFlat`, or `group` by the columns
of ingoing edges, cut to whole classes of hooks) and `filing` (rows in which variables are not
bound apart are dropped; the columns are taken from a first row). `throw` is the
exception of a pattern without required edges and of the other refusals.
`AnswersAsMeant` maps the filed rows to bags of assignments.

**`Atomisation`.** A query builds its conditions one at a time (`addCondition`);
`model` is what the pipeline keeps, conjoined as it goes; `asked`, an auxiliary
variable, is what was written. `collect_data` gathers the intervals of each
property over all nodes (`BulkMap`), cuts them (`Tree`), lists the boxes of each label
in some order and numbers them, label by label (`Numbered`); `atomize_model` answers
every node, `atomize_throws` is its exception, and `clear` starts the next query
with what the pipeline carries over.

**`Expressions`.** `Test`, `Operation`, `Update`, `NextRow`, `Skip` and
`NextGraph` are the loops of the rewriting around an evaluation: the `where` of an
entry, one expression of its assignments, what the assignments do to the updates,
the ends of an entry and a graph. `st` holds all that outlives an evaluation: the
environment of scripts, the indexers, the remembered casts, and the updates.
`interpret_closure_evaluate`, `interpret`, `resolve`, `resolveIDs` and the
`Script` operators thread it as an argument and a result; an exception is a
text in `st.raised` that every later step passes through. `last` records the latest
evaluation with the state before it, for the properties.

### 2.2 Abstractions

* *One graph* (`Rewriting`). The engine loops over the loaded graphs, and each has
  its own store. That others are loaded has one consequence, which is kept: a
  column of an optional edge exists in the table even where it matches nothing in
  this graph, so such an edge gives a placeholder (`NoId`, the code's `(size_t)-1`).
  `Matching`, `Storage` and `Expressions` have several graphs.
* *Order of entries.* Entries are processed in an arbitrary order; the code takes
  them in the order of its tables. Likewise the vertices of one layer. What
  holds for every order holds for the code's.
* *Conditions.* In `Rewriting` a `where` clause is a free choice for each entry;
  `Expressions` evaluates it.
* *Values* are left out of `Rewriting`; that an assignment of a value may put an
  object into the store is kept (`assignValue`).
* *One loaded label* in `Rewriting`: edges have a single containment label.
* *Injectivity.* In `Rewriting` edge variables are not compared: distinct contained
  objects are reached by distinct edges in the graphs used there, which have no
  parallel edges. `Matching` has parallel edges and compares both kinds.
* *Grouped hooks* in `Rewriting` have the container's column and nested columns;
  the further columns at the hook that the code supports are not included.
* *Materialisation.* The drawing's search writes its starting nodes past the end of
  a list that was only reserved (`closure.cpp:187`); the list is taken to stay
  empty, which is what its size says and what the loop over it reads. The roots
  of a graph without edges are the loaded objects; after loading a file or list the code
  may count one more (`LinearGSM.cpp:230`), which is no node and is dropped.
* *Storage.* A value is a natural, the one its table keeps: conversion from and to
  text is left out, and so are the second list of values (`xi`) and the scores.
  Numbers start at 1, not at 0. A file is a database whose graphs have the
  identifiers 0 to n - 1 in any order, as the loader requires of files; lists may
  have any identifiers. Lookups return sets where the code sorts and
  deduplicates, and sequences where it keeps an order.
* *Matching.* Rows are functions from columns, tables are bags of them: the order of
  rows decides nothing but which of them comes first when columns are looked up,
  and that is a choice. Labels, identifiers and graphs are model strings; the order of names
  is that of `Alphabet`. `where` clauses over matches, and hooks of patterns that
  are not grouped, are left out. Cells join if they are equal; in the code a flat and a
  nested cell are neither before nor after one another (`SimpleTable.h:449`) and so join
  as well, which only the patterns that `Stated` sets apart can meet.
* *Atomisation.* A double is a natural up to `MaxDouble`, with its neighbours in
  the place of the next representable ones; a string is a sequence of at most
  `MaxLength` characters up to `MaxChar`, and its neighbour is computed as the
  code does, by changing and padding characters. An atom is the prefix `p` and a number,
  as a pair; labels are model values, which are no pairs. A query that has an interval with its
  ends in the wrong order is not collected: `asInterval` reports it and goes on (line 335 of
  `DataPredicate.cpp`); of numbers, reading a bound that was never set throws (line 623), and with
  strings the ends are handed swapped to a library that is not in the repository.
* *Scripts.* The functions sine, cosine, tangent and logarithm, the overflow of
  numbers, and division of doubles by zero are left out; numbers are exact
  decimals as far as the programs use them. A node of the script's own text
  remembers its type once computed, which is left out. The text of an operator is
  rendered by its name; tuples are rendered in a fixed order of their keys;
  operands are evaluated left to right, an order C++ leaves open. Scripts that
  evaluate a text get its tree from `Parsed`. `MaxNested`, how deep evaluation may
  nest, stands for the end of the stack. Nodes call one another through values, so
  evaluation is recursive over data; the constant `run`, given the operator `Run`,
  ties that knot.
* *Expressions.* Between operations the updates change to any of `Deltas` that
  extends them: what assignments do is in `Rewriting`. Repeated containments are
  dropped by identifier and score; the code's order counts equal ones as less
  (`gsm_object_xi_content.h:50`), and no property depends on which are left. The removal of nested rows
  whose objects were deleted, before an evaluation, is left out; an entry with a
  deleted object other than its vertex *may* be skipped. Nothing follows an
  exception. The sets of containments that `resolve` computes are left out; nothing
  modelled reads them.

## 3. Runs

| Run | Question | Result |
|---|---|---|
| `delta_updates` | in whatever order the operations come, are created objects fresh and names local, and do chains and cycles of replacement resolve to one object? | holds |
| `rewriting` | every program of one or two of eight patterns on every acyclic graph of three objects, and programs with grouped hooks on graphs of up to four: inside out, live matches, current objects, only through the store's interface, and to an end? | holds |
| `materialisation` | rewriting followed by either output, for every order of listing the objects: acyclic, roots are nodes, edges follow the replacements, and it is always produced? | holds |
| `storage` | files and lists of one and two graphs: do the indices give what a scan of the loaded objects gives? | holds |
| `matching` | eight queries on 129 databases: is every pattern answered with its matches, each as often as it can be chosen, and with columns under which its variables are found? | holds |
| `atomisation` | up to three conditions in every order, in one query or several: disjoint boxes that leave nothing out, and each node gets its atoms? | holds |
| `expressions` | 33 programs on the rows of two patterns in two graphs, with the updates changing: does an evaluation depend on its row and the updates only, and do tests, scripts and choices agree? | holds |
| `deleted_vertex` | is an entry of a deleted vertex ignored? | violated |
| `deletion_effect` | does a deletion remove an object from the result? | violated |
| `dangling_reference` | does the result refer to its own objects only? | violated |
| `nested_schema` | do nested rows with and without a partner have the same columns? | violated |
| `row_variables` | do the variables of a script hold what the row holds? | violated |

### 3.1 Properties

`DeltaUpdates`: `TypeOK`; `MentionsOnlyKnown` (nothing in the store refers to an
identifier that was not handed out); `BindingsAreLocal` (what a name denotes was
created in this entry, is no loaded object, and is bound once);
`ResolvingIsIdempotent` (an object that stands for others resolves to itself, along
cycles too); `FreshOnCreation` (no deletion or replacement precedes an object's
creation); `OnlyLiveObjectsUndelete` (a deletion is undone only by a replacement
with a live object).

`Rewriting`: `TypeOK`; `InnerFirst`; `AppliedEntryLive` (no entry is applied whose
required objects were deleted, though programs without deletions skip the test,
and only live rows are used); `FreshStandsForNothing` (the guard in `resolve` and
`set_removed` never has to act while operations run); `NamesAreLocalToEntry`;
`ReplacementsEnd` (no cycle of replacements arises);
`AssignsCurrentObjects`; `Terminates`; and the refinement `DeltaSpec`: every
behaviour of the engine is one of the store's own specification, so that what is
shown of `DeltaUpdates` for every order of calls holds of the calls patterns make.

`Materialisation`: `OutputAcyclic`, `RootsAreNodes`, `EdgesFollowReplacement`,
`EventuallyWritten`, each of both outputs. Two conditions in them are
needed. The written graph is acyclic when all records take a number
(`EveryRecordCounts`): otherwise the write-out mistakes one record for another
(section 4) and may keep one whose edge was dropped for closing a cycle; TLC finds
that in `materialisation` when the condition is left out. The loaded edges are all
written when the chains of replacements end (`EveryChainEnds`), which is proved for
programs without grouped hooks; the drawing, which does without numbers, needs
neither.

`Storage`: `TypeOK`; `ObjectsAsLoaded` (the objects put together from all the
tables are those that were loaded, each once, and so are those of the two scans
that write a database out, which find them another way); `PropertyIndicesAgree`
(by row and by graph and object); `RecordsAreNames` (record identifiers and rows of
containment tables correspond one to one, across tables); `ContainmentByLabel`,
`ObjectsByLabel`, `RangesExact` (lookups against scans; the second for databases
with objects, see section 4, the last for ascending disjoint intervals, since the
search never goes back); `LinksInOrder`;
`IdentifiersAreDense` (lists whose graphs refer to their own objects get the
identifiers the tables require).

`Matching`: `AnswersAsMeant`, the refinement of `PatternMeaning`: the matches are
defined there without tables, by choosing an edge for every required leg and
extending by each edge, or none, for the optional ones; the run shows that joins in
order of size with an early end, left joins, grouping and the tests of injectivity
lose none, invent none and count each right, and that a query is refused only for
want of a required edge. `GroupsAreWhole` (a group is not torn apart by its
nested columns; hooks divide it into disjoint classes); `VariablesAreFound`
(one row decides the columns of all, and in every row each variable is found where
they say, in one place). Both, and the promise, set apart patterns whose optional
edges feed one another (`Stated`), of which the code's answer depends on the order.

`Atomisation`: `IntersectionIsConjunction` (what is kept of a conjunction admits what all
its conditions admit, strict comparisons with an end of the type set apart, see section 4);
`AtomsPartition` (boxes are disjoint and
cover every object); `NoMatchIsLost` and `AtomisationIsExact` (a node gets the atoms
of all objects it asks for, and of no others; the first sets two inequations of one property
apart, the second all inequations, those comparisons, and labels that are called like an atom,
see section 4).

`Expressions`: `RowMeaning` (a script over one column gives what it would give in a
fresh environment: nothing is left of the rows, patterns and scripts before, with
the shared node and environment in the way); `NamesRetained` (calls take their
parameters back); `TestsAgree` (a test and a script read the same of the same object, whatever
replaced it, though by different functions; what each makes of a text, a number, a
missing property and a label behind the last is part of the property, for they do not
make the same of it, see section 4); `MatchedComplement` (`MATCHED` and `UNMATCHED`
exclude each other and one holds, missing objects and absent patterns included);
`ChoicePerElement` (a choice over a nested column gives each object its own branch).

For every property of a passing run `PROJECT.json` has a mutant, a plausible slip
in a modelled definition, which the same run finds violated.

### 3.2 Bounds

* `LegacyMax`, the largest loaded identifier; `MaxNew`, how many objects are
  created. In `delta_updates`, two of each: chains of three replacements, cycles of
  two, three and four objects, and the largest number of created objects, where
  creation is disabled, all occur. Variables are interchangeable there (`VarSymmetry`):
  no operation treats one in a special way, and the run checks no liveness. In the other runs
  `MaxNew` exceeds what any program creates; a creation it prevented would stop
  the engine within an entry and be reported as a deadlock.
* `rewriting`: all 7 sets of edges between three objects that are acyclic along
  the order of the identifiers (each with every order of its records, which is the
  order of the tables), all 72 programs of one or two of eight patterns. Three
  objects give a shared object, a chain, and a chain with a shortcut; two
  patterns give a replacement of a replacement, a deletion after a replacement and
  the reverse. The patterns are reductions of those under `data/queries` and
  `data/test`. Two patterns with a grouped hook, alone and before and after each of
  the eight, run on four graphs in which the objects of a container contain one
  another. `ReplacementsEnd` and `AssignsCurrentObjects` are asked of the programs without
  grouped hooks only, as `ChainsEnd` is proved of them: hooks of one group that are
  replaced with each other may close a cycle, which `replacedWith` breaks off and
  `delta_updates` covers.
* `materialisation`: eight programs chosen because they chain replacements, close
  cycles of containment through a replaced hook, or delete what others refer to,
  on four graphs and the graph without edges; and one program on a graph of four
  objects after which the numbers of records differ from their positions
  (`Shifted`), so that `EveryRecordCounts` is false in some state. The order in which
  the search meets nodes and successors is arbitrary.
* `storage`: files of every one and every two of four graphs with up to three
  objects, in which objects come out of order, a label has no objects in one graph
  or owns no containment, containments repeat, values are equal, and an object has
  no label; lists with gaps in their identifiers, without objects and with a
  reference to an object that is not there; no graph, and one without objects. Two
  containment labels give two tables, indexed in either order, and at least one
  record in each position relative to the start of a table. Seven lists of intervals.
* `matching`: a first graph with every subset of six edges, two of them parallel and
  of two labels, with and without a second graph, so that the tables of a
  query take every order of sizes, ties and emptiness included; and a graph
  whose objects are related through a third. The queries have between them required
  and optional edges, edges to two variables, edges for all, join edges,
  edges without labels and with several, entries grouped with and without a hook,
  and one that is refused.
* `atomisation`: doubles 0 to 4 and strings of up to two of two characters, with
  comparisons whose literals are neighbours or leave one value between, or are an
  end of the type, and inequations, one of them with the empty string; three
  conditions, which is two in one conjunction with a third in another, on another
  property, on another node, or in the next query. Deadlock is not checked: the
  room for conditions is used up.
* `expressions`: rows with flat, missing and nested cells, more rows than one under
  one object, a pattern without matches in a graph; five states of the updates,
  in which objects are replaced by loaded and by new ones, deleted, and deleted then
  replaced. One property is a number in loaded objects and a text that reads like it in
  those the updates store; properties are missing; and the tests compare them with texts,
  the empty one included, which a query can only write as a script. `MaxNested` is above what the programs nest. Deadlock is not
  checked: the graphs end, or an exception ends them, as queries of `matching` do.
* Deadlock is checked in `rewriting`, `materialisation` and
  `storage` through `terminated`, which stutters at the end only.

### 3.3 Fairness

`WF_vars(Next)` in `Rewriting` and `Matching` and `WF_mvars(MNext)`: the program is
one thread that always takes its next step, and nothing it waits for comes from
elsewhere. No fairness between actions is assumed. `PatternMeaning` states its
progress as `AnswersFinally`. The delta store's own specification has no fairness, since
whether it is called is up to the engine, and neither have `Storage`, `Atomisation`
and `Expressions`, of which no liveness is stated.

## 4. Findings

* **An entry of a deleted vertex is applied** (`include/queries/closure.h:1243`).
  The comment says "Ignoring the match if this was removed!". The test is made once
  per pattern, and the loop over the vertex's entries follows it. With a hook X and
  two contained Y, "del X" deletes X in its first entry and the second entry is
  applied to X again. The tests within the loop never ask about the hook.
* **A deletion marks an object that nobody reads**
  (`include/queries/delta_updates.h:79`). After two replacements, X by W1 by W2,
  a deletion of X follows one replacement and marks W1. W1 is replaced, so it does
  not count as deleted, and W2, which stands for X everywhere else, stays in the
  result. The comment at `closure.h:1327` says "Removing objects from the final
  result".
* **The written result keeps a reference to a deleted object and drops a live one**
  (`include/queries/closure.h:138`). The edges of a list are numbered in one loop and
  kept by number in another, but a record of an object that was deleted and then
  replaced takes no number. Such records arise because objects made by a
  query keep the identifiers that were assigned (only loaded objects are brought up
  to date). A new object that gathers the containers [0, 1] of the hook, of which 0
  is collapsed afterwards, is written with a reference to 0 and without 1. The same
  shift may bring a cycle back that the search had broken (see `OutputAcyclic`).
* **Nested rows of one column have different columns**
  (`src/queries/preserve_results.cpp:213`, an assertion). The columns of a nested
  row without a partner are computed by two removals, by name and then by the
  positions the removed columns had, so a new column that moved to such a position
  is lost. Whether it does depends on the alphabetical order of the names.
* **The columns of a row share one node in scripts**
  (`include/database/SchemaIndexer.h:31`). The vector of nodes is filled with copies
  of one pointer. A script that names two columns sees the value of the last one
  met in both; comparing two columns is always true.

Observed in reading, without a run:

* A graph without objects shifts the graphs after it
  (`src/database/ActivityTable.cpp:77`): a graph's list is opened when its number
  equals the number of lists, so after an empty graph the next one has none, and
  the assertion at line 83 fails.
* An interval with exceptions continues at the value before the exception where
  the next one is meant (`src/queries/DataPredicate.cpp:610`), so an inequation is
  also answered with the atom of its literal.
* A comparison that no value meets, such as being less than the least number, becomes
  the closed interval of that end (`src/queries/DataPredicate.cpp:358`), since the
  neighbour of an end is the end itself. The proof of 5.8 met this.
* Two inequations become an interval without an upper bound of its own
  (`src/queries/DataPredicate.cpp:297`): the default bound is the empty string. With a
  first literal behind it the ends are in the wrong order (see 2.2); if the first literal is
  the empty string, no interval
  holds what lies behind the last exception, and objects that a node asks for are not found.
  The proof of 5.8 met this; `NoMatchIsLost` sets it apart.
* A label that is called `p` and a number is taken for the atom of a box
  (`src/database/AtomizingPipeline2.cpp:35`); nothing tests for it.
* `AtomizingPipeline2.cpp:79` throws for conditions of a node without label; at 435,
  `emplace` does not replace the entries of an earlier query, which `clear` leaves.
* `preserve_results.cpp:859`: what the edges of a pattern keep of the labels to ask
  for (`outputQuery`) is appended to and not cleared with the rest, so matching the
  same patterns a second time also uses what the first time left.
* `closure.cpp:889` uses positions of a comparison as positions in the list of
  objects, from which missing ones were left out.
* `src/database/ActivityTable.cpp:187`: the test for a label that is not there lets an
  identifier equal to the number of starts through, and `at` throws. Only a
  database without objects has such a label.
* `LinearGSM.h:98` dereferences the end of a map for an edge of the last label.
* A test reads a number as its text and a missing property as the empty text
  (`include/queries/closure.h:730`, 740, 742); a script reads a number and a null,
  which equal no text (`src/scriptv2/ScriptAST.cpp:1164`, 1421). So the condition
  `𝜋 k @ X = 2.000000` holds of the number 2, and the same comparison in a script does not.
  `TestsAgree` states both.
* `closure.h:1676`: an assignment to all rows of a nested variable from a source
  without rows writes to the first one only.
* `closure.cpp:78`: `container_order.at(0)` throws for a graph without
  containment; the function has no caller.

## 5. Proofs

`tlapm` checks every step of the eight proof modules. They prove all invariants and
action properties of the runs `delta_updates`, `rewriting`, `materialisation`,
`storage` and `atomisation`, for every graph, program and number of
objects, every type and query, from the assumptions that TLC evaluates in those runs:

* `LegacyMaxIsNat`, `MaxNewIsNat`: the bounds are naturals;
* `InputsAreWellFormed`: a graph is a list of pairs of loaded objects whose positions
  are record identifiers; in a pattern, variables of objects are none of edges, a
  grouped hook has the column of its container, and operations are about variables
  of objects. The parser builds patterns in this way (`GSMPatternVisitor.h`), and the
  loader numbers objects from 0 (`LinearGSM.cpp`);
* `GraphsAreAcyclic` (there are numbers that grow along the edges): the computation
  of `container_order` presupposes it, and only `InsideOut` uses it;
* `LoadedIsLabel`: the label of the loaded edges is one of the labels;
* `DatabasesAreLists`: a database that is loaded is a list of lists of objects, whose
  labels, keys and contents are of the kinds that the fields of `gsm_object` have, and
  there are finitely many containment labels; the intervals of a range query are pairs of
  numbers. The type of the argument of
  `primary_memory_load_direct` says so (`std::vector<std::vector<gsm_object>>`), and the
  parser of files hands its objects over one at a time in the same type;
* `ObjectsAreIdentified`: the objects of a graph have different identifiers, which is
  what the field `id` is (`gsm_object.h`); all files of the repository do so;
* `FilesAreNumbered`: the identifiers in a file are 0 to n - 1 for n objects (1 to n in
  the model), in any order. The code does not check it: it writes the row of an object
  at the object's number in a list as long as the graph has objects
  (`src/database/ActivityTable.cpp:144`), so a file with gaps is not read as meant.
  All files of the repository are numbered so. Lists from a program need not be.

* `DataPredicatesAssumption`: the bounds of numbers, characters and lengths are naturals,
  strings may have a character, and the one that fills up the greatest string is a
  character. In the code they are `DBL_MAX`, `char` and `MAXIMUM_STRING_LENGTH`;
* `AtomisationAssumption`: there are finitely many labels and properties, a node has a number of conjunctions and one label or none, a
  property has one type, and conditions are written with literals within their type and
  without exceptions (`Conditions`), as the constructors of `DataPredicate` make them.

Nothing bounds the patterns, their operations, the matches, or what the graph and the
program do to one another.

### 5.1 `DeltaUpdates_proofs`

The inductive invariant is

    IInv == TypeOK /\ MentionsOnlyKnown /\ BindingsAreLocal

None of its parts is inductive alone. `BindingsAreLocal` needs
`MentionsOnlyKnown` to know that the next identifier is bound to no variable yet;
`MentionsOnlyKnown` needs the types of the updates' arguments. Every update except
creation leaves the counter alone, and creation extends the known identifiers by
one. From it follow

* `Typing`, `OnlyKnown`, `LocalBindings`: the three parts;
* `Fresh` (`FreshOnCreation`): creation takes the identifier after the counter, and
  no part of the store mentions one beyond the counter;
* `Undelete` (`OnlyLiveObjectsUndelete`): from the actions one by one; only the
  replacement makes an object lose its status of being deleted, and its guard asks
  whether the replacement is deleted;
* `Idempotent` (`ResolvingIsIdempotent`): from a fact about every partial function on
  a finite set, `EndIsFixed` of `Collections_proofs`. The walk of `replacedWith` ends at an object
  without a replacement, or at the first one it meets twice. In the second case that
  object is on a cycle, and the walk that starts there goes around once and comes
  back to it: `CameFrom` relates the objects met to the walks that began at them. The
  induction is over the number of objects that have not been met.

### 5.2 `Rewriting_proofs`, within an entry and between layers

`LocalNames` (`NamesAreLocalToEntry`): in every program, on every graph, what a name
denotes while an entry is processed was created after the entry was taken up. The
invariant `NInv` relates the bindings to `mark`, the counter at the start of the
entry, in every phase, adds that the counter never falls below it, and needs no fact
about graphs, matches or resolution: the only actions that change a name are creation,
which takes an identifier above the counter, and the start or the skipping of an
entry, which clears all names.

`InsideOut` (`InnerFirst`): vertices are taken up deepest layer first. A vertex is
chosen from the greatest layer that is left, so what has to be shown is that an
edge leads to a greater layer. The layer of a vertex is the last front it belongs to,
and what a front contains makes the next one; for this to end within the bound, the
numbers of `GraphsAreAcyclic` are used.

### 5.3 `RewritingStore_proofs`

`Refinement` (`DeltaSpec`): the engine's behaviours are behaviours of the store. Each
action makes one call of the store or none, and what has to be shown is that the
call's arguments are admissible: identifiers that were handed out. Three invariants
together do it (`RInv == MInv /\ SInv /\ PInv`): the engine's position, its entry
and the values of its rows are well formed (`MInv`); the store's own invariant holds,
which is taken from `DeltaUpdates_proofs` through an instance (`SInv`); the pairs of
objects the entry has still to replace are known objects (`PInv`). `MInv` in turn
needs that matching gives well-formed entries: rows that bind objects to variables of
objects and edges to those of edges, finitely many, none empty.

By it, `Fresh`, `Undelete` and the rest of 5.1 hold of the engine, and what follows
builds on `RInv`:

* `Typing` (`TypeOK`): adds that contents are lists of known objects (`ContentOK`);
* `LiveEntries` (`AppliedEntryLive`): if the program deletes something, an entry
  is tested before it is applied; if not, nothing is ever deleted (`DInv`), which is
  what justifies leaving the test out.

### 5.4 `Rewriting_proofs`, what stands for what

* `FreshObjects` (`FreshStandsForNothing`): replacements are recorded after the
  operations of an entry, so that during them no object created for the entry stands
  for another one.
* `ChainsEnd` (`ReplacementsEnd`): without grouped hooks, following the replacements
  comes to an object without one. The invariant (`KInv`) is that some rank of the
  objects decreases along all replacements: an entry replaces its hook, which was
  resolved, with an object that was resolved or created, so neither has a replacement,
  and the new target can be given a rank below all others (`NewBottom`). With grouped
  hooks several objects are replaced in a row, and the second may close a cycle that
  the first began; `replacedWith` breaks it off, and 5.1 covers it.
* `CurrentAssignments` (`AssignsCurrentObjects`): from the same invariant, as what an
  operation reads is where a chain ends.

### 5.5 `Materialisation_proofs`

The view is made once, when the engine is done, and what it was made of does not
change any more (`VInv`). `NodeRoots` (`RootsAreNodes`) follows: what stands for a
loaded object is known, has an entry in the view unless it was deleted, and is
therefore a node or left out.

The search keeps `SearchInv`. Its core, `Visits`, says of the calls that have not
returned that they are a path of the graph, that no node is visited twice, and that
*when a call returned, every node its own led to had returned before, or else an edge
to it closes a cycle*, since that node was still on the path. The three lemmas
`VisitFrom`, `VisitDown` and `VisitUp` are its steps.

From it, and from two facts about the recursively defined depths (`DepthType`: no node
is deeper than its position; `DepthsGrow`: an edge along the order leads deeper),
`WhatSurvives` gives the two sides of breaking cycles: depth grows along every edge
that is kept, and an edge that is dropped runs against the order, so it closes a
cycle. The first side is `AcyclicOutput` (`OutputAcyclic`), by `RankedIsAcyclic`; for
the written graph one shows in addition that the records kept are those of the edges
kept, as their numbers are their positions. The second is `EdgesKeepLeading`
(`EdgesFollowReplacement`), with `MaterialisedLists`, which says what the view holds of
an object: all its loaded records that were not deleted, each with the object that
stands for its own.

### 5.6 `Storage_proofs`

* `StorageTyping` (`TypeOK`). Its core is that every row of the registry has the number
  of a label that was met. Rows come from the lists of the builder, one per label, so
  it needs that there are no more lists than labels while objects are loaded, and a
  fact about joined lists, `FlattenPlaces` of `Collections_proofs`: every place of the
  joined list is one place of one of the lists, and conversely, from that list's
  start. The numbering of identifiers (`convert`) has to leave a database a database:
  every identifier an object has or contains is among those that were mentioned
  (`AllMentioned`), and so gets a number.
* `RecordNames` (`RecordsAreNames`). The lookup of a record searches the map of starts
  for the greatest start that is not above it (`tableOf`, with the three cases of
  `lower_bound` in the code). That this finds the table with the record needs that the
  tables filed so far *divide* the records given out so far: the records of a
  table end where those of the next begin, none begins within another, and none is
  empty (`Filed`). An empty table would share its start with the next, which would
  replace it in the map; it does not arise, as a table is opened for a row
  (`Lists`). Sorting a table keeps its length (`SortedIsList`). Which table is next is a
  free choice, as it is in the code's map.

The inductive invariant is `StorageInv == Shape /\ Lists /\ Filed /\ FiledWhen`;
`FiledWhen` says that no table is filed while objects are loaded, which may
lengthen tables, and that the last phases begin when all are filed.

The other four theorems are about the objects. They rest on a second invariant,
`ObjectsInv`, which says in each phase what the builders and tables hold of the
objects loaded so far (`Loaded`): identifiers differ within a graph (`Identified`);
the lists of the builder hold each loaded object once, under its first label
(`BuilderHolds`); `traces` holds their identifiers in the order of loading
(`TracesHold`); values are those of loaded objects (`ElementsHold`). Then, the
registry holds every object in one row, the rows of a label are those from its start
to the next one's, and `traces` leads from an identifier to its row (`RegistryHolds`);
both indices of a property give the last row about an object (`AttrsHold`).

* `DenseIdentifiers` (`IdentifiersAreDense`) is about lists; of files it is the
  assumption. `convert` numbers an identifier by how many different ones are
  mentioned up to its first place. Different identifiers get different numbers
  (`NumbersDiffer`), and none above the number of identifiers (`NumbersBound`). In a
  graph that refers to its own objects only, these are as many as the objects, and
  n different numbers from 1 to n are all of them (`NumbersFill`).
* `LabelledObjects` (`ObjectsByLabel`). `layOutRegistry` joins the lists of the builder.
  `FlattenPlaces` says where each list is in the joined one, so the rows of a label
  are the interval that the code computes; the last label and labels without objects
  are cases of their own (`TableOfBuilder`).
* `LinkedObjects` (`LinksInOrder`). `indexing1` replaces what `traces` holds by rows, each
  written at the place of its object's number. That every place is filled
  (`TracesFilled`) is where the density of the identifiers is needed. The links can
  then be followed both ways because a row is in one place only.
* `IndicesAgree` (`PropertyIndicesAgree`). A table is sorted before it is indexed, and
  the proof needs that a sorted list holds nothing but entries of the list it was made of
  (`SortedHolds`). `Sorted` chooses the entry with k entries before it; that there is one
  for each k is `Ranks` of `Collections_proofs`, for the order of rows, which is total on
  rows of one length (`RowsOrdered`). As rows of the registry and names of objects
  correspond one to one, the last row about the one is the last about the other.

### 5.7 `StorageReading_proofs`

The last three invariants of `storage` compare what is read with what was loaded, or
with a scan of all rows, so it is not enough that the tables hold nothing wrong: they
have to hold everything, as often as it was loaded, and in order. That is the third
invariant, `ReadingInv`:

* `ContentsHold`: the rows of a containment table correspond one to one (`Matches`) to
  what the loaded objects contain, place and position, and each row has the label, the
  graph and the number of its container (`IsContent`). Loading an object extends the
  correspondence by as many rows as the object contains (`MatchedMore`); sorting a table
  composes it with a rearrangement (`SortedPermutes`, `MatchedThrough`);
* `IndicesHold`: a table that is filed is in order, and its two indices are those of its
  rows;
* `ValuesHold`, `LabelsHold`: each key has the values of the loaded objects, and nobody
  else's; each loaded object has its labels;
* `NumbersHold`, `PropertiesHold`: once the registry is laid out there are as many numbers
  as objects in a graph; once the property tables are there they are in order, the ranges
  of their labels are where the primary index says, and the row of an object in the
  registry leads to its value, or to nothing if it has none.

`ReadingIsInvariant` is that all three invariants together hold, one lemma per action
(`LoadReading`, `IndexedContents`, `PropertiesReading` and so on). From it:

* `ObjectsReadBack` (`ObjectsAsLoaded`): the objects that the iteration over the registry
  puts together are those of the database, each once, and the two scans that write the
  graphs out agree with it. What an object contains is compared as a list: the rows about
  it, in the order of the table, are a sorted list with the entries the object was loaded
  with, and two sorted lists with the same entries are equal (`SameInOrder`): if the one
  had a smaller row at place k, its first k rows would all have to come from the
  k - 1 places before in the other. As the rows about one object agree in their first three columns, their order is that of weight
  and identifier (`PairsInOrder`). Edges that are drawn are counted, by `MatchedCount`.
* `LabelledContainers` (`ContainmentByLabel`): the block of a label in a table is found from
  where the label changes between two rows (`BlockIs`), which is right because in a sorted
  table the rows of a label are together (`RowsTogether`); and the label in a row is the first
  label of the container in the registry (`ContainerLabels`).
* `RangesFound` (`RangesExact`): a query goes through its intervals and never back. The invariant of the
  loop is that what it has passed is smaller than anything still asked for
  (`NonePassed`), which uses that the intervals ascend and are disjoint; the last row it
  found is looked at again, and may not be skipped. The starts of the searches are a
  recursive function, which is shown to exist first (`RepeatedSteps`).

### 5.8 `Atomisation_proofs`

**Conditions.** `ConditionsAreConjoined` (`IntersectionIsConjunction`). Conjoining two comparisons of
different kinds turns both into closed intervals, by way of the neighbours of their
literals, so the first part is about those.

* *Order.* The values are sequences of numbers, in the order in which they differ first
  (`Precedes`); it is transitive and total (`Transitive`, `Total`).
* *Neighbours.* Nothing lies between a string and its neighbour, although a string is
  followed by all its extensions (`NothingBeforeOne`, `NothingAbovePadding`): lowering the
  last character fills the string up to its full length (`Lowered`), raising the last one that can
  be raised cuts off what follows (`Raised`), and so on for each case of `prev_char` and
  `next_char`. `Neighbours` states it for both types: a neighbour is adjacent, unless
  the value is an end, which is its own neighbour.
* *Conversion.* By it `asInterval` keeps what a condition admits (`AsIntervalKeeps`), unless
  the comparison is one that no value meets.
* *Conjunction.* Two intervals meet in the greater lower and the lesser upper bound
  (`IntervalsMeet`), two comparisons of one kind in the stronger (`AlikeMeet`).

The invariant, `QueryInv`, says of each property of each conjunction that the condition kept
is well formed (`Formed`) and means at least what all the conditions written admit, where an
interval means its bounds less its exceptions (`Meant`), although the code does not test it so; and
nothing else, if no comparison written was one that no value meets (`Holds`). Exceptions
have to be followed in this way, as a condition without any must not be one that lost them. Two
inequations are a case of their own: what they leave has no upper bound of its own, but keeps an
exception for ever (`UnsetStays`).

**Boxes.** `AtomsArePieces` (`AtomsPartition`).

* *Cutting.* The starts of the elementary intervals of a property, in increasing order, begin
  with the lowest value, and each interval ends at the neighbour of the next start. So a
  value lies in the interval of the last start that is not behind it (`PiecesPartition`). An
  interval that meets one of those it was cut for lies within it, as no cut is between its
  ends (`PieceWithin`); `ElementaryDivides` puts both together.
* *Boxes.* An object therefore lies in exactly one combination of intervals (`OneBox`), and each
  combination is listed once (`ListedLists`): there are finitely many, and one is taken after the other.
* *Numbers.* The numbers of the boxes of a label come before those of the next (`OffsetsGrow`), so
  no number is used twice (`NumberedApart`).

**Answers.** `MatchesAreKept` (`NoMatchIsLost`) and `AtomsAreExact` (`AtomisationIsExact`). The
intervals of a condition cover what it means, also between its exceptions, where they overlap
(`SplitCovers`, `DecompositionCovers`); those of the interval that `asInterval` makes of it do
too. The box of an object that a condition admits has an interval that meets one of these, so
its atom is found (`AtomIsFound`). Conversely, a condition without exceptions is one interval,
for which the property was cut; what meets it lies within, and by the numbers no other box has the
atom (`PlainInterval`, `AtomIsMeant`). The invariant, `CollectedInv`, adds to `QueryInv` that the tables
are empty until they are filled, and then those of the conditions, none of which is critical
(`TablesInv`, `Filled`): the conditions do not change between `collect_data` and `clear`.

### 5.9 How the inductions are done

The theorems of the library that state induction for a predicate cannot be used with
the installed provers. `Collections_proofs` states it of sets instead: a nonempty set
of naturals has a least element, so a set that holds 0 and the successors of its
elements holds all naturals. Where an operator is defined by a recursive function (the
walk of `replacedWith`, the fronts of `Layer`, the depths, joining lists, the searches of
a range query, listing the elements of a set, numbering boxes), the proofs first show that the function exists, from approximations that are right for the arguments up to n.

### 5.10 Model-checked only

`Terminates`, `EventuallyWritten` and the progress in `AnswersAsMeant` are liveness,
which is out of the prover's reach. `Matching` and `Script` with what is built on them evaluate
recursive definitions over data (classes of related objects, trees of scripts) with
recursive operators, which a module with proofs cannot use; their properties stay with
TLC.

## 6. Not modelled

* `generateOODbFromMaterialisedViews`, and the incremental update on top of it
  (`performQueryAndUpdateDB`, `loadGSMObject`): no caller in the repository. Of the storage
  likewise `exact_range_query` over several tables; of the conditions likewise
  `decompose_single_variable_into_intervals_with_missing` and negated
  decompositions; of the store `updateWith` and `expandInto`.
* `sortVL`: the programs are taken in both orders; the topological sort is that of
  a library whose code is not in the repository.
* Of the matching: `where` clauses over matches, hooks of patterns that are not
  grouped. Of the rewriting: computed labels of assignments. Of the conditions:
  comparisons of two variables. `MatchedComplement` shows what `MATCHED` means of
  tables that are given.
* Of the storage: scores, `xi`, the conversion of values.
* Fuzzy matching, the isomorphism test (`GSMIso`, used by the tests of the
  repository only), the environment, the command line, the Python binding and the
  visualiser: numerical, input/output, or apart from the query path; the parsers
  are generated.

## 7. Plan

1. `PatternOrder`: the dependencies between patterns and their order, with the
   unstable sort as a choice.
2. Laws of the interval and table operators.
