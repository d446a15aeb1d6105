--------------------------- MODULE SchemaIndexer ---------------------------
(* How a script finds the columns of the row it is evaluated on             *)
(* (SchemaIndexer.h, SchemaIndexer.cpp). There is one indexer per pattern,  *)
(* kept over the rows of the pattern's table. It is a record x:             *)
(*   x.fields   column name |-> position                                    *)
(*   x.row      the address of the current row, or NoRow                    *)
(*   x.cells    the cells of that row                                       *)
(*   x.nulls, x.strings, x.cow   sets of positions                          *)
(*   x.nested   nested column |-> (inner column name |-> position)          *)
(*   x.full     whether the nested columns have been indexed                *)
(*   x.shared   the one node all the flat columns are handed out in: the    *)
(*              vector of nodes is filled with copies of one pointer. Its   *)
(*              number and its text outlive a change of its kind            *)
(* A cell is [k: "id", n], [k: "text", s], [k: "null"] or                   *)
(* [k: "nested", schema, rows].                                             *)
EXTENDS Integers, Sequences, FiniteSets, TLC

NoRow == <<>>
NullE == [t |-> "NullE"]
Integer(n) == [t |-> "Integer", n |-> n]
String(s) == [t |-> "String", s |-> s]
Array(vs) == [t |-> "Array", a |-> vs]

Position(names, name) == CHOOSE i \in DOMAIN names : names[i] = name
Positions(names) == [name \in {names[i] : i \in DOMAIN names} |-> Position(names, name)]

\* The indexer of a pattern that is met for the first time.
setUp(schema) ==
  [fields |-> Positions(schema), row |-> NoRow, cells |-> <<>>, nulls |-> {},
   strings |-> {}, cow |-> {}, nested |-> <<>>, full |-> FALSE,
   shared |-> [t |-> "BotT", n |-> 0, s |-> ""]]

\* mutant: the nodes handed out for the last row are taken for this row's
initializeKeepCow(x, address, schema, cells) ==
  IF x.row = address THEN x
  ELSE LET flat == {i \in DOMAIN cells : i <= Cardinality(DOMAIN x.fields) /\ cells[i].k # "nested"}
       IN [x EXCEPT !.row = address, !.cells = cells, !.full = TRUE,
             !.nulls = {i \in flat : cells[i].k = "null"},
             !.strings = @ \cup {i \in flat : cells[i].k = "text"}]

\* The next row. A row that is evaluated again, by its address, is left
\* alone, and only the first row tells which inner columns there are.
initialize(x, address, schema, cells) ==
  LET seen == {i \in DOMAIN cells : i <= Cardinality(DOMAIN x.fields)}
      flat == {i \in seen : cells[i].k # "nested"}
  IN IF x.row = address THEN x
     ELSE [x EXCEPT !.row = address, !.cells = cells, !.full = TRUE, !.cow = {},
             !.nulls = {i \in flat : cells[i].k = "null"},
             !.strings = @ \cup {i \in flat : cells[i].k = "text"},
             !.nested = IF x.full THEN @
                        ELSE [c \in {schema[i] : i \in seen \ flat} |->
                               Positions(cells[Position(schema, c)].schema)]]

\* A name with a dot is an inner column of a nested one.
Dots(key) == {i \in 1..Len(key) : SubSeq(key, i, i) = "."}
Outer(key) == SubSeq(key, 1, (CHOOSE i \in Dots(key) : TRUE) - 1)
Inner(key) == SubSeq(key, (CHOOSE i \in Dots(key) : TRUE) + 1, Len(key))

hasKey(x, key) ==
  IF Dots(key) = {} THEN key \in DOMAIN x.fields
  ELSE /\ Outer(key) \in DOMAIN x.nested
       /\ Inner(key) \in DOMAIN x.nested[Outer(key)]

\* The values of an inner column; a missing one is "" in a column of labels
\* and -1 elsewhere.
InnerValue(cell, name) ==
  CASE cell.k = "id"   -> Integer(cell.n)
    [] cell.k = "text" -> String(cell.s)
    [] OTHER -> IF Len(name) >= 6 /\ SubSeq(name, Len(name) - 5, Len(name)) = "_label"
                THEN String("") ELSE Integer(-1)

NestedValues(x, key) ==
  LET rows == x.cells[x.fields[Outer(key)]].rows
      at == x.nested[Outer(key)][Inner(key)]
  IN Array([i \in DOMAIN rows |-> InnerValue(rows[i][at], Inner(key))])

\* A flat column: whatever the shared node held before, it now holds the
\* value of this column, unless the column was asked for on this row before.
Handed(x, at) ==
  IF at \in x.cow THEN x
  ELSE [x EXCEPT !.cow = @ \cup {at},
          !.shared = IF at \in x.strings THEN String(x.cells[at].s) @@ @
                     ELSE Integer(x.cells[at].n) @@ @]

\* std::get finds the kind of value the column is known for.
Fits(x, at) ==
  at \in x.cow \/ x.cells[at].k = (IF at \in x.strings THEN "text" ELSE "id")

\* Looking a name up: the value, where the shared node is the reference
\* cell, the indexer afterwards, and whether the look-up returned.
get(x, key, cell) ==
  IF x.row = NoRow \/ ~hasKey(x, key) THEN [v |-> NullE, ix |-> x, ok |-> TRUE]
  ELSE IF Dots(key) # {} THEN [v |-> NestedValues(x, key), ix |-> x, ok |-> TRUE]
  ELSE IF x.fields[key] \in x.nulls THEN [v |-> NullE, ix |-> x, ok |-> TRUE]
  ELSE IF ~Fits(x, x.fields[key]) THEN [v |-> NullE, ix |-> x, ok |-> FALSE]
  ELSE [v |-> cell, ix |-> Handed(x, x.fields[key]), ok |-> TRUE]
=============================================================================
