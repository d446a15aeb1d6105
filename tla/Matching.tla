------------------------------- MODULE Matching -------------------------------
(***************************************************************************)
(* Pattern matching: src/queries/preserve_results.cpp.  A query is run in  *)
(* five steps: the edge labels its patterns need are collected, looked up, *)
(* and then, pattern by pattern, loaded into tables, joined, grouped, and  *)
(* filed by graph and entry object in `morphisms`.                         *)
(*                                                                         *)
(* The store answers a label with its edges (Storage shows that it does).  *)
(***************************************************************************)
EXTENDS NestedTables, SequencesExt

CONSTANTS
    Databases,    \* the loaded databases: sets of edges
    Queries       \* the queries: sequences of patterns

(***************************************************************************)
(* edge_match and node_match.  A pattern has one entry variable `var`,     *)
(* edges in `out` and `in` with the nodes at their other ends, its hooks,  *)
(* and `join_edges` that start from other variables than its own.  An edge *)
(* without variable has var "".  Entries with other than one variable, and *)
(* hooks of patterns that are not grouped (their table has one column      *)
(* twice), are left out.  A grouped pattern has one ingoing edge, from one *)
(* variable, as an assertion of the code wants it.                         *)
(***************************************************************************)
ASSUME MatchingAssumption ==
    \A patterns \in Queries : \A i \in DOMAIN patterns :
          LET p == patterns[i] IN
          IF p.vec THEN Len(p.in) = 1 /\ Len(p.in[1].node.var) = 1 ELSE p.hook = <<>>

VARIABLES
    db,               \* the database the query is performed on
    vl,               \* the patterns
    phase,
    next,             \* the pattern to be collected, or instantiated
    edge_query_ref,   \* the label queries, each with its direction
    outputQuery,      \* edge -> the numbers of its queries, kept with the pattern
    out,              \* the answers to the label queries
    matching_tables, optional_match_tables, hooks_for_vecs, result,
    nested_schema,    \* the columns below "*"
    columns,          \* pattern -> map_orig, and for nested columns map_nested
    morphisms         \* pattern -> <<graph, entry object>> -> its rows

query == <<db, vl>>
collected == <<edge_query_ref, outputQuery>>
tables == <<matching_tables, optional_match_tables, hooks_for_vecs, result, nested_schema>>
vars == <<query, phase, next, collected, out, tables, columns, morphisms>>

\* The edges of a pattern: join edges, outgoing, ingoing edges, and hooks.
JoinEdges(p) == Range(p.join_edges)
OutEdges(p) == {[entry |-> p.var, edge |-> o.edge, node |-> o.node, outgoing |-> TRUE] : o \in Range(p.out)}
InEdges(p) == {[entry |-> p.var, edge |-> i.edge, node |-> i.node, outgoing |-> FALSE] : i \in Range(p.in)}
PatternEdges(p) == JoinEdges(p) \cup OutEdges(p) \cup InEdges(p)
Hooks(p) == Range(p.hook)
Variables(p) == {p.var} \cup UNION {Range(l.node.var) : l \in PatternEdges(p)}

Init == /\ db \in Databases
        /\ vl \in Queries
        /\ phase = "collecting"
        /\ next = 1
        /\ edge_query_ref = <<>>
        /\ outputQuery = [ref \in UNION {{l.edge.ref : l \in PatternEdges(vl[i])}
                                           \cup {h.ref : h \in Hooks(vl[i])} : i \in DOMAIN vl} |-> <<>>]
        /\ out = <<>>
        /\ matching_tables = <<>>
        /\ optional_match_tables = <<>>
        /\ hooks_for_vecs = {}
        /\ result = NoTable
        /\ nested_schema = {}
        /\ columns = <<>>
        /\ morphisms = <<>>

-----------------------------------------------------------------------------
(***************************************************************************)
(* collect_node_match: an edge asks for the queries of its labels; an edge *)
(* without label asks for all the queries of its direction, of earlier     *)
(* patterns too, once every label of the database has one.                 *)
(***************************************************************************)
containmentRelationships == {e.label : e \in db}

Directed(p) == {[edge |-> l.edge, outgoing |-> l.outgoing] : l \in PatternEdges(p)}
                   \cup {[edge |-> h, outgoing |-> TRUE] : h \in Hooks(p)}

Asked(p) ==
    UNION {IF d.edge.type = <<>> THEN containmentRelationships \X {d.outgoing}
           ELSE Range(d.edge.type) \X {d.outgoing} : d \in Directed(p)}

collect_node_match ==
    LET p == vl[next]
        refs == edge_query_ref \o SetToSeq(Asked(p) \ Range(edge_query_ref))
        idOf(q) == CHOOSE k \in DOMAIN refs : refs[k] = q
        all(d) == SelectSeq([k \in DOMAIN refs |-> k], LAMBDA k : refs[k][2] = d.outgoing)
        ids(d) == IF d.edge.type = <<>> THEN all(d)
                  ELSE [k \in DOMAIN d.edge.type |-> idOf(<<d.edge.type[k], d.outgoing>>)]
    IN  /\ phase = "collecting"
        /\ next <= Len(vl)
        /\ edge_query_ref' = refs
        /\ outputQuery' = [ref \in DOMAIN outputQuery |->
                             IF \E d \in Directed(p) : d.edge.ref = ref
                             THEN outputQuery[ref] \o ids(CHOOSE d \in Directed(p) : d.edge.ref = ref)
                             ELSE outputQuery[ref]]
        /\ next' = next + 1
        /\ UNCHANGED <<query, phase, out, tables, columns, morphisms>>

\* finalise_after_all_collections and run_simple_edge_queries.
run_simple_edge_queries ==
    /\ phase = "collecting"
    /\ next > Len(vl)
    /\ out' = [k \in DOMAIN edge_query_ref |-> {e \in db : e.label = edge_query_ref[k][1]}]
    /\ morphisms' = [i \in DOMAIN vl |-> <<>>]
    /\ columns' = <<>>
    /\ next' = 1
    /\ phase' = "loading"
    /\ UNCHANGED <<query, collected, tables>>

-----------------------------------------------------------------------------
(***************************************************************************)
(* loadColumnarTablesFromEdges                                             *)
(***************************************************************************)
edgeLabel(var) == var \o "_label"

\* A row of RawTwowayTable or, with a variable for the edge, RawThreewayTable.
RawRow(l, dst, e) ==
    "graph" :> Flat(e.graph)
    @@ l.entry :> Flat(IF l.outgoing THEN e.src ELSE e.dst)
    @@ dst :> Flat(IF l.outgoing THEN e.dst ELSE e.src)
    @@ IF l.edge.var = "" THEN <<>>
       ELSE l.edge.var :> Flat(e.id) @@ edgeLabel(l.edge.var) :> Flat(e.label)

RawColumns(l, dst) ==
    {"graph", l.entry, dst} \cup IF l.edge.var = "" THEN {} ELSE {l.edge.var, edgeLabel(l.edge.var)}

RawTable(l, dst) ==
    LET ids == outputQuery[l.edge.ref]
        hits == {h \in (DOMAIN ids) \X db : h[2] \in out[ids[h[1]]]}
    IN  Table(RawColumns(l, dst),
              [row \in {RawRow(l, dst, h[2]) : h \in hits} |->
                 Cardinality({h \in hits : RawRow(l, dst, h[2]) = row})])

\* An edge for all whose end is grouped: its ends go into one cell per source.
isGrouped(l) == l.edge.forall /\ l.node.vec

TableOf(l, dst) ==
    IF isGrouped(l)
    THEN nest_or_groupby(RawTable(l, dst), {"graph", l.entry, edgeLabel(l.edge.var)}, dst)
    ELSE RawTable(l, dst)

\* One table for each variable at the other end.
TablesOf(loads) ==
    LET pairs == UNION {{<<l, dst>> : dst \in Range(l.node.var)} : l \in loads}
        order == SetToSeq(pairs)
    IN  [k \in DOMAIN order |-> TableOf(order[k][1], order[k][2])]

\* int_to_T.at throws for a query that does not exist, and the answer of a query
\* is asserted to have the direction of the edge.
IdsKnown(p) ==
    \A d \in Directed(p) : \A k \in DOMAIN outputQuery[d.edge.ref] :
        LET id == outputQuery[d.edge.ref][k]
        IN  id \in DOMAIN edge_query_ref /\ edge_query_ref[id][2] = d.outgoing

\* The pairs of objects that the required hooks of a grouped pattern relate.
HookPairs(p) ==
    {<<e.graph, e.src, e.dst>> :
       e \in UNION {UNION {out[k] : k \in Range(outputQuery[h.ref])} :
                      h \in {g \in Hooks(p) : ~ g.question_mark}}}

load ==
    LET p == vl[next]
    IN  /\ phase = "loading"
        /\ IdsKnown(p)
        /\ \E l \in PatternEdges(p) : ~ l.edge.question_mark
        /\ matching_tables' = TablesOf({l \in PatternEdges(p) : ~ l.edge.question_mark})
        /\ optional_match_tables' = TablesOf({l \in PatternEdges(p) : l.edge.question_mark})
        /\ hooks_for_vecs' = HookPairs(p)
        /\ phase' = "joining"
        /\ UNCHANGED <<query, next, collected, out, result, nested_schema, columns, morphisms>>

throw == /\ phase' = "thrown"
         /\ UNCHANGED <<query, next, collected, out, tables, columns, morphisms>>

\* "you should have ... at least one non-optional edge!"
refusePattern == /\ phase = "loading"
                 /\ IdsKnown(vl[next]) => \A l \in PatternEdges(vl[next]) : l.edge.question_mark
                 /\ throw

-----------------------------------------------------------------------------
(***************************************************************************)
(* The joins of instantiate_morphisms                                      *)
(***************************************************************************)
RowCount(t) == BagCardinality(t.rows)

\* The tables are sorted by their size; tables of one size come in any order.
IsSmallest(seq, k) == \A j \in DOMAIN seq : RowCount(seq[k]) <= RowCount(seq[j])

startJoin ==
    /\ phase = "joining"
    /\ \E k \in DOMAIN matching_tables :
          /\ IF Len(matching_tables) > 2 THEN IsSmallest(matching_tables, k) ELSE k = 1
          /\ IF Len(matching_tables) > 1 /\ \E j \in DOMAIN matching_tables : isEmpty(matching_tables[j])
             THEN result' = NoTable /\ matching_tables' = <<>>
             ELSE result' = matching_tables[k] /\ matching_tables' = RemoveAt(matching_tables, k)
    /\ phase' = "joining more"
    /\ UNCHANGED <<query, next, collected, out, optional_match_tables, hooks_for_vecs,
                   nested_schema, columns, morphisms>>

joinNext ==
    /\ phase = "joining more"
    /\ \E k \in DOMAIN matching_tables, shape \in Shapes(result) :
          LET t == matching_tables[k] IN
          /\ IsSmallest(matching_tables, k)
          /\ ~ Unsupported(result, shape, t)
          /\ result' = nested_natural_equijoin(result, shape, t, TRUE)
          /\ matching_tables' = IF isEmpty(result') THEN <<>> ELSE RemoveAt(matching_tables, k)
    /\ UNCHANGED <<query, phase, next, collected, out, optional_match_tables, hooks_for_vecs,
                   nested_schema, columns, morphisms>>

\* The left joins: only for a result with rows, and only with tables with rows.
leftJoinNext ==
    /\ phase = "joining more"
    /\ matching_tables = <<>>
    /\ \E k \in DOMAIN optional_match_tables, shape \in Shapes(result) :
          LET t == optional_match_tables[k] IN
          /\ IsSmallest(optional_match_tables, k)
          /\ ~ isEmpty(t) => ~ Unsupported(result, shape, t)
          /\ result' = IF isEmpty(t) THEN result ELSE nested_natural_equijoin(result, shape, t, FALSE)
          /\ optional_match_tables' = RemoveAt(optional_match_tables, k)
    /\ UNCHANGED <<query, phase, next, collected, out, matching_tables, hooks_for_vecs,
                   nested_schema, columns, morphisms>>

refuseJoin ==
    /\ phase = "joining more"
    /\ LET todo == IF matching_tables # <<>> THEN matching_tables ELSE optional_match_tables IN
       \E k \in DOMAIN todo, shape \in Shapes(result) :
          IsSmallest(todo, k) /\ ~ isEmpty(todo[k]) /\ Unsupported(result, shape, todo[k])
    /\ throw

-----------------------------------------------------------------------------
(***************************************************************************)
(* Grouping.  `all` holds the sources of the ingoing edges for all, and    *)
(* "graph"; the remaining columns go below "*".  With hooks a group is     *)
(* split into the classes of objects that hooks relate, and a class is     *)
(* kept if all its objects are in the group.                               *)
(***************************************************************************)
Joined == phase = "joining more" /\ matching_tables = <<>>
              /\ (optional_match_tables = <<>> \/ isEmpty(result))

GroupColumns(p) ==
    {"graph"} \cup UNION {Range(l.node.var) : l \in {i \in InEdges(p) : i.edge.forall}}

GroupedByHook(t, pairs, p) ==
    LET classesIn(row) == Classes({<<q[2], q[3]>> : q \in {h \in pairs : h[1] = row["graph"].val}})
        hooked == {row \in RowsOf(t) : \E s \in classesIn(row) : row[p.var].val \in s}
        groups == nest_or_groupby(Table(t.cols, Restrict(t.rows, hooked)), GroupColumns(p), "*")
        members(row) == {r[p.var].val : r \in BagToSet(row["*"].rows)}
        only(row, s) == [row EXCEPT !["*"].rows =
                           Restrict(@, {r \in DOMAIN @ : r[p.var].val \in s})]
    IN  Table(groups.cols,
              SetToBag(UNION {{only(row, s) : s \in {c \in classesIn(row) : c \subseteq members(row)}} :
                                row \in RowsOf(groups)}))

group ==
    LET p == vl[next] IN
    /\ Joined
    /\ p.vec
    /\ result' = IF Hooks(p) = {} THEN nest_or_groupby(result, GroupColumns(p), "*")
                 ELSE GroupedByHook(result, hooks_for_vecs, p)
    /\ nested_schema' = result.cols \ GroupColumns(p)
    /\ phase' = "filing"
    /\ UNCHANGED <<query, next, collected, out, matching_tables, optional_match_tables,
                   hooks_for_vecs, columns, morphisms>>

keepFlat == /\ Joined
            /\ ~ vl[next].vec
            /\ phase' = "filing"
            /\ UNCHANGED <<query, next, collected, out, tables, columns, morphisms>>

-----------------------------------------------------------------------------
(***************************************************************************)
(* Filing.  The first row decides which columns are nested, and what they  *)
(* hold.  In nested columns, rows that bind two node variables, or two     *)
(* edge variables, alike are removed, and with the last one the match.     *)
(***************************************************************************)
nodeVars == UNION {Variables(vl[i]) : i \in DOMAIN vl}
edgeVars == UNION {{l.edge.var : l \in PatternEdges(vl[i])} : i \in DOMAIN vl} \ {""}

toLookFor(p) == IF p.vec THEN p.in[1].node.var[1] ELSE p.var

Distinct(row, names) ==
    \A c, d \in names \cap DOMAIN row :
        c # d /\ ~ isNested(row[c]) /\ ~ isNested(row[d]) /\ row[c] = row[d] => row[c] = Flat(Null)

Injective(row) == Distinct(row, nodeVars) /\ Distinct(row, edgeVars)

Pruned(cell) == [cell EXCEPT !.rows = Restrict(@, {r \in DOMAIN @ : Injective(r)})]

InjectiveRows(t, nested) ==
    LET pruned(row) == [c \in DOMAIN row |-> IF c \in nested THEN Pruned(row[c]) ELSE row[c]]
        emptied(row) == \E c \in nested : row[c].rows # EmptyBag /\ Pruned(row[c]).rows = EmptyBag
    IN  MapThenFoldSet((+), EmptyBag, LAMBDA row : [r \in {pruned(row)} |-> t.rows[row]],
                       LAMBDA S : CHOOSE row \in S : TRUE,
                       {row \in RowsOf(t) : ~ emptied(row)})

Filed(rows, p) ==
    LET key(row) == <<row["graph"].val, row[toLookFor(p)].val>>
    IN  [k \in {key(row) : row \in DOMAIN rows} |-> Restrict(rows, {row \in DOMAIN rows : key(row) = k})]

\* mutant: map_orig filled also with the nested columns
ColumnsByEither(shape) ==
    [flat |-> result.cols,
     nested |-> [c \in DOMAIN shape \cup ({"*"} \cap result.cols) |->
                   IF c = "*" THEN nested_schema ELSE shape[c]]]

\* The columns as map_orig, nested_index and map_nested keep them.
ColumnsBy(shape) ==
    LET nested == DOMAIN shape \cup ({"*"} \cap result.cols)
    IN  [flat |-> result.cols \ nested,
         nested |-> [c \in nested |-> IF c = "*" THEN nested_schema ELSE shape[c]]]

hasEntryColumn == \A row \in RowsOf(result) : LET c == toLookFor(vl[next]) IN
                     c \in DOMAIN row /\ ~ isNested(row[c])

file ==
    /\ phase = "filing"
    /\ \E shape \in IF isEmpty(result) THEN {<<>>} ELSE Shapes(result) :
          LET rows == InjectiveRows(result, DOMAIN ColumnsBy(shape).nested) IN
          /\ rows # EmptyBag => hasEntryColumn
          /\ columns' = Append(columns, ColumnsBy(shape))
          /\ morphisms' = [morphisms EXCEPT ![next] = Filed(rows, vl[next])]
    /\ next' = next + 1
    /\ phase' = IF next = Len(vl) THEN "done" ELSE "loading"
    /\ matching_tables' = <<>>
    /\ optional_match_tables' = <<>>
    /\ hooks_for_vecs' = {}
    /\ result' = NoTable
    /\ nested_schema' = {}
    /\ UNCHANGED <<query, collected, out>>

refuseFiling == phase = "filing" /\ ~ hasEntryColumn /\ throw

Next == \/ collect_node_match \/ run_simple_edge_queries
        \/ load \/ startJoin \/ joinNext \/ leftJoinNext
        \/ keepFlat \/ group \/ file
        \/ refusePattern \/ refuseJoin \/ refuseFiling

\* The query is performed by one thread, to its end.
Spec == Init /\ [][Next]_vars /\ WF_vars(Next)

-----------------------------------------------------------------------------
(***************************************************************************)
(* Properties.                                                             *)
(***************************************************************************)
Bagged(rows, F(_)) == MapThenFoldSet((+), EmptyBag, F, LAMBDA S : CHOOSE r \in S : TRUE, rows)

\* The combinations of the rows nested in a row, one column at a time.
NestedIn(row) == {c \in DOMAIN row : isNested(row[c])}
RECURSIVE Unnested(_)
Unnested(rows) ==
    LET column(row) == CHOOSE c \in NestedIn(row) : TRUE
        outer(row) == Restrict(row, DOMAIN row \ {column(row)})
        inner(row) == row[column(row)].rows
        unnest(row) == IF NestedIn(row) = {} THEN [r \in {row} |-> rows[row]]
                       ELSE [r \in {i @@ outer(row) : i \in DOMAIN inner(row)} |->
                               rows[row] * inner(row)[CHOOSE i \in DOMAIN inner(row) : i @@ outer(row) = r]]
    IN  IF \A row \in DOMAIN rows : NestedIn(row) = {} THEN rows
        ELSE Unnested(Bagged(DOMAIN rows, unnest))

\* What is filed for a pattern, as assignments of the variables that are bound.
Assignments(i) ==
    LET filed == Bagged(DOMAIN morphisms[i], LAMBDA k : morphisms[i][k])
        flat == Unnested(filed)
        values(row) == [c \in {d \in DOMAIN row : row[d].val # Null} |-> row[c].val]
    IN  Bagged(DOMAIN flat, LAMBDA row : [r \in {values(row)} |-> flat[row]])

Answered == IF phase = "collecting" THEN 0 ELSE next - 1

Promise == INSTANCE PatternMeaning WITH
               answered <- Answered,
               answers <- [i \in 1..Answered |-> Assignments(i)],
               refused <- phase = "thrown"

\* Loading, joining by size, grouping and filing answer every pattern with the
\* matches it means, no match lost, invented or counted twice, whatever the
\* sizes of the tables and the order of the joins; a query is refused only for
\* want of a required edge.  Every query ends.
AnswersAsMeant == Promise!Spec

FiledRows(i) == UNION {DOMAIN morphisms[i][k] : k \in DOMAIN morphisms[i]}
FlatPart(row) == Restrict(row, DOMAIN row \ NestedIn(row))

\* A group is not torn apart: rows that agree on everything outside of their
\* nested columns are the groups of different classes of hooks, which share no
\* entry object.
GroupsAreWhole ==
    \A i \in 1..Answered : \A r, s \in FiledRows(i) :
        NestedIn(r) # {} /\ r # s /\ FlatPart(r) = FlatPart(s) =>
            /\ vl[i].vec
            /\ {q[vl[i].var] : q \in DOMAIN r["*"].rows} \cap {q[vl[i].var] : q \in DOMAIN s["*"].rows} = {}

\* resolve_entry_match: where a variable is found, "" for the row itself.
resolve_entry_match(i, x) ==
    IF x \in columns[i].flat THEN {""} ELSE {c \in DOMAIN columns[i].nested : x \in columns[i].nested[c]}

OptionalGroups(p) == \E l \in PatternEdges(p) : l.edge.question_mark /\ isGrouped(l)

\* The columns of the first row are those of all: where a variable is looked up
\* for rewriting it is found, in every row that was filed, in one place only.
\* Optional edges to grouped nodes are set apart, as they leave some rows flat.
VariablesAreFound ==
    \A i \in 1..Answered : Promise!Stated(vl[i]) /\ ~ OptionalGroups(vl[i]) =>
        \A row \in FiledRows(i) : \A x \in Variables(vl[i]) :
            /\ Cardinality(resolve_entry_match(i, x)) <= 1
            /\ \A c \in resolve_entry_match(i, x) :
                  IF c = "" THEN x \in DOMAIN row /\ ~ isNested(row[x])
                  ELSE c \in DOMAIN row /\ x \in row[c].cols
            /\ x \in DOMAIN row \cup UNION {row[c].cols : c \in DOMAIN row} => resolve_entry_match(i, x) # {}

\* The assertion "refL.table.Schema == resultingNestedSchema": the rows of a
\* nested column have the same columns, with and without a partner in a join.
NestedSchemasAgree ==
    phase = "joining more" =>
        \A r, s \in RowsOf(result) : \A c \in NestedIn(r) \cap NestedIn(s) : r[c].cols = s[c].cols

=============================================================================
