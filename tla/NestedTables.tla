----------------------------- MODULE NestedTables -----------------------------
(***************************************************************************)
(* Tables with nested tables in their cells, and their joins:              *)
(* include/database/SimpleTable.h, include/database/utility.h and          *)
(* nested_natural_equijoin of src/queries/preserve_results.cpp.            *)
(*                                                                         *)
(* A row is a function from columns to cells and a table a bag of rows:    *)
(* the order of the rows follows from the order of an unordered_set of     *)
(* column names (the keys of the joins), so it is not determined.  Where   *)
(* the code asks the first row of a table, any row may be the one.         *)
(***************************************************************************)
EXTENDS Bags, Functions, FiniteSets, FiniteSetsExt, Sequences, TLC

CONSTANTS Null,      \* what an optional match leaves: the Boolean true
          Alphabet   \* the column names, in the order of strings

\* SimpleTable and NestedValue: a cell is nested when its table has columns.
Table(cols, rows) == [cols |-> cols, rows |-> rows]
NoTable == Table({}, EmptyBag)
Flat(v) == [val |-> v, cols |-> {}, rows |-> EmptyBag]
Nested(t) == [val |-> Null, cols |-> t.cols, rows |-> t.rows]
TableIn(cell) == Table(cell.cols, cell.rows)
isNested(cell) == cell.cols # {}

isEmpty(t) == t.rows = EmptyBag
RowsOf(t) == BagToSet(t.rows)

Agree(l, r) == \A c \in DOMAIN l \cap DOMAIN r : l[c] = r[c]

\* crossProduct and natural_equijoin.
natural_equijoin(lhs, rhs) ==
    LET rows == {p[1] @@ p[2] : p \in {q \in RowsOf(lhs) \X RowsOf(rhs) : Agree(q[1], q[2])}}
    IN  Table(lhs.cols \cup rhs.cols,
              [row \in rows |-> lhs.rows[Restrict(row, lhs.cols)] * rhs.rows[Restrict(row, rhs.cols)]])

\* mutant: left_equijoin without its last loop, over the keys behind the last one of rhs
left_equijoinUnpadded(lhs, rhs) == natural_equijoin(lhs, rhs)

\* left_equijoin: rows without a partner are kept and padded.
left_equijoin(lhs, rhs) ==
    LET joined == natural_equijoin(lhs, rhs)
        single == {l \in RowsOf(lhs) : \A r \in RowsOf(rhs) : ~ Agree(l, r)}
        padded == {l @@ [c \in rhs.cols \ lhs.cols |-> Flat(Null)] : l \in single}
    IN  IF lhs.cols \cap rhs.cols = {} THEN joined
        ELSE Table(joined.cols,
                   joined.rows @@ [row \in padded |-> lhs.rows[Restrict(row, lhs.cols)]])

\* nest_or_groupby: one row per key, with the rest of its rows in a column.
nest_or_groupby(op, args, nested_arg) ==
    LET keys == op.cols \cap args
        rest == op.cols \ keys
        inner(k) == {Restrict(r, rest) : r \in {s \in RowsOf(op) : Agree(k, s)}}
    IN  Table(keys \cup {nested_arg},
              SetToBag({k @@ (nested_arg :> Nested(Table(rest, [i \in inner(k) |-> op.rows[k @@ i]]))) :
                          k \in {Restrict(r, keys) : r \in RowsOf(op)}}))

\* mutant: the pairs themselves
ClassesOfPairs(pairs) == {{q[1], q[2]} : q \in pairs}

\* equivalence_class: the classes of the objects that some pair relates.
Classes(pairs) ==
    LET objects == {q[1] : q \in pairs} \cup {q[2] : q \in pairs}
        closed(s) == s # {} /\ \A q \in pairs : q[1] \in s <=> q[2] \in s
    IN  {s \in SUBSET objects : closed(s) /\ \A t \in SUBSET s : closed(t) => t = s}

-----------------------------------------------------------------------------
(***************************************************************************)
(* IndexedSchemaCoordinates: the nested columns and what they hold, read   *)
(* off one row.                                                            *)
(***************************************************************************)
Shape(row) == [c \in {d \in DOMAIN row : isNested(row[d])} |-> row[c].cols]
Shapes(t) == {Shape(row) : row \in RowsOf(t)}

\* index() throws when two nested columns hold the same field.
Collides(shape) == \E c, d \in DOMAIN shape : c # d /\ shape[c] \cap shape[d] # {}

InnerCols(shape) == UNION Range(shape)
Sorted(cols) == SelectSeq(Alphabet, LAMBDA c : c \in cols)

\* The columns of rhs that belong inside the nested rows of lhs.
ToNest(shape, rhs) == InnerCols(shape) \cap rhs.cols

\* colN: the first of them; the join expects the nested column to have its name.
NestingColumn(shape, rhs) == Head(Sorted(ToNest(shape, rhs)))

\* The schema that nested rows without a partner are given.  The columns of rhs
\* are filtered twice: first the shared ones are removed, then the places that
\* the shared ones had are removed from what is left.
resultingNestedSchema(inner, rhs) ==
    LET all == Sorted(rhs.cols)
        left == SelectSeq(all, LAMBDA c : c \notin inner)
        taken == {j \in DOMAIN all : all[j] \in inner}
    IN  inner \cup {left[j] : j \in DOMAIN left \ taken}

\* A nested column that holds columns of rhs: rhs is joined with its rows.
joinInside(lhs, shape, rhs, isEquiJoin) ==
    LET colN == NestingColumn(shape, rhs)
        sIR == (lhs.cols \ DOMAIN shape) \cap rhs.cols
        partners(l) == {r \in RowsOf(rhs) : \A c \in sIR : l[c] = r[c]}
        fixed(l) == Table(rhs.cols \ sIR,
                          [i \in {Restrict(r, rhs.cols \ sIR) : r \in partners(l)} |->
                             rhs.rows[Restrict(l, sIR) @@ i]])
        schema == resultingNestedSchema(shape[colN], rhs)
        padding == [c \in schema \ shape[colN] |-> Flat(Null)]
        padded(cell) == Table(schema, [i \in {r @@ padding : r \in BagToSet(cell.rows)} |->
                                         cell.rows[Restrict(i, shape[colN])]])
        rowFor(l) == [l EXCEPT ![colN] =
                        Nested(IF partners(l) # {} THEN left_equijoin(TableIn(l[colN]), fixed(l))
                               ELSE padded(l[colN]))]
        kept == {l \in RowsOf(lhs) : partners(l) # {} \/ ~ isEquiJoin}
    IN  Table(lhs.cols, MapThenFoldSet((+), EmptyBag,
                                       LAMBDA l : [row \in {rowFor(l)} |-> lhs.rows[l]],
                                       LAMBDA S : CHOOSE l \in S : TRUE, kept))

\* What the code refuses, or asserts not to happen.
Unsupported(lhs, shape, rhs) ==
    \/ Collides(shape)
    \/ /\ ToNest(shape, rhs) # {}
       /\ \/ \E r \in RowsOf(rhs) : Shape(r) # <<>>
          \/ Cardinality({c \in DOMAIN shape : shape[c] \cap rhs.cols # {}}) > 1
          \/ NestingColumn(shape, rhs) \notin DOMAIN shape

nested_natural_equijoin(lhs, shape, rhs, isEquiJoin) ==
    IF ToNest(shape, rhs) # {} THEN joinInside(lhs, shape, rhs, isEquiJoin)
    ELSE IF isEquiJoin THEN natural_equijoin(lhs, rhs)
    ELSE left_equijoin(lhs, rhs)

=============================================================================
