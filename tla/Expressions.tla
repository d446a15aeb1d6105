----------------------------- MODULE Expressions -----------------------------
(* The evaluation of the expressions and tests of a rewriting, row by row:  *)
(* closure::Interpret (closure.cpp) over the tables of the matches, with    *)
(* one script environment for all of them. What the rewriting does with the *)
(* values is not here: the updates change as they may, between evaluations. *)
EXTENDS ScriptVisitor, FiniteSetsExt

CONSTANTS
  Tables,     \* graph |-> pattern |-> [schema: column names, rows: vertex |-> rows]
  Order,      \* graph |-> sequence of [p: pattern, x: vertex, r: row], as they are met
  EdgeVars,   \* the variables of edges
  Edges,      \* edge |-> [label, src, dst], 0.. without gaps and label by label
  Programs,   \* each pattern |-> [where: test, does: sequence of expressions]
  Deltas,     \* the updates that the rewriting may reach
  MaxNested   \* bound: how deep an evaluation may nest

VARIABLES
  program, graph,
  at,         \* the position in Order
  step,       \* 0 before the test, k before the k-th expression
  st,         \* the interpreter, with the updates
  last        \* the last evaluation: where it was, and what it gave
vars == <<program, graph, at, step, st, last>>

Graphs == DOMAIN Tables

\* Interpret: the row that expressions are evaluated on.
Interpret(g, entry) ==
  LET table == Tables[g][entry.p]
  IN [g |-> g, p |-> entry.p, address |-> <<g, entry.p, entry.x, entry.r>>,
      schema |-> table.schema, part |-> table.rows[entry.x],
      row |-> table.rows[entry.x][entry.r]]

-----------------------------------------------------------------------------
(* Values (NestedResultTable): of one of the types t, one or many. One that *)
(* is yet to be looked up is called DO_ and has the objects or edges.       *)
One(t, v) == [t |-> t, many |-> FALSE, v |-> v]
Many(t, vs) == [t |-> t, many |-> TRUE, v |-> vs]
NoResult == One("NONE", 0)
Lazy(x, type, from) == IF x.t = from THEN [x EXCEPT !.t = type] ELSE x
PartOfEdge(x, part) == Lazy(x, "DO_" \o part, "EDGE")

\* Looked up sources of many edges pass for one value.
size(x) == IF x.t \in {"NONE", "SCRIPT"} THEN 0
           ELSE IF x.many /\ x.t # "EDGE_SRC" THEN Len(x.v) ELSE 1

\* What a script on the other side is cast to.
getExpectedType(x) ==
  LET V == IF x.many /\ x.t # "EDGE_SRC" THEN "V" ELSE ""
  IN CASE x.t \in {"NODE", "EDGE", "EDGE_SRC", "DO_EDGE_SRC", "DO_EDGE_DST"} -> V \o "SIZET"
       [] x.t \in {"CONTENT", "DO_CONTENT"} -> V \o "CONTENT"
       [] x.t \in {"SCRIPT", "NONE"} -> x.t
       [] OTHER -> V \o "STRING"

\* The values that comparisons see: texts before numbers before contents.
Sort(x) == CASE x.t = "LABEL" -> "text" [] x.t = "CONTENT" -> "content" [] OTHER -> "id"
Missing(sort) == CASE sort = "text" -> "" [] sort = "content" -> <<>> [] OTHER -> -1
value(x, i) ==
  [sort |-> Sort(x),
   v |-> IF x.t = "NONE" THEN -1 ELSE IF ~x.many THEN x.v
         ELSE IF i <= Len(x.v) THEN x.v[i] ELSE Missing(Sort(x))]

\* The order of unsigned numbers, and of containments: one that is equal to
\* the other counts as less.
LessId(n, k) == IF (n < 0) = (k < 0) THEN n < k ELSE k < 0
LessContent(c, e) == LessId(c.id, e.id) \/ c = e
LessContents(cs, es) ==
  LET both == {i \in DOMAIN cs : i <= Len(es)}
      apart == {i \in both : LessContent(cs[i], es[i]) \/ LessContent(es[i], cs[i])}
  IN IF apart = {} THEN Len(cs) < Len(es) ELSE LessContent(cs[Min(apart)], es[Min(apart)])
Less(a, b) ==
  LET rank(x) == Position(<<"text", "id", "content">>, x.sort)
  IN IF a.sort # b.sort THEN rank(a) < rank(b)
     ELSE CASE a.sort = "text" -> CompareText(a.v, b.v) < 0
            [] a.sort = "id" -> LessId(a.v, b.v)
            [] OTHER -> LessContents(a.v, b.v)
Same(a, b) == a.sort = b.sort /\ a.v = b.v

\* The positions at which two values compare so.
compare(x, y, cmp) ==
  {i \in 1..Max({size(x), size(y)}) :
     LET a == value(x, i)
         b == value(y, i)
     IN CASE cmp = "EQ" -> Same(a, b)
          [] cmp = "NEQ" -> ~Same(a, b)
          [] cmp = "LT" -> Less(a, b)
          [] OTHER -> IF a.sort = "content" /\ b.sort = "content"
                      THEN Less(a, b) \/ Same(a, b) ELSE Same(a, b) \/ Less(a, b)}

-----------------------------------------------------------------------------
(* Sets of objects (OrderedSet): with the size that counts as full.        *)
SetOf(s, n) == [set |-> s, n |-> IF Cardinality(s) > n THEN Cardinality(s) ELSE n]
full(o) == Cardinality(o.set) = o.n /\ o.n # 0
empty(o) == o.set = {}
Meet(o, q) == [set |-> o.set \cap q.set, n |-> Max({o.n, q.n})]
Join(o, q) == [set |-> o.set \cup q.set, n |-> Max({o.n, q.n})]

IdsOf(cells) == {cells[i].n : i \in {j \in DOMAIN cells : cells[j].k = "id"}}
\* All the objects and edges of the row stand for the truth.
getFullOrEmptySet(b, I) ==
  LET nested == {c \in Range(I.row) : c.k = "nested"}
  IN SetOf(IF ~b THEN {}
           ELSE IdsOf(I.row) \cup UNION {UNION {IdsOf(r) : r \in Range(c.rows)} : c \in nested}, 0)

-----------------------------------------------------------------------------
(* The objects and edges behind a variable.                                *)
Outside(I, name) == {i \in DOMAIN I.schema : I.schema[i] = name /\ I.row[i].k # "nested"}
Inside(I, name) ==
  {i \in DOMAIN I.row : I.row[i].k = "nested" /\ name \in Range(I.row[i].schema)}
NestedIds(I, name) ==
  LET cell == I.row[Min(Inside(I, name))]
      ids(r) == r[Position(cell.schema, name)]
  IN [i \in DOMAIN cell.rows |-> IF ids(cell.rows[i]).k = "id" THEN ids(cell.rows[i]).n ELSE -1]

\* mutant: the matched objects themselves
resolveIdsOverVariableNameRaw(s, I, name) ==
  CASE name \in DOMAIN s.delta.inserted -> Many("NODE", s.delta.inserted[name])
    [] Outside(I, name) # {} ->
         LET cell == I.row[Min(Outside(I, name))]
         IN IF cell.k = "id" THEN One("NODE", cell.n) ELSE NoResult
    [] Inside(I, name) # {} -> Many("NODE", NestedIds(I, name))
    [] OTHER -> Many("NODE", <<>>)

\* The objects created for the variable, or the matched ones or what
\* replaces them. A variable that is no column stands for no objects.
resolveIdsOverVariableName2(s, I, name) ==
  CASE name \in DOMAIN s.delta.inserted -> Many("NODE", s.delta.inserted[name])
    [] Outside(I, name) # {} ->
         LET cell == I.row[Min(Outside(I, name))]
         IN IF cell.k = "id" THEN One("NODE", standing(s.delta, cell.n)) ELSE NoResult
    [] Inside(I, name) # {} ->
         Many("NODE", [i \in DOMAIN NestedIds(I, name) |->
                         IF NestedIds(I, name)[i] = -1 THEN -1
                         ELSE standing(s.delta, NestedIds(I, name)[i])])
    [] OTHER -> Many("NODE", <<>>)

resolveEdgesOverVariableName2(I, name) ==
  CASE name \notin EdgeVars -> NoResult
    [] Outside(I, name) # {} ->
         LET cell == I.row[Min(Outside(I, name))]
         IN IF cell.k = "id" THEN One("EDGE", cell.n) ELSE NoResult
    [] Inside(I, name) # {} -> Many("EDGE", NestedIds(I, name))
    [] OTHER -> NoResult

-----------------------------------------------------------------------------
(* Looking values up. An edge that is not there has the label of the last   *)
(* edges; the record of an edge is found in the table of its label, except  *)
(* that for the last label only the first edge is.                          *)
Firsts == {k \in DOMAIN Edges : \A j \in DOMAIN Edges : Edges[j].label = Edges[k].label => k <= j}
findLabelFromID(k) == Edges[Max({j \in Firsts : k < 0 \/ j <= k})].label
resolveRecord(k, s) == IF k < 0 \/ k > Max(Firsts) THEN Fails(s, "undefined") ELSE Res(Edges[k], s)

AtOffset(texts, off) == IF Len(texts) > off THEN One("LABEL", texts[off + 1]) ELSE NoResult
OrEmpty(x) == IF x.t = "NONE" THEN "" ELSE x.v
LabelText(x, s, k) == IF x.t = "DO_ELL" THEN AtOffset(resolve_ell(s.delta, k), x.off)
                      ELSE IF x.t = "DO_XI" THEN AtOffset(resolve_xi(s.delta, k), x.off)
                      ELSE IF DOMAIN Edges = {} THEN NoResult
                      ELSE One("LABEL", findLabelFromID(k))

\* A property or a containment of many objects at once is never looked up.
LookedUp(x, s) ==
  CASE x.t \in {"DO_ELL", "DO_XI", "DO_EDGE_LABEL"} ->
         Res(IF x.many THEN Many("LABEL", [i \in DOMAIN x.v |-> OrEmpty(LabelText(x, s, x.v[i]))])
             ELSE LabelText(x, s, x.v), s)
    [] x.t \in {"DO_PROP", "DO_CONTENT"} /\ (x.many \/ x.key.t # "LABEL" \/ x.key.many) ->
         Fails(s, "bad_variant_access")
    [] x.t = "DO_PROP" ->
         Res(One("LABEL", toString(resolve_prop(s.delta, x.v, x.key.v), FALSE, FALSE)), s)
    [] x.t = "DO_CONTENT" -> Res(One("CONTENT", resolve_content(s.delta, x.v, x.key.v)), s)
    [] DOMAIN Edges = {} -> Res(IF x.many THEN Many("EDGE_SRC", [i \in DOMAIN x.v |-> -1]) ELSE NoResult, s)
    [] OTHER ->
         LET end(e) == IF x.t = "DO_EDGE_SRC" THEN e.src ELSE e.dst
         IN Then(FoldOver(LAMBDA vs, k, s2 : Then(resolveRecord(k, s2), LAMBDA e, s3 :
                            Res(Append(vs, end(e)), s3)), Res(<<>>, s), IF x.many THEN x.v ELSE <<x.v>>),
                 LAMBDA vs, s2 : Res(IF x.many THEN Many("EDGE_SRC", vs) ELSE One("EDGE_SRC", vs[1]), s2))

\* A containment as a script gives it: a tuple with an id and a score.
Containment(y, s) ==
  Then(run(y, s), LAMBDA r, s2 :
    LET m == IF IsTuple(seen(r, s2)) THEN seen(r, s2).m ELSE <<>>
    IN IF ~({"id", "score"} \subseteq DOMAIN m) THEN Fails(s2, "segmentation fault")
       ELSE Then(Whole(m["id"], s2), LAMBDA id, s3 : Then(Number(m["score"], s3), LAMBDA d, s4 :
              Res([id |-> id, score |-> d], s4))))
Containments(ys, s) ==
  FoldOver(LAMBDA cs, y, s2 : Then(Containment(y, s2), LAMBDA c, s3 : Res(Append(cs, c), s3)), Res(<<>>, s), ys)
\* Of lists of containments only empty ones get through, each of them twice.
EmptyLists(ys, s) ==
  FoldOver(LAMBDA cs, y, s2 : Then(run(y, s2), LAMBDA r, s3 :
             IF seen(r, s3).t # "Array" THEN Fails(s3, "expected a vector of vectors")
             ELSE IF seen(r, s3).a # <<>> THEN Fails(s3, "segmentation fault")
             ELSE Res(cs \o << <<>>, <<>> >>, s3)), Res(<<>>, s), ys)
Wholes(ys, s) ==
  FoldOver(LAMBDA ns, y, s2 : Then(Whole(y, s2), LAMBDA n, s3 : Res(Append(ns, n), s3)), Res(<<>>, s), ys)

\* What a script evaluated to is evaluated once more and cast.
CastTo(v, cast, s) ==
  LET wrong(s2) == Fails(s2, "expected a vector")
      list(w) == w.t = "Array" \/ IsTuple(w)
  IN CASE cast = "STRING" -> Then(run(v, s), LAMBDA u, s2 : Res(One("LABEL", Text(u, s2)), s2))
       [] cast = "SIZET" -> Then(Whole(v, s), LAMBDA n, s2 : Res(One("EDGE", n), s2))
       [] cast = "VSTRING" -> Then(run(v, s), LAMBDA u, s2 :
            IF seen(u, s2).t = "String" THEN Res(Many("LABEL", <<seen(u, s2).s>>), s2)
            ELSE IF list(seen(u, s2)) THEN
              Res(Many("LABEL", [i \in DOMAIN toList(u, s2) |-> Text(toList(u, s2)[i], s2)]), s2)
            ELSE wrong(s2))
       [] cast = "VSIZET" -> Then(run(v, s), LAMBDA u, s2 :
            IF list(seen(u, s2)) THEN Then(Wholes(toList(u, s2), s2), LAMBDA ns, s3 : Res(Many("NODE", ns), s3))
            ELSE wrong(s2))
       [] cast = "CONTENT" -> Then(run(v, s), LAMBDA u, s2 :
            IF seen(u, s2).t = "Array"
            THEN Then(Containments(seen(u, s2).a, s2), LAMBDA cs, s3 : Res(One("CONTENT", cs), s3))
            ELSE wrong(s2))
       [] cast = "VCONTENT" -> Then(run(v, s), LAMBDA u, s2 :
            IF seen(u, s2).t = "Array"
            THEN Then(EmptyLists(seen(u, s2).a, s2), LAMBDA cs, s3 : Res(Many("CONTENT", cs), s3))
            ELSE wrong(s2))
       [] OTHER -> Fails(s, "a non-script other argument expected")

resolve(x, cast, s) ==
  IF x.t = "SCRIPT" THEN CastTo(x.v, cast, s)
  ELSE IF x.t \in {"NONE", "NODE", "EDGE", "EDGE_SRC", "LABEL", "CONTENT"} THEN Res(x, s)
  ELSE LookedUp(x, s)

\* The objects of a list of containments, as a script gives it.
IdsOnly(ys, s) ==
  FoldOver(LAMBDA ns, y, s2 : Then(run(y, s2), LAMBDA r, s3 :
             IF ~IsTuple(seen(r, s3)) THEN Fails(s3, "segmentation fault")
             ELSE IF "id" \notin DOMAIN seen(r, s3).m THEN Fails(s3, "segmentation fault")
             ELSE Then(Whole(seen(r, s3).m["id"], s3), LAMBDA n, s4 : Res(Append(ns, n), s4))),
           Res(<<>>, s), ys)
Kept(ns) == SelectSeq(ns, LAMBDA n : n # -1)
Plainly(ids) == [ids |-> ids, text |-> FALSE, holds |-> ids # <<>>]
Wordy(holds) == [ids |-> <<>>, text |-> TRUE, holds |-> holds]
ContainedIds(v, s) ==
  Then(run(v, s), LAMBDA u, s2 :
    IF seen(u, s2).t # "Array" THEN Fails(s2, "expected a vector")
    ELSE Then(IdsOnly(seen(u, s2).a, s2), LAMBDA ns, s3 : Res(Plainly(Kept(ns)), s3)))
\* Of a list of lists, none: what is not empty does not get here.
ContainedLists(v, s) == Then(CastTo(v, "VCONTENT", s), LAMBDA y, s2 : Res(Plainly(<<>>), s2))
\* The objects a value is about, or that it is a text and holds or not. The
\* objects that are missing are dropped, and the others move up.
resolveIDs(x, cast, s) ==
  CASE x.t = "NONE" -> Res(Plainly(<<>>), s)
    [] x.t \in {"LABEL", "CONTENT"} /\ ~x.many -> Res(Wordy(TRUE), s)
    [] x.t = "LABEL" -> Res(Wordy(x.v # <<>>), s)
    [] x.t = "CONTENT" -> Res(Plainly(Kept(FlattenSeq([i \in DOMAIN x.v |->
                                [j \in DOMAIN x.v[i] |-> x.v[i][j].id]]))), s)
    [] x.t # "SCRIPT" -> Res(Plainly(Kept(IF x.many THEN x.v ELSE <<x.v>>)), s)
    [] cast = "STRING" -> Res(Wordy(TRUE), s)
    [] cast = "VSTRING" -> Then(CastTo(x.v, cast, s), LAMBDA y, s2 : Res(Wordy(y.v # <<>>), s2))
    [] cast = "SIZET" -> Then(Whole(x.v, s), LAMBDA n, s2 : Res(Plainly(Kept(<<n>>)), s2))
    [] cast = "VSIZET" -> Then(CastTo(x.v, cast, s), LAMBDA y, s2 : ContainedIds(x.v, s2))
    [] cast = "CONTENT" -> ContainedIds(x.v, s)
    [] cast = "VCONTENT" -> ContainedLists(x.v, s)
    [] OTHER -> Fails(s, "a non-script other argument expected")

-----------------------------------------------------------------------------
(* Where the values of a column are (var_extractor): in the column itself,  *)
(* or in the nested column that the first row of the table has. The column  *)
(* called "*" counts where it stands before, or where there is no other.    *)
None == 0
var_extractor(name, inner, schema, rows) ==
  LET found == IF name \in Range(schema) THEN Position(schema, name) ELSE None
      stars == {i \in DOMAIN schema : schema[i] = "*" /\ (found = None \/ i < found)}
      nests == {i \in DOMAIN rows[1] : rows[1][i].k = "nested"}
      star == IF stars # {} THEN Max(stars)
              ELSE IF found = None /\ nests # {} THEN Min(nests) ELSE None
      access == IF found = None /\ star # None THEN rows[1][star].schema ELSE <<>>
      nested == IF inner \in Range(access) THEN Position(access, inner) ELSE None
  IN [ok |-> found # None \/ nested # None, value |-> found, star |-> star, nested |-> nested]

\* The rows of the pattern named in a test, in this graph.
Parts(I, p) == Tables[I.g][p].rows
FirstPart(I, p) == Parts(I, p)[CHOOSE x \in DOMAIN Parts(I, p) : TRUE]
AllRows(I, p) == UNION {Range(Parts(I, p)[x]) : x \in DOMAIN Parts(I, p)}
NestedRows(row, c) == Range(row[c].rows)

Own(I, t) == var_extractor(t.var, t.other, I.schema, I.part)
Other(I, t) == var_extractor(t.other, t.other, Tables[I.g][t.pattern].schema, FirstPart(I, t.pattern))
Flat(row, c) == IdsOf(<<row[c]>>)

\* MATCHED: the objects of this row that the pattern matched as well. Of an
\* inner column the position is taken where its row was meant.
Theirs(row, o) == IF o.star = None THEN Flat(row, o.value)
                  ELSE UNION {Flat(r, o.nested) : r \in NestedRows(row, o.star)}
MatchedIn(s, I, t) ==
  LET current == Flat(I.row, Own(I, t).value)
      o == Other(I, t)
      unreadable(r) == \/ o.star > Len(r)
                       \/ r[o.star].k = "id" /\ (o.nested = None \/ r[o.nested].k # "id")
      read(row) == IF o.star = None THEN row
                   ELSE [row EXCEPT ![o.star].rows = SelectSeq(@, LAMBDA r : r[o.star].k = "id")]
      nothing == SetOf({}, 0)
  IN CASE t.pattern \notin DOMAIN Tables[I.g] \/ ~Own(I, t).ok -> Res(nothing, s)
       [] Own(I, t).nested # None -> Fails(s, "out_of_range")
       [] current = {} \/ ~o.ok -> Res(nothing, s)
       [] o.star # None /\ (\E row \in AllRows(I, t.pattern) : \E r \in NestedRows(row, o.star) : unreadable(r)) ->
            Fails(s, "out_of_range")
       [] OTHER -> Res(SetOf(current \cap UNION {Theirs(read(row), o) : row \in AllRows(I, t.pattern)}, 0), s)

\* mutant: a missing object is not looked after
UnmatchedInPlain(s, I, t) ==
  LET own == Own(I, t)
      current == IF own.nested = None THEN Flat(I.row, own.value)
                 ELSE UNION {Flat(r, own.nested) : r \in NestedRows(I.row, own.star)}
      o == Other(I, t)
  IN CASE ~own.ok -> Res(getFullOrEmptySet(TRUE, I), s)
       [] t.pattern \notin DOMAIN Tables[I.g] -> Res(SetOf(current, 0), s)
       [] OTHER -> Res(SetOf(current \ UNION {Theirs(row, o) : row \in AllRows(I, t.pattern)}, 0), s)

\* UNMATCHED: those it did not match; all of the row for want of any.
UnmatchedIn(s, I, t) ==
  LET own == Own(I, t)
      current == IF own.nested = None THEN Flat(I.row, own.value)
                 ELSE UNION {Flat(r, own.nested) : r \in NestedRows(I.row, own.star)}
      o == Other(I, t)
  IN CASE ~own.ok -> Res(getFullOrEmptySet(TRUE, I), s)
       [] t.pattern \notin DOMAIN Tables[I.g] -> Res(SetOf(current, 0), s)
       [] current = {} \/ ~o.ok -> Res(getFullOrEmptySet(TRUE, I), s)
       [] o.star # None /\ o.nested = None /\ (\E row \in AllRows(I, t.pattern) : NestedRows(row, o.star) # {}) ->
            Fails(s, "out_of_range")
       [] OTHER -> Res(SetOf(current \ UNION {Theirs(row, o) : row \in AllRows(I, t.pattern)}, 0), s)

-----------------------------------------------------------------------------
(* Expressions and tests. An expression is asked for a text, or, forced, for *)
(* the objects or the edges behind its variables.                           *)
RECURSIVE interpret_closure_evaluate(_, _, _, _, _), interpret(_, _, _)

Variables(s, I, name, nodes) ==
  IF nodes THEN resolveIdsOverVariableName2(s, I, name) ELSE resolveEdgesOverVariableName2(I, name)

\* What a choice casts scripts to: what its other branch is, or a text.
CastOfChoice(l, r) == IF l.t # "SCRIPT" THEN getExpectedType(l)
                      ELSE IF r.t # "SCRIPT" THEN getExpectedType(r) ELSE "STRING"

HasAt(x, j) == x.many /\ j <= Len(x.v)
\* mutant: the position of an element is looked for among the objects
ChosenByPosition(ids, j, result) == (j - 1) \in result.set
\* An element takes the first branch if its object is in the result.
Chosen(ids, j, result) == ids[j] \in result.set

\* Element j of a choice: from the first branch where it is chosen and there,
\* else from the second where that has many. One object in the first branch
\* counts only at the position with its number.
Element(ids, j, result, cast, l, r) ==
  LET first == /\ Chosen(ids, j, result)
               /\ CASE cast = "STRING" -> TRUE
                    [] cast = "SIZET" -> IF l.t = "NONE" THEN FALSE ELSE IF l.many THEN (j - 1) \in Range(l.v) ELSE l.v = j - 1
                    [] OTHER -> HasAt(l, j)
      its(x) == IF x.many THEN <<x.v[j]>> ELSE <<x.v>>
  IN IF first THEN its(l) ELSE IF HasAt(r, j) THEN its(r) ELSE <<>>

Choice(s, ids, result, l, r) ==
  LET cast == CastOfChoice(l, r)
  IN Then(resolve(l, cast, s), LAMBDA x, s2 : Then(resolve(r, cast, s2), LAMBDA y, s3 :
       CASE cast \in {"CONTENT", "VCONTENT", "SCRIPT", "NONE"} -> Fails(s3, "a single value")
         [] cast = "STRING" /\ x.t = "NONE" /\ (\E j \in DOMAIN ids : Chosen(ids, j, result)) ->
              Fails(s3, "unexpected type at string")
         [] OTHER -> Res(Many(IF cast \in {"STRING", "VSTRING"} THEN "LABEL" ELSE "NODE",
                FlattenSeq([j \in DOMAIN ids |-> Element(ids, j, result, cast, x, y)])), s3)))

interpret_closure_evaluate(s, I, e, force, nodes) ==
  CASE e.t = "NULL" -> Res(NoResult, s)
    [] e.t = "SCRIPT" -> Then(eval(s, I.p, I.address, I.schema, I.row, e.tree),
                              LAMBDA v, s2 : Res(One("SCRIPT", v), s2))
    [] e.t = "VARIABLE" -> Res(IF force THEN Variables(s, I, e.name, nodes) ELSE One("LABEL", e.name), s)
    [] e.t \in {"EDGE_LABEL", "EDGE_SRC", "EDGE_DST"} ->
         Then(interpret_closure_evaluate(s, I, e.of, TRUE, FALSE), LAMBDA x, s2 :
              Res(PartOfEdge(x, e.t), s2))
    [] e.t \in {"XI", "ELL"} ->
         Then(interpret_closure_evaluate(s, I, e.of, TRUE, TRUE), LAMBDA x, s2 :
              Res([off |-> e.off] @@ Lazy(x, "DO_" \o e.t, "NODE"), s2))
    [] e.t \in {"PROP", "CONTENT"} ->
         Then(interpret_closure_evaluate(s, I, e.key, FALSE, FALSE), LAMBDA k, s2 :
         Then(interpret_closure_evaluate(s2, I, e.of, TRUE, TRUE), LAMBDA x, s3 :
              Res([key |-> k] @@ Lazy(x, "DO_" \o e.t, "NODE"), s3)))
    [] e.t = "IFTE" ->
         Then(interpret(s, I, e.cond), LAMBDA result, s2 :
           LET ids == Variables(s2, I, e.name, nodes)
           IN CASE full(result) -> interpret_closure_evaluate(s2, I, e.then, force, nodes)
                [] empty(result) -> interpret_closure_evaluate(s2, I, e.else, force, nodes)
                [] ~ids.many -> Fails(s2, "should be an int")
                [] OTHER -> Then(interpret_closure_evaluate(s2, I, e.then, force, nodes), LAMBDA l, s3 :
                            Then(interpret_closure_evaluate(s3, I, e.else, force, nodes), LAMBDA r, s4 :
                              Choice(s4, ids.v, result, l, r))))

\* The objects of the positions where both sides compare, unless the left
\* side is a text: then whether it is there at all.
Compared(s, I, t, L, R) ==
  IF ~(size(L) = 1 \/ size(R) = 1 \/ size(L) = size(R)) THEN Fails(s, "of the same size")
  ELSE Then(resolve(L, getExpectedType(R), s), LAMBDA l, s2 :
       Then(resolve(R, getExpectedType(L), s2), LAMBDA r, s3 :
       Then(resolveIDs(L, getExpectedType(R), s3), LAMBDA a, s4 :
         LET where == compare(l, r, t.t)
         IN CASE a.text -> Res(getFullOrEmptySet(a.holds, I), s4)
              [] \E i \in where : i > Len(a.ids) -> Fails(s4, "undefined")
              [] OTHER -> Res(SetOf({a.ids[i] : i \in where}, size(L)), s4))))

\* The objects of the row for which a test holds.
interpret(s, I, t) ==
  CASE t.t \in {"LT", "LEQ", "EQ", "NEQ"} ->
         Then(interpret_closure_evaluate(s, I, t.l, FALSE, FALSE), LAMBDA L, s2 :
         Then(interpret_closure_evaluate(s2, I, t.r, FALSE, FALSE), LAMBDA R, s3 :
              Compared(s3, I, t, L, R)))
    [] t.t = "FILL" -> Then(interpret(s, I, t.l), LAMBDA o, s2 : Res(getFullOrEmptySet(~empty(o), I), s2))
    [] t.t = "AND" -> Then(interpret(s, I, t.l), LAMBDA o, s2 :
         IF empty(o) THEN Res(o, s2) ELSE Then(interpret(s2, I, t.r), LAMBDA q, s3 : Res(Meet(o, q), s3)))
    [] t.t = "OR" -> Then(interpret(s, I, t.l), LAMBDA o, s2 :
         IF full(o) THEN Res(o, s2) ELSE Then(interpret(s2, I, t.r), LAMBDA q, s3 : Res(Join(o, q), s3)))
    [] t.t = "TRUE" -> Res(SetOf({0}, 1), s)
    [] t.t = "SCRIPT" -> Then(evalBool(s, I.p, I.address, I.schema, I.row, t.tree), LAMBDA b, s2 :
         Res(getFullOrEmptySet(b, I), s2))
    [] t.t = "MATCHED" -> MatchedIn(s, I, t)
    [] t.t = "UNMATCHED" -> UnmatchedIn(s, I, t)

-----------------------------------------------------------------------------
(* The loops of the rewriting, with the evaluations of an entry.            *)
NoUpdates == [repl |-> <<>>, removed |-> {}, fresh |-> {}, plus |-> <<>>, inserted |-> <<>>]
Nothing == [kind |-> "none"]
Met == Order[graph][at]
Here == Interpret(graph, Met)
Active == at <= Len(Order[graph]) /\ st.raised = ""

Init ==
  /\ program \in Programs
  /\ graph = 1 /\ at = 1 /\ step = 0 /\ last = Nothing
  /\ st = [env |-> <<>>, ix |-> <<>>, cur |-> 0, casts |-> <<>>, edges |-> {},
           delta |-> NoUpdates, fuel |-> MaxNested, raised |-> ""]

\* clear_insertions comes with the next entry.
Row(s) == [s EXCEPT !.delta.fresh = {}, !.delta.inserted = <<>>]

\* The test of the entry, of which the row only needs some object.
Test ==
  /\ Active /\ step = 0
  /\ ~hasXBeenRemoved(st.delta, Met.x)
  /\ \E r \in {interpret(st, Here, program[Met.p].where)} :
       /\ last' = [kind |-> "test", I |-> Here, expr |-> program[Met.p].where,
                    before |-> st, v |-> r.v, failed |-> r.st.raised # ""]
       /\ IF r.st.raised = "" /\ ~empty(r.v) THEN step' = 1 /\ at' = at /\ st' = r.st
          ELSE step' = 0 /\ at' = at + 1 /\ st' = Row(r.st)
  /\ UNCHANGED <<program, graph>>

\* An expression that an assignment of the entry evaluates and looks up; one
\* whose target holds containments is asked for those.
Evaluation(task) ==
  Then(interpret_closure_evaluate(st, Here, task.e, TRUE, TRUE),
       LAMBDA x, s : resolve(x, IF size(x) > 1 THEN "V" \o task.cast ELSE task.cast, s))

Operation ==
  LET does == program[Met.p].does
  IN /\ Active /\ step \in DOMAIN does
     /\ \E r \in {Evaluation(does[step])} :
          /\ last' = [kind |-> "operation", I |-> Here, expr |-> does[step].e,
                       before |-> st, v |-> r.v, failed |-> r.st.raised # ""]
          /\ st' = r.st
     /\ step' = step + 1
     /\ UNCHANGED <<program, graph, at>>

\* Updates only ever add to updates, but for what belongs to one entry.
Extends(d, f) ==
  /\ d.removed \subseteq f.removed
  /\ \A x \in DOMAIN d.repl : x \in DOMAIN f.repl
  /\ DOMAIN d.plus \subseteq DOMAIN f.plus

\* What the assignments and the entries before do to the updates.
Update ==
  /\ Active /\ step > 0
  /\ \E d \in Deltas : d # st.delta /\ Extends(st.delta, d) /\ st' = [st EXCEPT !.delta = d]
  /\ UNCHANGED <<program, graph, at, step, last>>

NextRow ==
  /\ Active /\ step > Len(program[Met.p].does)
  /\ at' = at + 1 /\ step' = 0 /\ st' = Row(st)
  /\ UNCHANGED <<program, graph, last>>

\* An entry whose object was deleted is not evaluated; one with another deleted
\* object may be passed over, for it may need it.
Skip ==
  /\ Active /\ step = 0
  /\ \/ hasXBeenRemoved(st.delta, Met.x)
     \/ \E n \in IdsOf(Here.row) : hasXBeenRemoved(st.delta, n)
  /\ at' = at + 1 /\ UNCHANGED <<program, graph, step, st, last>>

\* The indexers go with the graph; the environment stays.
NextGraph ==
  /\ at > Len(Order[graph]) /\ st.raised = "" /\ graph + 1 \in Graphs
  /\ graph' = graph + 1 /\ at' = 1 /\ step' = 0 /\ last' = Nothing
  /\ st' = [st EXCEPT !.ix = <<>>, !.delta = NoUpdates]
  /\ UNCHANGED program

Next == Test \/ Operation \/ Update \/ NextRow \/ Skip \/ NextGraph
Spec == Init /\ [][Next]_vars

-----------------------------------------------------------------------------
(* Properties.                                                             *)

\* The names that a script mentions.
RECURSIVE Mentioned(_), RulesOf(_)
Mentioned(tree) ==
  UNION {Mentioned(tree.k[i]) : i \in DOMAIN tree.k} \cup (IF "s" \in DOMAIN tree THEN {tree.s} ELSE {})
RulesOf(tree) == {tree.r} \cup UNION {RulesOf(tree.k[i]) : i \in DOMAIN tree.k}

Fresh(s) == [s EXCEPT !.env = <<>>, !.ix = <<>>, !.casts = <<>>, !.edges = {}]
Scripted == last.kind = "operation" /\ last.expr.t = "SCRIPT" /\ ~last.failed

\* What a script over one column of the row gives depends on that row and on
\* the updates: nothing is left over from the rows, the patterns and the
\* scripts before, though they share an environment and the nodes of the
\* columns (SchemaIndexer::initialize, closure::reinitAndClearNestedIndices).
RowMeaning ==
  Scripted /\ Cardinality(Mentioned(last.expr.tree) \cap Range(last.I.schema)) <= 1
  /\ RulesOf(last.expr.tree) \cap {"assign", "eval", "subtype_of", "enforce"} = {}
  /\ (\A n \in DOMAIN last.before.env : n \notin Mentioned(last.expr.tree) \/ n \in Range(last.I.schema))
    => LET alone == Then(eval(Fresh(last.before), last.I.p, last.I.address, last.I.schema,
                              last.I.row, last.expr.tree),
                         LAMBDA v, s : CastTo(v, "STRING", s))
       IN last.v.t = "LABEL" => alone.st.raised = "" /\ last.v = alone.v

\* An evaluation without an assignment binds no name and frees none: the
\* parameters that its calls bind are taken back (Funzione::apply).
NamesRetained ==
  [][step' = step + 1 /\ last'.kind = "operation" /\ ~last'.failed /\ last'.expr.t = "SCRIPT"
     /\ "assign" \notin RulesOf(last'.expr.tree)
       => DOMAIN st'.env = DOMAIN st.env]_vars

OfColumn(name) == Tree("var", <<Leaf("atom_string", name)>>)
\* What a test compares, as a script asks for it, and the text it compares it with.
AsRead(l) ==
  LET x == OfColumn(l.of.name)
  IN CASE l.t = "ELL" -> Tree("at", <<Tree("ell", <<x>>), NumberLeaf(l.off, 0)>>)
       [] l.t = "XI" -> Tree("at", <<Tree("xi", <<x>>), NumberLeaf(l.off, 0)>>)
       [] OTHER -> Tree("at", <<Tree("at", <<Tree("obj", <<x>>), Leaf("atom_string", "@pi")>>),
                                Leaf("atom_string", l.key.name)>>)
Literal(r) == IF r.t = "SCRIPT" THEN r.tree ELSE Leaf("atom_string", r.name)

\* The test of one matched object's label, value or property against a text.
ComparesText ==
  /\ last.kind = "test" /\ ~last.failed /\ last.expr.t = "EQ" /\ last.expr.l.t \in {"ELL", "XI", "PROP"}
  /\ last.expr.r.t = "VARIABLE" \/ (last.expr.r.t = "SCRIPT" /\ last.expr.r.tree.r = "atom_string")
  /\ Outside(last.I, last.expr.l.of.name) # {} /\ last.expr.l.of.name \notin DOMAIN last.before.delta.inserted
  /\ Flat(last.I.row, Min(Outside(last.I, last.expr.l.of.name))) # {}

\* A test and a script read the same object and find the same there, whatever
\* replaced the object since, though one reads a property by resolve_prop
\* (closure.h:720), which follows no replacement, and the other by
\* resolve_GoodProp. They do not make the same of it. A test holds if the text
\* of what the script reads is the literal: a number counts as its text
\* (closure.h:730, 740), and a missing property as the empty one (742), while
\* no text is found for a label or a value behind the last, for which a script
\* reads an empty list. A script's comparison holds if the test holds and what
\* was read is a text: kinds are compared first (ScriptAST.cpp:1421).
TestsAgree ==
  ComparesText =>
    LET evaluated(tree) == eval(Fresh(last.before), last.I.p, last.I.address, last.I.schema, last.I.row, tree)
        read == Then(evaluated(AsRead(last.expr.l)), run)
        found == seen(read.v, read.st)
        text == IF found.t = "NullE" THEN "" ELSE Text(found, read.st)
        literal == Literal(last.expr.r)
        holds == ~empty(last.v)
        script == evalBool(Fresh(last.before), last.I.p, last.I.address, last.I.schema, last.I.row,
                           Tree("eq", <<AsRead(last.expr.l), literal>>))
    IN /\ read.st.raised = "" /\ script.st.raised = ""
       /\ found.t \in {"String", "Double", "NullE"} \/ (found = Array(<<>>) /\ last.expr.l.t # "PROP")
       /\ holds <=> found.t # "Array" /\ text = literal.s
       /\ script.v <=> holds /\ found.t = "String"

\* "Matched" and "unmatched" of a column exclude each other, and one of them
\* holds: an object that is missing counts as unmatched by a pattern that has
\* matches, and one that is there by a pattern that has none. (A missing one,
\* by a pattern that has none, is neither.)
MatchedComplement ==
  last.kind = "test" /\ last.expr.t \in {"MATCHED", "UNMATCHED"} /\ ~last.failed
  /\ last.expr.var \in Range(last.I.schema)
  /\ (last.expr.pattern \in DOMAIN Tables[graph] \/ Flat(last.I.row, Position(last.I.schema, last.expr.var)) # {})
  /\ (last.expr.pattern \in DOMAIN Tables[graph] => last.expr.other \in Range(Tables[graph][last.expr.pattern].schema))
    => (empty(MatchedIn(last.before, last.I, last.expr).v) <=> ~empty(UnmatchedIn(last.before, last.I, last.expr).v))

Of(d, e, id) == LET texts == IF e.t = "ELL" THEN resolve_ell(d, id) ELSE resolve_xi(d, id)
                IN IF Len(texts) > e.off THEN texts[e.off + 1] ELSE ""
RECURSIVE Holds(_, _, _)
Holds(d, t, id) == CASE t.t = "AND" -> Holds(d, t.l, id) /\ Holds(d, t.r, id)
                     [] t.t = "OR" -> Holds(d, t.l, id) \/ Holds(d, t.r, id)
                     [] t.t = "EQ" -> Of(d, t.l, id) = t.r.name
                     [] OTHER -> Of(d, t.l, id) # t.r.name
RECURSIVE VariablesOf(_)
VariablesOf(t) == IF t.t \in {"AND", "OR"} THEN VariablesOf(t.l) \cup VariablesOf(t.r) ELSE {t.l.of.name}

\* A choice over the objects of an inner column, none of which is missing,
\* gives each object the value of its own branch, however many of them the
\* condition holds for and wherever two became one by a replacement.
ChoicePerElement ==
  last.kind = "operation" /\ last.expr.t = "IFTE" /\ ~last.failed /\ Inside(last.I, last.expr.name) # {}
  /\ {last.expr.then.t, last.expr.else.t} \subseteq {"ELL", "XI"}
  /\ VariablesOf(last.expr.cond) \cup {last.expr.then.of.name, last.expr.else.of.name} = {last.expr.name}
    => LET d == last.before.delta
           ids == resolveIdsOverVariableName2(last.before, last.I, last.expr.name).v
       IN -1 \notin Range(ids) =>
            last.v = Many("LABEL", [j \in DOMAIN ids |->
              Of(d, IF Holds(d, last.expr.cond, ids[j]) THEN last.expr.then ELSE last.expr.else, ids[j])])

\* The variables of a script are those of the record it is evaluated on
\* (ScriptVisitor.cpp:60): comparing two columns compares what they hold.
RowVariables ==
  Scripted /\ last.expr.tree.r = "eq" /\ (\A i \in 1..2 : last.expr.tree.k[i].r = "var")
    => LET cell(i) == last.I.row[Position(last.I.schema, last.expr.tree.k[i].k[1].s)]
       IN (last.v.v = "tt") <=> (cell(1) = cell(2))
=============================================================================
