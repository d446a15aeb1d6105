---------------------------- MODULE MCRewriting ----------------------------
(***************************************************************************)
(* Programs of one or two patterns over the acyclic graphs of three        *)
(* objects. The patterns are reductions of the ones in data/queries and    *)
(* data/test: deletion with inheritance of the deleted object's place,     *)
(* grouping under a new object, assignment in both directions, optional    *)
(* and grouped columns.                                                    *)
(***************************************************************************)
EXTENDS Rewriting

Col(edge, node, out, opt) == [edge |-> edge, node |-> node, out |-> out, opt |-> opt]
Out(node) == Col("e", node, TRUE, FALSE)
In(node) == Col("f", node, FALSE, FALSE)

del(v) == [t |-> "del", var |-> v]
new(v) == [t |-> "new", var |-> v]
value(v) == [t |-> "value", var |-> v]
phi(v, s) == [t |-> "phi", label |-> "k", var |-> v, source |-> s]

Pattern(flat, nested, ops, dst) ==
  [hook |-> "X", vec |-> FALSE, flat |-> flat, nested |-> nested,
   where |-> FALSE, ops |-> ops, dst |-> dst]

\* data/test/missing_node/missing_1query.txt: the hook gives way to what it
\* contains, which gets the optional second object assigned
p_collapse == Pattern(<<Out("Y"), Col("g", "Z", TRUE, TRUE)>>, <<>>,
                      <<phi("Y", "Z"), del("X")>>, "Y")

\* the hook is replaced by a new object that contains it
p_wrap == Pattern(<<Out("Y")>>, <<>>, <<new("W"), phi("W", "X"), value("W")>>, "W")

\* what the hook contains is deleted, on a condition
p_prune == [Pattern(<<Out("Y")>>, <<>>, <<del("Y"), del("e")>>, "X")
              EXCEPT !.where = TRUE]

\* the hook is deleted and its container takes its place
p_lift == Pattern(<<In("U")>>, <<>>, <<del("X")>>, "U")

\* the hook stays, and its container stands for it
p_climb == Pattern(<<In("U")>>, <<>>, <<value("U")>>, "U")

\* all contained objects are gathered under a new one
p_group == Pattern(<<>>, <<Out("Y")>>, <<phi("W", "Y"), phi("Y", "X")>>, "W")

\* all objects of one container, with what they contain, give way to a new one
p_vec == [hook |-> "X", vec |-> TRUE, flat |-> <<In("U")>>,
          nested |-> <<Col("g", "Y", TRUE, TRUE)>>, where |-> FALSE,
          ops |-> <<new("W"), phi("U", "X"), phi("Y", "X"), del("Y")>>, dst |-> "W"]

\* those objects of one container that contain something give way to it
p_vecInto == [p_vec EXCEPT !.nested = <<Col("g", "Y", TRUE, FALSE)>>,
                           !.ops = <<phi("U", "X")>>, !.dst = "Y"]

\* the hook is deleted
p_delete == Pattern(<<Out("Y")>>, <<>>, <<del("X")>>, "X")

\* nothing is deleted
p_assign == Pattern(<<Out("Y")>>, <<Col("g", "Z", TRUE, FALSE)>>,
                    <<phi("X", "Z"), phi("Z", "Y")>>, "Y")

Flat == {p_collapse, p_wrap, p_prune, p_lift, p_climb, p_group, p_delete, p_assign}
MCVars == {"U", "W", "X", "Y", "Z"}
MCEdges == 1 .. 5
Pairs3 == {<<a, b>> \in (0 .. 2) \X (0 .. 2) : a < b}
MCGraphs == {g \in UNION {[1 .. n -> Pairs3] : n \in 1 .. 3} :
               \A i, j \in DOMAIN g : g[i] = g[j] => i = j}

\* a container whose objects contain one another
VecGraphs == {<<<<0, 1>>, <<0, 2>>, <<0, 3>>, <<1, 2>>, <<1, 3>>>>,
              <<<<0, 1>>, <<0, 2>>, <<1, 2>>, <<1, 3>>, <<2, 3>>>>,
              <<<<0, 1>>, <<1, 2>>, <<1, 3>>, <<2, 3>>>>,
              <<<<0, 2>>, <<1, 2>>, <<1, 3>>>>}

\* Every program of one or two patterns without grouped hooks on every graph of
\* three objects; programs with a grouped hook on the graphs for them.
FlatQueries == {<<p>> : p \in Flat} \cup {<<p, q>> : p \in Flat, q \in Flat}
VecQueries == UNION {{<<v>>, <<v, p>>, <<p, v>>} : v \in {p_vec, p_vecInto}, p \in Flat}
MCInputs == (MCGraphs \X FlatQueries) \cup (VecGraphs \X VecQueries)

\* the hook is deleted by each of its entries
DeleteInputs == MCGraphs \X {<<p_delete>>}

\* the hook is replaced twice, then deleted
ReplaceReplaceDelete == MCGraphs \X {<<p_wrap, p_wrap, p_delete>>}
=============================================================================
