------------------------------ MODULE MCMatching ------------------------------
(***************************************************************************)
(* Three objects, x over y over z, in a first graph, with edges of two     *)
(* labels, two of them parallel, and a second graph of one edge or of a    *)
(* chain of related objects.                                               *)
(***************************************************************************)
EXTENDS Matching

MCNull == "true"
MCAlphabet == <<"*", "E", "E_label", "F", "F_label", "S", "T", "U", "X", "Y", "Z", "graph">>

Edge(id, graph, src, label, dst) == [id |-> id, graph |-> graph, src |-> src, label |-> label, dst |-> dst]
MCEdges == {Edge("e1", "0", "x", "a", "y"), Edge("e2", "0", "x", "a", "z"), Edge("e3", "0", "x", "b", "z"),
            Edge("e4", "0", "y", "a", "z"), Edge("e5", "0", "y", "b", "z"), Edge("e6", "0", "x", "a", "y")}
OneEdge == {Edge("f1", "1", "x", "a", "y")}
\* Three objects in a fourth, the first and the last related through the second.
Related == {Edge("f1", "1", "u", "a", "p"), Edge("f2", "1", "u", "a", "q"), Edge("f3", "1", "u", "a", "r"),
            Edge("f4", "1", "p", "b", "q"), Edge("f5", "1", "q", "b", "r")}
MCDatabases == {d \cup f : d \in SUBSET MCEdges, f \in {{}, OneEdge}} \cup {Related}

To(ref, var, type, mark, all) ==
    [ref |-> ref, var |-> var, type |-> type, question_mark |-> mark, forall |-> all]
Node(var, vec) == [var |-> var, vec |-> vec]
Leg(edge, node) == [edge |-> edge, node |-> node]
Join(entry, edge, node) == [entry |-> entry, edge |-> edge, node |-> node, outgoing |-> TRUE]
Pattern(from, into, hooks, joins, grouped) ==
    [var |-> "X", vec |-> grouped, out |-> from, in |-> into, hook |-> hooks, join_edges |-> joins]

\* A required edge, and an optional one that has a variable and any label.
Star == Pattern(<<Leg(To("1", "", <<"a">>, FALSE, FALSE), Node(<<"Y">>, FALSE)),
                  Leg(To("2", "F", <<>>, TRUE, FALSE), Node(<<"Z">>, FALSE))>>, <<>>, <<>>, <<>>, FALSE)
\* A triangle of three required edges, one of either label.
Triangle == Pattern(<<Leg(To("3", "E", <<"a">>, FALSE, FALSE), Node(<<"Y">>, FALSE)),
                      Leg(To("4", "", <<"a", "b">>, FALSE, FALSE), Node(<<"Z">>, FALSE))>>, <<>>, <<>>,
                    <<Join("Y", To("5", "", <<"b">>, FALSE, FALSE), Node(<<"Z">>, FALSE))>>, FALSE)
\* All targets of a label in one cell, beside an edge from above, and an optional one.
ForAll == Pattern(<<Leg(To("6", "E", <<"a", "b">>, FALSE, TRUE), Node(<<"S">>, TRUE)),
                    Leg(To("7", "", <<"b">>, TRUE, FALSE), Node(<<"T">>, FALSE))>>,
                  <<Leg(To("8", "", <<"a">>, FALSE, FALSE), Node(<<"Y">>, FALSE))>>, <<>>, <<>>, FALSE)
OptionalAll == Pattern(<<Leg(To("9", "", <<"b">>, TRUE, TRUE), Node(<<"S">>, TRUE)),
                         Leg(To("10", "", <<"a">>, FALSE, FALSE), Node(<<"Y">>, FALSE))>>,
                       <<>>, <<>>, <<>>, FALSE)
\* Objects grouped by what contains them, with and without a hook.
ByContainer(hook) == Pattern(<<Leg(To("11", "", <<"b">>, TRUE, FALSE), Node(<<"T">>, FALSE))>>,
                             <<Leg(To("12", "E", <<"a">>, FALSE, TRUE), Node(<<"Y">>, FALSE))>>,
                             hook, <<>>, TRUE)
Hooked == ByContainer(<<To("13", "", <<"b">>, FALSE, FALSE)>>)
NoRequired == Pattern(<<Leg(To("14", "", <<"a">>, TRUE, FALSE), Node(<<"Y">>, FALSE))>>, <<>>, <<>>, <<>>, FALSE)
\* A required and an optional edge from one node to two variables.
Both == Pattern(<<Leg(To("15", "", <<>>, FALSE, FALSE), Node(<<"Y", "Z">>, FALSE))>>, <<>>, <<>>, <<>>, FALSE)

\* Grouped, with an ingoing edge that is not for all.
NotForAll == Pattern(<<>>, <<Leg(To("16", "", <<"a">>, FALSE, FALSE), Node(<<"Y">>, FALSE))>>, <<>>, <<>>, TRUE)
\* An optional edge from the objects in the cell of a first one.
Inside == Pattern(<<Leg(To("1", "", <<"a">>, FALSE, TRUE), Node(<<"S">>, TRUE))>>, <<>>, <<>>,
                  <<Join("S", To("2", "", <<"b">>, TRUE, FALSE), Node(<<"T">>, FALSE))>>, FALSE)
\* And from there to a third object: the cell does not bear the name it is found by.
Chain == [Inside EXCEPT !.join_edges =
            <<Join("S", To("17", "", <<"b">>, FALSE, FALSE), Node(<<"T">>, FALSE)),
              Join("T", To("18", "", <<>>, FALSE, FALSE), Node(<<"U">>, FALSE))>>]

MCQueries == {<<Star, Hooked>>, <<Triangle>>, <<ForAll>>, <<OptionalAll>>, <<ByContainer(<<>>)>>,
              <<Both, NoRequired>>, <<NotForAll>>, <<Chain>>}
InsideQueries == {<<Inside>>}

=============================================================================
