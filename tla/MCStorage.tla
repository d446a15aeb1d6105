----------------------------- MODULE MCStorage -----------------------------
(***************************************************************************)
(* Small databases: objects out of order, labels that come and go between  *)
(* graphs, a label that is not contained or owns nothing, equal and        *)
(* repeated contents, objects without labels.                              *)
(***************************************************************************)
EXTENDS Storage, TLC

Obj(id, ell, props, phi) == [id |-> id, ell |-> ell, props |-> props, phi |-> phi]
None == [x \in {} |-> <<>>]

\* two labels, the second object comes first
g_swapped == <<Obj(2, <<"b">>, "p" :> 2, None),
               Obj(1, <<"a", "c">>, "p" :> 1, "x" :> <<<<1, 2>>>>)>>

\* a shared object, contents out of order and of different weight, two
\* containment labels, an object without labels, equal values
g_shared == <<Obj(1, <<"a">>, ("p" :> 3) @@ ("q" :> 1),
                  ("x" :> <<<<2, 3>>, <<1, 2>>, <<1, 3>>>>) @@ ("y" :> <<<<1, 3>>>>)),
              Obj(3, <<>>, "p" :> 3, None),
              Obj(2, <<"b">>, "p" :> 3, "x" :> <<<<1, 3>>, <<1, 3>>>>)>>

\* a chain, three values of one label
g_chain == <<Obj(3, <<"b">>, "p" :> 1, None),
             Obj(1, <<"b">>, ("p" :> 2) @@ ("q" :> 2), "y" :> <<<<1, 2>>>>),
             Obj(2, <<"b">>, "p" :> 3, "y" :> <<<<1, 3>>>>)>>

g_single == <<Obj(1, <<"d">>, None, None)>>

Graphs == {g_swapped, g_shared, g_chain, g_single}
MCParsed == {<<g>> : g \in Graphs} \cup {<<g, h>> : g \in Graphs, h \in Graphs \cup {<<>>}}

\* lists of objects from a program: identifiers with gaps, a graph without
\* objects, and a reference to an object that is not there
g_gaps == <<Obj(7, <<"a">>, "p" :> 2, ("x" :> <<<<1, 9>>>>) @@ ("y" :> <<<<1, 4>>>>)),
            Obj(4, <<"b">>, "p" :> 1, None),
            Obj(9, <<"a">>, None, "x" :> <<<<1, 4>>>>)>>
g_dangling == <<Obj(4, <<"a">>, None, "x" :> <<<<1, 1>>, <<1, 2>>>>),
                Obj(3, <<"b">>, None, None)>>
MCGiven == {<<g>> : g \in Graphs \cup {g_gaps, g_dangling}}
             \cup {<<g_gaps, g>> : g \in {g_swapped, g_gaps, <<>>}}
             \cup {<<<<>>, g_swapped>>, <<<<>>>>, <<>>}

NoFile == {}

MCIntervals == {<<<<1, 1>>>>, <<<<2, 2>>>>, <<<<0, 5>>>>, <<<<1, 1>>, <<3, 3>>>>,
                <<<<1, 2>>, <<3, 4>>>>, <<<<0, 0>>, <<2, 3>>>>, <<<<1, 1>>, <<2, 2>>, <<3, 3>>>>}
=============================================================================
