-------------------------- MODULE MCMaterialisation --------------------------
(***************************************************************************)
(* Programs of MCRewriting followed by the serialisation of their result,  *)
(* on graphs with a shared object, a chain, and an isolated object.        *)
(***************************************************************************)
EXTENDS Materialisation, MCRewriting

MCLabels == {"k"}

\* chains of replacements, cycles of containment through a replaced hook, and
\* deletions of what other objects refer to
ViewQueries == {<<p_collapse, p_wrap>>, <<p_collapse, p_collapse>>, <<p_group>>,
                <<p_group, p_lift>>, <<p_wrap, p_delete>>, <<p_assign, p_wrap>>,
                <<p_lift, p_wrap>>, <<p_prune, p_group>>}

\* all containers of the hook are gathered in a new object; a hook that contains
\* something gives way to it, on a condition
p_gather == Pattern(<<>>, <<In("U")>>, <<phi("W", "U")>>, "X")
GatherCollapse == MCGraphs \X {<<p_gather, [p_collapse EXCEPT !.where = TRUE]>>}

ViewGraphs == {<<>>, <<<<0, 1>>, <<0, 2>>>>, <<<<0, 1>>, <<1, 2>>>>, <<<<1, 2>>, <<0, 2>>>>,
               <<<<0, 1>>, <<0, 2>>, <<1, 2>>>>}
\* three containers of one object: they are gathered in what replaces it, and some
\* of them are collapsed, so that the numbers of records and their positions part
Shifted == << <<<<0, 3>>, <<1, 3>>, <<2, 3>>>>,
              <<[p_gather EXCEPT !.dst = "W"],
                [p_collapse EXCEPT !.where = TRUE, !.ops = <<del("X")>>]>> >>
ViewInputs == (ViewGraphs \X ViewQueries) \cup {Shifted}
=============================================================================
