-------------------------- MODULE Materialisation --------------------------
(***************************************************************************)
(* From the decisions of the rewriting engine to the resulting graph:      *)
(* generate_materialised_view lays the delta over the loaded graph;        *)
(* fillInForSerialization writes the result out and                        *)
(* generateGraphsFromMaterialisedViews draws it, each breaking in its own  *)
(* copy the containment cycles that the patterns may have introduced. The  *)
(* first runs once per query, whichever consumer asks for it.              *)
(***************************************************************************)
EXTENDS Rewriting

CONSTANT Labels  \* the containment labels

ASSUME LoadedIsLabel == Loaded \in Labels

VARIABLES
  isMaterialised,
  view,          \* delta_plus_db.O after the materialisation: phi of every object
  output,        \* auxiliary: what the view is turned into, and how far
  simpleGraphs,  \* the edges of the graph that is made from the view
  path,          \* the calls of topologicalSortUtil that have not returned
  Stack,         \* the nodes from which they have returned
  dbs            \* the serialised objects: phi of every object that is kept

search == <<path, Stack>>
mvars == <<vars, isMaterialised, view, output, simpleGraphs, search, dbs>>

Legacy == 0 .. LegacyMax
Nothing == [x \in {} |-> <<>>]

-----------------------------------------------------------------------------
(* The materialised view. A record of phi is the contained object with the *)
(* identifier of the loaded edge it comes from, NoId for an assigned one.  *)

Record(id, edge) == [id |-> id, edge |-> edge]

LoadedRecords(x, label) ==
  IF label # Loaded \/ x \notin Legacy THEN <<>>
  ELSE LET es == Ascending({e \in DOMAIN graph : graph[e][1] = x})
       IN [i \in DOMAIN es |-> Record(graph[es[i]][2], es[i])]

AssignedRecords(x, label) ==
  IF <<x, label>> \notin DOMAIN content THEN <<>>
  ELSE [i \in DOMAIN content[<<x, label>>] |-> Record(content[<<x, label>>][i], NoId)]

Records(x, label) == LoadedRecords(x, label) \o AssignedRecords(x, label)

NotDeleted(recs) == Select(recs, {i \in DOMAIN recs : recs[i].edge \notin removedEdges})

Current(recs) ==
  [i \in DOMAIN recs |-> Record(Delta!replacedWith(recs[i].id), recs[i].edge)]

\* Mutated: the records keep the identifiers they were loaded with.
MaterialisedAsLoaded(x) ==
  [l \in Labels |-> IF x \in Legacy /\ ~Delta!hasXBeenRemoved(x)
                    THEN NotDeleted(Records(x, l))
                    ELSE AssignedRecords(x, l)]

\* Loaded objects that are not deleted are brought up to date: the records they
\* were loaded with come first, every record refers to the object that stands
\* for its own, and deleted edges go. Other objects keep what was assigned.
Materialised(x) ==
  [l \in Labels |-> IF x \in Legacy /\ ~Delta!hasXBeenRemoved(x)
                    THEN NotDeleted(Current(Records(x, l)))
                    ELSE AssignedRecords(x, l)]

Kept == objs \cup {x \in Legacy : ~Delta!hasXBeenRemoved(x)}

-----------------------------------------------------------------------------
(* Serialisation.                                                          *)

Nodes == DOMAIN view \ removed

\* A record of a deleted object takes a number; a record of an object that is no
\* node, but counts as live because it was replaced, does not.
TakesNumber(r) == r.id \in Nodes \/ Delta!hasXBeenRemoved(r.id)

\* The edges of one label list, numbered by recordsId.
Numbered(x, l) ==
  LET recs == view[x][l]
      isEdge(i) == recs[i].id \in Nodes /\ ~Delta!hasXBeenRemoved(recs[i].id)
      number(i) == Cardinality({j \in 1 .. i - 1 : TakesNumber(recs[j])}) + 1
  IN {[src |-> x, label |-> l, no |-> number(i), dst |-> recs[i].id] :
        i \in {j \in DOMAIN recs : isEdge(j)}}

AllEdges == UNION {Numbered(x, l) : x \in Nodes, l \in Labels}

\* Mutated: deleted objects are not left out.
RootsUnfiltered ==
  {Delta!replacedWith(x) :
     x \in IF graph = <<>> THEN Legacy ELSE {v \in Vertices : Layer(v) = 0}}

\* The objects without a container in the loaded graph, or all of them when
\* nothing contains anything.
Roots ==
  {Delta!replacedWith(x) :
     x \in IF graph = <<>> THEN Legacy ELSE {v \in Vertices : Layer(v) = 0}} \ removed

\* The depth of every node: one more than the deepest of its containers, where
\* those that come after it in the order count as roots, as its first node does.
Depths(edges, order) ==
  LET depth[i \in DOMAIN order] ==
        LET containers == {k \in DOMAIN order :
                             \E e \in edges : e.src = order[k] /\ e.dst = order[i]}
        IN IF i = 1 \/ containers = {} THEN 0
           ELSE Max({IF k < i THEN depth[k] ELSE 0 : k \in containers}) + 1
  IN [v \in Range(order) |-> depth[CHOOSE i \in DOMAIN order : order[i] = v]]

\* Mutated: an edge between objects of the same depth is kept.
SurvivingSameDepth(edges, order) ==
  LET time == Depths(edges, order)
  IN {e \in edges : time[e.dst] >= time[e.src]}

\* An edge that does not lead deeper is dropped.
Surviving(edges, order) ==
  LET time == Depths(edges, order)
  IN {e \in edges : time[e.dst] > time[e.src]}

\* The records whose number survives are the ones written out.
Serialised(edges) ==
  [x \in Nodes |->
     [l \in Labels |->
        LET numbers == {e.no : e \in {d \in edges : d.src = x /\ d.label = l}}
        IN Select(view[x][l], {i \in DOMAIN view[x][l] : i \in numbers})]]

-----------------------------------------------------------------------------
(* The drawing. An object that was deleted and then replaced is a node     *)
(* here, not in the serialisation.                                         *)

Shown == {x \in DOMAIN view : ~Delta!hasXBeenRemoved(x)}

Drawn(x, l) ==
  {[src |-> x, label |-> l, no |-> i, dst |-> view[x][l][i].id] :
     i \in {j \in DOMAIN view[x][l] : view[x][l][j].id \in Shown}}

DrawnEdges == UNION {Drawn(x, l) : x \in Shown, l \in Labels}

-----------------------------------------------------------------------------
(* The steps. Environment::output may ask for both outputs, one after the   *)
(* other; as neither changes what the other reads, a behaviour has one.     *)

Searching == output \in {"writing", "drawing"}
nodes == IF output \in {"drawing", "drawn"} THEN Shown ELSE Nodes

\* The roots of the drawing are written past the end of a vector that stays
\* empty (closure.cpp:184-197).
initialNodes == IF output = "drawing" THEN {} ELSE Roots

visited == Range(path) \cup Range(Stack)
successors(v) == {e.dst : e \in {d \in simpleGraphs : d.src = v}}

MInit ==
  /\ Init
  /\ isMaterialised = FALSE
  /\ view = Nothing
  /\ output = "none"
  /\ simpleGraphs = {}
  /\ path = <<>>
  /\ Stack = <<>>
  /\ dbs = Nothing

rewrite == Next /\ UNCHANGED <<isMaterialised, view, output, simpleGraphs, search, dbs>>

\* Mutated: it is not noted that the view is there.
generate_materialised_view_again ==
  /\ pc = "done"
  /\ ~isMaterialised
  /\ view' = [x \in Kept |-> Materialised(x)]
  /\ UNCHANGED <<vars, isMaterialised, output, simpleGraphs, search, dbs>>

generate_materialised_view ==
  /\ pc = "done"
  /\ ~isMaterialised
  /\ isMaterialised' = TRUE
  /\ view' = [x \in Kept |-> Materialised(x)]
  /\ UNCHANGED <<vars, output, simpleGraphs, search, dbs>>

fillInForSerialization ==
  /\ isMaterialised
  /\ output = "none"
  /\ output' = "writing"
  /\ simpleGraphs' = AllEdges
  /\ UNCHANGED <<vars, isMaterialised, view, search, dbs>>

generateGraphsFromMaterialisedViews ==
  /\ isMaterialised
  /\ output = "none"
  /\ output' = "drawing"
  /\ simpleGraphs' = DrawnEdges
  /\ UNCHANGED <<vars, isMaterialised, view, search, dbs>>

\* The search starts from the roots, then from the nodes they do not lead to;
\* the order in which the nodes are listed is unspecified.
searchFrom ==
  /\ Searching
  /\ path = <<>>
  /\ \E v \in (IF initialNodes \subseteq visited THEN nodes ELSE initialNodes) \ visited :
       path' = <<v>>
  /\ UNCHANGED <<vars, isMaterialised, view, output, simpleGraphs, Stack, dbs>>

\* topologicalSortUtil calls itself for a successor.
descend ==
  /\ Searching
  /\ path # <<>>
  /\ \E v \in successors(Last(path)) \ visited : path' = Append(path, v)
  /\ UNCHANGED <<vars, isMaterialised, view, output, simpleGraphs, Stack, dbs>>

\* A call returns when it has met all of them.
ascend ==
  /\ Searching
  /\ path # <<>>
  /\ successors(Last(path)) \subseteq visited
  /\ Stack' = Append(Stack, Last(path))
  /\ path' = Front(path)
  /\ UNCHANGED <<vars, isMaterialised, view, output, simpleGraphs, dbs>>

\* The search is over: the edges that do not lead deeper are dropped.
breakCycles ==
  /\ path = <<>>
  /\ initialNodes \cup nodes \subseteq visited
  /\ simpleGraphs' = Surviving(simpleGraphs, Reverse(Stack))

write ==
  /\ output = "writing"
  /\ breakCycles
  /\ output' = "written"
  /\ dbs' = Serialised(simpleGraphs')
  /\ UNCHANGED <<vars, isMaterialised, view, search>>

draw ==
  /\ output = "drawing"
  /\ breakCycles
  /\ output' = "drawn"
  /\ UNCHANGED <<vars, isMaterialised, view, search, dbs>>

MNext ==
  \/ rewrite
  \/ generate_materialised_view
  \/ fillInForSerialization
  \/ generateGraphsFromMaterialisedViews
  \/ searchFrom
  \/ descend
  \/ ascend
  \/ write
  \/ draw

MSpec == MInit /\ [][MNext]_mvars /\ WF_mvars(MNext)

-----------------------------------------------------------------------------
(* Properties.                                                             *)

Written(x) == UNION {Range(dbs[x][l]) : l \in Labels}

\* The direct containment in the records of phi, and in the graph made from it.
Containment(phi) ==
  {<<p[1], phi[p[1]][p[2]][p[3]].id>> :
     p \in UNION {{<<x, l, i>> : i \in DOMAIN phi[x][l]} : x \in DOMAIN phi, l \in Labels}}
GraphContainment == {<<e.src, e.dst>> : e \in simpleGraphs}

\* y is below x, directly or not: it belongs to every set of objects that holds
\* the objects x contains, and with an object those that it contains.
Below(contains, x, y) ==
  \A S \in SUBSET {p[2] : p \in contains} :
    (\A p \in contains : p[1] \in S \cup {x} => p[2] \in S) => y \in S

\* The numbers of the records agree with their positions.
EveryRecordCounts ==
  \A x \in Nodes, l \in Labels : \A i \in DOMAIN view[x][l] : TakesNumber(view[x][l][i])

\* Whatever cycles the patterns introduce, the drawing has none; nor has the
\* written graph, so that it can be loaded again and container_order computed
\* for it, as long as the records are written that were numbered.
OutputAcyclic ==
  /\ output = "drawn" => \A x \in Shown : ~Below(GraphContainment, x, x)
  /\ output = "written" /\ EveryRecordCounts =>
       \A x \in DOMAIN dbs : ~Below(Containment(dbs), x, x)

\* The objects that take the place of the loaded roots are nodes of the result,
\* or deleted: the search never starts from an identifier it has no node for
\* (closure.h:146-165).
RootsAreNodes == isMaterialised => Roots \subseteq Nodes

EveryChainEnds == \A x \in DOMAIN repl : Delta!replacedWith(x) \notin DOMAIN repl

\* Every loaded edge whose container is kept, which was not deleted, and whose
\* object's representative is kept, is written out and drawn and leads to that
\* representative, unless it closes a cycle. For what is written, the chains of
\* replacements have to end, as they do without grouped hooks (ReplacementsEnd).
EdgesFollowReplacement ==
  output \in {"written", "drawn"} =>
    \A e \in DOMAIN graph :
      LET x == graph[e][1]
          y == Delta!replacedWith(graph[e][2])
      IN (/\ x \in Nodes
          /\ y \in Nodes
          /\ e \notin removedEdges
          /\ ~Below(Containment(view), y, x))
           => /\ output = "written" /\ EveryChainEnds => Record(y, e) \in Written(x)
              /\ output = "drawn" => <<x, y>> \in GraphContainment

\* "providing a cohesive view of the graph" (closure.h:540-541): what the result
\* refers to is part of the result. A record of an object that was deleted and
\* then replaced takes no number, and the survivors' numbers miss their records.
NoDanglingReference ==
  output = "written" => \A x \in DOMAIN dbs : \A r \in Written(x) : r.id \in DOMAIN dbs

\* A result is written, or drawn, for every program and every graph.
EventuallyWritten == <>(output \in {"written", "drawn"})
=============================================================================
