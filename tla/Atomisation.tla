----------------------------- MODULE Atomisation -----------------------------
(***************************************************************************)
(* The atomising pipeline: src/database/AtomizingPipeline2.cpp.  A caller  *)
(* builds the conditions of its query nodes, in disjunctive normal form    *)
(* with one condition per property; collect_data cuts, for every label,    *)
(* the space of property values into boxes, with one fresh atom each; and  *)
(* atomize_model answers each node with a set of atoms.  After clear the   *)
(* pipeline can be used for another query.                                 *)
(***************************************************************************)
EXTENDS DataPredicates, Collections, FiniteSetsExt, TLC

CONSTANTS
    Labels,       \* the labels of the database: all_labels, map, act_universe
    Vars,         \* the property names
    TypeOf,       \* "string" or "double", for each property name
    Written,      \* the conditions a caller may write, for each node and property
    Nodes,        \* the nodes of the query
    NodeLabel,    \* the label a node asks for, or "" for any
    PredLabel,    \* the label its conditions carry, or ""
    Disjuncts,    \* how many conjunctions a node has
    MaxConditions \* bound on the conditions written, over all queries

ASSUME AtomisationAssumption ==
    /\ IsFiniteSet(Labels) /\ IsFiniteSet(Vars)
    /\ NodeLabel \in [Nodes -> Labels \cup {""}]
    /\ PredLabel \in [Nodes -> Labels \cup {""}]
    /\ \A n \in Nodes : NodeLabel[n] # "" => PredLabel[n] = NodeLabel[n]
    /\ TypeOf \in [Vars -> {"string", "double"}]
    /\ \A n \in Nodes : \A v \in Vars : Written[n][v] \subseteq Conditions(TypeOf[v])

VARIABLES
    phase,             \* "building", "refused", "collected", "atomised", "thrown"
    room,              \* how many conditions may still be written
    model,             \* node -> conjunction -> property -> condition
    asked,             \* the same, with the conditions the caller conjoined
    trees,             \* label -> property -> elementary intervals
    interval_map,      \* label -> its boxes, in order
    clause_to_atomization_map,   \* <<label, box number>> -> atom
    act_atoms, atom_universe, data_query_atoms,
    atom_to_conjunctedPredicates,
    result             \* node -> its atoms

query == <<model, asked>>
tables == <<trees, interval_map, clause_to_atomization_map, act_atoms, atom_universe>>
lasting == <<data_query_atoms, atom_to_conjunctedPredicates>>
vars == <<phase, room, query, tables, lasting, result>>

Conjunctions(n) == 1..Disjuncts[n]
NoConditions == [n \in Nodes |-> [c \in Conjunctions(n) |-> <<>>]]

Init == /\ phase = "building"
        /\ room = MaxConditions
        /\ model = NoConditions
        /\ asked = NoConditions
        /\ trees = <<>>
        /\ interval_map = <<>>
        /\ clause_to_atomization_map = <<>>
        /\ act_atoms = {}
        /\ atom_universe = {}
        /\ data_query_atoms = {}
        /\ atom_to_conjunctedPredicates = <<>>
        /\ result = <<>>

-----------------------------------------------------------------------------
(***************************************************************************)
(* The query.  A conjunction holds one condition per property: a caller    *)
(* with a second one conjoins it by intersect_with.                        *)
(***************************************************************************)
\* intersect_with asserts that two equations name the same value.
AssertsHold(p, q) == p.casusu = "EQ" /\ q.casusu = "EQ" => p.value = q.value

addCondition(n, c, v, p) ==
    LET conj == model[n][c]
        outcome == IF v \in DOMAIN conj THEN intersect_with(conj[v], p) ELSE Outcome(TRUE, p)
        sofar == IF v \in DOMAIN conj THEN asked[n][c][v] ELSE {}
    IN  /\ phase = "building"
        /\ room > 0
        /\ v \in DOMAIN conj => AssertsHold(conj[v], p)
        /\ model' = [model EXCEPT ![n][c] = Bind(v, outcome.pred, @)]
        /\ asked' = [asked EXCEPT ![n][c] = Bind(v, sofar \cup {p}, @)]
        /\ phase' = IF outcome.ok THEN "building" ELSE "refused"
        /\ room' = room - 1
        /\ UNCHANGED <<tables, lasting, result>>

\* The disjunction of a node: the conjunctions that have a condition.
Dnf(n) == {conj \in Range(model[n]) : DOMAIN conj # {}}

-----------------------------------------------------------------------------
(***************************************************************************)
(* collect_data_from_declare_disjunctive_model                             *)
(***************************************************************************)
\* The labels a condition of a node is collected for.
CollectedFor(n) == IF PredLabel[n] = "" THEN Labels ELSE {PredLabel[n]}

\* spt_bulk_insertion: the intervals collected for a property of a label.
BulkMap(l, v) ==
    UNION {decompose_single_variable_into_intervals(conj[v]) :
             conj \in {c \in UNION {Dnf(n) : n \in {m \in Nodes : l \in CollectedFor(m)}} :
                         v \in DOMAIN c /\ c[v].casusu # "TTRUE"}}

\* segment_partition_tree: the range of the type, cut where an interval starts
\* and behind where one ends.
Elementary(type, intervals) ==
    LET lo == {Lowest(type)} \cup {i[1] : i \in intervals}
                  \cup {next_of(type, i[2]) : i \in {j \in intervals : j[2] # Highest(type)}}
        cuts == Increasing(lo)
    IN  {<<cuts[k], IF k = Len(cuts) THEN Highest(type) ELSE prev_of(type, cuts[k + 1])>> :
           k \in DOMAIN cuts}

\* findInterval: the elementary intervals that meet a range.
findInterval(tree, lo, hi) == {i \in tree : AtMost(lo, i[2]) /\ AtMost(i[1], hi)}

\* The elements of a set in some order, that of the iteration over a hash table.
Listed(S) ==
    LET left[i \in 1..Cardinality(S)] ==
          IF i = 1 THEN S ELSE LET T == left[i - 1] IN T \ {CHOOSE x \in T : TRUE}
    IN  [i \in 1..Cardinality(S) |-> CHOOSE x \in left[i] : TRUE]

\* The labels that have intervals, and the elementary ones of each property.
Collected == {l \in Labels : \E v \in Vars : BulkMap(l, v) # {}}

Tree(l) == [v \in {w \in Vars : BulkMap(l, w) # {}} |-> Elementary(TypeOf[v], BulkMap(l, v))]

\* cartesian_product: the boxes of a label, one interval per collected property.
Boxes(tree) ==
    Listed({box \in [DOMAIN tree -> UNION Range(tree)] :
              \A v \in DOMAIN tree : box[v] \in tree[v]})

\* fresh_atom_label and a number.
generate_fresh_atom(count) == <<"p", count>>

\* The boxes are numbered label by label.
Numbered(boxes) ==
    LET order == Listed(DOMAIN boxes)
        before[i \in DOMAIN order] ==
          IF i = 1 THEN 0 ELSE before[i - 1] + Len(boxes[order[i - 1]])
        place(l) == CHOOSE i \in DOMAIN order : order[i] = l
    IN  [k \in UNION {{l} \X DOMAIN boxes[l] : l \in DOMAIN boxes} |->
           generate_fresh_atom(before[place(k[1])] + k[2] - 1)]

\* Intervals with their ends in the wrong order are not followed into the library.
collect_data ==
    /\ phase = "building"
    /\ \A n \in Nodes : \A conj \in Dnf(n) : \A v \in DOMAIN conj : ~ IsCritical(conj[v])
    /\ phase' = "collected"
    /\ trees' = [l \in Collected |-> Tree(l)]
    /\ interval_map' = [l \in Collected |-> Boxes(Tree(l))]
    /\ clause_to_atomization_map' = Numbered(interval_map')
    /\ act_atoms' = act_atoms \cup Labels
    /\ atom_universe' = atom_universe \cup Labels \cup Range(clause_to_atomization_map')
    /\ data_query_atoms' = data_query_atoms \cup Range(clause_to_atomization_map')
    /\ UNCHANGED <<room, query, atom_to_conjunctedPredicates, result>>

-----------------------------------------------------------------------------
(***************************************************************************)
(* atomize_model                                                           *)
(***************************************************************************)
atom_decomposition(l) ==
    IF l \notin DOMAIN interval_map THEN {l}
    ELSE {clause_to_atomization_map[<<l, i>>] : i \in DOMAIN interval_map[l]}

\* Mcal: the atoms of the boxes with a given interval.
Mcal(l, v, interval) ==
    {clause_to_atomization_map[<<l, i>>] :
       i \in {j \in DOMAIN interval_map[l] : interval_map[l][j][v] = interval}}

interval_decomposition(l, v, p) ==
    UNION {Mcal(l, v, i) :
             i \in UNION {findInterval(trees[l][v], cp[1], cp[2]) :
                            cp \in decompose_single_variable_into_intervals(p)}}

\* mutant: atomize_conjunction that unites the atoms of its conditions
atomize_conjunctionAsUnion(l, conj) ==
    UNION {interval_decomposition(l, v, asInterval(conj[v])) :
             v \in {w \in DOMAIN conj : conj[w].casusu # "TTRUE"}}

atomize_conjunction(l, conj) ==
    LET tested == {v \in DOMAIN conj : conj[v].casusu # "TTRUE"}
    IN  {atom \in UNION {interval_decomposition(l, v, asInterval(conj[v])) : v \in tested} :
           \A v \in tested : atom \in interval_decomposition(l, v, asInterval(conj[v]))}

atomize_disjunction(n) == UNION {atomize_conjunction(PredLabel[n], conj) : conj \in Dnf(n)}

AtomsOf(n) ==
    LET left == IF NodeLabel[n] = "" THEN UNION {atom_decomposition(l) : l \in Labels}
                ELSE atom_decomposition(NodeLabel[n])
    IN  IF Dnf(n) = {} THEN left ELSE left \cap atomize_disjunction(n)

\* The tables of a condition are looked up under the condition's own label,
\* which they were never filled for when it is empty.
LooksUpNoLabel(n) ==
    PredLabel[n] = "" /\ \E conj \in Dnf(n) : \E v \in DOMAIN conj : conj[v].casusu # "TTRUE"

atomize_model ==
    /\ phase = "collected"
    /\ \A n \in Nodes : ~ LooksUpNoLabel(n)
    /\ phase' = "atomised"
    /\ result' = [n \in Nodes |-> AtomsOf(n)]
    \* emplace: an atom that is already there keeps its conjunction
    /\ atom_to_conjunctedPredicates' =
         Merge(
           atom_to_conjunctedPredicates,
           [atom \in Range(clause_to_atomization_map) |->
              LET k == CHOOSE k \in DOMAIN clause_to_atomization_map :
                          clause_to_atomization_map[k] = atom
              IN  interval_map[k[1]][k[2]]])
    /\ UNCHANGED <<room, query, tables, data_query_atoms>>

\* std::out_of_range leaves atomize_model before any result is handed out.
atomize_throws ==
    /\ phase = "collected"
    /\ \E n \in Nodes : LooksUpNoLabel(n)
    /\ phase' = "thrown"
    /\ UNCHANGED <<room, query, tables, lasting, result>>

clear ==
    /\ phase \in {"atomised", "thrown"}
    /\ phase' = "building"
    /\ model' = NoConditions
    /\ asked' = NoConditions
    /\ trees' = <<>>
    /\ interval_map' = <<>>
    /\ clause_to_atomization_map' = <<>>
    /\ act_atoms' = {}
    /\ atom_universe' = {}
    /\ result' = <<>>
    /\ UNCHANGED <<room, lasting>>

Next == \/ \E n \in Nodes, v \in Vars : \E c \in Conjunctions(n), p \in Written[n][v] :
                addCondition(n, c, v, p)
        \/ collect_data
        \/ atomize_model
        \/ atomize_throws
        \/ clear

Spec == Init /\ [][Next]_vars

-----------------------------------------------------------------------------
(***************************************************************************)
(* Properties.  A written condition admits what its comparison says.       *)
(***************************************************************************)
Admits(conditions, x) == \A p \in conditions : testOverSingleVariable(p, x)

\* Intervals with exceptions are set apart: they do not admit what they print.
Plain(p) == p.exceptions = {}

\* No value lies beyond an end of its type: a comparison that asks for one admits
\* nothing, but as an interval, and in the boxes, it admits the end itself.
Beyond(p) == \/ p.casusu = "LT" /\ p.value = Lowest(p.type)
             \/ p.casusu = "GT" /\ p.value = Highest(p.type)

\* Conjoining conditions one after the other leaves one condition that admits
\* exactly the values all of them admit, whatever the order and however often
\* comparisons and intervals are converted into each other; in particular a
\* conjunction is refused only if no value is left (intersect_with, asInterval).
IntersectionIsConjunction ==
    \A n \in Nodes : \A c \in Conjunctions(n) : \A v \in DOMAIN asked[n][c] :
        Plain(model[n][c][v]) /\ (\A p \in asked[n][c][v] : ~ Beyond(p)) =>
            \A x \in Bounded(TypeOf[v]) :
                testOverSingleVariable(model[n][c][v], x) <=> Admits(asked[n][c][v], x)

\* An object: a value for every property.
Objects == {w \in [Vars -> UNION {Bounded(TypeOf[v]) : v \in Vars}] :
              \A v \in Vars : w[v] \in Bounded(TypeOf[v])}

InBox(w, box) == \A v \in DOMAIN box : AtMost(box[v][1], w[v]) /\ AtMost(w[v], box[v][2])

\* Every object of a label lies in exactly one of its boxes, and no two boxes,
\* of whatever labels, share their atom: what is collected for different nodes
\* and properties is cut into disjoint pieces that leave nothing out.
AtomsPartition ==
    /\ \A l \in DOMAIN interval_map : \A w \in Objects :
          Cardinality({i \in DOMAIN interval_map[l] : InBox(w, interval_map[l][i])}) = 1
    /\ \A j, k \in DOMAIN clause_to_atomization_map :
          clause_to_atomization_map[j] = clause_to_atomization_map[k] => j = k

\* The atoms of an object.
AtomsOfObject(l, w) ==
    IF l \notin DOMAIN interval_map THEN {l}
    ELSE {clause_to_atomization_map[<<l, i>>] :
            i \in {j \in DOMAIN interval_map[l] : InBox(w, interval_map[l][j])}}

\* What a node asks for: one of its conjunctions, of the label it names.
AsksFor(n, l, w) ==
    /\ NodeLabel[n] \in {"", l}
    /\ Dnf(n) # {} =>
         \E c \in Conjunctions(n) :
            /\ DOMAIN asked[n][c] # {}
            /\ PredLabel[n] \in {"", l}
            /\ \A v \in DOMAIN asked[n][c] : Admits(asked[n][c][v], w[v])

\* A conjunction of nothing but TTRUE is answered with no atom at all.
Vacuous(conj) == \A v \in DOMAIN conj : conj[v].casusu = "TTRUE"

AsksBeyond(n) ==
    \E c \in Conjunctions(n) : \E v \in DOMAIN asked[n][c] : \E p \in asked[n][c][v] : Beyond(p)

Inequation(conj) == \E v \in DOMAIN conj : conj[v].casusu = "NEQ" \/ ~ Plain(conj[v])

\* What two inequations leave: an interval whose upper bound was never set.
NeverBounded(p) == p.casusu = "INTERVAL" /\ p.exceptions # {} /\ p.upper = <<>>

\* No match is lost: the atom of every object that a node asks for is among the
\* atoms of the node, although the boxes were cut by the conditions of all
\* nodes together and conditions were converted on the way.  Two inequations of
\* one property are set apart.
NoMatchIsLost ==
    phase = "atomised" =>
        \A n \in {m \in Nodes : \A conj \in Dnf(m) :
                                 ~ Vacuous(conj) /\ \A v \in DOMAIN conj : ~ NeverBounded(conj[v])} :
            \A l \in Labels : \A w \in Objects :
                AsksFor(n, l, w) => AtomsOfObject(l, w) \subseteq result[n]

\* No label is called like an atom, which nothing tests.
LabelsAreNoAtoms == \A l \in Labels : l \notin {"p"} \X Nat

\* And nothing else is among them, inequations, values beyond an end and labels
\* that are called like an atom apart.
AtomisationIsExact ==
    phase = "atomised" /\ LabelsAreNoAtoms =>
        \A n \in {m \in Nodes : /\ ~ AsksBeyond(m)
                              /\ \A conj \in Dnf(m) : ~ Vacuous(conj) /\ ~ Inequation(conj)} :
            \A l \in Labels : \A w \in Objects :
                AtomsOfObject(l, w) \cap result[n] # {} => AsksFor(n, l, w)

=============================================================================
