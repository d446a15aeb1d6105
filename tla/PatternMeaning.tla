---------------------------- MODULE PatternMeaning ----------------------------
(***************************************************************************)
(* What the matching of a query promises: each pattern is answered with    *)
(* its matches, each as often as there are edges to choose for it, and a   *)
(* pattern that requires no edge is refused.  Answers are flat: a nested   *)
(* match stands for the combinations of the rows in it.                    *)
(*                                                                         *)
(* The promise is for patterns whose optional edges start from required    *)
(* variables and bind variables of their own, and whose grouped variables  *)
(* occur in no other edge (Stated); of others nothing is promised.         *)
(***************************************************************************)
EXTENDS NestedTables

VARIABLES db, vl,     \* the database and the patterns
          answered,   \* how many patterns are answered
          answers,    \* the answers to them: bags of assignments
          refused

vars == <<db, vl, answered, answers, refused>>

\* A leg: an edge of the pattern with one of the variables at its other end.
LegsTo(l) == {[edge |-> l.edge, outgoing |-> l.outgoing, entry |-> l.entry, other |-> x,
               grouped |-> l.edge.forall /\ l.node.vec] : x \in {l.node.var[k] : k \in DOMAIN l.node.var}}
Legs(p) ==
    UNION {LegsTo([edge |-> o.edge, node |-> o.node, outgoing |-> TRUE, entry |-> p.var]) : o \in Range(p.out)}
    \cup UNION {LegsTo([edge |-> i.edge, node |-> i.node, outgoing |-> FALSE, entry |-> p.var]) : i \in Range(p.in)}
    \cup UNION {LegsTo(j) : j \in Range(p.join_edges)}
Required(p) == {l \in Legs(p) : ~ l.edge.question_mark}
Optional(p) == Legs(p) \ Required(p)

Stated(p) ==
    /\ \A l \in Legs(p) : l.grouped \/ l \in Optional(p) =>
          \A k \in Legs(p) \ {l} : l.other \notin {p.var, k.entry, k.other}
    /\ \A l \in Optional(p) : l.entry \in {p.var} \cup {k.other : k \in Required(p)}
    /\ p.vec => \A i \in Range(p.in) : i.edge.forall /\ ~ i.edge.question_mark /\ ~ i.node.vec

\* The variables that a leg binds, and to what an edge of the database binds them.
EdgeVars(l) == IF l.edge.var = "" THEN {} ELSE {l.edge.var, l.edge.var \o "_label"}
Binding(l, e) ==
    "graph" :> e.graph
    @@ l.entry :> (IF l.outgoing THEN e.src ELSE e.dst)
    @@ l.other :> (IF l.outgoing THEN e.dst ELSE e.src)
    @@ [c \in EdgeVars(l) |-> IF c = l.edge.var THEN e.id ELSE e.label]

Fits(l, e) == l.edge.type = <<>> \/ e.label \in Range(l.edge.type)

Merged(rows) == [c \in UNION {DOMAIN r : r \in rows} |-> (CHOOSE r \in rows : c \in DOMAIN r)[c]]

\* The ways to choose an edge for every required leg, and what they bind.
Selections(p) ==
    {c \in [Required(p) -> db] :
       /\ \A l \in Required(p) : Fits(l, c[l])
       /\ \A l, k \in Required(p) : Agree(Binding(l, c[l]), Binding(k, c[k]))}
Bound(c) == Merged({Binding(l, c[l]) : l \in DOMAIN c})

\* An optional leg is extended by each edge that agrees with the match, or by no
\* edge if there is none.
Ways(l, row) ==
    LET ends == {e \in db : Fits(l, e) /\ Agree(Binding(l, e), row)}
    IN  IF ends = {} THEN {{}} ELSE {{e} : e \in ends}
Extensions(p, row) ==
    {x \in [Optional(p) -> UNION {Ways(l, row) : l \in Optional(p)}] :
       \A l \in Optional(p) : x[l] \in Ways(l, row)}
Extended(row, x) == Merged({row} \cup UNION {{Binding(l, e) : e \in x[l]} : l \in DOMAIN x})

\* The matches of a pattern, each as often as it can be chosen.
Matches(p) ==
    LET chosen == UNION {{Extended(Bound(c), x) : x \in Extensions(p, Bound(c))} : c \in Selections(p)}
        count(row) == MapThenSumSet(LAMBDA c : Cardinality({x \in Extensions(p, Bound(c)) :
                                                              Extended(Bound(c), x) = row}), Selections(p))
    IN  [row \in chosen |-> count(row)]

(***************************************************************************)
(* A grouped pattern also needs, for each match, a class of objects that   *)
(* the hooks relate and that the entry variable takes in full in the       *)
(* matches of the same group; and inside a group, no two variables for     *)
(* nodes, or for edges, are bound alike.                                   *)
(***************************************************************************)
Keys(p) == {"graph"} \cup UNION {{i.node.var[k] : k \in DOMAIN i.node.var} :
                                    i \in {j \in Range(p.in) : j.edge.forall}}
Related(p, graph) ==
    Classes({<<e.src, e.dst>> :
               e \in {d \in db : d.graph = graph /\ \E h \in Range(p.hook) :
                                    ~ h.question_mark /\ Fits([edge |-> h], d)}})

Whole(p, rows, row) ==
    \E s \in Related(p, row["graph"]) :
        s \subseteq {r[p.var] : r \in {q \in rows : Restrict(q, Keys(p)) = Restrict(row, Keys(p))}}
            /\ row[p.var] \in s

Apart(names, row) == \A c, d \in names \cap DOMAIN row : row[c] = row[d] => c = d
NodesAndEdgesApart(p, row) ==
    /\ Apart(({p.var} \cup {l.other : l \in Legs(p)}) \ Keys(p), row)
    /\ Apart({l.edge.var : l \in Legs(p)} \ {""}, row)

Meaning(p) ==
    LET all == Matches(p)
        kept == {row \in DOMAIN all : /\ p.hook # <<>> => Whole(p, DOMAIN all, row)
                                      /\ NodesAndEdgesApart(p, row)}
    IN  IF p.vec THEN Restrict(all, kept) ELSE all

-----------------------------------------------------------------------------
Init == answered = 0 /\ answers = <<>> /\ ~ refused

answer == /\ answered < Len(vl)
          /\ answered' = answered + 1
          /\ LET p == vl[answered + 1] IN
             IF Stated(p) THEN answers' = Append(answers, Meaning(p))
             ELSE SubSeq(answers', 1, answered) = answers
          /\ UNCHANGED <<db, vl, refused>>

refuse == /\ answered < Len(vl)
          /\ refused'
          /\ LET p == vl[answered + 1] IN Stated(p) => Required(p) = {}
          /\ UNCHANGED <<db, vl, answered, answers>>

Next == ~ refused /\ (answer \/ refuse)

\* Every pattern is answered at last, or one is refused.
AnswersFinally == <>(answered = Len(vl) \/ refused)

Spec == Init /\ [][Next]_vars /\ AnswersFinally

=============================================================================
