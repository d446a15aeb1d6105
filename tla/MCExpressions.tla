---------------------------- MODULE MCExpressions ----------------------------
(* Instances for Expressions: two graphs; a pattern p with a flat, an       *)
(* optional and a nested column, and a pattern q with a flat one.           *)
EXTENDS Expressions

Id(n) == [k |-> "id", n |-> n]
Null == [k |-> "null"]
Rows(schema, rows) == [k |-> "nested", schema |-> schema, rows |-> rows]

MCLoaded ==
  (0 :> [ell |-> <<"verb">>, xi |-> <<"be">>, content |-> [lemma |-> String("be"), rank |-> Double(2, 1)], phi |-> <<>>]) @@
  (1 :> [ell |-> <<"noun">>, xi |-> <<"ann">>, content |-> <<>>, phi |-> <<>>]) @@
  (2 :> [ell |-> <<"verb">>, xi |-> <<"do">>, content |-> [lemma |-> String("do"), rank |-> Double(3, 2)],
         phi |-> [dobj |-> <<[id |-> 1, score |-> 1]>>]]) @@
  (3 :> [ell |-> <<"noun", "root">>, xi |-> <<"bob">>, content |-> <<>>, phi |-> <<>>])

Schema == <<"V", "S", "E", "*">>
TableP == [schema |-> Schema, rows |->
  (2 :> << <<Id(2), Id(1), Id(2), Rows(<<"K">>, << <<Id(1)>>, <<Id(3)>> >>)>>,
           <<Id(2), Null,  Id(1), Rows(<<"K">>, << <<Id(3)>>, <<Null>> >>)>>,
           <<Id(2), Id(0), Null,  Rows(<<"K">>, << <<Id(0)>>, <<Id(1)>> >>)>> >>) @@
  (0 :> << <<Id(0), Id(0), Id(0), Rows(<<"K">>, << <<Id(1)>>, <<Id(0)>>, <<Id(3)>> >>)>> >>)]
TableQ == [schema |-> <<"W">>, rows |-> (2 :> << <<Id(2)>> >>) @@ (1 :> << <<Id(1)>> >>)]
MCTables == << [p |-> TableP, q |-> TableQ], [p |-> [TableP EXCEPT !.rows = 2 :> @[2]]] >>
At(p, x, r) == [p |-> p, x |-> x, r |-> r]
MCOrder == << <<At("q", 1, 1), At("p", 2, 1), At("p", 2, 2), At("p", 2, 3), At("q", 2, 1), At("p", 0, 1)>>,
              <<At("p", 2, 2)>> >>
Edge(label, src, dst) == [label |-> label, src |-> src, dst |-> dst]
MCEdges == (0 :> Edge("nsubj", 0, 1)) @@ (1 :> Edge("nsubj", 2, 3)) @@ (2 :> Edge("aux", 2, 1))

Var(name) == [t |-> "VARIABLE", name |-> name]
Ell(k, x) == [t |-> "ELL", off |-> k, of |-> Var(x)]
EdgeOf(kind, x) == [t |-> kind, of |-> Var(x)]
Xi(k, x) == [t |-> "XI", off |-> k, of |-> Var(x)]
Prop(key, x) == [t |-> "PROP", key |-> Var(key), of |-> Var(x)]
Eq(l, text) == [t |-> "EQ", l |-> l, r |-> Var(text)]
Neq(l, text) == [t |-> "NEQ", l |-> l, r |-> Var(text)]
Both(s, t) == [t |-> "AND", l |-> s, r |-> t]
Either(s, t) == [t |-> "OR", l |-> s, r |-> t]
Always == [t |-> "TRUE"]
Matched(x, p, y) == [t |-> "MATCHED", var |-> x, pattern |-> p, other |-> y]
Unmatched(x, p, y) == [Matched(x, p, y) EXCEPT !.t = "UNMATCHED"]
Ifte(name, c, x, y) == [t |-> "IFTE", name |-> name, cond |-> c, then |-> x, else |-> y]
Scripted_(tree) == [t |-> "SCRIPT", tree |-> tree]

S(text) == Leaf("atom_string", text)
EqScript(l, text) == [t |-> "EQ", l |-> l, r |-> Scripted_(S(text))]
N(n) == NumberLeaf(n, 0)
X == Leaf("variable", "x")
Function(body) == [r |-> "function", s |-> "x", k |-> <<body>>]
T1(rule, a) == Tree(rule, <<a>>)
T2(rule, a, b) == Tree(rule, <<a, b>>)
Value0(x) == T2("at", T1("xi", OfColumn(x)), N(0))

SomeScripts ==
  {T2("concat", Value0("V"), S(" ")), T1("ell", OfColumn("S")),
   T2("map", Function(T2("concat", X, S("ab"))), T1("xi", OfColumn("V"))),
   T2("at", T2("at", T1("obj", OfColumn("V")), S("@pi")), S("lemma")),
   T1("xi", T2("at", OfColumn("*.K"), N(0))),
   T2("select", Function(T2("neq", X, S("ann"))), Tree("append", <<T1("xi", OfColumn("S")), T1("ell", OfColumn("S"))>>)),
   Tree("lfold", <<Function(T2("concat", T2("at", X, N(0)), T2("at", X, N(1)))), S(""), T1("ell", N(3))>>),
   Tree("ifte", <<T2("contains", S("verb"), T1("ell", OfColumn("V"))), Value0("V"), S("no")>>),
   T2("eq", T1("typeof", OfColumn("V")), Tree("type_int", <<>>)),
   T2("at", T2("phi", OfColumn("V"), S("dobj")), N(0)), T1("varphi", OfColumn("V")),
   T1("floor", T2("div", N(7), N(2))), T2("mod", T2("sub", N(1), OfColumn("V")), N(2)),
   Tree("put", <<T1("xi", OfColumn("V")), N(0), S("x")>>),
   T2("assign", Leaf("variable", "y"), OfColumn("V"))}
Text_(e) == [cast |-> "STRING", e |-> e]
Q == [where |-> Eq(Prop("lemma", "W"), "do"), does |-> <<Text_(Scripted_(T2("concat", OfColumn("W"), S(""))))>>]
Program(where, does) == [p |-> [where |-> where, does |-> does], q |-> Q]
Branches ==
  {Ifte("K", Eq(Ell(0, "K"), "noun"), Xi(0, "K"), Ell(0, "K")),
   Ifte("K", Either(Eq(Xi(0, "K"), "ann"), Eq(Ell(1, "K"), "root")), Ell(0, "K"), Xi(0, "K")),
   Ifte("K", Both(Neq(Ell(0, "K"), "verb"), Neq(Xi(0, "K"), "bob")), Ell(1, "K"), Xi(0, "K"))}
Wheres ==
  {Eq(Ell(0, "V"), "verb"), Eq(Xi(0, "S"), "ann"), Eq(Prop("lemma", "V"), "do"), Eq(Prop("lemma", "S"), "be"),
   Eq(Prop("rank", "V"), "1.500000"), Eq(Prop("rank", "V"), "2.000000"), Eq(Prop("rank", "S"), "2.000000"),
   EqScript(Prop("lemma", "S"), ""), EqScript(Prop("rank", "S"), ""), EqScript(Ell(1, "S"), ""), Eq(Ell(1, "S"), "root"),
   Matched("V", "q", "W"), Unmatched("S", "q", "W"), Unmatched("V", "z", "W"),
   [t |-> "SCRIPT", tree |-> T2("eq", Value0("V"), S("do"))],
   [t |-> "LEQ", l |-> EdgeOf("EDGE_LABEL", "E"), r |-> Var("aux")],
   [t |-> "LT", l |-> EdgeOf("EDGE_SRC", "E"), r |-> EdgeOf("EDGE_DST", "E")],
   [t |-> "FILL", l |-> Eq(Ell(0, "K"), "noun")], Matched("K", "q", "K"), Unmatched("K", "q", "W")}
MCPrograms ==
  {Program(Always, <<Text_(Scripted_(s)), Text_(Scripted_(T2("concat", Value0("V"), S("ab"))))>>) : s \in SomeScripts}
  \cup {Program(Always, <<Text_(c)>>) : c \in Branches}
  \cup {Program(Always, <<Text_(Xi(0, "h")), Text_(EdgeOf("EDGE_LABEL", "E"))>>),
        Program(Always, <<[cast |-> "CONTENT", e |-> [t |-> "CONTENT", key |-> Var("dobj"), of |-> Var("V")]],
                          [cast |-> "CONTENT", e |-> Var("K")]>>)}
  \cup {Program(w, <<>>) : w \in Wheres}
MCColumnPrograms == {Program(Always, <<Text_(Scripted_(T2("eq", OfColumn("V"), OfColumn("S"))))>>)}

MCDeltas ==
  LET none == [repl |-> <<>>, removed |-> {}, fresh |-> {}, plus |-> <<>>, inserted |-> <<>>]
      named(l) == [NoObject EXCEPT !.ell = <<l>>, !.xi = <<"new">>, !.content = [lemma |-> String("be"), rank |-> String("2.000000")]]
  IN {[none EXCEPT !.repl = 1 :> 3],
      [none EXCEPT !.plus = 0 :> named("noun")],
      [none EXCEPT !.repl = 1 :> 4 @@ 2 :> 4, !.plus = 4 :> named("verb"), !.fresh = {4}, !.inserted = [h |-> <<4>>]],
      [none EXCEPT !.removed = {0}],
      [none EXCEPT !.removed = {0, 1}, !.repl = 1 :> 3]}
MCParsed == <<>>
MCEdgeVars == {"E"}
=============================================================================
