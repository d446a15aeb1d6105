------------------------------- MODULE Script -------------------------------
(* The evaluation of the script language (ScriptAST.cpp, Funzione.cpp).     *)
(* Evaluating an expression e in a state st gives [v, st]: the node it      *)
(* evaluates to and the state afterwards. A state has                       *)
(*   env     name |-> node, the one environment of the compiler             *)
(*   ix      pattern |-> indexer of its rows, and cur, the current pattern  *)
(*   casts   the types remembered on nodes that are shared                  *)
(*   edges   the pairs of texts of types declared subtypes                  *)
(*   delta   the updates seen through ObjectViews                           *)
(*   raised  the exception or crash that ended the evaluation, or ""        *)
(*   fuel    how many more calls of run may be nested: an evaluation that   *)
(*           nests more of them is taken for one that overflows the stack   *)
(* The texts that Eval and the inferred types of objects parse are the      *)
(* domain of Parsed. The trigonometric functions and the logarithm are left *)
(* out, and so is the type a node of the script's own text remembers.       *)
EXTENDS ScriptValues, ObjectViews, Functions

CONSTANTS
  Parsed,      \* text |-> the expression it is parsed to
  run(_, _)    \* the evaluation of an operand: Run below, for the nodes call one another

Res(v, st) == [v |-> v, st |-> st]
Fails(st, why) == Res(NullE, [st EXCEPT !.raised = IF @ = "" THEN why ELSE @])
Then(r, F(_, _)) == IF r.st.raised # "" THEN r ELSE F(r.v, r.st)
FoldOver(F(_, _, _), r, xs) ==
  FoldLeft(LAMBDA acc, x : Then(acc, LAMBDA v, s : F(v, x, s)), r, xs)

\* The node behind a reference to the shared node of an indexer.
seen(v, st) == IF v.t = "Cell" THEN st.ix[v.p].shared ELSE v

RECURSIVE Reduced(_, _, _), Whole(_, _), Compare(_, _, _),
          Lexicographic(_, _, _), Infer(_, _), upTypeObjX(_, _), subTyping(_, _, _)

\* The text of a node that may hold references.
RECURSIVE Solid(_, _)
Solid(v, st) ==
  LET w == seen(v, st)
  IN IF "a" \in DOMAIN w THEN [w EXCEPT !.a = [i \in DOMAIN @ |-> Solid(@[i], st)]]
     ELSE IF "m" \in DOMAIN w THEN [w EXCEPT !.m = [k \in DOMAIN @ |-> Solid(@[k], st)]]
     ELSE w
Text(v, st) == toString(Solid(v, st), FALSE, FALSE)
PlainText(v, st) == toString(Solid(v, st), FALSE, TRUE)

-----------------------------------------------------------------------------
(* Conversions: what is not a value yet is run until it is one.            *)
Reduced(e, stop, st) ==
  IF seen(e, st).t \in stop THEN Res(e, st)
  ELSE Then(run(e, st), LAMBDA v, s : Reduced(v, stop, s))

Truth(e, st) == Then(Reduced(e, Immediate \cup {"LABELT"}, st),
                     LAMBDA v, s : Res(toBoolean(seen(v, s)), s))
Whole(e, st) == Then(Reduced(e, Immediate \cup {"ObjX"}, st),
  LAMBDA v, s : IF v.t = "ObjX" THEN Whole(v.a[1], s) ELSE Res(toInteger(seen(v, s)), s))
Number(e, st) == Then(Reduced(e, Immediate, st),
                      LAMBDA v, s : Res(toDouble(seen(v, s)), s))

toList(v, st) ==
  LET w == seen(v, st)
  IN CASE w.t \in {"Boolean", "Integer", "Double"} -> <<v>>
       [] w.t = "String" -> [i \in 1..Len(w.s) |-> String(Char(w.s, i))]
       [] w.t \in {"Tuple", "TupleT"} ->
            [i \in DOMAIN SortedKeys(w.m) |->
               Array(<<String(SortedKeys(w.m)[i]), w.m[SortedKeys(w.m)[i]]>>)]
       [] w.t \in {"Array", "Function"} -> w.a
       [] OTHER -> <<>>
Listed(e, st) == Then(Reduced(e, Immediate, st), LAMBDA v, s : Res(toList(v, s), s))

\* The characters of a text come out of an address past the empty text.
toMap(v, st) ==
  LET w == seen(v, st)
  IN CASE w.t \in {"Boolean", "Integer", "Double"} -> Res("0" :> v, st)
       [] w.t \in {"Tuple", "TupleT"} -> Res(w.m, st)
       [] w.t = "Array" -> Res([k \in {ToString(i - 1) : i \in DOMAIN w.a} |->
            w.a[CHOOSE i \in DOMAIN w.a : ToString(i - 1) = k]], st)
       [] w.t = "Function" -> Fails(st, "cannot convert a function")
       [] w.t = "String" /\ w.s # "" -> Fails(st, "undefined")
       [] OTHER -> Res(<<>>, st)

\* The names of the indexer come first, then the environment.
variableEval(e, st) ==
  LET name == e.s
      known == st.cur \in DOMAIN st.ix /\ hasKey(st.ix[st.cur], name)
      g == get(st.ix[st.cur], name, [t |-> "Cell", p |-> st.cur])
  IN IF known THEN IF g.ok THEN Res(g.v, [st EXCEPT !.ix[st.cur] = g.ix])
                   ELSE Fails(st, "bad_variant_access")
     ELSE IF e.bound /\ name \in DOMAIN st.env THEN Res(st.env[name], st)
     ELSE Res(NullE, st)

\* mutant: the names bound during a call are not taken back
applyLeaking(f, x, st) ==
  Then(run(x, st), LAMBDA v, s :
    FoldOver(LAMBDA u, y, s2 : run(y, s2),
             Res(Array(<<>>), [s EXCEPT !.env = (f.p :> v) @@ @]), f.a))

\* A call binds its parameter in the one environment. An outer variable of
\* that name keeps the argument, for it is overwritten before it is saved;
\* any other name bound during the call is erased afterwards.
apply(f, x, st) ==
  Then(run(x, st), LAMBDA v, s :
    Then(FoldOver(LAMBDA u, y, s2 : run(y, s2),
                  Res(Array(<<>>), [s EXCEPT !.env = (f.p :> v) @@ @]), f.a),
         LAMBDA u, s3 :
           LET env == IF f.p \in DOMAIN s.env THEN (f.p :> v) @@ s3.env ELSE s3.env
               kept == {n \in DOMAIN st.env \cap DOMAIN env : n # f.p \/ n \in DOMAIN s.env}
           IN Res(u, [s3 EXCEPT !.env = [n \in kept |-> env[n]]])))

\* Everything is a function: kind is what f was when it was made one.
Callable == Immediate \cup {"BooleanT", "IntegerT", "DoubleT"}
Applied(kind, f, x, st) ==
  LET w == seen(f, st)
  IN CASE kind = "String" -> Then(Whole(x, st), LAMBDA i, s :
            Res(String(IF i \in 0..(Len(w.s) - 1) THEN Char(w.s, i + 1) ELSE ""), s))
       [] kind = "Array" -> Then(Whole(x, st), LAMBDA i, s :
            Res(IF i \in 0..(Len(w.a) - 1) THEN w.a[i + 1] ELSE Array(<<>>), s))
       [] kind = "Function" -> apply(w, x, st)
       [] kind \in {"Tuple", "TupleT"} ->
            Res(IF Text(x, st) \in DOMAIN w.m THEN w.m[Text(x, st)]
                ELSE IF kind = "Tuple" THEN NullE ELSE Type("StarT"), st)
       [] kind = "NullE" -> Res(String(""), st)
       [] OTHER -> Res(f, st)

-----------------------------------------------------------------------------
(* The order of the nodes (javaComparator), by its sign.                    *)
Lexicographic(xs, ys, st) ==
  IF xs = <<>> \/ ys = <<>> THEN Res(Sign(Len(xs) - Len(ys)), st)
  ELSE Then(Compare(Head(xs), Head(ys), st), LAMBDA c, s :
         IF c # 0 THEN Res(c, s) ELSE Lexicographic(Tail(xs), Tail(ys), s))

Pairs(m) == [i \in DOMAIN SortedKeys(m) |->
               [t |-> "Pair", k |-> SortedKeys(m)[i], v |-> m[SortedKeys(m)[i]]]]

\* The entries of tuples are compared with a "less than" whose truth counts
\* as "greater than"; a missing body of a function is dereferenced.
Compare(x, y, st) ==
  LET l == seen(x, st)
      r == seen(y, st)
  IN IF l.t = "Pair" THEN
       IF l.k # r.k THEN Res(IF CompareText(l.k, r.k) < 0 THEN 1 ELSE 0, st)
       ELSE Then(Compare(l.v, r.v, st), LAMBDA c, s : Res(IF c # 0 THEN 1 ELSE 0, s))
     ELSE IF l.t # r.t THEN Res(Sign(Rank(l.t) - Rank(r.t)), st)
     ELSE CASE l.t \in {"BooleanT", "DoubleT", "IntegerT", "AnyT", "StringT", "StarT"} -> Res(0, st)
       [] l.t = "Boolean" -> Res(Size(l) - Size(r), st)
       [] l.t = "Integer" -> Res(Sign(l.n - r.n), st)
       [] l.t = "Double" -> Res(Sign(Minus(l, r).n), st)
       [] l.t \in {"String", "LABELT"} -> Res(CompareText(l.s, r.s), st)
       [] l.t = "Variable" -> Then(variableEval(l, st), LAMBDA v, s :
            Then(variableEval(r, s), LAMBDA w, s2 : Compare(v, w, s2)))
       [] l.t \in {"Array", "ObjTT", "Function"} -> Lexicographic(l.a, r.a, st)
       [] l.t \in {"Tuple", "TupleT"} -> Lexicographic(Pairs(l.m), Pairs(r.m), st)
       [] OTHER -> Fails(st, "segmentation fault")

-----------------------------------------------------------------------------
(* The operators, by family; each gives what run returns for one of its    *)
(* expressions. Two operands are evaluated from left to right.              *)
Two(F(_, _), e, st, G(_, _, _)) ==
  Then(F(e.a[1], st), LAMBDA x, s : Then(F(e.a[2], s), LAMBDA y, s2 : G(x, y, s2)))

Comparisons == [EqE |-> {0}, NeqE |-> {-1, 1}, GtE |-> {1}, LtE |-> {-1},
                GEqE |-> {0, 1}, LEqE |-> {-1, 0}]
Comparison(e, st) == Two(run, e, st, LAMBDA x, y, s :
  Then(Compare(x, y, s), LAMBDA c, s2 : Res(Boolean(c \in Comparisons[e.t]), s2)))

\* An implication whose condition fails evaluates to its condition.
Logics == {"AndE", "OrE", "NotE", "ImplyE", "IfteE", "AssertE"}
Logic(e, st) ==
  Then(Truth(e.a[1], st), LAMBDA b, s :
    CASE e.t = "NotE" -> Res(Boolean(~b), s)
      [] e.t = "AssertE" -> IF b THEN Res(Boolean(TRUE), s) ELSE Fails(s, "condition does not hold")
      [] e.t = "ImplyE" -> run(IF b THEN e.a[2] ELSE e.a[1], s)
      [] e.t = "IfteE" -> run(IF b THEN e.a[2] ELSE e.a[3], s)
      [] b = (e.t = "OrE") -> Res(Boolean(b), s)
      [] OTHER -> Then(Truth(e.a[2], s), LAMBDA c, s2 : Res(Boolean(c), s2)))

\* Doubles are computed only where an operand is written as one.
Arithmetics == {"AddE", "MinusE", "MulE", "DivE"}
Arithmetic(e, st) ==
  IF isDouble(e.a[1]) \/ isDouble(e.a[2])
  THEN Two(Number, e, st, LAMBDA x, y, s :
         CASE e.t = "AddE" -> Res(Plus(x, y), s)
           [] e.t = "MinusE" -> Res(Minus(x, y), s)
           [] e.t = "MulE" -> Res(Times(x, y), s)
           [] OTHER -> IF y.n = 0 THEN Fails(s, "infinite") ELSE Res(Over(x, y), s))
  ELSE Two(Whole, e, st, LAMBDA x, y, s :
         CASE e.t = "AddE" -> Res(Integer(x + y), s)
           [] e.t = "MinusE" -> Res(Integer(x - y), s)
           [] e.t = "MulE" -> Res(Integer(x * y), s)
           [] OTHER -> IF y = 0 THEN Fails(s, "division by zero")
                       ELSE Res(Integer(Quotient(x, y)), s))

\* With the exponent 2 the base and the exponent are swapped.
Powers == {"ModE", "AbsE", "FloorE", "CeilE", "ExpE"}
Power(e, st) ==
  CASE e.t = "ModE" -> Two(Whole, e, st, LAMBDA x, y, s :
         IF y = 0 THEN Fails(s, "division by zero") ELSE Res(Integer(Remainder(x, y)), s))
    [] e.t = "AbsE" /\ ~isDouble(e.a[1]) ->
         Then(Whole(e.a[1], st), LAMBDA x, s : Res(Integer(x * Sign(x)), s))
    [] e.t = "ExpE" -> Two(Number, e, st, LAMBDA x, y, s :
         IF y = Double(2, 1) THEN
           IF x.d = 1 /\ x.n >= 0 THEN Res(Double(2 ^ x.n, 1), s) ELSE Fails(s, "irrational")
         ELSE IF y.d = 1 /\ y.n >= 0 THEN Res(Double(x.n ^ y.n, x.d ^ y.n), s)
         ELSE Fails(s, "irrational"))
    [] OTHER -> Then(Number(e.a[1], st), LAMBDA x, s :
         Res(CASE e.t = "AbsE" -> Double(x.n * Sign(x.n), x.d)
               [] e.t = "FloorE" -> Double(x.n \div x.d, 1)
               [] OTHER -> Double(-((-x.n) \div x.d), 1), s))

\* Application, in its three notations, and the folds, whose first value is
\* handed over as it is written.
Applications == {"ApplyE", "AtE", "InvokeE", "LFoldE", "RFoldE"}
Application(e, st) ==
  IF e.t \in {"LFoldE", "RFoldE"} THEN
    Then(Reduced(e.a[1], Callable, st), LAMBDA f, s :
      Then(Listed(e.a[3], s), LAMBDA xs, s2 :
        FoldOver(LAMBDA v, x, s3 : Applied(seen(f, s).t, f,
                   Array(IF e.t = "LFoldE" THEN <<v, x>> ELSE <<x, v>>), s3),
                 Res(e.a[2], s2), IF e.t = "LFoldE" THEN xs ELSE Reverse(xs))))
  ELSE Then(run(e.a[1], st), LAMBDA g, s : Then(Reduced(g, Callable, s), LAMBDA f, s2 :
         Then(run(e.a[2], s2), LAMBDA x, s3 : Applied(seen(f, s2).t, f, x, s3))))

IsTuple(v) == v.t \in {"Tuple", "TupleT"}
Entry(k, v) == Tuple([x \in {"key", "value"} |-> IF x = "key" THEN String(k) ELSE v])

\* filter and map over a tuple see its entries as [key, value].
Traversals == {"FilterE", "MapE"}
Traversal(e, st) ==
  Then(run(e.a[2], st), LAMBDA c, s : Then(Reduced(e.a[1], Callable, s), LAMBDA f, s2 :
    LET call(x, s3) == Applied(seen(f, s2).t, f, x, s3)
        tuple == seen(c, s)
        keep(xs, x, s3) == Then(call(x, s3), LAMBDA b, s4 : Then(Truth(b, s4),
                             LAMBDA y, s5 : Res(IF y THEN Append(xs, x) ELSE xs, s5)))
        turn(xs, x, s3) == Then(call(x, s3), LAMBDA v, s4 : Res(Append(xs, v), s4))
        keepEntry(m, k, s3) == Then(call(Entry(k, tuple.m[k]), s3), LAMBDA b, s4 :
          Then(Truth(b, s4), LAMBDA y, s5 : Res(IF y THEN (k :> tuple.m[k]) @@ m ELSE m, s5)))
        turnEntry(m, k, s3) == Then(call(Entry(k, tuple.m[k]), s3), LAMBDA b, s4 :
          Then(Reduced(b, Immediate, s4), LAMBDA v, s5 : Then(toMap(v, s5), LAMBDA r, s6 :
            IF {"key", "value"} \subseteq DOMAIN r
            THEN Res((Text(r.key, s6) :> r.value) @@ m, s6)
            ELSE Fails(s6, "key and value expected"))))
    IN IF IsTuple(tuple) THEN
         Then(IF e.t = "FilterE" THEN FoldOver(keepEntry, Res(<<>>, s2), SortedKeys(tuple.m))
                                 ELSE FoldOver(turnEntry, Res(<<>>, s2), SortedKeys(tuple.m)),
              LAMBDA m, s3 : Res([t |-> tuple.t, m |-> m], s3))
       ELSE Then(Listed(IF e.t = "FilterE" THEN e.a[2] ELSE c, s2), LAMBDA xs, s3 :
         Then(IF e.t = "FilterE" THEN FoldOver(keep, Res(<<>>, s3), xs)
                                 ELSE FoldOver(turn, Res(<<>>, s3), xs),
              LAMBDA ys, s4 : Res(Array(ys), s4)))))

-----------------------------------------------------------------------------
\* Projecting a list gives the whole list back.
ProjectE(e, st) ==
  Then(run(e.a[1], st), LAMBDA c, s : Then(Listed(e.a[2], s), LAMBDA ks, s2 :
    LET w == seen(c, s2)
        chosen == {Text(ks[i], s2) : i \in DOMAIN ks}
        pick(text, k, s3) == Then(Whole(k, s3), LAMBDA i, s4 :
          Res(IF i \in 0..(Len(w.s) - 1) THEN text \o Char(w.s, i + 1) ELSE text, s4))
    IN IF w.t = "String" THEN Then(FoldOver(pick, Res("", s2), ks), LAMBDA u, s3 : Res(String(u), s3))
       ELSE IF IsTuple(w) THEN
         Res([t |-> w.t, m |-> [k \in DOMAIN w.m \cap chosen |-> w.m[k]]], s2)
       ELSE Then(Listed(c, s2), LAMBDA xs, s3 :
         Then(FoldOver(LAMBDA u, k, s4 : Whole(k, s4), Res(0, s3), ks),
              LAMBDA u, s4 : Res(Array(xs), s4)))))

\* What is put at a position: beyond the end the gap is filled up. A tuple
\* is not looked at: the expression's own, empty entries are extended.
Filled(xs, at, x, gap) ==
  IF at <= Len(xs) THEN [i \in 1..(Len(xs) + (IF at = Len(xs) THEN 1 ELSE 0)) |->
                           IF i = at + 1 THEN x ELSE xs[i]]
  ELSE xs \o [i \in 1..(at - Len(xs)) |-> gap] \o <<x>>

PutE(e, st) ==
  Then(run(e.a[1], st), LAMBDA c, s :
    LET w == seen(c, s)
    IN IF IsTuple(w) THEN
         Then(run(e.a[3], s), LAMBDA x, s2 :
           Res([t |-> w.t, m |-> Text(e.a[2], s) :> x], s2))
       ELSE Then(IF w.t = "String" THEN Res(Chars(w.s), s) ELSE Listed(e.a[1], s),
        LAMBDA xs, s2 : Then(Whole(e.a[2], s2), LAMBDA i, s3 :
         IF i < 0 THEN Fails(s3, "memory exhausted")
         ELSE IF w.t = "String" THEN
           LET text == Text(e.a[3], s3)
               char == IF text # "" THEN Char(text, 1) ELSE " "
           IN Res(String(IF text = "" /\ i >= Len(xs) THEN w.s
                         ELSE FoldLeft(LAMBDA u, v : u \o v, "", Filled(xs, i, char, " "))), s3)
         ELSE Then(run(e.a[3], s3), LAMBDA x, s4 :
                     Res(Array(Filled(xs, i, x, Boolean(FALSE))), s4)))))

\* std::string replace_all with nothing
RECURSIVE Without(_, _)
Without(s, u) ==
  LET at == {i \in 1..(Len(s) - Len(u) + 1) : SubSeq(s, i, i + Len(u) - 1) = u}
      first == CHOOSE i \in at : \A j \in at : i <= j
  IN IF u = "" \/ at = {} THEN s
     ELSE SubSeq(s, 1, first - 1) \o Without(SubSeq(s, first + Len(u), Len(s)), u)

\* The first operand is removed from the second; but of a list it is the
\* elements of the first operand that are kept, all but those equal to it.
RemoveE(e, st) ==
  Then(run(e.a[2], st), LAMBDA c, s :
    LET w == seen(c, s)
    IN IF w.t = "String" THEN Res(String(Without(w.s, Text(e.a[1], s))), s)
       ELSE IF IsTuple(w) THEN Res([t |-> w.t, m |-> <<>>], s)
       ELSE Then(Listed(e.a[1], s), LAMBDA xs, s2 :
         Then(FoldOver(LAMBDA ys, x, s3 : Then(Compare(x, e.a[1], s3), LAMBDA k, s4 :
                         Res(IF k # 0 THEN Append(ys, x) ELSE ys, s4)), Res(<<>>, s2), xs),
              LAMBDA ys, s3 : Res(Array(ys), s3))))

AppendE(e, st) == Two(run, e, st, LAMBDA x, y, s :
  LET l == seen(x, s)
      r == seen(y, s)
  IN IF l.t = r.t /\ IsTuple(l) THEN Res([t |-> l.t, m |-> r.m @@ l.m], s)
     ELSE Two(Listed, e, s, LAMBDA xs, ys, s2 : Res(Array(xs \o ys), s2)))

ContainsE(e, st) == Two(run, e, st, LAMBDA x, c, s :
  IF IsTuple(seen(c, s)) THEN Res(Boolean(Text(x, s) \in DOMAIN seen(c, s).m), s)
  ELSE Then(Listed(c, s), LAMBDA ys, s2 :
    Then(FoldOver(LAMBDA found, y, s3 : IF found THEN Res(TRUE, s3)
                    ELSE Then(Compare(y, x, s3), LAMBDA k, s4 : Res(k = 0, s4)),
                  Res(FALSE, s2), ys),
         LAMBDA found, s3 : Res(Boolean(found), s3))))

\* Of a text the last position is included and of a list it is not; and the
\* text is the one written in the operand, the name if that is a variable.
SubElementsE(e, st) == Two(Whole, e, st, LAMBDA b, n, s : Then(run(e.a[3], s), LAMBDA c, s2 :
  LET w == seen(c, s2)
      text == IF e.a[3].t \in {"String", "Variable", "LABELT"} THEN e.a[3].s ELSE ""
      before == IF b < 0 THEN n < 0 /\ n < b ELSE n >= 0 /\ n < b
      part(xs) == SubSeq(xs, b + 1, n)
  IN IF w.t = "String" THEN
       IF before THEN Res(String(""), s2)
       ELSE IF b < 0 \/ b > Len(text) THEN Fails(s2, "out_of_range")
       ELSE Res(String(IF n = -1 /\ b = 0 THEN "" ELSE
              SubSeq(text, b + 1, IF n < 0 \/ n >= Len(text) THEN Len(text) ELSE n + 1)), s2)
     ELSE Then(Listed(c, s2), LAMBDA xs, s3 :
       IF before \/ b < 0 \/ n \notin 0..Len(xs) THEN Fails(s3, "undefined")
       ELSE IF IsTuple(w) THEN
         Res([t |-> w.t, m |-> [k \in ToSet(part(SortedKeys(w.m))) |-> w.m[k]]], s3)
       ELSE Res(Array(part(xs)), s3))))

\* The lists of a list, without the empty ones, position by position; and
\* all the ways to take one element of each.
Lists(e, st) == Then(Listed(e.a[1], st), LAMBDA xs, s :
  FoldOver(LAMBDA ls, x, s2 : Then(Listed(x, s2), LAMBDA l, s3 : Res(Append(ls, l), s3)),
           Res(<<>>, s), xs))
Zipped(ls) ==
  LET full == SelectSeq(ls, LAMBDA l : l # <<>>)
      len == CHOOSE n \in 1..Len(full[1]) :
               /\ \A i \in DOMAIN full : n <= Len(full[i])
               /\ \E i \in DOMAIN full : n = Len(full[i])
  IN IF full = <<>> THEN <<>>
     ELSE [k \in 1..len |-> Array([i \in DOMAIN full |-> full[i][k]])]
Product(ls) ==
  FoldLeft(LAMBDA ps, l : FoldLeft(LAMBDA qs, p : qs \o [i \in DOMAIN l |-> Append(p, l[i])],
                                   <<>>, ps), << <<>> >>, ls)

\* Flattening asks for the list of the flattening expression itself.
Collections == {"ConcatE", "CrossE", "SelfCrossE", "SelfZipE", "InjE", "FlatE"}
Collection(e, st) ==
  CASE e.t = "ConcatE" -> Two(run, e, st, LAMBDA x, y, s :
         Res(String(PlainText(x, s) \o PlainText(y, s)), s))
    [] e.t = "CrossE" -> Two(Listed, e, st, LAMBDA xs, ys, s :
         Res(Array([i \in DOMAIN Product(<<xs, ys>>) |-> Array(Product(<<xs, ys>>)[i])]), s))
    [] e.t = "SelfCrossE" -> Then(Lists(e, st), LAMBDA ls, s :
         Res(Array([i \in DOMAIN Product(ls) |-> Array(Product(ls)[i])]), s))
    [] e.t = "SelfZipE" -> Then(Lists(e, st), LAMBDA ls, s : Res(Array(Zipped(ls)), s))
    [] e.t = "InjE" -> Res(Array(<<e.a[1]>>), st)
    [] OTHER -> Listed(e, st)

-----------------------------------------------------------------------------
(* The objects of the database.                                            *)
Texts(xs) == Array([i \in DOMAIN xs |-> String(xs[i])])
Contents(st, id, label) == resolve_content(st.delta, id, label)
Scored(cs) == Array([i \in DOMAIN cs |->
  Tuple([k \in {"id", "score"} |-> IF k = "id" THEN Integer(cs[i].id) ELSE Double(cs[i].score, 1)])])

\* All that is seen of an object as one tuple.
ObjectTuple(st, id) ==
  LET properties == {k \in objProperties(st.delta, id) : resolve_GoodProp(st.delta, id, k) # NoProperty}
  IN Tuple(("@xi" :> Texts(resolve_xi(st.delta, id)))
        @@ ("@ell" :> Texts(resolve_ell(st.delta, id)))
        @@ ("@pi" :> Tuple([k \in properties |-> resolve_GoodProp(st.delta, id, k)]))
        @@ [l \in phi_keys(st.delta, id) |-> Scored(Contents(st, id, l))])

\* No object is looked up for a null or a text, but OBJ goes on with none.
\* The label of a containment is the text of its operand, unevaluated.
ObjectViewsE == {"PhiX", "VarPhiX", "EllX", "XiX", "ObjX"}
ObjectView(e, st) ==
  LET of(id, s) == CASE e.t = "PhiX" -> Scored(Contents(s, id, Text(e.a[2], s)))
                     [] e.t = "VarPhiX" ->
                          Array(FlattenSeq([i \in DOMAIN SetToSeq(phi_keys(s.delta, id)) |->
                            LET cs == Contents(s, id, SetToSeq(phi_keys(s.delta, id))[i])
                            IN [j \in DOMAIN cs |-> Integer(cs[j].id)]]))
                     [] e.t = "EllX" -> Texts(resolve_ell(s.delta, id))
                     [] e.t = "XiX" -> Texts(resolve_xi(s.delta, id))
                     [] OTHER -> ObjectTuple(s, id)
  IN IF isImmediateInteger(e.a[1])
     THEN Then(Whole(e.a[1], st), LAMBDA id, s : Res(of(id, s), s))
     ELSE Then(run(e.a[1], st), LAMBDA v, s :
       IF seen(v, s).t \notin {"NullE", "String"}
       THEN Then(Whole(v, s), LAMBDA id, s2 : Res(of(id, s2), s2))
       ELSE Res(IF e.t = "ObjX" THEN of(-1, s) ELSE Array(<<>>), s))

-----------------------------------------------------------------------------
(* Types. The type of a shared node, a truth, the null and the node of an  *)
(* indexer, is remembered on it; that of any other node goes with it.      *)
CastKey(v) == CASE v.t = "Cell" -> v.p
                [] v.t = "Boolean" -> IF v.b THEN "tt" ELSE "ff"
                [] v.t = "NullE" -> "null"
                [] OTHER -> ""
Cast(v, st) == IF CastKey(v) # "" THEN IF CastKey(v) \in DOMAIN st.casts THEN st.casts[CastKey(v)] ELSE NullE
               ELSE IF "cast" \in DOMAIN v THEN v.cast ELSE NullE
Remember(v, type, st) ==
  IF CastKey(v) # "" THEN Res(v, [st EXCEPT !.casts = (CastKey(v) :> type) @@ @])
  ELSE Res(("cast" :> type) @@ v, st)

Kind == [Boolean |-> "BooleanT", Integer |-> "IntegerT", Double |-> "DoubleT", String |-> "StringT"]

\* The different types among the elements of a list.
Distinct(types, st) ==
  FoldOver(LAMBDA ts, x, s :
             Then(FoldOver(LAMBDA old, y, s2 : IF old THEN Res(TRUE, s2)
                             ELSE Then(Compare(x, y, s2), LAMBDA c, s3 : Res(c = 0, s3)),
                           Res(FALSE, s), ts),
                  LAMBDA old, s2 : Res(IF old THEN ts ELSE Append(ts, x), s2)),
           Res(<<>>, st), types)

Inferred(v, st) ==
  LET w == seen(v, st)
  IN CASE w.t \in {"AnyT", "BooleanT", "IntegerT", "DoubleT", "StringT", "TupleT", "ArrayOfT",
                   "StarT", "SigmaT", "ANDT", "ORT", "LABELT"} -> Res(Type("StarT"), st)
       [] w.t \in DOMAIN Kind -> Res(Type(Kind[w.t]), st)
       [] w.t = "Variable" -> Then(variableEval(w, st), LAMBDA u, s : Infer(u, s))
       [] w.t = "Tuple" ->
            Then(FoldOver(LAMBDA m, k, s : Then(Infer(w.m[k], s), LAMBDA x, s2 :
                            Res((k :> x) @@ m, s2)), Res(<<>>, st), SortedKeys(w.m)),
                 LAMBDA m, s : Res(TupleT(m), s))
       [] w.t = "Array" ->
            Then(FoldOver(LAMBDA ts, x, s : Then(Infer(x, s), LAMBDA y, s2 : Res(Append(ts, y), s2)),
                          Res(<<>>, st), w.a),
                 LAMBDA all, s : Then(Distinct(all, s), LAMBDA ts, s2 :
                   IF Len(ts) > 1 THEN Fails(s2, "cannot unify distinct types")
                   ELSE Res(ArrayOfT(IF ts = <<>> THEN Type("AnyT") ELSE ts[1]), s2)))
       [] OTHER -> Fails(st, "cannot determine the type")

Infer(e, st) ==
  CASE e.t = "Variable" -> Then(variableEval(e, st), LAMBDA v, s : Infer(v, s))
    [] e.t = "ObjX" -> Then(Whole(e.a[1], st), LAMBDA id, s : upTypeObjX(id, s))
    [] OTHER -> Then(run(e, st), LAMBDA v, s :
         IF Cast(v, s) # NullE THEN Res(Cast(v, s), s)
         ELSE Then(Inferred(v, s), LAMBDA x, s2 : Then(Remember(e, x, s2), LAMBDA u, s3 : Res(x, s3))))

\* Unifying several types, or none, gives any.
mgu(ts) == IF Len(ts) = 1 THEN ts[1] ELSE Type("AnyT")

\* A text is parsed in the same environment and run.
Evaluated(text, st) ==
  IF text \in DOMAIN Parsed THEN run(Parsed[text], st) ELSE Fails(st, "parse error")
LabelOf(labels, st) == IF labels = <<>> THEN Fails(st, "out_of_range") ELSE Evaluated(labels[1], st)
TypesOf(texts, st) ==
  FoldOver(LAMBDA ts, x, s : Then(Evaluated(x, s), LAMBDA v, s2 : Then(Infer(v, s2),
             LAMBDA y, s3 : Res(Append(ts, y), s3))), Res(<<>>, st), texts)

\* The type of an object: its first label is a type, and with it go the
\* types of its values or those of its contents.
upTypeObjX(id, st) ==
  LET labels == resolve_ell(st.delta, id)
      keys == phi_keys(st.delta, id)
      inner(l, s) == FoldOver(LAMBDA ts, c, s2 : Then(upTypeObjX(c.id, s2), LAMBDA y, s3 :
                       Res(Append(ts, y), s3)), Res(<<>>, s), Contents(s, id, l))
      contents(s) == FoldOver(LAMBDA m, l, s2 : Then(inner(l, s2), LAMBDA ts, s3 :
                       Res((l :> mgu(ts)) @@ m, s3)), Res(<<>>, s), SetToSeq(keys))
      typed(m, v, s) == IF ~isType(v) THEN Fails(s, "the label should express a type")
                        ELSE Res(ObjTT(v, m), s)
  IN IF st.fuel = 0 THEN Fails(st, "diverges")
     ELSE IF keys # {} THEN Then(contents([st EXCEPT !.fuel = @ - 1]), LAMBDA m, s :
            Then(LabelOf(labels, s), LAMBDA v, s2 : typed(TupleT(m), v, s2)))
     ELSE Then(LabelOf(labels, st), LAMBDA v, s :
       IF objProperties(s.delta, id) = {} /\ isType(v) THEN Res(v, s)
       ELSE IF objProperties(s.delta, id) # {} /\ ~isType(v) THEN typed(NullE, v, s)
       ELSE Then(TypesOf(resolve_xi(s.delta, id), s), LAMBDA ts, s2 :
         IF objProperties(s2.delta, id) = {} THEN
           IF isType(mgu(ts)) THEN Res(mgu(ts), s2) ELSE Fails(s2, "the xi should be uniform")
         ELSE IF mgu(ts).t = "TupleT" THEN typed(mgu(ts), v, s2)
         ELSE Res(Op("ANDT", <<v, mgu(ts)>>), s2)))

\* What turns a node of the type l into one of the type r: "no" if nothing
\* does. Where it is a function over variables of a frame that has been left,
\* it is "dangling". The texts of a label must have been declared.
FirstEnforced(ls, R, st) ==
  LET known == UNION {{p[1], p[2]} : p \in st.edges}
      text(i) == Text(ls[i], st)
      hits == {i \in DOMAIN ls : <<text(i), Text(R, st)>> \in st.edges}
      strange == {i \in DOMAIN ls : text(i) \notin known}
  IN IF \E i \in strange : \A j \in hits : i < j THEN Fails(st, "out_of_range")
     ELSE Res(IF hits = {} THEN "no" ELSE "same", st)

SubOfBoth(L, r, st) == Two(run, L, st, LAMBDA x, y, s :
  Then(subTyping(x, r, s), LAMBDA k1, s1 : Then(subTyping(y, r, s1), LAMBDA k2, s2 :
    LET missing == {k \in {1, 2} : <<k1, k2>>[k] = "no"}
    IN Res(IF missing = {} \/ (L.t = "ORT" /\ missing # {1, 2}) THEN "dangling" ELSE "no", s2))))

\* The elements of a type, one by one, in the other.
Componentwise(ls, rs, st) ==
  FoldOver(LAMBDA k, i, s : IF k = "no" THEN Res(k, s)
             ELSE Then(subTyping(ls[i], rs[i], s), LAMBDA k2, s2 :
                         Res(IF k2 = "no" THEN "no" ELSE k, s2)),
           Res("dangling", st), SetToSeq(DOMAIN ls))

Widened == [BooleanT |-> <<"BooleanT", "IntegerT", "DoubleT">>, IntegerT |-> <<"IntegerT", "DoubleT">>,
            DoubleT |-> <<"DoubleT", "DoubleT">>, StringT |-> <<"StringT">>, LABELT |-> <<"LABELT">>]

SubOfBasic(L, R, st) ==
  CASE R.t = "AnyT" -> Res("same", st)
    [] R.t = "LABELT" -> FirstEnforced([i \in DOMAIN Widened[L.t] |->
                           IF i = 1 THEN L ELSE Type(Widened[L.t][i])], R, st)
    [] L.t = "LABELT" -> Fails(st, "a label is a subtype of any or of labels only")
    [] L.t = "BooleanT" /\ R.t = "IntegerT" -> Res("toInteger", st)
    [] L.t \in {"BooleanT", "IntegerT"} /\ R.t = "DoubleT" -> Res("toDouble", st)
    [] OTHER -> Res("no", st)

SubOfComposed(L, R, st) ==
  LET enforced == L.t \in {"TupleT", "ArrayOfT"} /\ <<Text(L, st), Text(R, st)>> \in st.edges
  IN CASE enforced -> Res("same", st)
       [] L.t \in {"ObjTT", "SigmaT"} /\ R.t = "AnyT" -> Res("same", st)
       [] L.t = "TupleT" -> IF R.t = "TupleT" /\ DOMAIN L.m \subseteq DOMAIN R.m
                            THEN Componentwise(L.m, R.m, st) ELSE Res("no", st)
       [] L.t = "ArrayOfT" -> IF "a" \notin DOMAIN R \/ R.a = <<>> THEN Fails(st, "undefined")
                              ELSE Then(Compare(L.a[1], R.a[1], st), LAMBDA c, s :
                                Res(IF c = 0 THEN "same" ELSE "no", s))
       [] L.t = "ObjTT" -> IF R.t = "ObjTT" THEN Componentwise(L.a, R.a, st)
                           ELSE Then(run(L.a[1], st), LAMBDA l, s : subTyping(l, R, s))
       [] R.t # "SigmaT" -> subTyping(L.a[1], R, st)
       [] OTHER -> Then(subTyping(L.a[1], R.a[1], st), LAMBDA k, s :
            IF k = "no" THEN Res(k, s)
            ELSE Then(Compare(L.a[2], R.a[2], s), LAMBDA c, s2 :
                        Res(IF c = 0 THEN "dangling" ELSE "no", s2)))

subTyping(l, r, st) ==
  Then(Compare(l, r, st), LAMBDA c, s0 : IF c = 0 THEN Res("same", s0) ELSE
    Then(run(l, s0), LAMBDA v, s1 :
      LET L == seen(v, s1)
      IN IF L.t \in {"ANDT", "ORT"} THEN SubOfBoth(L, r, s1)
         ELSE IF ~isType(L) /\ L.t # "BotT" THEN Fails(s1, "is not a type")
         ELSE Then(run(r, s1), LAMBDA w, s2 :
           LET R == seen(w, s2)
           IN CASE L.t \in {"AnyT", "StarT"} -> Res(IF R.t = L.t THEN "same" ELSE "no", s2)
                [] L.t = "BotT" -> Res(IF isType(R) THEN "dangling" ELSE "no", s2)
                [] L.t \in DOMAIN Widened -> SubOfBasic(L, R, s2)
                [] OTHER -> SubOfComposed(L, R, s2))))

Converted(k, v, type, st) ==
  CASE k = "no" -> Fails(st, "cannot be casted")
    [] k = "dangling" -> Fails(st, "undefined")
    [] k = "toInteger" -> Then(Whole(v, st), LAMBDA i, s : Remember(Integer(i), type, s))
    [] k = "toDouble" -> Then(Number(v, st), LAMBDA d, s : Remember(d, type, s))
    [] OTHER -> Remember(v, type, st)

\* Types of types: enforcing declares an edge and is false.
Typings == {"TypeOf", "ENFORCET", "SubtypeOfE", "SigmaT", "ANDT", "ORT", "CoerceE"}
Typing(e, st) ==
  CASE e.t = "TypeOf" -> Infer(e.a[1], st)
    [] e.t \in {"SigmaT", "ANDT", "ORT"} -> Two(run, e, st, LAMBDA x, y, s : Res(Op(e.t, <<x, y>>), s))
    [] e.t = "ENFORCET" -> Two(run, e, st, LAMBDA x, y, s :
         Res(Boolean(FALSE), [s EXCEPT !.edges = @ \cup {<<Text(x, s), Text(y, s)>>}]))
    [] e.t = "SubtypeOfE" -> Two(run, e, st, LAMBDA x, y, s :
         Then(subTyping(x, y, s), LAMBDA k, s2 : Res(Boolean(k # "no"), s2)))
    [] OTHER -> Then(run(e.a[1], st), LAMBDA v, s : Then(Infer(v, s), LAMBDA t, s1 :
         Then(run(e.a[2], s1), LAMBDA T, s2 :
           IF T.t # "SigmaT" THEN Then(subTyping(t, T, s2), LAMBDA k, s3 : Converted(k, v, T, s3))
           ELSE Then(run(T.a[1], s2), LAMBDA U, s3 : Then(subTyping(t, U, s3), LAMBDA k, s4 :
             IF k = "no" THEN Fails(s4, "cannot be casted")
             ELSE Then(Reduced(T.a[2], Callable, s4), LAMBDA f, s5 :
               Then(Applied(seen(f, s5).t, f, v, s5), LAMBDA b, s6 : Then(Truth(b, s6), LAMBDA y, s7 :
                 IF y THEN Converted(k, v, T, s7) ELSE Fails(s7, "does not satisfy its condition")))))))))

-----------------------------------------------------------------------------
\* What is evaluated already. An assignment stores its right side as it is.
Plain == Immediate \cup {"BooleanT", "DoubleT", "StringT", "StarT", "IntegerT", "ArrayOfT",
                              "AnyT", "ObjTT", "BotT", "Cell"}

Label(e, st) ==
  IF e.s \notin DOMAIN st.env THEN Res(e, st)
  ELSE Then(run(st.env[e.s], st), LAMBDA v, s : Res(IF isType(seen(v, s)) THEN v ELSE e, s))

Assignment(e, st) ==
  CASE e.a[1].t = "Variable" ->
         IF e.a[1].bound THEN Res(e.a[2], [st EXCEPT !.env = (e.a[1].s :> e.a[2]) @@ @])
         ELSE Fails(st, "segmentation fault")
    [] e.a[1].t = "Function" -> apply(e.a[1], e.a[2], st)
    [] OTHER -> Res(e.a[2], st)

Run(e, st) ==
  LET s == [st EXCEPT !.fuel = @ - 1]
      r == CASE e.t \in Plain -> Res(e, s)
            [] e.t = "LABELT" -> Label(e, s)
            [] e.t = "Variable" -> variableEval(e, s)
            [] e.t = "Assignment" -> Assignment(e, s)
            [] e.t \in DOMAIN Comparisons -> Comparison(e, s)
            [] e.t \in Logics -> Logic(e, s)
            [] e.t \in Arithmetics -> Arithmetic(e, s)
            [] e.t \in Powers -> Power(e, s)
            [] e.t \in Applications -> Application(e, s)
            [] e.t \in Traversals -> Traversal(e, s)
            [] e.t \in Collections -> Collection(e, s)
            [] e.t \in ObjectViewsE -> ObjectView(e, s)
            [] e.t \in Typings -> Typing(e, s)
            [] e.t = "ProjectE" -> ProjectE(e, s)
            [] e.t = "PutE" -> PutE(e, s)
            [] e.t = "RemoveE" -> RemoveE(e, s)
            [] e.t = "AppendE" -> AppendE(e, s)
            [] e.t = "ContainsE" -> ContainsE(e, s)
            [] e.t = "SubElementsE" -> SubElementsE(e, s)
            [] OTHER -> Then(run(e.a[1], s), LAMBDA v, s2 : Evaluated(Text(v, s2), s2))
  IN IF st.fuel = 0 THEN Fails(st, "diverges") ELSE [r EXCEPT !.st.fuel = st.fuel]
=============================================================================
