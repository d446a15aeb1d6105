---------------------------- MODULE ScriptValues ----------------------------
(* The nodes of the script language (ScriptAST.h): their order, their       *)
(* numbers and their texts. A node is a record with its kind t and, by      *)
(* kind, b (Boolean), n (Integer), n and d (Double, the fraction n/d), s    *)
(* (String, LABELT, Variable), a (the operands), m (Tuple, TupleT: key |->  *)
(* node), p and a (Function: parameter and body), p (Cell: the pattern      *)
(* whose indexer owns the shared node).                                     *)
EXTENDS SchemaIndexer, SequencesExt, TLC

CONSTANT Alphabet      \* the characters of the strings, in their order

Boolean(b) == [t |-> "Boolean", b |-> b]
Tuple(m) == [t |-> "Tuple", m |-> m]
TupleT(m) == [t |-> "TupleT", m |-> m]
Type(name) == [t |-> name]
Op(name, as) == [t |-> name, a |-> as]
ArrayOfT(x) == Op("ArrayOfT", <<x>>)
ObjTT(l, x) == Op("ObjTT", <<l, x>>)

Gcd(n, d) == CHOOSE k \in 1..d : /\ n % k = 0 /\ d % k = 0
                                 /\ \A j \in (k + 1)..d : ~(n % j = 0 /\ d % j = 0)
Double(n, d) == [t |-> "Double", n |-> n \div Gcd(n, d), d |-> d \div Gcd(n, d)]

\* The enumeration t: nodes of different kinds are ordered by their kinds.
Kinds == <<"BotT", "NullE", "SigmaT", "StarT", "ANDT", "ORT", "LABELT", "ENFORCET",
  "ObjTT", "AnyT", "BooleanT", "IntegerT", "DoubleT", "StringT", "TupleT", "ArrayOfT",
  "TypeOf", "Boolean", "Integer", "Double", "String", "Assignment", "Function",
  "Array", "Tuple", "Variable", "AndE", "OrE", "NotE", "EqE", "IfteE", "ImplyE",
  "ApplyE", "AtE", "PutE", "RemoveE", "AppendE", "ContainsE", "FilterE", "InvokeE",
  "MapE", "SubElementsE", "AddE", "DivE", "ModE", "AbsE", "MinusE", "MulE", "SinE",
  "CosE", "TanE", "ExpE", "LogE", "FloorE", "CeilE", "ConcatE", "GtE", "ProjectE",
  "LtE", "GEqE", "LEqE", "NeqE", "PhiX", "VarPhiX", "EllX", "XiX", "ObjX", "CrossE",
  "SelfCrossE", "SelfZipE", "InjE", "FlatE", "LFoldE", "RFoldE", "EvalE", "AssertE",
  "SubtypeOfE", "CoerceE">>
Rank(t) == Position(Kinds, t)

isType(e) == e.t \in {"SigmaT", "StarT", "ANDT", "ORT", "LABELT", "ENFORCET", "ObjTT",
  "AnyT", "BooleanT", "IntegerT", "DoubleT", "StringT", "TupleT", "ArrayOfT", "TypeOf"}

\* The kinds the conversions know what to do with; they run the others.
Immediate == {"Boolean", "Integer", "Double", "String", "Array", "Tuple", "TupleT",
              "Function", "NullE"}

RECURSIVE isImmediateInteger(_)
isImmediateInteger(e) == IF e.t = "ObjX" THEN isImmediateInteger(e.a[1])
                         ELSE e.t \in Immediate \ {"NullE"}

-----------------------------------------------------------------------------
(* Characters and texts.                                                   *)
Char(s, i) == SubSeq(s, i, i)
Chars(s) == [i \in 1..Len(s) |-> Char(s, i)]
Place(c) == CHOOSE i \in 1..Len(Alphabet) : Char(Alphabet, i) = c

\* std::string::compare, by its sign
CompareText(s, u) ==
  LET common == {i \in 1..Len(s) : i <= Len(u)}
      differ == {i \in common : Char(s, i) # Char(u, i)}
      first == CHOOSE i \in differ : \A j \in differ : i <= j
  IN IF differ # {} THEN IF Place(Char(s, first)) < Place(Char(u, first)) THEN -1 ELSE 1
     ELSE IF Len(s) < Len(u) THEN -1 ELSE IF Len(s) > Len(u) THEN 1 ELSE 0

\* The keys of a tuple in one order; an unordered_map has some order.
SortedKeys(m) == SetToSortSeq(DOMAIN m, LAMBDA s, u : CompareText(s, u) < 0)

Digits == {ToString(i) : i \in 0..9}

\* whether std::stod reads a number at the start of the text
StartsNumber(s) ==
  \/ Len(s) > 0 /\ Char(s, 1) \in Digits
  \/ Len(s) > 1 /\ Char(s, 1) = "-" /\ Char(s, 2) \in Digits

\* Only the node itself is asked, not what it evaluates to.
isDouble(e) == e.t = "Double" \/ (e.t = "String" /\ StartsNumber(e.s))

\* Division and remainder of C++ round towards zero.
Quotient(n, d) == IF (n >= 0) = (d > 0) THEN (IF n >= 0 THEN n ELSE -n) \div (IF d > 0 THEN d ELSE -d)
                  ELSE -((IF n >= 0 THEN n ELSE -n) \div (IF d > 0 THEN d ELSE -d))
Remainder(n, d) == n - d * Quotient(n, d)

\* std::to_string of a double: six digits after the point
NumberText(x) ==
  LET whole == Quotient(x.n, x.d)
      rest == Remainder(x.n, x.d)
      sixDigits == 1000000 + ((IF rest < 0 THEN -rest ELSE rest) * 1000000) \div x.d
  IN (IF whole = 0 /\ x.n < 0 THEN "-" ELSE "") \o ToString(whole) \o "."
     \o SubSeq(ToString(sixDigits), 2, 7)

Joined(texts, sep) ==
  FoldLeft(LAMBDA u, s : IF u = "" THEN s ELSE u \o sep \o s, "", texts)

Quoted(s) == "\"" \o s \o "\""

TypeTexts == [BooleanT |-> "bool", IntegerT |-> "int", DoubleT |-> "double", StringT |-> "string",
              StarT |-> "star", AnyT |-> "any", BotT |-> "null", NullE |-> "null"]

\* An operator and its operands. Only that texts of different operators differ
\* is kept of their layout, so the operator is rendered by its name.
OperatorText(name, operands) == name \o "(" \o Joined(operands, ", ") \o ")"

RECURSIVE toString(_, _, _)
\* The text of a node. A list of one element that is to be imploded falls
\* through to the text of a list type.
toString(e, quoted, implode) ==
  CASE e.t = "Boolean"  -> IF e.b THEN "tt" ELSE "ff"
    [] e.t = "Integer"  -> ToString(e.n)
    [] e.t = "Double"   -> NumberText(e)
    [] e.t = "String"   -> IF quoted THEN Quoted(e.s) ELSE e.s
    [] e.t = "Variable" -> e.s
    [] e.t = "LABELT"   -> "label " \o Quoted(e.s)
    [] e.t = "ArrayOfT" -> "(listof (" \o toString(e.a[1], TRUE, FALSE) \o "))"
    [] e.t = "Function" -> "fun " \o e.p \o " -> {"
         \o Joined([i \in DOMAIN e.a |-> toString(e.a[i], TRUE, FALSE)], "; ") \o "}"
    [] e.t = "Array"    ->
         IF Len(e.a) = 1 /\ implode THEN "(listof (" \o toString(e.a[1], TRUE, FALSE) \o "))"
         ELSE IF implode THEN Joined([i \in DOMAIN e.a |-> toString(e.a[i], TRUE, TRUE)], " ")
         ELSE "{" \o Joined([i \in DOMAIN e.a |-> toString(e.a[i], TRUE, FALSE)], "; ") \o "}"
    [] e.t \in {"Tuple", "TupleT"} ->
         (IF e.t = "TupleT" THEN "t< " ELSE "< ")
         \o Joined([i \in DOMAIN SortedKeys(e.m) |-> Quoted(SortedKeys(e.m)[i]) \o " >> "
                      \o toString(e.m[SortedKeys(e.m)[i]], TRUE, FALSE)], "; ") \o " >"
    [] e.t \in DOMAIN TypeTexts -> TypeTexts[e.t]
    [] OTHER -> OperatorText(e.t, [i \in DOMAIN e.a |-> toString(e.a[i], TRUE, FALSE)])

-----------------------------------------------------------------------------
(* The conversions of an evaluated node; a type has none.                  *)
toBoolean(v) ==
  CASE v.t = "Boolean" -> v.b
    [] v.t \in {"Integer", "Double"} -> v.n # 0
    [] v.t \in {"String", "LABELT"} -> v.s # ""
    [] v.t \in {"Array", "Function"} -> v.a # <<>>
    [] v.t \in {"Tuple", "TupleT"} -> DOMAIN v.m # {}
    [] OTHER -> FALSE

\* A text counts by its length, a collection by its size.
Size(v) ==
  CASE v.t = "Boolean" -> IF v.b THEN 1 ELSE 0
    [] v.t = "String" -> Len(v.s)
    [] v.t \in {"Array", "Function"} -> Len(v.a)
    [] v.t \in {"Tuple", "TupleT"} -> Cardinality(DOMAIN v.m)
    [] OTHER -> v.n

toInteger(v) == IF v.t = "NullE" THEN -1
                ELSE IF v.t = "Double" THEN Quotient(v.n, v.d) ELSE Size(v)
toDouble(v) == IF v.t = "NullE" THEN Double(0, 1)
               ELSE IF v.t = "Double" THEN v ELSE Double(Size(v), 1)

Sign(n) == IF n < 0 THEN -1 ELSE IF n > 0 THEN 1 ELSE 0

Plus(x, y) == Double(x.n * y.d + y.n * x.d, x.d * y.d)
Minus(x, y) == Double(x.n * y.d - y.n * x.d, x.d * y.d)
Times(x, y) == Double(x.n * y.n, x.d * y.d)
Over(x, y) == Double(x.n * y.d * Sign(y.n), x.d * y.n * Sign(y.n))
=============================================================================
