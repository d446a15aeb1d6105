---------------------------- MODULE ScriptVisitor ----------------------------
(* From the parse tree of a script to its expression, and its evaluation on *)
(* a row (ScriptVisitor.cpp). A parse tree is a record with the rule r of   *)
(* the grammar and the trees k below it; a leaf has its text s or, for a    *)
(* number, n and d: d is 0 where it is written without a point. The rules   *)
(* that only pass a tree on, term_operand and exprterm, are left out.       *)
EXTENDS Script

Tree(rule, kids) == [r |-> rule, k |-> kids]
Leaf(rule, text) == [r |-> rule, k |-> <<>>, s |-> text]
NumberLeaf(n, d) == [r |-> "atom_number", k |-> <<>>, n |-> n, d |-> d]

\* The rules with operands, in the order of the source.
OperatorRules ==
  [sub |-> "MinusE", select |-> "FilterE", mult |-> "MulE", lt |-> "LtE",
   substring |-> "SubElementsE", remove |-> "RemoveE", put |-> "PutE", div |-> "DivE",
   not |-> "NotE", geq |-> "GEqE", and |-> "AndE", leq |-> "LEqE", neq |-> "NeqE",
   map |-> "MapE", add |-> "AddE", or |-> "OrE"]
LateOperatorRules ==
  [imply |-> "ImplyE", apply |-> "ApplyE", concat |-> "ConcatE", eq |-> "EqE", gt |-> "GtE",
   contains |-> "ContainsE", eval |-> "EvalE", at |-> "AtE", append |-> "AppendE",
   ifte |-> "IfteE", assign |-> "Assignment"]
CollectionRules ==
  [varphi |-> "VarPhiX", ell |-> "EllX", phi |-> "PhiX", xi |-> "XiX", mod |-> "ModE",
   flat |-> "FlatE", selfcross |-> "SelfCrossE", selfzip |-> "SelfZipE", inj |-> "InjE",
   cross |-> "CrossE", abs |-> "AbsE", rfold |-> "RFoldE", lfold |-> "LFoldE", filter |-> "ModE"]
NumberRules == [ceil |-> "CeilE", pow |-> "ExpE", floor |-> "FloorE"]
TypeRules ==
  [type_list |-> "ArrayOfT", obj |-> "ObjX", ensure |-> "AssertE", sigma_type |-> "SigmaT",
   typeof |-> "TypeOf", subtype_of |-> "SubtypeOfE", type_or |-> "ORT", type_and |-> "ANDT",
   project |-> "ProjectE", enforce |-> "ENFORCET", type_lex |-> "ObjTT", coerce |-> "CoerceE"]
BasicTypes == [type_bool |-> "BooleanT", type_double |-> "DoubleT", type_int |-> "IntegerT",
               type_string |-> "StringT", kind |-> "StarT"]
LateTypes == [null |-> "NullE", type_bot |-> "BotT", type_any |-> "AnyT"]

Rules == OperatorRules @@ LateOperatorRules @@ CollectionRules @@ NumberRules @@ TypeRules

Variable(name, bound) == [t |-> "Variable", s |-> name, bound |-> bound]

\* What is written as a variable's name may be any expression; the variable
\* made of its text is not tied to the environment.
var(e) == IF e.t = "Variable" THEN e ELSE Variable(toString(e, FALSE, FALSE), FALSE)

\* The pairs of a tuple are visited one past the last.
RECURSIVE inTuplePair(_)
inTuplePair(tree) == tree.r \in {"atom_tuple", "type_tuple"} \/ \E i \in DOMAIN tree.k : inTuplePair(tree.k[i])

RECURSIVE visit(_)
visit(tree) ==
  LET kids == [i \in DOMAIN tree.k |-> visit(tree.k[i])]
  IN CASE tree.r = "paren" -> kids[1]
       [] tree.r = "var" -> var(kids[1])
       [] tree.r = "variable" -> Variable(tree.s, TRUE)
       [] tree.r = "atom_bool" -> Boolean(tree.s = "tt")
       [] tree.r = "atom_string" -> String(tree.s)
       [] tree.r = "atom_number" -> IF tree.d = 0 THEN Integer(tree.n) ELSE Double(tree.n, tree.d)
       [] tree.r = "atom_array" -> Array(kids)
       [] tree.r = "function" -> [t |-> "Function", p |-> tree.s, a |-> kids]
       [] tree.r = "type_label" -> [t |-> "LABELT", s |-> tree.s]
       [] tree.r \in DOMAIN BasicTypes -> Type(BasicTypes[tree.r])
       [] tree.r \in DOMAIN LateTypes -> Type(LateTypes[tree.r])
       [] OTHER -> Op(Rules[tree.r], kids)

\* The indexer of the pattern is set up when it is met for the first time.
attemptInitialise(st, p, schema) ==
  [st EXCEPT !.cur = p, !.ix = IF p \in DOMAIN @ THEN @ ELSE (p :> setUp(schema)) @@ @]

Bind(st, p, address, schema, cells) ==
  LET s == attemptInitialise(st, p, schema)
  IN [s EXCEPT !.ix[p] = initialize(@, address, schema, cells)]

\* A script on a row: the node it evaluates to, or whether that is true.
eval(st, p, address, schema, cells, tree) ==
  IF inTuplePair(tree) THEN Fails(st, "segmentation fault")
  ELSE run(visit(tree), Bind(st, p, address, schema, cells))
evalBool(st, p, address, schema, cells, tree) ==
  IF inTuplePair(tree) THEN Fails(st, "segmentation fault")
  ELSE Truth(visit(tree), Bind(st, p, address, schema, cells))
=============================================================================
