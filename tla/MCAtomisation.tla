---------------------------- MODULE MCAtomisation ----------------------------
(***************************************************************************)
(* Two labels; a double property x and a string property s; a node "n" of  *)
(* label a with two conjunctions; a node "any" without a label, whose      *)
(* conditions carry the label b; a node "free" without any label.          *)
(***************************************************************************)
EXTENDS Atomisation

CONSTANTS a, b

MCLabels == {a, b}
MCVars == {"x", "s"}
MCTypeOf == [v \in MCVars |-> IF v = "s" THEN "string" ELSE "double"]
MCNodes == {"n", "any", "free"}
MCNodeLabel == [n \in MCNodes |-> IF n = "n" THEN a ELSE ""]
MCPredLabel == ("n" :> a @@ "any" :> b @@ "free" :> "")
\* The node "n" is written comparisons of x of all kinds but LEQ, and of s with
\* two neighbouring strings.  "any" is written a comparison that no value meets,
\* beyond the lower end of x, besides LEQ, and an inequation; "free" compares s once.
MCWritten ==
    ("n" :> ("x" :> {Comparison(k, "double", <<i>>) : k \in {"LT", "GT", "EQ", "NEQ"}, i \in {1, 3}}
                       \cup {Comparison("GEQ", "double", <<1>>)}
                       \cup {Truth("double")}
          @@ "s" :> {Comparison("GT", "string", <<1, 2>>), Comparison("LT", "string", <<2>>)}))
    @@
    ("any" :> ("x" :> {Comparison("LEQ", "double", <<1>>), Comparison("LT", "double", <<0>>)}
            @@ "s" :> {Comparison("GEQ", "string", <<2>>), Comparison("NEQ", "string", <<>>)}))
    @@
    ("free" :> ("x" :> {} @@ "s" :> {Comparison("EQ", "string", <<2>>)}))
MCDisjuncts == [n \in MCNodes |-> IF n = "n" THEN 2 ELSE 1]

=============================================================================
