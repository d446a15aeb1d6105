---------------------------- MODULE Collections ----------------------------
(***************************************************************************)
(* The containers of the implementation: dictionaries (unordered_map) as   *)
(* partial functions, vectors as sequences, ordered sets (std::set, and    *)
(* vectors after remove_duplicates) as ascending sequences.                *)
(***************************************************************************)
EXTENDS Integers, Sequences, FiniteSets, Functions

IsSeq(s) == s \in Seq(Range(s))

\* f, and g where f is not defined.
Merge(f, g) == [x \in DOMAIN f \cup DOMAIN g |-> IF x \in DOMAIN f THEN f[x] ELSE g[x]]

Bind(v, x, f) == Merge([w \in {v} |-> x], f)

\* The elements of a finite set of integers in ascending order.
Ascending(S) ==
  [i \in 1 .. Cardinality(S) |->
     CHOOSE x \in S : Cardinality({y \in S : y < x}) = i - 1]

\* The elements of s at the positions I.
Select(s, I) ==
  LET positions == Ascending(I) IN [k \in 1 .. Cardinality(I) |-> s[positions[k]]]
=============================================================================
