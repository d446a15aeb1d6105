--------------------------- MODULE DataPredicates ---------------------------
(***************************************************************************)
(* Conditions over one property: the struct DataPredicate of               *)
(* src/queries/DataPredicate.cpp.  A condition compares the property with  *)
(* a literal, or is an interval with exceptions; conditions on the same    *)
(* property are conjoined by intersect_with, and cut into plain intervals  *)
(* by decompose_single_variable_into_intervals.                            *)
(*                                                                         *)
(* Values are sequences of numbers under the lexicographic order: a string *)
(* is the sequence of its characters, a double is the sequence of its rank *)
(* among the doubles.  The empty sequence, the default of a bound that was *)
(* never set, comes before every double, as std::variant orders an empty   *)
(* string before any double.                                               *)
(***************************************************************************)
EXTENDS Integers, Sequences, FiniteSets, SequencesExt

CONSTANTS
    \* The rank of the largest double; the smallest has rank 0.
    MaxDouble,
    \* The largest character, and the one MAX_STRING is made of: the code's
    \* strings are ordered up to 255, its MAX_STRING repeats the character 127.
    MaxChar, CharLimit,
    \* MAXIMUM_STRING_LENGTH
    MaxLength

ASSUME DataPredicatesAssumption ==
    /\ MaxDouble \in Nat
    /\ MaxChar \in Nat
    /\ MaxLength \in Nat \ {0}
    /\ CharLimit \in 1..MaxChar

Doubles == {<<n>> : n \in 0..MaxDouble}
Strings == BoundedSeq(1..MaxChar, MaxLength)

\* A sequence comes before another where they differ first, or where it ends.
Precedes(a, b) ==
    \E i \in 1..Len(b) : /\ i <= Len(a) + 1
                         /\ \A j \in 1..(i - 1) : a[j] = b[j]
                         /\ i <= Len(a) => a[i] < b[i]

\* The order of the values, as a table.
Order == {p \in (Strings \cup Doubles) \X (Strings \cup Doubles) : Precedes(p[1], p[2])}

Less(a, b) == <<a, b>> \in Order

AtMost(a, b) == <<b, a>> \notin Order

\* A set of values in increasing order, as std::set keeps them.
Increasing(S) ==
    [k \in 1..Cardinality(S) |-> CHOOSE x \in S : Cardinality({y \in S : Less(y, x)}) = k - 1]

Lesser(a, b) == IF Less(b, a) THEN b ELSE a
Greater(a, b) == IF Less(a, b) THEN b ELSE a

(***************************************************************************)
(* The neighbours of a value, saturating at the ends of its type.          *)
(***************************************************************************)
MAX_STRING == [i \in 1..MaxLength |-> CharLimit]

\* mutant: prev_char that does not fill the string up after lowering its last character
prev_charUnpadded(s) ==
    IF s = <<>> THEN s
    ELSE IF Last(s) = 1 THEN Front(s)
    ELSE [s EXCEPT ![Len(s)] = @ - 1]

prev_char(s) ==
    IF s = <<>> THEN s
    ELSE IF Last(s) = 1 THEN Front(s)
    ELSE [i \in 1..MaxLength |-> IF i < Len(s) THEN s[i]
                                 ELSE IF i = Len(s) THEN s[i] - 1 ELSE MaxChar]

next_char(s) ==
    LET open == {i \in DOMAIN s : s[i] # MaxChar}
        last == CHOOSE i \in open : \A j \in open : j <= i
    IN  IF s = MAX_STRING THEN s
        ELSE IF Len(s) < MaxLength THEN Append(s, 1)
        ELSE IF open = {} THEN MAX_STRING
        ELSE [SubSeq(s, 1, last) EXCEPT ![last] = @ + 1]

prev_double(x) == IF x[1] = 0 THEN x ELSE <<x[1] - 1>>
next_double(x) == IF x[1] = MaxDouble THEN x ELSE <<x[1] + 1>>

Values(type) == IF type = "string" THEN Strings ELSE Doubles
Lowest(type) == IF type = "string" THEN <<>> ELSE <<0>>
Highest(type) == IF type = "string" THEN MAX_STRING ELSE <<MaxDouble>>
prev_of(type, x) == IF type = "string" THEN prev_char(x) ELSE prev_double(x)
next_of(type, x) == IF type = "string" THEN next_char(x) ELSE next_double(x)

Bounded(type) == {x \in Values(type) : AtMost(x, Highest(type))}

(***************************************************************************)
(* Conditions.  upper and exceptions mean something for intervals only.    *)
(***************************************************************************)
Comparisons == {"LT", "GT", "LEQ", "GEQ", "EQ", "NEQ"}

Comparison(casusu, type, value) ==
    [casusu |-> casusu, type |-> type, value |-> value, upper |-> <<>>, exceptions |-> {}]

Truth(type) == Comparison("TTRUE", type, <<>>)

Interval(p, lo, hi, out) ==
    [p EXCEPT !.casusu = "INTERVAL", !.value = lo, !.upper = hi, !.exceptions = out]

\* The conditions a caller writes: no exceptions, and literals within the type.
Conditions(type) ==
    {Truth(type)}
    \cup {Comparison(k, type, x) : k \in Comparisons, x \in Bounded(type)}
    \cup {Interval(Truth(type), lo, hi, {}) : lo \in Bounded(type), hi \in Bounded(type)}

asInterval(p) ==
    LET min == Lowest(p.type)
        max == Highest(p.type)
        v == p.value
    IN  CASE p.casusu = "LT" -> Interval(p, min, prev_of(p.type, v), p.exceptions)
          [] p.casusu = "GT" -> Interval(p, next_of(p.type, v), max, p.exceptions)
          [] p.casusu = "LEQ" -> Interval(p, min, v, p.exceptions)
          [] p.casusu = "GEQ" -> Interval(p, v, max, p.exceptions)
          [] p.casusu = "EQ" -> Interval(p, v, v, p.exceptions)
          [] p.casusu = "NEQ" -> Interval(p, min, max, p.exceptions \cup {v})
          [] OTHER -> p

\* The outcome of intersect_with: whether something is left, and the condition.
Outcome(ok, p) == [ok |-> ok, pred |-> p]

IntersectIntervals(p, q) ==
    LET lo == Greater(p.value, q.value)
        hi == Lesser(p.upper, q.upper)
        within == {x \in p.exceptions \cup q.exceptions : AtMost(lo, x) /\ AtMost(x, hi)}
    IN  IF Less(hi, lo) THEN Outcome(FALSE, Interval(p, lo, hi, p.exceptions))
        ELSE Outcome(TRUE, Interval(p, lo, hi, within))

\* Two conditions of one kind.  Two inequations become an interval whose
\* bounds are not set: the first literal, and the default upper bound.
IntersectAlike(p, q) ==
    CASE p.casusu \in {"LT", "LEQ"} -> Outcome(TRUE, [p EXCEPT !.value = Lesser(@, q.value)])
      [] p.casusu \in {"GT", "GEQ"} -> Outcome(TRUE, [p EXCEPT !.value = Greater(@, q.value)])
      [] p.casusu = "NEQ" ->
            Outcome(TRUE, Interval(p, p.value, p.upper, p.exceptions \cup {p.value, q.value}))
      [] p.casusu = "INTERVAL" -> IntersectIntervals(p, q)
      [] OTHER -> Outcome(TRUE, p)

\* mutant: intersect_with that converts itself and not the other condition
intersect_withOneConverted(p, q) ==
    IF q.casusu = "TTRUE" THEN Outcome(TRUE, p)
    ELSE IF p.casusu = "TTRUE" THEN Outcome(TRUE, q)
    ELSE IF p.casusu = q.casusu THEN IntersectAlike(p, q)
    ELSE IntersectIntervals(asInterval(p), q)

intersect_with(p, q) ==
    IF q.casusu = "TTRUE" THEN Outcome(TRUE, p)
    ELSE IF q.casusu = "FFALSE" THEN Outcome(FALSE, p)
    ELSE IF p.casusu = "TTRUE" THEN Outcome(TRUE, q)
    ELSE IF p.casusu = q.casusu THEN IntersectAlike(p, q)
    ELSE IntersectIntervals(asInterval(p), asInterval(q))

testOverSingleVariable(p, x) ==
    CASE p.casusu = "TTRUE" -> TRUE
      [] p.casusu = "FFALSE" -> FALSE
      [] p.casusu = "LT" -> Less(x, p.value)
      [] p.casusu = "GT" -> Less(p.value, x)
      [] p.casusu = "LEQ" -> AtMost(x, p.value)
      [] p.casusu = "GEQ" -> AtMost(p.value, x)
      [] p.casusu = "EQ" -> x = p.value
      [] p.casusu = "NEQ" -> x # p.value
      [] p.casusu = "INTERVAL" -> /\ p.value \notin p.exceptions
                                  /\ AtMost(p.value, x)
                                  /\ AtMost(x, p.upper)

(***************************************************************************)
(* The intervals of a condition, as pairs of bounds.  After an exception   *)
(* the next interval starts at the value BEFORE the exception.             *)
(***************************************************************************)
\* mutant: SplitAtExceptions that forgets what comes after the last exception, as the
\* variant "with missing" does after a single one
SplitBeforeExceptions(p) ==
    LET cuts == Increasing(p.exceptions)
        from(i) == IF i = 1 THEN p.value ELSE prev_of(p.type, cuts[i - 1])
    IN  {<<from(i), prev_of(p.type, cuts[i])>> : i \in DOMAIN cuts}

SplitAtExceptions(p) ==
    LET cuts == Increasing(p.exceptions)
        from(i) == IF i = 0 THEN p.value ELSE prev_of(p.type, cuts[i])
        to(i) == IF i = Len(cuts) THEN p.upper ELSE prev_of(p.type, cuts[i + 1])
    IN  {<<from(i), to(i)>> : i \in 0..Len(cuts)}

decompose_single_variable_into_intervals(p) ==
    LET min == Lowest(p.type)
        max == Highest(p.type)
        before == prev_of(p.type, p.value)
        after == next_of(p.type, p.value)
    IN  CASE p.casusu = "LT" -> {<<min, before>>}
          [] p.casusu = "GT" -> {<<after, max>>}
          [] p.casusu = "LEQ" -> {<<min, p.value>>}
          [] p.casusu = "GEQ" -> {<<p.value, max>>}
          [] p.casusu = "EQ" -> {<<p.value, p.value>>}
          [] p.casusu = "NEQ" -> {<<min, before>>, <<after, max>>}
          [] p.casusu = "INTERVAL" /\ p.exceptions = {} -> {<<p.value, p.upper>>}
          [] p.casusu = "INTERVAL" /\ p.exceptions # {} -> SplitAtExceptions(p)

\* The condition asInterval complains about: bounds in the wrong order.
IsCritical(p) == p.casusu = "INTERVAL" /\ Less(p.upper, p.value)

=============================================================================
