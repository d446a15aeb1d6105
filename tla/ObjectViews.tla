---------------------------- MODULE ObjectViews ----------------------------
(* What an expression sees of an object: the loaded database under the      *)
(* updates of the patterns that ran before (closure.h, phi_keys to          *)
(* resolve_ellxi). The updates are a record d:                              *)
(*   d.repl     object |-> the object that replaces it, one step            *)
(*   d.removed  the deleted objects                                         *)
(*   d.fresh    the objects created by the entry being processed            *)
(*   d.plus     object |-> what the updates store for it                    *)
(* An object is a record [ell, xi: sequences of strings, content: property  *)
(* name |-> value, phi: containment label |-> sequence of [id, score]].     *)
EXTENDS Integers, Sequences, SequencesExt

CONSTANT Loaded     \* the loaded objects, identifier |-> object

NoObject == [ell |-> <<>>, xi |-> <<>>, content |-> <<>>, phi |-> <<>>]

loaded(x) == IF x \in DOMAIN Loaded THEN Loaded[x] ELSE NoObject

\* What the updates store for x, as far as they store something.
added(d, x) == IF x \in DOMAIN d.plus THEN d.plus[x] ELSE NoObject

\* The end of the chain of replacements, or the first object met twice.
replacedWith(d, x) ==
  LET walk[y \in DOMAIN d.repl \cup {x} \cup {d.repl[z] : z \in DOMAIN d.repl},
           met \in SUBSET (DOMAIN d.repl \cup {x} \cup {d.repl[z] : z \in DOMAIN d.repl})] ==
        IF y \notin DOMAIN d.repl THEN y
        ELSE IF d.repl[y] \in met THEN d.repl[y]
        ELSE walk[d.repl[y], met \cup {d.repl[y]}]
  IN walk[x, {x}]

hasXBeenRemoved(d, x) == x \in d.removed /\ x \notin DOMAIN d.repl

\* The object whose data an expression over x reads.
standing(d, x) ==
  IF replacedWith(d, x) \in d.fresh THEN x ELSE replacedWith(d, x)

-----------------------------------------------------------------------------
\* The loaded objects that are contained now: replaced where they were
\* replaced, without the deleted ones, each once if one was replaced.
Contained(d, cs) ==
  LET now == [i \in DOMAIN cs |-> [cs[i] EXCEPT !.id = replacedWith(d, @)]]
      left == SelectSeq(now, LAMBDA c : ~hasXBeenRemoved(d, c.id))
  IN IF now = cs THEN left ELSE SetToSortSeq(ToSet(left),
          LAMBDA a, b : a.id < b.id \/ (a.id = b.id /\ a.score < b.score))

\* What the updates store under a label hides what was loaded under it.
resolve_content(d, x, label) ==
  LET y == standing(d, x)
  IN IF hasXBeenRemoved(d, y) THEN <<>>
     ELSE IF label \in DOMAIN added(d, y).phi THEN added(d, y).phi[label]
     ELSE IF label \in DOMAIN loaded(y).phi
       THEN Contained(d, loaded(y).phi[label]) ELSE <<>>

\* The containment labels under which something is left.
phi_keys(d, x) ==
  LET y == standing(d, x)
      left(o, l) == \E i \in DOMAIN o.phi[l] :
                      ~hasXBeenRemoved(d, standing(d, o.phi[l][i].id))
  IN IF hasXBeenRemoved(d, y) THEN {}
     ELSE {l \in DOMAIN added(d, y).phi : left(added(d, y), l)}
          \cup {l \in DOMAIN loaded(y).phi : left(loaded(y), l)}

\* The labels and the values of an object, isXi telling which.
resolve_ellxi(d, x, isXi) ==
  LET y == standing(d, x)
      of(o) == IF isXi THEN o.xi ELSE o.ell
  IN IF hasXBeenRemoved(d, y) THEN <<>>
     ELSE IF of(added(d, y)) # <<>> THEN of(added(d, y)) ELSE of(loaded(y))

resolve_ell(d, x) == resolve_ellxi(d, x, FALSE)
resolve_xi(d, x) == resolve_ellxi(d, x, TRUE)

-----------------------------------------------------------------------------
NoProperty == [t |-> "NoProperty"]
EmptyText == [t |-> "String", s |-> ""]

\* The value under a key in the updates or else in the loaded object.
Property(d, y, key) ==
  IF key \in DOMAIN added(d, y).content THEN added(d, y).content[key]
  ELSE IF key \in DOMAIN loaded(y).content THEN loaded(y).content[key]
  ELSE NoProperty

\* The property a test or an assignment reads. It does not follow the
\* replacements, unlike all the others.
resolve_prop(d, x, key) ==
  IF hasXBeenRemoved(d, x) \/ Property(d, x, key) = NoProperty THEN EmptyText
  ELSE Property(d, x, key)

\* The property a script reads; a deleted object has an empty text for it.
resolve_GoodProp(d, x, key) ==
  LET y == standing(d, x)
  IN IF hasXBeenRemoved(d, y) THEN EmptyText ELSE Property(d, y, key)

\* The names of the properties a script sees.
objProperties(d, x) ==
  LET y == standing(d, x)
  IN IF hasXBeenRemoved(d, y) THEN {}
     ELSE DOMAIN added(d, y).content \cup DOMAIN loaded(y).content
=============================================================================
