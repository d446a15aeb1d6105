------------------------ MODULE DeltaUpdates_proofs ------------------------
(***************************************************************************)
(* What the delta store guarantees for every loaded graph, every set of    *)
(* variables and every number of created objects. The three invariants     *)
(* are inductive together: that the store mentions only known identifiers  *)
(* is what makes the next identifier fresh, and only fresh identifiers     *)
(* keep the bindings of different variables apart.                         *)
(***************************************************************************)
EXTENDS DeltaUpdates, Collections_proofs

IInv == TypeOK /\ MentionsOnlyKnown /\ BindingsAreLocal

\* The objects bound to a variable.
Bound(v) == {newVars[v][i] : i \in DOMAIN newVars[v]}

-----------------------------------------------------------------------------
\* Known identifiers lie within the bound, and remain known when the counter
\* moves on.
LEMMA KnownIds ==
  ASSUME TypeOK
  PROVE  /\ maxId \in Nat
         /\ Known \subseteq Ids
         /\ 0 \in Known
         /\ maxId + 1 \notin Known
         /\ maxId + 1 # NoId
         /\ maxId + 1 \notin 0 .. LegacyMax
         /\ Known \subseteq 0 .. (maxId + 1)
BY LegacyMaxIsNat, MaxNewIsNat DEF TypeOK, Known, Ids, NoId

\* A deletion marks the object itself or the one that replaces it: both are
\* known when the deleted object is.
LEMMA toRemoveIsKnown ==
  ASSUME MentionsOnlyKnown, NEW x \in Known
  PROVE  toRemove(x) \in Known
BY DEF toRemove, MentionsOnlyKnown

\* The constructor establishes the invariant.
LEMMA InitIInv == Init => IInv
<1> SUFFICES ASSUME Init PROVE IInv
  OBVIOUS
<1>1. TypeOK
  <2>1. newVars \in [Vars -> Seq(Ids)]
    BY DEF Init
  <2>2. maxId \in LegacyMax .. (LegacyMax + MaxNew) /\ objs \subseteq Ids \cup {NoId}
    BY LegacyMaxIsNat, MaxNewIsNat DEF Init, Ids
  <2> QED
    BY <2>1, <2>2 DEF Init, TypeOK
<1>2. MentionsOnlyKnown
  BY LegacyMaxIsNat DEF Init, MentionsOnlyKnown, Known
<1>3. BindingsAreLocal
  BY DEF Init, BindingsAreLocal
<1> QED
  BY <1>1, <1>2, <1>3 DEF IInv

-----------------------------------------------------------------------------
(* Every operation of the store preserves the invariant.                   *)

\* Clearing the bindings empties both records of fresh objects.
LEMMA clear_insertionsIInv == IInv /\ clear_insertions => IInv'
<1> SUFFICES ASSUME IInv, clear_insertions PROVE IInv'
  OBVIOUS
<1> USE DEF IInv, clear_insertions
<1>1. TypeOK'
  BY DEF TypeOK, Ids
<1>2. MentionsOnlyKnown'
  BY DEF MentionsOnlyKnown, Known
<1>3. BindingsAreLocal'
  BY DEF BindingsAreLocal
<1> QED
  BY <1>1, <1>2, <1>3

\* A new object is bound to one variable only, and counted as fresh.
LEMMA newObjectToVariableIInv ==
  ASSUME IInv, NEW v \in Vars, newObjectToVariable(v)
  PROVE  IInv'
<1> DEFINE id == maxId + 1
<1> USE DEF IInv
<1>1. /\ id \in Ids
      /\ Known' = Known \cup {id}
  BY KnownIds, LegacyMaxIsNat, MaxNewIsNat DEF newObjectToVariable, TypeOK, Ids, Known
<1>2. TypeOK'
  <2>1. newVars' \in [Vars -> Seq(Ids)]
    BY <1>1 DEF newObjectToVariable, TypeOK, Ids
  <2>2. maxId' \in LegacyMax .. (LegacyMax + MaxNew)
    BY LegacyMaxIsNat, MaxNewIsNat DEF newObjectToVariable, TypeOK
  <2> QED
    BY <1>1, <2>1, <2>2 DEF newObjectToVariable, TypeOK, Ids
<1>3. MentionsOnlyKnown'
  BY <1>1 DEF newObjectToVariable, MentionsOnlyKnown
<1>4. BindingsAreLocal'
  <2>1. \A w \in Vars : newVars[w] \in Seq(Ids)
    BY DEF TypeOK
  <2>2. id \notin inserted
    BY KnownIds DEF MentionsOnlyKnown
  <2>3. ASSUME NEW w \in Vars, NEW i \in DOMAIN newVars[w]
        PROVE  newVars[w][i] \in inserted /\ newVars[w][i] # id
    BY <2>2 DEF BindingsAreLocal
  <2>4. ASSUME NEW w \in Vars, NEW i \in DOMAIN newVars'[w]
        PROVE  \/ i \in DOMAIN newVars[w] /\ newVars'[w][i] = newVars[w][i]
               \/ w = v /\ i = Len(newVars[v]) + 1 /\ newVars'[w][i] = id
    BY <2>1 DEF newObjectToVariable, TypeOK
  <2>5. \A w, u \in Vars : \A i \in DOMAIN newVars'[w], j \in DOMAIN newVars'[u] :
          newVars'[w][i] = newVars'[u][j] => w = u /\ i = j
    BY <2>3, <2>4 DEF BindingsAreLocal
  <2>6. \A w \in Vars : Bound(w)' = IF w = v THEN Bound(v) \cup {id} ELSE Bound(w)
    <3>1. ASSUME NEW w \in Vars, w # v
          PROVE  Bound(w)' = Bound(w)
      BY <3>1 DEF newObjectToVariable, TypeOK, Bound
    <3>2. /\ newVars'[v] = Append(newVars[v], id)
          /\ DOMAIN newVars'[v] = DOMAIN newVars[v] \cup {Len(newVars[v]) + 1}
          /\ newVars'[v][Len(newVars[v]) + 1] = id
      BY <2>1 DEF newObjectToVariable, TypeOK
    <3>3. \A i \in DOMAIN newVars[v] : newVars'[v][i] = newVars[v][i]
      BY <2>1, <3>2
    <3>4. Bound(v)' = Bound(v) \cup {id}
      BY <3>2, <3>3 DEF Bound
    <3> QED
      BY <3>1, <3>4
  <2>7. inserted = UNION {Bound(w) : w \in Vars}
    BY DEF BindingsAreLocal, Bound
  <2>8. inserted' = UNION {Bound(w)' : w \in Vars}
    BY <2>6, <2>7 DEF newObjectToVariable
  <2>9. inserted' \cap (0 .. LegacyMax) = {}
    BY KnownIds DEF newObjectToVariable, BindingsAreLocal
  <2> QED
    BY <2>5, <2>8, <2>9 DEF BindingsAreLocal, Bound
<1> QED
  BY <1>2, <1>3, <1>4

\* An entry in the delta for known objects, or for the row without a match.
LEMMA generateIdIInv ==
  ASSUME IInv, NEW xs \in SUBSET (Known \cup {NoId}), generateId(xs)
  PROVE  IInv'
<1> USE DEF IInv, generateId
<1>1. TypeOK'
  BY KnownIds DEF TypeOK, Ids
<1>2. MentionsOnlyKnown'
  BY DEF MentionsOnlyKnown, Known
<1>3. BindingsAreLocal'
  BY DEF BindingsAreLocal
<1> QED
  BY <1>1, <1>2, <1>3

\* Deletions mark known objects.
LEMMA set_removedIInv ==
  ASSUME IInv, NEW xs \in SUBSET Known, set_removed(xs)
  PROVE  IInv'
<1> USE DEF IInv
<1>1. {toRemove(x) : x \in xs} \subseteq Known
  BY toRemoveIsKnown
<1>2. TypeOK'
  BY <1>1, KnownIds DEF set_removed, TypeOK, Ids
<1>3. MentionsOnlyKnown'
  BY <1>1 DEF set_removed, MentionsOnlyKnown, Known
<1>4. BindingsAreLocal'
  BY DEF set_removed, BindingsAreLocal
<1> QED
  BY <1>2, <1>3, <1>4

\* Deleted edges are records of the loaded graph.
LEMMA edge_removedIInv ==
  ASSUME IInv, NEW es \in SUBSET EdgeIds, edge_removed(es)
  PROVE  IInv'
<1> USE DEF IInv, edge_removed
<1>1. TypeOK'
  BY DEF TypeOK, Ids
<1>2. MentionsOnlyKnown' /\ BindingsAreLocal'
  BY DEF MentionsOnlyKnown, BindingsAreLocal, Known
<1> QED
  BY <1>1, <1>2

\* A replacement leads from a known object to a known object.
LEMMA replaceWithIInv ==
  ASSUME IInv, NEW orig \in Known, NEW dest \in Known, replaceWith(orig, dest)
  PROVE  IInv'
<1> USE DEF IInv
<1>1. /\ DOMAIN repl' \subseteq DOMAIN repl \cup {orig}
      /\ \A x \in DOMAIN repl' : repl'[x] = dest \/ (x \in DOMAIN repl /\ repl'[x] = repl[x])
      /\ repl' = [x \in DOMAIN repl' |-> repl'[x]]
  BY DEF replaceWith, TypeOK
<1>2. TypeOK'
  BY <1>1, KnownIds DEF replaceWith, TypeOK, Ids
<1>3. MentionsOnlyKnown'
  BY <1>1 DEF replaceWith, MentionsOnlyKnown, Known
<1>4. BindingsAreLocal'
  BY DEF replaceWith, BindingsAreLocal
<1> QED
  BY <1>2, <1>3, <1>4

\* Every step of the store preserves the invariant.
LEMMA NextIInv == IInv /\ [Next]_vars => IInv'
<1> SUFFICES ASSUME IInv, [Next]_vars PROVE IInv'
  OBVIOUS
<1>1. CASE clear_insertions
  BY <1>1, clear_insertionsIInv
<1>2. CASE \E v \in Vars : newObjectToVariable(v)
  BY <1>2, newObjectToVariableIInv
<1>3. CASE \E xs \in SUBSET (Known \cup {NoId}) : generateId(xs)
  BY <1>3, generateIdIInv
<1>4. CASE \E xs \in SUBSET Known : set_removed(xs)
  BY <1>4, set_removedIInv
<1>5. CASE \E es \in SUBSET EdgeIds : edge_removed(es)
  BY <1>5, edge_removedIInv
<1>6. CASE \E orig, dest \in Known : replaceWith(orig, dest)
  BY <1>6, replaceWithIInv
<1>7. CASE UNCHANGED vars
  <2>1. TypeOK'
    BY <1>7 DEF IInv, vars, TypeOK, Ids
  <2>2. MentionsOnlyKnown' /\ BindingsAreLocal'
    BY <1>7 DEF IInv, vars, MentionsOnlyKnown, BindingsAreLocal, Known
  <2> QED
    BY <2>1, <2>2 DEF IInv
<1> QED
  BY <1>1, <1>2, <1>3, <1>4, <1>5, <1>6, <1>7 DEF Next

\* The conjunction of the three invariants always holds.
THEOREM Invariant == Spec => []IInv
BY InitIInv, NextIInv, PTL DEF Spec

\* The store stays well typed, whatever operations it gets.
THEOREM Typing == Spec => []TypeOK
<1>1. IInv => TypeOK
  BY DEF IInv
<1> QED
  BY <1>1, Invariant, PTL

\* No part of the store ever mentions an identifier that was not handed out: what
\* makes the next identifier of getNewObject a new one.
THEOREM OnlyKnown == Spec => []MentionsOnlyKnown
<1>1. IInv => MentionsOnlyKnown
  BY DEF IInv
<1> QED
  BY <1>1, Invariant, PTL

\* The fresh objects of an entry are those bound to its variables, each to one.
THEOREM LocalBindings == Spec => []BindingsAreLocal
<1>1. IInv => BindingsAreLocal
  BY DEF IInv
<1> QED
  BY <1>1, Invariant, PTL

-----------------------------------------------------------------------------
(* Resolution.                                                             *)

\* The replacements are a partial function on the identifiers, and resolving
\* is following it to its end.
LEMMA ResolvingFollowsReplacements ==
  ASSUME TypeOK
  PROVE  /\ Partial(repl, Ids)
         /\ \A x : replacedWith(x) = End(repl, Ids, x)
<1>1. IsFiniteSet(Ids)
  BY LegacyMaxIsNat, MaxNewIsNat, FS_Interval DEF Ids
<1>2. Partial(repl, Ids)
  BY <1>1 DEF Partial, TypeOK
<1>3. \A x : replacedWith(x) = End(repl, Ids, x)
  BY DEF replacedWith, End, Walk
<1> QED
  BY <1>2, <1>3

\* What stands for an object resolves to itself, whatever was replaced by what,
\* in any order and in cycles: the accessors may resolve what closure.h has
\* resolved before.
THEOREM Idempotent == Spec => []ResolvingIsIdempotent
<1>1. TypeOK => ResolvingIsIdempotent
  BY ResolvingFollowsReplacements, EndIsFixed, EndType DEF ResolvingIsIdempotent
<1> QED
  BY <1>1, Typing, PTL

-----------------------------------------------------------------------------
(* Action properties.                                                      *)

\* A created object has no past in the store: no deletion, replacement or
\* stored value under its identifier precedes it.
THEOREM Fresh == Spec => FreshOnCreation
<1> DEFINE New == inserted' \ inserted
           Unmentioned(x) == /\ x \notin objs \cup removed \cup DOMAIN repl \cup (0 .. LegacyMax)
                             /\ \A y \in DOMAIN repl : repl[y] # x
<1>1. ASSUME IInv, [Next]_vars PROVE \A x \in New : Unmentioned(x)
  <2>1. ASSUME NEW v \in Vars, newObjectToVariable(v) PROVE \A x \in New : Unmentioned(x)
    <3>1. New \subseteq {maxId + 1}
      BY <2>1 DEF newObjectToVariable
    <3>2. Unmentioned(maxId + 1)
      BY <1>1, KnownIds DEF IInv, MentionsOnlyKnown
    <3> QED
      BY <3>1, <3>2
  <2>2. CASE ~ \E v \in Vars : newObjectToVariable(v)
    <3>1. New = {}
      BY <1>1, <2>2 DEF Next, vars, clear_insertions, generateId, set_removed,
                        edge_removed, replaceWith
    <3> QED
      BY <3>1
  <2> QED
    BY <2>1, <2>2
<1> QED
  BY <1>1, Invariant, PTL DEF Spec, FreshOnCreation

\* A deletion mark loses its effect only to a live replacement.
THEOREM Undelete == Spec => OnlyLiveObjectsUndelete
<1>1. [Next]_vars =>
        \A x \in removed :
          (hasXBeenRemoved(x) /\ ~hasXBeenRemoved(x)')
            => x \in DOMAIN repl' /\ repl'[x] \notin removed'
  <2> SUFFICES ASSUME [Next]_vars, NEW x \in removed,
                      hasXBeenRemoved(x), ~hasXBeenRemoved(x)'
               PROVE  x \in DOMAIN repl' /\ repl'[x] \notin removed'
    OBVIOUS
  <2>1. x \in removed'
    BY DEF Next, vars, clear_insertions, newObjectToVariable, generateId,
           set_removed, edge_removed, replaceWith
  <2>2. x \notin DOMAIN repl /\ x \in DOMAIN repl'
    BY <2>1 DEF hasXBeenRemoved
  <2>3. PICK orig, dest \in Known : replaceWith(orig, dest)
    BY <2>2 DEF Next, vars, clear_insertions, newObjectToVariable, generateId,
                set_removed, edge_removed
  <2>4. dest \notin removed /\ x = orig /\ repl'[x] = dest
    BY <2>2, <2>3 DEF replaceWith
  <2> QED
    BY <2>2, <2>3, <2>4 DEF replaceWith
<1> QED
  BY <1>1, PTL DEF Spec, OnlyLiveObjectsUndelete
=============================================================================
