---------------------------- MODULE DeltaUpdates ----------------------------
(***************************************************************************)
(* The delta store of one graph: what the rewriting engine has decided so  *)
(* far about a graph that itself is never modified (struct delta_updates,  *)
(* src/include/queries/delta_updates.h).                                   *)
(*                                                                         *)
(* Objects of the loaded graph have the identifiers 0 .. LegacyMax; the    *)
(* store hands out the next identifiers to the objects a query creates,    *)
(* and records which objects and containment edges are deleted and which   *)
(* object stands for which other one from now on.                          *)
(***************************************************************************)
EXTENDS Integers, Sequences

CONSTANTS
  LegacyMax,  \* the largest object identifier of the loaded graph
  MaxNew,     \* bound: how many objects a behaviour may create
  Vars,       \* the node variables of a query
  EdgeIds     \* the record identifiers of the loaded containment edges

ASSUME LegacyMaxIsNat == LegacyMax \in Nat
ASSUME MaxNewIsNat == MaxNew \in Nat

VARIABLES
  maxId,         \* delta_plus_db.max_id
  objs,          \* the keys of delta_plus_db.O
  newVars,       \* newly_inserted_vertices: a variable's fresh objects
  inserted,      \* newIterationInsertedObjects
  removed,       \* removed_objects
  removedEdges,  \* removed_edges
  repl           \* replacement_map, a partial function

vars == <<maxId, objs, newVars, inserted, removed, removedEdges, repl>>

Ids   == 0 .. (LegacyMax + MaxNew)
Known == 0 .. maxId

\* (size_t)-1, what a row without a match gives for a variable. Assigning to
\* such a variable stores an object under this key.
NoId == -1

-----------------------------------------------------------------------------
(* Mutated forms of the definitions below: each is the definition with one *)
(* plausible slip, and some property of this module must tell it apart.    *)

\* one step along the replacements instead of the whole chain
replacedWithOneHop(x) == IF x \in DOMAIN repl THEN repl[x] ELSE x

\* the constructor does not pass on the largest loaded identifier
InitFromZero ==
  /\ maxId = 0
  /\ objs = {0}
  /\ newVars = [v \in Vars |-> <<>>]
  /\ inserted = {}
  /\ removed = {}
  /\ removedEdges = {}
  /\ repl = [x \in {} |-> 0]

\* only the bindings are cleared, the set of fresh objects is not
clearBindingsOnly ==
  /\ newVars' = [v \in Vars |-> <<>>]
  /\ UNCHANGED <<maxId, objs, inserted, removed, removedEdges, repl>>

\* the identifier is used before the counter moves on
newObjectPostIncrement(v) ==
  /\ maxId < LegacyMax + MaxNew
  /\ maxId' = maxId + 1
  /\ objs' = objs \cup {maxId}
  /\ newVars' = [newVars EXCEPT ![v] = Append(@, maxId)]
  /\ inserted' = inserted \cup {maxId}
  /\ UNCHANGED <<removed, removedEdges, repl>>

\* the counter does not move on
newObjectNoIncrement(v) ==
  /\ maxId < LegacyMax + MaxNew
  /\ objs' = objs \cup {maxId + 1}
  /\ newVars' = [newVars EXCEPT ![v] = Append(@, maxId + 1)]
  /\ inserted' = inserted \cup {maxId + 1}
  /\ UNCHANGED <<maxId, removed, removedEdges, repl>>

\* a deleted object may become a replacement
replaceWithUnguarded(orig, dest) ==
  /\ repl' = IF orig = dest
             THEN repl
             ELSE [x \in DOMAIN repl \cup {orig} |->
                     IF x = orig THEN dest ELSE repl[x]]
  /\ UNCHANGED <<maxId, objs, newVars, inserted, removed, removedEdges>>

\* one replacement is followed, as in an earlier version of resolve_content
resolveOneHop(x) == IF x \in DOMAIN repl /\ repl[x] \notin inserted THEN repl[x] ELSE x

-----------------------------------------------------------------------------
(* Queries on the store.                                                   *)

\* The object that stands for x: the end of the replacement chain, or the
\* first object met twice when the chain runs into a cycle.
replacedWith(x) ==
  LET walk[at \in Ids \X SUBSET Ids] ==
        LET y == at[1]
            met == at[2]
        IN IF y \notin DOMAIN repl THEN y
           ELSE IF repl[y] \in met THEN repl[y]
           ELSE walk[<<repl[y], met \cup {repl[y]}>>]
  IN walk[<<x, {x}>>]

\* A deleted object that has a replacement is not treated as deleted.
hasXBeenRemoved(x) == x \notin DOMAIN repl /\ x \in removed

\* What a deletion of x marks: its direct replacement, unless that object was
\* created by the entry being processed.
toRemove(x) ==
  IF x \in DOMAIN repl /\ repl[x] \notin inserted THEN repl[x] ELSE x

\* The object an expression over x reads or writes. Objects created by the
\* entry being processed do not yet stand for anything.
resolve(x) == IF replacedWith(x) \in inserted THEN x ELSE replacedWith(x)

-----------------------------------------------------------------------------
(* Updates.                                                                *)

\* The constructor. gsm_inmemory_db's default constructor stores an object 0
\* in the delta before anything has been inserted.
Init ==
  /\ maxId = LegacyMax
  /\ objs = {0}
  /\ newVars = [v \in Vars |-> <<>>]
  /\ inserted = {}
  /\ removed = {}
  /\ removedEdges = {}
  /\ repl = [x \in {} |-> 0]

clear_insertions ==
  /\ newVars' = [v \in Vars |-> <<>>]
  /\ inserted' = {}
  /\ UNCHANGED <<maxId, objs, removed, removedEdges, repl>>

\* getNewObject followed by associateNewToVar.
newObjectToVariable(v) ==
  /\ maxId < LegacyMax + MaxNew
  /\ maxId' = maxId + 1
  /\ objs' = objs \cup {maxId'}
  /\ newVars' = [newVars EXCEPT ![v] = Append(@, maxId')]
  /\ inserted' = inserted \cup {maxId'}
  /\ UNCHANGED <<removed, removedEdges, repl>>

\* An assignment gives every object whose values it sets an entry in the
\* delta: delta_plus_db.generateId is called once for each of them.
generateId(xs) ==
  /\ objs' = objs \cup xs
  /\ UNCHANGED <<maxId, newVars, inserted, removed, removedEdges, repl>>

\* A deletion calls set_removed once for every object bound to the variable;
\* the calls are independent of one another.
set_removed(xs) ==
  /\ removed' = removed \cup {toRemove(x) : x \in xs}
  /\ UNCHANGED <<maxId, objs, newVars, inserted, removedEdges, repl>>

edge_removed(es) ==
  /\ removedEdges' = removedEdges \cup es
  /\ UNCHANGED <<maxId, objs, newVars, inserted, removed, repl>>

replaceWith(orig, dest) ==
  /\ repl' = IF dest \in removed \/ orig = dest
             THEN repl
             ELSE [x \in DOMAIN repl \cup {orig} |->
                     IF x = orig THEN dest ELSE repl[x]]
  /\ UNCHANGED <<maxId, objs, newVars, inserted, removed, removedEdges>>

\* The store accepts its operations in any order, on any identifier it has
\* handed out or that belongs to the loaded graph.
Next ==
  \/ clear_insertions
  \/ \E v \in Vars : newObjectToVariable(v)
  \/ \E xs \in SUBSET (Known \cup {NoId}) : generateId(xs)
  \/ \E xs \in SUBSET Known : set_removed(xs)
  \/ \E es \in SUBSET EdgeIds : edge_removed(es)
  \/ \E orig, dest \in Known : replaceWith(orig, dest)

Spec == Init /\ [][Next]_vars

-----------------------------------------------------------------------------
(* Properties.                                                             *)

TypeOK ==
  /\ maxId \in LegacyMax .. (LegacyMax + MaxNew)
  /\ objs \subseteq Ids \cup {NoId}
  /\ newVars \in [Vars -> Seq(Ids)]
  /\ inserted \subseteq Ids
  /\ removed \subseteq Ids
  /\ removedEdges \subseteq EdgeIds
  /\ DOMAIN repl \subseteq Ids
  /\ repl \in [DOMAIN repl -> Ids]

\* Every identifier the store mentions anywhere belongs to the loaded graph
\* or was handed out: the next identifier is unknown to all of its parts.
MentionsOnlyKnown ==
  /\ objs \subseteq Known \cup {NoId}
  /\ inserted \cup removed \cup DOMAIN repl \subseteq Known
  /\ \A x \in DOMAIN repl : repl[x] \in Known

\* Fresh objects are bound to one variable, once, and none of them belongs to
\* the loaded graph: resolving a variable never yields another one's object.
BindingsAreLocal ==
  /\ inserted = UNION {{newVars[v][i] : i \in DOMAIN newVars[v]} : v \in Vars}
  /\ \A v, w \in Vars : \A i \in DOMAIN newVars[v], j \in DOMAIN newVars[w] :
        newVars[v][i] = newVars[w][j] => v = w /\ i = j
  /\ inserted \cap (0 .. LegacyMax) = {}

\* Resolving twice is resolving once, chains that end in a cycle included:
\* closure.h resolves the identifiers of a match, and every accessor resolves
\* its argument again.
ResolvingIsIdempotent ==
  \A x \in Ids : replacedWith(replacedWith(x)) = replacedWith(x)

\* An identifier handed out to a new object was not mentioned by any part of
\* the store before: an old deletion or replacement never applies to it.
FreshOnCreation ==
  [][\A x \in inserted' \ inserted :
       /\ x \notin objs \cup removed \cup DOMAIN repl \cup (0 .. LegacyMax)
       /\ \A y \in DOMAIN repl : repl[y] # x]_vars

\* A deleted object that stops counting as deleted does so because something
\* that is not deleted was put in its place, never by losing its mark: the
\* order "delete x, then let d replace x" is the one the rewriting rules use.
OnlyLiveObjectsUndelete ==
  [][\A x \in removed :
       (hasXBeenRemoved(x) /\ ~hasXBeenRemoved(x)')
         => x \in DOMAIN repl' /\ repl'[x] \notin removed']_vars
=============================================================================
