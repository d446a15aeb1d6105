--------------------------- MODULE MCDeltaUpdates ---------------------------
(***************************************************************************)
(* The delta store under every order of its operations: a graph of two     *)
(* objects, two creations, one variable binding per creation.              *)
(***************************************************************************)
EXTENDS DeltaUpdates, TLC

VarSymmetry == Permutations(Vars)
=============================================================================
