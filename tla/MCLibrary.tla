----------------------------- MODULE MCLibrary -----------------------------
(* An instance of Library for TLC. *)
EXTENDS Library, TLC

Symmetry == Permutations(Requests) \cup Permutations(Convs)
=============================================================================
