----------------------------- MODULE MCSessions -----------------------------
(* Instances of Sessions for TLC. *)
EXTENDS Sessions, TLC

Symmetry == Permutations(Tabs) \cup Permutations(Emails) \cup Permutations(Requests)
=============================================================================
