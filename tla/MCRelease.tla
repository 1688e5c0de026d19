------------------------------ MODULE MCRelease ------------------------------
(* An instance of Release for TLC: the releases before and after            *)
(* conversations were added.                                                *)
EXTENDS Release, TLC

CONSTANTS v1, v2

MCTags == {v1, v2}

MCHeadOf == (v1 :> 1) @@ (v2 :> 2)
=============================================================================
